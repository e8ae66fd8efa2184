---------------------------- MODULE MCHttpNodes ----------------------------
(***************************************************************************)
(* HttpNodes for TLC. The streams have events of several lines, fields, a    *)
(* line without a field, empty lines in a row and an event without an end.   *)
(***************************************************************************)
EXTENDS HttpNodes

MCStreams ==
  { <<"data:", "x", "nl", "nl", "id:", "y", "nl", "data:", "nl", "data:", "x", "nl", "nl", "data:", "y">>,
    <<"nl", "nl", "nl", "x", "nl", "data:", "x", "nl", "data:", "y", "nl", "nl", "nl">> }

MCDocuments ==
  { <<>>,
    <<[route |-> "/a/{id}", method |-> "GET", id |-> "get", params |-> {"id"}],
      [route |-> "/b", method |-> "PUT", id |-> "put", params |-> {}],
      [route |-> "/c", method |-> "PUT", id |-> "get", params |-> {}]>> }
=============================================================================
