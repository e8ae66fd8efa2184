--------------------------- MODULE MCApprovalGate ---------------------------
(* ApprovalGate for TLC: which verbs an older resolver sends. *)
EXTENDS ApprovalGate

MCNoDecisions == {}
MCDecisions == {"approve", "reject", "request-changes"}
=============================================================================
