---------------------------- MODULE MCAdPublish ----------------------------
(* AdPublish for TLC: the bound on the runs is all it needs. *)
EXTENDS AdPublish
=============================================================================
