---------------------------- MODULE MCHttpFetch ----------------------------
(* HttpFetch for TLC: two calls, the second with the body and the workflow run
   of the first or with another. *)
EXTENDS HttpFetch

MCWorkflowRuns == {"r1", "r2"}
MCBodies == {"b1", "b2"}
MCPlans == {[c \in Calls |-> IF c = 1 THEN [run |-> "r1", body |-> "b1"] ELSE second] : second \in Call}
=============================================================================
