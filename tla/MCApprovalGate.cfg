\* Every configuration with up to one refinement, one visit more than it allows, and
\* two refinements counted for nothing; answers that carry both verbs.
CONSTANTS
  MaxVisits = 3
  MaxIterations = 1
  MaxCount = 3
  Decisions <- MCDecisions
SPECIFICATION GateFairSpec
INVARIANTS RefinementsBounded HistoryFaithful DeliveredWasApproved DeclinedWasDeclined
PROPERTY GateEnds
CHECK_DEADLOCK FALSE
