\* The card of a second artifact.
CONSTANTS
  MaxVisits = 2
  MaxIterations = 1
  MaxCount = 3
  Decisions <- MCNoDecisions
SPECIFICATION GateSpec
INVARIANT ApprovedWasShown
CHECK_DEADLOCK FALSE
