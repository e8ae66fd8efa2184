\* Three attempts, the default of the schema; two calls, or one that a crash repeats.
CONSTANTS
  MaxAttempts = 3
  LastCall = 2
  MaxRuns = 2
  WorkflowRuns <- MCWorkflowRuns
  Bodies <- MCBodies
  Plans <- MCPlans
SPECIFICATION FairSpec
INVARIANTS NothingLeft SideEffectOnce GivesUpExhausted
PROPERTIES NoRetryAfterAbort RunEnds
CHECK_DEADLOCK FALSE
