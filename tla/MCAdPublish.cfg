\* All three platforms, a node run twice.
CONSTANT MaxAttempts = 2
SPECIFICATION FairSpec
INVARIANTS RollbackComplete FailedPublishNeverDelivers SuccessIsWhole
PROPERTY EveryRunEnds
CHECK_DEADLOCK FALSE
