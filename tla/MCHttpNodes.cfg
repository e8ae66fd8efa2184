\* Three callers of a breaker that opens at the second failure, and every other node.
CONSTANTS
  Callers = {c1, c2, c3}
  NoObject = NoObject
  Threshold = 2
  Cooldown = 2
  MaxClock = 3
  MaxCalls = 2
  NoAnswer = NoAnswer
  MaxTries = 3
  LongestTimer = 5
  MaxPages = 4
  PageSize = 2
  MaxItems = 6
  Streams <- MCStreams
  Documents <- MCDocuments
  MaxPushed = 2
SPECIFICATION Spec
INVARIANTS BreakerShieldsRemote EndsAtFirstGoodAnswer PagesCoverTheList StreamIsChunkBlind
PROPERTIES OpenCircuitStaysOpen
CHECK_DEADLOCK FALSE
