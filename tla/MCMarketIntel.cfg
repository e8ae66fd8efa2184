CONSTANTS
  Missing = Missing
  Thrown = Thrown
  Prose = Prose
  MaxEntries = 3
  Inputs <- MCInputs
  Replies <- MCReplies
SPECIFICATION Spec
INVARIANT SummariesCountOutputs
CHECK_DEADLOCK FALSE
