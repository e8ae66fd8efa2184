CONSTANTS
  Missing = Missing
  Inputs <- MCInputs
  Lower <- MCLower
  Upper <- MCUpper
  Title <- MCTitle
  Holds <- MCHolds
  MaxRuns = 2
SPECIFICATION Spec
INVARIANTS BriefKeepsItsCore PlanKeepsItsWord SlugsTellApart PlanIsSpread FixesHold ReportsAddUp
CHECK_DEADLOCK FALSE
