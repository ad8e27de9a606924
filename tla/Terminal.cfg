SPECIFICATION Spec
CONSTANTS
  ScrollbackMax = 2
  RowIds = 50
  Scenarios <- ManyScenarios
  Sizes <- TwoSizes
  Counts = {1, 2}
  MaxBlocks = 3
INVARIANTS BlocksSound FoldHidesOnlyOutput
PROPERTIES ScreenHolds BlocksFollowRows
CHECK_DEADLOCK FALSE
