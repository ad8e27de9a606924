SPECIFICATION DeskSpec
CONSTANTS
  MinCols = 2
  MinRows = 1
  Step = 40
  Windows <- TwoWindows
  Profiles = {"p"}
  AdHoc = "adhoc"
  Workspaces <- TwoWorkspaces
  Budgets <- FewBudgets
INVARIANTS ReferencesHold GridShared RoundTrip
PROPERTIES NobodyForgotten
CHECK_DEADLOCK FALSE
