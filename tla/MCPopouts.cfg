CONSTANTS
  Levels = {1}
  Quantities = {1, 2}
  Intervals = {1, 2}
  CleanupThreshold = 1
  CleanupBatch = 1
  Similarity = 50
  MaxMoment = 4
  MaxSnapshots = 3
  Tapes <- MCTapes
  Bases <- MCBases
  Views <- MCViews
  Steps = {1, 2}
  Midnight = 2
  BatchSize = 2
  MaxRaw = 4
  MaxAnswers = 1
  long = long
  Typed = {long}
  Room <- MCRoom
  DefaultPanes = 1
  ApiOn = {"main"}
  MaxLayouts = 2
  MaxPanes = 3
  MaxWindows = 2
  Budgets <- MCBudgets
SPECIFICATION Spec
PROPERTY ClosedWindowsGiveBack
CHECK_DEADLOCK FALSE
