SPECIFICATION Spec
CONSTANTS
  a = a
  b = b
  Items = {a, b}
  Actions <- MergeAndFix
  Merged = {a}
  Tracked = {a}
  Limit = 2
  Slots = {1, 2}
  RouteCap = 2
  Budget = 4
  AgentNeed = 2
  MergeNeed = 1
  OtherNeed = 2
CHECK_DEADLOCK FALSE
INVARIANTS
  WithinBudget
  OneWorkerPerItem
PROPERTIES
  FailedNotRetried
  BatchEnds
