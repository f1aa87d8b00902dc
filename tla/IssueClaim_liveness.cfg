SPECIFICATION FairSpec
CONSTANTS
  a = a
  b = b
  p = p
  Loops = {a, b}
  Persons = {}
  Priority <- NoPriority
  TargetKind = "issue"
  TTL = 2
  Verify = 1
  MaxDelay = 0
  Managed = {a}
  Steady = {b}
  QuickRetry = FALSE
  Faults = 2
PROPERTY AlwaysTakenAgain
