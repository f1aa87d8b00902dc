SPECIFICATION Spec
CONSTANTS
  a = a
  b = b
  p = p
  Loops = {a, b}
  Persons = {p}
  Priority <- PriorityB
  TargetKind = "pull_request"
  TTL = 3
  Verify = 2
  MaxDelay = 1
  Managed = {a}
  Steady = {}
  QuickRetry = FALSE
  Faults = 2
INVARIANTS
  TypeOK
  LeaseExclusion
  DeadlineWithinClaim
  PersonTakesOver
PROPERTIES
  ImplementsClaim
  PersonNeverRemoved
