SPECIFICATION Spec
CONSTANTS
  Procs = {p1, p2}
  Works = {w}
  MaxRuns = 2
  Faults = 2
  ReusePids = FALSE
  NoWork = NoWork
  Nobody = Nobody
CHECK_DEADLOCK FALSE
INVARIANTS
  TypeOK
  LiveRunNotAbandoned
  AtMostOneAbandonedRow
PROPERTIES
  ClosedOrphanHasRow
  DeadRunsAreClosed
