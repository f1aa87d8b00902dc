SPECIFICATION FairSpec
CONSTANTS
  a = a
  b = b
  Nodes = {a, b}
  Nobody = Nobody
  RenewEvery = 1
  MaxCall = 1
  LateOps = {"acquire", "renew"}
  Steady = {b}
  Faults = 2
INVARIANTS
  TypeOK
  FreshLeaseExclusive
  WarnedInTime
PROPERTIES
  ImplementsClaim
  DeadNodeLapses
