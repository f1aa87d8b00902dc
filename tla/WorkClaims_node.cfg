SPECIFICATION Spec
CONSTANTS
  Hosts = {h1}
  Pids = {p1, p2, p3}
  Scopes = {s1}
  Numbers = {n71}
  Words = {}
  V1Ids <- MCV1Ids
  ZeroPid = ZeroPid
  UnknownHost = UnknownHost
  Nobody = Nobody
SYMMETRY Symmetry
INVARIANTS
  TypeOK
  OwnedClaimUnique
  JobExclusion
  InstallExcludesClaimedJobs
PROPERTY ImplementsClaim
