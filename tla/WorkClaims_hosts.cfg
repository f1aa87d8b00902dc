SPECIFICATION Spec
CONSTANTS
  Hosts = {h1, h2}
  Pids = {p1, p2}
  Scopes = {s1}
  Numbers = {n71}
  Words = {}
  V1Ids <- MCV1Ids
  ZeroPid = ZeroPid
  UnknownHost = UnknownHost
  Nobody = Nobody
SYMMETRY Symmetry
PROPERTY ManualClaimNotTakenEarly
