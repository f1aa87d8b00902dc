CONSTANTS
  l = l
  m = m
  env = env
  api = api
  Labels = {l}
  Operations = {env, api}
  EnvOp = env
  Configured = 2
  Terms <- MCTerms
  MaxAttempts = 2
  MaxDispatches = 2
  MaxOrders = 3
  MaxFaults = 1
SPECIFICATION Spec
INVARIANT CapHolds
PROPERTIES ActiveOnlyByGrant SpentAfterSuccess
CHECK_DEADLOCK FALSE
