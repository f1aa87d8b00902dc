CONSTANTS
  l = l
  m = m
  env = env
  api = api
  Labels = {l, m}
  Operations = {env, api}
  EnvOp = env
  Configured = 2
  Terms <- MCTerms
  MaxAttempts = 2
  MaxDispatches = 2
  MaxOrders = 2
  MaxFaults = 0
SPECIFICATION Spec
INVARIANT GrantFreesItem
CHECK_DEADLOCK FALSE
