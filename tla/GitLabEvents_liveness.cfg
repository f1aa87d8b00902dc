SPECIFICATION Spec
CONSTANTS
  Requests = {k1, k2}
  Keys = {k1, k2}
  WorkOf <- SameWork
  Callers = {queue}
  Queue = queue
  Remotes = {r1}
  MaxSessions = 2
  MaxFaults = 1
  MaxAttempts = 2
  QueueCapacity = 2
  DeadCapacity = 1
CHECK_DEADLOCK FALSE
PROPERTIES
  EventsSettle
