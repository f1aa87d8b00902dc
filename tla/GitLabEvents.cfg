SPECIFICATION Spec
CONSTANTS
  Requests = {k1, p}
  Keys = {k1}
  WorkOf <- SameWork
  Callers = {queue, person}
  Queue = queue
  Remotes = {r1}
  MaxSessions = 2
  MaxFaults = 2
  MaxAttempts = 2
  QueueCapacity = 1
  DeadCapacity = 1
CHECK_DEADLOCK FALSE
CONSTRAINT Explored
INVARIANTS
  TypeOK
  OneSessionPerWork
  NoEventSkipped
  BudgetSurvives
  NoPinLeft
PROPERTIES
  ReceiptKept
