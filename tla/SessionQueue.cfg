SPECIFICATION Spec
CONSTANTS
  MaxSessions = 3
  Unkillable = TRUE
CHECK_DEADLOCK FALSE
INVARIANTS
  SerializedUnlessCancelled
PROPERTIES
  StoppedNeverStarts
  EveryTurnComes
