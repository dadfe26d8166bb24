CONSTANTS
  max_reconnect_attempts = 3
  initial_backoff = 1
  max_backoff = 5
  Prompt = TRUE
  MaxCount = 4
SPECIFICATION Spec
INVARIANTS
  TypeOK
  OneAttempt
  HandlersFindTheirStream
  EndsOnlyWhenTold
PROPERTIES
  LossIsRedialled
  StopEnds
CHECK_DEADLOCK FALSE
