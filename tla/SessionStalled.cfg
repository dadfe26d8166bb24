CONSTANTS
  max_reconnect_attempts = 0
  initial_backoff = 1
  max_backoff = 5
  Prompt = FALSE
  MaxCount = 4
SPECIFICATION Spec
INVARIANTS
  OneAttempt
CHECK_DEADLOCK FALSE
