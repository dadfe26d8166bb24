CONSTANTS
  max_reconnect_attempts = 0
  initial_backoff = 1
  max_backoff = 5
  Prompt = TRUE
  MaxCount = 4
SPECIFICATION Spec
PROPERTIES
  RequestStartsOver
CHECK_DEADLOCK FALSE
