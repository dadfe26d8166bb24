CONSTANTS
  Ticker = "KXOURS"
  PriceMax = 1
  MaxQuantity = 1
  None = None
  max_reconnect_attempts = 2
  initial_backoff = 1
  max_backoff = 2
  Prompt = TRUE
  MaxCount = 6
  Recordings <- MCUsual
  Quoted <- MCQuoted
  Changes <- MCChanges
  Others = {"trade"}
  UnreadableKinds = {"orderbook_snapshot"}
  Ticks <- MCTicks
  Deadline = TRUE
  MaxRestarts = 0
  MaxRecords = 5
SPECIFICATION RecorderSpec
INVARIANTS
  NeverLeftInvalid
CHECK_DEADLOCK FALSE
