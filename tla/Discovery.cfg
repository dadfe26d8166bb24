CONSTANTS
  PriceMax = 3
  None = None
  Unreadable = Unreadable
  required_status = "active"
  minimum_time_to_close = 2
  minimum_open_interest = 1
  Tickers <- MCTickers
  Catalogs <- MCCatalogs
  limit = 1
  max_pages = 3
  Statuses = {301, 404, 429, 500}
  Clock = {0, 1}
  MaxChanges = 1
SPECIFICATION Spec
INVARIANTS
  TypeOK
  NothingMissed
  RequestsAreBounded
  UniverseIsTheRule
  ChosenIsRepresentable
CHECK_DEADLOCK FALSE
