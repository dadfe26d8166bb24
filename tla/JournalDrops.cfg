CONSTANTS
  flush_every = 2
  rotate_records = 3
  rotate_interval = 1
  compress = TRUE
  SuffixLimit = 9
  Ticks <- Forward
  MaxRecords = 4
  MaxClock = 1
  MaxSegments = 3
  MaxFailures = 2
  MaxFaults = 1
  MaxKills = 1
SPECIFICATION Spec
INVARIANTS
  DropsAreCounted
CHECK_DEADLOCK FALSE
