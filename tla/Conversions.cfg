CONSTANTS
  Minus = Minus
  Point = Point
  Junk = Junk
  NoError = NoError
  kMax = 127
  Texts <- MCTexts
  Forms <- MCForms
  Odd = Odd
  HoursPerDay = 3
  MinutesPerHour = 2
  SecondsPerMinute = 2
  kKeptFractionalDigits = 1
  Midnights <- MCMidnights
  DaysWatched = 2
  Zones <- MCZones
  WrongType = WrongType
  Unparsable = Unparsable
  Nothing = None
  NoInteger = NoInteger
  None = None
  Ticker = "OURS"
  PriceMax = 3
  Bands <- NoBands
  MaxQuantity = 3
  Convention = "NoLegPricing"
  Sources <- MCSources
  ParsedFields <- MCParsedFields
  MaxDamage = 3
SPECIFICATION Spec
INVARIANTS
  ReadsWhatItSays
  NothingWraps
  FormatIsInverse
  WrittenAsShown
  ZonesAgree
  NothingIsFolded
  NothingIsMisread
  TheDamagedFieldIsNamed
  DirectionSurvives
  TimeIsTheFinest
  WhatIsWrittenIsRead
PROPERTY
  StampsSort
CHECK_DEADLOCK FALSE
