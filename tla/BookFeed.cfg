CONSTANTS
  Ticker = "KXOURS"
  OtherTicker = "KXOTHER"
  PriceMax = 2
  Bands <- MCBands
  MaxQuantity = 1
  None = None
  Convention = "NoLegPricing"
  s1 = s1
  s2 = s2
  Sids = {s1, s2}
  VenuePrices <- MCVenuePrices
  Changes <- MCChanges
  Extras <- MCExtras
  VenueMax = 2
  MaxSequence = 3
SYMMETRY MCSymmetry
SPECIFICATION Spec
INVARIANTS
  TypeOK
  InSync
  LossIsNeverSeenAsNegative
  NextDeltaFits
  QuotesAreTheVenues
CHECK_DEADLOCK FALSE
