SPECIFICATION HistorySpec
CONSTANTS
  Keys = {k1, k2}
  MediaIDs = {"b"}
  Listings <- MCListings
  PosTTL = 4
  NegTTL = 3
  CacheMax = 1
  RequestMax = 1
SYMMETRY MCSymmetry
INVARIANTS
  TypeOK
  CacheIsBounded
  ServedIsRecent
  FailureIsRemembered
  FailureIsForgotten
