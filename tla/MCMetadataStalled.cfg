SPECIFICATION HistorySpec
CONSTANTS
  Keys = {"k1"}
  MediaIDs = {"a"}
  Listings <- MCOneListing
  PosTTL = 4
  NegTTL = 2
  CacheMax = 2
  RequestMax = 2
INVARIANT NewFailureIsRemembered
