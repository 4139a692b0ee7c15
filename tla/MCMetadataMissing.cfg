SPECIFICATION MCSpec
CONSTANTS
  Keys = {"k1"}
  MediaIDs = {"a", "b"}
  Listings <- MCListing
  PosTTL = 4
  NegTTL = 3
  CacheMax = 2
  RequestMax = 1
INVARIANT MissingIDIsRemembered
