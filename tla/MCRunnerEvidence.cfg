SPECIFICATION PastSpec
CONSTANTS
  Keys = {"i1", "i2"}
  MediaIDs = {"a"}
  Listings <- MCListings
  PosTTL = 4
  NegTTL = 3
  CacheMax = 1
  RequestMax = 1
  SessionIDs = {"s1", "s2", "s3"}
  SessionKeys = {"7", "9"}
  Window = 1
  PollInterval = 1
  MaxBackoff = 1
  ReadyDelay = 1
  MaxReadyDelay = 1
  DryRun = FALSE
  Documents <- MCEvidenceDocuments
  ModeContents = {"missing"}
  PrefsContents = {"token"}
  EditableKeys = {"i1"}
  Faults = {}
PROPERTIES
  AttemptIsJustified
  LeftAloneOnlyOnTrouble
