SPECIFICATION LiveSpec
CONSTANTS
  Keys = {"i1", "i2"}
  MediaIDs = {"a"}
  Listings <- MCUHDOnly
  PosTTL = 2
  NegTTL = 1
  CacheMax = 2
  RequestMax = 1
  SessionIDs = {"s1", "s3"}
  SessionKeys = {"7", "9"}
  Window = 2
  PollInterval = 4
  MaxBackoff = 5
  ReadyDelay = 1
  MaxReadyDelay = 3
  DryRun = FALSE
  Documents <- MCLiveDocuments
  ModeContents = {"missing"}
  PrefsContents = {"token"}
  EditableKeys = {}
  Faults = {"stop"}
PROPERTIES
  StopsPromptly
  AttemptedAgain
  PollsAreSpaced
CHECK_DEADLOCK FALSE
