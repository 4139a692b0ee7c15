SPECIFICATION PastSpec
CONSTANTS
  Keys = {"i1"}
  MediaIDs = {"a"}
  Listings <- MCUHDOnly
  PosTTL = 2
  NegTTL = 1
  CacheMax = 1
  RequestMax = 1
  SessionIDs = {"s1", "s2"}
  SessionKeys = {"7", "8", "9"}
  Window = 4
  PollInterval = 1
  MaxBackoff = 2
  ReadyDelay = 1
  MaxReadyDelay = 1
  DryRun = FALSE
  Documents <- MCSwitchDocuments
  ModeContents = {"missing", "invalid", "dry-run", "off"}
  PrefsContents = {"token", "none"}
  EditableKeys = {}
  Faults = {"stop", "crash"}
INVARIANTS
  TypeOK
  PollIsBounded
PROPERTIES
  OnlyEnforced
  AttemptsAreSpaced
  PassedOverOnlyWhenAttempted
CHECK_DEADLOCK FALSE
