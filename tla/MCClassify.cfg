SPECIFICATION Spec
CONSTANTS
  MediaIDs = {"a", "b"}
  Qualities <- MCQualities
  Added <- MCAdded
  Sessions <- MCSessions
  Writings <- MCWritings
  MaxVersions = 2
INVARIANTS
  CondemnedIsUHD
  VanishedVersionIsLeftAlone
  IdentifiedUHDIsCondemned
CHECK_DEADLOCK FALSE
