\* Two-split trees installed entry by entry while windows are being classified.
CONSTANTS
  Trees <- TwoSplits
  Feature = {0, 6}
  FTS_MAX <- MeanMax
  Scale = 2
  Vectors <- MeanVectors
  DivisionRanges = 1
  NoPacket = NoPacket
SPECIFICATION DSpec
INVARIANTS
  DTypeOK
  NoUnfoundedVerdict
  SettledFaithful
PROPERTIES
  InstallsAllRules
  EventuallyFaithful
CHECK_DEADLOCK FALSE
