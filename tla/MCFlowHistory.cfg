\* One conversation, both directions; the count register wraps at 4.
CONSTANTS
  l1 = l1
  w1 = w1
  w2 = w2
  s1 = s1
  s2 = s2
  NoReport = NoReport
  NoWindow = NoWindow
  Addr <- MCAddr
  LanAddr <- MCLan
  Traffic <- OneConversation
  TotalLen = {30, 58}
  Gap = {0, 1, 3}
  Slot = {s1, s2}
  Hash <- HashApart
  Key <- MCKey
  WinSze = 2
  Recip <- MCRecip
  IsCG <- MCIsCG
  LenMod = 64
  CountMod = 4
  SizeMod = 64
  TimeMod = 16
  KeyMod = 8
  Horizon = 8
  MaxCount = 4
SPECIFICATION HSpec
INVARIANTS
  TypeOK
  RegistersExact
  WindowSpan
  IatDevExactWithoutTies
  MeansSound
  DirectionsMeet
PROPERTY Refinement
CHECK_DEADLOCK FALSE
