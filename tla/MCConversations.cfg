\* Two conversations in slots of their own.
CONSTANTS
  l1 = l1
  w1 = w1
  w2 = w2
  s1 = s1
  s2 = s2
  NoReport = NoReport
  NoWindow = NoWindow
  Addr <- MCAddr
  LanAddr <- MCLan
  Traffic <- TwoConversations
  TotalLen = {30, 58}
  Gap = {1, 3}
  Slot = {s1, s2}
  Hash <- HashApart
  Key <- MCKey
  WinSze = 2
  Recip <- MCRecip
  IsCG <- MCIsCG
  LenMod = 64
  CountMod = 4
  SizeMod = 64
  TimeMod = 16
  KeyMod = 8
  Horizon = 7
  MaxCount = 3
SPECIFICATION HSpec
INVARIANTS
  OneConversationPerWindow
PROPERTY Refinement
CHECK_DEADLOCK FALSE
