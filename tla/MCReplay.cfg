\* Replays of one and of two files at a time, with failures and an abort at any moment.
CONSTANTS
  Options <- MCOptions
  MaxFails = 2
  MaxCount = 4
SPECIFICATION Spec
INVARIANTS
  WireIsReplay
  AbortIsPrompt
  StatsAgree
  Paced
  FreshEachPass
PROPERTIES
  CompletesIfSendable
CHECK_DEADLOCK FALSE
