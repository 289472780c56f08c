\* Addresses of two words of two bits: all pairs, and passes beyond the wrap.
CONSTANTS
  Word = 4
  CountMod = 64
  Addr = {0, 1, 2, 3, 4, 5, 6, 7, 8, 9, 10, 11, 12, 13, 14, 15}
  Loops = {1, 2}
  MaxPass = 18
SPECIFICATION Spec
INVARIANTS
  ChecksumKept
  UniqueEachPass
CHECK_DEADLOCK FALSE
