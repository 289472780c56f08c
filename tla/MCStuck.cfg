\* Two files at a time, one with a packet that the interface refuses.
CONSTANTS
  Options <- MCStuck
  MaxFails = 2
  MaxCount = 4
SPECIFICATION Spec
PROPERTIES
  Completes
CHECK_DEADLOCK FALSE
