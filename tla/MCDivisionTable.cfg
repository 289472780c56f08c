\* The table of expo.c for several values of Ymax, loaded by main.py.
CONSTANTS
  Limits <- MCLimits
  Never = 1048576
SPECIFICATION Spec
INVARIANTS
  TypeOK
  RowsApproximate
  TableExact
PROPERTY Termination
CHECK_DEADLOCK FALSE
