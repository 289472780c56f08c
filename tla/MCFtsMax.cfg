\* Mean inter-arrival times of windows of 1, 2, 4 .. 64 packets, with the bound of dum2Cond.py.
CONSTANTS
  Trees <- IatTree
  Feature = {2}
  FTS_MAX <- IatMax
  Scale = 4
  Vectors <- MeanIat
SPECIFICATION Spec
INVARIANT Faithful
CHECK_DEADLOCK FALSE
