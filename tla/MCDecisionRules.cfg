\* Every small tree over two features, and every vector of values up to 8.
CONSTANTS
  Trees <- SmallTrees
  Feature = {0, 1}
  FTS_MAX <- SmallMax
  Scale = 4
  Vectors <- SmallVectors
SPECIFICATION Spec
INVARIANTS
  TypeOK
  RulesPartition
  FirstMatchFaithful
  OffBoundsFaithful
PROPERTY Installation
CHECK_DEADLOCK FALSE
