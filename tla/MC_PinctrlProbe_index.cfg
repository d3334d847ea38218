\* Up to two probe attempts per table; the first builds the index checked.
CONSTANTS
  Rows <- MCRows
  MaxGroups = 3
  Functions <- T234Functions
  MaxProbes = 2
SPECIFICATION Spec
INVARIANT IndexExactOnFirstProbe
INVARIANT GroupPinsFit
CHECK_DEADLOCK FALSE
