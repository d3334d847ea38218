\* A second probe attempt after a late failure or an unbind.
CONSTANTS
  Rows <- MCRows
  MaxGroups = 2
  Functions <- T234Functions
  MaxProbes = 2
SPECIFICATION Spec
INVARIANT FuncGroupsExact
CHECK_DEADLOCK FALSE
