SPECIFICATION Spec
CONSTANTS
  Functions <- MCFunctions
  MaxBlocks = 40
CHECK_DEADLOCK FALSE
INVARIANTS
  SitesIsolated
PROPERTIES
  PassEnds
