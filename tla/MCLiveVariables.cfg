SPECIFICATION Spec
CONSTANTS
  Functions <- MCFunctions
  None = None
INVARIANTS
  SameLocations
  CodeValid
  LiveRecordedWithoutLoops
