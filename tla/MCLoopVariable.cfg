SPECIFICATION Spec
CONSTANTS
  Functions <- LoopVariable
  None = None
INVARIANTS
  LiveRecorded
