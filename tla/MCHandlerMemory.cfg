SPECIFICATION MCMemorySpec
CONSTANTS
  Stacks <- MCStacks
  MaxRestored = 3
  MaxPairs = 2
  Sites <- MCSites
  Memory <- MCMemory
  Beyond = {0, 5}
  AfterBlock = {0, 5}
  Depth = 5
  Sizes = {1, 2, 3, 5}
  Junk = {0, 77}
  Start = 600
  MainBp = 70
INVARIANTS
  NoFault
  NothingLost
  VariablesRestored
  NeighboursKept
  WritesInSegment
  FramesSideBySide
  FramesLinked
