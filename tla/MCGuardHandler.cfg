SPECIFICATION FairSpec
CONSTANTS
  Programs <- MCPrograms
  IdSpace = 64
  Gap = 1
  CodeBase = 100
  LibcRet = 50
  StackTop = 150
  MainBp = 85
  LibcBp = 148
  HeapBase = 600
  HeapWords = 60
  HandlerFrame = 2
  JumpFrame = 3
  MaxDepth = 5
  Junk = 9999
INVARIANTS
  TypeOK
  FramesMatchActivations
  ValuesRead
  VariablesInSegment
  HandlerFrameIntact
  EpilogueFindsFrame
  LookupsSupported
  VariablesFound
PROPERTIES
  HandlerResumes
  BehavesAsSource
