SPECIFICATION Spec
CONSTANTS
  Sites <- OneVariable
  Memory <- MCMemory
  Beyond = {0, 1}
  AfterBlock = {0}
INVARIANTS
  SizesRead
