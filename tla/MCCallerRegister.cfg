SPECIFICATION Spec
CONSTANTS
  Programs <- CallerRegister
  IdSpace = 64
  Gap = 1
  CodeBase = 100
  LibcRet = 50
  StackTop = 130
  MainBp = 70
  LibcBp = 128
  HeapBase = 600
  HeapWords = 60
  HandlerFrame = 2
  JumpFrame = 3
  MaxDepth = 4
  Junk = 9999
INVARIANTS
  ValuesRead
