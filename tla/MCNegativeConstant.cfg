SPECIFICATION Spec
CONSTANTS
  Sites <- NegativeConstant
  Memory <- MCMemory
  Beyond = {0}
  AfterBlock = {0}
INVARIANTS
  VariablesRestored
