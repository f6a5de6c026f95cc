SPECIFICATION Spec
CONSTANTS
  Functions <- MCFunctions
  GuardFuns <- MCGuardFuns
  External = "extern"
  Modules <- MCModules
  IdSpace = 64
  MaxSites = 12
INVARIANTS
  TypeOK
  SitesPaired
  UniqueIds
  CountingDownStaysInFunction
  TwinIdExists
  IdsAsInBinary
