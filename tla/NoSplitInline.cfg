SPECIFICATION Spec
CONSTANTS
  Infinite = 1000
  IndirectTarget = IndirectTarget
  None = None
  f1 = f1  f2 = f2  f3 = f3  f4 = f4
  Funcs <- MCFuncs
  Modules <- MCModules
  Limit = 80
  Frames = {0, 16, 32, 48}
INVARIANTS
  MeasuredChainsFit
  PassKeepsTheBuild
PROPERTIES
  ImplementsLedger
