SPECIFICATION Spec
CONSTANTS
  Programs <- EditedModules
  BottomUp <- MCBottomUp
  Exported <- MCExported
  NoSplit <- MCNoSplit
  SmallBudget = 3
  CallBudget = 4
  Allowance = 2
  Closure = "read"
INVARIANTS
  NoStaleCode
