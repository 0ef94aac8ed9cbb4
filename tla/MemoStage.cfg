SPECIFICATION Spec
CONSTANTS
  Programs <- MCModules
  BottomUp <- MCBottomUp
  Exported <- MCExported
  NoSplit <- MCNoSplit
  SmallBudget = 3
  CallBudget = 4
  Allowance = 2
  Closure = "read"
INVARIANTS
  StageServesNoStaleCode
  LinksAfterStage
  NothingHalfOptimised
PROPERTIES
  UnchangedRebuild
  ExactAfterRootEdit
