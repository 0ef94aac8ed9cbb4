SPECIFICATION Spec
CONSTANTS
  Keys = {1, 2}  Flat = {3}  OwnTop = {8}  OwnNested = {}
  Builds = {1, 2}
  Asks <- TrimOnly
  Size <- MCSize
  Budget = 2  UsedInterval = 1  TrimCutoff = 3
  Initial <- Fresh
  MaxClock = 5
  Absent = Absent
PROPERTIES
  EvictsOnlyOverBudget
  OwnFilesKept
CHECK_DEADLOCK FALSE
