SPECIFICATION Spec
CONSTANTS
  Keys = {1, 2}  Flat = {3}  OwnTop = {}  OwnNested = {9}
  Builds = {1, 2}
  Asks <- CrossAsks
  Size <- MCSize
  Budget = 2  UsedInterval = 1  TrimCutoff = 3
  Initial <- Stocked
  MaxClock = 5
  Absent = Absent
INVARIANTS
  TypeOK
  WholeEntries
  BoundWhenAllEnd
  AgedFilesGo
CHECK_DEADLOCK FALSE
