SPECIFICATION Spec
CONSTANTS
  Infinite = 100
  IndirectTarget = IndirectTarget
  Graphs <- MCGraphs
  Limit = 4
INVARIANTS
  TypeOK
  HeightsAreDeepest
  HeadroomIsSlack
  VerdictIsExact
  ReportedChainsAreReal
PROPERTIES
  CheckEnds
