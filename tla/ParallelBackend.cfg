SPECIFICATION Spec
CONSTANTS
  f = f  g = g  asm = asm  bad = bad  NoCode = NoCode  Error = Error
  Bodies <- MCBodies
  Modules <- MCModules
  Options <- OnePlain
  Failing <- MCFailing
  Keyed <- MCKeyed
  WorkerCounts = {1, 2}
  MaxCalls = 2
INVARIANTS
  TypeOK
  AnswersAsSerial
  DrainedAtReturn
  WorkersBounded
  LookaheadBounded
  CacheIsSubstitute
PROPERTIES
  EveryCallReturns
  ImplementsSerial
CHECK_DEADLOCK FALSE
