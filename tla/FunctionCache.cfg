\* Two compiles at once sharing the cache, of programs that overlap.
SPECIFICATION Spec
CONSTANTS
  Packages <- MCPackages
  Root = "main"
  Imports <- MCImports
  Home <- MCHome
  Script <- MCScript
  Scanned <- MCScanned
  Generic <- MCGeneric
  Generated <- MCGenerated
  Programs <- MCPrograms
  Builds = {b1, b2}
  Versions = {0, 1}
  MaxEdits = 1
  QuietWindow = TRUE
INVARIANTS
  WarmIsCold
  StoredDeltasAreLocal
  ReplaySucceeds
PROPERTIES
  FlushKeepsWhatItRead
SYMMETRY BuildSymmetry
