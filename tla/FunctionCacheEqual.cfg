\* The declaration that mints a type is the one that asks for its equality.
SPECIFICATION Spec
CONSTANTS
  Packages <- MCPackages
  Root = "main"
  Imports <- MCImports
  Home <- MCHome
  Script <- MCScript
  Scanned <- MCScanned
  Generic <- MCGeneric
  Generated <- MCGenerated
  Programs <- EqualityFirst
  Builds = {b1}
  Versions = {0, 1}
  MaxEdits = 0
  QuietWindow = TRUE
INVARIANTS
  WarmIsCold
