SPECIFICATION Spec
CONSTANTS
  Functions <- MCFunctions
  Values = {0, 1}
INVARIANTS
  SameComputation
  LivenessIsExact
