\* A loop entered at a case of the switch that closes it.  The other functions
\* that have no place for their copies break the property too: SharedCases,
\* SwitchMeshes and LoneGotos.
SPECIFICATION Spec
CONSTANTS
  Functions <- LoopCases
  Values = {0, 1}
INVARIANTS
  SameComputation
