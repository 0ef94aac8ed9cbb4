SPECIFICATION Spec
CONSTANTS
  Funcs <- MCFuncs
  NoSplit <- MCNoSplit
  Bodies <- MCBodies
  InitialBodies <- MCInitialBodies
  SecondaryEntry = {"entry"}
  Passes <- MCPasses
  Kind <- MCKind
  Members <- MCMembers
  Pipeline <- MCPipeline
  JumpThread = "jumpthread"
  ThreadCap = 2
  Rewrite <- MCRewrite
  InlineInto <- MCInlineInto
  UnrollInto <- MCUnrollInto
  InlineIntoNoSplitCaller <- MCInlineNoSplit
  Kept <- MCKept
  FreezeAt = 2
  Freezable <- Splittable
  Memo <- MCMemo
  Unseen = "unseen"
  Never = Never
INVARIANTS
  TypeOK
  SettledIsSound
  FixpointHolds
PROPERTIES
  FrozenKept
  PipelineEnds
  ImplementsPlain
