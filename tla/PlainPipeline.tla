---------------------------- MODULE PlainPipeline ----------------------------
(***************************************************************************)
(* The optimiser's pipeline (opt/pass.go) run without change tracking:     *)
(* every pass looks at every function, every time.  This is what           *)
(* OptPipeline, which skips the visits it knows to be useless, must still  *)
(* compute.                                                                *)
(*                                                                         *)
(* A body is an opaque value.  What a pass makes of a body is a constant   *)
(* operator: a pass is a deterministic function of the bodies it reads and *)
(* of the budgets it carries from visit to visit.  Functions without a     *)
(* body are visited by no pass and are left out.                           *)
(***************************************************************************)
EXTENDS Naturals, Sequences, FiniteSets

CONSTANTS
  Funcs,          \* the module's functions in order, callees before callers
  NoSplit,        \* those that emit no stack-growth check
  Bodies, InitialBodies,
  SecondaryEntry, \* the bodies with a secondary entry
  Passes, Kind, Members, Pipeline,
  JumpThread,     \* the per-function pass with a budget
  ThreadCap,      \* jump threading's budget for one function
  Rewrite(_, _),              \* a per-function pass on a body
  InlineInto(_, _, _),        \* the inliner on a caller, the bodies and its base
  UnrollInto(_, _),           \* recursion unrolling on a caller and the bodies
  InlineIntoNoSplitCaller(_, _),
  Kept(_),                    \* the functions dead-function elimination keeps
  FreezeAt,                   \* where the memoised stage begins
  Freezable, Memo,            \* the functions a memo may supply, and their bodies
  Unseen                      \* no base yet

Kinds == {"func", "inline", "unroll", "deadfunc", "nosplit", "fixpoint"}
FuncSet == {Funcs[i] : i \in 1..Len(Funcs)}

ASSUME PipelineAssumption ==
  /\ Funcs \in Seq(FuncSet)
  /\ NoSplit \subseteq FuncSet /\ Freezable \subseteq FuncSet
  /\ InitialBodies \subseteq [FuncSet -> Bodies] /\ Memo \in [FuncSet -> Bodies]
  /\ Kind \in [Passes -> Kinds] /\ Members \in [Passes -> Seq(Passes)]
  /\ Pipeline \in Seq(Passes)
  /\ JumpThread \in Passes
  /\ ThreadCap \in Nat /\ FreezeAt \in Nat
  /\ Unseen \notin Bodies

ASSUME PassAssumption ==
  /\ \A p \in Passes, b \in Bodies : Rewrite(p, b) \in Bodies
  /\ \A f \in FuncSet, bs \in [FuncSet -> Bodies] :
       /\ \A b \in Bodies : InlineInto(f, bs, b) \in Bodies
       /\ UnrollInto(f, bs) \in Bodies
       /\ InlineIntoNoSplitCaller(f, bs) \in Bodies
       /\ Kept(bs) \subseteq FuncSet

VARIABLES
  bodies, live, frozen,
  threads,    \* threads[f]: how much of its jump-thread budget f has spent
  base,       \* base[f]: f's body when the inliner first saw it
  stack,      \* the pipeline and the fixpoints being run, innermost last
  next,       \* the function the current pass visits next
  moved       \* whether the current pass has changed anything

pipelineVars == <<bodies, live, frozen, threads, base, stack, next, moved>>

\* One Run or one Fixpoint in progress: its passes, the one it is at, whether the
\* round, or an earlier one, changed anything.
Frame(passes, any) == [passes |-> passes, at |-> 1, round |-> FALSE, any |-> any]

Init ==
  /\ bodies \in InitialBodies /\ live = FuncSet /\ frozen = {}
  /\ threads = [f \in FuncSet |-> 0] /\ base = [f \in FuncSet |-> Unseen]
  /\ stack = <<Frame(Pipeline, FALSE)>> /\ next = 1 /\ moved = FALSE

Top == stack[Len(stack)]
InPass == Top.at <= Len(Top.passes)
Current == Top.passes[Top.at]
Running(kind) == InPass /\ Kind[Current] = kind

\* What a per-function pass makes of f as f stands.
Rewritten(p, f) ==
  IF \/ bodies[f] \in SecondaryEntry
     \/ p = JumpThread /\ threads[f] >= ThreadCap
  THEN bodies[f]
  ELSE Rewrite(p, bodies[f])

\* What the inliner makes of f as f stands.  A function's base is its body when
\* the pass first saw it.
Base(f) == IF base[f] = Unseen THEN bodies[f] ELSE base[f]
Inlined(f) ==
  IF bodies[f] \in SecondaryEntry \/ f \in NoSplit THEN bodies[f]
  ELSE InlineInto(f, bodies, Base(f))

\* The visit of one function comes out with body b, and the pass goes on.
Visit(f, b) ==
  /\ next <= Len(Funcs) /\ f = Funcs[next]
  /\ bodies' = [bodies EXCEPT ![f] = b]
  /\ moved' = (moved \/ b # bodies[f])
  /\ next' = next + 1
  /\ UNCHANGED <<live, frozen, stack>>

\* A function the pass does not look at: dead, or a memoised answer.
Passed(f) == Visit(f, bodies[f]) /\ UNCHANGED <<threads, base>>

Visited(f) == f \in live /\ f \notin frozen

RunOn(f) ==
  /\ Running("func") /\ Visited(f)
  /\ Visit(f, Rewritten(Current, f))
  /\ threads' = IF Current = JumpThread /\ Rewritten(Current, f) # bodies[f]
                THEN [threads EXCEPT ![f] = @ + 1] ELSE threads
  /\ UNCHANGED base

SkipFunction(f) ==
  /\ Running("func") \/ Running("inline") \/ Running("unroll")
  /\ ~Visited(f) /\ Passed(f)

InlineOn(f) ==
  /\ Running("inline") /\ Visited(f)
  /\ Visit(f, Inlined(f))
  /\ base' = IF bodies[f] \in SecondaryEntry \/ f \in NoSplit THEN base
             ELSE [base EXCEPT ![f] = Base(f)]
  /\ UNCHANGED threads

\* Mutant of UnrollOn: the frozen functions are unrolled too.
UnrollFrozen(f) ==
  /\ Running("unroll") /\ f \in live
  /\ Visit(f, UnrollInto(f, bodies))
  /\ UNCHANGED <<threads, base>>

UnrollOn(f) ==
  /\ Running("unroll") /\ Visited(f)
  /\ Visit(f, UnrollInto(f, bodies))
  /\ UNCHANGED <<threads, base>>

\* A module pass like any other: it is not told which functions are frozen.
NoSplitOn(f) ==
  /\ Running("nosplit")
  /\ Visit(f, IF f \in live /\ f \in NoSplit /\ bodies[f] \notin SecondaryEntry
              THEN InlineIntoNoSplitCaller(f, bodies) ELSE bodies[f])
  /\ UNCHANGED <<threads, base>>

\* Dead-function elimination drops functions from the module in one sweep.
DropDead ==
  /\ Running("deadfunc") /\ next <= Len(Funcs)
  /\ live' = live \cap Kept(bodies)
  /\ moved' = (live' # live)
  /\ next' = Len(Funcs) + 1
  /\ UNCHANGED <<bodies, frozen, threads, base, stack>>

\* The pass, or fixpoint, at the top is over and reports whether it changed anything.
Report(s, changed) ==
  [s EXCEPT ![Len(s)] = [passes |-> @.passes, at |-> @.at + 1,
                         round |-> @.round \/ changed, any |-> @.any]]

\* Mutant of EndPass: a round remembers its last pass only.
EndPassForgets ==
  /\ InPass /\ Kind[Current] # "fixpoint" /\ next > Len(Funcs)
  /\ stack' = [stack EXCEPT ![Len(stack)].at = @ + 1, ![Len(stack)].round = moved]
  /\ next' = 1 /\ moved' = FALSE
  /\ UNCHANGED <<bodies, live, frozen, threads, base>>

EndPass ==
  /\ InPass /\ Kind[Current] # "fixpoint" /\ next > Len(Funcs)
  /\ stack' = Report(stack, moved)
  /\ next' = 1 /\ moved' = FALSE
  /\ UNCHANGED <<bodies, live, frozen, threads, base>>

EnterFixpoint ==
  /\ Running("fixpoint")
  /\ stack' = Append(stack, Frame(Members[Current], FALSE))
  /\ UNCHANGED <<bodies, live, frozen, threads, base, next, moved>>

\* Mutant of EndRound: another round if any round so far changed something.
EndRoundOnAny ==
  /\ Len(stack) > 1 /\ ~InPass
  /\ stack' = IF Top.round \/ Top.any
              THEN [stack EXCEPT ![Len(stack)] = Frame(Top.passes, TRUE)]
              ELSE Report(SubSeq(stack, 1, Len(stack) - 1), Top.any)
  /\ UNCHANGED <<bodies, live, frozen, threads, base, next, moved>>

\* A full round: another one if it changed anything, else the fixpoint returns.
EndRound ==
  /\ Len(stack) > 1 /\ ~InPass
  /\ stack' = IF Top.round
              THEN [stack EXCEPT ![Len(stack)] = Frame(Top.passes, TRUE)]
              ELSE Report(SubSeq(stack, 1, Len(stack) - 1), Top.any)
  /\ UNCHANGED <<bodies, live, frozen, threads, base, next, moved>>

\* A memoised compile installs the answers it has, between the per-function
\* prefix and the rest, and freezes those functions.
Freeze ==
  /\ Len(stack) = 1 /\ Top.at = FreezeAt /\ next = 1 /\ frozen = {}
  /\ frozen' \in SUBSET Freezable
  /\ bodies' = [f \in FuncSet |-> IF f \in frozen' THEN Memo[f] ELSE bodies[f]]
  /\ UNCHANGED <<live, threads, base, stack, next, moved>>

Finished == Len(stack) = 1 /\ ~InPass

PlainNext ==
  \/ \E f \in FuncSet : RunOn(f) \/ SkipFunction(f) \/ InlineOn(f) \/ UnrollOn(f) \/ NoSplitOn(f)
  \/ DropDead \/ EndPass \/ EnterFixpoint \/ EndRound \/ Freeze

PlainSafeSpec == Init /\ [][PlainNext]_pipelineVars
PlainSpec == PlainSafeSpec /\ WF_pipelineVars(PlainNext)
=============================================================================
