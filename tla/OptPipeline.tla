----------------------------- MODULE OptPipeline -----------------------------
(***************************************************************************)
(* The optimiser's pipeline with its change log (opt/pass.go): a version   *)
(* per function, and per pass and function the version at which the pass   *)
(* last changed nothing.  A visit of a settled function is skipped.  Every *)
(* step is the plain pipeline's step and what it does to the log.          *)
(***************************************************************************)
EXTENDS PlainPipeline

CONSTANT Never    \* no version: the pass has not converged on the function

ASSUME NeverAssumption == Never \notin Nat

VARIABLES
  version,    \* version[f]: how often f has changed
  converged   \* converged[p][f]: the version at which p last left f alone

logVars == <<version, converged>>
vars == <<bodies, live, frozen, threads, base, stack, next, moved, version, converged>>

TrackedInit ==
  /\ Init
  /\ version = [f \in FuncSet |-> 0]
  /\ converged = [p \in Passes |-> [f \in FuncSet |-> Never]]

Settled(p, f) == converged[p][f] # Never /\ converged[p][f] = version[f]

\* Mutants of Record: a change that does not count; convergence filed one version
\* ahead.
RecordUncounted(p, f, changed) ==
  /\ version' = version
  /\ converged' = IF changed THEN converged ELSE [converged EXCEPT ![p][f] = version[f]]

RecordAhead(p, f, changed) ==
  /\ version' = IF changed THEN [version EXCEPT ![f] = @ + 1] ELSE version
  /\ converged' = IF changed THEN converged ELSE [converged EXCEPT ![p][f] = version[f] + 1]

Record(p, f, changed) ==
  /\ version' = IF changed THEN [version EXCEPT ![f] = @ + 1] ELSE version
  /\ converged' = IF changed THEN converged ELSE [converged EXCEPT ![p][f] = version[f]]

\* FuncPass: a settled function is skipped, any other is visited and recorded.
SkipSettled(f) ==
  /\ Running("func") /\ Visited(f) /\ Settled(Current, f)
  /\ Passed(f)
  /\ UNCHANGED logVars

RunTracked(f) ==
  /\ Running("func") /\ ~Settled(Current, f) /\ RunOn(f)
  /\ Record(Current, f, bodies'[f] # bodies[f])

\* The inliner files the callers it spliced into, and nothing else.
InlineTracked(f) ==
  /\ InlineOn(f)
  /\ version' = IF bodies'[f] # bodies[f] THEN [version EXCEPT ![f] = @ + 1] ELSE version
  /\ UNCHANGED converged

\* Mutants of MovedBy: unrolling, or any module pass, marks nothing as moved.
MovedByNone(p) == IF Kind[p] = "unroll" /\ moved THEN {} ELSE IF moved THEN live ELSE {}

\* The functions a pass marks as moved when it ends: a pass that cannot say what
\* it changed marks every function, unrolling every function not frozen.
MovedBy(p) ==
  IF ~moved THEN {}
  ELSE CASE Kind[p] = "unroll" -> live \ frozen
         [] Kind[p] \in {"deadfunc", "nosplit"} -> live
         [] OTHER -> {}

EndPassTracked ==
  /\ EndPass
  /\ version' = [f \in FuncSet |-> IF f \in MovedBy(Current) THEN version[f] + 1 ELSE version[f]]
  /\ UNCHANGED converged

Next ==
  \/ \E f \in FuncSet : SkipSettled(f) \/ RunTracked(f) \/ InlineTracked(f)
  \/ \E f \in FuncSet : (SkipFunction(f) \/ UnrollOn(f) \/ NoSplitOn(f)) /\ UNCHANGED logVars
  \/ EndPassTracked
  \/ (DropDead \/ EnterFixpoint \/ EndRound \/ Freeze) /\ UNCHANGED logVars
  \/ Finished /\ UNCHANGED vars

SafeSpec == TrackedInit /\ [][Next]_vars
Spec == SafeSpec /\ WF_vars(Next)
-----------------------------------------------------------------------------
Frames == [passes : Seq(Passes), at : Nat \ {0}, round : BOOLEAN, any : BOOLEAN]

\* Types; no pass has converged on a version that has yet to come.
TypeOK ==
  /\ bodies \in [FuncSet -> Bodies]
  /\ live \subseteq FuncSet /\ frozen \subseteq FuncSet
  /\ threads \in [FuncSet -> Nat]
  /\ base \in [FuncSet -> Bodies \cup {Unseen}]
  /\ \A i \in 1..Len(stack) :
       /\ stack[i].at \in 1..(Len(stack[i].passes) + 1)
       /\ stack[i].round \in BOOLEAN /\ stack[i].any \in BOOLEAN
  /\ stack # <<>> /\ next \in 1..(Len(Funcs) + 1) /\ moved \in BOOLEAN
  /\ version \in [FuncSet -> Nat]
  /\ \A p \in Passes, f \in FuncSet : converged[p][f] = Never \/ converged[p][f] <= version[f]

\* A pass that rewrites bodies and marks what it moved only when it ends.
MarksAtEnd == Running("unroll") \/ Running("nosplit")

\* Skipping is sound: a settled function is one the pass would not change.  Not
\* so for an instant while unrolling has rewritten bodies it has yet to mark.
SettledIsSound ==
  \/ MarksAtEnd /\ moved
  \/ \A p \in Passes, f \in FuncSet :
       f \notin frozen /\ Kind[p] = "func" /\ Settled(p, f) => Rewritten(p, f) = bodies[f]

\* The leaf passes of a fixpoint, those of the fixpoints it holds included.
Leaves(passes) ==
  LET direct == {passes[i] : i \in 1..Len(passes)}
  IN  UNION {IF Kind[p] = "fixpoint" THEN {Members[p][i] : i \in 1..Len(Members[p])} ELSE {p} :
             p \in direct}

\* A fixpoint returns only when none of its passes would change any function it
\* may touch, skipped visits and nested fixpoints notwithstanding.
FixpointHolds ==
  Len(stack) > 1 /\ ~InPass /\ ~Top.round =>
    \A p \in Leaves(Top.passes), f \in live \ frozen :
      /\ Kind[p] = "func" => Rewritten(p, f) = bodies[f]
      /\ Kind[p] = "inline" => Inlined(f) = bodies[f]

\* No pass transforms a function whose memoised body was frozen.
FrozenKept == [][\A f \in frozen : bodies'[f] = bodies[f]]_vars

\* The pipeline ends: every fixpoint reaches its fixpoint, jump threading that
\* undoes another pass's work included.
PipelineEnds == <>Finished

\* Skipping settled visits cannot be told from making them.
ImplementsPlain == PlainSpec
=============================================================================
