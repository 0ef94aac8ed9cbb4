------------------------------ MODULE MemoStage ------------------------------
(***************************************************************************)
(* The memoised whole-module stage (memo/compile.go, memo/memo.go) over a  *)
(* history of builds: each build is handed a module as the per-function    *)
(* prefix left it and the store the last saved build wrote, and serves a   *)
(* function's finished body from the store when its recorded key still     *)
(* holds.                                                                  *)
(*                                                                         *)
(* A digest is the thing digested: Entry.Input and Entry.Output are bodies *)
(* compared for equality.  The stage is reduced to what reads across       *)
(* functions: a bottom-up inliner with a size budget, the passes after it  *)
(* that shrink a body, dead-function elimination, and the inlining into    *)
(* nosplit functions, which spends one shared allowance in call-graph      *)
(* order.  Call-site counts, ForceInline and CostInline, the growth caps   *)
(* and recursion unrolling are left out: each is one more reader of other  *)
(* bodies, of the kind the size budget already is.                         *)
(***************************************************************************)
EXTENDS Integers, FiniteSets, SequencesExt

CONSTANTS
  Programs,     \* the post-prefix modules a build may be handed
  BottomUp,     \* every function name, callees before callers (scc.order)
  Exported,     \* the functions with export linkage
  NoSplit,      \* the functions that emit no stack check
  SmallBudget,  \* inlineSmallBudget
  CallBudget,   \* inlineFuncBudget: splices into one function
  Allowance,    \* the headroom of the one nosplit chain
  Closure       \* Options.Closure: "read", "splice" or "none"

Names == ToSet(BottomUp)

\* Everything reached from S: a path visits a name at most once.
Reach(S, Step(_)) == FoldLeft(LAMBDA T, n : T \cup UNION {Step(g) : g \in T}, S, BottomUp)

(***************************************************************************)
(* A body: the versions of source code in it, its size, how much of it the *)
(* passes after the inliner remove, its direct calls in block order and    *)
(* the functions it names as values.  A module: the facts ModuleDigest     *)
(* covers, the functions its data names, and its bodies.                   *)
(***************************************************************************)
Versions == UNION {UNION {p.body[f].code : f \in DOMAIN p.body} : p \in Programs}

Bodies ==
  [code : SUBSET Versions, size : Nat, late : Nat, calls : Seq(Names), refs : SUBSET Names]

IsProgram(p) == p.data \subseteq Names /\ \E D \in SUBSET Names : p.body \in [D -> Bodies]

ASSUME ProgramsAreModules == \A p \in Programs : IsProgram(p)
ASSUME BudgetsAreCounts ==
  /\ BottomUp \in Seq(Names) /\ CallBudget \in Nat /\ SmallBudget \in Nat /\ Allowance \in Nat
ASSUME ClosureIsAMode == Closure \in {"read", "splice", "none"}

VARIABLES prog,    \* the module of the last build
          object,  \* what the stage left: a body per function
          kept,    \* m.Funcs after the stage
          whole,   \* the whole-module check answered (Result.WholeModule)
          failed,  \* RunStage returned an error
          store,   \* the memo on disk: [entries, data]
          saved    \* whether the last build's store reached the disk

vars == <<prog, object, kept, whole, failed, store, saved>>

Nothing == [f \in {} |-> {}]

Init ==
  /\ prog = [facts |-> "none", data |-> {}, body |-> Nothing]
  /\ object = Nothing /\ kept = {} /\ whole = FALSE /\ failed = FALSE
  /\ store = [entries |-> Nothing, data |-> {}]
  /\ saved = FALSE

-----------------------------------------------------------------------------
(***************************************************************************)
(* The stage.  m is a module in flight: its bodies, the functions still in *)
(* it, the recorder's two sets (opt/depset.go) and the nosplit allowance   *)
(* not yet spent.                                                          *)
(***************************************************************************)
Callees(m, f) == ToSet(m.body[f].calls) \cap m.kept

\* In a cycle of the call graph (sccInfo.recursive).
Recursive(m, f) == f \in Reach(Callees(m, f), LAMBDA g : Callees(m, g))

Consult(m, f, gs) == [m EXCEPT !.consulted[f] = @ \cup (gs \ {f})]

\* buildCallGraph and callSiteCounts resolve every call of every function.
BuildCallGraph(m) ==
  [m EXCEPT !.consulted = [f \in DOMAIN @ |->
     IF f \in m.kept THEN @[f] \cup (Callees(m, f) \ {f}) ELSE @[f]]]

Inlinable(m, rec, g) == g \in m.kept \ rec /\ m.body[g].size <= SmallBudget

\* The callee's body as it stands replaces the call at i.
Cloned(b, i, c) ==
  [code  |-> b.code \cup c.code,
   size  |-> b.size + c.size,
   late  |-> b.late + c.late,
   calls |-> SubSeq(b.calls, 1, i - 1) \o c.calls \o SubSeq(b.calls, i + 1, Len(b.calls)),
   refs  |-> b.refs \cup c.refs]

\* spliceCall and noteSpliced.
SpliceCall(m, f, i) ==
  LET g == m.body[f].calls[i]
  IN  [Consult(m, f, {g} \cup m.consulted[g]) EXCEPT
         !.body[f] = Cloned(@, i, m.body[g]),
         !.spliced[f] = @ \cup {g} \cup m.spliced[g]]

\* The first inlinable call of f is spliced; what it brings is looked at next.
InlineOnce(m, rec, f) ==
  LET seen == Consult(m, f, Callees(m, f))
      i == SelectInSeq(m.body[f].calls, LAMBDA g : Inlinable(m, rec, g))
  IN  IF i = 0 THEN seen ELSE SpliceCall(seen, f, i)

InlineInto(m, rec, f) ==
  FoldLeft(LAMBDA n, k : InlineOnce(n, rec, f), m, [k \in 1..CallBudget |-> k])

InlineModule(m, frozen) ==
  LET g == BuildCallGraph(m)
      rec == {f \in m.kept : Recursive(m, f)}
      Into(n, f) == IF f \in n.kept \ (frozen \cup NoSplit)
                    THEN InlineInto(n, rec, f) ELSE n
  IN  FoldLeft(Into, g, BottomUp)

\* What the passes after the last inliner make of the bodies they may touch.
LatePasses(m, frozen) ==
  [m EXCEPT !.body = [f \in DOMAIN @ |->
     IF f \in frozen THEN @[f]
     ELSE [@[f] EXCEPT !.size = m.body[f].size - m.body[f].late, !.late = 0]]]

Named(b) == ToSet(b.calls) \cup b.refs

\* Mutant: a function named only as a value is not seen.
DeadFuncElimCallsOnly(m, data) ==
  [m EXCEPT !.kept =
     {f \in @ : f \in Exported \cup data \cup UNION {ToSet(m.body[g].calls) : g \in m.kept}}]

DeadFuncElim(m, data) ==
  [m EXCEPT !.kept =
     {f \in @ : f \in Exported \cup data \cup UNION {Named(m.body[g]) : g \in m.kept}}]

\* A nosplit caller is inlined into when the growth fits what is left of the
\* allowance, and put back when it does not.
InlineIntoNoSplitCallers(m) ==
  LET rec == {f \in m.kept : Recursive(m, f)}
      Into(n, f) ==
        LET t == InlineInto(n, rec, f)
            grown == t.body[f].size - n.body[f].size
        IN  IF f \notin n.kept \cap NoSplit \/ n.left = 0 THEN n
            ELSE IF grown > n.left THEN [t EXCEPT !.body[f] = n.body[f]]
            ELSE [t EXCEPT !.left = @ - grown]
  IN  FoldLeft(Into, BuildCallGraph(m), BottomUp)

Stage(bodies, data, frozen) ==
  LET none == [f \in DOMAIN bodies |-> {}]
      m == [body |-> bodies, kept |-> DOMAIN bodies,
            consulted |-> none, spliced |-> none, left |-> Allowance]
      inlined == LatePasses(InlineModule(m, frozen), frozen)
  IN  InlineIntoNoSplitCallers(DeadFuncElim(inlined, data))

\* For each module, a compile with no memo (Options.Disabled) and the recursion
\* bits over the post-prefix call graph.
ColdCompile == [p \in Programs |-> Stage(p.body, p.data, {})]

RecursiveFunctions ==
  [p \in Programs |->
     {f \in DOMAIN p.body : Recursive([body |-> p.body, kept |-> DOMAIN p.body], f)}]

-----------------------------------------------------------------------------
(***************************************************************************)
(* The memo.                                                               *)
(***************************************************************************)
Dep(p, g) == [name |-> g, input |-> p.body[g], recursive |-> g \in RecursiveFunctions[p]]

DepNames(e) == {d.name : d \in e.deps}

OwnClausesHold(p, f) ==
  /\ f \in DOMAIN store.entries
  /\ store.entries[f].input = p.body[f]
  /\ store.entries[f].facts = p.facts
  /\ store.entries[f].recursive = (f \in RecursiveFunctions[p])

DepHolds(p, d) ==
  /\ d.name \in DOMAIN p.body
  /\ d.input = p.body[d.name]
  /\ d.recursive = (d.name \in RecursiveFunctions[p])

Valid(p, f) ==
  /\ OwnClausesHold(p, f)
  /\ \A d \in store.entries[f].deps : DepHolds(p, d)

Hits(p) == {f \in DOMAIN p.body \ NoSplit : Valid(p, f)}

\* Mutant: a size that was only read is trusted.
DragsInSpliced(f) ==
  IF f \notin DOMAIN store.entries THEN {} ELSE store.entries[f].spliced

\* What a live function demotes: whatever it read that the stage moves, or
\* whatever it spliced.
DragsIn(f) ==
  IF f \notin DOMAIN store.entries \/ Closure = "none" THEN {}
  ELSE IF Closure = "splice" THEN store.entries[f].spliced
  ELSE {g \in DepNames(store.entries[f]) :
          \/ g \notin DOMAIN store.entries
          \/ store.entries[g].input # store.entries[g].body}

\* S and everything dragged in from there on.
WithDraggedIn(p, S) == Reach(S, LAMBDA f : DragsIn(f) \cap DOMAIN p.body)

Live(p) == WithDraggedIn(p, DOMAIN p.body \ Hits(p))

\* Mutant: only what this compile's recorder filed.
ConsultedSetRecorded(m, frozen, f) == m.consulted[f]

\* A frozen callee was not processed by this compile: its stored sets stand in
\* for what the recorder would have closed through.
ConsultedSet(m, frozen, f) ==
  m.consulted[f] \cup UNION {DepNames(store.entries[g]) : g \in m.spliced[f] \cap frozen}

SplicedSet(m, frozen, f) ==
  m.spliced[f] \cup UNION {store.entries[g].spliced : g \in m.spliced[f] \cap frozen}

Record(p, m, frozen, f, body) ==
  [input |-> p.body[f], recursive |-> f \in RecursiveFunctions[p], facts |-> p.facts,
   deps |-> {Dep(p, g) : g \in ConsultedSet(m, frozen, f)},
   spliced |-> SplicedSet(m, frozen, f),
   body |-> body, dropped |-> f \notin m.kept]

\* Mutant: the body is marshalled before the stage has run.
EntryTooEarly(p, m, frozen, f) == Record(p, m, frozen, f, p.body[f])

Entry(p, m, frozen, f) == Record(p, m, frozen, f, m.body[f])

\* refresh files an entry for every function the stage recomputed; no entry is
\* ever removed.
Refresh(p, m, frozen) ==
  [f \in DOMAIN store.entries \cup DOMAIN p.body |->
     IF f \in DOMAIN p.body \ frozen THEN Entry(p, m, frozen, f) ELSE store.entries[f]]

IsWholeModuleHit(p) ==
  /\ store.data = p.data
  /\ Cardinality(DOMAIN store.entries) = Cardinality(DOMAIN p.body)
  /\ \A f \in DOMAIN p.body : OwnClausesHold(p, f)

Save(s) ==
  /\ saved' \in BOOLEAN
  /\ store' = IF saved' THEN s ELSE store

WholeModuleHit(p) ==
  /\ IsWholeModuleHit(p)
  /\ prog' = p
  /\ object' = [f \in DOMAIN p.body |-> store.entries[f].body]
  /\ kept' = {f \in DOMAIN p.body : ~store.entries[f].dropped}
  /\ whole' = TRUE /\ failed' = FALSE
  /\ Save(store)

Frozen(p) == DOMAIN p.body \ Live(p)

\* The module with the finished bodies of S put in place.
Installed(p, S) ==
  [f \in DOMAIN p.body |-> IF f \in S THEN store.entries[f].body ELSE p.body[f]]

RunStage(p) ==
  /\ ~IsWholeModuleHit(p)
  /\ prog' = p
  /\ LET frozen == Frozen(p)
         m == Stage(Installed(p, frozen), p.data, frozen)
     IN  /\ object' = m.body /\ kept' = m.kept /\ whole' = FALSE /\ failed' = FALSE
         /\ Save([entries |-> Refresh(p, m, frozen), data |-> p.data])

\* The stored bodies a build decodes: all of them behind the whole-module check,
\* otherwise those of the hits that the stage moves.
Decoded(p) ==
  IF IsWholeModuleHit(p) THEN DOMAIN p.body
  ELSE {f \in Frozen(p) : store.entries[f].input # store.entries[f].body}

\* Mutant: the rerun goes through the failed stage's session, hits still frozen.
RerunInSession(p, done) == Stage(Installed(p, done), p.data, Frozen(p))

\* optimisePackage's answer to an error: the whole pipeline in a new session, over
\* the module as the failed stage left it.
Rerun(p, done) == Stage(Installed(p, done), p.data, {})

\* A stored body does not decode after those of done were installed (the frozen
\* set is a map, so in any order; behind the whole-module check the order is the
\* module's, one of these); the store is left as it was.
DecodeFails(p) ==
  \E bad \in Decoded(p) : \E done \in SUBSET (Decoded(p) \ {bad}) :
    LET m == Rerun(p, done)
    IN  /\ prog' = p
        /\ object' = m.body /\ kept' = m.kept
        /\ whole' = IsWholeModuleHit(p) /\ failed' = TRUE
        /\ saved' = FALSE /\ UNCHANGED store

Next == \E p \in Programs : WholeModuleHit(p) \/ RunStage(p) \/ DecodeFails(p)

Spec == Init /\ [][Next]_vars

-----------------------------------------------------------------------------
\* Every emitted body is made of the code of the module being built: nothing in
\* it was spliced from an older version of some function.
NoStaleCode ==
  \A f \in kept : object[f].code \subseteq UNION {prog.body[g].code : g \in DOMAIN prog.body}

\* Per-function validation (Entry.Valid over the recorded Deps, closed through
\* frozen callees by consultedSet) never serves a body with stale code in it,
\* whatever edits, departures, returns, lost saves and decode errors came before,
\* and a rerun over the bodies a failed stage left emits none either.
StageServesNoStaleCode == ~whole => NoStaleCode

Dangling ==
  ((prog.data \cup UNION {Named(object[f]) : f \in kept}) \cap DOMAIN prog.body) \ kept

\* When the stage runs, it drops no function that a surviving body or the data
\* names, although some of the bodies it looks at were installed from the store.
LinksAfterStage == ~whole => Dangling = {}

\* The functions of p that are live without a miss: the nosplit ones, which are never
\* frozen, and what they drag in.
LiveWithoutMiss(p) == WithDraggedIn(p, DOMAIN p.body \cap NoSplit)

\* Building the same module again right after a saved build gives the same bodies, all
\* of them when the whole-module check answers: what refresh files, the dependencies it
\* closes through frozen callees included, is what the next build finds valid.  Only
\* the nosplit functions and what they drag in may differ: the stage computes those
\* again, beside other frozen bodies than before.
UnchangedRebuild ==
  [][saved /\ ~failed' /\ prog' = prog =>
       \A f \in DOMAIN prog.body : object'[f] # object[f] => ~whole' /\ f \in LiveWithoutMiss(prog)]_vars

\* Every body that is emitted has been through all the passes, although a hit is
\* skipped by them and a failed stage leaves some functions finished and some not
\* (the comment in optimisePackage: "it leaves the package half-optimised").
NothingHalfOptimised == \A f \in kept : object[f].late = 0

\* The module is as a compile with no memo leaves it.
IsCold == prog \in Programs /\ object = ColdCompile[prog].body /\ kept = ColdCompile[prog].kept

\* q is p but for functions that nothing calls, and those call what they called.
RootEdit(p, q) ==
  /\ DOMAIN p.body = DOMAIN q.body /\ p.facts = q.facts /\ p.data = q.data
  /\ \A f \in DOMAIN p.body : p.body[f] # q.body[f] =>
       /\ \A g \in DOMAIN p.body : f \notin ToSet(p.body[g].calls)
       /\ p.body[f].calls = q.body[f].calls /\ p.body[f].refs = q.body[f].refs

\* The stage over frozen bodies gives what a compile with no memo gives, when the
\* build before it did and the edit since, if any, is of functions that nothing
\* calls: no live function measured a frozen one at its finished size where that
\* compile measures it mid-stage (closureOf: "read" is "the price of exactness").
\* It is for modules in which every call resolves, since Entry.Valid does not see a
\* callee arrive.
ExactAfterRootEdit ==
  [][saved /\ ~failed /\ ~failed' /\ ~whole' /\ IsCold /\ RootEdit(prog, prog') => IsCold']_vars
=============================================================================
