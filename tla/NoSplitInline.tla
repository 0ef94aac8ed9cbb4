---------------------------- MODULE NoSplitInline ----------------------------
(***************************************************************************)
(* InlineIntoNoSplitCallers (opt/nosplitinline.go) over arm64's frame      *)
(* budget (arm64/nosplit_measure.go), and the check of the finished module *)
(* (arm64/nosplit.go).  A function's body is what the budget can tell of   *)
(* it: its frame, its direct calls and whether it allocates dynamically.   *)
(* The layout of an inlined body is external: any frame, or an error.      *)
(***************************************************************************)
EXTENDS NoSplitChains

CONSTANTS
  Funcs,      \* the module's functions
  Modules,    \* the modules that enter the pass
  Limit,      \* noSplitLimit
  Frames,     \* the frames a layout may produce
  None

Safety == 16   \* noSplitInlineSafetyBytes

Bodies == [frame : [Funcs -> Nat], calls : [Funcs -> SUBSET Funcs], dynamic : SUBSET Funcs]
Declarations ==
  [noSplit : [Funcs -> BOOLEAN], managed : [Funcs -> BOOLEAN], unmeasurable : SUBSET Funcs,
   recorded : [Funcs -> Nat]]

\* Infinite is 1 << 30, past every limit and past the frames of a module together.
ASSUME NoSplitInlineAssumption ==
  /\ IsFiniteSet(Funcs) /\ IndirectTarget \notin Funcs
  /\ Frames \subseteq Nat /\ Limit \in Nat /\ Infinite \in Nat /\ Limit < Infinite
  /\ \A m \in Modules :
       /\ m.module \in Declarations /\ m.bodies \in Bodies
       /\ \A f \in Funcs : m.module.recorded[f] < Infinite
       /\ SumFunction(m.bodies.frame) <= Infinite

VARIABLES
  module,    \* what does not change: noSplit, managed, unmeasurable, recorded
  start,     \* the bodies that enter the pass: frame, calls, dynamic
  bodies,    \* the bodies now
  reach,     \* the call graph at the start: <<f, g>> when f calls g, maybe indirectly
  budget,    \* measured once: facts, their chains, headroom and sharing
  charged,   \* charged[f]
  visited,   \* the callers the pass is through with
  caller,    \* the caller being inlined into, None between callers
  outcome    \* "open", "object" or "error"

vars == <<module, start, bodies, reach, budget, charged, visited, caller, outcome>>

Guarded == {f \in Funcs : module.managed[f] /\ ~module.noSplit[f]}
Measured == {f \in Funcs : module.managed[f] /\ module.noSplit[f]} \ module.unmeasurable

\* noSplitBudgetInputs over a module's facts: calls through pointers are assumed to
\* reach a function that checks its stack.
Inputs(funcs, noSplit, frame, calls, dynamic) ==
  [funcs |-> funcs, noSplit |-> noSplit, frame |-> frame, calls |-> calls,
   dynamic |-> dynamic, indirect |-> {}, addressTaken |-> {}, strict |-> FALSE]

\* newNoSplitFrameBudget: only managed nosplit functions are laid out; one that
\* cannot be is left out; any other is a name without a frame or a call, and ends
\* a chain if it is guarded.
BudgetFacts ==
  LET funcs == Funcs \ {f \in module.unmeasurable : module.managed[f] /\ module.noSplit[f]}
  IN  Inputs(funcs, funcs \ Guarded,
             [f \in funcs |-> IF f \in Measured THEN start.frame[f] ELSE 0],
             [f \in funcs |-> IF f \in Measured THEN start.calls[f] ELSE {}],
             start.dynamic \cap Measured)

\* checkNoSplitBudget over the finished module: every frame and every call counts.
FinalFacts(b) == Inputs(Funcs, Funcs \ Guarded, b.frame, b.calls, b.dynamic)
LimitFor(f) == Max({Limit, module.recorded[f]})
Accepts(b) == \A f \in Funcs : Height(FinalFacts(b), f) <= LimitFor(f)

----------------------------------------------------------------------------
(* The call graph the pass is ordered by, built once from the bodies.      *)

CallPairs ==
  LET paths == Chains(Inputs(Funcs, Funcs, start.frame, start.calls, {}))
  IN  UNION {{<<Head(p), g>> : g \in start.calls[Last(p)]} : p \in paths}
Recursive(f) == <<f, f>> \in reach
SameComponent(f, g) == f = g \/ {<<f, g>>, <<g, f>>} \subseteq reach

\* components.order: a caller's turn comes after its callees outside its component.
Turn(f) ==
  /\ caller = None /\ f \notin visited
  /\ \A g \in Funcs : <<f, g>> \in reach /\ ~SameComponent(f, g) => g \in visited

\* A mutant of Sharing: only the functions below share.
SharingBelow(facts, f) ==
  {g \in facts.noSplit : \E p \in Chains(facts) : Head(p) = f /\ g \in Range(p)}

\* noSplitChainSharing: what f reaches, and what reaches f, with no check between.
Sharing(facts, f) == IF f \in facts.noSplit THEN {g \in facts.noSplit : OnOneChain(facts, f, g)} ELSE {}

NewFrameBudget(facts) ==
  [facts |-> facts, chains |-> Chains(facts),
   headroom |-> [f \in Funcs |-> IF f \in facts.noSplit THEN RoomFor(facts, f, Limit) ELSE 0],
   sharing |-> [f \in Funcs |-> Sharing(facts, f)]]

Init ==
  /\ \E m \in Modules : module = m.module /\ start = m.bodies
  /\ bodies = start
  /\ reach = CallPairs
  /\ budget = NewFrameBudget(BudgetFacts)
  /\ charged = [f \in Funcs |-> 0]
  /\ visited = {} /\ caller = None
  /\ outcome = "open"

Allowance(f) == budget.headroom[f] - charged[f] - Safety

\* A caller the pass leaves as it is: splittable, with a second entry, without
\* room, one it cannot copy or lay out, or one with nothing to inline.
LeaveAlone(f) ==
  /\ Turn(f)
  /\ visited' = visited \cup {f}
  /\ UNCHANGED <<module, start, bodies, reach, budget, charged, caller, outcome>>

BeginCaller(f) ==
  /\ Turn(f) /\ module.noSplit[f] /\ f \notin module.unmeasurable /\ Allowance(f) > 0
  /\ \E g \in bodies.calls[f] : ~Recursive(g)
  /\ caller' = [fn |-> f, body |-> [calls |-> bodies.calls[f], dynamic |-> f \in bodies.dynamic],
                spliced |-> {}]
  /\ UNCHANGED <<module, start, bodies, reach, budget, charged, visited, outcome>>

\* inlineInto, one call at a time: the callee's calls and allocations become the
\* caller's.  Whether another call of the callee is left is settled by Accept.
Splice(g) ==
  /\ caller # None /\ g \in bodies.calls[caller.fn] /\ ~Recursive(g)
  /\ bodies' = [bodies EXCEPT !.calls[caller.fn] = @ \cup bodies.calls[g],
                              !.dynamic = IF g \in @ THEN @ \cup {caller.fn} ELSE @]
  /\ caller' = [caller EXCEPT !.spliced = @ \cup {g}]
  /\ UNCHANGED <<module, start, reach, budget, charged, visited, outcome>>

\* Mutants of Charge: the bytes go to the caller alone; a shrink is paid back.
ChargeCaller(f, bytes) == [charged EXCEPT ![f] = @ + Max({0, bytes})]

ChargeBack(f, bytes) ==
  [g \in Funcs |-> charged[g] + (IF g \in budget.sharing[f] THEN bytes ELSE 0)]

Charge(f, bytes) ==
  [g \in Funcs |-> charged[g] + (IF g \in budget.sharing[f] /\ bytes > 0 THEN bytes ELSE 0)]

\* The body is cleaned up, which may drop calls, laid out and measured.
Accept(after, kept) ==
  /\ caller # None /\ caller.spliced # {} /\ kept \subseteq bodies.calls[caller.fn]
  /\ after - bodies.frame[caller.fn] <= Allowance(caller.fn)
  /\ bodies' = [bodies EXCEPT !.frame[caller.fn] = after, !.calls[caller.fn] = kept]
  /\ charged' = Charge(caller.fn, after - bodies.frame[caller.fn])
  /\ visited' = visited \cup {caller.fn}
  /\ caller' = None
  /\ UNCHANGED <<module, start, reach, budget, outcome>>

\* Too large, or the layout failed: the snapshot comes back.
Reject ==
  /\ caller # None /\ caller.spliced # {}
  /\ bodies' = [bodies EXCEPT !.calls[caller.fn] = caller.body.calls,
       !.dynamic = IF caller.body.dynamic THEN @ ELSE @ \ {caller.fn}]
  /\ visited' = visited \cup {caller.fn}
  /\ caller' = None
  /\ UNCHANGED <<module, start, reach, budget, charged, outcome>>

\* The back end: a function it cannot lay out, or a chain that does not fit, and
\* there is no object.
Emit ==
  /\ outcome = "open"
  /\ visited = Funcs /\ caller = None
  /\ outcome' = IF module.unmeasurable = {} /\ Accepts(bodies) THEN "object" ELSE "error"
  /\ UNCHANGED <<module, start, bodies, reach, budget, charged, visited, caller>>

Finished == outcome # "open" /\ UNCHANGED vars

Next ==
  \/ Reject \/ Emit \/ Finished
  \/ \E f \in Funcs : LeaveAlone(f) \/ BeginCaller(f)
  \/ \E g \in Funcs : Splice(g)
  \/ \E after \in Frames, kept \in SUBSET Funcs : Accept(after, kept)

Spec == Init /\ [][Next]_vars

----------------------------------------------------------------------------
(* Properties.                                                             *)

\* The decisions are made one caller at a time from a budget measured once, and
\* still no chain it measured grows past the limit less the safety bytes, however
\* its growth is split between the functions on it; a chain that was over is never
\* a byte deeper.
GrownBytes(p) ==
  SumFunction([i \in DOMAIN p |-> budget.facts.frame[p[i]] + bodies.frame[p[i]] - start.frame[p[i]]])
MeasuredChainsFit ==
  \A p \in budget.chains : GrownBytes(p) <= Max({Limit - Safety, Bytes(budget.facts, p)})

\* What the budget does not see: frames and calls of functions without a managed
\* frame, functions it could not lay out, and what a splittable callee brings into
\* a nosplit caller: calls that continue a chain, or a dynamic allocation.
Blind ==
  \/ \E f \in Funcs : ~module.managed[f]
  \/ module.unmeasurable # {}
  \/ bodies.dynamic # start.dynamic
  \/ \E f, g \in Measured : g \in bodies.calls[f] /\
       ~\E p \in budget.chains : Head(p) = f /\ Last(p) = g

\* The budget is a budget for the check that follows it: a module the check would
\* accept before the pass it accepts after it, unless the pass met one of those.
PassKeepsTheBuild == outcome = "error" /\ Accepts(start) => Blind

\* The pass is one run of the ledger: its grants, in the order of the callers.
LedgerChains == {Range(p) : p \in budget.chains}
Growth == [f \in Funcs |-> Max({0, bodies.frame[f] - start.frame[f]})]
Measure(c) == SumFunctionOnSet(budget.facts.frame, c)
Grown(c) == SumFunctionOnSet(Growth, c)

Ledger == INSTANCE ChainLedger WITH
  slack <- [c \in LedgerChains |-> Limit - Measure(c)],
  spent <- [c \in LedgerChains |-> Grown(c)],
  headroom <- budget.headroom, sharing <- budget.sharing

\* Every accepted growth is a grant the ledger allows, charged as the ledger charges
\* it, and a shrink is none: what is proved of the ledger holds of the pass.
ImplementsLedger == Ledger!Spec
=============================================================================
