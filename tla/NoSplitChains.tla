---------------------------- MODULE NoSplitChains ----------------------------
(***************************************************************************)
(* What the nosplit frame budget is about, as operators over the facts the *)
(* back end hands to package stackcheck: a record g with the functions     *)
(* this build defines (funcs), the ones that emit no stack check (noSplit), *)
(* their frames, their direct calls, the ones with a dynamic allocation    *)
(* (dynamic), with an indirect call (indirect) and with a taken address    *)
(* (addressTaken), and whether indirect calls are resolved (strict).  A    *)
(* chain is a path of the call graph through nosplit functions.  A call    *)
(* pushes nothing on arm64 (noSplitCallSize = 0), so a chain is as high as *)
(* its frames together.                                                    *)
(***************************************************************************)
EXTENDS Integers, FiniteSets, SequencesExt, FiniteSetsExt

CONSTANTS
  Infinite,         \* the height of a chain that cannot be bounded
  IndirectTarget    \* the synthetic callee of every indirect call

\* walker.calleesOf: a splittable or undefined function continues no chain.
CalleesOf(g, n) ==
  IF n = IndirectTarget THEN g.addressTaken \cap g.noSplit
  ELSE IF n \notin g.noSplit THEN {}
  ELSE g.calls[n] \cup (IF g.strict /\ n \in g.indirect THEN {IndirectTarget} ELSE {})

Nodes(g) == g.noSplit \cup (IF g.strict THEN {IndirectTarget} ELSE {})
FrameOf(g, n) == IF n = IndirectTarget THEN 0 ELSE g.frame[n]

\* Every chain: the nosplit functions of a path, each once, in call order.
Chains(g) ==
  {p \in SeqOf(Nodes(g), Cardinality(Nodes(g))) :
     /\ p # <<>> /\ IsInjective(p)
     /\ \A i \in 1 .. Len(p) - 1 : p[i + 1] \in CalleesOf(g, p[i])}

Bytes(g, p) == SumFunction([i \in DOMAIN p |-> FrameOf(g, p[i])])

\* A chain that re-enters itself, or enters a frame with a dynamic allocation.
Endless(g, p) == Last(p) \in g.dynamic \/ CalleesOf(g, Last(p)) \cap Range(p) # {}

\* The stack the chains of a set need between them: the deepest of them.
Deepest(g, ps) ==
  IF \E p \in ps : Endless(g, p) THEN Infinite ELSE Max({0} \cup {Bytes(g, p) : p \in ps})

\* The most stack that entering n can use before something checks the stack.
Height(g, n) == Deepest(g, {p \in Chains(g) : Head(p) = n})

\* n is on one chain with m: one reaches the other with no stack check between.
OnOneChain(g, n, m) == \E p \in Chains(g) : {n, m} \subseteq Range(p)

\* The room under a limit for n's frame: no chain through n may pass the limit,
\* and a cycle above n or below it, or a dynamic frame below, leaves none.
OnCycle(g) == {n \in Nodes(g) : \E p \in Chains(g) : Head(p) = n /\ n \in CalleesOf(g, Last(p))}
Unbounded(g, n) ==
  \/ \E c \in OnCycle(g) : OnOneChain(g, c, n)
  \/ \E p \in Chains(g) : Head(p) = n /\ Last(p) \in g.dynamic
RoomFor(g, n, limit) ==
  IF Unbounded(g, n) THEN limit - Infinite
  ELSE limit - Max({Bytes(g, p) : p \in {q \in Chains(g) : n \in Range(q)}})
=============================================================================
