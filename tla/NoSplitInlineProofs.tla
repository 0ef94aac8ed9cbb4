------------------------- MODULE NoSplitInlineProofs -------------------------
(***************************************************************************)
(* The pass against the budget, for every module, every limit and every    *)
(* frame a layout can produce.  Chains are simple paths and what they      *)
(* weigh is a sum over the set of their functions, so the facts about both *)
(* come from SumsAndPaths.  The pass is a run of ChainLedger, and the      *)
(* ledger's own theorems are proved here of the ledger it keeps.           *)
(***************************************************************************)
EXTENDS NoSplitInline, SumsAndPaths, TLAPS

\* Facts whose indirect calls are not resolved, over finitely many functions.
Plain(g) ==
  /\ g.strict = FALSE /\ IndirectTarget \notin g.noSplit /\ IsFiniteSet(g.noSplit)
  /\ \A n \in g.noSplit : g.frame[n] \in Nat

\* A chain is a simple path through the nosplit functions.
LEMMA ChainsArePaths ==
  ASSUME NEW g, Plain(g)
  PROVE  \A p : p \in Chains(g) <=> IsPath(g.noSplit, g.calls, p)
<1> DEFINE N == g.noSplit
           c == Cardinality(N)
<1>0. IsFiniteSet(N) /\ IndirectTarget \notin N /\ Nodes(g) = N
  BY DEF Plain, Nodes
<1>1. \A n \in N : CalleesOf(g, n) = g.calls[n]
  BY <1>0 DEF Plain, CalleesOf
<1>2. c \in Nat
  BY <1>0, FS_CardinalityType
<1>3. ASSUME NEW p, p \in Chains(g) PROVE IsPath(N, g.calls, p)
  <2>1. p \in SeqOf(N, c) /\ p # <<>> /\ IsInjective(p)
        /\ \A i \in 1 .. Len(p) - 1 : p[i + 1] \in CalleesOf(g, p[i])
    BY <1>0, <1>3 DEF Chains
  <2>2. p \in Seq(N)
    BY <1>2, <2>1 DEF SeqOf
  <2>3. \A i \in 1 .. Len(p) - 1 : p[i] \in N
    BY <2>2
  <2> QED
    BY <1>1, <2>1, <2>2, <2>3 DEF IsPath
<1>4. ASSUME NEW p, IsPath(N, g.calls, p) PROVE p \in Chains(g)
  <2>1. Len(p) <= c /\ p \in Seq(N) /\ Len(p) \in Nat
    BY <1>0, <1>4, PathIsShort DEF IsPath
  <2>2. p \in [1 .. Len(p) -> N] /\ Len(p) \in 0 .. c
    BY <1>2, <2>1
  <2>3. p \in SeqOf(N, c)
    BY <2>2 DEF SeqOf
  <2>4. \A i \in 1 .. Len(p) - 1 : p[i] \in N
    BY <2>1
  <2> QED
    BY <1>0, <1>1, <1>4, <2>3, <2>4 DEF Chains, IsPath
<1> QED
  BY <1>3, <1>4

\* A chain weighs what its functions weigh together, and no more than all of them.
LEMMA ChainBytes ==
  ASSUME NEW g, Plain(g), NEW p \in Chains(g)
  PROVE  /\ Bytes(g, p) = SumFunctionOnSet(g.frame, Range(p))
         /\ Bytes(g, p) \in Nat /\ Bytes(g, p) <= SumFunctionOnSet(g.frame, g.noSplit)
         /\ Range(p) \subseteq g.noSplit /\ IsFiniteSet(Range(p))
<1> DEFINE N == g.noSplit
           v == [i \in DOMAIN p |-> FrameOf(g, p[i])]
           h == [x \in Range(p) |-> x]
<1>0. IsPath(N, g.calls, p) /\ IsFiniteSet(N) /\ \A n \in N : g.frame[n] \in Nat
  BY ChainsArePaths DEF Plain
<1>1. Range(p) \subseteq N /\ IsFiniteSet(Range(p))
  BY <1>0, PathParts, FS_Subset
<1>2. \A i \in DOMAIN p : v[i] = g.frame[p[i]]
  BY <1>1 DEF Range, FrameOf, Plain
<1>3. Bytes(g, p) = SumFunctionOnSet(v, DOMAIN p)
  BY DEF Bytes, SumFunction
<1> HIDE DEF v
<1>4. Bytes(g, p) = SumFunctionOnSet(g.frame, Range(p))
  BY <1>0, <1>2, <1>3, PathSum
<1>5. \A x \in Range(p) : g.frame[x] \in Nat /\ g.frame[x] \in Int
  BY <1>0, <1>1
<1>6. SumFunctionOnSet(g.frame, Range(p)) \in Nat
  BY <1>1, <1>5, SumNat
<1>7. SumFunctionOnSet(g.frame, Range(p)) <= SumFunctionOnSet(g.frame, N)
  <2>1. h \in [Range(p) -> N] /\ (\A x, y \in Range(p) : x # y => h[x] # h[y])
        /\ \A x \in Range(p) : g.frame[x] <= g.frame[h[x]]
    BY <1>1, <1>5
  <2> HIDE DEF h
  <2> QED
    BY <1>0, <1>1, <1>5, <2>1, SumInjection
<1> QED
  BY <1>1, <1>4, <1>6, <1>7

\* The deepest of some bounded chains is as deep as one of them, and as all of them.
LEMMA DeepestChain ==
  ASSUME NEW g, Plain(g), NEW ps \in SUBSET Chains(g), \A p \in ps : ~Endless(g, p)
  PROVE  /\ \A p \in ps : Bytes(g, p) <= Deepest(g, ps)
         /\ Deepest(g, ps) = 0 \/ \E p \in ps : Deepest(g, ps) = Bytes(g, p)
<1> DEFINE S == {0} \cup {Bytes(g, p) : p \in ps}
           b == SumFunctionOnSet(g.frame, g.noSplit)
<1>1. \A p \in ps : Bytes(g, p) \in Nat /\ Bytes(g, p) <= b
  BY ChainBytes
<1>2. b \in Nat
  BY SumNat DEF Plain
<1> HIDE DEF b
<1>3. S \in SUBSET Nat /\ S # {} /\ \A y \in S : y <= b
  BY <1>1, <1>2
<1>4. Deepest(g, ps) = Max(S)
  BY DEF Deepest
<1> HIDE DEF S
<1>5. Max(S) \in S /\ \A y \in S : y <= Max(S)
  BY <1>2, <1>3, GreatestNatural
<1> QED
  BY <1>4, <1>5 DEF S

----------------------------------------------------------------------------
(* The invariant.                                                          *)

\* What was measured before the first caller, and does not change.
Measurement ==
  /\ module \in Declarations /\ start \in Bodies
  /\ \A f \in Funcs : module.recorded[f] < Infinite
  /\ SumFunction(start.frame) <= Infinite
  /\ reach = CallPairs
  /\ budget = NewFrameBudget(BudgetFacts)

Callers ==
  [fn : Funcs, body : [calls : SUBSET Funcs, dynamic : BOOLEAN], spliced : SUBSET Funcs]

Typed ==
  /\ bodies \in Bodies /\ charged \in [Funcs -> Nat] /\ visited \in SUBSET Funcs
  /\ caller = None \/ caller \in Callers

\* A caller whose turn has not ended has the frame that was measured, and the body
\* it would be given back is still within the one it has.
Untouched ==
  /\ \A f \in Funcs \ visited : bodies.frame[f] = start.frame[f]
  /\ caller # None => /\ caller.fn \notin visited
                      /\ caller.body.calls \subseteq bodies.calls[caller.fn]

\* Inlining adds no reachability, and no function begins to call itself: a callee
\* that leads back to its caller is recursive, and is not inlined.
Edges ==
  /\ \A f \in Funcs : \A g \in bodies.calls[f] : <<f, g>> \in reach
  /\ \A f \in Funcs : f \in bodies.calls[f] => f \in start.calls[f]

\* A build is refused for the bodies the pass ends with.
Refused ==
  outcome = "error" =>
    /\ visited = Funcs /\ caller = None
    /\ ~(module.unmeasurable = {} /\ Accepts(bodies))

PassInv == Measurement /\ Typed /\ Untouched /\ Edges /\ Refused

\* The measured facts: fewer functions than the module has, and no larger frames.
LEMMA BudgetShape ==
  ASSUME Measurement
  PROVE  /\ Plain(BudgetFacts) /\ BudgetFacts.noSplit \subseteq Funcs
         /\ BudgetFacts.noSplit = (Funcs \ {f \in module.unmeasurable : module.managed[f] /\ module.noSplit[f]}) \ Guarded
         /\ \A f \in BudgetFacts.noSplit :
              /\ BudgetFacts.frame[f] = IF f \in Measured THEN start.frame[f] ELSE 0
              /\ BudgetFacts.calls[f] = IF f \in Measured THEN start.calls[f] ELSE {}
              /\ start.frame[f] \in Nat
         /\ BudgetFacts.dynamic = start.dynamic \cap Measured
         /\ SumFunctionOnSet(BudgetFacts.frame, BudgetFacts.noSplit) <= Infinite
<1> DEFINE g == BudgetFacts
           funcs == Funcs \ {f \in module.unmeasurable : module.managed[f] /\ module.noSplit[f]}
           h == [x \in g.noSplit |-> x]
<1>1. /\ g.strict = FALSE /\ g.noSplit = funcs \ Guarded /\ g.dynamic = start.dynamic \cap Measured
      /\ g.frame = [f \in funcs |-> IF f \in Measured THEN start.frame[f] ELSE 0]
      /\ g.calls = [f \in funcs |-> IF f \in Measured THEN start.calls[f] ELSE {}]
  BY DEF BudgetFacts, Inputs
<1>2. start.frame \in [Funcs -> Nat] /\ SumFunctionOnSet(start.frame, Funcs) <= Infinite
  BY DEF Measurement, Bodies, SumFunction
<1>3. g.noSplit \subseteq Funcs /\ IsFiniteSet(g.noSplit) /\ IndirectTarget \notin g.noSplit
  BY <1>1, NoSplitInlineAssumption, FS_Subset
<1> HIDE DEF g
<1>4. \A f \in g.noSplit : /\ g.frame[f] = IF f \in Measured THEN start.frame[f] ELSE 0
                           /\ g.calls[f] = IF f \in Measured THEN start.calls[f] ELSE {}
                           /\ start.frame[f] \in Nat /\ g.frame[f] \in Nat /\ g.frame[f] \in Int
                           /\ g.frame[f] <= start.frame[f]
  BY <1>1, <1>2, <1>3
<1>5. SumFunctionOnSet(g.frame, g.noSplit) <= SumFunctionOnSet(start.frame, Funcs)
  <2>1. h \in [g.noSplit -> Funcs] /\ (\A x, y \in g.noSplit : x # y => h[x] # h[y])
        /\ \A x \in g.noSplit : g.frame[x] <= start.frame[h[x]]
    BY <1>3, <1>4
  <2>2. \A x \in Funcs : start.frame[x] \in Nat
    BY <1>2
  <2> HIDE DEF h
  <2> QED
    BY <1>3, <1>4, <2>1, <2>2, NoSplitInlineAssumption, SumInjection
<1>6. /\ SumFunctionOnSet(g.frame, g.noSplit) \in Int /\ SumFunctionOnSet(start.frame, Funcs) \in Int
      /\ Infinite \in Int
  BY <1>2, <1>3, <1>4, SumInt, NoSplitInlineAssumption
<1>7. SumFunctionOnSet(g.frame, g.noSplit) <= Infinite
  BY <1>2, <1>5, <1>6
<1>8. Plain(g)
  BY <1>1, <1>3, <1>4 DEF Plain
<1>9. g.dynamic = start.dynamic \cap Measured /\ g.noSplit = funcs \ Guarded
  BY <1>1
<1> QED
  BY <1>3, <1>4, <1>7, <1>8, <1>9 DEF g

\* What the budget answers from.
LEMMA BudgetFields ==
  ASSUME Measurement
  PROVE  /\ budget.facts = BudgetFacts /\ budget.chains = Chains(BudgetFacts)
         /\ budget.headroom = [f \in Funcs |-> IF f \in BudgetFacts.noSplit
                                               THEN RoomFor(BudgetFacts, f, Limit) ELSE 0]
         /\ budget.sharing = [f \in Funcs |-> Sharing(BudgetFacts, f)]
BY DEF Measurement, NewFrameBudget

\* The room for a function is measured against every chain it is on.
LEMMA RoomIsSlack ==
  ASSUME Measurement, NEW f \in BudgetFacts.noSplit
  PROVE  /\ RoomFor(BudgetFacts, f, Limit) \in Int
         /\ \A p \in Chains(BudgetFacts) :
              f \in Range(p) => RoomFor(BudgetFacts, f, Limit) <= Limit - Bytes(BudgetFacts, p)
<1> DEFINE g == BudgetFacts
           ps == {q \in Chains(g) : f \in Range(q)}
           S == {Bytes(g, p) : p \in ps}
           b == SumFunctionOnSet(g.frame, g.noSplit)
<1>1. Plain(g) /\ b <= Infinite
  BY BudgetShape
<1>2. b \in Nat
  BY <1>1, SumNat DEF Plain
<1>3. Limit \in Nat /\ Infinite \in Nat
  BY NoSplitInlineAssumption
<1>4. \A p \in Chains(g) : Bytes(g, p) \in Nat /\ Bytes(g, p) <= b
  BY <1>1, ChainBytes
<1>5. ps # {}
  <2>1. PICK r : IsPath(g.noSplit, g.calls, r) /\ Head(r) = f /\ Last(r) = f
    BY PathOfOne
  <2>2. r \in Chains(g) /\ f \in Range(r)
    BY <1>1, <2>1, ChainsArePaths, PathParts
  <2> QED
    BY <2>2
<1>6. RoomFor(g, f, Limit) = IF Unbounded(g, f) THEN Limit - Infinite ELSE Limit - Max(S)
  BY DEF RoomFor
<1> HIDE DEF b, g
<1>7. CASE Unbounded(g, f)
  BY <1>1, <1>2, <1>3, <1>4, <1>6, <1>7 DEF g
<1>8. CASE ~Unbounded(g, f)
  <2>1. S \in SUBSET Nat /\ S # {} /\ \A y \in S : y <= b
    BY <1>4, <1>5
  <2>2. \A p \in ps : Bytes(g, p) \in S
    OBVIOUS
  <2> HIDE DEF S
  <2>3. Max(S) \in S /\ \A y \in S : y <= Max(S)
    BY <1>2, <2>1, GreatestNatural
  <2>4. Max(S) \in Nat /\ \A p \in ps : Bytes(g, p) <= Max(S)
    BY <2>1, <2>2, <2>3
  <2> QED
    BY <1>3, <1>4, <1>6, <1>8, <2>4 DEF g
<1> QED
  BY <1>7, <1>8

----------------------------------------------------------------------------
(* Every step keeps it.                                                    *)

\* Reaching is transitive.
LEMMA ReachJoins ==
  ASSUME Measurement, NEW f, NEW g, NEW h, <<f, g>> \in reach, <<g, h>> \in reach
  PROVE  <<f, h>> \in reach
<1> DEFINE in == Inputs(Funcs, Funcs, start.frame, start.calls, {})
<1>1. in.strict = FALSE /\ in.noSplit = Funcs /\ in.calls = start.calls /\ in.frame = start.frame
  BY DEF Inputs
<1>2. start.frame \in [Funcs -> Nat]
  BY DEF Measurement, Bodies
<1>3. reach = UNION {{<<Head(p), x>> : x \in start.calls[Last(p)]} : p \in Chains(in)}
  BY DEF Measurement, CallPairs
<1> HIDE DEF in
<1>4. Plain(in)
  BY <1>1, <1>2, NoSplitInlineAssumption DEF Plain
<1>5. \A p : p \in Chains(in) <=> IsPath(Funcs, start.calls, p)
  BY <1>1, <1>4, ChainsArePaths
<1>6. PICK p \in Chains(in) : f = Head(p) /\ g \in start.calls[Last(p)]
  BY <1>3
<1>7. PICK q \in Chains(in) : g = Head(q) /\ h \in start.calls[Last(q)]
  BY <1>3
<1>8. IsPath(Funcs, start.calls, p) /\ IsPath(Funcs, start.calls, q) /\ Head(q) \in start.calls[Last(p)]
  BY <1>5, <1>6, <1>7
<1>9. PICK r : IsPath(Funcs, start.calls, r) /\ Head(r) = Head(p) /\ Last(r) = Last(q)
  BY <1>8, PathThrough
<1>10. r \in Chains(in) /\ f = Head(r) /\ h \in start.calls[Last(r)]
  BY <1>5, <1>6, <1>7, <1>9
<1> QED
  BY <1>3, <1>10

\* The bodies that enter are within their own reachability.
LEMMA CallsAreReach ==
  ASSUME Measurement, NEW f \in Funcs, NEW g \in start.calls[f]
  PROVE  <<f, g>> \in reach
<1> DEFINE in == Inputs(Funcs, Funcs, start.frame, start.calls, {})
<1>1. in.strict = FALSE /\ in.noSplit = Funcs /\ in.calls = start.calls /\ in.frame = start.frame
  BY DEF Inputs
<1>2. start.frame \in [Funcs -> Nat]
  BY DEF Measurement, Bodies
<1>3. reach = UNION {{<<Head(p), x>> : x \in start.calls[Last(p)]} : p \in Chains(in)}
  BY DEF Measurement, CallPairs
<1> HIDE DEF in
<1>4. Plain(in)
  BY <1>1, <1>2, NoSplitInlineAssumption DEF Plain
<1>5. PICK r : IsPath(Funcs, start.calls, r) /\ Head(r) = f /\ Last(r) = f
  BY PathOfOne
<1>6. r \in Chains(in)
  BY <1>1, <1>4, <1>5, ChainsArePaths
<1> QED
  BY <1>3, <1>5, <1>6

\* The pass begins with the module it measured.
LEMMA InitPassInv == Init => PassInv
<1> SUFFICES ASSUME Init PROVE PassInv
  OBVIOUS
<1>1. PICK m \in Modules : module = m.module /\ start = m.bodies
  BY DEF Init
<1>2. Measurement
  BY <1>1, NoSplitInlineAssumption DEF Init, Measurement
<1>3. Typed
  BY <1>2 DEF Init, Typed, Measurement
<1>4. Untouched /\ Refused
  BY DEF Init, Untouched, Refused
<1>5. Edges
  <2>1. \A f \in Funcs : \A g \in bodies.calls[f] : <<f, g>> \in reach
    BY <1>2, CallsAreReach DEF Init
  <2> QED
    BY <2>1 DEF Init, Edges
<1> QED
  BY <1>2, <1>3, <1>4, <1>5 DEF PassInv

\* The measurement is about variables no step changes.
LEMMA MeasurementKept ==
  ASSUME Measurement, UNCHANGED <<module, start, reach, budget>>
  PROVE  Measurement'
<1>1. UNCHANGED <<Guarded, Measured>>
  BY DEF Guarded, Measured
<1>2. BudgetFacts' = BudgetFacts
  BY <1>1 DEF BudgetFacts
<1>3. NewFrameBudget(BudgetFacts)' = NewFrameBudget(BudgetFacts)
  BY <1>2 DEF NewFrameBudget
<1>4. CallPairs' = CallPairs
  BY DEF CallPairs
<1> QED
  BY <1>3, <1>4 DEF Measurement

\* Splicing a callee into the caller.
LEMMA SpliceStep ==
  ASSUME PassInv, NEW g \in Funcs, Splice(g)
  PROVE  PassInv'
<1> DEFINE f == caller.fn
<1> USE DEF PassInv
<1>1. /\ caller \in Callers /\ caller # None /\ f \in Funcs /\ g \in bodies.calls[f] /\ ~Recursive(g)
      /\ caller.body.calls \in SUBSET Funcs
  BY DEF Splice, Typed, Callers
<1>2. /\ bodies.frame \in [Funcs -> Nat] /\ bodies.calls \in [Funcs -> SUBSET Funcs]
      /\ bodies.dynamic \in SUBSET Funcs
  BY DEF Typed, Bodies
<1>3. /\ bodies'.frame = bodies.frame
      /\ bodies'.calls = [bodies.calls EXCEPT ![f] = @ \cup bodies.calls[g]]
      /\ bodies'.dynamic = IF g \in bodies.dynamic THEN bodies.dynamic \cup {f} ELSE bodies.dynamic
      /\ bodies' = [frame |-> bodies'.frame, calls |-> bodies'.calls, dynamic |-> bodies'.dynamic]
  <2>1. bodies \in Bodies
    BY DEF Typed
  <2>2. bodies' = [bodies EXCEPT !.calls[f] = @ \cup bodies.calls[g],
                                 !.dynamic = IF g \in @ THEN @ \cup {f} ELSE @]
    BY DEF Splice
  <2> HIDE DEF f
  <2> QED
    BY <2>1, <2>2 DEF Bodies
<1>4. /\ caller'.fn = f /\ caller'.body = caller.body /\ caller'.spliced = caller.spliced \cup {g}
      /\ caller' \in Callers
  <2>1. caller' = [caller EXCEPT !.spliced = @ \cup {g}]
    BY DEF Splice
  <2> QED
    BY <1>1, <2>1 DEF Callers
<1>5. /\ UNCHANGED <<module, start, reach, budget, charged, visited, outcome>>
  BY DEF Splice
<1> HIDE DEF f
<1>6. Typed'
  <2>1. bodies' \in Bodies
    BY <1>1, <1>2, <1>3 DEF Bodies
  <2> QED
    BY <1>4, <1>5, <2>1 DEF Typed
<1>7. \A x \in Funcs : bodies'.calls[x] = IF x = f THEN bodies.calls[f] \cup bodies.calls[g] ELSE bodies.calls[x]
  BY <1>1, <1>2, <1>3
<1>8. Untouched'
  <2>1. \A x \in Funcs \ visited' : bodies'.frame[x] = start'.frame[x]
    BY <1>3, <1>5 DEF Untouched
  <2>2. caller'.fn \notin visited' /\ caller'.body.calls \subseteq bodies'.calls[caller'.fn]
    BY <1>1, <1>4, <1>5, <1>7 DEF Untouched, f
  <2> QED
    BY <2>1, <2>2 DEF Untouched
<1>9. Edges'
  <2>1. <<f, g>> \in reach
    BY <1>1 DEF Edges
  <2>2. \A x \in bodies.calls[g] : <<g, x>> \in reach
    BY DEF Edges
  <2>3. \A x \in bodies.calls[g] : <<f, x>> \in reach
    BY <2>1, <2>2, ReachJoins
  <2>4. f \notin bodies.calls[g]
    <3>1. ASSUME <<g, f>> \in reach PROVE <<g, g>> \in reach
      BY <2>1, <3>1, ReachJoins
    <3> QED
      BY <1>1, <2>2, <3>1 DEF Recursive
  <2>5. \A x \in Funcs : \A y \in bodies'.calls[x] : <<x, y>> \in reach
    BY <1>7, <2>3 DEF Edges
  <2>6. \A x \in Funcs : x \in bodies'.calls[x] => x \in start.calls[x]
    BY <1>7, <2>4 DEF Edges
  <2> QED
    BY <1>5, <2>5, <2>6 DEF Edges
<1>10. Refused'
  BY <1>1, <1>5 DEF Refused
<1> QED
  BY <1>5, <1>6, <1>8, <1>9, <1>10, MeasurementKept

\* What accepting an inlined body does to it and to the account.
LEMMA AcceptFields ==
  ASSUME PassInv, NEW after \in Frames, NEW kept \in SUBSET Funcs, Accept(after, kept)
  PROVE  /\ caller \in Callers /\ caller # None /\ caller.fn \in Funcs
         /\ caller.fn \notin visited /\ kept \subseteq bodies.calls[caller.fn]
         /\ after \in Nat /\ bodies.frame[caller.fn] = start.frame[caller.fn]
         /\ after - start.frame[caller.fn] <= Allowance(caller.fn)
         /\ bodies'.frame = [bodies.frame EXCEPT ![caller.fn] = after]
         /\ bodies'.calls = [bodies.calls EXCEPT ![caller.fn] = kept]
         /\ bodies' = [frame |-> bodies'.frame, calls |-> bodies'.calls, dynamic |-> bodies.dynamic]
         /\ charged' = Charge(caller.fn, after - start.frame[caller.fn])
         /\ visited' = visited \cup {caller.fn} /\ caller' = None
         /\ UNCHANGED <<module, start, reach, budget, outcome>>
<1> DEFINE f == caller.fn
<1>1. caller \in Callers /\ caller # None /\ f \in Funcs
  BY DEF PassInv, Accept, Typed, Callers
<1>2. bodies' = [bodies EXCEPT !.frame[f] = after, !.calls[f] = kept] /\ bodies \in Bodies
  BY DEF PassInv, Accept, Typed
<1>3. f \notin visited /\ bodies.frame[f] = start.frame[f]
  BY <1>1 DEF PassInv, Untouched
<1>4. after \in Nat
  BY NoSplitInlineAssumption
<1>5. /\ kept \subseteq bodies.calls[f] /\ after - bodies.frame[f] <= Allowance(f)
      /\ charged' = Charge(f, after - bodies.frame[f])
      /\ visited' = visited \cup {f} /\ caller' = None
      /\ UNCHANGED <<module, start, reach, budget, outcome>>
  BY DEF Accept
<1> HIDE DEF f
<1>6. /\ bodies'.frame = [bodies.frame EXCEPT ![f] = after]
      /\ bodies'.calls = [bodies.calls EXCEPT ![f] = kept]
      /\ bodies' = [frame |-> bodies'.frame, calls |-> bodies'.calls, dynamic |-> bodies.dynamic]
  BY <1>2 DEF Bodies
<1> QED
  BY <1>1, <1>3, <1>4, <1>5, <1>6 DEF f

\* An accepted caller is charged what it grew, and its callees were reached before.
LEMMA AcceptStep ==
  ASSUME PassInv, NEW after \in Frames, NEW kept \in SUBSET Funcs, Accept(after, kept)
  PROVE  PassInv'
<1> DEFINE f == caller.fn
           d == after - start.frame[f]
<1> USE DEF PassInv
<1>1. /\ caller # None /\ f \in Funcs /\ kept \subseteq bodies.calls[f] /\ after \in Nat
      /\ bodies'.frame = [bodies.frame EXCEPT ![f] = after]
      /\ bodies'.calls = [bodies.calls EXCEPT ![f] = kept]
      /\ bodies' = [frame |-> bodies'.frame, calls |-> bodies'.calls, dynamic |-> bodies.dynamic]
      /\ charged' = Charge(f, d)
      /\ visited' = visited \cup {f} /\ caller' = None
      /\ UNCHANGED <<module, start, reach, budget, outcome>>
  BY AcceptFields
<1> HIDE DEF f, d
<1>2. /\ bodies.frame \in [Funcs -> Nat] /\ bodies.calls \in [Funcs -> SUBSET Funcs]
      /\ bodies.dynamic \in SUBSET Funcs /\ charged \in [Funcs -> Nat]
  BY DEF Typed, Bodies
<1>3. d \in Int
  BY <1>1 DEF d, f, Measurement, Bodies
<1>4. charged' \in [Funcs -> Nat]
  BY <1>1, <1>2, <1>3 DEF Charge
<1>5. bodies' \in Bodies
  BY <1>1, <1>2 DEF Bodies
<1>6. Typed'
  BY <1>1, <1>4, <1>5 DEF Typed
<1>7. Untouched'
  BY <1>1, <1>2 DEF Untouched
<1>8. \A x \in Funcs : bodies'.calls[x] \subseteq bodies.calls[x]
  BY <1>1, <1>2
<1>9. Edges'
  BY <1>1, <1>8 DEF Edges
<1>10. Refused'
  BY <1>1 DEF Refused
<1> QED
  BY <1>1, <1>6, <1>7, <1>9, <1>10, MeasurementKept

\* A rejected caller gets back a body no larger than the one it had.
LEMMA RejectStep ==
  ASSUME PassInv, Reject
  PROVE  PassInv'
<1> DEFINE f == caller.fn
<1> USE DEF PassInv
<1>1. /\ caller \in Callers /\ caller # None /\ f \in Funcs /\ caller.body.calls \in SUBSET Funcs
  BY DEF Reject, Typed, Callers
<1>2. caller.body.calls \subseteq bodies.calls[f]
  BY <1>1 DEF Untouched
<1>3. /\ bodies.frame \in [Funcs -> Nat] /\ bodies.calls \in [Funcs -> SUBSET Funcs]
      /\ bodies.dynamic \in SUBSET Funcs
  BY DEF Typed, Bodies
<1>4. /\ bodies'.frame = bodies.frame
      /\ bodies'.calls = [bodies.calls EXCEPT ![f] = caller.body.calls]
      /\ bodies'.dynamic = IF caller.body.dynamic THEN bodies.dynamic ELSE bodies.dynamic \ {f}
      /\ bodies' = [frame |-> bodies'.frame, calls |-> bodies'.calls, dynamic |-> bodies'.dynamic]
  <2>1. bodies \in Bodies
    BY DEF Typed
  <2>2. bodies' = [bodies EXCEPT !.calls[f] = caller.body.calls,
                     !.dynamic = IF caller.body.dynamic THEN @ ELSE @ \ {f}]
    BY DEF Reject
  <2> HIDE DEF f
  <2> QED
    BY <2>1, <2>2 DEF Bodies
<1>5. /\ visited' = visited \cup {f} /\ caller' = None
      /\ UNCHANGED <<module, start, reach, budget, charged, outcome>>
  BY DEF Reject
<1> HIDE DEF f
<1>6. Typed'
  <2>1. bodies' \in Bodies
    BY <1>1, <1>3, <1>4 DEF Bodies
  <2> QED
    BY <1>1, <1>5, <2>1 DEF Typed
<1>7. Untouched'
  BY <1>4, <1>5 DEF Untouched
<1>8. \A x \in Funcs : bodies'.calls[x] \subseteq bodies.calls[x]
  BY <1>1, <1>2, <1>3, <1>4
<1>9. Edges'
  BY <1>5, <1>8 DEF Edges
<1>10. Refused'
  BY <1>1, <1>5 DEF Refused
<1> QED
  BY <1>5, <1>6, <1>7, <1>9, <1>10, MeasurementKept

\* A caller's turn begins with the body that was measured.
LEMMA BeginStep ==
  ASSUME PassInv, NEW f \in Funcs, BeginCaller(f)
  PROVE  PassInv'
<1> USE DEF PassInv
<1>1. /\ f \notin visited /\ UNCHANGED <<module, start, bodies, reach, budget, charged, visited, outcome>>
      /\ caller' = [fn |-> f, body |-> [calls |-> bodies.calls[f], dynamic |-> f \in bodies.dynamic],
                    spliced |-> {}]
  BY DEF BeginCaller, Turn
<1>2. bodies.calls[f] \in SUBSET Funcs
  BY DEF Typed, Bodies
<1>3. caller' \in Callers /\ caller'.fn = f /\ caller'.body.calls = bodies.calls[f]
  BY <1>1, <1>2 DEF Callers
<1>4. Typed'
  BY <1>1, <1>3 DEF Typed
<1>5. Untouched' /\ Edges'
  BY <1>1, <1>3 DEF Untouched, Edges
<1>6. Refused'
  BY <1>1 DEF Refused
<1> QED
  BY <1>1, <1>4, <1>5, <1>6, MeasurementKept

\* The verdict depends on the bodies and on what was declared.
LEMMA VerdictKept ==
  ASSUME UNCHANGED <<module, bodies>>
  PROVE  Accepts(bodies)' = Accepts(bodies)
<1>1. Guarded' = Guarded
  BY DEF Guarded
<1>2. FinalFacts(bodies)' = FinalFacts(bodies)
  BY <1>1 DEF FinalFacts
<1>3. \A f \in Funcs : LimitFor(f)' = LimitFor(f)
  BY DEF LimitFor
<1> QED
  BY <1>2, <1>3 DEF Accepts

\* Every step of the pass keeps the invariant, one case per action.
LEMMA PassStep == PassInv /\ [Next]_vars => PassInv'
<1> SUFFICES ASSUME PassInv, [Next]_vars PROVE PassInv'
  OBVIOUS
<1> USE DEF PassInv
<1>1. CASE Reject
  BY <1>1, RejectStep
<1>2. CASE Emit
  <2>1. /\ visited = Funcs /\ caller = None
        /\ outcome' = IF module.unmeasurable = {} /\ Accepts(bodies) THEN "object" ELSE "error"
        /\ UNCHANGED <<module, start, bodies, reach, budget, charged, visited, caller>>
    BY <1>2 DEF Emit
  <2>2. Typed' /\ Untouched' /\ Edges'
    BY <2>1 DEF Typed, Untouched, Edges
  <2>3. Accepts(bodies)' = Accepts(bodies)
    BY <2>1, VerdictKept
  <2>4. Refused'
    BY <2>1, <2>3 DEF Refused
  <2> QED
    BY <2>1, <2>2, <2>4, MeasurementKept
<1>3. ASSUME NEW f \in Funcs, LeaveAlone(f) PROVE PassInv'
  <2>1. /\ f \notin visited /\ caller = None /\ visited' = visited \cup {f}
        /\ UNCHANGED <<module, start, bodies, reach, budget, charged, caller, outcome>>
    BY <1>3 DEF LeaveAlone, Turn
  <2>2. Typed' /\ Untouched' /\ Edges'
    BY <2>1 DEF Typed, Untouched, Edges
  <2>3. Refused'
    BY <2>1 DEF Refused
  <2> QED
    BY <2>1, <2>2, <2>3, MeasurementKept
<1>4. ASSUME NEW f \in Funcs, BeginCaller(f) PROVE PassInv'
  BY <1>4, BeginStep
<1>5. ASSUME NEW g \in Funcs, Splice(g) PROVE PassInv'
  BY <1>5, SpliceStep
<1>6. ASSUME NEW after \in Frames, NEW kept \in SUBSET Funcs, Accept(after, kept) PROVE PassInv'
  BY <1>6, AcceptStep
<1>7. CASE UNCHANGED vars
  <2>1. UNCHANGED <<module, start, bodies, reach, budget, charged, visited, caller, outcome>>
    BY <1>7 DEF vars
  <2>2. Typed' /\ Untouched' /\ Edges'
    BY <2>1 DEF Typed, Untouched, Edges
  <2>3. Refused'
    BY <2>1, VerdictKept DEF Refused
  <2> QED
    BY <2>1, <2>2, <2>3, MeasurementKept
<1> QED
  BY <1>1, <1>2, <1>3, <1>4, <1>5, <1>6, <1>7 DEF Next, Finished

\* The invariant of the pass.
LEMMA PassInvariant == Spec => []PassInv
BY InitPassInv, PassStep, PTL DEF Spec

----------------------------------------------------------------------------
(* The pass is a run of the ledger.                                        *)

\* What a chain was measured at, as the set of the functions on it.
LEMMA ChainMeasure ==
  ASSUME Measurement, NEW c \in LedgerChains
  PROVE  /\ c \in SUBSET Funcs /\ IsFiniteSet(c) /\ Measure(c) \in Nat
         /\ \E p \in Chains(BudgetFacts) : c = Range(p) /\ Measure(c) = Bytes(BudgetFacts, p)
<1>1. PICK p \in Chains(BudgetFacts) : c = Range(p)
  BY BudgetFields DEF LedgerChains
<1>2. Plain(BudgetFacts) /\ BudgetFacts.noSplit \subseteq Funcs
  BY BudgetShape
<1>3. /\ Bytes(BudgetFacts, p) = SumFunctionOnSet(BudgetFacts.frame, Range(p))
      /\ Bytes(BudgetFacts, p) \in Nat
      /\ Range(p) \subseteq BudgetFacts.noSplit /\ IsFiniteSet(Range(p))
  BY <1>2, ChainBytes
<1>4. Measure(c) = Bytes(BudgetFacts, p)
  BY <1>1, <1>3, BudgetFields DEF Measure
<1> QED
  BY <1>1, <1>2, <1>3, <1>4

\* Growth is counted function by function and never below nothing.
GrowthCounts ==
  /\ Growth \in [Funcs -> Nat]
  /\ \A f \in Funcs : /\ bodies.frame[f] - start.frame[f] <= Growth[f]
                      /\ bodies.frame[f] <= start.frame[f] => Growth[f] = 0
                      /\ bodies.frame[f] > start.frame[f] => Growth[f] = bodies.frame[f] - start.frame[f]

\* Growth is never negative: a frame that shrinks counts as none.
LEMMA GrowthIsNat == PassInv => GrowthCounts
<1> SUFFICES ASSUME PassInv PROVE GrowthCounts
  OBVIOUS
<1>1. bodies.frame \in [Funcs -> Nat] /\ start.frame \in [Funcs -> Nat]
  BY DEF PassInv, Typed, Measurement, Bodies
<1>2. ASSUME NEW n \in Int PROVE Max({0, n}) = IF n > 0 THEN n ELSE 0
  BY DEF Max
<1>3. ASSUME NEW f \in Funcs
      PROVE  Growth[f] = IF bodies.frame[f] - start.frame[f] > 0
                         THEN bodies.frame[f] - start.frame[f] ELSE 0
  <2> DEFINE n == bodies.frame[f] - start.frame[f]
  <2>1. n \in Int
    BY <1>1
  <2>2. Growth[f] = Max({0, n})
    BY DEF Growth
  <2> HIDE DEF n
  <2>3. Growth[f] = IF n > 0 THEN n ELSE 0
    BY <1>2, <2>1, <2>2
  <2> QED
    BY <2>3 DEF n
<1>4. \A f \in Funcs : bodies.frame[f] \in Nat /\ start.frame[f] \in Nat
  BY <1>1
<1>5. Growth = [f \in Funcs |-> Growth[f]]
  BY DEF Growth
<1>6. \A f \in Funcs : Growth[f] \in Nat
  BY <1>3, <1>4
<1> QED
  BY <1>3, <1>4, <1>5, <1>6 DEF GrowthCounts

\* The budget as it is measured is a ledger with nothing spent.
LEMMA LedgerInit == Init => Ledger!Init
<1> SUFFICES ASSUME Init PROVE Ledger!Init
  OBVIOUS
<1>0. PassInv /\ Measurement
  BY InitPassInv DEF PassInv
<1> DEFINE slack == [c \in LedgerChains |-> Limit - Measure(c)]
           spent == [c \in LedgerChains |-> Grown(c)]
<1>1. LedgerChains \subseteq SUBSET Funcs
  BY <1>0, ChainMeasure
<1>2. slack \in [LedgerChains -> Int]
  BY <1>0, ChainMeasure, NoSplitInlineAssumption
<1>3. budget.headroom \in [Funcs -> Int] /\ budget.sharing \in [Funcs -> SUBSET Funcs]
  <2>1. \A f \in Funcs : (IF f \in BudgetFacts.noSplit THEN RoomFor(BudgetFacts, f, Limit) ELSE 0) \in Int
    BY <1>0, RoomIsSlack
  <2>2. \A f \in Funcs : Sharing(BudgetFacts, f) \in SUBSET Funcs
    BY <1>0, BudgetShape DEF Sharing
  <2> QED
    BY <1>0, <2>1, <2>2, BudgetFields
<1>4. ASSUME NEW c \in LedgerChains, NEW f \in c
      PROVE  budget.headroom[f] <= Limit - Measure(c) /\ c \subseteq budget.sharing[f]
  <2>1. PICK p \in Chains(BudgetFacts) : c = Range(p) /\ Measure(c) = Bytes(BudgetFacts, p)
    BY <1>0, ChainMeasure
  <2>2. Range(p) \subseteq BudgetFacts.noSplit /\ BudgetFacts.noSplit \subseteq Funcs
    BY <1>0, BudgetShape, ChainBytes
  <2>3. f \in Funcs /\ f \in BudgetFacts.noSplit
    BY <2>1, <2>2
  <2>4. budget.headroom[f] = RoomFor(BudgetFacts, f, Limit)
    BY <1>0, <2>3, BudgetFields
  <2>5. budget.headroom[f] <= Limit - Measure(c)
    BY <1>0, <2>1, <2>3, <2>4, RoomIsSlack
  <2>6. budget.sharing[f] = {g \in BudgetFacts.noSplit : OnOneChain(BudgetFacts, f, g)}
    BY <1>0, <2>3, BudgetFields DEF Sharing
  <2>7. \A g \in c : g \in BudgetFacts.noSplit /\ OnOneChain(BudgetFacts, f, g)
    BY <2>1, <2>2 DEF OnOneChain
  <2> QED
    BY <2>5, <2>6, <2>7
<1>5. \A c \in LedgerChains : Grown(c) = 0
  <2> SUFFICES ASSUME NEW c \in LedgerChains PROVE Grown(c) = 0
    OBVIOUS
  <2>1. IsFiniteSet(c) /\ c \in SUBSET Funcs
    BY <1>0, ChainMeasure
  <2>2. \A f \in c : Growth[f] = 0
    <3>1. \A f \in Funcs : bodies.frame[f] <= start.frame[f]
      BY <1>0 DEF Init, Measurement, Bodies
    <3> QED
      BY <1>0, <2>1, <3>1, GrowthIsNat DEF GrowthCounts
  <2>3. SumFunctionOnSet(Growth, c) = SumFunctionOnSet(Growth, {})
    <3>1. {} \in SUBSET c /\ (\A f \in c : Growth[f] \in Int) /\ \A f \in c \ {} : Growth[f] = 0
      BY <2>2
    <3> QED
      BY <2>1, <3>1, SumSupport
  <2>4. SumFunctionOnSet(Growth, {}) = 0
    BY FS_EmptySet, SumUnfolds
  <2> QED
    BY <2>3, <2>4 DEF Grown
<1>6. charged = [f \in Funcs |-> 0] /\ spent = [c \in LedgerChains |-> 0]
  BY <1>5 DEF Init
<1>7. DOMAIN slack = LedgerChains
  OBVIOUS
<1>8. \A c \in LedgerChains : slack[c] = Limit - Measure(c)
  OBVIOUS
<1> HIDE DEF slack, spent
<1>9. \A c \in LedgerChains : \A f \in c : budget.headroom[f] <= slack[c] /\ c \subseteq budget.sharing[f]
  BY <1>4, <1>8
<1> QED
  BY <1>1, <1>2, <1>3, <1>6, <1>7, <1>9 DEF Ledger!Init, Ledger!chains, slack, spent

\* The growth of a chain follows the frames.
LEMMA GrownKept ==
  ASSUME PassInv, PassInv', UNCHANGED <<start, budget>>,
         \A f \in Funcs : Growth'[f] = Growth[f]
  PROVE  /\ LedgerChains' = LedgerChains
         /\ \A c \in LedgerChains : Grown(c)' = Grown(c) /\ Measure(c)' = Measure(c)
<1>1. LedgerChains' = LedgerChains
  BY DEF LedgerChains
<1>2. ASSUME NEW c \in LedgerChains
      PROVE  Grown(c)' = Grown(c) /\ Measure(c)' = Measure(c)
  <2>1. IsFiniteSet(c) /\ c \in SUBSET Funcs
    BY ChainMeasure DEF PassInv
  <2>2. Growth \in [Funcs -> Nat]
    BY GrowthIsNat DEF GrowthCounts
  <2>3. \A f \in c : Growth[f] \in Nat /\ Growth[f] = Growth'[f]
    BY <2>1, <2>2
  <2>4. SumFunctionOnSet(Growth, c) = SumFunctionOnSet(Growth', c)
    BY <2>1, <2>3, SumSame
  <2> QED
    BY <2>4 DEF Grown, Measure
<1> QED
  BY <1>1, <1>2

\* Accepted growth is a grant; an accepted shrink changes no account.
LEMMA AcceptIsGrant ==
  ASSUME PassInv, PassInv', NEW after \in Frames, NEW kept \in SUBSET Funcs, Accept(after, kept)
  PROVE  [Ledger!Next]_(Ledger!vars)
<1> DEFINE f == caller.fn
           d == after - start.frame[f]
<1>1. /\ f \in Funcs /\ after \in Nat /\ bodies.frame[f] = start.frame[f]
      /\ d <= Allowance(f)
      /\ bodies'.frame = [bodies.frame EXCEPT ![f] = after]
      /\ charged' = Charge(f, d)
      /\ UNCHANGED <<start, budget>>
  BY AcceptFields
<1> HIDE DEF f
<1>2. bodies.frame \in [Funcs -> Nat] /\ start.frame \in [Funcs -> Nat] /\ charged \in [Funcs -> Nat]
  BY DEF PassInv, Typed, Measurement, Bodies
<1>3. /\ Growth \in [Funcs -> Nat] /\ Growth' \in [Funcs -> Nat]
      /\ Growth[f] = 0
      /\ d <= 0 => Growth'[f] = 0
      /\ d > 0 => Growth'[f] = d
  <2>1. bodies'.frame[f] = after /\ start'.frame[f] = start.frame[f]
    BY <1>1, <1>2
  <2>2. /\ Growth' \in [Funcs -> Nat]
        /\ bodies'.frame[f] <= start'.frame[f] => Growth'[f] = 0
        /\ bodies'.frame[f] > start'.frame[f] => Growth'[f] = bodies'.frame[f] - start'.frame[f]
    <3>1. GrowthCounts'
      BY GrowthIsNat, PTL
    <3> QED
      BY <1>1, <3>1 DEF GrowthCounts
  <2>3. start.frame[f] \in Nat
    BY <1>1, <1>2
  <2> QED
    BY <1>1, <2>1, <2>2, <2>3, GrowthIsNat DEF GrowthCounts
<1>4. \A x \in Funcs : x # f => Growth'[x] = Growth[x]
  <2>1. \A x \in Funcs : x # f => bodies'.frame[x] = bodies.frame[x] /\ start'.frame[x] = start.frame[x]
    BY <1>1, <1>2
  <2>2. \A x \in Funcs : Growth'[x] = Max({0, bodies'.frame[x] - start'.frame[x]})
    BY DEF Growth
  <2>3. \A x \in Funcs : Growth[x] = Max({0, bodies.frame[x] - start.frame[x]})
    BY DEF Growth
  <2> QED
    BY <2>1, <2>2, <2>3
<1>5. d \in Int
  BY <1>1, <1>2
<1> HIDE DEF d
<1>6. CASE d <= 0
  <2>1. \A x \in Funcs : Growth'[x] = Growth[x]
    BY <1>3, <1>4, <1>6
  <2>2. /\ LedgerChains' = LedgerChains
        /\ \A c \in LedgerChains : Grown(c)' = Grown(c) /\ Measure(c)' = Measure(c)
    BY <1>1, <2>1, GrownKept
  <2>3. charged' = charged
    BY <1>1, <1>2, <1>5, <1>6 DEF Charge
  <2> QED
    BY <1>1, <2>2, <2>3 DEF Ledger!vars
<1>7. CASE d > 0
  <2>1. LedgerChains' = LedgerChains /\ \A c \in LedgerChains : Measure(c)' = Measure(c)
    BY <1>1 DEF LedgerChains, Measure
  <2>2. ASSUME NEW c \in LedgerChains
        PROVE  Grown(c)' = IF f \in c THEN Grown(c) + d ELSE Grown(c)
    <3>1. IsFiniteSet(c) /\ c \in SUBSET Funcs /\ IsFiniteSet(c \ {f})
      BY ChainMeasure, FS_Subset DEF PassInv
    <3>2. \A x \in c \ {f} : Growth[x] \in Nat /\ Growth[x] = Growth'[x]
      BY <1>3, <1>4, <3>1
    <3>3. SumFunctionOnSet(Growth, c \ {f}) = SumFunctionOnSet(Growth', c \ {f})
      BY <3>1, <3>2, SumSame
    <3>4. \A x \in c : Growth[x] \in Int /\ Growth'[x] \in Int
      BY <1>3, <3>1
    <3>5. CASE f \in c
      <4>1. SumFunctionOnSet(Growth, c) = 0 + SumFunctionOnSet(Growth, c \ {f})
        BY <1>3, <3>1, <3>4, <3>5, SumRemove
      <4>2. SumFunctionOnSet(Growth', c) = d + SumFunctionOnSet(Growth', c \ {f})
        BY <1>3, <1>7, <3>1, <3>4, <3>5, SumRemove
      <4>3. SumFunctionOnSet(Growth, c \ {f}) \in Int
        BY <3>1, <3>2, SumInt
      <4> QED
        BY <1>5, <3>3, <3>5, <4>1, <4>2, <4>3 DEF Grown
    <3>6. CASE f \notin c
      <4>1. c \ {f} = c
        BY <3>6
      <4> QED
        BY <3>3, <3>6, <4>1 DEF Grown
    <3> QED
      BY <3>5, <3>6
  <2> DEFINE slack == [c \in LedgerChains |-> Limit - Measure(c)]
             spent == [c \in LedgerChains |-> Grown(c)]
  <2>3. spent' = [c \in LedgerChains |-> IF f \in c THEN spent[c] + d ELSE spent[c]] /\ slack' = slack
    BY <2>1, <2>2
  <2>4. charged' = [g \in Funcs |-> IF g \in budget.sharing[f] THEN charged[g] + d ELSE charged[g]]
    BY <1>1, <1>2, <1>5, <1>7 DEF Charge
  <2>5. DOMAIN slack = LedgerChains
    OBVIOUS
  <2> HIDE DEF slack, spent
  <2>6. Ledger!Grant(f, d)
    BY <1>1, <2>3, <2>4, <2>5 DEF Ledger!Grant, Ledger!Charge, Ledger!chains, slack, spent
  <2>7. d \in 1 .. Ledger!Allowance(f)
    <3>1. budget.headroom[f] \in Int
      BY <1>1, BudgetFields, RoomIsSlack DEF PassInv
    <3>2. Allowance(f) \in Int /\ Allowance(f) = Ledger!Allowance(f)
      BY <1>1, <1>2, <3>1 DEF Allowance, Ledger!Allowance, Safety, Ledger!Safety
    <3> QED
      BY <1>1, <1>5, <1>7, <3>2 DEF d
  <2> QED
    BY <1>1, <2>6, <2>7 DEF Ledger!Next
<1> QED
  BY <1>5, <1>6, <1>7

\* Every step is a grant or leaves the ledger alone.
LEMMA LedgerStep == PassInv /\ PassInv' /\ [Next]_vars => [Ledger!Next]_(Ledger!vars)
<1> SUFFICES ASSUME PassInv, PassInv', [Next]_vars PROVE [Ledger!Next]_(Ledger!vars)
  OBVIOUS
<1>1. ASSUME bodies'.frame = bodies.frame, UNCHANGED <<start, budget, charged>>
      PROVE  UNCHANGED Ledger!vars
  <2>1. \A f \in Funcs : Growth'[f] = Growth[f]
    BY <1>1 DEF Growth
  <2>2. /\ LedgerChains' = LedgerChains
        /\ \A c \in LedgerChains : Grown(c)' = Grown(c) /\ Measure(c)' = Measure(c)
    BY <1>1, <2>1, GrownKept
  <2> QED
    BY <1>1, <2>2 DEF Ledger!vars
<1>2. bodies \in Bodies
  BY DEF PassInv, Typed
<1>3. CASE Reject
  <2>1. bodies'.frame = bodies.frame
    BY <1>2, <1>3 DEF Reject, Bodies
  <2> QED
    BY <1>1, <1>3, <2>1 DEF Reject
<1>4. CASE Emit \/ Finished
  BY <1>1, <1>4 DEF Emit, Finished, vars
<1>5. ASSUME NEW f \in Funcs, LeaveAlone(f) \/ BeginCaller(f) PROVE UNCHANGED Ledger!vars
  BY <1>1, <1>5 DEF LeaveAlone, BeginCaller
<1>6. ASSUME NEW g \in Funcs, Splice(g) PROVE UNCHANGED Ledger!vars
  <2>1. bodies'.frame = bodies.frame
    BY <1>2, <1>6 DEF Splice, Bodies
  <2> QED
    BY <1>1, <1>6, <2>1 DEF Splice
<1>7. ASSUME NEW after \in Frames, NEW kept \in SUBSET Funcs, Accept(after, kept)
      PROVE  [Ledger!Next]_(Ledger!vars)
  BY <1>7, AcceptIsGrant
<1>8. CASE UNCHANGED vars
  BY <1>1, <1>8 DEF vars
<1> QED
  BY <1>3, <1>4, <1>5, <1>6, <1>7, <1>8 DEF Next

\* The pass implements the ledger: each accepted inlining is one grant, charged to
\* every function that shares a chain with the caller, and nothing else changes an
\* account (InlineIntoNoSplitCallersReporting over noSplitFrameBudget).
THEOREM PassImplementsLedger == Spec => ImplementsLedger
BY LedgerInit, LedgerStep, PassInvariant, PTL DEF Spec, ImplementsLedger, Ledger!Spec

----------------------------------------------------------------------------
(* The per-function account is enough for every chain, whatever the chains *)
(* are and in whatever order functions are granted bytes.  The invariant   *)
(* needs the charge of every function on a chain to cover what the chain   *)
(* has spent: that is what makes a stale headroom safe to hand out.        *)

\* Accounts of any chains: measured soundly, and not overspent.
Accounts(chains, slack, spent, headroom, sharing, paid) ==
  /\ chains \subseteq SUBSET Funcs
  /\ slack \in [chains -> Int] /\ spent \in [chains -> Nat]
  /\ headroom \in [Funcs -> Int] /\ paid \in [Funcs -> Nat]
  /\ sharing \in [Funcs -> SUBSET Funcs]
  /\ \A c \in chains : \A f \in c : headroom[f] <= slack[c] /\ c \subseteq sharing[f]
  /\ \A c \in chains : \A f \in c : spent[c] <= paid[f]
  /\ \A c \in chains : spent[c] = 0 \/ spent[c] + 16 <= slack[c]

\* A grant within the allowance keeps the accounts, and every chain it lengthens has the
\* room.
LEMMA GrantKeeps ==
  ASSUME NEW chains, NEW slack, NEW spent, NEW headroom, NEW sharing, NEW paid,
         Accounts(chains, slack, spent, headroom, sharing, paid),
         NEW f \in Funcs, NEW d \in 1 .. (headroom[f] - paid[f] - 16),
         NEW spent2, spent2 = [c \in chains |-> IF f \in c THEN spent[c] + d ELSE spent[c]],
         NEW paid2, paid2 = [g \in Funcs |-> IF g \in sharing[f] THEN paid[g] + d ELSE paid[g]]
  PROVE  /\ Accounts(chains, slack, spent2, headroom, sharing, paid2)
         /\ \A c \in chains : f \in c => spent[c] + d <= slack[c]
<1>1. /\ chains \subseteq SUBSET Funcs
      /\ slack \in [chains -> Int] /\ spent \in [chains -> Nat]
      /\ headroom \in [Funcs -> Int] /\ paid \in [Funcs -> Nat]
      /\ sharing \in [Funcs -> SUBSET Funcs]
      /\ \A c \in chains : \A g \in c : headroom[g] <= slack[c] /\ c \subseteq sharing[g]
      /\ \A c \in chains : \A g \in c : spent[c] <= paid[g]
      /\ \A c \in chains : spent[c] = 0 \/ spent[c] + 16 <= slack[c]
  BY DEF Accounts
<1>2. d \in Nat \ {0} /\ d + paid[f] + 16 <= headroom[f]
  BY <1>1
<1>3. spent2 \in [chains -> Nat] /\ paid2 \in [Funcs -> Nat]
  BY <1>1, <1>2
<1>4. ASSUME NEW c \in chains
      PROVE  /\ \A g \in c : spent2[c] <= paid2[g]
             /\ spent2[c] = 0 \/ spent2[c] + 16 <= slack[c]
             /\ f \in c => spent[c] + d <= slack[c]
  <2>1. CASE f \in c
    <3>1. spent2[c] = spent[c] + d /\ spent[c] \in Nat /\ slack[c] \in Int
      BY <1>1, <2>1
    <3>2. \A g \in c : g \in Funcs /\ paid2[g] = paid[g] + d /\ paid[g] \in Nat
      BY <1>1, <2>1
    <3>3. headroom[f] <= slack[c] /\ spent[c] <= paid[f] /\ headroom[f] \in Int /\ paid[f] \in Nat
      BY <1>1, <2>1
    <3>4. spent2[c] + 16 <= slack[c] /\ spent[c] + d <= slack[c]
      BY <1>2, <3>1, <3>3
    <3>5. \A g \in c : spent2[c] <= paid2[g]
      BY <1>1, <1>2, <3>1, <3>2
    <3> QED
      BY <3>4, <3>5
  <2>2. CASE f \notin c
    <3>1. spent2[c] = spent[c] /\ spent[c] \in Nat
      BY <1>1, <2>2
    <3>2. \A g \in c : g \in Funcs /\ paid[g] \in Nat /\ paid2[g] \in Nat /\ paid[g] <= paid2[g]
      BY <1>1, <1>2
    <3>3. \A g \in c : spent2[c] <= paid2[g]
      BY <1>1, <3>1, <3>2
    <3> QED
      BY <1>1, <2>2, <3>1, <3>3
  <2> QED
    BY <2>1, <2>2
<1> QED
  BY <1>1, <1>3, <1>4 DEF Accounts

\* The ledger the pass keeps.
LedgerSlack == [c \in LedgerChains |-> Limit - Measure(c)]
LedgerSpent == [c \in LedgerChains |-> Grown(c)]
LedgerInv ==
  Accounts(DOMAIN LedgerSlack, LedgerSlack, LedgerSpent, budget.headroom, budget.sharing, charged)

\* A measured ledger starts inside its budget.
LEMMA LedgerInitInv == Ledger!Init => LedgerInv /\ Ledger!Budget!Init
<1> SUFFICES ASSUME Ledger!Init PROVE LedgerInv /\ Ledger!Budget!Init
  OBVIOUS
<1>1. /\ DOMAIN LedgerSlack \subseteq SUBSET Funcs
      /\ LedgerSlack \in [DOMAIN LedgerSlack -> Int]
      /\ budget.headroom \in [Funcs -> Int]
      /\ budget.sharing \in [Funcs -> SUBSET Funcs]
      /\ \A c \in DOMAIN LedgerSlack : \A f \in c :
           budget.headroom[f] <= LedgerSlack[c] /\ c \subseteq budget.sharing[f]
      /\ LedgerSpent = [c \in DOMAIN LedgerSlack |-> 0]
      /\ charged = [f \in Funcs |-> 0]
  BY DEF Ledger!Init, Ledger!chains, LedgerSlack, LedgerSpent
<1>2. Ledger!Budget!Init
  BY <1>1 DEF Ledger!Budget!Init, LedgerSlack, LedgerSpent
<1>3. /\ LedgerSpent \in [DOMAIN LedgerSlack -> Nat] /\ charged \in [Funcs -> Nat]
      /\ \A c \in DOMAIN LedgerSlack : LedgerSpent[c] = 0 /\ \A f \in c : charged[f] = 0
  BY <1>1
<1>4. LedgerInv
  BY <1>1, <1>3 DEF LedgerInv, Accounts
<1> QED
  BY <1>2, <1>4

\* A grant, as a change of the ledger.
LEMMA GrantIs ==
  ASSUME NEW f, NEW d, Ledger!Grant(f, d)
  PROVE  /\ charged' = [g \in Funcs |-> IF g \in budget.sharing[f] THEN charged[g] + d ELSE charged[g]]
         /\ LedgerSpent' = [c \in DOMAIN LedgerSlack |->
                              IF f \in c THEN LedgerSpent[c] + d ELSE LedgerSpent[c]]
         /\ LedgerSlack' = LedgerSlack
         /\ budget.headroom' = budget.headroom /\ budget.sharing' = budget.sharing
BY DEF Ledger!Grant, Ledger!Charge, Ledger!chains, LedgerSlack, LedgerSpent

\* A grant charges everything that shares a chain with it, and is a growth of the budget.
LEMMA LedgerNextInv ==
  LedgerInv /\ [Ledger!Next]_(Ledger!vars) => LedgerInv' /\ [Ledger!Budget!Next]_(Ledger!Budget!vars)
<1> SUFFICES ASSUME LedgerInv, [Ledger!Next]_(Ledger!vars)
             PROVE  LedgerInv' /\ [Ledger!Budget!Next]_(Ledger!Budget!vars)
  OBVIOUS
<1>1. CASE UNCHANGED Ledger!vars
  <2>1. /\ LedgerSlack' = LedgerSlack /\ LedgerSpent' = LedgerSpent /\ charged' = charged
        /\ budget.headroom' = budget.headroom /\ budget.sharing' = budget.sharing
    BY <1>1 DEF Ledger!vars, LedgerSlack, LedgerSpent
  <2>2. UNCHANGED Ledger!Budget!vars
    BY <2>1 DEF Ledger!Budget!vars, LedgerSlack, LedgerSpent
  <2>3. LedgerInv'
    BY <2>1 DEF LedgerInv, Accounts
  <2> QED
    BY <2>2, <2>3
<1>2. ASSUME NEW f \in Funcs, NEW d \in 1 .. Ledger!Allowance(f), Ledger!Grant(f, d)
      PROVE  LedgerInv' /\ Ledger!Budget!Next
  <2> DEFINE D == DOMAIN LedgerSlack
             cs == {c \in D : f \in c}
  <2>1. d \in 1 .. (budget.headroom[f] - charged[f] - 16)
    BY DEF Ledger!Allowance, Ledger!Safety
  <2>2. /\ charged' = [g \in Funcs |-> IF g \in budget.sharing[f] THEN charged[g] + d ELSE charged[g]]
        /\ LedgerSpent' = [c \in D |-> IF f \in c THEN LedgerSpent[c] + d ELSE LedgerSpent[c]]
        /\ LedgerSlack' = LedgerSlack
        /\ budget.headroom' = budget.headroom /\ budget.sharing' = budget.sharing
    BY <1>2, GrantIs
  <2>3. /\ Accounts(D, LedgerSlack, LedgerSpent', budget.headroom, budget.sharing, charged')
        /\ \A c \in D : f \in c => LedgerSpent[c] + d <= LedgerSlack[c]
    BY <2>1, <2>2, GrantKeeps DEF LedgerInv
  <2>4. LedgerInv'
    BY <2>2, <2>3 DEF LedgerInv
  <2>5. d \in Nat \ {0} /\ cs \in SUBSET D
    BY <2>1 DEF LedgerInv, Accounts
  <2>6. /\ \A c \in cs : LedgerSpent[c] + d <= LedgerSlack[c]
        /\ LedgerSpent' = [c \in D |-> IF c \in cs THEN LedgerSpent[c] + d ELSE LedgerSpent[c]]
    BY <2>2, <2>3
  <2> HIDE DEF cs
  <2>7. Ledger!Budget!Grow(cs, d)
    BY <2>2, <2>6 DEF Ledger!Budget!Grow, LedgerSlack, LedgerSpent
  <2>8. Ledger!Budget!Next
    BY <2>5, <2>7 DEF Ledger!Budget!Next, LedgerSlack
  <2> QED
    BY <2>4, <2>8
<1> QED
  BY <1>1, <1>2 DEF Ledger!Next

\* However many functions of a chain are inlined into, in whatever order, and
\* however their chains cross, the chain's growth stays Safety bytes inside the
\* slack it was measured with (noSplitFrameBudget.Headroom and Charge).
THEOREM LedgerNeverOverspends == Ledger!Spec => []Ledger!NeverOverspent
<1>1. LedgerInv => Ledger!NeverOverspent
  BY DEF LedgerInv, Accounts, Ledger!NeverOverspent, Ledger!chains, Ledger!Safety, LedgerSlack, LedgerSpent
<1> QED
  BY <1>1, LedgerInitInv, LedgerNextInv, PTL DEF Ledger!Spec

\* The per-function account implements the budget of chains: every grant is a
\* growth for which each chain through the function still had the room.
THEOREM LedgerImplementsBudget == Ledger!Spec => Ledger!ImplementsBudget
BY LedgerInitInv, LedgerNextInv, PTL DEF Ledger!Spec, Ledger!ImplementsBudget, Ledger!Budget!Spec

----------------------------------------------------------------------------
(* The measured chains.                                                    *)

\* The larger of two numbers.
LEMMA MaxOfTwo ==
  ASSUME NEW a \in Int, NEW b \in Int
  PROVE  Max({a, b}) = IF a >= b THEN a ELSE b
BY DEF Max

\* A chain's growth along the path is at most what the ledger counts for the set.
LEMMA GrownAtMost ==
  ASSUME PassInv, NEW p \in Chains(BudgetFacts)
  PROVE  /\ GrownBytes(p) \in Int /\ Grown(Range(p)) \in Nat
         /\ GrownBytes(p) <= Bytes(BudgetFacts, p) + Grown(Range(p))
<1> DEFINE g == BudgetFacts
           v == [i \in DOMAIN p |-> g.frame[p[i]] + bodies.frame[p[i]] - start.frame[p[i]]]
           w == [f \in Funcs |-> g.frame[f] + Growth[f]]
<1>1. Measurement /\ GrowthCounts
  BY GrowthIsNat DEF PassInv
<1>2. Plain(g) /\ g.noSplit \subseteq Funcs /\ IsFiniteSet(g.noSplit)
  BY <1>1, BudgetShape DEF Plain
<1>3. IsPath(g.noSplit, g.calls, p) /\ Range(p) \subseteq g.noSplit /\ IsFiniteSet(Range(p))
  BY <1>2, ChainsArePaths, ChainBytes
<1>4. GrownBytes(p) = SumFunctionOnSet(v, DOMAIN p)
  BY <1>1, BudgetFields DEF GrownBytes, SumFunction
<1>5. \A f \in g.noSplit : /\ g.frame[f] \in Nat /\ Growth[f] \in Nat
                           /\ bodies.frame[f] \in Nat /\ start.frame[f] \in Nat
                           /\ bodies.frame[f] - start.frame[f] <= Growth[f]
                           /\ w[f] = g.frame[f] + Growth[f]
  <2>1. bodies.frame \in [Funcs -> Nat] /\ start.frame \in [Funcs -> Nat]
    BY DEF PassInv, Typed, Measurement, Bodies
  <2> QED
    BY <1>1, <1>2, <2>1 DEF Plain, GrowthCounts
<1>6. \A i \in DOMAIN p : v[i] = g.frame[p[i]] + bodies.frame[p[i]] - start.frame[p[i]]
                          /\ p[i] \in g.noSplit
  BY <1>3 DEF Range
<1> HIDE DEF g, v, w
<1>7. \A f \in g.noSplit : w[f] \in Nat
  BY <1>5
<1>8. \A i \in DOMAIN p : v[i] \in Int /\ v[i] <= w[p[i]]
  <2> SUFFICES ASSUME NEW i \in DOMAIN p PROVE v[i] \in Int /\ v[i] <= w[p[i]]
    OBVIOUS
  <2> DEFINE f == p[i]
  <2>1. f \in g.noSplit /\ v[i] = g.frame[f] + bodies.frame[f] - start.frame[f]
    BY <1>6
  <2> HIDE DEF f
  <2>2. v[i] \in Int /\ v[i] <= w[f]
    BY <1>5, <2>1
  <2> QED
    BY <2>2 DEF f
<1>9. SumFunctionOnSet(v, DOMAIN p) <= SumFunctionOnSet(w, Range(p))
  BY <1>2, <1>3, <1>7, <1>8, PathSumAtMost
<1>10. SumFunctionOnSet(w, Range(p)) = SumFunctionOnSet(g.frame, Range(p)) + SumFunctionOnSet(Growth, Range(p))
  <2>1. \A f \in Range(p) : g.frame[f] \in Int /\ Growth[f] \in Int /\ w[f] = g.frame[f] + Growth[f]
    BY <1>3, <1>5
  <2> QED
    BY <1>3, <2>1, SumPlus
<1>11. Bytes(g, p) = SumFunctionOnSet(g.frame, Range(p))
  BY <1>2, ChainBytes DEF g
<1>12. SumFunctionOnSet(v, DOMAIN p) \in Int
  <2>1. DOMAIN p = 1 .. Len(p) /\ Len(p) \in Nat
    BY <1>3, PathParts
  <2>2. IsFiniteSet(DOMAIN p)
    BY <2>1, FS_Interval
  <2> QED
    BY <1>8, <2>2, SumInt
<1>13. Grown(Range(p)) \in Nat
  <2>1. \A f \in Range(p) : Growth[f] \in Nat
    BY <1>3, <1>5
  <2> QED
    BY <1>3, <2>1, SumNat DEF Grown
<1> QED
  BY <1>4, <1>9, <1>10, <1>11, <1>12, <1>13 DEF Grown, g

\* An account that is not overspent is a chain that fits.
LEMMA FitsFromLedger == PassInv /\ Ledger!NeverOverspent => MeasuredChainsFit
<1> SUFFICES ASSUME PassInv, Ledger!NeverOverspent, NEW p \in budget.chains
             PROVE  GrownBytes(p) <= Max({Limit - Safety, Bytes(budget.facts, p)})
  BY DEF MeasuredChainsFit
<1> DEFINE g == BudgetFacts
           c == Range(p)
           m == Bytes(g, p)
<1>1. Measurement /\ p \in Chains(g) /\ budget.facts = g
  BY BudgetFields DEF PassInv
<1>2. c \in LedgerChains
  BY DEF LedgerChains
<1>3. m \in Nat /\ Measure(c) = m
  <2>1. Plain(g)
    BY <1>1, BudgetShape
  <2>2. m \in Nat /\ m = SumFunctionOnSet(g.frame, c)
    BY <1>1, <2>1, ChainBytes
  <2> QED
    BY <1>1, <2>2 DEF Measure
<1>4. GrownBytes(p) \in Int /\ Grown(c) \in Nat /\ GrownBytes(p) <= m + Grown(c)
  BY <1>1, GrownAtMost
<1>5. Grown(c) = 0 \/ Grown(c) + 16 <= Limit - Measure(c)
  BY <1>2 DEF Ledger!NeverOverspent, Ledger!chains, Ledger!Safety
<1>6. Limit - Safety \in Int /\ Limit \in Int /\ Safety = 16
  BY NoSplitInlineAssumption DEF Safety
<1>7. Max({Limit - Safety, m}) = IF Limit - Safety >= m THEN Limit - Safety ELSE m
  BY <1>3, <1>6, MaxOfTwo
<1> HIDE DEF m, c
<1>8. GrownBytes(p) <= Max({Limit - Safety, m})
  BY <1>3, <1>4, <1>5, <1>6, <1>7
<1> QED
  BY <1>1, <1>8 DEF m

\* No chain that was measured grows past the limit less the safety bytes, however
\* its growth is split between the functions on it and whatever their order, and a
\* chain that was over is never a byte deeper (Headroom and Charge as
\* InlineIntoNoSplitCallersReporting calls them).
THEOREM MeasuredChainsStayWithinBudget == Spec => []MeasuredChainsFit
BY PassInvariant, PassImplementsLedger, LedgerNeverOverspends, FitsFromLedger, PTL DEF ImplementsLedger

----------------------------------------------------------------------------
(* The budget is a budget for the check that follows.                      *)

\* What the build would have to be refused in spite of.
Clear == PassInv /\ MeasuredChainsFit /\ Accepts(start) /\ ~Blind

NoSplitFuncs == Funcs \ Guarded

\* The facts of the check, for any bodies.
LEMMA FinalShape ==
  ASSUME NEW b \in Bodies
  PROVE  /\ Plain(FinalFacts(b))
         /\ FinalFacts(b).noSplit = NoSplitFuncs /\ FinalFacts(b).calls = b.calls
         /\ FinalFacts(b).frame = b.frame /\ FinalFacts(b).dynamic = b.dynamic
         /\ FinalFacts(b).strict = FALSE
<1>1. /\ FinalFacts(b).noSplit = NoSplitFuncs /\ FinalFacts(b).calls = b.calls
      /\ FinalFacts(b).frame = b.frame /\ FinalFacts(b).dynamic = b.dynamic
      /\ FinalFacts(b).strict = FALSE
  BY DEF FinalFacts, Inputs, NoSplitFuncs
<1>2. IsFiniteSet(NoSplitFuncs) /\ IndirectTarget \notin NoSplitFuncs
  BY NoSplitInlineAssumption, FS_Subset DEF NoSplitFuncs
<1>3. \A f \in NoSplitFuncs : b.frame[f] \in Nat
  BY DEF Bodies, NoSplitFuncs
<1> QED
  BY <1>1, <1>2, <1>3 DEF Plain

\* A chain of the check is endless through its last function.
LEMMA EndlessChain ==
  ASSUME NEW b \in Bodies, NEW p \in Chains(FinalFacts(b))
  PROVE  Endless(FinalFacts(b), p) <=> Last(p) \in b.dynamic \/ b.calls[Last(p)] \cap Range(p) # {}
<1> DEFINE t == FinalFacts(b)
<1>1. /\ Plain(t) /\ t.noSplit = NoSplitFuncs /\ t.calls = b.calls /\ t.dynamic = b.dynamic /\ t.strict = FALSE
  BY FinalShape
<1> HIDE DEF t
<1>2. IsPath(NoSplitFuncs, b.calls, p)
  BY <1>1, ChainsArePaths DEF t
<1>3. Last(p) \in NoSplitFuncs
  BY <1>2, PathParts
<1>4. CalleesOf(t, Last(p)) = b.calls[Last(p)]
  BY <1>1, <1>3 DEF CalleesOf, Plain
<1> QED
  BY <1>1, <1>4 DEF Endless, t

\* A module the check accepts has no endless chain, and each is within its limit.
LEMMA AcceptedChains ==
  ASSUME Measurement, NEW b \in Bodies, Accepts(b), NEW p \in Chains(FinalFacts(b))
  PROVE  /\ ~Endless(FinalFacts(b), p)
         /\ Bytes(FinalFacts(b), p) <= LimitFor(Head(p)) /\ Head(p) \in Funcs
<1> DEFINE t == FinalFacts(b)
           f == Head(p)
           ps == {q \in Chains(t) : Head(q) = f}
<1>1. Plain(t) /\ t.noSplit = NoSplitFuncs
  BY FinalShape
<1>2. IsPath(t.noSplit, t.calls, p)
  BY <1>1, ChainsArePaths
<1>3. f \in Funcs
  BY <1>1, <1>2, PathParts DEF NoSplitFuncs
<1>4. LimitFor(f) < Infinite /\ LimitFor(f) \in Nat
  <2>1. Limit \in Int /\ Limit < Infinite /\ module.recorded[f] \in Int /\ module.recorded[f] < Infinite
        /\ Limit \in Nat /\ module.recorded[f] \in Nat
    BY <1>3, NoSplitInlineAssumption DEF Measurement, Declarations
  <2>2. LimitFor(f) = IF Limit >= module.recorded[f] THEN Limit ELSE module.recorded[f]
    BY <2>1, MaxOfTwo DEF LimitFor
  <2> QED
    BY <2>1, <2>2
<1>5. Deepest(t, ps) <= LimitFor(f)
  BY <1>3 DEF Accepts, Height
<1>6. \A q \in ps : ~Endless(t, q)
  <2> SUFFICES ASSUME NEW q \in ps, Endless(t, q) PROVE FALSE
    OBVIOUS
  <2>1. Deepest(t, ps) = Infinite
    BY DEF Deepest
  <2> QED
    BY <1>4, <1>5, <2>1, NoSplitInlineAssumption
<1>7. p \in ps /\ ps \in SUBSET Chains(t)
  OBVIOUS
<1> HIDE DEF ps, t
<1>8. Bytes(t, p) <= Deepest(t, ps) /\ (Deepest(t, ps) = 0 \/ \E q \in ps : Deepest(t, ps) = Bytes(t, q))
  BY <1>1, <1>6, <1>7, DeepestChain
<1>9. Bytes(t, p) \in Nat /\ Deepest(t, ps) \in Nat
  BY <1>1, <1>7, <1>8, ChainBytes
<1>10. Bytes(t, p) <= LimitFor(f)
  BY <1>4, <1>5, <1>8, <1>9
<1> QED
  BY <1>3, <1>6, <1>7, <1>10 DEF t

\* With nothing hidden from it, the budget measured the chains the check walks.
LEMMA ClearBudget ==
  ASSUME Clear
  PROVE  /\ BudgetFacts.noSplit = NoSplitFuncs /\ Measured = NoSplitFuncs
         /\ NoSplitFuncs \subseteq Funcs /\ IsFiniteSet(NoSplitFuncs)
         /\ \A f \in NoSplitFuncs : /\ BudgetFacts.frame[f] = start.frame[f]
                                    /\ BudgetFacts.calls[f] = start.calls[f]
         /\ \A p : p \in Chains(BudgetFacts) <=> IsPath(NoSplitFuncs, start.calls, p)
         /\ \A p : p \in Chains(FinalFacts(start)) <=> IsPath(NoSplitFuncs, start.calls, p)
         /\ \A p : p \in Chains(FinalFacts(bodies)) <=> IsPath(NoSplitFuncs, bodies.calls, p)
         /\ bodies \in Bodies /\ start \in Bodies /\ bodies.dynamic = start.dynamic
<1>1. /\ Measurement /\ bodies \in Bodies /\ start \in Bodies /\ module \in Declarations
      /\ bodies.dynamic = start.dynamic
  BY DEF Clear, PassInv, Typed, Measurement, Blind
<1>2. module.unmeasurable = {} /\ \A f \in Funcs : module.managed[f]
  BY DEF Clear, Blind
<1>3. Measured = NoSplitFuncs /\ NoSplitFuncs \subseteq Funcs /\ IsFiniteSet(NoSplitFuncs)
  BY <1>1, <1>2, NoSplitInlineAssumption, FS_Subset DEF Measured, NoSplitFuncs, Guarded
<1>4. BudgetFacts.noSplit = NoSplitFuncs /\ Plain(BudgetFacts)
  BY <1>1, <1>2, BudgetShape DEF NoSplitFuncs
<1>5. \A f \in NoSplitFuncs : BudgetFacts.frame[f] = start.frame[f] /\ BudgetFacts.calls[f] = start.calls[f]
  BY <1>1, <1>3, <1>4, BudgetShape
<1>6. \A p : IsPath(NoSplitFuncs, BudgetFacts.calls, p) <=> IsPath(NoSplitFuncs, start.calls, p)
  <2> SUFFICES ASSUME NEW p, p \in Seq(NoSplitFuncs)
               PROVE  (\A i \in 1 .. Len(p) - 1 : p[i + 1] \in BudgetFacts.calls[p[i]])
                      <=> \A i \in 1 .. Len(p) - 1 : p[i + 1] \in start.calls[p[i]]
    BY DEF IsPath
  <2>1. \A i \in 1 .. Len(p) - 1 : p[i] \in NoSplitFuncs
    OBVIOUS
  <2> QED
    BY <1>5, <2>1
<1>7. \A p : p \in Chains(BudgetFacts) <=> IsPath(NoSplitFuncs, start.calls, p)
  BY <1>4, <1>6, ChainsArePaths
<1>8. \A p : p \in Chains(FinalFacts(start)) <=> IsPath(NoSplitFuncs, start.calls, p)
  BY <1>1, FinalShape, ChainsArePaths
<1>9. \A p : p \in Chains(FinalFacts(bodies)) <=> IsPath(NoSplitFuncs, bodies.calls, p)
  BY <1>1, FinalShape, ChainsArePaths
<1> QED
  BY <1>1, <1>3, <1>4, <1>5, <1>7, <1>8, <1>9

\* The calls at the start have no cycle without a check, and each call of the
\* finished bodies follows them.
LEMMA ClearGraph ==
  ASSUME Clear
  PROVE  /\ \A r : IsPath(NoSplitFuncs, start.calls, r) => Head(r) \notin start.calls[Last(r)]
         /\ \A r : IsPath(NoSplitFuncs, start.calls, r) => Last(r) \notin start.dynamic
         /\ \A a, b \in NoSplitFuncs : b \in bodies.calls[a] =>
              \E r : IsPath(NoSplitFuncs, start.calls, r) /\ Head(r) = a /\ Last(r) = b
<1>1. Measurement /\ Accepts(start) /\ start \in Bodies
  BY ClearBudget DEF Clear, PassInv
<1>2. ASSUME NEW r, IsPath(NoSplitFuncs, start.calls, r)
      PROVE  Head(r) \notin start.calls[Last(r)] /\ Last(r) \notin start.dynamic
  <2>1. r \in Chains(FinalFacts(start))
    BY <1>2, ClearBudget
  <2>2. ~Endless(FinalFacts(start), r)
    BY <1>1, <2>1, AcceptedChains
  <2>3. Head(r) \in Range(r)
    BY <1>2, PathParts
  <2> QED
    BY <1>1, <2>1, <2>2, <2>3, EndlessChain
<1>3. ASSUME NEW a \in NoSplitFuncs, NEW b \in NoSplitFuncs, b \in bodies.calls[a]
      PROVE  \E r : IsPath(NoSplitFuncs, start.calls, r) /\ Head(r) = a /\ Last(r) = b
  <2>1. PICK p \in budget.chains : Head(p) = a /\ Last(p) = b
    BY <1>3, ClearBudget DEF Clear, Blind
  <2>2. IsPath(NoSplitFuncs, start.calls, p)
    BY <1>1, <2>1, BudgetFields, ClearBudget
  <2> QED
    BY <2>1, <2>2
<1> QED
  BY <1>2, <1>3

\* No chain of the finished bodies re-enters itself or allocates dynamically.
LEMMA ClearChainsEnd ==
  ASSUME Clear, NEW q \in Chains(FinalFacts(bodies))
  PROVE  ~Endless(FinalFacts(bodies), q)
<1> DEFINE N == NoSplitFuncs
           n == Len(q)
           l == Last(q)
<1>0. /\ IsPath(N, bodies.calls, q) /\ bodies \in Bodies /\ bodies.dynamic = start.dynamic
      /\ N \subseteq Funcs
  BY ClearBudget
<1>1. /\ n \in Nat \ {0} /\ DOMAIN q = 1 .. n /\ l = q[n] /\ l \in N /\ Range(q) \subseteq N /\ n = Len(q)
  BY <1>0, PathParts
<1>2. /\ \A r : IsPath(N, start.calls, r) => Head(r) \notin start.calls[Last(r)]
      /\ \A r : IsPath(N, start.calls, r) => Last(r) \notin start.dynamic
      /\ \A a, b \in N : b \in bodies.calls[a] =>
           \E r : IsPath(N, start.calls, r) /\ Head(r) = a /\ Last(r) = b
  BY ClearGraph
<1> HIDE DEF N, n, l
<1>3. l \notin bodies.dynamic
  <2>1. PICK r : IsPath(N, start.calls, r) /\ Head(r) = l /\ Last(r) = l
    BY <1>1, PathOfOne
  <2> QED
    BY <1>0, <1>2, <2>1
<1>4. ASSUME NEW x \in Range(q), x \in bodies.calls[l] PROVE FALSE
  <2>1. x \in N
    BY <1>1
  <2>2. CASE x = l
    <3>1. l \in start.calls[l]
      <4>1. l \in Funcs
        BY <1>0, <1>1
      <4> QED
        BY <1>4, <2>2, <4>1 DEF Clear, PassInv, Edges
    <3>2. PICK r : IsPath(N, start.calls, r) /\ Head(r) = l /\ Last(r) = l
      BY <1>1, PathOfOne
    <3> QED
      BY <1>2, <3>1, <3>2
  <2>3. CASE x # l
    <3>1. PICK i \in 1 .. n : q[i] = x
      BY <1>1 DEF Range
    <3>2. PICK s : IsPath(N, bodies.calls, s) /\ Head(s) = x /\ Last(s) = l
      <4>1. i \in 1 .. Len(q) /\ n \in i .. Len(q)
        BY <1>1
      <4>2. \E s : IsPath(N, bodies.calls, s) /\ Head(s) = q[i] /\ Last(s) = q[n]
        BY <1>0, <4>1, PathSegment
      <4> QED
        BY <1>1, <3>1, <4>2
    <3>3. PICK u : IsPath(N, start.calls, u) /\ Head(u) = x /\ Last(u) = l
      BY <1>2, <3>2, PathCovered
    <3>4. PICK r : IsPath(N, start.calls, r) /\ Head(r) = l /\ Last(r) = x
      BY <1>1, <1>2, <1>4, <2>1
    <3>5. PICK y : /\ IsPath(N, start.calls, y) /\ Head(y) = Head(u) /\ Last(y) = Last(r)
                   /\ Range(y) = Range(u) \cup Range(r)
      <4>1. \A z : IsPath(N, start.calls, z) => Head(z) \notin start.calls[Last(z)]
        BY <1>2
      <4>2. IsPath(N, start.calls, u) /\ IsPath(N, start.calls, r) /\ Last(u) = Head(r)
        BY <3>3, <3>4
      <4> QED
        BY <4>1, <4>2, PathExtend
    <3>6. /\ Len(y) \in Nat \ {0} /\ DOMAIN y = 1 .. Len(y) /\ y[1] = x /\ y[Len(y)] = x
          /\ \A a, b \in 1 .. Len(y) : y[a] = y[b] => a = b
      BY <3>3, <3>4, <3>5, PathParts
    <3>7. 1 \in 1 .. Len(y) /\ Len(y) \in 1 .. Len(y)
      BY <3>6
    <3>8. Len(y) = 1
      BY <3>6, <3>7
    <3>9. \A z \in Range(y) : z = x
      BY <3>6, <3>8 DEF Range
    <3>10. l \in Range(y)
      BY <3>3, <3>5, PathParts
    <3> QED
      BY <2>3, <3>9, <3>10
  <2> QED
    BY <2>2, <2>3
<1> QED
  BY <1>0, <1>3, <1>4, EndlessChain DEF l

\* A chain of the finished bodies is within its limit: it lies along one that was
\* measured, which fits.
LEMMA ClearChainsFit ==
  ASSUME Clear, NEW q \in Chains(FinalFacts(bodies))
  PROVE  Bytes(FinalFacts(bodies), q) <= LimitFor(Head(q))
<1> DEFINE N == NoSplitFuncs
           f == Head(q)
           w == bodies.frame
<1>0. /\ IsPath(N, bodies.calls, q) /\ bodies \in Bodies /\ start \in Bodies /\ N \subseteq Funcs
      /\ IsFiniteSet(N) /\ Measurement /\ MeasuredChainsFit /\ Accepts(start)
  BY ClearBudget DEF Clear, PassInv
<1>1. /\ \A r : IsPath(N, start.calls, r) => Head(r) \notin start.calls[Last(r)]
      /\ \A a, b \in N : b \in bodies.calls[a] =>
           \E r : IsPath(N, start.calls, r) /\ Head(r) = a /\ Last(r) = b
  BY ClearGraph
<1>2. PICK p : IsPath(N, start.calls, p) /\ Head(p) = f /\ Range(q) \subseteq Range(p)
  <2> HIDE DEF N
  <2> QED
    BY <1>0, <1>1, PathCovered
<1>3. p \in Chains(BudgetFacts) /\ p \in Chains(FinalFacts(start)) /\ p \in budget.chains
  BY <1>0, <1>2, ClearBudget, BudgetFields
<1>4. \A x \in N : w[x] \in Nat /\ w[x] \in Int /\ start.frame[x] \in Nat
  BY <1>0 DEF Bodies
<1>5. Range(p) \subseteq N /\ IsFiniteSet(Range(p)) /\ IsFiniteSet(Range(q))
  BY <1>0, <1>2, PathParts, FS_Subset
<1> HIDE DEF w
<1>6. SumFunctionOnSet(w, Range(q)) <= SumFunctionOnSet(w, Range(p))
  <2> DEFINE h == [x \in Range(q) |-> x]
  <2>1. h \in [Range(q) -> Range(p)] /\ (\A x, y \in Range(q) : x # y => h[x] # h[y])
        /\ \A x \in Range(q) : w[x] \in Int /\ w[x] <= w[h[x]]
    BY <1>2, <1>4, <1>5
  <2>2. \A x \in Range(p) : w[x] \in Nat
    BY <1>4, <1>5
  <2> HIDE DEF h
  <2> QED
    BY <1>5, <2>1, <2>2, SumInjection
<1>7. Bytes(FinalFacts(bodies), q) = SumFunctionOnSet(w, Range(q)) /\ Bytes(FinalFacts(bodies), q) \in Nat
  BY <1>0, FinalShape, ChainBytes DEF w
<1>8. GrownBytes(p) = SumFunctionOnSet(w, Range(p))
  <2> DEFINE v == [i \in DOMAIN p |-> BudgetFacts.frame[p[i]] + w[p[i]] - start.frame[p[i]]]
  <2>1. \A i \in DOMAIN p : p[i] \in N
    BY <1>5 DEF Range
  <2>2. \A i \in DOMAIN p : v[i] = BudgetFacts.frame[p[i]] + w[p[i]] - start.frame[p[i]]
    OBVIOUS
  <2>3. GrownBytes(p) = SumFunctionOnSet(v, DOMAIN p)
    BY <1>0, BudgetFields DEF GrownBytes, SumFunction, w
  <2> HIDE DEF v
  <2>4. \A i \in DOMAIN p : v[i] = w[p[i]]
    <3> SUFFICES ASSUME NEW i \in DOMAIN p PROVE v[i] = w[p[i]]
      OBVIOUS
    <3> DEFINE x == p[i]
    <3>1. x \in N /\ v[i] = BudgetFacts.frame[x] + w[x] - start.frame[x]
      BY <2>1, <2>2
    <3> HIDE DEF x
    <3>2. BudgetFacts.frame[x] = start.frame[x] /\ start.frame[x] \in Nat /\ w[x] \in Nat
      BY <1>4, <3>1, ClearBudget
    <3>3. v[i] = w[x]
      BY <3>1, <3>2
    <3> QED
      BY <3>3 DEF x
  <2> QED
    BY <1>0, <1>2, <1>4, <2>3, <2>4, PathSum
<1>9. Bytes(BudgetFacts, p) = Bytes(FinalFacts(start), p)
  <2>1. Plain(BudgetFacts) /\ Plain(FinalFacts(start)) /\ FinalFacts(start).frame = start.frame
    BY <1>0, BudgetShape, FinalShape
  <2>2. /\ Bytes(BudgetFacts, p) = SumFunctionOnSet(BudgetFacts.frame, Range(p))
        /\ Bytes(FinalFacts(start), p) = SumFunctionOnSet(start.frame, Range(p))
    BY <1>3, <2>1, ChainBytes
  <2>3. \A x \in Range(p) : BudgetFacts.frame[x] \in Nat /\ BudgetFacts.frame[x] = start.frame[x]
    BY <1>4, <1>5, ClearBudget
  <2> QED
    BY <1>5, <2>2, <2>3, SumSame
<1>10. Bytes(FinalFacts(start), p) <= LimitFor(f) /\ f \in Funcs /\ Bytes(FinalFacts(start), p) \in Nat
  BY <1>0, <1>2, <1>3, AcceptedChains, FinalShape, ChainBytes
<1>11. GrownBytes(p) <= Max({Limit - Safety, Bytes(BudgetFacts, p)})
  BY <1>0, <1>3, BudgetFields DEF MeasuredChainsFit
<1>12. LimitFor(f) \in Int /\ Limit <= LimitFor(f) /\ Limit \in Int
  <2>1. Limit \in Int /\ module.recorded[f] \in Int
    BY <1>0, <1>10, NoSplitInlineAssumption DEF Measurement, Declarations
  <2>2. LimitFor(f) = IF Limit >= module.recorded[f] THEN Limit ELSE module.recorded[f]
    BY <2>1, MaxOfTwo DEF LimitFor
  <2> QED
    BY <2>1, <2>2
<1>13. SumFunctionOnSet(w, Range(p)) <= LimitFor(f)
  <2> DEFINE m == Bytes(BudgetFacts, p)
             t == SumFunctionOnSet(w, Range(p))
  <2>1. t \in Int
    BY <1>4, <1>5, SumInt
  <2>2. m \in Int /\ m <= LimitFor(f) /\ Limit - Safety \in Int /\ Limit - Safety <= Limit
    BY <1>9, <1>10, <1>12 DEF Safety
  <2>3. t <= Max({Limit - Safety, m})
    BY <1>8, <1>11
  <2> HIDE DEF m, t
  <2>4. Max({Limit - Safety, m}) = IF Limit - Safety >= m THEN Limit - Safety ELSE m
    BY <2>2, MaxOfTwo
  <2>5. t <= LimitFor(f)
    BY <1>12, <2>1, <2>2, <2>3, <2>4
  <2> QED
    BY <2>5 DEF t
<1>14. SumFunctionOnSet(w, Range(p)) \in Int /\ SumFunctionOnSet(w, Range(q)) \in Int
  BY <1>4, <1>5, <1>7, SumInt
<1> QED
  BY <1>6, <1>7, <1>12, <1>13, <1>14

\* A finished chain lies inside measured ones, which fit.
LEMMA KeepsTheBuild == PassInv /\ MeasuredChainsFit => PassKeepsTheBuild
<1> SUFFICES ASSUME PassInv, MeasuredChainsFit, outcome = "error", Accepts(start), ~Blind
             PROVE  FALSE
  BY DEF PassKeepsTheBuild
<1> DEFINE t == FinalFacts(bodies)
<1>1. Clear /\ module.unmeasurable = {} /\ Measurement /\ bodies \in Bodies
  BY DEF Clear, Blind, PassInv, Typed
<1>2. Plain(t)
  BY <1>1, FinalShape
<1>3. \A q \in Chains(t) : ~Endless(t, q) /\ Bytes(t, q) <= LimitFor(Head(q))
  BY <1>1, ClearChainsEnd, ClearChainsFit
<1> HIDE DEF t
<1>4. ASSUME NEW f \in Funcs PROVE Height(t, f) <= LimitFor(f)
  <2> DEFINE ps == {q \in Chains(t) : Head(q) = f}
  <2>1. ps \in SUBSET Chains(t) /\ \A q \in ps : ~Endless(t, q) /\ Bytes(t, q) <= LimitFor(f)
    BY <1>3
  <2>2. Height(t, f) = Deepest(t, ps)
    BY DEF Height
  <2> HIDE DEF ps
  <2>3. Deepest(t, ps) = 0 \/ \E q \in ps : Deepest(t, ps) = Bytes(t, q)
    BY <1>2, <2>1, DeepestChain
  <2>4. LimitFor(f) \in Nat
    <3>1. Limit \in Nat /\ module.recorded[f] \in Nat
      BY <1>1, NoSplitInlineAssumption DEF Measurement, Declarations
    <3>2. LimitFor(f) = IF Limit >= module.recorded[f] THEN Limit ELSE module.recorded[f]
      BY <3>1, MaxOfTwo DEF LimitFor
    <3> QED
      BY <3>1, <3>2
  <2> QED
    BY <2>1, <2>2, <2>3, <2>4
<1>5. Accepts(bodies)
  BY <1>4 DEF Accepts, t
<1> QED
  BY <1>1, <1>5 DEF PassInv, Refused

\* A module the check accepts before the pass it accepts after it, whatever is
\* inlined and in whatever order, unless the pass met what its budget does not see
\* (checkNoSplitBudget after InlineIntoNoSplitCallersReporting).
THEOREM PassNeverBreaksTheBuild == Spec => []PassKeepsTheBuild
BY PassInvariant, MeasuredChainsStayWithinBudget, KeepsTheBuild, PTL
=============================================================================
