--------------------------- MODULE StackCheckProofs ---------------------------
(***************************************************************************)
(* Every invariant of StackCheck, for every set of call graphs.            *)
(*                                                                         *)
(* First what the reference definitions say of a graph: a chain is a       *)
(* simple path, its bytes are the frames of its functions as a set, and a  *)
(* height obeys the recurrence that walker.compute follows: the frame on   *)
(* top of the highest callee, or the sentinel when a callee has it         *)
(* (EndlessStep, HeightStep).  Then the walks.  WalkInv says that a        *)
(* memoised answer is the true one and that each call on the recursion     *)
(* has in its best the most of what it has looked at so far.  What makes   *)
(* it inductive is that the recursion is itself a path of the graph: a     *)
(* callee found on it closes a cycle, so the sentinel that stands for it   *)
(* is the true answer (BackEdge), and so is every answer built on it.      *)
(* The walk of the callers is the same walk over Reversed(g).  At last the *)
(* report: ReportInv counts what is left to print, and ChainInv that a     *)
(* chain being rebuilt has lost nothing of its root's height.              *)
(***************************************************************************)
EXTENDS StackCheck, SumsAndPaths, TLAPS

(* Chains, as paths.                                                       *)

\* What the walks need of the facts they run over.
IsGraph(f) ==
  /\ Infinite \in Nat
  /\ IsFiniteSet(f.funcs) /\ IndirectTarget \notin f.funcs
  /\ f.noSplit \subseteq f.funcs /\ f.dynamic \subseteq f.funcs /\ f.strict \in BOOLEAN
  /\ f.frame \in [f.funcs -> Nat] /\ SumFunctionOnSet(f.frame, f.funcs) < Infinite

\* The call graph as functions of its nodes: the calls, and the frames.
EdgesOf(f) == [n \in Nodes(f) |-> CalleesOf(f, n)]
WeightOf(f) == [n \in Nodes(f) |-> FrameOf(f, n)]

\* The module's facts are such.
LEMMA FactsAreGraphs ==
  ASSUME NEW f \in Graphs
  PROVE  IsGraph(f)
<1>1. IsFacts(f) /\ Infinite \in Nat
  BY StackCheckAssumption
<1>2. SumFunction(f.frame) = SumFunctionOnSet(f.frame, f.funcs)
  BY <1>1 DEF SumFunction, IsFacts
<1> QED
  BY <1>1, <1>2 DEF IsGraph, IsFacts

\* The nodes are finitely many, and their frames are counts.
LEMMA GraphParts ==
  ASSUME NEW f, IsGraph(f)
  PROVE  /\ IsFiniteSet(Nodes(f)) /\ Nodes(f) \subseteq f.funcs \cup {IndirectTarget}
         /\ f.noSplit \subseteq Nodes(f) /\ Nodes(f) \ {IndirectTarget} = f.noSplit
         /\ \A n \in Nodes(f) : WeightOf(f)[n] = FrameOf(f, n) /\ FrameOf(f, n) \in Nat
         /\ \A n \in Nodes(f) : EdgesOf(f)[n] = CalleesOf(f, n)
         /\ IndirectTarget \in Nodes(f) => FrameOf(f, IndirectTarget) = 0
         /\ \A n \in Nodes(f) \ {IndirectTarget} : FrameOf(f, n) = f.frame[n]
<1>1. IsFiniteSet(f.noSplit) /\ IndirectTarget \notin f.noSplit
  BY FS_Subset DEF IsGraph
<1>2. IsFiniteSet(f.noSplit \cup {IndirectTarget})
  BY <1>1, FS_AddElement
<1>3. Nodes(f) \subseteq f.noSplit \cup {IndirectTarget} /\ f.noSplit \subseteq Nodes(f)
  BY DEF Nodes
<1>4. IsFiniteSet(Nodes(f))
  BY <1>2, <1>3, FS_Subset
<1> QED
  BY <1>1, <1>3, <1>4 DEF IsGraph, FrameOf, WeightOf, EdgesOf

\* A chain is a simple path.
LEMMA ChainsArePaths ==
  ASSUME NEW f, IsGraph(f)
  PROVE  \A p : p \in Chains(f) <=> IsPath(Nodes(f), EdgesOf(f), p)
<1> DEFINE N == Nodes(f)
           c == Cardinality(N)
           E == EdgesOf(f)
<1>0. IsFiniteSet(N) /\ \A n \in N : E[n] = CalleesOf(f, n)
  BY GraphParts
<1>2. c \in Nat
  BY <1>0, FS_CardinalityType
<1> HIDE DEF E
<1>3. ASSUME NEW p, p \in Chains(f) PROVE IsPath(N, E, p)
  <2>1. p \in SeqOf(N, c) /\ p # <<>> /\ IsInjective(p)
        /\ \A i \in 1 .. Len(p) - 1 : p[i + 1] \in CalleesOf(f, p[i])
    BY <1>3 DEF Chains
  <2>2. p \in Seq(N)
    BY <1>2, <2>1 DEF SeqOf
  <2>3. \A i \in 1 .. Len(p) - 1 : p[i] \in N
    BY <2>2
  <2> QED
    BY <1>0, <2>1, <2>2, <2>3 DEF IsPath
<1>4. ASSUME NEW p, IsPath(N, E, p) PROVE p \in Chains(f)
  <2>1. Len(p) <= c /\ p \in Seq(N) /\ Len(p) \in Nat
    BY <1>0, <1>4, PathIsShort DEF IsPath
  <2>2. p \in [1 .. Len(p) -> N] /\ Len(p) \in 0 .. c
    BY <1>2, <2>1
  <2>3. p \in SeqOf(N, c)
    BY <2>2 DEF SeqOf
  <2>4. \A i \in 1 .. Len(p) - 1 : p[i] \in N
    BY <2>1
  <2> QED
    BY <1>0, <1>4, <2>3, <2>4 DEF Chains, IsPath
<1> QED
  BY <1>3, <1>4 DEF E

\* A chain weighs what its functions weigh together, which is a number below the
\* sentinel.
LEMMA ChainBytes ==
  ASSUME NEW f, IsGraph(f), NEW p \in Chains(f)
  PROVE  /\ Bytes(f, p) = SumFunctionOnSet(WeightOf(f), Range(p))
         /\ Bytes(f, p) \in Nat /\ Bytes(f, p) < Infinite
         /\ Range(p) \subseteq Nodes(f) /\ IsFiniteSet(Range(p))
<1> DEFINE N == Nodes(f)
           w == WeightOf(f)
           v == [i \in DOMAIN p |-> FrameOf(f, p[i])]
           R == Range(p)
           T == R \ {IndirectTarget}
           h == [x \in T |-> x]
<1>0. IsPath(N, EdgesOf(f), p) /\ IsFiniteSet(N) /\ \A n \in N : w[n] = FrameOf(f, n) /\ w[n] \in Nat
  BY ChainsArePaths, GraphParts
<1>1. R \subseteq N /\ IsFiniteSet(R) /\ IsFiniteSet(T) /\ T \subseteq f.funcs
  BY <1>0, PathParts, FS_Subset, GraphParts
<1>2. \A i \in DOMAIN p : v[i] = w[p[i]]
  BY <1>0, <1>1 DEF Range
<1>3. Bytes(f, p) = SumFunctionOnSet(v, DOMAIN p)
  BY DEF Bytes, SumFunction
<1>4. \A x \in R : w[x] \in Nat /\ w[x] \in Int
  BY <1>0, <1>1
<1>5. \A x \in R \ T : w[x] = 0
  BY <1>0, <1>1, GraphParts
<1>6. \A x \in T : w[x] = f.frame[x]
  BY <1>0, <1>1, GraphParts
<1> HIDE DEF v, w, R
<1>7. Bytes(f, p) = SumFunctionOnSet(w, R)
  BY <1>0, <1>2, <1>3, PathSum DEF R
<1>8. SumFunctionOnSet(w, R) \in Nat
  BY <1>1, <1>4, SumNat
<1>9. SumFunctionOnSet(w, R) = SumFunctionOnSet(w, T)
  BY <1>1, <1>4, <1>5, SumSupport
<1>10. SumFunctionOnSet(w, T) <= SumFunctionOnSet(f.frame, f.funcs)
  <2>1. /\ h \in [T -> f.funcs] /\ (\A x, y \in T : x # y => h[x] # h[y])
        /\ \A x \in T : w[x] <= f.frame[h[x]] /\ w[x] \in Int
    BY <1>1, <1>4, <1>6
  <2>2. IsFiniteSet(f.funcs) /\ \A y \in f.funcs : f.frame[y] \in Nat
    BY DEF IsGraph
  <2> HIDE DEF h, T
  <2> QED
    BY <1>1, <2>1, <2>2, SumInjection
<1>11. SumFunctionOnSet(f.frame, f.funcs) < Infinite /\ Infinite \in Nat
       /\ SumFunctionOnSet(f.frame, f.funcs) \in Nat
  BY SumNat DEF IsGraph
<1> QED
  BY <1>1, <1>7, <1>8, <1>9, <1>10, <1>11 DEF R, w

\* n alone is a chain.
LEMMA ChainOfOne ==
  ASSUME NEW f, IsGraph(f), NEW n \in Nodes(f)
  PROVE  \E r \in Chains(f) : /\ Head(r) = n /\ Last(r) = n /\ Range(r) = {n} /\ Len(r) = 1
                              /\ Bytes(f, r) = FrameOf(f, n)
<1>1. PICK r : IsPath(Nodes(f), EdgesOf(f), r) /\ Head(r) = n /\ Last(r) = n
  BY PathOfOne
<1>2. r \in Chains(f)
  BY <1>1, ChainsArePaths
<1>3. /\ Len(r) \in Nat \ {0} /\ DOMAIN r = 1 .. Len(r) /\ r[1] = n /\ r[Len(r)] = n
      /\ \A i, j \in 1 .. Len(r) : r[i] = r[j] => i = j
  BY <1>1, PathParts
<1>4. Len(r) = 1
  BY <1>3
<1>5. Range(r) = {n}
  BY <1>3, <1>4 DEF Range
<1> DEFINE w == WeightOf(f)
           S == {}
<1>6. w[n] = FrameOf(f, n) /\ w[n] \in Int /\ w[n] \in Nat
  BY GraphParts
<1> HIDE DEF w
<1>7. IsFiniteSet({n}) /\ IsFiniteSet({}) /\ {n} \ {n} = {} /\ \A x \in {n} : w[x] \in Int
  BY <1>6, FS_Singleton, FS_EmptySet
<1>8. SumFunctionOnSet(w, {n}) = w[n] + SumFunctionOnSet(w, {n} \ {n})
  BY <1>7, SumRemove
<1>9. SumFunctionOnSet(w, {}) = 0
  BY <1>7, SumUnfolds
<1>10. Bytes(f, r) = FrameOf(f, n)
  <2>1. Bytes(f, r) = SumFunctionOnSet(w, {n})
    BY <1>2, <1>5, ChainBytes DEF w
  <2>2. SumFunctionOnSet(w, {n} \ {n}) = 0
    BY <1>7, <1>9
  <2> QED
    BY <1>6, <1>8, <2>1, <2>2
<1> QED
  BY <1>1, <1>2, <1>4, <1>5, <1>10

\* A caller before a chain is a chain, if it is not on it.
LEMMA ChainGrows ==
  ASSUME NEW f, IsGraph(f), NEW p \in Chains(f), NEW n \in Nodes(f),
         Head(p) \in CalleesOf(f, n), n \notin Range(p)
  PROVE  \E r \in Chains(f) : /\ Head(r) = n /\ Last(r) = Last(p) /\ Range(r) = {n} \cup Range(p)
                              /\ Bytes(f, r) = FrameOf(f, n) + Bytes(f, p)
<1> DEFINE N == Nodes(f)
           E == EdgesOf(f)
           w == WeightOf(f)
<1>1. PICK q \in Chains(f) : Head(q) = n /\ Last(q) = n /\ Range(q) = {n}
  BY ChainOfOne
<1>2. IsPath(N, E, q) /\ IsPath(N, E, p) /\ Head(p) \in E[Last(q)] /\ Range(q) \cap Range(p) = {}
  BY <1>1, ChainsArePaths, GraphParts
<1>3. PICK r : /\ IsPath(N, E, r) /\ Head(r) = Head(q) /\ Last(r) = Last(p)
               /\ Range(r) = Range(q) \cup Range(p)
  BY <1>2, PathJoin
<1>4. r \in Chains(f)
  BY <1>3, ChainsArePaths
<1>5. /\ Bytes(f, r) = SumFunctionOnSet(w, Range(r)) /\ Bytes(f, p) = SumFunctionOnSet(w, Range(p))
      /\ IsFiniteSet(Range(p)) /\ Range(p) \subseteq N
  BY <1>4, ChainBytes
<1>6. w[n] = FrameOf(f, n) /\ \A x \in Range(p) \cup {n} : w[x] \in Int
  BY <1>5, GraphParts
<1> HIDE DEF w
<1>7. SumFunctionOnSet(w, Range(p) \cup {n}) = w[n] + SumFunctionOnSet(w, Range(p))
  BY <1>5, <1>6, SumAdd
<1>8. Range(r) = Range(p) \cup {n}
  BY <1>1, <1>3
<1> QED
  BY <1>1, <1>3, <1>4, <1>5, <1>6, <1>7, <1>8

\* A chain without its first function is a chain from one of that function's callees.
LEMMA ChainShrinks ==
  ASSUME NEW f, IsGraph(f), NEW p \in Chains(f), Len(p) # 1
  PROVE  \E r \in Chains(f) : /\ Head(r) \in CalleesOf(f, Head(p)) /\ Last(r) = Last(p)
                              /\ Range(p) = {Head(p)} \cup Range(r) /\ Head(p) \notin Range(r)
                              /\ Bytes(f, p) = FrameOf(f, Head(p)) + Bytes(f, r)
<1> DEFINE N == Nodes(f)
           E == EdgesOf(f)
           w == WeightOf(f)
           n == Head(p)
<1>1. IsPath(N, E, p)
  BY ChainsArePaths
<1>2. /\ Len(p) \in Nat \ {0} /\ DOMAIN p = 1 .. Len(p) /\ Head(p) = p[1] /\ Last(p) = p[Len(p)]
      /\ (\A i \in 1 .. Len(p) : p[i] \in N) /\ \A i, j \in 1 .. Len(p) : p[i] = p[j] => i = j
  BY <1>1, PathParts
<1>3. 2 \in 1 .. Len(p) /\ Len(p) \in 2 .. Len(p)
  BY <1>2
<1>4. PICK r : /\ IsPath(N, E, r) /\ Head(r) = p[2] /\ Last(r) = p[Len(p)]
               /\ Covers(r, p, 2, Len(p))
  BY <1>1, <1>3, PathSegment
<1>5. Range(r) = {p[k] : k \in 2 .. Len(p)}
  BY <1>4 DEF Covers
<1>6. n \in N /\ n \notin Range(r) /\ Range(p) = {n} \cup Range(r)
  <2>1. Range(p) = {p[k] : k \in 1 .. Len(p)}
    BY <1>2 DEF Range
  <2> QED
    BY <1>2, <1>3, <1>5, <2>1
<1>7. p[2] \in CalleesOf(f, n)
  <2>1. p[1 + 1] \in E[p[1]]
    BY <1>1, <1>3 DEF IsPath
  <2> QED
    BY <1>2, <1>6, <2>1, GraphParts
<1>8. r \in Chains(f)
  BY <1>4, ChainsArePaths
<1>9. /\ Bytes(f, p) = SumFunctionOnSet(w, Range(p)) /\ Bytes(f, r) = SumFunctionOnSet(w, Range(r))
      /\ IsFiniteSet(Range(r)) /\ Range(r) \subseteq N
  BY <1>8, ChainBytes
<1>10. w[n] = FrameOf(f, n) /\ \A x \in Range(r) \cup {n} : w[x] \in Int
  BY <1>6, <1>9, GraphParts
<1> HIDE DEF w, n
<1>11. SumFunctionOnSet(w, Range(r) \cup {n}) = w[n] + SumFunctionOnSet(w, Range(r))
  BY <1>6, <1>9, <1>10, SumAdd
<1>12. Range(p) = Range(r) \cup {n}
  BY <1>6
<1>13. Bytes(f, p) = FrameOf(f, n) + Bytes(f, r)
  BY <1>9, <1>10, <1>11, <1>12
<1> QED
  BY <1>2, <1>4, <1>6, <1>7, <1>8, <1>13 DEF n

----------------------------------------------------------------------------
(* What a height is.                                                       *)

\* Some chain out of n is endless.
EndlessFrom(f, n) == \E p \in Chains(f) : Head(p) = n /\ Endless(f, p)

\* A path from m back to its caller n makes both endless.
LEMMA CycleIsEndless ==
  ASSUME NEW f, IsGraph(f), NEW q \in Chains(f), Head(q) \in CalleesOf(f, Last(q))
  PROVE  EndlessFrom(f, Head(q)) /\ EndlessFrom(f, Last(q))
<1> DEFINE N == Nodes(f)
           E == EdgesOf(f)
           n == Last(q)
           k == Len(q)
<1>1. IsPath(N, E, q)
  BY ChainsArePaths
<1>2. /\ k \in Nat \ {0} /\ DOMAIN q = 1 .. k /\ Head(q) = q[1] /\ n = q[k]
      /\ (\A i \in 1 .. k : q[i] \in N) /\ (\A i, j \in 1 .. k : q[i] = q[j] => i = j)
      /\ Head(q) \in Range(q)
  BY <1>1, PathParts
<1>3. Endless(f, q)
  BY <1>2 DEF Endless
<1>4. EndlessFrom(f, Head(q))
  BY <1>3 DEF EndlessFrom
<1>5. CASE k = 1
  BY <1>2, <1>4, <1>5
<1>6. CASE k # 1
  <2>1. 1 \in 1 .. k /\ k - 1 \in 1 .. k /\ k - 1 \in 1 .. k - 1
    BY <1>2, <1>6
  <2> DEFINE j == k - 1
  <2> HIDE DEF j
  <2>2. PICK r : IsPath(N, E, r) /\ Head(r) = q[1] /\ Last(r) = q[j] /\ Covers(r, q, 1, j)
    BY <1>1, <2>1, PathSegment DEF j
  <2>3. n \in N /\ n \notin Range(r)
    <3>0. k \in Nat \ {0} /\ j = k - 1
      BY <1>2 DEF j
    <3>1. ASSUME NEW i \in 1 .. j PROVE q[i] # n
      <4>1. i \in 1 .. k /\ k \in 1 .. k /\ i # k
        BY <3>0
      <4> QED
        BY <1>2, <4>1
    <3>2. n \in N
      BY <1>2, <3>0
    <3> QED
      BY <2>2, <3>1, <3>2 DEF Covers
  <2>4. n \in CalleesOf(f, Last(r))
    <3>1. q[j + 1] \in E[q[j]] /\ q[j] \in N
      BY <1>1, <1>2, <2>1 DEF IsPath, j
    <3>2. j + 1 = k
      BY <1>2 DEF j
    <3> QED
      BY <1>2, <2>2, <3>1, <3>2, GraphParts
  <2>5. r \in Chains(f) /\ Head(r) \in CalleesOf(f, n)
    BY <1>2, <2>2, ChainsArePaths
  <2>6. PICK s \in Chains(f) : Head(s) = n /\ Last(s) = Last(r) /\ Range(s) = {n} \cup Range(r)
    BY <2>3, <2>5, ChainGrows
  <2>7. Endless(f, s)
    BY <2>4, <2>6 DEF Endless
  <2> QED
    BY <1>4, <2>6, <2>7 DEF EndlessFrom
<1> QED
  BY <1>5, <1>6

\* The part of a chain from its head to one of its functions.
LEMMA ChainUpTo ==
  ASSUME NEW f, IsGraph(f), NEW p \in Chains(f), NEW n \in Range(p)
  PROVE  \E r \in Chains(f) : Head(r) = Head(p) /\ Last(r) = n /\ Range(r) \subseteq Range(p)
<1>1. IsPath(Nodes(f), EdgesOf(f), p)
  BY ChainsArePaths
<1>2. Len(p) \in Nat \ {0} /\ DOMAIN p = 1 .. Len(p) /\ Head(p) = p[1]
  BY <1>1, PathParts
<1>3. PICK i \in 1 .. Len(p) : p[i] = n
  BY <1>2 DEF Range
<1>4. 1 \in 1 .. Len(p) /\ i \in 1 .. Len(p)
  BY <1>2, <1>3
<1>5. PICK r : IsPath(Nodes(f), EdgesOf(f), r) /\ Head(r) = p[1] /\ Last(r) = p[i] /\ Covers(r, p, 1, i)
  BY <1>1, <1>4, PathSegment
<1>6. Range(r) \subseteq Range(p)
  <2>1. \A k \in 1 .. i : k \in DOMAIN p
    BY <1>2, <1>4
  <2> QED
    BY <1>5, <2>1 DEF Covers, Range
<1> QED
  BY <1>2, <1>3, <1>5, <1>6, ChainsArePaths

\* A function is endless when its frame is dynamic or a callee is endless.
LEMMA EndlessStep ==
  ASSUME NEW f, IsGraph(f), NEW n \in Nodes(f)
  PROVE  EndlessFrom(f, n) <=> n \in f.dynamic \/ \E m \in CalleesOf(f, n) : EndlessFrom(f, m)
<1>1. ASSUME n \in f.dynamic PROVE EndlessFrom(f, n)
  <2>1. PICK r \in Chains(f) : Head(r) = n /\ Last(r) = n
    BY ChainOfOne
  <2> QED
    BY <1>1, <2>1 DEF EndlessFrom, Endless
<1>2. ASSUME NEW m \in CalleesOf(f, n), EndlessFrom(f, m) PROVE EndlessFrom(f, n)
  <2>1. PICK q \in Chains(f) : Head(q) = m /\ Endless(f, q)
    BY <1>2 DEF EndlessFrom
  <2>2. CASE n \in Range(q)
    <3>1. PICK r \in Chains(f) : Head(r) = m /\ Last(r) = n
      BY <2>1, <2>2, ChainUpTo
    <3> QED
      BY <3>1, CycleIsEndless
  <2>3. CASE n \notin Range(q)
    <3>1. PICK r \in Chains(f) : Head(r) = n /\ Last(r) = Last(q) /\ Range(r) = {n} \cup Range(q)
      BY <2>1, <2>3, ChainGrows
    <3>2. Endless(f, r)
      BY <2>1, <3>1 DEF Endless
    <3> QED
      BY <3>1, <3>2 DEF EndlessFrom
  <2> QED
    BY <2>2, <2>3
<1>3. ASSUME EndlessFrom(f, n), n \notin f.dynamic PROVE \E m \in CalleesOf(f, n) : EndlessFrom(f, m)
  <2>1. PICK p \in Chains(f) : Head(p) = n /\ Endless(f, p)
    BY <1>3 DEF EndlessFrom
  <2>2. CASE Len(p) = 1
    <3>1. Range(p) = {n} /\ Last(p) = n
      <4>1. Len(p) \in Nat /\ DOMAIN p = 1 .. Len(p) /\ Head(p) = p[1] /\ Last(p) = p[Len(p)]
        BY ChainsArePaths, PathParts
      <4> QED
        BY <2>1, <2>2, <4>1 DEF Range
    <3> QED
      BY <1>3, <2>1, <3>1 DEF Endless
  <2>3. CASE Len(p) # 1
    <3>1. PICK r \in Chains(f) : /\ Head(r) \in CalleesOf(f, n) /\ Last(r) = Last(p)
                                 /\ Range(p) = {n} \cup Range(r) /\ n \notin Range(r)
      BY <2>1, <2>3, ChainShrinks
    <3>2. CASE Endless(f, r)
      BY <3>1, <3>2 DEF EndlessFrom
    <3>3. CASE ~Endless(f, r)
      <4>1. n \in CalleesOf(f, Last(r))
        BY <2>1, <3>1, <3>3 DEF Endless
      <4>2. PICK one \in Chains(f) : Head(one) = n /\ Last(one) = n /\ Range(one) = {n}
        BY ChainOfOne
      <4>3. /\ IsPath(Nodes(f), EdgesOf(f), r) /\ IsPath(Nodes(f), EdgesOf(f), one)
            /\ Range(r) \cap Range(one) = {}
        BY <3>1, <4>2, ChainsArePaths
      <4>4. Head(one) \in EdgesOf(f)[Last(r)]
        BY <4>1, <4>2, <4>3, PathParts, GraphParts
      <4>5. PICK q : IsPath(Nodes(f), EdgesOf(f), q) /\ Head(q) = Head(r) /\ Last(q) = n
        BY <4>2, <4>3, <4>4, PathJoin
      <4>6. q \in Chains(f)
        BY <4>5, ChainsArePaths
      <4> QED
        BY <3>1, <4>5, <4>6, CycleIsEndless
    <3> QED
      BY <3>2, <3>3
  <2> QED
    BY <2>2, <2>3
<1> QED
  BY <1>1, <1>2, <1>3

\* A height is the sentinel, or the bytes of the deepest chain; nothing is not a node.
LEMMA HeightParts ==
  ASSUME NEW f, IsGraph(f), NEW n
  PROVE  /\ EndlessFrom(f, n) => Height(f, n) = Infinite
         /\ Height(f, n) \in Nat /\ Height(f, n) <= Infinite
         /\ ~EndlessFrom(f, n) => Height(f, n) < Infinite
         /\ ~EndlessFrom(f, n) => \A p \in Chains(f) : Head(p) = n => Bytes(f, p) <= Height(f, n)
         /\ ~EndlessFrom(f, n) /\ n \in Nodes(f) =>
              \E p \in Chains(f) : Head(p) = n /\ Bytes(f, p) = Height(f, n)
         /\ n \notin Nodes(f) => Height(f, n) = 0 /\ ~EndlessFrom(f, n)
<1> DEFINE ps == {p \in Chains(f) : Head(p) = n}
           S == {0} \cup {Bytes(f, p) : p \in ps}
<1>0. Infinite \in Nat /\ 0 < Infinite
  <2>1. SumFunctionOnSet(f.frame, f.funcs) \in Nat
    BY SumNat DEF IsGraph
  <2> QED
    BY <2>1 DEF IsGraph
<1>1. Height(f, n) = IF EndlessFrom(f, n) THEN Infinite ELSE Max(S)
  BY DEF Height, Deepest, EndlessFrom
<1>2. \A p \in ps : Bytes(f, p) \in Nat /\ Bytes(f, p) < Infinite
  BY ChainBytes
<1>3. S \in SUBSET Nat /\ S # {} /\ (\A y \in S : y <= Infinite) /\ \A y \in S : y < Infinite
  BY <1>0, <1>2
<1>4. Max(S) \in S /\ \A y \in S : y <= Max(S)
  <2> HIDE DEF S
  <2> QED
    BY <1>0, <1>3, GreatestNatural
<1>5. \A p \in ps : Bytes(f, p) <= Max(S)
  BY <1>4
<1>6. Max(S) = 0 \/ \E p \in ps : Max(S) = Bytes(f, p)
  BY <1>4
<1>7. Max(S) \in Nat /\ Max(S) < Infinite
  BY <1>3, <1>4
<1> DEFINE top == Max(S)
<1> HIDE DEF top, S
<1>8. ASSUME n \in Nodes(f) PROVE \E p \in ps : Bytes(f, p) = top
  <2>1. PICK r \in Chains(f) : Head(r) = n
    BY <1>8, ChainOfOne
  <2>2. r \in ps /\ Bytes(f, r) \in Nat /\ Bytes(f, r) <= top
    BY <1>2, <1>5, <2>1 DEF top
  <2>3. CASE top = 0
    BY <2>2, <2>3
  <2>4. CASE \E p \in ps : top = Bytes(f, p)
    BY <2>4
  <2> QED
    BY <1>6, <2>3, <2>4 DEF top
<1>9. ASSUME n \notin Nodes(f) PROVE ps = {} /\ ~EndlessFrom(f, n)
  <2>1. \A p \in Chains(f) : Head(p) \in Nodes(f)
    BY ChainsArePaths, PathParts
  <2> QED
    BY <1>9, <2>1 DEF EndlessFrom
<1>10. n \notin Nodes(f) => top = 0
  BY <1>6, <1>9 DEF top
<1> QED
  BY <1>0, <1>1, <1>5, <1>7, <1>8, <1>9, <1>10 DEF top

\* The recurrence the walk computes, where it is bounded: the frame, on top of the
\* highest callee.
LEMMA HeightStep ==
  ASSUME NEW f, IsGraph(f), NEW n \in Nodes(f), ~EndlessFrom(f, n)
  PROVE  /\ FrameOf(f, n) <= Height(f, n)
         /\ \A m \in CalleesOf(f, n) : FrameOf(f, n) + Height(f, m) <= Height(f, n)
         /\ \/ Height(f, n) = FrameOf(f, n)
            \/ \E m \in CalleesOf(f, n) : Height(f, n) = FrameOf(f, n) + Height(f, m)
<1>0. FrameOf(f, n) \in Nat /\ Height(f, n) \in Nat
  BY GraphParts, HeightParts
<1>1. FrameOf(f, n) <= Height(f, n)
  <2>1. PICK r \in Chains(f) : Head(r) = n /\ Bytes(f, r) = FrameOf(f, n)
    BY ChainOfOne
  <2> QED
    BY <2>1, HeightParts
<1>2. ASSUME NEW m \in CalleesOf(f, n) PROVE FrameOf(f, n) + Height(f, m) <= Height(f, n)
  <2>0. ~EndlessFrom(f, m)
    BY EndlessStep
  <2>1. CASE m \notin Nodes(f)
    <3>1. Height(f, m) = 0
      BY <2>1, HeightParts
    <3> QED
      BY <1>0, <1>1, <3>1
  <2>2. CASE m \in Nodes(f)
    <3>1. PICK q \in Chains(f) : Head(q) = m /\ Bytes(f, q) = Height(f, m)
      BY <2>0, <2>2, HeightParts
    <3>2. n \notin Range(q)
      <4> SUFFICES ASSUME n \in Range(q) PROVE FALSE
        OBVIOUS
      <4>1. PICK r \in Chains(f) : Head(r) = m /\ Last(r) = n
        BY <3>1, ChainUpTo
      <4> QED
        BY <4>1, CycleIsEndless
    <3>3. PICK r \in Chains(f) : Head(r) = n /\ Bytes(f, r) = FrameOf(f, n) + Bytes(f, q)
      BY <3>1, <3>2, ChainGrows
    <3> QED
      BY <3>1, <3>3, HeightParts
  <2> QED
    BY <2>1, <2>2
<1>3. \/ Height(f, n) = FrameOf(f, n)
      \/ \E m \in CalleesOf(f, n) : Height(f, n) = FrameOf(f, n) + Height(f, m)
  <2>1. PICK p \in Chains(f) : Head(p) = n /\ Bytes(f, p) = Height(f, n)
    BY HeightParts
  <2>2. CASE Len(p) = 1
    <3>1. PICK one \in Chains(f) : Range(one) = {n} /\ Bytes(f, one) = FrameOf(f, n)
      BY ChainOfOne
    <3>2. Range(p) = {n}
      <4>1. Len(p) \in Nat /\ DOMAIN p = 1 .. Len(p) /\ Head(p) = p[1]
        BY ChainsArePaths, PathParts
      <4> QED
        BY <2>1, <2>2, <4>1 DEF Range
    <3>3. Bytes(f, p) = Bytes(f, one)
      BY <3>1, <3>2, ChainBytes
    <3> QED
      BY <2>1, <3>1, <3>3
  <2>3. CASE Len(p) # 1
    <3>1. PICK r \in Chains(f) : /\ Head(r) \in CalleesOf(f, n)
                                 /\ Bytes(f, p) = FrameOf(f, n) + Bytes(f, r)
      BY <2>1, <2>3, ChainShrinks
    <3> DEFINE m == Head(r)
    <3>2. ~EndlessFrom(f, m)
      BY <3>1, EndlessStep
    <3>3. Bytes(f, r) <= Height(f, m) /\ Bytes(f, r) \in Nat /\ Height(f, m) \in Nat
      BY <3>2, HeightParts, ChainBytes
    <3>4. FrameOf(f, n) + Height(f, m) <= Height(f, n)
      BY <1>2, <3>1
    <3>5. Height(f, n) = FrameOf(f, n) + Height(f, m)
      <4> HIDE DEF m
      <4> QED
        BY <1>0, <2>1, <3>1, <3>3, <3>4
    <3> QED
      BY <3>1, <3>5
  <2> QED
    BY <2>2, <2>3
<1> QED
  BY <1>1, <1>2, <1>3
----------------------------------------------------------------------------
(* What a walk has found out when it is somewhere on its way.              *)

\* Every name of a module: AllNames of the facts f.
NamesOf(f) == UNION {f.funcs, UNION {f.calls[n] : n \in f.funcs}, {IndirectTarget}}

\* The call graph as the second walk takes it: from a nosplit function to its callers.
Reversed(f) ==
  [funcs |-> f.funcs, noSplit |-> f.noSplit, frame |-> f.frame,
   calls |-> [n \in f.funcs |-> {c \in f.noSplit : n \in CalleesOf(f, c)}],
   dynamic |-> {}, indirect |-> {}, addressTaken |-> {}, strict |-> FALSE]

\* What can lie above n: the deepest chain into it, without its own frame.
DepthAbove(f, n) ==
  IF EndlessFrom(Reversed(f), n) THEN Infinite
  ELSE Height(Reversed(f), n) - FrameOf(f, n)

\* What each of the two walks is after.
Truth(f, ph, n) == IF ph = "walk" THEN Height(f, n) ELSE DepthAbove(f, n)

\* What a walk may come to: any name in the first, nosplit functions in the second.
InWalk(f, ph, n) ==
  IF ph = "walk" THEN n \in NamesOf(f) /\ (n = IndirectTarget => n \in Nodes(f))
  ELSE n \in f.noSplit

\* Todo, Base and Edge with the true answers, of any facts and either walk.
TodoOf(f, ph, n) ==
  IF ph = "above" THEN {c \in f.noSplit : n \in CalleesOf(f, c)}
  ELSE IF n \in f.dynamic THEN {} ELSE CalleesOf(f, n)
BaseOf(f, ph, n) ==
  IF ph = "above" \/ n \notin Nodes(f) THEN 0
  ELSE IF n \in f.dynamic THEN Infinite ELSE FrameOf(f, n)
Cost(f, ph, n, m) ==
  Truth(f, ph, m) + (IF ph = "walk" THEN FrameOf(f, n) ELSE FrameOf(f, m))

\* The best so far is the most that what has been looked at amounts to.
Progress(f, ph, n, todo, best) ==
  /\ todo \subseteq TodoOf(f, ph, n) /\ best \in Nat
  /\ BaseOf(f, ph, n) <= best
  /\ \A m \in TodoOf(f, ph, n) \ todo : Cost(f, ph, n, m) <= best
  /\ \/ best = BaseOf(f, ph, n)
     \/ \E m \in TodoOf(f, ph, n) \ todo : best = Cost(f, ph, n, m)

\* A call of the recursion, and the functions the calls of s are for.
Calls(f) == [fn : NamesOf(f), todo : SUBSET NamesOf(f), best : Nat]
FnsOf(s) == {s[i].fn : i \in 1 .. Len(s)}

\* The recursion s, memo being answered: a path of the graph, every call on it in progress,
\* and what a call has looked at either answered or on the path.
PathOK(f, ph, s, memo) ==
  /\ s \in Seq(Calls(f))
  /\ \A i \in 1 .. Len(s) :
       /\ InWalk(f, ph, s[i].fn) /\ s[i].fn \notin memo
       /\ Progress(f, ph, s[i].fn, s[i].todo, s[i].best)
       /\ TodoOf(f, ph, s[i].fn) \ s[i].todo \subseteq memo \cup FnsOf(s)
  /\ \A i \in 1 .. Len(s) - 1 : s[i + 1].fn \in s[i].todo
  /\ \A i, j \in 1 .. Len(s) : s[i].fn = s[j].fn => i = j

\* The graph a walk goes over.
GraphOf(f, ph) == IF ph = "walk" THEN f ELSE Reversed(f)

\* What entering n pushes, and what taking m's answer into account makes of the path.
Pushed(f, ph, s, n) ==
  Append(s, [fn |-> n, todo |-> TodoOf(f, ph, n), best |-> BaseOf(f, ph, n)])
Combined(f, ph, s, m) ==
  [s EXCEPT ![Len(s)].todo = @ \ {m},
            ![Len(s)].best = Max({@, Cost(f, ph, s[Len(s)].fn, m)})]
\* The innermost call, what is left when it returns, and what it returns.
TopOf(s) == s[Len(s)]
PoppedOK(f, ph, s, memo) == PathOK(f, ph, Front(s), memo \cup {TopOf(s).fn})
Capped(best) == Min({best, Infinite})

\* The smaller and the larger of two numbers.
LEMMA OfTwo ==
  ASSUME NEW a \in Int, NEW b \in Int
  PROVE  /\ Min({a, b}) = IF a <= b THEN a ELSE b
         /\ Max({a, b}) = IF a <= b THEN b ELSE a
<1>1. \E x \in {a, b} : \A y \in {a, b} : x <= y
  OBVIOUS
<1>2. \E x \in {a, b} : \A y \in {a, b} : x >= y
  OBVIOUS
<1> QED
  BY <1>1, <1>2 DEF Min, Max

\* The reversed graph is a graph.
LEMMA ReversedParts ==
  ASSUME NEW f, IsGraph(f)
  PROVE  /\ IsGraph(Reversed(f)) /\ Nodes(Reversed(f)) = f.noSplit /\ Reversed(f).dynamic = {}
         /\ IndirectTarget \notin f.noSplit
         /\ \A n \in f.noSplit :
              /\ CalleesOf(Reversed(f), n) = {c \in f.noSplit : n \in CalleesOf(f, c)}
              /\ FrameOf(Reversed(f), n) = FrameOf(f, n) /\ FrameOf(f, n) \in Nat
<1> DEFINE r == Reversed(f)
<1>1. /\ r.funcs = f.funcs /\ r.noSplit = f.noSplit /\ r.frame = f.frame /\ r.dynamic = {}
      /\ r.strict = FALSE
      /\ r.calls = [n \in f.funcs |-> {c \in f.noSplit : n \in CalleesOf(f, c)}]
  BY DEF Reversed
<1> HIDE DEF r
<1>2. IsGraph(r) /\ IndirectTarget \notin f.noSplit /\ f.noSplit \subseteq f.funcs
  BY <1>1 DEF IsGraph
<1>3. Nodes(r) = f.noSplit
  BY <1>1 DEF Nodes
<1>4. ASSUME NEW n \in f.noSplit
      PROVE  /\ CalleesOf(r, n) = {c \in f.noSplit : n \in CalleesOf(f, c)}
             /\ FrameOf(r, n) = FrameOf(f, n) /\ FrameOf(f, n) \in Nat
  <2>1. n # IndirectTarget /\ n \in f.funcs
    BY <1>2
  <2>2. FrameOf(r, n) = FrameOf(f, n) /\ FrameOf(f, n) \in Nat
    BY <1>1, <2>1 DEF FrameOf, IsGraph
  <2>3. CalleesOf(r, n) = r.calls[n]
    BY <1>1, <2>1 DEF CalleesOf
  <2> QED
    BY <1>1, <2>1, <2>2, <2>3
<1> QED
  BY <1>1, <1>2, <1>3, <1>4 DEF r

\* An answer is a count, no larger than the sentinel; and it is the sentinel for what
\* the walk's graph says is endless.
LEMMA TruthParts ==
  ASSUME NEW f, IsGraph(f), NEW ph \in {"walk", "above"}, NEW n, InWalk(f, ph, n)
  PROVE  /\ Truth(f, ph, n) \in Nat /\ Truth(f, ph, n) <= Infinite
         /\ EndlessFrom(GraphOf(f, ph), n) => Truth(f, ph, n) = Infinite
<1>1. CASE ph = "walk"
  BY <1>1, HeightParts DEF Truth, GraphOf
<1>2. CASE ph = "above"
  <2> DEFINE r == Reversed(f)
             d == FrameOf(f, n)
             h == Height(r, n)
  <2>1. n \in f.noSplit /\ IsGraph(r) /\ n \in Nodes(r) /\ FrameOf(r, n) = d /\ d \in Nat
    BY <1>2, ReversedParts DEF InWalk
  <2>2. h \in Nat /\ h <= Infinite /\ Infinite \in Nat
    BY <2>1, HeightParts DEF IsGraph
  <2>3. ~EndlessFrom(r, n) => d <= h
    BY <2>1, HeightStep
  <2>4. Truth(f, ph, n) = IF EndlessFrom(r, n) THEN Infinite ELSE h - d
    BY <1>2 DEF Truth, DepthAbove
  <2> HIDE DEF h, d, r
  <2>5. Truth(f, ph, n) \in Nat /\ Truth(f, ph, n) <= Infinite
    BY <2>1, <2>2, <2>3, <2>4
  <2> QED
    BY <1>2, <2>4, <2>5 DEF GraphOf, r
<1> QED
  BY <1>1, <1>2

\* What is looked at is a callee in the walk's graph, and in the walk.
LEMMA TodoParts ==
  ASSUME NEW f \in Graphs, NEW ph \in {"walk", "above"}, NEW n, InWalk(f, ph, n),
         NEW m \in TodoOf(f, ph, n)
  PROVE  /\ n \in Nodes(GraphOf(f, ph)) /\ m \in CalleesOf(GraphOf(f, ph), n)
         /\ InWalk(f, ph, m) /\ m \in NamesOf(f) /\ n \in NamesOf(f)
<1>0. IsGraph(f) /\ IsFacts(f)
  BY FactsAreGraphs, StackCheckAssumption
<1>1. CASE ph = "walk"
  <2>1. m \in CalleesOf(f, n) /\ n \in NamesOf(f) /\ (n = IndirectTarget => n \in Nodes(f))
    BY <1>1 DEF TodoOf, InWalk
  <2>2. n \in Nodes(f)
    BY <2>1 DEF CalleesOf, Nodes
  <2>3. CASE n = IndirectTarget
    <3>1. m \in f.noSplit /\ m \in f.funcs /\ m # IndirectTarget
      BY <1>0, <2>1, <2>3 DEF CalleesOf, IsFacts
    <3> QED
      BY <1>1, <2>1, <2>2, <3>1 DEF NamesOf, InWalk, GraphOf
  <2>4. CASE n # IndirectTarget
    <3>1. n \in f.noSplit /\ n \in f.funcs
      BY <1>0, <2>1, <2>4 DEF CalleesOf, IsFacts
    <3>2. m \in f.calls[n] \/ (m = IndirectTarget /\ f.strict)
      BY <2>1, <2>4, <3>1 DEF CalleesOf
    <3>3. m \in f.calls[n] => m # IndirectTarget
      BY <1>0, <3>1 DEF IsFacts
    <3>4. m \in NamesOf(f)
      BY <3>1, <3>2 DEF NamesOf
    <3>5. m = IndirectTarget => m \in Nodes(f)
      BY <3>2, <3>3 DEF Nodes
    <3> QED
      BY <1>1, <2>1, <2>2, <3>4, <3>5 DEF InWalk, GraphOf
  <2> QED
    BY <2>3, <2>4
<1>2. CASE ph = "above"
  <2>1. n \in f.noSplit /\ m \in {c \in f.noSplit : n \in CalleesOf(f, c)}
    BY <1>2 DEF InWalk, TodoOf
  <2>2. n \in Nodes(Reversed(f)) /\ m \in CalleesOf(Reversed(f), n)
    BY <1>0, <2>1, ReversedParts
  <2>3. f.noSplit \subseteq NamesOf(f)
    BY <1>0 DEF IsFacts, NamesOf
  <2> QED
    BY <1>2, <2>1, <2>2, <2>3 DEF InWalk, GraphOf
<1> QED
  BY <1>1, <1>2

\* When nothing is left to look at, the best, capped, is the answer.
LEMMA AnswerWhenDone ==
  ASSUME NEW f \in Graphs, NEW ph \in {"walk", "above"}, NEW n, InWalk(f, ph, n),
         NEW best, Progress(f, ph, n, {}, best)
  PROVE  Truth(f, ph, n) = Min({best, Infinite})
<1> DEFINE T == TodoOf(f, ph, n)
           top == Truth(f, ph, n)
<1>0. IsGraph(f) /\ Infinite \in Nat /\ best \in Nat
  BY FactsAreGraphs DEF IsGraph, Progress
<1>1. /\ BaseOf(f, ph, n) <= best /\ (\A m \in T : Cost(f, ph, n, m) <= best)
      /\ best = BaseOf(f, ph, n) \/ \E m \in T : best = Cost(f, ph, n, m)
  BY DEF Progress
<1>2. Min({best, Infinite}) = IF best <= Infinite THEN best ELSE Infinite
  BY <1>0, OfTwo
<1>3. CASE ph = "walk"
  <2> DEFINE d == FrameOf(f, n)
             H(m) == Height(f, m)
  <2>0. top = H(n) /\ H(n) \in Nat /\ H(n) <= Infinite /\ \A m \in T : Cost(f, ph, n, m) = H(m) + d
    BY <1>0, <1>3, HeightParts DEF Truth, Cost
  <2>1. CASE n \notin Nodes(f)
    <3>1. n # IndirectTarget /\ n \notin f.noSplit
      BY <1>0, <1>3, <2>1, GraphParts DEF InWalk
    <3>2. T = {} /\ BaseOf(f, ph, n) = 0
      BY <1>3, <2>1, <3>1 DEF TodoOf, BaseOf, CalleesOf
    <3>3. H(n) = 0
      BY <1>0, <2>1, HeightParts
    <3> QED
      BY <1>0, <1>1, <1>2, <2>0, <3>2, <3>3
  <2>2. CASE n \in Nodes(f) /\ n \in f.dynamic
    <3>1. T = {} /\ BaseOf(f, ph, n) = Infinite
      BY <1>3, <2>2 DEF TodoOf, BaseOf
    <3>2. H(n) = Infinite
      BY <1>0, <2>2, EndlessStep, HeightParts
    <3> QED
      BY <1>0, <1>1, <1>2, <2>0, <3>1, <3>2
  <2>3. CASE n \in Nodes(f) /\ n \notin f.dynamic
    <3>1. T = CalleesOf(f, n) /\ BaseOf(f, ph, n) = d /\ d \in Nat
      BY <1>0, <1>3, <2>3, GraphParts DEF TodoOf, BaseOf
    <3>2. CASE EndlessFrom(f, n)
      <4>1. PICK m \in T : EndlessFrom(f, m)
        BY <1>0, <2>3, <3>1, <3>2, EndlessStep
      <4>2. H(m) = Infinite /\ H(n) = Infinite
        BY <1>0, <3>2, <4>1, HeightParts
      <4>3. Infinite + d <= best
        BY <1>1, <2>0, <4>1, <4>2
      <4> QED
        BY <1>0, <1>2, <2>0, <3>1, <4>2, <4>3
    <3>3. CASE ~EndlessFrom(f, n)
      <4>1. /\ d <= H(n) /\ (\A m \in T : d + H(m) <= H(n))
            /\ H(n) = d \/ \E m \in T : H(n) = d + H(m)
        BY <1>0, <2>3, <3>1, <3>3, HeightStep
      <4>2. \A m \in T : H(m) \in Nat
        BY <1>0, HeightParts
      <4>3. /\ d <= best /\ (\A m \in T : H(m) + d <= best)
            /\ best = d \/ \E m \in T : best = H(m) + d
        BY <1>1, <2>0, <3>1
      <4>4. H(n) \in Nat /\ H(n) <= Infinite /\ top = H(n) /\ d \in Nat
        BY <2>0, <3>1
      <4> DEFINE hn == H(n)
      <4>5. H(n) = hn
        OBVIOUS
      <4> HIDE DEF d, H, T, hn
      <4>6. best <= hn
        <5>1. CASE best = d
          BY <4>1, <4>5, <5>1
        <5>2. CASE best # d
          <6>1. PICK m \in T : best = H(m) + d
            BY <4>3, <5>2
          <6>2. H(m) \in Nat /\ d + H(m) <= hn
            BY <4>1, <4>2, <4>5, <6>1
          <6> QED
            BY <4>4, <6>1, <6>2
        <5> QED
          BY <5>1, <5>2
      <4>7. hn <= best
        <5>1. CASE hn = d
          BY <4>3, <5>1
        <5>2. CASE hn # d
          <6>1. PICK m \in T : hn = d + H(m)
            BY <4>1, <4>5, <5>2
          <6>2. H(m) \in Nat /\ H(m) + d <= best
            BY <4>2, <4>3, <6>1
          <6> QED
            BY <1>0, <4>4, <6>1, <6>2
        <5> QED
          BY <5>1, <5>2
      <4> QED
        BY <1>0, <1>2, <4>4, <4>5, <4>6, <4>7
    <3> QED
      BY <3>2, <3>3
  <2> QED
    BY <2>1, <2>2, <2>3
<1>4. CASE ph = "above"
  <2> DEFINE r == Reversed(f)
             d == FrameOf(f, n)
             H(m) == Height(r, m)
             D(m) == DepthAbove(f, m)
  <2>1. /\ n \in f.noSplit /\ n \in Nodes(r) /\ IsGraph(r) /\ T = CalleesOf(r, n) /\ T \subseteq f.noSplit
        /\ BaseOf(f, ph, n) = 0 /\ FrameOf(r, n) = d /\ d \in Nat /\ r.dynamic = {}
        /\ \A m \in T : FrameOf(r, m) = FrameOf(f, m) /\ FrameOf(f, m) \in Nat /\ m \in Nodes(r)
    BY <1>0, <1>4, ReversedParts DEF InWalk, TodoOf, BaseOf
  <2>2. top = D(n) /\ \A m \in T : Cost(f, ph, n, m) = D(m) + FrameOf(f, m)
    BY <1>4 DEF Truth, Cost
  <2>3. \A m \in T \cup {n} : D(m) = IF EndlessFrom(r, m) THEN Infinite ELSE H(m) - FrameOf(f, m)
    BY DEF DepthAbove
  <2>4. \A m \in T \cup {n} : H(m) \in Nat /\ H(m) <= Infinite
    BY <2>1, HeightParts
  <2>5. CASE EndlessFrom(r, n)
    <3>1. PICK m \in T : EndlessFrom(r, m)
      BY <2>1, <2>5, EndlessStep
    <3>2. Infinite + FrameOf(f, m) <= best /\ FrameOf(f, m) \in Nat
      BY <1>1, <2>1, <2>2, <2>3, <3>1
    <3>3. D(n) = Infinite
      BY <2>3, <2>5
    <3> QED
      BY <1>0, <1>2, <2>2, <3>2, <3>3
  <2>6. CASE ~EndlessFrom(r, n)
    <3>1. \A m \in T : ~EndlessFrom(r, m)
      BY <2>1, <2>6, EndlessStep
    <3>2. /\ d <= H(n) /\ (\A m \in T : d + H(m) <= H(n))
          /\ H(n) = d \/ \E m \in T : H(n) = d + H(m)
      BY <2>1, <2>6, HeightStep
    <3>3. \A m \in T : Cost(f, ph, n, m) = H(m)
      BY <2>1, <2>2, <2>3, <2>4, <3>1
    <3>4. D(n) = H(n) - d
      BY <2>3, <2>6
    <3>5. 0 <= best /\ (\A m \in T : H(m) <= best) /\ (best = 0 \/ \E m \in T : best = H(m))
      BY <1>1, <2>1, <3>3
    <3>6. H(n) \in Nat /\ H(n) <= Infinite /\ d \in Nat /\ \A m \in T : H(m) \in Nat
      BY <2>1, <2>4
    <3> HIDE DEF d, H, T, D
    <3>7. best = H(n) - d
      BY <1>0, <3>2, <3>5, <3>6
    <3> QED
      BY <1>0, <1>2, <2>2, <3>4, <3>6, <3>7
  <2> QED
    BY <2>5, <2>6
<1> QED
  BY <1>3, <1>4

\* What the walk's graph is, and what a step of it costs.
LEMMA WalkParts ==
  ASSUME NEW f \in Graphs, NEW ph \in {"walk", "above"}, NEW n, InWalk(f, ph, n)
  PROVE  /\ IsGraph(GraphOf(f, ph)) /\ n \in NamesOf(f) /\ BaseOf(f, ph, n) \in Nat
         /\ TodoOf(f, ph, n) \subseteq NamesOf(f)
         /\ \A m \in TodoOf(f, ph, n) : Cost(f, ph, n, m) \in Nat
<1>0. IsGraph(f) /\ IsFacts(f) /\ IsGraph(Reversed(f)) /\ Infinite \in Nat
  BY FactsAreGraphs, StackCheckAssumption, ReversedParts DEF IsGraph
<1>1. n \in NamesOf(f)
  BY <1>0 DEF InWalk, IsFacts, NamesOf
<1>2. BaseOf(f, ph, n) \in Nat
  BY <1>0, GraphParts DEF BaseOf
<1>3. ASSUME NEW m \in TodoOf(f, ph, n) PROVE Cost(f, ph, n, m) \in Nat
  <2>1. Truth(f, ph, m) \in Nat /\ InWalk(f, ph, m) /\ n \in Nodes(GraphOf(f, ph))
    BY <1>0, TodoParts, TruthParts
  <2>2. CASE ph = "walk"
    <3>1. FrameOf(f, n) \in Nat
      BY <1>0, <2>1, <2>2, GraphParts DEF GraphOf
    <3> QED
      BY <2>1, <2>2, <3>1 DEF Cost
  <2>3. CASE ph = "above"
    <3>1. FrameOf(f, m) \in Nat
      BY <1>0, <2>1, <2>3, ReversedParts DEF InWalk
    <3> QED
      BY <2>1, <2>3, <3>1 DEF Cost
  <2> QED
    BY <2>2, <2>3
<1>4. \A m \in TodoOf(f, ph, n) : m \in NamesOf(f)
  BY TodoParts
<1>5. IsGraph(GraphOf(f, ph))
  BY <1>0 DEF GraphOf
<1> QED
  BY <1>1, <1>2, <1>3, <1>4, <1>5

\* A call of walk that is just entered has looked at nothing.
LEMMA PathPush ==
  ASSUME NEW f \in Graphs, NEW ph \in {"walk", "above"}, NEW s, NEW memo, PathOK(f, ph, s, memo),
         NEW n, InWalk(f, ph, n), n \notin memo \cup FnsOf(s),
         s # <<>> => n \in s[Len(s)].todo,
         NEW t, t = Pushed(f, ph, s, n)
  PROVE  PathOK(f, ph, t, memo) /\ FnsOf(t) = FnsOf(s) \cup {n}
<1> DEFINE r == [fn |-> n, todo |-> TodoOf(f, ph, n), best |-> BaseOf(f, ph, n)]
           k == Len(s)
<1>0. /\ n \in NamesOf(f) /\ BaseOf(f, ph, n) \in Nat /\ TodoOf(f, ph, n) \subseteq NamesOf(f)
  BY WalkParts
<1>1. /\ s \in Seq(Calls(f)) /\ k \in Nat
      /\ (\A i \in 1 .. k :
           /\ InWalk(f, ph, s[i].fn) /\ s[i].fn \notin memo
           /\ Progress(f, ph, s[i].fn, s[i].todo, s[i].best)
           /\ TodoOf(f, ph, s[i].fn) \ s[i].todo \subseteq memo \cup FnsOf(s))
      /\ (\A i \in 1 .. k - 1 : s[i + 1].fn \in s[i].todo)
      /\ \A i, j \in 1 .. k : s[i].fn = s[j].fn => i = j
  <2>1. s \in Seq(Calls(f))
    BY DEF PathOK
  <2>2. k \in Nat
    BY <2>1
  <2> QED
    BY <2>1, <2>2 DEF PathOK
<1>2. /\ r \in Calls(f) /\ r.fn = n /\ r.todo = TodoOf(f, ph, n) /\ r.best = BaseOf(f, ph, n)
  BY <1>0 DEF Calls
<1>3. Progress(f, ph, n, r.todo, r.best)
  BY <1>0, <1>2 DEF Progress
<1> HIDE DEF r
<1>4. /\ t \in Seq(Calls(f)) /\ Len(t) = k + 1 /\ t[k + 1] = r
      /\ \A i \in 1 .. k : t[i] = s[i]
  BY <1>1, <1>2 DEF r, Pushed
<1>5. FnsOf(t) = FnsOf(s) \cup {n}
  <2>1. \A i \in 1 .. k + 1 : t[i].fn \in FnsOf(s) \cup {n}
    <3> SUFFICES ASSUME NEW i \in 1 .. k + 1 PROVE t[i].fn \in FnsOf(s) \cup {n}
      OBVIOUS
    <3>1. CASE i = k + 1
      BY <1>2, <1>4, <3>1
    <3>2. CASE i # k + 1
      <4>1. i \in 1 .. k
        BY <1>1, <3>2
      <4> QED
        BY <1>4, <4>1 DEF FnsOf
    <3> QED
      BY <3>1, <3>2
  <2>2. \A i \in 1 .. k : i \in 1 .. k + 1 /\ s[i].fn = t[i].fn
    BY <1>1, <1>4
  <2>3. k + 1 \in 1 .. k + 1 /\ t[k + 1].fn = n
    BY <1>1, <1>2, <1>4
  <2>4. FnsOf(t) = {t[i].fn : i \in 1 .. k + 1}
    BY <1>4 DEF FnsOf
  <2>5. FnsOf(t) \subseteq FnsOf(s) \cup {n}
    BY <2>1, <2>4
  <2>6. FnsOf(s) \subseteq FnsOf(t)
    BY <2>2, <2>4 DEF FnsOf
  <2>7. n \in FnsOf(t)
    BY <2>3, <2>4
  <2> QED
    BY <2>5, <2>6, <2>7
<1>6. ASSUME NEW i \in 1 .. k + 1
      PROVE  /\ InWalk(f, ph, t[i].fn) /\ t[i].fn \notin memo
             /\ Progress(f, ph, t[i].fn, t[i].todo, t[i].best)
             /\ TodoOf(f, ph, t[i].fn) \ t[i].todo \subseteq memo \cup FnsOf(t)
  <2>1. CASE i = k + 1
    BY <1>2, <1>3, <1>4, <2>1
  <2>2. CASE i # k + 1
    <3>1. i \in 1 .. k
      BY <1>1, <2>2
    <3> QED
      BY <1>1, <1>4, <1>5, <3>1
  <2> QED
    BY <2>1, <2>2
<1>7. ASSUME NEW i \in 1 .. k PROVE t[i + 1].fn \in t[i].todo
  <2>1. CASE i = k
    <3>1. s # <<>>
      BY <1>1, <2>1
    <3> QED
      BY <1>2, <1>4, <2>1, <3>1
  <2>2. CASE i # k
    <3>1. i \in 1 .. k - 1 /\ i + 1 \in 1 .. k
      BY <1>1, <2>2
    <3> QED
      BY <1>1, <1>4, <3>1
  <2> QED
    BY <2>1, <2>2
<1>8. ASSUME NEW i \in 1 .. k + 1, NEW j \in 1 .. k + 1, t[i].fn = t[j].fn PROVE i = j
  <2>0. \A l \in 1 .. k : t[l].fn # n
    BY <1>4 DEF FnsOf
  <2>1. CASE i = k + 1 \/ j = k + 1
    <3>1. t[i].fn = n /\ t[j].fn = n
      BY <1>2, <1>4, <1>8, <2>1
    <3> QED
      BY <1>1, <2>0, <3>1
  <2>2. CASE i # k + 1 /\ j # k + 1
    <3>1. i \in 1 .. k /\ j \in 1 .. k
      BY <1>1, <2>2
    <3> QED
      BY <1>1, <1>4, <1>8, <3>1
  <2> QED
    BY <2>1, <2>2
<1>9. (k + 1) - 1 = k
  BY <1>1
<1> QED
  BY <1>4, <1>5, <1>6, <1>7, <1>8, <1>9 DEF PathOK

\* A callee that is on the path is on a cycle of the walk's graph: the sentinel is its
\* answer.
LEMMA BackEdge ==
  ASSUME NEW f \in Graphs, NEW ph \in {"walk", "above"}, NEW s, NEW memo, PathOK(f, ph, s, memo),
         s # <<>>, NEW m \in s[Len(s)].todo, m \in FnsOf(s)
  PROVE  Truth(f, ph, m) = Infinite
<1> DEFINE k == Len(s)
           p == [i \in 1 .. k |-> s[i].fn]
           G == GraphOf(f, ph)
           E == EdgesOf(G)
<1>1. /\ s \in Seq(Calls(f)) /\ k \in Nat \ {0}
      /\ (\A i \in 1 .. k : InWalk(f, ph, s[i].fn) /\ s[i].todo \subseteq TodoOf(f, ph, s[i].fn))
      /\ (\A i \in 1 .. k - 1 : s[i + 1].fn \in s[i].todo)
      /\ \A i, j \in 1 .. k : s[i].fn = s[j].fn => i = j
  BY DEF PathOK, Progress
<1>2. IsGraph(f) /\ IsGraph(G) /\ k \in 1 .. k
  BY <1>1, WalkParts, FactsAreGraphs
<1>3. ASSUME NEW i \in 1 .. k, NEW c \in s[i].todo
      PROVE  s[i].fn \in Nodes(G) /\ c \in CalleesOf(G, s[i].fn) /\ InWalk(f, ph, c)
  <2>1. InWalk(f, ph, s[i].fn) /\ c \in TodoOf(f, ph, s[i].fn)
    BY <1>1, <1>3
  <2> QED
    BY <2>1, TodoParts
<1>4. \A i \in 1 .. k : s[i].fn \in Nodes(G)
  <2> SUFFICES ASSUME NEW i \in 1 .. k PROVE s[i].fn \in Nodes(G)
    OBVIOUS
  <2>1. CASE i = k
    BY <1>3, <2>1
  <2>2. CASE i # k
    <3>1. i \in 1 .. k - 1
      BY <1>1, <2>2
    <3> QED
      BY <1>1, <1>3, <3>1
  <2> QED
    BY <2>1, <2>2
<1>5. p \in Seq(Nodes(G)) /\ Len(p) = k /\ \A i \in 1 .. k : p[i] = s[i].fn
  BY <1>1, <1>4
<1>6. \A n \in Nodes(G) : E[n] = CalleesOf(G, n)
  BY <1>2, GraphParts
<1> HIDE DEF p, E, G
<1>7. IsPath(Nodes(G), E, p)
  <2>1. p # <<>> /\ DOMAIN p = 1 .. k
    BY <1>1, <1>5
  <2>2. \A i \in 1 .. k - 1 : i \in 1 .. k /\ i + 1 \in 1 .. k
    BY <1>1
  <2>3. IsInjective(p)
    BY <1>1, <1>5, <2>1 DEF IsInjective
  <2>4. \A i \in 1 .. k - 1 : p[i + 1] \in E[p[i]]
    BY <1>1, <1>3, <1>4, <1>5, <1>6, <2>2
  <2> QED
    BY <1>5, <2>1, <2>3, <2>4 DEF IsPath
<1>8. PICK j \in 1 .. k : p[j] = m
  BY <1>5 DEF FnsOf
<1>9. j \in 1 .. Len(p) /\ k \in j .. Len(p)
  BY <1>1, <1>5, <1>8
<1>10. PICK r : IsPath(Nodes(G), E, r) /\ Head(r) = p[j] /\ Last(r) = p[k]
  BY <1>7, <1>9, PathSegment
<1>11. r \in Chains(G)
  BY <1>2, <1>10, ChainsArePaths DEF E
<1>12. Head(r) \in CalleesOf(G, Last(r)) /\ InWalk(f, ph, m)
  BY <1>2, <1>3, <1>5, <1>8, <1>10
<1>13. EndlessFrom(G, m)
  BY <1>2, <1>8, <1>10, <1>11, <1>12, CycleIsEndless
<1> QED
  BY <1>2, <1>12, <1>13, TruthParts DEF G

\* All but the last of a sequence.
LEMMA FrontParts ==
  ASSUME NEW S, NEW s \in Seq(S), s # <<>>, NEW t, t = Front(s)
  PROVE  t \in Seq(S) /\ Len(t) = Len(s) - 1 /\ \A i \in 1 .. Len(s) - 1 : t[i] = s[i]
<1>1. t = SubSeq(s, 1, Len(s) - 1) /\ Len(s) \in Nat \ {0}
  BY DEF Front
<1>2. \A i \in 1 .. Len(s) - 1 : s[i] \in S
  BY <1>1
<1> DEFINE k == Len(s) - 1
<1>3. /\ t \in Seq(S) /\ Len(t) = IF 1 <= k THEN k - 1 + 1 ELSE 0
      /\ \A i \in 1 .. k - 1 + 1 : t[i] = s[1 + i - 1]
  BY <1>1, <1>2, SubSeqProperties
<1>4. k \in Nat
  BY <1>1
<1> HIDE DEF k
<1>5. Len(t) = k /\ \A i \in 1 .. k : t[i] = s[i]
  BY <1>3, <1>4
<1> QED
  BY <1>3, <1>5 DEF k

\* Taking the answer of one callee into account keeps the best what it should be.
LEMMA PathCombine ==
  ASSUME NEW f \in Graphs, NEW ph \in {"walk", "above"}, NEW s, NEW memo, PathOK(f, ph, s, memo),
         s # <<>>, NEW m \in s[Len(s)].todo, m \in memo \cup FnsOf(s),
         NEW t, t = Combined(f, ph, s, m)
  PROVE  PathOK(f, ph, t, memo) /\ FnsOf(t) = FnsOf(s)
<1> DEFINE k == Len(s)
           n == s[k].fn
           T == TodoOf(f, ph, n)
           b == s[k].best
           C(c) == Cost(f, ph, n, c)
           base == BaseOf(f, ph, n)
           new == Max({b, C(m)})
<1>1. /\ s \in Seq(Calls(f)) /\ k \in Nat \ {0} /\ k \in 1 .. k
      /\ (\A i \in 1 .. k :
           /\ InWalk(f, ph, s[i].fn) /\ s[i].fn \notin memo
           /\ Progress(f, ph, s[i].fn, s[i].todo, s[i].best)
           /\ TodoOf(f, ph, s[i].fn) \ s[i].todo \subseteq memo \cup FnsOf(s))
      /\ (\A i \in 1 .. k - 1 : s[i + 1].fn \in s[i].todo)
      /\ \A i, j \in 1 .. k : s[i].fn = s[j].fn => i = j
  BY DEF PathOK
<1>2. \A i \in 1 .. k : /\ s[i] \in Calls(f) /\ s[i].fn \in NamesOf(f)
                        /\ s[i].todo \subseteq NamesOf(f) /\ s[i].best \in Nat
                        /\ s[i] = [fn |-> s[i].fn, todo |-> s[i].todo, best |-> s[i].best]
  <2>1. \A i \in 1 .. k : s[i] \in Calls(f)
    BY <1>1
  <2> SUFFICES ASSUME NEW i \in 1 .. k, NEW x, x = s[i]
               PROVE  /\ x \in Calls(f) /\ x.fn \in NamesOf(f)
                      /\ x.todo \subseteq NamesOf(f) /\ x.best \in Nat
                      /\ x = [fn |-> x.fn, todo |-> x.todo, best |-> x.best]
    OBVIOUS
  <2>2. x \in Calls(f)
    BY <2>1
  <2> QED
    BY <2>2 DEF Calls
<1>3. /\ s[k].todo \subseteq T /\ b \in Nat /\ base <= b /\ (\A c \in T \ s[k].todo : C(c) <= b)
      /\ b = base \/ \E c \in T \ s[k].todo : b = C(c)
  BY <1>1 DEF Progress
<1>4. base \in Nat /\ \A c \in T : C(c) \in Nat
  BY <1>1, WalkParts
<1>5. new = (IF b <= C(m) THEN C(m) ELSE b) /\ new \in Nat
  <2> DEFINE c == C(m)
  <2>1. b \in Nat /\ c \in Nat /\ b \in Int /\ c \in Int /\ new = Max({b, c})
    BY <1>3, <1>4
  <2> HIDE DEF b, c, new
  <2>2. Max({b, c}) = IF b <= c THEN c ELSE b
    BY <2>1, OfTwo
  <2>3. new = (IF b <= c THEN c ELSE b) /\ new \in Nat
    BY <2>1, <2>2
  <2> QED
    BY <2>3 DEF c
<1>6. m \in T /\ (T \ (s[k].todo \ {m})) = (T \ s[k].todo) \cup {m}
  BY <1>3
<1>7. Progress(f, ph, n, s[k].todo \ {m}, new)
  <2> DEFINE D == T \ s[k].todo
             todo == s[k].todo
  <2>0. m \in T /\ T \ (todo \ {m}) = D \cup {m} /\ todo \subseteq T
    BY <1>3, <1>6
  <2>1. /\ base <= b /\ (\A c \in D : C(c) <= b) /\ (b = base \/ \E c \in D : b = C(c))
        /\ \A c \in D : C(c) \in Nat
    BY <1>3, <1>4
  <2> HIDE DEF T, C, b, base, new, D, todo
  <2>2. b <= new /\ C(m) <= new /\ C(m) \in Nat /\ b \in Nat
    BY <1>3, <1>4, <1>5, <2>0
  <2>3. base <= new
    BY <1>4, <1>5, <2>1, <2>2
  <2>4. \A c \in D \cup {m} : C(c) <= new
    BY <1>5, <2>1, <2>2
  <2>5. new = base \/ \E c \in D \cup {m} : new = C(c)
    BY <1>5, <2>1
  <2>6. /\ (todo \ {m}) \subseteq T
        /\ (\A c \in T \ (todo \ {m}) : C(c) <= new)
        /\ new = base \/ \E c \in T \ (todo \ {m}) : new = C(c)
    BY <2>0, <2>4, <2>5
  <2> QED
    BY <1>5, <2>3, <2>6 DEF Progress, T, C, base, todo
<1>8. /\ t \in Seq(Calls(f)) /\ Len(t) = k /\ (\A i \in 1 .. k : t[i].fn = s[i].fn)
      /\ t[k].todo = s[k].todo \ {m} /\ t[k].best = new
      /\ \A i \in 1 .. k : i # k => t[i] = s[i]
  <2> DEFINE u == [s[k] EXCEPT !.todo = @ \ {m}, !.best = new]
  <2>1. u = [fn |-> n, todo |-> s[k].todo \ {m}, best |-> new]
    <3>1. s[k] = [fn |-> n, todo |-> s[k].todo, best |-> b]
      BY <1>1, <1>2
    <3> DEFINE td == s[k].todo
    <3>2. u = [[fn |-> n, todo |-> td, best |-> b] EXCEPT !.todo = td \ {m}, !.best = new]
      BY <3>1
    <3> HIDE DEF n, td, b, new, u
    <3>3. u = [fn |-> n, todo |-> td \ {m}, best |-> new]
      BY <3>2
    <3> QED
      BY <3>3 DEF td
  <2>2. u.fn = n /\ u.todo = s[k].todo \ {m} /\ u.best = new
    BY <2>1
  <2>3. u \in Calls(f)
    BY <1>1, <1>2, <1>5, <2>1 DEF Calls
  <2>4. t = [s EXCEPT ![k] = u]
    BY <1>1 DEF Combined
  <2> HIDE DEF u, n, new
  <2>5. t \in Seq(Calls(f)) /\ Len(t) = k /\ t[k] = u /\ \A i \in 1 .. k : i # k => t[i] = s[i]
    <3> DEFINE C0 == Calls(f)
    <3>1. s \in Seq(C0) /\ k \in 1 .. Len(s) /\ u \in C0
      BY <1>1, <2>3
    <3> HIDE DEF C0, k
    <3>2. /\ t \in Seq(C0) /\ Len(t) = Len(s)
          /\ \A j \in 1 .. Len(s) : t[j] = IF j = k THEN u ELSE s[j]
      <4> DEFINE v == [s EXCEPT ![k] = u]
      <4>1. /\ v \in Seq(C0) /\ Len(v) = Len(s)
            /\ \A j \in 1 .. Len(s) : v[j] = IF j = k THEN u ELSE s[j]
        BY ONLY <3>1, ExceptSeq
      <4> QED
        BY ONLY <2>4, <4>1
    <3>3. t[k] = u /\ \A i \in 1 .. Len(s) : i # k => t[i] = s[i]
      BY <3>1, <3>2
    <3> QED
      BY <3>2, <3>3 DEF k, C0
  <2>6. \A i \in 1 .. k : t[i].fn = s[i].fn
    BY <2>2, <2>5 DEF n
  <2> QED
    BY <2>2, <2>5, <2>6
<1> HIDE DEF new, T, C, base
<1>9. FnsOf(t) = FnsOf(s)
  BY <1>8 DEF FnsOf
<1>10. ASSUME NEW i \in 1 .. k
       PROVE  /\ InWalk(f, ph, t[i].fn) /\ t[i].fn \notin memo
              /\ Progress(f, ph, t[i].fn, t[i].todo, t[i].best)
              /\ TodoOf(f, ph, t[i].fn) \ t[i].todo \subseteq memo \cup FnsOf(t)
  <2>1. CASE i = k
    <3>1. t[i].fn = n /\ t[i].todo = s[k].todo \ {m} /\ t[i].best = new
      BY <1>1, <1>8, <2>1
    <3>2. T \ (s[k].todo \ {m}) \subseteq memo \cup FnsOf(s)
      BY <1>1, <1>6 DEF T
    <3> QED
      BY <1>1, <1>7, <1>9, <3>1, <3>2 DEF T
  <2>2. CASE i # k
    BY <1>1, <1>8, <1>9, <2>2
  <2> QED
    BY <2>1, <2>2
<1>11. \A i \in 1 .. k - 1 : t[i + 1].fn \in t[i].todo
  <2>1. \A i \in 1 .. k - 1 : i \in 1 .. k /\ i + 1 \in 1 .. k /\ i # k
    BY <1>1
  <2> QED
    BY <1>1, <1>8, <2>1
<1>12. \A i, j \in 1 .. k : t[i].fn = t[j].fn => i = j
  BY <1>1, <1>8
<1> QED
  BY <1>8, <1>9, <1>10, <1>11, <1>12 DEF PathOK

\* Returning from a call memoises the answer.
LEMMA PathPop ==
  ASSUME NEW f \in Graphs, NEW ph \in {"walk", "above"}, NEW s, NEW memo, PathOK(f, ph, s, memo),
         s # <<>>, TopOf(s).todo = {}
  PROVE  /\ PoppedOK(f, ph, s, memo)
         /\ FnsOf(s) = FnsOf(Front(s)) \cup {TopOf(s).fn}
         /\ InWalk(f, ph, TopOf(s).fn) /\ TodoOf(f, ph, TopOf(s).fn) \subseteq memo \cup FnsOf(s)
         /\ Capped(TopOf(s).best) = Truth(f, ph, TopOf(s).fn)
<1> DEFINE k == Len(s)
           n == s[k].fn
           t == Front(s)
<1>0. TopOf(s) = s[k] /\ s[k].todo = {}
  BY DEF TopOf
<1>1. /\ s \in Seq(Calls(f)) /\ k \in Nat \ {0} /\ k \in 1 .. k
      /\ (\A i \in 1 .. k :
           /\ InWalk(f, ph, s[i].fn) /\ s[i].fn \notin memo
           /\ Progress(f, ph, s[i].fn, s[i].todo, s[i].best)
           /\ TodoOf(f, ph, s[i].fn) \ s[i].todo \subseteq memo \cup FnsOf(s))
      /\ (\A i \in 1 .. k - 1 : s[i + 1].fn \in s[i].todo)
      /\ \A i, j \in 1 .. k : s[i].fn = s[j].fn => i = j
  <2>1. s \in Seq(Calls(f))
    BY DEF PathOK
  <2>2. k \in Nat \ {0} /\ k \in 1 .. k
    BY ONLY <2>1, s # <<>>
  <2> QED
    BY <2>1, <2>2, Zenon DEF PathOK
<1>2. Capped(s[k].best) = Truth(f, ph, n) /\ InWalk(f, ph, n)
      /\ TodoOf(f, ph, n) \subseteq memo \cup FnsOf(s)
  <2>1. InWalk(f, ph, n) /\ Progress(f, ph, n, {}, s[k].best)
        /\ TodoOf(f, ph, n) \subseteq memo \cup FnsOf(s)
    BY <1>0, <1>1
  <2> QED
    BY <2>1, AnswerWhenDone DEF Capped
<1>3. t \in Seq(Calls(f)) /\ Len(t) = k - 1 /\ \A i \in 1 .. k - 1 : t[i] = s[i] /\ i \in 1 .. k /\ i # k
  <2>1. t \in Seq(Calls(f)) /\ Len(t) = k - 1 /\ \A i \in 1 .. k - 1 : t[i] = s[i]
    BY <1>1, FrontParts
  <2>2. \A i \in 1 .. k - 1 : i \in 1 .. k /\ i # k
    BY <1>1
  <2> QED
    BY <2>1, <2>2
<1>4. FnsOf(s) = FnsOf(t) \cup {n}
  <2>1. \A i \in 1 .. k : i = k \/ i \in 1 .. k - 1
    BY <1>1
  <2>2. FnsOf(t) = {s[i].fn : i \in 1 .. k - 1}
    BY <1>3 DEF FnsOf
  <2>3. FnsOf(s) \subseteq FnsOf(t) \cup {n}
    BY <2>1, <2>2 DEF FnsOf
  <2>4. FnsOf(t) \cup {n} \subseteq FnsOf(s)
    BY <1>1, <1>3, <2>2 DEF FnsOf
  <2> QED
    BY <2>3, <2>4
<1>5. ASSUME NEW i \in 1 .. k - 1
      PROVE  /\ InWalk(f, ph, t[i].fn) /\ t[i].fn \notin memo \cup {n}
             /\ Progress(f, ph, t[i].fn, t[i].todo, t[i].best)
             /\ TodoOf(f, ph, t[i].fn) \ t[i].todo \subseteq (memo \cup {n}) \cup FnsOf(t)
  <2>1. t[i] = s[i] /\ i \in 1 .. k /\ i # k /\ s[i].fn # n
    BY <1>1, <1>3
  <2> QED
    BY <1>1, <1>4, <2>1
<1>6. \A i \in 1 .. (k - 1) - 1 : t[i + 1].fn \in t[i].todo
  <2>1. \A i \in 1 .. (k - 1) - 1 : i \in 1 .. k - 1 /\ i + 1 \in 1 .. k - 1
    BY <1>1
  <2> QED
    BY <1>1, <1>3, <2>1
<1>7. \A i, j \in 1 .. k - 1 : t[i].fn = t[j].fn => i = j
  BY <1>1, <1>3
<1>8. PathOK(f, ph, t, memo \cup {n})
  BY <1>3, <1>5, <1>6, <1>7 DEF PathOK
<1>9. PoppedOK(f, ph, s, memo)
  BY <1>0, <1>8 DEF PoppedOK
<1> QED
  BY <1>0, <1>2, <1>4, <1>9

----------------------------------------------------------------------------
(* The invariant of the two walks.                                         *)

\* The answers in M are the true ones.
MemoOK(f, ph, M) == \A n \in DOMAIN M : InWalk(f, ph, n) /\ M[n] = Truth(f, ph, n)

\* The callees of a memoised function are memoised, or still on the path.
Closed(f, M, fns) == \A n \in DOMAIN M : TodoOf(f, "walk", n) \subseteq DOMAIN M \cup fns

\* The phases in which the walks run.
Walking == {"walk", "above"}

\* The walks' invariant: what is memoised is true, and the recursion is in order.
WalkInv ==
  /\ g \in Graphs /\ phase \in {"walk", "above", "report", "done"}
  /\ MemoOK(g, "walk", height) /\ MemoOK(g, "above", above)
  /\ phase \in Walking => PathOK(g, phase, path, DOMAIN Memo)
  /\ phase \notin Walking => path = <<>>
  /\ Closed(g, height, IF phase = "walk" THEN FnsOf(path) ELSE {})
  /\ phase # "walk" => g.funcs \subseteq DOMAIN height
  /\ phase \notin Walking => g.noSplit \subseteq DOMAIN above

\* No call yet.
LEMMA EmptyPath ==
  ASSUME NEW f, NEW ph, NEW memo
  PROVE  PathOK(f, ph, <<>>, memo) /\ FnsOf(<<>>) = {}
<1>1. Len(<<>>) = 0 /\ <<>> \in Seq(Calls(f)) /\ 1 .. 0 = {} /\ 1 .. 0 - 1 = {}
  OBVIOUS
<1> QED
  BY <1>1 DEF PathOK, FnsOf

\* Nothing is memoised and no call is open at first.
LEMMA WalkInit == Init => WalkInv
<1> SUFFICES ASSUME Init PROVE WalkInv
  OBVIOUS
<1>1. /\ g \in Graphs /\ phase = "walk" /\ path = <<>> /\ height = Empty /\ above = Empty
      /\ DOMAIN Empty = {}
  BY DEF Init, Empty
<1>2. PathOK(g, phase, path, DOMAIN Memo) /\ FnsOf(path) = {}
  BY <1>1, EmptyPath
<1> QED
  BY <1>1, <1>2 DEF WalkInv, MemoOK, Closed, Walking

\* The call on top of the path.
LEMMA TopOfPath ==
  ASSUME WalkInv, phase \in Walking
  PROVE  /\ Last(path) = path[Len(path)] /\ OnPath = FnsOf(path) /\ Len(path) \in Nat
         /\ path # <<>> => /\ InWalk(g, phase, Last(path).fn)
                           /\ Last(path).todo \subseteq TodoOf(g, phase, Last(path).fn)
<1>1. path \in Seq(Calls(g)) /\ PathOK(g, phase, path, DOMAIN Memo)
  BY DEF WalkInv, PathOK
<1>2. DOMAIN path = 1 .. Len(path) /\ Len(path) \in Nat /\ path # <<>> => Len(path) \in 1 .. Len(path)
  BY <1>1
<1>3. path # <<>> => Len(path) \in 1 .. Len(path)
  BY <1>1
<1> QED
  BY <1>1, <1>2, <1>3 DEF Last, OnPath, FnsOf, PathOK, Progress

\* What entering a function pushes, in the terms of this module.
LEMMA EnterIs ==
  ASSUME phase \in Walking, NEW n
  PROVE  Enter(n) = Pushed(g, phase, path, n)
<1>1. Todo(n) = TodoOf(g, phase, n)
  BY DEF Todo, TodoOf, Callers
<1>2. Base(n) = BaseOf(g, phase, n)
  BY DEF Base, BaseOf
<1> QED
  BY <1>1, <1>2 DEF Enter, Pushed

\* A walk that pushes a call keeps the invariant.
LEMMA PushKeeps ==
  ASSUME WalkInv, phase \in Walking, NEW n, InWalk(g, phase, n),
         n \notin DOMAIN Memo \cup OnPath, path # <<>> => n \in Last(path).todo,
         path' = Enter(n), UNCHANGED <<g, phase, height, above>>
  PROVE  WalkInv'
<1>1. /\ g \in Graphs /\ phase \in {"walk", "above"} /\ PathOK(g, phase, path, DOMAIN Memo)
      /\ n \notin DOMAIN Memo \cup FnsOf(path) /\ (path # <<>> => n \in path[Len(path)].todo)
  BY TopOfPath DEF WalkInv, Walking
<1> DEFINE t == Pushed(g, phase, path, n)
<1>2. path' = t
  BY EnterIs
<1> HIDE DEF t
<1>3. PathOK(g, phase, t, DOMAIN Memo) /\ FnsOf(t) = FnsOf(path) \cup {n}
  <2>1. t = Pushed(g, phase, path, n)
    BY DEF t
  <2> DEFINE memo == DOMAIN Memo
  <2>2. PathOK(g, phase, path, memo) /\ n \notin memo \cup FnsOf(path)
    BY <1>1
  <2> HIDE DEF memo
  <2>3. PathOK(g, phase, t, memo) /\ FnsOf(t) = FnsOf(path) \cup {n}
    BY <1>1, <2>1, <2>2, PathPush
  <2> QED
    BY <2>3 DEF memo
<1>4. g' = g /\ phase' = phase /\ height' = height /\ above' = above /\ Memo' = Memo
  BY DEF Memo
<1>5. PathOK(g', phase', path', DOMAIN Memo') /\ FnsOf(path') = FnsOf(path) \cup {n}
  BY <1>2, <1>3, <1>4
<1>6. Closed(g', height', IF phase' = "walk" THEN FnsOf(path') ELSE {})
  BY <1>4, <1>5 DEF WalkInv, Closed
<1>7. MemoOK(g', "walk", height') /\ MemoOK(g', "above", above')
  BY <1>4 DEF WalkInv
<1> QED
  BY <1>1, <1>4, <1>5, <1>6, <1>7 DEF WalkInv, Walking

\* The outer loops enter a function when no call is open.
LEMMA StartWalkKeeps ==
  ASSUME WalkInv, NEW n, StartWalk(n)
  PROVE  WalkInv'
<1>1. /\ phase \in Walking /\ path = <<>> /\ n \in Wanted /\ path' = Enter(n)
      /\ UNCHANGED <<g, phase, height, above>>
  BY DEF StartWalk, Walking
<1>2. InWalk(g, phase, n)
  <2>1. IsFacts(g)
    BY StackCheckAssumption DEF WalkInv
  <2> QED
    BY <1>1, <2>1 DEF Wanted, InWalk, NamesOf, IsFacts, Walking
<1>3. OnPath = {}
  BY <1>1, TopOfPath, EmptyPath
<1> QED
  BY <1>1, <1>2, <1>3, PushKeeps DEF Wanted

\* A call enters a callee that is neither memoised nor on the path.
LEMMA DescendKeeps ==
  ASSUME WalkInv, NEW m, Descend(m)
  PROVE  WalkInv'
<1>1. /\ phase \in Walking /\ path # <<>> /\ m \in Last(path).todo
      /\ m \notin DOMAIN Memo \cup OnPath /\ path' = Enter(m)
      /\ UNCHANGED <<g, phase, height, above>>
  BY DEF Descend, Walking
<1>2. InWalk(g, phase, m)
  <2>1. InWalk(g, phase, Last(path).fn) /\ m \in TodoOf(g, phase, Last(path).fn)
    BY <1>1, TopOfPath
  <2>2. g \in Graphs /\ phase \in {"walk", "above"}
    BY <1>1 DEF WalkInv, Walking
  <2> QED
    BY <2>1, <2>2, TodoParts
<1> QED
  BY <1>1, <1>2, PushKeeps

\* A call takes a callee's answer into account: a memoised one, or the sentinel of one
\* that is on the path and therefore on a cycle.
LEMMA CombineKeeps ==
  ASSUME WalkInv, NEW m, Combine(m)
  PROVE  WalkInv'
<1> DEFINE k == Len(path)
           n == path[k].fn
           t == Combined(g, phase, path, m)
<1>1. /\ phase \in Walking /\ path # <<>> /\ m \in Last(path).todo
      /\ m \in DOMAIN Memo \cup OnPath
      /\ path' = [path EXCEPT ![Len(path)].todo = @ \ {m},
                              ![Len(path)].best = Max({@, Edge(Last(path).fn, m, Answer(m))})]
      /\ UNCHANGED <<g, phase, height, above>>
  BY DEF Combine, Walking
<1>2. /\ g \in Graphs /\ phase \in {"walk", "above"} /\ PathOK(g, phase, path, DOMAIN Memo)
      /\ Last(path) = path[k] /\ OnPath = FnsOf(path) /\ m \in path[k].todo
      /\ MemoOK(g, "walk", height) /\ MemoOK(g, "above", above)
  BY <1>1, TopOfPath DEF WalkInv, Walking
<1>3. Answer(m) = Truth(g, phase, m)
  <2>1. CASE m \in DOMAIN Memo
    BY <1>2, <2>1 DEF Answer, Memo, MemoOK
  <2>2. CASE m \notin DOMAIN Memo
    <3>1. Truth(g, phase, m) = Infinite
      BY <1>1, <1>2, <2>2, BackEdge
    <3> QED
      BY <2>2, <3>1 DEF Answer
  <2> QED
    BY <2>1, <2>2
<1>4. Edge(Last(path).fn, m, Answer(m)) = Cost(g, phase, n, m)
  BY <1>2, <1>3 DEF Edge, Cost
<1>5. path' = t
  BY <1>1, <1>2, <1>4 DEF Combined
<1>6. PathOK(g, phase, t, DOMAIN Memo) /\ FnsOf(t) = FnsOf(path)
  <2>1. t = Combined(g, phase, path, m)
    OBVIOUS
  <2>2. m \in DOMAIN Memo \cup FnsOf(path) /\ m \in path[Len(path)].todo
    BY <1>1, <1>2
  <2> DEFINE memo == DOMAIN Memo
  <2>3. PathOK(g, phase, path, memo) /\ m \in memo \cup FnsOf(path)
    BY <1>2, <2>2
  <2> HIDE DEF t, memo
  <2>4. PathOK(g, phase, t, memo) /\ FnsOf(t) = FnsOf(path)
    BY <1>1, <1>2, <2>1, <2>2, <2>3, PathCombine
  <2> QED
    BY <2>4 DEF memo
<1> HIDE DEF t
<1>7. g' = g /\ phase' = phase /\ height' = height /\ above' = above /\ Memo' = Memo
  BY <1>1 DEF Memo
<1>8. PathOK(g', phase', path', DOMAIN Memo') /\ FnsOf(path') = FnsOf(path)
  BY <1>5, <1>6, <1>7
<1>9. Closed(g', height', IF phase' = "walk" THEN FnsOf(path') ELSE {})
  BY <1>7, <1>8 DEF WalkInv, Closed
<1> QED
  BY <1>1, <1>2, <1>7, <1>8, <1>9 DEF WalkInv, Walking

\* A call that has looked at every callee has the true answer, and memoises it.
LEMMA FinishKeeps ==
  ASSUME WalkInv, Finish
  PROVE  WalkInv'
<1> DEFINE k == Len(path)
           n == path[k].fn
           v == Capped(path[k].best)
<1>1. /\ phase \in Walking /\ path # <<>> /\ Last(path).todo = {} /\ path' = Front(path)
      /\ g' = g /\ phase' = phase
  BY DEF Finish, Walking
<1>2. /\ g \in Graphs /\ phase \in {"walk", "above"} /\ PathOK(g, phase, path, DOMAIN Memo)
      /\ Last(path) = path[k] /\ path[k].todo = {}
      /\ MemoOK(g, "walk", height) /\ MemoOK(g, "above", above)
      /\ Closed(g, height, IF phase = "walk" THEN FnsOf(path) ELSE {})
  BY <1>1, TopOfPath DEF WalkInv, Walking
<1>3. /\ height' = IF phase = "walk" THEN Memoise(height, n, v) ELSE height
      /\ above' = IF phase = "above" THEN Memoise(above, n, v) ELSE above
  BY <1>2 DEF Finish, Capped
<1>4. /\ PathOK(g, phase, path', DOMAIN Memo \cup {n}) /\ FnsOf(path) = FnsOf(path') \cup {n}
      /\ InWalk(g, phase, n) /\ TodoOf(g, phase, n) \subseteq DOMAIN Memo \cup FnsOf(path)
      /\ v = Truth(g, phase, n)
  <2> DEFINE memo == DOMAIN Memo
  <2>1. PathOK(g, phase, path, memo) /\ TopOf(path) = path[k] /\ TopOf(path).todo = {}
    BY <1>1, <1>2 DEF TopOf
  <2> HIDE DEF memo
  <2>2. /\ PoppedOK(g, phase, path, memo)
        /\ FnsOf(path) = FnsOf(Front(path)) \cup {TopOf(path).fn}
        /\ InWalk(g, phase, TopOf(path).fn)
        /\ TodoOf(g, phase, TopOf(path).fn) \subseteq memo \cup FnsOf(path)
        /\ Capped(TopOf(path).best) = Truth(g, phase, TopOf(path).fn)
    BY <1>1, <1>2, <2>1, PathPop
  <2> QED
    BY <1>1, <2>1, <2>2 DEF memo, PoppedOK
<1>5. ASSUME NEW M
      PROVE  /\ DOMAIN Memoise(M, n, v) = DOMAIN M \cup {n}
             /\ \A x \in DOMAIN M \cup {n} : Memoise(M, n, v)[x] = IF x = n THEN v ELSE M[x]
  BY DEF Memoise
<1> HIDE DEF n, v
<1>6. DOMAIN Memo' = DOMAIN Memo \cup {n}
  BY <1>1, <1>2, <1>3, <1>5 DEF Memo
<1>7. MemoOK(g', "walk", height') /\ MemoOK(g', "above", above')
  <2>1. ASSUME NEW M, MemoOK(g, phase, M) PROVE MemoOK(g, phase, Memoise(M, n, v))
    BY <1>4, <1>5, <2>1 DEF MemoOK
  <2>2. CASE phase = "walk"
    BY <1>1, <1>2, <1>3, <2>1, <2>2
  <2>3. CASE phase = "above"
    BY <1>1, <1>2, <1>3, <2>1, <2>3
  <2> QED
    BY <1>2, <2>2, <2>3
<1>8. Closed(g', height', IF phase' = "walk" THEN FnsOf(path') ELSE {})
  <2>1. CASE phase = "walk"
    <3>1. DOMAIN height' = DOMAIN height \cup {n} /\ Memo = height
      BY <1>3, <1>5, <2>1 DEF Memo
    <3> QED
      BY <1>1, <1>2, <1>4, <2>1, <3>1 DEF Closed
  <2>2. CASE phase = "above"
    BY <1>1, <1>2, <1>3, <2>2 DEF Closed
  <2> QED
    BY <1>2, <2>1, <2>2
<1>9. PathOK(g', phase', path', DOMAIN Memo')
  BY <1>1, <1>4, <1>6
<1>10. phase # "walk" => g.funcs \subseteq DOMAIN height
  BY DEF WalkInv
<1>11. phase' # "walk" => g'.funcs \subseteq DOMAIN height'
  BY <1>1, <1>3, <1>10
<1> QED
  BY <1>1, <1>2, <1>7, <1>8, <1>9, <1>11 DEF WalkInv, Walking

\* The first walk ends with a height for every function.
LEMMA WalksDoneKeeps ==
  ASSUME WalkInv, WalksDone
  PROVE  WalkInv'
<1>1. /\ phase = "walk" /\ path = <<>> /\ Wanted = {} /\ phase' = "above"
      /\ g' = g /\ path' = path /\ height' = height /\ above' = above
  BY DEF WalksDone
<1>2. g.funcs \subseteq DOMAIN height
  BY <1>1 DEF Wanted, Memo
<1>3. PathOK(g, "above", <<>>, DOMAIN above) /\ FnsOf(<<>>) = {} /\ Memo' = above
  BY <1>1, EmptyPath DEF Memo
<1>4. Closed(g, height, {})
  BY <1>1, <1>3 DEF WalkInv
<1> QED
  BY <1>1, <1>2, <1>3, <1>4 DEF WalkInv, Walking

\* The second ends with a depth for every nosplit function.
LEMMA AboveDoneKeeps ==
  ASSUME WalkInv, AboveDone
  PROVE  WalkInv'
<1>1. /\ phase = "above" /\ path = <<>> /\ Wanted = {} /\ phase' \in {"report", "done"}
      /\ g' = g /\ path' = path /\ height' = height /\ above' = above
  BY DEF AboveDone
<1>2. g.noSplit \subseteq DOMAIN above
  BY <1>1 DEF Wanted, Memo
<1> QED
  BY <1>1, <1>2 DEF WalkInv, Walking

\* Once the walks are over nothing changes what they found.
LEMMA ReportKeeps ==
  ASSUME WalkInv, phase \notin Walking, phase' \in {"report", "done"},
         UNCHANGED <<g, path, height, above>>
  PROVE  WalkInv'
BY DEF WalkInv, Walking

\* The walks' invariant is inductive.
LEMMA WalkStep ==
  ASSUME WalkInv, [Next]_vars
  PROVE  WalkInv'
<1>1. CASE UNCHANGED vars
  <2>1. /\ g' = g /\ phase' = phase /\ path' = path /\ height' = height /\ above' = above
        /\ Memo' = Memo
    BY <1>1 DEF vars, Memo
  <2> QED
    BY <2>1 DEF WalkInv
<1>2. ASSUME NEW n, StartWalk(n) \/ Descend(n) \/ Combine(n) PROVE WalkInv'
  BY <1>2, StartWalkKeeps, DescendKeeps, CombineKeeps
<1>3. CASE Finish
  BY <1>3, FinishKeeps
<1>4. CASE WalksDone
  BY <1>4, WalksDoneKeeps
<1>5. CASE AboveDone
  BY <1>5, AboveDoneKeeps
<1>6. ASSUME NEW n, StartChain(n) \/ FollowDeepest(n) PROVE WalkInv'
  BY <1>6, ReportKeeps DEF StartChain, FollowDeepest, Walking
<1>7. CASE EndUnbounded \/ EndBounded
  BY <1>7, ReportKeeps DEF EndUnbounded, EndBounded, EndChain, Walking
<1>8. CASE Done
  BY <1>1, <1>8 DEF Done
<1> QED
  BY <1>1, <1>2, <1>3, <1>4, <1>5, <1>6, <1>7, <1>8 DEF Next

----------------------------------------------------------------------------
(* The report.                                                             *)

\* The report's invariant: what is pending is over its limit, something is while the
\* report lasts, and chains are printed exactly when something was.
ReportInv ==
  /\ pending \subseteq Over /\ chain.frames \in Seq(NamesOf(g)) /\ chain.at \in NamesOf(g)
  /\ phase \in Walking => pending = {} /\ chain = NoChain /\ chains = {}
  /\ phase = "report" => pending # {} /\ Over # {}
  /\ phase = "done" => (chains = {} <=> Over = {})
  /\ chain # NoChain =>
       phase = "report" /\ chain.frames # <<>> /\ Head(chain.frames) \in pending

\* The roots are functions over their limit, and there is one if anything is.
LEMMA RootsAreOver ==
  ASSUME g \in Graphs
  PROVE  RootsOf \subseteq Over /\ Over \subseteq g.funcs /\ (Over # {} => RootsOf # {})
<1>1. Over \subseteq g.funcs /\ g.funcs \subseteq Nat
  BY StackCheckAssumption DEF Over, IsFacts
<1>2. Over # {} => Min(Over) \in Over
  <2> SUFFICES ASSUME Over # {} PROVE Min(Over) \in Over
    OBVIOUS
  <2>1. Over \in SUBSET Nat
    BY <1>1
  <2> QED
    BY <2>1, LeastNatural
<1> DEFINE roots == Over \ UNION {ReachedFrom(o) : o \in Over}
<1>3. RootsOf = IF roots = {} /\ Over # {} THEN {Min(Over)} ELSE roots
  BY DEF RootsOf
<1>4. roots \subseteq Over
  OBVIOUS
<1> HIDE DEF roots
<1> QED
  BY <1>1, <1>2, <1>3, <1>4

\* Nothing is pending at first.
LEMMA ReportInit == Init => ReportInv
<1> SUFFICES ASSUME Init PROVE ReportInv
  OBVIOUS
<1>1. phase = "walk" /\ pending = {} /\ chain = NoChain /\ chains = {}
  BY DEF Init
<1>2. chain.frames \in Seq(NamesOf(g)) /\ chain.at \in NamesOf(g)
  BY <1>1 DEF NoChain, NamesOf
<1> QED
  BY <1>1, <1>2 DEF ReportInv

\* The walks leave the report alone.
LEMMA WalkingKeeps ==
  ASSUME ReportInv, phase \in Walking, phase' \in Walking, UNCHANGED <<g, pending, chain, chains>>
  PROVE  ReportInv'
<1>1. /\ g' = g /\ pending' = {} /\ chain' = NoChain /\ chains' = {} /\ chain' = chain
      /\ chain'.frames \in Seq(NamesOf(g')) /\ chain'.at \in NamesOf(g')
  BY DEF ReportInv
<1> QED
  BY <1>1 DEF ReportInv, Walking

\* The verdict makes the roots pending.
LEMMA AboveDoneReports ==
  ASSUME WalkInv, ReportInv, AboveDone
  PROVE  ReportInv'
<1>1. /\ phase = "above" /\ pending' = RootsOf /\ phase' = (IF Over = {} THEN "done" ELSE "report")
      /\ g' = g /\ height' = height /\ chain' = chain /\ chains' = chains
  BY DEF AboveDone
<1>2. /\ chain = NoChain /\ chains = {}
      /\ chain.frames \in Seq(NamesOf(g)) /\ chain.at \in NamesOf(g)
  BY <1>1 DEF ReportInv, Walking
<1>3. RootsOf \subseteq Over /\ Over \subseteq g.funcs /\ (Over # {} => RootsOf # {})
  BY RootsAreOver DEF WalkInv
<1>4. Over' = Over
  BY <1>1 DEF Over, LimitFor
<1> QED
  BY <1>1, <1>2, <1>3, <1>4 DEF ReportInv, Walking

\* A chain starts with a pending root.
LEMMA StartChainReports ==
  ASSUME ReportInv, NEW n, StartChain(n)
  PROVE  ReportInv'
<1>1. /\ phase = "report" /\ n \in pending /\ chain' = [frames |-> <<n>>, at |-> n]
      /\ g' = g /\ phase' = phase
      /\ height' = height /\ pending' = pending /\ chains' = chains
  BY DEF StartChain
<1>2. n \in NamesOf(g)
  BY <1>1 DEF ReportInv, NamesOf, Over
<1>3. /\ Head(chain'.frames) = n /\ chain'.frames # <<>>
      /\ chain'.frames \in Seq(NamesOf(g)) /\ chain'.at \in NamesOf(g)
  BY <1>1, <1>2
<1>4. Over' = Over
  BY <1>1 DEF Over, LimitFor
<1> QED
  BY <1>1, <1>3, <1>4 DEF ReportInv, Walking

\* A chain grows and keeps its root.
LEMMA FollowDeepestReports ==
  ASSUME ReportInv, NEW n \in AllNames, FollowDeepest(n)
  PROVE  ReportInv'
<1> DEFINE fs == IF n = IndirectTarget THEN chain.frames ELSE Append(chain.frames, n)
<1>1. /\ phase = "report" /\ chain # NoChain /\ chain' = [frames |-> fs, at |-> n]
      /\ g' = g /\ phase' = phase
      /\ height' = height /\ pending' = pending /\ chains' = chains
  BY DEF FollowDeepest
<1>2. n \in NamesOf(g) /\ chain.frames \in Seq(NamesOf(g)) /\ chain.frames # <<>>
  BY <1>1 DEF ReportInv, NamesOf, AllNames
<1>3. fs \in Seq(NamesOf(g)) /\ fs # <<>> /\ Head(fs) = Head(chain.frames)
  BY <1>2
<1>4. chain'.frames = fs /\ chain'.at = n
  BY <1>1
<1>5. Over' = Over
  BY <1>1 DEF Over, LimitFor
<1> HIDE DEF fs
<1> QED
  BY <1>1, <1>2, <1>3, <1>4, <1>5 DEF ReportInv, Walking

\* A chain that ends takes its root off the pending ones.
LEMMA EndChainReports ==
  ASSUME ReportInv, phase = "report", NEW h, EndChain(h)
  PROVE  ReportInv'
<1>1. /\ chains' # {} /\ pending' = pending \ {Head(chain.frames)} /\ chain' = NoChain
      /\ phase' = (IF pending' = {} THEN "done" ELSE "report") /\ g' = g /\ height' = height
  BY DEF EndChain
<1>2. Over' = Over
  BY <1>1 DEF Over, LimitFor
<1>3. chain'.frames \in Seq(NamesOf(g')) /\ chain'.at \in NamesOf(g')
  BY <1>1 DEF NoChain, NamesOf
<1> QED
  BY <1>1, <1>2, <1>3 DEF ReportInv, Walking

\* The report's invariant is inductive, next to the walks'.
LEMMA ReportStep ==
  ASSUME WalkInv, ReportInv, [Next]_vars
  PROVE  ReportInv'
<1>1. CASE UNCHANGED vars
  <2>1. /\ g' = g /\ phase' = phase /\ pending' = pending /\ chain' = chain /\ chains' = chains
        /\ height' = height
    BY <1>1 DEF vars
  <2>2. Over' = Over
    BY <2>1 DEF Over, LimitFor
  <2> QED
    BY <2>1, <2>2 DEF ReportInv
<1>2. ASSUME NEW n, StartWalk(n) \/ Descend(n) \/ Combine(n) PROVE ReportInv'
  <2>1. phase \in Walking /\ phase' \in Walking /\ UNCHANGED <<g, pending, chain, chains>>
    BY <1>2 DEF StartWalk, Descend, Combine, Walking
  <2> QED
    BY <2>1, WalkingKeeps
<1>3. CASE Finish \/ WalksDone
  <2>1. phase \in Walking /\ phase' \in Walking /\ UNCHANGED <<g, pending, chain, chains>>
    BY <1>3 DEF Finish, WalksDone, Walking
  <2> QED
    BY <2>1, WalkingKeeps
<1>4. CASE AboveDone
  BY <1>4, AboveDoneReports
<1>5. ASSUME NEW n \in AllNames, StartChain(n) \/ FollowDeepest(n) PROVE ReportInv'
  BY <1>5, StartChainReports, FollowDeepestReports
<1>6. CASE EndUnbounded \/ EndBounded
  BY <1>6, EndChainReports DEF EndUnbounded, EndBounded
<1>7. CASE Done
  BY <1>1, <1>7 DEF Done
<1> QED
  BY <1>1, <1>2, <1>3, <1>4, <1>5, <1>6, <1>7 DEF Next

\* Both invariants hold in every reachable state.
LEMMA InvariantsHold == Spec => [](WalkInv /\ ReportInv)
<1>1. Init => WalkInv /\ ReportInv
  BY WalkInit, ReportInit
<1>2. WalkInv /\ ReportInv /\ [Next]_vars => (WalkInv /\ ReportInv)'
  BY WalkStep, ReportStep
<1> QED
  BY <1>1, <1>2, PTL DEF Spec

\* Whatever the order of the walk and whatever its cycles, each height that walker.walk has
\* memoised is the deepest chain out of the function, in every module's call graph.
THEOREM HeightsAreTheDeepestChains == Spec => []HeightsAreDeepest
<1>1. WalkInv => HeightsAreDeepest
  BY DEF WalkInv, HeightsAreDeepest, MemoOK, Truth
<1> QED
  BY <1>1, InvariantsHold, PTL

\* The walks and the report stay among the names of the module, and every memoised height
\* and depth is between 0 and Infinite: the cap of walker.walk is never missed.
THEOREM TypesHold == Spec => []TypeOK
<1>1. ASSUME WalkInv, ReportInv PROVE TypeOK
  <2>0. g \in Graphs /\ IsGraph(g) /\ Infinite \in Nat /\ AllNames = NamesOf(g)
    BY <1>1, FactsAreGraphs, StackCheckAssumption DEF WalkInv, AllNames, NamesOf
  <2>1. \A i \in DOMAIN path : path[i].fn \in AllNames /\ path[i].todo \subseteq AllNames
    <3>1. CASE phase \in Walking
      <4>1. path \in Seq(Calls(g))
        BY <1>1, <3>1 DEF WalkInv, PathOK
      <4>2. \A i \in DOMAIN path : path[i] \in Calls(g)
        BY <4>1
      <4>3. \A c \in Calls(g) : c.fn \in NamesOf(g) /\ c.todo \subseteq NamesOf(g)
        BY DEF Calls
      <4> QED
        BY <2>0, <4>2, <4>3
    <3>2. CASE phase \notin Walking
      <4>1. path = <<>>
        BY <1>1, <3>2 DEF WalkInv
      <4> QED
        BY <4>1
    <3> QED
      BY <3>1, <3>2
  <2>2. ASSUME NEW ph \in {"walk", "above"}, NEW M, MemoOK(g, ph, M)
        PROVE  DOMAIN M \subseteq AllNames /\ Range(M) \subseteq 0 .. Infinite
    <3>1. \A n \in DOMAIN M : n \in NamesOf(g)
      BY <2>0, <2>2, WalkParts DEF MemoOK
    <3>2. \A n \in DOMAIN M : M[n] \in Nat /\ M[n] <= Infinite
      BY <2>0, <2>2, TruthParts DEF MemoOK
    <3>3. \A n \in DOMAIN M : M[n] \in 0 .. Infinite
      BY <2>0, <3>2
    <3> QED
      BY <2>0, <3>1, <3>3 DEF Range
  <2>3. /\ DOMAIN height \subseteq AllNames /\ Range(height) \subseteq 0 .. Infinite
        /\ DOMAIN above \subseteq AllNames /\ Range(above) \subseteq 0 .. Infinite
    BY <1>1, <2>2 DEF WalkInv
  <2>4. Range(chain.frames) \cup {chain.at} \subseteq AllNames /\ pending \subseteq g.funcs
    <3>1. /\ chain.frames \in Seq(NamesOf(g)) /\ chain.at \in NamesOf(g)
          /\ pending \subseteq g.funcs
      BY <1>1 DEF ReportInv, Over
    <3> QED
      BY <2>0, <3>1 DEF Range
  <2> QED
    BY <1>1, <2>1, <2>3, <2>4 DEF TypeOK, WalkInv, ReportInv
<1> QED
  BY <1>1, InvariantsHold, PTL

\* The allowance of a function is below the sentinel, and is what Allowed says.
LEMMA AllowanceParts ==
  ASSUME g \in Graphs, NEW n \in g.funcs
  PROVE  /\ LimitFor(n) \in Nat /\ LimitFor(n) < Infinite
         /\ \A b \in Nat : Allowed(n, b) <=> b <= LimitFor(n)
<1>1. Limit \in Nat /\ Limit < Infinite /\ Infinite \in Nat /\ g.recorded[n] \in 0 .. Infinite - 1
  BY StackCheckAssumption DEF IsFacts
<1>2. LimitFor(n) = IF Limit <= g.recorded[n] THEN g.recorded[n] ELSE Limit
  <2> DEFINE r == g.recorded[n]
  <2>1. Limit \in Int /\ r \in Int /\ LimitFor(n) = Max({Limit, r})
    BY <1>1 DEF LimitFor
  <2> HIDE DEF r
  <2>2. LimitFor(n) = IF Limit <= r THEN r ELSE Limit
    BY <2>1, OfTwo
  <2> QED
    BY <2>2 DEF r
<1> QED
  BY <1>1, <1>2 DEF Allowed

\* Check reports nothing exactly when every chain of the module is bounded and within the
\* limit or the recorded height of its start: no overflow is missed, no build refused in vain.
THEOREM TheVerdictIsExact == Spec => []VerdictIsExact
<1>1. ASSUME WalkInv, ReportInv, phase = "done"
      PROVE  chains = {} <=> \A p \in Chains(g) :
               Head(p) # IndirectTarget => ~Endless(g, p) /\ Allowed(Head(p), Bytes(g, p))
  <2>0. g \in Graphs /\ IsGraph(g) /\ Infinite \in Nat
    BY <1>1, FactsAreGraphs, StackCheckAssumption DEF WalkInv
  <2>1. \A n \in g.funcs : height[n] = Height(g, n)
    BY <1>1 DEF WalkInv, MemoOK, Truth, Walking
  <2>2. chains = {} <=> \A n \in g.funcs : ~(Height(g, n) > LimitFor(n))
    BY <1>1, <2>1 DEF ReportInv, Over
  <2>3. \A n \in g.funcs : /\ LimitFor(n) \in Nat /\ LimitFor(n) < Infinite
                           /\ \A b \in Nat : Allowed(n, b) <=> b <= LimitFor(n)
    BY <2>0, AllowanceParts
  <2>4. ASSUME NEW n \in g.funcs, ~(Height(g, n) > LimitFor(n)), NEW p \in Chains(g), Head(p) = n
        PROVE  ~Endless(g, p) /\ Allowed(n, Bytes(g, p))
    <3>1. ~EndlessFrom(g, n)
      BY <2>0, <2>3, <2>4, HeightParts
    <3>2. ~Endless(g, p)
      BY <2>4, <3>1 DEF EndlessFrom
    <3>3. Bytes(g, p) \in Nat /\ Bytes(g, p) <= Height(g, n) /\ Height(g, n) \in Nat
      BY <2>0, <2>4, <3>1, HeightParts, ChainBytes
    <3>4. Bytes(g, p) <= LimitFor(n)
      BY <2>3, <2>4, <3>3
    <3> QED
      BY <2>3, <3>2, <3>3, <3>4
  <2>5. ASSUME NEW n \in g.funcs,
               \A p \in Chains(g) : Head(p) = n => ~Endless(g, p) /\ Allowed(n, Bytes(g, p))
        PROVE  ~(Height(g, n) > LimitFor(n))
    <3>1. ~EndlessFrom(g, n)
      BY <2>5 DEF EndlessFrom
    <3>2. CASE n \in Nodes(g)
      <4>1. PICK p \in Chains(g) : Head(p) = n /\ Bytes(g, p) = Height(g, n)
        BY <2>0, <3>1, <3>2, HeightParts
      <4>2. Height(g, n) \in Nat /\ Allowed(n, Height(g, n))
        BY <2>0, <2>5, <4>1, HeightParts
      <4> QED
        BY <2>3, <4>2
    <3>3. CASE n \notin Nodes(g)
      <4>1. Height(g, n) = 0
        BY <2>0, <3>3, HeightParts
      <4> QED
        BY <2>3, <4>1
    <3> QED
      BY <3>2, <3>3
  <2>6. \A p \in Chains(g) : Head(p) # IndirectTarget => Head(p) \in g.funcs
    <3>1. \A p \in Chains(g) : Head(p) \in Nodes(g)
      BY <2>0, ChainsArePaths, PathParts
    <3> QED
      BY <2>0, <3>1, GraphParts
  <2>7. \A n \in g.funcs : n # IndirectTarget
    BY <2>0 DEF IsGraph
  <2> QED
    BY <2>2, <2>4, <2>5, <2>6, <2>7
<1>2. WalkInv /\ ReportInv => VerdictIsExact
  BY <1>1 DEF VerdictIsExact
<1> QED
  BY <1>2, InvariantsHold, PTL

----------------------------------------------------------------------------
(* What runs through a function.                                           *)

\* h has f's calls the other way round.
Mirrors(f, h) ==
  /\ IsGraph(f) /\ IsGraph(h) /\ Nodes(f) = Nodes(h)
  /\ \A n \in Nodes(f) : FrameOf(f, n) = FrameOf(h, n)
  /\ \A a, b \in Nodes(f) : b \in CalleesOf(f, a) => a \in CalleesOf(h, b)

\* A chain, read backwards, is a chain of the mirror image.
LEMMA ChainReverse ==
  ASSUME NEW f, NEW h, Mirrors(f, h), NEW p \in Chains(f)
  PROVE  \E r \in Chains(h) : /\ Head(r) = Last(p) /\ Last(r) = Head(p) /\ Range(r) = Range(p)
                              /\ Bytes(h, r) = Bytes(f, p)
<1>1. /\ IsGraph(f) /\ IsGraph(h) /\ Nodes(f) = Nodes(h)
      /\ (\A n \in Nodes(f) : FrameOf(f, n) = FrameOf(h, n))
      /\ \A a, b \in Nodes(f) : b \in CalleesOf(f, a) => a \in CalleesOf(h, b)
  BY DEF Mirrors
<1> DEFINE N == Nodes(f)
           E == EdgesOf(f)
           B == EdgesOf(h)
<1>2. \A a, b \in N : b \in E[a] => a \in B[b]
  BY <1>1, GraphParts
<1>3. IsPath(N, E, p)
  BY <1>1, ChainsArePaths
<1> HIDE DEF E, B, N
<1>4. PICK r : IsPath(N, B, r) /\ Head(r) = Last(p) /\ Last(r) = Head(p) /\ Range(r) = Range(p)
  BY <1>2, <1>3, PathReverse
<1>5. r \in Chains(h)
  BY <1>1, <1>4, ChainsArePaths DEF N, B
<1>6. WeightOf(f) = WeightOf(h)
  BY <1>1 DEF WeightOf
<1>7. Bytes(h, r) = Bytes(f, p)
  BY <1>1, <1>4, <1>5, <1>6, ChainBytes
<1> QED
  BY <1>4, <1>5, <1>7

\* The second walk's graph mirrors the first's, when indirect calls are not resolved.
LEMMA ReversedMirrors ==
  ASSUME NEW f, IsGraph(f), ~f.strict
  PROVE  Mirrors(f, Reversed(f)) /\ Mirrors(Reversed(f), f) /\ Nodes(f) = f.noSplit
<1>1. Nodes(f) = f.noSplit
  BY DEF Nodes
<1>2. /\ IsGraph(Reversed(f)) /\ Nodes(Reversed(f)) = f.noSplit
      /\ \A n \in f.noSplit :
           /\ CalleesOf(Reversed(f), n) = {c \in f.noSplit : n \in CalleesOf(f, c)}
           /\ FrameOf(Reversed(f), n) = FrameOf(f, n)
  BY ReversedParts
<1> QED
  BY <1>1, <1>2 DEF Mirrors

\* a and b have n in common, and are p together.
MeetIn(a, b, p, n) == Range(a) \cup Range(b) = Range(p) /\ Range(a) \cap Range(b) = {n}

\* A chain in two, at one of its functions.
LEMMA ChainSplit ==
  ASSUME NEW f, IsGraph(f), NEW p \in Chains(f), NEW n \in Range(p)
  PROVE  \E a, b \in Chains(f) :
           /\ Head(a) = Head(p) /\ Last(a) = n /\ Head(b) = n /\ Last(b) = Last(p)
           /\ MeetIn(a, b, p, n)
<1> DEFINE N == Nodes(f)
           E == EdgesOf(f)
           k == Len(p)
<1>1. IsPath(N, E, p)
  BY ChainsArePaths
<1>2. /\ k \in Nat \ {0} /\ DOMAIN p = 1 .. k /\ Head(p) = p[1] /\ Last(p) = p[k]
      /\ \A i, j \in 1 .. k : p[i] = p[j] => i = j
  BY <1>1, PathParts
<1>3. PICK i \in 1 .. k : p[i] = n
  BY <1>2 DEF Range
<1>4. 1 \in 1 .. k /\ i \in 1 .. k /\ k \in i .. k
  BY <1>2, <1>3
<1>5. PICK a : IsPath(N, E, a) /\ Head(a) = p[1] /\ Last(a) = p[i] /\ Covers(a, p, 1, i)
  BY <1>1, <1>4, PathSegment
<1>6. PICK b : IsPath(N, E, b) /\ Head(b) = p[i] /\ Last(b) = p[k] /\ Covers(b, p, i, k)
  BY <1>1, <1>4, PathSegment
<1>7. a \in Chains(f) /\ b \in Chains(f)
  BY <1>5, <1>6, ChainsArePaths
<1>8. /\ Range(a) = {p[l] : l \in 1 .. i} /\ Range(b) = {p[l] : l \in i .. k}
      /\ Range(p) = {p[l] : l \in 1 .. k}
  BY <1>2, <1>5, <1>6 DEF Covers, Range
<1>9. \A l : (l \in 1 .. i \/ l \in i .. k) <=> l \in 1 .. k
  BY <1>2, <1>3
<1>10. Range(a) \cup Range(b) = Range(p)
  BY <1>8, <1>9
<1>11. Range(a) \cap Range(b) = {n}
  <2>1. \A l \in 1 .. i : l \in 1 .. k
    BY <1>9
  <2>2. \A l \in i .. k : l \in 1 .. k
    BY <1>9
  <2>3. \A l \in 1 .. i, m \in i .. k : p[l] = p[m] => l = i
    <3> SUFFICES ASSUME NEW l \in 1 .. i, NEW m \in i .. k, p[l] = p[m] PROVE l = i
      OBVIOUS
    <3>1. l = m
      BY <1>2, <2>1, <2>2
    <3> QED
      BY <1>3, <3>1
  <2>4. i \in 1 .. i /\ i \in i .. k
    BY <1>2, <1>3
  <2> QED
    BY <1>3, <1>8, <2>3, <2>4
<1> QED
  BY <1>2, <1>3, <1>5, <1>6, <1>7, <1>10, <1>11 DEF MeetIn

\* What two chains that have one function in common weigh together.
LEMMA BytesOverlap ==
  ASSUME NEW f, IsGraph(f), NEW p \in Chains(f), NEW a \in Chains(f), NEW b \in Chains(f), NEW n,
         Range(a) \cup Range(b) = Range(p), Range(a) \cap Range(b) = {n}
  PROVE  Bytes(f, p) = Bytes(f, a) + Bytes(f, b) - FrameOf(f, n)
<1> DEFINE w == WeightOf(f)
           A == Range(a)
           B == Range(b)
           C == B \ {n}
<1>1. /\ Bytes(f, p) = SumFunctionOnSet(w, Range(p)) /\ Bytes(f, a) = SumFunctionOnSet(w, A)
      /\ Bytes(f, b) = SumFunctionOnSet(w, B) /\ IsFiniteSet(A) /\ IsFiniteSet(B)
      /\ A \subseteq Nodes(f) /\ B \subseteq Nodes(f)
  BY ChainBytes
<1>2. n \in B /\ n \in Nodes(f)
  BY <1>1
<1>3. w[n] = FrameOf(f, n) /\ w[n] \in Int /\ \A x \in A \cup B : w[x] \in Int
  BY <1>1, <1>2, GraphParts
<1>4. IsFiniteSet(C) /\ A \cap C = {} /\ A \cup C = Range(p) /\ (\A x \in A \cup C : w[x] \in Int)
      /\ (\A x \in B : w[x] \in Int) /\ (\A x \in A : w[x] \in Int) /\ \A x \in C : w[x] \in Int
  BY <1>1, <1>2, <1>3, FS_Subset
<1>5. B \ {n} = C
  OBVIOUS
<1> HIDE DEF w, A, B, C
<1>6. SumFunctionOnSet(w, A \cup C) = SumFunctionOnSet(w, A) + SumFunctionOnSet(w, C)
  BY <1>1, <1>4, SumDisjoint
<1>7. SumFunctionOnSet(w, B) = w[n] + SumFunctionOnSet(w, B \ {n})
  BY <1>1, <1>2, <1>4, SumRemove
<1>8. SumFunctionOnSet(w, A) \in Int /\ SumFunctionOnSet(w, C) \in Int
  BY <1>1, <1>4, SumInt
<1>9. /\ Bytes(f, p) = SumFunctionOnSet(w, A) + SumFunctionOnSet(w, C)
      /\ Bytes(f, b) = w[n] + SumFunctionOnSet(w, C)
  BY <1>1, <1>4, <1>5, <1>6, <1>7
<1> QED
  BY <1>1, <1>3, <1>8, <1>9

\* What can be reached from the end of a chain can be reached from its head.
LEMMA EndlessAlong ==
  ASSUME NEW f, IsGraph(f), NEW p \in Chains(f), EndlessFrom(f, Last(p))
  PROVE  EndlessFrom(f, Head(p))
<1> DEFINE k == Len(p)
           D == {i \in 1 .. k : EndlessFrom(f, p[i])}
           m == Min(D)
<1>1. /\ k \in Nat \ {0} /\ Head(p) = p[1] /\ Last(p) = p[k] /\ IsPath(Nodes(f), EdgesOf(f), p)
      /\ \A i \in 1 .. k : p[i] \in Nodes(f)
  BY ChainsArePaths, PathParts
<1>2. D \in SUBSET Nat /\ k \in D
  BY <1>1
<1>3. m \in D /\ \A i \in D : m <= i
  <2> HIDE DEF D
  <2> QED
    BY <1>2, LeastNatural
<1> HIDE DEF m
<1>4. CASE m = 1
  BY <1>1, <1>3, <1>4
<1>5. CASE m # 1
  <2> DEFINE i == m - 1
  <2>1. i \in 1 .. k - 1 /\ i \in 1 .. k /\ i + 1 = m /\ i < m
    BY <1>1, <1>3, <1>5
  <2>2. p[m] \in CalleesOf(f, p[i]) /\ p[i] \in Nodes(f)
    <3>1. p[i + 1] \in EdgesOf(f)[p[i]]
      BY <1>1, <2>1 DEF IsPath
    <3> QED
      BY <1>1, <2>1, <3>1, GraphParts
  <2>3. EndlessFrom(f, p[i])
    BY <1>3, <2>2, EndlessStep
  <2>4. i \in D
    BY <2>1, <2>3
  <2> QED
    BY <1>3, <2>1, <2>4
<1> QED
  BY <1>4, <1>5

\* A chain that ends in n and one that starts there are one chain, unless n is endless.
LEMMA ChainsMeet ==
  ASSUME NEW f, IsGraph(f), NEW a \in Chains(f), NEW b \in Chains(f), Last(a) = Head(b),
         ~EndlessFrom(f, Head(b))
  PROVE  /\ Range(a) \cap Range(b) = {Head(b)}
         /\ \E p \in Chains(f) : Range(p) = Range(a) \cup Range(b)
<1> DEFINE N == Nodes(f)
           E == EdgesOf(f)
           n == Head(b)
<1>1. /\ IsPath(N, E, a) /\ IsPath(N, E, b) /\ n \in Range(a) /\ n \in Range(b)
      /\ Last(a) \in Range(a) /\ Range(a) \subseteq N
  BY ChainsArePaths, PathParts
<1>2. ASSUME NEW r \in Chains(f), Head(r) # Last(r) PROVE Len(r) # 1
  <2>1. Head(r) = r[1] /\ Last(r) = r[Len(r)]
    BY ChainsArePaths, PathParts
  <2> QED
    BY <1>2, <2>1
<1>3. ASSUME NEW x \in Range(a) \cap Range(b), x # n PROVE FALSE
  <2>1. PICK c \in Chains(f) : Head(c) = x /\ Last(c) = n
    BY <1>3, ChainSplit
  <2>2. PICK d \in Chains(f) : Head(d) = n /\ Last(d) = x
    BY <1>3, ChainSplit
  <2>3. PICK r \in Chains(f) : Head(r) \in CalleesOf(f, n) /\ Last(r) = x
    BY <1>2, <1>3, <2>2, ChainShrinks
  <2>4. PICK s \in Chains(f) : Head(s) \in CalleesOf(f, x) /\ Last(s) = n
    BY <1>2, <1>3, <2>1, ChainShrinks
  <2>5. IsPath(N, E, r) /\ IsPath(N, E, s) /\ Head(s) \in E[Last(r)]
    BY <1>1, <1>3, <2>3, <2>4, ChainsArePaths, GraphParts
  <2>6. PICK q : IsPath(N, E, q) /\ Head(q) = Head(r) /\ Last(q) = Last(s)
    BY <2>5, PathThrough
  <2>7. q \in Chains(f) /\ Head(q) \in CalleesOf(f, Last(q)) /\ Last(q) = n
    BY <2>3, <2>4, <2>6, ChainsArePaths
  <2> QED
    BY <2>7, CycleIsEndless
<1>4. Range(a) \cap Range(b) = {n}
  BY <1>1, <1>3
<1>5. CASE Len(b) = 1
  <2>1. Range(b) = {n}
    <3>1. DOMAIN b = 1 .. Len(b) /\ n = b[1]
      BY <1>1, PathParts
    <3> QED
      BY <1>5, <3>1 DEF Range
  <2> QED
    BY <1>1, <1>4, <2>1
<1>6. CASE Len(b) # 1
  <2>1. PICK c \in Chains(f) : /\ Head(c) \in CalleesOf(f, n) /\ Range(b) = {n} \cup Range(c)
                               /\ n \notin Range(c)
    BY <1>6, ChainShrinks
  <2>2. IsPath(N, E, c) /\ Head(c) \in E[Last(a)] /\ Range(a) \cap Range(c) = {}
    BY <1>1, <1>4, <2>1, ChainsArePaths, GraphParts
  <2>3. PICK p : IsPath(N, E, p) /\ Range(p) = Range(a) \cup Range(c)
    BY <1>1, <2>2, PathJoin
  <2>4. p \in Chains(f) /\ Range(p) = Range(a) \cup Range(b)
    BY <1>1, <2>1, <2>3, ChainsArePaths
  <2> QED
    BY <1>4, <2>4
<1> QED
  BY <1>5, <1>6

\* The chains through n are bounded unless one of the two walks says they are not.
LEMMA UnboundedIs ==
  ASSUME NEW f, IsGraph(f), ~f.strict, NEW n \in f.noSplit
  PROVE  Unbounded(f, n) <=> EndlessFrom(f, n) \/ EndlessFrom(Reversed(f), n)
<1> DEFINE R == Reversed(f)
<1>0. /\ Mirrors(f, R) /\ Mirrors(R, f) /\ Nodes(f) = f.noSplit /\ Nodes(R) = f.noSplit
      /\ IsGraph(R) /\ R.dynamic = {}
      /\ \A x \in f.noSplit : CalleesOf(R, x) = {c \in f.noSplit : x \in CalleesOf(f, c)}
  BY ReversedMirrors, ReversedParts
<1> HIDE DEF R
<1>1. ASSUME EndlessFrom(f, n) PROVE Unbounded(f, n)
  <2>1. PICK p \in Chains(f) : Head(p) = n /\ Endless(f, p)
    BY <1>1 DEF EndlessFrom
  <2>2. CASE Last(p) \in f.dynamic
    BY <2>1, <2>2 DEF Unbounded
  <2>3. CASE Last(p) \notin f.dynamic
    <3>1. PICK c \in Range(p) : c \in CalleesOf(f, Last(p))
      BY <2>1, <2>3 DEF Endless
    <3>2. PICK b \in Chains(f) : Head(b) = c /\ Last(b) = Last(p)
      BY ChainSplit
    <3>3. c \in Nodes(f) /\ n \in Range(p)
      BY <2>1, <3>1, ChainsArePaths, PathParts
    <3>4. c \in OnCycle(f)
      BY <3>1, <3>2, <3>3 DEF OnCycle
    <3>5. OnOneChain(f, c, n)
      BY <3>1, <3>3 DEF OnOneChain
    <3> QED
      BY <3>4, <3>5 DEF Unbounded
  <2> QED
    BY <2>2, <2>3
<1>2. ASSUME EndlessFrom(R, n) PROVE Unbounded(f, n)
  <2>1. PICK q \in Chains(R) : Head(q) = n /\ Endless(R, q)
    BY <1>2 DEF EndlessFrom
  <2>2. PICK c \in Range(q) : c \in CalleesOf(R, Last(q))
    BY <1>0, <2>1 DEF Endless
  <2>3. PICK d \in Chains(R) : Head(d) = c /\ Last(d) = Last(q)
    BY <1>0, <2>2, ChainSplit
  <2>4. PICK p \in Chains(f) : Range(p) = Range(q)
    BY <1>0, ChainReverse
  <2>5. PICK e \in Chains(f) : Head(e) = Last(q) /\ Last(e) = c
    BY <1>0, <2>3, ChainReverse
  <2>6. /\ Last(q) \in Range(q) /\ n \in Range(q) /\ Last(q) \in f.noSplit
    BY <1>0, <2>1, ChainsArePaths, PathParts
  <2>7. Last(q) \in CalleesOf(f, c)
    BY <1>0, <2>2, <2>6
  <2>8. Last(q) \in OnCycle(f)
    BY <1>0, <2>5, <2>6, <2>7 DEF OnCycle
  <2>9. OnOneChain(f, Last(q), n)
    BY <2>4, <2>6 DEF OnOneChain
  <2> QED
    BY <2>8, <2>9 DEF Unbounded
<1>3. ASSUME Unbounded(f, n) PROVE EndlessFrom(f, n) \/ EndlessFrom(R, n)
  <2>1. CASE \E p \in Chains(f) : Head(p) = n /\ Last(p) \in f.dynamic
    BY <2>1 DEF EndlessFrom, Endless
  <2>2. CASE \E c \in OnCycle(f) : OnOneChain(f, c, n)
    <3>1. PICK c \in OnCycle(f), p \in Chains(f) : {c, n} \subseteq Range(p)
      BY <2>2 DEF OnOneChain
    <3>2. PICK r \in Chains(f) : Head(r) = c /\ c \in CalleesOf(f, Last(r))
      BY <3>1 DEF OnCycle
    <3>3. EndlessFrom(f, c)
      BY <3>2, CycleIsEndless
    <3>4. EndlessFrom(R, c)
      <4>1. PICK s \in Chains(R) : Head(s) = Last(r) /\ Last(s) = c
        BY <1>0, <3>2, ChainReverse
      <4>2. Last(r) \in f.noSplit /\ c \in f.noSplit
        BY <1>0, <3>2, ChainsArePaths, PathParts
      <4>3. Head(s) \in CalleesOf(R, Last(s))
        BY <1>0, <3>2, <4>1, <4>2
      <4> QED
        BY <1>0, <4>1, <4>3, CycleIsEndless
    <3>5. PICK a \in Chains(f), b \in Chains(f) :
            Last(a) = n /\ Head(b) = n /\ MeetIn(a, b, p, n)
      BY <3>1, ChainSplit
    <3>6. CASE c \in Range(b)
      <4>1. PICK d \in Chains(f) : Head(d) = n /\ Last(d) = c
        BY <3>5, <3>6, ChainSplit
      <4> QED
        BY <3>3, <4>1, EndlessAlong
    <3>7. CASE c \in Range(a)
      <4>1. PICK d \in Chains(f) : Head(d) = c /\ Last(d) = n
        BY <3>5, <3>7, ChainSplit
      <4>2. PICK e \in Chains(R) : Head(e) = n /\ Last(e) = c
        BY <1>0, <4>1, ChainReverse
      <4> QED
        BY <1>0, <3>4, <4>2, EndlessAlong
    <3> QED
      BY <3>1, <3>5, <3>6, <3>7 DEF MeetIn
  <2> QED
    BY <1>3, <2>1, <2>2 DEF Unbounded
<1> QED
  BY <1>1, <1>2, <1>3 DEF R

\* What the deepest chain through n weighs, where it is bounded: the two walks' answers.
LEMMA DeepestThrough ==
  ASSUME NEW f, IsGraph(f), ~f.strict, NEW n \in f.noSplit, ~Unbounded(f, n)
  PROVE  /\ Max({Bytes(f, p) : p \in {q \in Chains(f) : n \in Range(q)}})
              = DepthAbove(f, n) + Height(f, n)
         /\ DepthAbove(f, n) + Height(f, n) <= Infinite
<1> DEFINE R == Reversed(f)
           ps == {q \in Chains(f) : n \in Range(q)}
           S == {Bytes(f, p) : p \in ps}
           d == FrameOf(f, n)
           lo == Height(f, n)
           hi == Height(R, n)
<1>0. /\ Mirrors(f, R) /\ Mirrors(R, f) /\ IsGraph(R) /\ n \in Nodes(f) /\ n \in Nodes(R)
      /\ d \in Nat /\ Infinite \in Nat
  BY ReversedMirrors, ReversedParts, GraphParts DEF IsGraph
<1>1. ~EndlessFrom(f, n) /\ ~EndlessFrom(R, n)
  BY UnboundedIs
<1>2. DepthAbove(f, n) = hi - d /\ lo \in Nat /\ hi \in Nat
  BY <1>0, <1>1, HeightParts DEF DepthAbove
<1>3. ASSUME NEW p \in ps PROVE Bytes(f, p) <= hi - d + lo
  <2>0. p \in Chains(f) /\ n \in Range(p)
    OBVIOUS
  <2>1. PICK a \in Chains(f), b \in Chains(f) :
          Last(a) = n /\ Head(b) = n /\ MeetIn(a, b, p, n)
    BY <2>0, ChainSplit
  <2>2. Bytes(f, p) = Bytes(f, a) + Bytes(f, b) - d
    BY <2>0, <2>1, BytesOverlap DEF MeetIn
  <2>3. Bytes(f, b) <= lo /\ Bytes(f, b) \in Nat /\ Bytes(f, a) \in Nat
    BY <1>1, <2>1, HeightParts, ChainBytes
  <2>4. PICK r \in Chains(R) : Head(r) = n /\ Bytes(R, r) = Bytes(f, a)
    BY <1>0, <2>1, ChainReverse
  <2>5. Bytes(f, a) <= hi
    BY <1>0, <1>1, <2>4, HeightParts
  <2> HIDE DEF d, lo, hi
  <2> QED
    BY <1>0, <1>2, <2>2, <2>3, <2>5
<1>4. PICK p \in ps : Bytes(f, p) = hi - d + lo
  <2>1. PICK b \in Chains(f) : Head(b) = n /\ Bytes(f, b) = lo
    BY <1>0, <1>1, HeightParts
  <2>2. PICK r \in Chains(R) : Head(r) = n /\ Bytes(R, r) = hi
    BY <1>0, <1>1, HeightParts
  <2>3. PICK a \in Chains(f) : Last(a) = n /\ Bytes(f, a) = hi
    BY <1>0, <2>2, ChainReverse
  <2>4. Range(a) \cap Range(b) = {n} /\ \E p \in Chains(f) : Range(p) = Range(a) \cup Range(b)
    BY <1>1, <2>1, <2>3, ChainsMeet
  <2>5. PICK p \in Chains(f) : Range(p) = Range(a) \cup Range(b)
    BY <2>4
  <2>6. Bytes(f, p) = hi + lo - d
    BY <2>1, <2>3, <2>4, <2>5, BytesOverlap
  <2>7. p \in ps
    BY <2>4, <2>5
  <2>8. hi + lo - d = hi - d + lo
    <3> HIDE DEF d, lo, hi
    <3> QED
      BY <1>0, <1>2
  <2> QED
    BY <2>6, <2>7, <2>8
<1> DEFINE top == hi - d + lo
<1>5. top \in S /\ (\A y \in S : y <= top) /\ S \in SUBSET Nat /\ top \in Nat /\ top <= Infinite
  <2>1. \A q \in ps : Bytes(f, q) \in Nat /\ Bytes(f, q) < Infinite
    BY ChainBytes
  <2>2. Bytes(f, p) = top /\ p \in ps /\ \A q \in ps : Bytes(f, q) <= top
    BY <1>3, <1>4
  <2> HIDE DEF top, ps
  <2> QED
    BY <1>0, <2>1, <2>2
<1>6. Max(S) \in S /\ \A y \in S : y <= Max(S)
  <2> HIDE DEF S, top
  <2> QED
    BY <1>5, GreatestNatural
<1>7. Max(S) = top
  <2> HIDE DEF S, top
  <2>1. Max(S) \in Nat /\ Max(S) <= top /\ top <= Max(S)
    BY <1>5, <1>6
  <2> QED
    BY <1>5, <2>1
<1> QED
  BY <1>2, <1>5, <1>7

\* What headroom gives a function is the limit less the deepest chain through it, the two
\* walks' answers added once each, and less than nothing where a chain through it is unbounded.
THEOREM HeadroomIsTheSlack == Spec => []HeadroomIsSlack
<1>1. ASSUME WalkInv, phase \in {"report", "done"}, ~g.strict, NEW n \in g.noSplit
      PROVE  IF Unbounded(g, n) THEN Headroom(n) < 0 ELSE Headroom(n) = RoomFor(g, n, Limit)
  <2> DEFINE a == above[n]
             h == height[n]
             slack == Limit - (a + h)
  <2>0. /\ g \in Graphs /\ IsGraph(g) /\ n \in g.funcs /\ Infinite \in Nat /\ Limit \in Nat
        /\ Limit < Infinite
    BY <1>1, FactsAreGraphs, StackCheckAssumption DEF WalkInv, IsGraph
  <2>1. a = DepthAbove(g, n) /\ h = Height(g, n)
    BY <1>1, <2>0 DEF WalkInv, MemoOK, Truth, Walking
  <2>2. a \in Nat /\ h \in Nat /\ a <= Infinite /\ h <= Infinite
    <3>1. InWalk(g, "above", n) /\ Truth(g, "above", n) = a
      BY <2>1 DEF InWalk, Truth
    <3> QED
      BY <2>0, <2>1, <3>1, TruthParts, HeightParts
  <2>3. Headroom(n) = IF -Infinite <= slack THEN slack ELSE -Infinite
    <3>1. slack \in Int /\ -Infinite \in Int
      BY <2>0, <2>2
    <3>2. Headroom(n) = Max({-Infinite, slack})
      BY DEF Headroom
    <3> DEFINE lo == -Infinite
    <3> HIDE DEF slack, lo
    <3>3. Max({lo, slack}) = IF lo <= slack THEN slack ELSE lo
      BY <3>1, OfTwo DEF lo
    <3> QED
      BY <3>2, <3>3 DEF lo
  <2>4. CASE Unbounded(g, n)
    <3>1. a = Infinite \/ h = Infinite
      BY <1>1, <2>0, <2>1, <2>4, UnboundedIs, HeightParts DEF DepthAbove
    <3>2. slack < 0
      <4> HIDE DEF a, h
      <4> QED
        BY <2>0, <2>2, <3>1
    <3> HIDE DEF slack
    <3>3. slack \in Int /\ Infinite > 0
      BY <2>0, <2>2 DEF slack
    <3>4. Headroom(n) < 0
      BY <2>0, <2>3, <3>2, <3>3
    <3> QED
      BY <2>4, <3>4
  <2>5. CASE ~Unbounded(g, n)
    <3> DEFINE top == Max({Bytes(g, p) : p \in {q \in Chains(g) : n \in Range(q)}})
    <3>1. top = a + h /\ a + h <= Infinite
      BY <1>1, <2>0, <2>1, <2>5, DeepestThrough
    <3>2. RoomFor(g, n, Limit) = Limit - top
      BY <2>5 DEF RoomFor
    <3>3. Headroom(n) = slack
      <4>1. -Infinite <= slack
        <5> HIDE DEF a, h
        <5> QED
          BY <2>0, <2>2, <3>1
      <4> QED
        BY <2>3, <4>1
    <3> HIDE DEF top
    <3> QED
      BY <2>5, <3>1, <3>2, <3>3
  <2> QED
    BY <2>4, <2>5
<1>2. WalkInv => HeadroomIsSlack
  BY <1>1 DEF HeadroomIsSlack
<1> QED
  BY <1>2, InvariantsHold, PTL

----------------------------------------------------------------------------
(* The chains that are reported.                                           *)

\* What is left of a sequence without one of its elements.
LEMMA WithoutOne ==
  ASSUME NEW S, NEW s \in Seq(S), NEW i \in 1 .. Len(s)
  PROVE  /\ RemoveAt(s, i) \in Seq(S) /\ Len(RemoveAt(s, i)) = Len(s) - 1
         /\ \A k \in 1 .. Len(s) - 1 : RemoveAt(s, i)[k] = IF k < i THEN s[k] ELSE s[k + 1]
<1> DEFINE n == Len(s)
           a == SubSeq(s, 1, i - 1)
           b == SubSeq(s, i + 1, n)
<1>0. n \in Nat /\ i \in Nat /\ 1 <= i /\ i <= n
  OBVIOUS
<1>1. a \in Seq(S) /\ Len(a) = i - 1 /\ \A k \in 1 .. i - 1 : a[k] = s[k]
  <2>1. 1 \in 1 .. n + 1 /\ i - 1 \in 1 - 1 .. n
    BY <1>0
  <2>2. Len(a) = (i - 1) - 1 + 1 /\ a \in Seq(S) /\ \A k \in 1 .. (i - 1) - 1 + 1 : a[k] = s[1 + k - 1]
    BY <2>1, SubSeqProperties
  <2>3. \A k \in 1 .. i - 1 : k \in 1 .. (i - 1) - 1 + 1 /\ 1 + k - 1 = k
    BY <1>0
  <2> HIDE DEF a
  <2> QED
    BY <1>0, <2>2, <2>3
<1>2. b \in Seq(S) /\ Len(b) = n - i /\ \A k \in 1 .. n - i : b[k] = s[k + i]
  <2>1. i + 1 \in 1 .. n + 1 /\ n \in (i + 1) - 1 .. n
    BY <1>0
  <2>2. Len(b) = n - (i + 1) + 1 /\ b \in Seq(S) /\ \A k \in 1 .. n - (i + 1) + 1 : b[k] = s[(i + 1) + k - 1]
    BY <2>1, SubSeqProperties
  <2>3. \A k \in 1 .. n - i : k \in 1 .. n - (i + 1) + 1 /\ (i + 1) + k - 1 = k + i
    BY <1>0
  <2> HIDE DEF b
  <2> QED
    BY <1>0, <2>2, <2>3
<1> HIDE DEF a, b
<1>3. RemoveAt(s, i) = a \o b
  BY DEF RemoveAt, a, b
<1>4. /\ a \o b \in Seq(S) /\ Len(a \o b) = Len(a) + Len(b)
      /\ \A k \in 1 .. Len(a) + Len(b) : (a \o b)[k] = IF k <= Len(a) THEN a[k] ELSE b[k - Len(a)]
  BY <1>1, <1>2, ConcatProperties
<1>5. Len(a \o b) = n - 1
  BY <1>0, <1>1, <1>2, <1>4
<1>6. ASSUME NEW k \in 1 .. n - 1 PROVE (a \o b)[k] = IF k < i THEN s[k] ELSE s[k + 1]
  <2>1. k \in 1 .. Len(a) + Len(b)
    BY <1>0, <1>1, <1>2
  <2>2. CASE k < i
    <3>1. k <= Len(a) /\ k \in 1 .. i - 1
      BY <1>0, <1>1, <2>2
    <3> QED
      BY <1>1, <1>4, <2>1, <2>2, <3>1
  <2>3. CASE ~(k < i)
    <3>1. ~(k <= Len(a)) /\ k - Len(a) \in 1 .. n - i /\ (k - Len(a)) + i = k + 1
      BY <1>0, <1>1, <2>3
    <3> QED
      BY <1>2, <1>4, <2>1, <2>3, <3>1
  <2> QED
    BY <2>2, <2>3
<1> QED
  BY <1>3, <1>4, <1>5, <1>6

\* Where the synthetic callee is on a chain.
TargetOf(p) == CHOOSE i \in DOMAIN p : p[i] = IndirectTarget

\* What is printed of a chain, position by position.
LEMMA NamesAre ==
  ASSUME NEW f, IsGraph(f), NEW p \in Chains(f)
  PROVE  /\ IndirectTarget \notin Range(p) => Names(p) = p
         /\ IndirectTarget \in Range(p) =>
              /\ TargetOf(p) \in 1 .. Len(p) /\ p[TargetOf(p)] = IndirectTarget
              /\ Names(p) \in Seq(Nodes(f)) /\ Len(Names(p)) = Len(p) - 1
              /\ \A k \in 1 .. Len(p) - 1 :
                   Names(p)[k] = IF k < TargetOf(p) THEN p[k] ELSE p[k + 1]
<1>1. IsPath(Nodes(f), EdgesOf(f), p) /\ p \in Seq(Nodes(f)) /\ DOMAIN p = 1 .. Len(p)
  BY ChainsArePaths, PathParts DEF IsPath
<1>2. IndirectTarget \notin Range(p) => Names(p) = p
  BY DEF Names
<1>3. ASSUME IndirectTarget \in Range(p)
      PROVE  /\ TargetOf(p) \in 1 .. Len(p) /\ p[TargetOf(p)] = IndirectTarget
             /\ Names(p) \in Seq(Nodes(f)) /\ Len(Names(p)) = Len(p) - 1
             /\ \A k \in 1 .. Len(p) - 1 :
                  Names(p)[k] = IF k < TargetOf(p) THEN p[k] ELSE p[k + 1]
  <2>1. TargetOf(p) \in 1 .. Len(p) /\ p[TargetOf(p)] = IndirectTarget
    BY <1>1, <1>3 DEF TargetOf, Range
  <2>2. Names(p) = RemoveAt(p, TargetOf(p))
    BY <1>3 DEF Names, TargetOf
  <2> QED
    BY <1>1, <2>1, <2>2, WithoutOne
<1> QED
  BY <1>2, <1>3

\* What is printed of a chain has its functions, its head and its bytes.
LEMMA NamesParts ==
  ASSUME NEW f, IsGraph(f), NEW p \in Chains(f), Head(p) # IndirectTarget
  PROVE  /\ Names(p) \in Seq(Nodes(f)) /\ Names(p) # <<>> /\ Head(Names(p)) = Head(p)
         /\ Range(Names(p)) = Range(p) \ {IndirectTarget}
         /\ Bytes(f, Names(p)) = Bytes(f, p)
<1> DEFINE N == Nodes(f)
           q == Names(p)
           n == Len(p)
           t == TargetOf(p)
<1>0. /\ IsPath(N, EdgesOf(f), p) /\ p \in Seq(N) /\ DOMAIN p = 1 .. n /\ n \in Nat \ {0}
      /\ Head(p) = p[1] /\ \A i, j \in 1 .. n : p[i] = p[j] => i = j
  BY ChainsArePaths, PathParts DEF IsPath
<1>1. CASE IndirectTarget \notin Range(p)
  <2>1. q = p
    BY <1>1, NamesAre
  <2> QED
    BY <1>0, <1>1, <2>1
<1>2. CASE IndirectTarget \in Range(p)
  <2>1. /\ t \in 1 .. n /\ p[t] = IndirectTarget /\ q \in Seq(N) /\ Len(q) = n - 1
        /\ \A k \in 1 .. n - 1 : q[k] = IF k < t THEN p[k] ELSE p[k + 1]
    BY <1>2, NamesAre
  <2> HIDE DEF q, t
  <2>2. t # 1 /\ n - 1 \in Nat \ {0} /\ DOMAIN q = 1 .. n - 1
    BY <1>0, <2>1
  <2>3. q # <<>> /\ Head(q) = Head(p)
    <3>1. 1 \in 1 .. n - 1 /\ 1 < t
      BY <1>0, <2>1, <2>2
    <3>2. q[1] = p[1]
      BY <2>1, <3>1
    <3> QED
      BY <1>0, <2>1, <2>2, <3>2
  <2>4. Range(q) = Range(p) \ {IndirectTarget}
    <3>1. ASSUME NEW k \in 1 .. n - 1
          PROVE  \E i \in 1 .. n : q[k] = p[i] /\ i # t
      <4>1. k \in 1 .. n /\ k + 1 \in 1 .. n /\ (k < t => k # t) /\ (~(k < t) => k + 1 # t)
        BY <1>0, <2>1
      <4> QED
        BY <2>1, <4>1
    <3>2. ASSUME NEW i \in 1 .. n, i # t PROVE \E k \in 1 .. n - 1 : q[k] = p[i]
      <4>1. CASE i < t
        <5>1. i \in 1 .. n - 1
          BY <1>0, <2>1, <4>1
        <5> QED
          BY <2>1, <4>1, <5>1
      <4>2. CASE ~(i < t)
        <5> DEFINE j == i - 1
        <5>1. j \in 1 .. n - 1 /\ ~(j < t) /\ j + 1 = i
          BY <1>0, <2>1, <3>2, <4>2
        <5> QED
          BY <2>1, <5>1
      <4> QED
        BY <4>1, <4>2
    <3>3. \A i \in 1 .. n : p[i] = IndirectTarget <=> i = t
      BY <1>0, <2>1
    <3>4. Range(q) = {q[k] : k \in 1 .. n - 1} /\ Range(p) = {p[i] : i \in 1 .. n}
      BY <1>0, <2>2 DEF Range
    <3>5. ASSUME NEW x \in Range(q) PROVE x \in Range(p) \ {IndirectTarget}
      BY <3>1, <3>3, <3>4
    <3>6. ASSUME NEW x \in Range(p), x # IndirectTarget PROVE x \in Range(q)
      <4>1. PICK i \in 1 .. n : x = p[i]
        BY <3>4
      <4>2. i # t
        BY <2>1, <3>6, <4>1
      <4> QED
        BY <3>2, <3>4, <4>1, <4>2
    <3> QED
      BY <3>5, <3>6
  <2>5. IsInjective(q)
    <3> SUFFICES ASSUME NEW a \in 1 .. n - 1, NEW b \in 1 .. n - 1, q[a] = q[b]
                 PROVE  a = b
      BY <2>2 DEF IsInjective
    <3>1. a \in 1 .. n /\ b \in 1 .. n /\ a + 1 \in 1 .. n /\ b + 1 \in 1 .. n
      BY <1>0
    <3>2. CASE a < t /\ b < t
      BY <1>0, <2>1, <3>1, <3>2
    <3>3. CASE ~(a < t) /\ ~(b < t)
      <4>1. p[a + 1] = p[b + 1]
        BY <2>1, <3>3
      <4>2. a + 1 = b + 1
        BY <1>0, <3>1, <4>1
      <4> QED
        BY <1>0, <4>2
    <3>4. CASE a < t /\ ~(b < t)
      <4>1. p[a] = p[b + 1]
        BY <2>1, <3>4
      <4>2. a = b + 1
        BY <1>0, <3>1, <4>1
      <4> QED
        BY <1>0, <2>1, <3>4, <4>2
    <3>5. CASE ~(a < t) /\ b < t
      <4>1. p[a + 1] = p[b]
        BY <2>1, <3>5
      <4>2. a + 1 = b
        BY <1>0, <3>1, <4>1
      <4> QED
        BY <1>0, <2>1, <3>5, <4>2
    <3> QED
      BY <3>2, <3>3, <3>4, <3>5
  <2> DEFINE any == [x \in N |-> N]
             w == WeightOf(f)
             v == [i \in DOMAIN q |-> FrameOf(f, q[i])]
             R == Range(p)
             T == Range(q)
  <2>6. IsPath(N, any, q)
    <3>1. \A i \in 1 .. Len(q) - 1 : q[i + 1] \in N /\ q[i] \in N
      BY <2>1
    <3> QED
      BY <2>1, <2>3, <2>5, <3>1 DEF IsPath
  <2>7. /\ IsFiniteSet(N)
        /\ \A x \in N : w[x] = FrameOf(f, x) /\ w[x] \in Nat /\ w[x] \in Int
    BY GraphParts
  <2>8. /\ \A i \in DOMAIN q : v[i] = w[q[i]]
        /\ R \subseteq N /\ T \in SUBSET R /\ IsFiniteSet(R) /\ (\A x \in R : w[x] \in Int)
        /\ Bytes(f, p) = SumFunctionOnSet(w, R)
    <3>1. \A i \in DOMAIN q : q[i] \in N
      BY <2>1
    <3> QED
      BY <2>4, <2>7, <3>1, ChainBytes
  <2>9. \A x \in R \ T : w[x] = 0
    BY <2>4, <2>7, <2>8, GraphParts
  <2>10. Bytes(f, q) = SumFunctionOnSet(v, DOMAIN q)
    BY DEF Bytes, SumFunction
  <2> HIDE DEF any, w, v, R
  <2>11. SumFunctionOnSet(v, DOMAIN q) = SumFunctionOnSet(w, T)
    BY <2>6, <2>7, <2>8, PathSum
  <2> HIDE DEF T
  <2>12. SumFunctionOnSet(w, R) = SumFunctionOnSet(w, T)
    BY <2>8, <2>9, SumSupport
  <2> QED
    BY <2>1, <2>3, <2>4, <2>8, <2>10, <2>11, <2>12 DEF q
<1> QED
  BY <1>1, <1>2

\* A callee after a chain is a chain, if it is not on it.
LEMMA ChainAppend ==
  ASSUME NEW f, IsGraph(f), NEW p \in Chains(f), NEW c \in Nodes(f), c \in CalleesOf(f, Last(p)),
         c \notin Range(p)
  PROVE  /\ Append(p, c) \in Chains(f) /\ Head(Append(p, c)) = Head(p) /\ Last(Append(p, c)) = c
         /\ Range(Append(p, c)) = Range(p) \cup {c}
         /\ Bytes(f, Append(p, c)) = FrameOf(f, c) + Bytes(f, p)
<1> DEFINE N == Nodes(f)
           E == EdgesOf(f)
           n == Len(p)
           q == Append(p, c)
           w == WeightOf(f)
<1>0. /\ IsPath(N, E, p) /\ p \in Seq(N) /\ DOMAIN p = 1 .. n /\ n \in Nat \ {0}
      /\ Head(p) = p[1] /\ Last(p) = p[n] /\ (\A i \in 1 .. n : p[i] \in N)
      /\ (\A i, j \in 1 .. n : p[i] = p[j] => i = j)
      /\ \A i \in 1 .. n - 1 : p[i + 1] \in E[p[i]]
  BY ChainsArePaths, PathParts DEF IsPath
<1>1. /\ q \in Seq(N) /\ Len(q) = n + 1 /\ DOMAIN q = 1 .. n + 1 /\ q[n + 1] = c
      /\ \A i \in 1 .. n : q[i] = p[i]
  BY <1>0
<1>2. \A i \in 1 .. n : p[i] # c
  BY <1>0 DEF Range
<1> HIDE DEF q, E, w
<1>3. IsInjective(q)
  <2> SUFFICES ASSUME NEW a \in 1 .. n + 1, NEW b \in 1 .. n + 1, q[a] = q[b] PROVE a = b
    BY <1>1 DEF IsInjective
  <2>1. CASE a \in 1 .. n /\ b \in 1 .. n
    BY <1>0, <1>1, <2>1
  <2>2. CASE a = n + 1 \/ b = n + 1
    <3>1. a \in 1 .. n \/ a = n + 1
      BY <1>0
    <3>2. b \in 1 .. n \/ b = n + 1
      BY <1>0
    <3> QED
      BY <1>1, <1>2, <2>2, <3>1, <3>2
  <2> QED
    BY <1>0, <2>1, <2>2
<1>4. ASSUME NEW i \in 1 .. Len(q) - 1 PROVE q[i + 1] \in E[q[i]]
  <2>1. i \in 1 .. n
    BY <1>0, <1>1
  <2>2. CASE i = n
    <3>1. c \in E[p[n]]
      BY <1>0, GraphParts DEF E
    <3> QED
      BY <1>1, <2>1, <2>2, <3>1
  <2>3. CASE i # n
    <3>0. n \in Nat
      BY <1>0
    <3>1. i \in 1 .. n - 1 /\ i + 1 \in 1 .. n
      <4> HIDE DEF n
      <4> QED
        BY ONLY <2>1, <2>3, <3>0
    <3> QED
      BY <1>0, <1>1, <2>1, <3>1
  <2> QED
    BY <2>2, <2>3
<1>5. IsPath(N, E, q)
  <2>1. q # <<>>
    BY <1>0, <1>1
  <2> QED
    BY <1>1, <1>3, <1>4, <2>1 DEF IsPath
<1>6. q \in Chains(f)
  BY <1>5, ChainsArePaths DEF E
<1>7. Head(q) = Head(p) /\ Last(q) = c
  <2>1. Head(q) = q[1] /\ Last(q) = q[Len(q)] /\ 1 \in 1 .. n
    BY <1>0, <1>5, PathParts
  <2> QED
    BY <1>0, <1>1, <2>1
<1>8. Range(q) = Range(p) \cup {c}
  <2>1. Range(q) = {q[i] : i \in 1 .. n + 1} /\ Range(p) = {p[i] : i \in 1 .. n}
    BY <1>0, <1>1 DEF Range
  <2>2. \A i : i \in 1 .. n + 1 <=> i \in 1 .. n \/ i = n + 1
    BY <1>0
  <2> QED
    BY <1>1, <2>1, <2>2
<1>9. Bytes(f, q) = FrameOf(f, c) + Bytes(f, p)
  <2> DEFINE R == Range(p)
  <2>1. /\ Bytes(f, q) = SumFunctionOnSet(w, Range(q)) /\ Bytes(f, p) = SumFunctionOnSet(w, R)
        /\ IsFiniteSet(R) /\ R \subseteq N
    BY <1>6, ChainBytes DEF w
  <2>2. w[c] = FrameOf(f, c) /\ \A x \in R \cup {c} : w[x] \in Int
    BY <2>1, GraphParts DEF w
  <2>3. c \notin R
    OBVIOUS
  <2> HIDE DEF R
  <2>4. SumFunctionOnSet(w, R \cup {c}) = w[c] + SumFunctionOnSet(w, R)
    BY <2>1, <2>2, <2>3, SumAdd
  <2> QED
    BY <1>8, <2>1, <2>2, <2>4 DEF R
<1> QED
  BY <1>6, <1>7, <1>8, <1>9 DEF q

\* What is printed of a chain as it grows.
LEMMA NamesAppend ==
  ASSUME NEW f, IsGraph(f), NEW p \in Chains(f), NEW c \in Nodes(f), Append(p, c) \in Chains(f),
         c \notin Range(p)
  PROVE  Names(Append(p, c)) = IF c = IndirectTarget THEN Names(p) ELSE Append(Names(p), c)
<1> DEFINE N == Nodes(f)
           n == Len(p)
           q == Append(p, c)
           t == TargetOf(q)
<1>0. /\ p \in Seq(N) /\ DOMAIN p = 1 .. n /\ n \in Nat \ {0}
      /\ (\A i, j \in 1 .. n : p[i] = p[j] => i = j)
  BY ChainsArePaths, PathParts DEF IsPath
<1>1. /\ q \in Seq(N) /\ Len(q) = n + 1 /\ DOMAIN q = 1 .. n + 1 /\ q[n + 1] = c
      /\ (\A i \in 1 .. n : q[i] = p[i]) /\ q \in Chains(f)
  BY <1>0
<1>2. Range(q) = Range(p) \cup {c}
  <2>1. Range(q) = {q[i] : i \in 1 .. n + 1} /\ Range(p) = {p[i] : i \in 1 .. n}
    BY <1>0, <1>1 DEF Range
  <2>2. \A i : i \in 1 .. n + 1 <=> i \in 1 .. n \/ i = n + 1
    BY <1>0
  <2> HIDE DEF q
  <2> QED
    BY <1>1, <2>1, <2>2
<1>3. \A i, j \in 1 .. n + 1 : q[i] = q[j] => i = j
  <2> HIDE DEF q
  <2>1. IsPath(N, EdgesOf(f), q)
    BY <1>1, ChainsArePaths
  <2>2. \A i, j \in 1 .. Len(q) : q[i] = q[j] => i = j
    BY <2>1, PathParts
  <2> QED
    BY <1>1, <2>2
<1> HIDE DEF q
<1>4. IndirectTarget \in Range(q) =>
        /\ t \in 1 .. n + 1 /\ q[t] = IndirectTarget
        /\ Names(q) \in Seq(N) /\ Len(Names(q)) = n
        /\ \A k \in 1 .. n : Names(q)[k] = IF k < t THEN q[k] ELSE q[k + 1]
  <2>1. Len(q) - 1 = n
    BY <1>0, <1>1
  <2> QED
    BY <1>1, <2>1, NamesAre
<1>5. CASE c = IndirectTarget
  <2>1. Names(p) = p /\ IndirectTarget \in Range(q)
    BY <1>2, <1>5, NamesAre
  <2>2. n + 1 \in 1 .. n + 1
    BY <1>0
  <2>3. t = n + 1
    BY <1>1, <1>3, <1>4, <1>5, <2>1, <2>2
  <2>4. \A k \in 1 .. n : k < t
    BY <1>0, <2>3
  <2>5. \A k \in 1 .. n : Names(q)[k] = p[k]
    BY <1>1, <1>4, <2>1, <2>4
  <2>6. Names(q) = p
    BY <1>0, <1>4, <2>1, <2>5, SeqEqual
  <2> QED
    BY <1>5, <2>1, <2>6 DEF q
<1>6. CASE c # IndirectTarget /\ IndirectTarget \notin Range(p)
  <2>1. Names(p) = p /\ Names(q) = q
    BY <1>1, <1>2, <1>6, NamesAre
  <2> QED
    BY <1>6, <2>1 DEF q
<1>7. CASE c # IndirectTarget /\ IndirectTarget \in Range(p)
  <2> DEFINE s == TargetOf(p)
             a == Names(p)
             b == Append(a, c)
  <2>1. /\ s \in 1 .. n /\ p[s] = IndirectTarget /\ a \in Seq(N) /\ Len(a) = n - 1
        /\ \A k \in 1 .. n - 1 : a[k] = IF k < s THEN p[k] ELSE p[k + 1]
    BY <1>7, NamesAre
  <2> HIDE DEF s, a
  <2>2. /\ t \in 1 .. n + 1 /\ q[t] = IndirectTarget /\ Names(q) \in Seq(N) /\ Len(Names(q)) = n
        /\ \A k \in 1 .. n : Names(q)[k] = IF k < t THEN q[k] ELSE q[k + 1]
    BY <1>2, <1>4, <1>7
  <2>3. s \in 1 .. n + 1
    BY <1>0, <2>1
  <2>4. t = s
    BY <1>1, <1>3, <2>1, <2>2, <2>3
  <2>5. /\ b \in Seq(N) /\ Len(b) = n /\ b[n] = c /\ \A k \in 1 .. n - 1 : b[k] = a[k]
    <3>1. /\ b \in Seq(N) /\ Len(b) = Len(a) + 1 /\ b[Len(a) + 1] = c
          /\ \A k \in 1 .. Len(a) : b[k] = a[k]
      BY <2>1
    <3>2. Len(a) + 1 = n
      BY <1>0, <2>1
    <3> HIDE DEF b
    <3> QED
      BY <2>1, <3>1, <3>2
  <2> HIDE DEF b
  <2>6. ASSUME NEW k \in 1 .. n PROVE Names(q)[k] = b[k]
    <3>1. CASE k = n
      <4>1. ~(k < t) /\ k + 1 = n + 1
        BY <1>0, <2>1, <2>4, <3>1
      <4> QED
        BY <1>1, <2>2, <2>5, <3>1, <4>1
    <3>2. CASE k # n
      <4>0. n \in Nat /\ k \in 1 .. n
        BY <1>0
      <4>1. k \in 1 .. n - 1 /\ k + 1 \in 1 .. n
        <5> HIDE DEF n
        <5> QED
          BY ONLY <3>2, <4>0
      <4> QED
        BY <1>1, <2>1, <2>2, <2>4, <2>5, <4>1
    <3> QED
      BY <3>1, <3>2
  <2>7. Names(q) = b
    BY <1>0, <2>2, <2>5, <2>6, SeqEqual
  <2> QED
    BY <1>7, <2>7 DEF q, b, a
<1> QED
  BY <1>5, <1>6, <1>7

\* What following a deepest callee keeps: whether the chain ends, and what it takes.
LEMMA DeepestCallee ==
  ASSUME NEW f, IsGraph(f), NEW n \in Nodes(f), n \notin f.dynamic, NEW c \in CalleesOf(f, n),
         Height(f, c) > 0, \A d \in CalleesOf(f, n) : Height(f, d) <= Height(f, c)
  PROVE  /\ c \in Nodes(f) /\ (EndlessFrom(f, n) <=> EndlessFrom(f, c))
         /\ ~EndlessFrom(f, n) => Height(f, n) = FrameOf(f, n) + Height(f, c)
<1>0. /\ Infinite \in Nat /\ FrameOf(f, n) \in Nat /\ Height(f, n) \in Nat
      /\ \A d : Height(f, d) \in Nat /\ Height(f, d) <= Infinite
  BY GraphParts, HeightParts DEF IsGraph
<1>1. c \in Nodes(f)
  BY HeightParts
<1>2. ASSUME EndlessFrom(f, n) PROVE EndlessFrom(f, c)
  <2>1. PICK d \in CalleesOf(f, n) : EndlessFrom(f, d)
    BY <1>2, EndlessStep
  <2>2. Height(f, d) = Infinite /\ Height(f, d) <= Height(f, c)
    BY <2>1, HeightParts
  <2>3. Height(f, c) \in Nat /\ (~EndlessFrom(f, c) => Height(f, c) < Infinite)
    BY HeightParts
  <2> QED
    BY <1>0, <2>2, <2>3
<1>3. EndlessFrom(f, c) => EndlessFrom(f, n)
  BY EndlessStep
<1>4. ASSUME ~EndlessFrom(f, n) PROVE Height(f, n) = FrameOf(f, n) + Height(f, c)
  <2>1. FrameOf(f, n) + Height(f, c) <= Height(f, n)
    BY <1>4, HeightStep
  <2>2. \/ Height(f, n) = FrameOf(f, n)
        \/ \E m \in CalleesOf(f, n) : Height(f, n) = FrameOf(f, n) + Height(f, m)
    BY <1>4, HeightStep
  <2>3. CASE Height(f, n) = FrameOf(f, n)
    BY <1>0, <2>1, <2>3
  <2>4. CASE \E m \in CalleesOf(f, n) : Height(f, n) = FrameOf(f, n) + Height(f, m)
    <3>1. PICK m \in CalleesOf(f, n) : Height(f, n) = FrameOf(f, n) + Height(f, m)
      BY <2>4
    <3>2. Height(f, m) <= Height(f, c) /\ Height(f, m) \in Nat /\ Height(f, c) \in Nat
      BY <1>0
    <3> QED
      BY <1>0, <2>1, <3>1, <3>2
  <2> QED
    BY <2>2, <2>3, <2>4
<1> QED
  BY <1>1, <1>2, <1>3, <1>4

\* The chain that is being rebuilt: fs is what is printed of a chain p, and the walk
\* has come to at, which is p's last function, or the synthetic callee for a second
\* time.  It has lost nothing on its way: at is unbounded if the head is, and if not
\* at's height is what p lacks.
Rebuilt(f, p, fs, at) ==
  /\ Head(p) # IndirectTarget /\ fs = Names(p) /\ at \in Nodes(f)
  /\ \/ Last(p) = at
     \/ at = IndirectTarget /\ EndlessFrom(f, at) /\ CalleesOf(f, at) \cap Range(fs) # {}
  /\ EndlessFrom(f, Head(p)) <=> EndlessFrom(f, at)
  /\ ~EndlessFrom(f, Head(p)) =>
       Last(p) = at /\ Height(f, Head(p)) + FrameOf(f, at) = Bytes(f, p) + Height(f, at)

\* What has been printed, one callee later.
Extended(fs, c) == IF c = IndirectTarget THEN fs ELSE Append(fs, c)

\* The chain starts with its root.
LEMMA RebuiltStarts ==
  ASSUME NEW f, IsGraph(f), NEW n \in f.funcs, Height(f, n) > 0
  PROVE  \E p \in Chains(f) : Rebuilt(f, p, <<n>>, n)
<1>0. n # IndirectTarget /\ n \in Nodes(f)
  BY HeightParts DEF IsGraph
<1>1. PICK p \in Chains(f) : /\ Head(p) = n /\ Last(p) = n /\ Range(p) = {n} /\ Len(p) = 1
                             /\ Bytes(f, p) = FrameOf(f, n)
  BY <1>0, ChainOfOne
<1>2. p = <<n>>
  <2>1. p \in Seq(Nodes(f)) /\ Head(p) = p[1]
    BY ChainsArePaths, PathParts DEF IsPath
  <2> QED
    BY <1>0, <1>1, <2>1
<1>3. Names(p) = <<n>>
  BY <1>0, <1>1, <1>2 DEF Names
<1>4. Height(f, n) \in Nat /\ FrameOf(f, n) \in Nat
  BY <1>0, HeightParts, GraphParts
<1>5. Height(f, n) + FrameOf(f, n) = Bytes(f, p) + Height(f, n)
  BY <1>1, <1>4
<1> QED
  BY <1>0, <1>1, <1>3, <1>5 DEF Rebuilt

\* It follows a deepest callee.
LEMMA RebuiltFollows ==
  ASSUME NEW f, IsGraph(f), NEW p \in Chains(f), NEW fs, NEW n, Rebuilt(f, p, fs, n),
         n \notin f.dynamic, CalleesOf(f, n) \cap Range(fs) = {},
         NEW c \in CalleesOf(f, n),
         Height(f, c) > 0, \A d \in CalleesOf(f, n) : Height(f, d) <= Height(f, c)
  PROVE  \E q \in Chains(f) : Rebuilt(f, q, Extended(fs, c), c)
<1> DEFINE h == Head(p)
<1>0. /\ h # IndirectTarget /\ fs = Names(p) /\ n \in Nodes(f) /\ Last(p) = n
      /\ (EndlessFrom(f, h) <=> EndlessFrom(f, n))
      /\ ~EndlessFrom(f, h) => Height(f, h) + FrameOf(f, n) = Bytes(f, p) + Height(f, n)
  BY DEF Rebuilt
<1>1. /\ c \in Nodes(f) /\ (EndlessFrom(f, n) <=> EndlessFrom(f, c))
      /\ ~EndlessFrom(f, n) => Height(f, n) = FrameOf(f, n) + Height(f, c)
  BY <1>0, DeepestCallee
<1>2. fs \in Seq(Nodes(f)) /\ Range(fs) = Range(p) \ {IndirectTarget}
  BY <1>0, NamesParts
<1>3. CASE c \notin Range(p)
  <2> DEFINE q == Append(p, c)
  <2>1. /\ q \in Chains(f) /\ Head(q) = h /\ Last(q) = c
        /\ Bytes(f, q) = FrameOf(f, c) + Bytes(f, p)
    BY <1>0, <1>1, <1>3, ChainAppend
  <2>2. Names(q) = Extended(fs, c)
    BY <1>0, <1>1, <1>3, <2>1, NamesAppend DEF Extended
  <2>3. ASSUME ~EndlessFrom(f, h)
        PROVE  Height(f, h) + FrameOf(f, c) = Bytes(f, q) + Height(f, c)
    <3>1. /\ Height(f, h) \in Nat /\ Height(f, n) \in Nat /\ Height(f, c) \in Nat
          /\ FrameOf(f, n) \in Nat /\ FrameOf(f, c) \in Nat /\ Bytes(f, p) \in Nat
      BY <1>0, <1>1, HeightParts, GraphParts, ChainBytes
    <3> HIDE DEF h, q
    <3> QED
      BY <1>0, <1>1, <2>1, <2>3, <3>1
  <2> HIDE DEF q
  <2>4. Rebuilt(f, q, Extended(fs, c), c)
    BY <1>0, <1>1, <2>1, <2>2, <2>3 DEF Rebuilt
  <2> QED
    BY <2>1, <2>4
<1>4. CASE c \in Range(p)
  <2>1. c = IndirectTarget
    BY <1>2, <1>4
  <2>2. PICK b \in Chains(f) : Head(b) = c /\ Last(b) = n /\ Range(b) \subseteq Range(p)
    BY <1>0, <1>4, ChainSplit DEF MeetIn
  <2>3. EndlessFrom(f, c) /\ EndlessFrom(f, h)
    BY <1>0, <1>1, <2>2, CycleIsEndless
  <2>4. n # c
    <3>1. IndirectTarget \notin CalleesOf(f, IndirectTarget)
      BY DEF CalleesOf, IsGraph
    <3> QED
      BY <2>1, <3>1
  <2>5. Len(b) # 1
    <3>1. Head(b) = b[1] /\ Last(b) = b[Len(b)]
      BY ChainsArePaths, PathParts
    <3> QED
      BY <2>2, <2>4, <3>1
  <2>6. PICK r \in Chains(f) : /\ Head(r) \in CalleesOf(f, c)
                               /\ Range(b) = {c} \cup Range(r) /\ c \notin Range(r)
    BY <2>2, <2>5, ChainShrinks
  <2>7. Head(r) \in Range(r)
    BY ChainsArePaths, PathParts
  <2>8. Head(r) \in Range(fs)
    BY <1>2, <2>1, <2>2, <2>6, <2>7
  <2>9. Rebuilt(f, p, Extended(fs, c), c)
    BY <1>0, <1>1, <2>1, <2>3, <2>6, <2>8 DEF Rebuilt, Extended
  <2> QED
    BY <2>9
<1> QED
  BY <1>3, <1>4

\* It ends unbounded only below a root whose height is the sentinel.
LEMMA RebuiltUnbounded ==
  ASSUME NEW f, IsGraph(f), NEW p \in Chains(f), NEW fs, NEW n, Rebuilt(f, p, fs, n),
         n \in f.dynamic \/ CalleesOf(f, n) \cap Range(fs) # {}
  PROVE  Head(fs) = Head(p) /\ Height(f, Head(fs)) = Infinite
<1>0. /\ Head(p) # IndirectTarget /\ fs = Names(p) /\ n \in Nodes(f)
      /\ (EndlessFrom(f, Head(p)) <=> EndlessFrom(f, n))
      /\ Last(p) = n \/ EndlessFrom(f, n)
  BY DEF Rebuilt
<1>1. Head(fs) = Head(p) /\ Range(fs) \subseteq Range(p)
  BY <1>0, NamesParts
<1>2. EndlessFrom(f, n)
  <2>1. CASE n \in f.dynamic
    BY <1>0, <2>1, EndlessStep
  <2>2. CASE Last(p) = n /\ CalleesOf(f, n) \cap Range(fs) # {}
    <3>1. PICK c \in CalleesOf(f, n) : c \in Range(p)
      BY <1>1, <2>2
    <3>2. PICK b \in Chains(f) : Head(b) = c /\ Last(b) = n
      BY <2>2, <3>1, ChainSplit
    <3> QED
      BY <3>1, <3>2, CycleIsEndless
  <2> QED
    BY <1>0, <2>1, <2>2
<1> QED
  BY <1>0, <1>1, <1>2, HeightParts

\* It ends bounded only when it weighs what its root's height says.
LEMMA RebuiltBounded ==
  ASSUME NEW f, IsGraph(f), NEW p \in Chains(f), NEW fs, NEW n, Rebuilt(f, p, fs, n),
         n \notin f.dynamic, CalleesOf(f, n) \cap Range(fs) = {},
         \A c \in CalleesOf(f, n) : Height(f, c) = 0
  PROVE  Head(fs) = Head(p) /\ Height(f, Head(fs)) = Bytes(f, fs)
<1>0. /\ Head(p) # IndirectTarget /\ fs = Names(p) /\ n \in Nodes(f) /\ Last(p) = n
      /\ (EndlessFrom(f, Head(p)) <=> EndlessFrom(f, n))
      /\ ~EndlessFrom(f, Head(p)) =>
           Height(f, Head(p)) + FrameOf(f, n) = Bytes(f, p) + Height(f, n)
  BY DEF Rebuilt
<1>1. Head(fs) = Head(p) /\ Bytes(f, fs) = Bytes(f, p)
  BY <1>0, NamesParts
<1>2. ~EndlessFrom(f, n)
  <2> SUFFICES ASSUME EndlessFrom(f, n) PROVE FALSE
    OBVIOUS
  <2>1. PICK c \in CalleesOf(f, n) : EndlessFrom(f, c)
    BY <1>0, EndlessStep
  <2>2. Height(f, c) = Infinite /\ Height(f, c) = 0
    BY <2>1, HeightParts
  <2>3. Bytes(f, p) \in Nat /\ Bytes(f, p) < Infinite /\ Infinite \in Nat
    BY ChainBytes DEF IsGraph
  <2> QED
    BY <2>2, <2>3
<1>3. FrameOf(f, n) \in Nat /\ Height(f, Head(p)) \in Nat /\ Bytes(f, p) \in Nat
  BY <1>0, GraphParts, HeightParts, ChainBytes
<1>4. Height(f, n) = FrameOf(f, n)
  <2>1. \/ Height(f, n) = FrameOf(f, n)
        \/ \E m \in CalleesOf(f, n) : Height(f, n) = FrameOf(f, n) + Height(f, m)
    BY <1>0, <1>2, HeightStep
  <2>2. CASE \E m \in CalleesOf(f, n) : Height(f, n) = FrameOf(f, n) + Height(f, m)
    BY <1>3, <2>2
  <2> QED
    BY <2>1, <2>2
<1> QED
  BY <1>0, <1>1, <1>2, <1>3, <1>4

\* The report's other invariant: the chain being rebuilt is one that is there to be
\* found, and the ones already printed are real.
ChainInv ==
  /\ chain # NoChain =>
       chain.at \in DOMAIN height /\ \E p \in Chains(g) : Rebuilt(g, p, chain.frames, chain.at)
  /\ ReportedChainsAreReal

\* What the report may read of the heights, and what they are.
LEMMA HeightsRead ==
  ASSUME WalkInv, phase = "report"
  PROVE  /\ g \in Graphs /\ IsGraph(g) /\ g.funcs \subseteq DOMAIN height
         /\ \A n \in DOMAIN height : height[n] = Height(g, n)
         /\ \A n \in DOMAIN height : n \notin g.dynamic => CalleesOf(g, n) \subseteq DOMAIN height
<1>1. /\ g \in Graphs /\ MemoOK(g, "walk", height) /\ Closed(g, height, {})
      /\ g.funcs \subseteq DOMAIN height
  BY DEF WalkInv
<1>2. IsGraph(g)
  BY <1>1, FactsAreGraphs
<1>3. \A n \in DOMAIN height : n \notin g.dynamic => CalleesOf(g, n) \subseteq DOMAIN height
  BY <1>1 DEF Closed, TodoOf
<1> QED
  BY <1>1, <1>2, <1>3 DEF MemoOK, Truth

\* A root that is over its limit has a height.
LEMMA OverParts ==
  ASSUME WalkInv, phase = "report", NEW n \in Over
  PROVE  /\ n \in g.funcs /\ n \in DOMAIN height /\ Height(g, n) > 0
         /\ ~Allowed(n, height[n]) /\ height[n] = Height(g, n)
<1>1. n \in g.funcs /\ height[n] > LimitFor(n)
  BY DEF Over
<1>2. g \in Graphs /\ IsGraph(g) /\ n \in DOMAIN height /\ height[n] = Height(g, n)
  BY <1>1, HeightsRead
<1>3. Height(g, n) \in Nat
  BY <1>2, HeightParts
<1>4. LimitFor(n) \in Nat /\ \A b \in Nat : Allowed(n, b) <=> b <= LimitFor(n)
  BY <1>1, <1>2, AllowanceParts
<1> QED
  BY <1>1, <1>2, <1>3, <1>4

\* While nothing is printed and no chain is rebuilt there is nothing to show.
LEMMA ChainsUntouched ==
  ASSUME chain' = NoChain, chains' = {}
  PROVE  ChainInv'
BY DEF ChainInv, ReportedChainsAreReal

\* Printed chains stay real: the facts and the heights are fixed.
LEMMA PrintedStay ==
  ASSUME ReportedChainsAreReal, g' = g, height' = height, chains' = chains
  PROVE  ReportedChainsAreReal'
BY DEF ReportedChainsAreReal, Allowed

\* chainFrom begins with a root, which is a node because it has a height.
LEMMA StartChainReal ==
  ASSUME WalkInv, ReportInv, ChainInv, NEW n, StartChain(n)
  PROVE  ChainInv'
<1>1. /\ phase = "report" /\ n \in pending /\ chain' = [frames |-> <<n>>, at |-> n]
      /\ g' = g /\ height' = height /\ chains' = chains
  BY DEF StartChain
<1>2. n \in Over
  BY <1>1 DEF ReportInv
<1>3. n \in g.funcs /\ n \in DOMAIN height /\ Height(g, n) > 0
  BY <1>1, <1>2, OverParts
<1>4. IsGraph(g)
  BY <1>1, HeightsRead
<1>5. \E p \in Chains(g) : Rebuilt(g, p, <<n>>, n)
  BY <1>3, <1>4, RebuiltStarts
<1>6. chain'.frames = <<n>> /\ chain'.at = n
  BY <1>1
<1>7. ReportedChainsAreReal'
  BY <1>1, PrintedStay DEF ChainInv
<1> QED
  BY <1>1, <1>3, <1>5, <1>6, <1>7 DEF ChainInv

\* deepestCallee keeps what the chain is: a deepest callee is unbounded if any is.
LEMMA FollowDeepestReal ==
  ASSUME WalkInv, ReportInv, ChainInv, NEW c, FollowDeepest(c)
  PROVE  ChainInv'
<1> DEFINE n == chain.at
           fs == chain.frames
           cs == CalleesOf(g, n)
           S == {HeightOf(d) : d \in cs}
<1>1. /\ phase = "report" /\ chain # NoChain /\ n \notin g.dynamic /\ cs \cap Range(fs) = {}
      /\ c \in cs /\ HeightOf(c) = Max(S) /\ HeightOf(c) > 0
      /\ chain' = [frames |-> Extended(fs, c), at |-> c]
      /\ g' = g /\ height' = height /\ chains' = chains
  BY DEF FollowDeepest, OnChain, DeepestCallees, Extended
<1>2. /\ IsGraph(g) /\ cs \subseteq DOMAIN height /\ \A d \in cs : HeightOf(d) = Height(g, d)
  BY <1>1, HeightsRead DEF ChainInv, HeightOf
<1>3. PICK p \in Chains(g) : Rebuilt(g, p, fs, n)
  BY <1>1 DEF ChainInv
<1>4. \A d \in cs : Height(g, d) \in Nat /\ Height(g, d) <= Infinite
  BY <1>2, HeightParts
<1>5. S \in SUBSET Nat /\ S # {} /\ Infinite \in Nat /\ \A y \in S : y <= Infinite
  BY <1>1, <1>2, <1>4 DEF IsGraph
<1>6. \A d \in cs : HeightOf(d) \in S
  OBVIOUS
<1> HIDE DEF S
<1>7. \A y \in S : y <= Max(S)
  BY <1>5, GreatestNatural
<1>8. /\ Height(g, c) > 0 /\ \A d \in cs : Height(g, d) <= Height(g, c)
  BY <1>1, <1>2, <1>6, <1>7
<1>9. \E q \in Chains(g) : Rebuilt(g, q, Extended(fs, c), c)
  <2> HIDE DEF fs, n
  <2> QED
    BY <1>1, <1>2, <1>3, <1>8, RebuiltFollows
<1>10. chain'.frames = Extended(fs, c) /\ chain'.at = c
  BY <1>1
<1>11. ReportedChainsAreReal'
  BY <1>1, PrintedStay DEF ChainInv
<1> QED
  BY <1>1, <1>2, <1>9, <1>10, <1>11 DEF ChainInv

\* A chain that is printed is real when its height is the root's.
LEMMA EndChainReal ==
  ASSUME WalkInv, ReportInv, ChainInv, phase = "report", chain # NoChain, NEW h, EndChain(h),
         h = Height(g, Head(chain.frames))
  PROVE  ChainInv'
<1> DEFINE c == [frames |-> chain.frames, height |-> h]
           n == Head(chain.frames)
<1>1. /\ chains' = chains \cup {c} /\ chain' = NoChain /\ g' = g /\ height' = height
  BY DEF EndChain
<1>2. n \in Over
  BY DEF ReportInv
<1>3. height[n] = Height(g, n) /\ ~Allowed(n, height[n])
  BY <1>2, OverParts
<1>4. PICK p \in Chains(g) : chain.frames = Names(p)
  BY DEF ChainInv, Rebuilt
<1>5. ASSUME NEW d \in chains'
      PROVE  /\ \E q \in Chains(g') : d.frames = Names(q)
             /\ d.height = height'[Head(d.frames)]
             /\ ~Allowed(Head(d.frames), d.height)'
  <2>1. CASE d \in chains
    BY <1>1, <2>1 DEF ChainInv, ReportedChainsAreReal, Allowed
  <2>2. CASE d = c
    <3>1. d.frames = chain.frames /\ d.height = h
      BY <2>2
    <3> QED
      BY <1>1, <1>3, <1>4, <3>1 DEF Allowed
  <2> QED
    BY <1>1, <2>1, <2>2
<1> QED
  BY <1>1, <1>5 DEF ChainInv, ReportedChainsAreReal

\* Both ways chainFrom returns: at a cycle or a dynamic frame, or where nothing follows.
LEMMA EndsAreReal ==
  ASSUME WalkInv, ReportInv, ChainInv, EndUnbounded \/ EndBounded
  PROVE  ChainInv'
<1> DEFINE n == chain.at
           fs == chain.frames
<1>1. phase = "report" /\ chain # NoChain
  BY DEF EndUnbounded, EndBounded
<1>2. IsGraph(g) /\ n \in DOMAIN height
  BY <1>1, HeightsRead DEF ChainInv
<1>3. PICK p \in Chains(g) : Rebuilt(g, p, fs, n)
  BY <1>1 DEF ChainInv
<1>4. CASE EndUnbounded
  <2>1. n \in g.dynamic \/ CalleesOf(g, n) \cap Range(fs) # {}
    BY <1>4 DEF EndUnbounded, OnChain
  <2>2. Height(g, Head(fs)) = Infinite
    <3> HIDE DEF fs, n
    <3> QED
      BY <1>2, <1>3, <2>1, RebuiltUnbounded
  <2> QED
    BY <1>1, <1>4, <2>2, EndChainReal DEF EndUnbounded
<1>5. CASE EndBounded
  <2>1. /\ n \notin g.dynamic /\ CalleesOf(g, n) \cap Range(fs) = {}
        /\ \A c \in CalleesOf(g, n) : HeightOf(c) = 0
    BY <1>5 DEF EndBounded, OnChain
  <2>2. \A c \in CalleesOf(g, n) : Height(g, c) = 0
    BY <1>1, <1>2, <2>1, HeightsRead DEF HeightOf
  <2>3. Height(g, Head(fs)) = Bytes(g, fs)
    <3> HIDE DEF fs, n
    <3> QED
      BY <1>2, <1>3, <2>1, <2>2, RebuiltBounded
  <2> QED
    BY <1>1, <1>5, <2>3, EndChainReal DEF EndBounded
<1> QED
  BY <1>4, <1>5

\* The report's other invariant is inductive, next to the first two.
LEMMA ChainStep ==
  ASSUME WalkInv, ReportInv, ChainInv, [Next]_vars
  PROVE  ChainInv'
<1>1. CASE UNCHANGED vars
  <2>1. g' = g /\ height' = height /\ chain' = chain /\ chains' = chains
    BY <1>1 DEF vars
  <2> QED
    BY <2>1 DEF ChainInv, ReportedChainsAreReal, Allowed
<1>2. ASSUME phase \in Walking, UNCHANGED <<chain, chains>> PROVE ChainInv'
  BY <1>2, ChainsUntouched DEF ReportInv
<1>3. ASSUME NEW n, StartWalk(n) \/ Descend(n) \/ Combine(n) PROVE ChainInv'
  BY <1>2, <1>3 DEF StartWalk, Descend, Combine, Walking
<1>4. CASE Finish \/ WalksDone \/ AboveDone
  BY <1>2, <1>4 DEF Finish, WalksDone, AboveDone, Walking
<1>5. ASSUME NEW n, StartChain(n) \/ FollowDeepest(n) PROVE ChainInv'
  BY <1>5, StartChainReal, FollowDeepestReal
<1>6. CASE EndUnbounded \/ EndBounded
  BY <1>6, EndsAreReal
<1>7. CASE Done
  BY <1>1, <1>7 DEF Done
<1> QED
  BY <1>1, <1>3, <1>4, <1>5, <1>6, <1>7 DEF Next

\* Every chain the error prints is a chain of the program, over the limit of its root and as
\* high as the walk measured: chainFrom finds it again by following heights.
THEOREM ChainsReportedAreReal == Spec => []ReportedChainsAreReal
<1>1. Init => ChainInv
  BY DEF Init, ChainInv, ReportedChainsAreReal
<1>2. WalkInv /\ ReportInv /\ ChainInv /\ [Next]_vars => ChainInv'
  BY ChainStep
<1>3. ChainInv => ReportedChainsAreReal
  BY DEF ChainInv
<1>4. Spec => []ChainInv
  BY <1>1, <1>2, InvariantsHold, PTL DEF Spec
<1> QED
  BY <1>3, <1>4, PTL
=============================================================================
