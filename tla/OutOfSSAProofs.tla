--------------------------- MODULE OutOfSSAProofs ---------------------------
(***************************************************************************)
(* The passes out of SSA form, for every set of well-formed functions.     *)
(* They are folds over blocks, instructions, phis and copies: a fold goes  *)
(* through a sequence of results (StepsOf) or stays in a set that every    *)
(* step of it keeps (FoldInside and FoldKeeps of SumsAndPaths).  What the  *)
(* specification adds is that the passes before CoalescePhis leave a       *)
(* function well formed (IInv); the rest is about one such function:       *)
(* liveness is what some path reads, classes are never needed together,    *)
(* and copies that are emitted one by one act as if they were parallel.    *)
(***************************************************************************)
EXTENDS OutOfSSA, SumsAndPaths, TLAPS

(***************************************************************************)
(* Folds as the sequence of what they have made so far.                    *)
(***************************************************************************)

\* h is what a fold makes of each set of places, as far as it stays in M.
Unfolds(n, M, base, G, h) ==
  /\ h[{}] = base
  /\ \A s \in SUBSET (1 .. n) :
       s # {} /\ h[s \ {Max(s)}] \in M => h[s] = G[h[s \ {Max(s)}]][Max(s)]

\* r is the results a fold passes through, from base to last.
Passes(n, M, base, G, last, r) ==
  /\ r \in [0 .. n -> M] /\ r[0] = base /\ r[n] = last
  /\ \A k \in 1 .. n : r[k] = G[r[k - 1]][k]

\* A fold passes through n + 1 results.
LEMMA StepsOf ==
  ASSUME NEW n \in Nat, NEW M, NEW base \in M, NEW G \in [M -> [1 .. n -> M]], NEW h,
         Unfolds(n, M, base, G, h)
  PROVE  \E r : Passes(n, M, base, G, h[1 .. n], r)
<1> USE DEF Unfolds
<1> DEFINE r == [k \in 0 .. n |-> h[1 .. k]]
<1>1. \A s \in SUBSET (1 .. n) : h[s] \in M
  <2>1. \A s \in SUBSET (1 .. n) : s # {} /\ h[s \ {Max(s)}] \in M => h[s] \in M
    <3> SUFFICES ASSUME NEW s \in SUBSET (1 .. n), s # {}, h[s \ {Max(s)}] \in M PROVE h[s] \in M
      OBVIOUS
    <3>1. Max(s) \in 1 .. n
      BY MaxIsMember
    <3> QED
      BY <3>1
  <2> QED
    BY <2>1, FoldKeeps
<1>2. \A k \in 0 .. n : 1 .. k \in SUBSET (1 .. n)
  OBVIOUS
<1>3. r \in [0 .. n -> M]
  BY <1>1, <1>2
<1>4. r[0] = base /\ r[n] = h[1 .. n]
  <2>1. 1 .. 0 = {}
    OBVIOUS
  <2> QED
    BY <2>1
<1>5. ASSUME NEW k \in 1 .. n PROVE r[k] = G[r[k - 1]][k]
  <2>0. k \in Nat /\ 1 \in 1 .. k /\ k \in 1 .. k
    OBVIOUS
  <2>1. 1 .. k \in SUBSET Nat /\ 1 .. k # {} /\ \A y \in 1 .. k : y <= k
    <3>1. 1 .. k # {}
      BY <2>0
    <3>2. \A y \in 1 .. k : y \in Nat /\ y <= k
      BY <2>0
    <3> QED
      BY <3>1, <3>2
  <2>2. Max(1 .. k) \in 1 .. k /\ \A y \in 1 .. k : y <= Max(1 .. k)
    BY <2>0, <2>1, GreatestNatural
  <2>3. Max(1 .. k) = k
    BY <2>0, <2>2
  <2>4. (1 .. k) \ {k} = 1 .. k - 1
    OBVIOUS
  <2>5. k - 1 \in 0 .. n /\ 1 .. k \in SUBSET (1 .. n) /\ 1 .. k - 1 \in SUBSET (1 .. n)
    OBVIOUS
  <2>6. h[1 .. k - 1] \in M
    BY <1>1, <2>5
  <2>7. h[1 .. k] = G[h[1 .. k - 1]][k]
    BY <2>1, <2>3, <2>4, <2>5, <2>6
  <2> QED
    BY <2>5, <2>7
<1> HIDE DEF r
<1> QED
  BY <1>3, <1>4, <1>5 DEF Passes

\* The results of n steps.
Steps(n, g, r) == \A k \in 1 .. n : r[k] = g[r[k - 1]]

\* Two sequences of results from the same steps agree as far as both go.
LEMMA SameSteps ==
  ASSUME NEW m \in Nat, NEW n \in Nat, m <= n, NEW g, NEW r, NEW q, r[0] = q[0],
         Steps(m, g, r), Steps(n, g, q)
  PROVE  \A k \in 0 .. m : r[k] = q[k]
<1> USE DEF Steps
<1> DEFINE C == {k \in 0 .. m : r[k] # q[k]}
<1> SUFFICES ASSUME C # {} PROVE FALSE
  OBVIOUS
<1>1. Min(C) \in C /\ \A y \in C : Min(C) <= y
  <2>1. C \in SUBSET Nat
    OBVIOUS
  <2> HIDE DEF C
  <2> QED
    BY <2>1, LeastNatural
<1>2. PICK k \in C : \A y \in C : k <= y
  BY <1>1
<1>3. k \in 1 .. m /\ k - 1 \in 0 .. m /\ k - 1 \notin C /\ k \in 1 .. n
  BY <1>2
<1> QED
  BY <1>2, <1>3

\* A set that grows inside a finite one stops growing.
LEMMA GrowthStops ==
  ASSUME NEW S, IsFiniteSet(S), NEW n \in Nat, Cardinality(S) <= n,
         NEW P, \A k \in 0 .. n + 1 : P[k] \subseteq S,
         \A k \in 0 .. n : P[k] \subseteq P[k + 1]
  PROVE  \E k \in 0 .. n : P[k + 1] = P[k]
<1> SUFFICES ASSUME \A k \in 0 .. n : P[k + 1] # P[k] PROVE FALSE
  OBVIOUS
<1>1. \A k \in 0 .. n + 1 : IsFiniteSet(P[k]) /\ Cardinality(P[k]) \in Nat /\ Cardinality(P[k]) <= Cardinality(S)
  BY FS_Subset, FS_CardinalityType
<1>2. \A k \in 0 .. n : k + 1 \in 0 .. n + 1 /\ Cardinality(P[k]) < Cardinality(P[k + 1])
  <2> SUFFICES ASSUME NEW k \in 0 .. n PROVE k + 1 \in 0 .. n + 1 /\ Cardinality(P[k]) < Cardinality(P[k + 1])
    OBVIOUS
  <2>1. k + 1 \in 0 .. n + 1 /\ IsFiniteSet(P[k + 1]) /\ P[k] \subseteq P[k + 1] /\ P[k] # P[k + 1]
    BY <1>1
  <2>2. Cardinality(P[k]) <= Cardinality(P[k + 1]) /\ Cardinality(P[k]) # Cardinality(P[k + 1])
    BY <2>1, FS_Subset
  <2>3. Cardinality(P[k]) \in Nat /\ Cardinality(P[k + 1]) \in Nat
    BY <1>1, <2>1
  <2> QED
    BY <2>1, <2>2, <2>3
<1> DEFINE C == {k \in 0 .. n + 1 : Cardinality(P[k]) < k}
<1>3. C = {}
  <2> SUFFICES ASSUME C # {} PROVE FALSE
    OBVIOUS
  <2>1. Min(C) \in C /\ \A y \in C : Min(C) <= y
    <3>1. C \in SUBSET Nat
      OBVIOUS
    <3> HIDE DEF C
    <3> QED
      BY <3>1, LeastNatural
  <2>2. PICK k \in C : \A y \in C : k <= y
    BY <2>1
  <2>3. k # 0
    BY <1>1, <2>2
  <2>4. k - 1 \in 0 .. n /\ k - 1 \notin C
    BY <2>2, <2>3
  <2>5. Cardinality(P[k - 1]) \in Nat /\ Cardinality(P[k - 1]) >= k - 1
    BY <1>1, <2>4
  <2>6. Cardinality(P[k - 1]) < Cardinality(P[k])
    BY <1>2, <2>4
  <2>7. Cardinality(P[k]) \in Nat /\ Cardinality(P[k]) < k
    BY <1>1, <2>2
  <2> QED
    BY <2>4, <2>5, <2>6, <2>7
<1>4. Cardinality(P[n + 1]) >= n + 1
  BY <1>1, <1>3
<1>5. Cardinality(P[n + 1]) <= Cardinality(S) /\ Cardinality(P[n + 1]) \in Nat /\ Cardinality(S) \in Nat
  BY <1>1, FS_CardinalityType
<1> QED
  BY <1>4, <1>5

\* What a sequence over S holds.
LEMMA SeqMember ==
  ASSUME NEW S, NEW q \in Seq(S)
  PROVE  DOMAIN q = 1 .. Len(q) /\ Len(q) \in Nat /\ \A k \in DOMAIN q : q[k] \in S
OBVIOUS

(***************************************************************************)
(* One block.                                                              *)
(***************************************************************************)

\* The parts of code numbered s read t before they write it.
ReadIn(code, s, t) ==
  \E i \in s : t \in Temps(code[i].args) /\ \A j \in s : j < i => code[j].to # t

\* What is live above the parts of code numbered s when live is below it: what they
\* read before they write it, and what is live below and not written in them.
LiveOver(code, live, s, t) == ReadIn(code, s, t) \/ (t \in live /\ \A i \in s : code[i].to # t)

AboveParts(code, live, s) ==
  {t \in live \cup UNION {Temps(code[i].args) : i \in DOMAIN code} : LiveOver(code, live, s, t)}

LEMMA AboveIs ==
  ASSUME NEW code, NEW live, NEW s \in SUBSET DOMAIN code
  PROVE  \A t : t \in AboveParts(code, live, s) <=> LiveOver(code, live, s, t)
  BY DEF AboveParts, LiveOver, ReadIn

LEMMA AboveFirst ==
  ASSUME NEW code, NEW live, NEW s \in SUBSET DOMAIN code, s # {}, s \in SUBSET Nat
  PROVE  AboveParts(code, live, s) = LiveBefore(code[Min(s)], AboveParts(code, live, s \ {Min(s)}))
<1> DEFINE x == Min(s)
           u == s \ {x}
           Is(v, t) == LiveOver(code, live, v, t)
           Above(v) == AboveParts(code, live, v)
<1>1. x \in s /\ (\A y \in s : x <= y) /\ u \in SUBSET DOMAIN code /\ s = u \cup {x} /\ x \notin u
  BY LeastNatural
<1> HIDE DEF x
<1>2. x \in Nat /\ \A y \in u : y \in Nat /\ x < y
  BY <1>1
<1> HIDE DEF u
<1>3. ASSUME NEW t PROVE Is(s, t) <=> (Is(u, t) /\ t # code[x].to) \/ t \in Temps(code[x].args)
  <2> USE DEF LiveOver
  <2>1. ASSUME t \in Temps(code[x].args) PROVE Is(s, t)
    <3>1. \A j \in s : ~ (j < x)
      BY <1>1, <1>2
    <3> QED
      BY <1>1, <2>1, <3>1 DEF ReadIn
  <2>2. ASSUME Is(u, t), t # code[x].to PROVE Is(s, t)
    BY <1>1, <2>2 DEF ReadIn
  <2>3. ASSUME Is(s, t), t \notin Temps(code[x].args) PROVE Is(u, t) /\ t # code[x].to
    <3>1. CASE t \in live /\ \A i \in s : code[i].to # t
      BY <1>1, <3>1
    <3>2. CASE ReadIn(code, s, t)
      <4>1. PICK i \in s : t \in Temps(code[i].args) /\ \A j \in s : j < i => code[j].to # t
        BY <3>2 DEF ReadIn
      <4>2. i \in u
        BY <1>1, <2>3, <4>1
      <4> QED
        BY <1>1, <1>2, <4>1, <4>2 DEF ReadIn
    <3> QED
      BY <2>3, <3>1, <3>2
  <2> QED
    BY <2>1, <2>2, <2>3
<1> HIDE DEF Is
<1>4. \A t : t \in Above(s) <=> Is(s, t)
  BY AboveIs DEF Is
<1>5. \A t : t \in Above(u) <=> Is(u, t)
  BY <1>1, AboveIs DEF Is
<1> HIDE DEF Above
<1>6. Above(s) = (Above(u) \ {code[x].to}) \cup Temps(code[x].args)
  BY <1>3, <1>4, <1>5
<1> QED
  BY <1>6 DEF LiveBefore, x, u, Above

\* Above code is live what it reads before it writes it, and what is live below it
\* and not written in it (the backward walk of CFG.Liveness).
LEMMA LiveAboveCode ==
  ASSUME NEW n \in Nat, NEW code \in Seq(Instrs(n)), NEW live
  PROVE  \A t : t \in FoldRight(LiveBefore, code, live) <=>
                  \/ ReadIn(code, DOMAIN code, t)
                  \/ t \in live /\ \A i \in DOMAIN code : code[i].to # t
<1> DEFINE m == Len(code)
           D == 1 .. m
           Above(s) == AboveParts(code, live, s)
           Solves(h) == h = [s \in SUBSET D |-> IF s = {} THEN live
                                                ELSE LiveBefore(code[Min(s)], h[s \ {Min(s)}])]
           g == [s \in SUBSET D |-> Above(s)]
<1>0. m \in Nat /\ DOMAIN code = D /\ \A s \in SUBSET D : s \in SUBSET Nat
  OBVIOUS
<1>1. FoldRight(LiveBefore, code, live) = (CHOOSE h : Solves(h))[D]
  BY <1>0 DEF FoldRight, MapThenFoldSet
<1>2. \A s \in SUBSET D : s # {} => Min(s) \in s
  BY <1>0, LeastNatural
<1>4. \A s \in SUBSET D : s # {} => Above(s) = LiveBefore(code[Min(s)], Above(s \ {Min(s)}))
  BY <1>0, AboveFirst
<1>5. Above({}) = live
  BY DEF AboveParts, LiveOver, ReadIn
<1> HIDE DEF Above, D
<1>6. Solves(g)
  <2>1. \A s \in SUBSET D : s # {} => s \ {Min(s)} \in SUBSET D
    OBVIOUS
  <2> QED
    BY <1>4, <1>5, <2>1
<1> DEFINE h == CHOOSE h : Solves(h)
<1>7. Solves(h)
  BY <1>6
<1> HIDE DEF h
<1>8. h[{}] = live /\ \A s \in SUBSET D : s # {} => h[s] = LiveBefore(code[Min(s)], h[s \ {Min(s)}])
  BY <1>7
<1>9. h[D] = Above(D)
  <2> DEFINE C == {s \in SUBSET D : h[s] # Above(s)}
  <2> SUFFICES ASSUME C # {} PROVE FALSE
    OBVIOUS
  <2>1. PICK s \in C : \A V \in SUBSET s : V # s => V \notin C
    <3>1. IsFiniteSet(D) /\ C \in SUBSET SUBSET D
      BY <1>0, FS_Interval DEF D
    <3> HIDE DEF C
    <3> QED
      BY <3>1, SmallestSet
  <2>2. s \in SUBSET D /\ s # {} /\ h[s] # Above(s)
    BY <1>5, <1>8, <2>1
  <2>3. s \ {Min(s)} \in SUBSET s /\ s \ {Min(s)} # s
    BY <1>2, <2>2
  <2>4. s \ {Min(s)} \notin C
    BY <2>1, <2>3
  <2>5. h[s \ {Min(s)}] = Above(s \ {Min(s)})
    BY <2>2, <2>4
  <2> QED
    BY <1>4, <1>8, <2>2, <2>5
<1>10. \A t : t \in Above(D) <=> LiveOver(code, live, D, t)
  BY <1>0, AboveIs DEF Above
<1> QED
  BY <1>0, <1>1, <1>9, <1>10 DEF h, LiveOver

\* What a well-formed function is made of.
LEMMA Parts ==
  ASSUME NEW f, WellFormed(f)
  PROVE  /\ f.temps \in Nat /\ f.order \in Seq(Blocks(f)) /\ DOMAIN f.order = 1 .. Len(f.order)
         /\ Blocks(f) \subseteq Nat /\ Blocks(f) # {}
         /\ f.phis \in [Blocks(f) -> Seq(Phis(Blocks(f), f.temps))]
         /\ f.code \in [Blocks(f) -> Seq(Instrs(f.temps))]
         /\ f.jmp \in [Blocks(f) -> Jumps(Blocks(f), f.temps)]
         /\ \A b \in Blocks(f) : Succs(f, b) \subseteq Blocks(f)
<1>1. f \in Shapes(Blocks(f), f.temps) /\ f.order \in Seq(Nat) /\ f.order # <<>> /\ f.temps \in Nat
  BY DEF WellFormed
<1>2. /\ f.order \in Seq(Blocks(f))
      /\ f.phis \in [Blocks(f) -> Seq(Phis(Blocks(f), f.temps))]
      /\ f.code \in [Blocks(f) -> Seq(Instrs(f.temps))]
      /\ f.jmp \in [Blocks(f) -> Jumps(Blocks(f), f.temps)]
  BY <1>1 DEF Shapes
<1>3. Blocks(f) \subseteq Nat /\ Blocks(f) # {} /\ DOMAIN f.order = 1 .. Len(f.order)
  <2>1. DOMAIN f.order = 1 .. Len(f.order) /\ 1 \in DOMAIN f.order /\ \A i \in DOMAIN f.order : f.order[i] \in Nat
    BY <1>1
  <2> QED
    BY <2>1 DEF Blocks, ToSet
<1>4. \A b \in Blocks(f) : f.jmp[b].to \in Seq(Blocks(f))
  BY <1>2 DEF Jumps
<1>5. \A b \in Blocks(f) : Succs(f, b) \subseteq Blocks(f)
  BY <1>4 DEF Succs, ToSet
<1> QED
  BY <1>1, <1>2, <1>3, <1>5

\* There are finitely many blocks, no more than the order is long.
LEMMA BlocksAreFinite ==
  ASSUME NEW f, WellFormed(f)
  PROVE  IsFiniteSet(Blocks(f)) /\ Cardinality(Blocks(f)) \in Nat /\ Cardinality(Blocks(f)) <= Len(f.order)
<1> DEFINE n == Len(f.order)
<1>1. n \in Nat /\ DOMAIN f.order = 1 .. n
  BY Parts
<1>2. Blocks(f) = {f.order[i] : i \in 1 .. n}
  BY <1>1 DEF Blocks, ToSet
<1>3. IsFiniteSet(1 .. n) /\ Cardinality(1 .. n) = n
  BY <1>1, FS_Interval
<1>4. f.order \in Surjection(1 .. n, Blocks(f))
  <2>1. f.order \in [1 .. n -> Blocks(f)]
    BY <1>1, Parts
  <2> QED
    BY <1>2, <2>1 DEF Surjection
<1> HIDE DEF n
<1>5. IsFiniteSet(Blocks(f)) /\ Cardinality(Blocks(f)) <= Cardinality(1 .. n)
  BY <1>3, <1>4, FS_Surjection
<1> QED
  BY <1>3, <1>5, FS_CardinalityType DEF n

\* A block needs at its top what it reads first, and what is live at its end and not
\* written in it, but for the results of its phis.
LEMMA LiveAboveBlock ==
  ASSUME NEW f, WellFormed(f), NEW in, NEW b \in Blocks(f)
  PROVE  \A t : t \in LiveAbove(f, in, b) <=>
                  /\ t \notin PhiResults(f, b)
                  /\ t \in ReadFirst(f, b) \/ (t \in LiveOut(f, in, b) /\ t \notin Written(f, b))
<1> DEFINE code == f.code[b]
           arg == f.jmp[b].arg
           below == LiveAtJump(f, in, b)
<1>1. f.temps \in Nat /\ code \in Seq(Instrs(f.temps)) /\ f.jmp[b] \in Jumps(Blocks(f), f.temps)
  BY Parts
<1>2. Temps(<<arg>>) = {arg} \ {0}
  BY DEF Temps, ToSet
<1>3. arg \in 0 .. f.temps
  BY <1>1 DEF Jumps
<1>4. \A i \in DOMAIN code : code[i].args \in Seq(0 .. f.temps)
  <2> HIDE DEF code
  <2>1. \A i \in DOMAIN code : code[i] \in Instrs(f.temps)
    BY <1>1
  <2> QED
    BY <2>1 DEF Instrs
<1>5. \A i \in DOMAIN code : Temps(code[i].args) \subseteq 1 .. f.temps
  <2> SUFFICES ASSUME NEW i \in DOMAIN code, NEW t \in Temps(code[i].args) PROVE t \in 1 .. f.temps
    OBVIOUS
  <2>1. PICK k \in DOMAIN code[i].args : t = code[i].args[k] /\ t # 0
    BY DEF Temps, ToSet
  <2>2. t \in 0 .. f.temps
    BY <1>4, <2>1, SeqMember
  <2> QED
    BY <1>1, <2>1, <2>2
<1>6. ASSUME NEW t
      PROVE  ReadIn(code, DOMAIN code, t)
               <=> t \in 1 .. f.temps /\ \E i \in DOMAIN code : t \in Temps(code[i].args) /\ \A j \in 1 .. i - 1 : code[j].to # t
  <2>1. DOMAIN code = 1 .. Len(code) /\ Len(code) \in Nat
    BY <1>1
  <2>2. ASSUME NEW i \in DOMAIN code
        PROVE  (\A j \in DOMAIN code : j < i => code[j].to # t) <=> \A j \in 1 .. i - 1 : code[j].to # t
    BY <2>1
  <2> QED
    BY <1>5, <2>2 DEF ReadIn
<1>7. \A t : t \in FoldRight(LiveBefore, code, below) <=>
                  \/ ReadIn(code, DOMAIN code, t)
                  \/ t \in below /\ \A i \in DOMAIN code : code[i].to # t
  BY <1>1, LiveAboveCode
<1>8. \A t : t \in below <=> t \in LiveOut(f, in, b) \/ t \in Temps(<<arg>>)
  BY DEF LiveAtJump
<1>9. ASSUME NEW t
      PROVE  t \in ReadFirst(f, b) <=>
                \/ ReadIn(code, DOMAIN code, t)
                \/ t \in Temps(<<arg>>) /\ \A i \in DOMAIN code : code[i].to # t
  <2>1. t \in Temps(<<arg>>) => t \in 1 .. f.temps
    BY <1>1, <1>2, <1>3
  <2> QED
    BY <1>6, <2>1 DEF ReadFirst
<1>10. \A t : t \in Written(f, b) <=> (t \in PhiResults(f, b) \/ ~ \A i \in DOMAIN code : code[i].to # t)
  BY DEF Written
<1>11. \A t : t \in LiveAbove(f, in, b) <=> t \in FoldRight(LiveBefore, code, below) /\ t \notin PhiResults(f, b)
  BY DEF LiveAbove
<1> QED
  BY <1>7, <1>8, <1>9, <1>10, <1>11

(***************************************************************************)
(* The loop of CFG.Liveness.                                               *)
(***************************************************************************)
LiveMaps(f) == [Blocks(f) -> SUBSET (1 .. f.temps)]
NoneLive(f) == [b \in Blocks(f) |-> {}]

\* The phis of a block read temporaries.
LEMMA EdgeUsesAreTemps ==
  ASSUME NEW f, WellFormed(f), NEW b, NEW s \in Blocks(f)
  PROVE  EdgeUses(f, b, s) \subseteq 1 .. f.temps
<1> SUFFICES ASSUME NEW t \in EdgeUses(f, b, s) PROVE t \in 1 .. f.temps
  OBVIOUS
<1>1. PICK p \in ToSet(f.phis[s]) : t \in {p.args[k] : k \in {j \in DOMAIN p.from : p.from[j] = b}} \ {0}
  BY DEF EdgeUses
<1>2. PICK k \in DOMAIN p.from : t = p.args[k] /\ t # 0
  BY <1>1
<1>3. f.phis[s] \in Seq(Phis(Blocks(f), f.temps)) /\ f.temps \in Nat
  BY Parts
<1>4. p \in Phis(Blocks(f), f.temps)
  BY <1>1, <1>3, SeqMember DEF ToSet
<1>5. p.from \in Seq(Blocks(f)) /\ p.args \in Seq(0 .. f.temps) /\ Len(p.from) = Len(p.args)
  BY <1>4 DEF Phis
<1>6. t \in 0 .. f.temps
  BY <1>2, <1>5, SeqMember
<1> QED
  BY <1>2, <1>3, <1>6

\* What is live at an end is a temporary.
LEMMA LiveOutAreTemps ==
  ASSUME NEW f, WellFormed(f), NEW in \in LiveMaps(f), NEW b \in Blocks(f)
  PROVE  LiveOut(f, in, b) \subseteq 1 .. f.temps
<1>1. \A s \in Succs(f, b) : s \in Blocks(f) /\ in[s] \subseteq 1 .. f.temps /\ EdgeUses(f, b, s) \subseteq 1 .. f.temps
  BY Parts, EdgeUsesAreTemps DEF LiveMaps
<1> QED
  BY <1>1 DEF LiveOut

\* A round keeps the sets sets of temporaries, and only adds to them.
LEMMA RoundStays ==
  ASSUME NEW f, WellFormed(f), NEW in \in LiveMaps(f)
  PROVE  Round(f, in) \in LiveMaps(f) /\ \A b \in Blocks(f) : in[b] \subseteq Round(f, in)[b]
<1>1. ASSUME NEW b \in Blocks(f) PROVE LiveAbove(f, in, b) \subseteq 1 .. f.temps
  <2>1. ReadFirst(f, b) \subseteq 1 .. f.temps
    BY DEF ReadFirst
  <2> QED
    BY <2>1, LiveOutAreTemps, LiveAboveBlock
<1> QED
  BY <1>1 DEF Round, LiveMaps

\* The rounds one after another.
LEMMA RoundsAre ==
  ASSUME NEW f, WellFormed(f), NEW n \in Nat
  PROVE  \E r \in [0 .. n -> LiveMaps(f)] :
           /\ r[0] = NoneLive(f) /\ r[n] = Rounds(f, n)
           /\ \A k \in 1 .. n : r[k] = Round(f, r[k - 1])
<1> DEFINE M == LiveMaps(f)
           base == NoneLive(f)
           Solves(h) == h = [s \in SUBSET (1 .. n) |-> IF s = {} THEN base ELSE Round(f, h[s \ {Max(s)}])]
           G == [x \in M |-> [i \in 1 .. n |-> Round(f, x)]]
<1>1. Rounds(f, n) = (CHOOSE h : Solves(h))[1 .. n]
  BY DEF Rounds, FoldLeft, MapThenFoldSet, NoneLive
<1>2. base \in M /\ \A x \in M : Round(f, x) \in M
  BY RoundStays DEF LiveMaps, NoneLive
<1> HIDE DEF M, base
<1>3. G \in [M -> [1 .. n -> M]] /\ \A x \in M : \A i \in 1 .. n : G[x][i] = Round(f, x)
  BY <1>2
<1> HIDE DEF G
<1>4. PICK g : FoldsUp(base, G, 1 .. n, g) /\ \A s \in SUBSET (1 .. n) : g[s] \in M
  BY <1>2, <1>3, FoldInside
<1>5. \A s \in SUBSET (1 .. n) : s # {} => Max(s) \in 1 .. n
  BY MaxIsMember
<1>6. Solves(g)
  <2>1. \A s \in SUBSET (1 .. n) : s # {} => G[g[s \ {Max(s)}]][Max(s)] = Round(f, g[s \ {Max(s)}])
    BY <1>3, <1>4, <1>5
  <2> QED
    BY <1>4, <2>1 DEF FoldsUp
<1> DEFINE h == CHOOSE h : Solves(h)
<1>7. Solves(h)
  BY <1>6
<1> HIDE DEF h
<1>8. h[{}] = base /\ \A s \in SUBSET (1 .. n) : s # {} => h[s] = Round(f, h[s \ {Max(s)}])
  BY <1>7
<1>9. Unfolds(n, M, base, G, h)
  BY <1>3, <1>5, <1>8 DEF Unfolds
<1> HIDE DEF Solves
<1>10. PICK r : Passes(n, M, base, G, h[1 .. n], r)
  BY <1>2, <1>3, <1>9, StepsOf
<1>11. \A k \in 1 .. n : r[k] = Round(f, r[k - 1])
  <2>1. \A k \in 1 .. n : k - 1 \in 0 .. n
    OBVIOUS
  <2> QED
    BY <1>3, <1>10, <2>1 DEF Passes
<1> QED
  BY <1>1, <1>10, <1>11 DEF M, base, h, Passes

\* Each round takes up where the one before stopped.
LEMMA RoundsUnfold ==
  ASSUME NEW f, WellFormed(f)
  PROVE  /\ Rounds(f, 0) = NoneLive(f)
         /\ \A n \in Nat : Rounds(f, n) \in LiveMaps(f) /\ Rounds(f, n + 1) = Round(f, Rounds(f, n))
<1>1. Rounds(f, 0) = NoneLive(f)
  <2>1. PICK r \in [0 .. 0 -> LiveMaps(f)] : r[0] = NoneLive(f) /\ r[0] = Rounds(f, 0)
    BY RoundsAre
  <2> QED
    BY <2>1
<1>2. ASSUME NEW n \in Nat
      PROVE  Rounds(f, n) \in LiveMaps(f) /\ Rounds(f, n + 1) = Round(f, Rounds(f, n))
  <2> DEFINE g == [x \in LiveMaps(f) |-> Round(f, x)]
  <2>0. n + 1 \in Nat /\ n <= n + 1 /\ n \in 0 .. n /\ n + 1 \in 1 .. n + 1 /\ n + 1 - 1 = n
    OBVIOUS
  <2>1. PICK r \in [0 .. n -> LiveMaps(f)] :
           /\ r[0] = NoneLive(f) /\ r[n] = Rounds(f, n)
           /\ \A k \in 1 .. n : r[k] = Round(f, r[k - 1])
    BY RoundsAre
  <2>2. PICK q \in [0 .. n + 1 -> LiveMaps(f)] :
           /\ q[0] = NoneLive(f) /\ q[n + 1] = Rounds(f, n + 1)
           /\ \A k \in 1 .. n + 1 : q[k] = Round(f, q[k - 1])
    BY <2>0, RoundsAre
  <2>3. Steps(n, g, r) /\ Steps(n + 1, g, q)
    <3>1. (\A k \in 1 .. n : k - 1 \in 0 .. n) /\ \A k \in 1 .. n + 1 : k - 1 \in 0 .. n + 1
      OBVIOUS
    <3> QED
      BY <2>1, <2>2, <3>1 DEF Steps
  <2> HIDE DEF g
  <2>4. \A k \in 0 .. n : r[k] = q[k]
    BY <2>0, <2>1, <2>2, <2>3, SameSteps
  <2> QED
    BY <2>0, <2>1, <2>2, <2>4
<1> QED
  BY <1>1, <1>2

\* The loop ends: some round adds nothing, and no more rounds are needed than there
\* are temporaries and blocks to put them in.
THEOREM LoopEnds ==
  ASSUME NEW f, WellFormed(f)
  PROVE  /\ Settled(f) \in 0 .. Cardinality(Blocks(f)) * f.temps
         /\ Liveness(f) \in LiveMaps(f) /\ Round(f, Liveness(f)) = Liveness(f)
<1> DEFINE B == Blocks(f)
           T == 1 .. f.temps
           n == Cardinality(B) * f.temps
           Held(in) == {p \in B \X T : p[2] \in in[p[1]]}
           P == [k \in 0 .. n + 1 |-> Held(Rounds(f, k))]
<1>1. f.temps \in Nat /\ IsFiniteSet(B) /\ Cardinality(B) \in Nat
  BY Parts, BlocksAreFinite
<1>2. IsFiniteSet(T) /\ Cardinality(T) = f.temps
  <2> DEFINE m == f.temps
  <2>1. m \in Nat
    BY <1>1
  <2> HIDE DEF m
  <2>2. IsFiniteSet(1 .. m) /\ Cardinality(1 .. m) = m
    BY <2>1, FS_Interval
  <2> QED
    BY <2>2 DEF m
<1>3. IsFiniteSet(B \X T) /\ Cardinality(B \X T) = n /\ n \in Nat
  <2>1. IsFiniteSet(B \X T) /\ Cardinality(B \X T) = n
    BY <1>1, <1>2, FS_Product
  <2> QED
    BY <1>1, <2>1
<1> HIDE DEF n
<1>4. \A k \in Nat : Rounds(f, k) \in LiveMaps(f) /\ Rounds(f, k + 1) = Round(f, Rounds(f, k))
  BY RoundsUnfold
<1>5. \A in \in LiveMaps(f) : Held(in) \subseteq Held(Round(f, in))
  BY RoundStays
<1>6. \A in \in LiveMaps(f), out \in LiveMaps(f) : Held(in) = Held(out) => in = out
  <2> SUFFICES ASSUME NEW in \in LiveMaps(f), NEW out \in LiveMaps(f), Held(in) = Held(out)
               PROVE  in = out
    OBVIOUS
  <2>1. ASSUME NEW b \in B PROVE in[b] = out[b]
    <3>1. in[b] \subseteq T /\ out[b] \subseteq T
      BY DEF LiveMaps
    <3>2. \A t \in T : t \in in[b] <=> <<b, t>> \in Held(in)
      OBVIOUS
    <3>3. \A t \in T : t \in out[b] <=> <<b, t>> \in Held(out)
      OBVIOUS
    <3> HIDE DEF Held
    <3> QED
      BY <3>1, <3>2, <3>3
  <2> QED
    BY <2>1 DEF LiveMaps
<1>7. \A k \in 0 .. n : k \in Nat /\ k + 1 \in Nat /\ k \in 0 .. n + 1 /\ k + 1 \in 0 .. n + 1
  BY <1>3
<1>8. (\A k \in 0 .. n + 1 : P[k] \subseteq B \X T) /\ \A k \in 0 .. n : P[k] \subseteq P[k + 1]
  <2>1. \A k \in 0 .. n + 1 : P[k] \subseteq B \X T
    OBVIOUS
  <2> HIDE DEF Held
  <2> QED
    BY <1>4, <1>5, <1>7, <2>1
<1>9. PICK k \in 0 .. n : P[k + 1] = P[k]
  <2> HIDE DEF P, B, T
  <2> QED
    BY <1>3, <1>8, GrowthStops
<1>10. Round(f, Rounds(f, k)) = Rounds(f, k)
  <2>1. Held(Rounds(f, k + 1)) = Held(Rounds(f, k))
    BY <1>7, <1>9
  <2> HIDE DEF Held
  <2>2. Rounds(f, k + 1) = Rounds(f, k)
    BY <1>4, <1>6, <1>7, <2>1
  <2> QED
    BY <1>4, <1>7, <2>2
<1>11. Settled(f) \in 0 .. n /\ Round(f, Rounds(f, Settled(f))) = Rounds(f, Settled(f))
  BY <1>10 DEF Settled, n
<1> QED
  BY <1>4, <1>7, <1>11 DEF Liveness, n

(***************************************************************************)
(* Where control may come without t being written.                         *)
(***************************************************************************)

\* g adds to the subsets of S.
Adds(S, g) == g \in [SUBSET S -> SUBSET S] /\ \A T \in SUBSET S : T \subseteq g[T]

\* Steps that add to a set inside a finite one, as many as it has members or more,
\* come to a set that the next step leaves alone.
LEMMA StepsSettle ==
  ASSUME NEW S, IsFiniteSet(S), NEW n \in Nat, Cardinality(S) <= n,
         NEW g, Adds(S, g), NEW r \in [0 .. n -> SUBSET S], Steps(n, g, r)
  PROVE  g[r[n]] = r[n]
<1> USE DEF Adds
<1> DEFINE P == [k \in 0 .. n + 1 |-> IF k <= n THEN r[k] ELSE g[r[n]]]
<1>0. n \in 0 .. n /\ \A k \in 0 .. n : /\ k \in 0 .. n + 1 /\ k + 1 \in 0 .. n + 1
                                        /\ k < n => k + 1 \in 1 .. n /\ k + 1 - 1 = k
                                        /\ ~(k < n) => k = n /\ ~(k + 1 <= n)
  OBVIOUS
<1>1. \A k \in 0 .. n : r[k] \subseteq S /\ g[r[k]] \subseteq S /\ r[k] \subseteq g[r[k]]
  OBVIOUS
<1>2. \A k \in 0 .. n : P[k] = r[k] /\ P[k + 1] = g[r[k]]
  <2> SUFFICES ASSUME NEW k \in 0 .. n PROVE P[k] = r[k] /\ P[k + 1] = g[r[k]]
    OBVIOUS
  <2>1. P[k] = r[k]
    BY <1>0
  <2>2. CASE k < n
    <3>1. P[k + 1] = r[k + 1] /\ r[k + 1] = g[r[k]]
      BY <1>0, <2>2 DEF Steps
    <3> QED
      BY <2>1, <3>1
  <2>3. CASE ~(k < n)
    BY <1>0, <2>1, <2>3
  <2> QED
    BY <2>2, <2>3
<1>3. (\A k \in 0 .. n + 1 : P[k] \subseteq S) /\ \A k \in 0 .. n : P[k] \subseteq P[k + 1]
  <2>1. \A k \in 0 .. n + 1 : P[k] \subseteq S
    BY <1>0, <1>1
  <2> HIDE DEF P
  <2> QED
    BY <1>1, <1>2, <2>1
<1> HIDE DEF P
<1>4. PICK k \in 0 .. n : P[k + 1] = P[k]
  BY <1>3, GrowthStops
<1>5. g[r[k]] = r[k]
  BY <1>2, <1>4
<1> DEFINE C == {j \in 0 .. n : k <= j /\ r[j] # r[k]}
<1>6. C = {}
  <2> SUFFICES ASSUME C # {} PROVE FALSE
    OBVIOUS
  <2>1. Min(C) \in C /\ \A y \in C : Min(C) <= y
    <3>1. C \in SUBSET Nat
      OBVIOUS
    <3> HIDE DEF C
    <3> QED
      BY <3>1, LeastNatural
  <2>2. PICK j \in C : \A y \in C : j <= y
    BY <2>1
  <2>3. j \in 1 .. n /\ k <= j - 1 /\ j - 1 \in 0 .. n /\ j - 1 \notin C
    BY <2>2
  <2>4. r[j - 1] = r[k]
    BY <2>3
  <2>5. r[j] = g[r[j - 1]]
    BY <2>3 DEF Steps
  <2> QED
    BY <1>5, <2>2, <2>4, <2>5
<1>7. r[n] = r[k]
  BY <1>0, <1>6
<1> QED
  BY <1>5, <1>7

\* One more edge.
Widen(f, t, S) == S \cup {s \in UNION {Succs(f, c) : c \in S} : t \notin Written(f, s)}

\* No edge leads out of S without a write of t.
Shut(f, t, S) == \A c \in S : \A s \in Succs(f, c) : t \notin Written(f, s) => s \in S

\* Unwritten is what can be reached, and only that.
LEMMA UnwrittenIsLeast ==
  ASSUME NEW f, WellFormed(f), NEW t, NEW b \in Blocks(f)
  PROVE  /\ Unwritten(f, t, b) \in SUBSET Blocks(f) /\ b \in Unwritten(f, t, b)
         /\ Shut(f, t, Unwritten(f, t, b))
         /\ \A T : b \in T /\ Shut(f, t, T) => Unwritten(f, t, b) \subseteq T
<1> DEFINE B == Blocks(f)
           M == SUBSET B
           n == Len(f.order)
           Solves(h) == h = [s \in SUBSET (1 .. n) |-> IF s = {} THEN {b} ELSE Widen(f, t, h[s \ {Max(s)}])]
           G == [x \in M |-> [i \in 1 .. n |-> Widen(f, t, x)]]
           g == [x \in M |-> Widen(f, t, x)]
<1>0. n \in Nat /\ DOMAIN f.order = 1 .. n
  BY Parts
<1>1. Unwritten(f, t, b) = (CHOOSE h : Solves(h))[1 .. n]
  BY <1>0 DEF Unwritten, Widen, FoldLeft, MapThenFoldSet
<1>2. {b} \in M /\ \A x \in M : Widen(f, t, x) \in M /\ x \subseteq Widen(f, t, x)
  BY Parts DEF Widen
<1>a. IsFiniteSet(B) /\ Cardinality(B) <= n
  BY BlocksAreFinite
<1> HIDE DEF n
<1>3. G \in [M -> [1 .. n -> M]] /\ \A x \in M : \A i \in 1 .. n : G[x][i] = Widen(f, t, x)
  BY <1>2
<1>b. g \in [M -> M] /\ \A x \in M : g[x] = Widen(f, t, x)
  BY <1>2
<1> HIDE DEF M, G, g
<1>4. PICK q : FoldsUp({b}, G, 1 .. n, q) /\ \A s \in SUBSET (1 .. n) : q[s] \in M
  BY <1>0, <1>2, <1>3, FoldInside
<1>5. \A s \in SUBSET (1 .. n) : s # {} => Max(s) \in 1 .. n
  BY <1>0, MaxIsMember
<1>6. Solves(q)
  <2>1. \A s \in SUBSET (1 .. n) : s # {} => G[q[s \ {Max(s)}]][Max(s)] = Widen(f, t, q[s \ {Max(s)}])
    BY <1>3, <1>4, <1>5
  <2> QED
    BY <1>4, <2>1 DEF FoldsUp
<1> DEFINE h == CHOOSE h : Solves(h)
<1>7. Solves(h)
  BY <1>6
<1> HIDE DEF h
<1>8. h[{}] = {b} /\ \A s \in SUBSET (1 .. n) : s # {} => h[s] = Widen(f, t, h[s \ {Max(s)}])
  BY <1>7
<1>9. Unfolds(n, M, {b}, G, h)
  BY <1>3, <1>5, <1>8 DEF Unfolds
<1> HIDE DEF Solves
<1>10. PICK r : Passes(n, M, {b}, G, h[1 .. n], r)
  BY <1>0, <1>2, <1>3, <1>9, StepsOf
<1>11. r \in [0 .. n -> M] /\ r[0] = {b} /\ r[n] = Unwritten(f, t, b) /\ n \in 0 .. n
  BY <1>0, <1>1, <1>10 DEF Passes, h
<1>12. \A k \in 1 .. n : k - 1 \in 0 .. n /\ r[k] = Widen(f, t, r[k - 1])
  <2>1. \A k \in 1 .. n : k - 1 \in 0 .. n
    BY <1>0
  <2> QED
    BY <1>3, <1>10, <1>11, <2>1 DEF Passes
<1>13. Steps(n, g, r)
  BY <1>b, <1>11, <1>12 DEF Steps
<1>14. Widen(f, t, r[n]) = r[n]
  <2>1. Adds(B, g)
    BY <1>2, <1>b DEF M, Adds
  <2>2. g[r[n]] = r[n]
    <3> HIDE DEF B
    <3> QED
      BY <1>0, <1>a, <1>11, <1>13, <2>1, StepsSettle DEF M
  <2> QED
    BY <1>b, <1>11, <2>2
<1>15. r[n] \in SUBSET B /\ Shut(f, t, r[n])
  BY <1>11, <1>14 DEF Shut, Widen, M
<1>16. ASSUME NEW T, b \in T, Shut(f, t, T) PROVE \A k \in 0 .. n : r[k] \subseteq T
  <2> DEFINE C == {k \in 0 .. n : ~(r[k] \subseteq T)}
  <2> SUFFICES ASSUME C # {} PROVE FALSE
    OBVIOUS
  <2>1. Min(C) \in C /\ \A y \in C : Min(C) <= y
    <3>1. C \in SUBSET Nat
      BY <1>0
    <3> HIDE DEF C
    <3> QED
      BY <3>1, LeastNatural
  <2>2. PICK k \in C : \A y \in C : k <= y
    BY <2>1
  <2>3. k # 0
    BY <1>11, <1>16, <2>2
  <2>4. k \in 1 .. n /\ k - 1 \in 0 .. n /\ k - 1 \notin C
    BY <1>0, <2>2, <2>3
  <2>5. r[k - 1] \subseteq T
    BY <2>4
  <2>6. Widen(f, t, r[k - 1]) \subseteq T
    BY <1>16, <2>5 DEF Widen, Shut
  <2> QED
    BY <1>12, <2>2, <2>4, <2>6
<1>17. b \in r[n]
  <2>1. r[n] = Unwritten(f, t, b)
    BY <1>11
  <2> DEFINE C == {k \in 0 .. n : b \notin r[k]}
  <2> SUFFICES ASSUME C # {} PROVE FALSE
    BY <1>11
  <2>2. Min(C) \in C /\ \A y \in C : Min(C) <= y
    <3>1. C \in SUBSET Nat
      BY <1>0
    <3> HIDE DEF C
    <3> QED
      BY <3>1, LeastNatural
  <2>3. PICK k \in C : \A y \in C : k <= y
    BY <2>2
  <2>4. k # 0
    BY <1>11, <2>3
  <2>5. k \in 1 .. n /\ k - 1 \in 0 .. n /\ k - 1 \notin C
    BY <1>0, <2>3, <2>4
  <2> QED
    BY <1>12, <2>3, <2>5 DEF Widen
<1> QED
  BY <1>11, <1>15, <1>16, <1>17

(***************************************************************************)
(* Exactness.                                                              *)
(***************************************************************************)

\* On entry to s, t is read before it is written, in s or after it.
Needed(f, t, s) ==
  /\ t \notin PhiResults(f, s)
  /\ t \in ReadFirst(f, s) \/ (t \notin Written(f, s) /\ ReadAfter(f, t, s))

\* What a successor needs is read after the block.
LEMMA NeededIsRead ==
  ASSUME NEW f, WellFormed(f), NEW b \in Blocks(f), NEW s \in Succs(f, b), NEW t, Needed(f, t, s)
  PROVE  ReadAfter(f, t, b)
<1>1. b \in Unwritten(f, t, b) /\ Shut(f, t, Unwritten(f, t, b)) /\ s \in Blocks(f)
  BY UnwrittenIsLeast, Parts
<1>2. CASE t \in ReadFirst(f, s)
  BY <1>1, <1>2 DEF ReadAfter, ReadNext, Needed
<1>3. CASE t \notin Written(f, s) /\ ReadAfter(f, t, s)
  <2>1. s \in Unwritten(f, t, b)
    BY <1>1, <1>3 DEF Shut
  <2>2. Unwritten(f, t, s) \subseteq Unwritten(f, t, b)
    BY <1>1, <2>1, UnwrittenIsLeast
  <2> QED
    BY <1>3, <2>2 DEF ReadAfter
<1> QED
  BY <1>2, <1>3 DEF Needed

\* Every set holds what is needed only.
Sound(f, in) == \A s \in Blocks(f) : \A t \in in[s] : Needed(f, t, s)

\* What sound sets put at the end of a block is read after it.
LEMMA SoundLiveOut ==
  ASSUME NEW f, WellFormed(f), NEW in, Sound(f, in), NEW b \in Blocks(f), NEW t \in LiveOut(f, in, b)
  PROVE  ReadAfter(f, t, b)
<1>1. PICK s \in Succs(f, b) : t \in in[s] \/ t \in EdgeUses(f, b, s)
  BY DEF LiveOut
<1>2. CASE t \in in[s]
  <2>1. s \in Blocks(f)
    BY Parts
  <2>2. Needed(f, t, s)
    BY <1>2, <2>1 DEF Sound
  <2> QED
    BY <2>2, NeededIsRead
<1>3. CASE t \in EdgeUses(f, b, s)
  <2>1. b \in Unwritten(f, t, b)
    BY UnwrittenIsLeast
  <2> QED
    BY <1>3, <2>1 DEF ReadAfter, ReadNext
<1> QED
  BY <1>1, <1>2, <1>3

\* A round keeps the sets sound.
LEMMA RoundIsSound ==
  ASSUME NEW f, WellFormed(f), NEW in, Sound(f, in)
  PROVE  Sound(f, Round(f, in))
<1> SUFFICES ASSUME NEW s \in Blocks(f), NEW t \in Round(f, in)[s] PROVE Needed(f, t, s)
  BY DEF Sound
<1>1. t \in in[s] \/ t \in LiveAbove(f, in, s)
  BY DEF Round
<1>2. CASE t \in in[s]
  BY <1>2 DEF Sound
<1>3. CASE t \in LiveAbove(f, in, s)
  <2>1. /\ t \notin PhiResults(f, s)
        /\ t \in ReadFirst(f, s) \/ (t \in LiveOut(f, in, s) /\ t \notin Written(f, s))
    BY <1>3, LiveAboveBlock
  <2>2. t \in LiveOut(f, in, s) => ReadAfter(f, t, s)
    BY SoundLiveOut
  <2> QED
    BY <2>1, <2>2 DEF Needed
<1> QED
  BY <1>1, <1>2, <1>3

\* So every round's sets are sound.
LEMMA RoundsAreSound ==
  ASSUME NEW f, WellFormed(f)
  PROVE  \A n \in Nat : Sound(f, Rounds(f, n))
<1> DEFINE C == {n \in Nat : ~Sound(f, Rounds(f, n))}
<1> SUFFICES ASSUME C # {} PROVE FALSE
  OBVIOUS
<1>1. Min(C) \in C /\ \A y \in C : Min(C) <= y
  <2>1. C \in SUBSET Nat
    OBVIOUS
  <2> HIDE DEF C
  <2> QED
    BY <2>1, LeastNatural
<1>2. PICK n \in C : \A y \in C : n <= y
  BY <1>1
<1>3. n # 0
  <2>1. Sound(f, Rounds(f, 0))
    BY RoundsUnfold DEF Sound, NoneLive
  <2> QED
    BY <1>2, <2>1
<1>4. n - 1 \in Nat /\ n - 1 \notin C /\ n - 1 + 1 = n
  BY <1>2, <1>3
<1>5. Rounds(f, n) = Round(f, Rounds(f, n - 1))
  BY <1>4, RoundsUnfold
<1>6. Sound(f, Rounds(f, n - 1))
  BY <1>4
<1> QED
  BY <1>2, <1>5, <1>6, RoundIsSound

\* The sets the loop ends with miss nothing.
LEMMA SettledIsComplete ==
  ASSUME NEW f, WellFormed(f), NEW in, Round(f, in) = in,
         NEW b \in Blocks(f), NEW t, ReadAfter(f, t, b)
  PROVE  t \in LiveOut(f, in, b)
<1> DEFINE T == {c \in Blocks(f) : t \in LiveOut(f, in, c) => t \in LiveOut(f, in, b)}
<1>1. \A s \in Blocks(f) : LiveAbove(f, in, s) \subseteq in[s]
  BY DEF Round
<1>2. ASSUME NEW c \in Blocks(f), NEW s \in Succs(f, c), t \in LiveAbove(f, in, s)
      PROVE  t \in LiveOut(f, in, c)
  <2>1. s \in Blocks(f)
    BY Parts
  <2> QED
    BY <1>1, <1>2, <2>1 DEF LiveOut
<1>3. Shut(f, t, T)
  <2> SUFFICES ASSUME NEW c \in T, NEW s \in Succs(f, c), t \notin Written(f, s) PROVE s \in T
    BY DEF Shut
  <2>1. s \in Blocks(f) /\ c \in Blocks(f)
    BY Parts
  <2>2. t \notin PhiResults(f, s)
    BY DEF Written
  <2>3. t \in LiveOut(f, in, s) => t \in LiveAbove(f, in, s)
    BY <2>1, <2>2, LiveAboveBlock
  <2> QED
    BY <1>2, <2>1, <2>3
<1>4. b \in T
  OBVIOUS
<1> HIDE DEF T
<1>5. Unwritten(f, t, b) \subseteq T /\ Unwritten(f, t, b) \subseteq Blocks(f)
  BY <1>3, <1>4, UnwrittenIsLeast
<1>6. PICK c \in Unwritten(f, t, b) : ReadNext(f, t, c)
  BY DEF ReadAfter
<1>7. t \in LiveOut(f, in, c)
  <2>1. PICK s \in Succs(f, c) : t \in EdgeUses(f, c, s) \/ (t \notin PhiResults(f, s) /\ t \in ReadFirst(f, s))
    BY <1>6 DEF ReadNext
  <2>2. CASE t \in EdgeUses(f, c, s)
    BY <2>2 DEF LiveOut
  <2>3. CASE t \notin PhiResults(f, s) /\ t \in ReadFirst(f, s)
    <3>1. c \in Blocks(f) /\ s \in Blocks(f)
      BY <1>5, Parts
    <3>2. t \in LiveAbove(f, in, s)
      BY <2>3, <3>1, LiveAboveBlock
    <3> QED
      BY <1>2, <3>1, <3>2
  <2> QED
    BY <2>1, <2>2, <2>3
<1> QED
  BY <1>5, <1>7 DEF T

\* For every well-formed function: at the end of a block is live exactly what is read
\* on some path from there before it is written.
LEMMA ExactLiveness ==
  ASSUME NEW f, WellFormed(f), NEW b \in Blocks(f)
  PROVE  LiveOut(f, Liveness(f), b) = {t \in 1 .. f.temps : ReadAfter(f, t, b)}
<1>1. Liveness(f) \in LiveMaps(f) /\ Round(f, Liveness(f)) = Liveness(f) /\ Settled(f) \in Nat
  <2>1. f.temps \in Nat /\ Cardinality(Blocks(f)) \in Nat
    BY Parts, BlocksAreFinite
  <2>2. Cardinality(Blocks(f)) * f.temps \in Nat
    BY <2>1
  <2> QED
    BY <2>2, LoopEnds
<1>2. Sound(f, Liveness(f))
  BY <1>1, RoundsAreSound DEF Liveness
<1>3. \A t \in LiveOut(f, Liveness(f), b) : t \in 1 .. f.temps /\ ReadAfter(f, t, b)
  BY <1>1, <1>2, SoundLiveOut, LiveOutAreTemps
<1>4. \A t : ReadAfter(f, t, b) => t \in LiveOut(f, Liveness(f), b)
  BY <1>1, SettledIsComplete
<1> QED
  BY <1>3, <1>4

(***************************************************************************)
(* The passes before CoalescePhis keep a function well formed.             *)
(***************************************************************************)

\* A sequence of numbers is bounded.
LEMMA SeqBounded ==
  ASSUME NEW q \in Seq(Nat)
  PROVE  \E m \in Nat : \A i \in 1 .. Len(q) : q[i] <= m
<1> DEFINE n == Len(q)
           Bounds(k, m) == \A i \in 1 .. k : q[i] <= m
           C == {k \in 0 .. n : ~ \E m \in Nat : Bounds(k, m)}
<1>1. n \in Nat /\ \A i \in 1 .. n : q[i] \in Nat
  OBVIOUS
<1> HIDE DEF n
<1>2. C = {}
  <2> SUFFICES ASSUME C # {} PROVE FALSE
    OBVIOUS
  <2>1. Min(C) \in C /\ \A y \in C : Min(C) <= y
    <3>1. C \in SUBSET Nat
      BY <1>1
    <3> HIDE DEF C
    <3> QED
      BY <3>1, LeastNatural
  <2>2. PICK k \in C : \A y \in C : k <= y
    BY <2>1
  <2>3. Bounds(0, 0)
    OBVIOUS
  <2>4. k # 0
    BY <2>2, <2>3
  <2>5. k \in 1 .. n /\ k - 1 \in 0 .. n /\ ~(k <= k - 1)
    BY <1>1, <2>2, <2>4
  <2>6. k - 1 \notin C
    BY <2>2, <2>5
  <2>7. PICK m \in Nat : Bounds(k - 1, m)
    BY <2>5, <2>6
  <2> DEFINE x == q[k]
             top == IF x <= m THEN m ELSE x
  <2>8. x \in Nat
    BY <1>1, <2>5
  <2> HIDE DEF x
  <2>9. top \in Nat /\ m <= top /\ x <= top
    BY <2>8
  <2> HIDE DEF top
  <2>10. Bounds(k, top)
    <3> SUFFICES ASSUME NEW i \in 1 .. k PROVE q[i] <= top
      OBVIOUS
    <3>1. CASE i = k
      BY <2>9, <3>1 DEF x
    <3>2. CASE i # k
      <4>1. i \in 1 .. k - 1 /\ i \in 1 .. n
        BY <1>1, <2>5, <3>2
      <4>2. q[i] <= m /\ q[i] \in Nat
        BY <1>1, <2>7, <4>1
      <4> DEFINE y == q[i]
      <4>3. y <= m /\ y \in Nat
        BY <4>2
      <4> HIDE DEF y
      <4>4. y <= top
        BY <2>9, <4>3
      <4> QED
        BY <4>4 DEF y
    <3> QED
      BY <3>1, <3>2
  <2> QED
    BY <2>2, <2>9, <2>10
<1>3. n \in 0 .. n
  BY <1>1
<1>4. \E m \in Nat : Bounds(n, m)
  BY <1>2, <1>3
<1> QED
  BY <1>4 DEF n

\* The last block is numbered.
LEMMA LastBlock ==
  ASSUME NEW f, f.order \in Seq(Nat), f.order # <<>>
  PROVE  /\ NewBlock(f) - 1 \in Blocks(f) /\ NewBlock(f) - 1 \in Nat
         /\ \A b \in Blocks(f) : b \in Nat /\ b <= NewBlock(f) - 1
<1> DEFINE q == f.order
<1>1. q \in Seq(Nat) /\ q # <<>> /\ Blocks(f) = ToSet(q)
  BY DEF Blocks
<1> HIDE DEF q
<1>2. DOMAIN q = 1 .. Len(q) /\ 1 \in 1 .. Len(q) /\ \A i \in 1 .. Len(q) : q[i] \in Nat
  BY <1>1
<1>3. PICK m \in Nat : \A i \in 1 .. Len(q) : q[i] <= m
  BY <1>1, SeqBounded
<1>4. Blocks(f) \in SUBSET Nat /\ Blocks(f) # {} /\ \A y \in Blocks(f) : y <= m
  BY <1>1, <1>2, <1>3 DEF ToSet
<1>5. Max(Blocks(f)) \in Blocks(f) /\ \A y \in Blocks(f) : y <= Max(Blocks(f))
  BY <1>4, GreatestNatural
<1>6. NewBlock(f) - 1 = Max(Blocks(f))
  BY <1>4, <1>5 DEF NewBlock
<1> QED
  BY <1>4, <1>5, <1>6

\* More blocks and more temporaries take nothing away.
LEMMA Wider ==
  ASSUME NEW B, NEW n \in Nat, NEW C, B \subseteq C, NEW m \in Nat, n <= m
  PROVE  /\ Seq(Phis(B, n)) \subseteq Seq(Phis(C, m))
         /\ Seq(Instrs(n)) \subseteq Seq(Instrs(m))
         /\ Jumps(B, n) \subseteq Jumps(C, m)
<1>1. 0 .. n \subseteq 0 .. m /\ Seq(0 .. n) \subseteq Seq(0 .. m) /\ Seq(B) \subseteq Seq(C)
  OBVIOUS
<1>2. Phis(B, n) \subseteq Phis(C, m)
  BY <1>1 DEF Phis
<1>3. Instrs(n) \subseteq Instrs(m)
  BY <1>1 DEF Instrs
<1>4. Jumps(B, n) \subseteq Jumps(C, m)
  BY <1>1 DEF Jumps
<1> QED
  BY <1>2, <1>3, <1>4

\* New blocks, whose jumps and the jumps to which name blocks there are by then.
Fitting(f, code, jmp, B) ==
  /\ f.order \in Seq(Nat) /\ f.order # <<>> /\ f.temps \in Nat /\ Len(code) \in Nat
  /\ B = Blocks(f) \cup {NewBlock(f) - 1 + i : i \in 1 .. Len(code)}
  /\ f.phis \in [Blocks(f) -> Seq(Phis(B, f.temps))]
  /\ f.code \in [Blocks(f) -> Seq(Instrs(f.temps))]
  /\ f.jmp \in [Blocks(f) -> Jumps(B, f.temps)]
  /\ \A i \in 1 .. Len(code) : code[i] \in Seq(Instrs(f.temps)) /\ jmp[i] \in Jumps(B, f.temps)

LEMMA AppendBlocks ==
  ASSUME NEW f, NEW code, NEW jmp, NEW B, Fitting(f, code, jmp, B)
  PROVE  LET g == WithBlocks(f, code, jmp)
         IN  /\ WellFormed(g) /\ Blocks(g) = B /\ g.temps = f.temps
             /\ \A b \in Blocks(f) : g.phis[b] = f.phis[b] /\ g.code[b] = f.code[b] /\ g.jmp[b] = f.jmp[b]
<1> DEFINE n == Len(code)
           last == NewBlock(f) - 1
           new == [i \in 1 .. n |-> last + i]
           phis2 == [b \in B |-> IF b \in Blocks(f) THEN f.phis[b] ELSE <<>>]
           code2 == [b \in B |-> IF b \in Blocks(f) THEN f.code[b] ELSE code[b - last]]
           jmp2 == [b \in B |-> IF b \in Blocks(f) THEN f.jmp[b] ELSE jmp[b - last]]
           g == [order |-> f.order \o new, phis |-> phis2, code |-> code2, jmp |-> jmp2, temps |-> f.temps]
<1> USE DEF Fitting
<1>1. last \in Nat /\ (\A b \in Blocks(f) : b \in Nat) /\ n \in Nat
  BY LastBlock
<1>2. WithBlocks(f, code, jmp) = g
  BY DEF WithBlocks
<1>3. new \in Seq(Nat) /\ DOMAIN new = 1 .. n /\ \A i \in 1 .. n : new[i] = last + i
  BY <1>1
<1> DEFINE order2 == f.order \o new
<1>4. order2 \in Seq(Nat) /\ order2 # <<>>
  BY <1>3
<1>5. ToSet(order2) = B
  <2>1. ToSet(order2) = ToSet(f.order) \cup ToSet(new)
    <3>1. Len(order2) = Len(f.order) + n /\ DOMAIN order2 = 1 .. Len(f.order) + n
      BY <1>1, <1>3
    <3>2. \A i \in 1 .. Len(f.order) : i \in DOMAIN order2 /\ order2[i] = f.order[i]
      BY <1>1, <1>3, <3>1
    <3>3. \A i \in 1 .. n : Len(f.order) + i \in DOMAIN order2 /\ order2[Len(f.order) + i] = new[i]
      BY <1>1, <1>3, <3>1
    <3>4. \A j \in DOMAIN order2 : j \in 1 .. Len(f.order) \/ \E i \in 1 .. n : j = Len(f.order) + i
      <4> SUFFICES ASSUME NEW j \in DOMAIN order2, j \notin 1 .. Len(f.order) PROVE \E i \in 1 .. n : j = Len(f.order) + i
        OBVIOUS
      <4>1. j - Len(f.order) \in 1 .. n /\ j = Len(f.order) + (j - Len(f.order))
        BY <1>1, <3>1
      <4> QED
        BY <4>1
    <3>5. DOMAIN f.order = 1 .. Len(f.order)
      OBVIOUS
    <3> HIDE DEF order2, new
    <3>6. \A b : b \in ToSet(order2) => b \in ToSet(f.order) \cup ToSet(new)
      <4> SUFFICES ASSUME NEW j \in DOMAIN order2 PROVE order2[j] \in ToSet(f.order) \cup ToSet(new)
        BY DEF ToSet
      <4>1. CASE j \in 1 .. Len(f.order)
        BY <3>2, <3>5, <4>1 DEF ToSet
      <4>2. CASE \E i \in 1 .. n : j = Len(f.order) + i
        BY <1>3, <3>3, <4>2 DEF ToSet
      <4> QED
        BY <3>4, <4>1, <4>2
    <3>7. \A b : b \in ToSet(f.order) => b \in ToSet(order2)
      BY <3>2, <3>5 DEF ToSet
    <3>8. \A b : b \in ToSet(new) => b \in ToSet(order2)
      BY <1>3, <3>3 DEF ToSet
    <3> QED
      BY <3>6, <3>7, <3>8
  <2>2. ToSet(new) = {last + i : i \in 1 .. n}
    BY <1>3 DEF ToSet
  <2> QED
    BY <2>1, <2>2 DEF Blocks
<1>6. \A b \in B : b \in Blocks(f) \/ b - last \in 1 .. n
  <2> SUFFICES ASSUME NEW b \in B, b \notin Blocks(f) PROVE b - last \in 1 .. n
    OBVIOUS
  <2>1. PICK i \in 1 .. n : b = last + i
    OBVIOUS
  <2> QED
    BY <1>1, <2>1
<1> HIDE DEF last, n, order2
<1>7. phis2 \in [B -> Seq(Phis(B, f.temps))]
  <2>1. <<>> \in Seq(Phis(B, f.temps))
    OBVIOUS
  <2> QED
    BY <2>1
<1>8. code2 \in [B -> Seq(Instrs(f.temps))] /\ jmp2 \in [B -> Jumps(B, f.temps)]
  BY <1>6 DEF n
<1>9. order2 \in Seq(B)
  <2>1. Len(order2) \in Nat /\ DOMAIN order2 = 1 .. Len(order2) /\ order2 = [i \in 1 .. Len(order2) |-> order2[i]]
    BY <1>4
  <2>2. \A i \in 1 .. Len(order2) : order2[i] \in B
    BY <1>5, <2>1 DEF ToSet
  <2>3. \A m \in Nat : \A q \in [1 .. m -> B] : q \in Seq(B)
    OBVIOUS
  <2> QED
    BY <2>1, <2>2, <2>3
<1> QED
  <2>1. g.order = order2 /\ Blocks(g) = B /\ g.temps = f.temps
    BY <1>5 DEF Blocks, order2
  <2>2. g \in Shapes(B, f.temps)
    BY <1>7, <1>8, <1>9 DEF Shapes, order2
  <2>3. WellFormed(g)
    BY <1>4, <2>1, <2>2 DEF WellFormed
  <2>4. \A b \in Blocks(f) : g.phis[b] = f.phis[b] /\ g.code[b] = f.code[b] /\ g.jmp[b] = f.jmp[b]
    OBVIOUS
  <2> QED
    BY <1>2, <2>1, <2>3, <2>4

\* Replacing parts of a function leaves the others.
LEMMA PartReplaced ==
  ASSUME NEW O, NEW P, NEW C, NEW J, NEW T,
         NEW f \in [order : O, phis : P, code : C, jmp : J, temps : T],
         NEW b, NEW x, NEW c, NEW k
  PROVE  /\ LET g == [f EXCEPT !.jmp[b] = x]
            IN  /\ g.order = f.order /\ g.phis = f.phis /\ g.code = f.code /\ g.temps = f.temps
                /\ g.jmp = [f.jmp EXCEPT ![b] = x]
                /\ \A K : g.jmp \in K => g \in [order : O, phis : P, code : C, jmp : K, temps : T]
         /\ LET g == [f EXCEPT !.code[b] = c, !.jmp[b] = x, !.temps = k]
            IN  /\ g.order = f.order /\ g.phis = f.phis /\ g.temps = k
                /\ g.code = [f.code EXCEPT ![b] = c]
                /\ g.jmp = [f.jmp EXCEPT ![b] = x]
<1>1. f = [order |-> f.order, phis |-> f.phis, code |-> f.code, jmp |-> f.jmp, temps |-> f.temps]
  OBVIOUS
<1>2. f.order \in O /\ f.phis \in P /\ f.code \in C /\ f.temps \in T
  OBVIOUS
<1> DEFINE o == f.order
           p == f.phis
           q == f.code
           j == f.jmp
           t == f.temps
<1> HIDE DEF o, p, q, j, t
<1>3. f = [order |-> o, phis |-> p, code |-> q, jmp |-> j, temps |-> t]
  BY <1>1 DEF o, p, q, j, t
<1>4. LET g == [f EXCEPT !.jmp[b] = x]
      IN  /\ g.order = f.order /\ g.phis = f.phis /\ g.code = f.code /\ g.temps = f.temps
          /\ g.jmp = [f.jmp EXCEPT ![b] = x]
          /\ \A K : g.jmp \in K => g \in [order : O, phis : P, code : C, jmp : K, temps : T]
  BY <1>2, <1>3
<1>5. LET g == [f EXCEPT !.code[b] = c, !.jmp[b] = x, !.temps = k]
      IN  /\ g.order = f.order /\ g.phis = f.phis /\ g.temps = k
          /\ g.code = [f.code EXCEPT ![b] = c]
          /\ g.jmp = [f.jmp EXCEPT ![b] = x]
  BY <1>2, <1>3
<1> QED
  BY <1>4, <1>5

LEMMA JumpReplaced ==
  ASSUME NEW f, WellFormed(f), NEW b \in Blocks(f), NEW x \in Jumps(Blocks(f), f.temps)
  PROVE  WellFormed([f EXCEPT !.jmp[b] = x]) /\ Blocks([f EXCEPT !.jmp[b] = x]) = Blocks(f)
<1> DEFINE g == [f EXCEPT !.jmp[b] = x]
           B == Blocks(f)
           t == f.temps
<1>1. /\ t \in Nat /\ f.order \in Seq(Nat) /\ f.order # <<>>
      /\ f.jmp \in [B -> Jumps(B, t)] /\ f \in Shapes(B, t)
  BY Parts DEF WellFormed
<1> HIDE DEF B, t
<1>2. /\ g.order = f.order /\ g.temps = f.temps
      /\ g.jmp = [f.jmp EXCEPT ![b] = x]
      /\ \A K : g.jmp \in K =>
           g \in [order : Seq(B), phis : [B -> Seq(Phis(B, t))], code : [B -> Seq(Instrs(t))],
                  jmp : K, temps : {t}]
  BY <1>1, PartReplaced DEF Shapes
<1>3. x \in Jumps(B, t)
  BY DEF B, t
<1> HIDE DEF g
<1>4. g.jmp \in [B -> Jumps(B, t)]
  BY <1>1, <1>2, <1>3
<1>5. g \in Shapes(B, t)
  BY <1>2, <1>4 DEF Shapes
<1>6. Blocks(g) = B /\ g.temps = t
  BY <1>2 DEF Blocks, B, t
<1>7. WellFormed(g) /\ Blocks(g) = Blocks(f)
  BY <1>1, <1>2, <1>5, <1>6 DEF WellFormed, B
<1> QED
  BY <1>7 DEF g

\* The i-th test of the switch of b, of the n cases after the default.
CaseCount(f, b) == Len(Tail(f.jmp[b].to))
NewBlocks(f, n) == Blocks(f) \cup {NewBlock(f) - 1 + i : i \in 1 .. n}
ElseOf(f, b, i) == IF i = CaseCount(f, b) THEN Head(f.jmp[b].to) ELSE NewBlock(f) + i - 1
CaseJump(f, b, i) ==
  [kind |-> "jnz", arg |-> f.temps + i, to |-> <<Tail(f.jmp[b].to)[i], ElseOf(f, b, i)>>]
FirstTest(f, b) ==
  [f EXCEPT !.code[b] = Append(@, Test(f, b, 1)), !.jmp[b] = CaseJump(f, b, 1),
            !.temps = @ + CaseCount(f, b)]

LEMMA SwitchJump ==
  ASSUME NEW f, WellFormed(f), NEW b \in Blocks(f), f.jmp[b].kind = "switch"
  PROVE  /\ Head(f.jmp[b].to) \in Blocks(f) /\ CaseCount(f, b) \in Nat /\ f.jmp[b].arg \in 0 .. f.temps
         /\ \A i \in 1 .. CaseCount(f, b) : Tail(f.jmp[b].to)[i] \in Blocks(f)
<1>1. f.temps \in Nat /\ f.jmp[b] \in Jumps(Blocks(f), f.temps)
  BY Parts DEF WellFormed
<1>2. f.jmp[b].to \in Seq(Blocks(f)) /\ f.jmp[b].to # <<>> /\ f.jmp[b].arg \in 0 .. f.temps
  BY <1>1 DEF Jumps
<1> DEFINE to == f.jmp[b].to
           cases == Tail(to)
<1> HIDE DEF to
<1>3. to \in Seq(Blocks(f)) /\ to # <<>>
  BY <1>2 DEF to
<1>4. Head(to) \in Blocks(f) /\ cases \in Seq(Blocks(f))
  BY <1>3
<1> HIDE DEF cases
<1>5. Len(cases) \in Nat /\ \A i \in 1 .. Len(cases) : cases[i] \in Blocks(f)
  BY <1>4
<1> QED
  BY <1>2, <1>4, <1>5 DEF CaseCount, to, cases

LEMMA CaseJumps ==
  ASSUME NEW f, WellFormed(f), NEW b \in Blocks(f), f.jmp[b].kind = "switch",
         NEW i \in 1 .. CaseCount(f, b)
  PROVE  /\ CaseJump(f, b, i) \in Jumps(NewBlocks(f, CaseCount(f, b) - 1), f.temps + CaseCount(f, b))
         /\ Test(f, b, i) \in Instrs(f.temps + CaseCount(f, b))
<1> DEFINE n == CaseCount(f, b)
           t == f.temps
           B == NewBlocks(f, n - 1)
           y == ElseOf(f, b, i)
           x == Tail(f.jmp[b].to)[i]
           last == NewBlock(f) - 1
           arg == f.jmp[b].arg
<1>1. n \in Nat /\ t \in Nat /\ x \in Blocks(f) /\ Head(f.jmp[b].to) \in Blocks(f) /\ arg \in 0 .. t
  BY SwitchJump DEF WellFormed
<1>2. last \in Nat /\ f.order \in Seq(Nat) /\ f.order # <<>>
  BY LastBlock DEF WellFormed
<1>3. Max(Blocks(f)) \in Nat
  <2>1. Blocks(f) \in SUBSET Nat /\ Blocks(f) # {} /\ \A c \in Blocks(f) : c <= last
    BY <1>1, <1>2, LastBlock
  <2> HIDE DEF last
  <2> QED
    BY <1>2, <2>1, GreatestNatural
<1>4. NewBlock(f) \in Nat
  BY <1>3 DEF NewBlock
<1> HIDE DEF n, t, x, arg
<1>5. i \in 1 .. n
  BY DEF n
<1>6. y \in B
  <2>1. CASE i = n
    BY <1>1, <2>1 DEF ElseOf, NewBlocks, n
  <2>2. CASE i # n
    <3>1. i \in 1 .. n - 1 /\ NewBlock(f) + i - 1 = NewBlock(f) - 1 + i
      BY <1>1, <1>4, <1>5, <2>2
    <3>2. y = NewBlock(f) - 1 + i
      BY <2>2, <3>1 DEF ElseOf, n
    <3> QED
      BY <3>1, <3>2 DEF NewBlocks
  <2> QED
    BY <2>1, <2>2
<1>7. x \in B
  BY <1>1 DEF NewBlocks
<1> HIDE DEF B, y
<1>8. t + i \in 0 .. t + n /\ arg \in 0 .. t + n
  BY <1>1, <1>5
<1>9. <<x, y>> \in Seq(B) /\ <<arg>> \in Seq(0 .. t + n)
  BY <1>6, <1>7, <1>8
<1>10. [kind |-> "jnz", arg |-> t + i, to |-> <<x, y>>] \in Jumps(B, t + n)
  BY <1>8, <1>9 DEF Jumps
<1>11. [op |-> "cmp", to |-> t + i, args |-> <<arg>>] \in Instrs(t + n)
  BY <1>8, <1>9 DEF Instrs
<1> QED
  BY <1>10, <1>11 DEF CaseJump, Test, B, n, t, x, y, arg

LEMMA FirstTestParts ==
  ASSUME NEW f, WellFormed(f), NEW b \in Blocks(f), f.jmp[b].kind = "switch", CaseCount(f, b) # 0
  PROVE  LET g == FirstTest(f, b)
             m == f.temps + CaseCount(f, b)
             B == NewBlocks(f, CaseCount(f, b) - 1)
         IN  /\ g.order = f.order /\ g.temps = m /\ m \in Nat
             /\ Blocks(g) = Blocks(f) /\ NewBlock(g) = NewBlock(f)
             /\ g.phis \in [Blocks(f) -> Seq(Phis(B, m))]
             /\ g.code \in [Blocks(f) -> Seq(Instrs(m))]
             /\ g.jmp \in [Blocks(f) -> Jumps(B, m)]
<1> DEFINE g == FirstTest(f, b)
           n == CaseCount(f, b)
           t == f.temps
           m == t + n
           B == NewBlocks(f, n - 1)
           A == Blocks(f)
           c == Append(f.code[b], Test(f, b, 1))
           j == CaseJump(f, b, 1)
<1>1. /\ n \in Nat /\ n # 0 /\ t \in Nat /\ f \in Shapes(A, t)
      /\ f.phis \in [A -> Seq(Phis(A, t))] /\ f.code \in [A -> Seq(Instrs(t))]
      /\ f.jmp \in [A -> Jumps(A, t)]
  BY SwitchJump, Parts DEF WellFormed
<1>2. A \subseteq B
  BY DEF NewBlocks
<1> HIDE DEF n
<1>3. 1 \in 1 .. n /\ m \in Nat /\ t <= m
  BY <1>1
<1>4. j \in Jumps(B, m) /\ Test(f, b, 1) \in Instrs(m)
  BY <1>3, CaseJumps DEF n
<1> HIDE DEF t, B, A
<1>5. b \in A
  BY DEF A
<1> DEFINE f1 == [f EXCEPT !.code[b] = c, !.jmp[b] = j, !.temps = m]
<1>6. g = f1
  <2>1. f = [order |-> f.order, phis |-> f.phis, code |-> f.code, jmp |-> f.jmp, temps |-> f.temps]
    BY <1>1 DEF Shapes
  <2> QED
    BY <2>1 DEF FirstTest, n, t
<1> HIDE DEF j, c
<1>7. /\ f1.order = f.order /\ f1.phis = f.phis /\ f1.temps = m
      /\ f1.code = [f.code EXCEPT ![b] = c]
      /\ f1.jmp = [f.jmp EXCEPT ![b] = j]
  BY <1>1, PartReplaced DEF Shapes
<1> HIDE DEF f1, g, m
<1>8. /\ g.order = f.order /\ g.phis = f.phis /\ g.temps = m
      /\ g.code = [f.code EXCEPT ![b] = c]
      /\ g.jmp = [f.jmp EXCEPT ![b] = j]
  BY <1>6, <1>7
<1>9. /\ Seq(Phis(A, t)) \subseteq Seq(Phis(B, m))
      /\ Seq(Instrs(t)) \subseteq Seq(Instrs(m))
      /\ Jumps(A, t) \subseteq Jumps(B, m)
  BY <1>1, <1>2, <1>3, Wider
<1>10. g.phis \in [A -> Seq(Phis(B, m))] /\ g.jmp \in [A -> Jumps(B, m)]
  BY <1>1, <1>4, <1>5, <1>8, <1>9
<1>11. c \in Seq(Instrs(m))
  <2>1. f.code[b] \in Seq(Instrs(m))
    BY <1>1, <1>5, <1>9
  <2> QED
    BY <1>4, <2>1 DEF c
<1>12. g.code \in [A -> Seq(Instrs(m))]
  BY <1>1, <1>5, <1>8, <1>9, <1>11
<1>13. Blocks(g) = Blocks(f) /\ NewBlock(g) = NewBlock(f)
  BY <1>8 DEF Blocks, NewBlock
<1> QED
  BY <1>3, <1>8, <1>10, <1>12, <1>13 DEF g, m, A, B, n, t

\* A switch that has become tests leaves the function well formed.
LEMMA LowerSwitchKeeps ==
  ASSUME NEW f, WellFormed(f), NEW b \in Blocks(f)
  PROVE  WellFormed(LowerSwitch(f, b)) /\ Blocks(f) \subseteq Blocks(LowerSwitch(f, b))
<1>1. CASE f.jmp[b].kind # "switch"
  BY <1>1 DEF LowerSwitch
<1>2. CASE f.jmp[b].kind = "switch" /\ CaseCount(f, b) = 0
  <2> DEFINE d == Head(f.jmp[b].to)
  <2>1. LowerSwitch(f, b) = [f EXCEPT !.jmp[b] = Goto(d)]
    BY <1>2 DEF LowerSwitch, CaseCount
  <2>2. d \in Blocks(f) /\ 0 \in 0 .. f.temps
    BY <1>2, SwitchJump DEF WellFormed
  <2> HIDE DEF d
  <2>3. Goto(d) \in Jumps(Blocks(f), f.temps)
    BY <2>2 DEF Goto, Jumps
  <2> QED
    BY <2>1, <2>3, JumpReplaced
<1>3. CASE f.jmp[b].kind = "switch" /\ CaseCount(f, b) # 0
  <2> DEFINE n == CaseCount(f, b)
             code == [i \in 1 .. (n - 1) |-> <<Test(f, b, i + 1)>>]
             jmp == [i \in 1 .. (n - 1) |-> CaseJump(f, b, i + 1)]
             g == FirstTest(f, b)
             m == f.temps + n
             B == NewBlocks(f, n - 1)
  <2>1. LowerSwitch(f, b) = WithBlocks(g, code, jmp)
    BY <1>3 DEF LowerSwitch, CaseCount, CaseJump, ElseOf, FirstTest
  <2>2. n \in Nat /\ n # 0
    BY <1>3, SwitchJump
  <2>3. \A i \in 1 .. n : CaseJump(f, b, i) \in Jumps(B, m) /\ Test(f, b, i) \in Instrs(m)
    BY <1>3, CaseJumps
  <2>4. /\ g.order = f.order /\ g.temps = m /\ m \in Nat
        /\ Blocks(g) = Blocks(f) /\ NewBlock(g) = NewBlock(f)
        /\ g.phis \in [Blocks(f) -> Seq(Phis(B, m))]
        /\ g.code \in [Blocks(f) -> Seq(Instrs(m))]
        /\ g.jmp \in [Blocks(f) -> Jumps(B, m)]
    BY <1>3, FirstTestParts
  <2> HIDE DEF n
  <2>5. Len(code) = n - 1 /\ n - 1 \in Nat /\ \A i \in 1 .. (n - 1) : i + 1 \in 1 .. n
    BY <2>2
  <2> HIDE DEF B, m, g
  <2>6. \A i \in 1 .. (n - 1) : code[i] \in Seq(Instrs(m)) /\ jmp[i] \in Jumps(B, m)
    <3> SUFFICES ASSUME NEW i \in 1 .. (n - 1) PROVE code[i] \in Seq(Instrs(m)) /\ jmp[i] \in Jumps(B, m)
      OBVIOUS
    <3>1. CaseJump(f, b, i + 1) \in Jumps(B, m) /\ Test(f, b, i + 1) \in Instrs(m)
      BY <2>3, <2>5
    <3> DEFINE x == Test(f, b, i + 1)
    <3> HIDE DEF x
    <3>2. <<x>> \in Seq(Instrs(m))
      BY <3>1 DEF x
    <3> QED
      BY <3>1, <3>2 DEF x
  <2> HIDE DEF code, jmp
  <2>7. B = Blocks(g) \cup {NewBlock(g) - 1 + i : i \in 1 .. Len(code)}
    BY <2>4, <2>5 DEF B, NewBlocks
  <2>8. f.order \in Seq(Nat) /\ f.order # <<>>
    BY DEF WellFormed
  <2>9. Fitting(g, code, jmp, B)
    BY <2>4, <2>5, <2>6, <2>7, <2>8 DEF Fitting
  <2>10. WellFormed(WithBlocks(g, code, jmp)) /\ Blocks(WithBlocks(g, code, jmp)) = B
    BY <2>9, AppendBlocks
  <2> QED
    BY <2>1, <2>4, <2>7, <2>10
<1> QED
  BY <1>1, <1>2, <1>3

\* The functions that have the blocks A and maybe more.
Grown(A) ==
  {g \in UNION {Shapes(x[1], x[2]) : x \in (SUBSET Nat) \X Nat} : WellFormed(g) /\ A \subseteq Blocks(g)}

LEMMA GrownAre ==
  ASSUME NEW A, NEW g
  PROVE  g \in Grown(A) <=> WellFormed(g) /\ A \subseteq Blocks(g)
<1> SUFFICES ASSUME WellFormed(g) PROVE g \in UNION {Shapes(x[1], x[2]) : x \in (SUBSET Nat) \X Nat}
  BY DEF Grown
<1>1. g.order \in Seq(Nat) /\ g.temps \in Nat /\ g \in Shapes(Blocks(g), g.temps)
  BY DEF WellFormed
<1> DEFINE q == g.order
<1> HIDE DEF q
<1>2. q \in Seq(Nat)
  BY <1>1 DEF q
<1>3. ToSet(q) \in SUBSET Nat
  BY <1>2 DEF ToSet
<1>4. Blocks(g) \in SUBSET Nat
  BY <1>3 DEF Blocks, q
<1> DEFINE x == <<Blocks(g), g.temps>>
<1>5. x \in (SUBSET Nat) \X Nat /\ x[1] = Blocks(g) /\ x[2] = g.temps
  BY <1>1, <1>4
<1> HIDE DEF x
<1>6. g \in Shapes(x[1], x[2])
  BY <1>1, <1>5
<1> QED
  BY <1>5, <1>6

\* LowerSwitches keeps a function well formed.
LEMMA SwitchesLowered ==
  ASSUME NEW f, WellFormed(f)
  PROVE  WellFormed(FoldLeft(LowerSwitch, f, f.order))
<1> DEFINE n == Len(f.order)
           q == f.order
           M == Grown(Blocks(f))
           Solves(h) == h = [s \in SUBSET (1 .. n) |-> IF s = {} THEN f
                                                       ELSE LowerSwitch(h[s \ {Max(s)}], q[Max(s)])]
           G == [x \in M |-> [i \in 1 .. n |-> LowerSwitch(x, q[i])]]
<1>0. n \in Nat /\ DOMAIN q = 1 .. n /\ \A i \in 1 .. n : q[i] \in Blocks(f)
  BY Parts DEF Blocks, ToSet
<1>1. FoldLeft(LowerSwitch, f, f.order) = (CHOOSE h : Solves(h))[1 .. n]
  BY <1>0 DEF FoldLeft, MapThenFoldSet
<1>2. f \in M /\ \A x \in M : \A i \in 1 .. n : LowerSwitch(x, q[i]) \in M
  <2>1. f \in M
    BY GrownAre
  <2> SUFFICES ASSUME NEW x \in M, NEW i \in 1 .. n PROVE LowerSwitch(x, q[i]) \in M
    BY <2>1
  <2>2. WellFormed(x) /\ Blocks(f) \subseteq Blocks(x)
    BY GrownAre
  <2>3. q[i] \in Blocks(x)
    BY <1>0, <2>2
  <2> HIDE DEF q, n
  <2> QED
    BY <2>2, <2>3, LowerSwitchKeeps, GrownAre
<1> HIDE DEF n, M, q
<1>3. G \in [M -> [1 .. n -> M]] /\ \A x \in M : \A i \in 1 .. n : G[x][i] = LowerSwitch(x, q[i])
  BY <1>2
<1> HIDE DEF G
<1>4. PICK g : FoldsUp(f, G, 1 .. n, g) /\ \A s \in SUBSET (1 .. n) : g[s] \in M
  BY <1>0, <1>2, <1>3, FoldInside
<1>5. \A s \in SUBSET (1 .. n) : s # {} => Max(s) \in 1 .. n
  BY <1>0, MaxIsMember
<1>6. Solves(g)
  <2>1. \A s \in SUBSET (1 .. n) : s # {} => G[g[s \ {Max(s)}]][Max(s)] = LowerSwitch(g[s \ {Max(s)}], q[Max(s)])
    BY <1>3, <1>4, <1>5
  <2> QED
    BY <1>4, <2>1 DEF FoldsUp
<1> DEFINE h == CHOOSE h : Solves(h)
<1>7. Solves(h)
  BY <1>6
<1> HIDE DEF h
<1>8. h[{}] = f /\ \A s \in SUBSET (1 .. n) : s # {} => h[s] = LowerSwitch(h[s \ {Max(s)}], q[Max(s)])
  BY <1>7
<1>9. \A s \in SUBSET (1 .. n) : s # {} /\ h[s \ {Max(s)}] \in M => h[s] \in M
  BY <1>2, <1>5, <1>8
<1> HIDE DEF Solves
<1>10. \A s \in SUBSET (1 .. n) : h[s] \in M
  BY <1>0, <1>2, <1>8, <1>9, FoldKeeps
<1>11. h[1 .. n] \in M
  BY <1>10
<1>12. FoldLeft(LowerSwitch, f, f.order) \in M
  BY <1>1, <1>11 DEF h
<1> QED
  BY <1>12, GrownAre DEF M

\* A phi whose edge from u now comes from s.
Redirect(p, u, s) == [p EXCEPT !.from = [k \in DOMAIN @ |-> IF @[k] = u THEN s ELSE @[k]]]
Redirects(q, u, s) == [k \in DOMAIN q |-> Redirect(q[k], u, s)]

LEMMA RedirectKeeps ==
  ASSUME NEW B, NEW n \in Nat, NEW p \in Phis(B, n), NEW u, NEW s \in B
  PROVE  Redirect(p, u, s) \in Phis(B, n)
<1> DEFINE to == p.to
           from == p.from
           args == p.args
           from2 == [k \in DOMAIN from |-> IF from[k] = u THEN s ELSE from[k]]
<1>1. /\ p = [to |-> to, from |-> from, args |-> args] /\ to \in 0 .. n
      /\ from \in Seq(B) /\ args \in Seq(0 .. n) /\ Len(from) = Len(args)
  BY DEF Phis
<1> HIDE DEF to, from, args
<1>2. from2 \in Seq(B) /\ Len(from2) = Len(from)
  <2>1. Len(from) \in Nat /\ DOMAIN from = 1 .. Len(from) /\ \A k \in 1 .. Len(from) : from[k] \in B
    BY <1>1
  <2>2. from2 \in [1 .. Len(from) -> B]
    BY <2>1
  <2> HIDE DEF from2
  <2> QED
    BY <2>1, <2>2
<1>3. Redirect(p, u, s) = [to |-> to, from |-> from2, args |-> args]
  BY <1>1 DEF Redirect
<1> HIDE DEF from2
<1> QED
  BY <1>1, <1>2, <1>3 DEF Phis

\* A target of a jump replaced by a block.
Retarget(j, i, s) == [j EXCEPT !.to[i] = s]

LEMMA TargetReplaced ==
  ASSUME NEW B, NEW n \in Nat, NEW j \in Jumps(B, n), NEW i \in DOMAIN j.to, NEW s \in B
  PROVE  Retarget(j, i, s) \in Jumps(B, n) /\ DOMAIN Retarget(j, i, s).to = DOMAIN j.to
<1> DEFINE kind == j.kind
           arg == j.arg
           to == j.to
           to2 == [to EXCEPT ![i] = s]
<1>1. /\ j = [kind |-> kind, arg |-> arg, to |-> to] /\ to \in Seq(B) /\ i \in DOMAIN to
      /\ kind \in {"jmp", "jnz", "br", "switch", "ret"} /\ arg \in 0 .. n
  BY DEF Jumps
<1> HIDE DEF kind, arg, to
<1>2. to2 \in Seq(B) /\ to2 # <<>> /\ DOMAIN to2 = DOMAIN to
  <2>1. Len(to) \in Nat /\ DOMAIN to = 1 .. Len(to) /\ \A k \in 1 .. Len(to) : to[k] \in B
    BY <1>1
  <2>2. to2 \in [1 .. Len(to) -> B] /\ 1 .. Len(to) # {}
    BY <1>1, <2>1
  <2> HIDE DEF to2
  <2> QED
    BY <2>1, <2>2
<1>3. [j EXCEPT !.to[i] = s] = [kind |-> kind, arg |-> arg, to |-> to2]
  <2>1. [j EXCEPT !.to[i] = s] = [j EXCEPT !.to = [j.to EXCEPT ![i] = s]]
    OBVIOUS
  <2>2. j.to = to
    BY <1>1
  <2>3. [j EXCEPT !.to[i] = s] = [j EXCEPT !.to = to2]
    BY <2>1, <2>2
  <2> HIDE DEF to2
  <2> QED
    BY <1>1, <2>3
<1> HIDE DEF to2
<1>4. [kind |-> kind, arg |-> arg, to |-> to2] \in Jumps(B, n)
  BY <1>1, <1>2 DEF Jumps
<1> QED
  BY <1>2, <1>3, <1>4 DEF to, Retarget

\* The function with one target and the phis of one block replaced.
Rewired(g, u, i, s, v) ==
  [g EXCEPT !.jmp[u].to[i] = s, !.phis[v] = [k \in DOMAIN @ |-> Redirect(@[k], u, s)]]

Parted(O, P, C, J, T) == [order : O, phis : P, code : C, jmp : J, temps : T]

\* h is g with the jump of u and the phis of v replaced, of the kind R if those are of theirs.
ReplacesIn(g, u, x, v, y, h, P, J, R) ==
  /\ h.order = g.order /\ h.temps = g.temps
  /\ h.jmp = [g.jmp EXCEPT ![u] = x] /\ h.phis = [g.phis EXCEPT ![v] = y]
  /\ h.phis \in P /\ h.jmp \in J => h \in R

LEMMA RewiredParts ==
  ASSUME NEW O, NEW P, NEW C, NEW J, NEW T, NEW g \in Parted(O, P, C, J, T),
         NEW u, NEW i, NEW s, NEW v
  PROVE  ReplacesIn(g, u, Retarget(g.jmp[u], i, s), v, Redirects(g.phis[v], u, s), Rewired(g, u, i, s, v),
                    P, J, Parted(O, P, C, J, T))
<1> USE DEF ReplacesIn
<1> USE DEF Parted
<1>1. g = [order |-> g.order, phis |-> g.phis, code |-> g.code, jmp |-> g.jmp, temps |-> g.temps]
  OBVIOUS
<1>2. g.order \in O /\ g.code \in C /\ g.temps \in T
  OBVIOUS
<1> DEFINE o == g.order
           p == g.phis
           q == g.code
           j == g.jmp
           t == g.temps
           j2 == [j EXCEPT ![u] = Retarget(j[u], i, s)]
           p2 == [p EXCEPT ![v] = Redirects(p[v], u, s)]
<1> HIDE DEF o, p, q, j, t
<1>3. g = [order |-> o, phis |-> p, code |-> q, jmp |-> j, temps |-> t]
  BY <1>1 DEF o, p, q, j, t
<1>4. Rewired(g, u, i, s, v) = [order |-> o, phis |-> p2, code |-> q, jmp |-> j2, temps |-> t]
  <2>1. Rewired(g, u, i, s, v) =
          [g EXCEPT !.jmp = [g.jmp EXCEPT ![u] = [g.jmp[u] EXCEPT !.to = [g.jmp[u].to EXCEPT ![i] = s]]],
                    !.phis = [g.phis EXCEPT ![v] = [k \in DOMAIN g.phis[v] |-> Redirect(g.phis[v][k], u, s)]]]
    BY DEF Rewired
  <2>2. g.jmp = j /\ g.phis = p
    BY DEF j, p
  <2>3. Rewired(g, u, i, s, v) = [g EXCEPT !.jmp = j2, !.phis = p2]
    BY <2>1, <2>2 DEF Retarget, Redirects
  <2> HIDE DEF j2, p2
  <2> QED
    BY <1>3, <2>3
<1>5. o \in O /\ q \in C /\ t \in T
  BY <1>2 DEF o, q, t
<1> HIDE DEF j2, p2
<1> DEFINE h == [order |-> o, phis |-> p2, code |-> q, jmp |-> j2, temps |-> t]
<1>6. /\ h.order = o /\ h.temps = t /\ h.jmp = j2 /\ h.phis = p2
      /\ p2 \in P /\ j2 \in J => h \in [order : O, phis : P, code : C, jmp : J, temps : T]
  BY <1>5
<1> HIDE DEF h
<1> QED
  BY <1>4, <1>6 DEF o, t, j2, p2, j, p, h

\* Splitting an edge leaves the function well formed and every jump of as many targets.
LEMMA SplitEdgeKeeps ==
  ASSUME NEW f, WellFormed(f), NEW u \in Blocks(f), NEW i \in DOMAIN f.jmp[u].to
  PROVE  LET h == SplitEdge(f, u, i)
         IN  /\ WellFormed(h) /\ Blocks(f) \subseteq Blocks(h)
             /\ \A b \in Blocks(f) : DOMAIN h.jmp[b].to = DOMAIN f.jmp[b].to
<1> DEFINE v == f.jmp[u].to[i]
           s == NewBlock(f)
           t == f.temps
           code == << <<>> >>
           jmp == <<Goto(v)>>
           g == WithBlocks(f, code, jmp)
           A == Blocks(f)
           B == NewBlocks(f, 1)
           h == Rewired(g, u, i, s, v)
<1>1. /\ t \in Nat /\ f.order \in Seq(Nat) /\ f.order # <<>>
      /\ f.phis \in [A -> Seq(Phis(A, t))] /\ f.code \in [A -> Seq(Instrs(t))]
      /\ f.jmp \in [A -> Jumps(A, t)]
  BY Parts DEF WellFormed
<1>2. SplitEdge(f, u, i) = h
  BY DEF SplitEdge, Rewired, Redirect
<1>3. v \in A
  <2> DEFINE to == f.jmp[u].to
  <2>1. to \in Seq(A) /\ i \in DOMAIN to
    BY <1>1 DEF Jumps
  <2> HIDE DEF to, A
  <2>2. to[i] \in A
    BY <2>1
  <2> QED
    BY <2>2 DEF to
<1>4. A \subseteq B /\ s \in B
  <2>1. NewBlock(f) - 1 \in Nat /\ A \in SUBSET Nat /\ A # {} /\ \A c \in A : c <= NewBlock(f) - 1
    BY <1>1, LastBlock
  <2> DEFINE z == NewBlock(f) - 1
  <2>2. Max(A) \in Nat
    <3> HIDE DEF z
    <3>1. z \in Nat /\ A \in SUBSET Nat /\ A # {} /\ \A c \in A : c <= z
      BY <2>1 DEF z
    <3> HIDE DEF A
    <3> QED
      BY <3>1, GreatestNatural
  <2>3. s = NewBlock(f) - 1 + 1 /\ 1 \in 1 .. 1
    BY <2>2 DEF NewBlock
  <2> QED
    BY <2>3 DEF NewBlocks
<1> HIDE DEF v, s, A, t
<1>5. Len(code) = 1 /\ code[1] = <<>> /\ jmp[1] = Goto(v) /\ 1 .. Len(code) = {1}
  OBVIOUS
<1> HIDE DEF B
<1>6. Goto(v) \in Jumps(B, t) /\ <<>> \in Seq(Instrs(t))
  <2>1. <<v>> \in Seq(B) /\ 0 \in 0 .. t
    BY <1>1, <1>3, <1>4
  <2> QED
    BY <2>1 DEF Goto, Jumps
<1>7. /\ Seq(Phis(A, t)) \subseteq Seq(Phis(B, t))
      /\ Jumps(A, t) \subseteq Jumps(B, t)
  <2>1. t <= t
    BY <1>1
  <2> QED
    BY <1>1, <1>4, <2>1, Wider
<1>8. f.phis \in [A -> Seq(Phis(B, t))] /\ f.jmp \in [A -> Jumps(B, t)]
  BY <1>1, <1>7
<1>9. B = Blocks(f) \cup {NewBlock(f) - 1 + k : k \in 1 .. Len(code)}
  BY <1>5 DEF B, NewBlocks
<1> HIDE DEF code, jmp
<1>10. Fitting(f, code, jmp, B)
  <2>1. \A k \in 1 .. Len(code) : code[k] \in Seq(Instrs(t)) /\ jmp[k] \in Jumps(B, t)
    BY <1>5, <1>6
  <2>2. Len(code) \in Nat
    BY <1>5
  <2> QED
    BY <1>1, <1>8, <1>9, <2>1, <2>2 DEF Fitting, t, A
<1>11. /\ WellFormed(g) /\ Blocks(g) = B /\ g.temps = t
       /\ \A b \in A : g.phis[b] = f.phis[b] /\ g.code[b] = f.code[b] /\ g.jmp[b] = f.jmp[b]
  BY <1>10, AppendBlocks DEF t, A
<1> HIDE DEF g
<1>12. /\ g.order \in Seq(Nat) /\ g.order # <<>> /\ g \in Shapes(B, t)
       /\ g.phis \in [B -> Seq(Phis(B, t))] /\ g.jmp \in [B -> Jumps(B, t)]
  BY <1>11, Parts DEF WellFormed
<1>13. u \in A /\ u \in B /\ v \in B /\ i \in DOMAIN g.jmp[u].to
  BY <1>3, <1>4, <1>11 DEF A
<1> DEFINE j2 == Retarget(g.jmp[u], i, s)
           p2 == Redirects(g.phis[v], u, s)
<1>14. j2 \in Jumps(B, t) /\ DOMAIN j2.to = DOMAIN g.jmp[u].to
  <2> DEFINE j == g.jmp[u]
  <2>1. j \in Jumps(B, t) /\ i \in DOMAIN j.to
    BY <1>12, <1>13
  <2> HIDE DEF j
  <2>2. Retarget(j, i, s) \in Jumps(B, t) /\ DOMAIN Retarget(j, i, s).to = DOMAIN j.to
    BY <1>1, <1>4, <2>1, TargetReplaced
  <2> QED
    BY <2>2 DEF j
<1>15. p2 \in Seq(Phis(B, t))
  <2> DEFINE q == g.phis[v]
  <2>1. q \in Seq(Phis(B, t))
    BY <1>12, <1>13
  <2> HIDE DEF q
  <2>2. Len(q) \in Nat /\ DOMAIN q = 1 .. Len(q) /\ \A k \in 1 .. Len(q) : q[k] \in Phis(B, t)
    BY <2>1
  <2>3. \A k \in 1 .. Len(q) : Redirect(q[k], u, s) \in Phis(B, t)
    BY <1>1, <1>4, <2>2, RedirectKeeps
  <2>4. [k \in DOMAIN q |-> Redirect(q[k], u, s)] \in [1 .. Len(q) -> Phis(B, t)]
    BY <2>2, <2>3
  <2>5. \A m \in Nat : \A w \in [1 .. m -> Phis(B, t)] : w \in Seq(Phis(B, t))
    OBVIOUS
  <2>6. [k \in DOMAIN q |-> Redirect(q[k], u, s)] \in Seq(Phis(B, t))
    BY <2>2, <2>4, <2>5
  <2> QED
    BY <2>6 DEF q, Redirects
<1>16. /\ h.order = g.order /\ h.temps = g.temps
       /\ h.jmp = [g.jmp EXCEPT ![u] = j2] /\ h.phis = [g.phis EXCEPT ![v] = p2]
       /\ h.phis \in [B -> Seq(Phis(B, t))] /\ h.jmp \in [B -> Jumps(B, t)] => h \in Shapes(B, t)
  <2> DEFINE P == [B -> Seq(Phis(B, t))]
             J == [B -> Jumps(B, t)]
             O == Seq(B)
             C == [B -> Seq(Instrs(t))]
             T == {t}
  <2>1. g \in Parted(O, P, C, J, T)
    BY <1>12 DEF Shapes, Parted
  <2>2. Shapes(B, t) = Parted(O, P, C, J, T)
    BY DEF Shapes, Parted
  <2> HIDE DEF P, J, O, C, T
  <2>3. ReplacesIn(g, u, j2, v, p2, h, P, J, Parted(O, P, C, J, T))
    BY <2>1, RewiredParts
  <2> HIDE DEF h, j2, p2
  <2> QED
    BY <2>2, <2>3 DEF ReplacesIn, P, J
<1> HIDE DEF h, j2, p2
<1>17. h \in Shapes(B, t)
  BY <1>12, <1>13, <1>14, <1>15, <1>16
<1>18. Blocks(h) = B
  BY <1>11, <1>16 DEF Blocks
<1>19. WellFormed(h) /\ A \subseteq Blocks(h)
  BY <1>1, <1>4, <1>11, <1>12, <1>16, <1>17, <1>18 DEF WellFormed
<1>20. \A b \in A : DOMAIN h.jmp[b].to = DOMAIN f.jmp[b].to
  <2> SUFFICES ASSUME NEW b \in A PROVE DOMAIN h.jmp[b].to = DOMAIN f.jmp[b].to
    OBVIOUS
  <2>1. b \in B /\ g.jmp[b] = f.jmp[b]
    BY <1>4, <1>11
  <2>2. CASE b = u
    BY <1>12, <1>14, <1>16, <2>1, <2>2
  <2>3. CASE b # u
    BY <1>12, <1>16, <2>1, <2>3
  <2> QED
    BY <2>2, <2>3
<1> QED
  BY <1>2, <1>19, <1>20 DEF A

\* The functions that have the blocks of f, with as many targets, and maybe more.
SplitOf(f) == {h \in Grown(Blocks(f)) : \A b \in Blocks(f) : DOMAIN h.jmp[b].to = DOMAIN f.jmp[b].to}

\* The edges out of one block.
LEMMA SplitEdgesOfKeeps ==
  ASSUME NEW f, WellFormed(f), NEW g \in SplitOf(f), NEW u \in Blocks(f)
  PROVE  SplitEdgesOf(f, g, u) \in SplitOf(f)
<1> DEFINE to == f.jmp[u].to
           n == Len(to)
           q == [i \in DOMAIN to |-> i]
           M == SplitOf(f)
           Step(x, i) == IF IsCritical(f, u, i) THEN SplitEdge(x, u, i) ELSE x
           Solves(h) == h = [s \in SUBSET (1 .. n) |-> IF s = {} THEN g ELSE Step(h[s \ {Max(s)}], q[Max(s)])]
           G == [x \in M |-> [i \in 1 .. n |-> Step(x, i)]]
<1>0. n \in Nat /\ DOMAIN to = 1 .. n
  <2>1. to \in Seq(Blocks(f))
    BY Parts DEF WellFormed, Jumps
  <2> HIDE DEF to
  <2> QED
    BY <2>1
<1>1. SplitEdgesOf(f, g, u) = (CHOOSE h : Solves(h))[1 .. n]
  BY <1>0 DEF SplitEdgesOf, FoldLeft, MapThenFoldSet
<1>2. \A x \in M : \A i \in 1 .. n : Step(x, i) \in M
  <2> SUFFICES ASSUME NEW x \in M, NEW i \in 1 .. n PROVE SplitEdge(x, u, i) \in M
    OBVIOUS
  <2>1. /\ WellFormed(x) /\ Blocks(f) \subseteq Blocks(x)
        /\ \A b \in Blocks(f) : DOMAIN x.jmp[b].to = DOMAIN f.jmp[b].to
    BY GrownAre DEF SplitOf
  <2>2. u \in Blocks(x) /\ i \in DOMAIN x.jmp[u].to
    BY <1>0, <2>1
  <2>3. /\ WellFormed(SplitEdge(x, u, i)) /\ Blocks(x) \subseteq Blocks(SplitEdge(x, u, i))
        /\ \A b \in Blocks(x) : DOMAIN SplitEdge(x, u, i).jmp[b].to = DOMAIN x.jmp[b].to
    BY <2>1, <2>2, SplitEdgeKeeps
  <2>4. SplitEdge(x, u, i) \in Grown(Blocks(f))
    BY <2>1, <2>3, GrownAre
  <2>5. \A b \in Blocks(f) : DOMAIN SplitEdge(x, u, i).jmp[b].to = DOMAIN f.jmp[b].to
    BY <2>1, <2>3
  <2> QED
    BY <2>4, <2>5 DEF SplitOf
<1>3. g \in M
  OBVIOUS
<1>4. \A i \in 1 .. n : q[i] = i
  BY <1>0
<1> HIDE DEF n, M, q, Step
<1>5. G \in [M -> [1 .. n -> M]] /\ \A x \in M : \A i \in 1 .. n : G[x][i] = Step(x, i)
  BY <1>2
<1> HIDE DEF G
<1>6. PICK y : FoldsUp(g, G, 1 .. n, y) /\ \A s \in SUBSET (1 .. n) : y[s] \in M
  BY <1>0, <1>3, <1>5, FoldInside
<1>7. \A s \in SUBSET (1 .. n) : s # {} => Max(s) \in 1 .. n
  BY <1>0, MaxIsMember
<1>8. Solves(y)
  <2>1. \A s \in SUBSET (1 .. n) : s # {} => G[y[s \ {Max(s)}]][Max(s)] = Step(y[s \ {Max(s)}], q[Max(s)])
    BY <1>4, <1>5, <1>6, <1>7
  <2> QED
    BY <1>6, <2>1 DEF FoldsUp
<1> DEFINE h == CHOOSE h : Solves(h)
<1>9. Solves(h)
  BY <1>8
<1> HIDE DEF h
<1>10. h[{}] = g /\ \A s \in SUBSET (1 .. n) : s # {} => h[s] = Step(h[s \ {Max(s)}], q[Max(s)])
  BY <1>9
<1>11. \A s \in SUBSET (1 .. n) : s # {} /\ h[s \ {Max(s)}] \in M => h[s] \in M
  BY <1>2, <1>4, <1>7, <1>10
<1> HIDE DEF Solves
<1>12. \A s \in SUBSET (1 .. n) : h[s] \in M
  BY <1>0, <1>3, <1>10, <1>11, FoldKeeps
<1>13. h[1 .. n] \in M
  BY <1>12
<1> QED
  BY <1>1, <1>13 DEF h, M

\* SplitCriticalEdges keeps a function well formed.
LEMMA EdgesSplit ==
  ASSUME NEW f, WellFormed(f)
  PROVE  WellFormed(SplitEdges(f))
<1> DEFINE n == Len(f.order)
           q == f.order
           M == SplitOf(f)
           Solves(h) == h = [s \in SUBSET (1 .. n) |-> IF s = {} THEN f
                                                       ELSE SplitEdgesOf(f, h[s \ {Max(s)}], q[Max(s)])]
           G == [x \in M |-> [i \in 1 .. n |-> SplitEdgesOf(f, x, q[i])]]
<1>0. n \in Nat /\ DOMAIN q = 1 .. n /\ \A i \in 1 .. n : q[i] \in Blocks(f)
  BY Parts DEF Blocks, ToSet
<1>1. SplitEdges(f) = (CHOOSE h : Solves(h))[1 .. n]
  BY <1>0 DEF SplitEdges, FoldLeft, MapThenFoldSet
<1>2. f \in M /\ \A x \in M : \A i \in 1 .. n : SplitEdgesOf(f, x, q[i]) \in M
  <2>1. f \in M
    BY GrownAre DEF SplitOf
  <2> HIDE DEF q, n
  <2> QED
    BY <1>0, <2>1, SplitEdgesOfKeeps
<1> HIDE DEF n, M, q
<1>3. G \in [M -> [1 .. n -> M]] /\ \A x \in M : \A i \in 1 .. n : G[x][i] = SplitEdgesOf(f, x, q[i])
  BY <1>2
<1> HIDE DEF G
<1>4. PICK g : FoldsUp(f, G, 1 .. n, g) /\ \A s \in SUBSET (1 .. n) : g[s] \in M
  BY <1>0, <1>2, <1>3, FoldInside
<1>5. \A s \in SUBSET (1 .. n) : s # {} => Max(s) \in 1 .. n
  BY <1>0, MaxIsMember
<1>6. Solves(g)
  <2>1. \A s \in SUBSET (1 .. n) :
          s # {} => G[g[s \ {Max(s)}]][Max(s)] = SplitEdgesOf(f, g[s \ {Max(s)}], q[Max(s)])
    BY <1>3, <1>4, <1>5
  <2> QED
    BY <1>4, <2>1 DEF FoldsUp
<1> DEFINE h == CHOOSE h : Solves(h)
<1>7. Solves(h)
  BY <1>6
<1> HIDE DEF h
<1>8. h[{}] = f /\ \A s \in SUBSET (1 .. n) : s # {} => h[s] = SplitEdgesOf(f, h[s \ {Max(s)}], q[Max(s)])
  BY <1>7
<1>9. \A s \in SUBSET (1 .. n) : s # {} /\ h[s \ {Max(s)}] \in M => h[s] \in M
  BY <1>2, <1>5, <1>8
<1> HIDE DEF Solves
<1>10. \A s \in SUBSET (1 .. n) : h[s] \in M
  BY <1>0, <1>2, <1>8, <1>9, FoldKeeps
<1>11. h[1 .. n] \in M
  BY <1>10
<1>12. SplitEdges(f) \in M
  BY <1>1, <1>11 DEF h
<1> QED
  BY <1>12, GrownAre DEF M, SplitOf

-----------------------------------------------------------------------------
(***************************************************************************)
(* The specification.                                                      *)
(***************************************************************************)

\* Until the phis are gone the function is well formed.
IInv == phase \in {"switches", "split", "coalesce"} => WellFormed(low)

LEMMA InitInv == Init => IInv
  BY FunctionsAreWellFormed DEF Init, IInv

LEMMA NextInv == IInv /\ [Next]_vars => IInv'
<1> SUFFICES ASSUME IInv, [Next]_vars PROVE IInv'
  OBVIOUS
<1>1. CASE LowerSwitches
  BY <1>1, SwitchesLowered DEF IInv, LowerSwitches
<1>2. CASE SplitCriticalEdges
  BY <1>2, EdgesSplit DEF IInv, SplitCriticalEdges
<1>3. CASE CoalescePhis
  BY <1>3 DEF IInv, CoalescePhis
<1>4. CASE DestructSSA
  BY <1>4 DEF IInv, DestructSSA
<1>5. CASE \E v \in Values : Execute(v)
  BY <1>5 DEF IInv, Execute
<1>6. CASE ExecuteAdded
  BY <1>6 DEF IInv, ExecuteAdded
<1>7. CASE \E s \in Blocks(low) : Jump(s)
  BY <1>7 DEF IInv, Jump
<1>8. CASE Return
  BY <1>8 DEF IInv, Return
<1>9. CASE UNCHANGED vars
  BY <1>9 DEF IInv, vars
<1> QED
  BY <1>1, <1>2, <1>3, <1>4, <1>5, <1>6, <1>7, <1>8, <1>9 DEF Next, Done

\* The passes before CoalescePhis keep every function well formed: a jump or a phi
\* names only blocks there are, new ones included, and a temporary below the count
\* (LowerSwitches, SplitCriticalEdges).
THEOREM StaysWellFormed == Spec => [](phase \in {"switches", "split", "coalesce"} => WellFormed(low))
<1>1. Spec => []IInv
  BY InitInv, NextInv, PTL DEF Spec
<1> QED
  BY <1>1 DEF IInv

\* Whatever function is lowered, when CoalescePhis asks for liveness the loop ends and
\* finds live at the end of a block exactly what some path from there reads before
\* anything writes it (analysis.Liveness).
THEOREM LivenessExact == Spec => []LivenessIsExact
<1>1. Spec => []IInv
  BY InitInv, NextInv, PTL DEF Spec
<1>2. IInv => LivenessIsExact
  BY ExactLiveness DEF IInv, LivenessIsExact
<1> QED
  BY <1>1, <1>2, PTL

-----------------------------------------------------------------------------
(***************************************************************************)
(* Parallel copies one after another.                                      *)
(***************************************************************************)

Copies(n, m) == [dst : 1 .. n, src : 0 .. m]

\* No two copies have the same destination.
Apart(work) == \A i, j \in DOMAIN work : work[i].dst = work[j].dst => i = j

\* The loop's state: copies into the first n temporaries.
Copying(n) ==
  {c \in [work : Seq([dst : Nat, src : Nat]), temps : Nat, out : Seq([dst : Nat, src : Nat])] :
     /\ n <= c.temps /\ Apart(c.work)
     /\ c.work \in Seq(Copies(n, c.temps)) /\ c.out \in Seq(Copies(c.temps, c.temps))}

\* A turn emits the copy x, or saves what x overwrites.
Emits(c, d, x) ==
  /\ \A y \in ToSet(c.work) : y.src # x.dst
  /\ d.out = Append(c.out, x) /\ d.temps = c.temps /\ ToSet(d.work) = ToSet(c.work) \ {x}

ReroutedTo(y, old, new) == [dst |-> y.dst, src |-> IF y.src = old THEN new ELSE y.src]

Saves(c, d, x) ==
  /\ \E y \in ToSet(c.work) : y.src = x.dst
  /\ d.out = Append(c.out, [dst |-> c.temps + 1, src |-> x.dst]) /\ d.temps = c.temps + 1
  /\ ToSet(d.work) = {ReroutedTo(y, x.dst, c.temps + 1) : y \in ToSet(c.work)}

\* p is q without its i-th element.
Without(S, q, i, p) ==
  /\ p \in Seq(S) /\ Len(p) = Len(q) - 1
  /\ \A k \in 1 .. Len(p) : (k < i => p[k] = q[k]) /\ (k >= i => p[k] = q[k + 1])

LEMMA Removed ==
  ASSUME NEW S, NEW q \in Seq(S), NEW i \in 1 .. Len(q)
  PROVE  Without(S, q, i, RemoveAt(q, i))
<1> DEFINE a == SubSeq(q, 1, i - 1)
           z == SubSeq(q, i + 1, Len(q))
<1>1. a \in Seq(S) /\ Len(a) = i - 1 /\ \A k \in 1 .. i - 1 : a[k] = q[k]
  OBVIOUS
<1>2. z \in Seq(S) /\ Len(z) = Len(q) - i /\ \A k \in 1 .. Len(q) - i : z[k] = q[i + k]
  OBVIOUS
<1> HIDE DEF a, z
<1> DEFINE p == a \o z
<1>3. p \in Seq(S) /\ Len(p) = Len(q) - 1
  <2>0. a \in Seq(S) /\ z \in Seq(S)
    BY <1>1, <1>2
  <2>1. p \in Seq(S) /\ Len(p) = Len(a) + Len(z)
    BY <2>0
  <2>2. Len(q) \in Nat
    OBVIOUS
  <2> HIDE DEF p
  <2> QED
    BY <1>1, <1>2, <2>1, <2>2
<1>4. ASSUME NEW k \in 1 .. Len(p), k < i PROVE p[k] = q[k]
  BY <1>1, <1>2, <1>3, <1>4
<1>5. ASSUME NEW k \in 1 .. Len(p), k >= i PROVE p[k] = q[k + 1]
  <2>1. k - (i - 1) \in 1 .. Len(q) - i /\ i + (k - (i - 1)) = k + 1 /\ k > Len(a) /\ k - Len(a) = k - (i - 1)
    BY <1>1, <1>3, <1>5
  <2>2. p[k] = z[k - Len(a)]
    BY <1>1, <1>2, <1>3, <2>1
  <2> HIDE DEF p
  <2> QED
    BY <1>2, <2>1, <2>2
<1>6. RemoveAt(q, i) = p
  BY DEF RemoveAt, a, z
<1> HIDE DEF p
<1>7. \A k \in 1 .. Len(p) : (k < i => p[k] = q[k]) /\ (k >= i => p[k] = q[k + 1])
  BY <1>4, <1>5
<1> QED
  BY <1>3, <1>6, <1>7 DEF Without

\* What is left of copies that are apart.
LEMMA RemovedCopy ==
  ASSUME NEW S, NEW q \in Seq(S), Apart(q), NEW i \in 1 .. Len(q), NEW p, Without(S, q, i, p)
  PROVE  Apart(p) /\ ToSet(p) = ToSet(q) \ {q[i]}
<1>1. /\ Len(q) \in Nat /\ DOMAIN q = 1 .. Len(q)
      /\ p \in Seq(S) /\ Len(p) = Len(q) - 1 /\ DOMAIN p = 1 .. Len(p)
      /\ \A k \in 1 .. Len(p) : (k < i => p[k] = q[k]) /\ (k >= i => p[k] = q[k + 1])
  BY DEF Without
<1> DEFINE N == Len(q)
           L == Len(p)
           At(k) == IF k < i THEN k ELSE k + 1
<1> HIDE DEF N, L
<1>2. N \in Nat /\ L = N - 1 /\ i \in 1 .. N /\ DOMAIN q = 1 .. N /\ DOMAIN p = 1 .. L
  BY <1>1 DEF N, L
<1>3. \A k \in 1 .. L : At(k) \in 1 .. N /\ At(k) # i
  BY <1>2
<1>4. \A k \in 1 .. L : p[k] = q[At(k)]
  <2> SUFFICES ASSUME NEW k \in 1 .. L PROVE p[k] = q[At(k)]
    OBVIOUS
  <2>1. CASE k < i
    BY <1>1, <2>1 DEF L
  <2>2. CASE k >= i
    <3>1. ~(k < i)
      BY <1>2, <2>2
    <3> QED
      BY <1>1, <2>2, <3>1 DEF L
  <2> QED
    BY <1>2, <2>1, <2>2
<1>5. \A k, m \in 1 .. L : At(k) = At(m) => k = m
  BY <1>2
<1>6. \A j \in 1 .. N : j # i => \E k \in 1 .. L : At(k) = j
  <2> SUFFICES ASSUME NEW j \in 1 .. N, j # i PROVE \E k \in 1 .. L : At(k) = j
    OBVIOUS
  <2>1. CASE j < i
    <3>1. j \in 1 .. L /\ At(j) = j
      BY <1>2, <2>1
    <3> QED
      BY <3>1
  <2>2. CASE ~(j < i)
    <3>1. j - 1 \in 1 .. L /\ At(j - 1) = j
      BY <1>2, <2>2
    <3> QED
      BY <3>1
  <2> QED
    BY <2>1, <2>2
<1> HIDE DEF At
<1>7. Apart(p)
  <2> SUFFICES ASSUME NEW k \in 1 .. L, NEW m \in 1 .. L, p[k].dst = p[m].dst PROVE k = m
    BY <1>2 DEF Apart
  <2>1. q[At(k)].dst = q[At(m)].dst
    BY <1>4
  <2>2. At(k) = At(m)
    BY <1>2, <1>3, <2>1 DEF Apart
  <2> QED
    BY <1>5, <2>2
<1>8. \A y : y \in ToSet(p) => y \in ToSet(q) \ {q[i]}
  <2> SUFFICES ASSUME NEW k \in 1 .. L PROVE p[k] \in ToSet(q) /\ p[k] # q[i]
    BY <1>2 DEF ToSet
  <2>1. p[k] = q[At(k)] /\ At(k) \in 1 .. N /\ At(k) # i
    BY <1>3, <1>4
  <2>2. q[At(k)] # q[i]
    BY <1>2, <2>1 DEF Apart
  <2> QED
    BY <1>2, <2>1, <2>2 DEF ToSet
<1>9. \A y : y \in ToSet(q) \ {q[i]} => y \in ToSet(p)
  <2> SUFFICES ASSUME NEW j \in 1 .. N, q[j] # q[i] PROVE q[j] \in ToSet(p)
    BY <1>2 DEF ToSet
  <2>1. PICK k \in 1 .. L : At(k) = j
    BY <1>6
  <2> QED
    BY <1>2, <1>4, <2>1 DEF ToSet
<1> QED
  BY <1>7, <1>8, <1>9

\* A turn, in the cases of the loop.
LEMMA TurnIs ==
  ASSUME NEW n \in Nat, NEW c \in Copying(n), c.work # <<>>
  PROVE  /\ Turn(c) \in Copying(n)
         /\ \E x \in ToSet(c.work) : Emits(c, Turn(c), x) \/ Saves(c, Turn(c), x)
<1> DEFINE work == c.work
           t == c.temps
           out == c.out
           S == Copies(n, t)
           F == Free(work)
           Result(w, m, o) == [work |-> w, temps |-> m, out |-> o]
<1>1. /\ work \in Seq(S) /\ t \in Nat /\ n <= t /\ out \in Seq(Copies(t, t)) /\ Apart(work) /\ work # <<>>
      /\ c = Result(work, t, out)
  BY DEF Copying
<1>2. Len(work) \in Nat /\ DOMAIN work = 1 .. Len(work) /\ 1 \in 1 .. Len(work)
  BY <1>1
<1>3. \A i \in 1 .. Len(work) : work[i] \in S
  BY <1>1
<1> HIDE DEF work, t, out
<1>4. c.work = work /\ c.temps = t /\ c.out = out
  BY DEF work, t, out
<1>5. \A i \in 1 .. Len(work) : work[i].dst \in 1 .. n /\ work[i].src \in 0 .. t
                              /\ work[i] = [dst |-> work[i].dst, src |-> work[i].src]
  BY <1>3 DEF Copies
<1>6. ASSUME NEW w, NEW m \in Nat, t <= m, NEW o, w \in Seq(Copies(n, m)), o \in Seq(Copies(m, m)), Apart(w)
      PROVE  Result(w, m, o) \in Copying(n)
  <2> DEFINE P == [dst : Nat, src : Nat]
  <2>1. Copies(n, m) \subseteq P /\ Copies(m, m) \subseteq P
    BY <1>6 DEF Copies
  <2>2. w \in Seq(P) /\ o \in Seq(P)
    <3> HIDE DEF P
    <3>1. Seq(Copies(n, m)) \subseteq Seq(P) /\ Seq(Copies(m, m)) \subseteq Seq(P)
      BY <2>1
    <3> QED
      BY <1>6, <3>1
  <2>3. n <= m
    BY <1>1, <1>6
  <2> QED
    BY <1>6, <2>2, <2>3 DEF Copying
<1>7. CASE F # {}
  <2> DEFINE i == Min(F)
             x == work[i]
             w == RemoveAt(work, i)
             o == Append(out, x)
  <2>1. F \in SUBSET Nat
    BY <1>2 DEF Free
  <2>2. i \in F
    BY <1>7, <2>1, LeastNatural
  <2>3. i \in 1 .. Len(work) /\ \A j \in 1 .. Len(work) : work[j].src # work[i].dst
    BY <1>2, <2>2 DEF Free
  <2>4. Turn(c) = Result(w, t, o)
    <3>1. Turn(c) = [c EXCEPT !.work = RemoveAt(@, Min(Free(c.work))), !.out = Append(@, c.work[Min(Free(c.work))])]
      BY <1>1, <1>4, <1>7 DEF Turn
    <3>2. Turn(c) = [c EXCEPT !.work = w, !.out = o]
      BY <1>4, <3>1
    <3> HIDE DEF w, o
    <3> QED
      BY <1>1, <3>2
  <2> HIDE DEF i, F
  <2>5. Without(S, work, i, w)
    <3> HIDE DEF S
    <3> QED
      BY <1>1, <2>3, Removed
  <2> HIDE DEF w
  <2>6. Apart(w) /\ ToSet(w) = ToSet(work) \ {x} /\ w \in Seq(S)
    <3> HIDE DEF S
    <3>1. w \in Seq(S)
      BY <2>5 DEF Without
    <3> QED
      BY <1>1, <2>3, <2>5, <3>1, RemovedCopy
  <2>7. x \in S /\ x \in ToSet(work)
    BY <1>2, <1>3, <2>3 DEF ToSet
  <2>8. x \in Copies(t, t)
    BY <1>1, <2>7 DEF Copies
  <2>9. \A y \in ToSet(work) : y.src # x.dst
    BY <1>2, <2>3 DEF ToSet
  <2> HIDE DEF x
  <2>10. o \in Seq(Copies(t, t))
    BY <1>1, <2>8
  <2>11. t <= t
    BY <1>1
  <2>12. Turn(c) \in Copying(n)
    BY <1>1, <1>6, <2>4, <2>6, <2>10, <2>11
  <2>13. Emits(c, Turn(c), x)
    BY <1>4, <2>4, <2>6, <2>9 DEF Emits
  <2> QED
    BY <1>4, <2>7, <2>12, <2>13
<1>8. CASE F = {}
  <2> DEFINE x == work[1]
             m == t + 1
             w == [k \in 1 .. Len(work) |-> ReroutedTo(work[k], x.dst, m)]
             e == [dst |-> m, src |-> x.dst]
             o == Append(out, e)
  <2>1. Turn(c) = Result(w, m, o)
    <3>1. Turn(c) = [c EXCEPT !.work = [k \in DOMAIN c.work |->
                                 [c.work[k] EXCEPT !.src = IF c.work[k].src = c.work[1].dst THEN c.temps + 1
                                                           ELSE c.work[k].src]],
                              !.temps = c.temps + 1,
                              !.out = Append(c.out, [dst |-> c.temps + 1, src |-> c.work[1].dst])]
      BY <1>1, <1>4, <1>8 DEF Turn
    <3>2. \A k \in 1 .. Len(work) :
            [work[k] EXCEPT !.src = IF work[k].src = x.dst THEN m ELSE work[k].src] = ReroutedTo(work[k], x.dst, m)
      <4> SUFFICES ASSUME NEW k \in 1 .. Len(work)
                   PROVE  [work[k] EXCEPT !.src = IF work[k].src = x.dst THEN m ELSE work[k].src]
                            = ReroutedTo(work[k], x.dst, m)
        OBVIOUS
      <4> DEFINE y == work[k]
                 z == IF y.src = x.dst THEN m ELSE y.src
      <4>1. y = [dst |-> y.dst, src |-> y.src]
        BY <1>5
      <4> HIDE DEF y, z
      <4>2. [y EXCEPT !.src = z] = [dst |-> y.dst, src |-> z]
        BY <4>1
      <4> QED
        BY <4>2 DEF y, z, ReroutedTo
    <3>3. [k \in DOMAIN c.work |->
             [c.work[k] EXCEPT !.src = IF c.work[k].src = c.work[1].dst THEN c.temps + 1 ELSE c.work[k].src]] = w
      BY <1>2, <1>4, <3>2
    <3>4. Turn(c) = [c EXCEPT !.work = w, !.temps = m, !.out = o]
      BY <1>4, <3>1, <3>3
    <3> HIDE DEF w, m, o
    <3> QED
      BY <1>1, <3>4
  <2>2. x \in S /\ x \in ToSet(work) /\ x.dst \in 1 .. n
    BY <1>2, <1>3, <1>5 DEF ToSet
  <2>3. m \in Nat /\ t <= m /\ n <= m /\ m \in 1 .. m /\ m \in 0 .. m /\ m # 0
    BY <1>1
  <2>4. \E y \in ToSet(work) : y.src = x.dst
    BY <1>2, <1>8 DEF Free, ToSet
  <2>5. e \in Copies(m, m) /\ Copies(t, t) \subseteq Copies(m, m)
    BY <1>1, <2>2, <2>3 DEF Copies
  <2>6. o \in Seq(Copies(m, m))
    <3> HIDE DEF e, m
    <3>1. out \in Seq(Copies(m, m))
      BY <1>1, <2>5
    <3> QED
      BY <2>5, <3>1
  <2>7. \A k \in 1 .. Len(work) : w[k] \in Copies(n, m) /\ w[k].dst = work[k].dst
    <3> SUFFICES ASSUME NEW k \in 1 .. Len(work) PROVE w[k] \in Copies(n, m) /\ w[k].dst = work[k].dst
      OBVIOUS
    <3>0. 0 .. t \subseteq 0 .. m
      BY <1>1, <2>3
    <3>1. work[k].dst \in 1 .. n /\ work[k].src \in 0 .. m
      BY <1>5, <3>0
    <3> HIDE DEF m, x
    <3> QED
      BY <2>3, <3>1 DEF ReroutedTo, Copies
  <2>8. ToSet(w) = {ReroutedTo(y, x.dst, m) : y \in ToSet(work)}
    BY <1>2 DEF ToSet
  <2>9. w \in [1 .. Len(work) -> Copies(n, m)] /\ DOMAIN w = DOMAIN work
    BY <1>2, <2>7
  <2> HIDE DEF w, m, x, o
  <2>10. w \in Seq(Copies(n, m)) /\ Apart(w)
    <3>1. \A j \in Nat : \A q \in [1 .. j -> Copies(n, m)] : q \in Seq(Copies(n, m))
      OBVIOUS
    <3>2. w \in Seq(Copies(n, m))
      BY <1>2, <2>9, <3>1
    <3>3. Apart(w)
      BY <1>1, <1>2, <2>7, <2>9 DEF Apart
    <3> QED
      BY <3>2, <3>3
  <2>11. Turn(c) \in Copying(n)
    BY <1>6, <2>1, <2>3, <2>6, <2>10
  <2>12. Saves(c, Turn(c), x)
    BY <1>4, <2>1, <2>4, <2>8 DEF Saves, m, o
  <2> QED
    BY <1>4, <2>2, <2>11, <2>12
<1> QED
  BY <1>7, <1>8

\* Every turn leaves less to do: copies, and copies that read what another overwrites.
Dsts(W) == {y.dst : y \in W}
Waiting(W) == {y.dst : y \in {z \in W : z.src \in Dsts(W)}}
Left(c) == Cardinality(Dsts(ToSet(c.work))) + Cardinality(Waiting(ToSet(c.work)))

LEMMA CopySets ==
  ASSUME NEW n \in Nat, NEW c \in Copying(n)
  PROVE  LET W == ToSet(c.work)
         IN  /\ c.temps \in Nat /\ n <= c.temps
             /\ (\A y \in W : y.dst \in 1 .. n /\ y.src \in 0 .. c.temps)
             /\ (\A y, z \in W : y.dst = z.dst => y = z)
             /\ (c.work = <<>> <=> W = {})
             /\ Dsts(W) \in SUBSET (1 .. n) /\ IsFiniteSet(Dsts(W)) /\ Cardinality(Dsts(W)) \in Nat
             /\ Waiting(W) \in SUBSET Dsts(W) /\ IsFiniteSet(Waiting(W)) /\ Cardinality(Waiting(W)) \in Nat
<1> DEFINE work == c.work
           W == ToSet(work)
           S == Copies(n, c.temps)
<1>1. work \in Seq(S) /\ Apart(work) /\ c.temps \in Nat /\ n <= c.temps
  BY DEF Copying
<1> HIDE DEF work, S
<1>2. Len(work) \in Nat /\ DOMAIN work = 1 .. Len(work) /\ \A i \in 1 .. Len(work) : work[i] \in S
  BY <1>1
<1>3. work = <<>> <=> 1 .. Len(work) = {}
  <2>1. work = <<>> <=> Len(work) = 0
    BY <1>1
  <2> QED
    BY <1>2, <2>1
<1>4. W = {} <=> 1 .. Len(work) = {}
  BY <1>2 DEF ToSet
<1>5. \A y \in W : y \in S
  BY <1>2 DEF ToSet
<1>6. \A y \in W : y.dst \in 1 .. n /\ y.src \in 0 .. c.temps
  BY <1>5 DEF S, Copies
<1>7. \A y, z \in W : y.dst = z.dst => y = z
  BY <1>1, <1>2 DEF Apart, ToSet
<1>8. Dsts(W) \in SUBSET (1 .. n) /\ Waiting(W) \in SUBSET Dsts(W)
  BY <1>6 DEF Dsts, Waiting
<1>9. IsFiniteSet(1 .. n)
  BY FS_Interval
<1>10. IsFiniteSet(Dsts(W)) /\ Cardinality(Dsts(W)) \in Nat
  BY <1>8, <1>9, FS_Subset, FS_CardinalityType
<1>11. IsFiniteSet(Waiting(W)) /\ Cardinality(Waiting(W)) \in Nat
  BY <1>8, <1>10, FS_Subset, FS_CardinalityType
<1> QED
  BY <1>1, <1>3, <1>4, <1>6, <1>7, <1>8, <1>10, <1>11 DEF work

LEMMA TurnShrinks ==
  ASSUME NEW n \in Nat, NEW c \in Copying(n), c.work # <<>>
  PROVE  Left(c) \in Nat /\ Left(Turn(c)) \in Nat /\ Left(Turn(c)) + 1 <= Left(c)
<1> DEFINE d == Turn(c)
           W == ToSet(c.work)
           V == ToSet(d.work)
           A == Dsts(W)
           B == Waiting(W)
           C == Dsts(V)
           D == Waiting(V)
<1>1. d \in Copying(n) /\ \E x \in W : Emits(c, d, x) \/ Saves(c, d, x)
  BY TurnIs
<1> HIDE DEF d
<1>2. /\ (\A y \in W : y.dst \in 1 .. n) /\ (\A y, z \in W : y.dst = z.dst => y = z)
      /\ c.temps \in Nat /\ n <= c.temps /\ A \in SUBSET (1 .. n) /\ B \in SUBSET A
      /\ IsFiniteSet(A) /\ Cardinality(A) \in Nat /\ IsFiniteSet(B) /\ Cardinality(B) \in Nat
  BY CopySets
<1>3. IsFiniteSet(C) /\ Cardinality(C) \in Nat /\ IsFiniteSet(D) /\ Cardinality(D) \in Nat
  BY <1>1, CopySets
<1>4. PICK x \in W : Emits(c, d, x) \/ Saves(c, d, x)
  BY <1>1
<1>5. CASE Emits(c, d, x)
  <2>1. V = W \ {x}
    BY <1>5 DEF Emits
  <2> HIDE DEF V, W
  <2>2. C = A \ {x.dst} /\ x.dst \in A
    BY <1>2, <1>4, <2>1 DEF Dsts
  <2>3. D \subseteq B
    BY <2>1 DEF Dsts, Waiting
  <2> HIDE DEF A, B, C, D
  <2>4. Cardinality(C) = Cardinality(A) - 1
    BY <1>2, <2>2, FS_RemoveElement
  <2>5. Cardinality(D) <= Cardinality(B)
    BY <1>2, <2>3, FS_Subset
  <2>6. Left(c) = Cardinality(A) + Cardinality(B) /\ Left(d) = Cardinality(C) + Cardinality(D)
    BY DEF Left, A, B, C, D, V, W
  <2>7. Left(c) \in Nat /\ Left(d) \in Nat /\ Left(d) + 1 <= Left(c)
    BY <1>2, <1>3, <2>4, <2>5, <2>6
  <2> QED
    BY <2>7 DEF d
<1>6. CASE Saves(c, d, x)
  <2> DEFINE m == c.temps + 1
  <2>1. V = {ReroutedTo(y, x.dst, m) : y \in W} /\ \E y \in W : y.src = x.dst
    BY <1>6 DEF Saves
  <2>2. PICK w \in W : w.src = x.dst
    BY <2>1
  <2>3. m \notin A
    BY <1>2
  <2> HIDE DEF V, W, m
  <2>4. \A y : ReroutedTo(y, x.dst, m).dst = y.dst
              /\ (y.src = x.dst => ReroutedTo(y, x.dst, m).src = m)
              /\ (y.src # x.dst => ReroutedTo(y, x.dst, m).src = y.src)
    BY DEF ReroutedTo
  <2>5. C = A
    BY <2>1, <2>4 DEF Dsts
  <2>6. w.dst \in B
    BY <1>4, <2>2 DEF Dsts, Waiting
  <2>7. D \subseteq B \ {w.dst}
    <3> SUFFICES ASSUME NEW v \in V, v.src \in C PROVE v.dst \in B /\ v.dst # w.dst
      BY DEF Waiting
    <3>1. PICK y \in W : v = ReroutedTo(y, x.dst, m)
      BY <2>1
    <3>2. y.src # x.dst
      BY <2>3, <2>4, <2>5, <3>1
    <3>3. v.dst = y.dst /\ v.src = y.src
      BY <2>4, <3>1, <3>2
    <3>4. y.dst \in B
      BY <2>5, <3>3 DEF Waiting
    <3>5. y # w
      BY <2>2, <3>2
    <3> QED
      BY <1>2, <2>2, <3>3, <3>4, <3>5
  <2> HIDE DEF A, B, C, D
  <2>8. IsFiniteSet(B \ {w.dst}) /\ Cardinality(B \ {w.dst}) = Cardinality(B) - 1
    BY <1>2, <2>6, FS_RemoveElement
  <2>9. Cardinality(D) <= Cardinality(B) - 1
    BY <2>7, <2>8, FS_Subset
  <2>10. Left(c) = Cardinality(A) + Cardinality(B) /\ Left(d) = Cardinality(C) + Cardinality(D)
    BY DEF Left, A, B, C, D, V, W
  <2>11. Left(c) \in Nat /\ Left(d) \in Nat /\ Left(d) + 1 <= Left(c)
    BY <1>2, <1>3, <2>5, <2>9, <2>10
  <2> QED
    BY <2>11 DEF d
<1> QED
  BY <1>4, <1>5, <1>6

\* The files of 1 .. N that running out takes rho through.
Files(N) == [1 .. N -> Values]

Runs(out, N, rho, r) ==
  /\ r \in [0 .. Len(out) -> Files(N)] /\ r[0] = rho
  /\ \A k \in 1 .. Len(out) : r[k] = Put(r[k - 1], out[k].dst, Val(r[k - 1], out[k].src))

\* Of the copies W0 into 1 .. n of rho, those in W are still to be made, from cur.
Owed(W0, W, n, N, rho, cur) ==
  /\ \A x \in W0 : \/ \E y \in W : y.dst = x.dst /\ Val(cur, y.src) = Val(rho, x.src)
                   \/ (\A y \in W : y.dst # x.dst) /\ cur[x.dst] = Val(rho, x.src)
  /\ \A y \in W : y.src \in 0 .. N /\ \E x \in W0 : x.dst = y.dst
  /\ \A t \in 1 .. n : (\A x \in W0 : x.dst # t) => cur[t] = rho[t]

LEMMA PutVal ==
  ASSUME Values # {}, NEW N \in Nat, NEW cur \in Files(N), NEW d \in 1 .. N, NEW s \in 0 .. N
  PROVE  LET new == Put(cur, d, Val(cur, s))
         IN  /\ new \in Files(N) /\ new[d] = Val(cur, s) /\ Val(new, d) = Val(cur, s)
             /\ \A t \in 1 .. N : t # d => new[t] = cur[t]
             /\ \A t \in 0 .. N : t # d => Val(new, t) = Val(cur, t)
<1> DEFINE v == Val(cur, s)
<1>1. v \in Values
  <2>1. Zero \in Values
    BY DEF Zero
  <2>2. s # 0 => s \in 1 .. N
    OBVIOUS
  <2> QED
    BY <2>1, <2>2 DEF Val, Files
<1> HIDE DEF v
<1> DEFINE new == [cur EXCEPT ![d] = v]
<1>2. Put(cur, d, v) = new
  BY DEF Put
<1>3. new \in Files(N) /\ new[d] = v /\ \A t \in 1 .. N : t # d => new[t] = cur[t]
  BY <1>1 DEF Files
<1> HIDE DEF new
<1>4. Val(new, d) = v
  BY <1>3 DEF Val
<1>5. \A t \in 0 .. N : t # d => Val(new, t) = Val(cur, t)
  <2> SUFFICES ASSUME NEW t \in 0 .. N, t # d, t # 0 PROVE Val(new, t) = Val(cur, t)
    BY DEF Val
  <2>1. t \in 1 .. N
    OBVIOUS
  <2> QED
    BY <1>3, <2>1 DEF Val
<1> QED
  BY <1>2, <1>3, <1>4, <1>5 DEF v

LEMMA EmitPays ==
  ASSUME Values # {}, NEW n \in Nat, NEW N \in Nat, n <= N,
         NEW c \in Copying(n), NEW d, NEW x \in ToSet(c.work), Emits(c, d, x),
         NEW W0, \A z \in W0 : z.dst \in 1 .. n, NEW rho, NEW cur \in Files(N),
         Owed(W0, ToSet(c.work), n, N, rho, cur)
  PROVE  Owed(W0, ToSet(d.work), n, N, rho, Put(cur, x.dst, Val(cur, x.src)))
<1> DEFINE W == ToSet(c.work)
           V == ToSet(d.work)
           new == Put(cur, x.dst, Val(cur, x.src))
<1>1. (\A y \in W : y.dst \in 1 .. n) /\ \A y, z \in W : y.dst = z.dst => y = z
  BY CopySets
<1>2. V = W \ {x} /\ \A y \in W : y.src # x.dst
  BY DEF Emits
<1>3. \A y \in W : y.src \in 0 .. N /\ \E z \in W0 : z.dst = y.dst
  BY DEF Owed
<1>4. x.dst \in 1 .. N /\ x.src \in 0 .. N /\ 1 .. n \subseteq 1 .. N
  BY <1>1, <1>3
<1>5. /\ new[x.dst] = Val(cur, x.src)
      /\ \A t \in 1 .. N : t # x.dst => new[t] = cur[t]
      /\ \A t \in 0 .. N : t # x.dst => Val(new, t) = Val(cur, t)
  BY <1>4, PutVal
<1> HIDE DEF W, V, new
<1>6. x \in W /\ Owed(W0, W, n, N, rho, cur)
  BY DEF W
<1>7. ASSUME NEW z \in W0
      PROVE  \/ \E y \in V : y.dst = z.dst /\ Val(new, y.src) = Val(rho, z.src)
             \/ (\A y \in V : y.dst # z.dst) /\ new[z.dst] = Val(rho, z.src)
  <2>1. CASE \E y \in W : y.dst = z.dst /\ Val(cur, y.src) = Val(rho, z.src)
    <3>1. PICK y \in W : y.dst = z.dst /\ Val(cur, y.src) = Val(rho, z.src)
      BY <2>1
    <3>2. CASE y = x
      BY <1>1, <1>2, <1>5, <3>1, <3>2
    <3>3. CASE y # x
      <4>1. Val(new, y.src) = Val(cur, y.src) /\ y \in V
        BY <1>2, <1>3, <1>5, <3>3
      <4> QED
        BY <3>1, <4>1
    <3> QED
      BY <3>2, <3>3
  <2>2. CASE (\A y \in W : y.dst # z.dst) /\ cur[z.dst] = Val(rho, z.src)
    <3>1. z.dst \in 1 .. N /\ z.dst # x.dst
      BY <1>4, <1>6, <2>2
    <3> QED
      BY <1>2, <1>5, <2>2, <3>1
  <2> QED
    BY <1>6, <2>1, <2>2 DEF Owed
<1>8. ASSUME NEW t \in 1 .. n, \A z \in W0 : z.dst # t PROVE new[t] = rho[t]
  <2>1. cur[t] = rho[t]
    BY <1>6, <1>8 DEF Owed
  <2>2. t # x.dst
    BY <1>3, <1>6, <1>8
  <2> QED
    BY <1>4, <1>5, <2>1, <2>2
<1>9. \A y \in V : y.src \in 0 .. N /\ \E z \in W0 : z.dst = y.dst
  BY <1>2, <1>3
<1>10. Owed(W0, V, n, N, rho, new)
  BY <1>7, <1>8, <1>9 DEF Owed
<1> QED
  BY <1>10 DEF V, new

LEMMA SavePays ==
  ASSUME Values # {}, NEW n \in Nat, NEW N \in Nat, n <= N,
         NEW c \in Copying(n), NEW d, NEW x \in ToSet(c.work), Saves(c, d, x), c.temps + 1 <= N,
         NEW W0, \A z \in W0 : z.dst \in 1 .. n, NEW rho, NEW cur \in Files(N),
         Owed(W0, ToSet(c.work), n, N, rho, cur)
  PROVE  Owed(W0, ToSet(d.work), n, N, rho, Put(cur, c.temps + 1, Val(cur, x.dst)))
<1> DEFINE W == ToSet(c.work)
           V == ToSet(d.work)
           m == c.temps + 1
           new == Put(cur, m, Val(cur, x.dst))
           To(y) == ReroutedTo(y, x.dst, m)
<1>1. /\ c.temps \in Nat /\ n <= c.temps
      /\ \A y \in W : y.dst \in 1 .. n /\ y.src \in 0 .. c.temps
  BY CopySets
<1>2. V = {To(y) : y \in W}
  BY DEF Saves
<1>3. \A y \in W : y.src \in 0 .. N /\ \E z \in W0 : z.dst = y.dst
  BY DEF Owed
<1>4. /\ m \in 1 .. N /\ x.dst \in 0 .. N /\ 1 .. n \subseteq 1 .. N
      /\ (\A t \in 1 .. n : t # m) /\ \A t \in 0 .. c.temps : t # m
  BY <1>1
<1>5. /\ Val(new, m) = Val(cur, x.dst)
      /\ \A t \in 1 .. N : t # m => new[t] = cur[t]
      /\ \A t \in 0 .. N : t # m => Val(new, t) = Val(cur, t)
  <2> DEFINE e == x.dst
             v == Put(cur, m, Val(cur, e))
  <2>1. m \in 1 .. N /\ e \in 0 .. N
    BY <1>4
  <2> HIDE DEF m, e
  <2>2. /\ v[m] = Val(cur, e) /\ Val(v, m) = Val(cur, e)
        /\ \A t \in 1 .. N : t # m => v[t] = cur[t]
        /\ \A t \in 0 .. N : t # m => Val(v, t) = Val(cur, t)
    BY <2>1, PutVal
  <2> QED
    BY <2>2 DEF e
<1>6. \A y : /\ To(y).dst = y.dst
            /\ (y.src = x.dst => To(y).src = m) /\ (y.src # x.dst => To(y).src = y.src)
  BY DEF ReroutedTo
<1> HIDE DEF W, V, m, To, new
<1>7. x \in W /\ Owed(W0, W, n, N, rho, cur)
  BY DEF W
<1>8. \A y \in W : Val(new, To(y).src) = Val(cur, y.src) /\ To(y).src \in 0 .. N
  <2> SUFFICES ASSUME NEW y \in W PROVE Val(new, To(y).src) = Val(cur, y.src) /\ To(y).src \in 0 .. N
    OBVIOUS
  <2>1. CASE y.src = x.dst
    <3>1. To(y).src = m /\ m \in 0 .. N
      BY <1>4, <1>6, <2>1
    <3> QED
      BY <1>5, <2>1, <3>1
  <2>2. CASE y.src # x.dst
    <3>1. To(y).src = y.src /\ y.src # m /\ y.src \in 0 .. N
      BY <1>1, <1>3, <1>4, <1>6, <2>2
    <3> QED
      BY <1>5, <3>1
  <2> QED
    BY <2>1, <2>2
<1>9. ASSUME NEW z \in W0
      PROVE  \/ \E y \in V : y.dst = z.dst /\ Val(new, y.src) = Val(rho, z.src)
             \/ (\A y \in V : y.dst # z.dst) /\ new[z.dst] = Val(rho, z.src)
  <2>1. CASE \E y \in W : y.dst = z.dst /\ Val(cur, y.src) = Val(rho, z.src)
    <3>1. PICK y \in W : y.dst = z.dst /\ Val(cur, y.src) = Val(rho, z.src)
      BY <2>1
    <3>2. To(y) \in V /\ To(y).dst = z.dst /\ Val(new, To(y).src) = Val(rho, z.src)
      BY <1>2, <1>6, <1>8, <3>1
    <3> QED
      BY <3>2
  <2>2. CASE (\A y \in W : y.dst # z.dst) /\ cur[z.dst] = Val(rho, z.src)
    <3>1. \A y \in V : y.dst # z.dst
      BY <1>2, <1>6, <2>2
    <3>2. new[z.dst] = cur[z.dst]
      BY <1>4, <1>5
    <3> QED
      BY <2>2, <3>1, <3>2
  <2> QED
    BY <1>7, <2>1, <2>2 DEF Owed
<1>10. ASSUME NEW t \in 1 .. n, \A z \in W0 : z.dst # t PROVE new[t] = rho[t]
  <2>1. cur[t] = rho[t]
    BY <1>7, <1>10 DEF Owed
  <2> QED
    BY <1>4, <1>5, <2>1
<1>11. \A y \in V : y.src \in 0 .. N /\ \E z \in W0 : z.dst = y.dst
  BY <1>2, <1>3, <1>6, <1>8
<1>12. Owed(W0, V, n, N, rho, new)
  BY <1>9, <1>10, <1>11 DEF Owed
<1> QED
  BY <1>12 DEF V, new, m

Within(out, N) == \A k \in 1 .. Len(out) : out[k].dst <= N

\* The run before the last copy.
Shorter(out, r) == [k \in 0 .. Len(out) |-> r[k]]

\* A run of one copy more.
LEMMA RunsOneMore ==
  ASSUME NEW S, NEW out \in Seq(S), NEW m, NEW N, NEW rho, NEW r,
         Runs(Append(out, m), N, rho, r), Within(Append(out, m), N)
  PROVE  /\ Runs(out, N, rho, Shorter(out, r)) /\ Within(out, N) /\ m.dst <= N
         /\ r[Len(out)] \in Files(N) /\ Shorter(out, r)[Len(out)] = r[Len(out)]
         /\ r[Len(Append(out, m))] = Put(r[Len(out)], m.dst, Val(r[Len(out)], m.src))
<1> DEFINE L == Len(out)
           a == Append(out, m)
           q == [k \in 0 .. L |-> r[k]]
<1>1. L \in Nat /\ Len(a) = L + 1 /\ a[L + 1] = m /\ \A k \in 1 .. L : a[k] = out[k]
  OBVIOUS
<1> HIDE DEF L, a
<1>2. /\ r \in [0 .. L + 1 -> Files(N)] /\ r[0] = rho
      /\ \A k \in 1 .. L + 1 : r[k] = Put(r[k - 1], a[k].dst, Val(r[k - 1], a[k].src))
      /\ \A k \in 1 .. L + 1 : a[k].dst <= N
  BY <1>1 DEF Runs, Within, a
<1>3. /\ 0 \in 0 .. L /\ L \in 0 .. L /\ L + 1 \in 1 .. L + 1 /\ L + 1 - 1 = L
      /\ (\A k \in 0 .. L : k \in 0 .. L + 1)
      /\ \A k \in 1 .. L : k \in 1 .. L + 1 /\ k \in 0 .. L /\ k - 1 \in 0 .. L
  BY <1>1
<1>4. q \in [0 .. L -> Files(N)] /\ q[0] = rho /\ q[L] = r[L] /\ q[L] \in Files(N)
  BY <1>2, <1>3
<1>5. \A k \in 1 .. L : q[k] = Put(q[k - 1], out[k].dst, Val(q[k - 1], out[k].src))
  <2> SUFFICES ASSUME NEW k \in 1 .. L PROVE q[k] = Put(q[k - 1], out[k].dst, Val(q[k - 1], out[k].src))
    OBVIOUS
  <2>1. q[k] = r[k] /\ q[k - 1] = r[k - 1] /\ a[k] = out[k]
    BY <1>1, <1>3
  <2>2. r[k] = Put(r[k - 1], a[k].dst, Val(r[k - 1], a[k].src))
    BY <1>2, <1>3
  <2> HIDE DEF q
  <2> QED
    BY <2>1, <2>2
<1>6. \A k \in 1 .. L : out[k].dst <= N
  BY <1>1, <1>2, <1>3
<1>7. m.dst <= N /\ r[L + 1] = Put(r[L], m.dst, Val(r[L], m.src))
  BY <1>1, <1>2, <1>3
<1> HIDE DEF q
<1>8. Runs(out, N, rho, q) /\ Within(out, N)
  BY <1>4, <1>5, <1>6 DEF Runs, Within, L
<1> QED
  BY <1>1, <1>4, <1>7, <1>8 DEF L, a, q, Shorter

\* The turns of the loop.
Turns(n, work, p) ==
  LET T == 2 * Len(work)
  IN  /\ p \in [0 .. T -> Copying(n)] /\ p[0] = [work |-> work, temps |-> n, out |-> <<>>]
      /\ p[T].out = Sequentialize(work, n)
      /\ \A k \in 1 .. T : p[k] = Turn(p[k - 1])

LEMMA TurnsAre ==
  ASSUME NEW n \in Nat, NEW work \in Seq(Copies(n, n)), Apart(work)
  PROVE  \E p : Turns(n, work, p)
<1> DEFINE T == 2 * Len(work)
           M == Copying(n)
           base == [work |-> work, temps |-> n, out |-> <<>>]
           q == [k \in 1 .. T |-> k]
           Solves(h) == h = [s \in SUBSET (1 .. T) |-> IF s = {} THEN base ELSE Turn(h[s \ {Max(s)}])]
           G == [x \in M |-> [i \in 1 .. T |-> Turn(x)]]
<1>0. T \in Nat
  OBVIOUS
<1>1. Sequentialize(work, n) = (CHOOSE h : Solves(h))[1 .. T].out
  BY DEF Sequentialize, FoldLeft, MapThenFoldSet
<1>2. base \in M /\ \A x \in M : Turn(x) \in M
  <2>1. \A x \in M : Turn(x) \in M
    <3> SUFFICES ASSUME NEW x \in M PROVE Turn(x) \in M
      OBVIOUS
    <3>1. CASE x.work = <<>>
      BY <3>1 DEF Turn
    <3>2. CASE x.work # <<>>
      <4> HIDE DEF M
      <4> QED
        BY <3>2, TurnIs DEF M
    <3> QED
      BY <3>1, <3>2
  <2>2. base \in M
    <3> DEFINE P == [dst : Nat, src : Nat]
    <3>1. Copies(n, n) \subseteq P
      BY DEF Copies
    <3> HIDE DEF P
    <3>2. Seq(Copies(n, n)) \subseteq Seq(P)
      BY <3>1
    <3>3. work \in Seq(P) /\ <<>> \in Seq(P) /\ <<>> \in Seq(Copies(n, n)) /\ n <= n
      BY <3>2
    <3> QED
      BY <3>3 DEF Copying, P
  <2> QED
    BY <2>1, <2>2
<1> HIDE DEF T, M, base
<1>3. G \in [M -> [1 .. T -> M]] /\ \A x \in M : \A i \in 1 .. T : G[x][i] = Turn(x)
  BY <1>2
<1> HIDE DEF G
<1>4. PICK g : FoldsUp(base, G, 1 .. T, g) /\ \A s \in SUBSET (1 .. T) : g[s] \in M
  BY <1>0, <1>2, <1>3, FoldInside
<1>5. \A s \in SUBSET (1 .. T) : s # {} => Max(s) \in 1 .. T
  BY <1>0, MaxIsMember
<1>6. Solves(g)
  <2>1. \A s \in SUBSET (1 .. T) : s # {} => G[g[s \ {Max(s)}]][Max(s)] = Turn(g[s \ {Max(s)}])
    BY <1>3, <1>4, <1>5
  <2> QED
    BY <1>4, <2>1 DEF FoldsUp
<1> DEFINE h == CHOOSE h : Solves(h)
<1>7. Solves(h)
  BY <1>6
<1> HIDE DEF h
<1>8. h[{}] = base /\ \A s \in SUBSET (1 .. T) : s # {} => h[s] = Turn(h[s \ {Max(s)}])
  BY <1>7
<1>9. Unfolds(T, M, base, G, h)
  BY <1>3, <1>5, <1>8 DEF Unfolds
<1> HIDE DEF Solves
<1>10. PICK p : Passes(T, M, base, G, h[1 .. T], p)
  BY <1>0, <1>2, <1>3, <1>9, StepsOf
<1>11. p \in [0 .. T -> M] /\ p[0] = base /\ p[T] = h[1 .. T]
  BY <1>10 DEF Passes
<1>12. \A k \in 1 .. T : p[k] = Turn(p[k - 1])
  <2>1. \A k \in 1 .. T : k - 1 \in 0 .. T
    BY <1>0
  <2> QED
    BY <1>3, <1>10, <1>11, <2>1 DEF Passes
<1>13. p[T].out = Sequentialize(work, n)
  BY <1>1, <1>11 DEF h
<1>14. Turns(n, work, p)
  BY <1>11, <1>12, <1>13 DEF Turns, T, M, base
<1> QED
  BY <1>14

\* The loop is done after two turns for each copy.
LEMMA TurnsEnd ==
  ASSUME NEW n \in Nat, NEW work \in Seq(Copies(n, n)), Apart(work), NEW p, Turns(n, work, p)
  PROVE  p[2 * Len(work)].work = <<>>
<1> DEFINE T == 2 * Len(work)
           C == {k \in 0 .. T : p[k].work # <<>> /\ Left(p[k]) + k > T}
<1>1. /\ p \in [0 .. T -> Copying(n)] /\ p[0] = [work |-> work, temps |-> n, out |-> <<>>]
      /\ \A k \in 1 .. T : p[k] = Turn(p[k - 1])
  BY DEF Turns
<1>2. T \in Nat /\ Len(work) \in Nat
  OBVIOUS
<1>3. Left(p[0]) \in Nat /\ Left(p[0]) <= T
  <2> DEFINE W == ToSet(work)
             A == Dsts(W)
             B == Waiting(W)
  <2>1. p[0].work = work /\ p[0] \in Copying(n)
    BY <1>1, <1>2
  <2>2. /\ A \in SUBSET (1 .. n) /\ IsFiniteSet(A) /\ Cardinality(A) \in Nat
        /\ B \in SUBSET A /\ IsFiniteSet(B) /\ Cardinality(B) \in Nat
    BY <2>1, CopySets
  <2>3. Cardinality(B) <= Cardinality(A)
    <3> HIDE DEF A, B
    <3> QED
      BY <2>2, FS_Subset
  <2>4. Cardinality(A) <= Len(work)
    <3> DEFINE f == [i \in 1 .. Len(work) |-> work[i].dst]
    <3>1. DOMAIN work = 1 .. Len(work)
      OBVIOUS
    <3>2. f \in Surjection(1 .. Len(work), A)
      <4>1. A = {work[i].dst : i \in 1 .. Len(work)}
        BY <3>1 DEF Dsts, ToSet
      <4> HIDE DEF A
      <4> QED
        BY <4>1 DEF Surjection
    <3>3. IsFiniteSet(1 .. Len(work)) /\ Cardinality(1 .. Len(work)) = Len(work)
      <4> DEFINE z == Len(work)
      <4> HIDE DEF z
      <4>1. z \in Nat
        BY <1>2 DEF z
      <4>2. IsFiniteSet(1 .. z) /\ Cardinality(1 .. z) = z
        BY <4>1, FS_Interval
      <4> QED
        BY <4>2 DEF z
    <3> HIDE DEF f, A
    <3>4. Cardinality(A) <= Cardinality(1 .. Len(work))
      BY <3>2, <3>3, FS_Surjection
    <3> QED
      BY <3>3, <3>4
  <2>5. Left(p[0]) = Cardinality(A) + Cardinality(B)
    BY <2>1 DEF Left
  <2> HIDE DEF A, B
  <2> QED
    BY <1>2, <2>2, <2>3, <2>4, <2>5
<1> HIDE DEF T
<1>4. C = {}
  <2> SUFFICES ASSUME C # {} PROVE FALSE
    OBVIOUS
  <2>1. Min(C) \in C /\ \A y \in C : Min(C) <= y
    <3>1. C \in SUBSET Nat
      BY <1>2
    <3> HIDE DEF C
    <3> QED
      BY <3>1, LeastNatural
  <2>2. PICK k \in C : \A y \in C : k <= y
    BY <2>1
  <2>3. k \in 0 .. T /\ p[k].work # <<>> /\ Left(p[k]) + k > T
    BY <2>2
  <2>4. k # 0
    BY <1>2, <1>3, <2>3
  <2>5. k \in 1 .. T /\ k - 1 \in 0 .. T /\ ~(k <= k - 1)
    BY <1>2, <2>3, <2>4
  <2>6. k - 1 \notin C
    BY <2>2, <2>5
  <2>7. p[k] = Turn(p[k - 1]) /\ p[k - 1] \in Copying(n)
    BY <1>1, <2>5
  <2>8. p[k - 1].work # <<>>
    BY <2>3, <2>7 DEF Turn
  <2>9. Left(p[k - 1]) \in Nat /\ Left(p[k]) \in Nat /\ Left(p[k]) + 1 <= Left(p[k - 1])
    BY <2>7, <2>8, TurnShrinks
  <2>10. ~(Left(p[k - 1]) + (k - 1) > T)
    BY <2>5, <2>6, <2>8
  <2> DEFINE x == Left(p[k - 1])
             y == Left(p[k])
  <2> HIDE DEF x, y
  <2>11. x \in Nat /\ y \in Nat /\ y + 1 <= x /\ ~(x + (k - 1) > T) /\ y + k > T
    BY <2>3, <2>9, <2>10 DEF x, y
  <2> QED
    BY <1>2, <2>5, <2>11
<1>5. T \in 0 .. T /\ p[T] \in Copying(n)
  BY <1>1, <1>2
<1> DEFINE W == ToSet(p[T].work)
<1>6. /\ (p[T].work = <<>> <=> W = {})
      /\ IsFiniteSet(Dsts(W)) /\ Cardinality(Dsts(W)) \in Nat
      /\ Cardinality(Waiting(W)) \in Nat
  BY <1>5, CopySets
<1>7. p[T].work # <<>> => Left(p[T]) >= 1 /\ Left(p[T]) \in Nat
  <2> SUFFICES ASSUME W # {} PROVE Left(p[T]) >= 1 /\ Left(p[T]) \in Nat
    BY <1>6
  <2>1. Dsts(W) # {}
    BY DEF Dsts
  <2> DEFINE a == Cardinality(Dsts(W))
             b == Cardinality(Waiting(W))
  <2>2. a # 0
    BY <1>6, <2>1, FS_EmptySet
  <2>3. Left(p[T]) = a + b /\ a \in Nat /\ b \in Nat
    BY <1>6 DEF Left
  <2> HIDE DEF a, b
  <2> QED
    BY <2>2, <2>3
<1>8. p[T].work # <<>> => ~(Left(p[T]) + T > T)
  BY <1>4, <1>5
<1>9. p[T].work = <<>>
  BY <1>2, <1>7, <1>8
<1> QED
  BY <1>9 DEF T

\* Any number of copies with different destinations, cycles among them too, run one
\* after another as sequentialize orders them: each destination ends with what its
\* source held at first and nothing else below the new temporaries changes.
THEOREM CopiesActInParallel ==
  ASSUME Values # {}, NEW n \in Nat, NEW work \in Seq(Copies(n, n)), Apart(work),
         NEW N \in Nat, n <= N, NEW rho \in Files(N), NEW r,
         Within(Sequentialize(work, n), N), Runs(Sequentialize(work, n), N, rho, r)
  PROVE  LET end == r[Len(Sequentialize(work, n))]
         IN  /\ \A x \in ToSet(work) : end[x.dst] = Val(rho, x.src)
             /\ \A t \in 1 .. n : (\A x \in ToSet(work) : x.dst # t) => end[t] = rho[t]
<1> DEFINE T == 2 * Len(work)
           W0 == ToSet(work)
<1>1. PICK p : Turns(n, work, p)
  BY TurnsAre
<1>2. /\ p \in [0 .. T -> Copying(n)] /\ p[0] = [work |-> work, temps |-> n, out |-> <<>>]
      /\ p[T].out = Sequentialize(work, n)
      /\ \A k \in 1 .. T : p[k] = Turn(p[k - 1])
  BY <1>1 DEF Turns
<1>3. T \in Nat
  OBVIOUS
<1>4. p[T].work = <<>>
  BY <1>1, TurnsEnd
<1>5. \A x \in W0 : x.dst \in 1 .. n /\ x.src \in 0 .. n
  <2>1. \A i \in 1 .. Len(work) : work[i] \in Copies(n, n)
    OBVIOUS
  <2>2. DOMAIN work = 1 .. Len(work)
    OBVIOUS
  <2> QED
    BY <2>1, <2>2 DEF ToSet, Copies
<1> HIDE DEF T, W0
<1> DEFINE Pays(k) == \A q : Runs(p[k].out, N, rho, q) /\ Within(p[k].out, N) =>
                               Owed(W0, ToSet(p[k].work), n, N, rho, q[Len(p[k].out)])
           C == {k \in 0 .. T : ~Pays(k)}
<1>6. Pays(0)
  <2>1. p[0].work = work /\ p[0].out = <<>> /\ Len(p[0].out) = 0
    BY <1>2
  <2>2. \A y \in W0 : y.src \in 0 .. N
    BY <1>5
  <2> SUFFICES Owed(W0, W0, n, N, rho, rho)
    BY <2>1 DEF Runs, W0
  <2> QED
    BY <2>2 DEF Owed
<1>7. ASSUME NEW k \in 1 .. T, Pays(k - 1) PROVE Pays(k)
  <2> DEFINE c == p[k - 1]
             d == p[k]
             W == ToSet(c.work)
  <2>1. d = Turn(c) /\ c \in Copying(n)
    <3>1. k - 1 \in 0 .. T
      BY <1>3
    <3> QED
      BY <1>2, <3>1
  <2>2. CASE c.work = <<>>
    <3>1. d = c
      BY <2>1, <2>2 DEF Turn
    <3> HIDE DEF c, d
    <3>2. Pays(k)
      BY <1>7, <3>1 DEF c, d
    <3> QED
      BY <3>2
  <2>3. CASE c.work # <<>>
    <3> SUFFICES ASSUME NEW q, Runs(d.out, N, rho, q), Within(d.out, N)
                 PROVE  Owed(W0, ToSet(d.work), n, N, rho, q[Len(d.out)])
      OBVIOUS
    <3>1. PICK x \in W : Emits(c, d, x) \/ Saves(c, d, x)
      BY <2>1, <2>3, TurnIs
    <3>2. c.out \in Seq([dst : Nat, src : Nat]) /\ c.temps \in Nat
      BY <2>1 DEF Copying
    <3>3. \A g : Runs(c.out, N, rho, g) /\ Within(c.out, N) => Owed(W0, W, n, N, rho, g[Len(c.out)])
      BY <1>7
    <3> DEFINE s == Shorter(c.out, q)
               cur == q[Len(c.out)]
               S == [dst : Nat, src : Nat]
    <3> HIDE DEF c, d, S
    <3>4. c.out \in Seq(S) /\ c \in Copying(n)
      BY <2>1, <3>2 DEF S
    <3>5. CASE Emits(c, d, x)
      <4>1. d.out = Append(c.out, x)
        BY <3>5 DEF Emits
      <4>2. Runs(Append(c.out, x), N, rho, q) /\ Within(Append(c.out, x), N)
        BY <4>1
      <4>3. /\ Runs(c.out, N, rho, s) /\ Within(c.out, N) /\ cur \in Files(N)
            /\ s[Len(c.out)] = cur /\ q[Len(d.out)] = Put(cur, x.dst, Val(cur, x.src))
        BY <3>4, <4>1, <4>2, RunsOneMore
      <4> HIDE DEF s
      <4>4. Owed(W0, W, n, N, rho, cur)
        BY <3>3, <4>3
      <4> HIDE DEF cur
      <4>5. Owed(W0, ToSet(d.work), n, N, rho, Put(cur, x.dst, Val(cur, x.src)))
        BY <1>5, <3>1, <3>4, <3>5, <4>3, <4>4, EmitPays
      <4> QED
        BY <4>3, <4>5
    <3>6. CASE Saves(c, d, x)
      <4> DEFINE m == [dst |-> c.temps + 1, src |-> x.dst]
      <4>1. d.out = Append(c.out, m)
        BY <3>6 DEF Saves
      <4>2. m.dst = c.temps + 1 /\ m.src = x.dst
        OBVIOUS
      <4> HIDE DEF m
      <4>3. Runs(Append(c.out, m), N, rho, q) /\ Within(Append(c.out, m), N)
        BY <4>1
      <4>4. /\ Runs(c.out, N, rho, s) /\ Within(c.out, N) /\ cur \in Files(N) /\ m.dst <= N
            /\ s[Len(c.out)] = cur /\ q[Len(d.out)] = Put(cur, m.dst, Val(cur, m.src))
        BY <3>4, <4>1, <4>3, RunsOneMore
      <4> HIDE DEF s
      <4>5. Owed(W0, W, n, N, rho, cur)
        BY <3>3, <4>4
      <4> HIDE DEF cur
      <4>6. Owed(W0, ToSet(d.work), n, N, rho, Put(cur, c.temps + 1, Val(cur, x.dst)))
        BY <1>5, <3>1, <3>4, <3>6, <4>2, <4>4, <4>5, SavePays
      <4> QED
        BY <4>2, <4>4, <4>6
    <3> QED
      BY <3>1, <3>5, <3>6
  <2> QED
    BY <2>2, <2>3
<1> HIDE DEF Pays
<1>8. C = {}
  <2> SUFFICES ASSUME C # {} PROVE FALSE
    OBVIOUS
  <2>1. Min(C) \in C /\ \A y \in C : Min(C) <= y
    <3>1. C \in SUBSET Nat
      BY <1>3
    <3> HIDE DEF C
    <3> QED
      BY <3>1, LeastNatural
  <2>2. PICK k \in C : \A y \in C : k <= y
    BY <2>1
  <2>3. k # 0
    BY <1>6, <2>2
  <2>4. k \in 1 .. T /\ k - 1 \in 0 .. T /\ ~(k <= k - 1)
    BY <1>3, <2>2, <2>3
  <2>5. Pays(k - 1)
    BY <2>2, <2>4
  <2> QED
    BY <1>7, <2>2, <2>4, <2>5
<1>9. Pays(T)
  <2>1. T \in 0 .. T
    BY <1>3
  <2> QED
    BY <1>8, <2>1
<1>10. ToSet(p[T].work) = {}
  BY <1>4 DEF ToSet
<1> DEFINE end == r[Len(Sequentialize(work, n))]
<1>11. Owed(W0, {}, n, N, rho, end)
  BY <1>2, <1>9, <1>10 DEF Pays
<1> HIDE DEF end
<1>12. /\ \A x \in W0 : end[x.dst] = Val(rho, x.src)
       /\ \A t \in 1 .. n : (\A x \in W0 : x.dst # t) => end[t] = rho[t]
  BY <1>11 DEF Owed
<1> QED
  BY <1>12 DEF W0, end

-----------------------------------------------------------------------------
(***************************************************************************)
(* Temporaries that share one.                                             *)
(***************************************************************************)

Below(s, i) == {j \in s : i < j}

\* The pairs one instruction gives, with what is live below it, and those of the parts s.
PairsAt(code, live, s, i) ==
  IF code[i].to = 0 THEN {} ELSE Pairs(code[i].to, AboveParts(code, live, Below(s, i)))
PairsIn(code, live, s) == UNION {PairsAt(code, live, s, i) : i \in s}

LEMMA PairsFirst ==
  ASSUME NEW code, NEW live, NEW s \in SUBSET Nat, s # {}
  PROVE  PairsIn(code, live, s) =
           PairsIn(code, live, s \ {Min(s)}) \cup
           (IF code[Min(s)].to = 0 THEN {}
            ELSE Pairs(code[Min(s)].to, AboveParts(code, live, s \ {Min(s)})))
<1> DEFINE x == Min(s)
           u == s \ {x}
<1>1. x \in s /\ (\A y \in s : x <= y) /\ s = u \cup {x}
  BY LeastNatural
<1> HIDE DEF x
<1>2. x \in Nat /\ \A y \in u : y \in Nat /\ x < y
  BY <1>1
<1> HIDE DEF u
<1>3. Below(s, x) = u
  <2>1. ~(x < x)
    BY <1>2
  <2>2. \A j : j \in Below(s, x) <=> j \in s /\ x < j
    BY DEF Below
  <2>3. \A j : j \in u => j \in s /\ x < j
    BY <1>1, <1>2
  <2>4. \A j : j \in s /\ x < j => j \in u
    BY <1>1, <2>1
  <2> QED
    BY <2>2, <2>3, <2>4
<1>4. \A i \in u : Below(s, i) = Below(u, i)
  <2> SUFFICES ASSUME NEW i \in u PROVE \A j : j \in Below(s, i) <=> j \in Below(u, i)
    OBVIOUS
  <2>1. ~(i < x)
    BY <1>2
  <2> QED
    BY <1>1, <2>1 DEF Below
<1>5. \A i \in u : PairsAt(code, live, s, i) = PairsAt(code, live, u, i)
  BY <1>4 DEF PairsAt
<1>6. PairsIn(code, live, s) = PairsIn(code, live, u) \cup PairsAt(code, live, s, x)
  BY <1>1, <1>5 DEF PairsIn
<1> QED
  BY <1>3, <1>6 DEF PairsAt, x, u

\* The backward walk of buildPhiInterference.
LEMMA WalkIs ==
  ASSUME NEW n \in Nat, NEW code \in Seq(Instrs(n)), NEW live
  PROVE  FoldRight(Define, code, [live |-> live, edges |-> {}]) =
           [live |-> AboveParts(code, live, DOMAIN code), edges |-> PairsIn(code, live, DOMAIN code)]
<1> DEFINE m == Len(code)
           D == 1 .. m
           base == [live |-> live, edges |-> {}]
           Walked(s) == [live |-> AboveParts(code, live, s), edges |-> PairsIn(code, live, s)]
           Solves(h) == h = [s \in SUBSET D |-> IF s = {} THEN base
                                                ELSE Define(code[Min(s)], h[s \ {Min(s)}])]
           g == [s \in SUBSET D |-> Walked(s)]
<1>0. m \in Nat /\ DOMAIN code = D /\ \A s \in SUBSET D : s \in SUBSET Nat
  OBVIOUS
<1>1. FoldRight(Define, code, base) = (CHOOSE h : Solves(h))[D]
  BY <1>0 DEF FoldRight, MapThenFoldSet
<1>2. \A s \in SUBSET D : s # {} => Min(s) \in s
  BY <1>0, LeastNatural
<1>3. \A s \in SUBSET D : s # {} => Walked(s) = Define(code[Min(s)], Walked(s \ {Min(s)}))
  <2> SUFFICES ASSUME NEW s \in SUBSET D, s # {} PROVE Walked(s) = Define(code[Min(s)], Walked(s \ {Min(s)}))
    OBVIOUS
  <2> DEFINE x == Min(s)
             u == s \ {x}
             A == AboveParts(code, live, u)
             P == PairsIn(code, live, u)
             w == Walked(u)
  <2>1. AboveParts(code, live, s) = LiveBefore(code[x], A)
    BY <1>0, AboveFirst
  <2>2. PairsIn(code, live, s) = P \cup (IF code[x].to = 0 THEN {} ELSE Pairs(code[x].to, A))
    BY <1>0, PairsFirst
  <2> HIDE DEF x, u, A, P
  <2>3. w.live = A /\ w.edges = P
    BY DEF A, P
  <2> HIDE DEF w
  <2>4. Define(code[x], w) = [live |-> LiveBefore(code[x], A),
                              edges |-> P \cup (IF code[x].to = 0 THEN {} ELSE Pairs(code[x].to, A))]
    BY <2>3 DEF Define
  <2> QED
    BY <2>1, <2>2, <2>4 DEF w, x, u
<1>4. Walked({}) = base
  BY DEF AboveParts, LiveOver, ReadIn, PairsIn
<1> HIDE DEF Walked, D, base
<1>5. Solves(g)
  <2>1. \A s \in SUBSET D : s # {} => s \ {Min(s)} \in SUBSET D
    OBVIOUS
  <2> QED
    BY <1>3, <1>4, <2>1
<1> DEFINE h == CHOOSE h : Solves(h)
<1>6. Solves(h)
  BY <1>5
<1> HIDE DEF h
<1>7. h[{}] = base /\ \A s \in SUBSET D : s # {} => h[s] = Define(code[Min(s)], h[s \ {Min(s)}])
  BY <1>6
<1>8. h[D] = Walked(D)
  <2> DEFINE C == {s \in SUBSET D : h[s] # Walked(s)}
  <2> SUFFICES ASSUME C # {} PROVE FALSE
    OBVIOUS
  <2>1. PICK s \in C : \A V \in SUBSET s : V # s => V \notin C
    <3>1. IsFiniteSet(D) /\ C \in SUBSET SUBSET D
      BY <1>0, FS_Interval DEF D
    <3> HIDE DEF C
    <3> QED
      BY <3>1, SmallestSet
  <2>2. s \in SUBSET D /\ s # {} /\ h[s] # Walked(s)
    BY <1>4, <1>7, <2>1
  <2>3. s \ {Min(s)} \in SUBSET s /\ s \ {Min(s)} # s
    BY <1>2, <2>2
  <2>4. s \ {Min(s)} \notin C
    BY <2>1, <2>3
  <2>5. h[s \ {Min(s)}] = Walked(s \ {Min(s)})
    BY <2>2, <2>4
  <2> QED
    BY <1>3, <1>7, <2>2, <2>5
<1> QED
  BY <1>0, <1>1, <1>8 DEF h, Walked, base

\* t is needed below the i-th instruction of b, or below its phis: b reads it before it
\* writes it, or does not write it and its jump or some path from there reads it.
NeededBelow(f, b, i, t) ==
  LET rest == Below(DOMAIN f.code[b], i)
  IN  \/ ReadIn(f.code[b], rest, t)
      \/ (\A j \in rest : f.code[b][j].to # t) /\ (t \in Temps(<<f.jmp[b].arg>>) \/ ReadAfter(f, t, b))

\* What interferes: a result and what is needed below it, and the phi results of a block
\* with one another and with what is needed below them.
LEMMA NeededInterferes ==
  ASSUME NEW f, WellFormed(f), NEW b \in Blocks(f), NEW x \in 1 .. f.temps, NEW y \in 1 .. f.temps, x # y
  PROVE  /\ \A i \in DOMAIN f.code[b] :
              f.code[b][i].to = x /\ NeededBelow(f, b, i, y) => {x, y} \in Interference(f)
         /\ x \in PhiResults(f, b) /\ (y \in PhiResults(f, b) \/ NeededBelow(f, b, 0, y)) =>
              {x, y} \in Interference(f)
<1> DEFINE in == Liveness(f)
           code == f.code[b]
           live == LiveAtJump(f, in, b)
           D == DOMAIN code
           w == FoldRight(Define, code, [live |-> live, edges |-> {}])
           phis == PhiResults(f, b)
<1>1. f.temps \in Nat /\ code \in Seq(Instrs(f.temps))
  BY Parts
<1>2. w.live = AboveParts(code, live, D) /\ w.edges = PairsIn(code, live, D)
  <2> HIDE DEF code, live
  <2>1. w = [live |-> AboveParts(code, live, D), edges |-> PairsIn(code, live, D)]
    BY <1>1, WalkIs
  <2> HIDE DEF w
  <2> QED
    BY <2>1
<1>3. w.edges \cup UNION {Pairs(t, w.live \cup phis) : t \in phis} \subseteq Interference(f)
  <2>1. BlockInterference(f, in, b) = w.edges \cup UNION {Pairs(t, w.live \cup phis) : t \in phis}
    BY DEF BlockInterference
  <2> HIDE DEF w, phis
  <2>2. Interference(f) = UNION {BlockInterference(f, in, c) : c \in Blocks(f)}
    BY DEF Interference
  <2> HIDE DEF in
  <2> QED
    BY <2>1, <2>2
<1>4. y \in live <=> y \in Temps(<<f.jmp[b].arg>>) \/ ReadAfter(f, y, b)
  BY ExactLiveness DEF LiveAtJump
<1>5. D \in SUBSET Nat
  BY <1>1
<1> HIDE DEF in, code, live, w, phis
<1>6. \A i : NeededBelow(f, b, i, y) => y \in AboveParts(code, live, Below(D, i))
  <2> SUFFICES ASSUME NEW i, NeededBelow(f, b, i, y) PROVE y \in AboveParts(code, live, Below(D, i))
    OBVIOUS
  <2>1. Below(D, i) \in SUBSET D
    BY DEF Below
  <2>2. LiveOver(code, live, Below(D, i), y)
    BY <1>4 DEF NeededBelow, LiveOver, code
  <2> QED
    BY <2>1, <2>2, AboveIs
<1>7. ASSUME NEW i \in D, code[i].to = x, NeededBelow(f, b, i, y) PROVE {x, y} \in Interference(f)
  <2>1. y \in AboveParts(code, live, Below(D, i))
    BY <1>6, <1>7
  <2>2. {x, y} \in PairsAt(code, live, D, i)
    BY <1>7, <2>1 DEF PairsAt, Pairs
  <2>3. {x, y} \in PairsIn(code, live, D)
    BY <1>7, <2>2 DEF PairsIn
  <2> QED
    BY <1>2, <1>3, <2>3
<1>8. ASSUME x \in phis, y \in phis \/ NeededBelow(f, b, 0, y) PROVE {x, y} \in Interference(f)
  <2>1. Below(D, 0) = D
    <3>1. \A i \in D : 0 < i
      BY <1>1 DEF code
    <3> QED
      BY <3>1 DEF Below
  <2>2. y \in w.live \cup phis
    BY <1>2, <1>6, <1>8, <2>1
  <2>3. {x, y} \in Pairs(x, w.live \cup phis)
    BY <2>2 DEF Pairs
  <2> QED
    BY <1>3, <1>8, <2>3
<1> QED
  BY <1>7, <1>8 DEF code, phis

\* Classes of 1..n that agree with one another and hold no pair of edges.
Agree(n, edges, c) ==
  /\ \A t \in 1 .. n : t \in c[t] /\ \A u \in c[t] : c[u] = c[t]
  /\ \A t \in 1 .. n : \A x, y \in c[t] : x # y => {x, y} \notin edges
Partitions(n, edges) == {c \in [1 .. n -> SUBSET (1 .. n)] : Agree(n, edges, c)}

\* union joins two classes only when nothing of one interferes with anything of the other.
LEMMA JoinKeeps ==
  ASSUME NEW n \in Nat, NEW edges, NEW c \in Partitions(n, edges), NEW d \in 1 .. n, NEW a \in 1 .. n
  PROVE  Join(edges, c, d, a) \in Partitions(n, edges)
<1> DEFINE both == c[d] \cup c[a]
           N == 1 .. n
           j == [t \in N |-> IF t \in both THEN both ELSE c[t]]
<1>1. c \in [N -> SUBSET N] /\ Agree(n, edges, c)
  BY DEF Partitions
<1>2. CASE ~MayJoin(edges, c, d, a)
  BY <1>2 DEF Join
<1>3. CASE MayJoin(edges, c, d, a)
  <2>1. Join(edges, c, d, a) = j
    BY <1>1, <1>3 DEF Join
  <2>2. /\ \A t \in N : t \in c[t] /\ \A u \in c[t] : c[u] = c[t]
        /\ \A t \in N : \A x, y \in c[t] : x # y => {x, y} \notin edges
    BY <1>1 DEF Agree
  <2>3. \A x \in c[d], y \in c[a] : {x, y} \notin edges
    BY <1>3 DEF MayJoin
  <2>4. both \in SUBSET N /\ d \in N /\ a \in N
    BY <1>1
  <2> HIDE DEF N
  <2>5. \A x, y \in both : x # y => {x, y} \notin edges
    <3> SUFFICES ASSUME NEW x \in both, NEW y \in both, x # y PROVE {x, y} \notin edges
      OBVIOUS
    <3>1. CASE x \in c[d] /\ y \in c[d]
      BY <2>2, <2>4, <3>1
    <3>2. CASE x \in c[a] /\ y \in c[a]
      BY <2>2, <2>4, <3>2
    <3>3. CASE x \in c[d] /\ y \in c[a]
      BY <2>3, <3>3
    <3>4. CASE x \in c[a] /\ y \in c[d]
      <4>1. {y, x} \notin edges /\ {y, x} = {x, y}
        BY <2>3, <3>4
      <4> QED
        BY <4>1
    <3> QED
      BY <3>1, <3>2, <3>3, <3>4
  <2>6. \A t \in N : t \notin both => \A u \in c[t] : u \notin both
    <3> SUFFICES ASSUME NEW t \in N, NEW u \in c[t], u \in both PROVE t \in both
      OBVIOUS
    <3>1. c[u] = c[t] /\ t \in c[t]
      BY <2>2
    <3>2. c[u] = c[d] \/ c[u] = c[a]
      BY <2>2, <2>4
    <3> QED
      BY <3>1, <3>2
  <2> HIDE DEF both
  <2>7. j \in [N -> SUBSET N] /\ \A t \in N : j[t] = IF t \in both THEN both ELSE c[t]
    BY <1>1, <2>4
  <2> HIDE DEF j
  <2>8. \A t \in N : t \in j[t] /\ \A u \in j[t] : j[u] = j[t]
    <3> SUFFICES ASSUME NEW t \in N PROVE t \in j[t] /\ \A u \in j[t] : j[u] = j[t]
      OBVIOUS
    <3>1. CASE t \in both
      BY <2>4, <2>7, <3>1
    <3>2. CASE t \notin both
      <4>1. j[t] = c[t] /\ c[t] \in SUBSET N
        BY <1>1, <2>7, <3>2
      <4>2. \A u \in c[t] : u \notin both /\ u \in N
        BY <2>6, <3>2, <4>1
      <4> QED
        BY <2>2, <2>7, <4>1, <4>2
    <3> QED
      BY <3>1, <3>2
  <2>9. \A t \in N : \A x, y \in j[t] : x # y => {x, y} \notin edges
    BY <2>2, <2>5, <2>7
  <2>10. Agree(n, edges, j)
    BY <2>8, <2>9 DEF Agree, N
  <2> QED
    BY <2>1, <2>7, <2>10 DEF Partitions, N
<1> QED
  BY <1>2, <1>3

LEMMA JoinArgsKeeps ==
  ASSUME NEW f, NEW B, NEW m \in Nat, NEW edges, NEW c \in Partitions(m, edges), NEW p \in Phis(B, m)
  PROVE  JoinArgs(f, edges, c, p) \in Partitions(m, edges)
<1> DEFINE n == Len(p.args)
           q == [k \in DOMAIN p.args |-> k]
           M == Partitions(m, edges)
           Step(x, k) == JoinArg(f, edges, x, p, k)
           Solves(h) == h = [s \in SUBSET (1 .. n) |-> IF s = {} THEN c ELSE Step(h[s \ {Max(s)}], q[Max(s)])]
           G == [x \in M |-> [i \in 1 .. n |-> Step(x, q[i])]]
<1>0. n \in Nat /\ DOMAIN p.args = 1 .. n /\ p.to \in 0 .. m /\ \A k \in 1 .. n : p.args[k] \in 0 .. m
  BY DEF Phis
<1>1. JoinArgs(f, edges, c, p) = (CHOOSE h : Solves(h))[1 .. n]
  BY <1>0 DEF JoinArgs, FoldLeft, MapThenFoldSet
<1>2. \A x \in M : \A i \in 1 .. n : Step(x, q[i]) \in M
  <2> SUFFICES ASSUME NEW x \in M, NEW i \in 1 .. n PROVE JoinArg(f, edges, x, p, i) \in M
    BY <1>0
  <2>1. p.to # 0 => p.to \in 1 .. m
    BY <1>0
  <2>2. p.args[i] # 0 => p.args[i] \in 1 .. m
    BY <1>0
  <2>3. p.to # 0 /\ p.args[i] # 0 => Join(edges, x, p.to, p.args[i]) \in M
    BY <2>1, <2>2, JoinKeeps
  <2> QED
    BY <2>3 DEF JoinArg
<1>3. c \in M
  OBVIOUS
<1> HIDE DEF n, M, q, Step
<1>5. G \in [M -> [1 .. n -> M]] /\ \A x \in M : \A i \in 1 .. n : G[x][i] = Step(x, q[i])
  BY <1>2
<1> HIDE DEF G
<1>6. PICK y : FoldsUp(c, G, 1 .. n, y) /\ \A s \in SUBSET (1 .. n) : y[s] \in M
  BY <1>0, <1>3, <1>5, FoldInside
<1>7. \A s \in SUBSET (1 .. n) : s # {} => Max(s) \in 1 .. n
  BY <1>0, MaxIsMember
<1>8. Solves(y)
  <2>1. \A s \in SUBSET (1 .. n) : s # {} => G[y[s \ {Max(s)}]][Max(s)] = Step(y[s \ {Max(s)}], q[Max(s)])
    BY <1>5, <1>6, <1>7
  <2> QED
    BY <1>6, <2>1 DEF FoldsUp
<1> DEFINE h == CHOOSE h : Solves(h)
<1>9. Solves(h)
  BY <1>8
<1> HIDE DEF h
<1>10. h[{}] = c /\ \A s \in SUBSET (1 .. n) : s # {} => h[s] = Step(h[s \ {Max(s)}], q[Max(s)])
  BY <1>9
<1>11. \A s \in SUBSET (1 .. n) : s # {} /\ h[s \ {Max(s)}] \in M => h[s] \in M
  BY <1>2, <1>7, <1>10
<1> HIDE DEF Solves
<1>12. \A s \in SUBSET (1 .. n) : h[s] \in M
  BY <1>0, <1>3, <1>10, <1>11, FoldKeeps
<1>13. h[1 .. n] \in M
  BY <1>12
<1> QED
  BY <1>1, <1>13 DEF h, M

LEMMA JoinPhisKeeps ==
  ASSUME NEW f, WellFormed(f), NEW edges, NEW c \in Partitions(f.temps, edges), NEW b \in Blocks(f)
  PROVE  JoinPhis(f, edges, c, b) \in Partitions(f.temps, edges)
<1> DEFINE n == Len(f.phis[b])
           q == f.phis[b]
           M == Partitions(f.temps, edges)
           Step(x, p) == JoinArgs(f, edges, x, p)
           Solves(h) == h = [s \in SUBSET (1 .. n) |-> IF s = {} THEN c ELSE Step(h[s \ {Max(s)}], q[Max(s)])]
           G == [x \in M |-> [i \in 1 .. n |-> Step(x, q[i])]]
<1>0. /\ n \in Nat /\ DOMAIN q = 1 .. n /\ f.temps \in Nat
      /\ \A i \in 1 .. n : q[i] \in Phis(Blocks(f), f.temps)
  <2>1. q \in Seq(Phis(Blocks(f), f.temps)) /\ f.temps \in Nat
    BY Parts
  <2> HIDE DEF q
  <2>2. Len(q) \in Nat /\ DOMAIN q = 1 .. Len(q) /\ \A i \in 1 .. Len(q) : q[i] \in Phis(Blocks(f), f.temps)
    BY <2>1
  <2> QED
    BY <2>1, <2>2 DEF q
<1>1. JoinPhis(f, edges, c, b) = (CHOOSE h : Solves(h))[1 .. n]
  BY <1>0 DEF JoinPhis, FoldLeft, MapThenFoldSet
<1>2. \A x \in M : \A i \in 1 .. n : Step(x, q[i]) \in M
  <2> HIDE DEF q, n
  <2> QED
    BY <1>0, JoinArgsKeeps
<1>3. c \in M
  OBVIOUS
<1> HIDE DEF n, M, q, Step
<1>5. G \in [M -> [1 .. n -> M]] /\ \A x \in M : \A i \in 1 .. n : G[x][i] = Step(x, q[i])
  BY <1>2
<1> HIDE DEF G
<1>6. PICK y : FoldsUp(c, G, 1 .. n, y) /\ \A s \in SUBSET (1 .. n) : y[s] \in M
  BY <1>0, <1>3, <1>5, FoldInside
<1>7. \A s \in SUBSET (1 .. n) : s # {} => Max(s) \in 1 .. n
  BY <1>0, MaxIsMember
<1>8. Solves(y)
  <2>1. \A s \in SUBSET (1 .. n) : s # {} => G[y[s \ {Max(s)}]][Max(s)] = Step(y[s \ {Max(s)}], q[Max(s)])
    BY <1>5, <1>6, <1>7
  <2> QED
    BY <1>6, <2>1 DEF FoldsUp
<1> DEFINE h == CHOOSE h : Solves(h)
<1>9. Solves(h)
  BY <1>8
<1> HIDE DEF h
<1>10. h[{}] = c /\ \A s \in SUBSET (1 .. n) : s # {} => h[s] = Step(h[s \ {Max(s)}], q[Max(s)])
  BY <1>9
<1>11. \A s \in SUBSET (1 .. n) : s # {} /\ h[s \ {Max(s)}] \in M => h[s] \in M
  BY <1>2, <1>7, <1>10
<1> HIDE DEF Solves
<1>12. \A s \in SUBSET (1 .. n) : h[s] \in M
  BY <1>0, <1>3, <1>10, <1>11, FoldKeeps
<1>13. h[1 .. n] \in M
  BY <1>12
<1> QED
  BY <1>1, <1>13 DEF h, M

LEMMA ClassesKeep ==
  ASSUME NEW f, WellFormed(f), NEW edges
  PROVE  ClassesOver(f, edges) \in Partitions(f.temps, edges)
<1> DEFINE n == Len(f.order)
           q == f.order
           M == Partitions(f.temps, edges)
           each == [t \in 1 .. f.temps |-> {t}]
           Step(x, b) == JoinPhis(f, edges, x, b)
           Solves(h) == h = [s \in SUBSET (1 .. n) |-> IF s = {} THEN each ELSE Step(h[s \ {Max(s)}], q[Max(s)])]
           G == [x \in M |-> [i \in 1 .. n |-> Step(x, q[i])]]
<1>0. n \in Nat /\ DOMAIN q = 1 .. n /\ \A i \in 1 .. n : q[i] \in Blocks(f)
  BY Parts DEF Blocks, ToSet
<1>1. ClassesOver(f, edges) = (CHOOSE h : Solves(h))[1 .. n]
  BY <1>0 DEF ClassesOver, FoldLeft, MapThenFoldSet
<1>2. \A x \in M : \A i \in 1 .. n : Step(x, q[i]) \in M
  <2> HIDE DEF q, n
  <2> QED
    BY <1>0, JoinPhisKeeps
<1>3. each \in M
  <2> DEFINE N == 1 .. f.temps
  <2> HIDE DEF N
  <2>1. [t \in N |-> {t}] \in [N -> SUBSET N] /\ \A t \in N : [u \in N |-> {u}][t] = {t}
    OBVIOUS
  <2>2. Agree(f.temps, edges, each)
    BY DEF Agree
  <2> QED
    BY <2>1, <2>2 DEF Partitions, N
<1> HIDE DEF each
<1> HIDE DEF n, M, q, Step
<1>5. G \in [M -> [1 .. n -> M]] /\ \A x \in M : \A i \in 1 .. n : G[x][i] = Step(x, q[i])
  BY <1>2
<1> HIDE DEF G
<1>6. PICK y : FoldsUp(each, G, 1 .. n, y) /\ \A s \in SUBSET (1 .. n) : y[s] \in M
  BY <1>0, <1>3, <1>5, FoldInside
<1>7. \A s \in SUBSET (1 .. n) : s # {} => Max(s) \in 1 .. n
  BY <1>0, MaxIsMember
<1>8. Solves(y)
  <2>1. \A s \in SUBSET (1 .. n) : s # {} => G[y[s \ {Max(s)}]][Max(s)] = Step(y[s \ {Max(s)}], q[Max(s)])
    BY <1>5, <1>6, <1>7
  <2> QED
    BY <1>6, <2>1 DEF FoldsUp
<1> DEFINE h == CHOOSE h : Solves(h)
<1>9. Solves(h)
  BY <1>8
<1> HIDE DEF h
<1>10. h[{}] = each /\ \A s \in SUBSET (1 .. n) : s # {} => h[s] = Step(h[s \ {Max(s)}], q[Max(s)])
  BY <1>9
<1>11. \A s \in SUBSET (1 .. n) : s # {} /\ h[s \ {Max(s)}] \in M => h[s] \in M
  BY <1>2, <1>7, <1>10
<1> HIDE DEF Solves
<1>12. \A s \in SUBSET (1 .. n) : h[s] \in M
  BY <1>0, <1>3, <1>10, <1>11, FoldKeeps
<1>13. h[1 .. n] \in M
  BY <1>12
<1> QED
  BY <1>1, <1>13 DEF h, M

\* Temporaries that CoalescePhis gives one register are never needed together: where one
\* of a class is written, by an instruction or as the result of a phi, no other of the
\* class is written with it or is still to be read below, on any path from there.
NotNeededTogether(f) ==
  \A b \in Blocks(f) : \A x \in 1 .. f.temps : \A y \in Classes(f)[x] \ {x} :
    /\ \A i \in DOMAIN f.code[b] : f.code[b][i].to = x => ~NeededBelow(f, b, i, y)
    /\ x \in PhiResults(f, b) => y \notin PhiResults(f, b) /\ ~NeededBelow(f, b, 0, y)

LEMMA ClassesShare ==
  ASSUME NEW f, WellFormed(f)
  PROVE  NotNeededTogether(f)
<1> SUFFICES ASSUME NEW b \in Blocks(f), NEW x \in 1 .. f.temps, NEW y \in Classes(f)[x] \ {x}
             PROVE  /\ \A i \in DOMAIN f.code[b] : f.code[b][i].to = x => ~NeededBelow(f, b, i, y)
                    /\ x \in PhiResults(f, b) => y \notin PhiResults(f, b) /\ ~NeededBelow(f, b, 0, y)
  BY DEF NotNeededTogether
<1>1. Classes(f) \in Partitions(f.temps, Interference(f))
  BY ClassesKeep DEF Classes
<1>2. y \in 1 .. f.temps /\ x # y /\ x \in Classes(f)[x] /\ y \in Classes(f)[x]
  BY <1>1 DEF Partitions, Agree
<1>3. {x, y} \notin Interference(f)
  BY <1>1, <1>2 DEF Partitions, Agree
<1> QED
  BY <1>2, <1>3, NeededInterferes

\* CoalescePhis gives one register only to temporaries that no path needs together, in
\* whatever function the passes before it leave (lower.CoalescePhis).
THEOREM CoalescedNotNeededTogether ==
  Spec => [](phase = "coalesce" => NotNeededTogether(low))
<1>1. IInv => (phase = "coalesce" => NotNeededTogether(low))
  BY ClassesShare DEF IInv
<1> QED
  BY <1>1, InitInv, NextInv, PTL DEF Spec
=============================================================================
