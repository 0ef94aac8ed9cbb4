--------------------------- MODULE MemoStageProofs ---------------------------
(***************************************************************************)
(* What the memoised stage promises, for every set of modules, every pair  *)
(* of budgets and every closure mode.                                      *)
(*                                                                         *)
(* The store is the heart of it: the code of a stored body is the code of  *)
(* functions whose bodies are part of the entry's key (Backed), so a key   *)
(* that still holds vouches for the code.  A new entry is backed because   *)
(* every splice is recorded together with what was recorded of the callee  *)
(* (Sourced), and because consultedSet adds the stored sets of the frozen  *)
(* callees, which this compile's recorder knows nothing about.             *)
(*                                                                         *)
(* The passes are folds over the function names.  A set of modules that    *)
(* every step of an inliner keeps (Closed) is kept by the whole pass, and  *)
(* each fact about a pass is such a set.                                   *)
(*                                                                         *)
(* The last part is about two builds in a row of the same module: what the *)
(* first one files is valid for the second (RebuildInv).                   *)
(***************************************************************************)
EXTENDS MemoStage, SumsAndPaths, TLAPS

\* What one splice keeps, inlining into a function keeps.
LEMMA InlineIntoStays ==
  ASSUME NEW M, NEW rec, NEW f, \A x \in M : InlineOnce(x, rec, f) \in M, NEW m \in M
  PROVE  InlineInto(m, rec, f) \in M
<1> DEFINE n == CallBudget
           seq == [k \in 1 .. n |-> k]
           Solves(h) == h = [s \in SUBSET (1 .. n) |-> IF s = {} THEN m
                                                      ELSE InlineOnce(h[s \ {Max(s)}], rec, f)]
           G == [x \in M |-> [i \in 1 .. n |-> InlineOnce(x, rec, f)]]
<1>0. n \in Nat
  BY BudgetsAreCounts
<1>1. InlineInto(m, rec, f) = (CHOOSE h : Solves(h))[1 .. n]
  BY DEF InlineInto, FoldLeft, MapThenFoldSet
<1>2. G \in [M -> [1 .. n -> M]] /\ \A x \in M : \A i \in 1 .. n : G[x][i] = InlineOnce(x, rec, f)
  OBVIOUS
<1> HIDE DEF n, G
<1>3. PICK g : FoldsUp(m, G, 1 .. n, g) /\ \A s \in SUBSET (1 .. n) : g[s] \in M
  BY <1>0, <1>2, FoldInside
<1>4. Solves(g)
  <2>1. ASSUME NEW s \in SUBSET (1 .. n), s # {}
        PROVE  G[g[s \ {Max(s)}]][Max(s)] = InlineOnce(g[s \ {Max(s)}], rec, f)
    <3>1. Max(s) \in 1 .. n /\ g[s \ {Max(s)}] \in M
      BY <1>0, <1>3, <2>1, MaxIsMember
    <3> QED
      BY <1>2, <3>1
  <2> QED
    BY <1>3, <2>1 DEF FoldsUp
<1> DEFINE h == CHOOSE h : Solves(h)
<1>5. Solves(h)
  BY <1>4
<1> HIDE DEF h
<1>6. h[{}] \in M /\ \A s \in SUBSET (1 .. n) : s # {} => h[s] = InlineOnce(h[s \ {Max(s)}], rec, f)
  BY <1>5
<1>7. \A s \in SUBSET (1 .. n) : h[s] \in M
  <2>1. \A s \in SUBSET (1 .. n) : s # {} /\ h[s \ {Max(s)}] \in M => h[s] \in M
    BY <1>6
  <2> HIDE DEF Solves
  <2> QED
    BY <1>0, <1>6, <2>1, FoldKeeps
<1> QED
  BY <1>1, <1>7 DEF h

----------------------------------------------------------------------------
(* One splice.                                                             *)

\* A body in the stage: late passes may take more from a size than is recorded.
AnyBodies ==
  [code : SUBSET Versions, size : Int, late : Nat, calls : Seq(Names), refs : SUBSET Names]

\* A module in flight whose functions are D.
InFlight(D) ==
  [body : [D -> AnyBodies], kept : SUBSET D, consulted : [D -> SUBSET D],
   spliced : [D -> SUBSET D], left : Int]

\* The recorder only adds.
Notes(D, m, n) ==
  \A f \in D : m.consulted[f] \subseteq n.consulted[f] /\ m.spliced[f] \subseteq n.spliced[f]

\* A step that changes no body.
Reads(D, m, n) == n.body = m.body /\ n.kept = m.kept /\ Notes(D, m, n)

\* A step that splices a function of the module into f, and records it.
Splices(D, m, n, f) ==
  \E g \in m.kept :
    /\ n.kept = m.kept /\ Notes(D, m, n)
    /\ \A h \in D \ {f} : n.body[h] = m.body[h]
    /\ n.body[f].code = m.body[f].code \cup m.body[g].code
    /\ n.body[f].late = m.body[f].late + m.body[g].late
    /\ Named(n.body[f]) \subseteq Named(m.body[f]) \cup Named(m.body[g])
    /\ {g} \cup m.consulted[g] \subseteq n.consulted[f] \cup {f}
    /\ {g} \cup m.spliced[g] \subseteq n.spliced[f]

\* A splice adds the callee's code, calls and values, and nothing else.
LEMMA ClonedBody ==
  ASSUME NEW b \in AnyBodies, NEW c \in AnyBodies, NEW i \in 1 .. Len(b.calls)
  PROVE  /\ Cloned(b, i, c) \in AnyBodies
         /\ Cloned(b, i, c).code = b.code \cup c.code
         /\ Cloned(b, i, c).late = b.late + c.late
         /\ Named(Cloned(b, i, c)) \subseteq Named(b) \cup Named(c)
<1> DEFINE p == SubSeq(b.calls, 1, i - 1)
           q == SubSeq(b.calls, i + 1, Len(b.calls))
           s == p \o c.calls \o q
<1>0. b.calls \in Seq(Names) /\ c.calls \in Seq(Names) /\ Len(b.calls) \in Nat /\ i \in Nat
  BY DEF AnyBodies
<1>1. p \in Seq(Names) /\ ToSet(p) \subseteq ToSet(b.calls)
  <2>1. p \in Seq(Names) /\ Len(p) \in Nat /\ Len(p) = (IF 1 <= i - 1 THEN (i - 1) - 1 + 1 ELSE 0)
        /\ \A k \in 1 .. Len(p) : p[k] = b.calls[1 + k - 1]
    BY <1>0, SubSeqProperties
  <2>2. \A k \in 1 .. Len(p) : p[k] = b.calls[k] /\ k \in 1 .. Len(b.calls)
    BY <1>0, <2>1
  <2> HIDE DEF p
  <2>3. DOMAIN p = 1 .. Len(p) /\ DOMAIN b.calls = 1 .. Len(b.calls)
    BY <1>0, <2>1
  <2> QED
    BY <2>1, <2>2, <2>3 DEF ToSet
<1>2. q \in Seq(Names) /\ ToSet(q) \subseteq ToSet(b.calls)
  <2>1. q \in Seq(Names) /\ Len(q) \in Nat /\ Len(q) = (IF i + 1 <= Len(b.calls) THEN Len(b.calls) - (i + 1) + 1 ELSE 0)
        /\ \A k \in 1 .. Len(q) : q[k] = b.calls[(i + 1) + k - 1]
    BY <1>0, SubSeqProperties
  <2>2. \A k \in 1 .. Len(q) : q[k] = b.calls[k + i] /\ k + i \in 1 .. Len(b.calls)
    BY <1>0, <2>1
  <2> HIDE DEF q
  <2>3. DOMAIN q = 1 .. Len(q) /\ DOMAIN b.calls = 1 .. Len(b.calls)
    BY <1>0, <2>1
  <2>4. \A k \in DOMAIN q : q[k] \in ToSet(b.calls)
    <3> SUFFICES ASSUME NEW k \in 1 .. Len(q) PROVE q[k] \in ToSet(b.calls)
      BY <2>3
    <3> DEFINE j == k + i
    <3>1. q[k] = b.calls[j] /\ j \in DOMAIN b.calls
      BY <2>2, <2>3
    <3> HIDE DEF j
    <3> QED
      BY <3>1 DEF ToSet
  <2> QED
    BY <2>1, <2>4 DEF ToSet
<1> HIDE DEF p, q
<1>3. ASSUME NEW x \in Seq(Names), NEW y \in Seq(Names)
      PROVE  x \o y \in Seq(Names) /\ ToSet(x \o y) \subseteq ToSet(x) \cup ToSet(y)
  <2> DEFINE z == x \o y
  <2>1. /\ z \in Seq(Names) /\ Len(z) = Len(x) + Len(y) /\ Len(x) \in Nat /\ Len(y) \in Nat
        /\ \A k \in 1 .. Len(x) + Len(y) : z[k] = IF k <= Len(x) THEN x[k] ELSE y[k - Len(x)]
    BY ConcatProperties
  <2> HIDE DEF z
  <2>2. DOMAIN z = 1 .. Len(x) + Len(y) /\ DOMAIN x = 1 .. Len(x) /\ DOMAIN y = 1 .. Len(y)
    BY <2>1
  <2>3. \A k \in DOMAIN z : z[k] \in ToSet(x) \cup ToSet(y)
    <3> SUFFICES ASSUME NEW k \in DOMAIN z PROVE z[k] \in ToSet(x) \cup ToSet(y)
      OBVIOUS
    <3>1. CASE k <= Len(x)
      BY <2>1, <2>2, <3>1 DEF ToSet
    <3>2. CASE k > Len(x)
      <4>1. z[k] = y[k - Len(x)] /\ k - Len(x) \in DOMAIN y
        BY <2>1, <2>2, <3>2
      <4> QED
        BY <4>1 DEF ToSet
    <3> QED
      BY <2>1, <2>2, <3>1, <3>2
  <2>4. ToSet(z) \subseteq ToSet(x) \cup ToSet(y)
    BY <2>3 DEF ToSet
  <2> QED
    BY <2>1, <2>4 DEF z
<1> DEFINE pc == p \o c.calls
<1>4. pc \in Seq(Names) /\ ToSet(pc) \subseteq ToSet(p) \cup ToSet(c.calls)
  BY <1>0, <1>1, <1>3
<1>5. s \in Seq(Names) /\ ToSet(s) \subseteq ToSet(pc) \cup ToSet(q)
  <2>1. s = pc \o q
    OBVIOUS
  <2> HIDE DEF pc, s
  <2> QED
    BY <1>2, <1>3, <1>4, <2>1
<1> HIDE DEF pc
<1>6. ToSet(s) \subseteq ToSet(b.calls) \cup ToSet(c.calls)
  BY <1>1, <1>2, <1>4, <1>5
<1>7. /\ Cloned(b, i, c) = [code |-> b.code \cup c.code, size |-> b.size + c.size,
                            late |-> b.late + c.late, calls |-> s, refs |-> b.refs \cup c.refs]
  BY DEF Cloned, p, q
<1> HIDE DEF s
<1>8. /\ b.code \cup c.code \in SUBSET Versions /\ b.size + c.size \in Int /\ b.late + c.late \in Nat
      /\ b.refs \cup c.refs \in SUBSET Names
  BY DEF AnyBodies
<1>9. Cloned(b, i, c) \in AnyBodies
  BY <1>5, <1>7, <1>8 DEF AnyBodies
<1> QED
  BY <1>6, <1>7, <1>9 DEF Named

\* InlineOnce is such a step.
LEMMA OnceStep ==
  ASSUME NEW D, NEW m \in InFlight(D), NEW rec, NEW f \in D
  PROVE  /\ InlineOnce(m, rec, f) \in InFlight(D) /\ InlineOnce(m, rec, f).left = m.left
         /\ Reads(D, m, InlineOnce(m, rec, f)) \/ Splices(D, m, InlineOnce(m, rec, f), f)
<1> DEFINE seen == Consult(m, f, Callees(m, f))
           calls == m.body[f].calls
           I == {k \in 1 .. Len(calls) : Inlinable(m, rec, calls[k])}
           i == SelectInSeq(calls, LAMBDA g : Inlinable(m, rec, g))
<1>0. /\ m.body \in [D -> AnyBodies] /\ m.kept \in SUBSET D /\ m.consulted \in [D -> SUBSET D]
      /\ m.spliced \in [D -> SUBSET D] /\ m.left \in Int
      /\ m.body[f] \in AnyBodies
  BY DEF InFlight
<1>1. Callees(m, f) \in SUBSET D
  BY <1>0 DEF Callees
<1>2. \A x \in InFlight(D) : \A gs \in SUBSET D :
        /\ Consult(x, f, gs) \in InFlight(D)
        /\ Consult(x, f, gs).consulted = [x.consulted EXCEPT ![f] = @ \cup (gs \ {f})]
        /\ Consult(x, f, gs).body = x.body /\ Consult(x, f, gs).kept = x.kept
        /\ Consult(x, f, gs).spliced = x.spliced /\ Consult(x, f, gs).left = x.left
  <2> SUFFICES ASSUME NEW x \in InFlight(D), NEW gs \in SUBSET D
               PROVE  /\ Consult(x, f, gs) \in InFlight(D)
                      /\ Consult(x, f, gs).consulted = [x.consulted EXCEPT ![f] = @ \cup (gs \ {f})]
                      /\ Consult(x, f, gs).body = x.body /\ Consult(x, f, gs).kept = x.kept
                      /\ Consult(x, f, gs).spliced = x.spliced /\ Consult(x, f, gs).left = x.left
    OBVIOUS
  <2> DEFINE y == Consult(x, f, gs)
             old == x.consulted
             new == [old EXCEPT ![f] = @ \cup (gs \ {f})]
  <2>1. y = [x EXCEPT !.consulted = new]
    BY DEF Consult, InFlight
  <2>2. old \in [D -> SUBSET D] /\ new \in [D -> SUBSET D]
    BY DEF InFlight
  <2> HIDE DEF new, y
  <2>3. /\ y.consulted = new /\ y.body = x.body /\ y.kept = x.kept /\ y.spliced = x.spliced
        /\ y.left = x.left /\ y \in InFlight(D)
    BY <2>1, <2>2 DEF InFlight
  <2> QED
    BY <2>3 DEF y, new
<1>3. /\ seen \in InFlight(D) /\ seen.consulted = [m.consulted EXCEPT ![f] = @ \cup (Callees(m, f) \ {f})]
      /\ seen.body = m.body /\ seen.kept = m.kept /\ seen.spliced = m.spliced /\ seen.left = m.left
  BY <1>1, <1>2
<1>4. i = 0 \/ (i \in 1 .. Len(calls) /\ Inlinable(m, rec, calls[i]))
  <2>1. i = IF I # {} THEN Min(I) ELSE 0
    BY DEF SelectInSeq
  <2>2. I \in SUBSET Nat
    OBVIOUS
  <2>3. I # {} => Min(I) \in I
    <3> HIDE DEF I
    <3> QED
      BY <2>2, LeastNatural
  <2> HIDE DEF i
  <2> QED
    BY <2>1, <2>3
<1>5. InlineOnce(m, rec, f) = IF i = 0 THEN seen ELSE SpliceCall(seen, f, i)
  BY DEF InlineOnce
<1> HIDE DEF i, seen
<1>6. CASE i = 0
  <2>1. Notes(D, m, seen)
    BY <1>0, <1>3 DEF Notes
  <2> QED
    BY <1>3, <1>5, <1>6, <2>1 DEF Reads
<1>7. CASE i # 0
  <2> DEFINE g == calls[i]
             n == SpliceCall(seen, f, i)
             c == Consult(seen, f, {g} \cup seen.consulted[g])
             b == Cloned(m.body[f], i, m.body[g])
  <2>1. g \in m.kept /\ g \in D /\ i \in 1 .. Len(calls)
    BY <1>0, <1>4, <1>7 DEF Inlinable
  <2>2. {g} \cup seen.consulted[g] \in SUBSET D
    BY <1>3, <2>1 DEF InFlight
  <2>3. /\ c \in InFlight(D) /\ c.consulted = [seen.consulted EXCEPT ![f] = @ \cup (({g} \cup seen.consulted[g]) \ {f})]
        /\ c.body = m.body /\ c.kept = m.kept /\ c.spliced = m.spliced /\ c.left = m.left
    BY <1>2, <1>3, <2>2
  <2>4. n = [c EXCEPT !.body[f] = b, !.spliced[f] = @ \cup {g} \cup m.spliced[g]]
    BY <1>3, <2>3 DEF SpliceCall
  <2>5. /\ b \in AnyBodies /\ b.code = m.body[f].code \cup m.body[g].code
        /\ b.late = m.body[f].late + m.body[g].late
        /\ Named(b) \subseteq Named(m.body[f]) \cup Named(m.body[g])
    <3> DEFINE x == m.body[f]
               y == m.body[g]
    <3>1. x \in AnyBodies /\ y \in AnyBodies /\ i \in 1 .. Len(x.calls)
      BY <1>0, <2>1
    <3> HIDE DEF x, y
    <3>2. /\ Cloned(x, i, y) \in AnyBodies /\ Cloned(x, i, y).code = x.code \cup y.code
          /\ Cloned(x, i, y).late = x.late + y.late
          /\ Named(Cloned(x, i, y)) \subseteq Named(x) \cup Named(y)
      BY <3>1, ClonedBody
    <3> QED
      BY <3>2 DEF x, y
  <2> HIDE DEF g, c, b, n
  <2>6. /\ n.body = [m.body EXCEPT ![f] = b] /\ n.kept = m.kept /\ n.consulted = c.consulted
        /\ n.spliced = [m.spliced EXCEPT ![f] = @ \cup {g} \cup m.spliced[g]]
        /\ n.left = m.left
        /\ n = [body |-> n.body, kept |-> n.kept, consulted |-> n.consulted,
                spliced |-> n.spliced, left |-> n.left]
    BY <2>3, <2>4 DEF InFlight
  <2>7. c.consulted \in [D -> SUBSET D]
    BY <2>3 DEF InFlight
  <2>8. n \in InFlight(D)
    <3>1. n.body \in [D -> AnyBodies] /\ n.spliced \in [D -> SUBSET D]
      BY <1>0, <2>1, <2>5, <2>6
    <3> QED
      BY <1>0, <2>6, <2>7, <3>1 DEF InFlight
  <2>9. /\ n.consulted[f] = seen.consulted[f] \cup (({g} \cup seen.consulted[g]) \ {f})
        /\ \A h \in D \ {f} : n.consulted[h] = seen.consulted[h]
        /\ \A h \in D : m.consulted[h] \subseteq seen.consulted[h]
    <3>1. seen.consulted \in [D -> SUBSET D]
      BY <1>3 DEF InFlight
    <3> QED
      BY <1>0, <1>3, <2>3, <2>6, <3>1
  <2>10. /\ n.spliced[f] = m.spliced[f] \cup {g} \cup m.spliced[g]
         /\ \A h \in D \ {f} : n.spliced[h] = m.spliced[h]
    BY <1>0, <2>6
  <2>11. Notes(D, m, n)
    BY <2>9, <2>10 DEF Notes
  <2>12. {g} \cup m.consulted[g] \subseteq n.consulted[f] \cup {f} /\ {g} \cup m.spliced[g] \subseteq n.spliced[f]
    BY <2>1, <2>9, <2>10
  <2>13. n.body[f] = b /\ \A h \in D \ {f} : n.body[h] = m.body[h]
    BY <1>0, <2>6
  <2>14. Splices(D, m, n, f)
    BY <2>1, <2>5, <2>6, <2>11, <2>12, <2>13 DEF Splices
  <2> QED
    BY <1>5, <1>7, <2>6, <2>8, <2>14 DEF n
<1> QED
  BY <1>6, <1>7

----------------------------------------------------------------------------
(* The passes.                                                             *)

\* M is kept by every step of the inliners into the functions of F.
Closed(M, D, F) ==
  /\ M \subseteq InFlight(D) /\ F \subseteq D
  /\ \A m \in M : \A n \in InFlight(D) : Reads(D, m, n) => n \in M
  /\ \A f \in F : \A m \in M : \A n \in InFlight(D) : Splices(D, m, n, f) => n \in M

\* What both kinds of step keep, inlining into one function keeps.
LEMMA IntoStays ==
  ASSUME NEW D, NEW M, NEW F, Closed(M, D, F), NEW m \in M, NEW f \in F, NEW rec
  PROVE  InlineInto(m, rec, f) \in M
<1>1. ASSUME NEW x \in M PROVE InlineOnce(x, rec, f) \in M
  <2> DEFINE y == InlineOnce(x, rec, f)
  <2>1. x \in InFlight(D) /\ f \in D
    BY DEF Closed
  <2>2. y \in InFlight(D) /\ (Reads(D, x, y) \/ Splices(D, x, y, f))
    BY <2>1, OnceStep
  <2> HIDE DEF y
  <2>3. y \in M
    BY <2>2 DEF Closed
  <2> QED
    BY <2>3 DEF y
<1> QED
  BY <1>1, InlineIntoStays

\* Inlining into f changes no other body, and what is recorded only grows.
LEMMA IntoGrows ==
  ASSUME NEW D, NEW m \in InFlight(D), NEW f \in D, NEW rec
  PROVE  LET t == InlineInto(m, rec, f)
         IN  /\ t \in InFlight(D) /\ t.kept = m.kept /\ t.left = m.left /\ Notes(D, m, t)
             /\ \A h \in D \ {f} : t.body[h] = m.body[h]
<1> DEFINE M == {t \in InFlight(D) : /\ t.kept = m.kept /\ t.left = m.left /\ Notes(D, m, t)
                                     /\ \A h \in D \ {f} : t.body[h] = m.body[h]}
<1>1. m \in M
  BY DEF Notes
<1>2. ASSUME NEW x \in M PROVE InlineOnce(x, rec, f) \in M
  <2> DEFINE y == InlineOnce(x, rec, f)
  <2>1. y \in InFlight(D) /\ y.left = x.left /\ (Reads(D, x, y) \/ Splices(D, x, y, f))
    BY OnceStep
  <2> HIDE DEF y
  <2>2. y.kept = x.kept /\ Notes(D, x, y) /\ \A h \in D \ {f} : y.body[h] = x.body[h]
    BY <2>1 DEF Reads, Splices
  <2>3. Notes(D, m, y)
    BY <2>2 DEF Notes
  <2>4. y \in M
    BY <2>1, <2>2, <2>3
  <2> QED
    BY <2>4 DEF y
<1> HIDE DEF M
<1>3. InlineInto(m, rec, f) \in M
  BY <1>1, <1>2, InlineIntoStays
<1> QED
  BY <1>3 DEF M

\* Building the call graph changes no body.
LEMMA CallGraphReads ==
  ASSUME NEW D, NEW m \in InFlight(D)
  PROVE  BuildCallGraph(m) \in InFlight(D) /\ Reads(D, m, BuildCallGraph(m))
         /\ BuildCallGraph(m).left = m.left
<1> DEFINE n == BuildCallGraph(m)
           new == [f \in D |-> IF f \in m.kept THEN m.consulted[f] \cup (Callees(m, f) \ {f}) ELSE m.consulted[f]]
<1>1. m.consulted \in [D -> SUBSET D] /\ m.kept \in SUBSET D
  BY DEF InFlight
<1>2. n = [m EXCEPT !.consulted = new]
  <2>1. DOMAIN m.consulted = D
    BY <1>1
  <2> QED
    BY <2>1 DEF BuildCallGraph
<1>3. new \in [D -> SUBSET D] /\ \A f \in D : m.consulted[f] \subseteq new[f]
  BY <1>1 DEF Callees
<1> HIDE DEF new, n
<1>4. /\ n.consulted = new /\ n.body = m.body /\ n.kept = m.kept /\ n.spliced = m.spliced
      /\ n.left = m.left /\ n \in InFlight(D)
  BY <1>2, <1>3 DEF InFlight
<1>5. Reads(D, m, n)
  BY <1>3, <1>4 DEF Reads, Notes
<1> QED
  BY <1>4, <1>5 DEF n

\* What the inliner's steps keep, the inliner keeps.
LEMMA InlineModuleStays ==
  ASSUME NEW D, NEW M, NEW frozen, Closed(M, D, D \ frozen), NEW m \in M
  PROVE  InlineModule(m, frozen) \in M
<1> DEFINE n == Len(BottomUp)
           rec == {f \in m.kept : Recursive(m, f)}
           Into(x, f) == IF f \in x.kept \ (frozen \cup NoSplit) THEN InlineInto(x, rec, f) ELSE x
           base == BuildCallGraph(m)
           Solves(h) == h = [s \in SUBSET (1 .. n) |-> IF s = {} THEN base
                                                      ELSE Into(h[s \ {Max(s)}], BottomUp[Max(s)])]
           G == [x \in M |-> [i \in 1 .. n |-> Into(x, BottomUp[i])]]
<1>0. n \in Nat /\ DOMAIN BottomUp = 1 .. n
  BY BudgetsAreCounts
<1>1. InlineModule(m, frozen) = (CHOOSE h : Solves(h))[1 .. n]
  BY <1>0 DEF InlineModule, FoldLeft, MapThenFoldSet
<1>2. base \in M
  <2>1. base \in InFlight(D) /\ Reads(D, m, base)
    BY CallGraphReads DEF Closed
  <2> QED
    BY <2>1 DEF Closed
<1>3. \A x \in M : \A f : Into(x, f) \in M
  <2> SUFFICES ASSUME NEW x \in M, NEW f, f \in x.kept \ (frozen \cup NoSplit)
               PROVE  InlineInto(x, rec, f) \in M
    OBVIOUS
  <2>1. f \in D \ frozen
    BY DEF Closed, InFlight
  <2> QED
    BY <2>1, IntoStays
<1> HIDE DEF n, base, rec, Into
<1>4. G \in [M -> [1 .. n -> M]] /\ \A x \in M : \A i \in 1 .. n : G[x][i] = Into(x, BottomUp[i])
  BY <1>3
<1> HIDE DEF G
<1>5. PICK g : FoldsUp(base, G, 1 .. n, g) /\ \A s \in SUBSET (1 .. n) : g[s] \in M
  BY <1>0, <1>2, <1>4, FoldInside
<1>6. Solves(g)
  <2>1. ASSUME NEW s \in SUBSET (1 .. n), s # {}
        PROVE  G[g[s \ {Max(s)}]][Max(s)] = Into(g[s \ {Max(s)}], BottomUp[Max(s)])
    <3>1. Max(s) \in 1 .. n /\ g[s \ {Max(s)}] \in M
      BY <1>0, <1>5, <2>1, MaxIsMember
    <3> QED
      BY <1>4, <3>1
  <2> QED
    BY <1>5, <2>1 DEF FoldsUp
<1> DEFINE h == CHOOSE h : Solves(h)
<1>7. Solves(h)
  BY <1>6
<1> HIDE DEF h
<1>8. h[{}] = base /\ \A s \in SUBSET (1 .. n) : s # {} => h[s] = Into(h[s \ {Max(s)}], BottomUp[Max(s)])
  BY <1>7
<1>9. \A s \in SUBSET (1 .. n) : h[s] \in M
  <2>1. \A s \in SUBSET (1 .. n) : s # {} /\ h[s \ {Max(s)}] \in M => h[s] \in M
    BY <1>3, <1>8
  <2> HIDE DEF Solves
  <2> QED
    BY <1>0, <1>2, <1>8, <2>1, FoldKeeps
<1> QED
  BY <1>1, <1>9 DEF h

\* The pass into nosplit callers keeps what both kinds of step keep: a caller that
\* is put back has only been read.
LEMMA NoSplitStays ==
  ASSUME NEW D, NEW M, NEW F, Closed(M, D, F), D \cap NoSplit \subseteq F, NEW m \in M
  PROVE  InlineIntoNoSplitCallers(m) \in M
<1> DEFINE n == Len(BottomUp)
           rec == {f \in m.kept : Recursive(m, f)}
           Grown(x, f) == InlineInto(x, rec, f).body[f].size - x.body[f].size
           Into(x, f) ==
             IF f \notin x.kept \cap NoSplit \/ x.left = 0 THEN x
             ELSE IF Grown(x, f) > x.left THEN [InlineInto(x, rec, f) EXCEPT !.body[f] = x.body[f]]
             ELSE [InlineInto(x, rec, f) EXCEPT !.left = @ - Grown(x, f)]
           base == BuildCallGraph(m)
           Solves(h) == h = [s \in SUBSET (1 .. n) |-> IF s = {} THEN base
                                                      ELSE Into(h[s \ {Max(s)}], BottomUp[Max(s)])]
           G == [x \in M |-> [i \in 1 .. n |-> Into(x, BottomUp[i])]]
<1>0. n \in Nat /\ DOMAIN BottomUp = 1 .. n
  BY BudgetsAreCounts
<1>1. InlineIntoNoSplitCallers(m) = (CHOOSE h : Solves(h))[1 .. n]
  BY <1>0 DEF InlineIntoNoSplitCallers, FoldLeft, MapThenFoldSet
<1>2. base \in M
  <2>1. base \in InFlight(D) /\ Reads(D, m, base)
    BY CallGraphReads DEF Closed
  <2> QED
    BY <2>1 DEF Closed
<1> HIDE DEF rec
<1>3. \A x \in M : \A f : Into(x, f) \in M
  <2> SUFFICES ASSUME NEW x \in M, NEW f, f \in x.kept \cap NoSplit
               PROVE  /\ [InlineInto(x, rec, f) EXCEPT !.body[f] = x.body[f]] \in M
                      /\ [InlineInto(x, rec, f) EXCEPT !.left = @ - Grown(x, f)] \in M
    OBVIOUS
  <2> DEFINE t == InlineInto(x, rec, f)
             y == [t EXCEPT !.body[f] = x.body[f]]
             z == [t EXCEPT !.left = @ - Grown(x, f)]
  <2>1. x \in InFlight(D) /\ f \in D /\ f \in F /\ x.body \in [D -> AnyBodies]
    BY DEF Closed, InFlight
  <2>2. t \in M
    BY <2>1, IntoStays
  <2>3. /\ t \in InFlight(D) /\ t.kept = x.kept /\ Notes(D, x, t) /\ t.body \in [D -> AnyBodies]
        /\ \A h \in D \ {f} : t.body[h] = x.body[h]
    BY <2>1, IntoGrows DEF InFlight
  <2>4. Grown(x, f) \in Int
    BY <2>1, <2>3 DEF AnyBodies
  <2> HIDE DEF t
  <2>5. y \in M
    <3>1. y.body = x.body /\ y.kept = t.kept /\ y.consulted = t.consulted /\ y.spliced = t.spliced /\ y \in InFlight(D)
      <4>1. /\ y.body = [t.body EXCEPT ![f] = x.body[f]] /\ y.kept = t.kept
            /\ y.consulted = t.consulted /\ y.spliced = t.spliced /\ y.left = t.left
            /\ y = [body |-> y.body, kept |-> y.kept, consulted |-> y.consulted,
                    spliced |-> y.spliced, left |-> y.left]
        BY <2>3 DEF InFlight
      <4> HIDE DEF y
      <4>2. y.body = x.body
        BY <2>1, <2>3, <4>1
      <4> QED
        BY <2>1, <2>3, <4>1, <4>2 DEF InFlight
    <3> HIDE DEF y
    <3>2. Reads(D, x, y)
      BY <2>3, <3>1 DEF Reads, Notes
    <3> QED
      BY <3>1, <3>2 DEF Closed
  <2>6. z \in M
    <3> DEFINE d == Grown(x, f)
    <3>1. d \in Int /\ z = [t EXCEPT !.left = @ - d]
      BY <2>4
    <3> HIDE DEF d, z
    <3>2. z.body = t.body /\ z.kept = t.kept /\ z.consulted = t.consulted /\ z.spliced = t.spliced /\ z \in InFlight(D)
      BY <2>3, <3>1 DEF InFlight
    <3>3. Reads(D, t, z)
      BY <3>2 DEF Reads, Notes
    <3> QED
      BY <2>2, <3>2, <3>3 DEF Closed
  <2> QED
    BY <2>5, <2>6 DEF t
<1> HIDE DEF n, base, Into
<1>4. G \in [M -> [1 .. n -> M]] /\ \A x \in M : \A i \in 1 .. n : G[x][i] = Into(x, BottomUp[i])
  BY <1>3
<1> HIDE DEF G
<1>5. PICK g : FoldsUp(base, G, 1 .. n, g) /\ \A s \in SUBSET (1 .. n) : g[s] \in M
  BY <1>0, <1>2, <1>4, FoldInside
<1>6. Solves(g)
  <2>1. ASSUME NEW s \in SUBSET (1 .. n), s # {}
        PROVE  G[g[s \ {Max(s)}]][Max(s)] = Into(g[s \ {Max(s)}], BottomUp[Max(s)])
    <3>1. Max(s) \in 1 .. n /\ g[s \ {Max(s)}] \in M
      BY <1>0, <1>5, <2>1, MaxIsMember
    <3> QED
      BY <1>4, <3>1
  <2> QED
    BY <1>5, <2>1 DEF FoldsUp
<1> DEFINE h == CHOOSE h : Solves(h)
<1>7. Solves(h)
  BY <1>6
<1> HIDE DEF h
<1>8. h[{}] = base /\ \A s \in SUBSET (1 .. n) : s # {} => h[s] = Into(h[s \ {Max(s)}], BottomUp[Max(s)])
  BY <1>7
<1>9. \A s \in SUBSET (1 .. n) : h[s] \in M
  <2>1. \A s \in SUBSET (1 .. n) : s # {} /\ h[s \ {Max(s)}] \in M => h[s] \in M
    BY <1>3, <1>8
  <2> HIDE DEF Solves
  <2> QED
    BY <1>0, <1>2, <1>8, <2>1, FoldKeeps
<1> QED
  BY <1>1, <1>9 DEF h

\* The late passes change sizes only.
LEMMA LateShape ==
  ASSUME NEW D, NEW m \in InFlight(D), NEW frozen
  PROVE  LET n == LatePasses(m, frozen)
         IN  /\ n \in InFlight(D) /\ n.kept = m.kept /\ n.consulted = m.consulted /\ n.spliced = m.spliced
             /\ \A f \in D : /\ n.body[f].code = m.body[f].code /\ Named(n.body[f]) = Named(m.body[f])
                             /\ n.body[f].late = IF f \in frozen THEN m.body[f].late ELSE 0
                             /\ f \in frozen => n.body[f] = m.body[f]
<1> DEFINE n == LatePasses(m, frozen)
           Shrunk(b) == [b EXCEPT !.size = b.size - b.late, !.late = 0]
           new == [f \in D |-> IF f \in frozen THEN m.body[f] ELSE Shrunk(m.body[f])]
<1>1. m.body \in [D -> AnyBodies]
  BY DEF InFlight
<1>2. n = [m EXCEPT !.body = new]
  <2>1. DOMAIN m.body = D
    BY <1>1
  <2> QED
    BY <2>1 DEF LatePasses
<1>3. ASSUME NEW b \in AnyBodies
      PROVE  /\ Shrunk(b) \in AnyBodies /\ Shrunk(b).code = b.code /\ Shrunk(b).late = 0
             /\ Shrunk(b).calls = b.calls /\ Shrunk(b).refs = b.refs
  <2> DEFINE d == b.size - b.late
  <2>1. d \in Int /\ Shrunk(b) = [b EXCEPT !.size = d, !.late = 0]
    BY DEF AnyBodies
  <2> DEFINE c == Shrunk(b)
  <2> HIDE DEF d, c
  <2>2. c = [b EXCEPT !.size = d, !.late = 0]
    BY <2>1 DEF c
  <2>3. /\ c.code = b.code /\ c.late = 0 /\ c.calls = b.calls /\ c.refs = b.refs /\ c.size = d
        /\ c = [code |-> c.code, size |-> c.size, late |-> c.late, calls |-> c.calls, refs |-> c.refs]
    BY <2>2 DEF AnyBodies
  <2>4. b.code \in SUBSET Versions /\ b.calls \in Seq(Names) /\ b.refs \in SUBSET Names
    BY DEF AnyBodies
  <2>5. c \in AnyBodies
    BY <2>1, <2>3, <2>4 DEF AnyBodies
  <2> QED
    BY <2>3, <2>5 DEF c
<1> HIDE DEF Shrunk
<1>4. \A f \in D : /\ new[f] \in AnyBodies /\ new[f].code = m.body[f].code
                   /\ new[f].calls = m.body[f].calls /\ new[f].refs = m.body[f].refs
                   /\ new[f].late = IF f \in frozen THEN m.body[f].late ELSE 0
  <2> SUFFICES ASSUME NEW f \in D
               PROVE  /\ new[f] \in AnyBodies /\ new[f].code = m.body[f].code
                      /\ new[f].calls = m.body[f].calls /\ new[f].refs = m.body[f].refs
                      /\ new[f].late = IF f \in frozen THEN m.body[f].late ELSE 0
    OBVIOUS
  <2> QED
    BY <1>1, <1>3
<1>5. new \in [D -> AnyBodies] /\ \A f \in D : f \in frozen => new[f] = m.body[f]
  BY <1>4
<1> HIDE DEF new, n
<1>6. /\ n.body = new /\ n.kept = m.kept /\ n.consulted = m.consulted /\ n.spliced = m.spliced
      /\ n \in InFlight(D)
  BY <1>2, <1>5 DEF InFlight
<1> QED
  BY <1>4, <1>5, <1>6 DEF n, Named

\* Dead-function elimination only drops functions, and none that is named by what
\* was there before it.
LEMMA DeadShape ==
  ASSUME NEW D, NEW m \in InFlight(D), NEW data, m.kept = D
  PROVE  LET n == DeadFuncElim(m, data)
         IN  /\ n \in InFlight(D) /\ n.body = m.body
             /\ n.consulted = m.consulted /\ n.spliced = m.spliced
             /\ data \cap D \subseteq n.kept
             /\ \A f \in n.kept : Named(n.body[f]) \cap D \subseteq n.kept
<1> DEFINE n == DeadFuncElim(m, data)
           K == {f \in D : f \in Exported \cup data \cup UNION {Named(m.body[g]) : g \in D}}
<1>1. n = [m EXCEPT !.kept = K]
  BY DEF DeadFuncElim
<1>2. K \in SUBSET D /\ data \cap D \subseteq K /\ \A f \in K : Named(m.body[f]) \cap D \subseteq K
  OBVIOUS
<1> HIDE DEF n, K
<1>3. /\ n.kept = K /\ n.body = m.body /\ n.consulted = m.consulted /\ n.spliced = m.spliced
      /\ n \in InFlight(D)
  BY <1>1, <1>2 DEF InFlight
<1> QED
  BY <1>2, <1>3 DEF n

----------------------------------------------------------------------------
(* The stage, from the module handed to it to the module it leaves.        *)

\* Where the code of f may come from when a function g came with code of its own and
\* of the functions came[g].
Sources(m, came, f) == {f} \cup m.consulted[f] \cup UNION {came[g] : g \in {f} \cup m.spliced[f]}

Sourced(D, own, came, m) ==
  \A f \in D : \A v \in m.body[f].code : \E g \in Sources(m, came, f) : v \in own[g]

\* Every splice is recorded with what was recorded of the callee, so the recorder's
\* sets still tell where all the code is from.
LEMMA SourcedIsClosed ==
  ASSUME NEW D, NEW own, NEW came
  PROVE  Closed({m \in InFlight(D) : Sourced(D, own, came, m)}, D, D)
<1>1. ASSUME NEW m \in InFlight(D), NEW n \in InFlight(D), Notes(D, m, n), NEW f \in D
      PROVE  Sources(m, came, f) \subseteq Sources(n, came, f)
  BY <1>1 DEF Sources, Notes
<1>2. ASSUME NEW m \in InFlight(D), NEW n \in InFlight(D), Sourced(D, own, came, m), Reads(D, m, n)
      PROVE  Sourced(D, own, came, n)
  BY <1>1, <1>2 DEF Sourced, Reads
<1>3. ASSUME NEW m \in InFlight(D), NEW n \in InFlight(D), NEW f \in D,
             Sourced(D, own, came, m), Splices(D, m, n, f)
      PROVE  Sourced(D, own, came, n)
  <2>1. PICK g \in m.kept :
          /\ Notes(D, m, n) /\ \A h \in D \ {f} : n.body[h] = m.body[h]
          /\ n.body[f].code = m.body[f].code \cup m.body[g].code
          /\ {g} \cup m.consulted[g] \subseteq n.consulted[f] \cup {f}
          /\ {g} \cup m.spliced[g] \subseteq n.spliced[f]
    BY <1>3 DEF Splices
  <2>2. g \in D
    BY DEF InFlight
  <2>3. Sources(m, came, g) \subseteq Sources(n, came, f)
    BY <2>1 DEF Sources
  <2> SUFFICES ASSUME NEW h \in D, NEW v \in n.body[h].code
               PROVE  \E s \in Sources(n, came, h) : v \in own[s]
    BY DEF Sourced
  <2>4. Sources(m, came, h) \subseteq Sources(n, came, h)
    BY <1>1, <2>1
  <2>5. CASE v \in m.body[h].code
    BY <1>3, <2>4, <2>5 DEF Sourced
  <2>6. CASE h = f /\ v \in m.body[g].code
    BY <1>3, <2>2, <2>3, <2>6 DEF Sourced
  <2> QED
    BY <2>1, <2>5, <2>6
<1> QED
  BY <1>2, <1>3 DEF Closed

\* What the stage does to the bodies of D: all are finished when the frozen ones were,
\* nothing that is named is dropped, and the recorder knows where the code is from.
LEMMA StageShape ==
  ASSUME NEW D, NEW bodies \in [D -> AnyBodies], NEW data, NEW frozen, NEW own, NEW came,
         \A f \in D \cap frozen : bodies[f].late = 0,
         \A f \in D : \A v \in bodies[f].code : \E g \in {f} \cup came[f] : v \in own[g]
  PROVE  LET m == Stage(bodies, data, frozen)
         IN  /\ m \in InFlight(D)
             /\ \A f \in D : m.body[f].late = 0
             /\ data \cap D \subseteq m.kept
             /\ \A f \in m.kept : Named(m.body[f]) \cap D \subseteq m.kept
             /\ Sourced(D, own, came, m)
<1> DEFINE none == [f \in D |-> {}]
           m0 == [body |-> bodies, kept |-> D, consulted |-> none, spliced |-> none, left |-> Allowance]
           m1 == InlineModule(m0, frozen)
           m2 == LatePasses(m1, frozen)
           m3 == DeadFuncElim(m2, data)
           m4 == InlineIntoNoSplitCallers(m3)
           S == {m \in InFlight(D) : Sourced(D, own, came, m)}
           L == {m \in InFlight(D) : \A f \in D \cap frozen : m.body[f].late = 0}
           A == {m \in InFlight(D) : m.kept = D}
<1>1. Stage(bodies, data, frozen) = m4
  BY DEF Stage
<1>2. m0 \in InFlight(D)
  BY BudgetsAreCounts DEF InFlight
<1>3. m0 \in S /\ m0 \in L /\ m0 \in A
  BY <1>2 DEF Sourced, Sources
<1> HIDE DEF m0
<1>4. Closed(S, D, D)
  BY SourcedIsClosed
<1>5. Closed(S, D, D \ frozen) /\ Closed(L, D, D \ frozen) /\ Closed(A, D, D \ frozen)
  <2>1. Closed(S, D, D \ frozen)
    <3> HIDE DEF S
    <3> QED
      BY <1>4 DEF Closed
  <2>2. Closed(L, D, D \ frozen)
    BY DEF Closed, Reads, Splices
  <2>3. Closed(A, D, D \ frozen)
    BY DEF Closed, Reads, Splices
  <2> QED
    BY <2>1, <2>2, <2>3
<1>6. m1 \in S /\ m1 \in L /\ m1 \in A
  <2> HIDE DEF S, L, A
  <2> QED
    BY <1>3, <1>5, InlineModuleStays
<1> HIDE DEF m1
<1>7. /\ m2 \in InFlight(D) /\ m2.kept = D /\ m2.consulted = m1.consulted /\ m2.spliced = m1.spliced
      /\ \A f \in D : m2.body[f].code = m1.body[f].code /\ m2.body[f].late = 0
  <2>1. /\ m2 \in InFlight(D) /\ m2.kept = m1.kept /\ m2.consulted = m1.consulted /\ m2.spliced = m1.spliced
        /\ \A f \in D : /\ m2.body[f].code = m1.body[f].code
                        /\ m2.body[f].late = IF f \in frozen THEN m1.body[f].late ELSE 0
    BY <1>6, LateShape
  <2> QED
    BY <1>6, <2>1
<1> HIDE DEF m2
<1>8. /\ m3 \in InFlight(D) /\ m3.body = m2.body /\ m3.consulted = m2.consulted /\ m3.spliced = m2.spliced
      /\ data \cap D \subseteq m3.kept /\ \A f \in m3.kept : Named(m3.body[f]) \cap D \subseteq m3.kept
  BY <1>7, DeadShape
<1> HIDE DEF m3
<1> DEFINE Z == {m \in InFlight(D) : \A f \in D : m.body[f].late = 0}
           K == {m \in InFlight(D) : /\ m.kept = m3.kept
                                     /\ \A f \in m.kept : Named(m.body[f]) \cap D \subseteq m.kept}
<1>9. m3 \in S /\ m3 \in Z /\ m3 \in K
  <2>1. Sourced(D, own, came, m3)
    BY <1>6, <1>7, <1>8 DEF Sourced, Sources
  <2> QED
    BY <1>7, <1>8, <2>1
<1>10. Closed(Z, D, D) /\ Closed(K, D, D)
  <2>1. Closed(Z, D, D)
    <3>1. ASSUME NEW m \in Z, NEW n \in InFlight(D), NEW f \in D, Splices(D, m, n, f) PROVE n \in Z
      <4>1. PICK g \in D : /\ n.body[f].late = m.body[f].late + m.body[g].late
                           /\ \A h \in D \ {f} : n.body[h] = m.body[h]
        BY <3>1 DEF Splices, InFlight
      <4> QED
        BY <4>1
    <3> QED
      BY <3>1 DEF Closed, Reads
  <2>2. Closed(K, D, D)
    <3>1. ASSUME NEW m \in K, NEW n \in InFlight(D), NEW f \in D, Splices(D, m, n, f) PROVE n \in K
      <4>1. PICK g \in m.kept : /\ Named(n.body[f]) \subseteq Named(m.body[f]) \cup Named(m.body[g])
                                /\ \A h \in D \ {f} : n.body[h] = m.body[h]
                                /\ n.kept = m.kept
        BY <3>1 DEF Splices
      <4>2. m.kept \subseteq D
        BY DEF InFlight
      <4>3. \A h \in n.kept : Named(n.body[h]) \cap D \subseteq n.kept
        BY <4>1, <4>2
      <4> QED
        BY <4>1, <4>3
    <3> QED
      BY <3>1 DEF Closed, Reads
  <2> QED
    BY <2>1, <2>2
<1>11. m4 \in S /\ m4 \in Z /\ m4 \in K
  <2> HIDE DEF S, Z, K
  <2> QED
    <3>1. D \cap NoSplit \subseteq D
      OBVIOUS
    <3> QED
      BY <1>4, <1>9, <1>10, <3>1, NoSplitStays
<1> HIDE DEF m4
<1>12. /\ m4 \in InFlight(D) /\ \A f \in D : m4.body[f].late = 0
       /\ data \cap D \subseteq m4.kept /\ \A f \in m4.kept : Named(m4.body[f]) \cap D \subseteq m4.kept
       /\ Sourced(D, own, came, m4)
  BY <1>8, <1>11
<1> QED
  BY <1>1, <1>12

\* The stage leaves the frozen bodies alone, none of which is a nosplit function's.
LEMMA StageKeepsFrozen ==
  ASSUME NEW D, NEW bodies \in [D -> AnyBodies], NEW data, NEW frozen, frozen \cap NoSplit = {}
  PROVE  LET m == Stage(bodies, data, frozen)
         IN  m \in InFlight(D) /\ \A f \in D \cap frozen : m.body[f] = bodies[f]
<1> DEFINE none == [f \in D |-> {}]
           m0 == [body |-> bodies, kept |-> D, consulted |-> none, spliced |-> none, left |-> Allowance]
           m1 == InlineModule(m0, frozen)
           m2 == LatePasses(m1, frozen)
           m3 == DeadFuncElim(m2, data)
           m4 == InlineIntoNoSplitCallers(m3)
           S == {m \in InFlight(D) : \A f \in D \cap frozen : m.body[f] = bodies[f]}
           A == {m \in InFlight(D) : m.kept = D}
<1>1. Stage(bodies, data, frozen) = m4
  BY DEF Stage
<1>2. m0 \in InFlight(D)
  BY BudgetsAreCounts DEF InFlight
<1>3. m0 \in S /\ m0 \in A
  BY <1>2
<1> HIDE DEF m0
<1>4. Closed(S, D, D \ frozen) /\ Closed(A, D, D \ frozen)
  BY DEF Closed, Reads, Splices
<1>5. m1 \in S /\ m1 \in A
  <2> HIDE DEF S, A
  <2> QED
    BY <1>3, <1>4, InlineModuleStays
<1> HIDE DEF m1
<1>6. m2 \in InFlight(D) /\ m2.kept = D /\ \A f \in D \cap frozen : m2.body[f] = bodies[f]
  <2>1. m2 \in InFlight(D) /\ m2.kept = m1.kept /\ \A f \in D : f \in frozen => m2.body[f] = m1.body[f]
    BY <1>5, LateShape
  <2> QED
    BY <1>5, <2>1
<1> HIDE DEF m2
<1>7. m3 \in InFlight(D) /\ m3.body = m2.body
  BY <1>6, DeadShape
<1> HIDE DEF m3
<1>8. m3 \in S /\ D \cap NoSplit \subseteq D \ frozen
  BY <1>6, <1>7
<1>9. m4 \in S
  <2> HIDE DEF S, m4
  <2> QED
    BY <1>4, <1>8, NoSplitStays DEF m4
<1> HIDE DEF m4
<1> QED
  BY <1>1, <1>9

----------------------------------------------------------------------------
(* The store.                                                              *)

\* The code of a stored body is the function's own or that of a function whose body is
\* part of the recorded key: validating the key validates the code.
Backed(e) == \A v \in e.body.code : v \in e.input.code \/ \E d \in e.deps : v \in d.input.code

\* A stored body is a finished one.
Finished(e) == e.body \in AnyBodies /\ e.body.late = 0

StoreInv == \A f \in DOMAIN store.entries : Finished(store.entries[f]) /\ Backed(store.entries[f])

\* A module handed to a build has bodies the stage takes.
LEMMA ModuleBodies ==
  ASSUME NEW p \in Programs
  PROVE  p.body \in [DOMAIN p.body -> AnyBodies]
<1>1. PICK D \in SUBSET Names : p.body \in [D -> Bodies]
  BY ProgramsAreModules DEF IsProgram
<1>2. Bodies \subseteq AnyBodies
  BY DEF Bodies, AnyBodies
<1> QED
  BY <1>1, <1>2

\* Whatever is dragged in, every miss is live, so what is frozen is a hit.
LEMMA FrozenAreHits ==
  ASSUME NEW p
  PROVE  Frozen(p) \subseteq Hits(p)
<1> DEFINE D == DOMAIN p.body
           S == D \ Hits(p)
           M == {T \in SUBSET D : S \subseteq T}
           n == Len(BottomUp)
           More(T) == T \cup UNION {DragsIn(g) \cap D : g \in T}
           Solves(h) == h = [s \in SUBSET (1 .. n) |-> IF s = {} THEN S ELSE More(h[s \ {Max(s)}])]
           G == [x \in M |-> [i \in 1 .. n |-> More(x)]]
<1>0. n \in Nat /\ DOMAIN BottomUp = 1 .. n
  BY BudgetsAreCounts
<1>1. Live(p) = (CHOOSE h : Solves(h))[1 .. n]
  BY <1>0 DEF Live, WithDraggedIn, Reach, FoldLeft, MapThenFoldSet
<1>2. S \in M /\ \A x \in M : More(x) \in M
  OBVIOUS
<1>3. \A x \in M : S \subseteq x
  OBVIOUS
<1> HIDE DEF n, S, M, More
<1>4. G \in [M -> [1 .. n -> M]] /\ \A x \in M : \A i \in 1 .. n : G[x][i] = More(x)
  BY <1>2
<1> HIDE DEF G
<1>5. PICK g : FoldsUp(S, G, 1 .. n, g) /\ \A s \in SUBSET (1 .. n) : g[s] \in M
  BY <1>0, <1>2, <1>4, FoldInside
<1>6. Solves(g)
  <2>1. ASSUME NEW s \in SUBSET (1 .. n), s # {}
        PROVE  G[g[s \ {Max(s)}]][Max(s)] = More(g[s \ {Max(s)}])
    <3>1. Max(s) \in 1 .. n /\ g[s \ {Max(s)}] \in M
      BY <1>0, <1>5, <2>1, MaxIsMember
    <3> QED
      BY <1>4, <3>1
  <2> QED
    BY <1>5, <2>1 DEF FoldsUp
<1> DEFINE h == CHOOSE h : Solves(h)
<1>7. Solves(h)
  BY <1>6
<1> HIDE DEF h
<1>8. h[{}] = S /\ \A s \in SUBSET (1 .. n) : s # {} => h[s] = More(h[s \ {Max(s)}])
  BY <1>7
<1>9. \A s \in SUBSET (1 .. n) : h[s] \in M
  <2>1. \A s \in SUBSET (1 .. n) : s # {} /\ h[s \ {Max(s)}] \in M => h[s] \in M
    BY <1>2, <1>8
  <2> HIDE DEF Solves
  <2> QED
    BY <1>0, <1>2, <1>8, <2>1, FoldKeeps
<1>10. S \subseteq Live(p)
  BY <1>1, <1>3, <1>9 DEF h
<1> QED
  BY <1>10 DEF Frozen, S

\* The stage over the module with the stored bodies of some hits in place: whichever
\* functions it may touch, the code it leaves in f is of this module, and from f, what
\* the recorder has of f, or what the entries of the bodies spliced into f list.
LEMMA StageOverHits ==
  ASSUME StoreInv, NEW p \in Programs, NEW done \in SUBSET Hits(p), NEW frozen \in SUBSET done
  PROVE  LET D == DOMAIN p.body
             m == Stage(Installed(p, done), p.data, frozen)
         IN  /\ m \in InFlight(D)
             /\ \A f \in D : m.body[f].late = 0
             /\ p.data \cap D \subseteq m.kept
             /\ \A f \in m.kept : Named(m.body[f]) \cap D \subseteq m.kept
             /\ \A f \in D : \A v \in m.body[f].code :
                  \E g \in {f} \cup m.consulted[f]
                           \cup UNION {DepNames(store.entries[h]) : h \in ({f} \cup m.spliced[f]) \cap done} :
                    g \in D /\ v \in p.body[g].code
<1> DEFINE D == DOMAIN p.body
           bodies == Installed(p, done)
           own == [g \in D |-> p.body[g].code]
           came == [g \in D |-> IF g \in done THEN DepNames(store.entries[g]) ELSE {}]
           m == Stage(bodies, p.data, frozen)
<1>0. p.body \in [D -> AnyBodies]
  BY ModuleBodies
<1>1. \A f \in done : /\ f \in D /\ f \in DOMAIN store.entries
                      /\ store.entries[f].input = p.body[f]
                      /\ \A d \in store.entries[f].deps : d.name \in D /\ d.input = p.body[d.name]
                      /\ Finished(store.entries[f]) /\ Backed(store.entries[f])
  BY DEF Hits, Valid, OwnClausesHold, DepHolds, StoreInv
<1>2. bodies = [f \in D |-> IF f \in done THEN store.entries[f].body ELSE p.body[f]]
  BY DEF Installed
<1>3. bodies \in [D -> AnyBodies]
  BY <1>0, <1>1, <1>2 DEF Finished
<1>4. \A f \in D \cap frozen : bodies[f].late = 0
  BY <1>1, <1>2 DEF Finished
<1>5. \A f \in D : came[f] \subseteq D
  BY <1>1 DEF DepNames
<1>6. ASSUME NEW f \in D, NEW v \in bodies[f].code PROVE \E g \in {f} \cup came[f] : v \in own[g]
  <2>1. CASE f \in done
    <3>1. v \in store.entries[f].body.code
      BY <1>2, <2>1
    <3>2. CASE v \in store.entries[f].input.code
      BY <1>1, <2>1, <3>2
    <3>3. CASE \E d \in store.entries[f].deps : v \in d.input.code
      <4>1. PICK d \in store.entries[f].deps : v \in d.input.code
        BY <3>3
      <4>2. d.name \in D /\ d.input = p.body[d.name] /\ d.name \in DepNames(store.entries[f])
        BY <1>1, <2>1 DEF DepNames
      <4>3. d.name \in came[f] /\ v \in own[d.name]
        BY <2>1, <4>1, <4>2
      <4> QED
        BY <4>3
    <3> QED
      BY <1>1, <2>1, <3>1, <3>2, <3>3 DEF Backed
  <2>2. CASE f \notin done
    BY <1>2, <2>2
  <2> QED
    BY <2>1, <2>2
<1> HIDE DEF bodies, own, came
<1>7. /\ m \in InFlight(D) /\ \A f \in D : m.body[f].late = 0
      /\ p.data \cap D \subseteq m.kept /\ \A f \in m.kept : Named(m.body[f]) \cap D \subseteq m.kept
      /\ Sourced(D, own, came, m)
  <2> DEFINE data == p.data
  <2>1. \A f \in D : \A v \in bodies[f].code : \E g \in {f} \cup came[f] : v \in own[g]
    BY <1>6
  <2> DEFINE n == Stage(bodies, data, frozen)
  <2> HIDE DEF D, data
  <2>2. /\ n \in InFlight(D) /\ \A f \in D : n.body[f].late = 0
        /\ data \cap D \subseteq n.kept /\ \A f \in n.kept : Named(n.body[f]) \cap D \subseteq n.kept
        /\ Sourced(D, own, came, n)
    BY <1>3, <1>4, <2>1, StageShape
  <2> QED
    BY <2>2 DEF data
<1> HIDE DEF m
<1>8. ASSUME NEW f \in D, NEW v \in m.body[f].code
      PROVE  \E g \in {f} \cup m.consulted[f]
                      \cup UNION {DepNames(store.entries[h]) : h \in ({f} \cup m.spliced[f]) \cap done} :
               g \in D /\ v \in p.body[g].code
  <2>1. PICK g \in Sources(m, came, f) : v \in own[g]
    BY <1>7 DEF Sourced
  <2>2. m.consulted[f] \subseteq D /\ m.spliced[f] \subseteq D
    BY <1>7 DEF InFlight
  <2>3. g \in D
    BY <1>5, <2>1, <2>2 DEF Sources
  <2>4. v \in p.body[g].code
    BY <2>1, <2>3 DEF own
  <2>5. g \in {f} \cup m.consulted[f]
               \cup UNION {DepNames(store.entries[h]) : h \in ({f} \cup m.spliced[f]) \cap done}
    BY <2>1, <2>2 DEF Sources, came
  <2> QED
    BY <2>3, <2>4, <2>5
<1> QED
  BY <1>7, <1>8 DEF m, bodies

\* What the stage files is backed: the recorded sets name every function whose code
\* is in the body, those behind a frozen callee included.
LEMMA RefreshKeepsStore ==
  ASSUME StoreInv, NEW p \in Programs
  PROVE  LET m == Stage(Installed(p, Frozen(p)), p.data, Frozen(p))
             entries == Refresh(p, m, Frozen(p))
         IN  \A f \in DOMAIN entries : Finished(entries[f]) /\ Backed(entries[f])
<1> DEFINE D == DOMAIN p.body
           frozen == Frozen(p)
           m == Stage(Installed(p, frozen), p.data, frozen)
           entries == Refresh(p, m, frozen)
<1>1. frozen \subseteq Hits(p)
  BY FrozenAreHits
<1> HIDE DEF frozen
<1>2. /\ m \in InFlight(D) /\ \A f \in D : m.body[f].late = 0
      /\ \A f \in D : \A v \in m.body[f].code :
           \E g \in {f} \cup m.consulted[f]
                    \cup UNION {DepNames(store.entries[h]) : h \in ({f} \cup m.spliced[f]) \cap frozen} :
             g \in D /\ v \in p.body[g].code
  BY <1>1, StageOverHits
<1> HIDE DEF m
<1>3. /\ DOMAIN entries = DOMAIN store.entries \cup D
      /\ \A f \in DOMAIN entries :
           entries[f] = IF f \in D \ frozen THEN Entry(p, m, frozen, f) ELSE store.entries[f]
  BY DEF Refresh
<1> HIDE DEF entries
<1>4. frozen \subseteq DOMAIN store.entries
  BY <1>1 DEF Hits, Valid, OwnClausesHold
<1>5. ASSUME NEW f \in D \ frozen
      PROVE  Finished(Entry(p, m, frozen, f)) /\ Backed(Entry(p, m, frozen, f))
  <2> DEFINE e == Entry(p, m, frozen, f)
  <2>1. /\ e.body = m.body[f] /\ e.input = p.body[f]
        /\ e.deps = {Dep(p, g) : g \in ConsultedSet(m, frozen, f)}
    BY DEF Entry, Record
  <2> HIDE DEF e
  <2>2. Finished(e)
    BY <1>2, <2>1 DEF Finished, InFlight
  <2>3. ASSUME NEW v \in e.body.code PROVE v \in e.input.code \/ \E d \in e.deps : v \in d.input.code
    <3>1. PICK g \in {f} \cup m.consulted[f]
                     \cup UNION {DepNames(store.entries[h]) : h \in ({f} \cup m.spliced[f]) \cap frozen} :
            g \in D /\ v \in p.body[g].code
      BY <1>2, <2>1
    <3>2. g = f \/ g \in ConsultedSet(m, frozen, f)
      BY <1>5 DEF ConsultedSet
    <3>3. g \in ConsultedSet(m, frozen, f) => Dep(p, g) \in e.deps /\ Dep(p, g).input = p.body[g]
      BY <2>1 DEF Dep
    <3> QED
      BY <2>1, <3>1, <3>2, <3>3
  <2>4. Backed(e)
    BY <2>3 DEF Backed
  <2> QED
    BY <2>2, <2>4 DEF e
<1>6. \A f \in DOMAIN entries : Finished(entries[f]) /\ Backed(entries[f])
  BY <1>3, <1>4, <1>5 DEF StoreInv
<1> QED
  BY <1>6 DEF entries, m, frozen

----------------------------------------------------------------------------
(* The theorems.                                                           *)

\* The store's invariant and, of the last build, the three properties it gives.
MemoInv == StoreInv /\ StageServesNoStaleCode /\ LinksAfterStage /\ NothingHalfOptimised

\* The module a stage leaves, whatever it was installed over, satisfies all three.
LEMMA StageIsSound ==
  ASSUME StoreInv, NEW p \in Programs, NEW done \in SUBSET Hits(p), NEW frozen \in SUBSET done,
         prog' = p,
         object' = Stage(Installed(p, done), p.data, frozen).body,
         kept' = Stage(Installed(p, done), p.data, frozen).kept
  PROVE  StageServesNoStaleCode' /\ LinksAfterStage' /\ NothingHalfOptimised'
<1> DEFINE D == DOMAIN p.body
           m == Stage(Installed(p, done), p.data, frozen)
<1>1. /\ m \in InFlight(D) /\ \A f \in D : m.body[f].late = 0
      /\ p.data \cap D \subseteq m.kept /\ \A f \in m.kept : Named(m.body[f]) \cap D \subseteq m.kept
      /\ \A f \in D : \A v \in m.body[f].code : \E g \in D : v \in p.body[g].code
  BY StageOverHits
<1>2. object' = m.body /\ kept' = m.kept
  OBVIOUS
<1> HIDE DEF m
<1>3. m.kept \subseteq D
  BY <1>1 DEF InFlight
<1>4. NoStaleCode'
  BY <1>1, <1>2, <1>3 DEF NoStaleCode
<1>5. Dangling' = {}
  BY <1>1, <1>2 DEF Dangling
<1> QED
  BY <1>1, <1>2, <1>3, <1>4, <1>5 DEF StageServesNoStaleCode, LinksAfterStage, NothingHalfOptimised

\* An empty store and no object: nothing to get wrong.
LEMMA MemoInvInit == Init => MemoInv
<1> SUFFICES ASSUME Init PROVE MemoInv
  OBVIOUS
<1>1. DOMAIN store.entries = {}
  BY DEF Init, Nothing
<1>2. kept = {} /\ prog.data = {}
  BY DEF Init
<1>3. StoreInv
  BY <1>1 DEF StoreInv
<1> QED
  BY <1>2, <1>3 DEF MemoInv, StageServesNoStaleCode, NoStaleCode, LinksAfterStage, Dangling, NothingHalfOptimised

\* Each build keeps it, by one step per answer: whole module, stage, decode error.
LEMMA MemoInvNext == MemoInv /\ [Next]_vars => MemoInv'
<1> SUFFICES ASSUME MemoInv, [Next]_vars PROVE MemoInv'
  OBVIOUS
<1>0. StoreInv
  BY DEF MemoInv
<1>1. ASSUME NEW p \in Programs, WholeModuleHit(p) PROVE MemoInv'
  <2>1. /\ prog' = p /\ whole' = TRUE /\ store' = store
        /\ object' = [f \in DOMAIN p.body |-> store.entries[f].body]
        /\ kept' \subseteq DOMAIN p.body
        /\ \A f \in DOMAIN p.body : f \in DOMAIN store.entries
    BY <1>1 DEF WholeModuleHit, IsWholeModuleHit, OwnClausesHold, Save
  <2>2. StoreInv'
    BY <1>0, <2>1 DEF StoreInv
  <2>3. NothingHalfOptimised'
    BY <1>0, <2>1 DEF NothingHalfOptimised, StoreInv, Finished
  <2> QED
    BY <2>1, <2>2, <2>3 DEF MemoInv, StageServesNoStaleCode, LinksAfterStage
<1>2. ASSUME NEW p \in Programs, RunStage(p) PROVE MemoInv'
  <2> DEFINE frozen == Frozen(p)
             m == Stage(Installed(p, frozen), p.data, frozen)
             entries == Refresh(p, m, frozen)
  <2>1. /\ prog' = p /\ object' = m.body /\ kept' = m.kept
        /\ store' = [entries |-> entries, data |-> p.data] \/ store' = store
    BY <1>2 DEF RunStage, Save
  <2>2. frozen \in SUBSET Hits(p)
    BY FrozenAreHits
  <2>3. StageServesNoStaleCode' /\ LinksAfterStage' /\ NothingHalfOptimised'
    <3> HIDE DEF frozen
    <3> QED
      BY <1>0, <2>1, <2>2, StageIsSound
  <2>4. \A f \in DOMAIN entries : Finished(entries[f]) /\ Backed(entries[f])
    BY <1>0, RefreshKeepsStore
  <2> HIDE DEF entries
  <2>5. StoreInv'
    BY <1>0, <2>1, <2>4 DEF StoreInv
  <2> QED
    BY <2>3, <2>5 DEF MemoInv
<1>3. ASSUME NEW p \in Programs, DecodeFails(p) PROVE MemoInv'
  <2>1. PICK done \in SUBSET Decoded(p) :
          /\ prog' = p /\ object' = Rerun(p, done).body /\ kept' = Rerun(p, done).kept
          /\ whole' = IsWholeModuleHit(p) /\ store' = store
    BY <1>3 DEF DecodeFails
  <2>2. StoreInv'
    BY <1>0, <2>1 DEF StoreInv
  <2>3. CASE IsWholeModuleHit(p)
    <3> DEFINE D == DOMAIN p.body
               bodies == Installed(p, done)
               m == Stage(bodies, p.data, {})
               own == [f \in D |-> bodies[f].code]
               came == [f \in D |-> {}]
    <3>1. p.body \in [D -> AnyBodies] /\ \A f \in D : f \in DOMAIN store.entries
      BY <2>3, ModuleBodies DEF IsWholeModuleHit, OwnClausesHold
    <3>2. bodies \in [D -> AnyBodies]
      BY <1>0, <3>1 DEF Installed, StoreInv, Finished
    <3>3. \A f \in D : \A v \in bodies[f].code : \E g \in {f} \cup came[f] : v \in own[g]
      OBVIOUS
    <3> HIDE DEF bodies, own, came
    <3>4. m \in InFlight(D) /\ \A f \in D : m.body[f].late = 0
      <4> DEFINE data == p.data
                 frozen == {}
      <4>1. \A f \in D \cap frozen : bodies[f].late = 0
        OBVIOUS
      <4> HIDE DEF D, data, frozen
      <4> DEFINE n == Stage(bodies, data, frozen)
      <4>2. /\ n \in InFlight(D) /\ \A f \in D : n.body[f].late = 0
            /\ data \cap D \subseteq n.kept /\ \A f \in n.kept : Named(n.body[f]) \cap D \subseteq n.kept
            /\ Sourced(D, own, came, n)
        BY <3>2, <3>3, <4>1, StageShape
      <4> QED
        BY <4>2 DEF data, frozen
    <3>5. object' = m.body /\ kept' = m.kept
      BY <2>1 DEF Rerun, bodies
    <3> HIDE DEF m
    <3>6. NothingHalfOptimised'
      BY <3>4, <3>5 DEF NothingHalfOptimised, InFlight
    <3>7. whole'
      BY <2>1, <2>3
    <3> QED
      BY <2>2, <3>6, <3>7 DEF MemoInv, StageServesNoStaleCode, LinksAfterStage
  <2>4. CASE ~IsWholeModuleHit(p)
    <3>1. done \in SUBSET Hits(p)
      BY <2>4, FrozenAreHits DEF Decoded
    <3>2. /\ object' = Stage(Installed(p, done), p.data, {}).body
          /\ kept' = Stage(Installed(p, done), p.data, {}).kept
      BY <2>1 DEF Rerun
    <3>3. StageServesNoStaleCode' /\ LinksAfterStage' /\ NothingHalfOptimised'
      BY <1>0, <2>1, <3>1, <3>2, StageIsSound
    <3> QED
      BY <2>2, <3>3 DEF MemoInv
  <2> QED
    BY <2>3, <2>4
<1>4. CASE UNCHANGED vars
  BY <1>4 DEF vars, MemoInv, StoreInv, StageServesNoStaleCode, NoStaleCode, LinksAfterStage,
     Dangling, NothingHalfOptimised
<1> QED
  BY <1>1, <1>2, <1>3, <1>4 DEF Next

\* The invariant of a history of builds.
LEMMA MemoInvHolds == Spec => []MemoInv
  BY MemoInvInit, MemoInvNext, PTL DEF Spec

\* Per-function validation never serves code of a function that has since changed or
\* gone (Entry.Valid over the recorded Deps, consultedSet through frozen callees), for
\* every history of modules, lost saves and decode errors, and every closure mode.
THEOREM NoStageServesStaleCode == Spec => []StageServesNoStaleCode
  BY MemoInvHolds, PTL DEF MemoInv

\* DeadFuncElim drops nothing that a surviving body or the data names, although it
\* looks at bodies from the store and the inlining into nosplit functions follows it.
THEOREM StageLeavesNoDanglingName == Spec => []LinksAfterStage
  BY MemoInvHolds, PTL DEF MemoInv

\* What is emitted has been through every pass: on a whole-module hit, on a stage that
\* skips the frozen, and on the rerun over what a failed stage left (optimisePackage).
THEOREM NoBodyIsHalfOptimised == Spec => []NothingHalfOptimised
  BY MemoInvHolds, PTL DEF MemoInv

----------------------------------------------------------------------------
(* Building the same module again.                                         *)

\* After a saved build the store has the bodies that were emitted, and every entry of
\* the module that may be frozen is valid for it.  Behind the whole-module check only
\* the own clauses of an entry are looked at, so there it is the check that holds again.
RebuildInv ==
  saved =>
    /\ \A f \in DOMAIN prog.body : f \in DOMAIN store.entries /\ store.entries[f].body = object[f]
    /\ \/ IsWholeModuleHit(prog)
       \/ \A f \in DOMAIN prog.body \ NoSplit : Valid(prog, f)

\* An entry as the stage files it is valid for the module it was filed for: every
\* dependency it lists, those of frozen callees included, is a function of the module.
LEMMA FiledIsValid ==
  ASSUME StoreInv, NEW p \in Programs
  PROVE  LET frozen == Frozen(p)
             m == Stage(Installed(p, frozen), p.data, frozen)
             entries == Refresh(p, m, frozen)
         IN  \A f \in DOMAIN p.body :
               /\ f \in DOMAIN entries /\ entries[f].body = m.body[f]
               /\ f \notin NoSplit =>
                    /\ entries[f].input = p.body[f] /\ entries[f].facts = p.facts
                    /\ entries[f].recursive = (f \in RecursiveFunctions[p])
                    /\ \A d \in entries[f].deps : DepHolds(p, d)
<1> DEFINE D == DOMAIN p.body
           frozen == Frozen(p)
           bodies == Installed(p, frozen)
           m == Stage(bodies, p.data, frozen)
           entries == Refresh(p, m, frozen)
<1>1. \A f \in frozen : /\ f \in D /\ f \in DOMAIN store.entries /\ f \notin NoSplit
                        /\ store.entries[f].input = p.body[f] /\ store.entries[f].facts = p.facts
                        /\ store.entries[f].recursive = (f \in RecursiveFunctions[p])
                        /\ \A d \in store.entries[f].deps : DepHolds(p, d)
                        /\ Finished(store.entries[f])
  BY FrozenAreHits DEF Hits, Valid, OwnClausesHold, StoreInv
<1> HIDE DEF frozen
<1>2. bodies = [f \in D |-> IF f \in frozen THEN store.entries[f].body ELSE p.body[f]]
  BY DEF Installed
<1>3. bodies \in [D -> AnyBodies]
  BY <1>1, <1>2, ModuleBodies DEF Finished
<1>4. m \in InFlight(D) /\ \A f \in D \cap frozen : m.body[f] = bodies[f]
  <2> DEFINE data == p.data
             n == Stage(bodies, data, frozen)
  <2>1. frozen \cap NoSplit = {}
    BY <1>1
  <2> HIDE DEF D, data, bodies
  <2>2. n \in InFlight(D) /\ \A f \in D \cap frozen : n.body[f] = bodies[f]
    BY <1>3, <2>1, StageKeepsFrozen
  <2> QED
    BY <2>2 DEF data
<1> HIDE DEF m
<1>5. m.consulted \in [D -> SUBSET D]
  BY <1>4 DEF InFlight
<1>6. ASSUME NEW f \in D \ frozen, NEW g \in ConsultedSet(m, frozen, f) PROVE DepHolds(p, Dep(p, g))
  <2>1. g \in D
    <3>1. CASE g \in m.consulted[f]
      BY <1>5, <3>1
    <3>2. CASE \E h \in m.spliced[f] \cap frozen : g \in DepNames(store.entries[h])
      <4>1. PICK h \in frozen : g \in DepNames(store.entries[h])
        BY <3>2
      <4> QED
        BY <1>1, <4>1 DEF DepNames, DepHolds
    <3> QED
      BY <3>1, <3>2 DEF ConsultedSet
  <2> QED
    BY <2>1 DEF DepHolds, Dep
<1>7. /\ DOMAIN entries = DOMAIN store.entries \cup D
      /\ \A f \in DOMAIN entries :
           entries[f] = IF f \in D \ frozen THEN Entry(p, m, frozen, f) ELSE store.entries[f]
  BY DEF Refresh
<1> HIDE DEF entries
<1>8. ASSUME NEW f \in D \ frozen
      PROVE  /\ entries[f].body = m.body[f] /\ entries[f].input = p.body[f] /\ entries[f].facts = p.facts
             /\ entries[f].recursive = (f \in RecursiveFunctions[p])
             /\ \A d \in entries[f].deps : DepHolds(p, d)
  <2> DEFINE e == Entry(p, m, frozen, f)
  <2>1. /\ e.body = m.body[f] /\ e.input = p.body[f] /\ e.facts = p.facts
        /\ e.recursive = (f \in RecursiveFunctions[p])
        /\ e.deps = {Dep(p, g) : g \in ConsultedSet(m, frozen, f)}
    BY DEF Entry, Record
  <2>2. entries[f] = e
    BY <1>7
  <2> HIDE DEF e
  <2>3. \A d \in e.deps : DepHolds(p, d)
    BY <1>6, <2>1
  <2> QED
    BY <2>1, <2>2, <2>3
<1>9. ASSUME NEW f \in D \cap frozen
      PROVE  entries[f] = store.entries[f] /\ entries[f].body = m.body[f]
  BY <1>2, <1>4, <1>7
<1>10. \A f \in D : f \in DOMAIN entries
  BY <1>7
<1>11. \A f \in D : /\ f \in DOMAIN entries /\ entries[f].body = m.body[f]
                    /\ f \notin NoSplit =>
                         /\ entries[f].input = p.body[f] /\ entries[f].facts = p.facts
                         /\ entries[f].recursive = (f \in RecursiveFunctions[p])
                         /\ \A d \in entries[f].deps : DepHolds(p, d)
  <2> TAKE f \in D
  <2>1. CASE f \in frozen
    BY <1>1, <1>9, <1>10, <2>1
  <2>2. CASE f \notin frozen
    BY <1>8, <1>10, <2>2
  <2> QED
    BY <2>1, <2>2
<1> QED
  BY <1>11 DEF entries, m, bodies, frozen

LEMMA RebuildInvNext == MemoInv /\ RebuildInv /\ [Next]_vars => RebuildInv'
<1> SUFFICES ASSUME MemoInv, RebuildInv, [Next]_vars PROVE RebuildInv'
  OBVIOUS
<1>1. ASSUME NEW p \in Programs, WholeModuleHit(p) PROVE RebuildInv'
  <2>1. /\ prog' = p /\ store' = store /\ IsWholeModuleHit(p)
        /\ object' = [f \in DOMAIN p.body |-> store.entries[f].body]
    BY <1>1 DEF WholeModuleHit, Save
  <2>2. \A f \in DOMAIN p.body : f \in DOMAIN store.entries /\ store.entries[f].body = object'[f]
    BY <2>1 DEF IsWholeModuleHit, OwnClausesHold
  <2>3. IsWholeModuleHit(prog)'
    BY <2>1 DEF IsWholeModuleHit, OwnClausesHold
  <2> QED
    BY <2>1, <2>2, <2>3 DEF RebuildInv
<1>2. ASSUME NEW p \in Programs, RunStage(p) PROVE RebuildInv'
  <2> SUFFICES ASSUME saved' PROVE RebuildInv'
    BY DEF RebuildInv
  <2> DEFINE frozen == Frozen(p)
             m == Stage(Installed(p, frozen), p.data, frozen)
             entries == Refresh(p, m, frozen)
  <2>1. prog' = p /\ object' = m.body /\ store'.entries = entries
    BY <1>2 DEF RunStage, Save
  <2>2. \A f \in DOMAIN p.body :
          /\ f \in DOMAIN entries /\ entries[f].body = m.body[f]
          /\ f \notin NoSplit =>
               /\ entries[f].input = p.body[f] /\ entries[f].facts = p.facts
               /\ entries[f].recursive = (f \in RecursiveFunctions[p])
               /\ \A d \in entries[f].deps : DepHolds(p, d)
    BY FiledIsValid DEF MemoInv
  <2> HIDE DEF entries, m
  <2>3. \A f \in DOMAIN p.body \ NoSplit : Valid(prog, f)'
    BY <2>1, <2>2 DEF Valid, OwnClausesHold, DepHolds
  <2>4. \A f \in DOMAIN p.body : f \in DOMAIN store'.entries /\ store'.entries[f].body = object'[f]
    BY <2>1, <2>2
  <2> QED
    BY <2>1, <2>3, <2>4 DEF RebuildInv
<1>3. ASSUME NEW p \in Programs, DecodeFails(p) PROVE RebuildInv'
  BY <1>3 DEF DecodeFails, RebuildInv
<1>4. CASE UNCHANGED vars
  BY <1>4 DEF vars, RebuildInv, IsWholeModuleHit, Valid, OwnClausesHold, DepHolds
<1> QED
  BY <1>1, <1>2, <1>3, <1>4 DEF Next

\* The step: the whole-module check serves the bodies of the store, and a stage has no
\* miss, so all it can touch is what is live without one.
LEMMA RebuildStep ==
  MemoInv /\ RebuildInv /\ [Next]_vars =>
    (saved /\ ~failed' /\ prog' = prog =>
       \A f \in DOMAIN prog.body : object'[f] # object[f] => ~whole' /\ f \in LiveWithoutMiss(prog))
<1> SUFFICES ASSUME MemoInv, RebuildInv, Next, saved, ~failed', prog' = prog,
                    NEW f \in DOMAIN prog.body, object'[f] # object[f]
             PROVE  ~whole' /\ f \in LiveWithoutMiss(prog)
  BY DEF vars
<1>1. /\ f \in DOMAIN store.entries /\ store.entries[f].body = object[f]
      /\ IsWholeModuleHit(prog) \/ \A g \in DOMAIN prog.body \ NoSplit : Valid(prog, g)
  BY DEF RebuildInv
<1>2. ASSUME NEW p \in Programs, WholeModuleHit(p) PROVE FALSE
  BY <1>1, <1>2 DEF WholeModuleHit
<1>3. ASSUME NEW p \in Programs, RunStage(p) PROVE ~whole' /\ f \in LiveWithoutMiss(prog)
  <2> DEFINE D == DOMAIN p.body
             frozen == Frozen(p)
             m == Stage(Installed(p, frozen), p.data, frozen)
             entries == Refresh(p, m, frozen)
  <2>1. prog = p /\ ~whole' /\ object' = m.body /\ ~IsWholeModuleHit(p)
    BY <1>3 DEF RunStage
  <2>2. Hits(p) = D \ NoSplit
    BY <1>1, <2>1 DEF Hits
  <2>3. D \ Hits(p) = D \cap NoSplit
    BY <2>2
  <2>4. Live(p) = LiveWithoutMiss(p)
    BY <2>3 DEF Live, LiveWithoutMiss
  <2>5. CASE f \in Frozen(p)
    <3>1. f \in D \ (D \ frozen)
      BY <2>1, <2>5
    <3>2. \A g \in D : entries[g].body = m.body[g]
      BY FiledIsValid DEF MemoInv
    <3>3. f \in DOMAIN store.entries \cup D /\ entries[f] = store.entries[f]
      BY <1>1, <3>1 DEF Refresh
    <3> QED
      BY <1>1, <2>1, <3>2, <3>3
  <2> QED
    BY <2>1, <2>4, <2>5 DEF Frozen
<1>4. ASSUME NEW p \in Programs, DecodeFails(p) PROVE FALSE
  BY <1>4 DEF DecodeFails
<1> QED
  BY <1>2, <1>3, <1>4 DEF Next

\* What a saved build emitted, the next build of the same module emits again, but for
\* nosplit functions and what they drag in (refresh against Valid, wholeModuleHit), for
\* every history of modules, lost saves and decode errors, and every closure mode.
THEOREM RebuildsAgree == Spec => UnchangedRebuild
<1>1. Init => RebuildInv
  BY DEF Init, RebuildInv
<1>2. MemoInv /\ RebuildInv /\ [Next]_vars =>
        [saved /\ ~failed' /\ prog' = prog =>
           \A f \in DOMAIN prog.body : object'[f] # object[f] => ~whole' /\ f \in LiveWithoutMiss(prog)]_vars
  BY RebuildStep
<1> QED
  BY <1>1, <1>2, MemoInvHolds, RebuildInvNext, PTL DEF Spec, UnchangedRebuild
=============================================================================
