----------------------------- MODULE SumsAndPaths -----------------------------
(***************************************************************************)
(* Facts about sums over finite sets, folds over sequences and simple      *)
(* paths, for the proofs that need them: what a directory takes on disk,   *)
(* what a trim believes it takes, what a pass over every function keeps,   *)
(* what a call chain weighs and where it leads.                            *)
(*                                                                         *)
(* SumFunctionOnSet and FoldLeft are functions defined by recursion over   *)
(* the subsets of a set.  Induction is by a smallest counterexample: a         *)
(* non-empty set of subsets of a finite set has a member none of whose     *)
(* proper subsets is a member.                                             *)
(***************************************************************************)
EXTENDS Integers, FiniteSets, FiniteSetsExt, SequencesExt, FiniteSetTheorems, SequenceTheorems,
        TLAPS

\* g solves the recursion of SumFunctionOnSet(f, S).
SumsUp(f, S, g) ==
  g = [s \in SUBSET S |-> IF s = {} THEN 0
                          ELSE LET x == CHOOSE x \in s : TRUE IN f[x] + g[s \ {x}]]

Solution(f, S) == CHOOSE g : SumsUp(f, S, g)

\* The induction principle of this module: a counterexample has a smallest one.
LEMMA SmallestSet ==
  ASSUME NEW S, IsFiniteSet(S), NEW C \in SUBSET SUBSET S, C # {}
  PROVE  \E T \in C : \A U \in SUBSET T : U # T => U \notin C
<1>1. C \subseteq FiniteSubsetsOf(S)
  BY FS_Subset DEF FiniteSubsetsOf
<1>2. PICK T \in C : \A U \in C : <<U, T>> \notin StrictSubsetOrdering(S)
  BY <1>1, WFMin, FS_StrictSubsetOrderingWellFounded
<1>3. ASSUME NEW U \in SUBSET T, U # T, U \in C
      PROVE  FALSE
  BY <1>2, <1>3 DEF StrictSubsetOrdering
<1> QED
  BY <1>3

\* Two solutions agree where both are defined.
LEMMA SolutionsAgree ==
  ASSUME NEW f, NEW S, IsFiniteSet(S), NEW T \in SUBSET S,
         NEW g, SumsUp(f, S, g), NEW h, SumsUp(f, T, h)
  PROVE  \A U \in SUBSET T : g[U] = h[U]
<1> DEFINE C == {U \in SUBSET T : g[U] # h[U]}
<1> SUFFICES ASSUME C # {} PROVE FALSE
  OBVIOUS
<1>1. C \in SUBSET SUBSET S
  OBVIOUS
<1>2. PICK U \in C : \A V \in SUBSET U : V # U => V \notin C
  <2> HIDE DEF C
  <2> QED
    BY <1>1, SmallestSet
<1> DEFINE x == CHOOSE x \in U : TRUE
<1>3. U # {}
  <2>1. {} \in SUBSET S /\ {} \in SUBSET T
    OBVIOUS
  <2>2. g[{}] = 0 /\ h[{}] = 0
    BY <2>1 DEF SumsUp
  <2> QED
    BY <2>2
<1>4. x \in U /\ U \ {x} # U /\ U \ {x} \in SUBSET T /\ U \in SUBSET T /\ U \in SUBSET S
  BY <1>3
<1>5. g[U \ {x}] = h[U \ {x}]
  BY <1>2, <1>4
<1>6. g[U] = f[x] + g[U \ {x}] /\ h[U] = f[x] + h[U \ {x}]
  BY <1>3, <1>4 DEF SumsUp
<1> QED
  BY <1>5, <1>6

\* The recursion has a solution on every finite set.
LEMMA SolutionExists ==
  ASSUME NEW f, NEW S, IsFiniteSet(S)
  PROVE  SumsUp(f, S, Solution(f, S))
<1> DEFINE C == {T \in SUBSET S : ~ \E g : SumsUp(f, T, g)}
<1>0. C \in SUBSET SUBSET S
  OBVIOUS
<1>1. ASSUME C # {} PROVE FALSE
  <2>1. PICK T \in C : \A U \in SUBSET T : U # T => U \notin C
    <3> HIDE DEF C
    <3> QED
      BY <1>0, <1>1, SmallestSet
  <2> DEFINE pick(U) == CHOOSE x \in U : TRUE
             rest(U) == U \ {pick(U)}
             h == [U \in SUBSET T |-> IF U = {} THEN 0
                                      ELSE f[pick(U)] + Solution(f, rest(U))[rest(U)]]
  <2>2. \A U \in SUBSET T : U # {} => pick(U) \in U /\ rest(U) \in SUBSET T /\ rest(U) # T
    OBVIOUS
  <2>3. \A V \in SUBSET T : V # T => SumsUp(f, V, Solution(f, V)) /\ IsFiniteSet(V)
    <3> SUFFICES ASSUME NEW V \in SUBSET T, V # T
                 PROVE  SumsUp(f, V, Solution(f, V)) /\ IsFiniteSet(V)
      OBVIOUS
    <3>1. V \notin C /\ V \in SUBSET S
      BY <2>1
    <3>2. \E g : SumsUp(f, V, g)
      BY <3>1
    <3> QED
      BY <3>1, <3>2, FS_Subset DEF Solution
  <2>4. ASSUME NEW V \in SUBSET T, V # T
        PROVE  h[V] = Solution(f, V)[V]
    <3>1. CASE V = {}
      <4>1. {} \in SUBSET {}
        OBVIOUS
      <4>2. Solution(f, V)[V] = 0
        BY <2>3, <2>4, <3>1, <4>1 DEF SumsUp
      <4> QED
        BY <3>1, <4>2
    <3>2. CASE V # {}
      <4>1. pick(V) \in V /\ rest(V) \in SUBSET V /\ rest(V) \in SUBSET T /\ rest(V) # T
        BY <2>4, <3>2
      <4>2. /\ SumsUp(f, V, Solution(f, V)) /\ IsFiniteSet(V)
            /\ SumsUp(f, rest(V), Solution(f, rest(V)))
        BY <2>3, <2>4, <4>1
      <4>3. Solution(f, V)[rest(V)] = Solution(f, rest(V))[rest(V)]
        BY <4>1, <4>2, SolutionsAgree
      <4>4. Solution(f, V)[V] = f[pick(V)] + Solution(f, V)[rest(V)]
        <5>1. V \in SUBSET V
          OBVIOUS
        <5> QED
          BY <3>2, <4>2, <5>1 DEF SumsUp
      <4> QED
        BY <3>2, <4>3, <4>4
    <3> QED
      BY <3>1, <3>2
  <2>5. \A U \in SUBSET T : U # {} => h[U] = f[pick(U)] + h[rest(U)]
    BY <2>2, <2>4
  <2>6. SumsUp(f, T, h)
    BY <2>5 DEF SumsUp
  <2> QED
    BY <2>1, <2>6
<1>2. \E g : SumsUp(f, S, g)
  <2>1. S \in SUBSET S /\ S \notin C
    BY <1>1
  <2> QED
    BY <2>1
<1> QED
  BY <1>2 DEF Solution
\* A non-empty set of naturals has a least element, and Min is it.
LEMMA LeastNatural ==
  ASSUME NEW S \in SUBSET Nat, S # {}
  PROVE  Min(S) \in S /\ \A y \in S : Min(S) <= y
<1>1. PICK x \in S : \A y \in S : <<y, x>> \notin OpToRel(<, Nat)
  BY WFMin, NatLessThanWellFounded
<1>2. \A y \in S : ~(y < x)
  BY <1>1 DEF OpToRel
<1>3. \A y \in S : x <= y
  BY <1>2
<1> QED
  BY <1>3 DEF Min

-----------------------------------------------------------------------------
\* The sum of nothing is 0; any other sum is one element's value and the rest's.
LEMMA SumUnfolds ==
  ASSUME NEW f, NEW S, IsFiniteSet(S)
  PROVE  /\ S = {} => SumFunctionOnSet(f, S) = 0
         /\ S # {} => \E x \in S : SumFunctionOnSet(f, S) = f[x] + SumFunctionOnSet(f, S \ {x})
<1>1. \A T : SumFunctionOnSet(f, T) = Solution(f, T)[T]
  BY DEF SumFunctionOnSet, FoldFunctionOnSet, MapThenFoldSet, Solution, SumsUp
<1>2. SumsUp(f, S, Solution(f, S)) /\ S \in SUBSET S
  BY SolutionExists
<1>3. CASE S = {}
  BY <1>1, <1>2, <1>3 DEF SumsUp
<1>4. CASE S # {}
  <2> DEFINE x == CHOOSE x \in S : TRUE
  <2>1. x \in S /\ S \ {x} \in SUBSET S
    BY <1>4
  <2>2. Solution(f, S)[S] = f[x] + Solution(f, S)[S \ {x}]
    BY <1>2, <1>4 DEF SumsUp
  <2>3. SumsUp(f, S \ {x}, Solution(f, S \ {x}))
    BY <2>1, FS_Subset, SolutionExists
  <2>4. Solution(f, S)[S \ {x}] = Solution(f, S \ {x})[S \ {x}]
    BY <1>2, <2>1, <2>3, SolutionsAgree
  <2> QED
    BY <1>1, <1>4, <2>1, <2>2, <2>4
<1> QED
  BY <1>3, <1>4

\* A sum of integers is an integer.
LEMMA SumInt ==
  ASSUME NEW S, IsFiniteSet(S), NEW f, \A x \in S : f[x] \in Int
  PROVE  SumFunctionOnSet(f, S) \in Int
<1> DEFINE C == {T \in SUBSET S : SumFunctionOnSet(f, T) \notin Int}
<1>0. C \in SUBSET SUBSET S
  OBVIOUS
<1>1. ASSUME C # {} PROVE FALSE
  <2>1. PICK T \in C : \A U \in SUBSET T : U # T => U \notin C
    <3> HIDE DEF C
    <3> QED
      BY <1>0, <1>1, SmallestSet
  <2>2. IsFiniteSet(T) /\ T \in SUBSET S
    BY FS_Subset
  <2>3. T # {}
    BY <2>2, SumUnfolds
  <2>4. PICK x \in T : SumFunctionOnSet(f, T) = f[x] + SumFunctionOnSet(f, T \ {x})
    BY <2>2, <2>3, SumUnfolds
  <2>5. SumFunctionOnSet(f, T \ {x}) \in Int
    BY <2>1
  <2> QED
    BY <2>2, <2>4, <2>5
<1> QED
  BY <1>1

\* Whichever element is taken first, the sum is the same.
LEMMA SumRemove ==
  ASSUME NEW S, IsFiniteSet(S), NEW f, \A x \in S : f[x] \in Int, NEW a \in S
  PROVE  SumFunctionOnSet(f, S) = f[a] + SumFunctionOnSet(f, S \ {a})
<1> DEFINE Each(T) == \A x \in T : SumFunctionOnSet(f, T) = f[x] + SumFunctionOnSet(f, T \ {x})
           C == {T \in SUBSET S : ~Each(T)}
<1>0. C \in SUBSET SUBSET S
  OBVIOUS
<1>1. ASSUME C # {} PROVE FALSE
  <2>1. PICK T \in C : \A U \in SUBSET T : U # T => U \notin C
    <3> HIDE DEF C
    <3> QED
      BY <1>0, <1>1, SmallestSet
  <2>2. IsFiniteSet(T) /\ T \in SUBSET S
    BY FS_Subset
  <2>3. PICK x \in T : SumFunctionOnSet(f, T) # f[x] + SumFunctionOnSet(f, T \ {x})
    BY <2>1
  <2>4. PICK y \in T : SumFunctionOnSet(f, T) = f[y] + SumFunctionOnSet(f, T \ {y})
    BY <2>2, <2>3, SumUnfolds
  <2>5. x # y
    BY <2>3, <2>4
  <2>6. Each(T \ {x}) /\ Each(T \ {y})
    BY <2>1, <2>2
  <2>7. (T \ {x}) \ {y} = (T \ {y}) \ {x} /\ y \in T \ {x} /\ x \in T \ {y}
    BY <2>5
  <2>8. /\ SumFunctionOnSet(f, T \ {x}) = f[y] + SumFunctionOnSet(f, (T \ {x}) \ {y})
        /\ SumFunctionOnSet(f, T \ {y}) = f[x] + SumFunctionOnSet(f, (T \ {x}) \ {y})
    BY <2>6, <2>7
  <2>9. SumFunctionOnSet(f, (T \ {x}) \ {y}) \in Int /\ f[x] \in Int /\ f[y] \in Int
    <3>1. IsFiniteSet((T \ {x}) \ {y})
      BY <2>2, FS_Subset
    <3>2. \A z \in (T \ {x}) \ {y} : f[z] \in Int
      BY <2>2
    <3> QED
      BY <2>2, <3>1, <3>2, SumInt
  <2> HIDE DEF Each
  <2> QED
    BY <2>3, <2>4, <2>8, <2>9
<1> QED
  BY <1>1

\* One element more.
LEMMA SumAdd ==
  ASSUME NEW S, IsFiniteSet(S), NEW a, a \notin S,
         NEW f, \A x \in S \cup {a} : f[x] \in Int
  PROVE  /\ IsFiniteSet(S \cup {a})
         /\ SumFunctionOnSet(f, S \cup {a}) = f[a] + SumFunctionOnSet(f, S)
<1>1. IsFiniteSet(S \cup {a})
  BY FS_AddElement
<1>2. (S \cup {a}) \ {a} = S /\ a \in S \cup {a}
  OBVIOUS
<1>3. SumFunctionOnSet(f, S \cup {a}) = f[a] + SumFunctionOnSet(f, (S \cup {a}) \ {a})
  BY <1>1, <1>2, SumRemove
<1> QED
  BY <1>1, <1>2, <1>3

\* When h takes the elements of S to different elements of T, each to one worth
\* at least as much, T is worth at least as much as S.
LEMMA SumInjection ==
  ASSUME NEW S, IsFiniteSet(S), NEW T, IsFiniteSet(T),
         NEW f, \A x \in S : f[x] \in Int,
         NEW g, \A y \in T : g[y] \in Nat,
         NEW h \in [S -> T], \A x, y \in S : x # y => h[x] # h[y],
         \A x \in S : f[x] <= g[h[x]]
  PROVE  SumFunctionOnSet(f, S) <= SumFunctionOnSet(g, T)
<1> DEFINE Image(U) == {h[x] : x \in U}
           Less(U) == \A V \in SUBSET T :
                        Image(U) \subseteq V => SumFunctionOnSet(f, U) <= SumFunctionOnSet(g, V)
           C == {U \in SUBSET S : ~Less(U)}
<1>0. C \in SUBSET SUBSET S
  OBVIOUS
<1>1. ASSUME NEW V \in SUBSET T PROVE SumFunctionOnSet(g, V) \in Nat
  <2> DEFINE D == {U \in SUBSET V : SumFunctionOnSet(g, U) \notin Nat}
  <2>1. IsFiniteSet(V) /\ D \in SUBSET SUBSET V
    BY FS_Subset
  <2>2. ASSUME D # {} PROVE FALSE
    <3>1. PICK U \in D : \A W \in SUBSET U : W # U => W \notin D
      <4> HIDE DEF D
      <4> QED
        BY <2>1, <2>2, SmallestSet
    <3>2. IsFiniteSet(U) /\ U \in SUBSET V
      BY <2>1, FS_Subset
    <3>3. U # {}
      BY <3>2, SumUnfolds
    <3>4. PICK x \in U : SumFunctionOnSet(g, U) = g[x] + SumFunctionOnSet(g, U \ {x})
      BY <3>2, <3>3, SumUnfolds
    <3>5. SumFunctionOnSet(g, U \ {x}) \in Nat
      BY <3>1
    <3> QED
      BY <3>2, <3>4, <3>5
  <2> QED
    BY <2>2
<1>2. ASSUME C # {} PROVE FALSE
  <2>1. PICK U \in C : \A W \in SUBSET U : W # U => W \notin C
    <3> HIDE DEF C
    <3> QED
      BY <1>0, <1>2, SmallestSet
  <2>2. IsFiniteSet(U) /\ U \in SUBSET S
    BY FS_Subset
  <2>3. PICK V \in SUBSET T :
          Image(U) \subseteq V /\ ~(SumFunctionOnSet(f, U) <= SumFunctionOnSet(g, V))
    BY <2>1
  <2>4. IsFiniteSet(V) /\ SumFunctionOnSet(g, V) \in Nat
    BY <1>1, FS_Subset
  <2>5. CASE U = {}
    BY <2>2, <2>3, <2>4, <2>5, SumUnfolds
  <2>6. CASE U # {}
    <3>1. PICK x \in U : SumFunctionOnSet(f, U) = f[x] + SumFunctionOnSet(f, U \ {x})
      BY <2>2, <2>6, SumUnfolds
    <3>2. h[x] \in V /\ Image(U \ {x}) \subseteq V \ {h[x]}
      BY <2>2, <2>3
    <3>3. SumFunctionOnSet(g, V) = g[h[x]] + SumFunctionOnSet(g, V \ {h[x]})
      BY <2>4, <3>2, SumRemove
    <3>4. Less(U \ {x})
      BY <2>1
    <3>5. SumFunctionOnSet(f, U \ {x}) <= SumFunctionOnSet(g, V \ {h[x]})
      BY <3>2, <3>4
    <3>6. SumFunctionOnSet(f, U \ {x}) \in Int
      <4>1. IsFiniteSet(U \ {x}) /\ \A z \in U \ {x} : f[z] \in Int
        BY <2>2, FS_Subset
      <4> QED
        BY <4>1, SumInt
    <3>7. SumFunctionOnSet(g, V \ {h[x]}) \in Nat
      BY <1>1
    <3>8. f[x] \in Int /\ g[h[x]] \in Nat /\ f[x] <= g[h[x]]
      BY <2>2
    <3> HIDE DEF Less, C
    <3> QED
      BY <2>3, <3>1, <3>3, <3>5, <3>6, <3>7, <3>8
  <2> QED
    BY <2>5, <2>6
<1>3. S \in SUBSET S /\ Less(S) /\ Image(S) \subseteq T
  BY <1>2
<1> QED
  BY <1>3

\* A sum of naturals is a natural.
LEMMA SumNat ==
  ASSUME NEW S, IsFiniteSet(S), NEW f, \A x \in S : f[x] \in Nat
  PROVE  SumFunctionOnSet(f, S) \in Nat
<1> DEFINE none == [x \in {} |-> x]
<1>1. SumFunctionOnSet(f, {}) = 0 /\ IsFiniteSet({})
  BY FS_EmptySet, SumUnfolds
<1>2. SumFunctionOnSet(f, {}) <= SumFunctionOnSet(f, S)
  <2>1. none \in [{} -> S]
    OBVIOUS
  <2> HIDE DEF none
  <2> QED
    BY <1>1, <2>1, SumInjection
<1>3. SumFunctionOnSet(f, S) \in Int
  BY SumInt
<1> QED
  BY <1>1, <1>2, <1>3
\* Elements worth nothing may be left out.
LEMMA SumSupport ==
  ASSUME NEW S, IsFiniteSet(S), NEW f, \A x \in S : f[x] \in Int,
         NEW T \in SUBSET S, \A x \in S \ T : f[x] = 0
  PROVE  SumFunctionOnSet(f, S) = SumFunctionOnSet(f, T)
<1> DEFINE C == {U \in SUBSET S : SumFunctionOnSet(f, U) # SumFunctionOnSet(f, U \cap T)}
<1>0. C \in SUBSET SUBSET S
  OBVIOUS
<1>1. ASSUME C # {} PROVE FALSE
  <2>1. PICK U \in C : \A W \in SUBSET U : W # U => W \notin C
    <3> HIDE DEF C
    <3> QED
      BY <1>0, <1>1, SmallestSet
  <2>2. IsFiniteSet(U) /\ U \in SUBSET S /\ IsFiniteSet(U \cap T)
    BY FS_Subset
  <2>3. CASE U \subseteq T
    <3>1. U \cap T = U
      BY <2>3
    <3> QED
      BY <2>1, <3>1
  <2>4. ASSUME NEW x \in U, x \notin T PROVE FALSE
    <3>1. SumFunctionOnSet(f, U) = 0 + SumFunctionOnSet(f, U \ {x})
      BY <2>2, <2>4, SumRemove
    <3>2. SumFunctionOnSet(f, U \ {x}) = SumFunctionOnSet(f, (U \ {x}) \cap T)
      BY <2>1
    <3>3. (U \ {x}) \cap T = U \cap T
      BY <2>4
    <3>4. SumFunctionOnSet(f, U \ {x}) \in Int
      <4>1. IsFiniteSet(U \ {x}) /\ \A z \in U \ {x} : f[z] \in Int
        BY <2>2, FS_Subset
      <4> QED
        BY <4>1, SumInt
    <3>5. SumFunctionOnSet(f, U) # SumFunctionOnSet(f, U \cap T)
      BY <2>1
    <3>6. SumFunctionOnSet(f, U \ {x}) = SumFunctionOnSet(f, U \cap T)
      BY <3>2, <3>3
    <3> HIDE DEF C
    <3> QED
      BY <3>1, <3>4, <3>5, <3>6
  <2> QED
    BY <2>3, <2>4
<1>2. S \in SUBSET S /\ S \cap T = T /\ S \notin C
  BY <1>1
<1> QED
  BY <1>2
\* A sum is monotone in what it adds up.
LEMMA SumAtMost ==
  ASSUME NEW S, IsFiniteSet(S), NEW f, NEW g,
         \A x \in S : f[x] \in Int /\ g[x] \in Nat /\ f[x] <= g[x]
  PROVE  SumFunctionOnSet(f, S) <= SumFunctionOnSet(g, S)
<1> DEFINE h == [x \in S |-> x]
<1>1. h \in [S -> S] /\ (\A x, y \in S : x # y => h[x] # h[y]) /\ \A x \in S : f[x] <= g[h[x]]
  OBVIOUS
<1> HIDE DEF h
<1> QED
  BY <1>1, SumInjection

\* A sum depends only on what it adds up.
LEMMA SumSame ==
  ASSUME NEW S, IsFiniteSet(S), NEW f, NEW g, \A x \in S : f[x] \in Nat /\ f[x] = g[x]
  PROVE  SumFunctionOnSet(f, S) = SumFunctionOnSet(g, S)
<1>1. /\ SumFunctionOnSet(f, S) <= SumFunctionOnSet(g, S)
      /\ SumFunctionOnSet(g, S) <= SumFunctionOnSet(f, S)
  <2>1. \A x \in S : /\ f[x] \in Int /\ g[x] \in Nat /\ f[x] <= g[x]
                     /\ g[x] \in Int /\ f[x] \in Nat /\ g[x] <= f[x]
    OBVIOUS
  <2> QED
    BY <2>1, SumAtMost
<1>2. SumFunctionOnSet(f, S) \in Int /\ SumFunctionOnSet(g, S) \in Int
  BY SumInt
<1> QED
  BY <1>1, <1>2

\* Two sums over one set are one sum.
LEMMA SumPlus ==
  ASSUME NEW S, IsFiniteSet(S), NEW f, NEW g, NEW h,
         \A x \in S : f[x] \in Int /\ g[x] \in Int /\ h[x] = f[x] + g[x]
  PROVE  SumFunctionOnSet(h, S) = SumFunctionOnSet(f, S) + SumFunctionOnSet(g, S)
<1> DEFINE Adds(U) == SumFunctionOnSet(h, U) = SumFunctionOnSet(f, U) + SumFunctionOnSet(g, U)
           C == {U \in SUBSET S : ~Adds(U)}
<1>0. C \in SUBSET SUBSET S
  OBVIOUS
<1>1. ASSUME C # {} PROVE FALSE
  <2>1. PICK U \in C : \A W \in SUBSET U : W # U => W \notin C
    <3> HIDE DEF C
    <3> QED
      BY <1>0, <1>1, SmallestSet
  <2>2. IsFiniteSet(U) /\ U \in SUBSET S
    BY FS_Subset
  <2>3. U # {}
    <3>1. IsFiniteSet({}) /\ SumFunctionOnSet(f, {}) = 0 /\ SumFunctionOnSet(g, {}) = 0
          /\ SumFunctionOnSet(h, {}) = 0
      BY FS_EmptySet, SumUnfolds
    <3>2. Adds({})
      BY <3>1
    <3> QED
      BY <2>1, <3>2
  <2>4. PICK a : a \in U
    BY <2>3
  <2> DEFINE W == U \ {a}
  <2>5. IsFiniteSet(W) /\ W \in SUBSET S
    BY <2>2, FS_Subset
  <2>6. Adds(W)
    BY <2>1, <2>4
  <2>7. /\ \A x \in U : f[x] \in Int /\ g[x] \in Int /\ h[x] \in Int
        /\ \A x \in W : f[x] \in Int /\ g[x] \in Int /\ h[x] \in Int
    BY <2>2
  <2>8. /\ SumFunctionOnSet(f, U) = f[a] + SumFunctionOnSet(f, W)
        /\ SumFunctionOnSet(g, U) = g[a] + SumFunctionOnSet(g, W)
        /\ SumFunctionOnSet(h, U) = h[a] + SumFunctionOnSet(h, W)
    BY <2>2, <2>4, <2>7, SumRemove
  <2> HIDE DEF W
  <2>9. SumFunctionOnSet(f, W) \in Int /\ SumFunctionOnSet(g, W) \in Int
    BY <2>5, <2>7, SumInt
  <2>10. f[a] \in Int /\ g[a] \in Int /\ h[a] = f[a] + g[a]
    BY <2>2, <2>4
  <2>11. Adds(U)
    BY <2>6, <2>8, <2>9, <2>10
  <2> QED
    BY <2>1, <2>11
<1>2. S \in SUBSET S /\ S \notin C
  BY <1>1
<1> QED
  BY <1>2

\* A bounded set of naturals has a greatest member.
LEMMA GreatestNatural ==
  ASSUME NEW S \in SUBSET Nat, S # {}, NEW b \in Nat, \A y \in S : y <= b
  PROVE  Max(S) \in S /\ \A y \in S : y <= Max(S)
<1> DEFINE D == {k \in Nat : b - k \in S}
<1>1. PICK k \in D : \A l \in D : k <= l
  <2>1. PICK y \in S : TRUE
    OBVIOUS
  <2>2. b - y \in Nat /\ b - (b - y) = y
    BY <2>1
  <2>3. b - y \in D /\ D \in SUBSET Nat
    BY <2>2
  <2> HIDE DEF D
  <2> QED
    BY <2>3, LeastNatural
<1>2. \A y \in S : y <= b - k
  <2> SUFFICES ASSUME NEW y \in S PROVE y <= b - k
    OBVIOUS
  <2>1. b - y \in Nat /\ b - (b - y) = y
    OBVIOUS
  <2>2. b - y \in D
    BY <2>1
  <2>3. k <= b - y /\ k \in Nat
    BY <1>1, <2>2
  <2> QED
    BY <2>3
<1>3. b - k \in S /\ \A y \in S : b - k >= y
  BY <1>2
<1> QED
  BY <1>3 DEF Max
-----------------------------------------------------------------------------
\* h solves the recursion of a fold over 1 .. n that starts from base, G[x][i] being
\* what the fold makes of x at i.
FoldsUp(base, G, S, h) ==
  h = [s \in SUBSET S |-> IF s = {} THEN base ELSE G[h[s \ {Max(s)}]][Max(s)]]

Folded(base, G, S) == CHOOSE h : FoldsUp(base, G, S, h)

\* What a fold takes next is one of what is left.
LEMMA MaxIsMember ==
  ASSUME NEW n \in Nat, NEW s \in SUBSET (1 .. n), s # {}
  PROVE  Max(s) \in s
<1>1. s \in SUBSET Nat /\ \A y \in s : y <= n
  OBVIOUS
<1> QED
  BY <1>1, GreatestNatural

\* Solutions over different sets agree.
LEMMA FoldsAgree ==
  ASSUME NEW n \in Nat, NEW base, NEW G, NEW S \in SUBSET (1 .. n), NEW T \in SUBSET S,
         NEW g, FoldsUp(base, G, S, g), NEW h, FoldsUp(base, G, T, h)
  PROVE  \A U \in SUBSET T : g[U] = h[U]
<1> DEFINE C == {U \in SUBSET T : g[U] # h[U]}
<1>0. C \in SUBSET SUBSET T /\ IsFiniteSet(T)
  <2>1. IsFiniteSet(1 .. n) /\ T \subseteq 1 .. n
    BY FS_Interval
  <2> QED
    BY <2>1, FS_Subset
<1> SUFFICES ASSUME C # {} PROVE FALSE
  OBVIOUS
<1>1. PICK U \in C : \A V \in SUBSET U : V # U => V \notin C
  <2> HIDE DEF C
  <2> QED
    BY <1>0, SmallestSet
<1>2. U \in SUBSET T /\ U \in SUBSET S /\ U \in SUBSET (1 .. n) /\ g[U] # h[U]
  BY <1>1
<1>3. U # {}
  BY <1>2 DEF FoldsUp
<1> DEFINE x == Max(U)
<1>4. x \in U
  BY <1>2, <1>3, MaxIsMember
<1> HIDE DEF x
<1>5. g[U \ {x}] = h[U \ {x}]
  BY <1>1, <1>2, <1>4
<1>6. g[U] = G[g[U \ {x}]][x] /\ h[U] = G[h[U \ {x}]][x]
  BY <1>2, <1>3 DEF FoldsUp, x
<1> QED
  BY <1>2, <1>5, <1>6

\* The recursion has a solution.
LEMMA FoldExists ==
  ASSUME NEW n \in Nat, NEW base, NEW G
  PROVE  FoldsUp(base, G, 1 .. n, Folded(base, G, 1 .. n))
<1> DEFINE S == 1 .. n
           C == {T \in SUBSET S : ~ \E g : FoldsUp(base, G, T, g)}
           F(V) == Folded(base, G, V)
<1>0. C \in SUBSET SUBSET S /\ IsFiniteSet(S)
  BY FS_Interval
<1>1. ASSUME C # {} PROVE FALSE
  <2>1. PICK T \in C : \A U \in SUBSET T : U # T => U \notin C
    <3> HIDE DEF C, S
    <3> QED
      BY <1>0, <1>1, SmallestSet
  <2> DEFINE rest(U) == U \ {Max(U)}
             h == [U \in SUBSET T |-> IF U = {} THEN base ELSE G[F(rest(U))[rest(U)]][Max(U)]]
  <2>2. \A U \in SUBSET T : U # {} => /\ Max(U) \in U /\ rest(U) \in SUBSET T /\ rest(U) # T
                                      /\ rest(U) \in SUBSET U
    BY MaxIsMember
  <2>3. ASSUME NEW V \in SUBSET T, V # T PROVE FoldsUp(base, G, V, F(V))
    <3>1. V \notin C /\ V \in SUBSET S
      BY <2>1, <2>3
    <3>2. \E g : FoldsUp(base, G, V, g)
      BY <3>1
    <3> QED
      BY <3>2 DEF Folded
  <2>4. ASSUME NEW V \in SUBSET T, V # T
        PROVE  h[V] = F(V)[V]
    <3>1. CASE V = {}
      <4>1. {} \in SUBSET {}
        OBVIOUS
      <4>2. F(V)[V] = base
        BY <2>3, <2>4, <3>1, <4>1 DEF FoldsUp
      <4> QED
        BY <3>1, <4>2
    <3>2. CASE V # {}
      <4>1. rest(V) \in SUBSET V /\ rest(V) \in SUBSET T /\ rest(V) # T /\ V \in SUBSET S
        BY <2>2, <2>4, <3>2
      <4>2. FoldsUp(base, G, V, F(V)) /\ FoldsUp(base, G, rest(V), F(rest(V)))
        BY <2>3, <2>4, <4>1
      <4>3. F(V)[rest(V)] = F(rest(V))[rest(V)]
        <5>1. rest(V) \in SUBSET rest(V)
          OBVIOUS
        <5> HIDE DEF F, rest, h, C
        <5> QED
          BY <4>1, <4>2, <5>1, FoldsAgree
      <4>4. F(V)[V] = G[F(V)[rest(V)]][Max(V)]
        <5>1. V \in SUBSET V
          OBVIOUS
        <5> QED
          BY <3>2, <4>2, <5>1 DEF FoldsUp
      <4> QED
        BY <3>2, <4>3, <4>4
    <3> QED
      BY <3>1, <3>2
  <2>5. \A U \in SUBSET T : U # {} => h[U] = G[h[rest(U)]][Max(U)]
    BY <2>2, <2>4
  <2>6. FoldsUp(base, G, T, h)
    BY <2>5 DEF FoldsUp
  <2> QED
    BY <2>1, <2>6
<1>2. \E g : FoldsUp(base, G, S, g)
  <2>1. S \in SUBSET S /\ S \notin C
    BY <1>1
  <2> QED
    BY <2>1
<1> QED
  BY <1>2 DEF Folded

\* What every step of a recursion keeps, the whole of it keeps.
LEMMA FoldKeeps ==
  ASSUME NEW n \in Nat, NEW M, NEW h, h[{}] \in M,
         \A s \in SUBSET (1 .. n) : s # {} /\ h[s \ {Max(s)}] \in M => h[s] \in M
  PROVE  \A s \in SUBSET (1 .. n) : h[s] \in M
<1> DEFINE C == {s \in SUBSET (1 .. n) : h[s] \notin M}
<1>0. C \in SUBSET SUBSET (1 .. n) /\ IsFiniteSet(1 .. n)
  BY FS_Interval
<1> SUFFICES ASSUME C # {} PROVE FALSE
  OBVIOUS
<1>1. PICK s \in C : \A V \in SUBSET s : V # s => V \notin C
  <2> HIDE DEF C
  <2> QED
    BY <1>0, SmallestSet
<1>2. s \in SUBSET (1 .. n) /\ s # {} /\ h[s] \notin M
  BY <1>1
<1> DEFINE x == Max(s)
           V == s \ {x}
<1>3. x \in s
  BY <1>2, MaxIsMember
<1>4. h[V] \in M => h[s] \in M
  BY <1>2
<1> HIDE DEF x
<1>5. V \in SUBSET s /\ V # s /\ V \in SUBSET (1 .. n)
  BY <1>2, <1>3
<1> HIDE DEF V
<1>6. h[V] \in M
  BY <1>1, <1>5
<1> QED
  BY <1>2, <1>4, <1>6

\* A recursion whose steps stay in M has a solution that does.
LEMMA FoldInside ==
  ASSUME NEW n \in Nat, NEW M, NEW base \in M, NEW G \in [M -> [1 .. n -> M]]
  PROVE  \E h : FoldsUp(base, G, 1 .. n, h) /\ \A s \in SUBSET (1 .. n) : h[s] \in M
<1> DEFINE h == Folded(base, G, 1 .. n)
<1>1. FoldsUp(base, G, 1 .. n, h)
  BY FoldExists
<1> HIDE DEF h
<1>2. h[{}] \in M
  BY <1>1 DEF FoldsUp
<1>3. ASSUME NEW s \in SUBSET (1 .. n), s # {}, h[s \ {Max(s)}] \in M PROVE h[s] \in M
  <2>1. Max(s) \in 1 .. n
    BY <1>3, MaxIsMember
  <2>2. h[s] = G[h[s \ {Max(s)}]][Max(s)]
    BY <1>1, <1>3 DEF FoldsUp
  <2> QED
    BY <1>3, <2>1, <2>2
<1>4. \A s \in SUBSET (1 .. n) : h[s] \in M
  BY <1>2, <1>3, FoldKeeps
<1> QED
  BY <1>1, <1>4

-----------------------------------------------------------------------------
\* A path of a graph that visits no node twice: next[n] is what n has edges to.
IsPath(N, next, p) ==
  /\ p \in Seq(N) /\ p # <<>> /\ IsInjective(p)
  /\ \A i \in 1 .. Len(p) - 1 : p[i + 1] \in next[p[i]]

\* What the parts of a path are.
LEMMA PathParts ==
  ASSUME NEW N, NEW next, NEW p, IsPath(N, next, p)
  PROVE  /\ Len(p) \in Nat \ {0} /\ DOMAIN p = 1 .. Len(p)
         /\ Head(p) = p[1] /\ Last(p) = p[Len(p)]
         /\ \A i \in 1 .. Len(p) : p[i] \in N
         /\ Head(p) \in Range(p) /\ Last(p) \in Range(p) /\ Range(p) \subseteq N
         /\ \A i, j \in 1 .. Len(p) : p[i] = p[j] => i = j
BY DEF IsPath, IsInjective, Last, Range

\* A path is no longer than there are nodes.
LEMMA PathIsShort ==
  ASSUME NEW N, IsFiniteSet(N), NEW next, NEW p, IsPath(N, next, p)
  PROVE  Len(p) <= Cardinality(N)
<1>1. Len(p) \in Nat \ {0} /\ p \in [1 .. Len(p) -> N]
  BY DEF IsPath
<1>2. p \in Injection(1 .. Len(p), N)
  BY <1>1 DEF IsPath, Injection, IsInjective
<1>3. Cardinality(1 .. Len(p)) <= Cardinality(N)
  BY <1>2, FS_Injection
<1>4. Cardinality(1 .. Len(p)) = Len(p)
  BY <1>1, FS_Interval
<1> QED
  BY <1>3, <1>4

\* r visits what p visits from i to j.
Covers(r, p, i, j) == Range(r) = {p[k] : k \in i .. j}

\* A stretch of a path is a path.
LEMMA PathSegment ==
  ASSUME NEW N, NEW next, NEW p, IsPath(N, next, p),
         NEW i \in 1 .. Len(p), NEW j \in i .. Len(p)
  PROVE  \E r : /\ IsPath(N, next, r) /\ Head(r) = p[i] /\ Last(r) = p[j]
                /\ Covers(r, p, i, j)
<1> DEFINE q == SubSeq(p, i, j)
<1>0. p \in Seq(N) /\ Len(p) \in Nat /\ i \in Int /\ j \in Int /\ i <= j
  BY DEF IsPath
<1>1. \A k \in i .. j : p[k] \in N
  BY <1>0
<1>2. /\ q \in Seq(N) /\ Len(q) = j - i + 1
      /\ \A k \in 1 .. j - i + 1 : q[k] = p[i + k - 1]
  BY <1>0, <1>1, SubSeqProperties
<1> HIDE DEF q
<1>3. q # <<>> /\ Len(q) \in Nat \ {0} /\ DOMAIN q = 1 .. Len(q)
  BY <1>0, <1>2
<1>4. IsInjective(q)
  <2> SUFFICES ASSUME NEW a \in 1 .. Len(q), NEW b \in 1 .. Len(q), q[a] = q[b]
               PROVE  a = b
    BY <1>3 DEF IsInjective
  <2>1. p[i + a - 1] = p[i + b - 1] /\ i + a - 1 \in 1 .. Len(p) /\ i + b - 1 \in 1 .. Len(p)
    BY <1>0, <1>2
  <2> DEFINE x == i + a - 1
             y == i + b - 1
  <2>2. \A k, l \in 1 .. Len(p) : p[k] = p[l] => k = l
    BY PathParts
  <2>3. x = y
    <3> HIDE DEF x, y
    <3>1. p[x] = p[y] /\ x \in 1 .. Len(p) /\ y \in 1 .. Len(p)
      BY <2>1 DEF x, y
    <3> QED
      BY <2>2, <3>1
  <2> QED
    BY <1>0, <2>3
<1>5. ASSUME NEW k \in 1 .. Len(q) - 1
      PROVE  q[k + 1] \in next[q[k]]
  <2>1. q[k + 1] = p[i + k] /\ q[k] = p[i + k - 1]
    BY <1>0, <1>2
  <2>2. i + k - 1 \in 1 .. Len(p) - 1 /\ (i + k - 1) + 1 = i + k
    BY <1>0, <1>2
  <2> QED
    BY <2>1, <2>2 DEF IsPath
<1>6. Head(q) = p[i] /\ Last(q) = p[j]
  <2>1. Head(q) = q[1] /\ Last(q) = q[Len(q)]
    BY <1>2, <1>3 DEF Last
  <2>2. q[1] = p[i] /\ q[Len(q)] = p[j]
    BY <1>0, <1>2
  <2> QED
    BY <2>1, <2>2
<1>7. Covers(q, p, i, j)
  <2>1. ASSUME NEW k \in i .. j PROVE p[k] \in Range(q)
    <3>1. k - i + 1 \in 1 .. Len(q) /\ q[k - i + 1] = p[k]
      BY <1>0, <1>2
    <3> QED
      BY <1>3, <3>1 DEF Range
  <2>2. ASSUME NEW k \in 1 .. Len(q) PROVE q[k] \in {p[m] : m \in i .. j}
    <3>1. q[k] = p[i + k - 1] /\ i + k - 1 \in i .. j
      BY <1>0, <1>2
    <3> QED
      BY <3>1
  <2> QED
    BY <1>3, <2>1, <2>2 DEF Range, Covers
<1>8. IsPath(N, next, q)
  BY <1>2, <1>3, <1>4, <1>5 DEF IsPath
<1> QED
  BY <1>6, <1>7, <1>8

\* Two paths with nothing in common and an edge between them are one.
LEMMA PathJoin ==
  ASSUME NEW N, NEW next, NEW p, IsPath(N, next, p), NEW q, IsPath(N, next, q),
         Head(q) \in next[Last(p)], Range(p) \cap Range(q) = {}
  PROVE  \E r : /\ IsPath(N, next, r) /\ Head(r) = Head(p) /\ Last(r) = Last(q)
                /\ Range(r) = Range(p) \cup Range(q)
<1> DEFINE r == p \o q
           m == Len(p)
           n == Len(q)
<1>0. /\ p \in Seq(N) /\ q \in Seq(N) /\ m \in Nat \ {0} /\ n \in Nat \ {0}
      /\ DOMAIN p = 1 .. m /\ DOMAIN q = 1 .. n
      /\ Head(p) = p[1] /\ Last(p) = p[m] /\ Head(q) = q[1] /\ Last(q) = q[n]
  BY PathParts DEF IsPath
<1>1. /\ r \in Seq(N) /\ Len(r) = m + n
      /\ \A i \in 1 .. m + n : r[i] = IF i <= m THEN p[i] ELSE q[i - m]
  BY <1>0, ConcatProperties
<1> HIDE DEF r, m, n
<1>2. r # <<>> /\ DOMAIN r = 1 .. m + n
  BY <1>0, <1>1
<1>3. \A i \in 1 .. m, j \in 1 .. n : p[i] # q[j]
  BY <1>0 DEF Range
<1>4. IsInjective(r)
  <2> SUFFICES ASSUME NEW a \in 1 .. m + n, NEW b \in 1 .. m + n, r[a] = r[b]
               PROVE  a = b
    BY <1>2 DEF IsInjective
  <2>1. CASE a <= m /\ b <= m
    <3>1. a \in 1 .. m /\ b \in 1 .. m /\ p[a] = p[b]
      BY <1>0, <1>1, <2>1
    <3> QED
      BY <3>1, PathParts DEF m
  <2>2. CASE a > m /\ b > m
    <3>1. a - m \in 1 .. n /\ b - m \in 1 .. n /\ q[a - m] = q[b - m]
      BY <1>0, <1>1, <2>2
    <3>2. a - m = b - m
      BY <3>1, PathParts DEF n
    <3> QED
      BY <1>0, <3>2
  <2>3. CASE a <= m /\ b > m
    <3>1. a \in 1 .. m /\ b - m \in 1 .. n /\ p[a] = q[b - m]
      BY <1>0, <1>1, <2>3
    <3> QED
      BY <1>3, <3>1
  <2>4. CASE a > m /\ b <= m
    <3>1. b \in 1 .. m /\ a - m \in 1 .. n /\ p[b] = q[a - m]
      BY <1>0, <1>1, <2>4
    <3> QED
      BY <1>3, <3>1
  <2> QED
    BY <1>0, <2>1, <2>2, <2>3, <2>4
<1>5. ASSUME NEW i \in 1 .. Len(r) - 1
      PROVE  r[i + 1] \in next[r[i]]
  <2>1. CASE i < m
    <3>1. i \in 1 .. m - 1 /\ r[i] = p[i] /\ r[i + 1] = p[i + 1]
      BY <1>0, <1>1, <2>1
    <3> QED
      BY <3>1 DEF IsPath, m
  <2>2. CASE i = m
    <3>1. r[i] = p[m] /\ r[i + 1] = q[1]
      BY <1>0, <1>1, <2>2
    <3> QED
      BY <1>0, <3>1
  <2>3. CASE i > m
    <3>1. i - m \in 1 .. n - 1 /\ r[i] = q[i - m] /\ r[i + 1] = q[(i - m) + 1]
      BY <1>0, <1>1, <2>3
    <3> QED
      BY <3>1 DEF IsPath, n
  <2> QED
    BY <1>0, <1>1, <2>1, <2>2, <2>3
<1>6. Head(r) = Head(p) /\ Last(r) = Last(q)
  <2>1. Head(r) = r[1] /\ Last(r) = r[m + n]
    BY <1>1, <1>2 DEF Last
  <2>2. r[1] = p[1] /\ r[m + n] = q[(m + n) - m] /\ (m + n) - m = n
    BY <1>0, <1>1
  <2> QED
    BY <1>0, <2>1, <2>2
<1>7. Range(r) = Range(p) \cup Range(q)
  <2>1. ASSUME NEW i \in 1 .. m PROVE p[i] \in Range(r)
    <3>1. i \in 1 .. m + n /\ r[i] = p[i]
      BY <1>0, <1>1
    <3> QED
      BY <1>2, <3>1 DEF Range
  <2>2. ASSUME NEW i \in 1 .. n PROVE q[i] \in Range(r)
    <3>1. i + m \in 1 .. m + n /\ r[i + m] = q[i]
      BY <1>0, <1>1
    <3> QED
      BY <1>2, <3>1 DEF Range
  <2>3. ASSUME NEW i \in 1 .. m + n PROVE r[i] \in Range(p) \cup Range(q)
    <3>1. CASE i <= m
      BY <1>0, <1>1, <3>1 DEF Range
    <3>2. CASE i > m
      <4>1. r[i] = q[i - m] /\ i - m \in DOMAIN q
        BY <1>0, <1>1, <3>2
      <4> QED
        BY <4>1 DEF Range
    <3> QED
      BY <1>0, <3>1, <3>2
  <2>4. Range(p) \cup Range(q) \subseteq Range(r)
    BY <1>0, <2>1, <2>2 DEF Range
  <2>5. Range(r) \subseteq Range(p) \cup Range(q)
    BY <1>2, <2>3 DEF Range
  <2> QED
    BY <2>4, <2>5
<1>8. IsPath(N, next, r)
  BY <1>1, <1>2, <1>4, <1>5 DEF IsPath
<1> QED
  BY <1>6, <1>7, <1>8

\* Where two paths meet one can leave the first for the second: from the last node
\* of q that p visits, the rest of q is new.
LEMMA PathThrough ==
  ASSUME NEW N, NEW next, NEW p, IsPath(N, next, p), NEW q, IsPath(N, next, q),
         Head(q) \in next[Last(p)]
  PROVE  \E r : IsPath(N, next, r) /\ Head(r) = Head(p) /\ Last(r) = Last(q)
<1> DEFINE n == Len(q)
           J == {k \in Nat : n - k \in 1 .. n /\ q[n - k] \in Range(p)}
<1>0. /\ n = Len(q) /\ n \in Nat \ {0} /\ DOMAIN q = 1 .. n /\ Last(q) = q[n]
      /\ Len(p) \in Nat \ {0} /\ DOMAIN p = 1 .. Len(p) /\ Head(p) = p[1]
  BY PathParts
<1> HIDE DEF n
<1>1. CASE J = {}
  <2>1. Range(p) \cap Range(q) = {}
    <3> SUFFICES ASSUME NEW j \in 1 .. n, q[j] \in Range(p) PROVE FALSE
      BY <1>0 DEF Range
    <3>1. n - j \in Nat /\ n - (n - j) = j
      BY <1>0
    <3>2. n - j \in J
      BY <3>1
    <3> QED
      BY <1>1, <3>2
  <2> QED
    BY <2>1, PathJoin
<1>2. CASE J # {}
  <2>1. PICK k \in J : \A l \in J : k <= l
    <3>1. J \in SUBSET Nat
      OBVIOUS
    <3> HIDE DEF J
    <3> QED
      BY <1>2, <3>1, LeastNatural
  <2> DEFINE j == n - k
  <2>2. j \in 1 .. n /\ k \in Nat /\ q[j] \in Range(p)
    OBVIOUS
  <2>3. \A l \in 1 .. n : l > j => q[l] \notin Range(p)
    <3> SUFFICES ASSUME NEW l \in 1 .. n, l > j, q[l] \in Range(p) PROVE FALSE
      OBVIOUS
    <3>1. n - l \in Nat /\ n - (n - l) = l /\ n - l < k
      BY <1>0, <2>2
    <3>2. n - l \in J
      BY <3>1
    <3> HIDE DEF J
    <3> QED
      BY <2>1, <2>2, <3>1, <3>2
  <2>4. PICK i \in 1 .. Len(p) : p[i] = q[j]
    BY <1>0, <2>2 DEF Range
  <2> HIDE DEF j, J
  <2>5. PICK a : /\ IsPath(N, next, a) /\ Head(a) = p[1] /\ Last(a) = p[i]
                 /\ Covers(a, p, 1, i)
    <3>1. 1 \in 1 .. Len(p) /\ i \in 1 .. Len(p)
      BY <1>0
    <3> QED
      BY <3>1, PathSegment
  <2>6. CASE j = n
    BY <1>0, <2>4, <2>5, <2>6
  <2>7. CASE j # n
    <3>1. j + 1 \in 1 .. n /\ n \in (j + 1) .. n
      BY <1>0, <2>2, <2>7
    <3>2. PICK b : /\ IsPath(N, next, b) /\ Head(b) = q[j + 1] /\ Last(b) = q[n]
                   /\ Covers(b, q, j + 1, n)
      BY <1>0, <3>1, PathSegment
    <3>3. Head(b) \in next[Last(a)]
      <4>1. j \in 1 .. Len(q) - 1
        BY <1>0, <2>2, <2>7
      <4> QED
        BY <2>4, <2>5, <3>2, <4>1 DEF IsPath
    <3>4. Range(a) \cap Range(b) = {}
      <4>1. \A l \in (j + 1) .. n : l \in 1 .. n /\ l > j
        BY <1>0, <2>2
      <4>2. Range(a) \subseteq Range(p)
        <5>1. \A l \in 1 .. i : l \in DOMAIN p
          BY <1>0
        <5> QED
          BY <2>5, <5>1 DEF Range, Covers
      <4> QED
        BY <2>3, <3>2, <4>1, <4>2 DEF Covers
    <3> QED
      BY <1>0, <2>5, <3>2, <3>3, <3>4, PathJoin
  <2> QED
    BY <2>6, <2>7
<1> QED
  BY <1>1, <1>2

\* In a graph without cycles two paths that meet at their ends are one path.
LEMMA PathExtend ==
  ASSUME NEW N, NEW next, NEW p, IsPath(N, next, p), NEW q, IsPath(N, next, q),
         Last(p) = Head(q),
         \A r : IsPath(N, next, r) => Head(r) \notin next[Last(r)]
  PROVE  \E r : /\ IsPath(N, next, r) /\ Head(r) = Head(p) /\ Last(r) = Last(q)
                /\ Range(r) = Range(p) \cup Range(q)
<1> DEFINE m == Len(p)
           n == Len(q)
<1>0. /\ n = Len(q) /\ m = Len(p) /\ n \in Nat \ {0} /\ DOMAIN q = 1 .. n /\ Last(q) = q[n] /\ Head(q) = q[1]
      /\ m \in Nat \ {0} /\ DOMAIN p = 1 .. m /\ Head(p) = p[1] /\ Last(p) = p[m]
  BY PathParts
<1> HIDE DEF n, m
<1>1. CASE n = 1
  <2>1. Range(q) = {q[1]} /\ q[1] \in Range(p)
    BY <1>0, <1>1 DEF Range
  <2> QED
    BY <1>0, <1>1, <2>1
<1>2. CASE n # 1
  <2> DEFINE J == {j \in Nat : j \in 2 .. n /\ q[j] \in Range(p)}
  <2>1. 2 \in 1 .. n /\ n \in 2 .. n
    BY <1>0, <1>2
  <2>2. PICK t : /\ IsPath(N, next, t) /\ Head(t) = q[2] /\ Last(t) = q[n]
                 /\ Covers(t, q, 2, n)
    BY <2>1, <1>0, PathSegment
  <2>3. Head(t) \in next[Last(p)]
    <3>1. 1 \in 1 .. Len(q) - 1
      BY <1>0, <1>2
    <3>2. q[2] \in next[q[1]]
      BY <3>1 DEF IsPath
    <3> QED
      BY <1>0, <2>2, <3>2
  <2>4. J = {}
    <3> SUFFICES ASSUME J # {} PROVE FALSE
      OBVIOUS
    <3>1. PICK j \in J : \A l \in J : j <= l
      <4>1. J \in SUBSET Nat
        OBVIOUS
      <4> HIDE DEF J
      <4> QED
        BY <4>1, LeastNatural
    <3>2. PICK i \in 1 .. m : p[i] = q[j]
      BY <1>0 DEF Range
    <3>3. j \in 2 .. n /\ j \in Nat
      OBVIOUS
    <3>4. \A l \in 2 .. n : l < j => q[l] \notin Range(p)
      <4> SUFFICES ASSUME NEW l \in 2 .. n, l < j, q[l] \in Range(p) PROVE FALSE
        OBVIOUS
      <4>1. l \in J
        BY <1>0
      <4> HIDE DEF J
      <4> QED
        BY <3>1, <3>3, <4>1
    <3> HIDE DEF J
    <3>5. PICK a : /\ IsPath(N, next, a) /\ Head(a) = q[j] /\ Last(a) = q[1]
                   /\ Covers(a, p, i, m)
      <4>1. i \in 1 .. Len(p) /\ m \in i .. Len(p)
        BY <1>0
      <4>2. \E a : /\ IsPath(N, next, a) /\ Head(a) = p[i] /\ Last(a) = p[m]
                   /\ Covers(a, p, i, m)
        BY <1>0, <4>1, PathSegment
      <4> QED
        BY <1>0, <3>2, <4>2
    <3>6. \A l \in 1 .. n - 1 : q[l + 1] \in next[q[l]]
      BY <1>0 DEF IsPath
    <3>7. CASE j = 2
      <4>1. q[2] \in next[q[1]]
        BY <1>0, <1>2, <3>6
      <4> QED
        BY <3>5, <3>7, <4>1
    <3>8. CASE j # 2
      <4>1. 2 \in 1 .. n /\ j - 1 \in 2 .. n /\ j - 1 \in 1 .. n - 1 /\ (j - 1) + 1 = j
        BY <1>0, <3>3, <3>8
      <4>2. PICK b : /\ IsPath(N, next, b) /\ Head(b) = q[2] /\ Last(b) = q[j - 1]
                     /\ Covers(b, q, 2, j - 1)
        BY <4>1, <1>0, PathSegment
      <4>3. Head(b) \in next[Last(a)]
        BY <1>0, <2>2, <2>3, <3>5, <4>2
      <4>4. Range(a) \cap Range(b) = {}
        <5>1. \A l \in 2 .. j - 1 : l \in 2 .. n /\ l < j
          BY <1>0, <3>3
        <5>2. Range(a) \subseteq Range(p)
          BY <1>0, <3>5 DEF Range, Covers
        <5> QED
          BY <3>4, <4>2, <5>1, <5>2 DEF Covers
      <4>5. q[j] \in next[q[j - 1]]
        BY <3>6, <4>1
      <4>6. \E r : IsPath(N, next, r) /\ Head(r) = q[j] /\ Last(r) = q[j - 1]
        BY <3>5, <4>2, <4>3, <4>4, PathJoin
      <4> QED
        BY <4>5, <4>6
    <3> QED
      BY <3>7, <3>8
  <2>5. Range(p) \cap Range(t) = {}
    BY <1>0, <2>2, <2>4 DEF Covers
  <2>6. Range(p) \cup Range(t) = Range(p) \cup Range(q)
    <3>1. Range(q) = {q[1]} \cup {q[j] : j \in 2 .. n}
      BY <1>0 DEF Range
    <3>2. q[1] \in Range(p)
      BY <1>0 DEF Range
    <3> QED
      BY <2>2, <3>1, <3>2 DEF Covers
  <2>7. \E r : /\ IsPath(N, next, r) /\ Head(r) = Head(p) /\ Last(r) = Last(t)
               /\ Range(r) = Range(p) \cup Range(t)
    BY <2>2, <2>3, <2>5, PathJoin
  <2> QED
    BY <1>0, <2>2, <2>6, <2>7
<1> QED
  BY <1>1, <1>2

\* A node is a path.
LEMMA PathOfOne ==
  ASSUME NEW N, NEW next, NEW a \in N
  PROVE  \E r : IsPath(N, next, r) /\ Head(r) = a /\ Last(r) = a
<1> DEFINE r == <<a>>
<1>1. r \in Seq(N) /\ r # <<>> /\ Len(r) = 1 /\ DOMAIN r = {1} /\ r[1] = a
  OBVIOUS
<1>2. Head(r) = a
  OBVIOUS
<1> HIDE DEF r
<1>3. IsInjective(r) /\ Last(r) = a
  BY <1>1 DEF IsInjective, Last
<1>4. \A i \in 1 .. Len(r) - 1 : FALSE
  BY <1>1
<1>5. IsPath(N, next, r)
  BY <1>1, <1>3, <1>4 DEF IsPath
<1> QED
  BY <1>2, <1>3, <1>5

\* What the nodes of a path weigh, along the path and as a set.
LEMMA PathSumAtMost ==
  ASSUME NEW N, IsFiniteSet(N), NEW next, NEW p, IsPath(N, next, p),
         NEW w, \A x \in N : w[x] \in Nat,
         NEW v, \A i \in DOMAIN p : v[i] \in Int /\ v[i] <= w[p[i]]
  PROVE  SumFunctionOnSet(v, DOMAIN p) <= SumFunctionOnSet(w, Range(p))
<1>1. DOMAIN p = 1 .. Len(p) /\ Len(p) \in Nat /\ Range(p) \subseteq N
  BY PathParts
<1>2. IsFiniteSet(DOMAIN p) /\ IsFiniteSet(Range(p))
  BY <1>1, FS_Interval, FS_Subset
<1>3. p \in [DOMAIN p -> Range(p)] /\ \A i, j \in DOMAIN p : i # j => p[i] # p[j]
  BY DEF IsPath, IsInjective, Range
<1>4. \A x \in Range(p) : w[x] \in Nat
  BY <1>1
<1> QED
  BY <1>2, <1>3, <1>4, SumInjection

\* The weight along a path is the weight of the set of its members.
LEMMA PathSum ==
  ASSUME NEW N, IsFiniteSet(N), NEW next, NEW p, IsPath(N, next, p),
         NEW w, \A x \in N : w[x] \in Nat,
         NEW v, \A i \in DOMAIN p : v[i] = w[p[i]]
  PROVE  SumFunctionOnSet(v, DOMAIN p) = SumFunctionOnSet(w, Range(p))
<1> DEFINE h == [x \in Range(p) |-> CHOOSE i \in DOMAIN p : p[i] = x]
<1>1. DOMAIN p = 1 .. Len(p) /\ Len(p) \in Nat /\ Range(p) \subseteq N
  BY PathParts
<1>2. IsFiniteSet(DOMAIN p) /\ IsFiniteSet(Range(p))
  BY <1>1, FS_Interval, FS_Subset
<1>3. \A x \in Range(p) : h[x] \in DOMAIN p /\ p[h[x]] = x
  BY DEF Range
<1>4. h \in [Range(p) -> DOMAIN p]
  BY <1>3
<1> HIDE DEF h
<1>5. \A i \in DOMAIN p : p[i] \in N /\ v[i] \in Nat
  BY <1>1 DEF Range
<1>6. \A x \in Range(p) : w[x] \in Nat /\ w[x] \in Int /\ w[x] <= v[h[x]]
  BY <1>1, <1>3
<1>7. \A x, y \in Range(p) : x # y => h[x] # h[y]
  BY <1>3
<1>8. SumFunctionOnSet(w, Range(p)) <= SumFunctionOnSet(v, DOMAIN p)
  BY <1>2, <1>4, <1>5, <1>6, <1>7, SumInjection
<1>9. SumFunctionOnSet(v, DOMAIN p) <= SumFunctionOnSet(w, Range(p))
  <2>1. \A i \in DOMAIN p : v[i] \in Int /\ v[i] <= w[p[i]]
    BY <1>5
  <2> QED
    BY <2>1, PathSumAtMost
<1>10. SumFunctionOnSet(w, Range(p)) \in Int /\ SumFunctionOnSet(v, DOMAIN p) \in Int
  BY <1>2, <1>5, <1>6, SumInt
<1> QED
  BY <1>8, <1>9, <1>10

\* Where every edge of one graph is a path of another, which has no cycles, a path
\* of the first is covered by a path of the second.
LEMMA PathCovered ==
  ASSUME NEW N, NEW next, NEW far, NEW q, IsPath(N, far, q),
         \A r : IsPath(N, next, r) => Head(r) \notin next[Last(r)],
         \A a, b \in N : b \in far[a] =>
           \E r : IsPath(N, next, r) /\ Head(r) = a /\ Last(r) = b
  PROVE  \E r : /\ IsPath(N, next, r) /\ Head(r) = Head(q) /\ Last(r) = Last(q)
                /\ Range(q) \subseteq Range(r)
<1> DEFINE n == Len(q)
           Cover(k) == \E r : /\ IsPath(N, next, r) /\ Head(r) = q[1] /\ Last(r) = q[k]
                              /\ \A l \in 1 .. k : q[l] \in Range(r)
           K == {k \in Nat : k \in 1 .. n /\ ~Cover(k)}
<1>0. /\ n = Len(q) /\ n \in Nat \ {0} /\ DOMAIN q = 1 .. n /\ Head(q) = q[1] /\ Last(q) = q[n]
      /\ \A k \in 1 .. n : q[k] \in N
  BY PathParts
<1>1. \A k \in 1 .. n - 1 : q[k + 1] \in far[q[k]]
  BY DEF IsPath
<1>a. \A a \in N : \E r : IsPath(N, next, r) /\ Head(r) = a /\ Last(r) = a
  BY PathOfOne
<1> HIDE DEF n
<1>2. ASSUME K # {} PROVE FALSE
  <2>1. PICK k \in K : \A l \in K : k <= l
    <3>1. K \in SUBSET Nat
      OBVIOUS
    <3> HIDE DEF K
    <3> QED
      BY <1>2, <3>1, LeastNatural
  <2>2. k \in 1 .. n /\ k \in Nat /\ ~Cover(k)
    BY <2>1
  <2>3. k # 1
    <3>1. ASSUME k = 1 PROVE Cover(k)
      <4>1. q[1] \in N
        BY <1>0
      <4>2. PICK r : IsPath(N, next, r) /\ Head(r) = q[1] /\ Last(r) = q[1]
        BY <1>a, <4>1
      <4>3. \A l \in 1 .. 1 : q[l] \in Range(r)
        BY <4>2, PathParts
      <4> QED
        BY <3>1, <4>2, <4>3
    <3> QED
      BY <2>2, <3>1
  <2> DEFINE m == k - 1
  <2>4. m \in 1 .. n - 1 /\ m \in 1 .. n /\ m + 1 = k /\ m \in Nat /\ ~(k <= m)
    BY <1>0, <2>2, <2>3
  <2> HIDE DEF m
  <2>5. Cover(m)
    <3>1. m \notin K
      <4> HIDE DEF K
      <4> QED
        BY <2>1, <2>4
    <3> HIDE DEF Cover
    <3> QED
      BY <2>4, <3>1
  <2>6. PICK r : /\ IsPath(N, next, r) /\ Head(r) = q[1] /\ Last(r) = q[m]
                 /\ \A l \in 1 .. m : q[l] \in Range(r)
    BY <2>5
  <2>7. PICK s : IsPath(N, next, s) /\ Head(s) = q[m] /\ Last(s) = q[k]
    BY <1>0, <1>1, <2>2, <2>4
  <2>8. PICK t : /\ IsPath(N, next, t) /\ Head(t) = Head(r) /\ Last(t) = Last(s)
                 /\ Range(t) = Range(r) \cup Range(s)
    BY <2>6, <2>7, PathExtend
  <2>9. q[k] \in Range(s)
    BY <2>7, PathParts
  <2>10. \A l \in 1 .. k : l \in 1 .. m \/ l = k
    BY <2>2, <2>4
  <2>11. Cover(k)
    BY <2>6, <2>7, <2>8, <2>9, <2>10
  <2> QED
    BY <2>2, <2>11
<1>3. Cover(n)
  <2>1. n \in 1 .. n /\ n \in Nat
    BY <1>0
  <2> HIDE DEF Cover
  <2> QED
    BY <1>2, <2>1
<1>4. PICK r : /\ IsPath(N, next, r) /\ Head(r) = q[1] /\ Last(r) = q[n]
               /\ \A l \in 1 .. n : q[l] \in Range(r)
  BY <1>3
<1>5. Range(q) \subseteq Range(r)
  BY <1>0, <1>4 DEF Range
<1> QED
  BY <1>0, <1>4, <1>5

\* The sum over two sets that have nothing in common.
LEMMA SumDisjoint ==
  ASSUME NEW A, IsFiniteSet(A), NEW B, IsFiniteSet(B), A \cap B = {},
         NEW f, \A x \in A \cup B : f[x] \in Int
  PROVE  SumFunctionOnSet(f, A \cup B) = SumFunctionOnSet(f, A) + SumFunctionOnSet(f, B)
<1> DEFINE Adds(U) == SumFunctionOnSet(f, A \cup U) = SumFunctionOnSet(f, A) + SumFunctionOnSet(f, U)
           C == {U \in SUBSET B : ~Adds(U)}
<1>0. C \in SUBSET SUBSET B
  OBVIOUS
<1>1. ASSUME C # {} PROVE FALSE
  <2>1. PICK U \in C : \A W \in SUBSET U : W # U => W \notin C
    <3> HIDE DEF C
    <3> QED
      BY <1>0, <1>1, SmallestSet
  <2>2. IsFiniteSet(U) /\ U \in SUBSET B
    BY FS_Subset
  <2>3. SumFunctionOnSet(f, A) \in Int
    BY SumInt
  <2>4. U # {}
    <3>1. SumFunctionOnSet(f, {}) = 0 /\ A \cup {} = A
      BY FS_EmptySet, SumUnfolds
    <3>2. Adds({})
      BY <2>3, <3>1
    <3> QED
      BY <2>1, <3>2
  <2>5. PICK a : a \in U
    BY <2>4
  <2> DEFINE W == U \ {a}
             V == A \cup W
  <2>6. IsFiniteSet(W) /\ W \in SUBSET B /\ Adds(W)
    BY <2>1, <2>2, <2>5, FS_Subset
  <2>7. /\ a \notin V /\ a \notin W /\ A \cup U = V \cup {a} /\ U = W \cup {a}
        /\ (\A x \in V \cup {a} : f[x] \in Int) /\ \A x \in W \cup {a} : f[x] \in Int
    BY <2>2, <2>5
  <2>8. IsFiniteSet(V)
    BY <2>6, FS_Union
  <2>9. SumFunctionOnSet(f, V) = SumFunctionOnSet(f, A) + SumFunctionOnSet(f, W)
    BY <2>6
  <2> HIDE DEF V, W
  <2>10. /\ SumFunctionOnSet(f, V \cup {a}) = f[a] + SumFunctionOnSet(f, V)
         /\ SumFunctionOnSet(f, W \cup {a}) = f[a] + SumFunctionOnSet(f, W)
    BY <2>6, <2>7, <2>8, SumAdd
  <2>11. SumFunctionOnSet(f, W) \in Int /\ f[a] \in Int
    BY <2>6, <2>7, SumInt
  <2>12. Adds(U)
    <3>1. /\ SumFunctionOnSet(f, A \cup U) = SumFunctionOnSet(f, V \cup {a})
          /\ SumFunctionOnSet(f, U) = SumFunctionOnSet(f, W \cup {a})
      BY <2>7
    <3> DEFINE sa == SumFunctionOnSet(f, A)
               sw == SumFunctionOnSet(f, W)
    <3>2. SumFunctionOnSet(f, A \cup U) = f[a] + (sa + sw) /\ SumFunctionOnSet(f, U) = f[a] + sw
      BY <2>9, <2>10, <3>1
    <3> HIDE DEF sa, sw
    <3>3. f[a] + (sa + sw) = sa + (f[a] + sw)
      BY <2>3, <2>11 DEF sa, sw
    <3> QED
      BY <3>2, <3>3 DEF sa
  <2> QED
    BY <2>1, <2>12
<1>2. B \in SUBSET B /\ B \notin C
  BY <1>1
<1> QED
  BY <1>2

\* A path backwards is a path of the edges backwards.
LEMMA PathReverse ==
  ASSUME NEW N, NEW next, NEW back, \A a, b \in N : b \in next[a] => a \in back[b],
         NEW p, IsPath(N, next, p)
  PROVE  \E r : IsPath(N, back, r) /\ Head(r) = Last(p) /\ Last(r) = Head(p) /\ Range(r) = Range(p)
<1> DEFINE n == Len(p)
           r == [i \in 1 .. n |-> p[(n - i) + 1]]
<1>1. /\ n \in Nat \ {0} /\ DOMAIN p = 1 .. n /\ Head(p) = p[1] /\ Last(p) = p[n]
      /\ (\A i \in 1 .. n : p[i] \in N) /\ (\A i, j \in 1 .. n : p[i] = p[j] => i = j)
      /\ \A i \in 1 .. n - 1 : p[i + 1] \in next[p[i]]
  BY PathParts DEF IsPath
<1> HIDE DEF n
<1>2. \A i \in 1 .. n : (n - i) + 1 \in 1 .. n
  BY <1>1
<1>3. r \in Seq(N) /\ Len(r) = n /\ DOMAIN r = 1 .. n /\ \A i \in 1 .. n : r[i] = p[(n - i) + 1]
  BY <1>1, <1>2
<1> HIDE DEF r
<1>4. ASSUME NEW i \in 1 .. n - 1 PROVE r[i + 1] \in back[r[i]]
  <2> DEFINE j == n - i
  <2>1. j \in 1 .. n - 1 /\ j \in 1 .. n /\ j + 1 \in 1 .. n /\ i \in 1 .. n /\ i + 1 \in 1 .. n
        /\ (n - i) + 1 = j + 1 /\ (n - (i + 1)) + 1 = j
    BY <1>1
  <2>2. r[i] = p[j + 1] /\ r[i + 1] = p[j]
    BY <1>3, <2>1
  <2> HIDE DEF j
  <2> QED
    BY <1>1, <2>1, <2>2
<1>5. IsInjective(r)
  <2> SUFFICES ASSUME NEW i \in 1 .. n, NEW j \in 1 .. n, r[i] = r[j] PROVE i = j
    BY <1>3 DEF IsInjective
  <2> DEFINE x == (n - i) + 1
             y == (n - j) + 1
  <2>1. x \in 1 .. n /\ y \in 1 .. n /\ p[x] = p[y]
    BY <1>2, <1>3
  <2>2. x = y
    <3> HIDE DEF x, y
    <3> QED
      BY <1>1, <2>1
  <2> QED
    BY <1>1, <2>2
<1>6. Head(r) = p[n] /\ Last(r) = p[1] /\ r # <<>>
  <2>1. r[1] = p[n] /\ r[n] = p[1] /\ r # <<>>
    BY <1>1, <1>3
  <2> QED
    BY <1>3, <2>1 DEF Last
<1>7. Range(r) = Range(p)
  <2>1. ASSUME NEW i \in 1 .. n PROVE p[i] \in Range(r)
    <3>1. (n - i) + 1 \in 1 .. n /\ (n - ((n - i) + 1)) + 1 = i
      BY <1>1
    <3>2. r[(n - i) + 1] = p[i]
      BY <1>3, <3>1
    <3> QED
      BY <1>3, <3>1, <3>2 DEF Range
  <2>2. ASSUME NEW i \in 1 .. n PROVE r[i] \in Range(p)
    BY <1>1, <1>2, <1>3 DEF Range
  <2> QED
    BY <1>1, <1>3, <2>1, <2>2 DEF Range
<1>8. IsPath(N, back, r)
  BY <1>3, <1>4, <1>5, <1>6 DEF IsPath
<1> QED
  BY <1>1, <1>6, <1>7, <1>8
=============================================================================
