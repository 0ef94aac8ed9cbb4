------------------------ MODULE ParallelBackendProofs ------------------------
(***************************************************************************)
(* Proofs about ParallelBackend, for any number of functions, workers and  *)
(* calls.                                                                  *)
(***************************************************************************)
EXTENDS ParallelBackend, FiniteSetTheorems, TLAPS

\* Where the dispatcher stands relative to the goroutines it started.
DispatchInv ==
  /\ started <= Len(bodies)
  /\ index <= started + 1
  /\ started <= index - 1 + lookahead
  /\ \A i \in Functions : job[i] = "none" <=> i > started
  /\ \A i \in Functions : i < index => job[i] = "closed"
  /\ pc = "await" => index <= started
  /\ pc = "returned" => index > Len(bodies) \/ (firstError # 0 /\ index > started)

\* What has been merged is what the serial compile of the same prefix merges.
MergeInv ==
  /\ merged = SerialPrefix(Len(merged))
  /\ Len(merged) <= Len(bodies)
  /\ \A j \in 1..Len(merged) : bodies[j] \notin Failing
  /\ firstError = 0 => Len(merged) = index - 1
  /\ firstError # 0 => /\ firstError = Len(merged) + 1
                       /\ firstError \in Functions
                       /\ bodies[firstError] \in Failing

\* A finished goroutine holds its own function's outcome, cached or compiled.
ResultInv ==
  \A i \in Functions :
    job[i] \in {"finished", "released", "closed"} =>
      result[i] = IF bodies[i] \in Failing THEN Error ELSE CodeOf(bodies[i], opts)

\* The cache holds code of bodies that compile, made outside PIC.
CacheInv ==
  /\ \A b \in Bodies : cache[b] # NoCode =>
       /\ b \notin Failing
       /\ \E o \in Options : ~o.pic /\ cache[b] = CodeOf(b, o)
  /\ \A i \in Functions : keyed[i] => ~opts.pic

\* The slots channel holds one token per goroutine between Acquire and Release.
SlotInv ==
  /\ IsFiniteSet(Holding)
  /\ slots = Cardinality(Holding)
  /\ slots <= workers

\* What these rest on together.  None of them is inductive alone: the merge is
\* right because the results are, a result because the cache is, and Return is
\* right because of where the dispatcher stands.
IInv == TypeOK /\ DispatchInv /\ MergeInv /\ ResultInv /\ CacheInv /\ SlotInv
-----------------------------------------------------------------------------
\* Init establishes every part of the inductive invariant.
LEMMA InitIInv == Init => IInv
<1> SUFFICES ASSUME Init PROVE IInv
  OBVIOUS
<1> USE WorkersAssumption DEF Init, Functions
<1>1. TypeOK
  <2>1. bodies \in Seq(Bodies) /\ merged \in Seq(Codes)
    OBVIOUS
  <2>2. /\ job \in [Functions -> {"none", "spawned", "slot", "missed", "finished", "released", "closed"}]
        /\ result \in [Functions -> Codes \cup {NoCode, Error}]
        /\ cache \in [Bodies -> Codes \cup {NoCode}]
    OBVIOUS
  <2>3. keyed \in [Functions -> BOOLEAN]
    OBVIOUS
  <2>4. /\ opts \in Options /\ workers \in Nat \ {0} /\ calls \in Nat
        /\ pc \in {"dispatch", "await", "returned"}
        /\ index \in Nat \ {0} /\ started \in Nat /\ firstError \in Nat
        /\ slots \in Nat
    OBVIOUS
  <2>5. installed \in BOOLEAN
    OBVIOUS
  <2> HIDE DEF Init
  <2> QED
    BY <2>1, <2>2, <2>3, <2>4, <2>5 DEF TypeOK
<1>2. DispatchInv
  BY DEF DispatchInv, lookahead
<1>3. MergeInv
  BY DEF MergeInv, SerialPrefix
<1>4. ResultInv /\ CacheInv
  BY DEF ResultInv, CacheInv
<1>5. SlotInv
  <2>1. Holding = {}
    BY DEF Holding
  <2> QED
    BY <2>1, FS_EmptySet DEF SlotInv
<1> QED
  BY <1>1, <1>2, <1>3, <1>4, <1>5 DEF IInv

\* Every step keeps the types: a slot is given back only by one that holds it,
\* and only code is merged.
LEMMA TypeStep == IInv /\ [Next]_vars => TypeOK'
<1> SUFFICES ASSUME IInv, [Next]_vars PROVE TypeOK'
  OBVIOUS
<1> USE ModulesAssumption, WorkersAssumption, MaxCallsAssumption
    DEF IInv, TypeOK, Functions, callVars, loopVars, cacheVars
<1>1. ASSUME NEW m \in Modules, NEW o \in Options, NEW w \in WorkerCounts, Call(m, o, w)
      PROVE  TypeOK'
  BY <1>1 DEF Call
<1>2. CASE Start
  <2>1. job' \in [Functions -> {"none", "spawned", "slot", "missed", "finished", "released", "closed"}]
    BY <1>2 DEF Start
  <2> QED
    BY <1>2, <2>1 DEF Start
<1>3. CASE BeginAwait
  BY <1>3 DEF BeginAwait
<1>4. CASE Return
  BY <1>4 DEF Return
<1>5. CASE Await
  <2>1. index \in Functions /\ result[index] \in Codes \cup {Error}
    BY <1>5 DEF Await, DispatchInv, ResultInv, CodeOf, Codes
  <2>2. merged' \in Seq(Codes)
    <3>1. CASE merged' = Append(merged, result[index]) /\ result[index] # Error
      BY <2>1, <3>1
    <3>2. CASE merged' = merged
      BY <3>2
    <3> QED
      BY <1>5, <3>1, <3>2 DEF Await
  <2>3. firstError' \in Nat /\ index' \in Nat \ {0} /\ pc' = "dispatch"
    BY <1>5 DEF Await
  <2> QED
    BY <1>5, <2>2, <2>3 DEF Await
<1>6. ASSUME NEW i \in Functions, Goroutine(i)
      PROVE  TypeOK'
  <2>1. CASE Acquire(i)
    BY <2>1 DEF Acquire
  <2>2. CASE Hit(i)
    BY <2>2 DEF Hit
  <2>3. CASE Miss(i)
    BY <2>3 DEF Miss, Consults
  <2>4. CASE Compile(i)
    <3>1. CodeOf(bodies[i], opts) \in Codes
      BY DEF CodeOf, Codes
    <3>2. result' \in [Functions -> Codes \cup {NoCode, Error}]
      BY <2>4, <3>1 DEF Compile
    <3>3. cache' \in [Bodies -> Codes \cup {NoCode}]
      BY <2>4, <3>1 DEF Compile
    <3>4. job' \in [Functions -> {"none", "spawned", "slot", "missed", "finished", "released", "closed"}]
      BY <2>4 DEF Compile
    <3> QED
      BY <2>4, <3>2, <3>3, <3>4 DEF Compile
  <2>5. CASE Release(i)
    <3>1. Holding # {}
      BY <2>5 DEF Release, Holding
    <3>2. slots \in Nat \ {0}
      BY <3>1, FS_EmptySet, FS_CardinalityType DEF SlotInv
    <3> QED
      BY <2>5, <3>2 DEF Release
  <2>6. CASE Close(i)
    BY <2>6 DEF Close
  <2> QED
    BY <1>6, <2>1, <2>2, <2>3, <2>4, <2>5, <2>6 DEF Goroutine
<1>7. CASE Install
  BY <1>7 DEF Install
<1>8. CASE Remove
  BY <1>8 DEF Remove
<1>9. CASE UNCHANGED vars
  BY <1>9 DEF vars
<1> QED
  BY <1>1, <1>2, <1>3, <1>4, <1>5, <1>6, <1>7, <1>8, <1>9 DEF Next, Dispatcher

\* The dispatcher is never more than the look-ahead past the merge, and never
\* merges past what it started.
LEMMA DispatchStep == IInv /\ [Next]_vars => DispatchInv'
<1> SUFFICES ASSUME IInv, [Next]_vars PROVE DispatchInv'
  OBVIOUS
<1> USE ModulesAssumption, WorkersAssumption
    DEF IInv, TypeOK, DispatchInv, Functions, lookahead, callVars, loopVars, cacheVars
<1>1. ASSUME NEW m \in Modules, NEW o \in Options, NEW w \in WorkerCounts, Call(m, o, w)
      PROVE  DispatchInv'
  <2>1. Len(m) \in Nat /\ w \in Nat
    OBVIOUS
  <2> QED
    BY <1>1, <2>1 DEF Call
<1>2. CASE Start
  BY <1>2 DEF Start, MayStart
<1>3. CASE BeginAwait
  BY <1>3 DEF BeginAwait
<1>4. CASE Return
  BY <1>4 DEF Return, MayStart
<1>5. CASE Await
  BY <1>5 DEF Await
<1>6. ASSUME NEW i \in Functions, Goroutine(i)
      PROVE  DispatchInv'
  <2>1. /\ UNCHANGED <<callVars, loopVars>>
        /\ job[i] \notin {"none", "closed"}
        /\ \E s \in {"slot", "missed", "finished", "released", "closed"} :
              job' = [job EXCEPT ![i] = s]
    BY <1>6 DEF Goroutine, Acquire, Hit, Miss, Compile, Release, Close
  <2> QED
    BY <2>1
<1>7. CASE Install \/ Remove \/ UNCHANGED vars
  BY <1>7 DEF Install, Remove, vars
<1> QED
  BY <1>1, <1>2, <1>3, <1>4, <1>5, <1>6, <1>7 DEF Next, Dispatcher

\* Awaiting the job of the next function merges its own code, or records its own
\* failure, which is then the first in function order.
LEMMA MergeStep == IInv /\ [Next]_vars => MergeInv'
<1> SUFFICES ASSUME IInv, [Next]_vars PROVE MergeInv'
  OBVIOUS
<1> USE ModulesAssumption
    DEF IInv, TypeOK, MergeInv, SerialPrefix, Functions, callVars, loopVars, cacheVars
<1>1. ASSUME NEW m \in Modules, NEW o \in Options, NEW w \in WorkerCounts, Call(m, o, w)
      PROVE  MergeInv'
  <2>1. Len(m) \in Nat
    OBVIOUS
  <2> QED
    BY <1>1, <2>1 DEF Call
<1>2. CASE Start \/ BeginAwait \/ Return
  BY <1>2 DEF Start, BeginAwait, Return
<1>3. CASE Await
  <2>1. /\ index \in Functions
        /\ result[index] = IF bodies[index] \in Failing THEN Error ELSE CodeOf(bodies[index], opts)
    BY <1>3 DEF Await, DispatchInv, ResultInv
  <2>2. CASE firstError # 0
    BY <1>3, <2>2 DEF Await
  <2>3. CASE firstError = 0 /\ bodies[index] \in Failing
    <3>1. /\ firstError' = index /\ index = Len(merged) + 1
          /\ UNCHANGED <<bodies, opts, merged>>
      BY <1>3, <2>1, <2>3 DEF Await
    <3> QED
      BY <2>1, <2>3, <3>1
  <2>4. CASE firstError = 0 /\ bodies[index] \notin Failing
    <3>1. result[index] # Error
      BY <2>1, <2>4, MarkersAssumption DEF CodeOf
    <3>2. merged' = Append(merged, CodeOf(bodies[index], opts)) /\ index = Len(merged) + 1
      BY <1>3, <2>1, <2>4, <3>1 DEF Await
    <3>3. merged' = SerialPrefix(Len(merged) + 1)
      BY <3>2
    <3>4. UNCHANGED <<bodies, opts, firstError>> /\ index' = index + 1
      BY <1>3, <2>4, <3>1 DEF Await
    <3> QED
      BY <2>1, <2>4, <3>2, <3>3, <3>4
  <2> QED
    BY <2>2, <2>3, <2>4
<1>4. ASSUME NEW i \in Functions, Goroutine(i)
      PROVE  MergeInv'
  BY <1>4 DEF Goroutine, Acquire, Hit, Miss, Compile, Release, Close
<1>5. CASE Install \/ Remove \/ UNCHANGED vars
  BY <1>5 DEF Install, Remove, vars
<1> QED
  BY <1>1, <1>2, <1>3, <1>4, <1>5 DEF Next, Dispatcher

\* Under one configuration, a goroutine finishes with its own function's outcome:
\* what it compiled, or what some other call compiled from the same body.
LEMMA ResultStep ==
  ASSUME OneConfiguration PROVE IInv /\ [Next]_vars => ResultInv'
<1> SUFFICES ASSUME IInv, [Next]_vars PROVE ResultInv'
  OBVIOUS
<1> USE ModulesAssumption
    DEF IInv, TypeOK, ResultInv, Functions, callVars, loopVars, cacheVars
<1>1. ASSUME NEW m \in Modules, NEW o \in Options, NEW w \in WorkerCounts, Call(m, o, w)
      PROVE  ResultInv'
  BY <1>1 DEF Call
<1>2. CASE Start
  BY <1>2 DEF Start
<1>3. CASE BeginAwait \/ Return \/ Await
  BY <1>3 DEF BeginAwait, Return, Await
<1>4. ASSUME NEW i \in Functions, Goroutine(i)
      PROVE  ResultInv'
  <2>1. CASE Acquire(i)
    BY <2>1 DEF Acquire
  <2>2. CASE Hit(i)
    <3>1. bodies[i] \notin Failing /\ cache[bodies[i]] = CodeOf(bodies[i], opts)
      BY <2>2, OneConfiguration DEF Hit, Consults, CacheInv, OneConfiguration
    <3> QED
      BY <2>2, <3>1 DEF Hit
  <2>3. CASE Miss(i)
    BY <2>3 DEF Miss
  <2>4. CASE Compile(i)
    BY <2>4 DEF Compile
  <2>5. CASE Release(i)
    BY <2>5 DEF Release
  <2>6. CASE Close(i)
    BY <2>6 DEF Close
  <2> QED
    BY <1>4, <2>1, <2>2, <2>3, <2>4, <2>5, <2>6 DEF Goroutine
<1>5. CASE Install \/ Remove \/ UNCHANGED vars
  BY <1>5 DEF Install, Remove, vars
<1> QED
  BY <1>1, <1>2, <1>3, <1>4, <1>5 DEF Next, Dispatcher

\* Only a keyed goroutine of a call outside PIC files anything.
LEMMA CacheStep == IInv /\ [Next]_vars => CacheInv'
<1> SUFFICES ASSUME IInv, [Next]_vars PROVE CacheInv'
  OBVIOUS
<1> USE ModulesAssumption
    DEF IInv, TypeOK, CacheInv, Functions, callVars, loopVars, cacheVars
<1>1. ASSUME NEW m \in Modules, NEW o \in Options, NEW w \in WorkerCounts, Call(m, o, w)
      PROVE  CacheInv'
  BY <1>1 DEF Call
<1>2. CASE Start \/ BeginAwait \/ Return \/ Await
  BY <1>2 DEF Start, BeginAwait, Return, Await
<1>3. ASSUME NEW i \in Functions, Goroutine(i)
      PROVE  CacheInv'
  <2>1. CASE Acquire(i) \/ Hit(i) \/ Release(i) \/ Close(i)
    BY <2>1 DEF Acquire, Hit, Release, Close
  <2>2. CASE Miss(i)
    BY <2>2 DEF Miss, Consults
  <2>3. CASE Compile(i)
    BY <2>3 DEF Compile
  <2> QED
    BY <1>3, <2>1, <2>2, <2>3 DEF Goroutine
<1>4. CASE Install \/ Remove \/ UNCHANGED vars
  BY <1>4 DEF Install, Remove, vars
<1> QED
  BY <1>1, <1>2, <1>3, <1>4 DEF Next, Dispatcher

\* Acquire adds one holder and one token, Release takes one of each, and nothing
\* else moves a goroutine into or out of Holding.
LEMMA SlotStep == IInv /\ [Next]_vars => SlotInv'
<1> SUFFICES ASSUME IInv, [Next]_vars PROVE SlotInv'
  OBVIOUS
<1> USE ModulesAssumption, WorkersAssumption
    DEF IInv, TypeOK, SlotInv, Functions, callVars, loopVars, cacheVars
<1>1. ASSUME NEW m \in Modules, NEW o \in Options, NEW w \in WorkerCounts, Call(m, o, w)
      PROVE  SlotInv'
  <2>1. Holding' = {} /\ slots' = 0 /\ workers' \in Nat
    BY <1>1 DEF Call, Holding
  <2> QED
    BY <2>1, FS_EmptySet
<1>2. CASE Start \/ BeginAwait \/ Return \/ Await
  <2>1. ASSUME Start PROVE Holding' = Holding /\ UNCHANGED <<slots, workers>>
    <3>1. started + 1 \in Functions /\ job[started + 1] = "none"
      BY <2>1 DEF Start, MayStart, DispatchInv
    <3> QED
      BY <2>1, <3>1 DEF Start, Holding
  <2>2. ASSUME BeginAwait \/ Return \/ Await PROVE Holding' = Holding /\ UNCHANGED <<slots, workers>>
    BY <2>2 DEF BeginAwait, Return, Await, Holding
  <2> QED
    BY <1>2, <2>1, <2>2
<1>3. ASSUME NEW i \in Functions, Goroutine(i)
      PROVE  SlotInv'
  <2>1. CASE Acquire(i)
    <3>1. Holding' = Holding \cup {i} /\ i \notin Holding
      BY <2>1 DEF Acquire, Holding
    <3> QED
      BY <2>1, <3>1, FS_AddElement DEF Acquire
  <2>2. CASE Hit(i) \/ Miss(i) \/ Compile(i) \/ Close(i)
    <3>1. Holding' = Holding /\ UNCHANGED <<slots, workers>>
      BY <2>2 DEF Hit, Miss, Compile, Close, Holding
    <3> QED
      BY <3>1
  <2>3. CASE Release(i)
    <3>1. Holding' = Holding \ {i} /\ i \in Holding
      BY <2>3 DEF Release, Holding
    <3>2. IsFiniteSet(Holding') /\ Cardinality(Holding') = Cardinality(Holding) - 1
      BY <3>1, FS_RemoveElement
    <3> QED
      BY <2>3, <3>2 DEF Release
  <2> QED
    BY <1>3, <2>1, <2>2, <2>3 DEF Goroutine
<1>4. CASE Install \/ Remove \/ UNCHANGED vars
  <2>1. Holding' = Holding /\ UNCHANGED <<slots, workers>>
    BY <1>4 DEF Install, Remove, vars, Holding
  <2> QED
    BY <2>1
<1> QED
  BY <1>1, <1>2, <1>3, <1>4 DEF Next, Dispatcher
-----------------------------------------------------------------------------
\* Under one configuration, the inductive invariant holds throughout.
THEOREM Invariance == ASSUME OneConfiguration PROVE SafeSpec => []IInv
<1>1. IInv /\ [Next]_vars => IInv'
  BY TypeStep, DispatchStep, MergeStep, ResultStep, CacheStep, SlotStep DEF IInv
<1> QED
  BY InitIInv, <1>1, PTL DEF SafeSpec

\* The variables of the parallel back end keep their types.
THEOREM TypeCorrect == ASSUME OneConfiguration PROVE SafeSpec => []TypeOK
BY Invariance, PTL DEF IInv

\* A call returns the serial compile's error and has merged the serial prefix,
\* for any module, any number of workers and any content of the cache.
THEOREM ReturnsSerialAnswer == ASSUME OneConfiguration PROVE SafeSpec => []AnswersAsSerial
<1>1. IInv => AnswersAsSerial
  <2> SUFFICES ASSUME IInv, pc = "returned"
               PROVE  LET ok == IF firstError = 0 THEN Len(bodies) ELSE firstError - 1
                      IN  /\ merged = SerialPrefix(ok)
                          /\ \A j \in 1..ok : bodies[j] \notin Failing
                          /\ firstError # 0 => firstError \in Functions /\ bodies[firstError] \in Failing
    BY DEF AnswersAsSerial
  <2>1. Len(merged) = IF firstError = 0 THEN Len(bodies) ELSE firstError - 1
    BY DEF IInv, TypeOK, DispatchInv, MergeInv
  <2> QED
    BY <2>1 DEF IInv, MergeInv
<1> QED
  BY Invariance, <1>1, PTL

\* No goroutine of a call outlives it.
THEOREM Drains == ASSUME OneConfiguration PROVE SafeSpec => []DrainedAtReturn
<1>1. IInv => DrainedAtReturn
  <2> SUFFICES ASSUME IInv, pc = "returned"
               PROVE  (\A i \in Functions : job[i] \in {"none", "closed"}) /\ slots = 0
    BY DEF DrainedAtReturn
  <2>1. \A i \in Functions : job[i] \in {"none", "closed"}
    BY DEF IInv, TypeOK, DispatchInv, Functions
  <2>2. Holding = {}
    BY <2>1 DEF Holding
  <2> QED
    BY <2>1, <2>2, FS_EmptySet DEF IInv, SlotInv
<1> QED
  BY Invariance, <1>1, PTL

\* The number of concurrent compiles never exceeds the worker count.
THEOREM WorkersStayBounded == ASSUME OneConfiguration PROVE SafeSpec => []WorkersBounded
<1>1. IInv => WorkersBounded
  BY DEF IInv, SlotInv, WorkersBounded
<1> QED
  BY Invariance, <1>1, PTL

\* The number of jobs the merge has not reached never exceeds the lookahead,
\* twice the worker count.
THEOREM LookaheadStaysBounded == ASSUME OneConfiguration PROVE SafeSpec => []LookaheadBounded
<1>1. IInv => LookaheadBounded
  <2> SUFFICES ASSUME IInv
               PROVE  Cardinality({i \in Functions : i >= index /\ job[i] # "none"}) <= lookahead
    BY DEF LookaheadBounded
  <2>1. {i \in Functions : i >= index /\ job[i] # "none"} = index..started
    BY DEF IInv, TypeOK, DispatchInv, Functions
  <2>2. Cardinality(index..started) = IF index > started THEN 0 ELSE started - index + 1
    BY FS_Interval DEF IInv, TypeOK
  <2>3. started <= index - 1 + lookahead /\ lookahead \in Nat /\ index \in Nat /\ started \in Nat
    BY DEF IInv, TypeOK, DispatchInv, lookahead
  <2> HIDE DEF lookahead
  <2>4. Cardinality(index..started) <= lookahead
    BY <2>2, <2>3
  <2> QED
    BY <2>1, <2>4
<1> QED
  BY Invariance, <1>1, PTL

\* What the cache holds is what a call under the current options would compile.
THEOREM CacheSound == ASSUME OneConfiguration PROVE SafeSpec => []CacheIsSubstitute
<1>1. IInv => CacheIsSubstitute
  BY OneConfiguration DEF IInv, CacheInv, CacheIsSubstitute, OneConfiguration
<1> QED
  BY Invariance, <1>1, PTL

\* The dispatcher, its goroutines and the cache implement the serial back end:
\* merges and failures are its steps, everything else stutters.
THEOREM Refinement == ASSUME OneConfiguration PROVE SafeSpec => Serial!SafeSpec
<1> USE DEF Serial!serialVars, callVars, loopVars, cacheVars
<1>1. Init => Serial!Init
  BY DEF Init, Serial!Init
<1>2. IInv /\ [Next]_vars => [Serial!Next]_Serial!serialVars
  <2> SUFFICES ASSUME IInv, [Next]_vars
               PROVE  Serial!Next \/ UNCHANGED Serial!serialVars
    OBVIOUS
  <2>1. ASSUME NEW m \in Modules, NEW o \in Options, NEW w \in WorkerCounts, Call(m, o, w)
        PROVE  Serial!Next
    BY <2>1 DEF Call, Serial!Call, Serial!Next
  <2>2. CASE Start \/ BeginAwait
    BY <2>2 DEF Start, BeginAwait
  <2>3. CASE Return
    <3>1. firstError # 0 \/ Len(merged) = Len(bodies)
      BY <2>3 DEF Return, MayStart, IInv, TypeOK, DispatchInv, MergeInv, lookahead
    <3> QED
      BY <2>3, <3>1 DEF Return, Serial!Return, Serial!Next
  <2>4. CASE Await
    <3>1. /\ index \in Functions
          /\ result[index] = IF bodies[index] \in Failing THEN Error ELSE CodeOf(bodies[index], opts)
          /\ firstError = 0 => index = Len(merged) + 1 /\ Len(merged) < Len(bodies)
      BY <2>4 DEF Await, IInv, TypeOK, DispatchInv, ResultInv, MergeInv, Functions
    <3>2. CASE firstError # 0
      BY <2>4, <3>2 DEF Await
    <3>3. CASE firstError = 0 /\ bodies[index] \in Failing
      <4>1. Serial!FailNext
        BY <2>4, <3>1, <3>3 DEF Await, Serial!FailNext, Serial!Next1
      <4> QED
        BY <4>1 DEF Serial!Next
    <3>4. CASE firstError = 0 /\ bodies[index] \notin Failing
      <4>1. result[index] # Error
        BY <3>1, <3>4, MarkersAssumption DEF CodeOf, IInv, TypeOK, Functions
      <4>2. Serial!MergeNext
        BY <2>4, <3>1, <3>4, <4>1 DEF Await, Serial!MergeNext, Serial!Next1, CodeOf, Serial!CodeOf
      <4> QED
        BY <4>2 DEF Serial!Next
    <3> QED
      BY <3>2, <3>3, <3>4
  <2>5. ASSUME NEW i \in Functions, Goroutine(i)
        PROVE  UNCHANGED Serial!serialVars
    BY <2>5 DEF Goroutine, Acquire, Hit, Miss, Compile, Release, Close
  <2>6. CASE Install \/ Remove \/ UNCHANGED vars
    BY <2>6 DEF Install, Remove, vars
  <2> QED
    BY <2>1, <2>2, <2>3, <2>4, <2>5, <2>6 DEF Next, Dispatcher
<1> QED
  BY Invariance, <1>1, <1>2, PTL DEF SafeSpec, Serial!SafeSpec
=============================================================================
