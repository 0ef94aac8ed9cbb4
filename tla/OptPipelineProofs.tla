-------------------------- MODULE OptPipelineProofs --------------------------
(***************************************************************************)
(* Proofs about OptPipeline, for every pipeline, module and set of passes: *)
(* a settled visit is a visit that would change nothing, so the tracked    *)
(* pipeline takes only steps of the plain one; and frozen bodies stay.     *)
(***************************************************************************)
EXTENDS OptPipeline, SequenceTheorems, TLAPS

\* The part of the types the argument needs.
LogTypes ==
  /\ bodies \in [FuncSet -> Bodies]
  /\ live \subseteq FuncSet /\ frozen \subseteq Freezable
  /\ threads \in [FuncSet -> Nat]
  /\ base \in [FuncSet -> Bodies \cup {Unseen}]
  /\ moved \in BOOLEAN
  /\ version \in [FuncSet -> Nat]
  /\ converged \in [Passes -> [FuncSet -> Nat \cup {Never}]]

StackTypes == stack \in Seq(Frames) /\ stack # <<>>

\* No pass has converged on a version that has yet to come.
NotAhead ==
  \A p \in Passes, f \in FuncSet : converged[p][f] # Never => converged[p][f] <= version[f]

\* SettledIsSound function by function: the exception is for the functions an
\* unrolling in progress may have rewritten, all of which it is about to mark.
Sound ==
  \A p \in Passes, f \in FuncSet :
    f \notin frozen /\ Kind[p] = "func" /\ Settled(p, f) =>
      Rewritten(p, f) = bodies[f] \/ (MarksAtEnd /\ moved /\ f \in live)

LogInv == LogTypes /\ StackTypes /\ NotAhead /\ Sound
-----------------------------------------------------------------------------
\* A frame that moves on is a frame, and Report changes the last one only.
LEMMA ReportType ==
  ASSUME NEW s \in Seq(Frames), s # <<>>, NEW changed \in BOOLEAN
  PROVE  Report(s, changed) \in Seq(Frames) /\ Report(s, changed) # <<>>
<1> DEFINE old == s[Len(s)]
           top == [passes |-> old.passes, at |-> old.at + 1,
                   round |-> old.round \/ changed, any |-> old.any]
<1>1. Len(s) \in 1..Len(s) /\ s[Len(s)] \in Frames
  OBVIOUS
<1>2. top \in Frames
  BY <1>1 DEF Frames
<1>3. Report(s, changed) = [s EXCEPT ![Len(s)] = top]
  BY DEF Report
<1> QED
  BY <1>1, <1>2, <1>3

\* The pass a frame is at is a pass of the pipeline.
LEMMA CurrentType ==
  ASSUME StackTypes
  PROVE  Top \in Frames /\ (InPass => Current \in Passes)
<1>1. Top \in Frames
  BY DEF StackTypes, Top
<1>2. InPass => Current \in Passes
  BY <1>1 DEF InPass, Current, Frames
<1> QED
  BY <1>1, <1>2

\* Every step keeps the stack a stack of frames.
LEMMA StackStep ==
  ASSUME StackTypes, moved \in BOOLEAN,
         EndPass \/ EnterFixpoint \/ EndRound \/ UNCHANGED stack
  PROVE  StackTypes'
<1>1. CASE EndPass
  BY <1>1, ReportType DEF EndPass, StackTypes
<1>2. CASE EnterFixpoint
  <2>1. Current \in Passes
    BY <1>2, CurrentType DEF EnterFixpoint, Running
  <2>2. Frame(Members[Current], FALSE) \in Frames
    BY <2>1, PipelineAssumption DEF Frame, Frames
  <2>3. stack' = Append(stack, Frame(Members[Current], FALSE))
    BY <1>2 DEF EnterFixpoint
  <2>4. stack \in Seq(Frames)
    BY DEF StackTypes
  <2>5. stack' \in Seq(Frames) /\ Len(stack') = Len(stack) + 1
    BY <2>2, <2>3, <2>4, AppendProperties
  <2> QED
    BY <2>4, <2>5 DEF StackTypes
<1>3. CASE EndRound
  <2>1. Top \in Frames /\ Len(stack) > 1 /\ Top.any \in BOOLEAN
    BY <1>3, CurrentType DEF EndRound, Frames
  <2>2. CASE Top.round
    <3> DEFINE again == Frame(Top.passes, TRUE)
    <3>1. again \in Frames
      BY <2>1 DEF Frame, Frames
    <3>2. stack' = [stack EXCEPT ![Len(stack)] = again]
      BY <1>3, <2>2 DEF EndRound
    <3>3. stack \in Seq(Frames) /\ Len(stack) \in 1..Len(stack)
      BY <2>1 DEF StackTypes
    <3> HIDE DEF again
    <3>4. /\ [stack EXCEPT ![Len(stack)] = again] \in Seq(Frames)
          /\ Len([stack EXCEPT ![Len(stack)] = again]) = Len(stack)
      BY <3>1, <3>3, ExceptSeq
    <3>5. stack' \in Seq(Frames) /\ Len(stack') = Len(stack)
      BY <3>2, <3>4
    <3> QED
      BY <3>3, <3>5 DEF StackTypes
  <2>3. CASE ~Top.round
    <3> DEFINE below == SubSeq(stack, 1, Len(stack) - 1)
    <3>1. below \in Seq(Frames) /\ below # <<>>
      <4>1. stack \in Seq(Frames) /\ Len(stack) - 1 \in 1..Len(stack)
        BY <2>1 DEF StackTypes
      <4>2. below \in Seq(Frames) /\ Len(below) = Len(stack) - 1
        BY <4>1, SubSeqProperties
      <4> HIDE DEF below
      <4>3. Len(below) # 0
        BY <2>1, <4>2 DEF StackTypes
      <4> QED
        BY <4>2, <4>3
    <3>2. stack' = Report(below, Top.any)
      BY <1>3, <2>3 DEF EndRound
    <3> QED
      BY <2>1, <3>1, <3>2, ReportType DEF StackTypes
  <2> QED
    BY <2>2, <2>3
<1>4. CASE UNCHANGED stack
  BY <1>4 DEF StackTypes
<1> QED
  BY <1>1, <1>2, <1>3, <1>4

\* What a pass makes of a body is a body.
LEMMA OutcomeTypes ==
  ASSUME LogTypes, StackTypes, NEW f \in FuncSet
  PROVE  /\ \A p \in Passes : Rewritten(p, f) \in Bodies
         /\ Inlined(f) \in Bodies /\ Base(f) \in Bodies
         /\ UnrollInto(f, bodies) \in Bodies
         /\ InlineIntoNoSplitCaller(f, bodies) \in Bodies
<1>1. bodies[f] \in Bodies
  BY DEF LogTypes
<1>2. \A p \in Passes : Rewritten(p, f) \in Bodies
  BY <1>1, PassAssumption DEF Rewritten
<1>3. Base(f) \in Bodies
  BY <1>1 DEF Base, LogTypes
<1>4. Inlined(f) \in Bodies
  BY <1>1, <1>3, PassAssumption DEF Inlined, LogTypes
<1> QED
  BY <1>2, <1>3, <1>4, PassAssumption DEF LogTypes
-----------------------------------------------------------------------------
\* The empty log is sound.
LEMMA LogInit == TrackedInit => LogInv
<1> SUFFICES ASSUME TrackedInit PROVE LogInv
  OBVIOUS
<1> USE PipelineAssumption DEF TrackedInit, Init
<1>1. LogTypes
  BY DEF LogTypes
<1>2. StackTypes
  BY DEF StackTypes, Frame, Frames
<1>3. NotAhead /\ Sound
  BY DEF NotAhead, Sound, Settled
<1> QED
  BY <1>1, <1>2, <1>3 DEF LogInv

\* A visit that changes f and counts the change, or changes nothing, and files no
\* new convergence, keeps the log sound.
LEMMA CountedVisit ==
  ASSUME LogInv, NEW f \in FuncSet, NEW b \in Bodies, Visit(f, b),
         ~MarksAtEnd,
         threads' \in [FuncSet -> Nat], \A g \in FuncSet \ {f} : threads'[g] = threads[g],
         b = bodies[f] => threads' = threads,
         base' \in [FuncSet -> Bodies \cup {Unseen}],
         version' = IF b # bodies[f] THEN [version EXCEPT ![f] = @ + 1] ELSE version,
         UNCHANGED converged
  PROVE  LogInv'
<1>1. /\ bodies' = [bodies EXCEPT ![f] = b] /\ moved' \in BOOLEAN
      /\ UNCHANGED <<live, frozen, stack>>
  BY DEF Visit, LogInv, LogTypes
<1>2. LogTypes'
  BY <1>1 DEF LogInv, LogTypes
<1>3. StackTypes'
  BY <1>1 DEF LogInv, StackTypes
<1>4. NotAhead'
  BY <1>2 DEF LogInv, LogTypes, NotAhead
<1>5. Sound'
  <2> SUFFICES ASSUME NEW p \in Passes, NEW g \in FuncSet,
                      g \notin frozen, Kind[p] = "func", Settled(p, g)'
               PROVE  Rewritten(p, g)' = bodies'[g]
    BY <1>1 DEF Sound
  <2>1. CASE g = f /\ b # bodies[f]
    <3>1. converged[p][f] # Never /\ converged[p][f] = version[f] + 1
      BY <2>1 DEF Settled, LogInv, LogTypes
    <3>2. converged[p][f] <= version[f] /\ version[f] \in Nat
      BY <3>1 DEF LogInv, LogTypes, NotAhead
    <3> QED
      BY <3>1, <3>2
  <2>2. CASE g # f \/ b = bodies[f]
    <3>1. version'[g] = version[g] /\ bodies'[g] = bodies[g] /\ threads'[g] = threads[g]
      BY <1>1, <2>2 DEF LogInv, LogTypes
    <3>2. Rewritten(p, g) = bodies[g]
      BY <3>1 DEF LogInv, Sound, Settled
    <3> QED
      BY <3>1, <3>2 DEF Rewritten
  <2> QED
    BY <2>1, <2>2
<1> QED
  BY <1>2, <1>3, <1>4, <1>5 DEF LogInv

\* A visit by a pass that marks only when it ends keeps the log sound: what it
\* changes is covered by the exception.
LEMMA UnmarkedVisit ==
  ASSUME LogInv, NEW f \in FuncSet, NEW b \in Bodies, Visit(f, b),
         MarksAtEnd, b # bodies[f] => f \in live,
         UNCHANGED <<threads, base, version, converged>>
  PROVE  LogInv'
<1>1. /\ bodies' = [bodies EXCEPT ![f] = b] /\ moved' = (moved \/ b # bodies[f])
      /\ UNCHANGED <<live, frozen, stack>>
  BY DEF Visit
<1>2. LogTypes' /\ StackTypes' /\ NotAhead'
  BY <1>1 DEF LogInv, LogTypes, StackTypes, NotAhead
<1>3. MarksAtEnd'
  BY <1>1 DEF MarksAtEnd, Running, InPass, Current, Top
<1>4. Sound'
  <2> SUFFICES ASSUME NEW p \in Passes, NEW g \in FuncSet,
                      g \notin frozen, Kind[p] = "func", Settled(p, g)'
               PROVE  Rewritten(p, g)' = bodies'[g] \/ (moved' /\ g \in live)
    BY <1>1, <1>3 DEF Sound
  <2>1. Settled(p, g)
    BY DEF Settled
  <2>2. CASE g = f /\ b # bodies[f]
    BY <1>1, <2>2 DEF LogInv, LogTypes
  <2>3. CASE g # f \/ b = bodies[f]
    <3>1. bodies'[g] = bodies[g] /\ threads'[g] = threads[g]
      BY <1>1, <2>3 DEF LogInv, LogTypes
    <3>2. Rewritten(p, g) = bodies[g] \/ (moved /\ g \in live)
      BY <2>1 DEF LogInv, Sound
    <3> QED
      BY <1>1, <3>1, <3>2 DEF Rewritten, LogInv, LogTypes
  <2> QED
    BY <2>2, <2>3
<1> QED
  BY <1>2, <1>4 DEF LogInv

\* A step that changes no body, no budget and nothing in the log, from a state in
\* which no pass is yet to mark what it moved.
LEMMA QuietStep ==
  ASSUME LogInv, ~MarksAtEnd, StackTypes', moved' \in BOOLEAN,
         live' \subseteq FuncSet,
         UNCHANGED <<bodies, frozen, threads, base, version, converged>>
  PROVE  LogInv'
<1>1. LogTypes' /\ NotAhead'
  BY DEF LogInv, LogTypes, NotAhead
<1>2. Sound'
  BY DEF LogInv, Sound, Settled, Rewritten
<1> QED
  BY <1>1, <1>2 DEF LogInv

\* One step per action of Next.
LEMMA LogStep == LogInv /\ [Next]_vars => LogInv'
<1> SUFFICES ASSUME LogInv, [Next]_vars PROVE LogInv'
  OBVIOUS
<1>0. LogTypes /\ StackTypes /\ NotAhead /\ Sound
  BY DEF LogInv
<1>1. ASSUME NEW f \in FuncSet, SkipSettled(f) PROVE LogInv'
  <2>1. bodies[f] \in Bodies /\ Visit(f, bodies[f]) /\ Running("func")
        /\ UNCHANGED <<threads, base, version, converged>>
    BY <1>0, <1>1 DEF SkipSettled, Passed, logVars, LogTypes
  <2>2. ~MarksAtEnd
    BY <2>1 DEF MarksAtEnd, Running
  <2> QED
    BY <1>0, <2>1, <2>2, CountedVisit DEF LogTypes
<1>2. ASSUME NEW f \in FuncSet, RunTracked(f) PROVE LogInv'
  <2> DEFINE b == Rewritten(Current, f)
  <2>1. /\ Running("func") /\ Current \in Passes /\ Visit(f, b) /\ UNCHANGED base
        /\ threads' = IF Current = JumpThread /\ b # bodies[f]
                      THEN [threads EXCEPT ![f] = @ + 1] ELSE threads
        /\ Record(Current, f, bodies'[f] # bodies[f])
    BY <1>0, <1>2, CurrentType DEF RunTracked, RunOn, Running
  <2>2. ~MarksAtEnd
    BY <2>1 DEF MarksAtEnd, Running
  <2>3. b \in Bodies
    BY <1>0, <2>1, OutcomeTypes
  <2>4. bodies'[f] = b /\ bodies' = [bodies EXCEPT ![f] = b]
    BY <1>0, <2>1 DEF Visit, LogTypes
  <2>5. CASE b # bodies[f]
    <3>1. version' = [version EXCEPT ![f] = @ + 1] /\ UNCHANGED converged
      BY <2>1, <2>4, <2>5 DEF Record
    <3>2. threads' \in [FuncSet -> Nat] /\ \A g \in FuncSet \ {f} : threads'[g] = threads[g]
      BY <1>0, <2>1 DEF LogTypes
    <3>3. base' \in [FuncSet -> Bodies \cup {Unseen}]
      BY <1>0, <2>1 DEF LogTypes
    <3> HIDE DEF b
    <3> QED
      BY <2>1, <2>2, <2>3, <2>5, <3>1, <3>2, <3>3, CountedVisit
  <2>6. CASE b = bodies[f]
    <3>1. /\ UNCHANGED <<bodies, version, threads, base, live, frozen, stack>>
          /\ moved' \in BOOLEAN
          /\ converged' = [converged EXCEPT ![Current][f] = version[f]]
      BY <1>0, <2>1, <2>4, <2>6 DEF Record, Visit, LogTypes
    <3>2. /\ LogTypes' /\ StackTypes' /\ NotAhead'
      BY <1>0, <2>1, <3>1 DEF LogTypes, StackTypes, NotAhead
    <3>3. Sound'
      <4> SUFFICES ASSUME NEW p \in Passes, NEW g \in FuncSet,
                          g \notin frozen, Kind[p] = "func", Settled(p, g)'
                   PROVE  Rewritten(p, g)' = bodies'[g]
        BY <3>1 DEF Sound
      <4>1. CASE p = Current /\ g = f
        BY <2>6, <3>1, <4>1 DEF Rewritten
      <4>2. CASE p # Current \/ g # f
        <5>1. Settled(p, g)
          BY <1>0, <2>1, <3>1, <4>2 DEF Settled, LogTypes
        <5> QED
          BY <1>0, <2>2, <3>1, <5>1 DEF Sound, Rewritten
      <4> QED
        BY <4>1, <4>2
    <3> QED
      BY <3>2, <3>3 DEF LogInv
  <2> QED
    BY <2>5, <2>6
<1>3. ASSUME NEW f \in FuncSet, InlineTracked(f) PROVE LogInv'
  <2> DEFINE b == Inlined(f)
  <2>1. /\ Running("inline") /\ Visit(f, b) /\ UNCHANGED <<threads, converged>>
        /\ base' = IF bodies[f] \in SecondaryEntry \/ f \in NoSplit THEN base
                   ELSE [base EXCEPT ![f] = Base(f)]
        /\ version' = IF bodies'[f] # bodies[f] THEN [version EXCEPT ![f] = @ + 1] ELSE version
    BY <1>3 DEF InlineTracked, InlineOn
  <2>2. ~MarksAtEnd
    BY <2>1 DEF MarksAtEnd, Running
  <2>3. b \in Bodies /\ Base(f) \in Bodies
    BY <1>0, OutcomeTypes
  <2>4. bodies'[f] = b
    BY <1>0, <2>1 DEF Visit, LogTypes
  <2>5. base' \in [FuncSet -> Bodies \cup {Unseen}]
    BY <1>0, <2>1, <2>3 DEF LogTypes
  <2> HIDE DEF b
  <2> QED
    BY <1>0, <2>1, <2>2, <2>3, <2>4, <2>5, CountedVisit DEF LogTypes
<1>4. ASSUME NEW f \in FuncSet, SkipFunction(f), UNCHANGED logVars PROVE LogInv'
  <2>1. /\ bodies[f] \in Bodies /\ Visit(f, bodies[f])
        /\ UNCHANGED <<threads, base, version, converged>>
    BY <1>0, <1>4 DEF SkipFunction, Passed, logVars, LogTypes
  <2>2. CASE MarksAtEnd
    BY <2>1, <2>2, UnmarkedVisit
  <2>3. CASE ~MarksAtEnd
    BY <1>0, <2>1, <2>3, CountedVisit DEF LogTypes
  <2> QED
    BY <2>2, <2>3
<1>5. ASSUME NEW f \in FuncSet, UnrollOn(f), UNCHANGED logVars PROVE LogInv'
  <2>1. /\ Visit(f, UnrollInto(f, bodies)) /\ MarksAtEnd /\ f \in live
        /\ UNCHANGED <<threads, base, version, converged>>
    BY <1>5 DEF UnrollOn, MarksAtEnd, Visited, logVars
  <2> QED
    BY <1>0, <2>1, UnmarkedVisit, OutcomeTypes
<1>6. ASSUME NEW f \in FuncSet, NoSplitOn(f), UNCHANGED logVars PROVE LogInv'
  <2> DEFINE b == IF f \in live /\ f \in NoSplit /\ bodies[f] \notin SecondaryEntry
                  THEN InlineIntoNoSplitCaller(f, bodies) ELSE bodies[f]
  <2>1. /\ Visit(f, b) /\ MarksAtEnd /\ UNCHANGED <<threads, base, version, converged>>
    BY <1>6 DEF NoSplitOn, MarksAtEnd, logVars
  <2>2. b \in Bodies /\ (b # bodies[f] => f \in live)
    BY <1>0, OutcomeTypes DEF LogTypes
  <2> HIDE DEF b
  <2> QED
    BY <2>1, <2>2, UnmarkedVisit
<1>7. ASSUME EndPassTracked PROVE LogInv'
  <2>1. /\ UNCHANGED <<bodies, live, frozen, threads, base, converged>> /\ moved' = FALSE
        /\ version' = [f \in FuncSet |-> IF f \in MovedBy(Current) THEN version[f] + 1 ELSE version[f]]
    BY <1>7 DEF EndPassTracked, EndPass
  <2>2. StackTypes'
    BY <1>0, <1>7, StackStep DEF EndPassTracked, LogTypes
  <2>3. LogTypes' /\ NotAhead'
    <3>1. version' \in [FuncSet -> Nat] /\ \A f \in FuncSet : version[f] <= version'[f]
      BY <1>0, <2>1 DEF LogTypes
    <3>2. LogTypes'
      BY <1>0, <2>1, <3>1 DEF LogTypes
    <3>3. ASSUME NEW p \in Passes, NEW f \in FuncSet, converged[p][f] # Never
          PROVE  converged[p][f] <= version'[f]
      <4>1. converged[p][f] \in Nat /\ converged[p][f] <= version[f]
        BY <1>0, <3>3 DEF LogTypes, NotAhead
      <4> QED
        BY <1>0, <3>1, <4>1 DEF LogTypes
    <3> QED
      BY <2>1, <3>2, <3>3 DEF NotAhead
  <2>4. Sound'
    <3> SUFFICES ASSUME NEW p \in Passes, NEW g \in FuncSet,
                        g \notin frozen, Kind[p] = "func", Settled(p, g)'
                 PROVE  Rewritten(p, g)' = bodies'[g]
      BY <2>1 DEF Sound
    <3>1. g \notin MovedBy(Current) /\ Settled(p, g)
      BY <1>0, <2>1 DEF Settled, NotAhead, LogTypes
    <3>2. ~(MarksAtEnd /\ moved /\ g \in live)
      BY <3>1 DEF MovedBy, MarksAtEnd, Running
    <3>3. Rewritten(p, g) = bodies[g]
      BY <1>0, <3>1, <3>2 DEF Sound
    <3> QED
      BY <2>1, <3>3 DEF Rewritten
  <2> QED
    BY <2>2, <2>3, <2>4 DEF LogInv
<1>8. ASSUME DropDead, UNCHANGED logVars PROVE LogInv'
  <2>1. /\ ~MarksAtEnd /\ live' \subseteq FuncSet /\ moved' \in BOOLEAN
        /\ UNCHANGED <<bodies, frozen, threads, base, version, converged, stack>>
    BY <1>0, <1>8 DEF DropDead, MarksAtEnd, Running, logVars, LogTypes
  <2>2. StackTypes'
    BY <1>0, <2>1 DEF StackTypes
  <2> QED
    BY <2>1, <2>2, QuietStep
<1>9. ASSUME EnterFixpoint \/ EndRound, UNCHANGED logVars PROVE LogInv'
  <2>1. /\ ~MarksAtEnd /\ live' \subseteq FuncSet /\ moved' \in BOOLEAN
        /\ UNCHANGED <<bodies, frozen, threads, base, version, converged>>
    BY <1>0, <1>9 DEF EnterFixpoint, EndRound, MarksAtEnd, Running, logVars, LogTypes
  <2>2. StackTypes'
    BY <1>0, <1>9, StackStep DEF LogTypes
  <2> QED
    BY <2>1, <2>2, QuietStep
<1>10. ASSUME Freeze, UNCHANGED logVars PROVE LogInv'
  <2>1. /\ frozen' \subseteq Freezable /\ frozen = {}
        /\ bodies' = [f \in FuncSet |-> IF f \in frozen' THEN Memo[f] ELSE bodies[f]]
        /\ UNCHANGED <<live, threads, base, stack, moved, version, converged>>
    BY <1>10 DEF Freeze, logVars
  <2>2. LogTypes' /\ StackTypes' /\ NotAhead'
    BY <1>0, <2>1, PipelineAssumption DEF LogTypes, StackTypes, NotAhead
  <2>3. MarksAtEnd' = MarksAtEnd
    BY <2>1 DEF MarksAtEnd, Running, InPass, Current, Top
  <2>4. Sound'
    <3> SUFFICES ASSUME NEW p \in Passes, NEW g \in FuncSet,
                        g \notin frozen', Kind[p] = "func", Settled(p, g)'
                 PROVE  Rewritten(p, g)' = bodies'[g] \/ (MarksAtEnd /\ moved /\ g \in live)
      BY <2>1, <2>3 DEF Sound
    <3>1. Settled(p, g) /\ bodies'[g] = bodies[g]
      BY <2>1 DEF Settled
    <3>2. Rewritten(p, g) = bodies[g] \/ (MarksAtEnd /\ moved /\ g \in live)
      BY <1>0, <2>1, <3>1 DEF Sound
    <3> QED
      BY <2>1, <3>1, <3>2 DEF Rewritten
  <2> QED
    BY <2>2, <2>4 DEF LogInv
<1>11. CASE UNCHANGED vars
  <2>1. UNCHANGED <<bodies, live, frozen, threads, base, stack, moved, version, converged>>
    BY <1>11 DEF vars
  <2>2. LogTypes' /\ StackTypes' /\ NotAhead'
    BY <1>0, <2>1 DEF LogTypes, StackTypes, NotAhead
  <2>3. Sound'
    BY <1>0, <2>1 DEF Sound, Settled, Rewritten, MarksAtEnd, Running, InPass, Current, Top
  <2> QED
    BY <2>2, <2>3 DEF LogInv
<1> QED
  BY <1>1, <1>2, <1>3, <1>4, <1>5, <1>6, <1>7, <1>8, <1>9, <1>10, <1>11 DEF Next
-----------------------------------------------------------------------------
\* The log never lets a useful visit be skipped: a settled function is one the
\* pass would leave alone.
THEOREM SkippingIsSound == SafeSpec => []SettledIsSound
<1>1. LogInv => SettledIsSound
  BY DEF LogInv, Sound, SettledIsSound
<1> QED
  BY LogInit, LogStep, <1>1, PTL DEF SafeSpec

\* Every step of the tracked pipeline is a step of the plain one: a skipped visit
\* is a visit that changes nothing.
LEMMA PlainStep == LogInv /\ [Next]_vars => [PlainNext]_pipelineVars
<1> SUFFICES ASSUME LogInv, [Next]_vars PROVE [PlainNext]_pipelineVars
  OBVIOUS
<1>1. ASSUME NEW f \in FuncSet, SkipSettled(f) PROVE RunOn(f)
  <2>1. /\ Running("func") /\ Visited(f) /\ Settled(Current, f) /\ Visit(f, bodies[f])
        /\ UNCHANGED <<threads, base>>
    BY <1>1 DEF SkipSettled, Passed
  <2>2. Current \in Passes /\ Kind[Current] = "func" /\ ~MarksAtEnd /\ f \notin frozen
    BY <2>1, CurrentType DEF LogInv, Running, MarksAtEnd, Visited
  <2>3. Rewritten(Current, f) = bodies[f]
    BY <2>1, <2>2 DEF LogInv, Sound
  <2> QED
    BY <2>1, <2>3 DEF RunOn
<1>2. ASSUME NEW f \in FuncSet, RunTracked(f) \/ InlineTracked(f) PROVE RunOn(f) \/ InlineOn(f)
  BY <1>2 DEF RunTracked, InlineTracked
<1>3. EndPassTracked => EndPass
  BY DEF EndPassTracked
<1>4. UNCHANGED vars => UNCHANGED pipelineVars
  BY DEF vars, pipelineVars
<1> QED
  BY <1>1, <1>2, <1>3, <1>4 DEF Next, PlainNext

\* Change tracking cannot be observed: whatever the tracked pipeline does to the
\* module, the pipeline that visits everything does too.
THEOREM TrackingRefines == SafeSpec => PlainSafeSpec
<1>1. TrackedInit => Init
  BY DEF TrackedInit
<1> QED
  BY LogInit, LogStep, PlainStep, <1>1, PTL DEF SafeSpec, PlainSafeSpec

\* A memoised body is not transformed by any pass, as long as no nosplit function
\* is memoised.
THEOREM FrozenStays ==
  ASSUME Freezable \cap NoSplit = {}
  PROVE  SafeSpec => FrozenKept
<1> DEFINE Keep == \A f \in frozen : bodies'[f] = bodies[f]
<1>1. LogInv /\ [Next]_vars => [Keep]_vars
  <2> SUFFICES ASSUME LogInv, Next PROVE Keep
    OBVIOUS
  <2>0. LogTypes /\ frozen \subseteq FuncSet
    BY PipelineAssumption DEF LogInv, LogTypes
  <2>1. ASSUME NEW f \in FuncSet, NEW b, Visit(f, b), f \in frozen => b = bodies[f]
        PROVE  Keep
    BY <2>0, <2>1 DEF Visit, LogTypes
  <2>2. ASSUME NEW f \in FuncSet, SkipSettled(f) \/ RunTracked(f) \/ InlineTracked(f) PROVE Keep
    BY <2>1, <2>2 DEF SkipSettled, RunTracked, InlineTracked, Passed, RunOn, InlineOn, Visited
  <2>3. ASSUME NEW f \in FuncSet, SkipFunction(f) \/ UnrollOn(f) PROVE Keep
    BY <2>1, <2>3 DEF SkipFunction, UnrollOn, Passed, Visited
  <2>4. ASSUME NEW f \in FuncSet, NoSplitOn(f) PROVE Keep
    <3>1. f \in frozen => f \notin NoSplit
      BY <2>0 DEF LogTypes
    <3> QED
      BY <2>1, <2>4, <3>1 DEF NoSplitOn
  <2>5. ASSUME EndPassTracked \/ DropDead \/ EnterFixpoint \/ EndRound \/ Freeze \/ UNCHANGED vars
        PROVE  Keep
    BY <2>5 DEF EndPassTracked, EndPass, DropDead, EnterFixpoint, EndRound, Freeze, vars
  <2> QED
    BY <2>2, <2>3, <2>4, <2>5 DEF Next
<1> QED
  BY LogInit, LogStep, <1>1, PTL DEF SafeSpec, FrozenKept

-----------------------------------------------------------------------------
\* What FixpointHolds says of one pass and one function.
Stable(p, f) ==
  /\ Kind[p] = "func" => Rewritten(p, f) = bodies[f]
  /\ Kind[p] = "inline" => Inlined(f) = bodies[f]

\* The leaves of one pass of a frame.
LeavesOf(p) == IF Kind[p] = "fixpoint" THEN {Members[p][i] : i \in 1..Len(Members[p])} ELSE {p}

At(i) == stack[i].passes[stack[i].at]

\* Every frame but the last is at a fixpoint, and the next one runs its members.
NestInv ==
  /\ \A i \in 1..Len(stack) : stack[i].at <= Len(stack[i].passes) + 1
  /\ \A i \in 1..(Len(stack) - 1) :
       /\ stack[i].at <= Len(stack[i].passes) /\ Kind[At(i)] = "fixpoint"
       /\ stack[i + 1].passes = Members[At(i)]

\* A pass starts at the first function with nothing changed.
NextInv ==
  /\ next \in 1..(Len(Funcs) + 1)
  /\ next = 1 => ~moved
  /\ Running("deadfunc") => next = 1 \/ next > Len(Funcs)
  /\ ~InPass \/ Running("fixpoint") => next = 1

\* Nothing has changed since the current round of frame i began.
Quiet(i) ==
  /\ ~moved /\ ~stack[i].round
  /\ \A k \in (i + 1)..Len(stack) : ~stack[k].round /\ ~stack[k].any

\* A round that has changed nothing has found every pass it is past stable.
RoundInv ==
  \A i \in 2..Len(stack) : Quiet(i) =>
    \A j \in 1..(stack[i].at - 1) : \A p \in LeavesOf(stack[i].passes[j]), f \in live \ frozen :
      Stable(p, f)

\* So has a pass that has changed nothing of every function it is past.
PassInv ==
  InPass /\ ~moved =>
    \A j \in 1..(next - 1) : Visited(Funcs[j]) => Stable(Current, Funcs[j])

FixInv == NestInv /\ NextInv /\ RoundInv /\ PassInv

\* The pipeline starts at its first pass.
LEMMA FixInit == TrackedInit => FixInv
<1> SUFFICES ASSUME TrackedInit PROVE FixInv
  OBVIOUS
<1>1. /\ stack = <<Frame(Pipeline, FALSE)>> /\ next = 1 /\ moved = FALSE
      /\ Pipeline \in Seq(Passes) /\ Len(Funcs) \in Nat
  BY PipelineAssumption DEF TrackedInit, Init
<1>2. Len(stack) = 1 /\ stack[1].at = 1 /\ stack[1].passes = Pipeline /\ Len(Pipeline) \in Nat
  BY <1>1 DEF Frame
<1>3. NestInv
  <2>1. \A i \in 1..Len(stack) : stack[i].at <= Len(stack[i].passes) + 1
    BY <1>2
  <2>2. 1..(Len(stack) - 1) = {}
    BY <1>2
  <2> QED
    BY <2>1, <2>2 DEF NestInv
<1>4. NextInv /\ PassInv
  BY <1>1 DEF NextInv, PassInv
<1>5. RoundInv
  BY <1>2 DEF RoundInv
<1> QED
  BY <1>3, <1>4, <1>5 DEF FixInv

\* A step that changes nothing a pass reads of f leaves f as stable as it was.
LEMMA StableKept ==
  ASSUME NEW p, NEW f, UNCHANGED bodies, threads'[f] = threads[f], Base(f)' = Base(f), Stable(p, f)
  PROVE  Stable(p, f)'
<1>1. Rewritten(p, f)' = Rewritten(p, f)
  BY DEF Rewritten
<1>2. Inlined(f)' = Inlined(f)
  BY DEF Inlined
<1> QED
  BY <1>1, <1>2 DEF Stable

\* A visit that changes f: the round is no longer quiet.
LEMMA LoudVisit ==
  ASSUME LogInv, FixInv, NEW f \in FuncSet, NEW b, Visit(f, b), b # bodies[f],
         ~Running("deadfunc"), ~Running("fixpoint"), InPass
  PROVE  FixInv'
<1>1. moved' = TRUE /\ stack' = stack /\ next' = next + 1 /\ next <= Len(Funcs)
  BY DEF Visit
<1>2. Len(Funcs) \in Nat /\ next \in 1..(Len(Funcs) + 1)
  BY PipelineAssumption DEF FixInv, NextInv
<1>3. NestInv'
  BY <1>1 DEF FixInv, NestInv, At
<1>4. NextInv'
  BY <1>1, <1>2 DEF NextInv, Running, InPass, Current, Top
<1>5. RoundInv' /\ PassInv'
  BY <1>1 DEF RoundInv, PassInv, Quiet
<1> QED
  BY <1>3, <1>4, <1>5 DEF FixInv

\* A visit that leaves f alone because the pass would not change it.
LEMMA QuietVisit ==
  ASSUME LogInv, FixInv, NEW f \in FuncSet, Visit(f, bodies[f]), UNCHANGED threads,
         \A g \in FuncSet : Base(g)' = Base(g), Visited(f) => Stable(Current, f),
         ~Running("deadfunc"), ~Running("fixpoint"), InPass
  PROVE  FixInv'
<1>1. /\ moved' = moved /\ next' = next + 1 /\ next <= Len(Funcs) /\ f = Funcs[next]
      /\ UNCHANGED <<bodies, live, frozen, stack>>
  BY DEF Visit, LogInv, LogTypes
<1>2. /\ Len(Funcs) \in Nat /\ next \in 1..(Len(Funcs) + 1)
      /\ live \subseteq FuncSet /\ stack \in Seq(Frames)
  BY PipelineAssumption DEF FixInv, NextInv, LogInv, LogTypes, StackTypes
<1>3. NestInv'
  BY <1>1 DEF FixInv, NestInv, At
<1>4. NextInv'
  BY <1>1, <1>2 DEF NextInv, Running, InPass, Current, Top
<1>5. \A p : \A g \in FuncSet : Stable(p, g) => Stable(p, g)'
  BY <1>1, StableKept
<1>6. RoundInv'
  <2> SUFFICES ASSUME NEW i \in 2..Len(stack'), Quiet(i)', NEW j \in 1..(stack'[i].at - 1),
                      NEW p \in LeavesOf(stack'[i].passes[j]), NEW g \in live' \ frozen'
               PROVE  Stable(p, g)'
    BY DEF RoundInv
  <2>1. Quiet(i)
    BY <1>1 DEF Quiet
  <2>2. Stable(p, g)
    BY <1>1, <2>1 DEF FixInv, RoundInv
  <2> QED
    BY <1>1, <1>2, <1>5, <2>2
<1>7. PassInv'
  <2> SUFFICES ASSUME ~moved, NEW j \in 1..next, Visited(Funcs[j])
               PROVE  Stable(Current, Funcs[j])'
    BY <1>1, <1>2 DEF PassInv, InPass, Current, Top, Visited
  <2>1. Stable(Current, Funcs[j])
    <3>1. CASE j = next
      BY <1>1, <3>1
    <3>2. CASE j # next
      <4>1. j \in 1..(next - 1)
        BY <1>2, <3>2
      <4> QED
        BY <4>1 DEF FixInv, PassInv
    <3> QED
      BY <3>1, <3>2
  <2>2. Funcs[j] \in FuncSet
    BY <1>2 DEF Visited
  <2>3. Stable(Current, Funcs[j])'
    BY <1>1, <1>5, <2>1, <2>2 DEF Current, Top, Stable
  <2> QED
    BY <2>3
<1> QED
  BY <1>3, <1>4, <1>6, <1>7 DEF FixInv

\* Report moves the last frame on.
LEMMA ReportFields ==
  ASSUME NEW s \in Seq(Frames), s # <<>>, NEW changed \in BOOLEAN
  PROVE  LET r == Report(s, changed) IN
         /\ Len(r) = Len(s) /\ Len(s) \in Nat \ {0}
         /\ \A i \in 1..Len(s) : i # Len(s) => r[i] = s[i]
         /\ r[Len(s)].passes = s[Len(s)].passes
         /\ r[Len(s)].at = s[Len(s)].at + 1
         /\ r[Len(s)].round = (s[Len(s)].round \/ changed)
         /\ r[Len(s)].any = s[Len(s)].any
<1> DEFINE old == s[Len(s)]
           top == [passes |-> old.passes, at |-> old.at + 1,
                   round |-> old.round \/ changed, any |-> old.any]
<1>1. Len(s) \in 1..Len(s) /\ Len(s) \in Nat \ {0}
  OBVIOUS
<1>2. Report(s, changed) = [s EXCEPT ![Len(s)] = top]
  BY DEF Report
<1>3. /\ top.passes = s[Len(s)].passes /\ top.at = s[Len(s)].at + 1
      /\ top.round = (s[Len(s)].round \/ changed) /\ top.any = s[Len(s)].any
  OBVIOUS
<1> HIDE DEF top, old
<1>4. /\ Len([s EXCEPT ![Len(s)] = top]) = Len(s)
      /\ [s EXCEPT ![Len(s)] = top][Len(s)] = top
      /\ \A i \in 1..Len(s) : i # Len(s) => [s EXCEPT ![Len(s)] = top][i] = s[i]
  BY <1>1
<1> QED
  BY <1>1, <1>2, <1>3, <1>4

\* A step of the control alone leaves every function as stable as it was.
LEMMA ControlKeepsStable ==
  ASSUME UNCHANGED <<bodies, threads, base>>, NEW p, NEW f
  PROVE  Stable(p, f)' <=> Stable(p, f)
BY DEF Stable, Rewritten, Inlined, Base

\* A pass that ends has found every function stable, if it changed nothing.
LEMMA EndPassStep ==
  ASSUME LogInv, FixInv, EndPass
  PROVE  FixInv'
<1> DEFINE n == Len(stack)
<1>0. /\ stack \in Seq(Frames) /\ stack # <<>> /\ moved \in BOOLEAN /\ live \subseteq FuncSet
      /\ n \in 1..n /\ n \in Nat \ {0} /\ stack[n] \in Frames
      /\ next \in Nat /\ next = Len(Funcs) + 1 /\ Len(Funcs) \in Nat
  BY PipelineAssumption DEF LogInv, LogTypes, StackTypes, FixInv, NextInv, EndPass
<1>1. /\ InPass /\ Kind[Current] # "fixpoint" /\ stack' = Report(stack, moved)
      /\ next' = 1 /\ moved' = FALSE /\ UNCHANGED <<bodies, live, frozen, threads, base>>
  BY DEF EndPass
<1>2. /\ Len(stack') = n
      /\ \A i \in 1..n : i # n => stack'[i] = stack[i]
      /\ stack'[n].passes = stack[n].passes /\ stack'[n].at = stack[n].at + 1
      /\ stack'[n].round = (stack[n].round \/ moved) /\ stack'[n].any = stack[n].any
  BY <1>0, <1>1, ReportFields
<1>3. stack[n].at \in Nat \ {0} /\ stack[n].at <= Len(stack[n].passes) /\ Len(stack[n].passes) \in Nat
  BY <1>0, <1>1 DEF Frames, InPass, Top
<1> HIDE DEF n
<1>4. NestInv'
  <2>1. ASSUME NEW i \in 1..n PROVE stack'[i].at <= Len(stack'[i].passes) + 1
    <3>1. CASE i = n
      BY <1>2, <1>3, <3>1
    <3>2. CASE i # n
      BY <1>2, <3>2 DEF FixInv, NestInv, n
    <3> QED
      BY <3>1, <3>2
  <2>2. ASSUME NEW i \in 1..(n - 1)
        PROVE  /\ stack'[i].at <= Len(stack'[i].passes) /\ Kind[At(i)'] = "fixpoint"
               /\ stack'[i + 1].passes = Members[At(i)']
    <3>1. stack'[i] = stack[i] /\ stack'[i + 1].passes = stack[i + 1].passes
      BY <1>0, <1>2
    <3> QED
      BY <3>1 DEF FixInv, NestInv, At, n
  <2> QED
    BY <1>2, <2>1, <2>2 DEF NestInv
<1>5. NextInv'
  BY <1>0, <1>1 DEF NextInv
<1>6. RoundInv'
  <2> SUFFICES ASSUME NEW i \in 2..Len(stack'), Quiet(i)', NEW j \in 1..(stack'[i].at - 1),
                      NEW p \in LeavesOf(stack'[i].passes[j]), NEW g \in live' \ frozen'
               PROVE  Stable(p, g)'
    BY DEF RoundInv
  <2>0. i \in 2..n /\ i \in 1..n /\ g \in live \ frozen /\ g \in FuncSet
    BY <1>0, <1>1, <1>2
  <2>1. ~moved /\ ~stack[n].round
    <3>1. ~stack'[n].round
      <4>1. CASE i = n
        BY <4>1 DEF Quiet
      <4>2. CASE i # n
        <5>1. n \in (i + 1)..Len(stack')
          BY <1>0, <1>2, <2>0, <4>2
        <5> QED
          BY <5>1 DEF Quiet
      <4> QED
        BY <4>1, <4>2
    <3> QED
      BY <1>2, <3>1
  <2>2. Quiet(i)
    <3>1. ASSUME NEW k \in 1..n PROVE stack'[k].any = stack[k].any /\ (~stack'[k].round => ~stack[k].round)
      BY <1>2
    <3>2. ~stack[i].round
      BY <2>0, <3>1 DEF Quiet
    <3>3. ASSUME NEW k \in (i + 1)..n PROVE ~stack[k].round /\ ~stack[k].any
      <4>1. k \in 1..n /\ ~stack'[k].round /\ ~stack'[k].any
        BY <1>0, <1>2, <2>0 DEF Quiet
      <4> QED
        BY <3>1, <4>1
    <3> QED
      BY <2>1, <3>2, <3>3 DEF Quiet, n
  <2>3. CASE i # n \/ j # stack[n].at
    <3>1. j \in 1..(stack[i].at - 1) /\ stack'[i].passes = stack[i].passes
      BY <1>2, <1>3, <2>0, <2>3
    <3>2. Stable(p, g)
      BY <2>0, <2>2, <3>1 DEF FixInv, RoundInv, n
    <3> QED
      BY <1>1, <3>2, ControlKeepsStable
  <2>4. CASE i = n /\ j = stack[n].at
    <3>1. p = Current
      BY <1>1, <1>2, <2>4 DEF LeavesOf, Current, Top, n
    <3>2. PICK m \in 1..Len(Funcs) : g = Funcs[m]
      BY <2>0 DEF FuncSet
    <3>3. Stable(Current, Funcs[m])
      BY <1>0, <1>1, <2>0, <2>1, <3>2 DEF FixInv, PassInv, Visited
    <3> QED
      BY <1>1, <3>1, <3>2, <3>3, ControlKeepsStable
  <2> QED
    BY <2>3, <2>4
<1>7. PassInv'
  BY <1>1 DEF PassInv
<1> QED
  BY <1>4, <1>5, <1>6, <1>7 DEF FixInv

\* A fixpoint begins its first round.
LEMMA EnterStep ==
  ASSUME LogInv, FixInv, EnterFixpoint
  PROVE  FixInv'
<1> DEFINE n == Len(stack)
           new == Frame(Members[Current], FALSE)
<1>0. /\ stack \in Seq(Frames) /\ stack # <<>> /\ n \in 1..n /\ n \in Nat \ {0}
      /\ stack[n] \in Frames
  BY DEF LogInv, StackTypes
<1>1. /\ InPass /\ Kind[Current] = "fixpoint" /\ stack' = Append(stack, new)
      /\ UNCHANGED <<bodies, live, frozen, threads, base, next, moved>>
      /\ Current \in Passes /\ next = 1 /\ ~moved
  BY CurrentType DEF EnterFixpoint, Running, LogInv, FixInv, NextInv
<1>2. /\ new.passes = Members[Current] /\ new.at = 1 /\ new.round = FALSE /\ new.any = FALSE
      /\ Len(Members[Current]) \in Nat /\ new \in Frames
  BY <1>1, PipelineAssumption DEF Frame, Frames
<1> HIDE DEF new
<1>3. /\ Len(stack') = n + 1 /\ stack'[n + 1] = new
      /\ \A i \in 1..n : stack'[i] = stack[i]
  BY <1>0, <1>1, <1>2, AppendProperties
<1>4. Top.at <= Len(Top.passes) /\ Top = stack[n] /\ Current = At(n)
  BY <1>1 DEF InPass, Top, Current, At
<1> HIDE DEF n
<1>5. NestInv'
  <2>1. ASSUME NEW i \in 1..(n + 1) PROVE stack'[i].at <= Len(stack'[i].passes) + 1
    <3>1. CASE i = n + 1
      BY <1>2, <1>3, <3>1
    <3>2. CASE i # n + 1
      <4>1. i \in 1..n
        BY <1>0, <3>2
      <4> QED
        BY <1>3, <4>1 DEF FixInv, NestInv, n
    <3> QED
      BY <3>1, <3>2
  <2>2. ASSUME NEW i \in 1..n
        PROVE  /\ stack'[i].at <= Len(stack'[i].passes) /\ Kind[At(i)'] = "fixpoint"
               /\ stack'[i + 1].passes = Members[At(i)']
    <3>1. CASE i = n
      BY <1>0, <1>1, <1>2, <1>3, <1>4, <3>1 DEF At
    <3>2. CASE i # n
      <4>1. i \in 1..(n - 1) /\ i + 1 \in 1..n
        BY <1>0, <3>2
      <4>2. stack'[i] = stack[i] /\ stack'[i + 1] = stack[i + 1]
        BY <1>3, <4>1
      <4> QED
        BY <4>1, <4>2 DEF FixInv, NestInv, At, n
    <3> QED
      BY <3>1, <3>2
  <2>3. (n + 1) - 1 = n
    BY <1>0
  <2> QED
    BY <1>3, <2>1, <2>2, <2>3 DEF NestInv
<1>6. NextInv'
  BY <1>1, PipelineAssumption DEF FixInv, NextInv
<1>7. RoundInv'
  <2> SUFFICES ASSUME NEW i \in 2..Len(stack'), Quiet(i)', NEW j \in 1..(stack'[i].at - 1),
                      NEW p \in LeavesOf(stack'[i].passes[j]), NEW g \in live' \ frozen'
               PROVE  Stable(p, g)'
    BY DEF RoundInv
  <2>1. i \in 2..n /\ i \in 1..n /\ stack'[i] = stack[i]
    BY <1>0, <1>2, <1>3
  <2>2. Quiet(i)
    <3>1. ASSUME NEW k \in (i + 1)..n PROVE ~stack[k].round /\ ~stack[k].any
      <4>1. k \in 1..n /\ k \in (i + 1)..(n + 1)
        BY <1>0, <2>1
      <4>2. ~stack'[k].round /\ ~stack'[k].any
        BY <1>3, <4>1 DEF Quiet
      <4> QED
        BY <1>3, <4>1, <4>2
    <3> QED
      BY <1>1, <2>1, <3>1 DEF Quiet, n
  <2>3. Stable(p, g)
    BY <1>1, <2>1, <2>2 DEF FixInv, RoundInv, n
  <2> QED
    BY <1>1, <2>3, ControlKeepsStable
<1>8. PassInv'
  BY <1>1 DEF PassInv
<1> QED
  BY <1>5, <1>6, <1>7, <1>8 DEF FixInv

\* A round that changed something is followed by another one.
LEMMA AgainStep ==
  ASSUME LogInv, FixInv, EndRound, Top.round
  PROVE  FixInv'
<1> DEFINE n == Len(stack)
           again == Frame(Top.passes, TRUE)
<1>0. /\ stack \in Seq(Frames) /\ n > 1 /\ n \in 1..n /\ n \in Nat \ {0}
      /\ stack[n] \in Frames /\ Top = stack[n] /\ ~InPass
  BY DEF LogInv, StackTypes, EndRound, Top
<1>1. /\ stack' = [stack EXCEPT ![n] = again]
      /\ UNCHANGED <<bodies, live, frozen, threads, base, next, moved>>
      /\ next = 1 /\ ~moved
  BY <1>0 DEF EndRound, FixInv, NextInv
<1>2. /\ again.passes = stack[n].passes /\ again.at = 1 /\ again.any = TRUE
      /\ Len(stack[n].passes) \in Nat
  BY <1>0 DEF Frame, Frames
<1> HIDE DEF again
<1>3. /\ Len(stack') = n /\ stack'[n] = again
      /\ \A i \in 1..n : i # n => stack'[i] = stack[i]
  BY <1>0, <1>1
<1> HIDE DEF n
<1>4. NestInv'
  <2>1. ASSUME NEW i \in 1..n PROVE stack'[i].at <= Len(stack'[i].passes) + 1
    <3>1. CASE i = n
      BY <1>2, <1>3, <3>1
    <3>2. CASE i # n
      BY <1>3, <3>2 DEF FixInv, NestInv, n
    <3> QED
      BY <3>1, <3>2
  <2>2. ASSUME NEW i \in 1..(n - 1)
        PROVE  /\ stack'[i].at <= Len(stack'[i].passes) /\ Kind[At(i)'] = "fixpoint"
               /\ stack'[i + 1].passes = Members[At(i)']
    <3>1. stack'[i] = stack[i] /\ stack'[i + 1].passes = stack[i + 1].passes
      BY <1>0, <1>2, <1>3
    <3> QED
      BY <3>1 DEF FixInv, NestInv, At, n
  <2> QED
    BY <1>3, <2>1, <2>2 DEF NestInv
<1>5. NextInv'
  BY <1>1, PipelineAssumption DEF FixInv, NextInv
<1>6. RoundInv'
  <2> SUFFICES ASSUME NEW i \in 2..Len(stack'), Quiet(i)', NEW j \in 1..(stack'[i].at - 1)
               PROVE  FALSE
    BY DEF RoundInv
  <2>1. CASE i = n
    BY <1>2, <1>3, <2>1
  <2>2. CASE i # n
    <3>1. n \in (i + 1)..Len(stack')
      BY <1>0, <1>3, <2>2
    <3> QED
      BY <1>2, <1>3, <3>1 DEF Quiet
  <2> QED
    BY <2>1, <2>2
<1>7. PassInv'
  BY <1>1 DEF PassInv
<1> QED
  BY <1>4, <1>5, <1>6, <1>7 DEF FixInv

\* A fixpoint whose last round changed nothing returns: if no round of it did, the
\* round around it has found its members stable.
LEMMA ReturnStep ==
  ASSUME LogInv, FixInv, EndRound, ~Top.round
  PROVE  FixInv'
<1> DEFINE n == Len(stack)
           m == n - 1
           below == SubSeq(stack, 1, m)
<1>0. /\ stack \in Seq(Frames) /\ n > 1 /\ n \in 1..n /\ n \in Nat \ {0}
      /\ m \in Nat \ {0} /\ m \in 1..n /\ m = n - 1 /\ n = Len(stack)
      /\ stack[n] \in Frames /\ stack[m] \in Frames /\ Top = stack[n] /\ ~InPass
      /\ live \subseteq FuncSet /\ Top.any \in BOOLEAN
  <2>1. /\ stack \in Seq(Frames) /\ n > 1 /\ n \in Nat /\ ~InPass /\ live \subseteq FuncSet
    BY DEF LogInv, LogTypes, StackTypes, EndRound
  <2>2. Top = stack[n] /\ stack[n] \in Frames /\ stack[m] \in Frames
    BY <2>1 DEF Top
  <2>3. Top.any \in BOOLEAN
    BY <2>2 DEF Frames
  <2> QED
    BY <2>1, <2>2, <2>3
<1>1. /\ stack' = Report(below, Top.any)
      /\ UNCHANGED <<bodies, live, frozen, threads, base, next, moved>>
      /\ next = 1 /\ ~moved
  BY <1>0 DEF EndRound, FixInv, NextInv
<1>2. below \in Seq(Frames) /\ Len(below) = m /\ \A i \in 1..m : below[i] = stack[i]
  BY <1>0, SubSeqProperties
<1> HIDE DEF below
<1>3. below # <<>> /\ m \in 1..m
  <2>1. Len(below) # 0 /\ m \in 1..m
    BY <1>0, <1>2
  <2> QED
    BY <1>2, <2>1
<1>4. /\ Len(stack') = m
      /\ \A i \in 1..m : i # m => stack'[i] = stack[i]
      /\ stack'[m].passes = stack[m].passes /\ stack'[m].at = stack[m].at + 1
      /\ stack'[m].round = (stack[m].round \/ Top.any) /\ stack'[m].any = stack[m].any
  BY <1>0, <1>1, <1>2, <1>3, ReportFields
<1>5. /\ stack[m].at <= Len(stack[m].passes) /\ stack[m].at \in Nat \ {0}
      /\ Len(stack[m].passes) \in Nat
      /\ Kind[At(m)] = "fixpoint" /\ stack[n].passes = Members[At(m)]
  <2>1. m \in 1..(Len(stack) - 1) /\ m + 1 = n
    BY <1>0
  <2>2. stack[m].at \in Nat \ {0} /\ Len(stack[m].passes) \in Nat
    BY <1>0 DEF Frames
  <2> QED
    BY <2>1, <2>2 DEF FixInv, NestInv
<1>6. stack[n].at \in Nat /\ stack[n].at > Len(stack[n].passes) /\ Len(stack[n].passes) \in Nat
  BY <1>0 DEF InPass, Frames
<1> HIDE DEF n, m
<1>7. NestInv'
  <2>1. ASSUME NEW i \in 1..m PROVE stack'[i].at <= Len(stack'[i].passes) + 1
    <3>1. CASE i = m
      BY <1>4, <1>5, <3>1
    <3>2. CASE i # m
      <4>1. i \in 1..Len(stack)
        BY <1>0
      <4> QED
        BY <1>4, <3>2, <4>1 DEF FixInv, NestInv
    <3> QED
      BY <3>1, <3>2
  <2>2. ASSUME NEW i \in 1..(m - 1)
        PROVE  /\ stack'[i].at <= Len(stack'[i].passes) /\ Kind[At(i)'] = "fixpoint"
               /\ stack'[i + 1].passes = Members[At(i)']
    <3>1. stack'[i] = stack[i] /\ stack'[i + 1].passes = stack[i + 1].passes
      BY <1>0, <1>4
    <3>2. i \in 1..(Len(stack) - 1)
      BY <1>0
    <3> QED
      BY <3>1, <3>2 DEF FixInv, NestInv, At
  <2> QED
    BY <1>4, <2>1, <2>2 DEF NestInv
<1>8. NextInv'
  BY <1>1, PipelineAssumption DEF FixInv, NextInv
<1>9. RoundInv'
  <2> SUFFICES ASSUME NEW i \in 2..Len(stack'), Quiet(i)', NEW j \in 1..(stack'[i].at - 1),
                      NEW p \in LeavesOf(stack'[i].passes[j]), NEW g \in live' \ frozen'
               PROVE  Stable(p, g)'
    BY DEF RoundInv
  <2>0. i \in 2..m /\ i \in 1..m /\ i \in 2..Len(stack) /\ g \in live \ frozen
    BY <1>0, <1>1, <1>4
  <2>1. ~Top.any /\ ~stack[m].round
    <3>1. ~stack'[m].round
      <4>1. CASE i = m
        BY <4>1 DEF Quiet
      <4>2. CASE i # m
        <5>1. m \in (i + 1)..Len(stack')
          BY <1>0, <1>4, <2>0, <4>2
        <5> QED
          BY <5>1 DEF Quiet
      <4> QED
        BY <4>1, <4>2
    <3> QED
      BY <1>4, <3>1
  <2>2. Quiet(i)
    <3>1. ASSUME NEW k \in 1..m PROVE stack'[k].any = stack[k].any /\ (~stack'[k].round => ~stack[k].round)
      BY <1>4
    <3>2. ~stack[i].round
      BY <2>0, <3>1 DEF Quiet
    <3>3. ASSUME NEW k \in (i + 1)..n PROVE ~stack[k].round /\ ~stack[k].any
      <4>1. CASE k = n
        BY <1>0, <2>1, <4>1
      <4>2. CASE k # n
        <5>1. k \in (i + 1)..m /\ k \in 1..m
          BY <1>0, <2>0, <4>2
        <5>2. ~stack'[k].round /\ ~stack'[k].any
          BY <1>4, <5>1 DEF Quiet
        <5> QED
          BY <3>1, <5>1, <5>2
      <4> QED
        BY <4>1, <4>2
    <3> QED
      BY <1>1, <3>2, <3>3 DEF Quiet, n
  <2>3. CASE i # m \/ j # stack[m].at
    <3>1. j \in 1..(stack[i].at - 1) /\ stack'[i].passes = stack[i].passes
      BY <1>4, <1>5, <2>0, <2>3
    <3>2. Stable(p, g)
      BY <2>0, <2>2, <3>1 DEF FixInv, RoundInv
    <3> QED
      BY <1>1, <3>2, ControlKeepsStable
  <2>4. CASE i = m /\ j = stack[m].at
    <3>1. PICK k \in 1..Len(stack[n].passes) : p = stack[n].passes[k]
      <4>1. stack'[i].passes[j] = At(m)
        BY <1>4, <2>4 DEF At
      <4>2. p \in {Members[At(m)][k] : k \in 1..Len(Members[At(m)])}
        BY <1>5, <4>1 DEF LeavesOf
      <4> QED
        BY <1>5, <4>2
    <3>2. Kind[p] # "fixpoint" => p \in LeavesOf(stack[n].passes[k])
      BY <3>1 DEF LeavesOf
    <3>3. n \in 2..Len(stack) /\ k \in 1..(stack[n].at - 1)
      BY <1>0, <1>6 DEF n
    <3>4. Quiet(n)
      BY <1>0, <1>1 DEF Quiet, n
    <3>5. Kind[p] # "fixpoint" => Stable(p, g)
      BY <2>0, <3>2, <3>3, <3>4 DEF FixInv, RoundInv
    <3>6. Kind[p] = "fixpoint" => Stable(p, g)
      BY DEF Stable
    <3> QED
      BY <1>1, <3>5, <3>6, ControlKeepsStable
  <2> QED
    BY <2>3, <2>4
<1>10. PassInv'
  BY <1>1 DEF PassInv
<1> QED
  BY <1>7, <1>8, <1>9, <1>10 DEF FixInv

\* One step per action of the plain pipeline.
LEMMA FixStep == LogInv /\ FixInv /\ [PlainNext]_pipelineVars => FixInv'
<1> SUFFICES ASSUME LogInv, FixInv, [PlainNext]_pipelineVars PROVE FixInv'
  OBVIOUS
<1>0. /\ LogTypes /\ bodies \in [FuncSet -> Bodies] /\ threads \in [FuncSet -> Nat]
      /\ Len(Funcs) \in Nat /\ Unseen \notin Bodies
      /\ next \in 1..(Len(Funcs) + 1)
  BY PipelineAssumption DEF LogInv, LogTypes, FixInv, NextInv
<1>1. ASSUME NEW f \in FuncSet, RunOn(f) PROVE FixInv'
  <2> DEFINE b == Rewritten(Current, f)
  <2>1. /\ Running("func") /\ Visit(f, b) /\ UNCHANGED base
        /\ threads' = IF Current = JumpThread /\ b # bodies[f]
                      THEN [threads EXCEPT ![f] = @ + 1] ELSE threads
    BY <1>1 DEF RunOn
  <2>2. InPass /\ ~Running("deadfunc") /\ ~Running("fixpoint") /\ Kind[Current] = "func"
    BY <2>1 DEF Running
  <2>3. CASE b # bodies[f]
    <3> HIDE DEF b
    <3> QED
      BY <2>1, <2>2, <2>3, LoudVisit
  <2>4. CASE b = bodies[f]
    <3>1. Visit(f, bodies[f]) /\ UNCHANGED threads
      BY <2>1, <2>4
    <3>2. UNCHANGED bodies
      BY <1>0, <3>1 DEF Visit
    <3>3. \A g \in FuncSet : Base(g)' = Base(g)
      BY <2>1, <3>2 DEF Base
    <3>4. Stable(Current, f)
      BY <2>2, <2>4 DEF Stable
    <3> QED
      BY <2>2, <3>1, <3>3, <3>4, QuietVisit
  <2> QED
    BY <2>3, <2>4
<1>2. ASSUME NEW f \in FuncSet, SkipFunction(f) PROVE FixInv'
  <2>1. /\ InPass /\ ~Running("deadfunc") /\ ~Running("fixpoint") /\ ~Visited(f)
        /\ Visit(f, bodies[f]) /\ UNCHANGED <<threads, base>>
    BY <1>2 DEF SkipFunction, Running, Passed
  <2>2. UNCHANGED bodies
    BY <1>0, <2>1 DEF Visit
  <2>3. \A g \in FuncSet : Base(g)' = Base(g)
    BY <2>1, <2>2 DEF Base
  <2> QED
    BY <2>1, <2>3, QuietVisit
<1>3. ASSUME NEW f \in FuncSet, InlineOn(f) PROVE FixInv'
  <2> DEFINE b == Inlined(f)
  <2>1. /\ Running("inline") /\ Visit(f, b) /\ UNCHANGED threads
        /\ base' = IF bodies[f] \in SecondaryEntry \/ f \in NoSplit THEN base
                   ELSE [base EXCEPT ![f] = Base(f)]
    BY <1>3 DEF InlineOn
  <2>2. InPass /\ ~Running("deadfunc") /\ ~Running("fixpoint") /\ Kind[Current] = "inline"
    BY <2>1 DEF Running
  <2>3. CASE b # bodies[f]
    <3> HIDE DEF b
    <3> QED
      BY <2>1, <2>2, <2>3, LoudVisit
  <2>4. CASE b = bodies[f]
    <3>1. Visit(f, bodies[f])
      BY <2>1, <2>4
    <3>2. UNCHANGED bodies
      BY <1>0, <3>1 DEF Visit
    <3>3. \A g \in FuncSet : Base(g)' = Base(g)
      <4>1. base \in [FuncSet -> Bodies \cup {Unseen}] /\ \A g \in FuncSet : Base(g) \in Bodies
        BY <1>0 DEF LogTypes, Base
      <4> QED
        BY <1>0, <2>1, <3>2, <4>1 DEF Base
    <3>4. Stable(Current, f)
      BY <2>2, <2>4 DEF Stable
    <3> QED
      BY <2>1, <2>2, <3>1, <3>3, <3>4, QuietVisit
  <2> QED
    BY <2>3, <2>4
<1>4. ASSUME NEW f \in FuncSet, UnrollOn(f) \/ NoSplitOn(f) PROVE FixInv'
  <2>1. \E b : Visit(f, b) /\ UNCHANGED <<threads, base>>
    BY <1>4 DEF UnrollOn, NoSplitOn
  <2>2. /\ InPass /\ ~Running("deadfunc") /\ ~Running("fixpoint")
        /\ Kind[Current] \in {"unroll", "nosplit"}
    BY <1>4 DEF UnrollOn, NoSplitOn, Running
  <2>3. PICK b : Visit(f, b) /\ UNCHANGED <<threads, base>>
    BY <2>1
  <2>4. CASE b # bodies[f]
    BY <2>2, <2>3, <2>4, LoudVisit
  <2>5. CASE b = bodies[f]
    <3>1. Visit(f, bodies[f]) /\ UNCHANGED threads
      BY <2>3, <2>5
    <3>2. UNCHANGED bodies
      BY <1>0, <3>1 DEF Visit
    <3>3. \A g \in FuncSet : Base(g)' = Base(g)
      BY <2>3, <3>2 DEF Base
    <3>4. Stable(Current, f)
      BY <2>2 DEF Stable
    <3> QED
      BY <2>2, <3>1, <3>3, <3>4, QuietVisit
  <2> QED
    BY <2>4, <2>5
<1>5. CASE DropDead
  <2>1. /\ Running("deadfunc") /\ next <= Len(Funcs) /\ next' = Len(Funcs) + 1
        /\ live' \subseteq live /\ UNCHANGED <<bodies, frozen, threads, base, stack>>
    BY <1>5 DEF DropDead
  <2>2. next = 1 /\ ~moved
    BY <1>0, <2>1 DEF FixInv, NextInv
  <2>3. NestInv'
    BY <2>1 DEF FixInv, NestInv, At
  <2>4. NextInv'
    BY <1>0, <2>1 DEF NextInv, Running, InPass, Current, Top
  <2>5. RoundInv'
    <3> SUFFICES ASSUME NEW i \in 2..Len(stack'), Quiet(i)', NEW j \in 1..(stack'[i].at - 1),
                        NEW p \in LeavesOf(stack'[i].passes[j]), NEW g \in live' \ frozen'
                 PROVE  Stable(p, g)'
      BY DEF RoundInv
    <3>1. Quiet(i)
      BY <2>1, <2>2 DEF Quiet
    <3>2. Stable(p, g)
      BY <2>1, <3>1 DEF FixInv, RoundInv
    <3> QED
      BY <2>1, <3>2, ControlKeepsStable
  <2>6. PassInv'
    BY <2>1 DEF PassInv, Stable, Running, Current, Top
  <2> QED
    BY <2>3, <2>4, <2>5, <2>6 DEF FixInv
<1>6. CASE Freeze
  <2>1. Len(stack) = 1 /\ next = 1 /\ UNCHANGED <<stack, next, moved>>
    BY <1>6 DEF Freeze
  <2>2. NestInv' /\ NextInv'
    BY <2>1 DEF FixInv, NestInv, NextInv, At, Running, InPass, Current, Top
  <2>3. 2..Len(stack') = {} /\ 1..(next' - 1) = {}
    BY <2>1
  <2>4. RoundInv' /\ PassInv'
    BY <2>3 DEF RoundInv, PassInv
  <2> QED
    BY <2>2, <2>4 DEF FixInv
<1>7. CASE UNCHANGED pipelineVars
  <2>1. UNCHANGED <<bodies, live, frozen, threads, base, stack, next, moved>>
    BY <1>7 DEF pipelineVars
  <2>2. NestInv' /\ NextInv'
    BY <2>1 DEF FixInv, NestInv, NextInv, At, Running, InPass, Current, Top
  <2>3. RoundInv'
    BY <2>1, ControlKeepsStable DEF FixInv, RoundInv, Quiet
  <2>4. PassInv'
    BY <2>1, ControlKeepsStable DEF FixInv, PassInv, InPass, Current, Top, Visited
  <2> QED
    BY <2>2, <2>3, <2>4 DEF FixInv
<1> QED
  BY <1>1, <1>2, <1>3, <1>4, <1>5, <1>6, <1>7, EndPassStep, EnterStep, AgainStep, ReturnStep
     DEF PlainNext

\* FixpointHolds for every pipeline and module: a fixpoint returns only when none
\* of its passes would change any function it may touch, though visits were
\* skipped, nested fixpoints ran rounds of their own and the log was kept by
\* passes that mark what they moved only when they end.
THEOREM FixpointsAreReached == SafeSpec => []FixpointHolds
<1>1. LogInv /\ FixInv /\ [Next]_vars => FixInv'
  BY PlainStep, FixStep
<1>2. LogInv /\ FixInv => FixpointHolds
  <2> SUFFICES ASSUME LogInv, FixInv, Len(stack) > 1, ~InPass, ~Top.round,
                      NEW p \in Leaves(Top.passes), NEW f \in live \ frozen
               PROVE  Stable(p, f)
    BY DEF FixpointHolds, Stable
  <2>1. /\ stack \in Seq(Frames) /\ Len(stack) \in Nat /\ Top = stack[Len(stack)]
        /\ Top \in Frames
    BY CurrentType DEF LogInv, StackTypes, Top
  <2>2. Top.at > Len(Top.passes) /\ Top.at \in Nat /\ Len(Top.passes) \in Nat
    BY <2>1 DEF InPass, Frames
  <2>3. PICK j \in 1..Len(Top.passes) : p \in LeavesOf(Top.passes[j])
    <3>1. Leaves(Top.passes) = UNION {LeavesOf(q) : q \in {Top.passes[j] : j \in 1..Len(Top.passes)}}
      BY DEF Leaves, LeavesOf
    <3> QED
      BY <3>1
  <2>4. Quiet(Len(stack))
    BY <2>1 DEF FixInv, NextInv, Quiet
  <2>5. Len(stack) \in 2..Len(stack) /\ j \in 1..(stack[Len(stack)].at - 1)
    BY <2>1, <2>2
  <2> QED
    BY <2>1, <2>3, <2>4, <2>5 DEF FixInv, RoundInv
<1> QED
  BY LogInit, LogStep, FixInit, <1>1, <1>2, PTL DEF SafeSpec

\* TypeOK: the pipeline's position is a position, and no pass has converged on a
\* version that has yet to come.
THEOREM TypesHold == SafeSpec => []TypeOK
<1>1. LogInv /\ FixInv /\ [Next]_vars => FixInv'
  BY PlainStep, FixStep
<1>2. LogInv /\ FixInv => TypeOK
  <2> SUFFICES ASSUME LogInv, FixInv PROVE TypeOK
    OBVIOUS
  <2>1. \A i \in 1..Len(stack) :
          /\ stack[i].at \in 1..(Len(stack[i].passes) + 1)
          /\ stack[i].round \in BOOLEAN /\ stack[i].any \in BOOLEAN
    <3> SUFFICES ASSUME NEW i \in 1..Len(stack)
                 PROVE  /\ stack[i].at \in 1..(Len(stack[i].passes) + 1)
                        /\ stack[i].round \in BOOLEAN /\ stack[i].any \in BOOLEAN
      OBVIOUS
    <3>1. stack[i] \in Frames /\ stack[i].at <= Len(stack[i].passes) + 1
      BY DEF LogInv, StackTypes, FixInv, NestInv
    <3> QED
      BY <3>1 DEF Frames
  <2>2. frozen \subseteq FuncSet /\ stack # <<>> /\ next \in 1..(Len(Funcs) + 1)
    BY PipelineAssumption DEF LogInv, LogTypes, StackTypes, FixInv, NextInv
  <2>3. \A p \in Passes, f \in FuncSet : converged[p][f] = Never \/ converged[p][f] <= version[f]
    BY DEF LogInv, NotAhead
  <2> QED
    BY <2>1, <2>2, <2>3 DEF TypeOK, LogInv, LogTypes
<1> QED
  BY LogInit, LogStep, FixInit, <1>1, <1>2, PTL DEF SafeSpec
=============================================================================
