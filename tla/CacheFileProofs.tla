--------------------------- MODULE CacheFileProofs ---------------------------
(***************************************************************************)
(* Proofs about CacheFile: for any number of builds, keys and crashes, and *)
(* whatever trims run beside the writes.                                   *)
(***************************************************************************)
EXTENDS CacheFile, SumsAndPaths, TLAPS

\* A build that still has a key to ask for, or is in the middle of one.
Asking == {"ask", "stat", "chtimes", "create", "fill", "rename"}

\* The part of the types the argument needs.
PathsInv ==
  /\ dir \in [Paths -> File \cup {Absent}]
  /\ clock \in Int
  /\ pc \in [Builds -> Labels]
  /\ todo \in [Builds -> Seq(Keys)]
  /\ \A b \in Builds : pc[b] \in Asking => todo[b] # <<>>

\* The temporary about to be renamed holds everything that was to be written.
FilledInv ==
  \A b \in Builds : pc[b] = "rename" /\ Exists(Temp(b, Key(b))) => dir[Temp(b, Key(b))].whole

WholeInv == PathsInv /\ WholeEntries /\ FilledInv

-----------------------------------------------------------------------------
\* The directory starts with whole files only.
LEMMA InitWhole == Init => WholeInv
<1> SUFFICES ASSUME Init PROVE WholeInv
  OBVIOUS
<1> USE CacheFileAssumption, AbsentAssumption, InitialAssumption DEF Init
<1>1. PICK times \in Initial :
        dir = [p \in Paths |-> IF p[2] = 0 /\ p[1] \in DOMAIN times
                               THEN [size |-> Size[p[1]], mtime |-> times[p[1]], whole |-> TRUE]
                               ELSE Absent]
  OBVIOUS
<1>2. \A p \in Paths : dir[p] \in File \cup {Absent}
  BY <1>1 DEF File, Paths
<1>3. PathsInv
  <2>1. dir \in [Paths -> File \cup {Absent}]
    BY <1>1, <1>2
  <2>2. clock \in Int
    OBVIOUS
  <2>3. pc \in [Builds -> Labels] /\ todo \in [Builds -> Seq(Keys)]
    BY DEF Labels
  <2>4. \A b \in Builds : pc[b] \in Asking => todo[b] # <<>>
    BY DEF Asking
  <2> QED
    BY <2>1, <2>2, <2>3, <2>4 DEF PathsInv
<1>4. WholeEntries
  BY <1>1 DEF WholeEntries, Exists, Entry, Paths
<1>5. FilledInv
  BY DEF FilledInv
<1> QED
  BY <1>3, <1>4, <1>5 DEF WholeInv

\* The paths of entries and of temporaries are paths, and no two of them meet.
LEMMA PathFacts ==
  ASSUME PathsInv, NEW b \in Builds, pc[b] \in Asking
  PROVE  /\ Key(b) \in Keys /\ Key(b) \in Names
         /\ Entry(Key(b)) \in Paths /\ Temp(b, Key(b)) \in Paths
         /\ \A n \in Names : Entry(n) # Temp(b, Key(b))
         /\ \A c \in Builds, k \in Keys : c # b => Temp(c, k) # Temp(b, Key(b))
<1>1. Key(b) \in Keys
  BY DEF PathsInv, Key
<1> QED
  BY <1>1, CacheFileAssumption DEF Names, Paths, Entry, Temp

\* Leaving a key leaves nothing of it behind in pc.
LEMMA NextKeyFacts ==
  ASSUME PathsInv, NEW b \in Builds, pc[b] \in Asking, NextKey(b)
  PROVE  /\ pc' \in [Builds -> Labels] /\ todo' \in [Builds -> Seq(Keys)]
         /\ \A c \in Builds : pc'[c] \in Asking => todo'[c] # <<>>
         /\ pc'[b] # "rename"
         /\ \A c \in Builds : c # b => pc'[c] = pc[c] /\ todo'[c] = todo[c]
<1>1. /\ pc' = [pc EXCEPT ![b] = IF Len(todo[b]) = 1 THEN "trim" ELSE "ask"]
      /\ todo' = [todo EXCEPT ![b] = Tail(@)]
  BY DEF NextKey, Goto
<1>2. todo[b] \in Seq(Keys) /\ todo[b] # <<>>
  BY DEF PathsInv
<1>3. Tail(todo[b]) \in Seq(Keys) /\ Len(Tail(todo[b])) = Len(todo[b]) - 1
  BY <1>2
<1>4. Len(todo[b]) # 1 => Tail(todo[b]) # <<>>
  <2>1. Len(todo[b]) \in Nat \ {0}
    BY <1>2
  <2>2. Len(todo[b]) # 1 => Len(Tail(todo[b])) # 0
    BY <1>3, <2>1
  <2> QED
    BY <2>2
<1>5. todo' \in [Builds -> Seq(Keys)]
  BY <1>1, <1>3 DEF PathsInv
<1>6. pc' \in [Builds -> Labels] /\ pc'[b] # "rename"
  BY <1>1 DEF PathsInv, Labels
<1>7. \A c \in Builds : c # b => pc'[c] = pc[c] /\ todo'[c] = todo[c]
  BY <1>1 DEF PathsInv
<1>8. \A c \in Builds : pc'[c] \in Asking => todo'[c] # <<>>
  BY <1>1, <1>4, <1>7 DEF PathsInv, Asking
<1> QED
  BY <1>5, <1>6, <1>7, <1>8

\* A step that moves no file other than by removing it, or touching its time, and
\* brings no build to "rename", keeps every entry whole.
LEMMA QuietStep ==
  ASSUME WholeInv,
         dir' \in [Paths -> File \cup {Absent}],
         \A p \in Paths : dir'[p] # Absent => dir[p] # Absent /\ dir'[p].whole = dir[p].whole,
         \A b \in Builds : pc'[b] = "rename" => pc[b] = "rename" /\ todo'[b] = todo[b],
         PathsInv'
  PROVE  WholeInv'
<1>1. WholeEntries'
  BY CacheFileAssumption DEF WholeInv, WholeEntries, Exists, Entry, Paths
<1>2. FilledInv'
  <2> SUFFICES ASSUME NEW b \in Builds, pc'[b] = "rename", dir'[Temp(b, Key(b)')] # Absent
               PROVE  dir'[Temp(b, Key(b)')].whole
    BY DEF FilledInv, Exists, Temp
  <2>1. pc[b] = "rename" /\ Key(b)' = Key(b)
    BY DEF Key
  <2>2. Temp(b, Key(b)) \in Paths
    BY <2>1, PathFacts DEF WholeInv, Asking
  <2> QED
    BY <2>1, <2>2 DEF WholeInv, FilledInv, Exists
<1> QED
  BY <1>1, <1>2 DEF WholeInv

\* One step of Build, of Crash or of Tick keeps the entries whole.
LEMMA WholeStep == WholeInv /\ [Next]_vars => WholeInv'
<1> SUFFICES ASSUME WholeInv, [Next]_vars PROVE WholeInv'
  OBVIOUS
<1>0. PathsInv /\ WholeEntries /\ FilledInv
  BY DEF WholeInv
<1>1. CASE Tick \/ UNCHANGED vars
  <2>1. UNCHANGED <<dir, pc, todo>> /\ clock' \in Int
    BY <1>0, <1>1 DEF Tick, vars, PathsInv
  <2>2. PathsInv'
    BY <1>0, <2>1 DEF PathsInv
  <2> QED
    BY <1>0, <2>1, <2>2, QuietStep DEF PathsInv
<1>2. ASSUME NEW b \in Builds, Build(b) \/ Crash(b)
      PROVE  WholeInv'
  <2>1. CASE ReadHit(b) \/ ReadMiss(b)
    <3>1. UNCHANGED <<dir, todo, clock>> /\ pc[b] = "ask"
          /\ \E l \in {"stat", "create"} : pc' = [pc EXCEPT ![b] = l]
      BY <2>1 DEF ReadHit, ReadMiss, Goto
    <3>2. PathsInv'
      BY <1>0, <3>1 DEF PathsInv, Asking, Labels
    <3> QED
      BY <1>0, <3>1, <3>2, QuietStep DEF PathsInv
  <2>2. CASE StatUsed(b)
    <3>1. UNCHANGED <<dir, clock>> /\ pc[b] = "stat" /\ pc[b] \in Asking
      BY <2>2 DEF StatUsed, Asking
    <3>2. CASE Goto(b, "chtimes") /\ UNCHANGED todo
      <4>1. PathsInv'
        BY <1>0, <3>1, <3>2 DEF PathsInv, Asking, Labels, Goto
      <4> QED
        BY <1>0, <3>1, <3>2, <4>1, QuietStep DEF PathsInv, Goto
    <3>3. CASE NextKey(b)
      <4>1. PathsInv'
        BY <1>0, <3>1, <3>3, NextKeyFacts DEF PathsInv
      <4> QED
        BY <1>0, <3>1, <3>3, <4>1, QuietStep, NextKeyFacts DEF PathsInv
    <3> QED
      BY <2>2, <3>2, <3>3 DEF StatUsed
  <2>3. CASE Chtimes(b)
    <3>1. NextKey(b) /\ clock' = clock /\ pc[b] \in Asking /\ clock \in Int
      BY <1>0, <2>3 DEF Chtimes, Asking, PathsInv
    <3>2. Entry(Key(b)) \in Paths
      BY <1>0, <3>1, PathFacts
    <3>3. /\ dir' \in [Paths -> File \cup {Absent}]
          /\ \A p \in Paths : dir'[p] # Absent => dir[p] # Absent /\ dir'[p].whole = dir[p].whole
      <4>1. CASE Exists(Entry(Key(b)))
        <5>1. dir[Entry(Key(b))] \in File
          BY <1>0, <3>2, <4>1 DEF Exists, PathsInv
        <5>2. dir' = [dir EXCEPT ![Entry(Key(b))] = [dir[Entry(Key(b))] EXCEPT !.mtime = clock]]
          BY <2>3, <4>1 DEF Chtimes
        <5>3. /\ [dir[Entry(Key(b))] EXCEPT !.mtime = clock] \in File
              /\ [dir[Entry(Key(b))] EXCEPT !.mtime = clock].whole = dir[Entry(Key(b))].whole
          BY <3>1, <5>1 DEF File
        <5> QED
          BY <1>0, <3>2, <4>1, <5>2, <5>3 DEF PathsInv, Exists
      <4>2. CASE ~Exists(Entry(Key(b)))
        BY <1>0, <2>3, <4>2 DEF Chtimes, PathsInv
      <4> QED
        BY <4>1, <4>2
    <3>4. PathsInv'
      BY <1>0, <3>1, <3>3, NextKeyFacts DEF PathsInv
    <3> QED
      BY <1>0, <3>1, <3>3, <3>4, QuietStep, NextKeyFacts
  <2>4. CASE CreateTemp(b)
    <3> DEFINE t == Temp(b, Key(b))
    <3>1. /\ dir' = [dir EXCEPT ![t] = [size |-> 0, mtime |-> clock, whole |-> FALSE]]
          /\ pc' = [pc EXCEPT ![b] = "fill"] /\ UNCHANGED <<todo, clock>> /\ pc[b] \in Asking
      BY <2>4 DEF CreateTemp, Goto, Asking
    <3>2. PathsInv'
      <4>1. [size |-> 0, mtime |-> clock, whole |-> FALSE] \in File
        BY <1>0 DEF File, PathsInv
      <4> QED
        BY <1>0, <3>1, <4>1 DEF PathsInv, Asking, Labels
    <3>3. \A n \in Names : Entry(n) \in Paths /\ Entry(n) # t
      BY <1>0, <3>1, PathFacts DEF Entry, Paths
    <3>4. WholeEntries'
      BY <1>0, <3>1, <3>3 DEF WholeEntries, Exists, PathsInv
    <3>5. FilledInv'
      <4> SUFFICES ASSUME NEW c \in Builds, pc'[c] = "rename", dir'[Temp(c, Key(c)')] # Absent
                   PROVE  dir'[Temp(c, Key(c)')].whole
        BY DEF FilledInv, Exists, Temp
      <4>1. c # b /\ pc[c] = "rename" /\ Key(c)' = Key(c)
        BY <1>0, <3>1 DEF PathsInv, Key
      <4>2. Temp(c, Key(c)) \in Paths /\ Temp(c, Key(c)) # t
        BY <1>0, <3>1, <4>1, PathFacts DEF Asking
      <4> QED
        BY <1>0, <3>1, <4>1, <4>2 DEF FilledInv, Exists, PathsInv
    <3> QED
      BY <3>2, <3>4, <3>5 DEF WholeInv
  <2>5. CASE FillTemp(b)
    <3> DEFINE t == Temp(b, Key(b))
               full == [size |-> Size[Key(b)], mtime |-> clock, whole |-> TRUE]
    <3>1. /\ dir' = IF Exists(t) THEN [dir EXCEPT ![t] = full] ELSE dir
          /\ pc' = [pc EXCEPT ![b] = "rename"] /\ UNCHANGED <<todo, clock>> /\ pc[b] \in Asking
      BY <2>5 DEF FillTemp, Goto, Asking
    <3>2. full \in File
      BY <1>0, <3>1, PathFacts, CacheFileAssumption DEF File, PathsInv
    <3>3. PathsInv'
      BY <1>0, <3>1, <3>2 DEF PathsInv, Asking, Labels
    <3>4. t \in Paths /\ \A n \in Names : Entry(n) \in Paths /\ Entry(n) # t
      BY <1>0, <3>1, PathFacts DEF Entry, Paths
    <3>5. WholeEntries'
      BY <1>0, <3>1, <3>4 DEF WholeEntries, Exists, PathsInv
    <3>6. FilledInv'
      <4> SUFFICES ASSUME NEW c \in Builds, pc'[c] = "rename", dir'[Temp(c, Key(c)')] # Absent
                   PROVE  dir'[Temp(c, Key(c)')].whole
        BY DEF FilledInv, Exists, Temp
      <4>1. Key(c)' = Key(c)
        BY <3>1 DEF Key
      <4>2. CASE c = b
        BY <1>0, <3>1, <3>4, <4>1, <4>2 DEF Exists, PathsInv
      <4>3. CASE c # b
        <5>1. pc[c] = "rename"
          BY <1>0, <3>1, <4>3 DEF PathsInv
        <5>2. Temp(c, Key(c)) \in Paths /\ Temp(c, Key(c)) # t
          BY <1>0, <3>1, <4>3, <5>1, PathFacts DEF Asking
        <5> QED
          BY <1>0, <3>1, <4>1, <5>1, <5>2 DEF FilledInv, Exists, PathsInv
      <4> QED
        BY <4>2, <4>3
    <3> QED
      BY <3>3, <3>5, <3>6 DEF WholeInv
  <2>6. CASE WriteFails(b)
    <3>1. /\ dir' = [dir EXCEPT ![Temp(b, Key(b))] = Absent]
          /\ NextKey(b) /\ clock' = clock /\ pc[b] \in Asking
      BY <2>6 DEF WriteFails, Asking
    <3>2. PathsInv'
      BY <1>0, <3>1, NextKeyFacts DEF PathsInv
    <3> QED
      BY <1>0, <3>1, <3>2, QuietStep, NextKeyFacts DEF PathsInv
  <2>7. CASE Rename(b)
    <3> DEFINE t == Temp(b, Key(b))
               e == Entry(Key(b))
    <3>1. /\ dir' = IF Exists(t) THEN [dir EXCEPT ![e] = dir[t], ![t] = Absent] ELSE dir
          /\ NextKey(b) /\ clock' = clock /\ pc[b] \in Asking /\ pc[b] = "rename"
      BY <2>7 DEF Rename, Asking
    <3>2. t \in Paths /\ e \in Paths /\ \A n \in Names : Entry(n) \in Paths /\ Entry(n) # t
      BY <1>0, <3>1, PathFacts DEF Entry, Paths
    <3>3. PathsInv'
      BY <1>0, <3>1, <3>2, NextKeyFacts DEF PathsInv
    <3>4. WholeEntries'
      <4>1. Exists(t) => dir[t].whole
        BY <1>0, <3>1 DEF FilledInv
      <4> QED
        BY <1>0, <3>1, <3>2, <4>1 DEF WholeEntries, Exists, PathsInv
    <3>5. FilledInv'
      <4> SUFFICES ASSUME NEW c \in Builds, pc'[c] = "rename", dir'[Temp(c, Key(c)')] # Absent
                   PROVE  dir'[Temp(c, Key(c)')].whole
        BY DEF FilledInv, Exists, Temp
      <4>1. c # b /\ pc[c] = "rename" /\ Key(c)' = Key(c)
        BY <1>0, <3>1, NextKeyFacts DEF Key
      <4>2. Temp(c, Key(c)) \in Paths /\ Temp(c, Key(c)) # t /\ Temp(c, Key(c)) # e
        <5>1. Key(b) \in Names
          BY <1>0, <3>1, PathFacts
        <5> QED
          BY <1>0, <3>1, <4>1, <5>1, PathFacts DEF Asking
      <4> QED
        BY <1>0, <3>1, <4>1, <4>2 DEF FilledInv, Exists, PathsInv
    <3> QED
      BY <3>3, <3>4, <3>5 DEF WholeInv
  <2>8. CASE BeginTrim(b) \/ ListNext(b) \/ Consider(b) \/ EndWalk(b) \/ EndTrim(b) \/ Crash(b)
    <3>1. /\ UNCHANGED <<dir, todo, clock>>
          /\ \/ pc' = pc
             \/ \E l \in Labels \ Asking : pc' = [pc EXCEPT ![b] = l]
      BY <2>8 DEF BeginTrim, ListNext, Consider, EndWalk, EndTrim, Crash, Goto, Labels, Asking
    <3>2. PathsInv'
      BY <1>0, <3>1 DEF PathsInv
    <3>3. \A c \in Builds : pc'[c] = "rename" => pc[c] = "rename"
      BY <1>0, <3>1 DEF PathsInv, Asking
    <3> QED
      BY <1>0, <3>1, <3>2, <3>3, QuietStep DEF PathsInv
  <2>9. CASE RemoveAged(b) \/ Evict(b)
    <3>1. /\ UNCHANGED <<pc, todo, clock>>
          /\ \/ dir' = dir
             \/ \E p : dir' = [dir EXCEPT ![p] = Absent]
      BY <2>9 DEF RemoveAged, Evict
    <3>2. /\ dir' \in [Paths -> File \cup {Absent}]
          /\ \A p \in Paths : dir'[p] # Absent => dir'[p] = dir[p]
      BY <1>0, <3>1 DEF PathsInv
    <3>3. PathsInv'
      BY <1>0, <3>1, <3>2 DEF PathsInv
    <3> QED
      BY <1>0, <3>1, <3>2, <3>3, QuietStep
  <2> QED
    BY <1>2, <2>1, <2>2, <2>3, <2>4, <2>5, <2>6, <2>7, <2>8, <2>9 DEF Build
<1> QED
  BY <1>1, <1>2 DEF Next

\* No reader ever finds a half-written entry: not beside racing writers, not
\* after a crash, not while a trim takes temporaries away.
THEOREM EntriesStayWhole == Spec => []WholeEntries
<1>1. WholeInv => WholeEntries
  BY DEF WholeInv
<1> QED
  BY InitWhole, WholeStep, <1>1, PTL DEF Spec

-----------------------------------------------------------------------------
\* The names a trim may list, and their paths: everything but the top-level
\* files that are not named like a key.
OurNames == Keys \cup Flat \cup OwnNested
OurPaths == {p \in Paths : p[1] \in OurNames}

\* The locals of a Trim.
Walk == [cutoff : Int, names : SUBSET OurNames, listed : SUBSET OurPaths,
         aged : SUBSET OurPaths, survivors : SUBSET Survivor, total : Int]

\* What a survivor counts for.
SurvivorSize == [s \in Survivor |-> s.size]

\* Every path is considered once, so no file is counted twice, and the total is
\* that of the survivors not yet evicted.
CountInv(b) ==
  /\ \A p \in trim[b].listed : p[1] \notin trim[b].names
  /\ \A p, q \in trim[b].aged : p = q
  /\ \A s \in trim[b].survivors :
       /\ s.path \in OurPaths
       /\ s.path[1] \notin trim[b].names /\ s.path \notin trim[b].listed
       /\ \A r \in trim[b].survivors : r.path = s.path => r = s
  /\ IsFiniteSet(trim[b].survivors)
  /\ trim[b].total = SumFunctionOnSet(SurvivorSize, trim[b].survivors)

\* The locals of every trim, and what each of them has counted.
TrimInv ==
  /\ clock \in Nat
  /\ fanout \subseteq Keys \cup OwnNested
  /\ trim \in [Builds -> Walk]
  /\ \A b \in Builds : CountInv(b)

\* What the code's locals hold after an assignment to some of them.
LEMMA TrimUpdate ==
  ASSUME trim \in [Builds -> Walk], NEW b \in Builds, NEW r \in Walk,
         trim' = [trim EXCEPT ![b] = r]
  PROVE  /\ trim' \in [Builds -> Walk]
         /\ trim'[b] = r
         /\ \A c \in Builds : c # b => trim'[c] = trim[c]
OBVIOUS

\* The locals after ReadDir of the cache directory: nothing considered yet.
LEMMA BeginTrimFields ==
  ASSUME TrimInv, NEW b \in Builds, BeginTrim(b)
  PROVE  /\ trim' \in [Builds -> Walk]
         /\ \A c \in Builds : c # b => trim'[c] = trim[c]
         /\ trim'[b].cutoff = clock - TrimCutoff
         /\ trim'[b].names = fanout \cup {n \in Flat : Exists(Entry(n))}
         /\ trim'[b].listed = {} /\ trim'[b].aged = {}
         /\ trim'[b].survivors = {} /\ trim'[b].total = 0
<1> DEFINE cut == clock - TrimCutoff
           found == fanout \cup {n \in Flat : Exists(Entry(n))}
           r == [NoTrim EXCEPT !.cutoff = cut, !.names = found]
<1>1. trim' = [trim EXCEPT ![b] = r]
  BY DEF BeginTrim
<1>2. cut \in Int /\ found \in SUBSET OurNames
  BY CacheFileAssumption DEF TrimInv, OurNames
<1> HIDE DEF cut, found
<1>3. r \in Walk
  <2>1. NoTrim \in Walk
    BY DEF Walk, NoTrim
  <2> QED
    BY <1>2, <2>1 DEF Walk
<1>4. /\ r.cutoff = cut /\ r.names = found /\ r.listed = {} /\ r.aged = {}
      /\ r.survivors = {} /\ r.total = 0
  BY DEF NoTrim
<1> QED
  BY <1>1, <1>3, <1>4, TrimUpdate DEF TrimInv, cut, found

\* The locals after a fanout directory, or a top-level file, is listed.
LEMMA ListNextFields ==
  ASSUME TrimInv, NEW b \in Builds, ListNext(b)
  PROVE  /\ trim' \in [Builds -> Walk]
         /\ \A c \in Builds : c # b => trim'[c] = trim[c]
         /\ \E n \in trim[b].names :
              trim'[b] = [trim[b] EXCEPT !.names = @ \ {n},
                                         !.listed = {p \in Paths : p[1] = n /\ Exists(p)}]
<1> DEFINE n == Min(trim[b].names)
           r == [trim[b] EXCEPT !.names = @ \ {n},
                                !.listed = {p \in Paths : p[1] = n /\ Exists(p)}]
<1>1. trim[b] \in Walk /\ trim[b].names \subseteq OurNames /\ trim[b].names # {}
  BY DEF TrimInv, Walk, ListNext
<1>2. n \in trim[b].names
  BY <1>1, LeastNatural, CacheFileAssumption DEF OurNames, Names
<1>3. trim' = [trim EXCEPT ![b] = r]
  BY <1>1 DEF ListNext, TrimInv
<1>4. r \in Walk
  BY <1>1, <1>2 DEF Walk, OurPaths
<1> QED
  BY <1>1, <1>2, <1>3, <1>4, TrimUpdate DEF TrimInv

\* The locals after consider has looked at a path.
LEMMA ConsiderFields ==
  ASSUME PathsInv, TrimInv, NEW b \in Builds, Consider(b)
  PROVE  /\ trim' \in [Builds -> Walk]
         /\ \A c \in Builds : c # b => trim'[c] = trim[c]
         /\ trim[b].aged = {} /\ pc[b] = "walk"
         /\ \E p \in trim[b].listed :
              /\ trim'[b].cutoff = trim[b].cutoff /\ trim'[b].names = trim[b].names
              /\ trim'[b].listed = trim[b].listed \ {p}
              /\ trim'[b].aged = IF Exists(p) /\ dir[p].mtime < trim[b].cutoff THEN {p} ELSE {}
              /\ IF Exists(p) /\ ~(dir[p].mtime < trim[b].cutoff) /\ Budget > 0
                 THEN LET s == [path |-> p, used |-> dir[p].mtime, size |-> dir[p].size]
                      IN  /\ s \in Survivor
                          /\ trim'[b].survivors = trim[b].survivors \cup {s}
                          /\ trim'[b].total = trim[b].total + s.size
                 ELSE /\ trim'[b].survivors = trim[b].survivors
                      /\ trim'[b].total = trim[b].total
<1>1. trim[b] \in Walk
  BY DEF TrimInv
<1>2. PICK p \in trim[b].listed :
        LET aged == Exists(p) /\ dir[p].mtime < trim[b].cutoff
            kept == Exists(p) /\ ~aged /\ Budget > 0
        IN  trim' = [trim EXCEPT
              ![b].listed = @ \ {p},
              ![b].aged = IF aged THEN {p} ELSE {},
              ![b].survivors =
                IF kept THEN @ \cup {[path |-> p, used |-> dir[p].mtime, size |-> dir[p].size]}
                        ELSE @,
              ![b].total = IF kept THEN @ + dir[p].size ELSE @]
  BY DEF Consider
<1> DEFINE aged == Exists(p) /\ dir[p].mtime < trim[b].cutoff
           kept == Exists(p) /\ ~aged /\ Budget > 0
           s == [path |-> p, used |-> dir[p].mtime, size |-> dir[p].size]
           r == [trim[b] EXCEPT !.listed = @ \ {p},
                                !.aged = IF aged THEN {p} ELSE {},
                                !.survivors = IF kept THEN @ \cup {s} ELSE @,
                                !.total = IF kept THEN @ + dir[p].size ELSE @]
<1>3. trim' = [trim EXCEPT ![b] = r]
  BY <1>2, <1>1 DEF TrimInv
<1>4. p \in Paths /\ p \in OurPaths
  BY <1>1 DEF Walk, OurPaths
<1>5. Exists(p) => s \in Survivor
  BY <1>4 DEF PathsInv, File, Survivor, Exists
<1>6. r \in Walk
  <2>1. Exists(p) => s.size \in Int
    BY <1>5 DEF Survivor
  <2> HIDE DEF s
  <2>2. CASE kept
    <3> DEFINE tot == trim[b].total + dir[p].size
               sur == trim[b].survivors \cup {s}
    <3>1. tot \in Int /\ sur \in SUBSET Survivor
      BY <1>1, <1>5, <2>1, <2>2 DEF Walk, s
    <3>2. r = [trim[b] EXCEPT !.listed = @ \ {p}, !.aged = {}, !.survivors = sur, !.total = tot]
      BY <2>2
    <3> HIDE DEF tot, sur, r
    <3> QED
      BY <1>1, <1>4, <3>1, <3>2 DEF Walk
  <2>3. CASE ~kept
    BY <1>1, <1>4, <2>3 DEF Walk
  <2> QED
    BY <2>2, <2>3
<1>7. trim' \in [Builds -> Walk] /\ trim'[b] = r /\ \A c \in Builds : c # b => trim'[c] = trim[c]
  BY <1>3, <1>6, TrimUpdate DEF TrimInv
<1>8. trim[b].aged = {} /\ pc[b] = "walk"
  BY DEF Consider
<1> QED
  BY <1>1, <1>5, <1>7, <1>8 DEF Walk

\* The locals and the directory after consider has removed an aged file.
LEMMA RemoveAgedFields ==
  ASSUME TrimInv, NEW b \in Builds, RemoveAged(b)
  PROVE  /\ trim' \in [Builds -> Walk]
         /\ \A c \in Builds : c # b => trim'[c] = trim[c]
         /\ trim'[b] = [trim[b] EXCEPT !.aged = {}]
         /\ pc[b] = "walk"
         /\ \E p \in trim[b].aged : p \in OurPaths /\ dir' = [dir EXCEPT ![p] = Absent]
<1> DEFINE r == [trim[b] EXCEPT !.aged = {}]
<1>1. trim[b] \in Walk /\ r \in Walk
  BY DEF TrimInv, Walk
<1>2. trim' = [trim EXCEPT ![b] = r]
  BY DEF RemoveAged, TrimInv
<1>3. pc[b] = "walk" /\ \E p \in trim[b].aged : p \in OurPaths /\ dir' = [dir EXCEPT ![p] = Absent]
  BY <1>1 DEF RemoveAged, Walk
<1> QED
  BY <1>1, <1>2, <1>3, TrimUpdate DEF TrimInv

\* The locals and the directory after one file is evicted.
LEMMA EvictFields ==
  ASSUME TrimInv, NEW b \in Builds, Evict(b)
  PROVE  /\ trim' \in [Builds -> Walk]
         /\ \A c \in Builds : c # b => trim'[c] = trim[c]
         /\ Evicting(b)
         /\ \E s \in trim[b].survivors :
              /\ s \in Survivor /\ IsNext(b, s)
              /\ dir' = [dir EXCEPT ![s.path] = Absent]
              /\ trim'[b] = [trim[b] EXCEPT !.survivors = @ \ {s}, !.total = @ - s.size]
<1>1. trim[b] \in Walk
  BY DEF TrimInv
<1>2. PICK s \in trim[b].survivors :
        /\ IsNext(b, s)
        /\ dir' = [dir EXCEPT ![s.path] = Absent]
        /\ trim' = [trim EXCEPT ![b].survivors = @ \ {s}, ![b].total = @ - s.size]
  BY DEF Evict
<1> DEFINE r == [trim[b] EXCEPT !.survivors = @ \ {s}, !.total = @ - s.size]
<1>3. s \in Survivor
  BY <1>1 DEF Walk
<1>4. r \in Walk
  <2>1. s.size \in Int
    BY <1>3 DEF Survivor
  <2> DEFINE tot == trim[b].total - s.size
             sur == trim[b].survivors \ {s}
  <2>2. tot \in Int /\ sur \in SUBSET Survivor
    BY <1>1, <2>1 DEF Walk
  <2>3. r = [trim[b] EXCEPT !.survivors = sur, !.total = tot]
    OBVIOUS
  <2> HIDE DEF tot, sur, r
  <2> QED
    BY <1>1, <2>2, <2>3 DEF Walk
<1>5. trim' = [trim EXCEPT ![b] = r]
  BY <1>2 DEF TrimInv
<1>6. Evicting(b)
  BY DEF Evict
<1> QED
  BY <1>2, <1>3, <1>4, <1>5, <1>6, TrimUpdate DEF TrimInv

\* The steps that change the locals of b's Trim.
OwnTrimStep(b) == BeginTrim(b) \/ ListNext(b) \/ Consider(b) \/ RemoveAged(b) \/ Evict(b)

\* Nobody changes another build's locals.
LEMMA TrimChanges ==
  ASSUME PathsInv, TrimInv, [Next]_vars
  PROVE  /\ trim' \in [Builds -> Walk]
         /\ \A b \in Builds : trim'[b] = trim[b] \/ OwnTrimStep(b)
<1>1. CASE trim' = trim
  BY <1>1 DEF TrimInv
<1>2. ASSUME NEW c \in Builds, OwnTrimStep(c)
      PROVE  trim' \in [Builds -> Walk] /\ \A b \in Builds : b # c => trim'[b] = trim[b]
  BY <1>2, BeginTrimFields, ListNextFields, ConsiderFields, RemoveAgedFields, EvictFields
     DEF OwnTrimStep
<1>3. trim' = trim \/ \E c \in Builds : OwnTrimStep(c)
  BY DEF Next, Build, OwnTrimStep, vars, Tick, Crash, ReadHit, ReadMiss, StatUsed, Chtimes,
         CreateTemp, FillTemp, WriteFails, Rename, EndWalk, EndTrim
<1> QED
  BY <1>1, <1>2, <1>3

\* No trim has begun.
LEMMA TrimInit == Init => TrimInv
<1> SUFFICES ASSUME Init PROVE TrimInv
  OBVIOUS
<1>1. clock \in Nat /\ fanout \subseteq Keys \cup OwnNested
  BY CacheFileAssumption DEF Init
<1>2. NoTrim \in Walk
  BY DEF NoTrim, Walk
<1>3. trim \in [Builds -> Walk]
  BY <1>2 DEF Init
<1>4. ASSUME NEW b \in Builds PROVE CountInv(b)
  <2>1. /\ trim[b].listed = {} /\ trim[b].aged = {}
        /\ trim[b].survivors = {} /\ trim[b].total = 0
    BY DEF Init, NoTrim
  <2>2. IsFiniteSet({}) /\ SumFunctionOnSet(SurvivorSize, {}) = 0
    BY FS_EmptySet, SumUnfolds
  <2> QED
    BY <2>1, <2>2 DEF CountInv
<1> QED
  BY <1>1, <1>3, <1>4 DEF TrimInv

\* The cutoff is taken when the trim begins.
LEMMA CutoffStays ==
  ASSUME PathsInv, TrimInv, [Next]_vars, NEW b \in Builds, ~BeginTrim(b)
  PROVE  trim'[b].cutoff = trim[b].cutoff
<1>0. PathsInv /\ TrimInv /\ trim[b] \in Walk
  BY DEF TrimInv
<1>1. trim'[b] = trim[b] \/ OwnTrimStep(b)
  BY <1>0, TrimChanges
<1>2. CASE ListNext(b)
  BY <1>0, <1>2, ListNextFields DEF Walk
<1>3. CASE Consider(b)
  BY <1>0, <1>3, ConsiderFields
<1>4. CASE RemoveAged(b)
  BY <1>0, <1>4, RemoveAgedFields DEF Walk
<1>5. CASE Evict(b)
  BY <1>0, <1>5, EvictFields DEF Walk
<1> QED
  BY <1>1, <1>2, <1>3, <1>4, <1>5 DEF OwnTrimStep

\* Considering a path counts it once; evicting a survivor takes it off the total.
LEMMA CountStep ==
  ASSUME PathsInv, TrimInv, NEW b \in Builds, OwnTrimStep(b)
  PROVE  CountInv(b)'
<1> USE DEF TrimInv
<1>1. trim[b] \in Walk /\ CountInv(b)
  OBVIOUS
<1>2. CASE BeginTrim(b)
  <2>1. IsFiniteSet({}) /\ SumFunctionOnSet(SurvivorSize, {}) = 0
    BY FS_EmptySet, SumUnfolds
  <2> QED
    BY <1>2, <2>1, BeginTrimFields DEF CountInv
<1>3. CASE ListNext(b)
  <2>1. PICK n \in trim[b].names :
          trim'[b] = [trim[b] EXCEPT !.names = @ \ {n},
                                     !.listed = {p \in Paths : p[1] = n /\ Exists(p)}]
    BY <1>3, ListNextFields
  <2>2. /\ trim'[b].names = trim[b].names \ {n}
        /\ trim'[b].listed = {p \in Paths : p[1] = n /\ Exists(p)}
        /\ trim'[b].aged = trim[b].aged
        /\ trim'[b].survivors = trim[b].survivors /\ trim'[b].total = trim[b].total
    BY <1>1, <2>1 DEF Walk
  <2> QED
    BY <1>1, <2>2 DEF CountInv
<1>4. CASE Consider(b)
  <2>1. PICK p \in trim[b].listed :
          /\ trim'[b].names = trim[b].names
          /\ trim'[b].listed = trim[b].listed \ {p}
          /\ trim'[b].aged \subseteq {p}
          /\ IF Exists(p) /\ ~(dir[p].mtime < trim[b].cutoff) /\ Budget > 0
             THEN LET s == [path |-> p, used |-> dir[p].mtime, size |-> dir[p].size]
                  IN  /\ s \in Survivor
                      /\ trim'[b].survivors = trim[b].survivors \cup {s}
                      /\ trim'[b].total = trim[b].total + s.size
             ELSE /\ trim'[b].survivors = trim[b].survivors
                  /\ trim'[b].total = trim[b].total
    BY <1>4, ConsiderFields
  <2>2. CASE trim'[b].survivors = trim[b].survivors /\ trim'[b].total = trim[b].total
    BY <1>1, <2>1, <2>2 DEF CountInv
  <2> DEFINE s == [path |-> p, used |-> dir[p].mtime, size |-> dir[p].size]
  <2>3. CASE s \in Survivor /\ trim'[b].survivors = trim[b].survivors \cup {s}
             /\ trim'[b].total = trim[b].total + s.size
    <3>1. s \notin trim[b].survivors /\ s.path = p /\ p \in OurPaths
      BY <1>1 DEF CountInv, Walk
    <3>2. \A x \in trim[b].survivors \cup {s} : SurvivorSize[x] \in Int /\ x \in Survivor
      BY <1>1, <2>3 DEF Walk, Survivor, SurvivorSize
    <3>3. /\ IsFiniteSet(trim'[b].survivors)
          /\ SumFunctionOnSet(SurvivorSize, trim'[b].survivors)
             = SurvivorSize[s] + SumFunctionOnSet(SurvivorSize, trim[b].survivors)
      <4> HIDE DEF s
      <4>1. IsFiniteSet(trim[b].survivors)
        BY <1>1 DEF CountInv
      <4>2. /\ IsFiniteSet(trim[b].survivors \cup {s})
            /\ SumFunctionOnSet(SurvivorSize, trim[b].survivors \cup {s})
               = SurvivorSize[s] + SumFunctionOnSet(SurvivorSize, trim[b].survivors)
        BY <3>1, <3>2, <4>1, SumAdd
      <4> QED
        BY <2>3, <4>2
    <3>4. SurvivorSize[s] = s.size /\ s.size \in Int
      BY <2>3, <3>2 DEF SurvivorSize
    <3>5. trim'[b].total = SumFunctionOnSet(SurvivorSize, trim'[b].survivors)
      <4> HIDE DEF s
      <4>1. trim[b].total \in Int
        BY <1>1 DEF Walk
      <4>2. trim[b].total = SumFunctionOnSet(SurvivorSize, trim[b].survivors)
        BY <1>1 DEF CountInv
      <4> QED
        BY <2>3, <3>3, <3>4, <4>1, <4>2
    <3>6. \A t \in trim'[b].survivors :
            /\ t.path \in OurPaths
            /\ t.path[1] \notin trim'[b].names /\ t.path \notin trim'[b].listed
            /\ \A r \in trim'[b].survivors : r.path = t.path => r = t
      <4> HIDE DEF s
      <4> QED
        BY <1>1, <2>1, <2>3, <3>1 DEF CountInv
    <3>7. /\ \A q \in trim'[b].listed : q[1] \notin trim'[b].names
          /\ \A q, r \in trim'[b].aged : q = r
      BY <1>1, <2>1 DEF CountInv
    <3> QED
      BY <3>3, <3>5, <3>6, <3>7 DEF CountInv
  <2> QED
    BY <2>1, <2>2, <2>3
<1>5. CASE RemoveAged(b)
  <2>1. /\ trim'[b].names = trim[b].names /\ trim'[b].listed = trim[b].listed
        /\ trim'[b].aged = {}
        /\ trim'[b].survivors = trim[b].survivors /\ trim'[b].total = trim[b].total
    BY <1>1, <1>5, RemoveAgedFields DEF Walk
  <2> QED
    BY <1>1, <2>1 DEF CountInv
<1>6. CASE Evict(b)
  <2>1. PICK s \in trim[b].survivors :
          /\ s \in Survivor
          /\ trim'[b] = [trim[b] EXCEPT !.survivors = @ \ {s}, !.total = @ - s.size]
    BY <1>6, EvictFields
  <2>2. /\ trim'[b].names = trim[b].names /\ trim'[b].listed = trim[b].listed
        /\ trim'[b].aged = trim[b].aged
        /\ trim'[b].survivors = trim[b].survivors \ {s} /\ trim'[b].total = trim[b].total - s.size
    BY <1>1, <2>1 DEF Walk
  <2>3. IsFiniteSet(trim'[b].survivors)
    BY <1>1, <2>2, FS_Subset DEF CountInv
  <2>4. \A x \in trim[b].survivors : SurvivorSize[x] \in Int
    BY <1>1 DEF Walk, Survivor, SurvivorSize
  <2>5. trim[b].total = SurvivorSize[s] + SumFunctionOnSet(SurvivorSize, trim'[b].survivors)
    <3>1. IsFiniteSet(trim[b].survivors)
          /\ trim[b].total = SumFunctionOnSet(SurvivorSize, trim[b].survivors)
      BY <1>1 DEF CountInv
    <3>2. SumFunctionOnSet(SurvivorSize, trim[b].survivors)
          = SurvivorSize[s] + SumFunctionOnSet(SurvivorSize, trim[b].survivors \ {s})
      BY <2>4, <3>1, SumRemove
    <3> QED
      BY <2>2, <3>1, <3>2
  <2>6. SumFunctionOnSet(SurvivorSize, trim'[b].survivors) \in Int
    BY <2>2, <2>3, <2>4, SumInt
  <2>7. SurvivorSize[s] = s.size /\ s.size \in Int
    BY <2>1 DEF SurvivorSize, Survivor
  <2>8. trim'[b].total = SumFunctionOnSet(SurvivorSize, trim'[b].survivors)
    BY <2>2, <2>5, <2>6, <2>7
  <2> QED
    BY <1>1, <2>2, <2>3, <2>8 DEF CountInv
<1> QED
  BY <1>2, <1>3, <1>4, <1>5, <1>6 DEF OwnTrimStep

\* Every step keeps the locals of the trims well formed, and their counts.
LEMMA TrimStep == WholeInv /\ TrimInv /\ [Next]_vars => TrimInv'
<1> SUFFICES ASSUME WholeInv, TrimInv, [Next]_vars PROVE TrimInv'
  OBVIOUS
<1>0. PathsInv
  BY DEF WholeInv
<1>1. trim' \in [Builds -> Walk] /\ \A b \in Builds : trim'[b] = trim[b] \/ OwnTrimStep(b)
  BY <1>0, TrimChanges
<1>2. clock' \in Nat
  <2>1. clock' = clock \/ Tick
    BY DEF Next, Build, vars, Crash, ReadHit, ReadMiss, StatUsed, Chtimes,
           CreateTemp, FillTemp, WriteFails, Rename, BeginTrim, ListNext, Consider, RemoveAged,
           EndWalk, Evict, EndTrim
  <2> QED
    BY <2>1 DEF Tick, TrimInv
<1>3. fanout' \subseteq Keys \cup OwnNested
  <2>1. CASE fanout' = fanout
    BY <2>1 DEF TrimInv
  <2>2. ASSUME NEW b \in Builds, CreateTemp(b) PROVE fanout' \subseteq Keys \cup OwnNested
    <3>1. Key(b) \in Keys
      BY <1>0, <2>2, PathFacts DEF CreateTemp, Asking
    <3> QED
      BY <2>2, <3>1 DEF CreateTemp, TrimInv
  <2>3. fanout' = fanout \/ \E b \in Builds : CreateTemp(b)
    BY DEF Next, Build, vars, Tick, Crash, ReadHit, ReadMiss, StatUsed, Chtimes,
           FillTemp, WriteFails, Rename, BeginTrim, ListNext, Consider, RemoveAged,
           EndWalk, Evict, EndTrim
  <2> QED
    BY <2>1, <2>2, <2>3
<1>4. \A b \in Builds : CountInv(b)'
  <2>1. ASSUME NEW b \in Builds, trim'[b] = trim[b] PROVE CountInv(b)'
    BY <2>1 DEF CountInv, TrimInv
  <2> QED
    BY <1>0, <1>1, <2>1, CountStep
<1> QED
  BY <1>1, <1>2, <1>3, <1>4 DEF TrimInv

-----------------------------------------------------------------------------
\* A path is listed with its fanout directory or as a top-level file.
FanoutInv ==
  \A p \in Paths : p[1] \in Keys \cup Flat /\ Exists(p) =>
    p[1] \in fanout \/ (p[1] \in Flat /\ p[2] = 0)

\* A temporary in use is not older than the cutoff of a trim that begins now.
FlightInv ==
  \A b \in Builds : pc[b] \in {"fill", "rename"} /\ Exists(Temp(b, Key(b))) =>
    clock - dir[Temp(b, Key(b))].mtime <= TrimCutoff

\* A build whose Trim has begun.
Trimming == {"walk", "evict", "done"}

\* A cutoff is as old as the cutoff of a trim that begins now, or older.
CutoffInv == \A b \in Builds : pc[b] \in Trimming => trim[b].cutoff <= clock - TrimCutoff

\* What every argument about Trim below starts from.
BaseInv == WholeInv /\ TrimInv /\ FanoutInv /\ FlightInv /\ CutoffInv

\* A write or a MarkUsed puts a file at p that is not older than any cutoff.
Fresh(p) ==
  /\ dir'[p] # Absent /\ p[1] \in Keys
  /\ Exists(p) \/ p[1] \in fanout'
  /\ dir'[p].mtime >= clock - TrimCutoff
  /\ \E b \in Builds : pc[b] \in Asking

\* What a step does to the file at p, and that only our names are touched.
LEMMA DirChanges ==
  ASSUME BaseInv, [Next]_vars, NEW p \in Paths
  PROVE  /\ dir'[p] = dir[p] \/ dir'[p] = Absent \/ Fresh(p)
         /\ dir'[p] # dir[p] => p[1] \in OurNames
<1>0. PathsInv /\ TrimInv /\ FanoutInv /\ FlightInv /\ clock \in Nat
  BY DEF BaseInv, WholeInv, TrimInv
<1>t. TrimCutoff \in Nat
  BY CacheFileAssumption
<1>1. CASE dir' = dir
  BY <1>1
<1>2. ASSUME NEW b \in Builds, Chtimes(b)
      PROVE  dir'[p] = dir[p] \/ (Fresh(p) /\ p[1] \in OurNames)
  <2> DEFINE e == Entry(Key(b))
  <2>1. pc[b] \in Asking /\ e \in Paths /\ Key(b) \in Keys /\ e[1] = Key(b)
    BY <1>0, <1>2, PathFacts DEF Chtimes, Asking, Entry
  <2>2. dir' = IF Exists(e) THEN [dir EXCEPT ![e].mtime = clock] ELSE dir
    BY <1>2 DEF Chtimes
  <2>3. CASE Exists(e) /\ p = e
    <3>1. dir[e] \in File
      BY <1>0, <2>1, <2>3 DEF PathsInv, Exists
    <3>2. dir'[e] = [dir[e] EXCEPT !.mtime = clock]
      BY <1>0, <2>1, <2>2, <2>3 DEF PathsInv
    <3>3. dir'[e] \in File /\ dir'[e].mtime = clock
      BY <1>0, <3>1, <3>2 DEF File
    <3>4. dir'[p] # Absent /\ dir'[p].mtime >= clock - TrimCutoff
      BY <1>0, <1>t, <2>3, <3>3, AbsentAssumption
    <3> QED
      BY <2>1, <2>3, <3>4 DEF Fresh, OurNames
  <2>4. CASE ~(Exists(e) /\ p = e)
    BY <1>0, <2>1, <2>2, <2>4 DEF PathsInv
  <2> QED
    BY <2>3, <2>4
<1>3. ASSUME NEW b \in Builds, CreateTemp(b)
      PROVE  dir'[p] = dir[p] \/ (Fresh(p) /\ p[1] \in OurNames)
  <2> DEFINE t == Temp(b, Key(b))
             new == [size |-> 0, mtime |-> clock, whole |-> FALSE]
  <2>1. pc[b] \in Asking /\ t \in Paths /\ Key(b) \in Keys /\ t[1] = Key(b)
    BY <1>0, <1>3, PathFacts DEF CreateTemp, Asking, Temp
  <2>2. dir' = [dir EXCEPT ![t] = new] /\ Key(b) \in fanout'
    BY <1>3 DEF CreateTemp
  <2>3. new \in File /\ new.mtime = clock
    BY <1>0 DEF File
  <2>4. CASE p = t
    <3>1. dir'[p] = new
      BY <1>0, <2>1, <2>2, <2>4 DEF PathsInv
    <3>2. dir'[p] # Absent /\ dir'[p].mtime >= clock - TrimCutoff
      <4> HIDE DEF new
      <4> QED
        BY <1>0, <1>t, <2>3, <3>1, AbsentAssumption
    <3> QED
      BY <2>1, <2>2, <2>4, <3>2 DEF Fresh, OurNames
  <2>5. CASE p # t
    BY <1>0, <2>1, <2>2, <2>5 DEF PathsInv
  <2> QED
    BY <2>4, <2>5
<1>4. ASSUME NEW b \in Builds, FillTemp(b)
      PROVE  dir'[p] = dir[p] \/ (Fresh(p) /\ p[1] \in OurNames)
  <2> DEFINE t == Temp(b, Key(b))
             full == [size |-> Size[Key(b)], mtime |-> clock, whole |-> TRUE]
  <2>1. pc[b] \in Asking /\ t \in Paths /\ Key(b) \in Keys /\ t[1] = Key(b) /\ Key(b) \in Names
    BY <1>0, <1>4, PathFacts DEF FillTemp, Asking, Temp
  <2>2. dir' = IF Exists(t) THEN [dir EXCEPT ![t] = full] ELSE dir
    BY <1>4 DEF FillTemp
  <2>3. full \in File /\ full.mtime = clock
    <3>1. Key(b) \in Names /\ Size \in [Names -> Nat]
      BY <2>1, CacheFileAssumption
    <3>2. Size[Key(b)] \in Nat
      BY <3>1
    <3> QED
      BY <1>0, <3>2 DEF File
  <2>4. CASE p = t /\ Exists(t)
    <3>1. dir'[p] = full
      BY <1>0, <2>1, <2>2, <2>4 DEF PathsInv
    <3>2. dir'[p] # Absent /\ dir'[p].mtime >= clock - TrimCutoff
      <4> HIDE DEF full
      <4> QED
        BY <1>0, <1>t, <2>3, <3>1, AbsentAssumption
    <3> QED
      BY <2>1, <2>4, <3>2 DEF Fresh, OurNames
  <2>5. CASE ~(p = t /\ Exists(t))
    BY <1>0, <2>1, <2>2, <2>5 DEF PathsInv
  <2> QED
    BY <2>4, <2>5
<1>5. ASSUME NEW b \in Builds, WriteFails(b)
      PROVE  dir'[p] = dir[p] \/ (dir'[p] = Absent /\ p[1] \in OurNames)
  <2>1. pc[b] \in Asking
    BY <1>5 DEF WriteFails, Asking
  <2>2. Temp(b, Key(b)) \in Paths /\ Key(b) \in Keys /\ Temp(b, Key(b))[1] = Key(b)
    BY <1>0, <2>1, PathFacts DEF Temp
  <2> QED
    BY <1>0, <1>5, <2>2 DEF WriteFails, PathsInv, OurNames
<1>6. ASSUME NEW b \in Builds, Rename(b)
      PROVE  \/ dir'[p] = dir[p]
             \/ dir'[p] = Absent /\ p[1] \in OurNames
             \/ Fresh(p) /\ p[1] \in OurNames
  <2> DEFINE t == Temp(b, Key(b))
             e == Entry(Key(b))
  <2>1. /\ pc[b] \in Asking /\ t \in Paths /\ e \in Paths /\ e # t /\ Key(b) \in Keys
        /\ t[1] = Key(b) /\ t[2] = b /\ e[1] = Key(b) /\ b # 0
    BY <1>0, <1>6, PathFacts, CacheFileAssumption DEF Rename, Asking, Temp, Entry
  <2>2. dir' = IF Exists(t) THEN [dir EXCEPT ![e] = dir[t], ![t] = Absent] ELSE dir
    BY <1>6 DEF Rename
  <2>3. CASE Exists(t) /\ p = e
    <3>1. dir'[p] = dir[t]
      BY <1>0, <2>1, <2>2, <2>3 DEF PathsInv
    <3>2. dir[t] \in File
      BY <1>0, <2>1, <2>3 DEF PathsInv, Exists
    <3>3. clock - dir[t].mtime <= TrimCutoff
      BY <1>0, <1>6, <2>3 DEF FlightInv, Rename
    <3>4. dir'[p].mtime >= clock - TrimCutoff
      BY <1>0, <1>t, <3>1, <3>2, <3>3 DEF File
    <3>5. fanout' = fanout /\ Key(b) \in fanout
      BY <1>0, <1>6, <2>1, <2>3 DEF FanoutInv, Rename
    <3> QED
      BY <2>1, <2>3, <3>1, <3>4, <3>5 DEF Fresh, OurNames, Exists
  <2>4. CASE Exists(t) /\ p = t
    BY <1>0, <2>1, <2>2, <2>4 DEF PathsInv, OurNames
  <2>5. CASE ~Exists(t) \/ (p # e /\ p # t)
    BY <1>0, <2>1, <2>2, <2>5 DEF PathsInv
  <2> QED
    BY <2>3, <2>4, <2>5
<1>7. ASSUME NEW b \in Builds, RemoveAged(b)
      PROVE  dir'[p] = dir[p] \/ (dir'[p] = Absent /\ p[1] \in OurNames)
  BY <1>0, <1>7, RemoveAgedFields DEF PathsInv, OurPaths
<1>8. ASSUME NEW b \in Builds, Evict(b)
      PROVE  dir'[p] = dir[p] \/ (dir'[p] = Absent /\ p[1] \in OurNames)
  <2>1. PICK s \in trim[b].survivors : dir' = [dir EXCEPT ![s.path] = Absent]
    BY <1>0, <1>8, EvictFields
  <2>2. s.path \in OurPaths
    BY <1>0 DEF TrimInv, CountInv
  <2> QED
    BY <1>0, <2>1, <2>2 DEF PathsInv, OurPaths
<1>9. \/ dir' = dir
      \/ \E b \in Builds : \/ Chtimes(b) \/ CreateTemp(b) \/ FillTemp(b) \/ WriteFails(b)
                           \/ Rename(b) \/ RemoveAged(b) \/ Evict(b)
  BY DEF Next, Build, vars, Tick, Crash, ReadHit, ReadMiss, StatUsed, BeginTrim, ListNext,
         Consider, EndWalk, EndTrim
<1> QED
  BY <1>1, <1>2, <1>3, <1>4, <1>5, <1>6, <1>7, <1>8, <1>9

\* The ways into a phase of Trim.
LEMMA PhaseChanges ==
  ASSUME PathsInv, [Next]_vars, NEW b \in Builds, pc'[b] \in Trimming
  PROVE  pc'[b] = pc[b] \/ BeginTrim(b) \/ EndWalk(b) \/ EndTrim(b)
<1>1. CASE pc' = pc
  BY <1>1
<1>2. ASSUME NEW c \in Builds, \E l : pc' = [pc EXCEPT ![c] = l], c # b
      PROVE  pc'[b] = pc[b]
  BY <1>2 DEF PathsInv
<1>3. ASSUME NEW l, l \notin Trimming, pc' = [pc EXCEPT ![b] = l]
      PROVE  FALSE
  BY <1>3 DEF PathsInv
<1>4. ASSUME NEW c \in Builds, Build(c) \/ Crash(c)
      PROVE  \/ pc' = pc
             \/ \E l : l \notin Trimming /\ pc' = [pc EXCEPT ![c] = l]
             \/ (BeginTrim(c) \/ EndWalk(c) \/ EndTrim(c)) /\ \E l : pc' = [pc EXCEPT ![c] = l]
  <2>1. CASE NextKey(c)
    BY <2>1 DEF NextKey, Goto, Trimming
  <2> QED
    BY <1>4, <2>1
       DEF Build, Crash, Goto, Trimming, ReadHit, ReadMiss, StatUsed, Chtimes, CreateTemp,
           FillTemp, WriteFails, Rename, BeginTrim, ListNext, Consider, RemoveAged, EndWalk,
           Evict, EndTrim
<1>5. pc' = pc \/ \E c \in Builds : Build(c) \/ Crash(c)
  BY DEF Next, Tick, vars
<1> QED
  BY <1>1, <1>2, <1>3, <1>4, <1>5

\* The directory a build starts with satisfies it.
LEMMA BaseInit == Init => BaseInv
<1> SUFFICES ASSUME Init PROVE BaseInv
  OBVIOUS
<1>1. WholeInv /\ TrimInv
  BY InitWhole, TrimInit
<1>2. \A b \in Builds : pc[b] \notin Trimming \cup {"fill", "rename"}
  BY DEF Init, Trimming
<1>3. FanoutInv
  <2>1. \A p \in Paths : Exists(p) => p[2] = 0 /\ p = Entry(p[1])
    BY DEF Init, Exists, Entry, Paths
  <2> QED
    BY <2>1 DEF FanoutInv, Init
<1> QED
  BY <1>1, <1>2, <1>3 DEF BaseInv, FlightInv, CutoffInv

\* Which steps touch a temporary in use.
LEMMA FlightStep ==
  ASSUME BaseInv, [Next]_vars
  PROVE  FlightInv'
<1>0. PathsInv /\ TrimInv /\ FlightInv /\ clock \in Nat /\ PathsInv'
  BY WholeStep DEF BaseInv, WholeInv, TrimInv
<1>t. TrimCutoff \in Nat
  BY CacheFileAssumption
<1> SUFFICES ASSUME NEW b \in Builds, pc'[b] \in {"fill", "rename"},
                    dir'[Temp(b, Key(b)')] # Absent
             PROVE  clock' - dir'[Temp(b, Key(b)')].mtime <= TrimCutoff
  BY DEF FlightInv, Exists, Temp
<1>1. CASE Tick
  <2>1. UNCHANGED <<dir, todo, pc>> /\ clock' = clock + 1 /\ PromptWrites
    BY <1>1 DEF Tick
  <2>2. Key(b)' = Key(b) /\ pc[b] \in {"fill", "rename"} /\ Exists(Temp(b, Key(b)))
    BY <2>1 DEF Key, Exists
  <2>3. clock - dir[Temp(b, Key(b))].mtime < TrimCutoff
    BY <2>1, <2>2 DEF PromptWrites
  <2>4. dir[Temp(b, Key(b))].mtime \in Int
    <3>1. Temp(b, Key(b)) \in Paths
      BY <1>0, <2>2, PathFacts DEF Asking
    <3> QED
      BY <1>0, <2>2, <3>1 DEF PathsInv, Exists, File
  <2> QED
    BY <1>0, <1>t, <2>1, <2>2, <2>3, <2>4
<1>2. ASSUME clock' = clock, pc[b] \in {"fill", "rename"}, todo'[b] = todo[b],
             dir'[Temp(b, Key(b))] = dir[Temp(b, Key(b))]
      PROVE  clock' - dir'[Temp(b, Key(b)')].mtime <= TrimCutoff
  <2>1. Key(b)' = Key(b)
    BY <1>2 DEF Key
  <2> QED
    BY <1>0, <1>2, <2>1 DEF FlightInv, Exists
<1>3. CASE UNCHANGED vars
  BY <1>2, <1>3 DEF vars
<1>4. CASE CreateTemp(b) \/ FillTemp(b)
  <2> DEFINE t == Temp(b, Key(b))
  <2>1. t \in Paths /\ Key(b)' = Key(b) /\ clock' = clock
    BY <1>0, <1>4, PathFacts DEF CreateTemp, FillTemp, Asking, Key
  <2>2. dir'[t].mtime = clock
    <3>1. dir'[t] # Absent
      BY <2>1
    <3>2. \E z, w : dir' = [dir EXCEPT ![t] = [size |-> z, mtime |-> clock, whole |-> w]]
      BY <1>4, <3>1 DEF CreateTemp, FillTemp, Exists
    <3> HIDE DEF t
    <3> QED
      BY <1>0, <2>1, <3>2 DEF PathsInv
  <2> QED
    BY <1>0, <1>t, <2>1, <2>2
<1>5. ASSUME NEW c \in Builds, Build(c) \/ Crash(c), ~CreateTemp(c), ~FillTemp(c), c = b
      PROVE  FALSE
  <2>1. CASE NextKey(c)
    BY <1>0, <1>5, <2>1 DEF NextKey, Goto, PathsInv
  <2>2. CASE \E l \in Labels \ {"fill", "rename"} : pc' = [pc EXCEPT ![c] = l]
    BY <1>0, <1>5, <2>2 DEF PathsInv
  <2>3. CASE pc' = pc /\ (ListNext(c) \/ Consider(c) \/ RemoveAged(c) \/ Evict(c))
    BY <1>5, <2>3 DEF ListNext, Consider, RemoveAged, Evict, Evicting
  <2> QED
    BY <1>5, <2>1, <2>2, <2>3
       DEF Build, Crash, Goto, Labels, ReadHit, ReadMiss, StatUsed, Chtimes,
           WriteFails, Rename, BeginTrim, ListNext, Consider, RemoveAged, EndWalk,
           Evict, EndTrim
<1>6. ASSUME NEW c \in Builds, Build(c) \/ Crash(c), c # b
      PROVE  clock' - dir'[Temp(b, Key(b)')].mtime <= TrimCutoff
  <2>1. /\ clock' = clock
        /\ todo' = todo \/ \E q : todo' = [todo EXCEPT ![c] = q]
        /\ pc' = pc \/ \E l : pc' = [pc EXCEPT ![c] = l]
    BY <1>6 DEF Build, Crash, Goto, NextKey, ReadHit, ReadMiss, StatUsed, Chtimes, CreateTemp,
           FillTemp, WriteFails, Rename, BeginTrim, ListNext, Consider, RemoveAged, EndWalk,
           Evict, EndTrim
  <2>2. todo'[b] = todo[b] /\ pc'[b] = pc[b]
    BY <1>0, <1>6, <2>1 DEF PathsInv
  <2> DEFINE t == Temp(b, Key(b))
  <2>3. pc[b] \in Asking /\ Key(b)' = Key(b) /\ t \in Paths /\ t[2] = b /\ b # 0
    BY <1>0, <2>2, PathFacts, CacheFileAssumption DEF Key, Asking, Temp
  <2>4. pc[c] \in Asking => Entry(Key(c)) # t /\ Temp(c, Key(c)) # t
    BY <1>6, <2>3 DEF Entry, Temp
  <2>5. dir'[t] = dir[t] \/ dir'[t] = Absent
    <3>1. CASE RemoveAged(c) \/ Evict(c)
      BY <1>0, <2>3, <3>1, RemoveAgedFields, EvictFields DEF PathsInv
    <3>2. CASE Chtimes(c) \/ CreateTemp(c) \/ FillTemp(c) \/ WriteFails(c) \/ Rename(c)
      <4>1. pc[c] \in Asking
        BY <3>2 DEF Chtimes, CreateTemp, FillTemp, WriteFails, Rename, Asking
      <4>2. Entry(Key(c)) # t /\ Temp(c, Key(c)) # t
        BY <2>4, <4>1
      <4> QED
        BY <1>0, <2>3, <3>2, <4>2
           DEF Chtimes, CreateTemp, FillTemp, WriteFails, Rename, PathsInv
    <3> QED
      BY <1>6, <3>1, <3>2
         DEF Build, Crash, ReadHit, ReadMiss, StatUsed, BeginTrim, ListNext, Consider,
             EndWalk, EndTrim
  <2> QED
    BY <1>2, <2>1, <2>2, <2>3, <2>5
<1> QED
  BY <1>1, <1>3, <1>4, <1>5, <1>6 DEF Next

\* Every step keeps it.
LEMMA BaseStep == BaseInv /\ [Next]_vars => BaseInv'
<1> SUFFICES ASSUME BaseInv, [Next]_vars PROVE BaseInv'
  OBVIOUS
<1>0. PathsInv /\ WholeInv /\ TrimInv /\ FanoutInv /\ CutoffInv /\ clock \in Nat
  BY DEF BaseInv, WholeInv, TrimInv
<1>1. WholeInv' /\ TrimInv'
  BY <1>0, WholeStep, TrimStep
<1>2. FlightInv'
  BY FlightStep
<1>3. FanoutInv'
  <2>1. fanout \subseteq fanout'
    BY DEF Next, Build, vars, Tick, Crash, ReadHit, ReadMiss, StatUsed, Chtimes, CreateTemp,
           FillTemp, WriteFails, Rename, BeginTrim, ListNext, Consider, RemoveAged,
           EndWalk, Evict, EndTrim
  <2> SUFFICES ASSUME NEW p \in Paths, p[1] \in Keys \cup Flat, dir'[p] # Absent
               PROVE  p[1] \in fanout' \/ (p[1] \in Flat /\ p[2] = 0)
    BY DEF FanoutInv, Exists
  <2>2. Exists(p) \/ p[1] \in fanout'
    BY DirChanges DEF Fresh, Exists
  <2> QED
    BY <1>0, <2>1, <2>2 DEF FanoutInv
<1>4. CutoffInv'
  <2> SUFFICES ASSUME NEW b \in Builds, pc'[b] \in Trimming
               PROVE  trim'[b].cutoff <= clock' - TrimCutoff
    BY DEF CutoffInv
  <2>1. clock' >= clock /\ clock' \in Nat /\ TrimCutoff \in Nat
    <3>1. clock' = clock \/ Tick
      BY DEF Next, Build, vars, Crash, ReadHit, ReadMiss, StatUsed, Chtimes,
             CreateTemp, FillTemp, WriteFails, Rename, BeginTrim, ListNext, Consider, RemoveAged,
             EndWalk, Evict, EndTrim
    <3> QED
      BY <1>0, <3>1, CacheFileAssumption DEF Tick
  <2>2. CASE BeginTrim(b)
    BY <1>0, <2>1, <2>2, BeginTrimFields
  <2>3. CASE ~BeginTrim(b)
    <3>1. pc[b] \in Trimming
      BY <1>0, <2>3, PhaseChanges DEF EndWalk, EndTrim, Trimming
    <3>2. trim[b] \in Walk
      BY <1>0 DEF TrimInv
    <3>3. trim'[b].cutoff = trim[b].cutoff
      BY <1>0, <2>3, CutoffStays
    <3>4. trim[b].cutoff \in Int /\ trim[b].cutoff <= clock - TrimCutoff
      BY <1>0, <3>1, <3>2 DEF CutoffInv, Walk
    <3> QED
      BY <1>0, <2>1, <3>3, <3>4
  <2> QED
    BY <2>2, <2>3
<1> QED
  BY <1>1, <1>2, <1>3, <1>4 DEF BaseInv

-----------------------------------------------------------------------------
\* The walk of b has yet to come to p.
Pending(b, p) ==
  pc[b] = "walk" /\ (p[1] \in trim[b].names \/ p \in trim[b].listed \/ p \in trim[b].aged)

\* A trim has yet to come to every file that is older than its cutoff.
SweepInv ==
  \A b \in Builds : pc[b] \in Trimming =>
    \A p \in Paths : p[1] \in Keys \cup Flat /\ Exists(p) /\ dir[p].mtime < trim[b].cutoff
                     => Pending(b, p)

\* The record Trim makes of the file at p.
RecordOf(p) == [path |-> p, used |-> dir[p].mtime, size |-> dir[p].size]

\* b knows of every file: it is to be walked, or counted with its present size.
Counted(b, p) == \E s \in trim[b].survivors : s.path = p /\ s.size = dir[p].size
Accounted(b) ==
  \A p \in Paths : p[1] \in Keys \cup Flat /\ Exists(p) => Pending(b, p) \/ Counted(b, p)

\* Once nobody will write, one of the trims, the last to begin, knows of every file.
LastInv ==
  Budget > 0 /\ (\A b \in Builds : pc[b] \in Trimming) => \E b \in Builds : Accounted(b)

\* The eviction loop of a trim that ended has run until its total fits.
EndInv ==
  \A b \in Builds : Budget > 0 /\ pc[b] = "done" =>
    trim[b].total <= Budget \/ trim[b].survivors = {}

\* What a walk still has to see when it begins: everything.
LEMMA BeginsWithAll ==
  ASSUME BaseInv, [Next]_vars, NEW b \in Builds, BeginTrim(b),
         NEW p \in Paths, p[1] \in Keys \cup Flat, dir'[p] # Absent
  PROVE  Pending(b, p)'
<1>1. dir' = dir /\ pc' = [pc EXCEPT ![b] = "walk"]
  BY DEF BeginTrim, Goto
<1>2. pc'[b] = "walk"
  BY <1>1 DEF BaseInv, WholeInv, PathsInv
<1>3. trim'[b].names = fanout \cup {n \in Flat : Exists(Entry(n))}
  BY BeginTrimFields DEF BaseInv
<1>4. p[1] \in fanout \/ (p[1] \in Flat /\ p[2] = 0)
  BY <1>1 DEF BaseInv, FanoutInv, Exists
<1>5. p[2] = 0 => p = Entry(p[1])
  BY DEF Entry, Paths
<1>6. p[1] \in trim'[b].names
  BY <1>1, <1>3, <1>4, <1>5 DEF Exists
<1> QED
  BY <1>2, <1>6 DEF Pending

\* What a step of the walk has dealt with: it is gone, or kept because it is young.
LEMMA PendingStep ==
  ASSUME BaseInv, [Next]_vars, NEW b \in Builds, pc'[b] \in Trimming, ~BeginTrim(b),
         NEW p \in Paths, dir'[p] = dir[p], Exists(p), Pending(b, p)
  PROVE  \/ Pending(b, p)'
         \/ /\ ~(dir[p].mtime < trim[b].cutoff)
            /\ Budget > 0 => RecordOf(p) \in trim'[b].survivors
<1>0. PathsInv /\ TrimInv /\ trim[b] \in Walk /\ CountInv(b)
  BY DEF BaseInv, WholeInv, TrimInv
<1>1. pc[b] = "walk"
  BY DEF Pending
<1>2. pc'[b] = "walk"
  <2>1. pc'[b] = pc[b] \/ EndWalk(b) \/ EndTrim(b)
    BY <1>0, PhaseChanges
  <2> QED
    BY <1>1, <2>1 DEF EndWalk, EndTrim, Pending
<1>3. trim'[b] = trim[b] \/ ListNext(b) \/ Consider(b) \/ RemoveAged(b)
  <2>1. trim'[b] = trim[b] \/ OwnTrimStep(b)
    BY <1>0, TrimChanges
  <2>2. ~Evict(b)
    BY <1>1 DEF Evict, Evicting
  <2> QED
    BY <2>1, <2>2 DEF OwnTrimStep
<1>4. CASE trim'[b] = trim[b]
  BY <1>2, <1>4 DEF Pending
<1>5. CASE ListNext(b)
  <2>1. PICK n \in trim[b].names :
          trim'[b] = [trim[b] EXCEPT !.names = @ \ {n},
                                     !.listed = {q \in Paths : q[1] = n /\ Exists(q)}]
    BY <1>0, <1>5, ListNextFields
  <2>2. /\ trim'[b].names = trim[b].names \ {n}
        /\ trim'[b].listed = {q \in Paths : q[1] = n /\ Exists(q)}
        /\ trim[b].listed = {} /\ trim[b].aged = {}
    BY <1>0, <1>5, <2>1 DEF Walk, ListNext
  <2> QED
    BY <1>2, <2>2 DEF Pending
<1>6. CASE Consider(b)
  <2>1. PICK q \in trim[b].listed :
          /\ trim'[b].names = trim[b].names
          /\ trim'[b].listed = trim[b].listed \ {q}
          /\ trim'[b].aged = IF Exists(q) /\ dir[q].mtime < trim[b].cutoff THEN {q} ELSE {}
          /\ Exists(q) /\ ~(dir[q].mtime < trim[b].cutoff) /\ Budget > 0 =>
               trim'[b].survivors = trim[b].survivors
                 \cup {[path |-> q, used |-> dir[q].mtime, size |-> dir[q].size]}
    BY <1>0, <1>6, ConsiderFields
  <2>2. trim[b].aged = {}
    BY <1>6 DEF Consider
  <2>3. CASE q = p
    <3>1. CASE dir[p].mtime < trim[b].cutoff
      BY <1>2, <2>1, <2>3, <3>1 DEF Pending
    <3>2. CASE ~(dir[p].mtime < trim[b].cutoff)
      <4>1. Budget > 0 => RecordOf(p) \in trim'[b].survivors
        BY <2>1, <2>3, <3>2 DEF RecordOf
      <4> QED
        BY <3>2, <4>1
    <3> QED
      BY <3>1, <3>2
  <2>4. CASE q # p
    BY <1>2, <2>1, <2>2, <2>4 DEF Pending
  <2> QED
    BY <2>3, <2>4
<1>7. CASE RemoveAged(b)
  <2>1. PICK q \in trim[b].aged : q \in OurPaths /\ dir' = [dir EXCEPT ![q] = Absent]
    BY <1>0, <1>7, RemoveAgedFields
  <2>2. p \notin trim[b].aged
    <3>1. p # q
      BY <1>0, <2>1 DEF PathsInv, Exists, OurPaths
    <3> QED
      BY <1>0, <2>1, <3>1 DEF CountInv
  <2>3. trim'[b].names = trim[b].names /\ trim'[b].listed = trim[b].listed
    BY <1>0, <1>7, RemoveAgedFields DEF Walk
  <2> QED
    BY <1>2, <2>2, <2>3 DEF Pending
<1> QED
  BY <1>3, <1>4, <1>5, <1>6, <1>7

\* No step makes an old file, nor lets the walk pass one by.
LEMMA SweepStep ==
  ASSUME BaseInv, SweepInv, [Next]_vars
  PROVE  SweepInv'
<1>0. PathsInv /\ TrimInv /\ CutoffInv /\ clock \in Nat /\ PathsInv'
  BY WholeStep DEF BaseInv, WholeInv, TrimInv
<1> SUFFICES ASSUME NEW b \in Builds, pc'[b] \in Trimming, NEW p \in Paths,
                    p[1] \in Keys \cup Flat, dir'[p] # Absent, dir'[p].mtime < trim'[b].cutoff
             PROVE  Pending(b, p)'
  BY DEF SweepInv, Exists
<1>1. CASE BeginTrim(b)
  BY <1>1, BeginsWithAll
<1>2. CASE ~BeginTrim(b)
  <2>1. pc[b] \in Trimming
    BY <1>0, <1>2, PhaseChanges DEF EndWalk, EndTrim, Trimming
  <2>2. trim'[b].cutoff = trim[b].cutoff
    BY <1>0, <1>2, CutoffStays
  <2>3. ~Fresh(p)
    <3>1. /\ trim[b].cutoff <= clock - TrimCutoff /\ TrimCutoff \in Nat
          /\ trim[b].cutoff \in Int
      BY <1>0, <2>1, CacheFileAssumption DEF CutoffInv, TrimInv, Walk
    <3>2. dir'[p].mtime \in Int
      BY <1>0 DEF PathsInv, File
    <3> QED
      BY <1>0, <2>2, <3>1, <3>2 DEF Fresh
  <2>4. dir'[p] = dir[p] /\ Exists(p)
    BY <2>3, DirChanges DEF Exists
  <2>5. dir[p].mtime < trim[b].cutoff
    BY <2>2, <2>4
  <2>6. Pending(b, p)
    BY <2>1, <2>4, <2>5 DEF SweepInv
  <2> QED
    BY <1>2, <2>4, <2>5, <2>6, PendingStep
<1> QED
  BY <1>1, <1>2

\* AgedFilesGo for every directory, any number of builds and any interleaving:
\* what Trim has walked holds nothing last used before its cutoff.
THEOREM AgedFilesAreSwept == Spec => []AgedFilesGo
<1>1. Init => BaseInv /\ SweepInv
  <2>1. Init => SweepInv
    BY DEF Init, SweepInv, Trimming
  <2> QED
    BY <2>1, BaseInit
<1>2. BaseInv /\ SweepInv /\ [Next]_vars => (BaseInv /\ SweepInv)'
  BY BaseStep, SweepStep
<1>3. BaseInv /\ SweepInv => AgedFilesGo
  <2> SUFFICES ASSUME BaseInv, SweepInv, NEW b \in Builds, pc[b] \in {"evict", "done"},
                      NEW p \in Paths, p[1] \in Keys \cup Flat, Exists(p)
               PROVE  dir[p].mtime >= trim[b].cutoff
    BY DEF AgedFilesGo
  <2>1. ~(dir[p].mtime < trim[b].cutoff)
    BY DEF SweepInv, Pending, Trimming
  <2>2. dir[p].mtime \in Int /\ trim[b].cutoff \in Int
    BY DEF BaseInv, WholeInv, TrimInv, PathsInv, Walk, File, Exists
  <2> QED
    BY <2>1, <2>2
<1> QED
  BY <1>1, <1>2, <1>3, PTL DEF Spec

\* OwnFilesKept: no step removes, touches or replaces a top-level file that is not
\* named like a key.
THEOREM OwnFilesAreKept == Spec => OwnFilesKept
<1>1. BaseInv /\ [Next]_vars =>
        \A p \in Paths : p[1] \in OwnTop /\ Exists(p) => dir'[p] = dir[p]
  BY DirChanges, CacheFileAssumption DEF OurNames
<1>2. Spec => []BaseInv
  BY BaseInit, BaseStep, PTL DEF Spec
<1> QED
  BY <1>1, <1>2, PTL DEF Spec, OwnFilesKept

-----------------------------------------------------------------------------
\* A trim that knows of every file keeps knowing as long as nobody writes.
LEMMA AccountedStep ==
  ASSUME BaseInv, [Next]_vars, Budget > 0, \A c \in Builds : pc[c] \in Trimming,
         NEW b \in Builds, pc'[b] \in Trimming, Accounted(b)
  PROVE  Accounted(b)'
<1>0. PathsInv /\ TrimInv /\ trim[b] \in Walk /\ CountInv(b)
  BY DEF BaseInv, WholeInv, TrimInv
<1>1. \A c \in Builds : ~BeginTrim(c) /\ pc[c] \notin Asking
  BY DEF BeginTrim, Trimming, Asking
<1> SUFFICES ASSUME NEW p \in Paths, p[1] \in Keys \cup Flat, dir'[p] # Absent
             PROVE  Pending(b, p)' \/ Counted(b, p)'
  BY DEF Accounted, Exists
<1>2. dir'[p] = dir[p] /\ Exists(p)
  BY <1>1, DirChanges DEF Fresh, Exists
<1>3. CASE Pending(b, p)
  <2>1. Pending(b, p)' \/ RecordOf(p) \in trim'[b].survivors
    BY <1>1, <1>2, <1>3, PendingStep
  <2>2. RecordOf(p).path = p /\ RecordOf(p).size = dir'[p].size
    BY <1>2 DEF RecordOf
  <2> QED
    BY <2>1, <2>2 DEF Counted
<1>4. CASE Counted(b, p)
  <2>1. PICK s \in trim[b].survivors : s.path = p /\ s.size = dir[p].size
    BY <1>4 DEF Counted
  <2>2. s \in trim'[b].survivors
    <3>1. trim'[b] = trim[b] \/ OwnTrimStep(b)
      BY <1>0, TrimChanges
    <3>2. CASE ListNext(b)
      BY <1>0, <3>2, ListNextFields DEF Walk
    <3>3. CASE Consider(b)
      BY <1>0, <3>3, ConsiderFields
    <3>4. CASE RemoveAged(b)
      BY <1>0, <3>4, RemoveAgedFields DEF Walk
    <3>5. CASE Evict(b)
      <4>1. PICK r \in trim[b].survivors :
              /\ dir' = [dir EXCEPT ![r.path] = Absent]
              /\ trim'[b] = [trim[b] EXCEPT !.survivors = @ \ {r}, !.total = @ - r.size]
        BY <1>0, <3>5, EvictFields
      <4>2. r # s
        BY <1>0, <1>2, <2>1, <4>1 DEF PathsInv, Exists
      <4> QED
        BY <1>0, <4>1, <4>2 DEF Walk
    <3> QED
      BY <1>1, <3>1, <3>2, <3>3, <3>4, <3>5 DEF OwnTrimStep
  <2> QED
    BY <1>2, <2>1, <2>2 DEF Counted
<1> QED
  BY <1>2, <1>3, <1>4 DEF Accounted

\* The last trim to begin has everything before it; the others wrote before that.
LEMMA LastStep ==
  ASSUME BaseInv, LastInv, [Next]_vars
  PROVE  LastInv'
<1>0. PathsInv
  BY DEF BaseInv, WholeInv
<1> SUFFICES ASSUME Budget > 0, \A b \in Builds : pc'[b] \in Trimming
             PROVE  \E b \in Builds : Accounted(b)'
  BY DEF LastInv
<1>1. CASE \A b \in Builds : pc[b] \in Trimming
  BY <1>1, AccountedStep DEF LastInv
<1>2. ASSUME NEW b \in Builds, pc[b] \notin Trimming
      PROVE  Accounted(b)'
  <2>1. BeginTrim(b)
    BY <1>0, <1>2, PhaseChanges DEF EndWalk, EndTrim, Trimming
  <2> QED
    BY <2>1, BeginsWithAll DEF Accounted, Exists
<1> QED
  BY <1>1, <1>2

\* A trim ends only when its eviction loop does.
LEMMA EndStep ==
  ASSUME BaseInv, EndInv, [Next]_vars
  PROVE  EndInv'
<1>0. PathsInv /\ TrimInv
  BY DEF BaseInv, WholeInv
<1> SUFFICES ASSUME NEW b \in Builds, Budget > 0, pc'[b] = "done"
             PROVE  trim'[b].total <= Budget \/ trim'[b].survivors = {}
  BY DEF EndInv
<1>1. pc[b] = "done" \/ EndTrim(b)
  <2>1. ~BeginTrim(b) /\ ~EndWalk(b)
    BY <1>0 DEF BeginTrim, EndWalk, Goto, PathsInv
  <2> QED
    BY <1>0, <2>1, PhaseChanges DEF Trimming
<1>2. trim'[b] = trim[b]
  <2>1. ~OwnTrimStep(b)
    BY <1>1 DEF OwnTrimStep, EndTrim, BeginTrim, ListNext, Consider, RemoveAged, Evict, Evicting
  <2> QED
    BY <1>0, <2>1, TrimChanges
<1>3. CASE pc[b] = "done"
  BY <1>2, <1>3 DEF EndInv
<1>4. CASE EndTrim(b)
  <2>1. ~(trim[b].total > Budget) \/ trim[b].survivors = {}
    BY <1>4 DEF EndTrim, Evicting
  <2>2. trim[b].total \in Int /\ Budget \in Int
    BY <1>0, CacheFileAssumption DEF TrimInv, Walk
  <2> QED
    BY <1>2, <2>1, <2>2
<1> QED
  BY <1>1, <1>3, <1>4

\* The paths the bounds are about, and what they take on disk.
LEMMA DiskFacts ==
  ASSUME PathsInv
  PROVE  LET f == [p \in Paths |-> SizeOf(p)]
             S == {p \in Paths : p[1] \in Keys \cup Flat}
         IN  /\ IsFiniteSet(S)
             /\ \A p \in S : f[p] \in Nat
             /\ DiskTotal = SumFunctionOnSet(f, {p \in S : Exists(p)})
             /\ \A T \in SUBSET S : IsFiniteSet(T)
<1> DEFINE f == [p \in Paths |-> SizeOf(p)]
           S == {p \in Paths : p[1] \in Keys \cup Flat}
           T == {p \in S : Exists(p)}
<1>1. IsFiniteSet(S)
  <2>1. IsFiniteSet({0} \cup Builds)
    BY CacheFileAssumption, FS_Singleton, FS_Union
  <2>2. IsFiniteSet(Paths)
    BY <2>1, CacheFileAssumption, FS_Product DEF Paths
  <2> QED
    BY <2>2, FS_Subset
<1>2. \A p \in S : f[p] \in Nat
  <2> SUFFICES ASSUME NEW p \in S PROVE SizeOf(p) \in Nat
    OBVIOUS
  <2> QED
    BY DEF SizeOf, Exists, PathsInv, File
<1>3. \A p \in S \ T : f[p] = 0
  BY DEF SizeOf
<1>4. DiskTotal = SumFunctionOnSet(f, S)
  BY DEF DiskTotal
<1>5. T \in SUBSET S /\ \A p \in S : f[p] \in Int
  BY <1>2
<1>6. \A U \in SUBSET S : IsFiniteSet(U)
  BY <1>1, FS_Subset
<1>7. SumFunctionOnSet(f, S) = SumFunctionOnSet(f, T)
  <2> HIDE DEF f, S, T
  <2> QED
    BY <1>1, <1>3, <1>5, SumSupport
<1> QED
  BY <1>1, <1>2, <1>4, <1>6, <1>7

\* A trim that counts every file has at least what is on disk in its total.
LEMMA CountedCoversDisk ==
  ASSUME PathsInv, TrimInv, NEW b \in Builds,
         \A p \in Paths : p[1] \in Keys \cup Flat /\ Exists(p) => Counted(b, p)
  PROVE  DiskTotal <= trim[b].total
<1> DEFINE f == [p \in Paths |-> SizeOf(p)]
           S == {p \in {q \in Paths : q[1] \in Keys \cup Flat} : Exists(p)}
           T == trim[b].survivors
           h == [p \in S |-> CHOOSE s \in T : s.path = p /\ s.size = dir[p].size]
<1>1. /\ IsFiniteSet(S) /\ DiskTotal = SumFunctionOnSet(f, S)
      /\ \A p \in S : f[p] \in Int
  BY DiskFacts
<1>2. IsFiniteSet(T) /\ trim[b].total = SumFunctionOnSet(SurvivorSize, T)
  BY DEF TrimInv, CountInv
<1>3. \A s \in T : SurvivorSize[s] = s.size /\ SurvivorSize[s] \in Nat
  <2>1. T \subseteq Survivor
    BY DEF TrimInv, Walk
  <2> QED
    BY <2>1 DEF SurvivorSize, Survivor
<1>4. \A p \in S : h[p] \in T /\ h[p].path = p /\ h[p].size = dir[p].size
  <2> SUFFICES ASSUME NEW p \in S
               PROVE  h[p] \in T /\ h[p].path = p /\ h[p].size = dir[p].size
    OBVIOUS
  <2>1. \E s \in T : s.path = p /\ s.size = dir[p].size
    BY DEF Counted
  <2> QED
    BY <2>1
<1>5. \A p \in S : f[p] = dir[p].size
  BY DEF SizeOf
<1>6. h \in [S -> T] /\ \A p, q \in S : p # q => h[p] # h[q]
  <2>1. h = [p \in S |-> h[p]]
    OBVIOUS
  <2> HIDE DEF h
  <2> QED
    BY <1>4, <2>1
<1>7. \A p \in S : f[p] <= SurvivorSize[h[p]]
  <2> SUFFICES ASSUME NEW p \in S PROVE f[p] <= SurvivorSize[h[p]]
    OBVIOUS
  <2>1. SurvivorSize[h[p]] = f[p]
    <3> HIDE DEF h, f, S, T
    <3> QED
      BY <1>3, <1>4, <1>5
  <2>2. f[p] \in Int
    BY <1>1
  <2> HIDE DEF h, f, S, T
  <2> QED
    BY <2>1, <2>2
<1> HIDE DEF h, f, S, T
<1> QED
  BY <1>1, <1>2, <1>3, <1>6, <1>7, SumInjection

\* BoundWhenAllEnd for any builds, keys, sizes and budget: when every build has run
\* to its end the directory fits.
THEOREM BoundHoldsAtTheEnd == Spec => []BoundWhenAllEnd
<1>1. Init => BaseInv /\ LastInv /\ EndInv
  <2>1. Init => LastInv /\ EndInv
    <3> SUFFICES ASSUME Init PROVE LastInv /\ EndInv
      OBVIOUS
    <3>1. \A b \in Builds : pc[b] \notin Trimming
      BY DEF Init, Trimming
    <3> QED
      BY <3>1, CacheFileAssumption DEF LastInv, EndInv, Trimming
  <2> QED
    BY <2>1, BaseInit
<1>2. BaseInv /\ LastInv /\ EndInv /\ [Next]_vars => (BaseInv /\ LastInv /\ EndInv)'
  BY BaseStep, LastStep, EndStep
<1>3. BaseInv /\ LastInv /\ EndInv => BoundWhenAllEnd
  <2> SUFFICES ASSUME BaseInv, LastInv, EndInv, Budget > 0, \A b \in Builds : pc[b] = "done"
               PROVE  DiskTotal <= Budget
    BY DEF BoundWhenAllEnd
  <2>0. PathsInv /\ TrimInv
    BY DEF BaseInv, WholeInv
  <2>1. PICK b \in Builds : Accounted(b)
    BY DEF LastInv, Trimming
  <2>2. \A p \in Paths : p[1] \in Keys \cup Flat /\ Exists(p) => Counted(b, p)
    BY <2>1 DEF Accounted, Pending
  <2>3. DiskTotal <= trim[b].total
    BY <2>0, <2>2, CountedCoversDisk
  <2>4. trim[b].total <= Budget
    <3>1. CASE trim[b].survivors = {}
      <4>1. trim[b].total = SumFunctionOnSet(SurvivorSize, {})
        BY <2>0, <3>1 DEF TrimInv, CountInv
      <4>2. trim[b].total = 0
        BY <4>1, FS_EmptySet, SumUnfolds
      <4> QED
        BY <4>2, CacheFileAssumption
    <3> QED
      BY <3>1 DEF EndInv
  <2>5. DiskTotal \in Int /\ trim[b].total \in Int /\ Budget \in Int
    <3> DEFINE f == [p \in Paths |-> SizeOf(p)]
               S == {p \in {q \in Paths : q[1] \in Keys \cup Flat} : Exists(p)}
    <3>1. /\ IsFiniteSet(S) /\ DiskTotal = SumFunctionOnSet(f, S)
          /\ \A p \in S : f[p] \in Int
      BY <2>0, DiskFacts
    <3>2. DiskTotal \in Int
      <4> HIDE DEF f, S
      <4> QED
        BY <3>1, SumInt
    <3> QED
      BY <2>0, <3>2, CacheFileAssumption DEF TrimInv, Walk
  <2> QED
    BY <2>3, <2>4, <2>5
<1> QED
  BY <1>1, <1>2, <1>3, PTL DEF Spec

-----------------------------------------------------------------------------
\* What a build has yet to ask for is the end of what it asks for.
SuffixInv ==
  \A b \in Builds :
    \E i \in 1..(Len(Asks[b]) + 1) : todo[b] = SubSeq(Asks[b], i, Len(Asks[b]))

\* A key is dropped from the front, once it has been read or written.
LEMMA SuffixStep ==
  ASSUME PathsInv, SuffixInv, [Next]_vars
  PROVE  SuffixInv'
<1>1. CASE todo' = todo
  BY <1>1 DEF SuffixInv
<1>2. ASSUME NEW b \in Builds, NextKey(b), pc[b] \in Asking
      PROVE  SuffixInv'
  <2> DEFINE a == Asks[b]
  <2>1. PICK i \in 1..(Len(a) + 1) : todo[b] = SubSeq(a, i, Len(a))
    BY DEF SuffixInv
  <2>2. a \in Seq(Keys) /\ Len(a) \in Nat /\ i \in Nat
    BY CacheFileAssumption
  <2>3. todo[b] # <<>>
    BY <1>2 DEF PathsInv
  <2>4. i \in 1..Len(a)
    <3>1. CASE i = Len(a) + 1
      BY <2>1, <2>2, <2>3, <3>1, SubSeqEmpty
    <3> QED
      BY <2>2, <3>1
  <2>5. Tail(todo[b]) = SubSeq(a, i + 1, Len(a)) /\ i + 1 \in 1..(Len(a) + 1)
    BY <2>1, <2>2, <2>4, HeadTailOfSubSeq
  <2>6. todo' = [todo EXCEPT ![b] = Tail(todo[b])]
    BY <1>2 DEF NextKey
  <2>7. ASSUME NEW c \in Builds
        PROVE  \E j \in 1..(Len(Asks[c]) + 1) : todo'[c] = SubSeq(Asks[c], j, Len(Asks[c]))
    <3>1. CASE c = b
      BY <2>5, <2>6, <3>1 DEF PathsInv
    <3>2. CASE c # b
      BY <2>6, <3>2 DEF PathsInv, SuffixInv
    <3> QED
      BY <3>1, <3>2
  <2> QED
    BY <2>7 DEF SuffixInv
<1>3. todo' = todo \/ \E b \in Builds : NextKey(b) /\ pc[b] \in Asking
  BY DEF Next, Build, vars, Tick, Crash, Asking, ReadHit, ReadMiss, StatUsed, Chtimes, CreateTemp,
         FillTemp, WriteFails, Rename, BeginTrim, ListNext, Consider, RemoveAged,
         EndWalk, Evict, EndTrim
<1> QED
  BY <1>1, <1>2, <1>3

\* TypeOK: in particular the total a trim subtracts from never goes below zero.
THEOREM TypesHold == Spec => []TypeOK
<1>1. Init => BaseInv /\ SuffixInv
  <2>1. Init => SuffixInv
    <3> SUFFICES ASSUME Init, NEW b \in Builds
                 PROVE  /\ 1 \in 1..(Len(Asks[b]) + 1)
                        /\ todo[b] = SubSeq(Asks[b], 1, Len(Asks[b]))
      BY DEF SuffixInv
    <3>1. Asks[b] \in Seq(Keys) /\ todo[b] = Asks[b]
      BY CacheFileAssumption DEF Init
    <3> QED
      BY <3>1, SubSeqFull
  <2> QED
    BY <2>1, BaseInit
<1>2. BaseInv /\ SuffixInv /\ [Next]_vars => (BaseInv /\ SuffixInv)'
  BY BaseStep, SuffixStep DEF BaseInv, WholeInv
<1>3. BaseInv /\ SuffixInv => TypeOK
  <2> SUFFICES ASSUME BaseInv, SuffixInv PROVE TypeOK
    OBVIOUS
  <2>0. PathsInv /\ TrimInv
    BY DEF BaseInv, WholeInv
  <2>1. clock \in Nat /\ fanout \subseteq Names
    BY <2>0 DEF TrimInv, Names
  <2>2. dir \in [Paths -> File \cup {Absent}] /\ pc \in [Builds -> Labels]
    BY <2>0 DEF PathsInv
  <2>3. ASSUME NEW b \in Builds
        PROVE  /\ trim[b].names \subseteq Names /\ trim[b].listed \cup trim[b].aged \subseteq Paths
               /\ \A s \in trim[b].survivors : s \in Survivor
               /\ trim[b].total \in Nat
    <3>1. trim[b] \in Walk /\ CountInv(b)
      BY <2>0 DEF TrimInv
    <3>2. \A s \in trim[b].survivors : SurvivorSize[s] \in Nat
      BY <3>1 DEF Walk, Survivor, SurvivorSize
    <3>3. trim[b].total \in Nat
      BY <3>1, <3>2, SumNat DEF CountInv
    <3> QED
      BY <3>1, <3>3 DEF Walk, OurNames, OurPaths, Names
  <2> QED
    BY <2>1, <2>2, <2>3 DEF TypeOK, SuffixInv
<1> QED
  BY <1>1, <1>2, <1>3, PTL DEF Spec

-----------------------------------------------------------------------------
\* Trims with nothing beside them: no build reads or writes, no entry is old enough
\* for any cutoff the clock can reach, and there is no foreign two-character
\* directory, whose files a trim counts though they are not the cache's.
TrimsAlone ==
  /\ \A b \in Builds : Asks[b] = <<>>
  /\ \A times \in Initial, n \in OurNames : n \in DOMAIN times => times[n] >= MaxClock - TrimCutoff
  /\ OwnNested = {}

\* Nobody asks, and nothing is old enough for the walk to remove.
QuietInv ==
  /\ clock <= MaxClock
  /\ \A b \in Builds : pc[b] \notin Asking
  /\ \A p \in OurPaths : Exists(p) => dir[p].mtime >= MaxClock - TrimCutoff
  /\ \A b \in Builds : trim[b].aged = {}

\* While a file stays on disk every trim has yet to see it or has it right, and
\* what is gone comes before all that is left, in the order every trim evicts by.
OrderInv ==
  \A b \in Builds :
    /\ \A s \in trim[b].survivors : Exists(s.path) => s = RecordOf(s.path)
    /\ Budget > 0 /\ pc[b] \in Trimming =>
         \A p \in OurPaths : Exists(p) => Pending(b, p) \/ RecordOf(p) \in trim[b].survivors
    /\ \A s \in trim[b].survivors, p \in OurPaths :
         ~Exists(s.path) /\ Exists(p) => Before(s, RecordOf(p))

\* The inductive invariant behind EvictsOnlyOverBudget.
AloneInv == BaseInv /\ QuietInv /\ OrderInv

\* A directory with young files only, and builds that only trim.
LEMMA AloneInit == TrimsAlone /\ Init => AloneInv
<1> SUFFICES ASSUME TrimsAlone, Init PROVE AloneInv
  OBVIOUS
<1>1. BaseInv
  BY BaseInit
<1>2. \A b \in Builds : pc[b] = "trim" /\ trim[b].aged = {} /\ trim[b].survivors = {}
  BY DEF TrimsAlone, Init, NoTrim
<1>3. QuietInv
  <2>1. clock <= MaxClock
    BY CacheFileAssumption DEF Init
  <2>2. \A p \in OurPaths : Exists(p) => dir[p].mtime >= MaxClock - TrimCutoff
    BY DEF Init, Exists, Paths, OurPaths, TrimsAlone
  <2> QED
    BY <1>2, <2>1, <2>2 DEF QuietInv, Asking
<1> QED
  BY <1>1, <1>2, <1>3 DEF AloneInv, OrderInv, Trimming

\* With no build asking, a step removes files or leaves them alone.
LEMMA RemovalsOnly ==
  ASSUME BaseInv, QuietInv, [Next]_vars
  PROVE  /\ QuietInv'
         /\ \A p \in Paths : dir'[p] = dir[p] \/ dir'[p] = Absent
<1>0. PathsInv /\ TrimInv /\ CutoffInv /\ clock \in Nat
  BY DEF BaseInv, WholeInv, TrimInv
<1>1. \A p \in Paths : dir'[p] = dir[p] \/ dir'[p] = Absent
  BY DirChanges DEF Fresh, QuietInv
<1>2. \A p \in OurPaths : dir'[p] # Absent => dir'[p].mtime >= MaxClock - TrimCutoff
  BY <1>1 DEF QuietInv, Exists, OurPaths
<1>3. clock' <= MaxClock
  <2>1. clock' = clock \/ Tick
    BY DEF Next, Build, vars, Crash, ReadHit, ReadMiss, StatUsed, Chtimes,
           CreateTemp, FillTemp, WriteFails, Rename, BeginTrim, ListNext, Consider, RemoveAged,
           EndWalk, Evict, EndTrim
  <2> QED
    BY <1>0, <2>1, CacheFileAssumption DEF Tick, QuietInv
<1>4. ASSUME NEW b \in Builds PROVE pc'[b] \notin Asking
  <2>1. \/ pc' = pc
        \/ \E c \in Builds, l \in Labels \ Asking : pc' = [pc EXCEPT ![c] = l]
    BY DEF QuietInv, Labels, Asking, Next, Build, vars, Tick, Crash, Goto, ReadHit, ReadMiss,
           StatUsed, Chtimes, CreateTemp, FillTemp, WriteFails, Rename, BeginTrim, ListNext,
           Consider, RemoveAged, EndWalk, Evict, EndTrim
  <2> QED
    BY <1>0, <2>1 DEF PathsInv, QuietInv
<1>5. ASSUME NEW b \in Builds PROVE trim'[b].aged = {}
  <2>0. trim[b] \in Walk /\ trim[b].aged = {}
    BY <1>0 DEF TrimInv, QuietInv
  <2>1. trim'[b] = trim[b] \/ OwnTrimStep(b)
    BY <1>0, TrimChanges
  <2>2. CASE BeginTrim(b)
    BY <1>0, <2>2, BeginTrimFields
  <2>3. CASE ListNext(b)
    BY <1>0, <2>0, <2>3, ListNextFields DEF Walk
  <2>4. CASE Consider(b)
    <3>1. PICK p \in trim[b].listed :
            trim'[b].aged = IF Exists(p) /\ dir[p].mtime < trim[b].cutoff THEN {p} ELSE {}
      BY <1>0, <2>4, ConsiderFields
    <3>2. p \in OurPaths /\ p \in Paths
      BY <2>0 DEF Walk, OurPaths
    <3>3. trim[b].cutoff <= clock - TrimCutoff /\ trim[b].cutoff \in Int
      BY <1>0, <2>0, <2>4 DEF CutoffInv, Consider, Trimming, Walk
    <3>4. Exists(p) => dir[p].mtime \in Int /\ dir[p].mtime >= MaxClock - TrimCutoff
      BY <1>0, <3>2 DEF PathsInv, QuietInv, Exists, File
    <3>5. clock <= MaxClock /\ MaxClock \in Nat /\ TrimCutoff \in Nat
      BY CacheFileAssumption DEF QuietInv
    <3> QED
      BY <1>0, <3>1, <3>3, <3>4, <3>5
  <2>5. CASE RemoveAged(b)
    BY <2>0, <2>5 DEF RemoveAged
  <2>6. CASE Evict(b)
    BY <1>0, <2>0, <2>6, EvictFields DEF Walk
  <2> QED
    BY <2>0, <2>1, <2>2, <2>3, <2>4, <2>5, <2>6 DEF OwnTrimStep
<1> QED
  BY <1>1, <1>2, <1>3, <1>4, <1>5 DEF QuietInv, Exists

\* Where b's survivors come from.
LEMMA SurvivorsStep ==
  ASSUME BaseInv, QuietInv, [Next]_vars, NEW b \in Builds, NEW s \in trim'[b].survivors,
         s \notin trim[b].survivors
  PROVE  Consider(b) /\ \E p \in OurPaths : Exists(p) /\ s = RecordOf(p)
<1>0. PathsInv /\ TrimInv /\ trim[b] \in Walk
  BY DEF BaseInv, WholeInv, TrimInv
<1>1. trim'[b] = trim[b] \/ OwnTrimStep(b)
  BY <1>0, TrimChanges
<1>2. ~BeginTrim(b) /\ ~ListNext(b) /\ ~RemoveAged(b) /\ ~Evict(b)
  <2>1. ASSUME BeginTrim(b) PROVE FALSE
    BY <1>0, <2>1, BeginTrimFields
  <2>2. ASSUME ListNext(b) PROVE FALSE
    <3>1. PICK n \in trim[b].names :
            trim'[b] = [trim[b] EXCEPT !.names = @ \ {n},
                                       !.listed = {p \in Paths : p[1] = n /\ Exists(p)}]
      BY <1>0, <2>2, ListNextFields
    <3> QED
      BY <1>0, <3>1 DEF Walk
  <2>3. ASSUME RemoveAged(b) PROVE FALSE
    <3>1. trim'[b] = [trim[b] EXCEPT !.aged = {}]
      BY <1>0, <2>3, RemoveAgedFields
    <3> QED
      BY <1>0, <3>1 DEF Walk
  <2>4. ASSUME Evict(b) PROVE FALSE
    <3>1. PICK r \in trim[b].survivors :
            trim'[b] = [trim[b] EXCEPT !.survivors = @ \ {r}, !.total = @ - r.size]
      BY <1>0, <2>4, EvictFields
    <3> QED
      BY <1>0, <3>1 DEF Walk
  <2> QED
    BY <2>1, <2>2, <2>3, <2>4
<1>3. Consider(b)
  BY <1>1, <1>2 DEF OwnTrimStep
<1>4. \E p \in trim[b].listed : Exists(p) /\ s = RecordOf(p)
  BY <1>0, <1>3, ConsiderFields DEF RecordOf
<1> QED
  BY <1>0, <1>3, <1>4 DEF Walk

\* A trim evicts the first file of its order that is still counted.
LEMMA OrderStep ==
  ASSUME TrimsAlone, AloneInv, [Next]_vars
  PROVE  OrderInv'
<1>0. /\ BaseInv /\ QuietInv /\ OrderInv /\ PathsInv /\ TrimInv /\ trim \in [Builds -> Walk]
      /\ \A b \in Builds : CountInv(b)
  BY DEF AloneInv, BaseInv, WholeInv, TrimInv
<1>1. \A p \in Paths : dir'[p] = dir[p] \/ dir'[p] = Absent
  BY <1>0, RemovalsOnly
<1>2. \A p \in Paths : dir'[p] # Absent => Exists(p) /\ dir'[p] = dir[p] /\ RecordOf(p)' = RecordOf(p)
  BY <1>1 DEF Exists, RecordOf
<1>3. \A p \in OurPaths : p \in Paths /\ p[1] \in Keys \cup Flat
  BY DEF OurPaths, OurNames, TrimsAlone
<1>4. \A b \in Builds : \A s \in trim[b].survivors : s.path \in OurPaths
  BY <1>0 DEF CountInv
<1>5. ASSUME NEW b \in Builds, NEW s \in trim'[b].survivors, dir'[s.path] # Absent
      PROVE  s = RecordOf(s.path)'
  <2>1. CASE s \in trim[b].survivors
    BY <1>0, <1>2, <1>3, <1>4, <1>5, <2>1 DEF OrderInv
  <2>2. CASE s \notin trim[b].survivors
    <3>1. PICK p \in OurPaths : Exists(p) /\ s = RecordOf(p)
      BY <1>0, <2>2, SurvivorsStep
    <3>2. s.path = p
      BY <3>1 DEF RecordOf
    <3> QED
      BY <1>2, <1>3, <1>5, <3>1, <3>2
  <2> QED
    BY <2>1, <2>2
<1>6. ASSUME NEW b \in Builds, Budget > 0, pc'[b] \in Trimming, NEW p \in OurPaths, dir'[p] # Absent
      PROVE  Pending(b, p)' \/ RecordOf(p)' \in trim'[b].survivors
  <2>1. CASE BeginTrim(b)
    BY <1>0, <1>3, <1>6, <2>1, BeginsWithAll
  <2>2. CASE ~BeginTrim(b)
    <3>1. pc[b] \in Trimming
      BY <1>0, <1>6, <2>2, PhaseChanges DEF EndWalk, EndTrim, Trimming
    <3>2. Pending(b, p) \/ RecordOf(p) \in trim[b].survivors
      BY <1>0, <1>2, <1>3, <1>6, <3>1 DEF OrderInv
    <3>3. CASE Pending(b, p)
      BY <1>0, <1>2, <1>3, <1>6, <2>2, <3>3, PendingStep
    <3>4. CASE RecordOf(p) \in trim[b].survivors
      <4>1. RecordOf(p) \in trim'[b].survivors
        <5>1. trim'[b] = trim[b] \/ OwnTrimStep(b)
          BY <1>0, TrimChanges
        <5>2. CASE ListNext(b)
          BY <1>0, <3>4, <5>2, ListNextFields DEF Walk
        <5>3. CASE Consider(b)
          BY <1>0, <3>4, <5>3, ConsiderFields
        <5>4. CASE RemoveAged(b)
          BY <1>0, <3>4, <5>4, RemoveAgedFields DEF Walk
        <5>5. CASE Evict(b)
          <6>1. PICK r \in trim[b].survivors :
                  /\ dir' = [dir EXCEPT ![r.path] = Absent]
                  /\ trim'[b] = [trim[b] EXCEPT !.survivors = @ \ {r}, !.total = @ - r.size]
            BY <1>0, <5>5, EvictFields
          <6>2. r # RecordOf(p)
            BY <1>0, <1>3, <1>6, <6>1 DEF PathsInv, RecordOf
          <6> QED
            BY <1>0, <3>4, <6>1, <6>2 DEF Walk
        <5> QED
          BY <2>2, <3>4, <5>1, <5>2, <5>3, <5>4, <5>5 DEF OwnTrimStep
      <4> QED
        BY <1>2, <1>3, <1>6, <4>1
    <3> QED
      BY <3>2, <3>3, <3>4
  <2> QED
    BY <2>1, <2>2
<1>7. ASSUME NEW b \in Builds, NEW s \in trim'[b].survivors, NEW p \in OurPaths,
             dir'[s.path] = Absent, dir'[p] # Absent
      PROVE  Before(s, RecordOf(p)')
  <2>1. s \in trim[b].survivors
    <3> SUFFICES ASSUME s \notin trim[b].survivors PROVE FALSE
      OBVIOUS
    <3>1. PICK q \in OurPaths : Consider(b) /\ Exists(q) /\ s = RecordOf(q)
      BY <1>0, SurvivorsStep
    <3> QED
      BY <1>7, <3>1 DEF Consider, RecordOf, Exists
  <2>2. Exists(p) /\ RecordOf(p)' = RecordOf(p) /\ s.path \in OurPaths
    BY <1>2, <1>3, <1>4, <1>7, <2>1
  <2>3. CASE ~Exists(s.path)
    BY <1>0, <2>1, <2>2, <2>3 DEF OrderInv
  <2>4. CASE Exists(s.path)
    <3>1. PICK c \in Builds : Evict(c)
      <4>1. dir' # dir
        BY <1>7, <2>4 DEF Exists
      <4> QED
        BY <1>0, <4>1
           DEF QuietInv, Asking, Next, Build, vars, Tick, Crash, ReadHit, ReadMiss, StatUsed,
               Chtimes, CreateTemp, FillTemp, WriteFails, Rename, BeginTrim, ListNext,
               Consider, RemoveAged, EndWalk, EndTrim
    <3>2. PICK r \in trim[c].survivors : IsNext(c, r) /\ dir' = [dir EXCEPT ![r.path] = Absent]
      BY <1>0, <3>1, EvictFields
    <3>3. r.path = s.path
      BY <1>0, <1>3, <1>7, <2>2, <2>4, <3>2 DEF PathsInv, Exists
    <3>4. r = s
      BY <1>0, <2>1, <2>4, <3>2, <3>3 DEF OrderInv
    <3>5. pc[c] = "evict" /\ Budget > 0
      BY <3>1 DEF Evict, Evicting
    <3>6. RecordOf(p) \in trim[c].survivors
      BY <1>0, <2>2, <3>5 DEF OrderInv, Pending, Trimming
    <3>7. RecordOf(p) # r
      BY <1>7, <3>3 DEF RecordOf
    <3>8. Before(r, RecordOf(p))
      BY <3>2, <3>6, <3>7 DEF IsNext
    <3> QED
      BY <2>2, <3>4, <3>8
  <2> QED
    BY <2>3, <2>4
<1> QED
  BY <1>5, <1>6, <1>7 DEF OrderInv, Exists

\* The order is strict: of two records one does not come both before and after.
LEMMA BeforeIsStrict ==
  ASSUME NEW s \in Survivor, NEW t \in Survivor, Before(s, t)
  PROVE  ~Before(t, s)
<1>1. /\ s.used \in Int /\ t.used \in Int /\ s.path[1] \in Nat /\ t.path[1] \in Nat
      /\ s.path[2] \in Nat /\ t.path[2] \in Nat
  <2>1. s.used \in Int /\ t.used \in Int /\ s.path \in Paths /\ t.path \in Paths
    BY DEF Survivor
  <2>2. \A p \in Paths : p[1] \in Nat /\ p[2] \in Nat
    <3>1. Names \subseteq Nat /\ {0} \cup Builds \subseteq Nat
      BY CacheFileAssumption
    <3> QED
      BY <3>1 DEF Paths
  <2> QED
    BY <2>1, <2>2
<1> QED
  BY <1>1 DEF Before, PathBefore

\* What is on disk is at least what a trim has counted, if all of that is there.
LEMMA DiskCoversCounted ==
  ASSUME TrimsAlone, AloneInv, NEW b \in Builds,
         \A s \in trim[b].survivors : Exists(s.path)
  PROVE  trim[b].total <= DiskTotal
<1>0. PathsInv /\ TrimInv /\ trim[b] \in Walk /\ CountInv(b) /\ OrderInv
  BY DEF AloneInv, BaseInv, WholeInv, TrimInv
<1> DEFINE f == [p \in Paths |-> SizeOf(p)]
           S == {p \in {q \in Paths : q[1] \in Keys \cup Flat} : Exists(p)}
           T == trim[b].survivors
           h == [s \in T |-> s.path]
<1>1. /\ IsFiniteSet(S) /\ DiskTotal = SumFunctionOnSet(f, S)
      /\ \A p \in S : f[p] \in Nat
  BY <1>0, DiskFacts
<1>2. IsFiniteSet(T) /\ trim[b].total = SumFunctionOnSet(SurvivorSize, T)
  BY <1>0 DEF CountInv
<1>3. \A s \in T : SurvivorSize[s] = s.size /\ SurvivorSize[s] \in Int
  <2>1. T \subseteq Survivor
    BY <1>0 DEF Walk
  <2> QED
    BY <2>1 DEF SurvivorSize, Survivor
<1>4. \A s \in T : s.path \in S /\ f[s.path] = s.size
  <2> SUFFICES ASSUME NEW s \in T PROVE s.path \in S /\ f[s.path] = s.size
    OBVIOUS
  <2>1. s.path \in OurPaths /\ s = RecordOf(s.path)
    BY <1>0 DEF OrderInv, CountInv
  <2>2. s.path \in S
    BY <2>1 DEF OurPaths, OurNames, TrimsAlone
  <2>3. s.size = dir[s.path].size
    <3>1. RecordOf(s.path).size = dir[s.path].size
      BY DEF RecordOf
    <3> QED
      BY <2>1, <3>1
  <2> QED
    BY <2>2, <2>3 DEF SizeOf
<1>5. h \in [T -> S]
  BY <1>4
<1>6. \A s, t \in T : s # t => h[s] # h[t]
  BY <1>0 DEF CountInv
<1>7. \A s \in T : SurvivorSize[s] <= f[h[s]]
  <2> SUFFICES ASSUME NEW s \in T PROVE SurvivorSize[s] <= f[h[s]]
    OBVIOUS
  <2>1. f[h[s]] = s.size
    BY <1>4
  <2> HIDE DEF f, S, T, h
  <2> QED
    BY <1>3, <2>1
<1> HIDE DEF f, S, T, h
<1> QED
  BY <1>1, <1>2, <1>3, <1>5, <1>6, <1>7, SumInjection

\* EvictsOnlyOverBudget, for any number of trims at once that have the directory to
\* themselves.  A read or a write between their walks makes two orders differ, and
\* files that age go in another order, so the hypothesis is needed.
THEOREM TrimsShareTheBudget == TrimsAlone => (Spec => EvictsOnlyOverBudget)
<1> SUFFICES ASSUME TrimsAlone PROVE Spec => EvictsOnlyOverBudget
  OBVIOUS
<1>1. Init => AloneInv
  BY AloneInit
<1>2. AloneInv /\ [Next]_vars => AloneInv'
  BY BaseStep, RemovalsOnly, OrderStep DEF AloneInv
<1>3. AloneInv /\ [Next]_vars =>
        \A b \in Builds : Evicting(b) /\ trim'[b] # trim[b] /\ dir' # dir => DiskTotal > Budget
  <2> SUFFICES ASSUME AloneInv, [Next]_vars, NEW b \in Builds,
                      Evicting(b), trim'[b] # trim[b], dir' # dir
               PROVE  DiskTotal > Budget
    OBVIOUS
  <2>0. PathsInv /\ TrimInv /\ trim[b] \in Walk /\ OrderInv /\ CountInv(b)
    BY DEF AloneInv, BaseInv, WholeInv, TrimInv
  <2>1. Evict(b)
    <3>1. OwnTrimStep(b)
      BY <2>0, TrimChanges
    <3> QED
      BY <3>1 DEF OwnTrimStep, Evicting, BeginTrim, ListNext, Consider, RemoveAged
  <2>2. PICK s \in trim[b].survivors :
          s \in Survivor /\ IsNext(b, s) /\ dir' = [dir EXCEPT ![s.path] = Absent]
    BY <2>0, <2>1, EvictFields
  <2>3. Exists(s.path) /\ s.path \in OurPaths
    BY <2>0, <2>2 DEF PathsInv, Exists, CountInv, OurPaths
  <2>4. s = RecordOf(s.path)
    BY <2>0, <2>3 DEF OrderInv
  <2>5. ASSUME NEW r \in trim[b].survivors, ~Exists(r.path) PROVE FALSE
    <3>1. Before(r, s)
      BY <2>0, <2>3, <2>4, <2>5 DEF OrderInv
    <3>2. r # s /\ Before(s, r)
      BY <2>2, <2>3, <2>5 DEF IsNext
    <3>3. r \in Survivor
      BY <2>0 DEF Walk
    <3> QED
      BY <2>2, <3>1, <3>2, <3>3, BeforeIsStrict
  <2>6. trim[b].total <= DiskTotal
    BY <2>5, DiskCoversCounted
  <2>7. trim[b].total > Budget /\ trim[b].total \in Int /\ Budget \in Int
    BY <2>0, CacheFileAssumption DEF Evicting, Walk
  <2>8. DiskTotal \in Int
    <3> DEFINE f == [p \in Paths |-> SizeOf(p)]
               S == {p \in {q \in Paths : q[1] \in Keys \cup Flat} : Exists(p)}
    <3>1. /\ IsFiniteSet(S) /\ DiskTotal = SumFunctionOnSet(f, S)
          /\ \A p \in S : f[p] \in Int
      BY <2>0, DiskFacts
    <3> HIDE DEF f, S
    <3> QED
      BY <3>1, SumInt
  <2> QED
    BY <2>6, <2>7, <2>8
<1> QED
  BY <1>1, <1>2, <1>3, PTL DEF Spec, EvictsOnlyOverBudget
=============================================================================
