------------------------------ MODULE CacheFile ------------------------------
(***************************************************************************)
(* One on-disk cache directory (internal/cachefile), shared by builds that *)
(* read, write and trim it concurrently and may be killed at any step.     *)
(*                                                                         *)
(* A path is <<name, owner>>: <<k, 0>> is the entry of key k and <<k, b>>  *)
(* the temporary file build b writes it through.  Names order as numbers,  *)
(* which stands for the order of the path strings.  What an entry holds is *)
(* abstracted to whether it is whole; sizes and times are kept.            *)
(***************************************************************************)
EXTENDS Integers, FiniteSets, FiniteSetsExt, Sequences

CONSTANTS
  Keys,        \* keys, each with a two-character fanout directory of its own
  Flat,        \* entries of the layout before the fanout: top-level files
  OwnTop,      \* top-level files that are not named like a key
  OwnNested,   \* files that were never ours in a two-character directory
  Builds,      \* the builds, numbered from 1
  Asks,        \* Asks[b]: the keys build b reads, and writes when it misses
  Size,        \* Size[n]: the size of a whole file named n
  Budget,      \* 0: no bound on the size
  UsedInterval, TrimCutoff,
  Initial,     \* the modification times the directory may start with
  MaxClock,    \* bound on the clock
  Absent

Names == Keys \cup Flat \cup OwnTop \cup OwnNested

ASSUME CacheFileAssumption ==
  /\ Names \subseteq Nat /\ Builds \subseteq Nat \ {0}
  /\ IsFiniteSet(Names) /\ IsFiniteSet(Builds) /\ Builds # {}
  /\ OwnTop \cap (Keys \cup Flat \cup OwnNested) = {}
  /\ Asks \in [Builds -> Seq(Keys)]
  /\ Size \in [Names -> Nat]
  /\ {Budget, UsedInterval, TrimCutoff, MaxClock} \subseteq Nat
  /\ 0 < UsedInterval /\ UsedInterval < TrimCutoff /\ TrimCutoff <= MaxClock

ASSUME InitialAssumption ==
  \A times \in Initial : DOMAIN times \subseteq Names /\ \A n \in DOMAIN times : times[n] \in Int

Paths == Names \X ({0} \cup Builds)
File == [size : Nat, mtime : Int, whole : BOOLEAN]
ASSUME AbsentAssumption == Absent \notin File

VARIABLES
  clock,
  dir,        \* dir[p]: the file at p, or Absent
  fanout,     \* the keys whose fanout directory exists
  pc, todo,   \* per build: its next step; the keys it has yet to ask for
  trim        \* per build: the locals of its Trim

vars == <<clock, dir, fanout, pc, todo, trim>>

Entry(k)   == <<k, 0>>
Temp(b, k) == <<k, b>>
Exists(p)  == dir[p] # Absent
Key(b)     == Head(todo[b])

SizeOf(p) == IF Exists(p) THEN dir[p].size ELSE 0
\* What the directory takes on disk, the files that were never ours apart.
DiskTotal ==
  SumFunctionOnSet([p \in Paths |-> SizeOf(p)], {p \in Paths : p[1] \in Keys \cup Flat})

NoTrim == [cutoff |-> 0, names |-> {}, listed |-> {}, aged |-> {},
           survivors |-> {}, total |-> 0]
-----------------------------------------------------------------------------
Init ==
  /\ clock = TrimCutoff
  /\ \E times \in Initial :
       dir = [p \in Paths |-> IF p[2] = 0 /\ p[1] \in DOMAIN times
                              THEN [size |-> Size[p[1]], mtime |-> times[p[1]], whole |-> TRUE]
                              ELSE Absent]
  /\ fanout = OwnNested \cup {k \in Keys : Exists(Entry(k))}
  /\ pc = [b \in Builds |-> IF Asks[b] = <<>> THEN "trim" ELSE "ask"]
  /\ todo = Asks
  /\ trim = [b \in Builds |-> NoTrim]

Goto(b, l) == pc' = [pc EXCEPT ![b] = l]

\* Read or Write is over: the next key, or the Trim that ends the build.
NextKey(b) ==
  /\ todo' = [todo EXCEPT ![b] = Tail(@)]
  /\ Goto(b, IF Len(todo[b]) = 1 THEN "trim" ELSE "ask")

\* Read: os.ReadFile sees one inode, so a hit is one step.
ReadHit(b) ==
  /\ pc[b] = "ask" /\ Exists(Entry(Key(b)))
  /\ Goto(b, "stat")
  /\ UNCHANGED <<clock, dir, fanout, todo, trim>>

ReadMiss(b) ==
  /\ pc[b] = "ask" /\ ~Exists(Entry(Key(b)))
  /\ Goto(b, "create")
  /\ UNCHANGED <<clock, dir, fanout, todo, trim>>

\* MarkUsed: Stat, and Chtimes only for an entry not refreshed within the hour.
StatUsed(b) ==
  /\ pc[b] = "stat"
  /\ LET p == Entry(Key(b))
         stale == Exists(p) /\ clock - dir[p].mtime >= UsedInterval
     IN  IF stale THEN Goto(b, "chtimes") /\ UNCHANGED todo ELSE NextKey(b)
  /\ UNCHANGED <<clock, dir, fanout, trim>>

Chtimes(b) ==
  /\ pc[b] = "chtimes"
  /\ LET p == Entry(Key(b))
     IN  dir' = IF Exists(p) THEN [dir EXCEPT ![p].mtime = clock] ELSE dir
  /\ NextKey(b)
  /\ UNCHANGED <<clock, fanout, trim>>

\* Write: MkdirAll, then WriteFileAtomically's CreateTemp.
CreateTemp(b) ==
  /\ pc[b] = "create"
  /\ fanout' = fanout \cup {Key(b)}
  /\ dir' = [dir EXCEPT ![Temp(b, Key(b))] = [size |-> 0, mtime |-> clock, whole |-> FALSE]]
  /\ Goto(b, "fill")
  /\ UNCHANGED <<clock, todo, trim>>

\* The write goes to the open file: it succeeds even if a trim unlinked the name.
FillTemp(b) ==
  /\ pc[b] = "fill"
  /\ LET t == Temp(b, Key(b))
     IN  dir' = IF Exists(t)
                THEN [dir EXCEPT ![t] = [size |-> Size[Key(b)], mtime |-> clock, whole |-> TRUE]]
                ELSE dir
  /\ Goto(b, "rename")
  /\ UNCHANGED <<clock, fanout, todo, trim>>

\* A write that fails, at whichever call, removes the temporary and stores nothing.
WriteFails(b) ==
  /\ pc[b] \in {"create", "fill", "rename"}
  /\ dir' = [dir EXCEPT ![Temp(b, Key(b))] = Absent]
  /\ NextKey(b)
  /\ UNCHANGED <<clock, fanout, trim>>

\* Mutant of Rename: the contents are copied over the entry instead.
RenameByCopy(b) ==
  /\ pc[b] = "rename"
  /\ dir' = [dir EXCEPT ![Entry(Key(b))] = [size |-> 0, mtime |-> clock, whole |-> FALSE]]
  /\ NextKey(b)
  /\ UNCHANGED <<clock, fanout, trim>>

\* Chmod and Rename.  A temporary a trim took away fails them; a renamed file
\* keeps the time it was written at.
Rename(b) ==
  /\ pc[b] = "rename"
  /\ LET t == Temp(b, Key(b))
     IN  dir' = IF Exists(t)
                THEN [dir EXCEPT ![Entry(Key(b))] = dir[t], ![t] = Absent]
                ELSE dir
  /\ NextKey(b)
  /\ UNCHANGED <<clock, fanout, trim>>
-----------------------------------------------------------------------------
\* Mutants of BeginTrim: a walk that descends into fanout directories only; one
\* that takes every top-level file for an entry.
BeginTrimFanoutOnly(b) ==
  /\ pc[b] = "trim"
  /\ trim' = [trim EXCEPT ![b] = [NoTrim EXCEPT !.cutoff = clock - TrimCutoff, !.names = fanout]]
  /\ Goto(b, "walk")
  /\ UNCHANGED <<clock, dir, fanout, todo>>

BeginTrimEverything(b) ==
  /\ pc[b] = "trim"
  /\ trim' = [trim EXCEPT ![b] =
       [NoTrim EXCEPT !.cutoff = clock - TrimCutoff,
                      !.names = fanout \cup {n \in Flat \cup OwnTop : Exists(Entry(n))}]]
  /\ Goto(b, "walk")
  /\ UNCHANGED <<clock, dir, fanout, todo>>

\* Trim: the cutoff, and os.ReadDir of the cache directory.  Of the top-level
\* files only those named like a key are entries.
BeginTrim(b) ==
  /\ pc[b] = "trim"
  /\ trim' = [trim EXCEPT ![b] =
       [NoTrim EXCEPT !.cutoff = clock - TrimCutoff,
                      !.names = fanout \cup {n \in Flat : Exists(Entry(n))}]]
  /\ Goto(b, "walk")
  /\ UNCHANGED <<clock, dir, fanout, todo>>

\* The next name of the listing: a top-level file is its own listing, a fanout
\* directory is read, whatever its files are called.
ListNext(b) ==
  /\ pc[b] = "walk" /\ trim[b].listed = {} /\ trim[b].aged = {} /\ trim[b].names # {}
  /\ LET n == Min(trim[b].names)
     IN  trim' = [trim EXCEPT ![b].names = @ \ {n},
                              ![b].listed = {p \in Paths : p[1] = n /\ Exists(p)}]
  /\ UNCHANGED <<clock, dir, fanout, pc, todo>>

\* The order of eviction: oldest first, by path within one timestamp.
PathBefore(p, q) == p[1] < q[1] \/ (p[1] = q[1] /\ p[2] < q[2])
Before(s, t) == s.used < t.used \/ (s.used = t.used /\ PathBefore(s.path, t.path))

\* consider, its stat: an aged file is to be removed, and any other is a survivor
\* if there is a budget to keep.
Consider(b) ==
  /\ pc[b] = "walk" /\ trim[b].aged = {}
  /\ \E p \in trim[b].listed :
       /\ \A q \in trim[b].listed \ {p} : PathBefore(p, q)
       /\ LET aged == Exists(p) /\ dir[p].mtime < trim[b].cutoff
             kept == Exists(p) /\ ~aged /\ Budget > 0
          IN  trim' = [trim EXCEPT
                ![b].listed = @ \ {p},
                ![b].aged = IF aged THEN {p} ELSE {},
                ![b].survivors =
                  IF kept THEN @ \cup {[path |-> p, used |-> dir[p].mtime, size |-> dir[p].size]}
                          ELSE @,
                ![b].total = IF kept THEN @ + dir[p].size ELSE @]
  /\ UNCHANGED <<clock, dir, fanout, pc, todo>>

\* consider, its os.Remove: by then the file may be another, or a refreshed one.
RemoveAged(b) ==
  /\ pc[b] = "walk"
  /\ \E p \in trim[b].aged : dir' = [dir EXCEPT ![p] = Absent]
  /\ trim' = [trim EXCEPT ![b].aged = {}]
  /\ UNCHANGED <<clock, fanout, pc, todo>>

EndWalk(b) ==
  /\ pc[b] = "walk" /\ trim[b].listed = {} /\ trim[b].aged = {} /\ trim[b].names = {}
  /\ Goto(b, "evict")
  /\ UNCHANGED <<clock, dir, fanout, todo, trim>>

\* s is the next survivor in eviction order.
IsNext(b, s) == \A t \in trim[b].survivors \ {s} : Before(s, t)

Evicting(b) ==
  pc[b] = "evict" /\ Budget > 0 /\ trim[b].total > Budget /\ trim[b].survivors # {}

\* Mutants of Evict: a file someone else removed first is not counted; one file
\* is left over the budget.
EvictCountsOwn(b) ==
  /\ Evicting(b)
  /\ \E s \in trim[b].survivors :
       /\ IsNext(b, s)
       /\ dir' = [dir EXCEPT ![s.path] = Absent]
       /\ trim' = [trim EXCEPT ![b].survivors = @ \ {s},
                               ![b].total = IF Exists(s.path) THEN @ - s.size ELSE @]
  /\ UNCHANGED <<clock, fanout, pc, todo>>

EvictCountsTwice(b) ==
  /\ Evicting(b)
  /\ \E s \in trim[b].survivors :
       /\ IsNext(b, s)
       /\ dir' = [dir EXCEPT ![s.path] = Absent]
       /\ trim' = [trim EXCEPT ![b].survivors = @ \ {s}, ![b].total = @ - 2 * s.size]
  /\ UNCHANGED <<clock, fanout, pc, todo>>

\* One Remove of the eviction loop.  A file that is gone already counts too.
Evict(b) ==
  /\ Evicting(b)
  /\ \E s \in trim[b].survivors :
       /\ IsNext(b, s)
       /\ dir' = [dir EXCEPT ![s.path] = Absent]
       /\ trim' = [trim EXCEPT ![b].survivors = @ \ {s}, ![b].total = @ - s.size]
  /\ UNCHANGED <<clock, fanout, pc, todo>>

EndTrim(b) ==
  /\ pc[b] = "evict" /\ ~Evicting(b)
  /\ Goto(b, "done")
  /\ UNCHANGED <<clock, dir, fanout, todo, trim>>
-----------------------------------------------------------------------------
\* A build is killed between any two steps; what it left on disk stays.
Crash(b) ==
  /\ pc[b] \notin {"done", "crashed"}
  /\ Goto(b, "crashed")
  /\ UNCHANGED <<clock, dir, fanout, todo, trim>>

\* Time passes, but no write is in flight for as long as the cutoff.
PromptWrites ==
  \A b \in Builds : pc[b] \in {"fill", "rename"} =>
    LET t == Temp(b, Key(b)) IN Exists(t) => clock - dir[t].mtime < TrimCutoff

Tick ==
  /\ clock < MaxClock /\ PromptWrites
  /\ clock' = clock + 1
  /\ UNCHANGED <<dir, fanout, pc, todo, trim>>

Build(b) ==
  \/ ReadHit(b) \/ ReadMiss(b) \/ StatUsed(b) \/ Chtimes(b)
  \/ CreateTemp(b) \/ FillTemp(b) \/ WriteFails(b) \/ Rename(b)
  \/ BeginTrim(b) \/ ListNext(b) \/ Consider(b) \/ RemoveAged(b) \/ EndWalk(b)
  \/ Evict(b) \/ EndTrim(b)

Next == Tick \/ \E b \in Builds : Build(b) \/ Crash(b)

Spec == Init /\ [][Next]_vars
-----------------------------------------------------------------------------
Labels == {"ask", "stat", "chtimes", "create", "fill", "rename",
           "trim", "walk", "evict", "done", "crashed"}
Survivor == [path : Paths, used : Int, size : Nat]

TypeOK ==
  /\ clock \in Nat
  /\ dir \in [Paths -> File \cup {Absent}]
  /\ fanout \subseteq Names
  /\ pc \in [Builds -> Labels]
  /\ \A b \in Builds :
       /\ \E i \in 1..(Len(Asks[b]) + 1) : todo[b] = SubSeq(Asks[b], i, Len(Asks[b]))
       /\ trim[b].names \subseteq Names /\ trim[b].listed \cup trim[b].aged \subseteq Paths
       /\ \A s \in trim[b].survivors : s \in Survivor
       /\ trim[b].total \in Nat

\* WriteFileAtomically: a reader never sees a half-written entry, whichever
\* builds race on the key and wherever one of them is killed.
WholeEntries == \A n \in Names : Exists(Entry(n)) => dir[Entry(n)].whole

\* Trim runs after a build's writes, so that once every build has ended the
\* directory fits the budget: the last trim to begin its walk sees every write.
BoundWhenAllEnd ==
  Budget > 0 /\ (\A b \in Builds : pc[b] = "done") => DiskTotal <= Budget

\* A trim that has walked the directory leaves nothing last used before its
\* cutoff: no abandoned entry, no orphaned temporary, no entry of the flat
\* layout.
AgedFilesGo ==
  \A b \in Builds : pc[b] \in {"evict", "done"} =>
    \A p \in Paths : p[1] \in Keys \cup Flat /\ Exists(p) => dir[p].mtime >= trim[b].cutoff

\* Two builds trimming at once do not evict the budget twice: a file is evicted
\* only while what is on disk is over the budget.
EvictsOnlyOverBudget ==
  [][\A b \in Builds : Evicting(b) /\ trim'[b] # trim[b] /\ dir' # dir => DiskTotal > Budget]_vars

\* A cache directory somebody pointed at a directory of their own does not lose
\* a top-level file that was never ours (in a two-character directory it does).
OwnFilesKept ==
  [][\A p \in Paths : p[1] \in OwnTop /\ Exists(p) => dir'[p] = dir[p]]_vars
=============================================================================
