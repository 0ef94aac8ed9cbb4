---------------------------- MODULE FunctionCache ----------------------------
(***************************************************************************)
(* goc's per-function cache (goc/functionstore.go, functionmerge.go and    *)
(* functioncache.go): what lowering one declaration added to a module is   *)
(* stored in its package's unit and spliced into later compiles, of other  *)
(* programs too, instead of being lowered again.                           *)
(*                                                                         *)
(* What lowering does is a script of steps: append a function or a datum,  *)
(* touch a source file, use an interned artifact (mint it on the first     *)
(* use, by a script of its own), point a type descriptor's Equal field at  *)
(* a routine, or walk the program's implementations.  What is appended     *)
(* carries the version of the package it came from.  Module.Types behaves  *)
(* as Module.Data does and is left out with the file tables private to a   *)
(* unit; the passes after the declaration loop are left out too.           *)
(***************************************************************************)
EXTENDS Naturals, FiniteSets, SequencesExt

CONSTANTS
  Packages, Root,   \* import paths; the program's own package
  Imports,          \* Imports[p]: what p imports, transitively
  Home,             \* Home[n]: the package of a declaration or an artifact
  Script,           \* Script[n]: what lowering a declaration, minting an artifact does
  Scanned,          \* artifacts found by a scan of the module, not in a table
  Generic,          \* instantiations: no part of their package's unit
  Generated,        \* functions that ClassifyCacheUnit refuses
  Programs,         \* [pre, decls, impls]: prelowering, declarations, implementations
  Builds, Versions,
  MaxEdits,         \* bound on the edits
  QuietWindow       \* no edit falls between a compile's parse and its hash

VARIABLES disk,     \* disk[p]: the version of p's source on disk
          edits,
          cache,    \* the stored units by key
          build     \* the compiles in flight

vars == <<disk, edits, cache, build>>

Nothing == [x \in {} |-> 0]

\* A module in flight, the generator's tables and the journal of what is lowered.
Empty == [funcs |-> <<>>, data |-> <<>>, files |-> <<>>, tables |-> {},
          notes |-> <<>>, events |-> <<>>, touched |-> <<>>, dependent |-> 0, error |-> FALSE]

Idle == [pc |-> "idle", prog |-> 0, parsed |-> 0, hashed |-> 0, on |-> FALSE, at |-> 1,
         s |-> Empty, arts |-> Nothing, units |-> Nothing, writing |-> Nothing]

Init ==
  /\ disk = [p \in Packages |-> 0]
  /\ edits = 0
  /\ cache = Nothing
  /\ build = [b \in Builds |-> Idle]

-----------------------------------------------------------------------------
(***************************************************************************)
(* Lowering, with its journal.  w is the world lowering sees: the parsed   *)
(* sources and the program's implementations.                              *)
(***************************************************************************)
NameIn(items, n) == \E i \in 1..Len(items) : items[i].name = n
Defines(s, n) == NameIn(s.funcs, n) \/ NameIn(s.data, n)

Interned(s, a) == IF a \in Scanned THEN Defines(s, a) ELSE a \in s.tables

Event(kind, a, s) ==
  [kind |-> kind, symbol |-> a, funcs |-> Len(s.funcs), data |-> Len(s.data),
   notes |-> Len(s.notes), dependent |-> s.dependent]

Journal(s, kind, a) == [s EXCEPT !.events = Append(@, Event(kind, a, s))]

AddFile(files, f) == IF Contains(files, f) THEN files ELSE Append(files, f)

\* setRuntimeTypeEqualDescriptor: the one write to a datum emitted earlier.
SetEqual(s, tag, routine) ==
  [s EXCEPT !.data = [i \in DOMAIN @ |->
     IF @[i].name = tag THEN [@[i] EXCEPT !.equal = routine] ELSE @[i]]]

Note(s, n) == [s EXCEPT !.notes = Append(@, n)]

RECURSIVE Lower(_, _, _)

\* ensureTypeTag and its siblings: mintArtifact on the first use, useArtifact after.
Ensure(s, w, a) ==
  LET begun == Journal(s, "begin", a)
      noted == IF a \in Scanned THEN begun
               ELSE [Note(begun, [kind |-> "table", key |-> a]) EXCEPT !.tables = @ \cup {a}]
  IN  IF Interned(s, a) THEN Journal(s, "reference", a)
      ELSE Journal(Lower(noted, w, a), "end", a)

Step(s, w, ver, op) ==
  CASE op.do = "func" -> [s EXCEPT !.funcs = Append(@, [name |-> op.name, ver |-> ver])]
    [] op.do = "data" -> [s EXCEPT !.data =
                            Append(@, [name |-> op.name, ver |-> ver, equal |-> "none"])]
    [] op.do = "file" -> [s EXCEPT !.files = AddFile(@, op.name),
                                   !.touched = AddFile(@, op.name)]
    [] op.do = "use" -> Ensure(s, w, op.name)
    [] op.do = "equal" -> IF NameIn(s.data, op.name)
                          THEN Note(SetEqual(s, op.name, op.to),
                                    [kind |-> "equal", key |-> op.name, value |-> op.to])
                          ELSE s
    [] op.do = "impls" -> FoldLeft(LAMBDA t, a : Ensure(t, w, a),
                                   [s EXCEPT !.dependent = @ + 1], w.impls)

\* A declaration or an artifact, lowered.
Lower(s, w, n) == FoldLeft(LAMBDA t, op : Step(t, w, w.src[Home[n]], op), s, Script[n])

World(prog, src) == [src |-> src, impls |-> prog.impls]

\* The globals and the dynamic initializers.
Prelower(prog, src) ==
  FoldLeft(LAMBDA t, a : Ensure(t, World(prog, src), a), Empty, prog.pre)

\* markDeclaration: the journal from here on is the declaration's own.
Marked(s) == [s EXCEPT !.notes = <<>>, !.events = <<>>, !.touched = <<>>]

-----------------------------------------------------------------------------
(***************************************************************************)
(* Recording.  A scope's own items are the module's between its children,  *)
(* as they stand when the declaration has been lowered.                    *)
(***************************************************************************)
Opened(ev, i) == Cardinality({k \in 1..i : ev[k].kind = "begin"})
Closed(ev, i) == Cardinality({k \in 1..i : ev[k].kind = "end"})

Children(ev) ==
  SelectSeq([i \in 1..Len(ev) |-> i],
            LAMBDA i : ev[i].kind # "end" /\ Opened(ev, i - 1) = Closed(ev, i - 1))

EndOf(ev, i) ==
  CHOOSE j \in i..Len(ev) :
    /\ ev[j].kind = "end" /\ Opened(ev, j) - Opened(ev, i - 1) = Closed(ev, j) - Closed(ev, i - 1)
    /\ \A k \in i..(j - 1) : Opened(ev, k) - Opened(ev, i - 1) > Closed(ev, k) - Closed(ev, i - 1)

\* The items from where the walk stands up to an event.
Gather(c, s, e) ==
  [c EXCEPT !.funcs = @ \o SubSeq(s.funcs, c.from.funcs + 1, e.funcs),
            !.data  = @ \o SubSeq(s.data, c.from.data + 1, e.data),
            !.notes = @ \o SubSeq(s.notes, c.from.notes + 1, e.notes),
            !.from  = e]

Sequence(c) == [funcs |-> c.funcs, data |-> c.data, notes |-> c.notes, refs |-> c.refs]

RECURSIVE Collect(_, _, _, _, _)

\* recordArtifact, for the artifact minted at event i.
RecordArtifact(arts, s, ev, i) ==
  LET a == ev[i].symbol
      j == EndOf(ev, i)
      c == Collect(arts, s, SubSeq(ev, i + 1, j - 1), ev[i], ev[j])
      Answer(known, missing, all) == [known |-> known, missing |-> missing, arts |-> all, end |-> ev[j]]
  IN  CASE a \in DOMAIN arts -> Answer(TRUE, {}, arts)
        [] a \notin DOMAIN arts /\ ev[j].dependent # ev[i].dependent -> Answer(FALSE, {a}, arts)
        [] OTHER ->
             IF c.missing # {} THEN Answer(FALSE, c.missing, c.arts)
             ELSE IF c.funcs \o c.data \o c.refs = <<>> THEN Answer(FALSE, {}, c.arts)
             ELSE Answer(TRUE, {}, c.arts @@ (a :> Sequence(c)))

\* A table hit: the reference needs a definition this compile knows.
Reference(arts, e) ==
  LET known == e.symbol \in DOMAIN arts
  IN  [known |-> known, missing |-> IF known THEN {} ELSE {e.symbol}, arts |-> arts, end |-> e]

Child(c, s, ev, i) ==
  LET d == Gather(c, s, ev[i])
      r == IF ev[i].kind = "begin" THEN RecordArtifact(c.arts, s, ev, i) ELSE Reference(c.arts, ev[i])
  IN  [d EXCEPT !.arts = r.arts, !.missing = @ \cup r.missing, !.from = r.end,
                !.refs = IF r.known
                         THEN Append(@, [symbol |-> ev[i].symbol,
                                         funcs |-> Len(d.funcs), data |-> Len(d.data)])
                         ELSE @]

\* collectScope: the walk goes to the end even when something is missing.
Collect(arts, s, ev, first, last) ==
  LET start == [funcs |-> <<>>, data |-> <<>>, notes |-> <<>>, refs |-> <<>>,
                missing |-> {}, arts |-> arts, from |-> first]
  IN  Gather(FoldLeft(LAMBDA c, i : Child(c, s, ev, i), start, Children(ev)), s, last)

\* What lowering declaration d added to `before`.
Delta(arts, before, after) ==
  Collect(arts, after, after.events, Event("begin", "", Marked(before)), Event("end", "", after))

Key(p, src) == [pkg |-> p, src |-> [q \in {p} \cup Imports[p] |-> src[q]]]

\* cacheableDeclaration, and entryFor's refusal of the program's own package.
Cacheable(d) == d \notin Generic /\ Home[d] # Root

\* Mutant: a declaration that consulted a whole-program fact is stored.
MayStoreDependent(d, before, after, c) ==
  /\ Cacheable(d)
  /\ c.missing = {} /\ c.funcs # <<>>
  /\ \A i \in 1..Len(c.funcs) : c.funcs[i].name \notin Generated

\* record's refusals.
MayStore(d, before, after, c) ==
  /\ Cacheable(d) /\ after.dependent = before.dependent
  /\ c.missing = {} /\ c.funcs # <<>>
  /\ \A i \in 1..Len(c.funcs) : c.funcs[i].name \notin Generated

Stored(after, c) == [files |-> after.touched, seq |-> Sequence(c)]

\* absorbPrelowering: the definitions minted before the declaration loop.
Absorbed(s) ==
  FoldLeft(LAMBDA arts, i : RecordArtifact(arts, s, s.events, i).arts, Nothing,
           SelectSeq(Children(s.events), LAMBDA i : s.events[i].kind = "begin"))

-----------------------------------------------------------------------------
(***************************************************************************)
(* Replaying.  The walk appends a sequence's own items up to each          *)
(* reference, then what the reference names unless the module has it; r is *)
(* the compile's module and the definitions it knows.                      *)
(***************************************************************************)
Refuse(r) == [r EXCEPT !.s.error = TRUE]

EmitDatum(s, x) ==
  IF ~NameIn(s.data, x.name) THEN [s EXCEPT !.data = Append(@, x)]
  ELSE IF Contains(s.data, x) THEN s ELSE [s EXCEPT !.error = TRUE]

EmitFunc(s, x) ==
  IF NameIn(s.funcs, x.name) THEN [s EXCEPT !.error = TRUE] ELSE [s EXCEPT !.funcs = Append(@, x)]

\* emitOwn
EmitOwn(s, seq, from, to) ==
  FoldLeft(EmitFunc, FoldLeft(EmitDatum, s, SubSeq(seq.data, from.data + 1, to.data)),
           SubSeq(seq.funcs, from.funcs + 1, to.funcs))

ReplayNote(s, n) ==
  IF n.kind = "table" THEN [s EXCEPT !.tables = @ \cup {n.key}] ELSE SetEqual(s, n.key, n.value)

RECURSIVE ReplaySequence(_, _, _, _)

\* ensureArtifact; `fuel` bounds the nesting where the code refuses a cycle.
EnsureArtifact(r, unit, a, fuel) ==
  LET known == unit.arts @@ r.arts
      named == [r EXCEPT !.arts = @ @@ (a :> known[a])]
  IN  IF a \notin DOMAIN known \/ fuel = 0 THEN Refuse(r)
      ELSE IF Defines(r.s, a) THEN named
      ELSE ReplaySequence(named, unit, known[a], fuel - 1)

SequenceStart == [funcs |-> 0, data |-> 0]
SequenceEnd(seq) == [funcs |-> Len(seq.funcs), data |-> Len(seq.data)]

\* Mutant: what is referenced is put back after the sequence's own items.
ReplayItemsReferencesLast(r, unit, seq, fuel) ==
  FoldLeft(LAMBDA t, ref : EnsureArtifact(t, unit, ref.symbol, fuel),
           [r EXCEPT !.s = EmitOwn(@, seq, SequenceStart, SequenceEnd(seq))], seq.refs)

\* The items and the references, at the positions they were recorded.
ReplayItems(r, unit, seq, fuel) ==
  LET At(i) == IF i = 0 THEN SequenceStart ELSE seq.refs[i]
      Visit(t, i) == EnsureArtifact([t EXCEPT !.s = EmitOwn(@, seq, At(i - 1), At(i))],
                                    unit, seq.refs[i].symbol, fuel)
      spliced == FoldLeft(Visit, r, [i \in 1..Len(seq.refs) |-> i])
  IN  [spliced EXCEPT !.s = EmitOwn(@, seq, At(Len(seq.refs)), SequenceEnd(seq))]

\* replaySequence: the tables last.
ReplaySequence(r, unit, seq, fuel) ==
  LET spliced == ReplayItems(r, unit, seq, fuel)
  IN  [spliced EXCEPT !.s = FoldLeft(ReplayNote, @, seq.notes)]

\* replay: the files first.
Replay(r, unit, decl) ==
  ReplaySequence([r EXCEPT !.s.files = FoldLeft(AddFile, @, decl.files)], unit, decl.seq,
                 Cardinality(DOMAIN (unit.arts @@ r.arts)) + 1)

-----------------------------------------------------------------------------
(***************************************************************************)
(* A compile: parse and lower the globals, hash the sources and open the   *)
(* cache, then each declaration replayed or lowered, then the flush.       *)
(***************************************************************************)
Edit(p) ==
  /\ edits < MaxEdits
  /\ QuietWindow => \A b \in Builds : build[b].pc # "loaded"
  /\ edits' = edits + 1
  /\ \E v \in Versions \ {disk[p]} : disk' = [disk EXCEPT ![p] = v]
  /\ UNCHANGED <<cache, build>>

Load(b) ==
  /\ build[b].pc = "idle"
  /\ \E prog \in Programs :
       build' = [build EXCEPT ![b] = [Idle EXCEPT !.pc = "loaded", !.prog = prog, !.parsed = disk,
                                                  !.s = Prelower(prog, disk)]]
  /\ UNCHANGED <<disk, edits, cache>>

\* openFunctionCache: hashParsedFiles reads the files again; with an error, or
\* with caching switched off, the compile goes on without a cache.
Open(b) ==
  /\ build[b].pc = "loaded"
  /\ \E on \in BOOLEAN :
       build' = [build EXCEPT ![b] = [@ EXCEPT !.pc = "lowering", !.on = on, !.hashed = disk,
                                               !.s = Marked(@),
                                               !.arts = IF on THEN Absorbed(build[b].s) ELSE @]]
  /\ UNCHANGED <<disk, edits, cache>>

NoUnit == [decls |-> Nothing, arts |-> Nothing]

Current(b) == build[b].prog.decls[build[b].at]
Lowering(b) ==
  build[b].pc = "lowering" /\ build[b].at <= Len(build[b].prog.decls) /\ ~build[b].s.error

\* unitFor: a package's unit is read once, when its first declaration is looked up.
UnitOf(x, p) ==
  IF p \in DOMAIN x.units THEN x.units[p]
  ELSE IF Key(p, x.hashed) \in DOMAIN cache THEN cache[Key(p, x.hashed)] ELSE NoUnit

Consults(x, d) == x.on /\ Cacheable(d)

\* The compile after lookup has read the unit and named its definitions.
LookedUp(x, d) ==
  IF Consults(x, d)
  THEN [x EXCEPT !.units = @ @@ (Home[d] :> UnitOf(x, Home[d])), !.arts = @ @@ UnitOf(x, Home[d]).arts]
  ELSE x

Hit(x, d) == Consults(x, d) /\ d \in DOMAIN UnitOf(x, Home[d]).decls

ReplayNext(b) ==
  LET x == LookedUp(build[b], Current(b))
      d == Current(b)
      unit == x.units[Home[d]]
      r == Replay([s |-> x.s, arts |-> x.arts], unit, unit.decls[d])
  IN  /\ Lowering(b) /\ Hit(build[b], d)
      /\ build' = [build EXCEPT ![b] = [x EXCEPT !.s = r.s, !.arts = r.arts, !.at = @ + 1]]
      /\ UNCHANGED <<disk, edits, cache>>

\* unitBeingWritten(path).add
Added(writing, d, decl) ==
  LET decls == IF Home[d] \in DOMAIN writing THEN writing[Home[d]] ELSE Nothing
  IN  (Home[d] :> ((d :> decl) @@ decls)) @@ writing

LowerNext(b) ==
  LET x == LookedUp(build[b], Current(b))
      d == Current(b)
      before == Marked(x.s)
      after == Lower(before, World(x.prog, x.parsed), d)
      c == Delta(x.arts, before, after)
  IN  /\ Lowering(b) /\ ~Hit(build[b], d)
      /\ build' = [build EXCEPT ![b] =
           [x EXCEPT !.s = Marked(after), !.at = @ + 1,
                     !.arts = IF x.on THEN c.arts ELSE @,
                     !.writing = IF x.on /\ MayStore(d, before, after, c)
                                 THEN Added(@, d, Stored(after, c)) ELSE @]]
      /\ UNCHANGED <<disk, edits, cache>>

\* Mutant: a unit is rewritten with what this compile lowered alone.
CarryNothing(writing, units) == writing

\* carryForward
CarryForward(writing, units) ==
  [p \in DOMAIN writing |-> writing[p] @@ (IF p \in DOMAIN units THEN units[p].decls ELSE Nothing)]

StartFlush(b) ==
  /\ build[b].pc = "lowering" /\ build[b].at > Len(build[b].prog.decls) /\ ~build[b].s.error
  /\ build' = [build EXCEPT ![b] = [@ EXCEPT !.pc = "writing",
                                             !.writing = CarryForward(@, build[b].units)]]
  /\ UNCHANGED <<disk, edits, cache>>

Named(seq) == {seq.refs[i].symbol : i \in 1..Len(seq.refs)}

\* Mutant: the definitions the declarations name, and not what those name.
AttachDirect(arts, decls) == UNION {Named(decls[d].seq) : d \in DOMAIN decls}

\* attachArtifacts: every definition the declarations name, transitively.
Attach(arts, decls) ==
  LET Known(S) == {a \in S : a \in DOMAIN arts}
      Widen(S) == S \cup UNION {Named(arts[a]) : a \in Known(S)}
  IN  FoldLeft(LAMBDA S, i : Widen(S), UNION {Named(decls[d].seq) : d \in DOMAIN decls},
               [i \in 1..Cardinality(DOMAIN arts) |-> i])

\* One package of flush; a write may fail, and its error is dropped.
WriteUnit(b) ==
  LET x == build[b]
      p == CHOOSE q \in DOMAIN x.writing : TRUE
      decls == x.writing[p]
      named == Attach(x.arts, decls)
      Skipped == \/ Cardinality(DOMAIN x.units[p].decls) = Cardinality(DOMAIN decls)
                 \/ ~(named \subseteq DOMAIN x.arts)
      unit == [decls |-> decls, arts |-> [a \in named |-> x.arts[a]]]
  IN  /\ x.pc = "writing" /\ x.writing # Nothing
      /\ \/ ~Skipped /\ cache' = (Key(p, x.hashed) :> unit) @@ cache
         \/ UNCHANGED cache
      /\ build' = [build EXCEPT ![b].writing = [q \in DOMAIN @ \ {p} |-> @[q]]]
      /\ UNCHANGED <<disk, edits>>

EndFlush(b) ==
  /\ build[b].pc = "writing" /\ build[b].writing = Nothing
  /\ build' = [build EXCEPT ![b] = Idle]
  /\ UNCHANGED <<disk, edits, cache>>

\* The process is killed, or a replay's error, which is the compile's, ends it.
Stop(b) ==
  /\ build[b].pc # "idle"
  /\ build' = [build EXCEPT ![b] = Idle]
  /\ UNCHANGED <<disk, edits, cache>>

\* A trim takes a unit, or its file no longer decodes.
Lose(k) ==
  /\ cache' = [j \in DOMAIN cache \ {k} |-> cache[j]]
  /\ UNCHANGED <<disk, edits, build>>

Next ==
  \/ \E p \in Packages : Edit(p)
  \/ \E b \in Builds : \/ Load(b) \/ Open(b) \/ ReplayNext(b) \/ LowerNext(b)
                       \/ StartFlush(b) \/ WriteUnit(b) \/ EndFlush(b) \/ Stop(b)
  \/ \E k \in DOMAIN cache : Lose(k)

Spec == Init /\ [][Next]_vars

-----------------------------------------------------------------------------
\* The module of a compile: what is emitted, and the order it is emitted in.
Module(s) == [funcs |-> s.funcs, data |-> s.data, files |-> s.files]

Sources == [Packages -> Versions]

\* Cold[prog, src, n]: a compile without a cache after n of its declarations.
\* (Overriding nothing makes TLC tabulate the function.)
Cold ==
  [prog \in Programs, src \in Sources, n \in 0..Max({Len(prog.decls) : prog \in Programs}) |->
     FoldLeft(LAMBDA t, d : Lower(t, World(prog, src), d), Prelower(prog, src),
              SubSeq(prog.decls, 1, Min({n, Len(prog.decls)})))] @@ Nothing

\* A compile that replays is, declaration by declaration, the compile that
\* lowers the sources it parsed: the same functions, data and files in the same
\* order, and the same intern tables for the declarations still to come
\* (replaySequence: "the two produce the same indices").
WarmIsCold ==
  \A b \in Builds :
    build[b].pc # "idle" /\ ~build[b].s.error =>
      LET cold == Cold[build[b].prog, build[b].parsed, build[b].at - 1]
      IN  Module(build[b].s) = Module(cold) /\ build[b].s.tables = cold.tables

\* The delta of a declaration lowered alone, by a program of nothing else, each
\* datum as it was appended.
Alone ==
  [d \in UNION {ToSet(prog.decls) : prog \in Programs}, src \in Sources |->
     LET after == Lower(Empty, [src |-> src, impls |-> <<>>], d)
         appended == [after EXCEPT !.data = [i \in DOMAIN @ |-> [@[i] EXCEPT !.equal = "none"]]]
         c == Delta(Nothing, Empty, appended)
     IN  [decl |-> [files |-> after.touched, seq |-> Sequence(c)], arts |-> c.arts]] @@ Nothing

\* What is stored of a package is a function of the package and of what it
\* imports, never of the program that was being compiled, of the declarations
\* before it, of another compile or of the unit it was carried forward from:
\* every delta and every definition is the one of the declaration lowered alone.
StoredDeltasAreLocal ==
  \A k \in DOMAIN cache : \A src \in {v \in Sources : Key(k.pkg, v) = k} :
    \A d \in DOMAIN cache[k].decls :
      /\ cache[k].decls[d] = Alone[d, src].decl
      /\ \A a \in DOMAIN Alone[d, src].arts :
           a \in DOMAIN cache[k].arts /\ cache[k].arts[a] = Alone[d, src].arts[a]

\* Whatever was lost, evicted or half done before, a lookup that hits ends in a
\* spliced declaration: replay's errors, which fail the compile, never happen.
ReplaySucceeds == \A b \in Builds : ~build[b].s.error

\* The unit a flush leaves has every declaration its compile read from the one
\* it replaces: a compile of a part of a package does not shrink the unit.
FlushKeepsWhatItRead ==
  [][\A b \in Builds : \A p \in DOMAIN build[b].writing \ DOMAIN build'[b].writing :
       cache' # cache =>
         DOMAIN build[b].units[p].decls \subseteq DOMAIN cache'[Key(p, build[b].hashed)].decls]_vars
=============================================================================
