--------------------------- MODULE ParallelBackend ---------------------------
(***************************************************************************)
(* The concurrent back end of arm64/parallel.go and the process-global     *)
(* code cache of arm64/codecache.go.                                       *)
(*                                                                         *)
(* One dispatcher runs compileFunctionsInOrder: it starts a goroutine per  *)
(* function, at most 2*workers ahead of the merge, waits for the jobs in   *)
(* function order and merges each result.  Each goroutine takes a slot,    *)
(* looks its body up in the cache, compiles on a miss, files the result,   *)
(* gives the slot back and closes its done channel.  The cache outlives a  *)
(* call and may be installed or removed at any moment.                     *)
(*                                                                         *)
(* A function is its body; what emission makes of a body is CodeOf.        *)
(* Functions are numbered from 1, so the code's index is index - 1.        *)
(***************************************************************************)
EXTENDS Naturals, Sequences, FiniteSets

CONSTANTS Bodies,       \* finished function bodies
          Modules,      \* the modules a build hands over: sequences of bodies
          Options,      \* the options of a call: [pic, facts]
          Failing,      \* the bodies the back end refuses with an error
          Keyed,        \* the bodies the installed key function has a key for
          WorkerCounts, \* the values backendWorkers() may return
          MaxCalls,     \* bound: calls of compileFunctionsInOrder
          NoCode,       \* no cache entry; no result yet
          Error         \* what job.err holds when compileFunction fails

ASSUME ModulesAssumption == Modules \subseteq Seq(Bodies)
ASSUME OptionsAssumption == \A o \in Options : o.pic \in BOOLEAN
ASSUME WorkersAssumption == WorkerCounts \subseteq Nat \ {0}
ASSUME MaxCallsAssumption == MaxCalls \in Nat
ASSUME MarkersAssumption ==
  /\ NoCode # Error
  /\ NoCode \notin [body : Bodies, opts : Options]
  /\ Error \notin [body : Bodies, opts : Options]

VARIABLES
  bodies, opts, workers,       \* this call's functions, options and workers
  pc,                          \* the dispatcher: dispatch, await or returned
  index, started, firstError,  \* its locals; firstError is a function number
  merged,                      \* what merge has been called with, in order
  job, result, keyed,          \* per goroutine: where it is, code or err, keyed
  slots,                       \* how many tokens the slots channel holds
  installed, cache,            \* codeCacheKey # nil, codeCache
  calls

callVars     == <<bodies, opts, workers, calls>>
loopVars     == <<pc, index, started, firstError, merged>>
cacheVars    == <<installed, cache>>
vars == <<callVars, loopVars, job, result, keyed, slots, cacheVars>>

CodeOf(b, o) == [body |-> b, opts |-> o]
Codes == [body : Bodies, opts : Options]

Functions == 1..Len(bodies)
lookahead == 2 * workers

\* A goroutine between taking a slot and giving it back.
Holding == {i \in Functions : job[i] \in {"slot", "missed", "finished"}}
-----------------------------------------------------------------------------
Init ==
  /\ bodies = <<>> /\ opts \in Options /\ workers \in WorkerCounts /\ calls = 0
  /\ pc = "returned" /\ index = 1 /\ started = 0 /\ firstError = 0
  /\ merged = <<>>
  /\ job = [i \in Functions |-> "none"]
  /\ result = [i \in Functions |-> NoCode]
  /\ keyed = [i \in Functions |-> FALSE]
  /\ slots = 0
  /\ installed = FALSE /\ cache = [b \in Bodies |-> NoCode]

(***************************************************************************)
(* compileFunctionsInOrder is called with fresh jobs, slots and counters.  *)
(***************************************************************************)
Call(m, o, w) ==
  /\ pc = "returned" /\ calls < MaxCalls
  /\ bodies' = m /\ opts' = o /\ workers' = w /\ calls' = calls + 1
  /\ pc' = "dispatch" /\ index' = 1 /\ started' = 0 /\ firstError' = 0
  /\ merged' = <<>>
  /\ job' = [i \in 1..Len(m) |-> "none"]
  /\ result' = [i \in 1..Len(m) |-> NoCode]
  /\ keyed' = [i \in 1..Len(m) |-> FALSE]
  /\ slots' = 0
  /\ UNCHANGED cacheVars

\* Mutant of MayStart: one job further ahead than the look-ahead allows.
MayStartTooFar ==
  /\ index <= Len(bodies) /\ firstError = 0 /\ started < Len(bodies)
  /\ started <= index - 1 + lookahead

\* The inner loop's condition, under the "firstError == nil" that guards it.
MayStart ==
  /\ index <= Len(bodies)
  /\ firstError = 0
  /\ started < Len(bodies)
  /\ started < index - 1 + lookahead

Start ==
  /\ pc = "dispatch" /\ MayStart
  /\ job' = [job EXCEPT ![started + 1] = "spawned"]
  /\ started' = started + 1
  /\ UNCHANGED <<callVars, pc, index, firstError, merged, result, keyed, slots, cacheVars>>

BeginAwait ==
  /\ pc = "dispatch" /\ ~MayStart
  /\ index <= Len(bodies) /\ index <= started
  /\ pc' = "await"
  /\ UNCHANGED <<callVars, index, started, firstError, merged, job, result, keyed, slots, cacheVars>>

\* Mutant of Return: gives up at the first failure without draining.
ReturnAtOnce ==
  /\ pc = "dispatch" /\ ~MayStart
  /\ index > Len(bodies) \/ index > started \/ firstError # 0
  /\ pc' = "returned"
  /\ UNCHANGED <<callVars, index, started, firstError, merged, job, result, keyed, slots, cacheVars>>

\* The range loop ends, or breaks because a failure stopped the dispatch.
Return ==
  /\ pc = "dispatch" /\ ~MayStart
  /\ index > Len(bodies) \/ index > started
  /\ pc' = "returned"
  /\ UNCHANGED <<callVars, index, started, firstError, merged, job, result, keyed, slots, cacheVars>>

\* Mutants of Await: the failure does not skip the merge; a later failure replaces
\* an earlier one; functions after the failure are merged.
AwaitMergesFailure ==
  /\ pc = "await" /\ job[index] = "closed"
  /\ pc' = "dispatch" /\ index' = index + 1
  /\ firstError' = IF firstError = 0 /\ result[index] = Error THEN index ELSE firstError
  /\ merged' = IF firstError = 0 THEN Append(merged, result[index]) ELSE merged
  /\ UNCHANGED <<callVars, started, job, result, keyed, slots, cacheVars>>

AwaitKeepsLastError ==
  /\ pc = "await" /\ job[index] = "closed"
  /\ pc' = "dispatch" /\ index' = index + 1
  /\ firstError' = IF result[index] = Error THEN index ELSE firstError
  /\ merged' = IF firstError' = 0 THEN Append(merged, result[index]) ELSE merged
  /\ UNCHANGED <<callVars, started, job, result, keyed, slots, cacheVars>>

AwaitMergesPastError ==
  /\ pc = "await" /\ job[index] = "closed"
  /\ pc' = "dispatch" /\ index' = index + 1
  /\ firstError' = IF firstError = 0 /\ result[index] = Error THEN index ELSE firstError
  /\ merged' = IF result[index] # Error THEN Append(merged, result[index]) ELSE merged
  /\ UNCHANGED <<callVars, started, job, result, keyed, slots, cacheVars>>

\* <-job.done, then the three ways the loop body goes on.
Await ==
  /\ pc = "await" /\ job[index] = "closed"
  /\ pc' = "dispatch" /\ index' = index + 1
  /\ \/ /\ firstError # 0
        /\ UNCHANGED <<firstError, merged>>
     \/ /\ firstError = 0 /\ result[index] = Error
        /\ firstError' = index
        /\ UNCHANGED merged
     \/ /\ firstError = 0 /\ result[index] # Error
        /\ merged' = Append(merged, result[index])
        /\ UNCHANGED firstError
  /\ UNCHANGED <<callVars, started, job, result, keyed, slots, cacheVars>>
-----------------------------------------------------------------------------
\* Mutant of Acquire: the channel has room for one more.
AcquireOneMore(i) ==
  /\ job[i] = "spawned" /\ slots <= workers
  /\ slots' = slots + 1
  /\ job' = [job EXCEPT ![i] = "slot"]
  /\ UNCHANGED <<callVars, loopVars, result, keyed, cacheVars>>

Acquire(i) ==
  /\ job[i] = "spawned" /\ slots < workers
  /\ slots' = slots + 1
  /\ job' = [job EXCEPT ![i] = "slot"]
  /\ UNCHANGED <<callVars, loopVars, result, keyed, cacheVars>>

\* Mutant of Consults: PIC uses the cache too.
ConsultsUnderPIC(i) == installed /\ bodies[i] \in Keyed

\* cachedFunctionCode under codeCacheMu.  Under PIC compileFunction discards what
\* it answers: the code is neither taken from the cache nor filed in it.
Consults(i) == installed /\ bodies[i] \in Keyed /\ ~opts.pic

Hit(i) ==
  /\ job[i] = "slot" /\ Consults(i) /\ cache[bodies[i]] # NoCode
  /\ result' = [result EXCEPT ![i] = cache[bodies[i]]]
  /\ job' = [job EXCEPT ![i] = "finished"]
  /\ UNCHANGED <<callVars, loopVars, keyed, slots, cacheVars>>

Miss(i) ==
  /\ job[i] = "slot" /\ ~(Consults(i) /\ cache[bodies[i]] # NoCode)
  /\ keyed' = [keyed EXCEPT ![i] = Consults(i)]
  /\ job' = [job EXCEPT ![i] = "missed"]
  /\ UNCHANGED <<callVars, loopVars, result, slots, cacheVars>>

\* Lowering, allocation and emission touch only this function, so they are one
\* step with the storeFunctionCode that ends them.
Compile(i) ==
  /\ job[i] = "missed"
  /\ job' = [job EXCEPT ![i] = "finished"]
  /\ \/ /\ bodies[i] \in Failing
        /\ result' = [result EXCEPT ![i] = Error]
        /\ UNCHANGED cache
     \/ /\ bodies[i] \notin Failing
        /\ result' = [result EXCEPT ![i] = CodeOf(bodies[i], opts)]
        /\ cache' = IF keyed[i] /\ installed
                    THEN [cache EXCEPT ![bodies[i]] = CodeOf(bodies[i], opts)]
                    ELSE cache
  /\ UNCHANGED <<callVars, loopVars, keyed, slots, installed>>

\* Mutant of Release: the error path keeps the slot.
ReleaseUnlessFailed(i) ==
  /\ job[i] = "finished"
  /\ slots' = IF result[i] = Error THEN slots ELSE slots - 1
  /\ job' = [job EXCEPT ![i] = "released"]
  /\ UNCHANGED <<callVars, loopVars, result, keyed, cacheVars>>

\* The deferred function gives the slot back first, then closes done.
Release(i) ==
  /\ job[i] = "finished"
  /\ slots' = slots - 1
  /\ job' = [job EXCEPT ![i] = "released"]
  /\ UNCHANGED <<callVars, loopVars, result, keyed, cacheVars>>

Close(i) ==
  /\ job[i] = "released"
  /\ job' = [job EXCEPT ![i] = "closed"]
  /\ UNCHANGED <<callVars, loopVars, result, keyed, slots, cacheVars>>

\* SetFunctionCodeCache: re-installing keeps the map (the hit counter, which
\* nothing reads but a report, is left out).
Install ==
  /\ installed' = TRUE
  /\ UNCHANGED <<callVars, loopVars, job, result, keyed, slots, cache>>

Remove ==
  /\ installed' = FALSE
  /\ cache' = [b \in Bodies |-> NoCode]
  /\ UNCHANGED <<callVars, loopVars, job, result, keyed, slots>>
-----------------------------------------------------------------------------
Dispatcher == Start \/ BeginAwait \/ Return \/ Await

Goroutine(i) ==
  Acquire(i) \/ Hit(i) \/ Miss(i) \/ Compile(i) \/ Release(i) \/ Close(i)

Next ==
  \/ \E m \in Modules, o \in Options, w \in WorkerCounts : Call(m, o, w)
  \/ Dispatcher
  \/ \E i \in Functions : Goroutine(i)
  \/ Install \/ Remove

SafeSpec == Init /\ [][Next]_vars

FunctionNumbers == UNION {1..Len(m) : m \in Modules}

\* The Go scheduler runs every runnable goroutine eventually.
Fairness ==
  /\ WF_vars(Dispatcher)
  /\ \A i \in FunctionNumbers : WF_vars(i \in Functions /\ Goroutine(i))

Spec == SafeSpec /\ Fairness
-----------------------------------------------------------------------------
TypeOK ==
  /\ bodies \in Seq(Bodies) /\ opts \in Options
  /\ workers \in Nat \ {0} /\ calls \in Nat
  /\ pc \in {"dispatch", "await", "returned"}
  /\ index \in Nat \ {0} /\ started \in Nat /\ firstError \in Nat
  /\ merged \in Seq(Codes)
  /\ job \in [Functions -> {"none", "spawned", "slot", "missed", "finished", "released", "closed"}]
  /\ result \in [Functions -> Codes \cup {NoCode, Error}]
  /\ keyed \in [Functions -> BOOLEAN]
  /\ slots \in Nat
  /\ installed \in BOOLEAN /\ cache \in [Bodies -> Codes \cup {NoCode}]

-----------------------------------------------------------------------------
(***************************************************************************)
(* The condition under which a body's digest is a whole cache key: every   *)
(* call that consults the cache runs under the same options and module     *)
(* facts.  codecache.go takes it for granted; cmd/memoc, the only program  *)
(* that installs a cache, meets it by compiling once per process.          *)
(***************************************************************************)
OneConfiguration == \A o, p \in Options : ~o.pic /\ ~p.pic => o = p

\* What a serial compile of this call's functions answers: the code of every
\* function before the first one refused, and that function.
SerialPrefix(k) == [j \in 1..k |-> CodeOf(bodies[j], opts)]

\* compileFunctionsInOrder returns the first error in function order, "the same
\* error a serial compile would report", and has merged exactly the functions
\* before it, in order, whichever worker finished first and whatever the cache
\* answered.
AnswersAsSerial ==
  pc = "returned" =>
    LET ok == IF firstError = 0 THEN Len(bodies) ELSE firstError - 1
    IN  /\ merged = SerialPrefix(ok)
        /\ \A j \in 1..ok : bodies[j] \notin Failing
        /\ firstError # 0 => firstError \in Functions /\ bodies[firstError] \in Failing

\* When the call returns, the compiles in flight have been drained: every
\* goroutine it started has closed its channel and no slot is held, so nothing
\* of it runs beside whatever the caller does to the module next.
DrainedAtReturn ==
  pc = "returned" =>
    /\ \A i \in Functions : job[i] \in {"none", "closed"}
    /\ slots = 0

\* No more than workers functions are lowered, allocated and emitted at once.
WorkersBounded == Cardinality(Holding) <= workers

\* The look-ahead bounds how many results, finished or not, wait for the merge:
\* the peak follows the worker count and not the size of the module.
LookaheadBounded ==
  Cardinality({i \in Functions : i >= index /\ job[i] # "none"}) <= lookahead

\* A cached functionCode is a complete substitute for compiling: whatever the
\* cache would answer to a call under these options is what that call's own
\* compile would produce.
CacheIsSubstitute ==
  \A b \in Bodies, o \in Options :
    cache[b] # NoCode /\ ~o.pic => cache[b] = CodeOf(b, o)

\* A call that has begun returns: no job waits for a slot, and the dispatcher for
\* no job, forever, on the failure path too.
EveryCallReturns == pc = "dispatch" ~> pc = "returned"

\* The dispatcher, its goroutines and the cache together are a serial compile.
Serial == INSTANCE SerialBackend WITH returned <- (pc = "returned")
ImplementsSerial == Serial!Spec
=============================================================================
