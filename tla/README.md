# cg12: specifications and proofs

cg12 is a compiler back end in Go with a Go and a C front end. Most of it is
value-level transformation, one function at a time, which differential tests
serve well. This project is about the parts that tests serve badly: the ones
that **skip work because they believe the answer is known**, the ones that **do
work in an order nobody chose**, and the ones that **answer for every path at
once**. The first kind are the code cache, the function cache, the memoised
whole-module stage and the optimiser's change tracking; the second, the
concurrent back end and the cache directory that concurrent builds share; the
third, the nosplit frame check with the budget that inlining spends from, and
the translation out of SSA form. All make the same kind of promise, that the
shortcut cannot be told from the long way, and for all of them the interesting
cases need several steps by several actors, several builds, or one particular
path.

- [Inventory](#1-inventory)
- [Modules and how they correspond to the code](#2-modules-and-the-code)
- [Runs, bounds and fairness](#3-runs)
- [Proofs](#4-proofs)
- [Disagreements between code and documentation](#5-findings)
- [What is not modelled](#6-what-is-not-modelled)
- [Plan](#7-plan)

Run a model with `tlc -config X.cfg MCModule`, check proofs with
`tlapm XProofs.tla`. The community modules and the TLAPS library are needed.

## 1. Inventory

A build goes: front end (`goc`, `cc`) → IR (`ir`) → optimiser (`opt`, through
`memo` when a memo is in use) → back end (`arm64`, `amd64`, ...) → object and
link (`obj`, `link`, `pe`). Results are kept on disk between builds through
`internal/cachefile`.

| Component | State it keeps | Operations | Interacts with | What is hard | What makes it correct |
|---|---|---|---|---|---|
| Parallel back end, `arm64/parallel.go` | jobs with a done channel each, the `slots` channel, the dispatcher's `index`, `started`, `firstError` | dispatch, await, merge; per goroutine: take a slot, compile, give it back, close | code cache; `mc.go` merges | goroutines finish in any order; errors mid-way | answer is the serial one; nothing outlives the call; concurrency and memory bounded; it ends |
| Code cache, `arm64/codecache.go` | process-global map from body digest to finished code | look up, file, install, remove | every goroutine of the back end | installed or removed at any time; two goroutines file one key | a hit is what compiling would give |
| Cache directory, `internal/cachefile` | files with sizes and times, fanout directories | Read, MarkUsed, Write (temporary + rename), Trim (age, then size) | every build that shares the directory | no lock: reads, writes and trims of several processes interleave; builds are killed | entries are whole; the bounds hold; nothing else is deleted |
| Optimiser pipeline, `opt/pass.go` | bodies, a version per function, the version each pass converged at, nested fixpoints, jump-thread budgets, frozen functions | run a pass on a function, skip, inline, unroll, drop dead functions, run and end rounds, freeze | `memo` freezes functions | a change made by one pass must unsettle all others; fixpoints nest; passes undo each other | skipping changes nothing; a fixpoint is one; it ends; frozen bodies stay |
| Whole-module memo, `memo`, `opt/depset.go` | store of entries: input, output, dependencies, dropped flag | validate, freeze, run the stage, record, save; whole-module hit | pipeline; `goc/optcache.go` saves it | entries of different builds live in one store; edits, departures and returns of functions | no stale code; no dropped function is named; same input, same output, but for what is live anyway; equal to a compile with no memo |
| goc function cache, `goc/function{cache,merge,store}.go` | per package and key a unit: the deltas of its declarations and the artifacts they use; per compile a journal, the units read, the artifacts seen | lower and record, look up, replay, carry forward, flush; a unit is lost, a compile killed, a source edited | cache directory; lowering in `goc/compile.go` | what lowering appends depends on what was appended before; one descriptor is written in place; units of different generations; two compiles rewrite one unit | a replayed compile is the one that lowers; what is stored depends on the package alone; replay cannot fail |
| goc optimiser memo, `goc/optcache.go` | one store for all packages | optimise per package, rerun on decode error, save | memo, cache directory | error in the middle; concurrent savers | as memo, per package |
| nosplit check, `stackcheck` | memoised heights and depths, the limits with recorded debts | walk down, walk up, report | back end facts; debt register | cycles met half-way through a memoised walk; sentinels in sums; chains rebuilt from heights | the verdict and the heights are those of the chains; it ends |
| nosplit budget, `opt/nosplitinline.go`, `arm64/nosplit_measure.go` | headroom measured once, a charge per function | begin a caller, splice, accept and charge, reject; then the check | inliner, nosplit check | one allowance shared by overlapping chains; a rejected caller must be put back | growth stays inside every chain's slack; a build that fitted still does |
| Out of SSA, `lower/ssa.go`, `lower/switch.go`, `analysis/live.go` | one function in flight | lower switches, split edges, coalesce, destruct | back ends | parallel copies in cycles, copies on shared edges, coalesced classes, computed gotos | every instruction reads what it read in SSA form, on every path |
| Other lowerings and analyses | one function | jump tables, threading; dominators, loops | passes, back ends | odd graphs | agree with their definitions |
| Passes, allocators, emitters | one function | rewriting | pipeline | values | differential tests |
| Front ends, parsers, object formats, interpreter, lifter, commands | source or bytes | translation | everything | size | tests |

`PROJECT.json` lists each with its status, and the hazards at their lines.

## 2. Modules and the code

The modules build on each other like this:

    SerialBackend  <--implements--  ParallelBackend  <- ParallelBackendProofs
                                          ^- MCParallelBackend
    CacheFile  <- CacheFileProofs, MCCacheFile
    PlainPipeline  <--implements--  OptPipeline  <- OptPipelineProofs
                                          ^- MCOptPipeline
    MemoStage  <- MemoStageProofs, MCMemoStage
    FunctionCache  <- MCFunctionCache
    NoSplitChains  <- StackCheck  <- StackCheckProofs, MCStackCheck
          ^- NoSplitInline  <- NoSplitInlineProofs, MCNoSplitInline
                  `--implements-->  ChainLedger  --implements-->  ChainBudget
    OutOfSSA  <- OutOfSSAProofs, MCOutOfSSA
    SumsAndPaths  <- CacheFileProofs, NoSplitInlineProofs, MemoStageProofs,
                     StackCheckProofs, OutOfSSAProofs

Definitions named after a mistake and marked "Mutant" are not part of any
specification. They are variants of the definition that follows, each with a
plausible bug in it, used to confirm that a property can fail.

### ParallelBackend and SerialBackend

| In the code | In the model |
|---|---|
| `compileFunctionsInOrder`, the loop and its locals | `pc`, `index`, `started`, `firstError`, `merged`; `Call`, `Start`, `BeginAwait`, `Await`, `Return` |
| one goroutine per job, `slots`, `job.done` | `job`, `result`, `slots`; `Acquire`, `Hit`, `Miss`, `Compile`, `Release`, `Close` |
| `cachedFunctionCode`, `storeFunctionCode`, `codeCacheMu` | `cache`, `keyed`; inside `Hit`, `Miss`, `Compile`, one step per critical section |
| `SetFunctionCodeCache` | `Install`, `Remove`, at any moment |

A function is its body, and its code is the record of everything emission
reads: the body and the options. That is enough to see a result that belongs to
another function or to another configuration. Indices count from 1.

`SerialBackend` is what the function's comment promises: a loop that merges or
fails. Its state is part of `ParallelBackend`'s, so the refinement mapping is
the identity but for `returned`.

### CacheFile

Every file-system call of `Read`, `MarkUsed`, `Write` and `Trim` that another
process can come between is an action. A path is a name and an owner (0 for the
entry, a build for its temporary); a file is its size, time, and whether all of
it is written. `Crash` stops a build between any two steps and leaves its files.
`WriteFails` is every error return of `WriteFileAtomically`. Of the layout the
model keeps what `Trim` tells apart: fanout directories, flat entries from
before the fanout, and foreign files at the top level and in a two-character
directory. The clock may advance at any time, with one assumption
(`PromptWrites`): no write is in flight for as long as the age cutoff, which is
days. Without it a trim may age out a temporary in use; the write then fails
and the entry is not stored.

### PlainPipeline and OptPipeline

The pipeline is a stack of frames, one per `Run` or `Fixpoint` in progress. A
pass visits the functions in order, one per step. Bodies are opaque, and what a
pass does to one is a constant operator, so the proofs hold for any passes that
are functions of what they read. What carries state from visit to visit is
modelled: the jump-thread budget (`threads`), the inliner's base (`base`), the
set of frozen functions. `OptPipeline` adds `version` and `converged` and skips
settled visits; each of its actions is a conjunction of the plain action and
what the log records. `PlainPipeline` is that pipeline with tracking off.

### MemoStage

One action is one build, answered by the whole-module check or by running the
stage, over a store that the previous saved build left. A digest is the thing
digested. A body is the set of source versions in it, its size, what later
passes will take off, its calls in order and its references, which is what the
inliner, dead-function elimination, the recorder (`opt/depset.go`) and the
validation read. `ColdCompile` is the same stage with nothing frozen: a compile
with no memo. A save may be lost, which stands for a failed write and for
another build's store replacing this one. `DecodeFails` is a stored body that
does not decode, after any of the others were installed, and what
`optimisePackage` (`goc/optcache.go`) then does: run the pipeline again over
the module as it stands.

### FunctionCache

| In the code | In the model |
|---|---|
| what lowering a declaration does | a script of steps: append a function or datum, touch a file, use an interned artifact (minted by a script of its own on first use), point a descriptor's Equal field at a routine, walk the program's implementations |
| `internJournal` | `notes`, `events`, `touched`, `dependent` of a module in flight |
| `buildLoweringScope`, `collectScope`, `encodeScope` | `Children`, `Collect`, `Sequence`: the nested scopes of a journal become a delta and its artifacts |
| `record` and its refusals, `absorbPrelowering` | `MayStore`, `Stored`, `Absorbed` |
| `unitFor`, `lookup`, `replay`, `ensureArtifact` | `LookedUp`, `Hit`, `ReplayNext` over `ReplaySequence` |
| `carryForward`, `attachArtifacts`, `flush` | `StartFlush`, one `WriteUnit` per package (it may fail), `EndFlush` |
| a source edited, a unit trimmed or unreadable, a killed process | `Edit`, `Lose`, `Stop` |

What is appended carries the version of the package it came from, so stale code
is visible. A compile parses and hashes in two steps, as the code does;
`QuietWindow` says that no edit falls between them (see the findings).
`Cold` is a compile with no cache, `Alone` a declaration lowered by itself.

### NoSplitChains, StackCheck, ChainBudget, ChainLedger, NoSplitInline

`NoSplitChains` says what the budget is about without any algorithm: the chains
of a call graph, their bytes, whether one is endless. `StackCheck` is the
algorithm: `walker.compute` as an explicit recursion (`path`) with its memo,
taking callees in any order; the walk over the reversed graph for the depths
above; the limits with the debt register; the reconstruction of the chains the
error prints.

`NoSplitInline` is the pass that spends the budget. A body is its frame, calls
and dynamic allocations; `Splice` merges a callee in, `Accept` lays the result
out (any frame; dead calls may go) and charges it, `Reject` puts the snapshot
back, `Emit` runs the check on the finished module. Layout is external: any
frame of `Frames`. `ChainLedger` is the accounting alone (a headroom and a
charge per function), `ChainBudget` what it is for (no chain grows past its
slack). The pass implements the ledger and the ledger the budget; both are proved.

### OutOfSSA

`LowerSwitches`, `SplitCriticalEdges`, `CoalescePhis` and `DestructSSA` each
transform the whole function, as in `arm64/lower.go` and `amd64/lower.go`; then
the lowered function (`low`, `pos`, `regs`) and the original (`fn`, `at`,
`env`) run side by side. An instruction's result is any value, the same in
both, and a jump goes anywhere, to the same block in both: so one run covers
every meaning of the instructions. `Sequentialize` is the code's loop; the
slot of a memory-resolved phi is a temporary that only stores write. Liveness
is the code's fixpoint with one round over all blocks at a time, which has the
same least solution.

## 3. Runs

| Run | cfg | Result | Distinct states | What it shows |
|---|---|---|---|---|
| `parallel_backend` | ParallelBackend | pass | 151,893 | serial answer, drained return, both bounds, cache as substitute, every call returns, implements SerialBackend |
| `cache_file` | CacheFile | pass | 1,288,577 | whole entries, budget kept once all end, aged files gone, with reads, writes, crashes and trims of two builds |
| `cache_file_trims` | CacheFileTrims | pass | 53,994 | two bare trims do not evict the budget twice, and keep foreign top-level files |
| `opt_pipeline` | OptPipeline | pass | 26,906 | skipping is sound and unobservable, fixpoints hold, frozen bodies stay, it ends |
| `memo_stage` | MemoStage | pass | 3,710 | builds that run the stage serve no stale code, drop nothing named and emit nothing half optimised, decode errors included; unchanged rebuilds agree, but for nosplit functions and what they drag in; after an edit of functions nothing calls, a build that was exact stays exact |
| `memo_whole_module_stale` | MemoStageStale | violation | | a whole-module hit serves stale code |
| `stack_check` | StackCheck | pass | 470,697 | heights, headrooms, verdict and printed chains are those of the chains themselves, on cyclic graphs too; the walk ends |
| `nosplit_inline` | NoSplitInline | pass | 83,996 | growth stays inside measured chains; a module that fitted still does, but for what the budget cannot see; implements ChainLedger |
| `function_cache` | FunctionCache | pass | 352,851 | replayed compiles equal cold ones in content and order, stored deltas are local, replay never fails, a flush does not shrink a unit |
| `function_cache_equality` | FunctionCacheEqual | violation | | a stored descriptor carries another program's Equal pointer |
| `out_of_ssa` | OutOfSSA | pass | 875,536 | the lowered function reads what the SSA form reads, on every path, where its copies have a place; liveness is exact |
| `out_of_ssa_switch` | OutOfSSASwitch | violation | | a phi copy runs on a switch's other edges |

### Bounds, and why they suffice

- **ParallelBackend.** One or two workers; modules of up to four functions. With
  one worker the look-ahead is two, so four functions exceed it and dispatch
  stops and resumes. One module repeats a body, so two goroutines file one key;
  one has two refused functions, so a later failure can finish first; one has a
  function with no key; one is empty. `MaxCalls = 2`: the cache is what survives
  a call, and two calls are what it takes to meet it. The proofs lift all of
  these.
- **CacheFile.** Two builds ask for two keys in opposite orders; either key alone
  may fit the budget of 2, both together (sizes 1 and 2) do not. The clock starts
  at the cutoff and runs for two ticks, enough for an entry to age and for a
  refreshed one not to. The initial directories hold old, fresh and flat
  entries. In the trims run all entries are young, so what goes is evicted.
- **OptPipeline.** Four functions, one of each role: leaf, recursive, nosplit,
  caller. Passes that enable each other, one pair that undo each other (only the
  jump-thread budget of 2 ends it), nested fixpoints, and every choice of frozen
  functions. The pipeline has the default one's shape with one pass per role.
- **MemoStage.** Four functions; 28 modules that differ by edits of each, by a
  function that leaves, by data and by module facts. Histories of builds are not
  bounded: the state space is finite. The sizes make a callee inlinable, not
  inlinable, and inlinable only once a late pass shrank it. `ExactAfterRootEdit`
  is stated for edits of functions nothing calls because it fails for deeper
  ones (see the findings). The last two modules (`DraggedModules`) are there for
  the exception `UnchangedRebuild` makes: between them a function does change in
  an unchanged rebuild. A function leaves only when nothing calls it: once a
  called function was missing, `ExactAfterRootEdit` does fail (*a callee that
  arrives*, below). With every call resolved it held on several hundred random
  sets of modules of four and five functions, too.
- **FunctionCache.** Three packages one above the other, two compiles at once of
  programs that overlap, one edit (`MaxEdits = 1`), any number of lost units,
  killed compiles and builds. The scripts have an artifact shared by all
  declarations, one that refers to itself, one minted inside another, an
  instantiation, a declaration that walks the implementations, one that emits a
  function no unit may hold, and each order of minting and referring to a
  type. Programs in which the scope that mints a type also asks for its equality
  are left to the violation run (`EqualityFirst`).
- **StackCheck.** Every call graph of three functions, with every choice of one
  dynamic allocation or one recorded debt, some strict-indirect ones, and graphs
  of four functions with at most one back edge. Frames are powers of two, so any
  two sets of frames differ; `Limit = 4` lies inside the range of heights.
- **NoSplitInline.** Four functions, three of them on one chain, frames and limit
  in the code's units of 16 bytes; every call graph of three functions; one
  function unmanaged, unmeasurable, dynamic or with a debt. Four frames let a
  layout shrink, fit exactly and exceed the allowance.
- **OutOfSSA.** 2,905 functions of up to six blocks and six temporaries: loops of
  one and two blocks with every pair of phi arguments, interpreters of two
  handlers with every choice of arguments, computed gotos mixed with a
  conditional jump, switches that fall through in several orders, with several
  values to a case (what a case range becomes), a loop around one, a switch with
  no case, an interpreter one of whose handlers is a switch. Two values suffice
  to tell a wrong read from a right one, since every result is free. Left out,
  because `SimplifyCFG` folds them first: phis with a single argument
  (`opt/cfg.go:175`) and conditional jumps with one target.

  `MCFunctions` keeps the functions of these families whose copies have a place
  (`HasPlaces`); among the others the property fails, by finding 3 and by *one
  computed goto target*, below. The condition is a cautious one: some functions
  it leaves out come out right. It asks of a switch, for every target with phis of a test after the first (the
  default is one): the first test does not go there too, no result of the phis is
  the switch's argument or read on another way out of it, and the function has no
  computed goto. It asks of a computed goto with one target that the target have
  no phis. `SharedCases` (324 functions), `SwitchMeshes` (270), `LoopCases` (6)
  and `LoneGotos` (27) are what it leaves out; with any of them as `Functions`
  in `OutOfSSASwitch.cfg`, TLC finds `SameComputation` violated.

### Deadlock

`CHECK_DEADLOCK FALSE` is set where a history really ends: a process that has
made its calls, builds that are all done or killed. `OptPipeline` has a final
stuttering step (`Finished`) instead, so a pipeline stuck half-way is reported;
`MemoStage` and `FunctionCache` can always build again, and `StackCheck`,
`NoSplitInline` and `OutOfSSA` end in a stuttering step too.

### Fairness

- `ParallelBackend`: weak fairness of the dispatcher and of each goroutine. The
  Go scheduler runs every runnable goroutine eventually, and no action here
  stays enabled only intermittently but `Acquire`: a goroutine waiting on
  `slots` may see the slot taken by another, but there are finitely many
  goroutines, each of which takes a slot once. No fairness on `Call`, `Install`
  or `Remove`.
- `OptPipeline`: weak fairness of the next step. The pipeline is sequential code.
- `StackCheck`: weak fairness of the next step, which is sequential code; what
  `CheckEnds` is about is that no walk goes round a cycle for ever.
- The other modules state safety only.

## 4. Proofs

All theorems are for every value of the constants that satisfies the modules'
`ASSUME`s, which TLC evaluates on each instance.

**ParallelBackendProofs.** Assumes `OneConfiguration`: all calls that consult
the cache run under the same options and module facts. The code needs it too
(see the findings). The inductive invariant `IInv` has six parts, none inductive
alone: `TypeOK`; `DispatchInv`, where the dispatcher stands relative to the jobs
it started; `MergeInv`, what has been merged is the serial prefix; `ResultInv`,
a finished goroutine holds its own function's outcome; `CacheInv`, the cache
holds code made outside PIC for bodies that compile; `SlotInv`, tokens in the
channel are the goroutines between acquire and release. A merge is right because
results are, a result because the cache is, and the return because of
`DispatchInv`. From it:

- `TypeCorrect`, `ReturnsSerialAnswer`, `Drains`, `WorkersStayBounded`,
  `LookaheadStaysBounded`, `CacheSound`: the six invariants of the run, for any
  module, worker count and number of calls;
- `Refinement`: `SafeSpec => Serial!SafeSpec`. `Call`, `Await` and `Return` map
  to steps of the serial back end or to stuttering, everything else stutters.

**SumsAndPaths.** The lemmas the other proofs share, about three things that are
defined by recursion in the library: sums over a finite set (`SumFunctionOnSet`),
folds over a sequence (`FoldLeft`) and simple paths of a graph. The induction
theorems of the library cannot be instantiated by the provers installed here, so
every induction is by a smallest counterexample: a non-empty set of subsets of a
finite set has a minimal member (`SmallestSet`). From it: a sum does not depend
on the order, is monotonic and splits over disjoint sets; what every step of a
fold keeps, the fold keeps (`FoldInside`, `FoldKeeps`); paths can be cut, joined
and extended, are no longer than their graph, and a path of one graph whose
edges are paths of another is covered by one path of the other (`PathCovered`).

**CacheFileProofs.** For any builds, keys, sizes, clocks, budgets, crashes and
initial directories.

- `EntriesStayWhole`. `WholeInv` adds to the property that the temporary about to
  be renamed is completely written (`FilledInv`), and the types that takes. It
  needs that a temporary belongs to one build: nobody else writes `<<k, b>>`,
  though anybody may remove it.
- `AgedFilesAreSwept`. The walk of a trim and the writes of others race, so the
  invariant speaks of what the walk has passed: `SweepInv`, an aged file is one
  the walk has yet to come to (`Pending`). A file that appears behind the walk
  cannot be aged, because a write or a `MarkUsed` dates it now (`Fresh`), and a
  temporary in flight is younger than any cutoff (`FlightInv`, from
  `PromptWrites`); a renamed file keeps its temporary's date. `FanoutInv` is why a
  new file's directory is one the walk sees, `CutoffInv` that clocks do not run
  back. These with `WholeInv` and `TrimInv` are `BaseInv`.
- `BoundHoldsAtTheEnd`. The property says nothing about one trim: files may be
  written behind it. `LastInv` names the trim that matters: once all builds are
  trimming or done, one of them, the last to begin, has every file either still
  ahead of its walk or among its survivors at its true size (`Accounted`), and
  what it believes the total to be is the sum of those sizes (`CountInv`). Nothing
  is written any more, so evictions by others only help. `EndInv` says its loop
  ran until the total fits.
- `TrimsShareTheBudget`: `EvictsOnlyOverBudget` under `TrimsAlone`: no build reads
  or writes, no entry is old enough to age out, no foreign two-character
  directory. The hypothesis is the comment's own condition for two trims to agree
  on an order, and the instance of the run satisfies it. `OrderInv`: all trims
  have the same record of a file that is still there, and a file that is gone
  comes before every file that is not, in the one order of eviction.
- `OwnFilesAreKept`: no step changes a top-level file not named like a key.
- `TypesHold`, with `SuffixInv` for the keys a build has yet to ask for.

**OptPipelineProofs.** `LogInv` says that the log is never ahead of the version
(`NotAhead`), and function by function that a settled visit would change nothing
(`Sound`). The exception in `Sound` is needed: unrolling and nosplit inlining
rewrite bodies during the pass and mark them when it ends, and nothing consults
the log in between. From it:

- `SkippingIsSound`: `SettledIsSound` always holds;
- `TrackingRefines`: `SafeSpec => PlainSafeSpec`, so change tracking is not
  observable;
- `FrozenStays`: frozen bodies stay, **provided** no nosplit function may be
  frozen;
- `FixpointsAreReached`: when a fixpoint returns, none of its passes would change a
  function it may touch. The property needs an invariant over the stack of
  fixpoints in progress, `FixInv`: a frame above another runs the members of the
  pass the lower one stands at (`NestInv`); in a frame that has reported no change
  in its round, every pass before the current one, nested fixpoints included,
  would change nothing (`RoundInv`); and so would the current pass on the functions
  it is past, while it has moved nothing (`PassInv`). A change anywhere makes
  every frame's round dirty, by the time the pass that made it ends (`NextInv`);
- `TypesHold`.

**NoSplitInlineProofs.** For any module, limit, frames a layout may produce, and
order of callers. Assumed (`NoSplitInlineAssumption`): finitely many functions,
and the sentinel `Infinite` (`1 << 30` in the code) is above the limit, the
recorded debts and all the frames of the module together. `PassInv` has five
parts: what was measured does not change (`Measurement`); types; a caller whose
turn has not ended has the frame that was measured (`Untouched`); inlining adds
no reachability and no function begins to call itself (`Edges`); a refused build
is one whose final bodies the check refuses (`Refused`).

- `PassImplementsLedger`: `Spec => ImplementsLedger`, with a chain mapped to the
  set of its functions. An accepted caller is one grant; the measurement meets
  what the ledger assumes of it, since a headroom is the limit less the deepest
  chain through the function.
- `LedgerNeverOverspends`, `LedgerImplementsBudget`: the ledger the pass keeps
  (`Ledger!Spec`) never lets a chain that grew come closer than 16 bytes to its
  slack, and every grant is a growth that each chain through the function had
  room for. The budget is measured once and spent by many decisions, none of
  which looks at a chain again. What makes that safe is in `Accounts`: the charge
  of every function on a chain is at least what the whole chain has spent. A
  grant to f keeps it because it is charged to everything that shares a chain
  with f, and it gives the result because a headroom is at most the slack of each
  chain through its function. The step, `GrantKeeps`, is stated for any chains,
  slacks, headrooms and charges.
- `MeasuredChainsStayWithinBudget`, from `PassImplementsLedger` and
  `LedgerNeverOverspends`.
- `PassNeverBreaksTheBuild`: a module that passed the check before the pass passes
  it after, unless the pass met something its budget does not see (`Blind`). A
  chain of the finished module need not be one that was measured: inlining
  replaces an edge by several. But every new edge is a path of the old graph
  (`Edges`), so the finished chain is covered by a measured one (`PathCovered`),
  and the old graph has no cycle to lose because the check accepted it.

**StackCheckProofs.** For any set of call graphs, limit and debt register.
Assumed (`StackCheckAssumption`): finitely many functions, and the sentinel is
above the limit, every recorded height and all the frames of a module together.
The last is what makes a height below the sentinel mean that the function is
bounded. The walk keeps partial sums for functions whose answers depend on one
another, and a memoised answer may have been reached through a sentinel, so that
heights are right is not inductive. `WalkInv` is:

- a memoised answer is the true one (`MemoOK`), and the callees of a function
  that has one have one, or are on the recursion (`Closed`);
- the recursion is a simple path of the graph, and each call on it has in its best
  the most that the callees it has looked at amount to, with their *true* answers
  (`Progress`). A callee that is met again on the recursion closes a cycle with
  it, so its true answer is the sentinel it is given (`BackEdge`).

When the last callee has been looked at the best is the true answer, by the
recurrence that heights obey (`EndlessStep`, `HeightStep`), itself proved from the
definition over all chains: a chain either avoids the function it is put in front
of, or there is a cycle. The walk over the callers is the same walk over the
reversed graph. The report needs two more invariants, `ReportInv`, that what is
pending is over its limit, and `ChainInv`, that what has been printed so far is
a chain whose last function still has all of the root's height to account for
(`Rebuilt`), the synthetic callee left out.

- `HeightsAreTheDeepestChains`, `TheVerdictIsExact`, `HeadroomIsTheSlack`,
  `ChainsReportedAreReal`, `TypesHold`: the five invariants of the run.
  `HeadroomIsTheSlack` adds the two walks: a chain through a function is one that
  ends in it and one that starts there, sharing its frame (`ChainSplit`,
  `BytesOverlap`), and two such are one chain unless the function is on a cycle
  (`ChainsMeet`).

**MemoStageProofs.** For any set of modules, order of functions, budgets, closure
mode and history of builds, lost saves and decode errors. The invariant is about
the store (`StoreInv`): a stored body is a finished one, and all code in it is
the function's own or that of a function whose body is part of the entry's key
(`Backed`). The passes are folds over the function names; `InlineModuleStays` and
`NoSplitStays` say that a set of modules that every splice keeps is kept by the
whole pass, and the facts about the stage are such sets: all sizes final, all
names kept, and `Sourced`, that the recorder's sets say where all code is from. A
live function that splices a frozen one has code in it that this compile's
recorder never saw; what makes its entry `Backed` is that `consultedSet` adds the
stored sets of the frozen callees.

- `NoStageServesStaleCode`, `StageLeavesNoDanglingName`, `NoBodyIsHalfOptimised`: the
  three invariants of the run. The first holds in every closure mode: the closure
  is about exactness (`ExactAfterRootEdit`), not about staleness. That no theorem
  says the same of a whole-module hit is the first finding below.
- `RebuildsAgree`: the action property `UnchangedRebuild`. The invariant is
  `RebuildInv`: after a saved build the store has the bodies that were emitted,
  and either the whole-module check holds of the module or every entry of it that
  may be frozen is valid. What `refresh` files is valid for the module it was
  filed for, what `consultedSet` adds for frozen callees included
  (`FiledIsValid`), and the stage leaves frozen bodies alone (`StageKeepsFrozen`).
  So a rebuild has no miss, and only what is live without one can change. A first
  statement had no such exception; its proof did not go through, and TLC then
  found a module for which it is false (*stale dependencies of a miss*, below).

**OutOfSSAProofs.** For any set of functions that are well formed
(`FunctionsAreWellFormed`): references are temporaries of the function, jumps
and phi sources are blocks of it, a phi has as many arguments as sources, and a
switch has a default. Nothing is assumed of their size, of their control flow or
of where definitions are. The inductive invariant is `IInv`: until the phis go,
the function being lowered is well formed. It is needed because the analyses
run on what the earlier passes leave. Keeping it takes the shape of every block
and jump the tests of a switch add, and of every redirected phi.

- `StaysWellFormed`: that invariant.
- `LoopEnds`: the liveness loop ends with a round that adds nothing, after at most
  as many rounds as there are blocks times temporaries. Each round before adds a
  pair of a block and a temporary, and there are no more of those.
- `LivenessExact`: the run's `LivenessIsExact`. Nothing is found that no path
  reads, since each round keeps that (`RoundIsSound`). What some path reads is
  found (`SettledIsComplete`): once a round adds nothing, the blocks whose live
  temporaries are live at the end of b too are closed under the ways control
  takes without writing the temporary, and `UnwrittenIsLeast` says that the blocks
  `ReadAfter` looks at are the least such set.
- `CoalescedNotNeededTogether`: where a temporary is written, by an instruction or
  by a phi, no other of the class it is coalesced into is written with it or is
  still to be read on any path from there. Interference covers exactly that
  (`NeededInterferes`, by `LivenessExact` and the backward walk, `WalkIs`), and no
  class ever holds two temporaries that interfere: the invariant of the fold is
  `Partitions`, and a union keeps it only because all members of both classes are
  compared (`JoinKeeps`). TLC checks the statement on the functions of the run,
  where classes do form, and refutes it when `MayJoin` compares the two
  temporaries alone.
- `CopiesActInParallel`: copies with distinct destinations, in the order
  `Sequentialize` emits them, leave in each destination what its source held
  before the first, and every other old temporary alone. The loop is done after
  two turns for each copy (`TurnsEnd`), since a save frees the destination it
  saved. In between, each copy still to be made reads a place that holds what its
  source held at first, and what is made is in place (`Owed`); `EmitPays` and
  `SavePays` are its two steps.

"Read" is in the sense of the lowered function: an argument whose phi still names
the switch block, when the edge from there has moved to a later test, is read on
no edge. The theorems are about the analyses and the classes as the code defines
them; finding 3 is what that leaves out.

That the two runs agree (`SameComputation`) is not proved: it needs that
definitions dominate uses, what `Destruct` makes of a whole function, and the
condition `HasPlaces`.

**Only model-checked.** Liveness (`EveryCallReturns`, `PipelineEnds`,
`CheckEnds`) and the fairness parts of the refinements are out of the prover's
reach. `FunctionCache` uses recursive operators, which this prover does not take,
for lowering, recording and replay, which are recursive in the code too; so
`WarmIsCold`, `StoredDeltasAreLocal`, `ReplaySucceeds` and
`FlushKeepsWhatItRead` stay with TLC. So does `SameComputation`, and so does
`ExactAfterRootEdit`: it compares two runs of the memoised stage, one over
finished bodies and one over unfinished ones, pass by pass.

## 5. Findings

Three have a run that exhibits them. `PROJECT.json` quotes the lines.

1. *Whole-module hit, stale code* (`memo/compile.go:325`). The check compares
   each function with its own entry, not the entry's dependencies, and entries
   are never removed. guard leaves; leaf, which is inside guard's stored body, is
   edited and built; guard returns. Every entry matches its function, and guard
   is served with the old leaf in it. It takes a store that holds one module,
   as `cmd/memoc`'s does.
2. *Equal pointer of another program* (`goc/compile.go:9294`). When one scope
   both mints a type's descriptor and asks for its equality, the descriptor is
   stored with its Equal field already set. A program that uses the type and not
   the equality replays a descriptor that names a routine it does not have, where
   a cold compile leaves nil.
3. *Copies of a switch's phis* (`lower/switch.go:62`). The tests after the first
   move to new blocks, but phis at the later targets keep naming the switch
   block, so their copies are appended there and run whichever case is taken.
   Three shapes go wrong, and each is a set of functions in `MCOutOfSSA`.
   - A phi's result is read on another way out of the switch, because its block
     dominates the switch: a loop entered at a case of the switch that closes it
     (`LoopCases`, the one the run takes).
   - The first test and a later one go to the same phis (`SharedCases`). GNU case
     ranges make this (`cc/stmt.go:687-705` lists every value), and `analysis/cfg.go:161` names it. `SplitCriticalEdges` moves the
     phi's one source from the switch block to the split edge of the first test
     (`lower/ssa.go:43-48`), and the later edges get no copy at all: in
     `switch (v) { case 5: x = 7; case 1 ... 3: return x; default: return 0; }`
     the value 2 returns a temporary nothing wrote.
   - The function has a computed goto too (`SwitchMeshes`). An argument whose phi
     names the switch block is read on no edge that liveness looks at
     (`analysis/live.go:49-62`), so `CoalescePhis` may give its result the
     temporary of something another way out still reads; the copy at the end of
     the switch block overwrites it.

Met while modelling and not made into runs:

- *Function cache, edit window* (`goc/functioncache.go:804-810`). Sources are read
  again for the key after they were parsed. The comment calls this "the safe
  direction", since the entry "is refused by the next compile"; but the next
  compile hashes the new source, which is the key the old lowering was filed
  under, and replays it. Setting `QuietWindow = FALSE` in `FunctionCache.cfg`
  shows it: `StoredDeltasAreLocal` fails as soon as the entry is filed, and
  `WarmIsCold`, checked alone, in the compile that replays it.
- *Function cache, failing replay*. `BUILD_CACHE.md:636` says that a broken cache
  never fails a compile; a replay's error is returned as the compile's
  (`goc/compile.go:485`). `ReplaySucceeds` shows that no content a compile leaves
  gets there. Types that refer to themselves are never cached.
- *Memo, dropped function* (`memo/compile.go:361`). An entry that was used is not
  refiled, so `Dropped` is an earlier build's answer; a whole-module hit may drop
  a function that is named again. *Read closure* (`opt/depset.go:119`):
  dependencies are closed through spliced callees only, so when leaf shrinks and
  mid with it, a main that declined mid for its size stays a hit. The code is
  correct but not what a cold compile gives. *Rerun* (`goc/optcache.go:115`): it
  is "from nothing" only in that nothing is frozen; bodies installed before the
  error are optimised twice, and the entry that failed is not refiled.
- *Memo, stale dependencies of a miss* (`memo/compile.go:531`). The read closure
  follows the stored dependencies of a live function, which for a miss are those
  of an older body. The comment at 473-474 demotes "until what every live function
  reads is what the reference compile would have shown it", and line 32 calls the
  mode "the sound one". But a function edited to call a new callee has an entry
  that does not list it: the callee stays frozen and is spliced at its finished,
  smaller size where a compile with no memo declines it. The next build of the
  same module knows the new dependency, so if a nosplit function reads the edited
  one, it is live again and comes out different: no source changed, the code did.
  The code is correct both times. This is the exception in `UnchangedRebuild`;
  without it TLC finds the two builds.
- *Memo, a callee that arrives* (`memo/memo.go:317`). `Entry.Valid` asks of every
  recorded function "that the member is still in the module"; a call that had no
  function to resolve to records nothing. When the function is there in a later
  build (a declaration without a body gets one), the caller's entry is still
  valid and does not list it, so the callee is not dragged in when the caller is
  edited. As before, the code is correct but not what a cold compile gives.
- *Code cache key* (`arm64/codecache.go:89`). The body's digest is not the whole
  key: the TLS model and module facts are read too. One compile per process
  hides it; the proofs assume it (`OneConfiguration`).
- *One computed goto target* (`lower/ssa.go:364`). A phi is resolved through
  memory only if the computed goto it arrives over has more than one target. With
  one, its copy stands before the jump, which is still made through the register
  (`arm64/select.go:866`): when the jump's own argument is the phi's result, as in
  `L: q = p; if (!q) return; p = f(); goto *q;` with no other label taken, the
  jump goes through the new `p`. `LoneGotos` in `OutOfSSASwitch.cfg` shows it.
- *Cache directory*. Two trims agree on an order only if nothing is used or
  written between their walks (`internal/cachefile/cachefile.go:352`), and the
  name test protects a user's top-level files but not those in a two-character
  directory (line 329).
- *nosplit check*. The comment at `stackcheck/stackcheck.go:516-519` on cycles
  without a root is not true when another function over the limit is a root, and
  an inner function over its own limit is not always on the chain printed for its
  caller.
- *nosplit budget*. Inlining a splittable callee into a nosplit caller joins chains
  that were never measured (`opt/nosplitinline.go:156`, against the comment at
  70-77); unmanaged functions count with frame 0; a dynamic allocation inlined
  into a caller is not part of its frame. `Blind` names exactly these, and
  `PassKeepsTheBuild` shows there is nothing else. The build then fails its check;
  it never emits a chain that does not fit.
- *Pipeline*. `InlineIntoNoSplitCallers` (`opt/nosplitinline.go:132`) is a second
  module pass that rewrites bodies and is not shown the frozen set, although
  `opt/unroll.go:22-26` calls `UnrollPass` the only one (`memo` never freezes
  nosplit functions, so no compile meets it, and `FrozenStays` carries that as its
  hypothesis). `noSplitReach` is a further input that no memo entry records. Once
  the store holds an entry of a function that left for good, no later build is a
  whole-module hit; a store that changes without changing size is not saved.

## 6. What is not modelled

Value-level rewriting by single passes, instruction selection, encoding,
register allocation, parsing, object formats and the front ends: each is a
function of one body or one file, large, and covered by differential tests. The
passes and emission enter as constants. In `MemoStage`, call-site counts,
forced and cost-based inlining, growth caps and recursion unrolling are left
out: each is one more reader of other bodies, of the kind the size budget is.
The two fixpoints of inlining and cleaning (`opt/pass.go:382-402`) are one round
each. In `PlainPipeline`, the inliner's base is the body first seen: what forced
inlining adds to it (`opt/inline.go:648`) and the flag that the cost model has
chosen, which it does once (`costDone`, lines 262-265), are left out. In `StackCheck`, names are unique: of two definitions of one symbol the
code keeps the larger frame (`stackcheck/stackcheck.go:346-357`).
The encodings of units and entries are left out: one that does not decode is a
lost unit, or `DecodeFails`. In `FunctionCache`, `Module.Types` and the file
tables private to a unit are left out (they behave as `Module.Data` and
`Module.Files`), and so are the clauses of the key other than the sources, and the
refusal of a declaration lowered twice in one compile
(`goc/functionmerge.go:237`, 503-509): every program lowers each once. In
`CacheFile`, the reasons a system call fails are not distinguished, a file that
is there can be removed (an eviction whose `Remove` is refused,
`internal/cachefile/cachefile.go:364`, leaves the directory over its budget), and
the key hashes, reads of the environment and size formatting are left out. In
`OutOfSSA`, the binary search of a large switch, jump tables, unreachable
blocks, secondary entries, lifetime markers (liveness skips them) and
instructions with several results are left out.
The bpf, wasm and amd64 back ends compile serially.

The repository carries the Go standard library (`stdlib`) and a C parser
(`internal/cc`), which are most of its 800,000 lines, and a Go front end of
which `goc/compile.go` alone is 18,000. The modelled parts are a small share of
that by lines; they are the parts that keep state across functions, builds or
processes.

## 7. Plan

1. **Analyses**: dominators and loops (`analysis/dom.go`, `loopforest.go`)
   against their definitions on all small graphs.
2. **OptCache**: `MemoStage` over groups of functions with one store, two builds
   saving at once through `CacheFile`.
3. **Batch** (`cmd/goc/batch.go`): many programs in one process, with the
   process-global caches.
4. **Register allocation**: interference and spilling, if it can be kept small.

Proofs to follow: `SameComputation`, from the lemmas about liveness, classes and
copies that are proved; the safety properties of `FunctionCache`, once its
recursive operators are written as recursive functions; that the stage over
finished bodies equals the stage over unfinished ones, for `ExactAfterRootEdit`.
