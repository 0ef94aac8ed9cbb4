------------------------------ MODULE StackCheck ------------------------------
(***************************************************************************)
(* stackcheck.Check: a memoised depth-first walk of the nosplit call graph *)
(* gives every function its height, a second one over the reversed graph   *)
(* what can lie above it, and when a height is over its limit the report   *)
(* follows the deepest callee from each root.  Functions are numbered in   *)
(* the order their names sort; the order of a function's callees is left   *)
(* open, as is Go's order over a map.                                      *)
(***************************************************************************)
EXTENDS NoSplitChains

CONSTANTS
  Graphs,   \* the facts of the modules to check
  Limit     \* the bytes a whole chain may occupy

\* What the back end hands over: the symbols are numbered, the synthetic callee is
\* none of them, and Infinite (1 << 30) is past every recorded height and past the
\* frames of a module together.
IsFacts(f) ==
  /\ IsFiniteSet(f.funcs) /\ f.funcs \subseteq Nat /\ IndirectTarget \notin f.funcs
  /\ f.noSplit \subseteq f.funcs /\ f.dynamic \subseteq f.funcs /\ f.strict \in BOOLEAN
  /\ f.frame \in [f.funcs -> Nat] /\ SumFunction(f.frame) < Infinite
  /\ f.recorded \in [f.funcs -> 0 .. Infinite - 1]
  /\ \A n \in f.funcs : IndirectTarget \notin f.calls[n]

ASSUME StackCheckAssumption ==
  /\ Infinite \in Nat /\ Limit \in Nat /\ Limit < Infinite
  /\ \A f \in Graphs : IsFacts(f)

VARIABLES
  g,         \* the facts, with the debt register: recorded[n] is a height or 0
  phase,     \* "walk", "above", "report", "done"
  path,      \* the recursion: <<[fn, todo, best], ...>>, the innermost last
  height,    \* the heights memoised so far
  above,     \* the depths above memoised so far
  pending,   \* the roots not yet reported
  chain,     \* the chain being rebuilt: its frames so far and the name it has come to
  chains     \* the chains reported

vars == <<g, phase, path, height, above, pending, chain, chains>>

Empty == [n \in {} |-> 0]
NoChain == [frames |-> <<>>, at |-> IndirectTarget]
OnPath == {path[i].fn : i \in DOMAIN path}

Init ==
  /\ g \in Graphs
  /\ phase = "walk"
  /\ path = <<>> /\ height = Empty /\ above = Empty
  /\ pending = {} /\ chain = NoChain /\ chains = {}

\* A mutant of LimitFor: a recorded function is allowed one byte more.
LimitForRecorded(n) == IF g.recorded[n] > 0 THEN g.recorded[n] + 1 ELSE Limit

LimitFor(n) == Max({Limit, g.recorded[n]})

----------------------------------------------------------------------------
(* The two walks.                                                          *)

\* walker.compute up to its loop: a function that ends the chain has height 0
\* and a dynamic allocation makes it infinite; neither looks at the callees.
Callers(n) == {c \in g.noSplit : n \in CalleesOf(g, c)}
Todo(n) ==
  IF phase = "above" THEN Callers(n)
  ELSE IF n \in g.dynamic THEN {} ELSE CalleesOf(g, n)
Base(n) ==
  IF phase = "above" \/ n \notin Nodes(g) THEN 0
  ELSE IF n \in g.dynamic THEN Infinite ELSE FrameOf(g, n)

Enter(n) == Append(path, [fn |-> n, todo |-> Todo(n), best |-> Base(n)])

\* A mutant of Edge: the reversed walk charges the frame it comes from.
EdgeOwnFrame(n, m, v) == v + FrameOf(g, n)

\* What an edge from n to m costs once m's own answer v is known.
Edge(n, m, v) == v + (IF phase = "walk" THEN FrameOf(g, n) ELSE FrameOf(g, m))

Memo == IF phase = "walk" THEN height ELSE above

Wanted == (IF phase = "walk" THEN g.funcs ELSE g.noSplit) \ DOMAIN Memo

\* The loops of Check, in sorted order, and of headroom, in the order of a map.
StartWalk(n) ==
  /\ phase \in {"walk", "above"} /\ path = <<>> /\ n \in Wanted
  /\ phase = "walk" => n = Min(Wanted)
  /\ path' = Enter(n)
  /\ UNCHANGED <<g, phase, height, above, pending, chain, chains>>

Descend(m) ==
  /\ phase \in {"walk", "above"} /\ path # <<>>
  /\ m \in Last(path).todo \ (DOMAIN Memo \cup OnPath)
  /\ path' = Enter(m)
  /\ UNCHANGED <<g, phase, height, above, pending, chain, chains>>

\* A mutant of Answer: a back edge costs what the function on the path has so far.
AnswerSoFar(m) ==
  IF m \in DOMAIN Memo THEN Memo[m]
  ELSE path[CHOOSE i \in DOMAIN path : path[i].fn = m].best

\* A memoised answer, or Infinite for a function already on the path.
Answer(m) == IF m \in DOMAIN Memo THEN Memo[m] ELSE Infinite

\* A mutant of Combine: the callee stays on the list.
CombineAgain(m) ==
  /\ phase \in {"walk", "above"} /\ path # <<>>
  /\ m \in Last(path).todo \cap (DOMAIN Memo \cup OnPath)
  /\ path' = [path EXCEPT ![Len(path)].best = Max({@, Edge(Last(path).fn, m, Answer(m))})]
  /\ UNCHANGED <<g, phase, height, above, pending, chain, chains>>

Combine(m) ==
  /\ phase \in {"walk", "above"} /\ path # <<>>
  /\ m \in Last(path).todo \cap (DOMAIN Memo \cup OnPath)
  /\ LET top == Last(path) IN
     path' = [path EXCEPT ![Len(path)].todo = @ \ {m},
                          ![Len(path)].best = Max({@, Edge(top.fn, m, Answer(m))})]
  /\ UNCHANGED <<g, phase, height, above, pending, chain, chains>>

Memoise(M, n, v) == [x \in DOMAIN M \cup {n} |-> IF x = n THEN v ELSE M[x]]

\* A mutant of Finish: the sum of a cycle's frames on top of Infinite is kept.
FinishUncapped ==
  /\ phase \in {"walk", "above"} /\ path # <<>> /\ Last(path).todo = {}
  /\ path' = Front(path)
  /\ LET top == Last(path) IN
     /\ height' = IF phase = "walk" THEN Memoise(height, top.fn, top.best) ELSE height
     /\ above' = IF phase = "above" THEN Memoise(above, top.fn, top.best) ELSE above
  /\ UNCHANGED <<g, phase, pending, chain, chains>>

Finish ==
  /\ phase \in {"walk", "above"} /\ path # <<>> /\ Last(path).todo = {}
  /\ path' = Front(path)
  /\ LET fn == Last(path).fn
         v == Min({Last(path).best, Infinite}) IN
     /\ height' = IF phase = "walk" THEN Memoise(height, fn, v) ELSE height
     /\ above' = IF phase = "above" THEN Memoise(above, fn, v) ELSE above
  /\ UNCHANGED <<g, phase, pending, chain, chains>>

----------------------------------------------------------------------------
(* The verdict and the report.                                             *)

\* Report.Headroom, bounded below.
Headroom(n) == Max({-Infinite, Limit - (above[n] + height[n])})

Over == {n \in g.funcs : height[n] > LimitFor(n)}

WalksDone ==
  /\ phase = "walk" /\ path = <<>> /\ Wanted = {}
  /\ phase' = "above"
  /\ UNCHANGED <<g, path, height, above, pending, chain, chains>>

\* rootsOf: what another over-limit function reaches through over-limit ones is
\* not reported again.
ReachedFrom(o) ==
  LET within == {p \in Chains(g) : Range(p) \subseteq Over}
  IN  {Last(p) : p \in {q \in within : Head(q) = o /\ Len(q) > 1}}
RootsOf ==
  LET roots == Over \ UNION {ReachedFrom(o) : o \in Over}
  IN  IF roots = {} /\ Over # {} THEN {Min(Over)} ELSE roots

AboveDone ==
  /\ phase = "above" /\ path = <<>> /\ Wanted = {}
  /\ pending' = RootsOf
  /\ phase' = IF Over = {} THEN "done" ELSE "report"
  /\ UNCHANGED <<g, path, height, above, chain, chains>>

StartChain(n) ==
  /\ phase = "report" /\ chain = NoChain /\ n \in pending
  /\ chain' = [frames |-> <<n>>, at |-> n]
  /\ UNCHANGED <<g, phase, path, height, above, pending, chains>>

\* chainFrom and deepestCallee: stop at a dynamic frame, at a callee already on
\* the chain, or when every callee has height 0; else take a deepest callee.
OnChain == Range(chain.frames)
HeightOf(n) == height[n]
\* A mutant of DeepestCallees: the chain takes any callee.
AnyCallee(n) == CalleesOf(g, n)

DeepestCallees(n) ==
  LET cs == CalleesOf(g, n) IN {c \in cs : HeightOf(c) = Max({HeightOf(d) : d \in cs})}

EndChain(h) ==
  /\ chains' = chains \cup {[frames |-> chain.frames, height |-> h]}
  /\ pending' = pending \ {Head(chain.frames)}
  /\ chain' = NoChain
  /\ phase' = IF pending' = {} THEN "done" ELSE "report"
  /\ UNCHANGED <<g, path, height, above>>

EndUnbounded ==
  /\ phase = "report" /\ chain # NoChain
  /\ chain.at \in g.dynamic \/ CalleesOf(g, chain.at) \cap OnChain # {}
  /\ EndChain(Infinite)

EndBounded ==
  /\ phase = "report" /\ chain # NoChain
  /\ chain.at \notin g.dynamic /\ CalleesOf(g, chain.at) \cap OnChain = {}
  /\ \A c \in CalleesOf(g, chain.at) : HeightOf(c) = 0
  /\ EndChain(Bytes(g, chain.frames))

\* The synthetic callee is gone through and not printed.
FollowDeepest(c) ==
  /\ phase = "report" /\ chain # NoChain
  /\ chain.at \notin g.dynamic /\ CalleesOf(g, chain.at) \cap OnChain = {}
  /\ c \in DeepestCallees(chain.at) /\ HeightOf(c) > 0
  /\ chain' = [frames |-> IF c = IndirectTarget THEN chain.frames ELSE Append(chain.frames, c),
               at |-> c]
  /\ UNCHANGED <<g, phase, path, height, above, pending, chains>>

Done == phase = "done" /\ UNCHANGED vars

AllNames == UNION {g.funcs, UNION {g.calls[n] : n \in g.funcs}, {IndirectTarget}}

Next ==
  \/ \E n \in AllNames : StartWalk(n) \/ Descend(n) \/ Combine(n)
  \/ Finish \/ WalksDone \/ AboveDone
  \/ \E n \in AllNames : StartChain(n) \/ FollowDeepest(n)
  \/ EndUnbounded \/ EndBounded \/ Done

Spec == Init /\ [][Next]_vars /\ WF_vars(Next)
----------------------------------------------------------------------------
(* Properties.                                                             *)

TypeOK ==
  /\ phase \in {"walk", "above", "report", "done"}
  /\ \A i \in DOMAIN path : path[i].fn \in AllNames /\ path[i].todo \subseteq AllNames
  /\ DOMAIN height \subseteq AllNames /\ Range(height) \subseteq 0 .. Infinite
  /\ DOMAIN above \subseteq AllNames /\ Range(above) \subseteq 0 .. Infinite
  /\ pending \subseteq g.funcs /\ Range(chain.frames) \cup {chain.at} \subseteq AllNames

\* Whatever the order of the walk, a memoised height is the deepest chain out of
\* the function, and infinite exactly when a chain out of it is unbounded: the
\* sentinel of a back edge reaches no function outside the cycle (walker.walk).
HeightsAreDeepest ==
  path = <<>> => \A n \in DOMAIN height : height[n] = Height(g, n)

\* headroom: what is left of the limit under the deepest of the chains that run
\* through the function from any root, and nothing at all below or above a cycle.
HeadroomIsSlack ==
  phase \in {"report", "done"} /\ ~g.strict =>
    \A n \in g.noSplit :
      IF Unbounded(g, n) THEN Headroom(n) < 0 ELSE Headroom(n) = RoomFor(g, n, Limit)

Allowed(n, bytes) == bytes <= Limit \/ bytes <= g.recorded[n]

\* The build goes on exactly when every chain of the module, from wherever it
\* starts, is bounded and fits the limit or the height recorded for its start.
VerdictIsExact ==
  phase = "done" =>
    (chains = {} <=> \A p \in Chains(g) :
       Head(p) # IndirectTarget => ~Endless(g, p) /\ Allowed(Head(p), Bytes(g, p)))

\* What is printed of a chain: all of it but the synthetic callee.
Names(p) ==
  IF IndirectTarget \notin Range(p) THEN p
  ELSE RemoveAt(p, CHOOSE i \in DOMAIN p : p[i] = IndirectTarget)

\* A chain the error prints is a chain of the program, over the limit of its root,
\* and as high as the walk measured: rebuilt by following heights, it does not
\* lose the cycle or the frames that made it too high.
ReportedChainsAreReal ==
  \A c \in chains :
    /\ \E p \in Chains(g) : c.frames = Names(p)
    /\ c.height = height[Head(c.frames)]
    /\ ~Allowed(Head(c.frames), c.height)

\* The walk ends on every graph, cycles included, with a verdict.
CheckEnds == <>(phase = "done")
=============================================================================
