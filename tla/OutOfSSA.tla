------------------------------- MODULE OutOfSSA -------------------------------
(***************************************************************************)
(* Out of SSA form (lower/switch.go, lower/ssa.go, analysis/live.go): a    *)
(* multiway branch becomes a chain of tests, critical edges are split, the *)
(* phis at the targets of a computed goto are coalesced, and every other   *)
(* phi becomes copies at the ends of its predecessors or goes through a    *)
(* stack slot.  The function that comes out is then run beside the one     *)
(* that went in.                                                           *)
(*                                                                         *)
(* A function is its blocks in order and, for each, its phis, its          *)
(* instructions and its jump.  A reference is the number of a temporary,   *)
(* or 0 for a constant.  What an instruction computes is left open: it     *)
(* reads its arguments and its result is any value, the same in both runs. *)
(* A slot is a temporary that only stores write.  The binary search and    *)
(* the jump table of a large switch are left out: one is such a chain in   *)
(* another order, the other is not made when a target has a phi.  So are   *)
(* lifetime markers, which liveness skips.                                 *)
(***************************************************************************)
EXTENDS Naturals, FiniteSets, SequencesExt

CONSTANTS
  Functions,   \* functions in SSA form, every block reachable, the entry first
  Values       \* what a temporary holds

VARIABLES
  fn,      \* the function in SSA form
  low,     \* the function being lowered
  phase,   \* the pass to run next, then "run" and "done"
  at,      \* where the run of fn stands: a block and an instruction
  env,     \* its temporaries
  pos,     \* where the run of low stands
  regs,    \* its temporaries
  aim      \* the block that fn's jump goes to while low is on its way, or 0

vars == <<fn, low, phase, at, env, pos, regs, aim>>

Blocks(f) == ToSet(f.order)
Succs(f, b) == ToSet(f.jmp[b].to)
Preds(f, b) == {p \in Blocks(f) : b \in Succs(f, p)}
Temps(refs) == ToSet(refs) \ {0}

\* What a function of the blocks B and the temporaries 1..n is made of before its phis go.
Instrs(n) == [op : {"op", "cmp"}, to : 0..n, args : Seq(0..n)]
Phis(B, n) == {p \in [to : 0..n, from : Seq(B), args : Seq(0..n)] : Len(p.from) = Len(p.args)}
Jumps(B, n) == {j \in [kind : {"jmp", "jnz", "br", "switch", "ret"}, arg : 0..n, to : Seq(B)] :
                  j.kind = "switch" => j.to # <<>>}
Shapes(B, n) == [order : Seq(B), phis : [B -> Seq(Phis(B, n))], code : [B -> Seq(Instrs(n))],
                 jmp : [B -> Jumps(B, n)], temps : {n}]

WellFormed(f) ==
  /\ f.order \in Seq(Nat) /\ f.order # <<>> /\ f.temps \in Nat
  /\ f \in Shapes(Blocks(f), f.temps)

ASSUME FunctionsAreWellFormed == \A f \in Functions : WellFormed(f)

NewBlock(f) == Max(Blocks(f)) + 1
Goto(b) == [kind |-> "jmp", arg |-> 0, to |-> <<b>>]

\* f with new blocks appended, which have no phis: code[i] and jmp[i] are the i-th's.
WithBlocks(f, code, jmp) ==
  LET n == Len(code)
      last == NewBlock(f) - 1
      all == Blocks(f) \cup {last + i : i \in 1..n}
  IN  [order |-> f.order \o [i \in 1..n |-> last + i],
       phis |-> [b \in all |-> IF b \in Blocks(f) THEN f.phis[b] ELSE <<>>],
       code |-> [b \in all |-> IF b \in Blocks(f) THEN f.code[b] ELSE code[b - last]],
       jmp |-> [b \in all |-> IF b \in Blocks(f) THEN f.jmp[b] ELSE jmp[b - last]],
       temps |-> f.temps]
-----------------------------------------------------------------------------
(***************************************************************************)
(* Switches: the tests of one switch, in b and in a new block each.        *)
(***************************************************************************)
Test(f, b, i) == [op |-> "cmp", to |-> f.temps + i, args |-> <<f.jmp[b].arg>>]

LowerSwitch(f, b) ==
  LET default == Head(f.jmp[b].to)
      cases == Tail(f.jmp[b].to)
      n == Len(cases)
      Jnz(i) == [kind |-> "jnz", arg |-> f.temps + i,
                 to |-> <<cases[i], IF i = n THEN default ELSE NewBlock(f) + i - 1>>]
      first == [f EXCEPT !.code[b] = Append(@, Test(f, b, 1)), !.jmp[b] = Jnz(1), !.temps = @ + n]
  IN  IF f.jmp[b].kind # "switch" THEN f
      ELSE IF n = 0 THEN [f EXCEPT !.jmp[b] = Goto(default)]
      ELSE WithBlocks(first, [i \in 1..(n - 1) |-> <<Test(f, b, i + 1)>>],
                             [i \in 1..(n - 1) |-> Jnz(i + 1)])

LowerSwitches ==
  /\ phase = "switches"
  /\ low' = FoldLeft(LowerSwitch, low, low.order)
  /\ phase' = "split"
  /\ UNCHANGED <<fn, at, env, pos, regs, aim>>
-----------------------------------------------------------------------------
(***************************************************************************)
(* SplitCriticalEdges: a block on each edge out of a conditional jump into *)
(* a block with several predecessors, which its phis name from then on.    *)
(***************************************************************************)
SplitEdge(f, u, i) ==
  LET v == f.jmp[u].to[i]
      s == NewBlock(f)
      From(b) == IF b = u THEN s ELSE b
      Redirected(p) == [p EXCEPT !.from = [k \in DOMAIN @ |-> From(@[k])]]
      g == WithBlocks(f, << <<>> >>, <<Goto(v)>>)
  IN  [g EXCEPT !.jmp[u].to[i] = s,
                !.phis[v] = [k \in DOMAIN @ |-> Redirected(@[k])]]

\* An edge with nowhere to put a copy.
IsCritical(f, u, i) ==
  /\ f.jmp[u].kind = "jnz" /\ Cardinality(Succs(f, u)) = 2
  /\ Cardinality(Preds(f, f.jmp[u].to[i])) >= 2

\* The edges out of u: the predecessors are the ones before the first edge is split.
SplitEdgesOf(f, g, u) ==
  FoldLeft(LAMBDA h, i : IF IsCritical(f, u, i) THEN SplitEdge(h, u, i) ELSE h,
           g, [i \in DOMAIN f.jmp[u].to |-> i])

SplitEdges(f) == FoldLeft(LAMBDA g, u : SplitEdgesOf(f, g, u), f, f.order)

SplitCriticalEdges ==
  /\ phase = "split"
  /\ low' = SplitEdges(low)
  /\ phase' = "coalesce"
  /\ UNCHANGED <<fn, at, env, pos, regs, aim>>
-----------------------------------------------------------------------------
(***************************************************************************)
(* Liveness: a phi's result is defined at the top of its block, its        *)
(* operands are used at the ends of the predecessors.                      *)
(***************************************************************************)
PhiResults(f, b) == {f.phis[b][i].to : i \in DOMAIN f.phis[b]}

\* What the phis of s read when control comes from b.
EdgeUses(f, b, s) ==
  UNION {{p.args[k] : k \in {j \in DOMAIN p.from : p.from[j] = b}} \ {0} : p \in ToSet(f.phis[s])}

LiveOut(f, in, b) == UNION {in[s] \cup EdgeUses(f, b, s) : s \in Succs(f, b)}

LiveBefore(instr, live) == (live \ {instr.to}) \cup Temps(instr.args)

LiveAtJump(f, in, b) == LiveOut(f, in, b) \cup Temps(<<f.jmp[b].arg>>)

\* Mutant: the block's own phi results stay live at its top.
LiveAboveWithPhis(f, in, b) == FoldRight(LiveBefore, f.code[b], LiveAtJump(f, in, b))

LiveAbove(f, in, b) == FoldRight(LiveBefore, f.code[b], LiveAtJump(f, in, b)) \ PhiResults(f, b)

\* A round of the loop, which only adds to the sets.
Round(f, in) == [b \in Blocks(f) |-> in[b] \cup LiveAbove(f, in, b)]

Rounds(f, n) == FoldLeft(LAMBDA in, k : Round(f, in), [b \in Blocks(f) |-> {}], [k \in 1..n |-> k])

\* The loop ends with a round that adds nothing; each one before adds to some set.
Settled(f) ==
  CHOOSE n \in 0..(Cardinality(Blocks(f)) * f.temps) : Round(f, Rounds(f, n)) = Rounds(f, n)

Liveness(f) == Rounds(f, Settled(f))
-----------------------------------------------------------------------------
(***************************************************************************)
(* CoalescePhis.                                                           *)
(***************************************************************************)
Pairs(t, live) == {{t, u} : u \in live \ {t}}

\* One instruction of the backward walk: its result interferes with what is live.
Define(instr, w) ==
  [live |-> LiveBefore(instr, w.live),
   edges |-> w.edges \cup (IF instr.to = 0 THEN {} ELSE Pairs(instr.to, w.live))]

\* buildPhiInterference, for one block: the phi results are defined together.
BlockInterference(f, in, b) ==
  LET w == FoldRight(Define, f.code[b], [live |-> LiveAtJump(f, in, b), edges |-> {}])
  IN  w.edges \cup UNION {Pairs(t, w.live \cup PhiResults(f, b)) : t \in PhiResults(f, b)}

Interference(f) ==
  LET in == Liveness(f) IN UNION {BlockInterference(f, in, b) : b \in Blocks(f)}

\* Mutant: only the two temporaries are compared, not their classes.
MayJoinPair(edges, classes, d, a) == {d, a} \notin edges

MayJoin(edges, classes, d, a) == \A x \in classes[d], y \in classes[a] : {x, y} \notin edges

\* union
Join(edges, classes, d, a) ==
  LET both == classes[d] \cup classes[a]
  IN  IF MayJoin(edges, classes, d, a)
      THEN [t \in DOMAIN classes |-> IF t \in both THEN both ELSE classes[t]]
      ELSE classes

\* Only an argument that arrives over a computed goto is joined with the result.
JoinArg(f, edges, c, p, k) ==
  IF p.to # 0 /\ p.args[k] # 0 /\ f.jmp[p.from[k]].kind = "br"
  THEN Join(edges, c, p.to, p.args[k]) ELSE c

JoinArgs(f, edges, c, p) ==
  FoldLeft(LAMBDA d, k : JoinArg(f, edges, d, p, k), c, [k \in DOMAIN p.args |-> k])

JoinPhis(f, edges, c, b) == FoldLeft(LAMBDA d, p : JoinArgs(f, edges, d, p), c, f.phis[b])

ClassesOver(f, edges) ==
  FoldLeft(LAMBDA c, b : JoinPhis(f, edges, c, b), [t \in 1..f.temps |-> {t}], f.order)

Classes(f) == ClassesOver(f, Interference(f))

\* Every class takes the number of its lowest member.
Renamed(f, classes) ==
  LET Ref(r) == IF r = 0 THEN 0 ELSE Min(classes[r])
      Refs(s) == [i \in DOMAIN s |-> Ref(s[i])]
  IN  [f EXCEPT
        !.phis = [b \in DOMAIN @ |-> [i \in DOMAIN @[b] |->
                    [@[b][i] EXCEPT !.to = Ref(@), !.args = Refs(@)]]],
        !.code = [b \in DOMAIN @ |-> [i \in DOMAIN @[b] |->
                    [@[b][i] EXCEPT !.to = Ref(@), !.args = Refs(@)]]],
        !.jmp = [b \in DOMAIN @ |-> [@[b] EXCEPT !.arg = Ref(@)]]]

CoalescePhis ==
  /\ phase = "coalesce"
  /\ low' = Renamed(low, Classes(low))
  /\ phase' = "destruct"
  /\ UNCHANGED <<fn, at, env, pos, regs, aim>>
-----------------------------------------------------------------------------
(***************************************************************************)
(* DestructSSA.                                                            *)
(***************************************************************************)
Free(work) == {i \in DOMAIN work : \A j \in DOMAIN work : work[j].src # work[i].dst}

\* One turn of the loop: emit a copy whose destination nothing still reads, or
\* else save one destination in a new temporary for those that read it.
Turn(c) ==
  LET i == Min(Free(c.work))
      saved == c.work[1].dst
      fresh == c.temps + 1
      Reroute(m) == [m EXCEPT !.src = IF @ = saved THEN fresh ELSE @]
  IN  IF c.work = <<>> THEN c
      ELSE IF Free(c.work) # {}
      THEN [c EXCEPT !.work = RemoveAt(@, i), !.out = Append(@, c.work[i])]
      ELSE [c EXCEPT !.work = [k \in DOMAIN @ |-> Reroute(@[k])], !.temps = fresh,
                     !.out = Append(@, [dst |-> fresh, src |-> saved])]

\* Parallel copies in an order that has their effect: one turn for each, and one
\* for each that is saved.
Sequentialize(work, temps) ==
  FoldLeft(LAMBDA c, k : Turn(c), [work |-> work, temps |-> temps, out |-> <<>>],
           [k \in 1..(2 * Len(work)) |-> k]).out

Moves(work) == SelectSeq(work, LAMBDA m : m.dst # m.src)
Instr(op, to, arg) == [op |-> op, to |-> to, args |-> <<arg>>]

\* An argument arrives over a computed goto and was not coalesced.
MemoryResolvedPhi(f, p) ==
  p.to # 0 /\ \E k \in DOMAIN p.from :
    f.jmp[p.from[k]].kind = "br" /\ Len(f.jmp[p.from[k]].to) > 1 /\ p.args[k] # p.to

\* resolvePhiViaMemory
ViaMemory(f, b, p) ==
  LET slot == f.temps + 1
      stored == FoldLeft(LAMBDA g, k : [g EXCEPT !.code[p.from[k]] =
                                          Append(@, Instr("store", slot, p.args[k]))],
                         f, [k \in DOMAIN p.from |-> k])
  IN  [stored EXCEPT !.temps = slot, !.code[b] = <<Instr("load", p.to, slot)>> \o @]

\* One phi: through memory, or a copy for each predecessor, once.
AddMove(moves, b, m) ==
  LET had == IF b \in DOMAIN moves THEN moves[b] ELSE <<>>
  IN  (b :> IF Contains(had, m) THEN had ELSE Append(had, m)) @@ moves

Dissolve(d, b, p) ==
  IF MemoryResolvedPhi(d.f, p) THEN [d EXCEPT !.f = ViaMemory(@, b, p)]
  ELSE [d EXCEPT !.moves =
          FoldLeft(LAMBDA m, k : AddMove(m, p.from[k], [dst |-> p.to, src |-> p.args[k]]),
                   @, [k \in DOMAIN p.from |-> k])]

\* The copies of one predecessor, after what it has.
EmitCopies(f, b, work) ==
  LET seq == Sequentialize(Moves(work), f.temps)
  IN  [f EXCEPT !.code[b] = @ \o [i \in DOMAIN seq |-> Instr("copy", seq[i].dst, seq[i].src)],
                !.temps = Max({@} \cup {seq[i].dst : i \in DOMAIN seq})]

Destruct(f) ==
  LET OfBlock(d, b) == FoldLeft(LAMBDA e, p : Dissolve(e, b, p), d, f.phis[b])
      d == FoldLeft(OfBlock, [f |-> f, moves |-> [b \in {} |-> 0]], f.order)
      out == FoldLeft(LAMBDA g, b : IF b \in DOMAIN d.moves THEN EmitCopies(g, b, d.moves[b]) ELSE g,
                      d.f, f.order)
  IN  [out EXCEPT !.phis = [b \in DOMAIN @ |-> <<>>]]

Start(f) == [block |-> Head(f.order), next |-> 1]

DestructSSA ==
  /\ phase = "destruct"
  /\ low' = Destruct(low)
  /\ phase' = "run"
  /\ regs' = [t \in 1..low'.temps |-> CHOOSE v \in Values : TRUE]
  /\ UNCHANGED <<fn, at, env, pos, aim>>
-----------------------------------------------------------------------------
(***************************************************************************)
(* The two runs.  fn waits at its jump while low executes what the passes  *)
(* put in, and takes the jump when low arrives.                            *)
(***************************************************************************)
Zero == CHOOSE v \in Values : TRUE
Val(file, r) == IF r = 0 THEN Zero ELSE file[r]
Put(file, t, v) == IF t = 0 THEN file ELSE [file EXCEPT ![t] = v]

Init ==
  /\ fn \in Functions
  /\ low = fn
  /\ phase = "switches"
  /\ at = Start(fn) /\ pos = Start(fn)
  /\ env = [t \in 1..fn.temps |-> Zero] /\ regs = env
  /\ aim = 0

AtJump == pos.next > Len(low.code[pos.block])
Instruction == low.code[pos.block][pos.next]
Original == fn.code[at.block][at.next]

\* An instruction of the function's own.
Execute(v) ==
  /\ phase = "run" /\ ~AtJump /\ Instruction.op = "op"
  /\ Instruction.to = 0 => v = Zero
  /\ env' = Put(env, Original.to, v) /\ regs' = Put(regs, Instruction.to, v)
  /\ at' = [at EXCEPT !.next = @ + 1] /\ pos' = [pos EXCEPT !.next = @ + 1]
  /\ UNCHANGED <<fn, low, phase, aim>>

\* A test, a copy, a store or a load.
ExecuteAdded ==
  /\ phase = "run" /\ ~AtJump /\ Instruction.op # "op"
  /\ regs' = Put(regs, Instruction.to, Val(regs, Head(Instruction.args)))
  /\ pos' = [pos EXCEPT !.next = @ + 1]
  /\ UNCHANGED <<fn, low, phase, at, env, aim>>

\* The blocks of fn that low reaches from s through blocks of its own.
LeadsTo(s) ==
  Blocks(fn) \cap
  FoldLeft(LAMBDA S, b : S \cup UNION {Succs(low, t) : t \in S \ Blocks(fn)}, {s}, low.order)

\* The phis of b read the values as they were at the end of the block before.
AfterPhis(b) ==
  LET From(p) == CHOOSE k \in DOMAIN p.from : p.from[k] = at.block
      PhiOf(t) == CHOOSE p \in ToSet(fn.phis[b]) : p.to = t
      Arg(t) == PhiOf(t).args[From(PhiOf(t))]
  IN  [t \in DOMAIN env |-> IF t \in PhiResults(fn, b) THEN Val(env, Arg(t)) ELSE env[t]]

Jump(s) ==
  /\ phase = "run" /\ AtJump /\ s \in Succs(low, pos.block)
  /\ \E t \in (IF aim = 0 THEN Succs(fn, at.block) ELSE {aim}) :
       /\ t \in LeadsTo(s)
       /\ IF s = t
          THEN at' = [block |-> t, next |-> 1] /\ env' = AfterPhis(t) /\ aim' = 0
          ELSE aim' = t /\ UNCHANGED <<at, env>>
  /\ pos' = [block |-> s, next |-> 1]
  /\ UNCHANGED <<fn, low, phase, regs>>

Return ==
  /\ phase = "run" /\ AtJump /\ low.jmp[pos.block].kind = "ret"
  /\ phase' = "done"
  /\ UNCHANGED <<fn, low, at, env, pos, regs, aim>>

Done == phase = "done" /\ UNCHANGED vars

Next ==
  \/ LowerSwitches \/ SplitCriticalEdges \/ CoalescePhis \/ DestructSSA
  \/ \E v \in Values : Execute(v)
  \/ ExecuteAdded
  \/ \E s \in Blocks(low) : Jump(s)
  \/ Return \/ Done

Spec == Init /\ [][Next]_vars
-----------------------------------------------------------------------------
\* Whatever path is taken and whatever is computed on it, the lowered function
\* reads at each instruction, test and jump what the function in SSA form reads
\* there: no copy is lost, swapped, or run on an edge it does not belong to
\* (DestructSSA), and no two values that share a temporary are needed at once
\* (CoalescePhis).
SameComputation ==
  phase = "run" =>
    IF AtJump
    THEN low.jmp[pos.block].kind # "jmp" =>
           Val(regs, low.jmp[pos.block].arg) = Val(env, fn.jmp[at.block].arg)
    ELSE CASE Instruction.op = "op" ->
                \A k \in DOMAIN Original.args :
                  Val(regs, Instruction.args[k]) = Val(env, Original.args[k])
           [] Instruction.op = "cmp" ->
                Val(regs, Head(Instruction.args)) = Val(env, fn.jmp[at.block].arg)
           [] OTHER -> TRUE

\* The temporaries b reads before it writes them, and those it writes.
ReadFirst(f, b) ==
  {t \in 1..f.temps :
     \/ t \in Temps(<<f.jmp[b].arg>>) /\ \A i \in DOMAIN f.code[b] : f.code[b][i].to # t
     \/ \E i \in DOMAIN f.code[b] :
          t \in Temps(f.code[b][i].args) /\ \A j \in 1..(i - 1) : f.code[b][j].to # t}
Written(f, b) == {f.code[b][i].to : i \in DOMAIN f.code[b]} \cup PhiResults(f, b)

\* The blocks whose end control may come to from the end of b with t not written
\* on the way, b the first of them.
Unwritten(f, t, b) ==
  FoldLeft(LAMBDA S, k : S \cup {s \in UNION {Succs(f, c) : c \in S} : t \notin Written(f, s)},
           {b}, f.order)

\* t is read on an edge out of c, or in the block it leads to before anything there
\* writes it.
ReadNext(f, t, c) ==
  \E s \in Succs(f, c) :
    t \in EdgeUses(f, c, s) \/ (t \notin PhiResults(f, s) /\ t \in ReadFirst(f, s))

ReadAfter(f, t, b) == \E c \in Unwritten(f, t, b) : ReadNext(f, t, c)

\* The fixpoint finds a temporary live at the end of a block exactly when some
\* path from there reads it before anything writes it, a phi reading on the edge
\* it is reached by (analysis.Liveness).
LivenessIsExact ==
  phase = "coalesce" =>
    LET in == Liveness(low)
    IN  \A b \in Blocks(low) : LiveOut(low, in, b) = {t \in 1..low.temps : ReadAfter(low, t, b)}
=============================================================================
