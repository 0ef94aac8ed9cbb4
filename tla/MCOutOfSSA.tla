------------------------------ MODULE MCOutOfSSA ------------------------------
(***************************************************************************)
(* Families of small functions.                                            *)
(***************************************************************************)
EXTENDS OutOfSSA

Op(to, args) == [op |-> "op", to |-> to, args |-> args]
Jmp(kind, arg, to) == [kind |-> kind, arg |-> arg, to |-> to]
Phi(to, from, args) == [to |-> to, from |-> from, args |-> args]

Function(phis, code, jmp, temps) ==
  [order |-> [b \in DOMAIN code |-> b], phis |-> phis, code |-> code, jmp |-> jmp, temps |-> temps]

\* Every use is reached by its definition.
Strict(f) ==
  \A t \in 1..f.temps :
    t \notin ReadFirst(f, 1) /\ (t \in Written(f, 1) \/ ~ReadAfter(f, t, 1))

\* A loop on block 2 alone, and one through block 3, with two variables: swaps,
\* lost copies, values that outlive the loop.
Loops ==
  {Function(<< <<>>, <<Phi(3, <<1, 3>>, <<1, x>>), Phi(4, <<1, 3>>, <<2, y>>)>>, <<>>, <<>> >>,
            << <<Op(1, <<>>), Op(2, <<>>)>>, <<>>, <<Op(5, <<3, 4>>)>>, <<Op(0, <<u, 4>>)>> >>,
            <<Jmp("jmp", 0, <<2>>), Jmp("jnz", c, <<3, 4>>), Jmp("jmp", 0, <<2>>),
              Jmp("ret", 0, <<>>)>>, 5) :
     x \in 0..5, y \in 0..5, c \in {3, 4}, u \in {1, 3}}
SelfLoops ==
  {Function(<< <<>>, <<Phi(3, <<1, 2>>, <<1, x>>), Phi(4, <<1, 2>>, <<2, y>>)>>, <<>> >>,
            << <<Op(1, <<>>), Op(2, <<>>)>>, <<Op(5, <<3>>)>>, <<Op(0, <<3, u>>)>> >>,
            <<Jmp("jmp", 0, <<2>>), Jmp("jnz", c, <<2, 3>>), Jmp("ret", 0, <<>>)>>, 5) :
     x \in 0..5, y \in 0..5, c \in {3, 4, 5}, u \in {4, 5}}

\* An interpreter: the entry and the handlers 2 and 3 end in computed gotos.
Meshes ==
  {Function(<< <<>>, <<Phi(2, <<1, 2, 3>>, <<1, a, b>>), Phi(6, <<1, 2, 3>>, <<0, 2, e>>)>>,
               <<Phi(3, <<1, 2>>, <<1, d>>)>>, <<>> >>,
            << <<Op(1, <<>>)>>, <<Op(4, <<2, 6>>)>>, <<Op(5, <<3>>)>>, <<Op(0, <<u>>)>> >>,
            <<Jmp("br", 1, <<2, 3>>), Jmp("br", v, <<2, 3>>), Jmp("br", 3, <<2, 4>>),
              Jmp("ret", 0, <<>>)>>, 6) :
     a \in 1..6, b \in 1..6, d \in 1..6, e \in {3, 5}, u \in {3, 5}, v \in {2, 4}}

\* Computed gotos and a conditional jump into the same blocks.
Mixed ==
  {Function(<< <<>>, <<>>, <<Phi(3, <<1, 2, 3>>, <<1, a, b>>), Phi(4, <<1, 2, 3>>, <<1, c, 3>>)>>,
               <<Phi(6, <<2, 3>>, <<d, e>>)>> >>,
            << <<Op(1, <<>>)>>, <<Op(2, <<>>)>>, <<Op(5, <<4>>)>>, <<Op(0, <<6, u>>)>> >>,
            <<Jmp("jnz", 1, <<2, 3>>), Jmp("br", 2, <<3, 4>>), Jmp("br", v, <<3, 4>>),
              Jmp("ret", 0, <<>>)>>, 6) :
     a \in 0..2, b \in 3..5, c \in 1..2, d \in 1..2, e \in 3..5, u \in {0, 1}, v \in {3, 5}}

\* Cases that fall through, in several orders, some with several values (a case
\* range is one value after another), and a switch with no case.
Falls ==
  {Function(<< <<>>, <<>>, <<Phi(4, <<1, 2>>, <<a, b>>)>>, <<Phi(6, <<1, 3>>, <<c, d>>)>> >>,
            << <<Op(1, <<>>), Op(2, <<>>)>>, <<Op(3, <<2>>)>>, <<Op(5, <<4>>)>>, <<Op(0, <<6, u>>)>> >>,
            <<Jmp("switch", 1, to), Jmp("jmp", 0, <<3>>), Jmp("jmp", 0, <<4>>), Jmp("ret", 0, <<>>)>>, 6) :
     a \in 0..2, b \in 1..3, c \in 0..2, d \in {1, 4, 5}, u \in 1..2,
     to \in {<<4, 2, 3>>, <<4, 3, 2>>, <<4, 2, 3, 2>>, <<2, 4, 3>>, <<4, 2, 3, 3>>, <<3, 2, 4, 3>>,
             <<4, 3, 2, 3>>, <<3, 3, 2, 4>>}}
NoCases ==
  {Function(<< <<>>, <<>> >>, << <<Op(1, <<>>)>>, <<Op(0, <<1>>)>> >>,
            <<Jmp("switch", 1, <<2>>), Jmp("ret", 0, <<>>)>>, 1)}

\* A loop around a switch whose first case falls through to the second.
SwitchLoops ==
  {Function(<< <<>>, <<Phi(2, <<1, 5>>, <<1, x>>)>>, <<>>, <<Phi(5, <<2, 3>>, <<a, b>>)>>,
               <<Phi(6, <<2, 4>>, <<c, d>>)>>, <<>> >>,
            << <<Op(1, <<>>)>>, <<Op(3, <<2>>)>>, <<Op(4, <<2>>)>>, <<>>, <<>>, <<Op(0, <<2, 6>>)>> >>,
            <<Jmp("jmp", 0, <<2>>), Jmp("switch", v, <<5, 3, 4>>), Jmp("jmp", 0, <<4>>),
              Jmp("jmp", 0, <<5>>), Jmp("jnz", 6, <<2, 6>>), Jmp("ret", 0, <<>>)>>, 6) :
     x \in {2, 3, 6}, a \in 1..3, b \in 2..4, c \in 2..3, d \in {2, 5}, v \in 2..3}

\* A loop entered at a case of the switch that closes it: goto L; top: switch (v)
\* { case 1: return y; L: case 2: goto top; }
LoopCases ==
  {Function(<< <<>>, <<>>, <<Phi(2, <<1, 2>>, <<1, x>>)>>, <<>> >>,
            << <<Op(1, <<>>)>>, <<Op(3, <<2>>)>>, <<>>, <<Op(0, <<2>>)>> >>,
            <<Jmp("jmp", 0, <<3>>), Jmp("switch", v, <<4, 4, 3>>), Jmp("jmp", 0, <<2>>),
              Jmp("ret", 0, <<>>)>>, 3) :
     x \in 1..3, v \in 2..3}

\* An interpreter one of whose handlers dispatches by a switch.
Dispatch(a, b, join, u, v, to) ==
  Function(<< <<>>, <<Phi(2, <<1, 3>>, <<1, a>>)>>, <<Phi(3, <<1, 2>>, <<1, b>>)>>, join >>,
           << <<Op(1, <<>>)>>, <<Op(4, <<2>>)>>, <<Op(5, <<3>>)>>, <<Op(0, <<u>>)>> >>,
           <<Jmp("br", 1, <<2, 3>>), Jmp("switch", v, to), Jmp("br", 3, <<2, 4>>),
             Jmp("ret", 0, <<>>)>>, 6)
Dispatches ==
  {Dispatch(a, b, <<>>, 1, v, to) :
     a \in {1, 3, 5}, b \in {1, 2, 4}, v \in {1, 2, 4}, to \in {<<4, 3>>, <<4, 3, 4>>, <<4, 4, 3>>}}
  \cup
  {Dispatch(a, b, <<Phi(6, <<2, 3>>, <<c, d>>)>>, 6, v, to) :
     a \in {1, 3, 5}, b \in {1, 2, 4}, c \in {1, 2, 4}, d \in {1, 3, 5}, v \in {1, 2, 4},
     to \in {<<4, 3>>, <<3, 4>>, <<4, 3, 4>>}}

\* A loop closed by a computed goto that has one target.
LoneGotos ==
  {Function(<< <<>>, <<Phi(2, <<1, 3>>, <<1, x>>)>>, <<>>, <<>> >>,
            << <<Op(1, <<>>)>>, <<Op(3, <<2>>)>>, <<>>, <<Op(0, <<u>>)>> >>,
            <<Jmp("jmp", 0, <<2>>), Jmp("jnz", 3, <<3, 4>>), Jmp("br", v, <<2>>), Jmp("ret", 0, <<>>)>>, 3) :
     x \in 1..3, u \in 1..3, v \in 1..3}

-----------------------------------------------------------------------------
\* What a later test of a switch goes to: to[1] is the default, to[2] the first case.
LaterTargets(jmp) == IF Len(jmp.to) < 3 THEN {} ELSE ToSet(RemoveAt(jmp.to, 2))

\* The phis of the targets name the switch block, and only the edge of the first test
\* is redirected.  The copies of the other targets stand at the end of the switch block.
\* There they are right if the first test does not go to the same phis, their results
\* are not read on another way out of the switch, and none was coalesced with something
\* that is.
CopiesMayLeadTests(f, b) ==
  \A v \in LaterTargets(f.jmp[b]) :
    f.phis[v] # <<>> =>
      /\ v # f.jmp[b].to[2]
      /\ \A t \in PhiResults(f, v) : t # f.jmp[b].arg /\ ~ReadAfter(f, t, b)
      /\ \A c \in Blocks(f) : f.jmp[c].kind # "br"

\* The functions whose copies the passes have a place for.  A computed goto with one
\* target has none: the phis there are not resolved through memory, and their copies
\* run before the jump reads its argument.
HasPlaces(f) ==
  \A b \in Blocks(f) :
    /\ f.jmp[b].kind = "switch" => CopiesMayLeadTests(f, b)
    /\ f.jmp[b].kind = "br" /\ Len(f.jmp[b].to) = 1 => f.phis[Head(f.jmp[b].to)] = <<>>

MCFunctions ==
  {f \in Loops \cup SelfLoops \cup Meshes \cup Mixed \cup Falls \cup NoCases \cup SwitchLoops
       \cup LoopCases \cup Dispatches \cup LoneGotos : Strict(f) /\ HasPlaces(f)}

\* The functions left out: a case that shares its phis with the first test, a switch
\* beside a computed goto.
SharedCases == {f \in Falls : Strict(f) /\ ~HasPlaces(f)}
SwitchMeshes == {f \in Dispatches : Strict(f) /\ ~HasPlaces(f)}
=============================================================================
