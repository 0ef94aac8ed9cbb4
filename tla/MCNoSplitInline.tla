--------------------------- MODULE MCNoSplitInline ---------------------------
(***************************************************************************)
(* Modules of four functions that call forward, three nosplit and a helper *)
(* that is splittable, so that a chain of three shares its room; of three  *)
(* functions with any calls between them, cycles included; and of three    *)
(* with one that has no managed frame, cannot be laid out, allocates       *)
(* dynamically, or starts a chain with a recorded debt.                    *)
(***************************************************************************)
EXTENDS NoSplitInline

CONSTANTS f1, f2, f3, f4

MCFuncs == {f1, f2, f3, f4}
Order == <<f1, f2, f3, f4>>
Nothing == [f \in MCFuncs |-> {}]

Module(guarded, frame, calls) ==
  [module |-> [noSplit |-> [f \in MCFuncs |-> f \notin guarded],
               managed |-> [f \in MCFuncs |-> TRUE],
               unmeasurable |-> {}, recorded |-> [f \in MCFuncs |-> 0]],
   bodies |-> [frame |-> frame, calls |-> calls, dynamic |-> {}]]

Even == [f \in MCFuncs |-> 16]
Forward ==
  {c \in [MCFuncs -> SUBSET MCFuncs] :
     \A i \in 1 .. 4 : c[Order[i]] \subseteq {Order[j] : j \in (i + 1) .. 4}}

\* Any calls between three functions; those of them that go forward.
OnThree == {c \in [MCFuncs -> SUBSET {f1, f2, f3}] : c[f4] = {}}
ForwardOnThree == OnThree \cap Forward

Deep == [Even EXCEPT ![f1] = 48, ![f2] = 32]
Managed == {Module({g}, Even, c) : g \in {f2, f4}, c \in Forward}
MCModules ==
  Managed
  \cup {Module({f4}, Even, c) : c \in OnThree}
  \cup {[Module({f4}, Even, c) EXCEPT !.module.managed[b] = FALSE] : c \in ForwardOnThree, b \in {f2, f3}}
  \cup {[Module({f4}, Even, c) EXCEPT !.module.unmeasurable = {f3}] : c \in ForwardOnThree}
  \cup {[Module({g}, Even, c) EXCEPT !.bodies.dynamic = {f3}] : g \in {f2, f3}, c \in ForwardOnThree}
  \cup {[Module({g}, Deep, c) EXCEPT !.module.recorded[f1] = 112] : g \in {f2, f4}, c \in Forward}
=============================================================================
