----------------------------- MODULE ChainBudget -----------------------------
(***************************************************************************)
(* What a nosplit frame budget promises (opt.FrameBudget): a chain of      *)
(* frames has the slack it was measured with, and the growth of the frames *)
(* on it, taken together, stays inside that slack.                         *)
(***************************************************************************)
EXTENDS Integers

VARIABLES
  slack,   \* slack[c]: the bytes chain c was measured below the limit
  spent    \* spent[c]: the bytes the frames on c have grown by since

vars == <<slack, spent>>

Init == spent = [c \in DOMAIN slack |-> 0]

\* A frame grows by d: every chain through it does, and each has the room.
Grow(cs, d) ==
  /\ \A c \in cs : spent[c] + d <= slack[c]
  /\ spent' = [c \in DOMAIN slack |-> IF c \in cs THEN spent[c] + d ELSE spent[c]]
  /\ UNCHANGED slack

Next == \E cs \in SUBSET DOMAIN slack, d \in Nat \ {0} : Grow(cs, d)

Spec == Init /\ [][Next]_vars
=============================================================================
