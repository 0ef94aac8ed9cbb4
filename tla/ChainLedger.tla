----------------------------- MODULE ChainLedger -----------------------------
(***************************************************************************)
(* How arm64's noSplitFrameBudget keeps that promise without looking at a  *)
(* chain again: it holds a headroom per function, measured once, and a     *)
(* charge per function, and a grant to one function is charged to every    *)
(* function that shares a chain with it.                                   *)
(***************************************************************************)
EXTENDS Integers

CONSTANT Funcs

Safety == 16    \* noSplitInlineSafetyBytes: held back from every headroom

VARIABLES
  slack,     \* slack[c], a chain being the set of the functions on it
  spent,     \* spent[c]
  headroom,  \* headroom[f], as measured
  sharing,   \* sharing[f]: what lies on a chain with f, f included
  charged    \* charged[f]

vars == <<slack, spent, headroom, sharing, charged>>
chains == DOMAIN slack

Init ==
  /\ chains \subseteq SUBSET Funcs
  /\ slack \in [chains -> Int]
  /\ headroom \in [Funcs -> Int]
  /\ sharing \in [Funcs -> SUBSET Funcs]
  /\ \A c \in chains : \A f \in c : headroom[f] <= slack[c] /\ c \subseteq sharing[f]
  /\ spent = [c \in chains |-> 0]
  /\ charged = [f \in Funcs |-> 0]

\* Headroom, less what is held back; Charge.
Allowance(f) == headroom[f] - charged[f] - Safety
Charge(f, d) == charged' = [g \in Funcs |-> IF g \in sharing[f] THEN charged[g] + d ELSE charged[g]]

Grant(f, d) ==
  /\ Charge(f, d)
  /\ spent' = [c \in chains |-> IF f \in c THEN spent[c] + d ELSE spent[c]]
  /\ UNCHANGED <<slack, headroom, sharing>>

Next == \E f \in Funcs : \E d \in 1 .. Allowance(f) : Grant(f, d)

Spec == Init /\ [][Next]_vars

\* Whatever the order of the grants and whichever functions of a chain are asked,
\* a chain with any growth at all keeps Safety bytes of the slack it had.
NeverOverspent == \A c \in chains : spent[c] = 0 \/ spent[c] + Safety <= slack[c]

Budget == INSTANCE ChainBudget
ImplementsBudget == Budget!Spec
=============================================================================
