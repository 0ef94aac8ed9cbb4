----------------------------- MODULE MCStackCheck -----------------------------
(***************************************************************************)
(* Every call graph of three functions with frames that tell any two sets  *)
(* of them apart, each function nosplit or splittable, calling any of the  *)
(* three and a symbol the build does not define; with a dynamic allocation *)
(* in one of them, or a debt recorded for one, or indirect calls resolved; *)
(* and four functions whose calls go forward but for one.                  *)
(***************************************************************************)
EXTENDS StackCheck

Three == 1 .. 3
Four == 1 .. 4
External == 9

\* A splittable function's calls are no part of any chain.
Facts(fs, calls, noSplit) ==
  [funcs |-> fs, noSplit |-> noSplit, frame |-> [n \in fs |-> 2 ^ (n - 1)],
   calls |-> [n \in fs |-> IF n \notin noSplit THEN {}
                           ELSE calls[n] \cup (IF n = 2 THEN {External} ELSE {})],
   dynamic |-> {}, indirect |-> {}, addressTaken |-> {},
   strict |-> FALSE, recorded |-> [n \in fs |-> 0]]

AnyCalls == [Three -> SUBSET Three]
\* Four functions, each calling later ones; and a call back to an earlier one.
Forward == {c \in [Four -> SUBSET Four] : \A n \in Four : c[n] \subseteq (n + 1) .. 4}
WithBack == {[c EXCEPT ![4] = b] : c \in Forward, b \in {{}, {2}}}

MCGraphs ==
  {Facts(Three, c, ns) : c \in AnyCalls, ns \in {Three, {1, 2}, {1, 3}}}
  \cup {[Facts(Three, c, Three) EXCEPT !.dynamic = {n}] : c \in AnyCalls, n \in Three}
  \cup {[Facts(Three, c, Three) EXCEPT !.recorded[n] = 6] : c \in AnyCalls, n \in Three}
  \cup {[Facts(Three, c, Three) EXCEPT !.indirect = i, !.addressTaken = t, !.strict = TRUE] :
          c \in [Three -> SUBSET {2, 3}], i \in {{1}, {2, 3}}, t \in {{1, 2}, {3}}}
  \cup {Facts(Four, c, Four) : c \in WithBack}
=============================================================================
