---------------------------- MODULE SerialBackend ----------------------------
(***************************************************************************)
(* What compileFunctionsInOrder promises (arm64/parallel.go): one function *)
(* at a time, in function order, until one is refused.  No workers, no     *)
(* look-ahead, no code cache.  ParallelBackend is shown to implement this. *)
(***************************************************************************)
EXTENDS Naturals, Sequences

CONSTANTS Modules,  \* the modules a build may hand over: sequences of bodies
          Options,  \* the compile options: [pic, facts]
          Failing   \* the bodies lowering, allocation or emission refuse

VARIABLES bodies, opts, merged, firstError, returned

serialVars == <<bodies, opts, merged, firstError, returned>>

\* The finished code of a body: emission reads the body, the options and the
\* read-only facts of the module, and nothing else.
CodeOf(b, o) == [body |-> b, opts |-> o]

Init ==
  /\ bodies = <<>> /\ opts \in Options
  /\ merged = <<>> /\ firstError = 0 /\ returned = TRUE

Call(m, o) ==
  /\ returned
  /\ bodies' = m /\ opts' = o
  /\ merged' = <<>> /\ firstError' = 0 /\ returned' = FALSE

Next1 == Len(merged) + 1

MergeNext ==
  /\ ~returned /\ firstError = 0 /\ Len(merged) < Len(bodies)
  /\ bodies[Next1] \notin Failing
  /\ merged' = Append(merged, CodeOf(bodies[Next1], opts))
  /\ UNCHANGED <<bodies, opts, firstError, returned>>

FailNext ==
  /\ ~returned /\ firstError = 0 /\ Len(merged) < Len(bodies)
  /\ bodies[Next1] \in Failing
  /\ firstError' = Next1
  /\ UNCHANGED <<bodies, opts, merged, returned>>

Return ==
  /\ ~returned
  /\ firstError # 0 \/ Len(merged) = Len(bodies)
  /\ returned' = TRUE
  /\ UNCHANGED <<bodies, opts, merged, firstError>>

Next ==
  \/ \E m \in Modules, o \in Options : Call(m, o)
  \/ MergeNext \/ FailNext \/ Return

SafeSpec == Init /\ [][Next]_serialVars
Spec == SafeSpec /\ WF_serialVars(MergeNext \/ FailNext \/ Return)
=============================================================================
