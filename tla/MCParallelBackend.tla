-------------------------- MODULE MCParallelBackend --------------------------
(***************************************************************************)
(* Small instances of ParallelBackend.  Bodies: two that compile, one that *)
(* has no cache key, one the back end refuses.                             *)
(***************************************************************************)
EXTENDS ParallelBackend

CONSTANTS f, g, asm, bad

MCBodies == {f, g, asm, bad}
MCFailing == {bad}
MCKeyed == {f, g, bad}

\* No functions; one body twice (two goroutines filing the same key); a keyless
\* function before a failure; and two failures, with more functions than the
\* look-ahead of one worker.
MCModules == { <<>>, <<f, f>>, <<asm, bad, g>>, <<f, bad, g, bad>> }

OnePlain == {[pic |-> FALSE, facts |-> 1], [pic |-> TRUE, facts |-> 2]}
=============================================================================
