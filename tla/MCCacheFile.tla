----------------------------- MODULE MCCacheFile -----------------------------
(***************************************************************************)
(* Small instances of CacheFile: keys 1 and 2, a flat entry 3 from before  *)
(* the fanout, and user files 8 (top level) and 9 (in a directory).        *)
(***************************************************************************)
EXTENDS CacheFile, TLC

MCSize == [n \in Names |-> IF n = 2 THEN 2 ELSE 1]

\* Both builds want both keys, in opposite orders.
CrossAsks == (1 :> <<1, 2>>) @@ (2 :> <<2, 1>>)
\* Nothing but two trims.
TrimOnly == (1 :> <<>>) @@ (2 :> <<>>)

\* The clock starts at TrimCutoff, so 0 is about to age out and -1 has.
Stocked == { 1 :> 2, (1 :> 0) @@ (3 :> -1), (2 :> 1) @@ (3 :> 1), (1 :> 1) @@ (2 :> 2),
             (1 :> 0) @@ (9 :> 1) }
Fresh == {times @@ (8 :> -5) : times \in [{1, 2, 3} -> {2, 3}]}
=============================================================================
