---------------------------- MODULE MCOptPipeline ----------------------------
(***************************************************************************)
(* A four-function module through a pipeline of the default one's shape.   *)
(* Bodies are named for what a pass can still do to them: fold cleans      *)
(* "raw", "call" and "loop2"; the inliner splices the leaf into "callc"    *)
(* once the leaf is clean, and "twice" has two such calls of which growth  *)
(* permits one; jump threading and simplifycfg undo each other on "join"   *)
(* and "split", and threading "phi" leaves work for fold; unrolling acts   *)
(* on "loop"; "entry" has a secondary entry.                               *)
(***************************************************************************)
EXTENDS OptPipeline, TLC

MCFuncs == <<"leaf", "rec", "nosplit", "caller">>
MCBodies == {"raw", "done", "call", "callc", "twice", "join", "split",
             "loop", "loop2", "phi", "entry"}

MCInitialBodies ==
  {("leaf" :> l) @@ ("rec" :> r) @@ ("nosplit" :> n) @@ ("caller" :> c) :
     l \in {"raw", "done", "entry"}, r \in {"loop", "phi"},
     n \in {"call", "split"}, c \in {"call", "twice", "split", "entry"}}

MCKind ==
  [p \in {"fold", "jumpthread", "simplifycfg", "dce"} |-> "func"] @@
  ("inline" :> "inline") @@ ("unroll" :> "unroll") @@
  ("deadfunc" :> "deadfunc") @@ ("inline-nosplit" :> "nosplit") @@
  [p \in {"clean", "inline-fixpoint"} |-> "fixpoint"]
MCPasses == DOMAIN MCKind
MCMembers ==
  [p \in MCPasses |->
     CASE p = "clean" -> <<"fold", "jumpthread", "simplifycfg">>
       [] p = "inline-fixpoint" -> <<"inline", "clean">>
       [] OTHER -> <<>>]
MCPipeline == <<"clean", "inline-fixpoint", "unroll", "inline-fixpoint",
                "deadfunc", "dce", "inline-nosplit">>

MCRewrite(p, b) ==
  CASE p = "fold" /\ b = "raw" -> "done"
    [] p = "fold" /\ b = "call" -> "callc"
    [] p = "fold" /\ b = "loop2" -> "done"
    [] p = "jumpthread" /\ b = "join" -> "split"
    [] p = "jumpthread" /\ b = "phi" -> "raw"
    [] p = "simplifycfg" /\ b = "split" -> "join"
    [] OTHER -> b

MCInlineInto(f, bs, first) ==
  CASE f = "caller" /\ bs["leaf"] = "done" /\ bs[f] = "twice" -> "call"
    [] f = "caller" /\ bs["leaf"] = "done" /\ bs[f] = "callc" /\ first # "twice" -> "join"
    [] OTHER -> bs[f]

MCUnrollInto(f, bs) == IF bs[f] = "loop" THEN "loop2" ELSE bs[f]
MCInlineNoSplit(f, bs) == IF bs[f] = "callc" /\ bs["leaf"] = "done" THEN "done" ELSE bs[f]

Calls(b) == b \in {"call", "callc", "twice"}
MCKept(bs) ==
  {f \in FuncSet : f # "leaf" \/ Calls(bs["caller"]) \/ Calls(bs["nosplit"])}

MCMemo == ("leaf" :> "done") @@ ("rec" :> "loop") @@ ("nosplit" :> "callc") @@ ("caller" :> "split")
MCNoSplit == {"nosplit"}
Splittable == FuncSet \ MCNoSplit
=============================================================================
