----------------------------- MODULE MCMemoStage -----------------------------
(***************************************************************************)
(* MemoStage over four functions: leaf and mid are helpers, guard is       *)
(* nosplit, main and guard are exported.  The budget is three              *)
(* instructions and the nosplit allowance two.                             *)
(***************************************************************************)
EXTENDS MemoStage

Body(code, size, late, calls, refs) ==
  [code |-> {code}, size |-> size, late |-> late, calls |-> calls, refs |-> refs]

Module(facts, data, body) == [facts |-> facts, data |-> data, body |-> body]

MCBottomUp == <<"leaf", "mid", "guard", "main">>
MCExported == {"main", "guard"}
MCNoSplit == {"guard"}

\* A leaf that fits the budget inside mid and one that does not; a mid that
\* splices leaf and one that calls itself; a main that calls mid, one that names
\* it as a value, and one that does both to leaf.
Leafs == {Body("leaf1", 1, 0, <<>>, {}), Body("leaf2", 3, 2, <<>>, {})}
Mids == {Body("mid1", 2, 0, <<"leaf">>, {}), Body("mid2", 2, 0, <<"mid", "leaf">>, {})}
Mains == {Body("main1", 1, 0, <<"mid">>, {}), Body("main2", 1, 0, <<"leaf">>, {"mid"}),
          Body("main3", 1, 0, <<"mid", "leaf">>, {"leaf"})}
Guard == Body("guard1", 1, 0, <<"leaf">>, {})

WithGuard(facts, data, l, m, n) ==
  Module(facts, data, "leaf" :> l @@ "mid" :> m @@ "guard" :> Guard @@ "main" :> n)

WithoutGuard(l, m, n) ==
  Module("facts", {}, "leaf" :> l @@ "mid" :> m @@ "main" :> n)

\* Edits of every function, a function that leaves the module and returns, and a
\* move of the data and of the module facts.
EditedModules ==
  {WithGuard("facts", {}, l, m, n) : l \in Leafs, m \in Mids, n \in Mains}
    \cup {WithoutGuard(l, m, n) : l \in Leafs, m \in Mids,
                                  n \in {Body("main1", 1, 0, <<"mid">>, {})}}
    \cup {WithGuard("facts", {"leaf"}, l, Body("mid1", 2, 0, <<"leaf">>, {}),
                    Body("main1", 1, 0, <<"mid">>, {})) : l \in Leafs}
    \cup {WithGuard("other facts", {}, l, Body("mid1", 2, 0, <<"leaf">>, {}),
                    Body("main1", 1, 0, <<"mid">>, {})) : l \in Leafs}

\* Edits of main and of the leaf it calls: mid is too large to inline until the
\* late passes have shrunk it.
ShrinkingModules ==
  {WithGuard("facts", {}, l, Body("mid1", 4, 2, <<>>, {}), n) :
     l \in {Body("leaf1", 1, 0, <<>>, {}), Body("leaf2", 4, 2, <<>>, {})},
     n \in {Body("main1", 1, 0, <<"mid", "leaf">>, {}), Body("main2", 2, 1, <<"mid", "leaf">>, {}),
            Body("main3", 3, 0, <<"mid", "leaf">>, {})}}

\* A mid that guard splices and that begins to call leaf, when main is gone and its
\* entry keeps the whole-module check from answering.
Dragging(m, n) ==
  Module("facts", {}, "leaf" :> Body("leaf1", 4, 2, <<>>, {}) @@ "mid" :> m @@
                      "guard" :> Body("guard1", 1, 0, <<"mid">>, {}) @@ n)
DraggedModules ==
  {Dragging(Body("mid1", 3, 1, <<>>, {}), "main" :> Body("main1", 1, 0, <<"leaf">>, {})),
   Dragging(Body("mid2", 3, 2, <<"leaf">>, {}), Nothing)}

MCModules == EditedModules \cup ShrinkingModules \cup DraggedModules
=============================================================================
