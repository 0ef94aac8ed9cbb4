--------------------------- MODULE MCFunctionCache ---------------------------
(***************************************************************************)
(* Two libraries, net above lib, and the program's own package.  T is a    *)
(* type descriptor of lib that every declaration uses, Ring one that       *)
(* refers to itself, Itab an itab of net with its call wrapper.  Grow      *)
(* compares two Ts, Wrap is a generic's instantiation, Dial converts to an *)
(* interface of the whole program.                                         *)
(***************************************************************************)
EXTENDS FunctionCache

Do(op, n) == [do |-> op, name |-> n]

MCPackages == {"lib", "net", "main"}
MCImports == [p \in MCPackages |-> CASE p = "lib" -> {} [] p = "net" -> {"lib"}
                                      [] p = "main" -> {"lib", "net"}]

MCScript ==
  [T |-> <<Do("data", "T")>>,
   TEqual |-> <<Do("func", "TEqual"), Do("use", "TEqualRef"),
                [do |-> "equal", name |-> "T", to |-> "TEqualRef"]>>,
   TEqualRef |-> <<Do("data", "TEqualRef")>>,
   Ring |-> <<Do("data", "Ring"), Do("use", "Ring")>>,
   Itab |-> <<Do("use", "T"), Do("func", "Wrapper"), Do("data", "Itab")>>,
   Make |-> <<Do("file", "a.go"), Do("func", "Make"), Do("use", "T"), Do("data", "makeText")>>,
   Grow |-> <<Do("file", "b.go"), Do("file", "a.go"), Do("func", "Grow"), Do("use", "T"),
              Do("use", "TEqual")>>,
   Free |-> <<Do("file", "a.go"), Do("func", "Free")>>,
   Link |-> <<Do("file", "a.go"), Do("func", "Link"), Do("use", "T"), Do("use", "Ring")>>,
   Wrap |-> <<Do("file", "b.go"), Do("func", "Wrap"), Do("use", "T")>>,
   Send |-> <<Do("file", "n.go"), Do("data", "sendText"), Do("func", "Send"), Do("use", "Itab"),
              Do("file", "b.go")>>,
   Dial |-> <<Do("file", "n.go"), Do("func", "Dial"), [do |-> "impls"]>>,
   Hook |-> <<Do("file", "n.go"), Do("func", "Hook$dispatch")>>,
   main |-> <<Do("file", "main.go"), Do("func", "main"), Do("use", "T")>>]

MCHome ==
  [n \in DOMAIN MCScript |->
     CASE n \in {"Itab", "Send", "Dial", "Hook"} -> "net" [] n = "main" -> "main" [] OTHER -> "lib"]

MCScanned == {"TEqual"}
MCGeneric == {"Wrap"}
MCGenerated == {"Hook$dispatch"}

Prog(pre, decls, impls) == [pre |-> pre, decls |-> decls, impls |-> impls]

\* In these programs Grow is never the declaration that mints T.
MCPrograms ==
  {Prog(<<>>, <<"Make", "Free", "Grow", "main">>, <<>>),
   Prog(<<>>, <<"Send", "Dial", "Hook", "main">>, <<"Itab">>),
   Prog(<<"T">>, <<"Link", "Grow", "Wrap", "main">>, <<>>)}

\* A program in which it is.
EqualityFirst == {Prog(<<>>, <<"Grow", "main">>, <<>>), Prog(<<>>, <<"Make", "main">>, <<>>)}

BuildSymmetry == Permutations(Builds)
=============================================================================
