---------------------------- MODULE MCScriptLoad ----------------------------
(* Root /w/r with scripts a and b and a file c, and a neighbour /w/r2 whose  *)
(* name begins with the root's.  Script a has up to two loads, b up to one.  *)
(* What b and c are varies: b may be a .py file, which may not parse, c one  *)
(* that cannot be read.                                                      *)
EXTENDS ScriptLoad, TLC

MCNames == {"w", "r", "r2", "t", "d", "a", "b", "c"}
MCRoot == <<"w", "r">>
MCCwds == {<<"w", "r">>, <<"w", "r", "t">>}
R(n) == MCRoot \o <<n>>
N(n) == <<"w", "r2", n>>
Load(from, up, path) == [from |-> from, up |-> up, path |-> path]
File(kind, loads) == [kind |-> kind, loads |-> loads]

MCLoads == {Load("plugin", 0, <<>>), Load("root", 0, <<"a">>), Load("root", 0, <<"b">>),
            Load("root", 0, <<"c">>), Load("path", 1, <<"b">>),
            Load("path", 1, <<"r2", "a">>), Load("abs", 0, N("a"))}
UpTo1 == {<<>>} \cup {<<l>> : l \in MCLoads}
UpTo2 == UpTo1 \cup {<<l, k>> : l \in MCLoads, k \in MCLoads}
Bs == {File(kb, lb) : kb \in {"star", "py"}, lb \in UpTo1} \cup {File("brokenpy", <<>>)}

\* The neighbour's script is known in the package as r2/a, as a file below the
\* root may be.
MCTrees ==
  {R("a") :> File("star", la) @@ R("b") :> b @@ R("c") :> File(kc, <<>>)
     @@ N("a") :> File("star", <<>>) @@ (R("r2") \o <<"a">>) :> File("star", <<>>) :
    la \in UpTo2, b \in Bs, kc \in {"data", "odd", "broken", "locked"}}

MCEntries == {Load("path", 0, <<"a">>), Load("root", 0, <<"a">>)}
=============================================================================
