----------------------------- MODULE MCRemoteCall -----------------------------
(* Calls under every sequence of at most three keywords and some sequences of  *)
(* setters, under every sequence of at most three setters and some keywords,   *)
(* with every argument and pair of arguments and at most one keyword, and      *)
(* starts by the command with every flag and pair of flags.                    *)
EXTENDS RemoteCall

Key(k, v) == [key |-> k, typed |-> TRUE, val |-> v]
Wrong(k) == [key |-> k, typed |-> FALSE, val |-> ""]

MCKeys == {Key("task_list", "q"), Key("domain", "d"), Key("as_bytes", TRUE), Key("headers", ""),
           Key("other", ""), Wrong("task_list"), Wrong("domain"), Wrong("as_bytes")}
MCKwargs == {ks \in UNION {[1..n -> MCKeys] : n \in 0..3} :
               \A i, j \in DOMAIN ks : ks[i].key = ks[j].key => i = j}
MCShort == {<<>>, <<Key("as_bytes", TRUE)>>}
MCSome == {<<>>, <<Key("domain", "unset")>>, <<Key("domain", "d"), Key("task_list", "q")>>, <<Key("task_list", "q"), Key("domain", "d")>>}

MCRetry == [intervals |-> "1s", expiration |-> "1m", attempts |-> "3", reasons |-> "some"]
MCActivity == [queue |-> "aq", timeouts |-> "1h", wait |-> "yes", id |-> "aid", retry |-> MCRetry]
MCChild == [domain |-> "cd", id |-> "cid", queue |-> "cq", timeouts |-> "1d", wait |-> "yes",
            reuse |-> 2, retry |-> MCRetry, cron |-> "daily", attributes |-> {"text"},
            close |-> "abandon"]
Setter(s, v) == <<s, v>>
MCSetter == {Setter("list", "client"), Setter("activity", MCActivity), Setter("child", MCChild),
             Setter("activity", [MCActivity EXCEPT !.queue = "unset", !.retry = NoRetry]),
             Setter("child", [MCChild EXCEPT !.queue = "unset", !.domain = "unset", !.reuse = 7]),
             Setter("child", [MCChild EXCEPT !.attributes = {"text", "number"}])}
MCSetters == UNION {[1..n -> MCSetter] : n \in 0..3}
MCService == <<Setter("list", "client")>>
MCFew == {<<>>, MCService,
          <<Setter("child", MCChild), Setter("activity", MCActivity), Setter("list", "client")>>,
          <<Setter("list", "client"), Setter("activity", MCActivity), Setter("child", MCChild)>>}

\* The tree with root n and, under each key k, the tree f[k].
MCTree(n, f) ==
  [p \in {<<>>} \cup UNION {{<<k>> \o q : q \in DOMAIN f[k]} : k \in DOMAIN f} |->
     IF p = <<>> THEN n ELSE f[p[1]][Tail(p)]]
MCList(n, ts) == MCTree(n, [k \in {Index(i) : i \in DOMAIN ts} |-> ts[k[2]]])
MCDict(n, f) == MCTree(n, [k \in {Entry(i) : i \in DOMAIN f} |-> f[k[2]]])

MCNull == Leaf(<<"null">>)
MCOne == Leaf(<<"number", 1>>)
MCWord == Leaf(<<"string", Word>>)
MCArray(ts) == MCList(<<"array">>, ts)

MCLeaves == {None, Number(1), Str(Word), Str(Base64(Plain)), Func,
             Bytes(Plain), Bytes(Empty), Bytes(Json(<<MCOne>>)), Bytes(Json(<<MCNull, MCOne>>))}
MCMarked(v) == [k \in {"__codec__", "k"} |-> IF k = "k" THEN v ELSE Str(DataclassType)]
MCCodec(v) == [k \in {"__codec__"} |-> v]
MCNested(v) == {MCList(Tuple, <<v>>), MCList(List, <<v, Number(1)>>), MCDict(Dict, [k \in {"k"} |-> v]),
                MCDict(Dict, MCMarked(v)), MCDict(Dataclass, MCMarked(v)),
                MCDict(Dict, MCCodec(v)), MCDict(Dataclass, MCCodec(v))}
MCInner == {Number(1), Bytes(Plain), Func, None, MCList(Tuple, <<Bytes(Plain)>>), Leaf(Tuple),
            MCDict(Dataclass, MCMarked(Str(Word)))}
MCArgs == MCLeaves \cup UNION {MCNested(v) : v \in MCInner}
MCPair == MCLeaves \cup {MCList(List, <<Bytes(Plain)>>), MCList(Tuple, <<None>>),
                         MCDict(Dataclass, MCMarked(None))}

MCCall(kind, setters, hs, ks, args, params) ==
  [kind |-> kind, setters |-> setters, headers |-> hs, kwargs |-> ks, args |-> args, params |-> params]
MCParams == {<<p>> : p \in {"value", "bytes"}} \cup ({"value", "bytes"} \X {"value", "bytes"})
MCNoHeaders == <<>>
MCHeaders == [h \in {"h", "i"} |-> <<"bytes", h>>]
MCKinds == {"activity", "workflow"}

\* Flags of the command.
MCPlainFlags == [package |-> "directory", readable |-> TRUE, file |-> <<"f">>, function |-> Unset,
                 args |-> MCArray(<<>>), kwargs |-> MCArray(<<>>), env |-> <<>>, queue |-> Unset]
MCJsonArgs == {MCArray(<<>>), MCNull, MCWord, MCArray(<<MCWord, MCArray(<<MCNull>>)>>),
               MCArray(<<MCDict(<<"object">>, MCCodec(Leaf(<<"string", DataclassType>>)))>>)}
MCJsonKwargs == {MCArray(<<>>), MCNull, MCWord, MCArray(<<MCWord>>), MCArray(<<MCArray(<<MCWord>>)>>),
                 MCArray(<<MCArray(<<MCWord, MCOne>>), MCArray(<<MCWord, MCWord>>)>>)}
MCTexts == {<<"k", Word>>, <<"k", <<"dataclass">>>>, <<"__codec__", Word>>, <<"__codec__", <<"dataclass">>>>, <<"k">>}
MCEnvs == UNION {[1..n -> MCTexts] : n \in 0..2}
MCPackage == {[MCPlainFlags EXCEPT !.package = p, !.readable = r, !.file = f, !.function = g, !.queue = q] :
                p \in {"stdin", "directory", "file"}, r \in BOOLEAN, f \in {Unset, <<"f">>},
                g \in {Unset, <<"function">>}, q \in {Unset, <<"queue">>}}
MCFlags == MCPackage
  \cup {[MCPlainFlags EXCEPT !.args = a, !.kwargs = k] : a \in MCJsonArgs, k \in MCJsonKwargs}
  \cup {[MCPlainFlags EXCEPT !.env = e] : e \in MCEnvs}

MCStart(f, propagates) ==
  [kind |-> "start", setters |-> MCService, kwargs |-> <<>>, flags |-> f, propagates |-> propagates]

MCCalls ==
  {MCCall(kind, setters, MCHeaders, ks, <<None>>, <<"value">>) :
     kind \in MCKinds, setters \in MCFew, ks \in MCKwargs}
  \cup {MCCall(kind, setters, MCNoHeaders, ks, <<None>>, <<"value">>) :
     kind \in MCKinds, setters \in MCSetters, ks \in MCSome}
  \cup {MCCall("activity", MCService, MCNoHeaders, ks, args, params) :
          ks \in MCShort, args \in {<<v>> : v \in MCArgs} \cup (MCPair \X MCPair), params \in MCParams}
  \cup {MCStart(f, p) : f \in MCFlags, p \in BOOLEAN}
=============================================================================
