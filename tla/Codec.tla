-------------------------------- MODULE Codec --------------------------------
(***************************************************************************)
(* Values of a script as text and back (star/codec.go, star/dataclass.go), *)
(* and the data converters of the two backends, which write the arguments  *)
(* and the results of activities and child workflows with it               *)
(* (internal/internal_cadence.go, internal/internal_temporal.go).          *)
(*                                                                         *)
(* A value and a JSON tree are functions from paths, sequences of indexes  *)
(* and keys, to nodes; the empty path leads to the root.  So the codec,    *)
(* which the code writes by recursion, is a function of nodes.             *)
(* A node, a string and the content of bytes are tuples that begin with    *)
(* their kind.  Numbers are integers, sets are lists, and the layout of    *)
(* JSON text is left out; so are floats and booleans.                      *)
(***************************************************************************)
EXTENDS Naturals, Sequences, FiniteSets

\* The steps of a path: from a sequence to an element, from a dict to the value of
\* a key, which is a string.
Index(i) == <<"index", i>>
Entry(k) == <<"entry", k>>

Leaf(n) == [p \in {<<>>} |-> n]
Root(t) == t[<<>>]
Relabelled(t, n) == [p \in DOMAIN t |-> IF p = <<>> THEN n ELSE t[p]]
Below(t, k) ==
  [p \in {Tail(q) : q \in {q \in DOMAIN t : q # <<>> /\ Head(q) = k}} |-> t[<<k>> \o p]]
Size(t) == Cardinality({p \in DOMAIN t : Len(p) = 1})

\* Values.
None == Leaf(<<"none">>)
Number(n) == Leaf(<<"int", n>>)
Str(s) == Leaf(<<"str", s>>)
Bytes(c) == Leaf(<<"bytes", c>>)
Func == Leaf(<<"func">>)
Tuple == <<"tuple">>
List == <<"list">>
Dict == <<"dict">>
Dataclass == <<"dataclass">>
Keywords == <<"keywords">>  \* a slice of tuples
Nil == Leaf(<<"nil">>)  \* nil of Go: a value, tuple, slice, dict or bytes

\* Strings: a word, the base64 text of some content, or the content itself.
Word == <<"word">>
DataclassType == <<"dataclass">>
Base64(c) == <<"base64", c>>
TextOf(c) == <<"text", c>>

\* Content of bytes: no JSON, lines of JSON, or small numbers.
Plain == <<"plain">>
Json(lines) == <<"json", lines>>
Numbers(j) == <<"numbers", j>>
Empty == Json(<<>>)

IsBytes(v) == DOMAIN v = {<<>>} /\ Root(v)[1] = "bytes"
IsCodec(n) == n = Root(Str(DataclassType))

\* The dict at p says of itself that it is a dataclass.
SaysDataclass(t, p) ==
  LET q == Append(p, Entry("__codec__")) IN q \in DOMAIN t /\ IsCodec(t[q])

\* What fails: nodes and data, and a tree that has such a node.
Broken == <<"error">>
BrokenTree == Leaf(Broken)
Whole(t) == IF \E p \in DOMAIN t : t[p] = Broken THEN BrokenTree ELSE t
SomeBroken(ts) == \E i \in DOMAIN ts : ts[i] = BrokenTree
AllOf(kind, ts) == IF SomeBroken(ts) THEN Broken ELSE <<kind, ts>>

\* A sequence, a function, a value, a JSON tree: what the operators below are for.
IsSeq(s) == s \in Seq({s[i] : i \in DOMAIN s})
IsFunction(f) == f = [x \in DOMAIN f |-> f[x]]
IsNode(n) ==
  \/ n \in {Root(None), Root(Func), Root(Nil), Tuple, List, Dict, Dataclass, Keywords}
  \/ n[1] \in {"int", "str", "bytes"} /\ n = <<n[1], n[2]>>
IsValue(v) == IsFunction(v) /\ \A p \in DOMAIN v : IsNode(v[p])

IsJsonNode(n) ==
  \/ n \in {<<"null">>, <<"array">>, <<"object">>}
  \/ n[1] \in {"number", "string"} /\ n = <<n[1], n[2]>>
IsTree(j) ==
  /\ IsFunction(j) /\ IsFiniteSet(DOMAIN j) /\ <<>> \in DOMAIN j
  /\ \A p \in DOMAIN j :
       /\ IsSeq(p) /\ IsJsonNode(j[p])
       /\ \A n \in 0..(Len(p) - 1) :
            SubSeq(p, 1, n) \in DOMAIN j /\ j[SubSeq(p, 1, n)] \in {<<"array">>, <<"object">>}

-----------------------------------------------------------------------------
(* Encode *)

\* starlarkjson.encode, through MarshalJSON for a dataclass.  Bytes within
\* another value and functions are no JSON.
StarNode(n) ==
  CASE n[1] \in {"none", "nil"} -> <<"null">>
    [] n[1] = "int" -> <<"number", n[2]>>
    [] n[1] = "str" -> <<"string", n[2]>>
    [] n[1] \in {"tuple", "list", "keywords"} -> <<"array">>
    [] n[1] \in {"dict", "dataclass"} -> <<"object">>
    [] OTHER -> Broken
StarJson(v) == Whole([p \in DOMAIN v |-> StarNode(v[p])])

\* Variant, not the code's: strings take the way of bytes.
EncodeStringsToo(v) ==
  IF IsBytes(v) \/ Root(v)[1] = "str" THEN Leaf(<<"string", Base64(Root(v)[2])>>) ELSE StarJson(v)

\* Bytes by themselves are written in base64.
Encode(v) == IF IsBytes(v) THEN Leaf(<<"string", Base64(Root(v)[2])>>) ELSE StarJson(v)

\* What jsoniter makes of a Starlark value: a tuple is a slice, a string and
\* bytes are strings, None is a number, a dataclass has its own MarshalJSON, and
\* the others are structs without exported fields.
GoNode(n) ==
  CASE n[1] = "tuple" -> <<"array">>
    [] n[1] = "none" -> <<"number", 0>>
    [] n[1] = "str" -> <<"string", n[2]>>
    [] n[1] = "bytes" -> <<"string", TextOf(n[2])>>
    [] OTHER -> <<"object">>

\* It comes from the root to what only tuples contain, and on from a dataclass.
AmongTuples(v, p) == \A n \in 0..(Len(p) - 1) : v[SubSeq(p, 1, n)] = Tuple
ByMarshaller(v, p) ==
  \E n \in 0..Len(p) : v[SubSeq(p, 1, n)] = Dataclass /\ AmongTuples(v, SubSeq(p, 1, n))
GoJson(v) ==
  Whole([p \in {p \in DOMAIN v : AmongTuples(v, p) \/ ByMarshaller(v, p)} |->
           IF ByMarshaller(v, p) THEN StarNode(v[p]) ELSE GoNode(v[p])])

\* UnsupportedTypeError is an interface that every error satisfies, so the
\* encoder of Go follows on any failure of Encode.
ToLine(v) == IF Encode(v) = BrokenTree THEN GoJson(v) ELSE Encode(v)

-----------------------------------------------------------------------------
(* Decode *)

ValueNode(n) ==
  CASE n[1] = "null" -> <<"none">>
    [] n[1] = "number" -> <<"int", n[2]>>
    [] n[1] = "string" -> <<"str", n[2]>>
    [] n[1] = "array" -> List
    [] OTHER -> Dict

\* starlarkjson.decode.
Parsed(j) == [p \in DOMAIN j |-> ValueNode(j[p])]

\* Variant, not the code's: replaceDict is forgotten.
ValuePlain(j) == Parsed(j)

\* Decode into a starlark.Value: then replaceDict with codecDictReplacer.
Value(j) ==
  LET v == Parsed(j)
  IN [p \in DOMAIN v |-> IF v[p] = Dict /\ SaysDataclass(v, p) THEN Dataclass ELSE v[p]]

\* Decode into Go's []byte, or jsoniter where it fails: base64 text, null, or an
\* array of numbers.
BytesOf(j) ==
  CASE Root(j)[1] = "string" /\ Root(j)[2][1] = "base64" -> Bytes(Root(j)[2][2])
    [] Root(j)[1] = "null" -> Bytes(Empty)
    [] Root(j)[1] = "array" /\ \A p \in DOMAIN j : p = <<>> \/ j[p][1] = "number" ->
         Bytes(IF DOMAIN j = {<<>>} THEN Empty ELSE Numbers(j))
    [] OTHER -> BrokenTree

\* Into Go's string, which jsoniter does.
StringOf(j) ==
  CASE Root(j)[1] = "string" -> Str(Root(j)[2])
    [] Root(j)[1] = "null" -> Str(<<"empty">>)
    [] OTHER -> BrokenTree

\* Into a tuple, with tupleFromList.
TupleOf(j) ==
  CASE Root(j)[1] = "array" -> Relabelled(Value(j), Tuple)
    [] Root(j)[1] = "null" -> Nil
    [] OTHER -> BrokenTree

\* Into a slice of tuples, with keywordsFromList: an element that is no list
\* panics, which is an error of Decode.
KeywordsOf(j) ==
  CASE Root(j)[1] = "array" /\ (\A p \in DOMAIN j : Len(p) = 1 => j[p][1] = "array") ->
         [p \in DOMAIN j |-> CASE Len(p) = 0 -> Keywords
                               [] Len(p) = 1 -> Tuple
                               [] OTHER -> Value(j)[p]]
    [] Root(j)[1] = "null" -> Nil
    [] OTHER -> BrokenTree

\* Into a pointer to a dict.  Where the value is None or a dataclass its Set panics,
\* and jsoniter leaves nil or a dict without entries.
DictOf(j) ==
  CASE Root(j)[1] = "object" -> IF Root(Value(j)) = Dict THEN Value(j) ELSE Leaf(Dict)
    [] Root(j)[1] = "null" -> Nil
    [] OTHER -> BrokenTree

Decode(j, target) ==
  CASE target = "bytes" -> BytesOf(j)
    [] target = "string" -> StringOf(j)
    [] target = "tuple" -> TupleOf(j)
    [] target = "keywords" -> KeywordsOf(j)
    [] target = "dict" -> DictOf(j)
    [] OTHER -> Value(j)

-----------------------------------------------------------------------------
(* Data converters: data is bytes on Cadence, a sequence of payloads on Temporal *)

Lines(vs) == [i \in DOMAIN vs |-> ToLine(vs[i])]

\* ToData: a single value of bytes as it is, anything else line by line.
ToData(vs) ==
  IF Len(vs) = 1 /\ IsBytes(vs[1]) THEN <<"data", Root(vs[1])[2]>>
  ELSE IF SomeBroken(Lines(vs)) THEN Broken ELSE <<"data", Json(Lines(vs))>>

\* Each line is decoded into the target at its index: a line without a target
\* panics, a target without a line keeps its zero value.
DecodeLines(lines, targets) ==
  IF Len(lines) > Len(targets) THEN Broken
  ELSE AllOf("values",
         [i \in DOMAIN targets |->
            IF i <= Len(lines) THEN Decode(lines[i], targets[i])
            ELSE IF targets[i] = "bytes" THEN Bytes(Empty) ELSE Nil])

\* FromData: data as it is into a single []byte.
FromData(data, targets) ==
  LET c == data[2]
  IN IF targets = <<"bytes">> THEN <<"values", <<Bytes(c)>>>>
     ELSE IF c[1] # "json" THEN Broken ELSE DecodeLines(c[2], targets)

\* ToPayloads: one payload per value.  Its cases for bytes are of pointers,
\* which arguments and results are not.
ToPayloads(vs) == AllOf("payloads", Lines(vs))

\* FromPayloads: fewer payloads than targets are an error, more are left over.
FromPayloads(data, targets) ==
  IF Len(data[2]) < Len(targets) THEN Broken
  ELSE AllOf("values", [i \in DOMAIN targets |-> Decode(data[2][i], targets[i])])
=============================================================================
