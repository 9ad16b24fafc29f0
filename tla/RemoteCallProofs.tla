--------------------------- MODULE RemoteCallProofs ---------------------------
(***************************************************************************)
(* Theorems about RemoteCall, for every set of calls: whatever the values, *)
(* the keywords, the setters, the headers and the flags.                   *)
(*                                                                         *)
(* First the codec and the converters: one trip makes of a value what      *)
(* Arrived says, a second one changes nothing, and what a command writes   *)
(* of its flags is read as it was meant.  Then that each property follows  *)
(* from the inductive invariant, and that every step keeps its parts, the  *)
(* options last.                                                           *)
(***************************************************************************)
EXTENDS RemoteCall, FiniteSetTheorems, SequenceTheorems, TLAPS

-----------------------------------------------------------------------------
(* Nodes and trees *)

JsonKinds == {"none", "int", "str", "tuple", "list", "dict", "dataclass"}

LEMMA LeafFacts ==
  ASSUME NEW n
  PROVE  DOMAIN Leaf(n) = {<<>>} /\ Root(Leaf(n)) = n /\ Leaf(n)[<<>>] = n /\ IsFunction(Leaf(n))
BY DEF Leaf, Root, IsFunction

\* A tree without a broken node is not the broken tree.
LEMMA WholeTree ==
  ASSUME NEW t, \A p \in DOMAIN t : t[p] # Broken
  PROVE  Whole(t) = t /\ t # BrokenTree
<1>1. Whole(t) = t
  BY DEF Whole
<1>2. DOMAIN BrokenTree = {<<>>} /\ BrokenTree[<<>>] = Broken
  BY LeafFacts DEF BrokenTree
<1>3. QED
  BY <1>1, <1>2

\* What starlarkjson writes it reads again, but for tuples and dataclasses.
LEMMA NodeThereAndBack ==
  ASSUME NEW n, IsNode(n), n[1] \in JsonKinds
  PROVE  /\ StarNode(n) # Broken
         /\ n \in {Tuple, List} => ValueNode(StarNode(n)) = List
         /\ n \in {Dict, Dataclass} => ValueNode(StarNode(n)) = Dict
         /\ n \notin {Tuple, List, Dict, Dataclass} => ValueNode(StarNode(n)) = n
         /\ IsCodec(ValueNode(StarNode(n))) <=> IsCodec(n)
<1>1. CASE n = <<"none">>
  BY <1>1, LeafFacts DEF StarNode, ValueNode, IsCodec, Str, Broken, Tuple, List, Dict, Dataclass
<1>2. CASE n = <<"int", n[2]>>
  BY <1>2, LeafFacts DEF StarNode, ValueNode, IsCodec, Str, Broken, Tuple, List, Dict, Dataclass
<1>3. CASE n = <<"str", n[2]>>
  BY <1>3, LeafFacts DEF StarNode, ValueNode, IsCodec, Str, Broken, Tuple, List, Dict, Dataclass
<1>4. CASE n \in {Tuple, List, Dict, Dataclass}
  <2>1. CASE n \in {Tuple, List}
    BY <2>1, LeafFacts DEF StarNode, ValueNode, IsCodec, Str, Broken, Tuple, List, Dict, Dataclass
  <2>2. CASE n \in {Dict, Dataclass}
    BY <2>2, LeafFacts DEF StarNode, ValueNode, IsCodec, Str, Broken, Tuple, List, Dict, Dataclass
  <2>3. QED
    BY <1>4, <2>1, <2>2
<1>5. n \in {<<"none">>} \cup {Tuple, List, Dict, Dataclass} \/ n = <<"int", n[2]>> \/ n = <<"str", n[2]>>
  BY LeafFacts DEF IsNode, JsonKinds, None, Func, Nil, Tuple, List, Dict, Dataclass, Keywords
<1>6. QED
  BY <1>1, <1>2, <1>3, <1>4, <1>5

\* A node of what is read: a dict is a dataclass if it says so.
LEMMA ValueNodes ==
  ASSUME NEW n
  PROVE  /\ IsNode(ValueNode(n)) /\ ValueNode(n)[1] \in JsonKinds /\ IsNode(Dataclass)
         /\ ValueNode(n) \notin {Tuple, Dataclass} /\ Broken \notin {ValueNode(n), Dataclass}
BY LeafFacts DEF ValueNode, IsNode, JsonKinds, None, Tuple, List, Dict, Dataclass, Broken

\* What can be passed is written by starlarkjson, and read as it should arrive.
LEMMA JsonPasses ==
  ASSUME NEW v, IsValue(v), IsJson(v)
  PROVE  /\ ToLine(v) = [p \in DOMAIN v |-> StarNode(v[p])]
         /\ ToLine(v) # BrokenTree /\ ~IsBytes(v)
         /\ Value(ToLine(v)) = Arrived(v)
<1> DEFINE j == [p \in DOMAIN v |-> StarNode(v[p])]
<1>1. \A p \in DOMAIN v : IsNode(v[p]) /\ v[p][1] \in JsonKinds
  BY DEF IsValue, IsJson, JsonKinds
<1>2. ~IsBytes(v)
  BY <1>1 DEF IsBytes, Root, JsonKinds
<1>3. Whole(j) = j /\ j # BrokenTree
  BY <1>1, NodeThereAndBack, WholeTree
<1>4. ToLine(v) = j
  BY <1>2, <1>3 DEF ToLine, Encode, StarJson
<1>5. Parsed(j) = [p \in DOMAIN v |-> ValueNode(StarNode(v[p]))]
  BY DEF Parsed
<1>6. \A p \in DOMAIN v : SaysDataclass(Parsed(j), p) <=> SaysDataclass(v, p)
  BY <1>1, <1>5, NodeThereAndBack DEF SaysDataclass
<1>7. ASSUME NEW p \in DOMAIN v
      PROVE  (IF Parsed(j)[p] = Dict /\ SaysDataclass(Parsed(j), p) THEN Dataclass ELSE Parsed(j)[p])
               = CASE v[p] \in {Tuple, List} -> List
                   [] v[p] \in {Dict, Dataclass} -> IF SaysDataclass(v, p) THEN Dataclass ELSE Dict
                   [] OTHER -> v[p]
  <2>1. Parsed(j)[p] = ValueNode(StarNode(v[p])) /\ IsNode(v[p]) /\ v[p][1] \in JsonKinds
    BY <1>1, <1>5
  <2>2. CASE v[p] \in {Tuple, List}
    BY <2>1, <2>2, NodeThereAndBack DEF Tuple, List, Dict, Dataclass
  <2>3. CASE v[p] \in {Dict, Dataclass}
    BY <2>1, <2>3, <1>6, NodeThereAndBack DEF Tuple, List, Dict, Dataclass
  <2>4. CASE v[p] \notin {Tuple, List, Dict, Dataclass}
    BY <2>1, <2>4, NodeThereAndBack
  <2>5. QED
    BY <2>2, <2>3, <2>4
<1>8. DOMAIN Parsed(j) = DOMAIN v
  BY <1>5
<1>9. Value(j) = Arrived(v)
  BY <1>7, <1>8 DEF Value, Arrived
<1>10. QED
  BY <1>2, <1>3, <1>4, <1>9

\* What was read is a value that can be passed, and arrives as it is.
LEMMA ValuesSettle ==
  ASSUME NEW j
  PROVE  /\ IsValue(Value(j)) /\ IsJson(Value(j)) /\ Arrived(Value(j)) = Value(j)
         /\ Value(j) # BrokenTree
<1> DEFINE v == Value(j)
           d == Parsed(j)
<1>1. DOMAIN v = DOMAIN j /\ IsFunction(v) /\ DOMAIN d = DOMAIN j
  BY DEF Value, Parsed, IsFunction
<1>2. \A p \in DOMAIN v :
        /\ d[p] = ValueNode(j[p])
        /\ v[p] = IF d[p] = Dict /\ SaysDataclass(d, p) THEN Dataclass ELSE d[p]
  BY DEF Value, Parsed
<1>3. \A p \in DOMAIN v : IsNode(v[p]) /\ v[p][1] \in JsonKinds /\ v[p] # Tuple /\ v[p] # Broken
  <2>1. Dataclass[1] \in JsonKinds /\ Dataclass # Tuple
    BY DEF Dataclass, JsonKinds, Tuple
  <2>2. QED
    BY <1>2, <2>1, ValueNodes
<1>4. IsValue(v) /\ IsJson(v)
  BY <1>1, <1>3 DEF IsValue, IsJson, JsonKinds
<1>5. v # BrokenTree
  BY <1>3, WholeTree
<1>6. \A p \in DOMAIN v : SaysDataclass(v, p) <=> SaysDataclass(d, p)
  <2>1. ~IsCodec(Dict) /\ ~IsCodec(Dataclass)
    BY LeafFacts DEF IsCodec, Str, Dict, Dataclass
  <2>2. \A p \in DOMAIN v : IsCodec(v[p]) <=> IsCodec(d[p])
    BY <1>2, <2>1
  <2>3. QED
    BY <1>1, <2>2 DEF SaysDataclass
<1>7. ASSUME NEW p \in DOMAIN v
      PROVE  v[p] = CASE v[p] \in {Tuple, List} -> List
                      [] v[p] \in {Dict, Dataclass} -> IF SaysDataclass(v, p) THEN Dataclass ELSE Dict
                      [] OTHER -> v[p]
  <2>1. d[p] # Dataclass /\ v[p] # Tuple
    BY <1>2, <1>3, ValueNodes
  <2>2. QED
    BY <1>2, <1>6, <2>1 DEF Tuple, List, Dict, Dataclass
<1>8. Arrived(v) = v
  BY <1>1, <1>7 DEF Arrived, IsFunction
<1>9. QED
  BY <1>4, <1>5, <1>8

-----------------------------------------------------------------------------
(* Bytes *)

LEMMA BytesForm ==
  ASSUME NEW c
  PROVE  /\ IsBytes(Bytes(c)) /\ IsValue(Bytes(c)) /\ Root(Bytes(c))[2] = c
         /\ Bytes(c) # BrokenTree /\ Bytes(c) # Nil
<1>1. DOMAIN Bytes(c) = {<<>>} /\ Root(Bytes(c)) = <<"bytes", c>> /\ Bytes(c)[<<>>] = <<"bytes", c>>
      /\ IsFunction(Bytes(c))
  BY LeafFacts DEF Bytes
<1>2. BrokenTree[<<>>] = Broken /\ Nil[<<>>] = <<"nil">>
  BY LeafFacts DEF BrokenTree, Nil
<1>3. Bytes(c) # BrokenTree /\ Bytes(c) # Nil
  BY <1>1, <1>2 DEF Broken
<1>4. IsNode(<<"bytes", c>>)
  BY DEF IsNode
<1>5. QED
  BY <1>1, <1>3, <1>4 DEF IsBytes, IsValue

\* Bytes by themselves pass, in base64.
LEMMA BytesPass ==
  ASSUME NEW v, IsValue(v), IsBytes(v)
  PROVE  /\ v = Bytes(Root(v)[2]) /\ v # BrokenTree /\ v # Nil /\ ~IsJson(v) /\ Arrived(v) = v
         /\ ToLine(v) # BrokenTree /\ BytesOf(ToLine(v)) = v
<1> DEFINE c == Root(v)[2]
           j == Leaf(<<"string", Base64(c)>>)
<1>1. DOMAIN v = {<<>>} /\ IsFunction(v) /\ v[<<>>] = <<"bytes", c>>
  <2>1. DOMAIN v = {<<>>} /\ Root(v)[1] = "bytes" /\ IsNode(Root(v)) /\ IsFunction(v)
    BY DEF IsBytes, IsValue, Root
  <2>2. Root(v) = <<"bytes", c>>
    BY <2>1, LeafFacts DEF IsNode, None, Func, Nil, Tuple, List, Dict, Dataclass, Keywords
  <2>3. QED
    BY <2>1, <2>2 DEF Root
<1>2. v = Bytes(c)
  BY <1>1 DEF IsFunction, Bytes, Leaf
<1>3. Root(j) = <<"string", Base64(c)>> /\ j # BrokenTree
  <2>1. BrokenTree[<<>>] = Broken /\ j[<<>>] = <<"string", Base64(c)>>
    BY LeafFacts DEF BrokenTree
  <2>2. QED
    BY <2>1 DEF Broken, Root
<1>4. ToLine(v) = j
  BY <1>3 DEF ToLine, Encode
<1>5. BytesOf(j) = Bytes(c)
  BY <1>3 DEF BytesOf, Base64
<1>6. ~IsJson(v)
  BY <1>1 DEF IsJson
<1>7. Arrived(v) = v
  BY <1>1 DEF Arrived, IsFunction, Tuple, List, Dict, Dataclass
<1>8. QED
  BY <1>2, <1>3, <1>4, <1>5, <1>6, <1>7, BytesForm

LEMMA BytesOfForm ==
  ASSUME NEW j, BytesOf(j) # BrokenTree
  PROVE  IsBytes(BytesOf(j)) /\ IsValue(BytesOf(j))
<1>1. \E c : BytesOf(j) = Bytes(c)
  BY DEF BytesOf
<1>2. QED
  BY <1>1, BytesForm

-----------------------------------------------------------------------------
(* Data converters *)

LEMMA SingleIs ==
  ASSUME NEW s, IsSeq(s), Len(s) = 1
  PROVE  s = <<s[1]>> /\ DOMAIN s = {1}
<1> DEFINE S == {s[i] : i \in DOMAIN s}
<1>1. s \in Seq(S) /\ DOMAIN s = 1..1
  BY DEF IsSeq
<1>2. s = [i \in 1..1 |-> s[i]]
  BY <1>1
<1>3. QED
  BY <1>1, <1>2

LEMMA AllOfFacts ==
  ASSUME NEW kind, NEW ts
  PROVE  /\ AllOf(kind, ts) # Broken <=> ~SomeBroken(ts)
         /\ AllOf(kind, ts) # Broken => AllOf(kind, ts) = <<kind, ts>>
BY DEF AllOf, Broken

\* If bytes by themselves are read as bytes and nothing else is, and each value
\* passes, then on either backend the values pass, each in its place.
LEMMA OneByOne ==
  ASSUME NEW vs, NEW targets, IsSeq(vs), IsSeq(targets), Len(vs) = Len(targets), Len(vs) > 0,
         Len(vs) = 1 => IsValue(vs[1]) /\ (IsBytes(vs[1]) <=> targets[1] = "bytes"),
         \A i \in DOMAIN vs :
           ToLine(vs[i]) # BrokenTree /\ Decode(ToLine(vs[i]), targets[i]) # BrokenTree
  PROVE  /\ Write(vs) # Broken
         /\ Read(Write(vs), targets) = <<"values", [i \in DOMAIN vs |-> Decode(ToLine(vs[i]), targets[i])]>>
<1> DEFINE ds == [i \in DOMAIN vs |-> Decode(ToLine(vs[i]), targets[i])]
<1>1. DOMAIN vs = DOMAIN targets /\ DOMAIN vs = 1..Len(vs) /\ Len(vs) \in Nat
  BY DEF IsSeq
<1>2. Lines(vs) = [i \in DOMAIN vs |-> ToLine(vs[i])] /\ DOMAIN Lines(vs) = DOMAIN vs
  BY DEF Lines
<1>3. ~SomeBroken(Lines(vs)) /\ ~SomeBroken(ds)
  BY <1>2 DEF SomeBroken
<1>4. Len(Lines(vs)) = Len(targets)
  BY <1>1, <1>2
<1>5. AllOf("values", ds) = <<"values", ds>>
  BY <1>3 DEF AllOf
<1>6. CASE backend # "cadence"
  <2>1. Write(vs) = <<"payloads", Lines(vs)>>
    BY <1>6, <1>3 DEF Write, ToPayloads, AllOf
  <2>2. [i \in DOMAIN targets |-> Decode(Lines(vs)[i], targets[i])] = ds
    BY <1>1, <1>2
  <2>3. Read(<<"payloads", Lines(vs)>>, targets) = AllOf("values", ds)
    BY <1>6, <1>1, <1>4, <2>2 DEF Read, FromPayloads
  <2>4. QED
    BY <2>1, <2>3, <1>5 DEF Broken
<1>7. CASE backend = "cadence" /\ Len(vs) = 1 /\ IsBytes(vs[1])
  <2>1. targets = <<"bytes">> /\ DOMAIN vs = {1}
    BY <1>7, SingleIs
  <2>2. Write(vs) = <<"data", Root(vs[1])[2]>>
    BY <1>7 DEF Write, ToData
  <2>3. Read(Write(vs), targets) = <<"values", <<vs[1]>>>>
    BY <1>7, <2>1, <2>2, BytesPass DEF Read, FromData
  <2>4. ds = <<vs[1]>>
    BY <1>7, <2>1, BytesPass DEF Decode
  <2>5. QED
    BY <2>2, <2>3, <2>4 DEF Broken
<1>8. CASE backend = "cadence" /\ ~(Len(vs) = 1 /\ IsBytes(vs[1]))
  <2>1. targets # <<"bytes">>
    BY <1>8
  <2>2. Write(vs) = <<"data", Json(Lines(vs))>>
    BY <1>8, <1>3 DEF Write, ToData
  <2>3. [i \in DOMAIN targets |->
           IF i <= Len(Lines(vs)) THEN Decode(Lines(vs)[i], targets[i])
           ELSE IF targets[i] = "bytes" THEN Bytes(Empty) ELSE Nil] = ds
    BY <1>1, <1>2, <1>4
  <2>4. DecodeLines(Lines(vs), targets) = AllOf("values", ds)
    BY <1>1, <1>4, <2>3 DEF DecodeLines
  <2>5. FromData(<<"data", Json(Lines(vs))>>, targets) = AllOf("values", ds)
    BY <2>1, <2>4 DEF FromData, Json
  <2>6. QED
    BY <1>8, <2>2, <2>5, <1>5 DEF Broken, Read
<1>9. QED
  BY <1>6, <1>7, <1>8

\* Values of which there are several have passed one by one, if they have passed.
LEMMA EachPassed ==
  ASSUME NEW vs, NEW targets, IsSeq(vs), IsSeq(targets), Len(vs) = Len(targets), Len(vs) > 1,
         Write(vs) # Broken, Read(Write(vs), targets) # Broken
  PROVE  \A i \in DOMAIN vs :
           ToLine(vs[i]) # BrokenTree /\ Decode(ToLine(vs[i]), targets[i]) # BrokenTree
<1> DEFINE ds == [i \in DOMAIN vs |-> Decode(ToLine(vs[i]), targets[i])]
<1>1. DOMAIN vs = DOMAIN targets /\ DOMAIN vs = 1..Len(vs) /\ Len(vs) \in Nat
  BY DEF IsSeq
<1>2. Lines(vs) = [i \in DOMAIN vs |-> ToLine(vs[i])] /\ DOMAIN Lines(vs) = DOMAIN vs
  BY DEF Lines
<1>3. Len(Lines(vs)) = Len(targets)
  BY <1>1, <1>2
<1>4. CASE backend # "cadence"
  <2>1. ~SomeBroken(Lines(vs)) /\ Write(vs) = <<"payloads", Lines(vs)>>
    BY <1>4, AllOfFacts DEF Write, ToPayloads
  <2>2. [i \in DOMAIN targets |-> Decode(Lines(vs)[i], targets[i])] = ds
    BY <1>1, <1>2
  <2>3. Read(Write(vs), targets) = AllOf("values", ds)
    BY <1>4, <1>1, <1>3, <2>1, <2>2 DEF Read, FromPayloads
  <2>4. ~SomeBroken(ds)
    BY <2>3, AllOfFacts
  <2>5. QED
    BY <1>2, <2>1, <2>4 DEF SomeBroken
<1>5. CASE backend = "cadence"
  <2>1. targets # <<"bytes">>
    BY <1>1
  <2>2. Write(vs) = ToData(vs) /\ Len(vs) # 1
    BY <1>5, <1>1 DEF Write
  <2>3. ~SomeBroken(Lines(vs)) /\ Write(vs) = <<"data", Json(Lines(vs))>>
    BY <2>2 DEF ToData
  <2>4. [i \in DOMAIN targets |->
           IF i <= Len(Lines(vs)) THEN Decode(Lines(vs)[i], targets[i])
           ELSE IF targets[i] = "bytes" THEN Bytes(Empty) ELSE Nil] = ds
    BY <1>1, <1>2, <1>3
  <2>5. DecodeLines(Lines(vs), targets) = AllOf("values", ds)
    BY <1>1, <1>3, <2>4 DEF DecodeLines
  <2>6. FromData(<<"data", Json(Lines(vs))>>, targets) = AllOf("values", ds)
    BY <2>1, <2>5 DEF FromData, Json
  <2>7. ~SomeBroken(ds)
    BY <1>5, <2>3, <2>6, AllOfFacts DEF Read
  <2>8. QED
    BY <1>2, <2>3, <2>7 DEF SomeBroken
<1>6. QED
  BY <1>4, <1>5

\* What is read into a single target: bytes, or a value that has settled, or none.
LEMMA ReadOne ==
  ASSUME NEW d, NEW t \in {"bytes", "value"}, Read(d, <<t>>) # Broken
  PROVE  LET v == Read(d, <<t>>)[2][1]
         IN /\ Read(d, <<t>>) = <<"values", <<v>>>>
            /\ t = "bytes" => IsValue(v) /\ IsBytes(v)
            /\ t = "value" => v = Nil \/ \E j : v = Value(j)
<1>1. CASE backend # "cadence"
  <2> DEFINE ds == [i \in DOMAIN <<t>> |-> Decode(d[2][i], <<t>>[i])]
  <2>1. Read(d, <<t>>) = AllOf("values", ds)
    BY <1>1 DEF Read, FromPayloads
  <2>2. Read(d, <<t>>) = <<"values", ds>> /\ ~SomeBroken(ds)
    BY <2>1, AllOfFacts
  <2>3. ds = <<Decode(d[2][1], t)>>
    OBVIOUS
  <2>4. Decode(d[2][1], t) # BrokenTree
    BY <2>2, <2>3 DEF SomeBroken
  <2>5. t = "bytes" => IsValue(Decode(d[2][1], t)) /\ IsBytes(Decode(d[2][1], t))
    BY <2>4, BytesOfForm DEF Decode
  <2>6. t = "value" => Decode(d[2][1], t) = Value(d[2][1])
    BY DEF Decode
  <2>7. QED
    BY <2>2, <2>3, <2>5, <2>6
<1>2. CASE backend = "cadence" /\ t = "bytes"
  <2>1. Read(d, <<t>>) = <<"values", <<Bytes(d[2])>>>>
    BY <1>2 DEF Read, FromData
  <2>2. QED
    BY <1>2, <2>1, BytesForm
<1>3. CASE backend = "cadence" /\ t = "value"
  <2> DEFINE ls == d[2][2]
             ds == [i \in DOMAIN <<t>> |->
                      IF i <= Len(ls) THEN Decode(ls[i], <<t>>[i])
                      ELSE IF <<t>>[i] = "bytes" THEN Bytes(Empty) ELSE Nil]
  <2>1. <<t>> # <<"bytes">>
    BY <1>3
  <2>2. Read(d, <<t>>) = DecodeLines(ls, <<t>>)
    BY <1>3, <2>1 DEF Read, FromData
  <2>3. Read(d, <<t>>) = AllOf("values", ds)
    BY <2>2 DEF DecodeLines
  <2>4. Read(d, <<t>>) = <<"values", ds>>
    BY <2>3, AllOfFacts
  <2>5. ds = <<IF 1 <= Len(ls) THEN Value(ls[1]) ELSE Nil>>
    BY <1>3 DEF Decode
  <2>6. QED
    BY <1>3, <2>4, <2>5
<1>4. QED
  BY <1>1, <1>2, <1>3

-----------------------------------------------------------------------------
(* A value on its way *)

\* A value that fits its target.
Fits(v, t) == IF t = "bytes" THEN IsBytes(v) ELSE IsJson(v)

LEMMA ValueIsNot ==
  ASSUME NEW v, IsJson(v)
  PROVE  v # Nil /\ ~IsBytes(v)
<1>1. Nil[<<>>] = <<"nil">> /\ DOMAIN Nil = {<<>>}
  BY LeafFacts DEF Nil
<1>2. QED
  BY <1>1 DEF IsJson, IsBytes, Root

\* It passes, and is then as it should arrive, which fits again and changes no more.
LEMMA FitsPasses ==
  ASSUME NEW v, IsValue(v), NEW t \in {"bytes", "value"}, Fits(v, t)
  PROVE  /\ ToLine(v) # BrokenTree
         /\ Decode(ToLine(v), t) = Arrived(v) /\ Arrived(v) # BrokenTree /\ Arrived(v) # Nil
         /\ IsValue(Arrived(v)) /\ Fits(Arrived(v), t) /\ Arrived(Arrived(v)) = Arrived(v)
<1>1. CASE t = "bytes"
  BY <1>1, BytesPass DEF Decode, Fits
<1>2. CASE t = "value"
  <2>1. IsJson(v)
    BY <1>2 DEF Fits
  <2>2. ToLine(v) # BrokenTree /\ Value(ToLine(v)) = Arrived(v)
    BY <2>1, JsonPasses
  <2>3. /\ IsValue(Arrived(v)) /\ IsJson(Arrived(v)) /\ Arrived(Arrived(v)) = Arrived(v)
        /\ Arrived(v) # BrokenTree
    BY <2>2, ValuesSettle
  <2>4. Arrived(v) # Nil
    BY <2>3, ValueIsNot
  <2>5. QED
    BY <1>2, <2>2, <2>3, <2>4 DEF Decode, Fits
<1>3. QED
  BY <1>1, <1>2

LEMMA OnePasses ==
  ASSUME NEW v, IsValue(v), NEW t \in {"bytes", "value"}, Fits(v, t)
  PROVE  Write(<<v>>) # Broken /\ Read(Write(<<v>>), <<t>>) = <<"values", <<Arrived(v)>>>>
<1> DEFINE vs == <<v>>
           targets == <<t>>
<1>1. IsSeq(vs) /\ IsSeq(targets) /\ Len(vs) = Len(targets) /\ Len(vs) > 0 /\ DOMAIN vs = {1}
      /\ vs[1] = v /\ targets[1] = t
  BY DEF IsSeq
<1>2. IsBytes(v) <=> t = "bytes"
  BY ValueIsNot DEF Fits
<1>3. ToLine(v) # BrokenTree /\ Decode(ToLine(v), t) = Arrived(v) /\ Arrived(v) # BrokenTree
  BY FitsPasses
<1>4. \A i \in DOMAIN vs : ToLine(vs[i]) # BrokenTree /\ Decode(ToLine(vs[i]), targets[i]) # BrokenTree
  BY <1>1, <1>3
<1>5. /\ Write(vs) # Broken
      /\ Read(Write(vs), targets) = <<"values", [i \in DOMAIN vs |-> Decode(ToLine(vs[i]), targets[i])]>>
  <2>1. Len(vs) = 1 => IsValue(vs[1]) /\ (IsBytes(vs[1]) <=> targets[1] = "bytes")
    BY <1>1, <1>2
  <2> HIDE DEF vs, targets
  <2>2. QED
    BY <1>1, <1>4, <2>1, OneByOne
<1>6. [i \in DOMAIN vs |-> Decode(ToLine(vs[i]), targets[i])] = <<Arrived(v)>>
  BY <1>1, <1>3
<1>7. QED
  BY <1>5, <1>6

\* Arguments that fit their parameters reach the callee.
LEMMA ArgumentsPass ==
  ASSUME IsExecution(call), ArgumentsFit
  PROVE  /\ Write(call.args) # Broken
         /\ CalleeGets = <<"values", [i \in DOMAIN call.args |-> Arrived(call.args[i])]>>
<1> DEFINE vs == call.args
           targets == call.params
<1>1. /\ IsSeq(vs) /\ IsSeq(targets) /\ Len(vs) = Len(targets) /\ Len(vs) > 0
      /\ \A i \in DOMAIN vs : IsValue(vs[i])
      /\ \A i \in DOMAIN targets : targets[i] \in {"value", "bytes"}
  BY DEF IsExecution, ArgumentsFit
<1>2. DOMAIN vs = DOMAIN targets /\ DOMAIN vs = 1..Len(vs) /\ Len(vs) \in Nat
  BY <1>1 DEF IsSeq
<1>3. \A i \in DOMAIN vs : Fits(vs[i], targets[i])
  BY DEF ArgumentsFit, Fits
<1>4. \A i \in DOMAIN vs :
        /\ ToLine(vs[i]) # BrokenTree
        /\ Decode(ToLine(vs[i]), targets[i]) = Arrived(vs[i]) /\ Arrived(vs[i]) # BrokenTree
  BY <1>1, <1>2, <1>3, FitsPasses
<1>5. Len(vs) = 1 => IsValue(vs[1]) /\ (IsBytes(vs[1]) <=> targets[1] = "bytes")
  BY <1>1, <1>2, <1>3, ValueIsNot DEF Fits
<1> HIDE DEF vs, targets
<1>6. /\ Write(vs) # Broken
      /\ Read(Write(vs), targets) = <<"values", [i \in DOMAIN vs |-> Decode(ToLine(vs[i]), targets[i])]>>
  BY <1>1, <1>4, <1>5, OneByOne
<1>7. [i \in DOMAIN vs |-> Decode(ToLine(vs[i]), targets[i])] = [i \in DOMAIN vs |-> Arrived(vs[i])]
  BY <1>4
<1>8. QED
  BY <1>6, <1>7 DEF CalleeGets, vs, targets

\* What the callee sends reaches a script that reads it as what it is.
LEMMA AnswerPasses ==
  ASSUME IsExecution(call), ArgumentsFit, AnswerFits
  PROVE  /\ CalleeGets[2][1] = Arrived(call.args[1])
         /\ Write(<<CalleeGets[2][1]>>) # Broken
         /\ ScriptGets = <<"values", <<Arrived(call.args[1])>>>> /\ ScriptGets \notin {Broken, NoAnswer}
<1> DEFINE v == call.args[1]
           t == IF asBytes THEN "bytes" ELSE "value"
<1>1. 1 \in DOMAIN call.args /\ IsValue(v) /\ call.params[1] \in {"value", "bytes"} /\ Fits(v, call.params[1])
  BY DEF IsExecution, ArgumentsFit, Fits, IsSeq
<1>2. t = call.params[1] /\ t \in {"bytes", "value"}
  BY <1>1 DEF AnswerFits
<1>3. CalleeGets[2][1] = Arrived(v)
  BY <1>1, ArgumentsPass
<1> HIDE DEF v, t
<1>4. /\ IsValue(Arrived(v)) /\ Fits(Arrived(v), t) /\ Arrived(Arrived(v)) = Arrived(v)
      /\ Arrived(v) # Nil
  BY <1>1, <1>2, FitsPasses
<1>5. Write(<<Arrived(v)>>) # Broken /\ Read(Write(<<Arrived(v)>>), <<t>>) = <<"values", <<Arrived(v)>>>>
  BY <1>2, <1>4, OnePasses
<1>6. ScriptGets = <<"values", <<Arrived(v)>>>>
  BY <1>3, <1>5 DEF ScriptGets, t
<1>7. ScriptGets # Broken /\ ScriptGets # NoAnswer
  BY <1>4, <1>6 DEF Broken, NoAnswer
<1>8. QED
  BY <1>3, <1>5, <1>6, <1>7 DEF v

\* What a script has read is a value that a second trip does not change.
LEMMA ResultSettled ==
  ASSUME WireInv, step = "done"
  PROVE  IsValue(res) /\ res # Nil /\ Settled(res, asBytes)
<1> DEFINE t == IF asBytes THEN "bytes" ELSE "value"
           d == Write(<<CalleeGets[2][1]>>)
<1>1. Read(d, <<t>>) # Broken /\ Read(d, <<t>>) # NoAnswer /\ res = Read(d, <<t>>)[2][1]
  BY DEF WireInv, ScriptGets
<1>2. t \in {"bytes", "value"}
  OBVIOUS
<1> HIDE DEF t, d
<1>3. /\ Read(d, <<t>>) = <<"values", <<res>>>>
      /\ t = "bytes" => IsValue(res) /\ IsBytes(res)
      /\ t = "value" => res = Nil \/ \E j : res = Value(j)
  BY <1>1, <1>2, ReadOne
<1>4. res # Nil
  BY <1>1, <1>3 DEF NoAnswer
<1>5. CASE asBytes
  BY <1>3, <1>4, <1>5 DEF t, Settled
<1>6. CASE ~asBytes
  BY <1>3, <1>4, <1>6, ValuesSettle DEF t, Settled
<1>7. QED
  BY <1>5, <1>6

LEMMA LenInNat == ASSUME NEW s, IsSeq(s) PROVE Len(s) \in Nat /\ DOMAIN s = 1..Len(s)
BY DEF IsSeq

\* Values arrive, as the invariants have it.
LEMMA ArriveNow == ASSUME CallInv, WireInv PROVE ValuesArrive
<1> SUFFICES ASSUME ArgumentsFit
             PROVE  /\ (step \in {"running", "returned", "done"} =>
                          got = [i \in DOMAIN call.args |-> Arrived(call.args[i])])
                    /\ (step = "failed" /\ pos > Len(call.kwargs) /\ backend # "other" => ~AnswerFits)
                    /\ (step = "done" /\ AnswerFits => res = Arrived(call.args[1]))
  BY DEF ValuesArrive
<1>1. IsExecution(call) /\ call.kind # "start" /\ IsSeq(call.kwargs) /\ pos \in Nat
  BY DEF CallInv, IsCall, IsStart, ArgumentsFit
<1>2. /\ Write(call.args) # Broken
      /\ CalleeGets = <<"values", [i \in DOMAIN call.args |-> Arrived(call.args[i])]>>
  BY <1>1, ArgumentsPass
<1>3. step \in {"running", "returned", "done"} => got = [i \in DOMAIN call.args |-> Arrived(call.args[i])]
  BY <1>2 DEF WireInv
<1>4. ASSUME AnswerFits
      PROVE  /\ Write(<<CalleeGets[2][1]>>) # Broken
             /\ ScriptGets = <<"values", <<Arrived(call.args[1])>>>> /\ ScriptGets \notin {Broken, NoAnswer}
  BY <1>1, <1>4, AnswerPasses
<1>5. ~(step = "failed" /\ pos > Len(call.kwargs) /\ backend # "other" /\ AnswerFits)
  <2>1. CalleeGets # Broken
    BY <1>2 DEF Broken
  <2>2. pos > Len(call.kwargs) /\ backend # "other" => ~Refused
    BY <1>1, LenInNat DEF Refused
  <2>3. QED
    BY <1>1, <1>2, <1>4, <2>1, <2>2 DEF WireInv
<1>6. step = "done" /\ AnswerFits => res = Arrived(call.args[1])
  BY <1>4 DEF WireInv
<1>7. QED
  BY <1>3, <1>5, <1>6

\* So does what came back from a call, when it is sent again.
LEMMA EchoNow == ASSUME CallInv, KeywordInv, WireInv, FirstInv PROVE EchoSettles
<1> SUFFICES ASSUME first # Nil, Len(call.args) = Len(call.params), AnswerFits, step \in {"failed", "done"}
             PROVE  step # "failed" /\ (step = "done" => res = first)
  BY DEF EchoSettles
<1> DEFINE vs == call.args
           targets == call.params
           t == IF asBytes THEN "bytes" ELSE "value"
           n == Len(call.kwargs)
<1>1. /\ call.kind # "start" /\ backend # "other" /\ vs[1] = first
      /\ IsValue(first) /\ Settled(first, BytesAsked(call.kwargs, n)) /\ OthersPass
      /\ step = "failed" => ~Refused
  BY DEF FirstInv
<1>2. IsExecution(call)
  BY <1>1 DEF CallInv, IsCall, IsStart
<1>3. /\ IsSeq(vs) /\ IsSeq(targets) /\ Len(vs) = Len(targets) /\ Len(vs) > 0
      /\ \A i \in DOMAIN targets : targets[i] \in {"value", "bytes"}
      /\ DOMAIN vs = DOMAIN targets /\ DOMAIN vs = 1..Len(vs) /\ Len(vs) \in Nat
      /\ 1 \in DOMAIN vs /\ targets[1] \in {"value", "bytes"}
  BY <1>2, LenInNat DEF IsExecution
<1>4. asBytes = BytesAsked(call.kwargs, n)
  <2>1. KeywordsRead = n
    BY DEF KeywordsRead
  <2>2. InCall \/ (step = "failed" /\ call.kind # "start" /\ ~Refused)
    BY <1>1 DEF InCall, Called
  <2>3. QED
    BY <2>1, <2>2 DEF KeywordInv
<1>5. t = targets[1] /\ t \in {"bytes", "value"}
  BY <1>3 DEF AnswerFits
<1>6. Fits(first, t) /\ Arrived(first) = first
  BY <1>1, <1>4, BytesPass DEF Settled, Fits
<1> HIDE DEF vs, targets, t
<1>7. ToLine(first) # BrokenTree /\ Decode(ToLine(first), t) = first /\ first # BrokenTree
  BY <1>1, <1>5, <1>6, FitsPasses
<1>8. IsBytes(first) <=> t = "bytes"
  BY <1>6, ValueIsNot DEF Fits
<1>9. \A i \in DOMAIN vs : ToLine(vs[i]) # BrokenTree /\ Decode(ToLine(vs[i]), targets[i]) # BrokenTree
  <2>1. \A i \in 2..Len(vs) : ToLine(vs[i]) # BrokenTree /\ Decode(ToLine(vs[i]), targets[i]) # BrokenTree
    BY <1>1 DEF OthersPass, vs, targets
  <2>2. \A i \in DOMAIN vs : i = 1 \/ i \in 2..Len(vs)
    BY <1>3
  <2>3. QED
    BY <1>1, <1>5, <1>7, <2>1, <2>2
<1>10. /\ Write(vs) # Broken
       /\ Read(Write(vs), targets) = <<"values", [i \in DOMAIN vs |-> Decode(ToLine(vs[i]), targets[i])]>>
  BY <1>1, <1>3, <1>5, <1>8, <1>9, OneByOne
<1>11. Write(call.args) # Broken /\ CalleeGets # Broken /\ CalleeGets[2][1] = first
  BY <1>1, <1>3, <1>5, <1>7, <1>10 DEF CalleeGets, Broken, vs, targets
<1>12. Write(<<first>>) # Broken /\ Read(Write(<<first>>), <<t>>) = <<"values", <<first>>>>
  BY <1>1, <1>5, <1>6, OnePasses
<1>13. ScriptGets = <<"values", <<first>>>> /\ ScriptGets \notin {Broken, NoAnswer}
  BY <1>11, <1>12 DEF ScriptGets, Broken, NoAnswer, t
<1>14. QED
  BY <1>1, <1>11, <1>12, <1>13 DEF WireInv

-----------------------------------------------------------------------------
(* Arguments of a command *)

\* What starlarkjson writes of a value, slices and nil of Go among it.
LEMMA StarWrites ==
  ASSUME NEW v, \A p \in DOMAIN v : v[p][1] \in JsonKinds \cup {"nil", "keywords"}
  PROVE  ToLine(v) = [p \in DOMAIN v |-> StarNode(v[p])] /\ ToLine(v) # BrokenTree
<1> DEFINE j == [p \in DOMAIN v |-> StarNode(v[p])]
<1>1. \A p \in DOMAIN v : j[p] # Broken
  BY DEF StarNode, Broken, JsonKinds
<1>2. Whole(j) = j /\ j # BrokenTree
  BY <1>1, WholeTree
<1>3. ~IsBytes(v)
  BY DEF IsBytes, Root, JsonKinds
<1>4. QED
  BY <1>2, <1>3 DEF ToLine, Encode, StarJson

LEMMA NilPasses == ToLine(Nil) = Leaf(<<"null">>)
<1>1. DOMAIN Nil = {<<>>} /\ Nil[<<>>] = <<"nil">>
  BY LeafFacts DEF Nil
<1>2. ToLine(Nil) = [p \in {<<>>} |-> StarNode(Nil[p])]
  BY <1>1, StarWrites
<1>3. StarNode(Nil[<<>>]) = <<"null">>
  BY <1>1 DEF StarNode
<1>4. QED
  BY <1>2, <1>3 DEF Leaf

LEMMA StrPasses == ASSUME NEW s PROVE StringOf(ToLine(Str(s))) = Str(s)
<1>1. DOMAIN Str(s) = {<<>>} /\ Str(s)[<<>>] = <<"str", s>>
  BY LeafFacts DEF Str
<1>2. ToLine(Str(s)) = [p \in {<<>>} |-> StarNode(Str(s)[p])]
  BY <1>1, StarWrites DEF JsonKinds
<1>3. Root(ToLine(Str(s))) = <<"string", s>>
  BY <1>1, <1>2 DEF StarNode, Root
<1>4. QED
  BY <1>3 DEF StringOf

\* In a tree, null is a leaf.
LEMMA NullIsLeaf ==
  ASSUME NEW j, IsTree(j)
  PROVE  Root(j)[1] = "null" <=> j = Leaf(<<"null">>)
<1>1. ASSUME Root(j)[1] = "null"
      PROVE  j = Leaf(<<"null">>)
  <2>1. Root(j) = <<"null">>
    BY <1>1 DEF IsTree, IsJsonNode, Root
  <2>2. ASSUME NEW p \in DOMAIN j, p # <<>>
        PROVE  FALSE
    <3>1. IsSeq(p) /\ Len(p) \in Nat /\ Len(p) # 0
      <4>1. IsSeq(p)
        BY DEF IsTree
      <4>2. QED
        BY <2>2, <4>1 DEF IsSeq
    <3>2. SubSeq(p, 1, 0) = <<>> /\ 0 \in 0..(Len(p) - 1)
      BY <3>1 DEF IsSeq
    <3>3. j[<<>>] \in {<<"array">>, <<"object">>}
      BY <3>2 DEF IsTree
    <3>4. QED
      BY <2>1, <3>3 DEF Root
  <2>3. DOMAIN j = {<<>>}
    BY <2>2 DEF IsTree
  <2>4. QED
    BY <2>1, <2>3 DEF IsTree, IsFunction, Leaf, Root
<1>2. QED
  BY <1>1, LeafFacts

\* A value whose root, or a path more, is given another kind.
LEMMA SameBelow ==
  ASSUME NEW v, NEW w, DOMAIN v = DOMAIN w, NEW p \in DOMAIN v, v[p] = w[p],
         v[Append(p, Entry("__codec__"))] = w[Append(p, Entry("__codec__"))]
  PROVE  Arrived(v)[p] = Arrived(w)[p]
<1>1. SaysDataclass(v, p) <=> SaysDataclass(w, p)
  BY DEF SaysDataclass
<1>2. QED
  BY <1>1 DEF Arrived

LEMMA LongerPath ==
  ASSUME NEW p, IsSeq(p), NEW k
  PROVE  Append(p, k) # <<>> /\ Len(Append(p, k)) = Len(p) + 1
BY DEF IsSeq

\* A tuple of JSON arrives as the command has read it.
LEMMA TupleTwice ==
  ASSUME NEW j, IsTree(j), TupleOf(j) # BrokenTree
  PROVE  /\ TupleOf(ToLine(TupleOf(j))) = TupleOf(j)
         /\ IF j = Leaf(<<"null">>) THEN TupleOf(j) = Nil
            ELSE /\ Root(TupleOf(j)) = Tuple /\ Relabelled(TupleOf(j), List) = Value(j)
                 /\ DOMAIN TupleOf(j) = DOMAIN j /\ IsValue(TupleOf(j))
<1>1. CASE j = Leaf(<<"null">>)
  <2>1. TupleOf(j) = Nil
    BY <1>1, LeafFacts DEF TupleOf
  <2>2. TupleOf(ToLine(Nil)) = Nil
    BY NilPasses, LeafFacts DEF TupleOf
  <2>3. QED
    BY <1>1, <2>1, <2>2
<1>2. CASE j # Leaf(<<"null">>)
  <2> DEFINE v == TupleOf(j)
             w == Value(j)
  <2>1. Root(j)[1] = "array" /\ v = Relabelled(w, Tuple)
    BY <1>2, NullIsLeaf DEF TupleOf
  <2>2. /\ DOMAIN w = DOMAIN j /\ DOMAIN v = DOMAIN j /\ IsFunction(v) /\ <<>> \in DOMAIN j
        /\ v[<<>>] = Tuple /\ \A p \in DOMAIN v : p # <<>> => v[p] = w[p]
    BY <2>1 DEF Value, Parsed, Relabelled, IsFunction, IsTree
  <2>3. w[<<>>] = List
    BY <2>1, <2>2 DEF Value, Parsed, ValueNode, Root, List, Dict
  <2>4. IsValue(w) /\ IsJson(w) /\ Arrived(w) = w
    BY ValuesSettle
  <2> HIDE DEF v, w
  <2>5. IsValue(v) /\ IsJson(v)
    <3>1. \A p \in DOMAIN v : v[p] = Tuple \/ v[p] = w[p]
      BY <2>2
    <3>2. IsNode(Tuple) /\ Tuple[1] = "tuple"
      BY DEF IsNode, Tuple
    <3>3. QED
      BY <2>2, <2>4, <3>1, <3>2 DEF IsValue, IsJson
  <2>6. Value(ToLine(v)) = Arrived(v) /\ ToLine(v) = [p \in DOMAIN v |-> StarNode(v[p])]
    BY <2>5, JsonPasses
  <2>7. Root(ToLine(v))[1] = "array"
    BY <2>2, <2>6 DEF Root, StarNode, Tuple
  <2>8. \A p \in DOMAIN v : p # <<>> => Arrived(v)[p] = w[p]
    <3>1. ASSUME NEW p \in DOMAIN v, p # <<>>
          PROVE  Arrived(v)[p] = Arrived(w)[p]
      <4>1. Append(p, Entry("__codec__")) # <<>>
        BY LongerPath DEF IsTree
      <4>2. CASE Append(p, Entry("__codec__")) \in DOMAIN v
        BY <2>2, <3>1, <4>1, <4>2, SameBelow
      <4>3. CASE Append(p, Entry("__codec__")) \notin DOMAIN v
        BY <2>2, <3>1, <4>3 DEF Arrived, SaysDataclass
      <4>4. QED
        BY <4>2, <4>3
    <3>2. QED
      BY <2>4, <3>1
  <2>9. DOMAIN Arrived(v) = DOMAIN v
    BY DEF Arrived
  <2>10. Relabelled(Arrived(v), Tuple) = v
    BY <2>2, <2>8, <2>9 DEF Relabelled, IsFunction
  <2>11. TupleOf(ToLine(v)) = v
    BY <2>6, <2>7, <2>10 DEF TupleOf
  <2>12. Relabelled(v, List) = w
    BY <2>2, <2>3, <2>4 DEF Relabelled, IsFunction, IsValue
  <2>13. QED
    BY <1>2, <2>2, <2>5, <2>11, <2>12 DEF Root, v, w
<1>3. QED
  BY <1>1, <1>2

LEMMA PathLengths ==
  ASSUME NEW p, IsSeq(p)
  PROVE  /\ p = <<>> \/ Len(p) = 1 \/ Len(p) > 1
         /\ p = <<>> <=> Len(p) = 0
         /\ Len(p) <= 1 <=> p = <<>> \/ Len(p) = 1
         /\ Len(p) > 1 => Len(p) # 0 /\ Len(p) # 1 /\ p # <<>> /\ ~(Len(p) <= 1)
<1>1. PICK n \in Nat : Len(p) = n /\ (p = <<>> <=> n = 0)
  BY DEF IsSeq
<1>2. /\ n = 0 \/ n = 1 \/ n > 1
      /\ n <= 1 <=> n = 0 \/ n = 1
      /\ n > 1 => n # 0 /\ n # 1 /\ ~(n <= 1)
  OBVIOUS
<1>3. QED
  BY <1>1, <1>2

\* So do keywords, tuples in a slice.
LEMMA KeywordsTwice ==
  ASSUME NEW j, IsTree(j), KeywordsOf(j) # BrokenTree
  PROVE  /\ KeywordsOf(ToLine(KeywordsOf(j))) = KeywordsOf(j)
         /\ IF j = Leaf(<<"null">>) THEN KeywordsOf(j) = Nil
            ELSE LET ks == KeywordsOf(j)
                 IN /\ Root(ks) = Keywords
                    /\ [p \in DOMAIN ks |-> IF Len(p) <= 1 THEN List ELSE ks[p]] = Value(j)
<1>1. CASE j = Leaf(<<"null">>)
  <2>1. KeywordsOf(j) = Nil
    BY <1>1, LeafFacts DEF KeywordsOf
  <2>2. KeywordsOf(ToLine(Nil)) = Nil
    BY NilPasses, LeafFacts DEF KeywordsOf
  <2>3. QED
    BY <1>1, <2>1, <2>2
<1>2. CASE j # Leaf(<<"null">>)
  <2> DEFINE w == Value(j)
             ks == KeywordsOf(j)
             v == [p \in DOMAIN j |-> IF p = <<>> THEN List ELSE ks[p]]
  <2>1. /\ Root(j)[1] = "array" /\ (\A p \in DOMAIN j : Len(p) = 1 => j[p][1] = "array")
        /\ ks = [p \in DOMAIN j |-> CASE Len(p) = 0 -> Keywords
                                      [] Len(p) = 1 -> Tuple
                                      [] OTHER -> w[p]]
    BY <1>2, NullIsLeaf DEF KeywordsOf
  <2>2. \A p \in DOMAIN j :
          /\ IsSeq(p)
          /\ p = <<>> \/ Len(p) = 1 \/ Len(p) > 1
          /\ p = <<>> <=> Len(p) = 0
          /\ Len(p) <= 1 <=> p = <<>> \/ Len(p) = 1
          /\ Len(p) > 1 => Len(p) # 0 /\ Len(p) # 1 /\ p # <<>> /\ ~(Len(p) <= 1)
    BY PathLengths DEF IsTree
  <2>3. DOMAIN w = DOMAIN j /\ <<>> \in DOMAIN j
    BY DEF Value, Parsed, IsTree
  <2>4. \A p \in DOMAIN j : Len(p) <= 1 => w[p] = List
    <3>1. ASSUME NEW p \in DOMAIN j, Len(p) <= 1
          PROVE  j[p][1] = "array"
      BY <2>1, <2>2, <3>1 DEF Root
    <3>2. QED
      BY <2>3, <3>1 DEF Value, Parsed, ValueNode, List, Dict
  <2>5. IsValue(w) /\ IsJson(w) /\ Arrived(w) = w
    BY ValuesSettle
  <2>6. /\ DOMAIN ks = DOMAIN j /\ DOMAIN v = DOMAIN j
        /\ ks[<<>>] = Keywords /\ v[<<>>] = List
        /\ \A p \in DOMAIN j : Len(p) = 1 => ks[p] = Tuple /\ v[p] = Tuple
        /\ \A p \in DOMAIN j : Len(p) > 1 => ks[p] = w[p] /\ v[p] = w[p]
    BY <2>1, <2>2, <2>3
  <2>7. IsFunction(ks) /\ IsFunction(v)
    BY <2>1 DEF IsFunction
  <2>8. \A p \in DOMAIN j : Len(p) = 1 \/ Len(p) > 1 \/ p = <<>>
    BY <2>2
  <2> HIDE DEF w, ks, v
  <2>9. IsNode(Tuple) /\ Tuple[1] = "tuple" /\ IsNode(List) /\ List[1] = "list" /\ Keywords[1] = "keywords"
    BY DEF IsNode, Tuple, List, Keywords
  <2>10. \A p \in DOMAIN j : v[p] \in {List, Tuple} \/ v[p] = w[p]
    BY <2>6, <2>8
  <2>11. IsValue(v) /\ IsJson(v)
    BY <2>3, <2>5, <2>6, <2>7, <2>9, <2>10 DEF IsValue, IsJson
  <2>12. Value(ToLine(v)) = Arrived(v) /\ ToLine(v) = [p \in DOMAIN j |-> StarNode(v[p])]
    BY <2>6, <2>11, JsonPasses
  <2>13. ToLine(ks) = ToLine(v)
    <3>1. \A p \in DOMAIN ks : ks[p][1] \in JsonKinds \cup {"nil", "keywords"}
      <4>1. \A p \in DOMAIN j : ks[p] = Keywords \/ ks[p] = v[p]
        BY <2>6, <2>8
      <4>2. QED
        BY <2>6, <2>9, <2>11, <4>1 DEF IsJson, JsonKinds
    <3>2. ToLine(ks) = [p \in DOMAIN j |-> StarNode(ks[p])]
      BY <2>6, <3>1, StarWrites
    <3>3. StarNode(Keywords) = StarNode(List)
      BY DEF StarNode, Keywords, List
    <3>4. \A p \in DOMAIN j : StarNode(ks[p]) = StarNode(v[p])
      BY <2>6, <2>8, <3>3
    <3>5. QED
      BY <2>12, <3>2, <3>4
  <2>14. ToLine(v)[<<>>] = <<"array">> /\ \A p \in DOMAIN j : Len(p) = 1 => ToLine(v)[p] = <<"array">>
    <3>1. StarNode(Tuple) = <<"array">> /\ StarNode(List) = <<"array">>
      BY DEF StarNode, Tuple, List
    <3>2. QED
      BY <2>3, <2>6, <2>12, <3>1
  <2>15. \A p \in DOMAIN j : Len(p) > 1 => Arrived(v)[p] = w[p]
    <3>1. ASSUME NEW p \in DOMAIN j, Len(p) > 1
          PROVE  Arrived(v)[p] = Arrived(w)[p]
      <4>1. Len(Append(p, Entry("__codec__"))) > 1
        BY <2>2, <3>1, LongerPath
      <4>2. CASE Append(p, Entry("__codec__")) \in DOMAIN v
        <5>1. /\ DOMAIN v = DOMAIN w /\ p \in DOMAIN v /\ v[p] = w[p]
              /\ v[Append(p, Entry("__codec__"))] = w[Append(p, Entry("__codec__"))]
          BY <2>3, <2>6, <3>1, <4>1, <4>2
        <5>2. QED
          BY <5>1, SameBelow
      <4>3. CASE Append(p, Entry("__codec__")) \notin DOMAIN v
        BY <2>3, <2>6, <3>1, <4>3 DEF Arrived, SaysDataclass
      <4>4. QED
        BY <4>2, <4>3
    <3>2. QED
      BY <2>5, <3>1
  <2>16. KeywordsOf(ToLine(v)) =
           [p \in DOMAIN j |-> CASE Len(p) = 0 -> Keywords
                                 [] Len(p) = 1 -> Tuple
                                 [] OTHER -> Arrived(v)[p]]
    BY <2>12, <2>14 DEF KeywordsOf, Root
  <2>17. KeywordsOf(ToLine(v)) = ks
    <3>1. \A p \in DOMAIN j :
            (CASE Len(p) = 0 -> Keywords [] Len(p) = 1 -> Tuple [] OTHER -> Arrived(v)[p]) = ks[p]
      BY <2>2, <2>6, <2>15
    <3>2. QED
      BY <2>6, <2>7, <2>16, <3>1 DEF IsFunction
  <2>18. [p \in DOMAIN ks |-> IF Len(p) <= 1 THEN List ELSE ks[p]] = w
    <3>1. \A p \in DOMAIN j : (IF Len(p) <= 1 THEN List ELSE ks[p]) = w[p]
      BY <2>2, <2>4, <2>6
    <3>2. QED
      BY <2>3, <2>5, <2>6, <3>1 DEF IsValue, IsFunction
  <2>19. QED
    BY <1>2, <2>6, <2>13, <2>17, <2>18 DEF Root, ks, w
<1>3. QED
  BY <1>1, <1>2

\* The two ways to say which text of a key is the last.
LEMMA LastText ==
  ASSUME NEW f, IsSeq(f.env), NEW k
  PROVE  GivenEnv(f, k)
           = f.env[CHOOSE i \in DOMAIN f.env :
                     f.env[i][1] = k /\ \A m \in (i + 1)..Len(f.env) : f.env[m][1] # k][2]
<1>1. DOMAIN f.env = 1..Len(f.env) /\ Len(f.env) \in Nat
  BY LenInNat
<1>2. \A i \in DOMAIN f.env :
        (\A j \in DOMAIN f.env : f.env[j][1] = k => j <= i)
          <=> (\A m \in (i + 1)..Len(f.env) : f.env[m][1] # k)
  BY <1>1
<1>3. (CHOOSE i \in DOMAIN f.env : f.env[i][1] = k /\ \A j \in DOMAIN f.env : f.env[j][1] = k => j <= i)
        = (CHOOSE i \in DOMAIN f.env : f.env[i][1] = k /\ \A m \in (i + 1)..Len(f.env) : f.env[m][1] # k)
  BY <1>2, Zenon
<1>4. QED
  BY <1>3 DEF GivenEnv

\* An environment arrives with the texts last given, unless it says that it is a
\* dataclass.
LEMMA EnvironTwice ==
  ASSUME NEW f, IsSeq(f.env), Environ(f) # BrokenTree
  PROVE  LET got6 == DictOf(ToLine(Environ(f)))
         IN IF f.env = <<>> THEN got6 = Nil
            ELSE IF "__codec__" \in EnvKeys(f) /\ GivenEnv(f, "__codec__") = DataclassType
            THEN got6 = Leaf(Dict)
            ELSE /\ DOMAIN got6 = {<<>>} \cup {<<Entry(k)>> : k \in EnvKeys(f)} /\ Root(got6) = Dict
                 /\ \A k \in EnvKeys(f) : got6[<<Entry(k)>>] = <<"str", GivenEnv(f, k)>>
<1> DEFINE at == [k \in EnvKeys(f) |-> CHOOSE i \in DOMAIN f.env :
                    f.env[i][1] = k /\ \A m \in (i + 1)..Len(f.env) : f.env[m][1] # k]
           paths == {<<>>} \cup {<<Entry(k)>> : k \in EnvKeys(f)}
           v == Environ(f)
<1>1. CASE f.env = <<>>
  <2>1. v = Nil
    <3>1. ~\E i \in DOMAIN f.env : Len(f.env[i]) < 2
      BY <1>1
    <3>2. QED
      BY <1>1, <3>1 DEF Environ, EnvironOf
  <2>2. DictOf(ToLine(Nil)) = Nil
    BY NilPasses, LeafFacts DEF DictOf
  <2>3. QED
    BY <1>1, <2>1, <2>2
<1>2. CASE f.env # <<>>
  <2>1. v = [p \in paths |-> IF p = <<>> THEN Dict ELSE <<"str", f.env[at[p[1][2]]][2]>>]
    BY <1>2 DEF Environ, EnvironOf
  <2>2. \A k \in EnvKeys(f) : GivenEnv(f, k) = f.env[at[k]][2]
    <3>1. ASSUME NEW k \in EnvKeys(f)
          PROVE  GivenEnv(f, k) = f.env[at[k]][2]
      <4>1. at[k] = CHOOSE i \in DOMAIN f.env :
                      f.env[i][1] = k /\ \A m \in (i + 1)..Len(f.env) : f.env[m][1] # k
        BY <3>1
      <4>2. GivenEnv(f, k)
              = f.env[CHOOSE i \in DOMAIN f.env :
                        f.env[i][1] = k /\ \A m \in (i + 1)..Len(f.env) : f.env[m][1] # k][2]
        BY LastText
      <4> HIDE DEF at
      <4>3. QED
        BY <4>1, <4>2, Zenon
    <3>2. QED
      BY <3>1
  <2>3. \A k : <<Entry(k)>> # <<>> /\ <<Entry(k)>>[1][2] = k
    BY DEF Entry
  <2>4. /\ DOMAIN v = paths /\ v[<<>>] = Dict
        /\ \A k \in EnvKeys(f) : v[<<Entry(k)>>] = <<"str", GivenEnv(f, k)>>
    <3> HIDE DEF v, at
    <3>1. DOMAIN v = paths /\ v[<<>>] = Dict
      BY <2>1
    <3>2. ASSUME NEW k \in EnvKeys(f)
          PROVE  v[<<Entry(k)>>] = <<"str", GivenEnv(f, k)>>
      <4>1. <<Entry(k)>> \in paths
        OBVIOUS
      <4>2. v[<<Entry(k)>>] = <<"str", f.env[at[<<Entry(k)>>[1][2]]][2]>>
        BY <2>1, <2>3, <4>1
      <4>3. QED
        BY <2>2, <2>3, <4>2
    <3>3. QED
      BY <3>1, <3>2
  <2>5. IsFunction(v)
    BY <2>1 DEF IsFunction
  <2> HIDE DEF v, at
  <2>6. \A p \in DOMAIN v : v[p] = Dict \/ \E s : v[p] = <<"str", s>>
    BY <2>4
  <2>7. IsValue(v) /\ IsJson(v)
    BY <2>5, <2>6 DEF IsValue, IsJson, IsNode, Dict
  <2>8. Value(ToLine(v)) = Arrived(v) /\ ToLine(v) = [p \in DOMAIN v |-> StarNode(v[p])]
    BY <2>7, JsonPasses
  <2>9. Root(ToLine(v)) = <<"object">>
    BY <2>4, <2>8 DEF Root, StarNode, Dict
  <2>10. DictOf(ToLine(v)) = IF Root(Arrived(v)) = Dict THEN Arrived(v) ELSE Leaf(Dict)
    BY <2>8, <2>9 DEF DictOf
  <2>11. SaysDataclass(v, <<>>) <=>
           "__codec__" \in EnvKeys(f) /\ GivenEnv(f, "__codec__") = DataclassType
    <3>1. Append(<<>>, Entry("__codec__")) = <<Entry("__codec__")>>
      OBVIOUS
    <3>2. <<Entry("__codec__")>> \in DOMAIN v <=> "__codec__" \in EnvKeys(f)
      BY <2>3, <2>4
    <3>3. \A s : IsCodec(<<"str", s>>) <=> s = DataclassType
      BY LeafFacts DEF IsCodec, Str
    <3>4. QED
      BY <2>4, <3>1, <3>2, <3>3 DEF SaysDataclass
  <2>12. Root(Arrived(v)) = IF SaysDataclass(v, <<>>) THEN Dataclass ELSE Dict
    BY <2>4 DEF Arrived, Root, Tuple, List, Dict, Dataclass
  <2>13. DOMAIN Arrived(v) = paths /\
         \A k \in EnvKeys(f) : Arrived(v)[<<Entry(k)>>] = <<"str", GivenEnv(f, k)>>
    BY <2>4 DEF Arrived, Tuple, List, Dict, Dataclass
  <2>14. Dict # Dataclass
    BY DEF Dict, Dataclass
  <2>15. QED
    BY <1>2, <2>10, <2>11, <2>12, <2>13, <2>14 DEF v
<1>3. QED
  BY <1>1, <1>2

LEMMA SixParts ==
  ASSUME NEW a1, NEW a2, NEW a3, NEW a4, NEW a5, NEW a6
  PROVE  LET s == <<a1, a2, a3, a4, a5, a6>> IN IsSeq(s) /\ Len(s) = 6 /\ DOMAIN s = 1..6
<1> DEFINE s == <<a1, a2, a3, a4, a5, a6>>
           S == {s[i] : i \in DOMAIN s}
<1>1. Len(s) = 6 /\ DOMAIN s = 1..6
  OBVIOUS
<1>2. \A i \in 1..6 : s[i] \in S
  BY <1>1
<1>3. s[1] = a1 /\ s[2] = a2 /\ s[3] = a3 /\ s[4] = a4 /\ s[5] = a5 /\ s[6] = a6
  OBVIOUS
<1>4. {a1, a2, a3, a4, a5, a6} \subseteq S
  <2> HIDE DEF S
  <2>1. QED
    BY <1>2, <1>3
<1>5. s \in Seq(S)
  <2> HIDE DEF S
  <2>1. QED
    BY <1>4
<1>6. QED
  BY <1>1, <1>5 DEF IsSeq

\* A run that was started has read what the command wrote, part by part.
LEMMA StartReads ==
  ASSUME StartInv, WireInv, call.kind = "start", step = "running"
  PROVE  LET args == Arguments(backend, call.flags)
         IN /\ \A i \in 1..6 : args[i] # BrokenTree
            /\ got = [i \in 1..6 |-> Decode(ToLine(args[i]), RunParams[i])]
            /\ \A i \in 1..6 : got[i] # BrokenTree
<1> DEFINE args == Arguments(backend, call.flags)
<1>1. /\ call.args = args /\ call.params = RunParams
      /\ \A i \in 1..6 : args[i] # BrokenTree
  BY DEF StartInv, InCall, Called
<1>2. Write(args) # Broken /\ Read(Write(args), RunParams) # Broken /\ got = Read(Write(args), RunParams)[2]
  BY <1>1 DEF WireInv, CalleeGets, Called
<1>3. IsSeq(args) /\ Len(args) = 6 /\ DOMAIN args = 1..6
  BY SixParts DEF Arguments, CadenceArguments, TemporalArguments
<1>4. IsSeq(RunParams) /\ Len(RunParams) = 6
  BY SixParts DEF RunParams
<1> HIDE DEF args
<1>5. \A i \in DOMAIN args :
        ToLine(args[i]) # BrokenTree /\ Decode(ToLine(args[i]), RunParams[i]) # BrokenTree
  <2>1. Len(args) = Len(RunParams) /\ Len(args) > 1
    BY <1>3, <1>4
  <2>2. QED
    BY <1>2, <1>3, <1>4, <2>1, EachPassed
<1>6. Read(Write(args), RunParams)
        = <<"values", [i \in DOMAIN args |-> Decode(ToLine(args[i]), RunParams[i])]>>
  <2>1. Len(args) = Len(RunParams) /\ Len(args) > 0 /\ Len(args) # 1
    BY <1>3, <1>4
  <2>2. QED
    BY <1>3, <1>4, <1>5, <2>1, OneByOne
<1>7. got = [i \in 1..6 |-> Decode(ToLine(args[i]), RunParams[i])]
  BY <1>2, <1>3, <1>6
<1>8. QED
  BY <1>1, <1>3, <1>5, <1>7 DEF args

\* A workflow starts as its flags say, as the invariants have it.
LEMMA FlaggedNow == ASSUME CallInv, StartInv, WireInv PROVE StartsAsFlagged
<1> SUFFICES ASSUME step = "running", call.kind = "start"
             PROVE  StartsAsFlagged
  BY DEF StartsAsFlagged
<1> DEFINE f == call.flags
           args == Arguments(backend, f)
<1>1. IsFlags(f) /\ backend \in {"cadence", "temporal"} /\ opts = [start |-> StartOptions(backend, f)]
  BY DEF CallInv, IsCall, IsStart, IsExecution, StartInv, InCall, Called
<1>2. /\ \A i \in 1..6 : args[i] # BrokenTree
      /\ got = [i \in 1..6 |-> Decode(ToLine(args[i]), RunParams[i])]
  BY StartReads
<1>3. /\ RunParams[1] = "bytes" /\ RunParams[2] = "string" /\ RunParams[3] = "string"
      /\ RunParams[4] = "tuple" /\ RunParams[5] = "keywords" /\ RunParams[6] = "dict"
  BY DEF RunParams
<1>4. /\ args[1] = IF backend = "cadence" THEN ReadPackageCadence(f) ELSE ReadPackageTemporal(f)
      /\ args[2] = EntryFile(f)
      /\ args[3] = Str(FlagOr(f.function, <<"main">>))
      /\ args[4] = TupleOf(f.args)
      /\ args[5] = IF backend = "cadence" THEN KeywordsCadence(f) ELSE KeywordsOf(f.kwargs)
      /\ args[6] = Environ(f)
  BY DEF Arguments, CadenceArguments, TemporalArguments
<1> HIDE DEF args, f
<1>5. /\ got[1] = BytesOf(ToLine(args[1])) /\ got[2] = StringOf(ToLine(args[2]))
      /\ got[3] = StringOf(ToLine(args[3])) /\ got[4] = TupleOf(ToLine(args[4]))
      /\ got[5] = KeywordsOf(ToLine(args[5])) /\ got[6] = DictOf(ToLine(args[6]))
  <2>1. \A j : /\ Decode(j, "bytes") = BytesOf(j) /\ Decode(j, "string") = StringOf(j)
               /\ Decode(j, "tuple") = TupleOf(j) /\ Decode(j, "keywords") = KeywordsOf(j)
               /\ Decode(j, "dict") = DictOf(j)
    BY DEF Decode
  <2>2. \A i \in 1..6 : got[i] = Decode(ToLine(args[i]), RunParams[i])
    BY <1>2
  <2>3. QED
    BY <1>3, <2>1, <2>2
<1>6. /\ got[1] = IF f.readable THEN Bytes(Plain) ELSE Bytes(Empty)
      /\ (~f.readable => backend = "temporal" /\ f.package = "file")
  <2>1. args[1] # BrokenTree
    BY <1>2
  <2>2. CASE f.readable
    <3>1. args[1] = Bytes(Plain)
      BY <1>1, <1>4, <2>2 DEF ReadPackageCadence, ReadPackageTemporal
    <3>2. QED
      BY <1>5, <2>2, <3>1, BytesForm, BytesPass
  <2>3. CASE ~f.readable
    <3>1. args[1] = Nil /\ backend = "temporal" /\ f.package = "file"
      BY <1>1, <1>4, <2>1, <2>3 DEF ReadPackageCadence, ReadPackageTemporal
    <3>2. BytesOf(ToLine(Nil)) = Bytes(Empty)
      BY NilPasses, LeafFacts DEF BytesOf
    <3>3. QED
      BY <1>5, <2>3, <3>1, <3>2
  <2>4. QED
    BY <2>2, <2>3
<1>7. Root(got[2])[2][2] = f.file
  <2>1. args[2] # BrokenTree
    BY <1>2
  <2>2. \E s : args[2] = Str(s) /\ s[2] = f.file
    BY <1>4, <2>1 DEF EntryFile
  <2>3. \A s : Root(Str(s))[2] = s
    BY LeafFacts DEF Str
  <2>4. QED
    BY <1>5, <2>2, <2>3, StrPasses
<1>8. got[3] = Str(IF f.function = Unset THEN <<"main">> ELSE f.function)
  BY <1>4, <1>5, StrPasses DEF FlagOr
<1>9. IF f.args = Leaf(<<"null">>) THEN got[4] = Nil
      ELSE Root(got[4]) = Tuple /\ Relabelled(got[4], List) = Value(f.args)
  <2>1. IsTree(f.args) /\ TupleOf(f.args) # BrokenTree
    BY <1>1, <1>2, <1>4 DEF IsFlags
  <2>2. got[4] = TupleOf(f.args)
    BY <1>4, <1>5, <2>1, TupleTwice
  <2>3. QED
    BY <2>1, <2>2, TupleTwice
<1>10. IF f.kwargs = Leaf(<<"null">>) THEN got[5] = Nil
       ELSE /\ Root(got[5]) = Keywords
            /\ [p \in DOMAIN got[5] |-> IF Len(p) <= 1 THEN List ELSE got[5][p]] = Value(f.kwargs)
  <2>1. args[5] = KeywordsOf(f.kwargs) /\ args[5] # BrokenTree
    BY <1>2, <1>4 DEF KeywordsCadence
  <2>2. IsTree(f.kwargs) /\ KeywordsOf(f.kwargs) # BrokenTree
    BY <1>1, <2>1 DEF IsFlags
  <2>3. got[5] = KeywordsOf(f.kwargs)
    BY <1>5, <2>1, <2>2, KeywordsTwice
  <2>4. QED
    BY <2>2, <2>3, KeywordsTwice
<1>11. IF f.env = <<>> THEN got[6] = Nil
       ELSE IF "__codec__" \in EnvKeys(f) /\ GivenEnv(f, "__codec__") = DataclassType
       THEN got[6] = Leaf(Dict)
       ELSE /\ DOMAIN got[6] = {<<>>} \cup {<<Entry(k)>> : k \in EnvKeys(f)} /\ Root(got[6]) = Dict
            /\ \A k \in EnvKeys(f) : got[6][<<Entry(k)>>] = <<"str", GivenEnv(f, k)>>
  <2>1. IsSeq(f.env) /\ Environ(f) # BrokenTree
    BY <1>1, <1>2, <1>4 DEF IsFlags
  <2>2. got[6] = DictOf(ToLine(Environ(f)))
    BY <1>4, <1>5
  <2>3. QED
    BY <2>1, <2>2, EnvironTwice
<1>12. opts.start.queue = FlagOr(f.queue, <<"default">>)
  BY <1>1 DEF StartOptions, StartOptionsCadence, StartOptionsTemporal
<1>13. QED
  BY <1>6, <1>7, <1>8, <1>9, <1>10, <1>11, <1>12 DEF StartsAsFlagged, f

-----------------------------------------------------------------------------
(* Headers *)

\* What a propagator writes its twin reads.
LEMMA HeadersPass ==
  ASSUME NEW f, IsFunction(f)
  PROVE  Extract(backend, Inject(backend, Headers(f))) = Headers(f) /\ Inject(backend, Headers(f)) # Panics
<1>1. Headers(f) # Absent /\ Headers(f) # Panics /\ Headers(f)[2] = f
  BY DEF Headers, Absent, Panics
<1>2. CASE backend = "cadence"
  BY <1>1, <1>2 DEF Inject, InjectCadence, Extract, ExtractCadence
<1>3. CASE backend # "cadence"
  <2> DEFINE g == [k \in DOMAIN f |-> <<"payload", f[k]>>]
  <2>1. Inject(backend, Headers(f)) = Headers(g)
    BY <1>1, <1>3 DEF Inject, InjectTemporal
  <2>2. Headers(g) # Panics /\ Headers(g)[2] = g
    BY DEF Headers, Panics
  <2>3. [k \in DOMAIN g |-> g[k][2]] = f
    BY DEF IsFunction
  <2> HIDE DEF g
  <2>4. Extract(backend, Headers(g)) = Headers(f)
    BY <1>3, <2>2, <2>3 DEF Extract, ExtractTemporal
  <2>5. QED
    BY <2>1, <2>2, <2>4
<1>4. QED
  BY <1>2, <1>3

LEMMA NoHeadersPass == Extract(backend, Headers(<<>>)) = Headers(<<>>) /\ Headers(<<>>) # Panics
<1>1. Headers(<<>>)[2] = <<>> /\ Headers(<<>>) # Panics
  BY DEF Headers, Panics
<1>2. [k \in DOMAIN <<>> |-> Headers(<<>>)[2][k][2]] = <<>>
  OBVIOUS
<1>3. QED
  BY <1>1, <1>2 DEF Extract, ExtractCadence, ExtractTemporal

\* Headers arrive, as the invariants have it.
LEMMA HeadersNow == ASSUME CallInv, HeadersInv PROVE HeadersArrive
<1>1. wire = Panics => call.kind = "start" /\ call.propagates
  BY DEF HeadersInv
<1>2. ASSUME step \in {"running", "returned", "done"}
      PROVE  gotten = IF call.kind = "start" THEN Headers(<<>>) ELSE headers
  <2>1. wire = Outgoing /\ wire # Panics /\ gotten = Extract(backend, wire)
    BY <1>2 DEF HeadersInv, Called
  <2>2. CASE call.kind = "start"
    <3>1. headers = Absent /\ Inject(backend, Absent) = Panics
      BY <2>2 DEF HeadersInv, Inject, InjectCadence, InjectTemporal
    <3>2. wire = Headers(<<>>)
      BY <2>1, <2>2, <3>1 DEF Outgoing
    <3>3. QED
      BY <2>1, <2>2, <3>2, NoHeadersPass
  <2>3. CASE call.kind # "start"
    <3>1. headers = Headers(call.headers) /\ IsFunction(call.headers)
      BY <2>3 DEF HeadersInv, CallInv, IsCall, IsStart, IsExecution
    <3>2. wire = Inject(backend, headers)
      BY <2>1, <2>3 DEF Outgoing
    <3>3. QED
      BY <2>1, <2>3, <3>1, <3>2, HeadersPass
  <2>4. QED
    BY <2>2, <2>3
<1>3. QED
  BY <1>1, <1>2 DEF HeadersArrive

\* A call is scheduled as asked, as the invariants have it.
LEMMA AskedNow == ASSUME CallInv, OptsInv PROVE CallsAsAsked
<1> SUFFICES ASSUME Called
             PROVE  /\ (call.kind = "activity" => ActivityAsAsked(Len(call.kwargs)))
                    /\ (call.kind = "workflow" => ChildAsAsked(Len(call.kwargs)))
  BY DEF CallsAsAsked
<1>1. KeywordsRead = Len(call.kwargs) /\ InCall
  BY DEF KeywordsRead, InCall, Called
<1>2. QED
  BY <1>1 DEF OptsInv

-----------------------------------------------------------------------------
(* The next call *)

\* A path that is not empty is its first step and the rest.
LEMMA HeadAndTail ==
  ASSUME NEW q, IsSeq(q), q # <<>>
  PROVE  <<Head(q)>> \o Tail(q) = q /\ Len(q) \in Nat /\ Len(q) >= 1
<1> DEFINE S == {q[i] : i \in DOMAIN q}
<1>1. q \in Seq(S)
  BY DEF IsSeq
<1> HIDE DEF S
<1>2. Len(q) \in Nat /\ Len(q) >= 1 /\ Head(q) = q[1]
  BY <1>1
<1>3. SubSeq(q, 1, Len(q)) = <<q[1]>> \o SubSeq(q, 2, Len(q))
  <2>1. 1 \in 1..Len(q) /\ Len(q) \in 1..Len(q)
    BY <1>2
  <2>2. QED
    BY <1>1, <2>1, SubSeqRecursiveFirst
<1>4. SubSeq(q, 1, Len(q)) = q /\ Tail(q) = SubSeq(q, 2, Len(q))
  BY <1>1, SubSeqFull, TailIsSubSeq
<1>5. QED
  BY <1>2, <1>3, <1>4

\* The arguments of the command, if there are any, are values.
LEMMA TupleElements ==
  ASSUME NEW j, IsTree(j), NEW v, v = TupleOf(j), v # BrokenTree, v \notin {Nil, Leaf(Tuple)}
  PROVE  /\ IsSeq(Elements(v)) /\ Len(Elements(v)) \in Nat \ {0}
         /\ DOMAIN Elements(v) = 1..Len(Elements(v))
         /\ \A i \in DOMAIN Elements(v) : IsValue(Elements(v)[i])
<1> DEFINE P == {p \in DOMAIN v : Len(p) = 1}
           e == Elements(v)
<1>1. DOMAIN v = DOMAIN j /\ IsValue(v) /\ Root(v) = Tuple
  BY TupleTwice
<1>2. \A p \in DOMAIN v : IsSeq(p)
  BY <1>1 DEF IsTree
<1>3. PICK q \in DOMAIN v : q # <<>>
  <2>1. ASSUME \A q \in DOMAIN v : q = <<>>
        PROVE  FALSE
    <3>1. DOMAIN v = {<<>>}
      BY <1>1, <2>1 DEF IsTree
    <3>2. v = [p \in {<<>>} |-> Tuple]
      BY <1>1, <3>1 DEF IsValue, IsFunction, Root
    <3>3. QED
      BY <3>2 DEF Leaf
  <2>2. QED
    BY <2>1
<1>4. \E p \in DOMAIN v : Len(p) = 1
  <2>1. PICK n \in Nat : Len(q) = n /\ n >= 1
    BY <1>2, <1>3, HeadAndTail
  <2>2. CASE n = 1
    BY <2>1, <2>2
  <2>3. CASE n > 1
    <3>1. 1 \in 0..(Len(q) - 1)
      BY <2>1, <2>3
    <3>2. SubSeq(q, 1, 1) \in DOMAIN v
      BY <1>1, <3>1 DEF IsTree
    <3>3. Len(SubSeq(q, 1, 1)) = 1
      OBVIOUS
    <3>4. QED
      BY <3>2, <3>3
  <2>4. QED
    BY <2>1, <2>2, <2>3
<1>5. Size(v) \in Nat \ {0}
  <2>1. IsFiniteSet(DOMAIN v) /\ P \subseteq DOMAIN v
    BY <1>1 DEF IsTree
  <2>2. IsFiniteSet(P) /\ Cardinality(P) \in Nat
    BY <2>1, FS_Subset, FS_CardinalityType
  <2>3. P # {}
    BY <1>4
  <2>4. QED
    BY <2>2, <2>3, FS_EmptySet DEF Size
<1>6. e = [i \in 1..Size(v) |-> Below(v, Index(i))]
  BY DEF Elements
<1>7. \A k : IsValue(Below(v, k))
  <2>1. ASSUME NEW k, NEW p \in DOMAIN Below(v, k)
        PROVE  IsNode(Below(v, k)[p])
    <3>1. PICK r \in DOMAIN v : r # <<>> /\ Head(r) = k /\ p = Tail(r)
      BY <2>1 DEF Below
    <3>2. Below(v, k)[p] = v[<<k>> \o p]
      BY <2>1 DEF Below
    <3>3. <<k>> \o p = r
      BY <1>2, <3>1, HeadAndTail
    <3>4. QED
      BY <1>1, <3>2, <3>3 DEF IsValue
  <2>2. \A k : IsFunction(Below(v, k))
    BY DEF Below, IsFunction
  <2>3. QED
    BY <2>1, <2>2 DEF IsValue
<1> HIDE DEF e
<1>8. DOMAIN e = 1..Size(v) /\ \A i \in DOMAIN e : IsValue(e[i])
  BY <1>6, <1>7
<1>9. IsSeq(e) /\ Len(e) = Size(v)
  BY <1>5, <1>6 DEF IsSeq
<1>10. QED
  BY <1>5, <1>8, <1>9 DEF e

\* A call with its first argument replaced.
LEMMA Replaced ==
  ASSUME NEW c, IsCall(c), c.kind # "start", NEW v, IsValue(v)
  PROVE  LET d == [c EXCEPT !.args[1] = v]
         IN /\ IsCall(d) /\ d.kind = c.kind /\ d.setters = c.setters /\ d.headers = c.headers
            /\ d.kwargs = c.kwargs /\ d.params = c.params
            /\ d.args = [c.args EXCEPT ![1] = v] /\ d.args[1] = v /\ Len(d.args) = Len(c.args)
            /\ \A i \in 2..Len(c.args) : d.args[i] = c.args[i]
<1> DEFINE d == [c EXCEPT !.args[1] = v]
           fields == {"kind", "setters", "headers", "kwargs", "args", "params"}
           a == [c.args EXCEPT ![1] = v]
<1>1. IsExecution(c)
  BY DEF IsCall, IsStart
<1>2. c = [f \in fields |-> c[f]]
  BY <1>1 DEF IsExecution, IsRecord
<1>3. /\ IsRecord(d, fields) /\ d.kind = c.kind /\ d.setters = c.setters /\ d.headers = c.headers
      /\ d.kwargs = c.kwargs /\ d.params = c.params /\ d.args = a
  BY <1>2 DEF IsRecord
<1> HIDE DEF d
<1>4. IsSeq(c.args) /\ Len(c.args) \in Nat /\ Len(c.args) > 0 /\ DOMAIN c.args = 1..Len(c.args)
      /\ \A i \in DOMAIN c.args : IsValue(c.args[i])
  BY <1>1, LenInNat DEF IsExecution
<1>5. a = [i \in 1..Len(c.args) |-> IF i = 1 THEN v ELSE c.args[i]]
  <2> DEFINE S == {c.args[i] : i \in DOMAIN c.args}
  <2>1. c.args \in Seq(S)
    BY <1>4 DEF IsSeq
  <2>2. QED
    BY <1>4, <2>1
<1> HIDE DEF a
<1>6. DOMAIN a = 1..Len(c.args) /\ a[1] = v /\ (\A i \in 2..Len(c.args) : a[i] = c.args[i])
      /\ (\A i \in DOMAIN a : IsValue(a[i]))
  BY <1>4, <1>5
<1>7. IsSeq(a) /\ Len(a) = Len(c.args)
  <2>1. \A i \in 1..Len(c.args) : a[i] \in {a[j] : j \in DOMAIN a}
    BY <1>6
  <2>2. a = [i \in 1..Len(c.args) |-> a[i]]
    BY <1>5
  <2>3. a \in Seq({a[j] : j \in DOMAIN a}) /\ Len(a) = Len(c.args)
    BY <1>4, <2>1, <2>2
  <2>4. QED
    BY <2>3 DEF IsSeq
<1>8. IsExecution(d)
  BY <1>1, <1>3, <1>4, <1>6, <1>7 DEF IsExecution
<1>9. IsCall(d)
  BY <1>3, <1>8 DEF IsCall
<1>10. QED
  BY <1>3, <1>6, <1>7, <1>9 DEF d, a

\* A run that was started has read the arguments of the command.
LEMMA StartTuple ==
  ASSUME CallInv, StartInv, WireInv, call.kind = "start", step = "running"
  PROVE  /\ IsTree(call.flags.args) /\ TupleOf(call.flags.args) # BrokenTree
         /\ got[4] = TupleOf(call.flags.args)
<1> DEFINE f == call.flags
           args == Arguments(backend, f)
<1>1. IsTree(f.args)
  BY DEF CallInv, IsCall, IsStart, IsExecution, IsFlags
<1>2. /\ \A i \in 1..6 : args[i] # BrokenTree
      /\ got = [i \in 1..6 |-> Decode(ToLine(args[i]), RunParams[i])]
  BY StartReads
<1>3. RunParams[4] = "tuple" /\ args[4] = TupleOf(f.args)
  BY DEF RunParams, Arguments, CadenceArguments, TemporalArguments
<1> HIDE DEF args, f
<1>4. args[4] # BrokenTree /\ got[4] = Decode(ToLine(args[4]), RunParams[4])
  BY <1>2
<1>5. got[4] = TupleOf(ToLine(args[4]))
  BY <1>3, <1>4 DEF Decode
<1>6. QED
  BY <1>1, <1>3, <1>4, <1>5, TupleTwice DEF f

\* The call a started run makes is one, and has the headers of its caller.
LEMMA RunCallsIsCall ==
  ASSUME CallInv, HeadersInv, StartInv, WireInv, RunCalls
  PROVE  /\ IsCall(call') /\ call'.kind = "activity" /\ call'.kwargs = <<>>
         /\ headers' = Headers(call'.headers)
<1> DEFINE args == IF got[4] \in {Nil, Leaf(Tuple)} THEN <<None>> ELSE Elements(got[4])
           params == [i \in DOMAIN args |-> "value"]
           fields == {"kind", "setters", "headers", "kwargs", "args", "params"}
<1>1. step = "running" /\ call.kind = "start" /\ headers' = gotten
      /\ call' = [kind |-> "activity", kwargs |-> <<>>, setters |-> call.setters, headers |-> gotten[2],
                  args |-> args, params |-> params]
  BY DEF RunCalls, Onward
<1>2. /\ IsSeq(args) /\ Len(args) \in Nat \ {0} /\ DOMAIN args = 1..Len(args)
      /\ \A i \in DOMAIN args : IsValue(args[i])
  <2>1. CASE got[4] \in {Nil, Leaf(Tuple)}
    <3>1. args = <<None>>
      BY <2>1
    <3>2. IsValue(None)
      BY LeafFacts DEF None, IsValue, IsNode, Root
    <3> HIDE DEF args
    <3>3. QED
      BY <3>1, <3>2 DEF IsSeq
  <2>2. CASE got[4] \notin {Nil, Leaf(Tuple)}
    <3>1. args = Elements(got[4])
      BY <2>2
    <3> HIDE DEF args
    <3>2. QED
      BY <1>1, <2>2, <3>1, StartTuple, TupleElements
  <2>3. QED
    BY <2>1, <2>2
<1> HIDE DEF args
<1>3. /\ IsSeq(params) /\ Len(params) = Len(args)
      /\ \A i \in DOMAIN params : params[i] \in {"value", "bytes"}
  <2>1. params = [i \in 1..Len(args) |-> "value"]
    BY <1>2
  <2> HIDE DEF params
  <2>2. QED
    BY <1>2, <2>1 DEF IsSeq
<1> HIDE DEF params
<1>4. gotten = Headers(<<>>)
  <2>1. HeadersArrive
    BY HeadersNow
  <2>2. QED
    BY <1>1, <2>1 DEF HeadersArrive
<1>5. gotten[2] = <<>> /\ IsFunction(<<>>) /\ IsSeq(<<>>)
  BY <1>4 DEF Headers, IsFunction, IsSeq
<1>6. IsSeq(call.setters) /\ \A i \in DOMAIN call.setters : IsSetter(call.setters[i])
  BY DEF CallInv, IsCall
<1>7. /\ call'.kind = "activity" /\ call'.kwargs = <<>> /\ call'.setters = call.setters
      /\ call'.headers = <<>> /\ call'.args = args /\ call'.params = params
      /\ call' = [f \in fields |-> call'[f]]
  BY <1>1, <1>5
<1>8. IsExecution(call')
  BY <1>2, <1>3, <1>5, <1>7 DEF IsExecution, IsRecord
<1>9. IsCall(call')
  BY <1>5, <1>6, <1>7, <1>8 DEF IsCall
<1>10. QED
  BY <1>1, <1>4, <1>7, <1>9

-----------------------------------------------------------------------------
(* The calls stay calls *)

LEMMA CallInit == ASSUME Init PROVE CallInv
<1>1. IsCall(call)
  BY CallsAssumption DEF Init
<1>2. QED
  BY <1>1 DEF Init, CallInv, Called

LEMMA CallStep == ASSUME IInv, [Next]_vars PROVE CallInv'
<1> USE DEF IInv
<1>1. CASE Set \/ Build \/ EnterRun
  BY <1>1 DEF CallInv, Called, Set, Build, EnterRun
<1>2. CASE ReadFlags
  <2>1. step = "flags" /\ backend' = backend /\ pos' = pos /\ backend # "other" /\ IsStart(call)
    BY <1>2 DEF ReadFlags, CallInv, IsCall, IsExecution
  <2>2. CASE step' = "failed" /\ call' = call
    BY <2>1, <2>2 DEF CallInv, Called
  <2>3. CASE step' = "keywords" /\
             call' = [kind |-> "start", args |-> Arguments(backend, call.flags), params |-> RunParams,
                      flags |-> call.flags, kwargs |-> <<>>, setters |-> call.setters,
                      propagates |-> call.propagates]
    <3>1. IsStart(call') /\ call'.kwargs = <<>> /\ call'.setters = call.setters /\ call'.kind = "start"
      BY <2>1, <2>3 DEF IsStart
    <3>2. IsCall(call')
      BY <3>1 DEF CallInv, IsCall, IsSeq
    <3>3. QED
      BY <2>1, <2>3, <3>1, <3>2 DEF CallInv, Called
  <2>4. QED
    BY <1>2, <2>2, <2>3 DEF ReadFlags
<1>3. CASE TaskList \/ Domain \/ AsBytes
  BY <1>3 DEF CallInv, Called, TaskList, Domain, AsBytes, AtKeyword, NextKeyword
<1>4. CASE RefuseKeyword \/ WrongType
  BY <1>4 DEF CallInv, Called, RefuseKeyword, WrongType, AtKeyword, EndsWith
<1>5. CASE Execute
  BY <1>5 DEF CallInv, Called, Execute
<1>6. CASE CalleeReads \/ CalleeReturns \/ ExecuteFuture
  BY <1>6 DEF CallInv, Called, CalleeReads, CalleeReturns, ExecuteFuture
<1>7. CASE CallAgain
  <2>1. step = "done" /\ call.kind # "start" /\ IsCall(call) /\ IsValue(res)
    BY <1>7, ResultSettled DEF CallAgain, CallInv
  <2>2. call' = [call EXCEPT !.args[1] = res] /\ step' = "building" /\ pos' = 1 /\ backend' = backend
    BY <1>7 DEF CallAgain, Onward
  <2>3. IsCall(call') /\ call'.kind = call.kind
    BY <2>1, <2>2, Replaced
  <2>4. QED
    BY <2>1, <2>2, <2>3 DEF CallInv, Called
<1>8. CASE RunCalls
  <2>1. IsCall(call') /\ call'.kind = "activity"
    BY <1>8, RunCallsIsCall
  <2>2. step' = "building" /\ pos' = 1 /\ backend' = backend
    BY <1>8 DEF RunCalls, Onward
  <2>3. QED
    BY <2>1, <2>2 DEF CallInv, Called
<1>9. CASE UNCHANGED vars
  BY <1>9 DEF CallInv, Called, vars, written, callee
<1>10. QED
  BY <1>1, <1>2, <1>3, <1>4, <1>5, <1>6, <1>7, <1>8, <1>9 DEF Next

-----------------------------------------------------------------------------
(* The headers *)

LEMMA HeadersInit == ASSUME Init PROVE HeadersInv
BY DEF Init, HeadersInv, Called, Headers, Absent, Panics

LEMMA HeadersStep == ASSUME IInv, [Next]_vars PROVE HeadersInv'
<1> USE DEF IInv
<1>1. CASE Set \/ Build \/ EnterRun
  BY <1>1 DEF HeadersInv, Called, Set, Build, EnterRun, written, callee
<1>2. CASE ReadFlags
  <2>1. /\ step' \in {"failed", "keywords"} /\ call'.kind = call.kind /\ call'.propagates = call.propagates
        /\ headers' = headers /\ wire' = wire
    BY <1>2 DEF ReadFlags, written, CallInv
  <2>2. call.kind = "start"
    BY <1>2 DEF ReadFlags, CallInv
  <2>3. QED
    BY <2>1, <2>2 DEF HeadersInv, Called
<1>3. CASE TaskList \/ Domain \/ AsBytes
  BY <1>3 DEF HeadersInv, Called, TaskList, Domain, AsBytes, AtKeyword, NextKeyword, written, callee
<1>4. CASE RefuseKeyword \/ WrongType
  BY <1>4 DEF HeadersInv, Called, RefuseKeyword, WrongType, AtKeyword, EndsWith, written, callee
<1>5. CASE Execute
  <2>1. /\ wire' = Outgoing /\ call' = call /\ headers' = headers /\ backend' = backend
        /\ step' \in {"failed", "panic", "scheduled"} /\ (step' = "scheduled" => wire' # Panics)
    BY <1>5 DEF Execute
  <2>2. Outgoing' = Outgoing
    BY <2>1 DEF Outgoing
  <2>3. wire' = Panics => call.kind = "start" /\ call.propagates
    <3>1. CASE call.kind = "start" /\ ~call.propagates
      BY <2>1, <3>1, NoHeadersPass DEF Outgoing
    <3>2. CASE call.kind # "start"
      <4>1. headers = Headers(call.headers) /\ IsFunction(call.headers)
        BY <3>2 DEF HeadersInv, CallInv, IsCall, IsStart, IsExecution
      <4>2. QED
        BY <2>1, <3>2, <4>1, HeadersPass DEF Outgoing
    <3>3. CASE call.kind = "start" /\ call.propagates
      BY <3>3
    <3>4. QED
      BY <3>1, <3>2, <3>3
  <2>4. QED
    BY <2>1, <2>2, <2>3 DEF HeadersInv, Called
<1>6. CASE CalleeReads
  <2>1. /\ call' = call /\ headers' = headers /\ backend' = backend /\ wire' = wire /\ Called
        /\ step' = "failed" \/ (step' = "running" /\ gotten' = Extract(backend, wire))
    BY <1>6 DEF CalleeReads, written, Called
  <2>2. Outgoing' = Outgoing
    BY <2>1 DEF Outgoing
  <2>3. QED
    BY <2>1, <2>2 DEF HeadersInv, Called
<1>7. CASE CalleeReturns \/ ExecuteFuture
  <2>1. /\ call' = call /\ headers' = headers /\ backend' = backend /\ wire' = wire /\ gotten' = gotten
        /\ Called /\ step # "scheduled"
    BY <1>7 DEF CalleeReturns, ExecuteFuture, written, callee, Called
  <2>2. Outgoing' = Outgoing
    BY <2>1 DEF Outgoing
  <2>3. QED
    BY <2>1, <2>2 DEF HeadersInv
<1>8. CASE CallAgain
  <2>1. call.kind # "start" /\ IsCall(call) /\ IsValue(res) /\ Called
    BY <1>8, ResultSettled DEF CallAgain, CallInv, Called
  <2>2. /\ call' = [call EXCEPT !.args[1] = res] /\ step' = "building" /\ headers' = headers /\ wire' = wire
    BY <1>8 DEF CallAgain, Onward, written
  <2>3. call'.kind = call.kind /\ call'.headers = call.headers
    BY <2>1, <2>2, Replaced
  <2>4. QED
    BY <2>1, <2>2, <2>3 DEF HeadersInv, Called
<1>9. CASE RunCalls
  <2>1. call'.kind = "activity" /\ headers' = Headers(call'.headers)
    BY <1>9, RunCallsIsCall
  <2>2. step' = "building" /\ wire' = wire /\ Called
    BY <1>9 DEF RunCalls, Onward, written, Called
  <2>3. QED
    BY <2>1, <2>2 DEF HeadersInv, Called
<1>10. CASE UNCHANGED vars
  <2>1. /\ call' = call /\ headers' = headers /\ backend' = backend /\ wire' = wire /\ gotten' = gotten
        /\ step' = step
    BY <1>10 DEF vars, written, callee
  <2>2. Outgoing' = Outgoing
    BY <2>1 DEF Outgoing
  <2>3. QED
    BY <2>1, <2>2 DEF HeadersInv, Called
<1>11. QED
  BY <1>1, <1>2, <1>3, <1>4, <1>5, <1>6, <1>7, <1>8, <1>9, <1>10 DEF Next

-----------------------------------------------------------------------------
(* What a workflow is started with *)

LEMMA StartInit == ASSUME Init PROVE StartInv
BY DEF Init, StartInv, InCall, Called

LEMMA StartStep == ASSUME IInv, [Next]_vars PROVE StartInv'
<1> USE DEF IInv
<1>1. CASE Set \/ Build \/ EnterRun
  BY <1>1 DEF StartInv, CallInv, InCall, Called, Set, Build, EnterRun
<1>2. CASE ReadFlags
  <2> DEFINE args == Arguments(backend, call.flags)
  <2>1. CASE step' = "failed"
    BY <2>1 DEF StartInv, InCall, Called
  <2>2. CASE step' # "failed"
    <3>1. /\ BrokenTree \notin {args[i] : i \in DOMAIN args}
          /\ call'.args = args /\ call'.params = RunParams /\ call'.flags = call.flags
          /\ opts' = [start |-> StartOptions(backend, call.flags)] /\ backend' = backend
      BY <1>2, <2>2 DEF ReadFlags
    <3>2. DOMAIN args = 1..6
      BY SixParts DEF Arguments, CadenceArguments, TemporalArguments
    <3>3. \A i \in 1..6 : args[i] # BrokenTree
      BY <3>1, <3>2
    <3> HIDE DEF args
    <3>4. args = Arguments(backend', call'.flags)
      BY <3>1 DEF args
    <3>5. QED
      BY <3>1, <3>3, <3>4 DEF StartInv
  <2>3. QED
    BY <2>1, <2>2
<1>3. CASE TaskList \/ Domain \/ AsBytes
  <2>1. AtKeyword /\ call' = call
    BY <1>3 DEF TaskList, Domain, AsBytes, NextKeyword
  <2>2. call.kind # "start"
    BY <2>1 DEF AtKeyword, CallInv, IsCall, IsStart, IsExecution
  <2>3. QED
    BY <2>1, <2>2 DEF StartInv
<1>4. CASE RefuseKeyword \/ WrongType
  BY <1>4 DEF StartInv, InCall, Called, RefuseKeyword, WrongType, EndsWith
<1>5. CASE Execute \/ CalleeReads \/ CalleeReturns \/ ExecuteFuture
  <2>1. InCall /\ call' = call /\ backend' = backend /\ opts' = opts
    BY <1>5 DEF InCall, Called, Execute, CalleeReads, CalleeReturns, ExecuteFuture
  <2>2. QED
    BY <2>1 DEF StartInv
<1>6. CASE CallAgain \/ RunCalls
  BY <1>6 DEF StartInv, InCall, Called, CallAgain, RunCalls, Onward
<1>7. CASE UNCHANGED vars
  BY <1>7 DEF StartInv, InCall, Called, vars
<1>8. QED
  BY <1>1, <1>2, <1>3, <1>4, <1>5, <1>6, <1>7 DEF Next

-----------------------------------------------------------------------------
(* What is written and read *)

LEMMA WireInit == ASSUME Init PROVE WireInv
BY DEF Init, WireInv, Called

\* While a call is on its way, what was said of its data goes on holding.
LEMMA SameCall ==
  ASSUME call' = call, backend' = backend, asBytes' = asBytes, pos' = pos
  PROVE  /\ Write(call.args)' = Write(call.args) /\ CalleeGets' = CalleeGets
         /\ Write(<<CalleeGets[2][1]>>)' = Write(<<CalleeGets[2][1]>>) /\ ScriptGets' = ScriptGets
         /\ Refused' = Refused
BY DEF Write, Read, CalleeGets, ScriptGets, Refused

LEMMA WireStep == ASSUME IInv, [Next]_vars PROVE WireInv'
<1> USE DEF IInv
<1>1. CASE Set \/ EnterRun \/ CallAgain \/ RunCalls
  BY <1>1 DEF WireInv, Called, Set, EnterRun, CallAgain, RunCalls, Onward
<1>2. CASE Build
  <2>1. call' = call /\ backend' = backend /\ (step' = "entering" \/ (step' = "failed" /\ backend = "other"))
    BY <1>2 DEF Build, CallInv
  <2>2. QED
    BY <2>1 DEF WireInv, Called, Refused
<1>3. CASE ReadFlags
  <2>1. call'.kind = "start" /\ step' \in {"failed", "keywords"}
    BY <1>3 DEF ReadFlags, CallInv
  <2>2. QED
    BY <2>1 DEF WireInv, Called
<1>4. CASE TaskList \/ Domain \/ AsBytes
  BY <1>4 DEF WireInv, Called, TaskList, Domain, AsBytes, AtKeyword, NextKeyword
<1>5. CASE RefuseKeyword \/ WrongType
  <2>1. call' = call /\ pos' = pos /\ pos <= Len(call.kwargs) /\ step' \in {"failed", "panic"}
    BY <1>5 DEF RefuseKeyword, WrongType, AtKeyword, EndsWith
  <2>2. QED
    BY <2>1 DEF WireInv, Called, Refused
<1>6. CASE Execute
  <2>1. /\ data' = Write(call.args)
        /\ \/ step' = "failed" /\ data' = Broken
           \/ step' = "panic"
           \/ step' = "scheduled" /\ data' # Broken
    BY <1>6 DEF Execute
  <2>2. Write(call.args)' = Write(call.args)
    BY <1>6, SameCall DEF Execute
  <2>3. QED
    BY <2>1, <2>2 DEF WireInv, Called
<1>7. CASE CalleeReads
  <2>1. /\ Write(call.args)' = Write(call.args) /\ CalleeGets' = CalleeGets
        /\ Write(<<CalleeGets[2][1]>>)' = Write(<<CalleeGets[2][1]>>)
    BY <1>7, SameCall DEF CalleeReads
  <2>2. Write(call.args) # Broken /\ data = Write(call.args)
    BY <1>7 DEF CalleeReads, WireInv, Called
  <2>3. \/ step' = "failed" /\ CalleeGets = Broken
        \/ step' = "running" /\ CalleeGets # Broken /\ got' = CalleeGets[2]
    BY <1>7, <2>2 DEF CalleeReads, CalleeGets
  <2>4. QED
    BY <2>1, <2>2, <2>3 DEF WireInv, Called
<1>8. CASE CalleeReturns
  <2>1. /\ Write(call.args)' = Write(call.args) /\ CalleeGets' = CalleeGets
        /\ Write(<<CalleeGets[2][1]>>)' = Write(<<CalleeGets[2][1]>>)
    BY <1>8, SameCall DEF CalleeReturns
  <2>2. Write(call.args) # Broken /\ CalleeGets # Broken /\ got = CalleeGets[2] /\ got' = got
    BY <1>8 DEF CalleeReturns, callee, WireInv, Called
  <2>3. /\ data' = Write(<<CalleeGets[2][1]>>)
        /\ \/ step' = "failed" /\ data' = Broken
           \/ step' = "returned" /\ data' # Broken
    BY <1>8, <2>2 DEF CalleeReturns
  <2>4. QED
    BY <2>1, <2>2, <2>3 DEF WireInv, Called
<1>9. CASE ExecuteFuture
  <2>1. /\ Write(call.args)' = Write(call.args) /\ CalleeGets' = CalleeGets
        /\ Write(<<CalleeGets[2][1]>>)' = Write(<<CalleeGets[2][1]>>) /\ ScriptGets' = ScriptGets
    BY <1>9, SameCall DEF ExecuteFuture
  <2>2. /\ Write(call.args) # Broken /\ CalleeGets # Broken /\ got = CalleeGets[2] /\ got' = got
        /\ Write(<<CalleeGets[2][1]>>) # Broken /\ data = Write(<<CalleeGets[2][1]>>)
    BY <1>9 DEF ExecuteFuture, callee, WireInv, Called
  <2>3. \/ step' = "failed" /\ ScriptGets \in {Broken, NoAnswer}
        \/ step' = "done" /\ ScriptGets \notin {Broken, NoAnswer} /\ res' = ScriptGets[2][1]
    BY <1>9, <2>2 DEF ExecuteFuture, ScriptGets, NoAnswer
  <2>4. QED
    BY <2>1, <2>2, <2>3 DEF WireInv, Called, NoAnswer
<1>10. CASE UNCHANGED vars
  <2>1. /\ call' = call /\ backend' = backend /\ asBytes' = asBytes /\ pos' = pos /\ step' = step
        /\ data' = data /\ got' = got /\ res' = res
    BY <1>10 DEF vars, written, callee
  <2>2. QED
    BY <2>1, SameCall DEF WireInv, Called, NoAnswer
<1>11. QED
  BY <1>1, <1>2, <1>3, <1>4, <1>5, <1>6, <1>7, <1>8, <1>9, <1>10 DEF Next

-----------------------------------------------------------------------------
(* The loop over the keywords *)

LEMMA KeywordInit == ASSUME Init PROVE KeywordInv
<1>1. IsCall(call)
  BY CallsAssumption DEF Init
<1>2. Len(call.setters) \in Nat
  BY <1>1, LenInNat DEF IsCall
<1>3. QED
  BY <1>2 DEF Init, KeywordInv, InCall, Called

\* One more keyword.
LEMMA OneMore ==
  ASSUME NEW ks, IsSeq(ks), NEW n \in Nat, n >= 1, n <= Len(ks)
  PROVE  /\ BytesAsked(ks, n) <=> BytesAsked(ks, n - 1) \/ (ks[n].key = "as_bytes" /\ ks[n].val = TRUE)
         /\ \A key : Has(ks, key, n) <=> Has(ks, key, n - 1) \/ ks[n].key = key
<1>1. 1..n = 1..(n - 1) \cup {n}
  OBVIOUS
<1>2. QED
  BY <1>1 DEF BytesAsked, Has

LEMMA KeywordStep == ASSUME IInv, [Next]_vars PROVE KeywordInv'
<1> USE DEF IInv
<1>1. IsSeq(call.kwargs) /\ Len(call.kwargs) \in Nat /\ DOMAIN call.kwargs = 1..Len(call.kwargs)
      /\ IsSeq(call.setters) /\ Len(call.setters) \in Nat /\ pos \in Nat \ {0}
  BY LenInNat DEF CallInv, IsCall
<1>2. CASE Set \/ EnterRun
  <2>1. CASE Set
    <3>1. call' = call /\ asBytes' = asBytes /\ step' = "building" /\ step = step' /\ pos' = pos + 1
          /\ pos <= Len(call.setters)
      BY <2>1 DEF Set
    <3>2. pos' <= Len(call.setters) + 1
      BY <1>1, <3>1
    <3>3. QED
      BY <3>1, <3>2 DEF KeywordInv, InCall, Called
  <2>2. CASE EnterRun
    <3>1. call' = call /\ asBytes' = asBytes /\ pos' = pos /\ step' \in {"panic", "keywords"} /\ pos = 1
          /\ asBytes = FALSE
      BY <2>2 DEF EnterRun, KeywordInv
    <3>2. step' = "keywords" => KeywordsRead' = 0
      BY <3>1 DEF KeywordsRead
    <3>3. BytesAsked(call.kwargs, 0) = FALSE
      BY DEF BytesAsked
    <3>4. step' = "keywords" => asBytes' = BytesAsked(call'.kwargs, KeywordsRead')
      BY <3>1, <3>2, <3>3
    <3>5. step' = "keywords" => 1..KeywordsRead' = {} /\ pos' <= Len(call'.kwargs) + 1
      BY <1>1, <3>1, <3>2
    <3>6. QED
      BY <3>1, <3>4, <3>5 DEF KeywordInv, InCall, Called
  <2>3. QED
    BY <1>2, <2>1, <2>2
<1>3. CASE Build
  <2>1. /\ call' = call /\ backend' = backend /\ asBytes' = asBytes /\ pos' = 1 /\ step = "building"
        /\ (step' = "entering" \/ (step' = "failed" /\ backend = "other"))
    BY <1>3 DEF Build, CallInv
  <2>2. QED
    BY <1>1, <2>1 DEF KeywordInv, InCall, Called, Refused
<1>4. CASE ReadFlags
  <2>1. /\ call.kind = "start" /\ call.kwargs = <<>> /\ pos' = pos /\ asBytes' = asBytes /\ step = "flags"
        /\ call'.kind = "start" /\ call'.kwargs = <<>> /\ step' \in {"failed", "keywords"}
    BY <1>4 DEF ReadFlags, CallInv, IsCall, IsStart, IsExecution
  <2>2. pos = 1 /\ asBytes = FALSE /\ Len(<<>>) = 0
    BY <2>1 DEF KeywordInv
  <2>3. BytesAsked(<<>>, 0) = FALSE
    BY DEF BytesAsked
  <2>4. step' = "keywords" => KeywordsRead' = 0
    BY <2>1, <2>2 DEF KeywordsRead
  <2>5. step' = "keywords" => asBytes' = BytesAsked(call'.kwargs, KeywordsRead')
    BY <2>1, <2>2, <2>3, <2>4
  <2>6. step' = "keywords" => 1..KeywordsRead' = {} /\ pos' <= Len(call'.kwargs) + 1
    BY <2>1, <2>2, <2>4
  <2>7. QED
    BY <2>1, <2>2, <2>5, <2>6 DEF KeywordInv, InCall, Called
<1>5. ASSUME TaskList \/ Domain \/ AsBytes
      PROVE  KeywordInv'
  <2>1. /\ step = "keywords" /\ step' = step /\ call' = call /\ pos' = pos + 1 /\ pos <= Len(call.kwargs)
        /\ call.kwargs[pos].key \in Accepted /\ call.kwargs[pos].typed
    BY <1>5 DEF TaskList, Domain, AsBytes, AtKeyword, NextKeyword, Keyword, Accepted
  <2>2. /\ \A i \in 1..(pos - 1) : call.kwargs[i].key \in Accepted /\ call.kwargs[i].typed
        /\ asBytes = BytesAsked(call.kwargs, pos - 1)
    BY <2>1 DEF KeywordInv, InCall, KeywordsRead
  <2>3. \A i \in 1..pos : call.kwargs[i].key \in Accepted /\ call.kwargs[i].typed
    BY <1>1, <2>1, <2>2
  <2>4. asBytes' = BytesAsked(call.kwargs, pos)
    <3>1. BytesAsked(call.kwargs, pos)
            <=> BytesAsked(call.kwargs, pos - 1)
                  \/ (call.kwargs[pos].key = "as_bytes" /\ call.kwargs[pos].val = TRUE)
      <4>1. pos \in Nat /\ pos >= 1
        BY <1>1
      <4>2. QED
        BY <1>1, <2>1, <4>1, OneMore
    <3>2. CASE TaskList \/ Domain
      <4>1. call.kwargs[pos].key # "as_bytes" /\ asBytes' = asBytes
        BY <3>2 DEF TaskList, Domain, Keyword
      <4>2. QED
        BY <2>2, <3>1, <4>1 DEF BytesAsked
    <3>3. CASE AsBytes
      <4>1. call.kwargs[pos].key = "as_bytes" /\ asBytes' = call.kwargs[pos].val
        BY <3>3 DEF AsBytes, Keyword
      <4>2. pos \in DOMAIN call.kwargs
        BY <1>1, <2>1
      <4>3. call.kwargs[pos].val \in BOOLEAN
        BY <2>1, <4>1, <4>2 DEF CallInv, IsCall, IsKeyword
      <4>4. \A i \in 1..(pos - 1) : call.kwargs[i].key # "as_bytes"
        <5>1. \A i \in 1..(pos - 1) : i \in DOMAIN call.kwargs /\ i # pos
          BY <1>1, <2>1
        <5>2. QED
          BY <4>1, <4>2, <5>1 DEF CallInv, IsCall
      <4>5. ~BytesAsked(call.kwargs, pos - 1)
        BY <4>4 DEF BytesAsked
      <4>6. BytesAsked(call.kwargs, pos) <=> call.kwargs[pos].val = TRUE
        BY <3>1, <4>1, <4>5
      <4>7. BytesAsked(call.kwargs, pos) \in BOOLEAN
        BY DEF BytesAsked
      <4>8. QED
        BY <4>1, <4>3, <4>6, <4>7
    <3>4. QED
      BY <1>5, <3>2, <3>3
  <2>5. KeywordsRead' = pos /\ Accepted' = Accepted
    BY <1>1, <2>1 DEF KeywordsRead, Accepted
  <2>6. QED
    BY <1>1, <2>1, <2>3, <2>4, <2>5 DEF KeywordInv, Called
<1>6. CASE RefuseKeyword \/ WrongType
  <2>1. call' = call /\ pos' = pos /\ pos <= Len(call.kwargs) /\ step' \in {"failed", "panic"}
    BY <1>6 DEF RefuseKeyword, WrongType, AtKeyword, EndsWith
  <2>2. QED
    BY <2>1 DEF KeywordInv, InCall, Called, Refused
<1>7. CASE Execute
  <2>1. /\ call' = call /\ pos' = pos /\ asBytes' = asBytes /\ step = "keywords"
        /\ pos > Len(call.kwargs) /\ step' \in {"failed", "panic", "scheduled"}
    BY <1>7 DEF Execute
  <2>2. pos = Len(call.kwargs) + 1 /\ InCall
    BY <1>1, <2>1 DEF KeywordInv, InCall
  <2>3. KeywordsRead = Len(call.kwargs) /\ KeywordsRead' = Len(call.kwargs) /\ Accepted' = Accepted
    BY <1>1, <2>1, <2>2 DEF KeywordsRead, Accepted
  <2>4. QED
    BY <2>1, <2>2, <2>3 DEF KeywordInv, InCall, Called
<1>8. CASE CalleeReads \/ CalleeReturns \/ ExecuteFuture
  <2>1. /\ call' = call /\ pos' = pos /\ asBytes' = asBytes /\ Called
        /\ step' \in {"failed", "running", "returned", "done"}
    BY <1>8 DEF CalleeReads, CalleeReturns, ExecuteFuture, Called
  <2>2. KeywordsRead = Len(call.kwargs) /\ KeywordsRead' = Len(call.kwargs) /\ Accepted' = Accepted
    BY <2>1 DEF KeywordsRead, Accepted, Called
  <2>3. QED
    BY <2>1, <2>2 DEF KeywordInv, InCall, Called
<1>9. CASE CallAgain \/ RunCalls
  <2>1. IsSeq(call'.setters)
    BY CallStep DEF CallInv, IsCall
  <2>2. Len(call'.setters) \in Nat
    BY <2>1, LenInNat
  <2>3. step' = "building" /\ pos' = 1 /\ asBytes' = FALSE
    BY <1>9 DEF CallAgain, RunCalls, Onward
  <2>4. QED
    BY <2>2, <2>3 DEF KeywordInv, InCall, Called
<1>10. CASE UNCHANGED vars
  <2>1. /\ call' = call /\ backend' = backend /\ asBytes' = asBytes /\ pos' = pos /\ step' = step
    BY <1>10 DEF vars
  <2>2. KeywordsRead' = KeywordsRead /\ Accepted' = Accepted /\ Refused' = Refused
    BY <2>1 DEF KeywordsRead, Accepted, Refused
  <2>3. QED
    BY <2>1, <2>2 DEF KeywordInv, InCall, Called
<1>11. QED
  BY <1>2, <1>3, <1>4, <1>5, <1>6, <1>7, <1>8, <1>9, <1>10 DEF Next

-----------------------------------------------------------------------------
(* The second call *)

LEMMA FirstInit == ASSUME Init PROVE FirstInv
BY DEF Init, FirstInv

LEMMA FirstKept ==
  ASSUME FirstInv, call' = call, backend' = backend, first' = first,
         first # Nil /\ step' = "failed" => ~Refused'
  PROVE  FirstInv'
<1>1. Accepted' = Accepted /\ (OthersPass' <=> OthersPass)
  BY DEF Accepted, OthersPass
<1>2. QED
  BY <1>1 DEF FirstInv, Settled

LEMMA FirstStep == ASSUME IInv, [Next]_vars PROVE FirstInv'
<1> USE DEF IInv
<1>1. IsSeq(call.kwargs) /\ Len(call.kwargs) \in Nat /\ DOMAIN call.kwargs = 1..Len(call.kwargs)
      /\ pos \in Nat \ {0}
  BY LenInNat DEF CallInv, IsCall
<1>2. CASE Set \/ EnterRun \/ TaskList \/ Domain \/ AsBytes
  <2>1. call' = call /\ backend' = backend /\ first' = first
    BY <1>2 DEF Set, EnterRun, TaskList, Domain, AsBytes, NextKeyword
  <2>2. step' # "failed"
    BY <1>2 DEF Set, EnterRun, TaskList, Domain, AsBytes, AtKeyword, NextKeyword
  <2>3. QED
    BY <2>1, <2>2, FirstKept
<1>3. CASE Build
  <2>1. /\ call' = call /\ backend' = backend /\ first' = first
        /\ (step' = "entering" \/ (step' = "failed" /\ backend = "other"))
    BY <1>3 DEF Build, CallInv
  <2>2. first # Nil => backend # "other"
    BY DEF FirstInv
  <2>3. QED
    BY <2>1, <2>2, FirstKept
<1>4. CASE ReadFlags \/ RunCalls
  <2>1. call.kind = "start" /\ first' = first
    BY <1>4 DEF ReadFlags, RunCalls, CallInv
  <2>2. first' = Nil
    BY <2>1 DEF FirstInv
  <2>3. QED
    BY <2>2 DEF FirstInv
<1>5. CASE RefuseKeyword \/ WrongType
  <2>1. /\ call' = call /\ backend' = backend /\ first' = first /\ pos \in DOMAIN call.kwargs
        /\ ~(call.kwargs[pos].key \in Accepted /\ call.kwargs[pos].typed)
    BY <1>1, <1>5 DEF RefuseKeyword, WrongType, AtKeyword, Keyword, EndsWith
  <2>2. first = Nil
    BY <2>1 DEF FirstInv
  <2>3. QED
    BY <2>1, <2>2, FirstKept
<1>6. CASE Execute \/ CalleeReads \/ CalleeReturns \/ ExecuteFuture
  <2>1. call' = call /\ backend' = backend /\ first' = first /\ pos' = pos
    BY <1>6 DEF Execute, CalleeReads, CalleeReturns, ExecuteFuture
  <2>2. pos > Len(call.kwargs)
    <3>1. CASE Execute
      BY <3>1 DEF Execute
    <3>2. CASE CalleeReads \/ CalleeReturns \/ ExecuteFuture
      <4>1. pos = Len(call.kwargs) + 1
        BY <3>2 DEF CalleeReads, CalleeReturns, ExecuteFuture, KeywordInv, Called
      <4>2. QED
        BY <1>1, <4>1
    <3>3. QED
      BY <1>6, <3>1, <3>2
  <2>3. first # Nil => ~Refused
    BY <1>1, <2>2 DEF FirstInv, Refused
  <2>4. Refused' = Refused
    BY <2>1 DEF Refused
  <2>5. QED
    BY <2>1, <2>3, <2>4, FirstKept
<1>7. CASE CallAgain
  <2>1. step = "done" /\ call.kind # "start" /\ backend # "other" /\ IsCall(call)
    BY <1>7 DEF CallAgain, CallInv
  <2>2. IsValue(res) /\ Settled(res, asBytes)
    BY <2>1, ResultSettled
  <2>3. /\ first' = res /\ call' = [call EXCEPT !.args[1] = res] /\ backend' = backend /\ step' = "building"
    BY <1>7 DEF CallAgain, Onward
  <2>4. /\ call'.kind = call.kind /\ call'.kwargs = call.kwargs /\ call'.params = call.params
        /\ call'.args[1] = res /\ Len(call'.args) = Len(call.args)
        /\ \A i \in 2..Len(call.args) : call'.args[i] = call.args[i]
    BY <2>1, <2>2, <2>3, Replaced
  <2>5. KeywordsRead = Len(call.kwargs) /\ InCall
    BY <2>1 DEF KeywordsRead, InCall, Called
  <2>6. /\ asBytes = BytesAsked(call.kwargs, Len(call.kwargs))
        /\ \A i \in DOMAIN call.kwargs : call.kwargs[i].key \in Accepted /\ call.kwargs[i].typed
    BY <1>1, <2>5 DEF KeywordInv
  <2>7. OthersPass
    <3>1. SUFFICES ASSUME Len(call.args) = Len(call.params), NEW i \in 2..Len(call.args)
                   PROVE  ToLine(call.args[i]) # BrokenTree
                          /\ Decode(ToLine(call.args[i]), call.params[i]) # BrokenTree
      BY DEF OthersPass
    <3>2. IsSeq(call.args) /\ IsSeq(call.params)
      BY <2>1 DEF IsCall, IsStart, IsExecution
    <3>3. Len(call.args) > 1 /\ i \in DOMAIN call.args
      BY <3>1, <3>2, LenInNat
    <3>4. Write(call.args) # Broken /\ Read(Write(call.args), call.params) # Broken
      BY <2>1 DEF WireInv, Called, CalleeGets
    <3>5. QED
      BY <3>1, <3>2, <3>3, <3>4, EachPassed
  <2>8. Accepted' = Accepted /\ (OthersPass' <=> OthersPass)
    BY <2>4 DEF Accepted, OthersPass
  <2>9. Settled(res, asBytes) <=> Settled(first', BytesAsked(call'.kwargs, Len(call'.kwargs)))
    BY <2>3, <2>4, <2>6
  <2>10. QED
    BY <2>1, <2>2, <2>3, <2>4, <2>6, <2>7, <2>8, <2>9 DEF FirstInv
<1>8. CASE UNCHANGED vars
  <2>1. call' = call /\ backend' = backend /\ first' = first /\ pos' = pos /\ step' = step
    BY <1>8 DEF vars
  <2>2. Refused' = Refused
    BY <2>1 DEF Refused
  <2>3. QED
    BY <2>1, <2>2, FirstKept DEF FirstInv
<1>9. QED
  BY <1>2, <1>3, <1>4, <1>5, <1>6, <1>7, <1>8 DEF Next

-----------------------------------------------------------------------------
(* The setters of the builder *)

LEMMA LastIs ==
  ASSUME NEW ss, NEW kind, NEW n \in Nat, NEW i \in 0..n, i = 0 \/ ss[i][1] = kind,
         \A j \in (i + 1)..n : ss[j][1] # kind
  PROVE  LastOf(ss, kind, n) = i
<1> DEFINE Last(k) == (k = 0 \/ ss[k][1] = kind) /\ \A j \in (k + 1)..n : ss[j][1] # kind
<1>1. Last(i)
  OBVIOUS
<1>2. ASSUME NEW k \in 0..n, Last(k)
      PROVE  k = i
  <2>1. CASE k < i
    <3>1. i \in (k + 1)..n /\ i # 0
      BY <2>1
    <3>2. QED
      BY <1>1, <1>2, <3>1
  <2>2. CASE i < k
    <3>1. k \in (i + 1)..n /\ k # 0
      BY <2>2
    <3>2. QED
      BY <1>1, <1>2, <3>1
  <2>3. QED
    BY <2>1, <2>2
<1>3. LastOf(ss, kind, n) = CHOOSE k \in 0..n : Last(k)
  BY DEF LastOf
<1> HIDE DEF Last
<1>4. QED
  BY <1>1, <1>2, <1>3

LEMMA QueueReset ==
  ASSUME NEW o, NEW q, NEW fields
  PROVE  /\ \A x : [[o EXCEPT !.queue = x] EXCEPT !.queue = q] = [o EXCEPT !.queue = q]
         /\ IsRecord(o, fields) => IsRecord([o EXCEPT !.queue = q], fields)
BY DEF IsRecord

LEMMA BothQueues ==
  ASSUME NEW ao, NEW wo, NEW q
  PROVE  SetClientTaskList([activity |-> ao, child |-> wo], q)
           = [activity |-> [ao EXCEPT !.queue = q], child |-> [wo EXCEPT !.queue = q]]
<1> DEFINE b == [activity |-> ao, child |-> wo]
           an == [ao EXCEPT !.queue = q]
           wn == [wo EXCEPT !.queue = q]
<1>1. [b EXCEPT !.activity = an, !.child = wn] = [activity |-> an, child |-> wn]
  <2> HIDE DEF an, wn
  <2> DEFINE half == [b EXCEPT !.activity = an]
  <2>1. half = [activity |-> an, child |-> wo]
    OBVIOUS
  <2>2. [b EXCEPT !.activity = an, !.child = wn] = [half EXCEPT !.child = wn]
    OBVIOUS
  <2> HIDE DEF half
  <2>3. QED
    BY <2>1, <2>2
<1>2. b.activity = ao /\ b.child = wo
  OBVIOUS
<1>3. SetClientTaskList(b, q) = [b EXCEPT !.activity = an, !.child = wn]
  BY <1>2 DEF SetClientTaskList
<1>4. QED
  BY <1>1, <1>3

\* A new builder has been told nothing.
LEMMA NoneTold ==
  ASSUME NEW ss
  PROVE  LastInv(ss, 0) /\ ToldTo(ss, 0) = NewServiceBuilder /\ Records(ToldTo(ss, 0))
<1>1. \A kind : LastOf(ss, kind, 0) = 0
  <2>1. 0 \in 0..0 /\ 0 \in Nat /\ \A j : j \notin (0 + 1)..0
    OBVIOUS
  <2>2. QED
    BY <2>1, LastIs
<1>2. LastInv(ss, 0)
  BY <1>1 DEF LastInv
<1>3. ToldTo(ss, 0) = NewServiceBuilder
  BY <1>1 DEF ToldTo, ToldBy, NewServiceBuilder
<1>4. Records(NewServiceBuilder)
  BY DEF Records, IsRecord, NewServiceBuilder, DefaultActivityOptions, DefaultChildWorkflowOptions
<1>5. QED
  BY <1>2, <1>3, <1>4

\* What one more setter does.
LEMMA OneMoreSet ==
  ASSUME NEW ss, NEW n \in Nat, LastInv(ss, n), Records(ToldTo(ss, n)), IsSetter(ss[n + 1])
  PROVE  LET b == ToldTo(ss, n)
             c == ss[n + 1]
         IN /\ LastInv(ss, n + 1) /\ Records(ToldTo(ss, n + 1))
            /\ ToldTo(ss, n + 1) = CASE c[1] = "list" -> SetClientTaskList(b, c[2])
                                     [] c[1] = "activity" -> SetActivityOptions(b, c[2])
                                     [] c[1] = "child" -> SetChildWorkflowOptions(b, c[2])
<1> DEFINE b == ToldTo(ss, n)
           c == ss[n + 1]
           m == n + 1
           kinds == {"list", "activity", "child"}
           l == LastOf(ss, "list", n)
           a == LastOf(ss, "activity", n)
           w == LastOf(ss, "child", n)
           ao == IF a = 0 THEN DefaultActivityOptions ELSE ss[a][2]
           wo == IF w = 0 THEN DefaultChildWorkflowOptions ELSE ss[w][2]
<1>1. c[1] \in kinds
  BY DEF IsSetter
<1>2. LastOf(ss, c[1], m) = m
  <2>1. m \in Nat /\ m \in 0..m /\ \A j : j \notin (m + 1)..m
    OBVIOUS
  <2>2. QED
    BY <2>1, LastIs
<1>3. ASSUME NEW kind \in kinds, kind # c[1]
      PROVE  LastOf(ss, kind, m) = LastOf(ss, kind, n)
  <2> DEFINE i == LastOf(ss, kind, n)
  <2>1. i \in 0..n /\ (i = 0 \/ ss[i][1] = kind) /\ \A j \in (i + 1)..n : ss[j][1] # kind
    BY DEF LastInv
  <2> HIDE DEF i
  <2>2. m \in Nat /\ i \in 0..m /\ (i + 1)..m = (i + 1)..n \cup {m}
    BY <2>1
  <2>3. \A j \in (i + 1)..m : ss[j][1] # kind
    BY <1>3, <2>1, <2>2
  <2>4. LastOf(ss, kind, m) = i
    BY <2>1, <2>2, <2>3, LastIs
  <2>5. QED
    BY <2>4 DEF i
<1>4. /\ \A kind \in kinds : LastOf(ss, kind, n) \in 0..n
      /\ l \in 0..n /\ a \in 0..n /\ w \in 0..n
  BY DEF LastInv
<1>5. LastInv(ss, m)
  <2>1. ASSUME NEW kind \in kinds
        PROVE  LET i == LastOf(ss, kind, m)
               IN i \in 0..m /\ (i = 0 \/ ss[i][1] = kind) /\ \A j \in (i + 1)..m : ss[j][1] # kind
    <3>1. CASE kind = c[1]
      <4>1. m \in 0..m /\ (m + 1)..m = {} /\ ss[m][1] = kind
        BY <3>1
      <4>2. QED
        BY <1>2, <3>1, <4>1
    <3>2. CASE kind # c[1]
      <4> DEFINE i == LastOf(ss, kind, n)
      <4>1. i \in 0..n /\ (i = 0 \/ ss[i][1] = kind) /\ \A j \in (i + 1)..n : ss[j][1] # kind
        BY DEF LastInv
      <4>2. LastOf(ss, kind, m) = i
        BY <1>3, <3>2
      <4> HIDE DEF i
      <4>3. i \in 0..m /\ (i + 1)..m = (i + 1)..n \cup {m}
        BY <4>1
      <4>4. QED
        BY <3>2, <4>1, <4>2, <4>3
    <3>3. QED
      BY <3>1, <3>2
  <2>2. QED
    BY <2>1 DEF LastInv
<1>6. /\ b = [activity |-> b.activity, child |-> b.child]
      /\ b.activity = IF l > a THEN [ao EXCEPT !.queue = ss[l][2]] ELSE ao
      /\ b.child = IF l > w THEN [wo EXCEPT !.queue = ss[l][2]] ELSE wo
      /\ IsRecord(b.activity, DOMAIN DefaultActivityOptions)
      /\ IsRecord(b.child, DOMAIN DefaultChildWorkflowOptions)
  BY DEF ToldTo, ToldBy, Records
<1>7. CASE c[1] = "list"
  <2>1. /\ LastOf(ss, "list", m) = m /\ LastOf(ss, "activity", m) = a /\ LastOf(ss, "child", m) = w
    BY <1>2, <1>3, <1>7
  <2>2. m > a /\ m > w
    BY <1>4
  <2>3. ToldTo(ss, m) = [activity |-> [ao EXCEPT !.queue = c[2]], child |-> [wo EXCEPT !.queue = c[2]]]
    BY <2>1, <2>2 DEF ToldTo, ToldBy
  <2> HIDE DEF ao, wo, b, c, l, a, w
  <2>4. /\ [b.activity EXCEPT !.queue = c[2]] = [ao EXCEPT !.queue = c[2]]
        /\ [b.child EXCEPT !.queue = c[2]] = [wo EXCEPT !.queue = c[2]]
        /\ IsRecord([b.activity EXCEPT !.queue = c[2]], DOMAIN DefaultActivityOptions)
        /\ IsRecord([b.child EXCEPT !.queue = c[2]], DOMAIN DefaultChildWorkflowOptions)
    BY <1>6, QueueReset
  <2>5. SetClientTaskList(b, c[2])
          = [activity |-> [b.activity EXCEPT !.queue = c[2]], child |-> [b.child EXCEPT !.queue = c[2]]]
    BY <1>6, BothQueues
  <2>6. ToldTo(ss, m) = SetClientTaskList(b, c[2]) /\ Records(ToldTo(ss, m))
    BY <2>3, <2>4, <2>5 DEF Records
  <2>7. QED
    BY <1>5, <1>7, <2>6 DEF b, c
<1>8. CASE c[1] = "activity"
  <2>1. LastOf(ss, "list", m) = l /\ LastOf(ss, "activity", m) = m /\ LastOf(ss, "child", m) = w
    BY <1>2, <1>3, <1>8
  <2>2. m # 0 /\ ~(l > m)
    BY <1>4
  <2>3. ToldTo(ss, m) = [activity |-> c[2], child |-> b.child]
    BY <2>1, <2>2, <1>6 DEF ToldTo, ToldBy
  <2>4. IsRecord(c[2], DOMAIN DefaultActivityOptions)
    BY <1>8 DEF IsSetter
  <2> HIDE DEF ao, wo, b, c, l, a, w
  <2>5. ToldTo(ss, m) = SetActivityOptions(b, c[2]) /\ Records(ToldTo(ss, m))
    BY <1>6, <2>3, <2>4 DEF SetActivityOptions, Records
  <2>6. QED
    BY <1>5, <1>8, <2>5 DEF b, c
<1>9. CASE c[1] = "child"
  <2>1. LastOf(ss, "list", m) = l /\ LastOf(ss, "activity", m) = a /\ LastOf(ss, "child", m) = m
    BY <1>2, <1>3, <1>9
  <2>2. m # 0 /\ ~(l > m)
    BY <1>4
  <2>3. ToldTo(ss, m) = [activity |-> b.activity, child |-> c[2]]
    BY <2>1, <2>2, <1>6 DEF ToldTo, ToldBy
  <2>4. IsRecord(c[2], DOMAIN DefaultChildWorkflowOptions)
    BY <1>9 DEF IsSetter
  <2> HIDE DEF ao, wo, b, c, l, a, w
  <2>5. ToldTo(ss, m) = SetChildWorkflowOptions(b, c[2]) /\ Records(ToldTo(ss, m))
    BY <1>6, <2>3, <2>4 DEF SetChildWorkflowOptions, Records
  <2>6. QED
    BY <1>5, <1>9, <2>5 DEF b, c
<1>10. QED
  BY <1>1, <1>7, <1>8, <1>9

-----------------------------------------------------------------------------
(* The options of a context *)

ActivityFields == DOMAIN DefaultActivityOptions
ChildFields == DOMAIN DefaultChildWorkflowOptions
ContextFields == {"activity", "workflow", "own"}

LEMMA SameRecord ==
  ASSUME NEW o, NEW w, NEW fields, IsRecord(o, fields), IsRecord(w, fields), \A f \in fields : o[f] = w[f]
  PROVE  o = w
BY DEF IsRecord

LEMMA FieldNames ==
  /\ ActivityFields = {"queue", "timeouts", "wait", "id", "retry"}
  /\ ChildFields = {"domain", "id", "queue", "timeouts", "wait", "reuse", "retry", "cron", "attributes", "close"}
BY DEF ActivityFields, ChildFields, DefaultActivityOptions, DefaultChildWorkflowOptions

\* The options of an activity with another queue and retry policy.
QueueAndRetry(o, q, r) == [o EXCEPT !.queue = q, !.retry = r]

LEMMA QueueAndRetryFields ==
  ASSUME NEW o, NEW fields, IsRecord(o, fields), NEW q, NEW r
  PROVE  LET w == QueueAndRetry(o, q, r)
         IN IsRecord(w, fields)
            /\ \A f \in fields : w[f] = CASE f = "queue" -> q [] f = "retry" -> r [] OTHER -> o[f]
<1> DEFINE o1 == [o EXCEPT !.queue = q]
           o2 == [o1 EXCEPT !.retry = r]
<1>1. QueueAndRetry(o, q, r) = o2
  BY DEF QueueAndRetry
<1>2. IsRecord(o1, fields) /\ \A f \in fields : o1[f] = IF f = "queue" THEN q ELSE o[f]
  BY DEF IsRecord
<1> HIDE DEF o1
<1>3. IsRecord(o2, fields) /\ \A f \in fields : o2[f] = IF f = "retry" THEN r ELSE o1[f]
  BY <1>2 DEF IsRecord
<1> HIDE DEF o2
<1>4. QED
  BY <1>1, <1>2, <1>3

\* What Cadence's adapter makes of the options of a child.
CadenceChild(o, q, d) == [o EXCEPT !.queue = q, !.domain = d, !.reuse = 0, !.close = "unset"]

LEMMA CadenceChildFields ==
  ASSUME NEW o, NEW fields, IsRecord(o, fields), NEW q, NEW d
  PROVE  LET w == CadenceChild(o, q, d)
         IN IsRecord(w, fields)
            /\ \A f \in fields :
                 w[f] = CASE f = "queue" -> q [] f = "domain" -> d [] f = "reuse" -> 0
                          [] f = "close" -> "unset" [] OTHER -> o[f]
<1> DEFINE o1 == [o EXCEPT !.queue = q]
           o2 == [o1 EXCEPT !.domain = d]
           o3 == [o2 EXCEPT !.reuse = 0]
           o4 == [o3 EXCEPT !.close = "unset"]
<1>1. CadenceChild(o, q, d) = o4
  BY DEF CadenceChild
<1>2. IsRecord(o1, fields) /\ \A f \in fields : o1[f] = IF f = "queue" THEN q ELSE o[f]
  BY DEF IsRecord
<1> HIDE DEF o1
<1>3. IsRecord(o2, fields) /\ \A f \in fields : o2[f] = IF f = "domain" THEN d ELSE o1[f]
  BY <1>2 DEF IsRecord
<1> HIDE DEF o2
<1>4. IsRecord(o3, fields) /\ \A f \in fields : o3[f] = IF f = "reuse" THEN 0 ELSE o2[f]
  BY <1>3 DEF IsRecord
<1> HIDE DEF o3
<1>5. IsRecord(o4, fields) /\ \A f \in fields : o4[f] = IF f = "close" THEN "unset" ELSE o3[f]
  BY <1>4 DEF IsRecord
<1> HIDE DEF o4
<1>6. QED
  BY <1>1, <1>2, <1>3, <1>4, <1>5

\* What is expected of it.
CadenceAsked(o, d, q) == [[o EXCEPT !.close = "unset"] EXCEPT !.domain = d, !.reuse = 0, !.queue = q]

LEMMA CadenceAskedFields ==
  ASSUME NEW o, NEW fields, IsRecord(o, fields), NEW q, NEW d
  PROVE  LET w == CadenceAsked(o, d, q)
         IN IsRecord(w, fields)
            /\ \A f \in fields :
                 w[f] = CASE f = "queue" -> q [] f = "domain" -> d [] f = "reuse" -> 0
                          [] f = "close" -> "unset" [] OTHER -> o[f]
<1> DEFINE o1 == [o EXCEPT !.close = "unset"]
           o2 == [o1 EXCEPT !.domain = d]
           o3 == [o2 EXCEPT !.reuse = 0]
           o4 == [o3 EXCEPT !.queue = q]
<1>1. CadenceAsked(o, d, q) = o4
  BY DEF CadenceAsked
<1>2. IsRecord(o1, fields) /\ \A f \in fields : o1[f] = IF f = "close" THEN "unset" ELSE o[f]
  BY DEF IsRecord
<1> HIDE DEF o1
<1>3. IsRecord(o2, fields) /\ \A f \in fields : o2[f] = IF f = "domain" THEN d ELSE o1[f]
  BY <1>2 DEF IsRecord
<1> HIDE DEF o2
<1>4. IsRecord(o3, fields) /\ \A f \in fields : o3[f] = IF f = "reuse" THEN 0 ELSE o2[f]
  BY <1>3 DEF IsRecord
<1> HIDE DEF o3
<1>5. IsRecord(o4, fields) /\ \A f \in fields : o4[f] = IF f = "queue" THEN q ELSE o3[f]
  BY <1>4 DEF IsRecord
<1> HIDE DEF o4
<1>6. QED
  BY <1>1, <1>2, <1>3, <1>4, <1>5

\* What Temporal's adapter makes of the options of a child.
TemporalChild(o, q, d, n, r, own) ==
  [o EXCEPT !.queue = q, !.domain = d, !.reuse = n, !.close = "unset", !.retry = r, !.attributes = own]

LEMMA TemporalChildFields ==
  ASSUME NEW o, NEW fields, IsRecord(o, fields), NEW q, NEW d, NEW n, NEW r, NEW own
  PROVE  LET w == TemporalChild(o, q, d, n, r, own)
         IN IsRecord(w, fields)
            /\ \A f \in fields :
                 w[f] = CASE f = "queue" -> q [] f = "domain" -> d [] f = "reuse" -> n
                          [] f = "close" -> "unset" [] f = "retry" -> r [] f = "attributes" -> own
                          [] OTHER -> o[f]
<1> DEFINE o1 == [o EXCEPT !.queue = q]
           o2 == [o1 EXCEPT !.domain = d]
           o3 == [o2 EXCEPT !.reuse = n]
           o4 == [o3 EXCEPT !.close = "unset"]
           o5 == [o4 EXCEPT !.retry = r]
           o6 == [o5 EXCEPT !.attributes = own]
<1>1. TemporalChild(o, q, d, n, r, own) = o6
  BY DEF TemporalChild
<1>2. IsRecord(o1, fields) /\ \A f \in fields : o1[f] = IF f = "queue" THEN q ELSE o[f]
  BY DEF IsRecord
<1> HIDE DEF o1
<1>3. IsRecord(o2, fields) /\ \A f \in fields : o2[f] = IF f = "domain" THEN d ELSE o1[f]
  BY <1>2 DEF IsRecord
<1> HIDE DEF o2
<1>4. IsRecord(o3, fields) /\ \A f \in fields : o3[f] = IF f = "reuse" THEN n ELSE o2[f]
  BY <1>3 DEF IsRecord
<1> HIDE DEF o3
<1>5. IsRecord(o4, fields) /\ \A f \in fields : o4[f] = IF f = "close" THEN "unset" ELSE o3[f]
  BY <1>4 DEF IsRecord
<1> HIDE DEF o4
<1>6. IsRecord(o5, fields) /\ \A f \in fields : o5[f] = IF f = "retry" THEN r ELSE o4[f]
  BY <1>5 DEF IsRecord
<1> HIDE DEF o5
<1>7. IsRecord(o6, fields) /\ \A f \in fields : o6[f] = IF f = "attributes" THEN own ELSE o5[f]
  BY <1>6 DEF IsRecord
<1> HIDE DEF o6
<1>8. QED
  BY <1>1, <1>2, <1>3, <1>4, <1>5, <1>6, <1>7

\* What is expected of it.
TemporalAsked(o, r, n) == [[o EXCEPT !.close = "unset"] EXCEPT !.retry = r, !.reuse = n]

LEMMA TemporalAskedFields ==
  ASSUME NEW o, NEW fields, IsRecord(o, fields), NEW r, NEW n
  PROVE  LET w == TemporalAsked(o, r, n)
         IN IsRecord(w, fields)
            /\ \A f \in fields :
                 w[f] = CASE f = "retry" -> r [] f = "reuse" -> n [] f = "close" -> "unset" [] OTHER -> o[f]
<1> DEFINE o1 == [o EXCEPT !.close = "unset"]
           o2 == [o1 EXCEPT !.retry = r]
           o3 == [o2 EXCEPT !.reuse = n]
<1>1. TemporalAsked(o, r, n) = o3
  BY DEF TemporalAsked
<1>2. IsRecord(o1, fields) /\ \A f \in fields : o1[f] = IF f = "close" THEN "unset" ELSE o[f]
  BY DEF IsRecord
<1> HIDE DEF o1
<1>3. IsRecord(o2, fields) /\ \A f \in fields : o2[f] = IF f = "retry" THEN r ELSE o1[f]
  BY <1>2 DEF IsRecord
<1> HIDE DEF o2
<1>4. IsRecord(o3, fields) /\ \A f \in fields : o3[f] = IF f = "reuse" THEN n ELSE o2[f]
  BY <1>3 DEF IsRecord
<1> HIDE DEF o3
<1>5. QED
  BY <1>1, <1>2, <1>3, <1>4

LEMMA RootFields ==
  /\ RootContext = [activity |-> RootContext.activity, workflow |-> RootContext.workflow, own |-> {}]
  /\ IsRecord(RootContext, ContextFields)
  /\ RootContext.activity.queue = "unset"
  /\ RootContext.workflow.queue = "unset" /\ RootContext.workflow.domain = "unset"
BY DEF RootContext, DefaultActivityOptions, DefaultChildWorkflowOptions, IsRecord, ContextFields

\* The context Service.Run makes of the service's options.
LEMMA RunContext ==
  ASSUME NEW ao, NEW wo, IsRecord(ao, ActivityFields), IsRecord(wo, ChildFields), NEW be
  PROVE  LET c == WithChildOptions(be, WithActivityOptions(be, RootContext, ao), wo)
         IN /\ IsRecord(c, ContextFields) /\ IsRecord(c.activity, ActivityFields)
            /\ \A f \in ActivityFields :
                 c.activity[f] = IF f = "retry" /\ be # "cadence" THEN WithoutExpiration(ao.retry) ELSE ao[f]
            /\ c.own = IF be = "cadence" THEN {} ELSE wo.attributes
            /\ c.workflow = IF be = "cadence" THEN CadenceAsked(wo, wo.domain, wo.queue)
                            ELSE TemporalAsked(wo, WithoutExpiration(wo.retry), ReusePolicy(wo.reuse))
<1> DEFINE r == RootContext
           c1 == WithActivityOptions(be, RootContext, ao)
           c2 == WithChildOptions(be, c1, wo)
<1>1. \A x : Given(x, "unset") = x
  BY DEF Given
<1>2. /\ IsRecord(c1, ContextFields) /\ c1.own = {}
      /\ c1.workflow.queue = "unset" /\ c1.workflow.domain = "unset"
      /\ IsRecord(c1.activity, ActivityFields)
      /\ \A f \in ActivityFields :
           c1.activity[f] = IF f = "retry" /\ be # "cadence" THEN WithoutExpiration(ao.retry) ELSE ao[f]
  <2>1. CASE be = "cadence"
    <3> DEFINE a == [ao EXCEPT !.queue = Given(ao.queue, "unset")]
    <3>1. c1 = [r EXCEPT !.activity = a]
      BY <2>1, RootFields DEF WithActivityOptions, WithActivityOptionsCadence
    <3>2. IsRecord(a, ActivityFields) /\ \A f \in ActivityFields : a[f] = ao[f]
      BY <1>1 DEF IsRecord
    <3> HIDE DEF a, c1
    <3>3. IsRecord(c1, ContextFields) /\ c1.activity = a /\ c1.own = r.own /\ c1.workflow = r.workflow
      BY <3>1, RootFields DEF IsRecord, ContextFields
    <3>4. QED
      BY <2>1, <3>2, <3>3, RootFields
  <2>2. CASE be # "cadence"
    <3> DEFINE q == Given(ao.queue, "unset")
               p == WithoutExpiration(ao.retry)
               a == QueueAndRetry(ao, q, p)
    <3>1. c1 = [r EXCEPT !.activity = a]
      BY <2>2, RootFields DEF WithActivityOptions, WithActivityOptionsTemporal, QueueAndRetry
    <3>2. q = ao.queue
      BY <1>1
    <3> HIDE DEF c1, q, p
    <3>3. IsRecord(a, ActivityFields)
          /\ \A f \in ActivityFields : a[f] = CASE f = "queue" -> q [] f = "retry" -> p [] OTHER -> ao[f]
      BY QueueAndRetryFields
    <3> HIDE DEF a
    <3>4. IsRecord(c1, ContextFields) /\ c1.activity = a /\ c1.own = r.own /\ c1.workflow = r.workflow
      BY <3>1, RootFields DEF IsRecord, ContextFields
    <3>5. \A f \in ActivityFields : c1.activity[f] = IF f = "retry" THEN p ELSE ao[f]
      BY <3>2, <3>3, <3>4
    <3>6. QED
      BY <2>2, <3>3, <3>4, <3>5, RootFields DEF p
  <2>3. QED
    BY <2>1, <2>2
<1> HIDE DEF c1
<1>3. CASE be = "cadence"
  <2> DEFINE q == Given(wo.queue, "unset")
             d == Given(wo.domain, "unset")
             w == CadenceChild(wo, q, d)
             e == CadenceAsked(wo, wo.domain, wo.queue)
  <2>1. c2 = [c1 EXCEPT !.workflow = w]
    BY <1>2, <1>3 DEF WithChildOptions, WithChildOptionsCadence, CadenceChild
  <2>2. q = wo.queue /\ d = wo.domain
    BY <1>1
  <2> HIDE DEF q, d, c2
  <2>3. IsRecord(w, ChildFields)
        /\ \A f \in ChildFields :
             w[f] = CASE f = "queue" -> q [] f = "domain" -> d [] f = "reuse" -> 0
                      [] f = "close" -> "unset" [] OTHER -> wo[f]
    BY CadenceChildFields
  <2>4. IsRecord(e, ChildFields)
        /\ \A f \in ChildFields :
             e[f] = CASE f = "queue" -> wo.queue [] f = "domain" -> wo.domain [] f = "reuse" -> 0
                      [] f = "close" -> "unset" [] OTHER -> wo[f]
    BY CadenceAskedFields
  <2> HIDE DEF w, e
  <2>5. w = e
    BY <2>2, <2>3, <2>4, SameRecord
  <2>6. IsRecord(c2, ContextFields) /\ c2.activity = c1.activity /\ c2.own = c1.own /\ c2.workflow = w
    BY <1>2, <2>1 DEF IsRecord, ContextFields
  <2>7. QED
    BY <1>2, <1>3, <2>5, <2>6 DEF c1, c2, e
<1>4. CASE be # "cadence"
  <2> DEFINE q == Given(wo.queue, "unset")
             d == Given(wo.domain, "unset")
             n == ReusePolicy(wo.reuse)
             p == WithoutExpiration(wo.retry)
             own == c1.own \cup wo.attributes
             w == TemporalChild(wo, q, d, n, p, own)
             e == TemporalAsked(wo, p, n)
  <2>1. c2 = [c1 EXCEPT !.own = own, !.workflow = w]
    BY <1>2, <1>4 DEF WithChildOptions, WithChildOptionsTemporal, TemporalChild
  <2>2. q = wo.queue /\ d = wo.domain /\ own = wo.attributes
    BY <1>1, <1>2
  <2> HIDE DEF q, d, n, p, own, c2
  <2>3. IsRecord(w, ChildFields)
        /\ \A f \in ChildFields :
             w[f] = CASE f = "queue" -> q [] f = "domain" -> d [] f = "reuse" -> n
                      [] f = "close" -> "unset" [] f = "retry" -> p [] f = "attributes" -> own
                      [] OTHER -> wo[f]
    BY TemporalChildFields
  <2>4. IsRecord(e, ChildFields)
        /\ \A f \in ChildFields :
             e[f] = CASE f = "retry" -> p [] f = "reuse" -> n [] f = "close" -> "unset" [] OTHER -> wo[f]
    BY TemporalAskedFields
  <2> HIDE DEF w, e
  <2>5. \A f \in ChildFields : w[f] = e[f]
    BY <2>2, <2>3, <2>4
  <2>6. w = e
    BY <2>3, <2>4, <2>5, SameRecord
  <2>7. IsRecord(c2, ContextFields) /\ c2.activity = c1.activity /\ c2.own = own /\ c2.workflow = w
    <3> DEFINE half == [c1 EXCEPT !.own = own]
    <3>1. c2 = [half EXCEPT !.workflow = w]
      BY <2>1
    <3>2. IsRecord(half, ContextFields) /\ half.activity = c1.activity /\ half.own = own
      BY <1>2 DEF IsRecord, ContextFields
    <3> HIDE DEF half
    <3>3. QED
      BY <3>1, <3>2 DEF IsRecord, ContextFields
  <2>8. QED
    BY <1>2, <1>4, <2>2, <2>6, <2>7 DEF c1, c2, e, p, n
<1>5. QED
  BY <1>3, <1>4

\* The calls' options once more, as the lemmas above have them.
ActivityFor(be, told, ks, n) ==
  QueueAndRetry(told, IF Has(ks, "task_list", n) THEN Asked(ks, "task_list") ELSE told.queue,
                IF be = "cadence" THEN told.retry ELSE WithoutExpiration(told.retry))

ChildFor(be, c, told, ks, n) ==
  LET d == IF Has(ks, "domain", n) THEN Asked(ks, "domain") ELSE told.domain
      q == IF Has(ks, "task_list", n) THEN Asked(ks, "task_list") ELSE told.queue
  IN /\ c.own = IF be = "cadence" THEN {} ELSE told.attributes
     /\ IF be = "cadence" THEN c.workflow = CadenceAsked(told, d, q)
        ELSE IF Has(ks, "domain", n)
        THEN /\ c.workflow.domain = Given(d, told.domain) /\ c.workflow.queue = told.queue
             /\ c.workflow.attributes = told.attributes
        ELSE c.workflow = TemporalAsked(told, WithoutExpiration(told.retry), ReusePolicy(told.reuse))

LEMMA ActivityForm ==
  ActivityAsAsked(KeywordsRead)
    <=> opts.activity = ActivityFor(backend, ToldActivity, call.kwargs, KeywordsRead)
BY DEF ActivityAsAsked, ActivityFor, QueueAndRetry

LEMMA ChildForm ==
  IsRecord(ToldChild, ChildFields) =>
    (ChildAsAsked(KeywordsRead) <=> ChildFor(backend, opts, ToldChild, call.kwargs, KeywordsRead))
<1> SUFFICES ASSUME IsRecord(ToldChild, ChildFields)
             PROVE  ChildAsAsked(KeywordsRead)
                      <=> ChildFor(backend, opts, ToldChild, call.kwargs, KeywordsRead)
  OBVIOUS
<1> DEFINE told == ToldChild
           built == [ToldChild EXCEPT !.close = "unset"]
           n == KeywordsRead
           ks == call.kwargs
           d == IF Has(ks, "domain", n) THEN Asked(ks, "domain") ELSE told.domain
           q == IF Has(ks, "task_list", n) THEN Asked(ks, "task_list") ELSE told.queue
<1>1. /\ built.domain = told.domain /\ built.queue = told.queue /\ built.attributes = told.attributes
      /\ built.retry = told.retry /\ built.reuse = told.reuse
  BY FieldNames DEF IsRecord
<1>2. /\ [built EXCEPT !.domain = d, !.reuse = 0, !.queue = q] = CadenceAsked(told, d, q)
      /\ [built EXCEPT !.retry = WithoutExpiration(told.retry), !.reuse = ReusePolicy(told.reuse)]
           = TemporalAsked(told, WithoutExpiration(told.retry), ReusePolicy(told.reuse))
  BY DEF CadenceAsked, TemporalAsked
<1> HIDE DEF built
<1>3. ChildFor(backend, opts, told, ks, n)
        <=> /\ opts.own = IF backend = "cadence" THEN {} ELSE told.attributes
            /\ IF backend = "cadence"
               THEN opts.workflow = [built EXCEPT !.domain = d, !.reuse = 0, !.queue = q]
               ELSE IF Has(ks, "domain", n)
               THEN /\ opts.workflow.domain = Given(d, built.domain) /\ opts.workflow.queue = built.queue
                    /\ opts.workflow.attributes = built.attributes
               ELSE opts.workflow = [built EXCEPT !.retry = WithoutExpiration(told.retry),
                                                  !.reuse = ReusePolicy(told.reuse)]
  BY <1>1, <1>2 DEF ChildFor
<1>4. ChildAsAsked(n)
        <=> /\ opts.own = IF backend = "cadence" THEN {} ELSE told.attributes
            /\ IF backend = "cadence"
               THEN opts.workflow = [built EXCEPT !.domain = d, !.reuse = 0, !.queue = q]
               ELSE IF Has(ks, "domain", n)
               THEN /\ opts.workflow.domain = Given(d, built.domain) /\ opts.workflow.queue = built.queue
                    /\ opts.workflow.attributes = built.attributes
               ELSE opts.workflow = [built EXCEPT !.retry = WithoutExpiration(told.retry),
                                                  !.reuse = ReusePolicy(told.reuse)]
  BY <1>1 DEF ChildAsAsked, built
<1>5. QED
  BY <1>3, <1>4

LEMMA AskedIs ==
  ASSUME NEW ks, \A i, j \in DOMAIN ks : ks[i].key = ks[j].key => i = j, NEW n \in DOMAIN ks
  PROVE  Asked(ks, ks[n].key) = ks[n].val
BY DEF Asked

\* What a keyword changes.
LEMMA ListOfActivity ==
  ASSUME NEW told, IsRecord(told, ActivityFields), NEW q, NEW r, NEW v
  PROVE  [QueueAndRetry(told, q, r) EXCEPT !.queue = v] = QueueAndRetry(told, v, r)
<1> DEFINE o == QueueAndRetry(told, q, r)
           w == [o EXCEPT !.queue = v]
           e == QueueAndRetry(told, v, r)
<1>1. IsRecord(o, ActivityFields)
      /\ \A f \in ActivityFields : o[f] = CASE f = "queue" -> q [] f = "retry" -> r [] OTHER -> told[f]
  BY QueueAndRetryFields
<1>2. IsRecord(e, ActivityFields)
      /\ \A f \in ActivityFields : e[f] = CASE f = "queue" -> v [] f = "retry" -> r [] OTHER -> told[f]
  BY QueueAndRetryFields
<1> HIDE DEF o, e
<1>3. IsRecord(w, ActivityFields) /\ \A f \in ActivityFields : w[f] = IF f = "queue" THEN v ELSE o[f]
  BY <1>1 DEF IsRecord
<1> HIDE DEF w
<1>4. \A f \in ActivityFields : w[f] = e[f]
  BY <1>1, <1>2, <1>3
<1>5. w = e
  BY <1>2, <1>3, <1>4, SameRecord
<1>6. QED
  BY <1>5 DEF w, o, e

LEMMA ListOfChild ==
  ASSUME NEW told, IsRecord(told, ChildFields), NEW d, NEW q, NEW v
  PROVE  [CadenceAsked(told, d, q) EXCEPT !.queue = v] = CadenceAsked(told, d, v)
<1> DEFINE o == CadenceAsked(told, d, q)
           w == [o EXCEPT !.queue = v]
           e == CadenceAsked(told, d, v)
<1>1. IsRecord(o, ChildFields)
      /\ \A f \in ChildFields :
           o[f] = CASE f = "queue" -> q [] f = "domain" -> d [] f = "reuse" -> 0
                    [] f = "close" -> "unset" [] OTHER -> told[f]
  BY CadenceAskedFields
<1>2. IsRecord(e, ChildFields)
      /\ \A f \in ChildFields :
           e[f] = CASE f = "queue" -> v [] f = "domain" -> d [] f = "reuse" -> 0
                    [] f = "close" -> "unset" [] OTHER -> told[f]
  BY CadenceAskedFields
<1> HIDE DEF o, e
<1>3. IsRecord(w, ChildFields) /\ \A f \in ChildFields : w[f] = IF f = "queue" THEN v ELSE o[f]
  BY <1>1 DEF IsRecord
<1> HIDE DEF w
<1>4. \A f \in ChildFields : w[f] = e[f]
  BY <1>1, <1>2, <1>3
<1>5. w = e
  BY <1>2, <1>3, <1>4, SameRecord
<1>6. QED
  BY <1>5 DEF w, o, e

LEMMA DomainOfChild ==
  ASSUME NEW told, IsRecord(told, ChildFields), NEW d, NEW q, NEW v
  PROVE  [CadenceAsked(told, d, q) EXCEPT !.domain = v] = CadenceAsked(told, v, q)
<1> DEFINE o == CadenceAsked(told, d, q)
           w == [o EXCEPT !.domain = v]
           e == CadenceAsked(told, v, q)
<1>1. IsRecord(o, ChildFields)
      /\ \A f \in ChildFields :
           o[f] = CASE f = "queue" -> q [] f = "domain" -> d [] f = "reuse" -> 0
                    [] f = "close" -> "unset" [] OTHER -> told[f]
  BY CadenceAskedFields
<1>2. IsRecord(e, ChildFields)
      /\ \A f \in ChildFields :
           e[f] = CASE f = "queue" -> q [] f = "domain" -> v [] f = "reuse" -> 0
                    [] f = "close" -> "unset" [] OTHER -> told[f]
  BY CadenceAskedFields
<1> HIDE DEF o, e
<1>3. IsRecord(w, ChildFields) /\ \A f \in ChildFields : w[f] = IF f = "domain" THEN v ELSE o[f]
  BY <1>1 DEF IsRecord
<1> HIDE DEF w
<1>4. \A f \in ChildFields : w[f] = e[f]
  BY <1>1, <1>2, <1>3
<1>5. w = e
  BY <1>2, <1>3, <1>4, SameRecord
<1>6. QED
  BY <1>5 DEF w, o, e

LEMMA DomainOfTemporal ==
  ASSUME NEW c, IsRecord(c, ContextFields), NEW d
  PROVE  LET w == WithWorkflowDomainTemporal(c, d)
         IN /\ IsRecord(w, ContextFields) /\ w.activity = c.activity /\ w.own = c.own
            /\ w.workflow.domain = Given(d, c.workflow.domain)
            /\ w.workflow.queue = c.workflow.queue /\ w.workflow.attributes = c.own
<1> DEFINE told == [DefaultChildWorkflowOptions EXCEPT !.timeouts = "unset", !.domain = d]
           q == Given(told.queue, c.workflow.queue)
           dm == Given(told.domain, c.workflow.domain)
           n == ReusePolicy(told.reuse)
           p == WithoutExpiration(told.retry)
           own == c.own \cup told.attributes
           o == TemporalChild(told, q, dm, n, p, own)
           w == WithWorkflowDomainTemporal(c, d)
           half == [c EXCEPT !.own = own]
<1>1. IsRecord(told, ChildFields) /\ told.queue = "unset" /\ told.domain = d /\ told.attributes = {}
  BY DEF DefaultChildWorkflowOptions, ChildFields, IsRecord
<1>2. w = [c EXCEPT !.own = own, !.workflow = o]
  BY DEF WithWorkflowDomainTemporal, WithChildOptionsTemporal, TemporalChild
<1> HIDE DEF told, w
<1>3. q = c.workflow.queue /\ dm = Given(d, c.workflow.domain) /\ own = c.own
  BY <1>1 DEF Given
<1> HIDE DEF q, dm, n, p, own
<1>4. IsRecord(o, ChildFields)
      /\ \A f \in ChildFields :
           o[f] = CASE f = "queue" -> q [] f = "domain" -> dm [] f = "reuse" -> n
                    [] f = "close" -> "unset" [] f = "retry" -> p [] f = "attributes" -> own
                    [] OTHER -> told[f]
  BY <1>1, TemporalChildFields
<1> HIDE DEF o
<1>5. o.queue = q /\ o.domain = dm /\ o.attributes = own
  BY <1>4, FieldNames
<1>6. w = [half EXCEPT !.workflow = o]
  BY <1>2
<1>7. IsRecord(half, ContextFields) /\ half.activity = c.activity /\ half.own = own
  BY DEF IsRecord, ContextFields
<1> HIDE DEF half
<1>8. IsRecord(w, ContextFields) /\ w.activity = c.activity /\ w.own = own /\ w.workflow = o
  BY <1>6, <1>7 DEF IsRecord, ContextFields
<1>9. QED
  BY <1>3, <1>5, <1>8 DEF w

LEMMA OptsInit == ASSUME Init PROVE OptsInv
<1>1. opts = ToldTo(call.setters, 0) /\ LastInv(call.setters, 0) /\ Records(opts)
  BY NoneTold DEF Init
<1>2. QED
  BY <1>1 DEF Init, OptsInv, InCall, Called

\* What is to be shown of a step within a call.
LEMMA OptsWithin ==
  ASSUME step' \notin {"building", "entering"},
         call'.kind # "start" => Records(ToldTo(call'.setters, Len(call'.setters))) /\ IsRecord(opts', ContextFields),
         call'.kind = "activity" =>
           opts'.activity = ActivityFor(backend', ToldActivity', call'.kwargs, KeywordsRead'),
         call'.kind = "workflow" => ChildFor(backend', opts', ToldChild', call'.kwargs, KeywordsRead')
  PROVE  OptsInv'
<1>1. (ActivityAsAsked(KeywordsRead)
         <=> opts.activity = ActivityFor(backend, ToldActivity, call.kwargs, KeywordsRead))'
  BY ActivityForm, PTL
<1>2. (IsRecord(ToldChild, ChildFields) =>
         (ChildAsAsked(KeywordsRead) <=> ChildFor(backend, opts, ToldChild, call.kwargs, KeywordsRead)))'
  BY ChildForm, PTL
<1>3. call'.kind # "start" => IsRecord(ToldChild', ChildFields)
  BY DEF Records, ToldChild, ChildFields
<1>4. call'.kind = "activity" => ActivityAsAsked(KeywordsRead)'
  BY <1>1
<1>5. call'.kind = "workflow" => ChildAsAsked(KeywordsRead)'
  BY <1>2, <1>3
<1>6. QED
  BY <1>4, <1>5 DEF OptsInv, ContextFields

\* What is known of one.
LEMMA OptsOfCall ==
  ASSUME OptsInv, InCall, call.kind # "start"
  PROVE  /\ Records(ToldTo(call.setters, Len(call.setters))) /\ IsRecord(opts, ContextFields)
         /\ IsRecord(ToldActivity, ActivityFields) /\ IsRecord(ToldChild, ChildFields)
         /\ call.kind = "activity" =>
              opts.activity = ActivityFor(backend, ToldActivity, call.kwargs, KeywordsRead)
         /\ call.kind = "workflow" => ChildFor(backend, opts, ToldChild, call.kwargs, KeywordsRead)
<1>1. Records(ToldTo(call.setters, Len(call.setters))) /\ IsRecord(opts, ContextFields)
  BY DEF OptsInv, ContextFields
<1>2. IsRecord(ToldActivity, ActivityFields) /\ IsRecord(ToldChild, ChildFields)
  BY <1>1 DEF Records, ToldActivity, ToldChild, ActivityFields, ChildFields
<1>3. call.kind = "activity" => ActivityAsAsked(KeywordsRead)
  BY DEF OptsInv
<1>4. call.kind = "workflow" => ChildAsAsked(KeywordsRead)
  BY DEF OptsInv
<1>5. QED
  BY <1>1, <1>2, <1>3, <1>4, ActivityForm, ChildForm

LEMMA SetStep == ASSUME CallInv, OptsInv, Set PROVE OptsInv'
<1> DEFINE ss == call.setters
           n == pos - 1
<1>1. /\ IsSeq(ss) /\ (\A i \in DOMAIN ss : IsSetter(ss[i])) /\ DOMAIN ss = 1..Len(ss)
      /\ Len(ss) \in Nat /\ pos \in Nat \ {0}
  BY LenInNat DEF CallInv, IsCall
<1>2. step = "building" /\ pos <= Len(ss) /\ pos' = pos + 1 /\ step' = step /\ call' = call
  BY DEF Set
<1>3. LastInv(ss, n) /\ opts = ToldTo(ss, n) /\ Records(opts)
  BY <1>2 DEF OptsInv
<1>4. n \in Nat /\ n + 1 = pos /\ IsSetter(ss[n + 1]) /\ pos' - 1 = n + 1
  BY <1>1, <1>2
<1>5. opts' = CASE ss[n + 1][1] = "list" -> SetClientTaskList(opts, ss[n + 1][2])
                [] ss[n + 1][1] = "activity" -> SetActivityOptions(opts, ss[n + 1][2])
                [] ss[n + 1][1] = "child" -> SetChildWorkflowOptions(opts, ss[n + 1][2])
  BY <1>4 DEF Set
<1> HIDE DEF n
<1>6. LastInv(ss, n + 1) /\ Records(ToldTo(ss, n + 1)) /\ opts' = ToldTo(ss, n + 1)
  BY <1>3, <1>4, <1>5, OneMoreSet
<1>7. LastInv(call'.setters, pos' - 1) /\ opts' = ToldTo(call'.setters, pos' - 1) /\ Records(opts')
  BY <1>2, <1>4, <1>6
<1>8. QED
  BY <1>2, <1>7 DEF OptsInv, InCall, Called

LEMMA EnterStep == ASSUME CallInv, KeywordInv, OptsInv, EnterRun PROVE OptsInv'
<1> DEFINE all == ToldTo(call.setters, Len(call.setters))
           ao == all.activity
           wo == all.child
<1>1. /\ step = "entering" /\ pos = 1 /\ pos' = pos /\ call' = call /\ backend' = backend
      /\ opts = all /\ Records(all)
  BY DEF EnterRun, KeywordInv, OptsInv
<1>2. CASE step' = "panic"
  BY <1>2 DEF OptsInv, InCall, Called
<1>3. CASE step' # "panic"
  <2>1. step' = "keywords"
        /\ opts' = WithChildOptions(backend, WithActivityOptions(backend, RootContext, ao), wo)
    BY <1>1, <1>3 DEF EnterRun
  <2>2. IsRecord(ao, ActivityFields) /\ IsRecord(wo, ChildFields)
    BY <1>1 DEF Records, ActivityFields, ChildFields
  <2>3. ToldActivity' = ao /\ ToldChild' = wo
    BY <1>1 DEF ToldActivity, ToldChild
  <2> HIDE DEF all
  <2>4. /\ IsRecord(opts', ContextFields) /\ IsRecord(opts'.activity, ActivityFields)
        /\ \A f \in ActivityFields :
             opts'.activity[f] = IF f = "retry" /\ backend # "cadence" THEN WithoutExpiration(ao.retry) ELSE ao[f]
        /\ opts'.own = IF backend = "cadence" THEN {} ELSE wo.attributes
        /\ opts'.workflow = IF backend = "cadence" THEN CadenceAsked(wo, wo.domain, wo.queue)
                            ELSE TemporalAsked(wo, WithoutExpiration(wo.retry), ReusePolicy(wo.reuse))
    BY <2>1, <2>2, RunContext
  <2>5. KeywordsRead' = 0 /\ \A ks, key : ~Has(ks, key, 0)
    BY <1>1, <2>1 DEF KeywordsRead, Has
  <2>6. opts'.activity = ActivityFor(backend, ao, call.kwargs, 0)
    <3> DEFINE r == IF backend = "cadence" THEN ao.retry ELSE WithoutExpiration(ao.retry)
               e == QueueAndRetry(ao, ao.queue, r)
               a == opts'.activity
    <3>1. IsRecord(e, ActivityFields)
          /\ \A f \in ActivityFields : e[f] = CASE f = "queue" -> ao.queue [] f = "retry" -> r [] OTHER -> ao[f]
      BY <2>2, QueueAndRetryFields
    <3>2. ActivityFor(backend, ao, call.kwargs, 0) = e
      BY <2>5 DEF ActivityFor
    <3> HIDE DEF e, a
    <3>3. \A f \in ActivityFields : a[f] = e[f]
      BY <2>4, <3>1 DEF a
    <3>4. a = e
      BY <2>4, <3>1, <3>3, SameRecord DEF a
    <3>5. QED
      BY <3>2, <3>4 DEF a
  <2>7. ChildFor(backend, opts', wo, call.kwargs, 0)
    BY <2>4, <2>5 DEF ChildFor
  <2>8. QED
    BY <1>1, <2>1, <2>3, <2>4, <2>5, <2>6, <2>7, OptsWithin DEF all
<1>4. QED
  BY <1>2, <1>3

\* A turn of the loop.
LEMMA TurnStep ==
  ASSUME CallInv, KeywordInv, OptsInv, TaskList \/ Domain \/ AsBytes
  PROVE  OptsInv'
<1> DEFINE ks == call.kwargs
           k == call.kwargs[pos]
           n == pos - 1
           ao == ToldActivity
           wo == ToldChild
<1>1. /\ AtKeyword /\ pos' = pos + 1 /\ call' = call /\ backend' = backend /\ step' = step
      /\ k.typed
  BY DEF TaskList, Domain, AsBytes, NextKeyword, Keyword
<1>2. /\ IsSeq(ks) /\ DOMAIN ks = 1..Len(ks) /\ Len(ks) \in Nat /\ pos \in Nat \ {0}
      /\ step = "keywords" /\ pos <= Len(ks)
      /\ \A i, j \in DOMAIN ks : ks[i].key = ks[j].key => i = j
  BY <1>1, LenInNat DEF CallInv, IsCall, AtKeyword
<1>3. /\ pos \in DOMAIN ks /\ pos \in Nat /\ pos >= 1 /\ KeywordsRead = n /\ KeywordsRead' = pos
  BY <1>1, <1>2 DEF KeywordsRead
<1>4. call.kind # "start"
  BY <1>1 DEF AtKeyword, CallInv, IsCall, IsStart, IsExecution
<1>5. /\ Records(ToldTo(call.setters, Len(call.setters))) /\ IsRecord(opts, ContextFields)
      /\ IsRecord(ao, ActivityFields) /\ IsRecord(wo, ChildFields)
      /\ call.kind = "activity" => opts.activity = ActivityFor(backend, ao, ks, n)
      /\ call.kind = "workflow" => ChildFor(backend, opts, wo, ks, n)
  BY <1>2, <1>3, <1>4, OptsOfCall DEF InCall
<1>6. ToldActivity' = ao /\ ToldChild' = wo
  BY <1>1 DEF ToldActivity, ToldChild
<1>7. /\ Asked(ks, k.key) = k.val /\ Has(ks, k.key, pos) /\ ~Has(ks, k.key, n)
      /\ \A key : key # k.key => (Has(ks, key, pos) <=> Has(ks, key, n))
  <2>1. \A key : Has(ks, key, pos) <=> Has(ks, key, n) \/ k.key = key
    BY <1>2, <1>3, OneMore
  <2>2. ~Has(ks, k.key, n)
    <3>1. \A i \in 1..n : i \in DOMAIN ks /\ i # pos
      BY <1>2
    <3>2. QED
      BY <1>2, <1>3, <3>1 DEF Has
  <2>3. Asked(ks, k.key) = k.val
    BY <1>2, <1>3, AskedIs
  <2>4. QED
    BY <2>1, <2>2, <2>3
<1>8. SUFFICES /\ IsRecord(opts', ContextFields)
               /\ call.kind = "activity" => opts'.activity = ActivityFor(backend, ao, ks, pos)
               /\ call.kind = "workflow" => ChildFor(backend, opts', wo, ks, pos)
  BY <1>1, <1>2, <1>3, <1>5, <1>6, OptsWithin
<1>9. CASE TaskList
  <2> DEFINE r == IF backend = "cadence" THEN ao.retry ELSE WithoutExpiration(ao.retry)
             d == IF Has(ks, "domain", n) THEN Asked(ks, "domain") ELSE wo.domain
  <2>1. /\ k.key = "task_list"
        /\ opts' = IF call.kind = "activity" THEN WithTaskList(opts, k.val)
                                             ELSE WithWorkflowTaskList(backend, opts, k.val)
    BY <1>9 DEF TaskList, Keyword
  <2> HIDE DEF k, ks, n, ao, wo
  <2>2. CASE call.kind = "activity"
    <3>1. opts.activity = QueueAndRetry(ao, ao.queue, r)
      BY <1>5, <1>7, <2>1, <2>2 DEF ActivityFor
    <3>2. opts' = [opts EXCEPT !.activity = [opts.activity EXCEPT !.queue = k.val]]
      BY <2>1, <2>2 DEF WithTaskList
    <3>3. IsRecord(opts', ContextFields) /\ opts'.activity = [opts.activity EXCEPT !.queue = k.val]
      BY <1>5, <3>2 DEF IsRecord, ContextFields
    <3>4. opts'.activity = QueueAndRetry(ao, k.val, r)
      <4> HIDE DEF r
      <4>1. [QueueAndRetry(ao, ao.queue, r) EXCEPT !.queue = k.val] = QueueAndRetry(ao, k.val, r)
        BY <1>5, ListOfActivity
      <4>2. QED
        BY <3>1, <3>3, <4>1
    <3>5. ActivityFor(backend, ao, ks, pos) = QueueAndRetry(ao, k.val, r)
      BY <1>7, <2>1 DEF ActivityFor
    <3>6. QED
      BY <2>2, <3>3, <3>4, <3>5
  <2>3. CASE call.kind # "activity" /\ backend = "cadence"
    <3>1. opts' = [opts EXCEPT !.workflow = [opts.workflow EXCEPT !.queue = k.val]]
      BY <2>1, <2>3 DEF WithWorkflowTaskList, WithWorkflowTaskListCadence
    <3>2. /\ IsRecord(opts', ContextFields) /\ opts'.own = opts.own
          /\ opts'.workflow = [opts.workflow EXCEPT !.queue = k.val]
      BY <1>5, <3>1 DEF IsRecord, ContextFields
    <3>3. ASSUME call.kind = "workflow"
          PROVE  ChildFor(backend, opts', wo, ks, pos)
      <4>1. opts.own = {} /\ opts.workflow = CadenceAsked(wo, d, wo.queue)
        BY <1>5, <1>7, <2>1, <2>3, <3>3 DEF ChildFor
      <4> HIDE DEF d
      <4>2. opts'.workflow = CadenceAsked(wo, d, k.val)
        BY <1>5, <3>2, <4>1, ListOfChild
      <4>3. d = IF Has(ks, "domain", pos) THEN Asked(ks, "domain") ELSE wo.domain
        BY <1>7, <2>1 DEF d
      <4>4. k.val = IF Has(ks, "task_list", pos) THEN Asked(ks, "task_list") ELSE wo.queue
        BY <1>7, <2>1
      <4>5. QED
        BY <2>3, <3>2, <4>1, <4>2, <4>3, <4>4 DEF ChildFor
    <3>4. QED
      BY <2>3, <3>2, <3>3
  <2>4. CASE call.kind # "activity" /\ backend # "cadence"
    <3>1. opts' = [opts EXCEPT !.activity = [opts.activity EXCEPT !.queue = k.val]]
      BY <2>1, <2>4 DEF WithWorkflowTaskList, WithWorkflowTaskListTemporal, WithTaskList
    <3>2. IsRecord(opts', ContextFields) /\ opts'.own = opts.own /\ opts'.workflow = opts.workflow
      BY <1>5, <3>1 DEF IsRecord, ContextFields
    <3>3. Has(ks, "domain", pos) <=> Has(ks, "domain", n)
      BY <1>7, <2>1
    <3>4. call.kind = "workflow" => ChildFor(backend, opts', wo, ks, pos)
      BY <1>5, <2>4, <3>2, <3>3 DEF ChildFor
    <3>5. QED
      BY <2>4, <3>2, <3>4
  <2>5. QED
    BY <2>2, <2>3, <2>4
<1>10. CASE Domain
  <2> DEFINE q == IF Has(ks, "task_list", n) THEN Asked(ks, "task_list") ELSE wo.queue
  <2>1. /\ k.key = "domain" /\ call.kind = "workflow"
        /\ opts' = WithWorkflowDomain(backend, opts, k.val)
    BY <1>10 DEF Domain, Keyword
  <2> HIDE DEF k, ks, n, ao, wo
  <2>2. CASE backend = "cadence"
    <3>1. opts' = [opts EXCEPT !.workflow = [opts.workflow EXCEPT !.domain = k.val]]
      BY <2>1, <2>2 DEF WithWorkflowDomain, WithWorkflowDomainCadence
    <3>2. /\ IsRecord(opts', ContextFields) /\ opts'.own = opts.own
          /\ opts'.workflow = [opts.workflow EXCEPT !.domain = k.val]
      BY <1>5, <3>1 DEF IsRecord, ContextFields
    <3>3. opts.own = {} /\ opts.workflow = CadenceAsked(wo, wo.domain, q)
      BY <1>5, <1>7, <2>1, <2>2 DEF ChildFor
    <3> HIDE DEF q
    <3>4. opts'.workflow = CadenceAsked(wo, k.val, q)
      <4>1. [CadenceAsked(wo, wo.domain, q) EXCEPT !.domain = k.val] = CadenceAsked(wo, k.val, q)
        BY <1>5, DomainOfChild
      <4>2. QED
        BY <3>2, <3>3, <4>1
    <3>5. q = IF Has(ks, "task_list", pos) THEN Asked(ks, "task_list") ELSE wo.queue
      BY <1>7, <2>1 DEF q
    <3>6. k.val = IF Has(ks, "domain", pos) THEN Asked(ks, "domain") ELSE wo.domain
      BY <1>7, <2>1
    <3>7. ChildFor(backend, opts', wo, ks, pos)
      BY <2>2, <3>2, <3>3, <3>4, <3>5, <3>6 DEF ChildFor
    <3>8. QED
      BY <2>1, <3>2, <3>7
  <2>3. CASE backend # "cadence"
    <3> DEFINE made == WithWorkflowDomainTemporal(opts, k.val)
    <3>1. opts' = made
      BY <2>1, <2>3 DEF WithWorkflowDomain
    <3>2. /\ IsRecord(made, ContextFields) /\ made.own = opts.own
          /\ made.workflow.domain = Given(k.val, opts.workflow.domain)
          /\ made.workflow.queue = opts.workflow.queue /\ made.workflow.attributes = opts.own
      BY <1>5, DomainOfTemporal
    <3> HIDE DEF made
    <3>3. /\ opts.own = wo.attributes
          /\ opts.workflow = TemporalAsked(wo, WithoutExpiration(wo.retry), ReusePolicy(wo.reuse))
      BY <1>5, <1>7, <2>1, <2>3 DEF ChildFor
    <3>4. opts.workflow.domain = wo.domain /\ opts.workflow.queue = wo.queue
      <4> DEFINE p == WithoutExpiration(wo.retry)
                 u == ReusePolicy(wo.reuse)
                 w == TemporalAsked(wo, p, u)
      <4> HIDE DEF p, u
      <4>1. \A f \in ChildFields :
              w[f] = CASE f = "retry" -> p [] f = "reuse" -> u [] f = "close" -> "unset" [] OTHER -> wo[f]
        BY <1>5, TemporalAskedFields
      <4> HIDE DEF w
      <4>2. w.domain = wo.domain /\ w.queue = wo.queue
        BY <4>1, FieldNames
      <4>3. QED
        BY <3>3, <4>2 DEF w, p, u
    <3>5. Has(ks, "domain", pos) /\ Asked(ks, "domain") = k.val
      BY <1>7, <2>1
    <3>6. ChildFor(backend, opts', wo, ks, pos)
      BY <2>3, <3>1, <3>2, <3>3, <3>4, <3>5 DEF ChildFor
    <3>7. QED
      BY <2>1, <3>1, <3>2, <3>6
  <2>4. QED
    BY <2>2, <2>3
<1>11. CASE AsBytes
  <2>1. k.key = "as_bytes" /\ opts' = opts
    BY <1>11 DEF AsBytes, Keyword
  <2> HIDE DEF k, ks, n, ao, wo
  <2>2. (Has(ks, "domain", pos) <=> Has(ks, "domain", n)) /\ (Has(ks, "task_list", pos) <=> Has(ks, "task_list", n))
    BY <1>7, <2>1
  <2>3. ActivityFor(backend, ao, ks, pos) = ActivityFor(backend, ao, ks, n)
    BY <2>2 DEF ActivityFor
  <2>4. ChildFor(backend, opts, wo, ks, n) => ChildFor(backend, opts, wo, ks, pos)
    BY <2>2 DEF ChildFor
  <2>5. QED
    BY <1>5, <2>1, <2>3, <2>4
<1>12. QED
  BY <1>9, <1>10, <1>11

LEMMA OptsStep == ASSUME IInv, [Next]_vars PROVE OptsInv'
<1> USE DEF IInv
<1>1. IsSeq(call.setters) /\ Len(call.setters) \in Nat /\ IsSeq(call.kwargs) /\ Len(call.kwargs) \in Nat
      /\ pos \in Nat \ {0}
  BY LenInNat DEF CallInv, IsCall
<1>2. CASE Set
  BY <1>2, SetStep
<1>3. CASE Build
  <2>1. /\ step = "building" /\ pos > Len(call.setters) /\ call' = call /\ opts' = opts
        /\ step' \in {"entering", "failed"}
    BY <1>3 DEF Build
  <2>2. pos - 1 = Len(call.setters)
    BY <1>1, <2>1 DEF KeywordInv
  <2>3. opts = ToldTo(call.setters, Len(call.setters)) /\ Records(opts)
    BY <2>1, <2>2 DEF OptsInv
  <2>4. Records(opts')
    BY <2>1, <2>3 DEF Records
  <2>5. QED
    BY <2>1, <2>3, <2>4 DEF OptsInv, InCall, Called
<1>4. CASE EnterRun
  BY <1>4, EnterStep
<1>5. CASE ReadFlags
  <2>1. call'.kind = "start" /\ step' \in {"failed", "keywords"}
    BY <1>5 DEF ReadFlags, CallInv
  <2>2. QED
    BY <2>1 DEF OptsInv
<1>6. CASE TaskList \/ Domain \/ AsBytes
  BY <1>6, TurnStep
<1>7. CASE RefuseKeyword \/ WrongType
  BY <1>7 DEF OptsInv, InCall, Called, RefuseKeyword, WrongType, EndsWith
<1>8. CASE Execute \/ CalleeReads \/ CalleeReturns \/ ExecuteFuture
  <2>1. /\ call' = call /\ opts' = opts /\ backend' = backend /\ InCall
        /\ step' \in {"failed", "panic", "scheduled", "running", "returned", "done"}
    BY <1>8 DEF Execute, CalleeReads, CalleeReturns, ExecuteFuture, InCall, Called
  <2>2. KeywordsRead = Len(call.kwargs) /\ KeywordsRead' = Len(call.kwargs)
    <3>1. CASE Execute
      <4>1. step = "keywords" /\ pos > Len(call.kwargs)
        BY <3>1 DEF Execute
      <4>2. pos - 1 = Len(call.kwargs)
        BY <1>1, <4>1 DEF KeywordInv
      <4>3. QED
        BY <2>1, <4>1, <4>2 DEF KeywordsRead
    <3>2. CASE CalleeReads \/ CalleeReturns \/ ExecuteFuture
      BY <2>1, <3>2 DEF CalleeReads, CalleeReturns, ExecuteFuture, KeywordsRead
    <3>3. QED
      BY <1>8, <3>1, <3>2
  <2>3. ToldActivity' = ToldActivity /\ ToldChild' = ToldChild
    BY <2>1 DEF ToldActivity, ToldChild
  <2>4. CASE call.kind = "start"
    BY <2>1, <2>4 DEF OptsInv
  <2>5. CASE call.kind # "start"
    BY <2>1, <2>2, <2>3, <2>5, OptsOfCall, OptsWithin
  <2>6. QED
    BY <2>4, <2>5
<1>9. CASE CallAgain \/ RunCalls
  <2>1. step' = "building" /\ pos' = 1 /\ opts' = NewServiceBuilder
    BY <1>9 DEF CallAgain, RunCalls, Onward
  <2>2. pos' - 1 = 0
    BY <2>1
  <2>3. LastInv(call'.setters, 0) /\ opts' = ToldTo(call'.setters, 0) /\ Records(opts')
    BY <2>1, NoneTold
  <2>4. QED
    BY <2>1, <2>2, <2>3 DEF OptsInv, InCall, Called
<1>10. CASE UNCHANGED vars
  <2>1. call' = call /\ backend' = backend /\ opts' = opts /\ pos' = pos /\ step' = step
    BY <1>10 DEF vars
  <2>2. KeywordsRead' = KeywordsRead /\ ToldActivity' = ToldActivity /\ ToldChild' = ToldChild
    BY <2>1 DEF KeywordsRead, ToldActivity, ToldChild
  <2>3. CASE InCall /\ call.kind # "start"
    <3>1. step' \notin {"building", "entering"}
      BY <2>1, <2>3 DEF InCall, Called
    <3>2. QED
      BY <2>1, <2>2, <2>3, <3>1, OptsOfCall, OptsWithin
  <2>4. CASE ~(InCall /\ call.kind # "start")
    BY <2>1, <2>4 DEF OptsInv, InCall, Called, Records
  <2>5. QED
    BY <2>3, <2>4
<1>11. QED
  BY <1>2, <1>3, <1>4, <1>5, <1>6, <1>7, <1>8, <1>9, <1>10 DEF Next

-----------------------------------------------------------------------------
(* Theorems *)

\* In every state of a call: what its keywords, its setters and its data have
\* made of it so far.
THEOREM Invariance == Spec => []IInv
<1>1. Init => IInv
  BY CallInit, KeywordInit, HeadersInit, OptsInit, WireInit, StartInit, FirstInit DEF IInv
<1>2. IInv /\ [Next]_vars => IInv'
  BY CallStep, KeywordStep, HeadersStep, OptsStep, WireStep, StartStep, FirstStep DEF IInv
<1>3. QED
  BY <1>1, <1>2, PTL DEF Spec

\* Arguments that fit the callee reach it, and its answer the script, on either
\* backend and for every value, however deep (encode and decode of star/codec.go
\* through ToData, FromData, ToPayloads and FromPayloads).
THEOREM ArgumentsAndAnswersArrive == Spec => []ValuesArrive
<1>1. IInv => ValuesArrive
  BY ArriveNow DEF IInv
<1>2. QED
  BY <1>1, Invariance, PTL

\* A result that is passed on comes back as it was, whatever the first trip made
\* of the argument (codecDictReplacer, the base64 of bytes, lists of tuples).
THEOREM ResultsSettle == Spec => []EchoSettles
<1>1. IInv => EchoSettles
  BY EchoNow DEF IInv
<1>2. QED
  BY <1>1, Invariance, PTL

\* A workflow starts with what the flags of the command say (the run commands of
\* the two clients, and the parameters of Service.Run).
THEOREM StartsWithItsFlags == Spec => []StartsAsFlagged
<1>1. IInv => StartsAsFlagged
  BY FlaggedNow DEF IInv
<1>2. QED
  BY <1>1, Invariance, PTL

\* Headers reach the callee of the callee, and only a client with the propagator
\* panics over them (inject and extract of the propagators).
THEOREM HeadersReachEveryCallee == Spec => []HeadersArrive
<1>1. IInv => HeadersArrive
  BY HeadersNow DEF IInv
<1>2. QED
  BY <1>1, Invariance, PTL

\* Calls are scheduled under the options the builder was told and the keywords
\* ask for, in whatever order they came (the setters of ServiceBuilder, the
\* adapters of the backends and the keywords of plugin/workflow).
THEOREM OptionsReachTheCall == Spec => []CallsAsAsked
<1>1. IInv => CallsAsAsked
  BY AskedNow DEF IInv
<1>2. QED
  BY <1>1, Invariance, PTL
=============================================================================
