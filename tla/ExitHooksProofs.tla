--------------------------- MODULE ExitHooksProofs ---------------------------
(***************************************************************************)
(* Theorems about ExitHooks, for every set of functions and every number   *)
(* of registrations.  The hard case is an unregister while the loop still  *)
(* reads the array that it shifts (UnregisterOwed): a hook that is owed    *)
(* moves from an index the loop has yet to visit to the one before it, so  *)
(* the loop, which counts down, may meet it twice but cannot miss it.      *)
(***************************************************************************)
EXTENDS ExitHooks, TLAPS

-----------------------------------------------------------------------------
(* The array *)

\* A function on 1..n is a sequence of length n, and so is one that differs
\* from it at one index.
LEMMA FunctionIsSeq ==
  ASSUME NEW S, NEW n \in Nat, NEW q \in [1..n -> S]
  PROVE  q \in Seq(S) /\ Len(q) = n
OBVIOUS

LEMMA ExceptIsSeq ==
  ASSUME NEW S, NEW q \in Seq(S), NEW k \in 1..Len(q), NEW x \in S
  PROVE  LET r == [q EXCEPT ![k] = x] IN
         /\ r \in Seq(S) /\ Len(r) = Len(q) /\ r[k] = x
         /\ \A j \in 1..Len(q) : j # k => r[j] = q[j]
<1> DEFINE r == [q EXCEPT ![k] = x]
<1>1. Len(q) \in Nat /\ r \in [1..Len(q) -> S] /\ DOMAIN q = 1..Len(q)
  OBVIOUS
<1>2. r[k] = x /\ \A j \in 1..Len(q) : j # k => r[j] = q[j]
  BY <1>1
<1> HIDE DEF r
<1>3. r \in Seq(S) /\ Len(r) = Len(q)
  BY <1>1, FunctionIsSeq
<1>4. QED
  BY <1>2, <1>3 DEF r

\* A sequence over names up to n is one over names up to any larger number.
LEMMA SeqWiden ==
  ASSUME NEW n \in Nat, NEW m \in Nat, n <= m
  PROVE  Seq(0..n) \subseteq Seq(0..m) /\ Seq(1..n) \subseteq Seq(1..m)
OBVIOUS

LEMMA InitInv == Init => IInv
<1> SUFFICES ASSUME Init PROVE IInv
  OBVIOUS
<1>1. TypeOK
  <2>1. /\ fnOf \in Seq(Fns) /\ Len(fnOf) = 0 /\ Len(fnOf) <= MaxReg
        /\ \A S : <<>> \in Seq(S)
    BY MaxRegAssumption DEF Init
  <2>2. slots = <<>> /\ oldSlots = <<>> /\ start = <<>> /\ called = <<>> /\ Len(slots) = 0
    BY DEF Init
  <2>3. len \in 0..Len(slots) /\ cur \in 0..Len(fnOf) /\ pos \in Nat
    BY <2>1, <2>2 DEF Init
  <2>4. QED
    BY <2>1, <2>2, <2>3 DEF Init, TypeOK
<1>2. NoNilHook /\ OwedBelow /\ OrderInv /\ LifoOnce
  BY DEF Init, NoNilHook, OwedBelow, OrderInv, LifoOnce, Seen
<1>3. SlotsInv /\ PhaseInv
  BY DEF Init, SlotsInv, PhaseInv
<1>4. QED
  BY <1>1, <1>2, <1>3 DEF IInv

-----------------------------------------------------------------------------
(* Register *)

\* Both ways of appending put the new name behind the names that were there.
LEMMA AppendSlots ==
  ASSUME IInv, NEW f \in Fns, Register(f)
  PROVE  LET id == Len(fnOf) + 1 IN
         /\ id \in Nat /\ fnOf' \in Seq(Fns) /\ Len(fnOf') = id /\ id <= MaxReg
         /\ slots' \in Seq(0..id) /\ len' = len + 1 /\ len' \in 0..Len(slots')
         /\ \A k \in 1..len : slots'[k] = slots[k]
         /\ slots'[len + 1] = id
<1> DEFINE id == Len(fnOf) + 1
<1>1. /\ id \in Nat /\ fnOf' \in Seq(Fns) /\ Len(fnOf') = id /\ id <= MaxReg
      /\ len' = len + 1 /\ len \in Nat /\ len <= Len(slots)
  BY MaxRegAssumption DEF IInv, TypeOK, Register
<1>2. slots \in Seq(0..id)
  BY SeqWiden DEF IInv, TypeOK
<1> HIDE DEF id
<1> DEFINE Placed == /\ slots' \in Seq(0..id) /\ len + 1 \in 0..Len(slots')
                     /\ \A k \in 1..len : slots'[k] = slots[k]
                     /\ slots'[len + 1] = id
<1>3. ASSUME AppendInPlace(id) PROVE Placed
  <2>1. len + 1 \in 1..Len(slots) /\ id \in 0..id /\ slots' = [slots EXCEPT ![len + 1] = id]
    BY <1>1, <1>2, <1>3 DEF AppendInPlace
  <2>2. /\ slots' \in Seq(0..id) /\ Len(slots') = Len(slots) /\ slots'[len + 1] = id
        /\ \A j \in 1..Len(slots) : j # len + 1 => slots'[j] = slots[j]
    BY <1>2, <2>1, ExceptIsSeq
  <2>3. QED
    BY <1>1, <2>1, <2>2
<1>4. ASSUME AppendMoving(id) PROVE Placed
  <2> DEFINE c == Grown(Len(slots))
  <2>1. c \in Nat /\ len + 1 <= c
    BY <1>2, <1>4 DEF AppendMoving, Grown
  <2>2. slots' = [k \in 1..c |-> IF k <= len THEN slots[k] ELSE IF k = len + 1 THEN id ELSE 0]
    BY <1>4 DEF AppendMoving
  <2>3. \A k \in 1..len : slots[k] \in 0..id
    BY <1>1, <1>2
  <2> HIDE DEF c
  <2>4. slots' \in [1..c -> 0..id]
    BY <1>1, <2>1, <2>2, <2>3
  <2>5. slots' \in Seq(0..id) /\ Len(slots') = c
    BY <2>1, <2>4, FunctionIsSeq
  <2>6. QED
    BY <1>1, <2>1, <2>2, <2>5
<1>5. AppendInPlace(id) \/ AppendMoving(id)
  BY DEF Register, id
<1>6. Placed
  BY <1>3, <1>4, <1>5
<1>7. QED
  BY <1>1, <1>6 DEF id

\* The array the loop reads changes at most behind the slice's end, where the
\* new name goes.
LEMMA RegisterSeen ==
  ASSUME IInv, NEW f \in Fns, Register(f), phase # "open"
  PROVE  /\ Seen' \in Seq(0..(Len(fnOf) + 1)) /\ Len(Seen') = Len(Seen)
         /\ attached' => attached
         /\ \/ Seen' = Seen
            \/ /\ attached /\ len + 1 <= Len(Seen)
               /\ Seen' = [Seen EXCEPT ![len + 1] = Len(fnOf) + 1]
<1>1. /\ Len(fnOf) + 1 \in Nat /\ len \in Nat
      /\ slots \in Seq(0..(Len(fnOf) + 1)) /\ oldSlots \in Seq(0..(Len(fnOf) + 1))
  BY SeqWiden DEF IInv, TypeOK
<1>2. CASE AppendInPlace(Len(fnOf) + 1)
  <2>1. CASE attached
    <3>1. len + 1 \in 1..Len(slots) /\ Len(fnOf) + 1 \in 0..(Len(fnOf) + 1)
      BY <1>1, <1>2 DEF AppendInPlace
    <3>2. Seen = slots /\ Seen' = [slots EXCEPT ![len + 1] = Len(fnOf) + 1]
      BY <1>2, <2>1 DEF AppendInPlace, Seen
    <3>3. QED
      BY <1>1, <2>1, <3>1, <3>2, ExceptIsSeq
  <2>2. CASE ~attached
    BY <1>1, <1>2, <2>2 DEF AppendInPlace, Seen
  <2>3. QED
    BY <2>1, <2>2
<1>3. CASE AppendMoving(Len(fnOf) + 1)
  BY <1>1, <1>3 DEF AppendMoving, Seen
<1>4. QED
  BY <1>2, <1>3 DEF Register

LEMMA RegisteredGrows ==
  ASSUME IInv, NEW f \in Fns, Register(f)
  PROVE  /\ Registered' = Registered \cup {Len(fnOf) + 1}
         /\ Owed' = Owed
<1>1. Registered' = Registered \cup {Len(fnOf) + 1}
  <2>1. len \in Nat /\ len' = len + 1
    BY AppendSlots DEF IInv, TypeOK
  <2>2. 1..len' = (1..len) \cup {len + 1}
    BY <2>1
  <2>3. QED
    BY <2>2, AppendSlots DEF Registered
<1>2. Len(fnOf) + 1 \notin {start[k] : k \in DOMAIN start}
  BY DEF IInv, TypeOK
<1>3. start' = start /\ called' = called
  BY DEF Register
<1>4. QED
  BY <1>1, <1>2, <1>3 DEF Owed

LEMMA RegisterInv == ASSUME IInv, NEW f \in Fns, Register(f) PROVE IInv'
<1>1. UNCHANGED <<phase, pos, cur, errs, start, called, dropped>>
  BY DEF Register
<1>2. TypeOK'
  <2>1. /\ start \in Seq(1..Len(fnOf')) /\ called \in Seq(0..Len(fnOf')) /\ cur \in 0..Len(fnOf')
        /\ slots \in Seq(0..Len(fnOf')) /\ oldSlots \in Seq(0..Len(fnOf'))
    BY AppendSlots, SeqWiden DEF IInv, TypeOK
  <2>2. attached' \in BOOLEAN /\ oldSlots' \in Seq(0..Len(fnOf'))
    BY <2>1 DEF IInv, TypeOK, Register, AppendInPlace, AppendMoving, Seen
  <2>3. QED
    BY <1>1, <2>1, <2>2, AppendSlots DEF IInv, TypeOK
<1>3. SlotsInv'
  <2>1. \A k \in 1..len : slots[k] \in 0..Len(fnOf)
    BY DEF IInv, TypeOK
  <2>2. /\ len \in Nat /\ len' = len + 1 /\ Len(fnOf) \in Nat
        /\ \A k \in 1..len : slots'[k] = slots[k]
        /\ slots'[len + 1] = Len(fnOf) + 1
    BY AppendSlots DEF IInv, TypeOK
  <2>3. \A k \in 1..len : slots'[k] # 0 /\ slots'[k] # slots'[len + 1]
    BY <2>1, <2>2 DEF IInv, SlotsInv
  <2>4. \A k \in 1..len' : k \in 1..len \/ k = len + 1
    BY <2>2
  <2>5. \A j \in 1..len, k \in 1..len : slots'[j] = slots'[k] => j = k
    BY <2>2 DEF IInv, SlotsInv
  <2>6. QED
    BY <2>2, <2>3, <2>4, <2>5 DEF SlotsInv
<1>4. PhaseInv'
  BY <1>1 DEF IInv, PhaseInv
<1>5. CASE phase = "open"
  BY <1>1, <1>2, <1>3, <1>4, <1>5 DEF IInv, PhaseInv, NoNilHook, OwedBelow, OrderInv, LifoOnce, TypeOK, Seen
<1>6. CASE phase # "open"
  <2>1. pos \in Nat /\ len \in Nat /\ Len(fnOf) \in Nat
    BY DEF IInv, TypeOK
  <2>2. NoNilHook'
    BY <1>1, <1>6, <2>1, RegisterSeen DEF IInv, NoNilHook
  <2>3. OwedBelow'
    <3> SUFFICES ASSUME phase = "running", NEW r \in Owed
                 PROVE  \E k \in 1..pos : Seen'[k] = r
      BY <1>1, RegisteredGrows DEF OwedBelow
    <3>1. PICK k \in 1..pos : Seen[k] = r
      BY DEF IInv, OwedBelow
    <3>2. CASE Seen'[k] = Seen[k]
      BY <3>1, <3>2
    <3>3. CASE Seen'[k] # Seen[k]
      <4>1. attached /\ k = len + 1
        BY <1>6, <3>3, <3>1, <2>1, RegisterSeen DEF IInv, NoNilHook
      <4>2. PICK j \in 1..len : slots[j] = r
        BY DEF Owed, Registered
      <4>3. j \in 1..pos /\ j # len + 1 /\ Seen[j] = r
        BY <2>1, <3>1, <4>1, <4>2 DEF Seen
      <4>4. Seen'[j] = Seen[j]
        BY <1>6, <2>1, <4>3, RegisterSeen DEF IInv, NoNilHook
      <4>5. QED
        BY <4>3, <4>4
    <3>4. QED
      BY <3>2, <3>3
  <2>4. OrderInv'
    <3> SUFFICES ASSUME ~dropped
                 PROVE  /\ pos <= Len(start)
                        /\ \A k \in 1..pos : Seen'[k] = start[k]
                        /\ attached' => Len(start) <= len'
      BY <1>1 DEF OrderInv
    <3>1. /\ pos <= Len(start) /\ \A k \in 1..pos : Seen[k] = start[k]
          /\ attached => Len(start) <= len
      BY <1>6 DEF IInv, OrderInv
    <3>2. Len(start) \in Nat /\ len' = len + 1
      BY AppendSlots DEF IInv, TypeOK
    <3>3. attached' => attached /\ Len(start) <= len'
      BY <1>6, <2>1, <3>1, <3>2, RegisterSeen
    <3>4. ASSUME NEW k \in 1..pos PROVE Seen'[k] = start[k]
      <4>1. CASE Seen' = Seen
        BY <3>1, <4>1
      <4>2. CASE attached /\ Seen' = [Seen EXCEPT ![len + 1] = Len(fnOf) + 1]
        <5>1. k # len + 1
          BY <2>1, <3>1, <3>2, <4>2
        <5>2. QED
          BY <3>1, <4>2, <5>1
      <4>3. QED
        BY <1>6, <2>1, <4>1, <4>2, RegisterSeen
    <3>5. QED
      BY <3>1, <3>3, <3>4
  <2>5. LifoOnce'
    BY <1>1 DEF IInv, LifoOnce
  <2>6. QED
    BY <1>2, <1>3, <1>4, <2>2, <2>3, <2>4, <2>5 DEF IInv
<1>7. QED
  BY <1>5, <1>6

-----------------------------------------------------------------------------
(* Unregister *)

\* The name at index k goes; the names behind it move one index down, and the
\* array keeps its length and, from index len on, its content.
LEMMA ShiftedSlots ==
  ASSUME IInv, NEW f \in Fns, Unregister(f)
  PROVE  \E k \in 1..len :
           /\ slots' \in Seq(0..Len(fnOf)) /\ Len(slots') = Len(slots)
           /\ \A j \in 1..Len(slots) :
                slots'[j] = IF k <= j /\ j < len THEN slots[j + 1] ELSE slots[j]
           /\ Registered' = Registered \ {slots[k]}
           /\ Owed' = Owed \ {slots[k]}
<1>1. len \in Nat /\ len <= Len(slots) /\ slots \in Seq(0..Len(fnOf)) /\ Len(slots) \in Nat
  BY DEF IInv, TypeOK
<1>2. PICK k \in 1..len : slots' = [j \in DOMAIN slots |->
                                     IF k <= j /\ j < len THEN slots[j + 1] ELSE slots[j]]
  BY DEF Unregister
<1>3. \A j \in 1..Len(slots) :
         slots'[j] = IF k <= j /\ j < len THEN slots[j + 1] ELSE slots[j]
  BY <1>1, <1>2
<1>4. slots' \in Seq(0..Len(fnOf)) /\ Len(slots') = Len(slots)
  <2>1. slots' \in [1..Len(slots) -> 0..Len(fnOf)]
    BY <1>1, <1>2
  <2>2. QED
    BY <1>1, <2>1, FunctionIsSeq
<1>5. Registered' = Registered \ {slots[k]}
  <2>1. len' = len - 1
    BY DEF Unregister
  <2>2. \A j \in 1..len : \A l \in 1..len : slots[j] = slots[l] => j = l
    BY DEF IInv, SlotsInv
  <2>3. ASSUME NEW j \in 1..len' PROVE slots'[j] \in Registered \ {slots[k]}
    <3>1. CASE j < k
      <4>1. slots'[j] = slots[j] /\ j \in 1..len /\ j # k
        BY <1>1, <1>3, <2>1, <3>1
      <4>2. QED
        BY <2>2, <4>1 DEF Registered
    <3>2. CASE k <= j
      <4>1. slots'[j] = slots[j + 1] /\ j + 1 \in 1..len /\ j + 1 # k
        BY <1>1, <1>3, <2>1, <3>2
      <4>2. QED
        BY <2>2, <4>1 DEF Registered
    <3>3. QED
      BY <1>1, <2>1, <3>1, <3>2
  <2>4. ASSUME NEW j \in 1..len, j # k PROVE slots[j] \in Registered'
    <3>1. CASE j < k
      <4>1. slots'[j] = slots[j] /\ j \in 1..len'
        BY <1>1, <1>3, <2>1, <3>1
      <4>2. QED
        BY <4>1 DEF Registered
    <3>2. CASE j > k
      <4>1. slots'[j - 1] = slots[j] /\ j - 1 \in 1..len'
        BY <1>1, <1>3, <2>1, <3>2
      <4>2. QED
        BY <4>1 DEF Registered
    <3>3. QED
      BY <2>4, <3>1, <3>2
  <2>5. \A r \in Registered' : r \in Registered \ {slots[k]}
    BY <2>3 DEF Registered
  <2>6. \A r \in Registered \ {slots[k]} : r \in Registered'
    BY <2>4 DEF Registered
  <2>7. QED
    BY <2>5, <2>6
<1>6. Owed' = Owed \ {slots[k]}
  BY <1>5 DEF Owed, Unregister
<1>7. QED
  BY <1>3, <1>4, <1>5, <1>6

\* An owed hook whose index the loop has yet to visit stays at such an index.
LEMMA UnregisterOwed ==
  ASSUME IInv, NEW f \in Fns, Unregister(f), phase = "running"
  PROVE  Owed' \subseteq {Seen'[k] : k \in 1..pos}
<1> PICK k \in 1..len :
      /\ \A j \in 1..Len(slots) :
           slots'[j] = IF k <= j /\ j < len THEN slots[j + 1] ELSE slots[j]
      /\ Owed' = Owed \ {slots[k]}
  BY ShiftedSlots
<1> SUFFICES ASSUME NEW r \in Owed, r # slots[k]
             PROVE  \E m \in 1..pos : Seen'[m] = r
  OBVIOUS
<1>1. /\ len \in Nat /\ len <= Len(slots) /\ Len(slots) \in Nat /\ pos \in Nat
      /\ pos <= Len(Seen)
  BY DEF IInv, TypeOK, NoNilHook
<1>2. PICK m \in 1..pos : Seen[m] = r
  BY DEF IInv, OwedBelow
<1>3. CASE ~attached
  <2>1. Seen' = Seen
    BY <1>3 DEF Unregister, Seen
  <2>2. QED
    BY <1>2, <2>1
<1>4. CASE attached
  <2>1. Seen = slots /\ Seen' = slots'
    BY <1>4 DEF Unregister, Seen
  <2>2. PICK j \in 1..len : slots[j] = r
    BY DEF Owed, Registered
  \* A stale copy lies behind the slice's end, so the live one is below it.
  <2>3. j <= pos
    <3>1. CASE m > len
      BY <1>1, <3>1
    <3>2. CASE m <= len
      <4>1. m \in 1..len /\ slots[m] = slots[j]
        BY <1>1, <1>2, <2>1, <2>2, <3>2
      <4>2. m = j
        BY <4>1 DEF IInv, SlotsInv
      <4>3. QED
        BY <4>2
    <3>3. QED
      BY <1>1, <3>1, <3>2
  <2>4. CASE j < k
    <3>1. slots'[j] = slots[j] /\ j \in 1..pos
      BY <1>1, <2>3, <2>4
    <3>2. QED
      BY <2>1, <2>2, <3>1
  <2>5. CASE j > k
    <3>1. slots'[j - 1] = slots[j] /\ j - 1 \in 1..pos
      BY <1>1, <2>3, <2>5
    <3>2. QED
      BY <2>1, <2>2, <3>1
  <2>6. j # k
    BY <2>2
  <2>7. QED
    BY <2>4, <2>5, <2>6
<1>5. QED
  BY <1>3, <1>4 DEF IInv, TypeOK

LEMMA UnregisterInv == ASSUME IInv, NEW f \in Fns, Unregister(f) PROVE IInv'
<1>1. /\ UNCHANGED <<fnOf, phase, attached, oldSlots, pos, cur, errs, start, called>>
      /\ dropped' = (phase = "running") /\ len' = len - 1
  BY DEF Unregister
<1>2. PICK k \in 1..len :
        /\ slots' \in Seq(0..Len(fnOf)) /\ Len(slots') = Len(slots)
        /\ \A j \in 1..Len(slots) :
             slots'[j] = IF k <= j /\ j < len THEN slots[j + 1] ELSE slots[j]
  BY ShiftedSlots
<1>3. /\ len \in Nat /\ len <= Len(slots) /\ Len(slots) \in Nat /\ pos \in Nat
      /\ slots \in Seq(0..Len(fnOf))
  BY DEF IInv, TypeOK
<1>4. TypeOK'
  BY <1>1, <1>2, <1>3 DEF IInv, TypeOK
<1>5. SlotsInv'
  <2> DEFINE at(j) == IF k <= j THEN j + 1 ELSE j
  <2>1. \A j \in 1..len' : at(j) \in 1..len /\ slots'[j] = slots[at(j)]
    <3> TAKE j \in 1..len'
    <3>1. j \in Nat /\ 1 <= j /\ j < len /\ j \in 1..Len(slots) /\ k \in 1..len
      BY <1>1, <1>3
    <3>2. slots'[j] = IF k <= j THEN slots[j + 1] ELSE slots[j]
      BY <1>2, <3>1
    <3>3. QED
      BY <1>3, <3>1, <3>2
  <2>2. \A j \in 1..len', l \in 1..len' : at(j) = at(l) => j = l
    BY <1>1, <1>3
  <2> HIDE DEF at
  <2>3. \A j \in 1..len, l \in 1..len : slots[j] # 0 /\ (slots[j] = slots[l] => j = l)
    BY DEF IInv, SlotsInv
  <2>4. \A j \in 1..len' : slots'[j] # 0
    BY <2>1, <2>3
  <2>5. \A j \in 1..len', l \in 1..len' : slots'[j] = slots'[l] => j = l
    BY <2>1, <2>2, <2>3
  <2>6. QED
    BY <2>4, <2>5 DEF SlotsInv
<1>6. PhaseInv'
  BY <1>1 DEF IInv, PhaseInv
<1>7. NoNilHook'
  <2>1. pos <= Len(Seen) /\ \A j \in 1..pos : Seen[j] # 0
    BY DEF IInv, NoNilHook
  <2>2. CASE attached
    <3>1. Seen = slots /\ Seen' = slots'
      BY <1>1, <2>2 DEF Seen
    <3>2. \A j \in 1..len : slots[j] # 0
      BY DEF IInv, SlotsInv
    <3>3. \A j \in 1..pos : slots'[j] # 0
      <4> SUFFICES ASSUME NEW j \in 1..pos PROVE slots'[j] # 0
        OBVIOUS
      <4>1. CASE k <= j /\ j < len
        <5>1. slots'[j] = slots[j + 1] /\ j + 1 \in 1..len
          BY <1>2, <1>3, <2>1, <3>1, <4>1
        <5>2. QED
          BY <3>2, <5>1
      <4>2. CASE ~(k <= j /\ j < len)
        BY <1>2, <1>3, <2>1, <3>1, <4>2
      <4>3. QED
        BY <4>1, <4>2
    <3>4. QED
      BY <1>1, <1>2, <1>3, <2>1, <3>1, <3>3 DEF NoNilHook
  <2>3. CASE ~attached
    BY <1>1, <2>1, <2>3 DEF Seen, NoNilHook
  <2>4. QED
    BY <2>2, <2>3 DEF IInv, TypeOK
<1>8. OwedBelow'
  BY <1>1, UnregisterOwed DEF OwedBelow
<1>9. OrderInv' /\ LifoOnce'
  <2>1. phase # "closed"
    BY DEF IInv, PhaseInv, Unregister, ScriptRuns
  <2>2. QED
    BY <1>1, <2>1 DEF OrderInv, LifoOnce, IInv, TypeOK
<1>10. QED
  BY <1>4, <1>5, <1>6, <1>7, <1>8, <1>9 DEF IInv

-----------------------------------------------------------------------------
(* The loop *)

LEMMA BeginRunInv == IInv /\ BeginRun => IInv'
<1> SUFFICES ASSUME IInv, BeginRun PROVE IInv'
  OBVIOUS
<1>1. /\ slots \in Seq(0..Len(fnOf)) /\ len \in Nat /\ len <= Len(slots) /\ Len(fnOf) \in Nat
      /\ called = <<>> /\ ~dropped /\ cur = 0
  BY DEF IInv, TypeOK, PhaseInv, BeginRun
<1>2. \A k \in 1..len : slots[k] \in 1..Len(fnOf)
  <2>1. \A k \in 1..len : slots[k] \in 0..Len(fnOf) /\ slots[k] # 0
    BY <1>1 DEF IInv, SlotsInv
  <2>2. QED
    BY <1>1, <2>1
<1>3. /\ start' \in Seq(1..Len(fnOf)) /\ Len(start') = len
      /\ \A k \in 1..len : start'[k] = slots[k]
  <2>1. start' = [k \in 1..len |-> slots[k]]
    BY DEF BeginRun
  <2>2. start' \in [1..len -> 1..Len(fnOf)]
    BY <1>2, <2>1
  <2>3. QED
    BY <1>1, <2>1, <2>2, FunctionIsSeq
<1>4. /\ UNCHANGED <<fnOf, slots, len, oldSlots, cur, errs, called, dropped>>
      /\ phase' = "running" /\ attached' = TRUE /\ pos' = len
  BY DEF BeginRun
<1>5. Seen' = slots
  BY <1>4 DEF Seen
<1>6. TypeOK'
  BY <1>1, <1>3, <1>4 DEF IInv, TypeOK
<1>7. SlotsInv' /\ PhaseInv'
  BY <1>4 DEF IInv, SlotsInv, PhaseInv
<1>8. NoNilHook'
  BY <1>1, <1>4, <1>5 DEF IInv, SlotsInv, NoNilHook
<1>9. OwedBelow'
  BY <1>4, <1>5 DEF OwedBelow, Owed, Registered
<1>10. OrderInv'
  BY <1>1, <1>3, <1>4, <1>5 DEF OrderInv
<1>11. LifoOnce'
  <2> DEFINE none == [k \in 1..(Len(start') - pos') |-> start'[Len(start') + 1 - k]]
  <2>1. Len(start') - pos' = 0
    BY <1>1, <1>3, <1>4
  <2>2. none \in [1..0 -> Nat]
    BY <2>1
  <2>3. none \in Seq(Nat) /\ Len(none) = 0
    BY <2>2, FunctionIsSeq
  <2> HIDE DEF none
  <2>4. none = <<>>
    BY <2>3
  <2>5. QED
    BY <1>1, <1>4, <2>4 DEF LifoOnce, none
<1>12. QED
  BY <1>6, <1>7, <1>8, <1>9, <1>10, <1>11 DEF IInv

\* The call pays what is owed to the hook at pos, and to nobody else.
LEMMA CallHookOwed ==
  ASSUME IInv, CallHook
  PROVE  /\ Seen[pos] \in 1..Len(fnOf) /\ pos \in 1..Len(Seen)
         /\ called' \in Seq(0..Len(fnOf)) /\ Len(called') = Len(called) + 1
         /\ called'[Len(called) + 1] = Seen[pos]
         /\ \A k \in 1..Len(called) : called'[k] = called[k]
         /\ Owed' = Owed \ {Seen[pos]}
<1>1. Seen \in Seq(0..Len(fnOf)) /\ called \in Seq(0..Len(fnOf)) /\ Len(fnOf) \in Nat
  BY DEF IInv, TypeOK, Seen
<1>2. pos \in 1..Len(Seen) /\ Seen[pos] # 0
  BY <1>1 DEF IInv, TypeOK, NoNilHook, CallHook
<1>3. Seen[pos] \in 1..Len(fnOf)
  BY <1>1, <1>2
<1>4. /\ called' \in Seq(0..Len(fnOf)) /\ Len(called') = Len(called) + 1
      /\ called'[Len(called) + 1] = Seen[pos]
      /\ \A k \in 1..Len(called) : called'[k] = called[k]
  BY <1>1, <1>3 DEF CallHook
<1>5. {called'[k] : k \in DOMAIN called'} = {called[k] : k \in DOMAIN called} \cup {Seen[pos]}
  <2>1. DOMAIN called' = 1..(Len(called) + 1) /\ DOMAIN called = 1..Len(called) /\ Len(called) \in Nat
    BY <1>1, <1>4
  <2>2. 1..(Len(called) + 1) = (1..Len(called)) \cup {Len(called) + 1}
    BY <2>1
  <2>3. QED
    BY <1>4, <2>1, <2>2
<1>6. Owed' = Owed \ {Seen[pos]}
  BY <1>5 DEF Owed, Registered, CallHook
<1>7. QED
  BY <1>2, <1>3, <1>4, <1>6

LEMMA CallHookInv == IInv /\ CallHook => IInv'
<1> SUFFICES ASSUME IInv, CallHook PROVE IInv'
  OBVIOUS
<1>1. /\ UNCHANGED <<fnOf, slots, len, phase, attached, oldSlots, errs, start, dropped>>
      /\ cur' = Seen[pos] /\ pos' = pos - 1 /\ pos > 0 /\ phase = "running"
  BY DEF CallHook
<1>2. /\ Seen[pos] \in 1..Len(fnOf) /\ pos \in 1..Len(Seen) /\ pos \in Nat /\ Len(fnOf) \in Nat
      /\ called' \in Seq(0..Len(fnOf))
  BY CallHookOwed DEF IInv, TypeOK
<1>3. Seen' = Seen
  BY <1>1 DEF Seen
<1>4. TypeOK'
  BY <1>1, <1>2 DEF IInv, TypeOK
<1>5. SlotsInv' /\ PhaseInv'
  BY <1>1 DEF IInv, SlotsInv, PhaseInv
<1>6. NoNilHook' /\ OrderInv'
  BY <1>1, <1>2, <1>3 DEF IInv, NoNilHook, OrderInv
<1>7. OwedBelow'
  <2> SUFFICES ASSUME NEW r \in Owed, r # Seen[pos] PROVE \E k \in 1..(pos - 1) : Seen[k] = r
    BY <1>1, <1>3, CallHookOwed DEF OwedBelow
  <2>1. PICK k \in 1..pos : Seen[k] = r
    BY <1>1 DEF IInv, OwedBelow
  <2>2. k \in 1..(pos - 1)
    BY <1>2, <2>1
  <2>3. QED
    BY <2>1, <2>2
<1>8. LifoOnce'
  <2> SUFFICES ASSUME ~dropped
               PROVE  called' = [k \in 1..(Len(start) - (pos - 1)) |-> start[Len(start) + 1 - k]]
    BY <1>1 DEF LifoOnce
  <2> DEFINE m == Len(start) - pos
  <2>1. pos <= Len(start) /\ Seen[pos] = start[pos] /\ Len(start) \in Nat /\ m \in Nat
    BY <1>1, <1>2 DEF IInv, TypeOK, OrderInv
  <2>2. called = [k \in 1..m |-> start[Len(start) + 1 - k]]
    BY <1>1 DEF IInv, LifoOnce
  <2>3. Len(called) = m
    BY <2>1, <2>2 DEF IInv, TypeOK
  <2>4. /\ Len(start) - (pos - 1) = m + 1 /\ Len(start) + 1 - (m + 1) = pos
    BY <1>2, <2>1
  <2> HIDE DEF m
  <2>5. called' \in [1..(m + 1) -> 0..Len(fnOf)]
    BY <2>1, <2>3, CallHookOwed
  <2>6. \A k \in 1..m : called'[k] = start[Len(start) + 1 - k]
    BY <2>2, <2>3, CallHookOwed
  <2>7. called'[m + 1] = start[Len(start) + 1 - (m + 1)]
    BY <2>1, <2>3, <2>4, CallHookOwed
  <2>8. \A k \in 1..(m + 1) : k \in 1..m \/ k = m + 1
    BY <2>1
  <2>9. called' = [k \in 1..(m + 1) |-> start[Len(start) + 1 - k]]
    BY <2>5, <2>6, <2>7, <2>8
  <2>10. QED
    BY <2>4, <2>9
<1>9. QED
  BY <1>4, <1>5, <1>6, <1>7, <1>8 DEF IInv

LEMMA HookReturnsInv == ASSUME IInv, NEW e \in Outcomes, HookReturns(e) PROVE IInv'
<1>1. UNCHANGED <<fnOf, slots, len, phase, attached, oldSlots, pos, start, called, dropped>>
  BY DEF HookReturns
<1>2. TypeOK'
  BY <1>1 DEF IInv, TypeOK, HookReturns, Outcomes
<1>3. Seen' = Seen /\ Owed' = Owed
  BY <1>1 DEF Seen, Owed, Registered
<1>4. QED
  BY <1>1, <1>2, <1>3
     DEF HookReturns, IInv, SlotsInv, PhaseInv, NoNilHook, OwedBelow, OrderInv, LifoOnce

LEMMA EndRunInv == IInv /\ EndRun => IInv'
<1> SUFFICES ASSUME IInv, EndRun PROVE IInv'
  OBVIOUS
<1>1. UNCHANGED <<fnOf, slots, len, attached, oldSlots, pos, cur, errs, start, called, dropped>>
  BY DEF EndRun
<1>2. Seen' = Seen
  BY <1>1 DEF Seen
<1>3. TypeOK'
  BY <1>1 DEF IInv, TypeOK, EndRun
<1>4. QED
  BY <1>1, <1>2, <1>3
     DEF EndRun, IInv, SlotsInv, PhaseInv, NoNilHook, OwedBelow, OrderInv, LifoOnce

LEMMA NextInv == IInv /\ [Next]_hookVars => IInv'
<1> SUFFICES ASSUME IInv, [Next]_hookVars PROVE IInv'
  OBVIOUS
<1>1. CASE UNCHANGED hookVars
  <2>1. Seen' = Seen /\ Owed' = Owed
    BY <1>1 DEF hookVars, Seen, Owed, Registered
  <2>2. TypeOK' /\ SlotsInv' /\ PhaseInv'
    BY <1>1 DEF hookVars, IInv, TypeOK, SlotsInv, PhaseInv
  <2>3. QED
    BY <1>1, <2>1, <2>2 DEF hookVars, IInv, NoNilHook, OwedBelow, OrderInv, LifoOnce
<1>2. QED
  BY <1>1, RegisterInv, UnregisterInv, BeginRunInv, CallHookInv, HookReturnsInv, EndRunInv DEF Next

-----------------------------------------------------------------------------
(* Theorems *)

\* The inductive invariant of the registry and its loop.
THEOREM Invariance == Spec => []IInv
BY InitInv, NextInv, PTL DEF Spec

\* The types of the slice, its array and the loop's variables.
THEOREM TypeCorrect == Spec => []TypeOK
<1>1. IInv => TypeOK
  BY DEF IInv
<1>2. QED
  BY <1>1, Invariance, PTL

\* The loop never indexes past its array and never calls a nil hook.
THEOREM NeverNil == Spec => []NoNilHook
<1>1. IInv => NoNilHook
  BY DEF IInv
<1>2. QED
  BY <1>1, Invariance, PTL

\* Without an unregister meanwhile, the hooks are called once each, last
\* registered first, whatever is registered meanwhile.
THEOREM LastInFirstOut == Spec => []LifoOnce
<1>1. IInv => LifoOnce
  BY DEF IInv
<1>2. QED
  BY <1>1, Invariance, PTL

-----------------------------------------------------------------------------
(* Refinement *)

LEMMA RefineInit == Init => AE!AtExitInit
BY DEF Init, AE!AtExitInit, Registered, Owed

LEMMA RefineRegister ==
  ASSUME IInv, NEW f \in Fns, Register(f)
  PROVE  AE!AddHook
<1> DEFINE id == Len(fnOf) + 1
<1>1. /\ fnOf \in Seq(Fns) /\ Len(fnOf) \in Nat /\ fnOf' \in Seq(Fns)
      /\ Len(fnOf') = id /\ id <= MaxReg
  BY AppendSlots DEF IInv, TypeOK
<1>2. id \in Reg /\ id \notin DOMAIN fnOf /\ DOMAIN fnOf' = DOMAIN fnOf \cup {id}
  BY <1>1, MaxRegAssumption DEF Reg
<1>3. Registered' = Registered \cup {id} /\ Owed' = Owed
  BY RegisteredGrows
<1>4. phase # "closed" /\ phase' = phase
  BY DEF Register, ScriptRuns, IInv, PhaseInv
<1> HIDE DEF id
<1>5. QED
  BY <1>2, <1>3, <1>4 DEF AE!AddHook

LEMMA RefineUnregister ==
  ASSUME IInv, NEW f \in Fns, Unregister(f)
  PROVE  AE!DropHook
<1>1. PICK k \in 1..len : Registered' = Registered \ {slots[k]} /\ Owed' = Owed \ {slots[k]}
  BY ShiftedSlots
<1>2. slots[k] \in Registered
  BY DEF Registered
<1>3. phase # "closed" /\ UNCHANGED <<phase, fnOf>>
  BY DEF Unregister, ScriptRuns, IInv, PhaseInv
<1>4. QED
  BY <1>1, <1>2, <1>3 DEF AE!DropHook

LEMMA RefineBegin == IInv /\ BeginRun => AE!StartHooks
<1> SUFFICES ASSUME IInv, BeginRun PROVE AE!StartHooks
  OBVIOUS
<1>1. len \in Nat /\ start' = [k \in 1..len |-> slots[k]] /\ called' = <<>>
  BY DEF IInv, TypeOK, PhaseInv, BeginRun
<1>2. Registered' = Registered
  BY DEF BeginRun, Registered
<1>3. {start'[k] : k \in DOMAIN start'} = Registered
  BY <1>1 DEF Registered
<1>4. Owed' = Registered
  BY <1>1, <1>2, <1>3 DEF Owed
<1>5. QED
  BY <1>2, <1>4 DEF BeginRun, AE!StartHooks

LEMMA RefineCall == IInv /\ CallHook => AE!OneHook
<1> SUFFICES ASSUME IInv, CallHook PROVE AE!OneHook
  OBVIOUS
<1>1. Seen[pos] \in DOMAIN fnOf /\ Owed' = Owed \ {Seen[pos]}
  <2>1. Seen[pos] \in 1..Len(fnOf) /\ Owed' = Owed \ {Seen[pos]}
    BY CallHookOwed
  <2>2. fnOf \in Seq(Fns)
    BY DEF IInv, TypeOK
  <2>3. QED
    BY <2>1, <2>2
<1>2. UNCHANGED <<phase, fnOf, Registered>> /\ phase = "running"
  BY DEF CallHook, Registered
<1>3. QED
  BY <1>1, <1>2 DEF AE!OneHook

LEMMA RefineEnd == IInv /\ EndRun => AE!EndHooks
<1> SUFFICES ASSUME IInv, EndRun PROVE AE!EndHooks
  OBVIOUS
<1>1. Owed = {}
  BY DEF IInv, OwedBelow, EndRun
<1>2. Owed' = Owed /\ Registered' = Registered
  BY DEF EndRun, Owed, Registered
<1>3. QED
  BY <1>1, <1>2 DEF EndRun, AE!EndHooks

LEMMA RefineNext == IInv /\ [Next]_hookVars => [AE!AtExitNext]_(AE!atExitVars)
<1> SUFFICES ASSUME IInv, [Next]_hookVars PROVE [AE!AtExitNext]_(AE!atExitVars)
  OBVIOUS
<1>1. ASSUME NEW f \in Fns, Register(f) \/ Unregister(f) PROVE AE!AtExitNext
  BY <1>1, RefineRegister, RefineUnregister DEF AE!AtExitNext
<1>2. CASE BeginRun
  BY <1>2, RefineBegin DEF AE!AtExitNext
<1>3. CASE CallHook
  BY <1>3, RefineCall DEF AE!AtExitNext
<1>4. CASE EndRun
  BY <1>4, RefineEnd DEF AE!AtExitNext
<1>5. ASSUME NEW e \in Outcomes, HookReturns(e) PROVE UNCHANGED AE!atExitVars
  BY <1>5 DEF HookReturns, AE!atExitVars, Registered, Owed
<1>6. CASE UNCHANGED hookVars
  BY <1>6 DEF hookVars, AE!atExitVars, Registered, Owed
<1>7. QED
  BY <1>1, <1>2, <1>3, <1>4, <1>5, <1>6 DEF Next

\* The slice, its shifts and its reallocations keep the promise of AtExit: no
\* hook that stays registered is missed.
THEOREM ImplementsAtExit == Spec => AtExitSpec
BY RefineInit, RefineNext, Invariance, PTL DEF Spec, AtExitSpec, AE!AtExitSpec
=============================================================================
