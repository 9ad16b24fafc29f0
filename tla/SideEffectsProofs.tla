--------------------------- MODULE SideEffectsProofs ---------------------------
(***************************************************************************)
(* Theorems about SideEffects, for every script, every time, every number  *)
(* of lost workers and every width of integers.  Replays are stable since  *)
(* what the script got in this execution and what completed tasks were     *)
(* based on are both beginnings of one list of markers.  Times are as      *)
(* asked for since every execution computes the same difference.           *)
(***************************************************************************)
EXTENDS SideEffects, FiniteSetTheorems, TLAPS

\* What MarkersInv speaks of, and what TimesInv speaks of.
LEMMA MarkersFrame ==
  ASSUME MarkersInv, UNCHANGED <<seen, markers, durable, acted>>
  PROVE  MarkersInv'
BY DEF MarkersInv

LEMMA TimesFrame ==
  ASSUME TimesInv, pc > 0, pc' > 0, UNCHANGED <<env, times, task, delta, read>>
  PROVE  TimesInv'
BY DEF TimesInv, Delta

LEMMA OpFacts == ASSUME TypeOK, NEW o, Op(o) PROVE pc > 0 /\ pc + 1 \in Nat /\ pc + 1 > 0
BY DEF TypeOK, Op

LEMMA DeltaIsInt == ASSUME TypeOK, env # <<"bad">>, NEW t \in Int PROVE Delta(t) \in Int
<1>1. CASE env = <<>>
  BY <1>1 DEF Delta
<1>2. CASE env # <<>>
  <2>1. env[2] \in Int
    BY <1>2 DEF TypeOK
  <2>2. QED
    BY <1>2, <2>1, TimeAssumption DEF Delta
<1>3. QED
  BY <1>1, <1>2

LEMMA InitInv == Init => IInv
<1> SUFFICES ASSUME Init PROVE IInv
  OBVIOUS
<1>1. PICK r \in Runs : script = r[1] /\ env = r[2]
  BY DEF Init
<1>2. TypeOK
  <2>1. script \in Seq(Ops) /\ (env \in {<<>>, <<"bad">>} \/ (env = <<"unix", env[2]>> /\ env[2] \in Int))
    BY <1>1, RunsAssumption
  <2>2. /\ seen \in Seq(Marks) /\ markers \in Seq(Marks) /\ acted \in Seq(Marks)
        /\ read \in Seq(Reads) /\ actedRead \in Seq(Reads) /\ times \in Seq(Nat)
    BY DEF Init
  <2>3. QED
    BY <2>1, <2>2 DEF Init, TypeOK
<1>3. MarkersInv /\ TimesInv
  BY DEF Init, MarkersInv, TimesInv
<1>4. QED
  BY <1>2, <1>3 DEF IInv

\* A side effect keeps to the markers, and adds one at the end if it has to.
LEMMA SideEffectInv ==
  ASSUME TypeOK, MarkersInv, NEW values, values \subseteq Marks, SideEffect(values),
         UNCHANGED <<durable, acted>>
  PROVE  /\ MarkersInv'
         /\ seen' \in Seq(Marks) /\ markers' \in Seq(Marks)
<1>1. seen \in Seq(Marks) /\ markers \in Seq(Marks) /\ Len(seen) \in Nat /\ Len(markers) \in Nat
  BY DEF TypeOK
<1>2. CASE Replaying
  <2>1. seen' = Append(seen, markers[Len(seen) + 1]) /\ markers' = markers
    BY <1>2 DEF SideEffect
  <2>2. Len(seen) + 1 \in 1..Len(markers) /\ markers[Len(seen) + 1] \in Marks
    BY <1>1, <1>2 DEF Replaying
  <2>3. seen' \in Seq(Marks) /\ Len(seen') = Len(seen) + 1
        /\ seen'[Len(seen) + 1] = markers[Len(seen) + 1]
        /\ \A k \in 1..Len(seen) : seen'[k] = seen[k]
    BY <1>1, <2>1, <2>2
  <2>4. \A k \in 1..Len(seen') : k \in 1..Len(seen) \/ k = Len(seen) + 1
    BY <1>1, <2>3
  <2>5. QED
    BY <1>1, <2>1, <2>2, <2>3, <2>4 DEF MarkersInv
<1>3. CASE ~Replaying
  <2>1. PICK x \in values : seen' = Append(seen, x) /\ markers' = Append(markers, x)
    BY <1>3 DEF SideEffect
  <2>2. x \in Marks /\ Len(seen) = Len(markers)
    BY <1>1, <1>3 DEF Replaying, MarkersInv
  <2>3. /\ seen' \in Seq(Marks) /\ Len(seen') = Len(seen) + 1 /\ seen'[Len(seen) + 1] = x
        /\ \A k \in 1..Len(seen) : seen'[k] = seen[k]
        /\ markers' \in Seq(Marks) /\ Len(markers') = Len(markers) + 1 /\ markers'[Len(markers) + 1] = x
        /\ \A k \in 1..Len(markers) : markers'[k] = markers[k]
    BY <1>1, <2>1, <2>2
  <2>4. \A k \in 1..Len(seen') : k \in 1..Len(seen) \/ k = Len(seen) + 1
    BY <1>1, <2>3
  <2>5. Len(acted) \in Nat /\ durable \in 0..Len(markers) /\ Len(acted) <= durable
    BY DEF MarkersInv, TypeOK
  <2>6. \A k \in 1..Len(acted) : k \in 1..Len(markers) /\ acted[k] = markers[k]
    BY <1>1, <2>5 DEF MarkersInv
  <2>7. \A k \in 1..Len(seen) : seen[k] = markers[k]
    BY DEF MarkersInv
  <2>8. QED
    BY <1>1, <2>2, <2>3, <2>4, <2>5, <2>6, <2>7 DEF MarkersInv
<1>4. QED
  BY <1>2, <1>3

LEMMA CreateInv == ASSUME IInv, Create PROVE IInv'
<1>1. TypeOK /\ MarkersInv /\ TimesInv
  BY DEF IInv
<1>2. task = 1 /\ read = <<>> /\ 1 \in 1..Len(times)
  BY <1>1 DEF Create, TimesInv, TypeOK
<1>3. times[1] \in Int /\ delta' = Delta(times[1])
  BY <1>1, <1>2 DEF Create, Now, TypeOK
<1>4. delta' \in Int
  BY <1>1, <1>3, DeltaIsInt DEF Create
<1>5. TypeOK'
  BY <1>1, <1>4 DEF Create, TypeOK
<1>6. MarkersInv'
  BY <1>1, MarkersFrame DEF Create
<1>7. Delta(times[1])' = Delta(times[1])
  BY DEF Create, Delta
<1>8. TimesInv'
  BY <1>1, <1>2, <1>3, <1>7 DEF Create, TimesInv
<1>9. QED
  BY <1>5, <1>6, <1>8 DEF IInv

LEMMA TimeNsInv == ASSUME IInv, TimeNs PROVE IInv'
<1>1. TypeOK /\ MarkersInv /\ TimesInv /\ pc > 0 /\ pc + 1 \in Nat /\ pc + 1 > 0
  BY OpFacts DEF IInv, TimeNs
<1> DEFINE r == [now |-> Now, got |-> UnixNano(Now + delta)]
<1>2. task \in 1..Len(times) /\ Now = times[task] /\ Now \in Int /\ delta \in Int /\ Width \in Nat \ {0}
  BY <1>1, TimeAssumption DEF TimesInv, TypeOK, Now
<1>3. UnixNano(Now + delta) \in Int
  BY <1>2 DEF UnixNano
<1>4. r \in Reads /\ read \in Seq(Reads) /\ read' = Append(read, r)
  BY <1>1, <1>2, <1>3 DEF Reads, TypeOK, TimeNs
<1> HIDE DEF r
<1>5. /\ read' \in Seq(Reads) /\ Len(read') = Len(read) + 1 /\ read'[Len(read) + 1] = r
      /\ \A k \in 1..Len(read) : read'[k] = read[k]
      /\ \A k \in 1..Len(read') : k \in 1..Len(read) \/ k = Len(read) + 1
  BY <1>4
<1>6. TypeOK'
  BY <1>1, <1>5 DEF TimeNs, TypeOK
<1>7. MarkersInv'
  BY <1>1, MarkersFrame DEF TimeNs
<1>8. \A k \in 1..Len(read') :
        \E j \in 1..task : read'[k] = [now |-> times[j], got |-> UnixNano(times[j] + delta)]
  <2>1. r = [now |-> times[task], got |-> UnixNano(times[task] + delta)] /\ task \in 1..task
    BY <1>2 DEF r
  <2>2. QED
    BY <1>1, <1>5, <2>1 DEF TimesInv
<1>9. TimesInv'
  BY <1>1, <1>8 DEF TimeNs, TimesInv, Delta, UnixNano
<1>10. QED
  BY <1>6, <1>7, <1>9 DEF IInv

LEMMA DrawInv == ASSUME IInv, Draw PROVE IInv'
<1> DEFINE values == IF rand >= 0 THEN {Seeded(rand + 1)} ELSE {Unseeded(v) : v \in Free}
<1>1. TypeOK /\ MarkersInv /\ TimesInv /\ pc > 0 /\ pc + 1 \in Nat /\ pc + 1 > 0
  BY OpFacts DEF IInv, Draw
<1>2. values \subseteq Marks
  BY <1>1 DEF TypeOK, Marks, Seeded, Unseeded
<1>3. SideEffect(values)
  BY DEF Draw
<1> HIDE DEF values
<1>4. MarkersInv' /\ seen' \in Seq(Marks) /\ markers' \in Seq(Marks)
  BY <1>1, <1>2, <1>3, SideEffectInv DEF Draw
<1>5. rand' \in Int
  BY <1>1 DEF Draw, TypeOK
<1>6. TypeOK'
  BY <1>1, <1>4, <1>5 DEF Draw, TypeOK, timeVars
<1>7. TimesInv'
  BY <1>1, TimesFrame DEF Draw, timeVars
<1>8. QED
  BY <1>4, <1>6, <1>7 DEF IInv

LEMMA Uuid4Inv == ASSUME IInv, Uuid4 PROVE IInv'
<1> DEFINE id == restarts * (Len(script) + 1) + pc
<1>1. TypeOK /\ MarkersInv /\ TimesInv /\ pc > 0 /\ pc + 1 \in Nat /\ pc + 1 > 0
  BY OpFacts DEF IInv, Uuid4
<1>2. Len(script) \in Nat /\ restarts \in Nat /\ pc \in Nat
  BY <1>1 DEF TypeOK
<1>3. id \in Int
  BY <1>2
<1>4. SideEffect({Fresh(id)})
  BY DEF Uuid4
<1> HIDE DEF id
<1>5. {Fresh(id)} \subseteq Marks
  BY <1>3 DEF Fresh, Marks
<1>6. MarkersInv' /\ seen' \in Seq(Marks) /\ markers' \in Seq(Marks)
  BY <1>1, <1>4, <1>5, SideEffectInv DEF Uuid4
<1>7. TypeOK'
  BY <1>1, <1>6 DEF Uuid4, TypeOK, timeVars
<1>8. TimesInv'
  BY <1>1, TimesFrame DEF Uuid4, timeVars
<1>9. QED
  BY <1>6, <1>7, <1>8 DEF IInv

\* The end of a task, whatever the next one waits for, as long as time goes on.
LEMMA EndTaskInv ==
  ASSUME IInv, pc > 0, NEW next, EndTask(next), \A t \in next : t \in Nat /\ Now <= t
  PROVE  IInv'
<1>1. TypeOK /\ MarkersInv /\ TimesInv /\ pc + 1 \in Nat /\ pc + 1 > 0
  BY DEF IInv, TypeOK
<1>2. /\ task \in 1..Len(times) /\ times \in Seq(Nat) /\ Len(times) \in Nat /\ Now = times[task]
      /\ task' = task + 1
  BY <1>1 DEF TimesInv, TypeOK, Now, EndTask
<1>3. /\ times' \in Seq(Nat) /\ Len(times') \in Nat /\ task + 1 <= Len(times')
      /\ Len(times) <= Len(times') /\ \A i \in 1..Len(times) : times'[i] = times[i]
      /\ \A i, j \in 1..Len(times') : i <= j => times'[i] <= times'[j]
  <2>1. PICK t \in next : times' = IF task < Len(times) THEN times ELSE Append(times, t)
    BY DEF EndTask
  <2>2. CASE task < Len(times)
    BY <1>1, <1>2, <2>1, <2>2 DEF TimesInv
  <2>3. CASE ~(task < Len(times))
    <3>1. task = Len(times) /\ times' = Append(times, t) /\ t \in Nat /\ times[Len(times)] <= t
      BY <1>2, <2>1, <2>3
    <3>2. /\ times' \in Seq(Nat) /\ Len(times') = Len(times) + 1 /\ times'[Len(times) + 1] = t
          /\ \A i \in 1..Len(times) : times'[i] = times[i]
      BY <1>2, <3>1
    <3>3. \A i \in 1..Len(times) : times[i] \in Nat /\ times[i] <= t
      <4>1. \A i \in 1..Len(times) : times[i] \in Nat /\ times[i] <= times[Len(times)]
        BY <1>1, <1>2, <3>1 DEF TimesInv
      <4>2. times[Len(times)] \in Nat
        BY <1>2, <3>1
      <4>3. QED
        BY <3>1, <4>1, <4>2
    <3>4. ASSUME NEW i \in 1..Len(times'), NEW j \in 1..Len(times'), i <= j
          PROVE  times'[i] <= times'[j]
      <4>1. CASE j = Len(times) + 1
        BY <1>2, <3>1, <3>2, <3>3, <3>4, <4>1
      <4>2. CASE j # Len(times) + 1
        <5>1. i \in 1..Len(times) /\ j \in 1..Len(times)
          <6>1. \A n \in Nat : \A a, b \in 1..(n + 1) : a <= b /\ b # n + 1 => a \in 1..n /\ b \in 1..n
            OBVIOUS
          <6>2. Len(times) \in Nat /\ Len(times') = Len(times) + 1
            BY <1>2, <3>2
          <6>3. QED
            BY <3>4, <4>2, <6>1, <6>2
        <5>2. times[i] <= times[j]
          BY <1>1, <3>4, <5>1 DEF TimesInv
        <5>3. QED
          BY <3>2, <5>1, <5>2
      <4>3. QED
        BY <4>1, <4>2
    <3>5. QED
      BY <1>2, <3>1, <3>2, <3>4
  <2>4. QED
    BY <2>2, <2>3
<1>4. TypeOK'
  <2>1. acted' \in Seq(Marks) /\ actedRead' \in Seq(Reads) /\ durable' \in Nat
    BY <1>1 DEF EndTask, TypeOK
  <2>2. QED
    BY <1>1, <1>2, <1>3, <2>1 DEF EndTask, TypeOK
<1>5. MarkersInv'
  <2>1. /\ seen \in Seq(Marks) /\ markers \in Seq(Marks) /\ acted \in Seq(Marks)
        /\ Len(seen) \in Nat /\ Len(markers) \in Nat /\ Len(acted) \in Nat
    BY <1>1 DEF TypeOK
  <2>2. durable' = Len(markers) /\ acted' \in {acted, seen} /\ UNCHANGED <<seen, markers>>
    BY DEF EndTask
  <2>3. QED
    BY <1>1, <2>1, <2>2 DEF MarkersInv
<1>6. TimesInv'
  <2>1. UNCHANGED <<env, delta, read>> /\ pc' = pc + 1
    BY DEF EndTask
  <2>2. 1 \in 1..Len(times) /\ times'[1] = times[1] /\ env # <<"bad">> /\ delta = Delta(times[1])
    BY <1>1, <1>2, <1>3 DEF TimesInv
  <2>3. Delta(times[1])' = Delta(times[1])
    BY <2>1, <2>2 DEF Delta
  <2>4. \A k \in 1..Len(read) :
          \E j \in 1..(task + 1) : read[k] = [now |-> times'[j], got |-> UnixNano(times'[j] + delta)]
    <3> SUFFICES ASSUME NEW k \in 1..Len(read)
                 PROVE  \E j \in 1..(task + 1) :
                          read[k] = [now |-> times'[j], got |-> UnixNano(times'[j] + delta)]
      OBVIOUS
    <3>1. PICK j \in 1..task : read[k] = [now |-> times[j], got |-> UnixNano(times[j] + delta)]
      BY <1>1 DEF TimesInv
    <3>2. j \in 1..(task + 1) /\ times'[j] = times[j]
      BY <1>2, <1>3
    <3>3. QED
      BY <3>1, <3>2
  <2>5. task' \in 1..Len(times')
    BY <1>2, <1>3
  <2>6. QED
    <3>1. (pc = 0)' = FALSE /\ env' # <<"bad">> /\ delta' = Delta(times[1])'
      BY <1>1, <2>1, <2>2, <2>3 DEF TypeOK
    <3>2. \A k \in 1..Len(read') :
            \E j \in 1..task' :
              read'[k] = [now |-> times'[j], got |-> UnixNano(times'[j] + delta')]
      BY <1>2, <2>1, <2>4 DEF UnixNano
    <3>3. QED
      BY <1>3, <2>5, <3>1, <3>2 DEF TimesInv
<1>7. QED
  BY <1>4, <1>5, <1>6 DEF IInv

LEMMA RestartInv == ASSUME IInv, Restart PROVE IInv'
<1>1. TypeOK /\ MarkersInv /\ TimesInv
  BY DEF IInv
<1>2. PICK t \in 0..1 : times' = [times EXCEPT ![Len(times)] = @ + t]
  BY DEF Restart
<1>3. /\ times \in Seq(Nat) /\ Len(times) \in 1..Len(times) /\ task \in 1..Len(times) /\ Len(times) \in Nat
  BY <1>1 DEF TypeOK, TimesInv
<1>4. /\ times' \in Seq(Nat) /\ Len(times') = Len(times)
      /\ times'[Len(times)] = times[Len(times)] + t
      /\ \A i \in 1..Len(times) : i # Len(times) => times'[i] = times[i]
  BY <1>2, <1>3
<1>5. ASSUME NEW i \in 1..Len(times), NEW j \in 1..Len(times), i <= j
      PROVE  times'[i] <= times'[j]
  <2>1. times[i] <= times[j] /\ times[i] \in Nat /\ times[j] \in Nat
    BY <1>1, <1>3, <1>5 DEF TimesInv
  <2>2. CASE i = Len(times)
    <3>1. j = Len(times)
      BY <1>3, <1>5, <2>2
    <3>2. QED
      BY <1>3, <1>4, <2>1, <2>2, <3>1
  <2>3. CASE i # Len(times)
    <3>1. times'[j] \in {times[j], times[j] + t}
      BY <1>4
    <3>2. QED
      BY <1>4, <2>1, <2>3, <3>1
  <2>4. QED
    BY <2>2, <2>3
<1>6. TimesInv'
  <2>1. pc' = 0 /\ task' = 1 /\ read' = <<>>
    BY DEF Restart
  <2>2. QED
    <3>1. task' \in 1..Len(times')
      BY <1>3, <1>4, <2>1
    <3>2. \A i, j \in 1..Len(times') : i <= j => times'[i] <= times'[j]
      BY <1>4, <1>5
    <3>3. ~(pc' > 0) /\ 1..Len(read') = {}
      BY <2>1
    <3>4. QED
      BY <2>1, <3>1, <3>2, <3>3 DEF TimesInv
<1>7. MarkersInv' /\ markers' \in Seq(Marks)
  <2>1. /\ markers \in Seq(Marks) /\ durable \in 0..Len(markers) /\ Len(markers) \in Nat
        /\ acted \in Seq(Marks) /\ Len(acted) \in Nat
    BY <1>1 DEF TypeOK, MarkersInv
  <2>2. markers' = SubSeq(markers, 1, durable) /\ seen' = <<>> /\ UNCHANGED <<durable, acted>>
    BY DEF Restart
  <2>3. /\ markers' \in Seq(Marks) /\ Len(markers') = durable
        /\ \A k \in 1..durable : markers'[k] = markers[k]
    BY <2>1, <2>2
  <2>4. QED
    BY <1>1, <2>1, <2>2, <2>3 DEF MarkersInv
<1>8. TypeOK'
  <2>1. /\ seen' \in Seq(Marks) /\ read' \in Seq(Reads)
        /\ pc' = 0 /\ rand' = -1 /\ task' = 1 /\ delta' = 0
        /\ restarts' = restarts + 1 /\ replayed' = durable
        /\ UNCHANGED <<script, durable, acted, env, actedRead>>
    BY DEF Restart
  <2>2. pc' \in Nat /\ rand' \in Int /\ task' \in Nat /\ delta' \in Int /\ restarts' \in Nat
    BY <1>1, <2>1 DEF TypeOK
  <2>3. QED
    BY <1>1, <1>4, <1>7, <2>1, <2>2 DEF TypeOK
<1>9. QED
  BY <1>6, <1>7, <1>8 DEF IInv

LEMMA TypesOfTime == ASSUME TypeOK, TimesInv PROVE Now \in Nat /\ Nap \in Nat
<1>1. times \in Seq(Nat) /\ task \in 1..Len(times)
  BY DEF TypeOK, TimesInv
<1>2. times[task] \in Nat
  BY <1>1
<1>3. QED
  BY <1>2, TimeAssumption DEF Now

LEMMA NextInv == IInv /\ [Next]_vars => IInv'
<1> SUFFICES ASSUME IInv, [Next]_vars PROVE IInv'
  OBVIOUS
<1>1. TypeOK /\ MarkersInv /\ TimesInv
  BY DEF IInv
<1>2. Now \in Nat /\ Nap \in Nat
  BY <1>1, TypesOfTime
<1>3. CASE Create
  BY <1>3, CreateInv
<1>4. CASE Seed
  <2>1. pc > 0 /\ pc + 1 \in Nat /\ pc + 1 > 0
    BY <1>1, <1>4, OpFacts DEF Seed
  <2>2. MarkersInv' /\ TimesInv'
    BY <1>1, <1>4, <2>1, MarkersFrame, TimesFrame DEF Seed, timeVars
  <2>3. QED
    BY <1>1, <1>4, <2>1, <2>2 DEF Seed, timeVars, IInv, TypeOK
<1>5. CASE Draw
  BY <1>5, DrawInv
<1>6. CASE Uuid4
  BY <1>6, Uuid4Inv
<1>7. CASE TimeNs
  BY <1>7, TimeNsInv
<1>8. CASE Block
  <2>1. pc > 0 /\ EndTask(Now..(Now + 1))
    BY <1>1, <1>8, OpFacts DEF Block
  <2>2. \A t \in Now..(Now + 1) : t \in Nat /\ Now <= t
    BY <1>2
  <2>3. QED
    BY <2>1, <2>2, EndTaskInv
<1>9. CASE Sleep
  <2>1. pc > 0 /\ EndTask((Now + Nap)..(Now + Nap + 1))
    BY <1>1, <1>9, OpFacts DEF Sleep
  <2>2. \A t \in (Now + Nap)..(Now + Nap + 1) : t \in Nat /\ Now <= t
    BY <1>2
  <2>3. QED
    BY <2>1, <2>2, EndTaskInv
<1>10. CASE SleepNot
  <2>1. pc > 0 /\ pc + 1 \in Nat /\ pc + 1 > 0
    BY <1>1, <1>10, OpFacts DEF SleepNot
  <2>2. MarkersInv' /\ TimesInv'
    BY <1>1, <1>10, <2>1, MarkersFrame, TimesFrame DEF SleepNot, timeVars
  <2>3. QED
    BY <1>1, <1>10, <2>1, <2>2 DEF SleepNot, timeVars, IInv, TypeOK
<1>11. CASE Restart
  BY <1>11, RestartInv
<1>12. CASE UNCHANGED vars
  <2>1. MarkersInv'
    BY <1>1, <1>12, MarkersFrame DEF vars
  <2>2. TimesInv'
    BY <1>1, <1>12 DEF vars, timeVars, TimesInv, Delta, UnixNano
  <2>3. QED
    BY <1>1, <1>12, <2>1, <2>2 DEF vars, timeVars, IInv, TypeOK
<1>13. QED
  BY <1>3, <1>4, <1>5, <1>6, <1>7, <1>8, <1>9, <1>10, <1>11, <1>12 DEF Next

\* The inductive invariant of a workflow that is replayed.
THEOREM Invariance == Spec => []IInv
BY InitInv, NextInv, PTL DEF Spec

\* Every reachable state is well typed.
THEOREM TypeCorrect == Spec => []TypeOK
<1>1. IInv => TypeOK
  BY DEF IInv
<1>2. QED
  BY <1>1, Invariance, PTL

\* A replay never gives a script another number or another UUID than the one a
\* completed task was based on: numbers and UUIDs are drawn in side effects.
THEOREM ReplaysAgree == Spec => []ReplayStable
<1>1. IInv => ReplayStable
  <2> SUFFICES ASSUME IInv, NEW k \in DOMAIN seen, k \in DOMAIN acted PROVE seen[k] = acted[k]
    BY DEF ReplayStable
  <2>1. MarkersInv /\ k \in 1..Len(seen) /\ k \in 1..Len(acted)
    BY DEF IInv, TypeOK
  <2>2. QED
    BY <2>1 DEF MarkersInv
<1>2. QED
  BY <1>1, Invariance, PTL

\* Numbers that fit do not wrap.
LEMMA Fits == ASSUME NEW t \in -Width..(Width - 1) PROVE UnixNano(t) = t
<1>1. Width \in Nat \ {0}
  BY TimeAssumption
<1>2. t \in Int /\ t + Width \in Nat /\ t + Width < 2 * Width /\ 2 * Width \in Nat \ {0}
  BY <1>1
<1>3. \A a \in Nat, m \in Nat \ {0} : a < m => a % m = a
  OBVIOUS
<1>4. (t + Width) % (2 * Width) = t + Width
  BY <1>2, <1>3
<1>5. QED
  BY <1>1, <1>2, <1>4 DEF UnixNano

\* Under any STARLARK_TIME whose distance from the system's time fits, every time a
\* script gets is the one asked for, as much later as the workflow has gone on
\* since it began: in every execution, whichever worker replays it.
THEOREM TimesShifted == Spec => [](Near => ShiftedAsAsked)
<1>1. IInv => (Near => ShiftedAsAsked)
  <2> SUFFICES ASSUME IInv, Near, NEW k \in DOMAIN read
               PROVE  read[k].got = Asked + read[k].now - times[1]
    BY DEF ShiftedAsAsked
  <2>1. TypeOK /\ TimesInv /\ k \in 1..Len(read)
    BY DEF IInv, TypeOK
  <2>2. pc # 0 /\ pc \in Nat
    BY <2>1 DEF TimesInv, TypeOK
  <2>3. PICK j \in 1..task : read[k] = [now |-> times[j], got |-> UnixNano(times[j] + delta)]
    BY <2>1 DEF TimesInv
  <2>4. /\ task \in 1..Len(times) /\ j \in 1..Len(times) /\ 1 \in 1..Len(times)
        /\ times[1] <= times[j] /\ times[j] <= times[task]
        /\ times[1] \in Nat /\ times[j] \in Nat /\ times[task] \in Nat
    <3>1. times \in Seq(Nat) /\ task \in 1..Len(times)
      BY <2>1 DEF TimesInv, TypeOK
    <3>2. j \in 1..Len(times) /\ 1 \in 1..Len(times) /\ 1 <= j /\ j <= task
      BY <3>1
    <3>3. times[1] \in Nat /\ times[j] \in Nat /\ times[task] \in Nat
      BY <3>1, <3>2
    <3>4. QED
      BY <2>1, <3>1, <3>2, <3>3 DEF TimesInv
  <2>5. /\ Asked - times[1] \in -Width..(Width - 1)
        /\ Asked + times[task] - times[1] \in -Width..(Width - 1)
    BY DEF Near, Now
  <2>6. Asked \in Int
    <3>1. CASE env = <<>>
      BY <2>4, <3>1 DEF Asked
    <3>2. CASE env # <<>>
      BY <2>1, <3>2 DEF Asked, Near, TypeOK
    <3>3. QED
      BY <3>1, <3>2
  <2>7. delta = Asked - times[1]
    <3>1. delta = Delta(times[1])
      BY <2>1, <2>2 DEF TimesInv
    <3>2. CASE env = <<>>
      BY <2>4, <3>1, <3>2 DEF Delta, Asked
    <3>3. CASE env # <<>>
      <4>1. Asked = env[2]
        BY <3>3 DEF Asked
      <4>2. QED
        BY <2>4, <2>5, <2>6, <3>1, <3>3, <4>1, TimeAssumption DEF Delta
    <3>4. QED
      BY <3>2, <3>3
  <2>8. times[j] + delta \in -Width..(Width - 1) /\ times[j] + delta = Asked + times[j] - times[1]
    <3>1. \A w \in Nat \ {0} : \A a \in Int : \A x, y, z \in Nat :
            x <= y /\ y <= z /\ a - x \in -w..(w - 1) /\ a + z - x \in -w..(w - 1)
              => y + (a - x) \in -w..(w - 1) /\ y + (a - x) = a + y - x
      OBVIOUS
    <3>2. QED
      <4>1. Width \in Nat \ {0}
        BY TimeAssumption
      <4>2. /\ times[1] \in Nat /\ times[j] \in Nat /\ times[task] \in Nat
            /\ times[1] <= times[j] /\ times[j] <= times[task]
        BY <2>4
      <4>3. times[j] + (Asked - times[1]) \in -Width..(Width - 1)
            /\ times[j] + (Asked - times[1]) = Asked + times[j] - times[1]
        BY <2>5, <2>6, <3>1, <4>1, <4>2
      <4>4. QED
        BY <2>7, <4>3
  <2>9. QED
    BY <2>3, <2>8, Fits
<1>2. QED
  BY <1>1, Invariance, PTL

-----------------------------------------------------------------------------
(* Counting the operations of a script *)

LEMMA CountType ==
  ASSUME NEW ops, NEW p \in Nat
  PROVE  Count(ops, p) \in Nat /\ IsFiniteSet({r \in 1..(p - 1) : script[r] \in ops})
<1>1. IsFiniteSet(1..(p - 1))
  BY FS_Interval
<1>2. IsFiniteSet({r \in 1..(p - 1) : script[r] \in ops})
  BY <1>1, FS_Subset
<1>3. QED
  BY <1>2, FS_CardinalityType DEF Count

LEMMA CountNone ==
  ASSUME NEW ops, NEW p \in {0, 1}
  PROVE  Count(ops, p) = 0
<1>1. {r \in 1..(p - 1) : script[r] \in ops} = {}
  OBVIOUS
<1>2. QED
  BY <1>1, FS_EmptySet DEF Count

LEMMA CountNext ==
  ASSUME NEW ops, NEW p \in Nat \ {0}
  PROVE  Count(ops, p + 1) = IF script[p] \in ops THEN Count(ops, p) + 1 ELSE Count(ops, p)
<1> DEFINE S == {r \in 1..(p - 1) : script[r] \in ops}
           T == {r \in 1..((p + 1) - 1) : script[r] \in ops}
<1>1. IsFiniteSet(S) /\ p \notin S
  <2>1. p \in Nat /\ p \notin S
    OBVIOUS
  <2>2. QED
    BY <2>1, CountType
<1>2. 1..((p + 1) - 1) = (1..(p - 1)) \cup {p}
  OBVIOUS
<1>3. CASE script[p] \in ops
  <2>1. T = S \cup {p}
    BY <1>2, <1>3
  <2>2. Cardinality(T) = Cardinality(S) + 1
    BY <1>1, <2>1, FS_AddElement
  <2>3. QED
    BY <1>3, <2>2 DEF Count
<1>4. CASE script[p] \notin ops
  <2>1. T = S
    BY <1>2, <1>4
  <2>2. QED
    BY <1>4, <2>1 DEF Count
<1>5. QED
  BY <1>3, <1>4

LEMMA CountMonotone ==
  ASSUME NEW ops, NEW p \in Nat, NEW q \in Nat, p <= q
  PROVE  Count(ops, p) <= Count(ops, q)
<1>1. {r \in 1..(p - 1) : script[r] \in ops} \subseteq {r \in 1..(q - 1) : script[r] \in ops}
  OBVIOUS
<1>2. QED
  BY <1>1, CountType, FS_Subset DEF Count

\* An operation that counts is one more to those behind it.
LEMMA CountPast ==
  ASSUME NEW ops, NEW p \in Nat \ {0}, NEW q \in Nat, p < q, script[p] \in ops
  PROVE  Count(ops, p) + 1 <= Count(ops, q)
<1>1. Count(ops, p + 1) = Count(ops, p) + 1
  BY CountNext
<1>2. Count(ops, p + 1) <= Count(ops, q)
  BY CountMonotone
<1>3. QED
  BY <1>1, <1>2

\* So no two operations that count are preceded by as many.
LEMMA CountTells ==
  ASSUME NEW ops, NEW p \in Nat \ {0}, NEW q \in Nat \ {0},
         script[p] \in ops, script[q] \in ops, Count(ops, p) = Count(ops, q)
  PROVE  p = q
<1>1. Count(ops, p) \in Nat
  BY CountType
<1>2. ~(p < q)
  BY <1>1, CountPast
<1>3. ~(q < p)
  BY <1>1, CountPast
<1>4. QED
  BY <1>2, <1>3

LEMMA CountFrame ==
  ASSUME NEW ops, NEW p, script' = script
  PROVE  Count(ops, p)' = Count(ops, p)
BY DEF Count

\* The next operation, when it is not among ops and when it is.
LEMMA CountStep ==
  ASSUME TypeOK, NEW o, Op(o), NEW ops, script' = script, pc' = pc + 1
  PROVE  /\ Count(ops, pc)' = IF o \in ops THEN Count(ops, pc) + 1 ELSE Count(ops, pc)
         /\ Count(ops, pc) \in Nat /\ pc \in Nat \ {0} /\ pc \in DOMAIN script /\ script[pc] = o
<1>1. pc \in Nat \ {0} /\ script[pc] = o /\ pc \in DOMAIN script
  BY DEF TypeOK, Op
<1>2. Count(ops, pc)' = Count(ops, pc + 1)
  BY DEF Count
<1>3. QED
  BY <1>1, <1>2, CountNext, CountType

-----------------------------------------------------------------------------
(* An execution is as far in its values, its times and its tasks as in its script *)

LEMMA SideEffectCounts ==
  ASSUME TypeOK, NEW values, SideEffect(values)
  PROVE  Len(seen') = Len(seen) + 1 /\ Len(seen) \in Nat
<1>1. PICK x : seen' = Append(seen, x)
  BY DEF SideEffect
<1>2. QED
  BY <1>1 DEF TypeOK

LEMMA CountInvNext == IInv /\ CountInv /\ [Next]_vars => CountInv'
<1> SUFFICES ASSUME TypeOK, CountInv, IInv, [Next]_vars PROVE CountInv'
  BY DEF IInv
<1>1. CASE Create
  <2>1. pc = 0 /\ pc' = 1 /\ UNCHANGED <<seen, read, task>>
    BY <1>1 DEF Create
  <2>2. \A ops : Count(ops, pc) = 0 /\ Count(ops, pc)' = 0
    BY <2>1, CountNone DEF Count
  <2>3. QED
    BY <2>1, <2>2 DEF CountInv, Got
<1>2. CASE Seed
  <2>1. Op("seed") /\ script' = script /\ pc' = pc + 1 /\ UNCHANGED <<seen, read, task>>
    BY <1>2 DEF Seed, timeVars
  <2>2. \A ops : "seed" \notin ops => Count(ops, pc)' = Count(ops, pc)
    BY <2>1, CountStep
  <2>3. QED
    BY <2>1, <2>2 DEF CountInv, Got
<1>3. CASE Draw
  <2>1. Op("draw") /\ script' = script /\ pc' = pc + 1 /\ UNCHANGED <<read, task>>
        /\ Len(seen') = Len(seen) + 1
    BY <1>3, SideEffectCounts DEF Draw, timeVars
  <2>2. \A ops : Count(ops, pc)' = IF "draw" \in ops THEN Count(ops, pc) + 1 ELSE Count(ops, pc)
    BY <2>1, CountStep
  <2>3. QED
    BY <2>1, <2>2 DEF CountInv, Got
<1>4. CASE Uuid4
  <2>1. Op("uuid") /\ script' = script /\ pc' = pc + 1 /\ UNCHANGED <<read, task>>
        /\ Len(seen') = Len(seen) + 1
    BY <1>4, SideEffectCounts DEF Uuid4, timeVars
  <2>2. \A ops : Count(ops, pc)' = IF "uuid" \in ops THEN Count(ops, pc) + 1 ELSE Count(ops, pc)
    BY <2>1, CountStep
  <2>3. QED
    BY <2>1, <2>2 DEF CountInv, Got
<1>5. CASE TimeNs
  <2>1. Op("now") /\ script' = script /\ pc' = pc + 1 /\ UNCHANGED <<seen, task>>
        /\ Len(read') = Len(read) + 1
    BY <1>5 DEF TimeNs, TypeOK
  <2>2. \A ops : Count(ops, pc)' = IF "now" \in ops THEN Count(ops, pc) + 1 ELSE Count(ops, pc)
    BY <2>1, CountStep
  <2>3. QED
    BY <2>1, <2>2 DEF CountInv, Got
<1>6. ASSUME NEW o \in {"block", "sleep"}, Op(o), NEW next, EndTask(next) PROVE CountInv'
  <2>1. script' = script /\ pc' = pc + 1 /\ UNCHANGED <<seen, read>> /\ task' = task + 1
    BY <1>6 DEF EndTask
  <2>2. \A ops : Count(ops, pc)' = IF o \in ops THEN Count(ops, pc) + 1 ELSE Count(ops, pc)
    BY <1>6, <2>1, CountStep
  <2>3. Count({"block", "sleep"}, pc) \in Nat
    BY CountType DEF TypeOK
  <2>4. QED
    BY <2>1, <2>2, <2>3 DEF CountInv, Got
<1>7. CASE SleepNot
  <2>1. Op("nap") /\ script' = script /\ pc' = pc + 1 /\ UNCHANGED <<seen, read, task>>
    BY <1>7 DEF SleepNot, timeVars
  <2>2. \A ops : "nap" \notin ops => Count(ops, pc)' = Count(ops, pc)
    BY <2>1, CountStep
  <2>3. QED
    BY <2>1, <2>2 DEF CountInv, Got
<1>8. CASE Restart
  <2>1. pc' = 0 /\ seen' = <<>> /\ read' = <<>> /\ task' = 1
    BY <1>8 DEF Restart
  <2>2. \A ops : Count(ops, pc)' = 0
    <3>1. \A ops : Count(ops, pc)' = Cardinality({r \in 1..(0 - 1) : script'[r] \in ops})
      BY <2>1 DEF Count
    <3>2. \A ops : {r \in 1..(0 - 1) : script'[r] \in ops} = {}
      OBVIOUS
    <3>3. QED
      BY <3>1, <3>2, FS_EmptySet
  <2>3. QED
    BY <2>1, <2>2 DEF CountInv, Got
<1>9. CASE UNCHANGED vars
  BY <1>9 DEF vars, timeVars, CountInv, Got, Count
<1>10. QED
  BY <1>1, <1>2, <1>3, <1>4, <1>5, <1>6, <1>7, <1>8, <1>9 DEF Next, Block, Sleep

-----------------------------------------------------------------------------
(* The seeded source *)

\* What was drawn stays as it was seeded, whatever the script gets next.
LEMMA PastStays ==
  ASSUME TypeOK, CountInv, SourceInv, UNCHANGED <<script, replayed>>,
         \A k \in 1..Len(seen) : seen'[k] = seen[k],
         NEW p \in 1..(pc - 1), NEW q, q \in 1..pc,
         script'[p] = "draw", SeededAt(q, p)', Got(q)' >= replayed'
  PROVE  AsSeeded(q, p)'
<1>1. pc \in Nat /\ p \in Nat \ {0} /\ q < p /\ q \in 1..(pc - 1) /\ p + 1 \in Nat /\ p + 1 <= pc
  BY DEF TypeOK, SeededAt
<1>2. SeededAt(q, p) /\ script[p] = "draw"
  BY DEF SeededAt
<1>3. Got(q)' = Got(q) /\ Got(p + 1)' = Got(p + 1)
  BY CountFrame DEF Got
<1>4. AsSeeded(q, p)
  BY <1>1, <1>2, <1>3 DEF SourceInv, SeededPastReplay
<1>5. Got(p + 1) \in 1..Len(seen)
  <2>1. Got(p + 1) = Got(p) + 1 /\ Got(p) \in Nat
    BY <1>1, <1>2, CountNext, CountType DEF Got
  <2>2. Got(p + 1) <= Got(pc) /\ Got(pc) = Len(seen) /\ Got(pc) \in Nat
    BY <1>1, CountMonotone, CountType DEF Got, CountInv
  <2>3. QED
    BY <2>1, <2>2
<1>6. Count({"draw"}, p + 1)' = Count({"draw"}, p + 1) /\ Count({"draw"}, q)' = Count({"draw"}, q)
  BY CountFrame
<1>7. QED
  BY <1>3, <1>4, <1>5, <1>6 DEF AsSeeded

\* The seed before pc is still that before the next operation, if this is none.
LEMMA SeedStays ==
  ASSUME TypeOK, NEW o, Op(o), o # "seed", script' = script, pc' = pc + 1,
         NEW q \in 1..(pc' - 1), SeededAt(q, pc)', Got(q)' >= replayed', replayed' = replayed
  PROVE  /\ q \in 1..(pc - 1) /\ SeededAt(q, pc) /\ Got(q) >= replayed
         /\ Count({"draw"}, q)' = Count({"draw"}, q)
<1>1. pc \in Nat \ {0} /\ script[pc] = o
  BY CountStep
<1>2. q \in 1..pc /\ script[q] = "seed" /\ \A r \in (q + 1)..pc : script[r] # "seed"
  BY <1>1 DEF SeededAt
<1>3. q < pc
  BY <1>1, <1>2
<1>4. Got(q)' = Got(q) /\ Count({"draw"}, q)' = Count({"draw"}, q)
  BY CountFrame DEF Got
<1>5. QED
  BY <1>1, <1>2, <1>3, <1>4 DEF SeededAt

\* What SourceInv speaks of, when the script goes on without a number.
LEMMA SourceFrame ==
  ASSUME TypeOK, CountInv, SourceInv, NEW o \in Ops \ {"seed", "draw"}, Op(o), pc' = pc + 1,
         UNCHANGED <<script, rand, replayed>>,
         \A k \in 1..Len(seen) : seen'[k] = seen[k],
         Len(markers') = IF Len(seen') < replayed THEN replayed ELSE Len(seen')
  PROVE  SourceInv'
<1>1. pc \in Nat \ {0} /\ script[pc] = o /\ Count({"draw"}, pc)' = Count({"draw"}, pc)
  BY CountStep
<1>2. ASSUME NEW q \in 1..(pc' - 1), SeededAt(q, pc)', Got(q)' >= replayed'
      PROVE  rand' = Count({"draw"}, pc)' - Count({"draw"}, q)'
  BY <1>1, <1>2, SeedStays DEF SourceInv
<1>3. SeededPastReplay'
  <2> SUFFICES ASSUME NEW p \in 1..(pc' - 1), NEW q \in 1..(pc' - 1),
                      script'[p] = "draw", SeededAt(q, p)', Got(q)' >= replayed'
               PROVE  AsSeeded(q, p)'
    BY DEF SeededPastReplay
  <2>1. p \in 1..(pc - 1) /\ q \in 1..pc
    BY <1>1
  <2>2. QED
    BY <2>1, PastStays
<1>4. QED
  BY <1>2, <1>3 DEF SourceInv

\* A side effect adds its value, and a marker past the replay.
LEMMA SideEffectAdds ==
  ASSUME TypeOK, SourceInv, NEW values, SideEffect(values), replayed' = replayed
  PROVE  /\ \A k \in 1..Len(seen) : seen'[k] = seen[k]
         /\ Len(seen') = Len(seen) + 1 /\ Len(seen) \in Nat
         /\ Len(markers') = IF Len(seen') < replayed THEN replayed ELSE Len(seen')
         /\ Replaying <=> Len(seen) < replayed
         /\ ~Replaying => seen'[Len(seen) + 1] \in values
<1>1. /\ Len(seen) \in Nat /\ Len(markers) \in Nat /\ replayed \in Nat
      /\ seen \in Seq(Marks) /\ markers \in Seq(Marks)
  BY DEF TypeOK
<1>2. PICK x \in (IF Replaying THEN {markers[Len(seen) + 1]} ELSE values) :
        seen' = Append(seen, x) /\ markers' = IF Replaying THEN markers ELSE Append(markers, x)
  BY DEF SideEffect
<1>3. Len(seen') = Len(seen) + 1 /\ seen'[Len(seen) + 1] = x /\ \A k \in 1..Len(seen) : seen'[k] = seen[k]
  BY <1>1, <1>2
<1>4. Len(markers') = IF Replaying THEN Len(markers) ELSE Len(markers) + 1
  BY <1>1, <1>2
<1>5. Len(markers) = IF Len(seen) < replayed THEN replayed ELSE Len(seen)
  BY DEF SourceInv
<1>6. Replaying <=> Len(seen) < replayed
  BY <1>1, <1>5 DEF Replaying
<1>7. QED
  BY <1>1, <1>2, <1>3, <1>4, <1>5, <1>6

LEMMA SeedSource == ASSUME TypeOK, CountInv, SourceInv, Seed PROVE SourceInv'
<1>1. /\ Op("seed") /\ rand' = 0 /\ pc' = pc + 1
      /\ UNCHANGED <<script, seen, markers, replayed>>
  BY DEF Seed
<1>2. pc \in Nat \ {0} /\ script[pc] = "seed" /\ Count({"draw"}, pc)' = Count({"draw"}, pc)
      /\ Count({"draw"}, pc) \in Nat
  BY <1>1, CountStep
<1>3. ASSUME NEW q \in 1..(pc' - 1), SeededAt(q, pc)'
      PROVE  rand' = Count({"draw"}, pc)' - Count({"draw"}, q)'
  <2>1. q \in 1..pc /\ \A r \in (q + 1)..pc : script[r] # "seed"
    BY <1>1, <1>2, <1>3 DEF SeededAt
  <2>2. q = pc
    BY <1>2, <2>1
  <2>3. Count({"draw"}, q)' = Count({"draw"}, q)
    BY <1>1, CountFrame
  <2>4. QED
    BY <1>1, <1>2, <2>2, <2>3
<1>4. SeededPastReplay'
  <2> SUFFICES ASSUME NEW p \in 1..(pc' - 1), NEW q \in 1..(pc' - 1),
                      script'[p] = "draw", SeededAt(q, p)', Got(q)' >= replayed'
               PROVE  AsSeeded(q, p)'
    BY DEF SeededPastReplay
  <2>1. p \in 1..pc /\ p # pc /\ q \in 1..pc
    BY <1>1, <1>2
  <2>2. p \in 1..(pc - 1)
    BY <1>2, <2>1
  <2>3. QED
    BY <1>1, <2>1, <2>2, PastStays
<1>5. QED
  BY <1>1, <1>3, <1>4 DEF SourceInv

\* Past the replay of a run the source moves on with every number.
LEMMA DrawSource == ASSUME TypeOK, CountInv, SourceInv, Draw PROVE SourceInv'
<1> DEFINE values == IF rand >= 0 THEN {Seeded(rand + 1)} ELSE {Unseeded(v) : v \in Free}
<1>1. /\ Op("draw") /\ SideEffect(values) /\ pc' = pc + 1
      /\ rand' = IF rand >= 0 /\ ~Replaying THEN rand + 1 ELSE rand
      /\ UNCHANGED <<script, replayed>>
  BY DEF Draw
<1>2. /\ pc \in Nat \ {0} /\ script[pc] = "draw"
      /\ Count({"draw"}, pc)' = Count({"draw"}, pc) + 1 /\ Count({"draw"}, pc) \in Nat
      /\ Got(pc)' = Got(pc) + 1 /\ Got(pc) = Len(seen)
  BY <1>1, CountStep DEF Got, CountInv
<1>3. /\ \A k \in 1..Len(seen) : seen'[k] = seen[k]
      /\ Len(seen') = Len(seen) + 1 /\ Len(seen) \in Nat
      /\ Len(markers') = IF Len(seen') < replayed THEN replayed ELSE Len(seen')
      /\ Replaying <=> Len(seen) < replayed
      /\ ~Replaying => seen'[Len(seen) + 1] \in values
  BY <1>1, SideEffectAdds
<1>4. ASSUME NEW q \in 1..(pc' - 1), SeededAt(q, pc)', Got(q)' >= replayed'
      PROVE  /\ ~Replaying /\ rand >= 0 /\ rand \in Int
             /\ rand = Count({"draw"}, pc) - Count({"draw"}, q)
             /\ Count({"draw"}, q)' = Count({"draw"}, q)
  <2>1. q \in 1..(pc - 1) /\ SeededAt(q, pc) /\ Got(q) >= replayed /\ Count({"draw"}, q)' = Count({"draw"}, q)
    BY <1>1, <1>4, SeedStays
  <2>2. rand = Count({"draw"}, pc) - Count({"draw"}, q)
    BY <2>1 DEF SourceInv
  <2>3. /\ q \in Nat /\ pc \in Nat /\ q <= pc /\ Got(q) \in Nat /\ Count({"draw"}, q) \in Nat
        /\ Got(q) <= Got(pc) /\ Count({"draw"}, q) <= Count({"draw"}, pc)
    <3>1. q \in Nat /\ pc \in Nat /\ q <= pc
      BY <1>2, <2>1
    <3>2. \A ops : Count(ops, q) \in Nat /\ Count(ops, q) <= Count(ops, pc)
      BY <3>1, CountMonotone, CountType
    <3>3. QED
      BY <3>1, <3>2 DEF Got
  <2>4. replayed \in Nat
    BY DEF TypeOK
  <2>5. QED
    BY <1>2, <1>3, <2>1, <2>2, <2>3, <2>4
<1>5. ASSUME NEW q \in 1..(pc' - 1), SeededAt(q, pc)', Got(q)' >= replayed'
      PROVE  rand' = Count({"draw"}, pc)' - Count({"draw"}, q)'
  <2>1. Count({"draw"}, q) \in Nat
    <3>1. q \in Nat
      OBVIOUS
    <3>2. QED
      BY <3>1, CountType
  <2>2. QED
    BY <1>1, <1>2, <1>4, <1>5, <2>1
<1>6. SeededPastReplay'
  <2> SUFFICES ASSUME NEW p \in 1..(pc' - 1), NEW q \in 1..(pc' - 1),
                      script'[p] = "draw", SeededAt(q, p)', Got(q)' >= replayed'
               PROVE  AsSeeded(q, p)'
    BY DEF SeededPastReplay
  <2>1. CASE p \in 1..(pc - 1)
    <3>1. q \in 1..pc
      BY <1>1, <1>2
    <3>2. QED
      BY <1>1, <1>3, <2>1, <3>1, PastStays
  <2>2. CASE p = pc
    <3>1. SeededAt(q, pc)'
      <4>1. q < pc /\ script'[q] = "seed" /\ \A r \in (q + 1)..(pc - 1) : script'[r] # "seed"
        BY <2>2 DEF SeededAt
      <4>2. script'[pc] # "seed"
        BY <1>1, <1>2
      <4>3. \A r \in (q + 1)..pc : script'[r] # "seed"
        BY <1>2, <4>1, <4>2
      <4>4. QED
        BY <1>1, <1>2, <4>1, <4>3 DEF SeededAt
    <3>2. /\ ~Replaying /\ rand >= 0 /\ rand \in Int
          /\ rand = Count({"draw"}, pc) - Count({"draw"}, q)
          /\ Count({"draw"}, q)' = Count({"draw"}, q)
      BY <1>4, <3>1
    <3>3. seen'[Len(seen) + 1] = Seeded(rand + 1)
      BY <1>3, <3>2
    <3>4. Got(p + 1)' = Len(seen) + 1 /\ Count({"draw"}, p + 1)' = Count({"draw"}, pc) + 1
      BY <1>1, <1>2, <2>2 DEF Got, Count
    <3>5. Count({"draw"}, q) \in Nat
      <4>1. q \in Nat
        OBVIOUS
      <4>2. QED
        BY <4>1, CountType
    <3>6. Count({"draw"}, p + 1)' - Count({"draw"}, q)' = rand + 1
      BY <1>2, <3>2, <3>4, <3>5
    <3>7. AsSeeded(q, p)' = (seen'[Got(p + 1)'] = Seeded(Count({"draw"}, p + 1)' - Count({"draw"}, q)'))
      BY DEF AsSeeded, Seeded
    <3>8. QED
      BY <3>3, <3>4, <3>6, <3>7
  <2>3. QED
    BY <1>1, <1>2, <2>1, <2>2
<1>7. QED
  BY <1>1, <1>3, <1>5, <1>6 DEF SourceInv

LEMMA SourceInvNext == IInv /\ CountInv /\ SourceInv /\ [Next]_vars => SourceInv'
<1> SUFFICES ASSUME TypeOK, MarkersInv, CountInv, SourceInv, [Next]_vars PROVE SourceInv'
  BY DEF IInv
<1>1. CASE Create
  <2>1. pc' = 1 /\ UNCHANGED <<markers, seen, replayed>>
    BY <1>1 DEF Create
  <2>2. QED
    BY <2>1 DEF SourceInv, SeededPastReplay
<1>2. CASE Seed
  BY <1>2, SeedSource
<1>3. CASE Draw
  BY <1>3, DrawSource
<1>4. CASE Uuid4
  <2>1. /\ Op("uuid") /\ pc' = pc + 1 /\ UNCHANGED <<script, rand, replayed>>
        /\ SideEffect({Fresh(restarts * (Len(script) + 1) + pc)})
    BY <1>4 DEF Uuid4
  <2>2. "uuid" \in Ops \ {"seed", "draw"}
    BY DEF Ops
  <2>3. QED
    BY <2>1, <2>2, SideEffectAdds, SourceFrame
<1>5. ASSUME NEW o \in Ops \ {"seed", "draw"}, Op(o), pc' = pc + 1,
             UNCHANGED <<script, rand, seen, markers, replayed>>
      PROVE  SourceInv'
  BY <1>5, SourceFrame DEF SourceInv
<1>6. CASE TimeNs
  BY <1>5, <1>6 DEF TimeNs, Ops
<1>7. CASE Block
  BY <1>5, <1>7 DEF Block, EndTask, Ops
<1>8. CASE Sleep
  BY <1>5, <1>8 DEF Sleep, EndTask, Ops
<1>9. CASE SleepNot
  BY <1>5, <1>9 DEF SleepNot, Ops
<1>10. CASE Restart
  <2>1. pc' = 0 /\ markers' = SubSeq(markers, 1, durable) /\ seen' = <<>> /\ replayed' = durable
    BY <1>10 DEF Restart
  <2>2. markers \in Seq(Marks) /\ durable \in 0..Len(markers)
    BY DEF TypeOK, MarkersInv
  <2>3. Len(markers') = durable /\ durable \in Nat /\ Len(seen') = 0
    BY <2>1, <2>2
  <2>4. QED
    BY <2>1, <2>3 DEF SourceInv, SeededPastReplay
<1>11. CASE UNCHANGED vars
  BY <1>11 DEF vars, timeVars, SourceInv, SeededPastReplay, SeededAt, AsSeeded, Got, Count
<1>12. QED
  BY <1>1, <1>2, <1>3, <1>4, <1>6, <1>7, <1>8, <1>9, <1>10, <1>11 DEF Next

-----------------------------------------------------------------------------
(* The times a script gets *)

LEMMA TaskType == ASSUME NEW p \in Nat PROVE TaskOf(p) \in Nat \ {0} /\ TaskOf(p) \in Nat
<1>1. Count({"block", "sleep"}, p) \in Nat
  BY CountType
<1>2. QED
  BY <1>1 DEF TaskOf

\* The place of a time in a script is one, and its task's time is fixed once there is
\* another task.
LEMMA ReadStays ==
  ASSUME UNCHANGED <<script, env>>, NEW p, times'[1] = times[1], times'[TaskOf(p)] = times[TaskOf(p)]
  PROVE  /\ TaskOf(p)' = TaskOf(p) /\ TimeAt(p)' = TimeAt(p)
         /\ \A k : ReadAt(k, p)' = ReadAt(k, p)
<1>1. TaskOf(p)' = TaskOf(p) /\ Count({"now"}, p)' = Count({"now"}, p)
  BY CountFrame DEF TaskOf
<1>2. Delta(times[1])' = Delta(times[1])
  BY DEF Delta
<1>3. times'[TaskOf(p)'] = times[TaskOf(p)]
  BY <1>1
<1>4. TimeAt(p)' = [now |-> times'[TaskOf(p)'], got |-> UnixNano(times'[TaskOf(p)'] + Delta(times[1])')]
  BY DEF TimeAt, UnixNano
<1>5. TimeAt(p)' = TimeAt(p)
  BY <1>2, <1>3, <1>4 DEF TimeAt
<1>6. \A k : ReadAt(k, p)' = ReadAt(k, p)
  BY <1>1 DEF ReadAt
<1>7. QED
  BY <1>1, <1>5, <1>6

\* What ReadInv speaks of, when the script goes on without a time.
LEMMA ReadFrame ==
  ASSUME TypeOK, ReadInv, pc' >= pc, pc' \in Nat, UNCHANGED <<script, env, times, read, actedRead>>
  PROVE  ReadInv'
<1>1. \A p : TaskOf(p)' = TaskOf(p) /\ TimeAt(p)' = TimeAt(p) /\ \A k : ReadAt(k, p)' = ReadAt(k, p)
  BY ReadStays
<1>2. 1..(pc - 1) \subseteq 1..(pc' - 1)
  <2>1. pc \in Nat
    BY DEF TypeOK
  <2>2. \A a, b \in Nat : b >= a => 1..(a - 1) \subseteq 1..(b - 1)
    OBVIOUS
  <2>3. QED
    BY <2>1, <2>2
<1>3. QED
  BY <1>1, <1>2 DEF ReadInv

LEMMA TimeNsRead == ASSUME IInv, CountInv, ReadInv, TimeNs PROVE ReadInv'
<1>1. /\ Op("now") /\ pc' = pc + 1 /\ UNCHANGED <<script, env, times, actedRead>>
      /\ read' = Append(read, [now |-> Now, got |-> UnixNano(Now + delta)])
      /\ TypeOK /\ TimesInv
  BY DEF TimeNs, IInv
<1>2. pc \in Nat \ {0} /\ pc \in DOMAIN script /\ script[pc] = "now"
  BY <1>1, CountStep
<1>3. \A p : TaskOf(p)' = TaskOf(p) /\ TimeAt(p)' = TimeAt(p) /\ \A k : ReadAt(k, p)' = ReadAt(k, p)
  BY <1>1, ReadStays
<1>4. read'[Len(read) + 1] = TimeAt(pc)
  <2>1. Now = times[TaskOf(pc)]
    BY DEF CountInv, Now, TaskOf
  <2>2. delta = Delta(times[1])
    BY <1>1, <1>2 DEF TimesInv
  <2>3. read'[Len(read) + 1] = [now |-> Now, got |-> UnixNano(Now + delta)]
    BY <1>1 DEF TypeOK
  <2>4. QED
    BY <2>1, <2>2, <2>3 DEF TimeAt
<1>5. ReadAt(Len(read) + 1, pc)
  <2>1. Len(read) = Count({"now"}, pc) /\ Len(read) \in Nat
    BY <1>1 DEF CountInv, TypeOK
  <2>2. QED
    BY <1>2, <2>1 DEF ReadAt
<1>6. ASSUME NEW k \in 1..Len(read')
      PROVE  \E p \in 1..(pc' - 1) : ReadAt(k, p)' /\ read'[k] = TimeAt(p)'
  <2>1. CASE k = Len(read) + 1
    <3>1. pc \in 1..(pc' - 1)
      BY <1>1, <1>2
    <3>2. QED
      BY <1>3, <1>4, <1>5, <2>1, <3>1
  <2>2. CASE k # Len(read) + 1
    <3>1. k \in 1..Len(read) /\ read'[k] = read[k]
      <4>1. read \in Seq(Reads) /\ Len(read) \in Nat
        BY <1>1 DEF TypeOK
      <4>2. Len(read') = Len(read) + 1 /\ \A i \in 1..Len(read) : read'[i] = read[i]
        BY <1>1, <4>1
      <4>3. k \in 1..Len(read)
        BY <2>2, <4>1, <4>2
      <4>4. QED
        BY <4>2, <4>3
    <3>2. PICK p \in 1..(pc - 1) : ReadAt(k, p) /\ read[k] = TimeAt(p)
      BY <3>1 DEF ReadInv
    <3>3. p \in 1..(pc' - 1)
      BY <1>1, <1>2
    <3>4. QED
      BY <1>3, <3>1, <3>2, <3>3
  <2>3. QED
    BY <2>1, <2>2
<1>7. QED
  BY <1>1, <1>3, <1>6 DEF ReadInv

\* A task that ends leaves its times behind, and the next begins after its sleep.
LEMMA EndTaskRead ==
  ASSUME IInv, CountInv, ReadInv, NEW o \in {"block", "sleep"}, Op(o), NEW next, EndTask(next),
         \A t \in next : t \in Nat /\ (o = "sleep" => t >= Now + Nap)
  PROVE  ReadInv'
<1>1. /\ TypeOK /\ TimesInv /\ pc' = pc + 1 /\ UNCHANGED <<script, env, read, delta>>
      /\ actedRead' \in {actedRead, read}
  BY DEF EndTask, IInv
<1>2. pc \in Nat \ {0} /\ pc \in DOMAIN script /\ script[pc] = o
  BY <1>1, CountStep
<1>3. PICK t \in next : times' = IF task < Len(times) THEN times ELSE Append(times, t)
  BY DEF EndTask
<1>4. /\ task = TaskOf(pc) /\ task \in 1..Len(times) /\ Len(times) \in Nat /\ times \in Seq(Nat)
      /\ Now = times[task]
  BY <1>1 DEF CountInv, TaskOf, TimesInv, TypeOK, Now
<1>5. /\ Len(times) <= Len(times') /\ Len(times') \in Nat /\ task < Len(times')
      /\ \A i \in 1..Len(times) : times'[i] = times[i]
      /\ times' = times \/ (task = Len(times) /\ Len(times') = Len(times) + 1 /\ times'[Len(times) + 1] = t)
  BY <1>3, <1>4
<1>6. ASSUME NEW p \in Nat, TaskOf(p) <= Len(times)
      PROVE  TaskOf(p)' = TaskOf(p) /\ TimeAt(p)' = TimeAt(p) /\ \A k : ReadAt(k, p)' = ReadAt(k, p)
  <2>1. TaskOf(p) \in 1..Len(times) /\ 1 \in 1..Len(times)
    <3>1. TaskOf(p) \in Nat \ {0}
      BY TaskType
    <3>2. QED
      BY <1>4, <1>6, <3>1
  <2>2. QED
    BY <1>1, <1>5, <2>1, ReadStays
<1>7. ASSUME NEW k \in 1..Len(read)
      PROVE  \E p \in 1..(pc - 1) :
               /\ p \in DOMAIN script /\ TaskOf(p)' < Len(times')
               /\ ReadAt(k, p)' /\ read[k] = TimeAt(p)'
  <2>1. PICK p \in 1..(pc - 1) : ReadAt(k, p) /\ read[k] = TimeAt(p)
    BY <1>7 DEF ReadInv
  <2>2. p \in Nat /\ p <= pc
    BY <1>2
  <2>3. TaskOf(p) <= task
    <3>1. pc \in Nat
      BY <1>2
    <3>2. /\ Count({"block", "sleep"}, p) <= Count({"block", "sleep"}, pc)
          /\ Count({"block", "sleep"}, p) \in Nat /\ Count({"block", "sleep"}, pc) \in Nat
      BY <2>2, <3>1, CountMonotone, CountType
    <3>3. QED
      BY <1>4, <3>2 DEF TaskOf
  <2>4. TaskOf(p) \in Nat
    BY <2>2, TaskType
  <2>5. TaskOf(p) <= Len(times) /\ TaskOf(p) < Len(times')
    BY <1>4, <1>5, <2>3, <2>4
  <2>6. TaskOf(p)' = TaskOf(p) /\ TimeAt(p)' = TimeAt(p) /\ ReadAt(k, p)' = ReadAt(k, p)
    BY <1>6, <2>2, <2>5
  <2>7. p \in DOMAIN script
    BY <2>1 DEF ReadAt
  <2>8. QED
    BY <2>1, <2>5, <2>6, <2>7
<1>8. \A k \in 1..Len(read') : \E p \in 1..(pc' - 1) : ReadAt(k, p)' /\ read'[k] = TimeAt(p)'
  <2>1. 1..(pc - 1) \subseteq 1..(pc' - 1)
    BY <1>1, <1>2
  <2>2. QED
    BY <1>1, <1>7, <2>1
<1>9. \A k \in 1..Len(actedRead') :
        \E p \in DOMAIN script' :
          ReadAt(k, p)' /\ TaskOf(p)' < Len(times') /\ actedRead'[k] = TimeAt(p)'
  <2>1. CASE actedRead' = read
    BY <1>1, <1>7, <2>1
  <2>2. CASE actedRead' = actedRead
    <3> SUFFICES ASSUME NEW k \in 1..Len(actedRead)
                 PROVE  \E p \in DOMAIN script :
                          ReadAt(k, p)' /\ TaskOf(p)' < Len(times') /\ actedRead[k] = TimeAt(p)'
      BY <1>1, <2>2
    <3>1. PICK p \in DOMAIN script :
            ReadAt(k, p) /\ TaskOf(p) < Len(times) /\ actedRead[k] = TimeAt(p)
      BY DEF ReadInv
    <3>2. p \in Nat
      BY <1>1 DEF TypeOK
    <3>3. TaskOf(p) <= Len(times) /\ TaskOf(p) < Len(times')
      <4>1. TaskOf(p) \in Nat
        BY <3>2, TaskType
      <4>2. QED
        BY <1>4, <1>5, <3>1, <4>1
    <3>4. QED
      BY <1>6, <3>1, <3>2, <3>3
  <2>3. QED
    BY <1>1, <2>1, <2>2
<1>10. ASSUME NEW p \in DOMAIN script', script'[p] = "sleep", TaskOf(p)' < Len(times')
       PROVE  times'[TaskOf(p)' + 1] >= times'[TaskOf(p)'] + Nap
  <2>1. p \in Nat \ {0} /\ p \in DOMAIN script /\ script[p] = "sleep"
    BY <1>1, <1>10 DEF TypeOK
  <2>2. TaskOf(p)' = TaskOf(p) /\ TaskOf(p) \in Nat \ {0}
    BY <1>1, <2>1, CountFrame, TaskType DEF TaskOf
  <2>3. CASE TaskOf(p) < Len(times)
    <3>1. times[TaskOf(p) + 1] >= times[TaskOf(p)] + Nap
      BY <2>1, <2>3 DEF ReadInv
    <3>2. TaskOf(p) \in 1..Len(times) /\ TaskOf(p) + 1 \in 1..Len(times)
      BY <1>4, <2>2, <2>3
    <3>3. QED
      BY <1>5, <2>2, <3>1, <3>2
  <2>4. CASE ~(TaskOf(p) < Len(times))
    <3>1. /\ TaskOf(p) = Len(times) /\ task = Len(times)
          /\ times'[Len(times) + 1] = t /\ times'[Len(times)] = times[Len(times)]
      BY <1>4, <1>5, <1>10, <2>2, <2>4
    <3>2. p = pc
      <4>1. Count({"block", "sleep"}, p) \in Nat /\ Count({"block", "sleep"}, pc) \in Nat
        <5>1. p \in Nat /\ pc \in Nat
          BY <1>2, <2>1
        <5>2. QED
          BY <5>1, CountType
      <4>2. Count({"block", "sleep"}, p) = Count({"block", "sleep"}, pc)
        BY <1>4, <3>1, <4>1 DEF TaskOf
      <4>3. QED
        BY <1>2, <2>1, <4>2, CountTells
    <3>3. o = "sleep"
      BY <1>2, <2>1, <3>2
    <3>4. QED
      BY <1>4, <2>2, <3>1, <3>3
  <2>5. QED
    BY <2>3, <2>4
<1>11. QED
  BY <1>8, <1>9, <1>10 DEF ReadInv

\* A lost worker moves only the time of the last task, which none of the times acted
\* upon is of.
LEMMA RestartRead == ASSUME IInv, ReadInv, Restart PROVE ReadInv'
<1>1. /\ TypeOK /\ TimesInv /\ pc' = 0 /\ read' = <<>> /\ UNCHANGED <<script, env, actedRead>>
  BY DEF Restart, IInv
<1>2. PICK t \in 0..1 : times' = [times EXCEPT ![Len(times)] = @ + t]
  BY DEF Restart
<1>3. times \in Seq(Nat) /\ Len(times) \in Nat /\ task \in 1..Len(times)
  BY <1>1 DEF TypeOK, TimesInv
<1>4. /\ Len(times') = Len(times) /\ \A i \in 1..(Len(times) - 1) : times'[i] = times[i]
      /\ times'[Len(times)] = times[Len(times)] + t
  BY <1>2, <1>3
<1>5. ASSUME NEW p \in Nat, TaskOf(p) < Len(times)
      PROVE  /\ TaskOf(p)' = TaskOf(p) /\ TimeAt(p)' = TimeAt(p) /\ \A k : ReadAt(k, p)' = ReadAt(k, p)
             /\ TaskOf(p) \in 1..(Len(times) - 1)
  <2>1. TaskOf(p) \in Nat \ {0}
    BY TaskType
  <2>2. TaskOf(p) \in 1..(Len(times) - 1) /\ 1 \in 1..(Len(times) - 1)
    BY <1>3, <1>5, <2>1
  <2>3. QED
    BY <1>1, <1>4, <2>2, ReadStays
<1>6. \A k \in 1..Len(actedRead') :
        \E p \in DOMAIN script' :
          ReadAt(k, p)' /\ TaskOf(p)' < Len(times') /\ actedRead'[k] = TimeAt(p)'
  <2> SUFFICES ASSUME NEW k \in 1..Len(actedRead)
               PROVE  \E p \in DOMAIN script :
                        ReadAt(k, p)' /\ TaskOf(p)' < Len(times') /\ actedRead[k] = TimeAt(p)'
    BY <1>1
  <2>1. PICK p \in DOMAIN script :
          ReadAt(k, p) /\ TaskOf(p) < Len(times) /\ actedRead[k] = TimeAt(p)
    BY DEF ReadInv
  <2>2. p \in Nat
    BY <1>1 DEF TypeOK
  <2>3. QED
    BY <1>4, <1>5, <2>1, <2>2
<1>7. ASSUME NEW p \in DOMAIN script', script'[p] = "sleep", TaskOf(p)' < Len(times')
      PROVE  times'[TaskOf(p)' + 1] >= times'[TaskOf(p)'] + Nap
  <2>1. p \in Nat /\ p \in DOMAIN script /\ script[p] = "sleep"
    BY <1>1, <1>7 DEF TypeOK
  <2>2. TaskOf(p)' = TaskOf(p)
    BY <1>1, CountFrame DEF TaskOf
  <2>3. /\ TaskOf(p) < Len(times) /\ TaskOf(p) \in 1..(Len(times) - 1)
    BY <1>4, <1>5, <1>7, <2>1, <2>2
  <2>4. times[TaskOf(p) + 1] >= times[TaskOf(p)] + Nap
    BY <2>1, <2>3 DEF ReadInv
  <2>5. /\ TaskOf(p) + 1 \in 1..Len(times) /\ times[TaskOf(p)] \in Nat /\ times[TaskOf(p) + 1] \in Nat
    BY <1>3, <2>3
  <2>6. times'[TaskOf(p)] = times[TaskOf(p)] /\ times'[TaskOf(p) + 1] >= times[TaskOf(p) + 1]
    <3>1. CASE TaskOf(p) + 1 = Len(times)
      BY <1>4, <2>3, <2>5, <3>1
    <3>2. CASE TaskOf(p) + 1 # Len(times)
      <4>1. TaskOf(p) + 1 \in 1..(Len(times) - 1)
        BY <1>3, <2>3, <3>2
      <4>2. QED
        BY <1>4, <2>3, <2>5, <4>1
    <3>3. QED
      BY <3>1, <3>2
  <2>7. times'[TaskOf(p) + 1] \in Nat
    <3>1. TaskOf(p) + 1 = Len(times) \/ TaskOf(p) + 1 \in 1..(Len(times) - 1)
      BY <1>3, <2>3
    <3>2. QED
      BY <1>4, <2>5, <3>1
  <2>8. Nap \in Nat
    BY TimeAssumption
  <2>9. QED
    BY <2>2, <2>4, <2>5, <2>6, <2>7, <2>8
<1>8. QED
  BY <1>1, <1>6, <1>7 DEF ReadInv

LEMMA ReadInvNext == IInv /\ CountInv /\ ReadInv /\ [Next]_vars => ReadInv'
<1> SUFFICES ASSUME IInv, CountInv, ReadInv, [Next]_vars PROVE ReadInv'
  OBVIOUS
<1>1. TypeOK /\ TimesInv /\ pc \in Nat
  BY DEF IInv, TypeOK
<1>2. Now \in Nat /\ Nap \in Nat
  BY <1>1, TypesOfTime
<1>3. ASSUME pc' = pc + 1, UNCHANGED <<script, env, times, read, actedRead>> PROVE ReadInv'
  BY <1>1, <1>3, ReadFrame
<1>4. CASE Create
  BY <1>3, <1>4 DEF Create
<1>5. CASE Seed \/ Draw \/ Uuid4 \/ SleepNot
  BY <1>3, <1>5 DEF Seed, Draw, Uuid4, SleepNot, timeVars
<1>6. CASE TimeNs
  BY <1>6, TimeNsRead
<1>7. CASE Block
  <2>1. \A t \in Now..(Now + 1) : t \in Nat /\ ("block" = "sleep" => t >= Now + Nap)
    BY <1>2
  <2>2. QED
    BY <1>7, <2>1, EndTaskRead DEF Block
<1>8. CASE Sleep
  <2>1. \A t \in (Now + Nap)..(Now + Nap + 1) : t \in Nat /\ t >= Now + Nap
    BY <1>2
  <2>2. QED
    BY <1>8, <2>1, EndTaskRead DEF Sleep
<1>9. CASE Restart
  BY <1>9, RestartRead
<1>10. CASE UNCHANGED vars
  BY <1>1, <1>10, ReadFrame DEF vars, timeVars
<1>11. QED
  BY <1>4, <1>5, <1>6, <1>7, <1>8, <1>9, <1>10 DEF Next

\* The inductive invariant of a workflow that follows its script again.
THEOREM ScriptInvariance == Spec => [](IInv /\ ScriptInv)
<1>1. Init => ScriptInv
  <2> SUFFICES ASSUME Init PROVE ScriptInv
    OBVIOUS
  <2>1. /\ pc = 0 /\ seen = <<>> /\ read = <<>> /\ actedRead = <<>> /\ markers = <<>> /\ replayed = 0
        /\ task = 1 /\ times = <<0>>
    BY DEF Init
  <2>2. \A ops : Count(ops, pc) = 0
    BY <2>1, CountNone
  <2>3. CountInv
    BY <2>1, <2>2 DEF CountInv, Got
  <2>4. SourceInv
    BY <2>1 DEF SourceInv, SeededPastReplay
  <2>5. \A p \in DOMAIN script : ~(TaskOf(p) < Len(times))
    <3>1. script \in Seq(Ops)
      BY InitInv DEF IInv, TypeOK
    <3>2. \A p \in DOMAIN script : TaskOf(p) \in Nat \ {0}
      BY <3>1, TaskType
    <3>3. Len(times) = 1
      BY <2>1
    <3>4. QED
      BY <3>2, <3>3
  <2>6. ReadInv
    BY <2>1, <2>5 DEF ReadInv
  <2>7. QED
    BY <2>3, <2>4, <2>6 DEF ScriptInv
<1>2. IInv /\ ScriptInv /\ [Next]_vars => ScriptInv'
  BY CountInvNext, SourceInvNext, ReadInvNext DEF ScriptInv
<1>3. QED
  BY <1>1, <1>2, Invariance, PTL DEF Spec

\* A seed that was set past the replayed part of a run gives the numbers it stands
\* for, however often the worker was lost before: from there on the function of
\* each side effect runs, and the source moves on with it.
THEOREM SeedsHold == Spec => []SeededPastReplay
<1>1. ScriptInv => SeededPastReplay
  BY DEF ScriptInv, SourceInv
<1>2. QED
  BY <1>1, ScriptInvariance, PTL

\* The number of a time tells its place in the script.
LEMMA OnePlace ==
  ASSUME TypeOK, NEW k, NEW p, NEW q, ReadAt(k, p), ReadAt(k, q)
  PROVE  p = q
<1>1. p \in Nat \ {0} /\ q \in Nat \ {0}
  BY DEF ReadAt, TypeOK
<1>2. script[p] \in {"now"} /\ script[q] \in {"now"} /\ Count({"now"}, p) = Count({"now"}, q)
  BY DEF ReadAt
<1>3. QED
  BY <1>1, <1>2, CountTells

\* The last time, after a sleep, is that much later than those before.
LEMMA LaterBySleep ==
  ASSUME IInv, CountInv, ReadInv, Near, ShiftedAsAsked,
         pc > 2, pc - 1 \in DOMAIN script, script[pc - 1] = "now", script[pc - 2] = "sleep",
         NEW k \in 1..(Len(read) - 1)
  PROVE  read[Len(read)].got >= read[k].got + Nap
<1>1. /\ pc \in Nat /\ pc - 1 \in Nat \ {0} /\ pc - 2 \in Nat \ {0} /\ TypeOK /\ TimesInv
      /\ times \in Seq(Nat) /\ read \in Seq(Reads) /\ Len(read) \in Nat /\ Nap \in Nat
      /\ k \in Nat
  BY TimeAssumption DEF IInv, TypeOK
<1>2. k \in 1..Len(read) /\ Len(read) \in 1..Len(read)
  BY <1>1
<1>3. PICK p \in 1..(pc - 1) : ReadAt(Len(read), p) /\ read[Len(read)] = TimeAt(p)
  BY <1>2 DEF ReadInv
<1>4. PICK q \in 1..(pc - 1) : ReadAt(k, q) /\ read[k] = TimeAt(q)
  BY <1>2 DEF ReadInv
<1>5. p = pc - 1
  <2>1. Count({"now"}, pc) = Count({"now"}, pc - 1) + 1
    <3>1. Count({"now"}, (pc - 1) + 1) = Count({"now"}, pc - 1) + 1
      BY <1>1, CountNext
    <3>2. (pc - 1) + 1 = pc
      BY <1>1
    <3>3. QED
      BY <3>1, <3>2
  <2>2. Count({"now"}, pc - 1) \in Nat
    BY <1>1, CountType
  <2>3. ReadAt(Len(read), pc - 1)
    BY <1>1, <2>1, <2>2 DEF ReadAt, CountInv
  <2>4. QED
    BY <1>1, <1>3, <2>3, OnePlace
<1>6. q < pc - 2
  <2>1. q # pc - 1
    BY <1>1, <1>3, <1>4, <1>5 DEF ReadAt
  <2>2. q # pc - 2
    BY <1>4 DEF ReadAt
  <2>3. QED
    BY <1>1, <2>1, <2>2
<1>7. /\ TaskOf(q) <= TaskOf(pc - 2) /\ TaskOf(pc - 1) = TaskOf(pc - 2) + 1
      /\ TaskOf(q) \in Nat \ {0} /\ TaskOf(pc - 2) \in Nat \ {0}
      /\ TaskOf(pc - 1) <= task
  <2>1. q \in Nat /\ q <= pc - 2 /\ pc - 1 <= pc /\ pc - 2 \in Nat /\ pc - 1 \in Nat
    BY <1>1, <1>6
  <2>2. /\ Count({"block", "sleep"}, q) <= Count({"block", "sleep"}, pc - 2)
        /\ Count({"block", "sleep"}, pc - 1) <= Count({"block", "sleep"}, pc)
    BY <1>1, <2>1, CountMonotone
  <2>3. Count({"block", "sleep"}, pc - 1) = Count({"block", "sleep"}, pc - 2) + 1
    <3>1. Count({"block", "sleep"}, (pc - 2) + 1) = Count({"block", "sleep"}, pc - 2) + 1
      BY <1>1, CountNext
    <3>2. (pc - 2) + 1 = pc - 1
      BY <1>1
    <3>3. QED
      BY <3>1, <3>2
  <2>4. \A n \in {q, pc - 1, pc - 2, pc} : Count({"block", "sleep"}, n) \in Nat
    BY <1>1, <2>1, CountType
  <2>5. task = 1 + Count({"block", "sleep"}, pc)
    BY DEF CountInv
  <2>6. \A a, b, c, d \in Nat : a <= b /\ c = b + 1 /\ c <= d =>
          1 + a <= 1 + b /\ 1 + c = 1 + b + 1 /\ 1 + c <= 1 + d
    OBVIOUS
  <2>7. QED
    BY <2>2, <2>3, <2>4, <2>5, <2>6 DEF TaskOf
<1>8. task \in 1..Len(times) /\ Len(times) \in Nat
  BY <1>1 DEF TimesInv
<1>9. /\ TaskOf(q) \in 1..Len(times) /\ TaskOf(pc - 2) \in 1..Len(times)
      /\ TaskOf(pc - 2) + 1 \in 1..Len(times) /\ TaskOf(pc - 2) < Len(times)
  BY <1>7, <1>8
<1>10. times[TaskOf(q)] <= times[TaskOf(pc - 2)]
  BY <1>1, <1>7, <1>9 DEF TimesInv
<1>11. times[TaskOf(pc - 2) + 1] >= times[TaskOf(pc - 2)] + Nap
  <2>1. pc - 2 \in DOMAIN script
    BY <1>1 DEF TypeOK
  <2>2. QED
    BY <1>9, <2>1 DEF ReadInv
<1>12. read[Len(read)].now = times[TaskOf(pc - 2) + 1] /\ read[k].now = times[TaskOf(q)]
  BY <1>3, <1>4, <1>5, <1>7 DEF TimeAt
<1>13. /\ read[Len(read)].got = Asked + read[Len(read)].now - times[1]
       /\ read[k].got = Asked + read[k].now - times[1]
  BY <1>1, <1>2 DEF ShiftedAsAsked
<1>14. Asked \in Int /\ times[1] \in Nat
  <2>1. times[1] \in Nat
    BY <1>1, <1>8
  <2>2. QED
    BY <1>1, <2>1 DEF Asked, Near, TypeOK
<1>15. times[TaskOf(q)] \in Nat /\ times[TaskOf(pc - 2)] \in Nat /\ times[TaskOf(pc - 2) + 1] \in Nat
  <2>1. times \in Seq(Nat)
    BY <1>1 DEF TypeOK
  <2>2. \A i \in 1..Len(times) : times[i] \in Nat
    BY <2>1
  <2>3. QED
    BY <1>9, <2>2
<1>16. times[TaskOf(pc - 2) + 1] >= times[TaskOf(q)] + Nap
  <2>1. \A x, y, z, n \in Nat : x <= y /\ z >= y + n => z >= x + n
    OBVIOUS
  <2>2. Nap \in Nat
    BY <1>1
  <2>3. QED
    BY <1>10, <1>11, <1>15, <2>1, <2>2
<1>17. \A a \in Int : \A b, x, y, n \in Nat : y >= x + n => a + y - b >= a + x - b + n
  OBVIOUS
<1>18. Asked + times[TaskOf(pc - 2) + 1] - times[1] >= Asked + times[TaskOf(q)] - times[1] + Nap
  <2>1. Nap \in Nat
    BY <1>1
  <2>2. QED
    BY <1>14, <1>15, <1>16, <1>17, <2>1
<1>19. /\ read[Len(read)].got = Asked + times[TaskOf(pc - 2) + 1] - times[1]
       /\ read[k].got = Asked + times[TaskOf(q)] - times[1]
  BY <1>12, <1>13
<1>20. QED
  BY <1>18, <1>19

\* A script sees the time as if its run had begun when STARLARK_TIME says, as much
\* later as the workflow has gone on since; the same again on every replay; and
\* after a sleep at least as much later as it slept.
THEOREM TimesAsAsked == Spec => []TimeAsAsked
<1>1. IInv /\ ScriptInv /\ (Near => ShiftedAsAsked) => TimeAsAsked
  <2> SUFFICES ASSUME IInv, CountInv, ReadInv, Near, ShiftedAsAsked PROVE TimeAsAsked
    BY DEF ScriptInv, TimeAsAsked
  <2>1. ASSUME NEW k \in DOMAIN read, k \in DOMAIN actedRead PROVE read[k] = actedRead[k]
    <3>1. k \in 1..Len(read) /\ k \in 1..Len(actedRead) /\ TypeOK
      BY <2>1 DEF IInv, TypeOK
    <3>2. PICK p \in 1..(pc - 1) : ReadAt(k, p) /\ read[k] = TimeAt(p)
      BY <3>1 DEF ReadInv
    <3>3. PICK q \in DOMAIN script : ReadAt(k, q) /\ actedRead[k] = TimeAt(q)
      BY <3>1 DEF ReadInv
    <3>4. QED
      BY <3>1, <3>2, <3>3, OnePlace
  <2>2. QED
    BY <2>1, LaterBySleep DEF TimeAsAsked
<1>2. QED
  BY <1>1, ScriptInvariance, TimesShifted, PTL
=============================================================================
