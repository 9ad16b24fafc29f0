--------------------------- MODULE CoroutinesProofs ---------------------------
(***************************************************************************)
(* Theorems about ThreadLogs and about Coroutines, for every number of     *)
(* coroutines, every limit a script may set and every amount of work.  For *)
(* the log buffer the invariant is the conjunction of the properties       *)
(* themselves: what print() does to the list depends on its length alone,  *)
(* which both limit properties bound.  The buffer of Coroutines is that of *)
(* ThreadLogs, since every step of a coroutine is one of ThreadLogs or     *)
(* leaves the buffer alone.  The rest follows from CoInv: a future is set  *)
(* once, when its function ends, and a function ends once.                 *)
(***************************************************************************)
EXTENDS Coroutines, TLAPS

-----------------------------------------------------------------------------
(* The log buffer *)

LEMMA LimitIsInt == \A v \in Values : LimitUnder(v) \in Int
BY LengthsAssumption DEF Values, Number, LimitUnder

LEMMA InitInv == Init => IInv
<1> SUFFICES ASSUME Init PROVE IInv
  OBVIOUS
<1>1. environ \in Values /\ LimitUnder(environ) \in Int /\ panicked \in BOOLEAN
  BY LimitIsInt DEF Init
<1>2. TypeOK
  <2>1. <<>> \in Seq(Int) /\ \A n \in Int : <<n>> \in Seq(Int)
    OBVIOUS
  <2>2. limit \in Seq(Int)
    BY <1>1, <2>1 DEF Init
  <2>3. logs \in Seq(1..printed)
    BY DEF Init
  <2>4. QED
    BY <1>1, <2>2, <2>3 DEF Init, TypeOK
<1>3. QED
  BY <1>2 DEF Init, IInv, LogsAreLatest, SmallestLimitKept, LargestLimitHolds

\* A line is added at the end, and at most one is taken from the front.
LEMMA PrintedLogs ==
  ASSUME TypeOK, NEW t \in Threads, PrintLine(t)
  PROVE  /\ limit[t] \in Int
         /\ logs' \in Seq(1..printed')
         /\ Len(logs) + 1 > limit[t] =>
              /\ Len(logs') = Len(logs)
              /\ \A k \in 1..Len(logs') : logs'[k] = Pushed[k + 1]
         /\ Len(logs) + 1 <= limit[t] =>
              /\ Len(logs') = Len(logs) + 1
              /\ \A k \in 1..Len(logs') : logs'[k] = Pushed[k]
<1>1. Pushed \in Seq(1..(printed + 1)) /\ Len(Pushed) = Len(logs) + 1
  <2>1. logs \in Seq(1..(printed + 1))
    BY DEF TypeOK
  <2>2. printed + 1 \in 1..(printed + 1)
    BY DEF TypeOK
  <2>3. QED
    BY <2>1, <2>2 DEF Pushed
<1>2. limit[t] \in Int /\ printed' = printed + 1
  BY DEF TypeOK, PrintLine, PrintTo
<1>3. CASE Len(Pushed) > limit[t]
  BY <1>1, <1>2, <1>3 DEF PrintLine, PrintTo
<1>4. CASE ~(Len(Pushed) > limit[t])
  BY <1>1, <1>2, <1>4 DEF PrintLine, PrintTo
<1>5. QED
  BY <1>1, <1>2, <1>3, <1>4

LEMMA PrintInv == ASSUME IInv, NEW t \in Threads, PrintLine(t) PROVE IInv'
<1> USE DEF IInv
<1>1. printed' = printed + 1 /\ limit' = limit /\ printed \in Nat /\ logs \in Seq(1..printed)
  BY DEF TypeOK, PrintLine, PrintTo
<1>2. limit[t] \in Int /\ t \in DOMAIN limit /\ \A s \in DOMAIN limit : limit[s] \in Int
  BY DEF TypeOK, PrintLine, PrintTo
<1>3. TypeOK'
  BY PrintedLogs DEF TypeOK, PrintLine, PrintTo
<1>4. LogsAreLatest'
  <2>1. \A k \in 1..(Len(logs) + 1) : Pushed[k] = printed - Len(logs) + k
    BY <1>1 DEF Pushed, LogsAreLatest
  <2> DEFINE shift == IF Len(logs) + 1 > limit[t] THEN 1 ELSE 0
  <2>2. /\ Len(logs') = Len(logs) + 1 - shift
        /\ \A k \in 1..Len(logs') : logs'[k] = Pushed[k + shift]
    <3>1. CASE Len(logs) + 1 > limit[t]
      BY <1>1, <3>1, PrintedLogs
    <3>2. CASE Len(logs) + 1 <= limit[t]
      <4>1. shift = 0
        BY <1>1, <1>2, <3>2
      <4>2. Len(logs') = Len(logs) + 1 /\ \A k \in 1..Len(logs') : logs'[k] = Pushed[k]
        BY <3>2, PrintedLogs DEF IInv
      <4>3. Len(logs) \in Nat
        BY <1>1
      <4>4. QED
        BY <4>1, <4>2, <4>3
    <3>3. QED
      BY <1>1, <1>2, <3>1, <3>2
  <2>3. shift \in {0, 1} /\ Len(logs) \in Nat /\ Len(logs) <= printed
    BY <1>1 DEF LogsAreLatest
  <2> HIDE DEF shift
  <2>4. QED
    BY <1>1, <2>1, <2>2, <2>3 DEF LogsAreLatest
<1>5. SmallestLimitKept'
  <2> SUFFICES ASSUME NEW m \in 0..(printed + 1), \A s \in DOMAIN limit : limit[s] >= m
               PROVE  Len(logs') >= m
    BY <1>1 DEF SmallestLimitKept
  <2>1. CASE Len(logs) + 1 > limit[t]
    <3>1. Len(logs) >= m
      BY <1>1, <1>2, <2>1
    <3>2. QED
      BY <2>1, <3>1, PrintedLogs
  <2>2. CASE Len(logs) + 1 <= limit[t]
    <3>1. m = 0 \/ (m - 1 \in 0..printed /\ \A s \in DOMAIN limit : limit[s] >= m - 1)
      BY <1>1, <1>2
    <3>2. Len(logs) >= m - 1
      BY <1>1, <3>1 DEF SmallestLimitKept
    <3>3. QED
      BY <1>1, <2>2, <3>2, PrintedLogs
  <2>3. QED
    BY <1>1, <1>2, <2>1, <2>2
<1>6. LargestLimitHolds'
  <2> SUFFICES ASSUME NEW m \in 0..(printed + 1), \A s \in DOMAIN limit : limit[s] <= m
               PROVE  Len(logs') <= m
    BY <1>1 DEF LargestLimitHolds
  <2>1. Len(logs) <= printed
    BY DEF LogsAreLatest
  <2>2. Len(logs) <= m
    BY <1>1, <2>1 DEF LargestLimitHolds
  <2>3. CASE Len(logs) + 1 > limit[t]
    BY <1>1, <2>2, <2>3, PrintedLogs
  <2>4. CASE Len(logs) + 1 <= limit[t]
    BY <1>1, <1>2, <2>4, PrintedLogs
  <2>5. QED
    BY <1>1, <1>2, <2>3, <2>4
<1>7. QED
  BY <1>3, <1>4, <1>5, <1>6

\* A new thread only narrows what the limit properties promise.
LEMMA CreateThreadInv == IInv /\ CreateThread => IInv'
<1> SUFFICES ASSUME IInv, CreateThread PROVE IInv'
  OBVIOUS
<1>1. CASE environ.kind = "other"
  BY <1>1 DEF IInv, CreateThread, TypeOK, LogsAreLatest, SmallestLimitKept, LargestLimitHolds
<1>2. CASE environ.kind # "other"
  <2>1. limit' = Append(limit, LimitUnder(environ)) /\ LimitUnder(environ) \in Int
    BY <1>2, LimitIsInt DEF IInv, TypeOK, CreateThread
  <2>2. limit' \in Seq(Int) /\ Len(limit') = Len(limit) + 1
    BY <2>1 DEF IInv, TypeOK
  <2>3. \A s \in DOMAIN limit : s \in DOMAIN limit' /\ limit'[s] = limit[s]
    BY <2>1 DEF IInv, TypeOK
  <2>4. TypeOK'
    BY <1>2, <2>2 DEF IInv, TypeOK, CreateThread
  <2>5. LogsAreLatest'
    BY <1>2 DEF IInv, LogsAreLatest, CreateThread
  <2>6. SmallestLimitKept' /\ LargestLimitHolds'
    <3>1. logs' = logs /\ printed' = printed
      BY DEF CreateThread
    <3>2. SmallestLimitKept'
      BY <2>3, <3>1 DEF IInv, SmallestLimitKept
    <3>3. LargestLimitHolds'
      BY <2>3, <3>1 DEF IInv, LargestLimitHolds
    <3>4. QED
      BY <3>2, <3>3
  <2>7. QED
    BY <2>4, <2>5, <2>6 DEF IInv
<1>3. QED
  BY <1>1, <1>2

LEMMA NextInv == IInv /\ [Next]_vars => IInv'
<1> SUFFICES ASSUME IInv, [Next]_vars PROVE IInv'
  OBVIOUS
<1> USE DEF IInv, TypeOK, LogsAreLatest, SmallestLimitKept, LargestLimitHolds
<1>1. ASSUME NEW v \in Values, SetEnviron(v) PROVE IInv'
  BY <1>1 DEF SetEnviron
<1>2. CASE UNCHANGED vars
  BY <1>2 DEF vars
<1>3. QED
  BY <1>1, <1>2, PrintInv, CreateThreadInv DEF Next

\* The inductive invariant of the log buffer.
THEOREM Invariance == Spec => []IInv
BY InitInv, NextInv, PTL DEF Spec

\* The types of the list, the limits and the environ entry.
THEOREM TypeCorrect == Spec => []TypeOK
<1>1. IInv => TypeOK
  BY DEF IInv
<1>2. QED
  BY <1>1, Invariance, PTL

\* The logs query answers with the latest lines, whatever the limits.
THEOREM LatestLines == Spec => []LogsAreLatest
<1>1. IInv => LogsAreLatest
  BY DEF IInv
<1>2. QED
  BY <1>1, Invariance, PTL

\* As many lines as the smallest limit can always be read, and never more
\* than the largest.
THEOREM BetweenLimits == Spec => []LengthWithinLimits
<1>1. IInv => LengthWithinLimits
  BY DEF IInv, LengthWithinLimits
<1>2. QED
  BY <1>1, Invariance, PTL

\* No step of any thread makes the list shorter.
THEOREM ListNeverShrinks == Spec => NeverShrinks
<1>1. IInv /\ [Next]_vars => [Len(logs') >= Len(logs)]_vars
  <2> SUFFICES ASSUME IInv, Next PROVE Len(logs') >= Len(logs)
    BY DEF vars
  <2>1. TypeOK /\ logs \in Seq(1..printed)
    BY DEF IInv, TypeOK
  <2>2. ASSUME NEW t \in Threads, PrintLine(t) PROVE Len(logs') >= Len(logs)
    <3>1. limit[t] \in Int /\ Len(logs) \in Nat
      BY <2>1, <2>2, PrintedLogs
    <3>2. Len(logs) + 1 > limit[t] \/ Len(logs) + 1 <= limit[t]
      BY <3>1
    <3>3. QED
      BY <2>1, <2>2, <3>1, <3>2, PrintedLogs
  <2>3. CASE \E v \in Values : SetEnviron(v)
    BY <2>1, <2>3 DEF SetEnviron
  <2>4. CASE CreateThread
    BY <2>1, <2>4 DEF CreateThread
  <2>5. QED
    BY <2>2, <2>3, <2>4 DEF Next
<1>2. QED
  BY <1>1, Invariance, PTL DEF Spec, NeverShrinks

-----------------------------------------------------------------------------
(* Coroutines, futures and progress *)

LEMMA OutcomeFacts ==
  \A o \in Outcomes : o # <<>> /\ o[2] \in Coroutines /\ o[1] \in {"value", "error"}
BY DEF Outcomes, Value, Error

LEMMA OwnOutcomes ==
  \A c \in Coroutines : /\ Value(c) \in Outcomes /\ Value(c)[1] = "value" /\ Value(c)[2] = c
                        /\ Error(c) \in Outcomes /\ Error(c)[1] = "error" /\ Error(c)[2] = c
BY DEF Outcomes, Value, Error

LEMMA CoInitInv == CoInit => IInv /\ CoInv
<1> SUFFICES ASSUME CoInit PROVE IInv /\ CoInv
  OBVIOUS
<1>1. 1 \in Coroutines /\ 0 \in 0..MaxThreads /\ 1 \in 0..MaxThreads
  BY BoundsAssumption DEF Coroutines, Threads
<1>2. CoTypeOK
  BY <1>1, BoundsAssumption DEF CoInit, CoTypeOK, Places
<1>3. SetAtEnd /\ GotIsSet /\ ErrorEnds /\ Named /\ WaitsForOne /\ HeardEnded /\ ReportsFollowResults
  BY DEF CoInit, SetAtEnd, GotIsSet, ErrorEnds, Named, WaitsForOne, HeardEnded, ReportsFollowResults
<1>4. QED
  BY <1>2, <1>3, InitInv DEF CoInit, CoInv

\* A function that had not ended ends, with its own outcome or with an error it
\* has just got.
LEMMA SettleInv ==
  ASSUME CoInv, NEW c \in Coroutines, NEW o \in Outcomes, where[c] # "done", Settle(c, o),
         \/ o = Value(c) /\ got' = got
         \/ o = Error(c) /\ got' = got
         \/ \E d \in Coroutines : future[d] = o /\ o[1] = "error" /\ got' = [got EXCEPT ![c][d] = o],
         UNCHANGED <<thread, awaits, progress>>, work' \in 0..MaxWork
  PROVE  CoInv'
<1> USE DEF CoInv
<1>1. future' = [future EXCEPT ![c] = o] /\ where' = [where EXCEPT ![c] = "done"] /\ cur' = 0
  BY DEF Settle
<1>2. future[c] = <<>> /\ future'[c] = o /\ o # <<>>
  BY <1>1, OutcomeFacts DEF CoTypeOK, SetAtEnd
<1>3. \A d \in Coroutines : d # c => future'[d] = future[d] /\ where'[d] = where[d]
  BY <1>1 DEF CoTypeOK
<1>4. got' \in [Coroutines -> [Coroutines -> Outcomes \cup {<<>>}]]
  <2>1. got \in [Coroutines -> [Coroutines -> Outcomes \cup {<<>>}]]
    BY DEF CoTypeOK
  <2>2. CASE got' = got
    BY <2>1, <2>2
  <2>3. ASSUME NEW d \in Coroutines, got' = [got EXCEPT ![c][d] = o]
        PROVE  got' \in [Coroutines -> [Coroutines -> Outcomes \cup {<<>>}]]
    BY <2>1, <2>3
  <2>4. QED
    BY <2>2, <2>3
<1>5. CoTypeOK'
  BY <1>1, <1>4 DEF CoTypeOK, Places
<1>6. SetAtEnd'
  BY <1>1, <1>2, <1>3 DEF SetAtEnd, CoTypeOK
<1>7. \A a, d \in Coroutines :
        \/ got'[a][d] = got[a][d]
        \/ a = c /\ got'[a][d] = o /\ o[1] = "error" /\ future[d] = o
  BY DEF CoTypeOK
<1>8. GotIsSet'
  BY <1>2, <1>3, <1>7 DEF GotIsSet
<1>9. ErrorEnds'
  <2> SUFFICES ASSUME NEW a \in Coroutines, NEW d \in Coroutines, got'[a][d] # <<>>, got'[a][d][1] = "error"
               PROVE  future'[a] # <<>> /\ future'[a][1] = "error"
    BY DEF ErrorEnds
  <2>1. CASE got'[a][d] = got[a][d]
    BY <2>1, <1>2, <1>3 DEF ErrorEnds
  <2>2. CASE a = c /\ got'[a][d] = o /\ o[1] = "error"
    BY <2>2, <1>2
  <2>3. QED
    BY <2>1, <2>2, <1>7
<1>10. Named'
  <2> SUFFICES ASSUME NEW a \in Coroutines, future'[a] # <<>>
               PROVE  future'[future'[a][2]] = future'[a] /\ (future'[a][1] = "value" => future'[a] = Value(a))
    BY DEF Named
  <2>1. \A d \in Coroutines : future[d] # <<>> => future[d][2] \in Coroutines /\ future[d][2] # c
    BY <1>2, OutcomeFacts DEF CoTypeOK, Named
  <2>2. CASE a # c
    BY <2>1, <2>2, <1>3 DEF Named
  <2>3. CASE a = c
    <3>1. future'[a] = o
      BY <2>3, <1>2
    <3>2. CASE o = Value(c) \/ o = Error(c)
      BY <3>1, <3>2, <2>3, <1>2, OwnOutcomes
    <3>3. CASE \E d \in Coroutines : future[d] = o /\ o[1] = "error"
      <4> PICK d \in Coroutines : future[d] = o /\ o[1] = "error"
        BY <3>3
      <4>1. future[o[2]] = o /\ o[2] \in Coroutines /\ o[2] # c
        BY <2>1, <1>2 DEF Named
      <4>2. QED
        BY <4>1, <3>1, <1>3
    <3>4. QED
      BY <3>2, <3>3
  <2>4. QED
    BY <2>2, <2>3
<1>11. HeardEnded' /\ WaitsForOne'
  BY <1>1, <1>3 DEF HeardEnded, WaitsForOne, CoTypeOK
<1>12. ReportsFollowResults'
  BY DEF ReportsFollowResults
<1>13. QED
  BY <1>5, <1>6, <1>8, <1>9, <1>10, <1>11, <1>12

\* Taking the result of a coroutine that has ended.
LEMMA TakeInv ==
  ASSUME CoInv, NEW c \in Coroutines, NEW d \in Coroutines, where[c] \in {"ready", "get"},
         future[d] # <<>>, Take(c, d), UNCHANGED <<thread, progress>>,
         awaits' = awaits, work' \in 0..MaxWork
  PROVE  CoInv'
<1> USE DEF CoInv
<1>1. future[d] \in Outcomes /\ future[c] = <<>>
  BY DEF CoTypeOK, SetAtEnd
<1>2. CASE future[d][1] = "error"
  <2>1. Settle(c, future[d]) /\ got' = [got EXCEPT ![c][d] = future[d]]
    BY <1>2 DEF Take
  <2> HIDE DEF CoInv
  <2>2. QED
    BY <2>1, <1>1, <1>2, SettleInv
<1>3. CASE future[d][1] # "error"
  <2>1. /\ cur' = c /\ where' = [where EXCEPT ![c] = "ready"] /\ future' = future
        /\ got' = [got EXCEPT ![c][d] = future[d]]
    BY <1>3 DEF Take
  <2>2. CoTypeOK'
    BY <2>1, <1>1 DEF CoTypeOK, Places
  <2>3. \A a, b \in Coroutines :
          got'[a][b] = got[a][b] \/ (b = d /\ got'[a][b] = future[d])
    BY <2>1 DEF CoTypeOK
  <2>4. SetAtEnd'
    BY <2>1 DEF SetAtEnd, CoTypeOK
  <2>5. GotIsSet' /\ ErrorEnds'
    BY <2>1, <2>3, <1>3 DEF GotIsSet, ErrorEnds
  <2>6. Named' /\ ReportsFollowResults'
    BY <2>1 DEF Named, ReportsFollowResults
  <2>7. HeardEnded' /\ WaitsForOne'
    BY <2>1 DEF HeardEnded, WaitsForOne, CoTypeOK
  <2>8. QED
    BY <2>2, <2>4, <2>5, <2>6, <2>7
<1>4. QED
  BY <1>2, <1>3

\* A coroutine that has not ended goes somewhere else, but not to its end.
LEMMA MoveInv ==
  ASSUME CoInv, NEW c \in Coroutines, NEW p \in Places \ {"done"}, where[c] # "done",
         where' = [where EXCEPT ![c] = p], UNCHANGED <<future, got, progress>>,
         cur' \in Coroutines \cup {0}, thread' \in [Coroutines -> 0..MaxThreads],
         awaits' \in [Coroutines -> Coroutines \cup {0}], work' \in 0..MaxWork,
         awaits' = awaits \/ \E d \in Coroutines : awaits' = [awaits EXCEPT ![c] = d],
         p = "get" => awaits'[c] \in Coroutines
  PROVE  CoInv'
<1> USE DEF CoInv
<1>1. CoTypeOK'
  BY DEF CoTypeOK
<1>2. SetAtEnd' /\ HeardEnded'
  BY DEF SetAtEnd, HeardEnded, CoTypeOK
<1>3. WaitsForOne'
  <2> SUFFICES ASSUME NEW d \in Coroutines, where'[d] = "get" PROVE awaits'[d] \in Coroutines
    BY DEF WaitsForOne
  <2>1. d # c => where[d] = "get" /\ awaits'[d] = awaits[d]
    BY DEF CoTypeOK
  <2>2. QED
    BY <2>1 DEF WaitsForOne, CoTypeOK
<1>4. GotIsSet' /\ ErrorEnds' /\ Named' /\ ReportsFollowResults'
  BY DEF GotIsSet, ErrorEnds, Named, ReportsFollowResults
<1>5. QED
  BY <1>1, <1>2, <1>3, <1>4

LEMMA ReportInv == ASSUME CoInv, NEW c \in Coroutines, Report(c) PROVE CoInv'
<1> USE DEF CoInv
<1> DEFINE heard == {d \in Coroutines : got[c][d] # <<>>}
           entry == [by |-> c, heard |-> heard]
<1>1. /\ progress' = Append(progress, entry) /\ work' = work + 2 /\ work + 2 <= MaxWork
      /\ where[c] = "ready" /\ UNCHANGED <<cur, where, thread, awaits, future, got>>
  BY DEF Report, Works, Runs
<1>2. progress \in Seq([by : Coroutines, heard : SUBSET Coroutines]) /\ entry \in [by : Coroutines, heard : SUBSET Coroutines]
  BY DEF CoTypeOK
<1>3. work' \in 0..MaxWork
  BY <1>1, BoundsAssumption DEF CoTypeOK
<1>4. CoTypeOK'
  BY <1>1, <1>2, <1>3 DEF CoTypeOK
<1> HIDE DEF entry
<1>5. /\ Len(progress) \in Nat /\ Len(progress') = Len(progress) + 1
      /\ DOMAIN progress = 1..Len(progress) /\ DOMAIN progress' = 1..(Len(progress) + 1)
      /\ progress'[Len(progress) + 1] = entry
      /\ \A i \in DOMAIN progress : progress'[i] = progress[i]
  BY <1>1, <1>2
<1>6. \A i \in DOMAIN progress' : i \in DOMAIN progress \/ progress'[i] = entry
  BY <1>5
<1>7. entry.by = c /\ entry.heard = heard
  BY DEF entry
<1>8. \A d \in heard : where[d] = "done"
  BY DEF GotIsSet, SetAtEnd, CoTypeOK
<1>9. HeardEnded'
  BY <1>1, <1>5, <1>6, <1>7, <1>8 DEF HeardEnded
<1>10. ReportsFollowResults'
  <2> SUFFICES ASSUME NEW i \in DOMAIN progress', NEW j \in DOMAIN progress', i < j
               PROVE  progress'[j].by \notin progress'[i].heard
    BY DEF ReportsFollowResults
  <2>1. i \in DOMAIN progress
    BY <1>5
  <2>2. CASE j \in DOMAIN progress
    BY <2>1, <2>2, <1>5 DEF ReportsFollowResults
  <2>3. CASE progress'[j] = entry
    BY <2>1, <2>3, <1>1, <1>5, <1>7 DEF HeardEnded
  <2>4. QED
    BY <2>2, <2>3, <1>6
<1>11. SetAtEnd' /\ GotIsSet' /\ ErrorEnds' /\ Named' /\ WaitsForOne'
  BY <1>1 DEF SetAtEnd, GotIsSet, ErrorEnds, Named, WaitsForOne
<1>12. QED
  BY <1>4, <1>9, <1>10, <1>11

\* A step of a coroutine is one of the log buffer or leaves it alone.
LEMMA CoStepIsStep == ASSUME CoTypeOK, [CoNext]_allVars PROVE [Next]_vars
<1>1. ASSUME NEW c \in Coroutines, ThreadPrint(c) PROVE Next
  <2>1. PrintLine(thread[c]) /\ thread[c] \in 1..Len(limit) /\ thread[c] \in 0..MaxThreads
    BY <1>1 DEF ThreadPrint, PrintLine, PrintTo, CoTypeOK
  <2>2. thread[c] \in Threads
    BY <2>1, BoundsAssumption DEF Threads
  <2>3. QED
    BY <2>1, <2>2 DEF Next
<1>2. ASSUME NEW c \in Coroutines, SetOsEnviron(c) PROVE Next
  BY <1>2 DEF SetOsEnviron, Next
<1>3. ASSUME NEW c \in Coroutines, Start(c) PROVE Next
  BY <1>3 DEF Start, Next
<1>4. ASSUME NEW c \in Coroutines,
             \/ Go(c) \/ Panic(c) \/ Return(c) \/ Block(c) \/ Report(c) \/ Unblock(c) \/ Resume(c)
             \/ \E d \in Coroutines : Result(c, d)
      PROVE  UNCHANGED vars
  BY <1>4 DEF Go, Panic, Return, Block, Report, Unblock, Resume, Result
<1>5. CASE UNCHANGED allVars
  BY <1>5 DEF allVars
<1>6. QED
  BY <1>1, <1>2, <1>3, <1>4, <1>5 DEF CoNext, Dispatch

LEMMA StutterInv ==
  ASSUME CoInv, UNCHANGED <<cur, where, thread, awaits, future, got, progress>>, work' \in 0..MaxWork
  PROVE  CoInv'
<1>1. CoTypeOK'
  BY DEF CoInv, CoTypeOK
<1>2. SetAtEnd' /\ GotIsSet' /\ ErrorEnds' /\ Named'
  BY DEF CoInv, SetAtEnd, GotIsSet, ErrorEnds, Named
<1>3. WaitsForOne' /\ HeardEnded' /\ ReportsFollowResults'
  BY DEF CoInv, WaitsForOne, HeardEnded, ReportsFollowResults
<1>4. QED
  BY <1>1, <1>2, <1>3 DEF CoInv

\* The thread of a new coroutine is the last of those of the run.
LEMMA StartInv == ASSUME TypeOK, CoInv, NEW c \in Coroutines, Start(c) PROVE CoInv'
<1>1. where[c] = "new" /\ where' = [where EXCEPT ![c] = "ready"] /\ cur' = c /\ work' = work
      /\ UNCHANGED <<awaits, future, got, progress>> /\ thread' = [thread EXCEPT ![c] = Len(limit')]
  BY DEF Start
<1>2. Len(limit') \in 0..MaxThreads
  <2>1. limit \in Seq(Int) /\ Len(limit) \in Nat /\ Len(limit) < MaxThreads
    BY DEF Start, CreateThread, TypeOK
  <2>2. limit' = limit \/ limit' = Append(limit, LimitUnder(environ))
    BY DEF Start, CreateThread
  <2>3. Len(limit') = Len(limit) \/ Len(limit') = Len(limit) + 1
    BY <2>1, <2>2
  <2>4. QED
    BY <2>1, <2>3, BoundsAssumption
<1>3. thread' \in [Coroutines -> 0..MaxThreads]
  BY <1>1, <1>2 DEF CoInv, CoTypeOK
<1>4. "ready" \in Places \ {"done"} /\ "ready" # "get"
  BY DEF Places
<1>5. work \in 0..MaxWork /\ awaits \in [Coroutines -> Coroutines \cup {0}]
  BY DEF CoInv, CoTypeOK
<1>6. QED
  BY <1>1, <1>3, <1>4, <1>5, MoveInv

LEMMA CoNextInv == IInv /\ CoInv /\ [CoNext]_allVars => IInv' /\ CoInv'
<1> SUFFICES ASSUME IInv, CoInv, [CoNext]_allVars PROVE IInv' /\ CoInv'
  OBVIOUS
<1>1. CoTypeOK /\ TypeOK
  BY DEF IInv, CoInv
<1>2. IInv'
  BY <1>1, CoStepIsStep, NextInv
<1>3. /\ work \in 0..MaxWork /\ thread \in [Coroutines -> 0..MaxThreads]
      /\ awaits \in [Coroutines -> Coroutines \cup {0}] /\ 0 \in Coroutines \cup {0}
  BY <1>1 DEF CoTypeOK
<1>4. \A p \in {"new", "ready", "get", "blocked", "panicked"} : p \in Places \ {"done"}
  BY DEF Places
<1>5. ASSUME NEW c \in Coroutines, NEW cost \in {1, 2}, Works(c, cost) PROVE work' \in 0..MaxWork
  BY <1>3, <1>5, BoundsAssumption DEF Works
<1>6. \A c \in Coroutines : Runs(c) => where[c] = "ready"
  BY DEF Runs
<1>7. ASSUME NEW c \in Coroutines, Go(c) PROVE CoInv'
  <2>1. cur \in Coroutines \cup {0}
    BY <1>1 DEF CoTypeOK
  <2>2. PICK n \in Coroutines : where[n] = "none" /\ where' = [where EXCEPT ![n] = "new"]
    BY <1>7 DEF Go
  <2>3. UNCHANGED <<cur, thread, awaits, future, got, progress, work>>
    BY <1>7 DEF Go
  <2>4. QED
    BY <2>1, <2>2, <2>3, <1>3, <1>4, MoveInv
<1>8. ASSUME NEW c \in Coroutines, Panic(c) PROVE CoInv'
  <2>1. cur \in Coroutines \cup {0}
    BY <1>1 DEF CoTypeOK
  <2>2. QED
    BY <2>1, <1>3, <1>4, <1>6, <1>8, MoveInv DEF Panic
<1>9. ASSUME NEW c \in Coroutines, Return(c) PROVE CoInv'
  <2>1. where[c] = "ready" /\ UNCHANGED <<thread, awaits, got, progress, work>>
    BY <1>6, <1>9 DEF Return
  <2>2. PICK o \in {Value(c), Error(c)} : Settle(c, o)
    BY <1>9 DEF Return
  <2>3. QED
    BY <2>1, <2>2, <1>3, OwnOutcomes, SettleInv
<1>10. ASSUME NEW c \in Coroutines, Block(c) PROVE CoInv'
  <2>1. work' \in 0..MaxWork /\ where[c] = "ready"
    BY <1>5, <1>6, <1>10 DEF Block, Works
  <2>2. where' = [where EXCEPT ![c] = "blocked"] /\ cur' = 0 /\ UNCHANGED <<thread, awaits, future, got, progress>>
    BY <1>10 DEF Block
  <2>3. QED
    BY <2>1, <2>2, <1>3, <1>4, MoveInv
<1>11. ASSUME NEW c \in Coroutines, ThreadPrint(c) \/ SetOsEnviron(c) PROVE CoInv'
  <2>1. work' \in 0..MaxWork
    BY <1>5, <1>11 DEF ThreadPrint, SetOsEnviron
  <2>2. UNCHANGED <<cur, where, thread, awaits, future, got, progress>>
    BY <1>11 DEF ThreadPrint, SetOsEnviron
  <2>3. QED
    BY <2>1, <2>2, StutterInv
<1>12. ASSUME NEW c \in Coroutines, NEW d \in Coroutines, Result(c, d) PROVE CoInv'
  <2>1. work' \in 0..MaxWork /\ where[c] = "ready" /\ UNCHANGED <<thread, progress>>
    BY <1>5, <1>6, <1>12 DEF Result, Works
  <2>2. CASE future[d] # <<>>
    BY <2>1, <2>2, <1>12, TakeInv DEF Result
  <2>3. CASE future[d] = <<>>
    <3>1. /\ where' = [where EXCEPT ![c] = "get"] /\ cur' = 0 /\ UNCHANGED <<future, got>>
          /\ awaits' = [awaits EXCEPT ![c] = d]
      BY <2>3, <1>12 DEF Result
    <3>2. awaits' \in [Coroutines -> Coroutines \cup {0}] /\ awaits'[c] \in Coroutines
      BY <3>1, <1>3
    <3>3. QED
      BY <2>1, <3>1, <3>2, <1>3, <1>4, MoveInv
  <2>4. QED
    BY <2>2, <2>3
<1>13. ASSUME NEW c \in Coroutines, Unblock(c) PROVE CoInv'
  BY <1>3, <1>4, <1>13, MoveInv DEF Unblock
<1>14. ASSUME NEW c \in Coroutines, Resume(c) PROVE CoInv'
  <2>1. /\ where[c] = "get" /\ future[awaits[c]] # <<>> /\ Take(c, awaits[c])
        /\ UNCHANGED <<thread, awaits, progress, work>>
    BY <1>14 DEF Resume
  <2>2. awaits[c] \in Coroutines
    BY <2>1 DEF CoInv, WaitsForOne
  <2>3. QED
    BY <2>1, <2>2, <1>3, TakeInv
<1>15. CASE UNCHANGED allVars
  <2>1. UNCHANGED <<cur, where, thread, awaits, future, got, progress>> /\ work' \in 0..MaxWork
    BY <1>3, <1>15 DEF allVars, coVars
  <2>2. QED
    BY <1>2, <2>1, StutterInv
<1>16. CoInv'
  BY <1>1, <1>7, <1>8, <1>9, <1>10, <1>11, <1>12, <1>13, <1>14, <1>15, StartInv, ReportInv DEF CoNext, Dispatch
<1>17. QED
  BY <1>2, <1>16

\* The inductive invariant of the coroutines, with that of the log buffer.
THEOREM CoInvariance == CoSpec => [](IInv /\ CoInv)
BY CoInitInv, CoNextInv, PTL DEF CoSpec

\* A run's log buffer is that of ThreadLogs, whatever its coroutines do.
THEOREM BufferIsThreadLogs == CoSpec => Spec
<1>1. CoInit => Init
  BY DEF CoInit
<1>2. IInv /\ CoInv /\ [CoNext]_allVars => [Next]_vars
  BY CoStepIsStep DEF CoInv
<1>3. QED
  BY <1>1, <1>2, CoInvariance, PTL DEF CoSpec, Spec

\* Every script gets the same outcome of a function, that with which it ended, and
\* an error on a function's way is never lost.
THEOREM OutcomesAgree == CoSpec => []ResultsAgree
<1>1. CoInv => ResultsAgree
  <2> SUFFICES ASSUME CoInv PROVE ResultsAgree
    OBVIOUS
  <2> USE DEF CoInv
  <2>1. ASSUME NEW c \in Coroutines, NEW d \in Coroutines, got[c][d] # <<>>,
               future[c] # <<>>, future[c][1] = "value"
        PROVE  got[c][d][1] = "value"
    <3>1. got[c][d] \in Outcomes
      BY <2>1 DEF CoTypeOK
    <3>2. got[c][d][1] # "error"
      BY <2>1 DEF ErrorEnds
    <3>3. QED
      BY <3>1, <3>2, OutcomeFacts
  <2>2. QED
    BY <2>1 DEF GotIsSet, ResultsAgree
<1>2. QED
  BY <1>1, CoInvariance, PTL

\* A coroutine whose result somebody has reported about reports no more.
THEOREM CausalProgress == CoSpec => []ReportsFollowResults
<1>1. CoInv => ReportsFollowResults
  BY DEF CoInv
<1>2. QED
  BY <1>1, CoInvariance, PTL

\* The lines a query shows of a run with coroutines are the latest.
THEOREM LatestLinesOfRun == CoSpec => []LogsAreLatest
BY BufferIsThreadLogs, LatestLines, PTL

\* And their number is within the limits of the run's threads.
THEOREM BetweenLimitsOfRun == CoSpec => []LengthWithinLimits
BY BufferIsThreadLogs, BetweenLimits, PTL
=============================================================================
