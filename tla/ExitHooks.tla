------------------------------ MODULE ExitHooks ------------------------------
(***************************************************************************)
(* The exit hooks of a run (service/exit_hook.go): a Go slice of hooks     *)
(* that scripts extend with atexit.register and shorten with               *)
(* atexit.unregister, and the loop that calls them when the script ends.   *)
(*                                                                         *)
(* The loop keeps the slice header it read at its start.  A hook may block *)
(* on an activity, and the coroutines that concurrent.run left behind then *)
(* go on registering and unregistering.  So the backing array is modelled: *)
(* an append with room, and the shift of an unregister, write into the     *)
(* array the loop is reading; an append without room leaves it behind.     *)
(***************************************************************************)
EXTENDS Integers, Sequences

CONSTANTS Fns,    \* the functions scripts register
          MaxReg,   \* bound: calls of register in one run
  ErrKinds \* the kinds of error a hook may fail with

ASSUME MaxRegAssumption == MaxReg \in Nat

VARIABLES
  fnOf,      \* per registration, in order of creation: its function (exitHook.fn)
  slots,     \* backing array of r.hooks up to its capacity, 0 for a nil slot
  len,       \* len(r.hooks)
  phase,     \* "open": the script runs; "running": Run loops; "closed"
  attached,  \* r.hooks still has the array the loop reads
  oldSlots,  \* the array the loop reads once r.hooks has moved to another
  pos,       \* index of the next hook the loop calls; 0 at its end
  cur,       \* the hook being called, 0 between calls
  errs,      \* kinds of the errors collected so far: _errors
  start,     \* history: the hooks when the loop began
  called,    \* history: the hooks called, in order
  dropped    \* history: a hook was unregistered since the loop began

hookVars == <<fnOf, slots, len, phase, attached, oldSlots, pos, cur, errs,
              start, called, dropped>>

Reg == 1..MaxReg
Outcomes == {{}} \cup {{k} : k \in ErrKinds}  \* a call succeeds, or fails in some way
Registered == {slots[k] : k \in 1..len}

\* The array the loop indexes.
Seen == IF attached THEN slots ELSE oldSlots

\* Capacity append gives an array that is full (doubled, below 256 elements).
Grown(c) == IF c = 0 THEN 1 ELSE 2 * c

\* Script code runs before the loop, and during a call of it: the hook
\* itself, or any coroutine while the hook is blocked.
ScriptRuns == phase = "open" \/ cur # 0

-----------------------------------------------------------------------------
Init ==
  /\ fnOf = <<>>
  /\ slots = <<>> /\ len = 0
  /\ phase = "open"
  /\ attached = FALSE /\ oldSlots = <<>>
  /\ pos = 0 /\ cur = 0
  /\ errs = {}
  /\ start = <<>> /\ called = <<>> /\ dropped = FALSE

\* Register(fn): append into the array, or into a larger copy of it.
AppendInPlace(id) ==
  /\ len < Len(slots)
  /\ slots' = [slots EXCEPT ![len + 1] = id]
  /\ UNCHANGED <<attached, oldSlots>>

AppendMoving(id) ==
  /\ len = Len(slots)
  /\ slots' = [k \in 1..Grown(Len(slots)) |->
                 IF k <= len THEN slots[k] ELSE IF k = len + 1 THEN id ELSE 0]
  /\ oldSlots' = Seen
  /\ attached' = FALSE

Register(f) ==
  /\ ScriptRuns
  /\ Len(fnOf) < MaxReg
  /\ fnOf' = Append(fnOf, f)
  /\ AppendInPlace(Len(fnOf) + 1) \/ AppendMoving(Len(fnOf) + 1)
  /\ len' = len + 1
  /\ UNCHANGED <<phase, pos, cur, errs, start, called, dropped>>

\* Unregister(fn): the first hook of that function goes; the rest of the
\* array shifts down in place and its last slot keeps a stale copy.
FirstOf(f, k) ==
  /\ k \in 1..len /\ fnOf[slots[k]] = f
  /\ \A j \in 1..(k - 1) : fnOf[slots[j]] # f

Unregister(f) ==
  /\ ScriptRuns
  /\ \E k \in 1..len :
       /\ FirstOf(f, k)
       /\ slots' = [j \in DOMAIN slots |->
                      IF k <= j /\ j < len THEN slots[j + 1] ELSE slots[j]]
  /\ len' = len - 1
  /\ dropped' = (phase = "running")
  /\ UNCHANGED <<fnOf, phase, attached, oldSlots, pos, cur, errs, start, called>>

\* Variant, not the code's: the loop counts down from the capacity.
BeginRunAtCapacity ==
  /\ phase = "open"
  /\ phase' = "running"
  /\ attached' = TRUE
  /\ pos' = Len(slots)
  /\ start' = [k \in 1..len |-> slots[k]]
  /\ UNCHANGED <<fnOf, slots, len, oldSlots, cur, errs, called, dropped>>

\* Variant, not the code's: the loop starts one short of the last index.
BeginRunPastLast ==
  /\ phase = "open"
  /\ phase' = "running"
  /\ attached' = TRUE
  /\ pos' = IF len > 0 THEN len - 1 ELSE 0
  /\ start' = [k \in 1..len |-> slots[k]]
  /\ UNCHANGED <<fnOf, slots, len, oldSlots, cur, errs, called, dropped>>

\* Run: hooks := r.hooks, the loop counts down from its last index.
BeginRun ==
  /\ phase = "open"
  /\ phase' = "running"
  /\ attached' = TRUE
  /\ pos' = len
  /\ start' = [k \in 1..len |-> slots[k]]
  /\ UNCHANGED <<fnOf, slots, len, oldSlots, cur, errs, called, dropped>>

\* Variant, not the code's: the loop counts up (for _, h := range r.hooks).
CallHookUpwards ==
  /\ phase = "running" /\ cur = 0 /\ pos > 0
  /\ cur' = Seen[Len(start) + 1 - pos]
  /\ pos' = pos - 1
  /\ called' = Append(called, Seen[Len(start) + 1 - pos])
  /\ UNCHANGED <<fnOf, slots, len, phase, attached, oldSlots, errs, start, dropped>>

\* One turn of the loop up to the call of starlark.Call.
CallHook ==
  /\ phase = "running" /\ cur = 0 /\ pos > 0
  /\ cur' = Seen[pos]
  /\ pos' = pos - 1
  /\ called' = Append(called, Seen[pos])
  /\ UNCHANGED <<fnOf, slots, len, phase, attached, oldSlots, errs, start, dropped>>

\* starlark.Call returns; an error is collected and the loop goes on.
HookReturns(e) ==
  /\ cur # 0
  /\ cur' = 0
  /\ errs' = errs \cup e
  /\ UNCHANGED <<fnOf, slots, len, phase, attached, oldSlots, pos, start, called, dropped>>

EndRun ==
  /\ phase = "running" /\ cur = 0 /\ pos = 0
  /\ phase' = "closed"
  /\ UNCHANGED <<fnOf, slots, len, attached, oldSlots, pos, cur, errs,
                 start, called, dropped>>

Next ==
  \/ \E f \in Fns : Register(f) \/ Unregister(f)
  \/ BeginRun
  \/ CallHook
  \/ \E e \in Outcomes : HookReturns(e)
  \/ EndRun

Spec == Init /\ [][Next]_hookVars

-----------------------------------------------------------------------------
(* Properties *)

TypeOK ==
  /\ fnOf \in Seq(Fns) /\ Len(fnOf) <= MaxReg
  /\ slots \in Seq(0..Len(fnOf)) /\ len \in 0..Len(slots)
  /\ phase \in {"open", "running", "closed"}
  /\ attached \in BOOLEAN /\ oldSlots \in Seq(0..Len(fnOf))
  /\ pos \in Nat /\ cur \in 0..Len(fnOf)
  /\ errs \subseteq ErrKinds
  /\ start \in Seq(1..Len(fnOf)) /\ called \in Seq(0..Len(fnOf))
  /\ dropped \in BOOLEAN

\* The loop never indexes past the array it reads, and never meets a nil hook
\* (which would panic in h.fn).
NoNilHook == pos <= Len(Seen) /\ \A k \in 1..pos : Seen[k] # 0

\* While nothing is unregistered after the loop began, the hooks called are
\* exactly those of its start, once each, last registered first; hooks
\* registered meanwhile, in place or in a new array, do not disturb that.
LifoOnce ==
  phase # "open" /\ ~dropped =>
    called = [k \in 1..(Len(start) - pos) |-> start[Len(start) + 1 - k]]

\* No hook is called twice.  Each hook of test/testdata/atexit_test.star
\* deletes its resource and fails if it is already gone.
CalledOnce == \A j, k \in DOMAIN called : called[j] = called[k] => j = k

-----------------------------------------------------------------------------
\* The slice implements AtExit.  What the loop owes are the hooks of its start
\* that are still registered and were not called; that it pays follows from
\* OwedBelow: the shifts of the array only move hooks towards the indexes the
\* loop has yet to visit.
Owed == ({start[k] : k \in DOMAIN start} \cap Registered)
          \ {called[k] : k \in DOMAIN called}
OwedBelow == phase = "running" => Owed \subseteq {Seen[k] : k \in 1..pos}

AE == INSTANCE AtExit WITH
        Ids <- Reg,
        known <- DOMAIN fnOf,
        live <- Registered,
        owed <- Owed
AtExitSpec == AE!AtExitSpec

-----------------------------------------------------------------------------
(* Why they hold *)

\* A registration stands at one index of the slice.
SlotsInv ==
  \A j \in 1..len : slots[j] # 0 /\ \A k \in 1..len : slots[j] = slots[k] => j = k

\* What the loop's variables are before and after it.
PhaseInv ==
  /\ phase # "running" => cur = 0 /\ pos = 0
  /\ phase = "open" => start = <<>> /\ called = <<>> /\ ~dropped

\* Without an unregister the array the loop reads keeps the hooks it has yet
\* to call: an append only writes past them.
OrderInv ==
  phase # "open" /\ ~dropped =>
    /\ pos <= Len(start)
    /\ \A k \in 1..pos : Seen[k] = start[k]
    /\ attached => Len(start) <= len

\* The inductive invariant.
IInv ==
  /\ TypeOK
  /\ SlotsInv
  /\ PhaseInv
  /\ NoNilHook
  /\ OwedBelow
  /\ OrderInv
  /\ LifoOnce
=============================================================================
