------------------------------- MODULE AtExit -------------------------------
(***************************************************************************)
(* What the exit hooks of a run promise a script, whatever happens to the  *)
(* registry while they run: a hook that is registered when the run starts  *)
(* its hooks, and that nobody unregisters, is called before the run ends.  *)
(* A hook may be called more than once, and a hook that was unregistered   *)
(* too late may be called all the same.                                    *)
(***************************************************************************)
CONSTANT Ids      \* names for registrations

VARIABLES phase,   \* the script runs ("open"), its hooks do, or all is over
          known,   \* registrations made so far
          live,    \* those not unregistered
          owed     \* those the running hooks still have to call

atExitVars == <<phase, known, live, owed>>

AtExitInit == phase = "open" /\ known = {} /\ live = {} /\ owed = {}

AddHook == \E r \in Ids :
  /\ phase # "closed"
  /\ r \notin known
  /\ known' = known \cup {r} /\ live' = live \cup {r}
  /\ UNCHANGED <<phase, owed>>

DropHook == \E r \in live :
  /\ phase # "closed"
  /\ live' = live \ {r} /\ owed' = owed \ {r}
  /\ UNCHANGED <<phase, known>>

StartHooks ==
  /\ phase = "open"
  /\ phase' = "running"
  /\ owed' = live
  /\ UNCHANGED <<known, live>>

OneHook == \E r \in known :
  /\ phase = "running"
  /\ owed' = owed \ {r}
  /\ UNCHANGED <<phase, known, live>>

EndHooks ==
  /\ phase = "running" /\ owed = {}
  /\ phase' = "closed"
  /\ UNCHANGED <<known, live, owed>>

AtExitNext == AddHook \/ DropHook \/ StartHooks \/ OneHook \/ EndHooks

AtExitSpec == AtExitInit /\ [][AtExitNext]_atExitVars
=============================================================================
