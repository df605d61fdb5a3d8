----------------------------- MODULE SessionLock -----------------------------
(***************************************************************************)
(* What the rest of the desktop may rely on about the lock screen, in two  *)
(* variables: the phase of the lock and what the session manager reports   *)
(* (session::Manager::is_locked).  LockScreenController implements it, see *)
(* LockScreenProperties.                                                   *)
(***************************************************************************)

VARIABLES phase,      \* "unlocked", "arming" (a request waits for the grab),
                      \* "locked" (the shields are up) or "leaving"
          reported    \* is_locked

lockVars == <<phase, reported>>

LockTypeOK == phase \in {"unlocked", "arming", "locked", "leaving"} /\ reported \in BOOLEAN

LockInit == phase = "unlocked" /\ reported = FALSE

Request == phase = "unlocked" /\ phase' = "arming" /\ UNCHANGED reported

Cancel == phase = "arming" /\ phase' = "unlocked" /\ UNCHANGED reported

\* The shields come up; is_locked is what the grab is at that moment.
Raise == phase = "arming" /\ phase' = "locked" /\ reported' \in BOOLEAN

\* The grab arrives later, even while the screen is being unlocked.
Confirm == phase \in {"locked", "leaving"} /\ reported' = TRUE /\ UNCHANGED phase

Leave == phase = "locked" /\ phase' = "leaving" /\ UNCHANGED reported

Remove == phase = "leaving" /\ phase' = "unlocked" /\ reported' = FALSE

LockNext == Request \/ Cancel \/ Raise \/ Confirm \/ Leave \/ Remove

LockSpec == LockInit /\ [][LockNext]_lockVars
=============================================================================
