------------------------ MODULE LockScreenProperties ------------------------
(***************************************************************************)
(* What the lock screen promises, as state predicates, action properties   *)
(* and a refinement.                                                       *)
(***************************************************************************)
EXTENDS LockScreenController

\* The type of every variable of the controller and of its surroundings.
TypeOK ==
  /\ LockState(ls)
  /\ power \in {"awake", "preparing", "asleep"}
  /\ proxies \subseteq {"login", "session"}
  /\ guarded \in BOOLEAN

\* What LockScreen() sets up and the end of the fade-out takes down exists
\* exactly while shields do: the systemd target (desktop-lock is announced once
\* per lock), the monitor and input connections, the primary shield.  No timer
\* can raise shields a second time.
Lifecycle ==
  /\ ls.target <=> IsLocked(ls)
  /\ ls.following <=> IsLocked(ls)
  /\ ls.lockInput <=> IsLocked(ls)
  /\ IsLocked(ls) <=> ls.primary \in ShieldsOf(ls)
  /\ ls.isLocked => IsLocked(ls)
  /\ ls.lockTimer => ~IsLocked(ls)

\* A session reported as locked has the input: its primary shield holds the
\* grab, or lends it to an indicator's menu, or waits to take it back; through
\* blanking, menus, monitors that come and go, and a primary that moves.
GrabKept ==
  ls.isLocked /\ ~FadingOut => ls.primary \in ls.grabs \cup ls.panels \cup ls.regrab

\* Nothing else has it: a desktop without lock screen and blank window is not
\* left with a grab, and only the primary shield tries to get it back.
NoStrayGrab ==
  /\ ls.grabs \subseteq ShieldsOf(ls) \cup (IF ls.blank THEN {BlankArea} ELSE {})
  /\ ls.regrab \subseteq {ls.primary}
  /\ ls.conn \in {None, ls.primary}

\* The delayed lock of an idle session is armed only while the screen is blank
\* and announced as such: activity that unblanks the screen always disarms it.
DelayedLockNeedsBlank == ls.delayTimer => ls.active /\ ls.blank /\ ls.lockOnBlank

\* org.gnome.ScreenSaver's Active is never true over a visible desktop, in
\* whatever order blanking, locking, unlocking and activity come.
ActiveMeansBlanked == ls.active => ls.blank /\ ls.blankOpacity = Full

\* A prompted lock (suspend, logind's Lock, the delayed lock) never shows the
\* session through a shield that is still fading in.
PromptCovers == IsLocked(ls) /\ ls.prompt /\ ~FadingOut => ls.anim["fade"].val = Full

\* Whenever a suspend would have to be preceded by a lock, the delay inhibitor
\* is held or asked for, except while the screen fades out (OnFadeFinished is
\* the first to ask), after a refusal by logind, and under a lock in which a
\* monitor was added before the first frame (see the README).
InhibitorCovers ==
  /\ ls.synced /\ MustLock(ls) /\ ~ls.early
  /\ ~FullyLocked(ls) /\ ~FadingOut
  => ls.inh.held \/ ls.inh.calls > 0

\* A suspend that finds the inhibitor held, and no unlock around it, puts the
\* machine to sleep only with opaque shields and a cleared buffer on the screen.
SleepsLocked ==
  power = "asleep" /\ guarded /\ ~ls.early => FullyLocked(ls) /\ ls.bufferCleared

\* Once the session is locked only an unlock request starts the fade-out: no
\* grab that fails or timer that is late, on whichever shield, does.
GrabFailureNeverUnlocks == [][ls.isLocked /\ ~FadingOut /\ FadingOut' => Unlock]_vars

-----------------------------------------------------------------------------
Phase ==
  IF IsLocked(ls) THEN (IF FadingOut THEN "leaving" ELSE "locked")
  ELSE IF ls.lockTimer THEN "arming" ELSE "unlocked"

Abstract == INSTANCE SessionLock WITH phase <- Phase, reported <- ls.isLocked

\* Every behaviour of the code is one of SessionLock's: a request is accepted
\* only from "unlocked", shields leave only after an unlock began, is_locked
\* never drops while they are up, and a fade-out that has begun is not taken back.
ImplementsSessionLock == Abstract!LockSpec
=============================================================================
