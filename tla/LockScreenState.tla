-------------------------- MODULE LockScreenState --------------------------
(***************************************************************************)
(* lockscreen/LockScreenController.cpp, first half: the state of the lock  *)
(* screen and the controller's methods.  A method is an operator from the  *)
(* state before the call to the state after it; the callbacks a method     *)
(* runs (animation finished, signals) are part of it.                      *)
(* LockScreenController turns the methods into actions.                    *)
(*                                                                         *)
(* Opacities and animation values take three values: Clear (0.0), Partial  *)
(* (strictly between) and Full (1.0).                                      *)
(***************************************************************************)
EXTENDS LockScreenShield, SuspendInhibitorManager

Clear   == 0
Partial == 1
Full    == 2
Values  == {Clear, Partial, Full}
Ends    == {Clear, Full}

\* fade_animator_ and blank_window_animator_
Animators == {"fade", "blank"}
Animation == [running : BOOLEAN, from : Ends, to : Ends, val : Values]

\* The state is a record; its fields, by what they belong to, and their types.
Fields ==
  {"shields", "primary", "conn", "shown", "opaque", "built", "regrab", "failTimer", "panels", "grabs",
   "foreignGrab", "monitors", "mouse", "lockInput", "following", "target", "isLocked", "prompt", "lockTimer",
   "anim", "blank", "blankOpacity", "blankInput", "delayTimer", "postTimer", "saverTimer", "active",
   "inh", "paintInhibited", "bufferCleared", "synced", "early",
   "sessionActive", "mayLock", "lockOnSuspend", "lockOnBlank", "useLegacy"}

ShieldTypes(s) ==
  /\ s.shields \in 0..MaxMonitors
  /\ s.primary \in 0..MaxMonitors
  /\ s.conn \in 0..MaxMonitors
  /\ s.shown \subseteq Monitors
  /\ s.opaque \subseteq Monitors
  /\ s.built \subseteq Monitors
  /\ s.regrab \subseteq Monitors
  /\ s.failTimer \subseteq Monitors
  /\ s.panels \subseteq Monitors
  /\ s.grabs \subseteq 0..MaxMonitors

LockTypes(s) ==
  /\ s.foreignGrab \in {"none", "keyboard", "pointer"}
  /\ s.monitors \in Monitors       \* UScreen's, and the one under the pointer
  /\ s.mouse \in 1..s.monitors
  /\ s.lockInput \in BOOLEAN       \* OnLockScreenInputEvent is registered
  /\ s.following \in BOOLEAN       \* uscreen_, hidden_window_connection_ unblocked
  /\ s.target \in BOOLEAN          \* the systemd lock target is started
  /\ s.isLocked \in BOOLEAN        \* session_manager_->is_locked
  /\ s.prompt \in BOOLEAN          \* prompt_activation_
  /\ s.lockTimer \in BOOLEAN       \* lockscreen_timeout_

BlankTypes(s) ==
  /\ s.anim \in [Animators -> Animation]
  /\ s.blank \in BOOLEAN           \* blank_window_ exists
  /\ s.blankOpacity \in Values
  /\ s.blankInput \in BOOLEAN
  /\ s.delayTimer \in BOOLEAN      \* lockscreen_delay_timeout_
  /\ s.postTimer \in BOOLEAN       \* screensaver_post_lock_timeout_
  /\ s.saverTimer \in {"none", "activate", "deactivate"}
  /\ s.active \in BOOLEAN          \* dbus_manager_->active

SleepTypes(s) ==
  /\ s.inh \in InhibitorType
  /\ s.paintInhibited \in BOOLEAN
  /\ s.bufferCleared \in BOOLEAN
  /\ s.synced \in BOOLEAN          \* auxiliary, see SyncInhibitor
  /\ s.early \in BOOLEAN           \* auxiliary, see AddShields
  /\ s.sessionActive \in BOOLEAN
  /\ s.mayLock \in BOOLEAN         \* neither lockdown nor a group forbids the lock
  /\ s.lockOnSuspend \in BOOLEAN
  /\ s.lockOnBlank \in BOOLEAN
  /\ s.useLegacy \in BOOLEAN

LockState(s) ==
  DOMAIN s = Fields /\ ShieldTypes(s) /\ LockTypes(s) /\ BlankTypes(s) /\ SleepTypes(s)

\* What lockdown, groups and the lock screen's settings allow and ask for
AllPolicies == [mayLock : BOOLEAN, lockOnSuspend : BOOLEAN, lockOnBlank : BOOLEAN, useLegacy : BOOLEAN]

Stopped == [running |-> FALSE, from |-> Clear, to |-> Clear, val |-> Clear]

\* The controller as its constructor leaves it; m and n: the monitors, and the
\* one under the pointer; p: what the settings say.
InitialState(m, n, p) ==
  [shields |-> 0, primary |-> None, shown |-> {}, opaque |-> {}, built |-> {},
   regrab |-> {}, failTimer |-> {}, panels |-> {}, conn |-> None,
   grabs |-> {}, foreignGrab |-> "none", monitors |-> m, mouse |-> n,
   anim |-> [a \in Animators |-> Stopped],
   blank |-> FALSE, blankOpacity |-> Clear, blankInput |-> FALSE,
   lockInput |-> FALSE, following |-> FALSE, prompt |-> FALSE,
   lockTimer |-> FALSE, delayTimer |-> FALSE, postTimer |-> FALSE,
   saverTimer |-> "none", active |-> FALSE, isLocked |-> FALSE,
   sessionActive |-> FALSE, target |-> FALSE,
   paintInhibited |-> FALSE, bufferCleared |-> TRUE,
   inh |-> NoInhibitor, synced |-> TRUE, early |-> FALSE,
   mayLock |-> p.mayLock, lockOnSuspend |-> p.lockOnSuspend,
   lockOnBlank |-> p.lockOnBlank, useLegacy |-> p.useLegacy]

-----------------------------------------------------------------------------
(* The suspend inhibitor.                                                  *)

IsLocked(s) == s.shields > 0

FullyLocked(s) == IsLocked(s) /\ s.primary # None /\ s.primary \in s.opaque

\* The session is one that must be locked before the machine sleeps.
MustLock(s) == s.sessionActive /\ s.lockOnSuspend /\ ~s.useLegacy

\* Mutant: the inhibitor is dropped as soon as the screen is locked
SyncInhibitorUncleared(s) ==
  LET t == [s EXCEPT !.synced = TRUE]
  IN  IF MustLock(s) /\ ~FullyLocked(s) THEN [t EXCEPT !.inh = Inhibit(@)]
      ELSE [t EXCEPT !.inh = Uninhibit(@)]

\* `synced' is auxiliary: nothing the decision depends on has changed behind
\* the controller's back since it was last taken.
SyncInhibitor(s) ==
  LET t == [s EXCEPT !.synced = TRUE]
  IN  IF MustLock(s) /\ ~FullyLocked(s) THEN [t EXCEPT !.inh = Inhibit(@)]
      ELSE IF s.bufferCleared THEN [t EXCEPT !.inh = Uninhibit(@)]
      ELSE t

InhibitPaint(s) == [s EXCEPT !.bufferCleared = FALSE, !.paintInhibited = TRUE]

UninhibitPaint(s) ==
  IF s.paintInhibited
  THEN SyncInhibitor([s EXCEPT !.bufferCleared = TRUE, !.paintInhibited = FALSE])
  ELSE s

MarkBufferHasCleared(s) ==
  IF s.bufferCleared THEN s ELSE SyncInhibitor([s EXCEPT !.bufferCleared = TRUE])

-----------------------------------------------------------------------------
(* The animations (unity-shared/AnimationUtils.h over nux's AnimateValue)  *)
(* and the handlers of their signals.                                      *)

\* When a blank window stops grabbing, the primary shield takes over; its
\* `grabbed' signal is not emitted on this path.
BlankWindowGrabEnable(s, grab) ==
  LET t == [s EXCEPT !.blankInput = grab]
  IN  IF ~s.blank THEN s
      ELSE IF grab THEN (IF s.primary = None THEN GrabAdd(t, BlankArea) ELSE t)
      ELSE IF s.primary # None THEN GrabAdd(t, s.primary)
      ELSE UnGrab(t, {BlankArea})

\* Mutant: lock_on_blank is not consulted
OnBlankFinishedLocks(s) ==
  LET isShown == s.anim["blank"].val = Full
  IN  [BlankWindowGrabEnable(s, isShown) EXCEPT !.active = isShown, !.delayTimer = isShown]

OnBlankFinished(s) ==
  LET isShown == s.anim["blank"].val = Full
  IN  [BlankWindowGrabEnable(s, isShown) EXCEPT
         !.active = isShown, !.delayTimer = isShown /\ s.lockOnBlank]

Backward(a) == a.to < a.from

\* The shields, and everything made for them, go away.
RemoveShields(s) ==
  [DestroyShields(s, Monitors) EXCEPT
     !.shields = 0, !.lockInput = FALSE, !.following = FALSE,
     !.isLocked = FALSE, !.target = FALSE, !.early = FALSE]

\* Mutant: the inhibitor is not asked for again after an unlock
OnFadeFinishedUnsynced(s) ==
  IF Backward(s.anim["fade"]) THEN RemoveShields(s)
  ELSE IF ~s.prompt THEN [SyncInhibitor(s) EXCEPT !.postTimer = TRUE]
  ELSE SyncInhibitor(s)

OnFadeFinished(s) ==
  LET t == SyncInhibitor(s)
  IN  IF Backward(s.anim["fade"]) THEN RemoveShields(t)
      ELSE IF ~s.prompt THEN [t EXCEPT !.postTimer = TRUE]
      ELSE t

Finished(s, a) == IF a = "fade" THEN OnFadeFinished(s) ELSE OnBlankFinished(s)

\* The value changes, and `updated' sets the opacity of the windows.
SetCurrent(s, a, v) ==
  LET t == [s EXCEPT !.anim[a].val = v]
  IN  IF a = "fade" THEN [t EXCEPT !.opaque = IF v = Full THEN ShieldsOf(s) ELSE {}]
      ELSE IF s.blank THEN [t EXCEPT !.blankOpacity = v]
      ELSE t

AnimStop(s, a) ==
  IF s.anim[a].running THEN Finished([s EXCEPT !.anim[a].running = FALSE], a) ELSE s

AnimRun(s, a) ==
  LET v == s.anim[a].from
      t == IF s.anim[a].val = v THEN s ELSE SetCurrent(s, a, v)
  IN  [t EXCEPT !.anim[a].running = TRUE]

AnimStart(s, a, from, to) ==
  LET t == [AnimStop(s, a) EXCEPT !.anim[a].from = from, !.anim[a].to = to]
  IN  IF from # to THEN AnimRun(t, a)
      ELSE IF t.anim[a].val # to THEN AnimStop(AnimRun(t, a), a)
      ELSE t

AnimSetValue(s, a, v) == AnimStart(s, a, v, v)

AnimSkip(s, a) ==
  [AnimSetValue(s, a, s.anim[a].to) EXCEPT !.anim[a].from = s.anim[a].from]

AnimStartOrReverse(s, a, from, to) ==
  LET now == s.anim[a]
  IN  IF now.running /\ now.from = to /\ now.to = from
      THEN [s EXCEPT !.anim[a].from = now.to, !.anim[a].to = now.from]
      ELSE IF now.running /\ now.from = from /\ now.to = to THEN s
      ELSE AnimStart(s, a, from, to)

\* One tick: an intermediate value, or the last one and the end.
AnimAdvance(s, a, v) ==
  IF v = s.anim[a].to THEN AnimStop(SetCurrent(s, a, v), a) ELSE SetCurrent(s, a, v)

-----------------------------------------------------------------------------
(* The blank window.                                                       *)

EnsureBlankWindow(s) ==
  IF s.blank THEN s
  ELSE [s EXCEPT !.blank = TRUE, !.blankOpacity = s.anim["blank"].val]

ShowBlankWindow(s) ==
  IF s.blank /\ s.blankOpacity = Full THEN s
  ELSE AnimStartOrReverse(EnsureBlankWindow(s), "blank", Clear, Full)

\* Mutant: the window goes, its animation stays where it was
HideBlankWindowOnly(s) ==
  IF ~s.blank THEN s
  ELSE [UnGrab(s, {BlankArea}) EXCEPT !.blank = FALSE, !.blankOpacity = Clear, !.delayTimer = FALSE]

\* The window is destroyed, and with it its place in the grab stack.
HideBlankWindow(s) ==
  LET faded    == AnimSetValue(s, "blank", Clear)
      released == IF faded.prompt THEN BlankWindowGrabEnable(faded, FALSE) ELSE faded
  IN  IF ~s.blank THEN s
      ELSE [UnGrab(released, {BlankArea}) EXCEPT
              !.blank = FALSE, !.blankOpacity = Clear, !.delayTimer = FALSE]

OnBlankWindowInputEvent(s) == IF s.lockTimer THEN s ELSE HideBlankWindow(s)

OnPresenceStatusChanged(s, isIdle) ==
  IF s.useLegacy THEN s
  ELSE IF isIdle THEN ShowBlankWindow(s)
  ELSE IF ~s.lockTimer THEN HideBlankWindow(s)
  ELSE s

OnScreenSaverActivationRequest(s, activate) ==
  IF s.useLegacy THEN s
  ELSE [s EXCEPT !.saverTimer = IF activate THEN "activate" ELSE "deactivate"]

-----------------------------------------------------------------------------
(* The shields of the current monitors.                                    *)

SetupPrimaryShieldConnections(s) ==
  [s EXCEPT !.lockInput = TRUE, !.conn = IF s.isLocked THEN None ELSE s.primary]

\* A shield built while the lock screen fades in takes the fade's opacity and
\* is shown; before the first frame it keeps nux's default, opaque and hidden,
\* which the auxiliary `early' remembers for as long as this lock lasts.
AddShields(s, added) ==
  LET v == s.anim["fade"].val
  IN  [s EXCEPT !.shown  = IF v # Clear THEN @ \cup added ELSE @,
                !.opaque = IF v # Partial THEN @ \cup added ELSE @,
                !.early  = @ \/ (v = Clear /\ added # {})]

\* The loop makes every shield secondary, then the one under the mouse
\* primary.  A new shield under the mouse is built as the primary one first.
EnsureShields(s) ==
  LET p       == s.mouse
      added   == (s.shields + 1)..s.monitors
      resized == [DestroyShields(s, (s.monitors + 1)..MaxMonitors) EXCEPT !.shields = s.monitors]
      demoted == Demote(resized, s.primary)
      built   == IF p \in added THEN Demote(ShowPrimaryView(demoted, p), p) ELSE demoted
      laidOut == [AddShields(built, added) EXCEPT !.primary = p]
  IN  SetupPrimaryShieldConnections(Promote(laidOut, p))

\* OnPrimaryShieldMotion, with the pointer on the monitor of shield i
MovePrimary(s, i) ==
  IF i = s.primary THEN s
  ELSE SetupPrimaryShieldConnections(Promote([Demote(s, s.primary) EXCEPT !.primary = i], i))

ShowShields(s) ==
  LET t == EnsureShields(s)
      u == [t EXCEPT !.following = TRUE, !.shown = ShieldsOf(t), !.opaque = {},
                     !.isLocked = t.primary \in t.grabs, !.early = FALSE]
  IN  AnimStartOrReverse(u, "fade", Clear, Full)

LockScreen(s) == ShowShields([s EXCEPT !.target = TRUE])

HideShields(s) ==
  IF IsLocked(s) THEN AnimStartOrReverse(UnGrab(s, ShieldsOf(s)), "fade", Full, Clear) ELSE s

-----------------------------------------------------------------------------
(* Requests of the session manager.                                        *)

\* Mutant: a request is taken while shields are up
OnLockRequestedAgain(s, prompt) ==
  IF s.useLegacy THEN s ELSE [s EXCEPT !.prompt = prompt, !.lockTimer = TRUE]

OnLockRequested(s, prompt) ==
  LET blanked == [BlankWindowGrabEnable(EnsureBlankWindow(s), TRUE) EXCEPT !.blankOpacity = Full]
      t       == IF prompt THEN blanked ELSE s
  IN  IF s.useLegacy \/ IsLocked(s) THEN s
      ELSE [t EXCEPT !.prompt = prompt, !.lockTimer = TRUE]

\* session::GnomeManager::LockScreen
RequestLock(s, prompt) ==
  IF s.isLocked \/ s.mayLock THEN OnLockRequested(s, prompt)
  ELSE OnScreenSaverActivationRequest(s, TRUE)

OnUnlockRequested(s) ==
  HideShields(HideBlankWindow([s EXCEPT !.lockTimer = FALSE, !.postTimer = FALSE]))

\* The 30 ms timeout set by OnLockRequested: it keeps trying while somebody
\* else has the keyboard (IsScreenGrabbed does not ask for the pointer), ...
ScreenIsGrabbed(s) == s.foreignGrab = "keyboard" /\ ~(s.blank /\ BlankArea \in s.grabs)

\* ... then raises the shields, at once in place of the blank window if the
\* lock was prompted.
RaiseShields(s) == LockScreen(IF s.prompt THEN s ELSE HideBlankWindow(s))

\* Mutant: the shields of a prompted lock fade in
ShieldsRaisedFading(s) ==
  [(IF s.prompt THEN HideBlankWindow(s) ELSE s) EXCEPT !.lockTimer = FALSE]

ShieldsRaised(s) ==
  [(IF s.prompt THEN HideBlankWindow(AnimSkip(s, "fade")) ELSE s) EXCEPT !.lockTimer = FALSE]

\* The 100 ms timeout set by OnScreenSaverActivationRequest
ScreenSaverTimeout(s) ==
  LET activate == s.saverTimer = "activate"
      t        == [s EXCEPT !.saverTimer = "none"]
  IN  IF s.active = activate THEN t
      ELSE IF activate THEN AnimSkip(ShowBlankWindow(t), "blank")
      ELSE HideBlankWindow(t)

\* Input while locked puts off the blanking.
ResetPostLockScreenSaver(s) == HideBlankWindow([s EXCEPT !.postTimer = FALSE])

AboutToSuspend(s) == IF s.lockOnSuspend THEN RequestLock(InhibitPaint(s), TRUE) ELSE s
=============================================================================
