------------------------ MODULE LockScreenController ------------------------
(***************************************************************************)
(* lockscreen/LockScreenController.cpp, second half: the callbacks of the  *)
(* main loop, one action each, over the methods of LockScreenState, and    *)
(* the programs around the lock screen as far as it reacts to them: the    *)
(* session manager (UnityCore/GnomeSessionManager.cpp), the screen saver   *)
(* service, the settings, the X server, and logind's suspend protocol.     *)
(***************************************************************************)
EXTENDS LockScreenState

CONSTANTS Stimuli,   \* the inputs of the environment a model lets happen
          Policies,  \* the settings a session may start with
          MaxCalls   \* bound: no input while more Inhibit calls are in flight

AllStimuli == {"lock", "promptLock", "unlock", "presence", "saver", "suspend",
               "monitors", "motion", "panel", "foreignGrab", "settings",
               "legacy", "session", "inhibitFails"}

ASSUME StimuliAssumption == Stimuli \subseteq AllStimuli
ASSUME PoliciesAssumption == Policies \subseteq AllPolicies
ASSUME MaxCallsAssumption == MaxCalls \in Nat

VARIABLES ls,       \* the lock screen
          power,    \* logind: "awake", "preparing" (PrepareForSleep sent) or "asleep"
          proxies,  \* D-Bus proxies that have connected: "login", "session"
          guarded   \* history: this suspend began with the inhibitor held and no
                    \* unlock under way, and neither an unlock nor a change of
                    \* policy came after

vars == <<ls, power, proxies, guarded>>

Init ==
  /\ \E m \in Monitors : \E n \in 1..m : \E p \in Policies : ls = InitialState(m, n, p)
  /\ power = "awake"
  /\ proxies = {}
  /\ guarded = FALSE

-----------------------------------------------------------------------------
(* A callback runs while the machine is awake and changes the     *)
(* lock screen only.                                                       *)

Running == power # "asleep"

Runs(state) == Running /\ ls' = state /\ UNCHANGED <<power, proxies>>

Internal(state) == Runs(state) /\ UNCHANGED guarded

FadingOut == ls.anim["fade"].running /\ Backward(ls.anim["fade"])

Input(stimulus) == stimulus \in Stimuli /\ ls.inh.calls <= MaxCalls

-----------------------------------------------------------------------------
(* D-Bus: proxies, inhibitor calls, the session.                           *)

\* DBusProxy::connected of the logind manager
LoginConnected ==
  /\ "login" \notin proxies
  /\ Running
  /\ proxies' = proxies \cup {"login"}
  /\ ls' = SyncInhibitor(ls)
  /\ UNCHANGED <<power, guarded>>

\* SetupLogin1Proxy installs the getter of is_session_active: the value
\* changes, `changed' is not emitted.
SessionProxyReady ==
  /\ "session" \notin proxies
  /\ Running
  /\ proxies' = proxies \cup {"session"}
  /\ ls' = [ls EXCEPT !.sessionActive = TRUE, !.synced = FALSE]
  /\ UNCHANGED <<power, guarded>>

InhibitReplied ==
  /\ "login" \in proxies
  /\ ls.inh.calls > 0
  /\ Internal([ls EXCEPT !.inh = InhibitReply(@)])

\* logind refuses, or the proxy did not connect in time
InhibitRejected ==
  /\ "inhibitFails" \in Stimuli
  /\ ls.inh.calls > 0
  /\ Internal([ls EXCEPT !.inh = InhibitFailed(@), !.synced = FALSE])

SessionActiveChanged ==
  /\ Input("session")
  /\ "session" \in proxies
  /\ LET t == SyncInhibitor([ls EXCEPT !.sessionActive = ~@])
     IN  Runs(IF t.sessionActive THEN OnScreenSaverActivationRequest(t, FALSE) ELSE t)
  /\ guarded' = FALSE

LockOnSuspendChanged ==
  /\ Input("settings")
  /\ Runs(SyncInhibitor([ls EXCEPT !.lockOnSuspend = ~@]))
  /\ guarded' = FALSE

UseLegacyChanged ==
  /\ Input("legacy")
  /\ Runs(SyncInhibitor([ls EXCEPT !.useLegacy = ~@]))
  /\ guarded' = FALSE

-----------------------------------------------------------------------------
(* Requests to lock, to unlock, and to blank.                              *)

Lock   == Input("lock") /\ Internal(RequestLock(ls, FALSE))
Prompt == Input("promptLock") /\ Internal(RequestLock(ls, TRUE))

\* A successful authentication, or logind's Unlock signal
Unlock ==
  /\ Input("unlock")
  /\ Runs(OnUnlockRequested(ls))
  /\ guarded' = FALSE

PresenceChanged == Input("presence") /\ \E idle \in BOOLEAN : Internal(OnPresenceStatusChanged(ls, idle))

SaverRequested == Input("saver") /\ \E on \in BOOLEAN : Internal(OnScreenSaverActivationRequest(ls, on))

SimulateActivity == Input("saver") /\ Internal(HideBlankWindow(ls))

-----------------------------------------------------------------------------
(* Timeouts and animation ticks.                                           *)

LockRetries == ls.lockTimer /\ ScreenIsGrabbed(ls) /\ Internal(HideBlankWindow(ls))

LockHappens ==
  /\ ls.lockTimer
  /\ ~ScreenIsGrabbed(ls)
  /\ Internal(ShieldsRaised(RaiseShields(ls)))

DelayTimerFires == ls.delayTimer /\ Internal(RequestLock([ls EXCEPT !.delayTimer = FALSE], TRUE))

SaverTimerFires == ls.saverTimer # "none" /\ Internal(ScreenSaverTimeout(ls))

PostTimerFires ==
  /\ ls.postTimer
  /\ Internal(OnPresenceStatusChanged([ls EXCEPT !.postTimer = FALSE], TRUE))

\* Mutant: grab_failed unlocks, whoever it comes from
GrabTimerUnlocks ==
  \E i \in ls.failTimer :
    Runs(OnUnlockRequested([ls EXCEPT !.failTimer = @ \ {i}])) /\ guarded' = FALSE

\* regrab_timeout_ of a shield: grab_failed, and the controller's answer
GrabTimerFires ==
  \E i \in ls.failTimer :
    LET t == [ls EXCEPT !.failTimer = @ \ {i}]
    IN  IF ls.conn = i /\ ~ls.isLocked
        THEN Runs(OnUnlockRequested(t)) /\ guarded' = FALSE
        ELSE Internal(t)

Tick(a) ==
  LET now == ls.anim[a]
  IN  /\ now.running
      /\ \E v \in {Partial, now.to} :
           /\ v = now.to \/ (now.val = now.from /\ now.from # now.to)
           /\ Internal(AnimAdvance(ls, a, v))

FadeTick  == Tick("fade")
BlankTick == Tick("blank")

\* UnityScreen::donePaint
DonePaint == ls.paintInhibited /\ Internal(MarkBufferHasCleared(ls))

-----------------------------------------------------------------------------
(* Input, monitors and grabs.                                              *)

\* An X event while locked, the pointer on the monitor of shield i; only a
\* ButtonRelease moves the primary shield while an indicator is open.
LockScreenInput ==
  /\ Input("motion")
  /\ ls.lockInput
  /\ \E i \in ShieldsOf(ls) :
       \E moves \in {TRUE, ls.primary \notin ls.panels} :
         Internal(ResetPostLockScreenSaver(IF moves THEN MovePrimary(ls, i) ELSE ls))

BlankWindowInput ==
  /\ Input("presence")
  /\ ls.blankInput
  /\ Internal(OnBlankWindowInputEvent(ls))

\* UScreen::changed, blocked while no shields are up
MonitorsChanged ==
  /\ Input("monitors")
  /\ \E n \in Monitors : \E m \in 1..n :
       LET t == [ls EXCEPT !.monitors = n, !.mouse = m]
       IN  Internal(IF ls.following THEN EnsureBlankWindow(EnsureShields(t)) ELSE t)

PanelOpens ==
  /\ Input("panel")
  /\ ls.primary # None
  /\ ls.primary \in ls.built \ ls.panels
  /\ Internal(PanelActive(ls, ls.primary))

PanelCloses == \E i \in ls.panels : Internal(PanelInactive(ls, i))

ForeignGrabs ==
  /\ Input("foreignGrab")
  /\ ls.grabs = {}
  /\ ls.foreignGrab = "none"
  /\ \E g \in {"keyboard", "pointer"} : Internal([ls EXCEPT !.foreignGrab = g])

ForeignUngrabs ==
  /\ ls.foreignGrab # "none"
  /\ Internal([ls EXCEPT !.foreignGrab = "none"])

\* The X server reports the end of some grab
UngrabNotified == ls.regrab # {} /\ Internal(ScreenUngrabbed(ls))

-----------------------------------------------------------------------------
(* logind's suspend protocol.                                              *)

PrepareForSleep ==
  /\ Input("suspend")
  /\ "login" \in proxies
  /\ power = "awake"
  /\ power' = "preparing"
  /\ ls' = AboutToSuspend(ls)
  /\ guarded' = (ls.inh.held /\ MustLock(ls) /\ ~FadingOut)
  /\ UNCHANGED proxies

\* Nobody delays the suspend
Sleep ==
  /\ power = "preparing"
  /\ ~Delaying(ls.inh)
  /\ power' = "asleep"
  /\ UNCHANGED <<ls, proxies, guarded>>

\* InhibitDelayMaxSec is over
SleepAnyway ==
  /\ power = "preparing"
  /\ Delaying(ls.inh)
  /\ power' = "asleep"
  /\ guarded' = FALSE
  /\ UNCHANGED <<ls, proxies>>

Resume ==
  /\ power = "asleep"
  /\ power' = "awake"
  /\ ls' = UninhibitPaint(ls)
  /\ guarded' = FALSE
  /\ UNCHANGED proxies

-----------------------------------------------------------------------------
DBus        == LoginConnected \/ SessionProxyReady \/ InhibitReplied \/ InhibitRejected
Policy      == SessionActiveChanged \/ LockOnSuspendChanged \/ UseLegacyChanged
Requests    == Lock \/ Prompt \/ Unlock \/ PresenceChanged \/ SaverRequested \/ SimulateActivity
Timers      == LockRetries \/ LockHappens \/ DelayTimerFires \/ SaverTimerFires \/ PostTimerFires \/ GrabTimerFires
Painting    == FadeTick \/ BlankTick \/ DonePaint
UserInput   == LockScreenInput \/ BlankWindowInput \/ MonitorsChanged \/ PanelOpens \/ PanelCloses
Grabbing    == ForeignGrabs \/ ForeignUngrabs \/ UngrabNotified
Suspending  == PrepareForSleep \/ Sleep \/ SleepAnyway \/ Resume

Next == DBus \/ Policy \/ Requests \/ Timers \/ Painting \/ UserInput \/ Grabbing \/ Suspending

Spec == Init /\ [][Next]_vars

=============================================================================
