# A formal model of the Unity 7 shell

TLA+ specifications of parts of Unity 7, the desktop shell that runs inside compiz, with the TLC
configurations that check them and TLAPS proofs of their most important properties. Paths such as
`lockscreen/LockScreenController.cpp:416` are relative to `src/`.

Modelled: the **lock screen** with logind's suspend protocol, the **PAM conversation** with the view that
asks for the password, the end of the session (**gnome-session client and dialog**), the **reveal logic
of the launcher**, its **edge barriers**, its **icons and favorites**, the **application switcher**, and
**dash and HUD** with the messages between the parts of the shell. The rest of this file is

1. the inventory of the system,
2. the modules and how they correspond to the code,
3. the runs: what each asks, its bounds and its fairness,
4. the proofs,
5. where code and documentation disagree, and other behaviours worth knowing,
6. what is not modelled, and the plan.

## 1. Inventory

Unity is one process with one GLib main loop. Almost everything happens in callbacks of that loop: X
events, D-Bus signals and replies, timeouts, idle sources, animation ticks and frames. Two callbacks
never overlap, so outside the thumbnailer the code has no locks, and its concurrency is in the *order* of
callbacks: a timer that was armed for a state that has changed since, a reply to a call nobody needs any
more, a signal emitted from inside the handler of another one. Real threads exist in two places, the PAM
conversation and the thumbnailer.

| Part | State it keeps | Operations | Talks to | What is hard | What makes it correct |
|---|---|---|---|---|---|
| Suspend inhibitor (`lockscreen/SuspendInhibitorManager.cpp`) | logind's inhibitor descriptor | Inhibit, Uninhibit, the reply | logind; lock screen controller | reply arrives late; several calls in flight | held whenever a suspend needs a lock first, dropped once the lock is on screen |
| Lock screen controller (`lockscreen/LockScreenController.cpp`) | shields, blank window, six timers, two animations, `is_locked`, `prompt_activation_` | lock, prompt, unlock, blank, monitors changed, suspend | session manager, shields, inhibitor, D-Bus service, compositor | every timer against every request; animations reversed half way; hot-plug | locked means covered and grabbed; nothing is left behind by an unlock; sleeps only when covered |
| Shields (`LockScreenBaseShield.cpp`, `LockScreenShield.cpp`) | primary flag, grab, regrab connection, failure timer | grab, regrab, release, primary changed, indicator menu open/closed | nux grab stack, window manager, controller | somebody else has the grab; the primary moves while a regrab waits | exactly the primary has or waits for the grab |
| User authentication (`UserAuthenticatorPam.cpp`, `UserPromptView.cpp`) | PAM handle, thread, pending prompts, retry counter | start, cancel, prompt, answer, end | PAM thread, session manager | check-then-act on a field the thread sets; callbacks into a destroyed view | one conversation at a time, cancel ends it |
| Screen saver service (`ScreenSaverDBusManager.cpp`) | `Active` | Lock, SetActive, SimulateUserActivity | D-Bus clients, controller | 100 ms debounce against activity | `Active` only over a blank screen |
| Launcher hide machine (`launcher/LauncherHideMachine.cpp`) | some twenty quirks, mode, decision, hide timeout, idle source | SetQuirk, SetMode, AddRevealPressure | launcher | decision, timeout and notification are three moments | the launcher hides iff nothing holds it |
| Launcher hover machine (`LauncherHoverMachine.cpp`) | 7 quirks, decision, idle source | SetQuirk | launcher | told late; partly bypassed | not hovered while hidden |
| Decaymulator (`Decaymulator.cpp`) | pressure, decay timer | value changed, decay tick | hide machine, edge barriers | integer division | pressure goes away |
| Launcher view (`Launcher.cpp`) | hidden, hovered, action state, drags, overlays | pointer, keys, quicklists, drags, gestures, overlays, frames | both machines, controller, model | a dozen sources of quirks that overlap | every quirk that is set is dropped by the same story |
| Launcher controller (`LauncherController.cpp`) | launchers per monitor, keyboard launcher, key timers | super key, key navigation, drag routing, favourites | launchers, model, favourite store | tap and hold timers; monitor changes in a drag | a launcher that was revealed is released |
| Launcher model and icons (`LauncherModel.cpp`, `*LauncherIcon.cpp`) | ordered icons, selection | add, remove, reorder, select | controller, launchers | selection is an index | selection stays on its icon; order is total |
| Edge barriers (`EdgeBarrierController.cpp`, `PointerBarrier.cpp`) | a barrier per monitor, one pressure, one release timeout | barrier event, push, release, reset | X server, launchers, panels | one timer for all barriers | no barrier is left open without anybody having taken over its timeout |
| Switcher (`SwitcherController.cpp`, `SwitcherModel.cpp`) | view, selection, detail mode, timers | show, next, prev, detail, hide | window manager | delayed show against key release; windows closing | selection always valid, Alt released means gone |
| Session client and dialog (`UnityCore/GnomeSessionManager.cpp`, `shutdown/SessionController.cpp`) | pending action, inhibited flag; dialog mode and fade | logout, reboot, shutdown, Open/Confirm/Cancel/Close | gnome-session, logind, ConsoleKit | late errors, requests of other clients | an action happens only if confirmed |
| Dash, HUD (`dash/DashController.cpp`, `hud/HudController.cpp`) | visibility, fade, grab wait, hide lock | show, hide, focus, search | window manager, launcher, scopes | waits for somebody else's grab | a hide is not undone by a wait |
| Scopes, indicators, GLib and D-Bus wrappers (`UnityCore/`) | proxies, queued calls, named sources | connect, call, add/remove source | D-Bus | connection timeouts, replacement by nickname | a callback runs once |
| Panel, panel service (`panel/`, `services/panel-service.c`) | indicator entries, sync state per indicator | sync, activate, notify | indicators, compositor | sync timeouts against changes | each change is seen by the client |
| Shared services (`unity-shared/`) | input clients, grabbed keys, thumbnail queue, monitors | register, grab, generate, refresh | X, compiz, a thread | registration from inside a callback; thread start and stop | no client is lost, no thumbnail is stuck |
| Compiz plugin (`plugins/unityshell`) | paint state, show desktop, minimised windows, gestures | paint, handle event, init | everything | order of compiz callbacks | show desktop and minimise restore what they hid |
| Decorations, shortcuts, accessibility, tools, data | layout and drawing | | | | not protocol code |

How the modelled parts interact: the session manager asks the controller to lock (`lock_requested`,
`prompt_lock_requested`) and to unlock; the controller raises one shield per monitor and learns by the
primary's `grabbed` signal that it may set `is_locked`; logind announces a suspend through the inhibitor
manager, the controller answers with a prompt lock, the compositor's `donePaint` tells that a frame
without the session was shown, and only then the inhibitor is dropped. In the launcher, every view or
input handler sets *quirks* of two small machines; the hide machine decides, waits 400 ms where that
looks better, and tells the launcher from an idle source; the launcher sets `LAUNCHER_HIDDEN` back in
both machines, which changes what the same quirks mean.

`PROJECT.json` lists the components, and under `hazards` the places in the code where these difficulties
bite, each with the properties that would notice.

## 2. The modules

```
SuspendInhibitorManager   LockScreenShield            LauncherHideMachine  LauncherHoverMachine
              \            /                                     \            /
             LockScreenState                                     LauncherReveal
                    |                                                  |
           LockScreenController                    LauncherRevealProofs, MCLauncherReveal
                    |
           LockScreenProperties -- (INSTANCE) --> SessionLock
              /            |            \
      MCLockScreen  LockScreenUngrabs  LockScreenProofs
                           |
                  MCLockScreenUngrabs

UserAuthenticatorPam   GnomeSessionManager   LauncherModel       SwitcherModel        EdgeBarrierController
         |                     |                   |                   |                       |
   UserPromptView        SessionDialog     LauncherFavorites   SwitcherController     EdgeBarrierProofs,
         |                     |                   |                   |               MCEdgeBarriers
  UserPromptProofs     SessionDialogProofs         |             SwitcherProofs
                                          LauncherFavoritesProofs

     UBusServer -- Overlays -- OverlaysProofs
```

A line downwards or to the right is EXTENDS. The families share no state, and meet where one is the
environment of another: the unlock of `UserPromptView` is the input *"unlock"* of the lock screen, whose
fade-out destroys that view; the barrier events of `EdgeBarrierController` are the input *"barrier"* of
`LauncherReveal`; `is_locked` is an input of `SessionDialog`, and its *LockScreen* one of the lock
screen; the launcher's icons that `LauncherFavorites` shows are the `known` icons of the switcher; the
messages of `Overlays` to the launchers are the inputs *"dash"* and *"hud"* of `LauncherReveal`.

In all of them the state of an object with many methods is a record and a *method* is an operator from
the record before the call to the record after it. A method that emits a signal includes what the
handlers do, because sigc signals are synchronous. The actions are the callbacks of the main loop: one
callback, one action. A comment that starts with `Mutant:` marks an operator that is not part of the
specification: it is the operator next to it with a plausible bug, kept to show that a property notices.

### Lock screen

| Module | Code | Content |
|---|---|---|
| `SuspendInhibitorManager` | `lockscreen/SuspendInhibitorManager.cpp` | descriptor held, calls in flight, descriptor leaked |
| `LockScreenShield` | `LockScreenBaseShield.cpp`, `LockScreenShield.cpp` | the grab: `GrabScreen`, `Demote`/`Promote` (the two directions of `primary.changed`), `PanelActive`/`PanelInactive`, `ScreenUngrabbed` (a waiting regrab), `DestroyShields`; nux's grab stack as the set of windows in it |
| `LockScreenState` | `LockScreenController.cpp`, `unity-shared/AnimationUtils*.h` | the record of the controller; shields, blank window, animations, requests, inhibitor |
| `LockScreenController` | same, plus the callers | the actions, `Init`, `Next` |
| `LockScreenProperties` | | what is promised |
| `LockScreenUngrabs` | `unityshell.cpp:1848`, `unity-shared/PluginAdapter.cpp` | the same system with the X event that ends a foreign keyboard grab, its fairness, and what follows for shields that wait |
| `SessionLock` | | the abstract lock: *unlocked, arming, locked, leaving* and what is reported |
| `LockScreenProofs` | | the theorems: types and lifecycle; the input and the refinement; what covers the session |

State and code: `shields`, `primary`, `prompt`, `lockTimer`, `delayTimer`, `postTimer`, `saverTimer` are
`shields_`, `primary_shield_`, `prompt_activation_`, `lockscreen_timeout_`, `lockscreen_delay_timeout_`,
`screensaver_post_lock_timeout_` and `screensaver_activation_timeout_`; `conn` is the shield whose
`grabbed` the controller listens to; `anim` holds the two animators with their start, end and a value out
of *Clear, Partial, Full*. One intermediate value is enough since the code compares opacities with 0 and
1 only. A tick goes to the intermediate value or to the end; `AnimStartOrReverse` and `AnimSkip` follow
the helpers of `AnimationUtils` line by line, including the end callback that a stop runs.

The environment: other X clients that take the keyboard or the pointer, indicator menus, the pointer
moving over monitors, monitors coming and going, settings, idle status from gnome-session, D-Bus clients
of the screen saver, an unlock (password accepted, or logind's Unlock), logind. logind is `power`: it
announces a suspend, waits for delaying descriptors, and sleeps anyway when its patience is over. Its
replies take any time and may be refusals.

Three variables are not in the code. `synced` says that nothing has changed behind the controller's back
since `SyncInhibitor` last ran; `early` that a shield was added before the first frame of a lock;
`guarded` that a suspend began with the inhibitor held and that no unlock or policy change came since.
They appear in properties, never in a guard.

`screen_ungrabbed`, the signal on which a shield without the grab tries again, is emitted when the plugin
reads a focus event with the mode NotifyUngrab. The shell's own ungrabs give such events too, so that
`UngrabNotified` can come at any time. Another program's causes one only when it lets go of the keyboard;
`told` in `LockScreenUngrabs` says that this event is in X's queue. The end of a pointer grab is not
reported to anybody.

### Launcher

| Module | Code | Content |
|---|---|---|
| `LauncherHideMachine` | `launcher/LauncherHideMachine.cpp` | quirks, `EnsureHideState`, `SetShouldHide`, the timeout, the emission |
| `LauncherHoverMachine` | `launcher/LauncherHoverMachine.cpp` | the same for hover |
| `LauncherReveal` | `launcher/Launcher.cpp`, `Decaymulator.cpp` | every handler that sets a quirk, as an action |
| `MCLauncherReveal` | | what `holds` distinguishes |
| `LauncherRevealProofs` | | the theorems |

State and code: `hide` and `hover` are the two machines, `hidden` and `hovered` are `hidden_` and
`hovered_`, `action` is `launcher_action_state_`, `window` the drag window (an icon under the pointer or
flying back), `push` the animation by which an external drag pushes the launcher off the screen, `drag`
the four finger gesture, `pressure` and `decaying` the decaymulator. Coordinates are abstracted to what
the handlers ask about them: the pointer is inside or not, the drag has passed the threshold or not. The
two modes that no option offers (dodge windows) are left out.

`QUICKLIST_OPEN` implies a pointer grab of the menu, so a press on the launcher cannot start a drag while
it is open; a quicklist can open during a slide, by the right button or from key navigation. An icon drag
and an external drag exclude each other in X.

### Password prompt

| Module | Code | Content |
|---|---|---|
| `UserAuthenticatorPam` | `lockscreen/UserAuthenticatorPam.cpp` | the PAM threads step by step against the main loop: the handle, the flags they share, the promises they wait for, what they post |
| `UserPromptView` | `lockscreen/UserPromptView.cpp`, and what of `LockScreenController.cpp` makes and destroys the view | prompts, buttons, retries, the end of an attempt, the unlock |
| `UserPromptProofs` | | theorems about both |

A thread is between two accesses of a shared field in each state (`pc`); every read and write of
`pam_handle_`, `cancelled_`, `first_prompt_` and `status_` that another thread can see is a step of its
own. What a thread posts with `AddTimeout` waits in `posted`, and a promise it waits for is the thread in
`answered`. PAM itself is external: any number of questions and messages, success or failure. Two ghosts:
`fresh` is a view that no attempt of an earlier view outlived, `proved` that PAM has succeeded since the
view was made.

### End of the session

| Module | Code | Content |
|---|---|---|
| `GnomeSessionManager` | `UnityCore/GnomeSessionManager.cpp` | the pending action; calls, their error replies, the fallback; Open, Close and the answers; two queues, to gnome-session and back |
| `SessionDialog` | `shutdown/SessionController.cpp`, `shutdown/SessionView.cpp` | mode, buttons, fade, grab, the cancel of an empty dialog; gnome-session, other programs and the user |

gnome-session is external: it asks, withdraws, fails a call or carries it out. A call waits for a proxy
before it is sent, and a signal does not, so that a signal can overtake a call. `asked` is the question
that gnome-session waits on, `lost` a ghost: it was ignored, or cleared by a late error, or found the
dialog fading out. `SessionDialogProofs` holds the theorems about both modules.

### Edge barriers

| Module | Code | Content |
|---|---|---|
| `EdgeBarrierController` | `launcher/EdgeBarrierController.cpp`, `PointerBarrier.cpp`, `Decaymulator.cpp` | a wrapper per monitor and edge, created, dropped and moved as layout and options change; pressure, break zone, release and its timeout |
| `MCEdgeBarriers` | | the options and subscribers of its run |
| `EdgeBarrierProofs` | | its theorems |

### Icons and favorites

| Module | Code | Content |
|---|---|---|
| `LauncherModel` | `launcher/LauncherModel.cpp` | the list of icons by priority: add, remove, the four reorders |
| `LauncherFavorites` | `LauncherController.cpp`, `ApplicationLauncherIcon.cpp`, `LauncherIcon.cpp`, `FavoriteStore*.cpp`, the icon drags of `Launcher.cpp` | applications that start and stop, icons that are pinned, closed and removed, the store and its signals, the drag of an icon and its cancellation |
| `LauncherFavoritesProofs` | | its theorems, and what the operators of both do to sequences |

Icons are `<<application, n>>`, so that an application can have a second icon while its first one is on
its way out. `launcher` is the model together with its icons: the priorities, and the sets of icons that
are sticky, visible, closing or removed. The part of a sequence that is in a set is `Only`, a recursive
function, because the provers cannot expand `SelectSeq`.

*Inputs* chooses what happens besides applications that start and stop: pinning, dragging, drops from
other programs, and another program that adds, removes or moves favorites. *"beside"* lets that program
add a favorite next to the entry for running applications. *"races"* lets an application be pinned while
its icon leaves (`Settled`), the favorites be written and the dragged application close during a drag,
and a drag end at the index it began at although the icons before it have changed (`InPlace`). No run
has these two, and each of them breaks a property, see §5.

### Switcher

| Module | Code | Content |
|---|---|---|
| `SwitcherModel` | `launcher/SwitcherModel.cpp` | applications, selection, detail mode, windows, rows; insertions and erasures |
| `SwitcherController` | `launcher/SwitcherController.cpp`, `SwitcherView.cpp`, the switcher's keys in `unityshell.cpp` | show, hide, fade, the detail timer, keys and mouse; applications and windows that come, go and move meanwhile |

The view is `"none"`, built or fading, and may still show an old model. *RowsStray* = FALSE stops the
environment before a step that would move the selected window past the layout's rows, see §5.

### Dash and HUD

| Module | Code | Content |
|---|---|---|
| `UBusServer` | `unity-shared/UBusServer.cpp` | a queue per priority, the idle source of each, dispatch of all that wait at once |
| `Overlays` | `dash/DashController.cpp`, `hud/HudController.cpp`, their keys, clicks and focus in `unityshell.cpp`, `OnOverlayShown`/`OnOverlayHidden` of `Launcher.cpp` and `PanelView.cpp` | show, hide, fades, waits for the end of a grab, the messages between all of them, who has the input focus |
| `OverlaysProofs` | | their theorems |

`waiting` holds the slots on `screen_ungrabbed` in the order of their connection; the HUD waits twice, in
the plugin (*"hud"* in `waiting`, with a timeout) and in its controller (`need_show`, without one).
`IsScreenGrabbed` is not a mere question: to find out it takes and drops the keyboard and moves the focus
to an application, which `FocusApplication` stands for; `notice` is the notification that brings the
focus back. An activation request is `ACTIVATE` when nobody said where to go and `GOTO` when somebody
did.

## 3. The runs

Run one with `tlc -config MCLockScreen_sleep.cfg MCLockScreen.tla`. Every run explores its state space
exhaustively and checks for deadlock.

| Run | Config | Question | Distinct states |
|---|---|---|---|
| `sleep` | `MCLockScreen_sleep` | *SleepsLocked*: does a suspend that found the inhibitor held always end behind opaque shields, with a frame shown since?  *InhibitorCovers*: is it held or asked for whenever a suspend would need a lock first? | 1.5 M |
| `monitors` | `MCLockScreenUngrabs_monitors` | *Lifecycle, GrabKept, NoStrayGrab, GrabFailureNeverUnlocks*: who has the input when menus, moves of the primary, hot-plug, foreign grabs and unlocks interleave?  *GrabSettles*: does a waiting shield that has a failure timer, or is told that the keyboard is free, get the grab or go away? | 479 K |
| `blank` | `MCLockScreen_blank` | *TypeOK, DelayedLockNeedsBlank, ActiveMeansBlanked, PromptCovers*: blanking, the lock that follows it, the screen saver interface.  *ImplementsSessionLock*: is all of it, seen from outside, the four-phase lock of `SessionLock`? | 582 K |
| `prompts` | `UserPromptView_prompts` | *NeverStranded*: does a lock screen always offer something or wait for something?  *UnlocksProved*: does only a success of PAM unlock? | 2.9 M |
| `serves` | `UserPromptView_serves` | *CancelEnds*: does a cancelled attempt give up its handle?  *Serves*: is the user offered something in the end? | 313 K |
| `dialogs` | `SessionDialog_dialogs` | *Answerable, Answered*: is a question of gnome-session on the screen until it is answered, and is it answered?  *GrabFollowsFade*: does no fading dialog keep the grab? | 1.1 M |
| `holds` | `MCLauncherReveal_holds` | *DecisionIsCurrent, HidesOnlyUnheld*: pointer, quicklists, slides, icon drags, drags of other programs and the four finger drag against the hide delay | 427 K |
| `launcher_settles` | `LauncherReveal_settles` | *NoHoverWhileHidden, LockHideWins, PressureDrains, HidesInTheEnd, RevealsInTheEnd*: the pointer, edge pressure, keys, overlays, spread, expo and the mode | 221 K |
| `edges` | `MCEdgeBarriers_edges` | *TimeoutHandedOn*: does the timeout that all barriers share close only what is open, and is a barrier left open only by handing the timeout on? | 100 K |
| `favorites` | `LauncherFavorites_favorites` | *RunningShown, FavoritesShown, StoreOrder, SmartPasses, CancelRestores*: is what runs and what is pinned shown once, in the order of the store, and do drags and their cancellation keep the order of the rest? | 177 K |
| `switcher` | `SwitcherController_switcher` | *SelectionValid, SelectionKept, DetailCurrent, RowFollows*: does the selection stay on its application and its window while others come and go?  *Releases*: is a hidden switcher let go? | 300 K |
| `overlays` | `Overlays_overlays` | *OneOverlay*: are dash and HUD only both open while the message that closes one is on its way?  *ShellAgrees*: do launchers and panels end at what is open?  *FocusFollows*: does the open one get the input, and the closed one give it up? | 582 K |

**Bounds.**  *MaxMonitors* is 2 where monitors matter: with two, the primary can move, be the one that
goes away, or be the new one; a third only repeats the roles. It is 1 where monitors are not the
question. *MaxCalls* = 1 lets two calls to Inhibit be in flight (the environment stops while more than
one is), which is where descriptors overwrite one another. *Policies* are all the settings a session can
start with in `blank`, in `sleep` the one that locks on suspend and after idling, in `monitors` the one
that locks after idling only (no inhibitor is asked for). *Stimuli* and *Inputs* choose which inputs of the environment a run lets happen; each run
leaves out those that its question does not depend on; for the launcher's combinations that no run
explores there are the theorems, which hold for every set of inputs.

*RevealPressure* and *MaxVelocity* are 1 or 2: the comparison is strict, so values on both sides of it,
one push that is enough and two pushes that add up all occur. *DecayRate* and *Responsiveness* are
options of the plugin with their real ranges in an ASSUME; the run takes a pair whose tick takes
something off (§5). *Overcome* = 3 with velocities 1 and 2
needs two to four pushes. In `edges` a launcher hides at the left of two monitors, *Clients* are the
launchers' barriers and *Options* change whether edges are sticky and whether the screen is locked: the
barriers of both edges and both monitors are pushed, released and destroyed beside one another. The
launcher at the bottom and the other options are left to the proof.

*MaxThreads* = 2 is an attempt and one that outlives its view; *MaxRounds* and *MaxPosted* = 2 give a
conversation more than one question and let what is posted be late; *MaxRetries* is 5 in the code: 1 and
2 are below, at and past the limit. `serves` has one thread, as liveness is dear, and its property is
about views without a left-over attempt. *Overlap* = FALSE leaves out two threads that write one handle
at once, which is undefined.

*MaxQueue* = 3 and *MaxMessages* = 2 bound what is on its way before somebody sends more; handlers send
on top of that. Two messages of different senders are what it takes for one to be overtaken or out of
date when it arrives. *MaxIcons* = 3 for two applications has room for both and one icon that leaves;
*MaxPriority* bounds how far priorities drift between two saves, which renumber them. It is 2, so that
three icons can be moved past one another within a drag. The applications are interchangeable: the run
uses their symmetry. The switcher has two applications with three windows, and every layout of those in
rows.

`holds` has a VIEW, `Unhovered`: states that differ in the hover machine and in `hovered` only are
explored once. Nothing else in the model depends on these two, and neither property of that run speaks of
them; *NoHoverWhileHidden* is checked by `launcher_settles`, without a view.

**Fairness.**  Safety is checked without any. The rest assumes what the main loop does: a source that
stays due is run (a timeout, an idle source, the end of an animation, a posted callback), and beyond
that:

- *GrabSettles*: the event that X sends at the end of a keyboard grab is read, and a shield's failure
  timer runs unless it is stopped. Nothing is assumed of other programs, which may keep what they have or
  grab again (what was told to a shield is then void), of menus and of unlocks. A shield that has no
  failure timer and waits for a *pointer* grab is promised nothing, and the property says nothing of it
  (§5). The timer's fairness is spelled out (`GrabFairness`), as TLC takes long for the ENABLED of WF.
- *CancelEnds, Serves*: a thread that can run does (PAM answers at last); nothing of the user.
- *Answered*: gnome-session reads what was sent, and a user who sees the dialog with the grab presses
  something.
- *HidesInTheEnd, RevealsInTheEnd, PressureDrains*: the idle source, the 400 ms timeout, the decay's
  timeout. Nothing of the pointer, of drags or of views.
- *Releases*: the fade ends.

**Mutants.**  For each property of a passing run `PROJECT.json` names a change to one operator under
which TLC finds the property violated: a guard dropped, a state not computed again, a timer not kept.

## 4. What is proved

TLAPS checks the theorems of eight modules: `tlapm M.tla` for `LockScreenProofs`, `UserPromptProofs`,
`SessionDialogProofs`, `LauncherRevealProofs`, `EdgeBarrierProofs`, `LauncherFavoritesProofs`,
`SwitcherProofs` and `OverlaysProofs`. They hold for every value of the constants: any number of
monitors, of threads, of applications and of windows, any set of inputs, any policy, any pressure, any
length of the queues and any option within the ranges of the assumptions. These are all that is assumed:
*MaxMonitors*, *MaxQueue*, *MaxThreads*, *MaxIcons*, *MaxPriority* and *MaxWindows* are positive natural
numbers, *MaxPosted* is at least 2 (a thread can post two things at once), *MaxCalls*, *MaxRounds*,
*MaxRetries*, *MaxMessages*, *RevealPressure* and *MaxVelocity* are natural numbers, *Overcome* and
*Decay* positive ones, *Monitors* is not empty, *Applications* neither, it is finite and has no member
that is the entry for running applications, *Stimuli*, *Inputs*, *Policies*, *Options*, *Clients*, *Interactives*
and *CanSleep* are sets of the known ones, *CanLock*, *CanShutdown*, *Overlap* and *RowsStray* are
Booleans, *StartIndex* is 0 or 1, *StartMode* is a hide mode, *DecayRate* and *Responsiveness* are in
the ranges of `unityshell.xml.in`. Six theorems have a hypothesis of their own,
*NeverStrandedHolds*, *DetailCurrentHolds*, *RowFollowsHolds*, *RunningShownHolds*,
*FavoritesShownHolds* and *StoreOrderHolds*; each is explained below.

Every safety property that a run checks, invariant or action property, is proved.

### Lock screen

- **TypeCorrect**: `Spec => []TypeOK`.
- **LifecycleHolds**: `Spec => []Lifecycle`. What `LockScreen()` sets up and the end of the fade-out
  takes down (systemd target, monitor and input connections, the primary) exists exactly while shields
  do; a session is never reported as locked without shields; the 30 ms retry is never armed over shields.

`Lifecycle` is not inductive: nothing in it says why the end of an animation takes down shields only at
the end of an unlock, nor why a grab that arrives late cannot report a lock. The inductive invariant
`Good` adds both: the fade runs only over shields and between different ends, and the `grabbed`
connection ends with the shields. The proof goes bottom up. Most methods do not touch what `Lifecycle` is
about, which `Step(s, t)` says of a call from `s` to `t`; it is reflexive and transitive, so it passes
through compositions. The rest (`EnsureShields`, `MovePrimary`, the fade, `RemoveShields`,
`ShieldsRaised`) has lemmas of its own, and each group of actions one lemma with a step per action.

The second part of `LockScreenProofs`, about the input:

- **NoStrayGrabHolds**, **GrabKeptHolds**: `Spec => []NoStrayGrab`, `Spec => []GrabKept`.
- **GrabFailureNeverUnlocksHolds**: `Spec => GrabFailureNeverUnlocks`, at the step that starts the fade.
- **SessionLockImplemented**: `Spec => ImplementsSessionLock`, the refinement of `SessionLock`.

The invariant `Held` (relative to `Good`) is the two grab properties together, because they need one
another: a late regrab is the primary's only because nobody else waits for one, and `is_locked` is set
only by the shield that the controller listens to. What makes the proof manageable are *frames*: `Only(s,
t, F)` says that a method changes the fields *F* at most, and every method has one lemma that names its
fields. A method whose frame misses the grab fields keeps `Held` for nothing. `NextSound` then shows one
thing per action, that `Held` is kept, that only an unlock request starts a fade-out over a locked
session, and that the step is one of `SessionLock` or a stutter; the action property and the refinement
are read off it.

The third part, about what is on the screen:

- **DelayedLockHolds**, **ActiveHolds**: `Spec => []DelayedLockNeedsBlank`, `Spec =>
  []ActiveMeansBlanked`.
- **PromptCoversHolds**, **InhibitorCoversHolds**, **SleepsLockedHolds**: `Spec => []PromptCovers`, `Spec
  => []InhibitorCovers`, `Spec => []SleepsLocked`.

The blank window has the invariant `BlankInv`: its animation only ever runs from clear to full and over a
window that exists, `active` and the delayed lock belong to its end. The suspend has `SleepInv`, in three
parts. `Shown` is what opacity means for shields: at rest they are opaque, in a fade-in they are not
unless one was added before the first frame, a prompted lock only fades out. `Covered` is
*InhibitorCovers*. `Guarded` is the heart of it, what is true of a suspend that began with the inhibitor
held: the descriptor is still held, or the shields are opaque (or `early`) *and* a frame without the
session was painted. Nothing less is inductive, because *SleepsLocked* speaks of the moment at which
logind gives up waiting and the descriptor's close is many callbacks older than that.

### Password prompt

- **TypesHold**: `Spec => []TypeOK`, for both modules.
- **UnlocksProvedHolds**: `Spec => UnlocksProved`: nothing but a success of PAM makes the view unlock.
- **NeverStrandedHolds**: `ASSUME ~Overlap PROVE Spec => []NeverStranded`.

`ProvInv` follows a success to all the places where the code believes in one: the thread that checks the
account, `status_` from the moment at which some attempt has ended, the button "Unlock". The middle one
is what a reader of the code would doubt, as `status_` starts as `PAM_SUCCESS` and all attempts share it:
it is only read when an end is on its way (`Ended`), and every way to get there writes it first.

`ServeInv` says what `NeverStranded` leaves out about a view that no older attempt outlived: `OneHandle`
(only the thread that made the handle converses), and under `Served` that nothing is cancelled, that what
was posted last is never a bare `clear_prompts` (`LastSaid`: another question, a message or the end
follows it in the same call), that a question on its way belongs to a thread that waits and has no prompt
yet (`Asks`), and that a prompt on the screen does too. It is here that `~Overlap` is needed: with two
threads between `g_thread_try_new` and `pam_start`, both write one handle, and what they do is undefined,
see §5; *Overlap* = FALSE leaves such starts out. *UnlocksProvedHolds* needs no such hypothesis, but
where *Overlap* is TRUE it speaks of what the model makes of two such threads, and not of undefined
behaviour.

### Dash and HUD

- **TypesHold**: `Spec => []TypeOK`.
- **OneOverlayHolds**, **ShellAgreesHolds**, **FocusFollowsHolds**: `Spec => []OneOverlay`, `Spec =>
  []ShellAgrees`, `Spec => []FocusFollows`, for any number of monitors and messages.

*ShellAgrees* and *FocusFollows* speak of a shell with no message on its way and are far from inductive:
all the work is in the states between. The invariant `OverlayInv` says what holds at any time, with the
messages that are *still to come* in it: a launcher knows what is open or the last message about it in
the queue will tell it (`LaunchersTold`, `LockTold`); a panel follows an overlay that its launcher
believes in, and of another one is yet to hear that it is hidden (`PanelsFollow`, a panel has room for
one); two open overlays have a message between them (`OneStays`); the input is with an open overlay, or
with an application while a notification is due or nothing is open (`InputKnown`); and what has another
priority is about none of this (`Asides`). When the queue is empty, this is the three properties.

`DispatchMessages` delivers a whole queue in one step while the handlers send more, so that `Good(s, q,
k)` is about a shell *s* of which the first *k* messages of *q* have been delivered: what is still to
come is the rest of *q* and then the queue of *s*. The fold over *q* is unfolded to a sequence of states,
and `Good` is carried along it from 0 to `Len(q)`; the slots that `screen_ungrabbed` calls in turn are a
second such fold. Induction over an operator is beyond the prover, but induction over a *set* is not:
`Least` (every set of natural numbers has a smallest element) is from the library's theorem that `<` is
well-founded, and `ToTheEnd` takes the set of positions at which the invariant fails.

### Switcher

- **SelectionValidHolds**: `Spec => []SelectionValid`.
- **SelectionKeptHolds**: `Spec => SelectionKept`, for any number of applications and windows, and
  whether or not the rows stray.

The invariant `SelInv` says that no application is in the switcher twice, that the index is one of theirs
(`Chosen`), and that a visible switcher has an application and none that the launcher lacks. The last is
what keeps an icon that the launcher adds from being in the switcher already, where its insertion would
be the second. Two facts are then shown of every method of the model: `Chosen` is kept, and so is
`Keeps(m, j)`, that *j* has the selection if it is in *m*. Most methods touch neither the applications
nor the index (`Same`). What remains is the arithmetic of `InsertIcon` and `Erase`: where the new icon
goes, how every other position shifts, and what modulo and the wrap of `PrevIndex` do to the index at
both ends of the list and when the last application leaves.

`VerifyApplications` is two loops around these, one fold for the icons that hide and one for those that
come back. Between their rounds holds `Hiding`: what was not looked at yet is still there, and what is
gone was not to be shown, so that the second loop cannot bring back the application that had the
selection. The folds are unfolded as in `OverlaysProofs`, to a sequence of stages. The order of the icons
is defined by what it is, an increasing sequence of all of them (`InOrder`); that there is one is
`SortedExists`, the smallest element first.

- **DetailCurrentHolds**: `ASSUME ~RowsStray PROVE Spec => []DetailCurrent`.
- **RowFollowsHolds**: `ASSUME ~RowsStray PROVE Spec => RowFollows`, for any number of windows and every
  layout of them.

The two need each other: a key that moves by rows counts on the row, and if the row is wrong, the index
it arrives at may be none. Their invariant is `DetInv`. While the switcher is shown, what the model knows
of windows is `Looked`: they are the windows of the selected application, or none is looked at and then
no index or row is left over from before (`Windowed`); and if the view draws this model, its rows are
those windows, as equal as can be, and the selected window is in the selected row (`Placed`). The
launcher is in it too (`EnvOK`): an icon that is not known to it is not running, so that one it adds
cannot have had its windows in the switcher already.

The arithmetic is in `RowBelow` and `RowAbove`. Two rows differ by one window at most and none is empty;
from the left half of a row the code goes on by the size of this row, from the right half by the size of
the next, and both land in the next row. `TotalAbove` is the sum over the rows before, which grows with
the rows (`TotalIs`, `TotalGrows`), so that the first row behind the window is the one it is in
(`RowFound`). Of the two folds of `VerifyApplications` it is shown what they do to windows (`Tracks`):
either the windows stay selected with their application, or the details are left; never the windows of
one application with the index of another. Each of the user's moves is then one of three: nothing,
another window in its row, or none (`MovesOK`).

The hypothesis is what the run has, too, and it is needed: where a window is selected past
`UpdateRowIndex`, the row is that of another window, and the next key reads past the layout (§5). It
leaves out exactly the steps after which the row does not go with the window (`RowKept` and the guard of
`LeaveDetail`), and says nothing of what they lead to.

### Launcher

- **TypeCorrect**: `Spec => []TypeOK`.
- **DecisionAlwaysCurrent**: the hide machine never keeps a decision to hide that its quirks have
  withdrawn, never owes a hide without its timeout, nor the launcher a notification without the idle
  source.
- **OnlyUnheldHides**, **LockHideAlwaysWins**: the two action properties, at the very step in which the
  launcher hides or shows.
- **HiddenUnhovered**; **PressureAlwaysDecays** (pressure always has its timer, the safety half of
  *PressureDrains*).

The invariant `IInv` joins `HideGood` and `HoverGood` (each machine is coherent by itself), the agreement
of both with `hidden_` and `hovered_`, and the types. The argument is that a machine cannot be made
incoherent from outside: `SetQuirk`, `SetMode`, `SetHoverQuirk` and the timeout keep it coherent
*whatever the quirk and whatever its value*. So every handler that sets quirks only, however many and in
whatever order, keeps `IInv`, and only the two emissions need a closer look. A handler added to the
launcher tomorrow is covered as long as it goes through `SetQuirk`.

### Icons and favorites

- **TypeCorrect**: `Spec => []TypeOK`: no icon is in the model twice.
- **SmartPassesHolds**, **CancelRestoresHolds**: `Spec => []SmartPasses`, `Spec => CancelRestores`, for
  any number of icons and all inputs, races included.
- **RunningShownHolds**, **FavoritesShownHolds**: `ASSUME "races" \notin Inputs PROVE Spec =>
  []RunningShown`, and the same for *FavoritesShown*.
- **StoreOrderHolds**: `ASSUME "races" \notin Inputs, "beside" \notin Inputs PROVE Spec =>
  []StoreOrder`.

Everything here is about the order of lists that are selected from, sorted and merged, which asks for
induction over data. The way around it is to describe a list without repetitions by its set and its
order: `Before(s, x, y)` says that *x* comes before *y* in *s*, and `SameOrder` that two such lists with
one set and one order are equal. Each operator has one lemma that says which elements it keeps and which
come before which: `Only` (an increasing function into the list it selects from, `Picks`), insertion,
concatenation, the lists of addresses; then `Sort`, a stable insertion sort whose result is ordered by
priority and, where those are equal, by the old place (`ToTheEnd`, over the set of prefixes that are
sorted); then the reorders, `Renumber`, `SaveIconsOrder` and `ResetIconPriorities`. `Before` is a
relation between elements, so that after these lemmas no proof speaks of indices.

There are three invariants, one on top of the other.

`OrderedInv` holds for all inputs: the icons are in the order of their priorities (`Ranked`), and what a
drag remembers is where its icon was and a neighbour that leads back there (`Leads`). Without `Ranked`
the reorders do nothing sensible, as they change priorities and then sort; with it, raising all that
follows by two and taking the place in between puts the icon right behind the other one, and a cancelled
drag ends where it began.

`LifeInv` is about the life of icons: of each application one icon at most is not on its way out, there
is one exactly when the application was *seen*, a running one is visible and will not be closed, and the
favorites are the sticky applications (`Known`). It needs that nothing sticks while an icon of the same
application leaves: *sticky* would then be said of an application whose icon goes a second later, and
TLC finds *RunningShown* violated (§5).

`OrderInv` says what *StoreOrder* leaves open, the time during a drag: all sticky icons but the dragged
one are in the order of the store; the dragged one was so when the drag began; and the neighbour that
leads back still has before it what it had then. A drag can end in three ways, and each uses another part
of it: dropped at another place, the order is saved (`SaveIconsOrder` writes the store from the icons,
`ResetIconPriorities` the icons from the store, and they must come to the same); dropped where it was,
`InPlace` says that the icons before it are those of the beginning; cancelled, it goes back to its
neighbour. The hypotheses leave out the behaviours of §5 that break the order. They exclude neither
stores, removals, additions and reorders by other programs between drags, nor icons that come, close and
leave during one.

### Edge barriers

- **TypeCorrect**: `Spec => []TypeOK`, for any number of monitors, any threshold and decay, any options
  and subscribers.
- **TimeoutHandedOnHolds**: `Spec => TimeoutHandedOn`, without a hypothesis: of all barriers that share
  the one timeout, it closes only an open one, and no other step leaves a barrier open without it but
  the release of another barrier, or a release for a single event while the timeout runs for another.

The invariant `IInv` is that the timeout holds an open barrier, or none, or one that is gone. It needs to
be an invariant because the timeout outlives resets: a layout that drops its barrier and one that brings
a barrier for the same monitor back must not give the old timeout a new barrier to close. Each handler
(reset, release, push, the event, the timeout) has one lemma, which says that it keeps the types, that the
timeout ends up at an open barrier (`Handled`), and which barriers it can leave open without it
(`LeavesOpen`). Layout, options and subscribers share the lemma of the reset.

### End of the session

- **TypeCorrect**: `Spec => []TypeOK`, for the dialog and for both queues.
- **GrabAlwaysFollowsFade**: `Spec => []GrabFollowsFade`.
- **AlwaysAnswerable**: `Spec => []Answerable`: a question that was not lost in one of the three known
  ways is on its way to the shell, on the screen with the grab, or its answer is on its way back.

`Answerable` is not inductive, for two reasons. It does not say that something is pending while the
dialog is on the screen: without that, a button would hide the dialog and `EnsureCancelPendingAction`
would send nothing. `Held` adds it (`Waits`). And it does not say what the queue to the shell looks like:
a Close could take away a question asked again, and an Open of an older question could be confirmed in
place of the newer one. `LastAsks` (the last Open in the queue is about what gnome-session waits for) and
`AsksAgain` (every Close is followed by an Open) exclude both. There are lemmas for what an Append or a
Tail does to these predicates of a queue, for the view (`Shows`, `Hides`), and for what the manager does
when it gives up what is pending (`Gives`); with them, most actions take a line or two.

### Only model-checked

Liveness (*GrabSettles, HidesInTheEnd, RevealsInTheEnd, PressureDrains, CancelEnds, Serves, Answered,
Releases*), since fairness and ENABLED are beyond the prover.

The switcher where rows stray (*RowsStray* = TRUE): *SelectionValid* and *SelectionKept* are proved for
it, *DetailCurrent* and *RowFollows* do not hold.

`TypeOK` is stated in every component's module; the lock screen's is checked by a run as well, those of
the launcher, the icons, the barriers, the prompt, the session dialog and the overlays are proved only.

## 5. What the models showed

Behaviours the models contain. Those marked † are against a comment or a description of the repository.

**Lock screen**

- A monitor added between `LockScreen()` and the first frame of the fade gets a shield that is never
  shown, with opacity 1.0 (`LockScreenController.cpp:299`), so that `FullyLocked` holds too early.
  `early` excepts such a lock from *SleepsLocked* and *InhibitorCovers*.
- A suspend that begins while an unlock fades out is not preceded by a lock: the prompt lock is refused
  because shields are still there (`:401`).
- `SetupLogin1Proxy` installs the getter of `is_session_active` silently (`GnomeSessionManager.cpp:252`),
  so the inhibitor is not asked for until something else happens.
- Two calls to Inhibit can be in flight; the second answer overwrites the first descriptor
  (`SuspendInhibitorManager.cpp:75-87`), and an Uninhibit before the reply does nothing.
- A regrab may succeed while the screen fades out: `is_locked` goes up for a moment.
- A primary that moves before the first grab succeeded grabs before the controller listens to it
  (`LockScreenController.cpp:207-211`, `233-257`): `is_locked` can stay false with shields up.
- A tick of the blank animation may lower the opacity of a blank window that a prompt lock has made
  opaque (`:161` against `:411`).
- The end of the blank grab gives the primary shield the grab without its `grabbed` signal.
- The end of another program's pointer grab is not reported (`unityshell.cpp:1848` reacts to focus events,
  which X sends for the keyboard only). A shield that has a failure timer gives the lock up when that
  comes due, although the pointer may be free by then. One that has none, because it became the primary
  again or lost the grab to a menu after the first grab, waits until something else ends with such an
  event.

**Password prompt**

- Who locks again within about a second of an unlock can be left with the button to the greeter: the old
  attempt holds the handle until its thread ends, and every start in between fails. Hence `fresh`.
- The guard against a second attempt reads `pam_handle_`, which only the new thread sets
  (`UserAuthenticatorPam.cpp:46`): two quick starts run two threads on one handle.
- An attempt calls the `authenticate_cb_` it was started with, also when that view is gone (`:110`); a
  retry that comes due during the fade starts an attempt for it (`UserPromptView.cpp:494`).
- The end of a cancelled attempt reads `cancelled_` after it gave up the handle; a start in between
  clears it, and the old attempt's end is told to the new view.
- A late `clear_prompts` of an old attempt removes the button to the greeter.

**End of the session**

- The error reply to an older call clears `pending_action_`, whoever it belongs to by then, and runs its
  own fallback (`GnomeSessionManager.cpp:707`).
- A request while the dialog fades out in the same mode is lost (`SessionController.cpp:91`), and so is a
  question that arrives while another action is pending; gnome-session then waits until it gives up.
  Hence `lost`.
- `Canceled` is a signal and can overtake a call that still waits for its proxy (`:419`).
- † An Open of another program that equals the pending action is confirmed without a dialog (`:344`; the
  comment at `:289` says that such a request only informs the clients).
- † A locked session's logout dialog is empty and stays: the early return skips the cancel
  (`SessionView.cpp:220`, comment at `:283`).

**Launcher**

- † A slide interrupted by a quicklist holds the launcher open: only the action state is cancelled, and
  `ResetMouseDragState` then does not clear `VERTICAL_SLIDE_ACTIVE` (`launcher/Launcher.cpp:2608`; the
  comment above it says "Cancel any prior state that was set before the Quicklist appeared.").
- † Slow pressure never decays: `decay_rate` 1 and an `edge_responsiveness` below 1, both allowed by
  `unityshell.xml.in`, make a tick of `76 / 100 = 0` (`launcher/Decaymulator.cpp:40`).
- `REVEAL_PRESSURE_PASS` can still be set when the launcher hides, and reveals it once more
  (`Launcher.cpp:1198`).
- `RecvQuicklistClosed` calls `SetHover(false)` past the hover machine; `OverlayHidden` sets
  `MOUSE_OVER_LAUNCHER` on a hidden launcher; a `CancelDrag` while the icon flies back leaves an action
  with no button pressed; a quicklist that closes during an icon drag leaves `INTERNAL_DND_ACTIVE`.

**Edge barriers**

- † One release timeout serves all barriers: breaking a second barrier stops the timeout of the first,
  which then stays open until it is pushed again, however much later, and lets that push pass too
  (`EdgeBarrierController.cpp:368`; `unityshell.xml.in:412` says the edges are deactivated for some
  milliseconds). *TimeoutHandedOn* says that this is the way in which a barrier is left open. Pressure and break zone
  are shared as well: pushes on two edges add up.
- With barriers taken away by the lock screen (`force_disable`), a timeout of a dropped barrier can leave
  a released one untimed even on one monitor.
- † A barrier's direction stays DOWN when the launcher moves back to the left edge (`:190`; compare
  `test_edge_barrier_controller.cpp:578`).

**Icons and favorites**

- † An application that is pinned while its icon leaves (found by address, still in the model for a
  second) is marked sticky, and nothing takes that back when the icon is gone: opened again, it has no
  icon (`ApplicationLauncherIcon.cpp:520`, `LauncherController.cpp:848`; the comment at
  `ApplicationLauncherIcon.cpp:126` says that "if the application is re-opened while the removal process
  is still ongoing, the application will be shown on the launcher"). *RunningShown* fails with the inputs
  *"stick"*, *"request"*, *"races"*.
- A favorite that another program adds beside the entry for running applications gets no position.
- An external reorder during a drag is overwritten by the drag's end.
- A drag is saved if its icon's index is not the one it began with (`Launcher.cpp:2216`). When icons in
  front of it leave or come back during the drag, an icon that was moved may have its old index again: it
  stays where it was dropped, the store is not told, and the next session shows another order. It takes
  three applications. `InPlace` leaves such ends of a drag out.
- A cancelled drag whose neighbour has left the model goes past the end of the list
  (`Launcher.cpp:2247`).
- `WindowedLauncherIcon.cpp:339` counts with an uninitialised variable.

**Switcher**

- The row of the selected window is kept by the keys of the switcher only. Alt+Shift+`, the mouse on a
  window, a window that opens or closes, and leaving the details by mouse bypass `UpdateRowIndex`; the
  next Up or Down can go past the last window or read `row_sizes_` out of range
  (`SwitcherModel.cpp:516`).
- With no window left in detail mode, the index is taken modulo zero (`:507`).
- Shown again during its 80 ms fade out, the switcher keeps the old view over the old model.
- Windows on another viewport are not refreshed in detail mode.

**Dash and HUD**

- Both may wait for the same grab to end. Then both are shown, and each one's `OVERLAY_SHOWN` hides the
  other: nothing is left.
- A wait outlives what should end it: `HideDash` returns early when the dash is not visible
  (`DashController.cpp:393`), so a dash that was closed while it waited appears up to two seconds later.
- A grab between the plugin's question and the controller's leaves `need_show_` without a timeout
  (`HudController.cpp:355`); the HUD appears whenever some grab ends, or a later call of the plugin's
  slot toggles it away again.
- Activation messages toggle: if the dash was hidden before an ACTIVATE is delivered, it opens again.

## 6. What is not modelled, and the plan

In the modelled parts:

- lock screen: accelerators and key filter, the Kylin variant, D-Bus replies of the screen saver service;
- launcher: scrolling, tooltips, icon animations; `ShowWindow` of its window, which `force_show_window`
  keeps up while the shelf holds an icon (it always holds the trash); the dodge modes, which no option
  offers;
- icons: the two ends of the launcher, volumes and devices, the selection and key navigation, the super
  key's timers, expo, the launcher that follows a drag to another monitor, what a click on an icon does;
- switcher: layout and drawing, priorities that change while it is shown, closing a window from it;
- dash and HUD: monitors that come and go while one is open (the dash then moves without telling
  launchers and panels), expo, everything inside the views;
- end of the session: what logind and ConsoleKit do with the calls of a fallback.

Next, in this order:

1. `LauncherController`: super key, key navigation, drag routing with two launchers; composed with two
   launchers that share a model.
2. `GLibSources` and `DBusProxy`: nicknames, sources removed from their own callback, calls queued until
   connected; the two callbacks of `ScopeProxy`.
3. `InputMonitor`, `GnomeKeyGrabber`, `ThumbnailGenerator`, show desktop and minimised windows, the panel
   service's sync.

Proofs: every safety property of the runs has its theorem. A theorem for *StoreOrder* without *"beside"*
excluded would need the code to give such a favorite a position (§5).

The implementation is large (some 148 000 lines, most of them views, drawing and layout), and the map
covers only its protocol core. Left out for good: rendering, layout, decorations' geometry, accessibility
objects, translations and start-up scripts: no protocol state, or data that no property here would tell
apart.
