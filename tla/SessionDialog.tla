--------------------------- MODULE SessionDialog ---------------------------
(* The dialog that asks whether to log out, restart or shut down:
   shutdown/SessionController.cpp and shutdown/SessionView.cpp over the session
   manager client, with gnome-session and the user around them. *)
EXTENDS GnomeSessionManager, FiniteSets

CONSTANTS CanLock,      \* may the session be locked at all
          CanShutdown,  \* what gnome-session said once
          CanSleep      \* what logind said once

ASSUME DialogAssumption ==
  CanLock \in BOOLEAN /\ CanShutdown \in BOOLEAN /\ CanSleep \subseteq {"SUSPEND", "HIBERNATE"}

Modes == {"FULL", "SHUTDOWN", "LOGOUT"}
ButtonActions == Actions \cup {"LOCK", "SUSPEND", "HIBERNATE"}

VARIABLES view,     \* view_ with its window, its fade and its grab
          locked,   \* is_locked
          asked,    \* external: the question gnome-session waits for an answer to
          lost      \* ghost: that question was ignored, or found the dialog fading out

vars == <<busVars, view, locked, asked, lost>>

Views == [mode : Modes, buttons : SUBSET ButtonActions, cancelIdle : BOOLEAN,
          fade : {"FORWARD", "BACKWARD"}, grabbed : BOOLEAN]
NoView == [mode |-> NONE]

TypeOK ==
  /\ SessionTypeOK
  /\ view \in Views \cup {NoView}
  /\ locked \in BOOLEAN
  /\ asked \in Actions \cup {NONE}
  /\ lost \in BOOLEAN

Init == SessionInit /\ view = NoView /\ locked = FALSE /\ asked = NONE /\ lost = FALSE

-----------------------------------------------------------------------------
(* The view *)

If(cond, actions) == IF cond THEN actions ELSE {}

Buttons(mode) ==
  CASE mode = "LOGOUT"   -> If(CanLock, {"LOCK"}) \cup {"LOGOUT"}
    [] mode = "SHUTDOWN" -> If(CanShutdown /\ ~locked, {"REBOOT", "SHUTDOWN"})
    [] mode = "FULL"     -> If(CanLock /\ ~locked, {"LOCK"}) \cup CanSleep
                            \cup If(~locked, IF CanShutdown THEN {"REBOOT", "SHUTDOWN"} ELSE {"LOGOUT"})

\* Logging out of a locked session has no buttons, and leaves before the idle that
\* cancels an empty dialog is set or reset
PopulateButtons(v, mode) ==
  IF mode = "LOGOUT" /\ locked
  THEN [v EXCEPT !.mode = mode, !.buttons = {}]
  ELSE [v EXCEPT !.mode = mode, !.buttons = Buttons(mode), !.cancelIdle = Buttons(mode) = {}]

\* The setter of mode, and UpdateContents when it changes
SetMode(v, mode) ==
  LET new == IF mode = "SHUTDOWN" /\ (locked \/ ~CanShutdown) THEN "LOGOUT" ELSE mode
  IN IF new = v.mode THEN v ELSE PopulateButtons(v, new)

NewView ==
  PopulateButtons([mode |-> NONE, buttons |-> {}, cancelIdle |-> FALSE, fade |-> "FORWARD", grabbed |-> FALSE], "FULL")

-----------------------------------------------------------------------------
(* The controller *)

EnsureView == IF view = NoView THEN NewView ELSE view

\* Mutant: a dialog that fades out goes on doing so
ShowNoReverse(mode) ==
  view' = IF view # NoView /\ mode = view.mode THEN view
          ELSE [SetMode(EnsureView, mode) EXCEPT !.fade = IF view = NoView THEN "FORWARD" ELSE @, !.grabbed = TRUE]

Show(mode) ==
  view' = IF view # NoView /\ mode = view.mode THEN view
          ELSE [SetMode(EnsureView, mode) EXCEPT !.fade = "FORWARD", !.grabbed = TRUE]

Hide == view' = IF view = NoView THEN view ELSE [view EXCEPT !.fade = "BACKWARD", !.grabbed = FALSE]

CloseWindow ==
  /\ view # NoView /\ view.fade = "BACKWARD"
  /\ view' = NoView
  /\ UNCHANGED <<busVars, locked, asked, lost>>

CancelAndHide == CancelAction /\ Hide

ModeOf == [LOGOUT |-> "LOGOUT", SHUTDOWN |-> "FULL", REBOOT |-> "SHUTDOWN"]

-----------------------------------------------------------------------------
(* What the shell does on its own *)

\* cancel_idle_
CancelIdle ==
  /\ view # NoView /\ view.cancelIdle
  /\ CancelAction
  /\ view' = [view EXCEPT !.cancelIdle = FALSE, !.fade = "BACKWARD", !.grabbed = FALSE]
  /\ UNCHANGED <<locked, asked, lost>>

SendsCall(a) == CallBegin(a) /\ UNCHANGED <<view, locked, asked, lost>>

ReceiveOpen ==
  /\ toShell # <<>>
  /\ \E interactive \in Interactives : LET m == Head(toShell) IN
       \/ /\ OpenAsks(m, interactive)
          /\ Show(ModeOf[m.action])
          /\ lost' = (lost \/ (view # NoView /\ view.mode = ModeOf[m.action] /\ view.fade = "BACKWARD"))
       \/ OpenConfirms(m, interactive) /\ UNCHANGED <<view, lost>>
       \/ OpenIgnored(m, interactive) /\ lost' = TRUE /\ UNCHANGED <<view>>
  /\ UNCHANGED <<locked, asked>>

ReceiveClose == CloseReceived /\ Hide /\ UNCHANGED <<locked, asked, lost>>

ReceiveError ==
  CallFails /\ lost' = (lost \/ asked # NONE) /\ UNCHANGED <<view, locked, asked>>

Receive == ReceiveOpen \/ ReceiveClose \/ ReceiveError

-----------------------------------------------------------------------------
(* The user, and the D-Bus service of SessionDBusManager.cpp *)

\* Bound: how much is on its way before somebody adds to it
Room == Len(toSession) + Len(toShell) + Cardinality(starting) < MaxQueue

\* A button calls the manager, then hides the dialog.  It works while the dialog
\* fades out, too.
Press(b) ==
  /\ Room
  /\ view # NoView /\ b \in view.buttons
  /\ IF b \in Actions THEN Request(b) ELSE DropPending
  /\ Hide
  /\ UNCHANGED <<locked, asked, lost>>

\* A click beside the dialog, its close button, Escape; CancelAction over D-Bus
Cancel == Room /\ CancelAndHide /\ UNCHANGED <<locked, asked, lost>>

\* Logout, Reboot and Shutdown over D-Bus
Command(a) == Room /\ Request(a) /\ UNCHANGED <<view, locked, asked, lost>>

\* RequestLogout, RequestReboot and RequestShutdown over D-Bus: only the dialog
RequestDialog(a) == Room /\ Show(ModeOf[a]) /\ UNCHANGED <<busVars, locked, asked, lost>>

\* LockScreen or PromptLockScreen from elsewhere; OnLockScreenRequested hides the dialog
LockScreen ==
  /\ Room
  /\ DropPending
  /\ IF CanLock \/ locked THEN Hide ELSE UNCHANGED view
  /\ UNCHANGED <<locked, asked, lost>>

\* External: the lock screen controller sets is_locked
LockedChanges ==
  /\ CanLock
  /\ locked' = ~locked
  /\ UNCHANGED <<busVars, view, asked, lost>>

-----------------------------------------------------------------------------
(* External: gnome-session.  It has one question at a time. *)

Asks(a) == asked' = a /\ lost' = FALSE /\ \E i \in BOOLEAN : toShell' = Append(toShell, Open(a, i))

HandleSignal ==
  /\ toSession # <<>> /\ Head(toSession).kind # "Call"
  /\ toSession' = Tail(toSession)
  /\ asked' = IF Head(toSession) \in {Canceled, Confirmed(asked)} THEN NONE ELSE asked
  /\ lost' = (lost /\ asked' # NONE)
  /\ UNCHANGED <<pending, starting, toShell, view, locked>>

\* It asks back, fails, or does without asking
HandleCall ==
  /\ toSession # <<>> /\ Head(toSession).kind = "Call"
  /\ toSession' = Tail(toSession)
  /\ \/ asked = NONE /\ Asks(Head(toSession).action)
     \/ toShell' = Append(toShell, Error(Head(toSession).action)) /\ UNCHANGED <<asked, lost>>
     \/ UNCHANGED <<toShell, asked, lost>>
  /\ UNCHANGED <<pending, starting, view, locked>>

\* Another program wants the session to end, or the inhibitors changed meanwhile
ClientAsks(a) ==
  /\ Room
  /\ asked \in {NONE, a}
  /\ Asks(a)
  /\ UNCHANGED <<pending, starting, toSession, view, locked>>

ClientWithdraws ==
  /\ asked # NONE /\ Room
  /\ asked' = NONE /\ lost' = FALSE
  /\ toShell' = Append(toShell, Close)
  /\ UNCHANGED <<pending, starting, toSession, view, locked>>

-----------------------------------------------------------------------------

Next ==
  \/ CloseWindow \/ CancelIdle \/ (\E a \in Actions : SendsCall(a)) \/ Receive
  \/ (\E b \in ButtonActions : Press(b)) \/ Cancel
  \/ (\E a \in Actions : Command(a) \/ RequestDialog(a) \/ ClientAsks(a))
  \/ LockScreen \/ LockedChanges
  \/ HandleSignal \/ HandleCall \/ ClientWithdraws

Spec == Init /\ [][Next]_vars

\* The main loop runs what is due, gnome-session reads its messages, and a user who
\* sees the dialog answers it.
FairSpec ==
  /\ Spec
  /\ WF_vars(CloseWindow) /\ WF_vars(CancelIdle) /\ WF_vars(Receive)
  /\ \A a \in Actions : WF_vars(SendsCall(a))
  /\ WF_vars(HandleSignal) /\ WF_vars(HandleCall)
  /\ WF_vars(view # NoView /\ view.grabbed /\ ((\E b \in ButtonActions : Press(b)) \/ Cancel))

-----------------------------------------------------------------------------
(* Properties *)

InFlight(kind) == \E i \in 1..Len(toShell) : toShell[i].kind = kind
AnswerInFlight == \E i \in 1..Len(toSession) : toSession[i] \in {Canceled, Confirmed(asked)}

\* While gnome-session waits for an answer that is not on its way, the dialog is on
\* the screen with the grab, unless the question was lost in one of three ways: Open
\* came while another action was pending, or while the dialog was fading out in the
\* same mode (SessionController.cpp:91), or an older call failed and cleared what was
\* pending (GnomeSessionManager.cpp:707).
Answerable ==
  asked # NONE /\ ~InFlight("Open") /\ ~AnswerInFlight =>
    lost \/ (view # NoView /\ view.fade = "FORWARD" /\ view.grabbed)

\* The pointer and the keyboard are never grabbed by a dialog that fades out and will
\* be destroyed without releasing them.
GrabFollowsFade == view # NoView /\ view.grabbed => view.fade = "FORWARD"

\* Every question of gnome-session is answered, or withdrawn, or was lost.
Answered == asked # NONE ~> asked = NONE \/ lost
=============================================================================
