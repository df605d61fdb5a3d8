--------------------------- MODULE LauncherReveal ----------------------------
(***************************************************************************)
(* The part of launcher/Launcher.cpp that reveals, hides and hovers the    *)
(* launcher of one monitor: every handler that sets a quirk of its hide    *)
(* machine or of its hover machine, and what both machines tell it.        *)
(*                                                                         *)
(* The pointer, the keyboard, the drags and the overlays are the           *)
(* environment: it may act at any moment, so the interleavings with the    *)
(* 400 ms timeout, the idle sources and the frames are all here.  Painting *)
(* is left out, but for the quirk a frame sets.  The launcher's window is  *)
(* never withdrawn while the shelf holds an icon (force_show_window), and  *)
(* it always holds the trash: parent_->ShowWindow is left out.             *)
(***************************************************************************)
EXTENDS Integers, LauncherHideMachine, LauncherHoverMachine

CONSTANTS
  Inputs,          \* the inputs the environment uses
  StartMode,       \* the option launcher_hide_mode when the launcher is created
  RevealPressure,  \* hide_machine_.reveal_pressure
  MaxVelocity,     \* bound: the largest velocity of a barrier event
  DecayRate,       \* the plugin's option decay_rate
  Responsiveness   \* its option edge_responsiveness, in tenths

AllInputs == {"pointer", "barrier", "super", "keynav", "quicklist", "dash", "hud", "views",
              "slide", "icondrag", "dnd", "gesture", "mode"}

ASSUME InputsAssumption == Inputs \subseteq AllInputs
ASSUME ModeAssumption == StartMode \in HideModes
ASSUME PressureAssumption == RevealPressure \in Nat /\ MaxVelocity \in Nat
ASSUME DecayAssumption == DecayRate \in 1 .. 1000 /\ Responsiveness \in 2 .. 80

VARIABLES
  hide,      \* hide_machine_
  hover,     \* hover_machine_
  hidden,    \* hidden_
  hovered,   \* hovered_
  pressure,  \* decaymulator_.value
  decaying,  \* decaymulator_.decay_timer_ is pending
  action,    \* launcher_action_state_
  hud,       \* hud_is_open_
  dnd,       \* [over: an external drag is over the launcher, checked: data_checked_,
             \*  touching: drag_edge_touching_]
  push,      \* dnd_hide_animation_: [running, off: its value is 1]
  window,    \* drag_window_: the icon under the pointer, or flying back to its place
  drag       \* the four finger drag: [ongoing: drag_gesture_ongoing_,
             \*  out: drag_out_delta_x_ reaches what keeps the launcher out]

vars == <<hide, hover, hidden, hovered, pressure, decaying, action, hud, dnd, push, window, drag>>
pressureVars == <<pressure, decaying>>
dragVars == <<action, dnd, push, window, drag>>

Actions == {"NONE", "DRAG_LAUNCHER", "DRAG_ICON", "DRAG_ICON_CANCELLED", "DRAG_EXTERNAL"}
Windows == {"NONE", "DRAGGED", "RETURNING"}
Directions == {"STOPPED", "FORWARD", "BACKWARD"}

TypeOK ==
  /\ hide \in HideMachine
  /\ hover \in HoverMachine
  /\ hidden \in BOOLEAN /\ hovered \in BOOLEAN
  /\ pressure \in 0 .. RevealPressure /\ decaying \in BOOLEAN
  /\ action \in Actions
  /\ hud \in BOOLEAN
  /\ dnd \in [over : BOOLEAN, checked : BOOLEAN, touching : BOOLEAN]
  /\ push \in [running : Directions, off : BOOLEAN]
  /\ window \in Windows
  /\ drag \in [ongoing : BOOLEAN, out : BOOLEAN]

\* CreateLauncher hands the launcher its options: SetHideMode of UpdateOptions
Init ==
  /\ hide = SetMode(NewHideMachine, StartMode)
  /\ hover = NewHoverMachine
  /\ hidden = FALSE /\ hovered = FALSE
  /\ pressure = 0 /\ decaying = FALSE
  /\ action = "NONE"
  /\ hud = FALSE
  /\ dnd = [over |-> FALSE, checked |-> FALSE, touching |-> FALSE]
  /\ push = [running |-> "STOPPED", off |-> FALSE]
  /\ window = "NONE"
  /\ drag = [ongoing |-> FALSE, out |-> FALSE]

-----------------------------------------------------------------------------
(* Helpers of the handlers *)

\* The hide machine after SetStateMouseOverLauncher(over)
MouseOver(h, over) ==
  SetQuirk(SetQuirk(h, "MOUSE_OVER_LAUNCHER", over), "REVEAL_PRESSURE_PASS", FALSE)

\* The hover machine after it
HoverMouseOver(m, over) == SetHoverQuirk(m, "MOUSE_OVER_LAUNCHER", over)

\* The hover machine after SetActionState(state)
InAction(m, state) ==
  IF state = action THEN m ELSE SetHoverQuirk(m, "LAUNCHER_IN_ACTION", state # "NONE")

IsOverlayOpen == hud \/ {"PLACES_VISIBLE", "SCALE_ACTIVE", "EXPO_ACTIVE"} \cap hide.quirks # {}

\* animation::StartOrReverse(dnd_hide_animation_, to): a running animation keeps
\* its value, a stopped one starts from the other end.
StartOrReverse(p, to) ==
  [running |-> to, off |-> IF p.running = "STOPPED" THEN to = "BACKWARD" ELSE p.off]

\* The hide machine after UnsetDndQuirk
DndQuirkUnset(h) ==
  SetQuirk(SetQuirk(h, "MT_DRAG_OUT", drag.out), "EXTERNAL_DND_ACTIVE", FALSE)

-----------------------------------------------------------------------------
(* What the machines decide *)

\* The hide machine after the quirks SetHidden sets
HiddenSet(h, value) ==
  LET moved == SetQuirk(h, "LAUNCHER_HIDDEN", value)
  IN  IF ~value THEN moved
      ELSE MouseOver(SetQuirk(SetQuirk(moved, "MOUSE_MOVE_POST_REVEAL", FALSE), "MT_DRAG_OUT", FALSE), FALSE)

\* The hover machine after them
HoverHiddenSet(m, value) ==
  LET moved == SetHoverQuirk(m, "LAUNCHER_HIDDEN", value)
  IN  IF value THEN HoverMouseOver(moved, FALSE) ELSE moved

\* The launcher was revealed for an external drag: DndReset forgets it.
SetHidden(h, value) ==
  LET reset == ~value /\ action = "DRAG_EXTERNAL"
  IN  /\ hidden' = value
      /\ hide' = HiddenSet(h, value)
      /\ hover' = IF reset THEN InAction(HoverHiddenSet(hover, value), "NONE") ELSE HoverHiddenSet(hover, value)
      /\ action' = IF reset THEN "NONE" ELSE action
      /\ dnd' = [dnd EXCEPT !.touching = @ /\ ~reset]
      /\ UNCHANGED <<hovered, pressureVars, hud, push, window, drag>>

EmitShouldHideChanged ==
  /\ hide.idle
  /\ \/ /\ hide.shouldHide = hide.latest
        /\ hide' = [hide EXCEPT !.idle = FALSE]
        /\ UNCHANGED <<hover, hidden, hovered, pressureVars, dragVars, hud>>
     \/ /\ hide.shouldHide # hide.latest
        /\ SetHidden(Emitting(hide), hide.shouldHide)

HideDelayTimeout ==
  /\ hide.delay
  /\ hide' = HideDelayExpired(hide)
  /\ UNCHANGED <<hover, hidden, hovered, pressureVars, dragVars, hud>>

\* EmitShouldHoverChanged and SetHover
EmitShouldHoverChanged ==
  /\ hover.idle
  /\ hover' = HoverEmitting(hover)
  /\ hovered' = IF hover.shouldHover = hover.latest THEN hovered ELSE hover.shouldHover
  /\ UNCHANGED <<hide, hidden, pressureVars, dragVars, hud>>

-----------------------------------------------------------------------------
(* The pointer *)

RecvMouseEnter ==
  /\ "pointer" \in Inputs /\ ~hidden
  /\ hide' = MouseOver(hide, TRUE)
  /\ hover' = HoverMouseOver(hover, TRUE)
  /\ UNCHANGED <<hidden, hovered, pressureVars, dragVars, hud>>

RecvMouseLeave ==
  /\ "pointer" \in Inputs
  /\ hide' = MouseOver(hide, FALSE)
  /\ hover' = HoverMouseOver(hover, FALSE)
  /\ UNCHANGED <<hidden, hovered, pressureVars, dragVars, hud>>

\* The pointer has left the dead zone of the place where the reveal found it.
UpdateChangeInMousePosition ==
  /\ "pointer" \in Inputs /\ ~hidden
  /\ hide' = SetQuirk(hide, "MOUSE_MOVE_POST_REVEAL", TRUE)
  /\ UNCHANGED <<hover, hidden, hovered, pressureVars, dragVars, hud>>

\* Decaymulator::OnValueChanged
DecayStarted(value) == decaying \/ value > 0

AddRevealPressure(velocity) ==
  LET value == pressure + velocity
  IN  /\ decaying' = DecayStarted(value)
      /\ IF value > RevealPressure
         THEN /\ pressure' = 0
              /\ hide' = SetQuirk(SetQuirk(hide, "REVEAL_PRESSURE_PASS", TRUE), "MOUSE_MOVE_POST_REVEAL", TRUE)
         ELSE pressure' = value /\ hide' = hide

\* The pointer pushes against the barrier where the reveal trigger is, no
\* button pressed, and this is not the first event of the push.
HandleBarrierEvent ==
  /\ "barrier" \in Inputs
  /\ {"EXTERNAL_DND_ACTIVE", "LOCK_HIDE"} \cap hide.quirks = {}
  /\ hidden
  /\ \E velocity \in 1 .. MaxVelocity : AddRevealPressure(velocity)
  /\ UNCHANGED <<hover, hidden, hovered, dragVars, hud>>

\* ConfigureBarrier, with the option as the plugin passes it on: 100 times as
\* large.  The factor 1 + 0.3 (edge_responsiveness - 1) is (70 + 3 tenths) / 100.
EdgeDecayRate == DecayRate * (70 + 3 * Responsiveness)

\* partial_decay, what a tick takes off
PartialDecay == EdgeDecayRate \div 100

\* Mutant: the timer is not kept
OneShotDecay ==
  /\ decaying
  /\ decaying' = FALSE
  /\ pressure' = IF pressure > PartialDecay THEN pressure - PartialDecay ELSE 0
  /\ UNCHANGED <<hide, hover, hidden, hovered, dragVars, hud>>

\* Decaymulator::OnDecayTimeout
OnDecayTimeout ==
  /\ decaying
  /\ decaying' = (pressure > PartialDecay)
  /\ pressure' = IF pressure > PartialDecay THEN pressure - PartialDecay ELSE 0
  /\ UNCHANGED <<hide, hover, hidden, hovered, dragVars, hud>>

-----------------------------------------------------------------------------
(* The keyboard, the quicklists, the dash, the HUD, expo and spread *)

\* ForceReveal (the super key is held) and ShowShortcuts
Super(quirk, active) ==
  /\ "super" \in Inputs
  /\ (quirk \in hide.quirks) # active
  /\ hide' = SetQuirk(hide, quirk, active)
  /\ UNCHANGED <<hover, hidden, hovered, pressureVars, dragVars, hud>>

ForceReveal == \E active \in BOOLEAN : Super("TRIGGER_BUTTON_SHOW", active)
ShowShortcuts == \E active \in BOOLEAN : Super("SHORTCUT_KEYS_VISIBLE", active)

\* EnterKeyNavMode and ExitKeyNavMode
KeyNavMode ==
  /\ "keynav" \in Inputs
  /\ LET active == "KEY_NAV_ACTIVE" \notin hide.quirks
     IN  /\ hide' = SetQuirk(hide, "KEY_NAV_ACTIVE", active)
         /\ hover' = SetHoverQuirk(hover, "KEY_NAV_ACTIVE", active)
  /\ UNCHANGED <<hidden, hovered, pressureVars, dragVars, hud>>

\* By a press of the right button or from the key navigation: a slide of the
\* launcher stops neither.
RecvQuicklistOpened ==
  /\ "quicklist" \in Inputs /\ ~hidden /\ "QUICKLIST_OPEN" \notin hide.quirks
  /\ hide' = SetQuirk(hide, "QUICKLIST_OPEN", TRUE)
  /\ hover' = SetHoverQuirk(hover, "QUICKLIST_OPEN", TRUE)
  /\ UNCHANGED <<hidden, hovered, pressureVars, dragVars, hud>>

\* SetHover(false) is called at once, not through the hover machine.
RecvQuicklistClosed ==
  /\ "QUICKLIST_OPEN" \in hide.quirks
  /\ \E outside \in BOOLEAN :
       LET left == outside /\ "KEY_NAV_ACTIVE" \notin hide.quirks
       IN  /\ hovered' = (hovered /\ ~left)
           /\ hide' = SetQuirk(IF left THEN MouseOver(hide, FALSE) ELSE hide, "QUICKLIST_OPEN", FALSE)
           /\ hover' = SetHoverQuirk(InAction(IF left THEN HoverMouseOver(hover, FALSE) ELSE hover, "NONE"),
                                     "QUICKLIST_OPEN", FALSE)
  /\ action' = "NONE"
  /\ UNCHANGED <<hidden, pressureVars, dnd, push, window, drag, hud>>

\* OnOverlayShown of the dash on this monitor
DashShown ==
  /\ "dash" \in Inputs
  /\ hide' = SetQuirk(hide, "PLACES_VISIBLE", TRUE)
  /\ hover' = SetHoverQuirk(hover, "PLACES_VISIBLE", TRUE)
  /\ UNCHANGED <<hidden, hovered, pressureVars, dragVars, hud>>

HudShown ==
  /\ "hud" \in Inputs
  /\ hud' = TRUE
  /\ UNCHANGED <<hide, hover, hidden, hovered, pressureVars, dragVars>>

\* OnOverlayHidden: wherever the overlay was, the launcher asks where the
\* pointer is, even when it is hidden itself.
OverlayHidden(overlay) ==
  \E inside \in BOOLEAN :
    /\ hide' = MouseOver(IF overlay = "dash" THEN SetQuirk(hide, "PLACES_VISIBLE", FALSE) ELSE hide, inside)
    /\ hover' = HoverMouseOver(IF overlay = "dash" THEN SetHoverQuirk(hover, "PLACES_VISIBLE", FALSE) ELSE hover,
                               inside)
    /\ hud' = (hud /\ overlay # "hud")
    /\ UNCHANGED <<hidden, hovered, pressureVars, dragVars>>

DashHidden == "PLACES_VISIBLE" \in hide.quirks /\ OverlayHidden("dash")
HudHidden == hud /\ OverlayHidden("hud")
OverlayHiddenElsewhere == "dash" \in Inputs /\ OverlayHidden("other monitor")

\* The HUD sends the messages when it shows and hides.
OnLockHideChanged ==
  /\ "hud" \in Inputs
  /\ hide' = SetQuirk(hide, "LOCK_HIDE", "LOCK_HIDE" \notin hide.quirks)
  /\ UNCHANGED <<hover, hidden, hovered, pressureVars, dragVars, hud>>

\* OnExpoChanged and OnSpreadChanged
ViewChanged ==
  /\ "views" \in Inputs
  /\ \E quirk \in {"EXPO_ACTIVE", "SCALE_ACTIVE"} : hide' = SetQuirk(hide, quirk, quirk \notin hide.quirks)
  /\ UNCHANGED <<hover, hidden, hovered, pressureVars, dragVars, hud>>

SetHideMode ==
  /\ "mode" \in Inputs
  /\ \E mode \in HideModes : hide' = SetMode(hide, mode)
  /\ UNCHANGED <<hover, hidden, hovered, pressureVars, dragVars, hud>>

-----------------------------------------------------------------------------
(* Drags of the launcher and of its icons *)

\* RecvMouseDrag beyond the dead zone, along the launcher or across it; an open
\* quicklist has the pointer grab.
SlideLauncher ==
  /\ "slide" \in Inputs
  /\ action = "NONE" /\ ~dnd.over /\ "QUICKLIST_OPEN" \notin hide.quirks
  /\ action' = "DRAG_LAUNCHER"
  /\ hide' = SetQuirk(hide, "VERTICAL_SLIDE_ACTIVE", TRUE)
  /\ hover' = InAction(hover, "DRAG_LAUNCHER")
  /\ UNCHANGED <<hidden, hovered, pressureVars, dnd, push, window, drag, hud>>

\* HideDragWindow tells the launcher that the pointer has entered it, when the
\* pointer is inside, even if the launcher is hidden.
Entered(h, inside) == IF inside THEN MouseOver(h, TRUE) ELSE h
HoverEntered(m, inside) == IF inside THEN HoverMouseOver(m, TRUE) ELSE m

StartIconDrag ==
  /\ "icondrag" \in Inputs
  /\ action = "NONE" /\ ~dnd.over /\ "QUICKLIST_OPEN" \notin hide.quirks
  /\ action' = "DRAG_ICON"
  /\ window' = "DRAGGED"
  /\ \E inside \in BOOLEAN :
       /\ hide' = Entered(SetQuirk(hide, "INTERNAL_DND_ACTIVE", TRUE), inside)
       /\ hover' = HoverEntered(InAction(hover, "DRAG_ICON"), inside)
  /\ UNCHANGED <<hidden, hovered, pressureVars, dnd, push, drag, hud>>

\* StartIconDragRequest where there is no icon, or one that cannot be moved
DragRefused ==
  /\ "icondrag" \in Inputs
  /\ action = "NONE" /\ ~dnd.over /\ "QUICKLIST_OPEN" \notin hide.quirks
  /\ window' = "NONE"
  /\ \E inside \in BOOLEAN : hide' = Entered(hide, inside) /\ hover' = HoverEntered(hover, inside)
  /\ UNCHANGED <<hidden, hovered, pressureVars, action, dnd, push, drag, hud>>

\* EndIconDrag: over the trash the icon goes away, elsewhere it flies back.
EndIconDrag(trashed, inside) ==
  /\ hide' = SetQuirk(Entered(hide, trashed /\ inside), "INTERNAL_DND_ACTIVE", FALSE)
  /\ window' = IF window = "NONE" \/ trashed THEN "NONE" ELSE "RETURNING"

\* RecvMouseUp: ResetMouseDragState
RecvMouseUp ==
  /\ action \in {"DRAG_LAUNCHER", "DRAG_ICON", "DRAG_ICON_CANCELLED"}
  /\ action' = "NONE"
  /\ \/ /\ action = "DRAG_ICON"
        /\ \E trashed, inside \in BOOLEAN :
             /\ trashed => window # "NONE"
             /\ EndIconDrag(trashed, inside)
             /\ hover' = InAction(HoverEntered(hover, trashed /\ inside), "NONE")
     \/ /\ action # "DRAG_ICON"
        /\ hide' = IF action = "DRAG_LAUNCHER" THEN SetQuirk(hide, "VERTICAL_SLIDE_ACTIVE", FALSE) ELSE hide
        /\ hover' = InAction(hover, "NONE")
        /\ window' = window
  /\ UNCHANGED <<hidden, hovered, pressureVars, dnd, push, drag, hud>>

\* drag_cancel_request: Escape, or some window that is mapped or unmapped, be
\* it while the icon is already flying back.
CancelDrag ==
  /\ window # "NONE"
  /\ \/ action = "DRAG_ICON" /\ EndIconDrag(FALSE, FALSE)
     \/ /\ action # "DRAG_ICON"
        /\ hide' = IF action = "DRAG_LAUNCHER" THEN SetQuirk(hide, "VERTICAL_SLIDE_ACTIVE", FALSE) ELSE hide
        /\ window' = window
  /\ action' = "DRAG_ICON_CANCELLED"
  /\ hover' = SetHoverQuirk(InAction(hover, "NONE"), "LAUNCHER_IN_ACTION", TRUE)
  /\ UNCHANGED <<hidden, hovered, pressureVars, dnd, push, drag, hud>>

\* The icon is back at its place.
OnDragWindowAnimCompleted ==
  /\ window = "RETURNING"
  /\ window' = "NONE"
  /\ \E inside \in BOOLEAN : hide' = Entered(hide, inside) /\ hover' = HoverEntered(hover, inside)
  /\ UNCHANGED <<hidden, hovered, pressureVars, action, dnd, push, drag, hud>>

-----------------------------------------------------------------------------
(* External drags.  DndStarted, DndFinished and UnsetDndQuirk come from the   *)
(* XdndManager, which collects the drag's data first; the others come from    *)
(* the launcher's own window.                                                 *)

DndStarted ==
  /\ "dnd" \in Inputs /\ action \notin {"DRAG_LAUNCHER", "DRAG_ICON"}
  /\ hide' = SetQuirk(hide, "EXTERNAL_DND_ACTIVE", TRUE)
  /\ UNCHANGED <<hover, hidden, hovered, pressureVars, dragVars, hud>>

\* The drag goes to another monitor.
UnsetDndQuirk ==
  /\ "EXTERNAL_DND_ACTIVE" \in hide.quirks
  /\ hide' = DndQuirkUnset(hide)
  /\ push' = [running |-> "STOPPED", off |-> FALSE]
  /\ UNCHANGED <<hover, hidden, hovered, pressureVars, action, dnd, window, drag, hud>>

DndFinished ==
  /\ "EXTERNAL_DND_ACTIVE" \in hide.quirks
  /\ hide' = DndQuirkUnset(hide)
  /\ hover' = InAction(hover, "NONE")
  /\ action' = "NONE"
  /\ dnd' = [dnd EXCEPT !.checked = FALSE, !.touching = FALSE]
  /\ push' = [running |-> "STOPPED", off |-> FALSE]
  /\ UNCHANGED <<hidden, hovered, pressureVars, window, drag, hud>>

ProcessDndEnter ==
  /\ "dnd" \in Inputs /\ ~dnd.over /\ action \notin {"DRAG_LAUNCHER", "DRAG_ICON"}
  /\ hide' = MouseOver(hide, TRUE)
  /\ hover' = HoverMouseOver(hover, TRUE)
  /\ dnd' = [over |-> TRUE, checked |-> FALSE, touching |-> FALSE]
  /\ push' = [push EXCEPT !.running = "STOPPED"]
  /\ UNCHANGED <<hidden, hovered, pressureVars, action, window, drag, hud>>

\* The first move asks for the data; then the edge of the screen pushes the
\* launcher away, and the drag brings it back by leaving the edge.
ProcessDndMove ==
  /\ dnd.over
  /\ hide' = IF dnd.checked THEN hide ELSE MouseOver(hide, TRUE)
  /\ hover' = IF dnd.checked THEN hover ELSE HoverMouseOver(InAction(hover, "DRAG_EXTERNAL"), TRUE)
  /\ action' = IF dnd.checked THEN action ELSE "DRAG_EXTERNAL"
  /\ \/ dnd' = [dnd EXCEPT !.checked = TRUE] /\ push' = push
     \/ /\ hide.mode # "HIDE_NEVER" /\ ~IsOverlayOpen /\ ~dnd.touching
        /\ dnd' = [dnd EXCEPT !.checked = TRUE, !.touching = TRUE]
        /\ push' = StartOrReverse(push, "FORWARD")
     \/ /\ hide.mode # "HIDE_NEVER" /\ dnd.touching
        /\ dnd' = [dnd EXCEPT !.checked = TRUE, !.touching = FALSE]
        /\ push' = StartOrReverse(push, "BACKWARD")
  /\ UNCHANGED <<hidden, hovered, pressureVars, window, drag, hud>>

ProcessDndLeave ==
  /\ dnd.over
  /\ hide' = MouseOver(hide, FALSE)
  /\ hover' = InAction(HoverMouseOver(hover, FALSE), "NONE")
  /\ action' = "NONE"
  /\ dnd' = [dnd EXCEPT !.over = FALSE, !.touching = FALSE]
  /\ UNCHANGED <<hidden, hovered, pressureVars, push, window, drag, hud>>

ProcessDndDrop ==
  /\ dnd.over
  /\ hover' = InAction(hover, "NONE")
  /\ action' = "NONE"
  /\ dnd' = [dnd EXCEPT !.over = FALSE, !.touching = FALSE]
  /\ UNCHANGED <<hide, hidden, hovered, pressureVars, push, window, drag, hud>>

\* dnd_hide_animation_ completes.
PushAnimated ==
  /\ push.running # "STOPPED"
  /\ push' = [running |-> "STOPPED", off |-> push.running = "FORWARD"]
  /\ UNCHANGED <<hide, hover, hidden, hovered, pressureVars, action, dnd, window, drag, hud>>

\* The launcher is painted (RenderArgs).
Frame ==
  /\ hide.mode # "HIDE_NEVER"
  /\ hide' = SetQuirk(hide, "DND_PUSHED_OFF", push.off)
  /\ UNCHANGED <<hover, hidden, hovered, pressureVars, dragVars, hud>>

-----------------------------------------------------------------------------
(* The four finger drag *)

OnDragStart ==
  /\ "gesture" \in Inputs /\ ~drag.ongoing
  /\ drag' = [ongoing |-> TRUE, out |-> ~hidden]
  /\ hide' = IF hidden THEN hide ELSE SetQuirk(hide, "MT_DRAG_OUT", FALSE)
  /\ UNCHANGED <<hover, hidden, hovered, pressureVars, action, dnd, push, window, hud>>

OnDragUpdate ==
  /\ drag.ongoing
  /\ hide.mode = "AUTOHIDE" /\ ~IsOverlayOpen
  /\ \E out \in BOOLEAN : drag' = [drag EXCEPT !.out = out]
  /\ UNCHANGED <<hide, hover, hidden, hovered, pressureVars, action, dnd, push, window, hud>>

OnDragFinish ==
  /\ drag.ongoing
  /\ drag' = [drag EXCEPT !.ongoing = FALSE]
  /\ hide' = IF drag.out THEN SetQuirk(hide, "MT_DRAG_OUT", TRUE) ELSE hide
  /\ UNCHANGED <<hover, hidden, hovered, pressureVars, action, dnd, push, window, hud>>

-----------------------------------------------------------------------------
Machines == EmitShouldHideChanged \/ HideDelayTimeout \/ EmitShouldHoverChanged
Pointer == RecvMouseEnter \/ RecvMouseLeave \/ UpdateChangeInMousePosition \/ HandleBarrierEvent \/ OnDecayTimeout
Views ==
  \/ ForceReveal \/ ShowShortcuts \/ KeyNavMode \/ RecvQuicklistOpened \/ RecvQuicklistClosed
  \/ DashShown \/ DashHidden \/ HudShown \/ HudHidden \/ OverlayHiddenElsewhere \/ OnLockHideChanged \/ ViewChanged \/ SetHideMode
Drags ==
  \/ SlideLauncher \/ StartIconDrag \/ DragRefused \/ RecvMouseUp \/ CancelDrag \/ OnDragWindowAnimCompleted
  \/ DndStarted \/ UnsetDndQuirk \/ DndFinished
  \/ ProcessDndEnter \/ ProcessDndMove \/ ProcessDndLeave \/ ProcessDndDrop \/ PushAnimated \/ Frame
  \/ OnDragStart \/ OnDragUpdate \/ OnDragFinish

Next == Machines \/ Pointer \/ Views \/ Drags
Spec == Init /\ [][Next]_vars

\* The GLib main loop runs the sources of the hide machine and of the pressure
\* that are due.  The liveness properties need no more than these.
Fairness == WF_vars(EmitShouldHideChanged) /\ WF_vars(HideDelayTimeout) /\ WF_vars(OnDecayTimeout)
FairSpec == Spec /\ Fairness

-----------------------------------------------------------------------------
(* Properties *)

\* What the hide machine has decided is what its quirks ask for: it never keeps
\* a decision to hide that a quirk has since forbidden, a hide it owes is waiting
\* in its timeout, and a decision the launcher has not heard of is in its idle
\* source (SetShouldHide, EnsureHideState, EmitShouldHideChanged, SetHidden).
DecisionIsCurrent ==
  /\ hide.shouldHide => WantsHidden(hide)
  /\ WantsHidden(hide) /\ ~hide.shouldHide => hide.delay
  /\ hide.shouldHide # hide.latest => hide.idle
  /\ hidden = hide.latest
  /\ hidden = ("LAUNCHER_HIDDEN" \in hide.quirks)

\* The launcher hides only when nothing holds it open at that very moment, a
\* drag has pushed it off or the HUD locks it out: the quirk may have come after
\* the timeout was started or the idle source was queued.
HidesOnlyUnheld ==
  [][~hidden /\ hidden' =>
       /\ hide.mode # "HIDE_NEVER"
       /\ LockedHidden(hide) \/ PushedOff(hide) \/ hide.quirks \cap ShouldShowQuirk(hide) = {}]_vars

\* No reveal, not even one that was queued before the lock came, brings the
\* launcher up while the HUD locks it out.
LockHideWins == [][hidden /\ ~hidden' => ~LockedHidden(hide)]_vars

\* Once the hover machine has spoken, a hidden launcher is not hovered, whatever
\* set the pointer, drag and quicklist quirks while it was hidden.
NoHoverWhileHidden == hidden /\ ~hover.idle => ~hovered

\* No pressure is kept without the timer that takes it off (Decaymulator).
PressureDecays == pressure > 0 => decaying

\* Liveness: a launcher that nothing holds hides and stays hidden, one that
\* something holds shows and stays.
HidesInTheEnd == <>[]WantsHidden(hide) => <>[]hidden
RevealsInTheEnd == <>[]~WantsHidden(hide) => <>[]~hidden

\* "The rate at which mouse pressure decays" (unityshell.xml.in:394): when the
\* pointer stops pushing, the pressure goes away, so that pushes far apart in
\* time do not add up to a reveal.
PressureDrains == <>[][~HandleBarrierEvent]_vars => <>[](pressure = 0)
=============================================================================
