------------------------- MODULE LauncherHideMachine -------------------------
(***************************************************************************)
(* launcher/LauncherHideMachine.cpp: decides whether the launcher of a     *)
(* monitor hides, from a set of quirks.  A decision to show takes effect   *)
(* at once; a decision to hide waits 400 ms, unless the quirk that changed *)
(* skips the delay.  What the machine has decided reaches the launcher     *)
(* from an idle source (should_hide_changed).                              *)
(*                                                                         *)
(* A machine is a record:                                                  *)
(*   mode, quirks  - _mode and _quirks                                     *)
(*   shouldHide    - _should_hide                                          *)
(*   latest        - _latest_emit_should_hide                              *)
(*   delay         - _hide_delay_timeout is pending                        *)
(*   idle          - _hide_changed_emit_idle is pending                    *)
(* The modes DODGE_WINDOWS and DODGE_ACTIVE_WINDOW are dead: Options       *)
(* offers the two others only.                                             *)
(***************************************************************************)

HideModes == {"HIDE_NEVER", "AUTOHIDE"}

VisibleRequired ==
  {"QUICKLIST_OPEN", "EXTERNAL_DND_ACTIVE", "INTERNAL_DND_ACTIVE", "TRIGGER_BUTTON_SHOW",
   "VERTICAL_SLIDE_ACTIVE", "KEY_NAV_ACTIVE", "PLACES_VISIBLE", "SCALE_ACTIVE", "EXPO_ACTIVE",
   "MT_DRAG_OUT", "LAUNCHER_PULSE", "SHORTCUT_KEYS_VISIBLE"}

HideQuirks ==
  VisibleRequired \cup {"LAUNCHER_HIDDEN", "MOUSE_OVER_LAUNCHER", "DND_PUSHED_OFF",
                        "MOUSE_MOVE_POST_REVEAL", "REVEAL_PRESSURE_PASS", "LOCK_HIDE"}

SkipDelayQuirk ==
  {"EXTERNAL_DND_ACTIVE", "DND_PUSHED_OFF", "EXPO_ACTIVE", "SCALE_ACTIVE", "MT_DRAG_OUT", "TRIGGER_BUTTON_SHOW"}

HideMachine ==
  [mode : HideModes, quirks : SUBSET HideQuirks, shouldHide : BOOLEAN, latest : BOOLEAN,
   delay : BOOLEAN, idle : BOOLEAN]

NewHideMachine ==
  [mode |-> "HIDE_NEVER", quirks |-> {}, shouldHide |-> FALSE, latest |-> FALSE,
   delay |-> FALSE, idle |-> FALSE]

-----------------------------------------------------------------------------
\* A second delayed hide restarts the timeout; a show does not cancel it, nor
\* does it need to: EnsureHideState decides again when it fires.
SetShouldHide(h, value, skipDelay) ==
  IF h.shouldHide = value THEN h
  ELSE IF value /\ ~skipDelay THEN [h EXCEPT !.delay = TRUE]
  ELSE [h EXCEPT !.shouldHide = value, !.idle = TRUE]

\* The pointer holds the launcher open only if it moved since the reveal; the
\* pressure on the edge only reveals.
ShouldShowQuirk(h) ==
  VisibleRequired \cup
    (IF "LAUNCHER_HIDDEN" \in h.quirks THEN {"REVEAL_PRESSURE_PASS"}
     ELSE IF "MOUSE_MOVE_POST_REVEAL" \in h.quirks THEN {"MOUSE_OVER_LAUNCHER"}
     ELSE {})

PushedOff(h) == {"EXTERNAL_DND_ACTIVE", "DND_PUSHED_OFF"} \subseteq h.quirks

LockedHidden(h) == h.mode # "HIDE_NEVER" /\ "LOCK_HIDE" \in h.quirks

\* What EnsureHideState decides, delays aside.
WantsHidden(h) ==
  /\ h.mode # "HIDE_NEVER"
  /\ \/ "LOCK_HIDE" \in h.quirks
     \/ PushedOff(h)
     \/ h.quirks \cap ShouldShowQuirk(h) = {} /\ h.mode = "AUTOHIDE"

\* Mutant: the lock waits like any other hide
EnsureHideStateLate(h, skipDelay) == SetShouldHide(h, WantsHidden(h), skipDelay)

EnsureHideState(h, skipDelay) == SetShouldHide(h, WantsHidden(h), skipDelay \/ LockedHidden(h))

SetMode(h, mode) == IF h.mode = mode THEN h ELSE EnsureHideState([h EXCEPT !.mode = mode], TRUE)

\* Mutant: the state is not computed again when a quirk goes away
SetQuirkOneWay(h, quirk, active) ==
  IF (quirk \in h.quirks) = active THEN h
  ELSE IF active THEN EnsureHideState([h EXCEPT !.quirks = @ \cup {quirk}], quirk \in SkipDelayQuirk)
  ELSE [h EXCEPT !.quirks = @ \ {quirk}]

SetQuirk(h, quirk, active) ==
  IF (quirk \in h.quirks) = active THEN h
  ELSE EnsureHideState([h EXCEPT !.quirks = IF active THEN @ \cup {quirk} ELSE @ \ {quirk}],
                       quirk \in SkipDelayQuirk)

\* Mutant: the timeout hides without looking at the quirks again
HideUnchecked(h) == SetShouldHide([h EXCEPT !.delay = FALSE], TRUE, TRUE)

\* Mutant: the timeout waits for another one
HideAgain(h) == EnsureHideState([h EXCEPT !.delay = FALSE], FALSE)

\* The timeout of a delayed hide
HideDelayExpired(h) == EnsureHideState([h EXCEPT !.delay = FALSE], TRUE)

\* EmitShouldHideChanged, up to the emission itself
Emitting(h) == [h EXCEPT !.idle = FALSE, !.latest = h.shouldHide]
=============================================================================
