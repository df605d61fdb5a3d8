------------------------- MODULE LauncherHoverMachine ------------------------
(***************************************************************************)
(* launcher/LauncherHoverMachine.cpp: decides whether the launcher is      *)
(* hovered, which unfolds it and makes it react to the pointer.  A machine *)
(* is a record: quirks, shouldHover (_should_hover), latest                *)
(* (_latest_emit_should_hover) and idle (_hover_changed_emit_idle is       *)
(* pending).                                                               *)
(***************************************************************************)

HoldsHover == {"MOUSE_OVER_LAUNCHER", "MOUSE_OVER_BFB", "KEY_NAV_ACTIVE", "QUICKLIST_OPEN", "LAUNCHER_IN_ACTION"}

HoverQuirks == HoldsHover \cup {"LAUNCHER_HIDDEN", "PLACES_VISIBLE"}

HoverMachine == [quirks : SUBSET HoverQuirks, shouldHover : BOOLEAN, latest : BOOLEAN, idle : BOOLEAN]

NewHoverMachine == [quirks |-> {}, shouldHover |-> FALSE, latest |-> FALSE, idle |-> FALSE]

WantsHover(m) == "LAUNCHER_HIDDEN" \notin m.quirks /\ m.quirks \cap HoldsHover # {}

\* Mutant: a hidden launcher is hovered like any other
EnsureHoverStateAlways(m) == [m EXCEPT !.shouldHover = m.quirks \cap HoldsHover # {}, !.idle = TRUE]

EnsureHoverState(m) == [m EXCEPT !.shouldHover = WantsHover(m), !.idle = TRUE]

SetHoverQuirk(m, quirk, active) ==
  IF (quirk \in m.quirks) = active THEN m
  ELSE EnsureHoverState([m EXCEPT !.quirks = IF active THEN @ \cup {quirk} ELSE @ \ {quirk}])

\* EmitShouldHoverChanged, up to the emission itself
HoverEmitting(m) == [m EXCEPT !.idle = FALSE, !.latest = m.shouldHover]
=============================================================================
