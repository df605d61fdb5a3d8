-------------------------- MODULE LockScreenShield --------------------------
(***************************************************************************)
(* lockscreen/LockScreenBaseShield.cpp and LockScreenShield.cpp: the       *)
(* shields, one full-screen window per monitor, and the input grab.        *)
(*                                                                         *)
(* Every operator takes the state `s' of the lock screen (the record       *)
(* LockState of LockScreenController) and returns the state after the call *)
(* and after the signal handlers the call runs: Unity's main loop is one   *)
(* thread and sigc signals are synchronous.                                *)
(*                                                                         *)
(* Shields are numbered like their monitors, 1..s.shields; None is the     *)
(* invalid weak pointer.  A shield's boolean attributes are sets:          *)
(*   shown     - ShowWindow(true) was called                               *)
(*   opaque    - GetOpacity() == 1.0                                       *)
(*   built     - primary_layout_ exists: it has been primary once          *)
(*   regrab    - regrab_conn_ waits for WindowManager::screen_ungrabbed    *)
(*   failTimer - regrab_timeout_ is pending                                *)
(*   panels    - its panel is active: an indicator menu is open            *)
(* grabs is the set of windows in nux's grab stack (pointer and keyboard   *)
(* are taken and dropped together); the order matters to no decision of    *)
(* the code.  foreignGrab: what another X client, or a compiz plugin, has  *)
(* grabbed: "none", "keyboard" (with or without the pointer) or "pointer"  *)
(* (only that one: a drag).                                                *)
(***************************************************************************)
EXTENDS Integers, FiniteSets

CONSTANT MaxMonitors

ASSUME MaxMonitorsAssumption == MaxMonitors \in Nat \ {0}

Monitors  == 1..MaxMonitors
None      == 0            \* no shield
BlankArea == 0            \* the blank window, as an entry of grabs

\* Mutant: indices as in the C++ vector
ShieldsFromZero(s) == 0..s.shields

ShieldsOf(s) == 1..s.shields

-----------------------------------------------------------------------------
(* nux: the X grab succeeds unless somebody else has it.                   *)

CanGrab(s) == s.grabs # {} \/ s.foreignGrab = "none"

GrabAdd(s, area) == IF CanGrab(s) THEN [s EXCEPT !.grabs = @ \cup {area}] ELSE s

UnGrab(s, areas) == [s EXCEPT !.grabs = @ \ areas]

-----------------------------------------------------------------------------
\* Mutant: a grab that fails is not tried again on screen_ungrabbed
GrabScreenOnce(s, i, cancelOnFailure) ==
  IF CanGrab(s)
  THEN [GrabAdd(s, i) EXCEPT !.regrab = @ \ {i}, !.failTimer = @ \ {i}, !.isLocked = @ \/ s.conn = i]
  ELSE [s EXCEPT !.failTimer = IF cancelOnFailure THEN @ \cup {i} ELSE @]

\* `grabbed' reaches session_manager_->is_locked only through the connection
\* that the controller keeps to one shield (s.conn).
GrabScreen(s, i, cancelOnFailure) ==
  IF CanGrab(s)
  THEN [GrabAdd(s, i) EXCEPT !.regrab    = @ \ {i},
                             !.failTimer = @ \ {i},
                             !.isLocked  = @ \/ s.conn = i]
  ELSE [s EXCEPT !.regrab    = @ \cup {i},
                 !.failTimer = IF cancelOnFailure THEN @ \cup {i} ELSE @]

ShowPrimaryView(s, i) ==
  IF i \in s.built
  THEN GrabScreen(s, i, FALSE)
  ELSE GrabScreen([s EXCEPT !.built = @ \cup {i}], i, TRUE)

\* Mutant: the regrab connection outlives the primary role
DemoteStillWaiting(s, i) == s

\* primary.changed(false): the regrab is given up, the grab itself is not.
Demote(s, i) == [s EXCEPT !.regrab = @ \ {i}]

\* primary.changed(true)
Promote(s, i) == ShowPrimaryView(Demote(s, i), i)

\* The menu of an indicator needs the grab while it is open.  active.changed
\* of a panel that is not the primary's does nothing.
PanelActive(s, i) ==
  LET opened == [s EXCEPT !.panels = @ \cup {i}]
  IN  IF i = s.primary THEN UnGrab(Demote(opened, i), {i}) ELSE opened

\* Mutant: the grab lent to the menu is not taken back
PanelInactiveNoGrab(s, i) == [s EXCEPT !.panels = @ \ {i}]

PanelInactive(s, i) ==
  LET closed == [s EXCEPT !.panels = @ \ {i}]
  IN  IF i = s.primary THEN GrabScreen(closed, i, FALSE) ELSE closed

\* WindowManager::screen_ungrabbed, with one waiting shield
ScreenUngrabbed(s) ==
  LET i == CHOOSE j \in s.regrab : TRUE
  IN  IF s.regrab = {} THEN s ELSE GrabScreen(s, i, FALSE)

\* The destructors of the shields gone: their timeouts, connections and
\* grabs go with them, and weak pointers to them become invalid.
DestroyShields(s, gone) ==
  [s EXCEPT !.shown = @ \ gone, !.opaque = @ \ gone, !.built = @ \ gone,
            !.regrab = @ \ gone, !.failTimer = @ \ gone, !.panels = @ \ gone,
            !.grabs = @ \ gone,
            !.primary = IF @ \in gone THEN None ELSE @,
            !.conn = IF @ \in gone THEN None ELSE @]
=============================================================================
