-------------------------- MODULE LockScreenUngrabs --------------------------
(***************************************************************************)
(* The lock screen with what its window manager is told of the grabs of    *)
(* others.  screen_ungrabbed is emitted when a focus event with the mode   *)
(* NotifyUngrab is read: X sends one to the focus window at the end of a   *)
(* grab of the keyboard, and none at the end of one of the pointer.  A     *)
(* shield that waits for a pointer grab has only its failure timer.        *)
(***************************************************************************)
EXTENDS LockScreenProperties

VARIABLE told  \* the event at the end of a keyboard grab is in the X queue

allVars == <<ls, power, proxies, guarded, told>>

GrabInit == Init /\ told = FALSE

KeyboardUngrabs ==
  /\ ForeignUngrabs
  /\ told' = (told \/ ls.foreignGrab = "keyboard")

\* The event is read, and every shield that waits tries again
UngrabRead == UngrabNotified /\ told' = FALSE

\* It is read while no shield waits
UngrabUnheard ==
  /\ told
  /\ ls.regrab = {}
  /\ told' = FALSE
  /\ UNCHANGED vars

Others == DBus \/ Policy \/ Requests \/ Timers \/ Painting \/ UserInput \/ ForeignGrabs \/ Suspending

GrabNext == KeyboardUngrabs \/ UngrabRead \/ UngrabUnheard \/ (Others /\ UNCHANGED told)

(***************************************************************************)
(* The main loop reads the events that X has sent, and runs the failure    *)
(* timer of each shield.  The second is the weak fairness of               *)
(* GrabTimerFires for one shield, spelled out: the timer is due until it   *)
(* has run, or success or the shield's end has stopped it.  Nothing is     *)
(* asked of other programs: they may keep what they grabbed.               *)
(***************************************************************************)
EventIsRead == Running /\ told /\ ls.regrab # {} /\ told' = FALSE

GrabFairness ==
  /\ WF_told(EventIsRead)
  /\ \A i \in Monitors : []<>(i \notin ls.failTimer \/ ~Running)

GrabSpec == GrabInit /\ [][GrabNext]_allVars /\ GrabFairness

-----------------------------------------------------------------------------
Waits(i) == Phase = "locked" /\ ls.primary = i /\ i \notin ls.grabs /\ ls.panels = {}

\* The lock is to be given up if it gets no grab
Armed(i) == i \in ls.failTimer /\ ~ls.isLocked

\* The keyboard is free again, and the shield will hear of it
Hears == told /\ ls.foreignGrab = "none"

\* LockScreenBaseShield.cpp:112: a primary shield without the grab that has been
\* promised an answer gets one, while menus, monitors, and grabs come and go: it has the
\* grab, or lost its role, or the lock is given up.  A failure timer is such a promise
\* whatever others hold; the end of a keyboard grab is one until somebody grabs again.
GrabSettles ==
  \A i \in Monitors :
    Waits(i) /\ (Armed(i) \/ Hears) ~> ~Waits(i) \/ (ls.foreignGrab # "none" /\ ~Armed(i))
=============================================================================
