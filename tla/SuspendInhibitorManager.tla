----------------------- MODULE SuspendInhibitorManager -----------------------
(***************************************************************************)
(* lockscreen/SuspendInhibitorManager.cpp: Unity's side of logind's        *)
(* "delay" inhibitor.  The manager keeps one file descriptor               *)
(* (inhibitor_handler_); as long as a descriptor handed out by logind is   *)
(* open in the process, logind delays the suspend.  The call that obtains  *)
(* one is asynchronous, and the manager keeps no record of the calls it    *)
(* has in flight.                                                          *)
(*                                                                         *)
(* A manager is a record:                                                  *)
(*   held   - inhibitor_handler_ >= 0                                      *)
(*   calls  - Inhibit calls sent whose reply has not been dispatched       *)
(*   leaked - a descriptor was overwritten: it is open and unreachable     *)
(***************************************************************************)
EXTENDS Naturals

InhibitorType == [held : BOOLEAN, calls : Nat, leaked : BOOLEAN]

NoInhibitor == [held |-> FALSE, calls |-> 0, leaked |-> FALSE]

\* The early return on IsInhibited(), otherwise one more asynchronous call.
Inhibit(m) == IF m.held THEN m ELSE [m EXCEPT !.calls = @ + 1]

\* close() of the descriptor that is held; a call in flight is not affected.
Uninhibit(m) == [m EXCEPT !.held = FALSE]

\* The reply of logind: the descriptor overwrites the one that may be held.
InhibitReply(m) == [held |-> TRUE, calls |-> m.calls - 1, leaked |-> m.leaked \/ m.held]

\* The error reply, logged and otherwise ignored.
InhibitFailed(m) == [m EXCEPT !.calls = @ - 1]

\* What logind sees: some descriptor of this process is open.
Delaying(m) == m.held \/ m.leaked
=============================================================================
