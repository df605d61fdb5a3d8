------------------------ MODULE GnomeSessionManager ------------------------
(* UnityCore/GnomeSessionManager.cpp: how the shell asks gnome-session to end the
   session, and answers when gnome-session asks the shell.  Signals and calls to
   gnome-session travel in order on one connection, and so do its Open and Close
   calls and its error replies to us.  A call waits first for a proxy of its own
   (CallGnomeSessionMethod), which signals do not.

   Abstracted: the inhibitors are there or not; successful replies do nothing; the
   logind and ConsoleKit calls of a fallback leave the model. *)
EXTENDS Naturals, Sequences

CONSTANTS Interactives,  \* the values "show dialogs" may have, a subset of BOOLEAN
          MaxQueue       \* bound: messages on their way, before someone adds more

ASSUME SessionAssumption == Interactives \subseteq BOOLEAN /\ MaxQueue \in Nat \ {0}

Actions == {"LOGOUT", "SHUTDOWN", "REBOOT"}
NONE == "NONE"

VARIABLES pending,    \* pending_action_
          starting,   \* the calls that wait for their proxy
          toSession,  \* calls and signals on their way to gnome-session
          toShell     \* calls and error replies on their way to the shell

busVars == <<pending, starting, toSession, toShell>>

Call(a)      == [kind |-> "Call", action |-> a]
Confirmed(a) == [kind |-> "Confirmed", action |-> a]
Canceled     == [kind |-> "Canceled", action |-> NONE]
Closed       == [kind |-> "Closed", action |-> NONE]
Open(a, inhibited) == [kind |-> "Open", action |-> a, inhibited |-> inhibited]
Close        == [kind |-> "Close", action |-> NONE, inhibited |-> FALSE]
Error(a)     == [kind |-> "Error", action |-> a, inhibited |-> FALSE]

ToSession == {Call(a) : a \in Actions} \cup {Confirmed(a) : a \in Actions} \cup {Canceled, Closed}
ToShell   == {Open(a, i) : a \in Actions, i \in BOOLEAN} \cup {Error(a) : a \in Actions} \cup {Close}

SessionTypeOK ==
  /\ pending \in Actions \cup {NONE}
  /\ starting \subseteq Actions
  /\ toSession \in Seq(ToSession)
  /\ toShell \in Seq(ToShell)

SessionInit == pending = NONE /\ starting = {} /\ toSession = <<>> /\ toShell = <<>>

-----------------------------------------------------------------------------

Emit(signals) == toSession' = toSession \o signals

CancelAction == pending' = NONE /\ Emit(<<Canceled>>) /\ UNCHANGED <<starting, toShell>>

\* Mutant: the new action just replaces the old one
ForgetPendingAction == <<>>

EnsureCancelPendingAction == IF pending = NONE THEN <<>> ELSE <<Canceled>>

\* Suspend, Hibernate and LockScreen only give up what is pending
DropPending ==
  IF pending = NONE THEN UNCHANGED busVars ELSE CancelAction

\* Logout, Reboot and Shutdown.  A second call of the same method whose proxy is
\* being created is not modelled.
Request(a) ==
  /\ a \notin starting
  /\ Emit(EnsureCancelPendingAction)
  /\ pending' = a
  /\ starting' = starting \cup {a}
  /\ UNCHANGED toShell

\* The proxy is there: the call is sent
CallBegin(a) ==
  /\ a \in starting
  /\ starting' = starting \ {a}
  /\ Emit(<<Call(a)>>)
  /\ UNCHANGED <<pending, toShell>>

Receives(kind) == toShell # <<>> /\ Head(toShell).kind = kind /\ toShell' = Tail(toShell)

\* The method failed: the action is asked of logind instead, whatever is pending by now
CallFails ==
  /\ Receives("Error")
  /\ pending' = NONE
  /\ UNCHANGED <<starting, toSession>>

\* Open makes the action of an uninhibited request its own if dialogs are not wanted
PendingOnOpen(m, interactive) ==
  IF pending = NONE /\ ~interactive /\ ~m.inhibited THEN m.action ELSE pending

\* Mutant: gnome-session is not told to give up a request without inhibitors
OpenAsksForgets(m, interactive) ==
  /\ Receives("Open")
  /\ PendingOnOpen(m, interactive) = NONE
  /\ pending' = IF m.inhibited THEN m.action ELSE NONE
  /\ Emit(<<>>)
  /\ UNCHANGED starting

\* Nothing is pending: the clients are told and a dialog opens; with inhibitors
\* gnome-session waits for the answer, without them it is told to give up
OpenAsks(m, interactive) ==
  /\ Receives("Open")
  /\ PendingOnOpen(m, interactive) = NONE
  /\ pending' = IF m.inhibited THEN m.action ELSE NONE
  /\ Emit(IF m.inhibited THEN <<>> ELSE <<Canceled>>)
  /\ UNCHANGED starting

\* The action is pending already: it is taken for the echo of our own call
OpenConfirms(m, interactive) ==
  /\ Receives("Open")
  /\ PendingOnOpen(m, interactive) = m.action
  /\ pending' = NONE
  /\ Emit(<<Confirmed(m.action), Closed>>)
  /\ UNCHANGED starting

\* Another action is pending: nothing is said
OpenIgnored(m, interactive) ==
  /\ Receives("Open")
  /\ PendingOnOpen(m, interactive) \notin {NONE, m.action}
  /\ UNCHANGED <<pending, starting, toSession>>

\* Close; the dialog hides, pending_action_ stays
CloseReceived ==
  /\ Receives("Close")
  /\ Emit(<<Closed>>)
  /\ UNCHANGED <<pending, starting>>
=============================================================================
