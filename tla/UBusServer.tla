----------------------------- MODULE UBusServer -----------------------------
(* unity-shared/UBusServer.cpp: the messages of the shell to itself.  They wait in a
   queue per priority, and an idle source per priority delivers all that wait at once. *)
EXTENDS Sequences

Priorities == {"HIGH", "DEFAULT", "LOW"}

\* The priorities that go before this one
Before == [HIGH |-> {}, DEFAULT |-> {"HIGH"}, LOW |-> {"HIGH", "DEFAULT"}]

NoMessages == [p \in Priorities |-> <<>>]

SendMessageFull(queue, message, p) == [queue EXCEPT ![p] = Append(@, message)]

\* The main loop runs the source of p
Due(queue, p) == queue[p] # <<>> /\ \A q \in Before[p] : queue[q] = <<>>

\* DispatchMessages: what its handlers send waits for the next time
Rest(queue, p) == [queue EXCEPT ![p] = <<>>]
=============================================================================
