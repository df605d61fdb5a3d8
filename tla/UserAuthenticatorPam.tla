------------------------- MODULE UserAuthenticatorPam ------------------------
(***************************************************************************)
(* lockscreen/UserAuthenticatorPam.cpp: every attempt to authenticate the  *)
(* user is a thread that runs pam_authenticate.  The thread and the main   *)
(* loop share pam_handle_, cancelled_, first_prompt_ and status_ with no   *)
(* lock; what the thread has to say is posted to the main loop.            *)
(*                                                                         *)
(* External: the PAM modules, which may converse as they like, succeed or  *)
(* fail; one call of the conversation asks one question or shows one       *)
(* message.                                                                *)
(***************************************************************************)
EXTENDS Integers, Sequences

CONSTANTS
  MaxThreads,  \* bound: threads that are alive or whose prompts are shown
  MaxRounds,   \* bound: calls of the conversation function in one attempt
  MaxPosted,   \* bound: what is posted and not run yet, threads wait before they post more
  Overlap      \* whether an attempt may be started before the thread of another has called
               \* pam_start.  Both then write one pam_handle_ and each uses what the other has
               \* freed: nothing can be said of what comes after it.

ASSUME ThreadsAssumption == MaxThreads \in Nat \ {0} /\ MaxRounds \in Nat /\ MaxPosted \in Nat \ {0, 1} /\ Overlap \in BOOLEAN

Threads == 1 .. MaxThreads
NoHandle == 0

VARIABLES
  pc,         \* where each thread is
  round,      \* the calls of the conversation function a thread has had
  account,    \* pam_authenticate has succeeded, the account is being checked
  answered,   \* the threads whose promise has its value
  handle,     \* pam_handle_: the thread that made it
  cancelled,  \* cancelled_
  first,      \* first_prompt_
  status,     \* status_ is PAM_SUCCESS
  posted      \* the timeouts of source_manager_ the main loop has yet to run

threadVars == <<pc, round, account, answered, handle, first, status>>
authVars == <<threadVars, cancelled, posted>>

Places == {"NONE", "INIT", "PAM", "WAITING", "ENDED"}
Posts == [kind : {"clear_prompts", "requested", "message", "start_failed", "authenticated"}, thread : Threads]

AuthTypeOK ==
  /\ pc \in [Threads -> Places]
  /\ round \in [Threads -> 0 .. MaxRounds]
  /\ account \in [Threads -> BOOLEAN]
  /\ answered \subseteq Threads
  /\ handle \in Threads \cup {NoHandle}
  /\ cancelled \in BOOLEAN /\ first \in BOOLEAN /\ status \in BOOLEAN
  /\ posted \in Seq(Posts)

AuthInit ==
  /\ pc = [t \in Threads |-> "NONE"]
  /\ round = [t \in Threads |-> 0]
  /\ account = [t \in Threads |-> FALSE]
  /\ answered = {}
  /\ handle = NoHandle
  /\ cancelled = FALSE /\ first = TRUE
  /\ status = TRUE  \* 0 is PAM_SUCCESS
  /\ posted = <<>>

-----------------------------------------------------------------------------
(* What the main loop calls *)

Alive(t) == pc[t] # "NONE"

\* The starts that the model follows, see Overlap
Followed == Overlap \/ \A t \in Threads : pc[t] # "INIT"

\* AuthenticateStart once it has found no handle: a new thread, when the system
\* has one to give.  A thread that is gone may have left a prompt on the screen
\* (shown), its number is then not used again.  What is posted is the caller's.
AuthenticateStart(shown, started) ==
  /\ cancelled' = FALSE
  /\ first' = TRUE
  /\ IF started
     THEN \E t \in Threads \ shown :
            /\ pc[t] = "NONE"
            /\ \A u \in 1 .. t - 1 : pc[u] # "NONE" \/ u \in shown
            /\ pc' = [pc EXCEPT ![t] = "INIT"]
            /\ answered' = answered \ {t}
     ELSE UNCHANGED <<pc, answered>>
  /\ UNCHANGED <<round, account, handle, status>>

\* AuthenticateCancel: what cancelled_ becomes
AuthenticateCancel == cancelled \/ handle # NoHandle

-----------------------------------------------------------------------------
(* The thread *)

Post(t, kinds) ==
  /\ Len(posted) + Len(kinds) <= MaxPosted
  /\ posted' = posted \o [i \in DOMAIN kinds |-> [kind |-> kinds[i], thread |-> t]]

InitPam(t) ==
  /\ pc[t] = "INIT"
  /\ \/ /\ handle' = t
        /\ pc' = [pc EXCEPT ![t] = "PAM"]
        /\ UNCHANGED posted
     \/ /\ handle' = NoHandle
        /\ pc' = [pc EXCEPT ![t] = "NONE"]
        /\ Post(t, <<"start_failed">>)
  /\ UNCHANGED <<round, account, answered, cancelled, first, status>>

\* ConversationFunction: a question is asked of the user and waited for, a
\* message is only shown.
Conversation(t, kind) ==
  /\ pc[t] = "PAM" /\ round[t] < MaxRounds
  /\ round' = [round EXCEPT ![t] = @ + 1]
  /\ Post(t, IF first THEN <<kind>> ELSE <<"clear_prompts", kind>>)
  /\ first' = FALSE
  /\ pc' = [pc EXCEPT ![t] = IF kind = "requested" THEN "WAITING" ELSE "PAM"]
  /\ UNCHANGED <<account, answered, handle, cancelled, status>>

\* Mutant: a failure does not replace the success of an attempt before it
EndSticky(t, success) ==
  /\ status' = (status \/ success)
  /\ handle' = NoHandle
  /\ pc' = [pc EXCEPT ![t] = "ENDED"]
  /\ round' = [round EXCEPT ![t] = 0]
  /\ account' = [account EXCEPT ![t] = FALSE]
  /\ UNCHANGED <<cancelled, first, posted>>

\* pam_end: the handle is given up before cancelled_ is looked at.
End(t, success) ==
  /\ status' = success
  /\ handle' = NoHandle
  /\ pc' = [pc EXCEPT ![t] = "ENDED"]
  /\ round' = [round EXCEPT ![t] = 0]
  /\ account' = [account EXCEPT ![t] = FALSE]
  /\ UNCHANGED <<cancelled, first, posted>>

\* Mutant: the wait for an answer is not given up
AwaitsAnswer(t) == pc[t] = "WAITING" /\ t \in answered

\* The future has its value, or one of the waits of a second ends cancelled.  The
\* conversation returns an answer or an error; what PAM makes of either is its own.
HasAnswer(t) == pc[t] = "WAITING" /\ (t \in answered \/ cancelled)

Resumes(t) ==
  /\ HasAnswer(t)
  /\ pc' = [pc EXCEPT ![t] = "PAM"]
  /\ answered' = answered \ {t}
  /\ UNCHANGED <<round, account, handle, cancelled, first, status, posted>>

\* pam_authenticate returns; pam_acct_mgmt and pam_chauthtok follow a success, and a
\* setting decides whether what they say counts.
AuthenticateReturns(t) ==
  /\ pc[t] = "PAM" /\ ~account[t]
  /\ \/ End(t, FALSE)
     \/ /\ account' = [account EXCEPT ![t] = TRUE]
        /\ status' = TRUE
        /\ UNCHANGED <<pc, round, handle, cancelled, first, posted>>
  /\ UNCHANGED answered

AccountReturns(t) ==
  /\ pc[t] = "PAM" /\ account[t]
  /\ \E success \in BOOLEAN : End(t, success)
  /\ UNCHANGED answered

Finish(t) ==
  /\ pc[t] = "ENDED"
  /\ pc' = [pc EXCEPT ![t] = "NONE"]
  /\ IF cancelled THEN UNCHANGED posted ELSE Post(t, <<"authenticated">>)
  /\ UNCHANGED <<round, account, answered, handle, cancelled, first, status>>

\* The thread goes on by itself; what the modules ask of the user is up to them.
Runs(t) == InitPam(t) \/ Resumes(t) \/ AuthenticateReturns(t) \/ AccountReturns(t) \/ Finish(t)
Converses(t) == \E kind \in {"requested", "message"} : Conversation(t, kind)
=============================================================================
