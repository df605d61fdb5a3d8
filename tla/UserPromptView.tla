---------------------------- MODULE UserPromptView ---------------------------
(***************************************************************************)
(* lockscreen/UserPromptView.cpp: the view of the lock screen that asks    *)
(* for the password, with the authenticator it drives and the part of the  *)
(* lock screen controller that makes the view, cancels the attempt on an   *)
(* unlock and destroys the view when the screen has faded out.             *)
(***************************************************************************)
EXTENDS UserAuthenticatorPam

CONSTANT MaxRetries  \* the failures to start that are retried (5)

ASSUME RetriesAssumption == MaxRetries \in Nat

VARIABLES
  view,    \* the view, see Views
  bound,   \* authenticate_cb_ is bound to this view, not to one that is gone
  fresh,   \* not in the code: no attempt was left over when the view was made
  proved   \* not in the code: an attempt has succeeded since the last fresh view was made

histories == <<fresh, proved>>

vars == <<authVars, view, bound, histories>>

\* state: the shields are down, up or fading out.  prompts: the threads whose
\* questions are on the screen, not answered yet.  retrying: the retries that wait
\* for their 100 ms.
Views ==
  [state : {"NONE", "SHOWN", "FADING"}, prompted : BOOLEAN, unacknowledged : BOOLEAN,
   retries : 0 .. MaxRetries + 1, retrying : 0 .. MaxRetries, prompts : SUBSET Threads,
   buttons : SUBSET {"Unlock", "Retry", "Greeter"}]

NoView ==
  [state |-> "NONE", prompted |-> FALSE, unacknowledged |-> FALSE, retries |-> 0, retrying |-> 0,
   prompts |-> {}, buttons |-> {}]

TypeOK == AuthTypeOK /\ view \in Views /\ bound \in BOOLEAN /\ fresh \in BOOLEAN /\ proved \in BOOLEAN

Init == AuthInit /\ view = NoView /\ bound = FALSE /\ fresh = FALSE /\ proved = FALSE

-----------------------------------------------------------------------------
(* The methods of the view *)

ResetLayout(v) == [v EXCEPT !.prompts = {}, !.buttons = {}]

\* Mutant: the last failure leaves the user with nothing
StartFailureSilent(v) ==
  IF v.retries < MaxRetries THEN [v EXCEPT !.retries = @ + 1, !.retrying = IF @ < MaxRetries THEN @ + 1 ELSE @] ELSE v

\* HandleAuthenticationStartFailure; num_retry_auth_ is capped where its values are
\* not told apart any more.  More than MaxRetries can only wait after an unlock has
\* reset the counter, during the fade: those are not counted.
StartFailure(v) ==
  IF v.retries < MaxRetries
  THEN [v EXCEPT !.retries = @ + 1, !.retrying = IF @ < MaxRetries THEN @ + 1 ELSE @]
  ELSE [v EXCEPT !.retries = MaxRetries + 1, !.buttons = @ \cup {"Greeter"}]

\* AuthenticateStart refuses while there is a handle, before it touches anything.
StartAuthentication(v) ==
  LET reset == [v EXCEPT !.prompted = FALSE, !.unacknowledged = FALSE]
  IN  /\ Followed
      /\ \/ /\ handle = NoHandle
            /\ bound' = TRUE
            /\ \E started \in BOOLEAN :
                 /\ AuthenticateStart(v.prompts, started)
                 /\ view' = IF started THEN reset ELSE StartFailure(reset)
         \/ /\ handle # NoHandle
            /\ view' = StartFailure(reset)
            /\ UNCHANGED <<threadVars, cancelled, bound>>

ShowAuthenticated(v, button) ==
  [v EXCEPT !.prompted = TRUE, !.unacknowledged = FALSE, !.buttons = @ \cup {button}]

\* Controller::OnUnlockRequested, whoever asks: the shields fade out, the attempt is
\* cancelled.  DoUnlock then resets the counter of its view.
Unlocked(v) == IF v.state = "SHOWN" THEN [v EXCEPT !.state = "FADING"] ELSE v

DoUnlock(v) ==
  /\ view' = [Unlocked(v) EXCEPT !.retries = 0]
  /\ cancelled' = AuthenticateCancel
  /\ UNCHANGED <<threadVars, bound, histories>>

\* AuthenticationCb; posted is the caller's here as well.
AuthenticationCb(authenticated) ==
  LET v == ResetLayout(view)
  IN  \/ /\ authenticated /\ v.prompted /\ ~v.unacknowledged
         /\ DoUnlock(v)
      \/ /\ ~authenticated /\ v.prompted
         /\ StartAuthentication(v)
         /\ UNCHANGED histories
      \/ /\ IF authenticated THEN ~v.prompted \/ v.unacknowledged ELSE ~v.prompted
         /\ view' = ShowAuthenticated(v, IF authenticated THEN "Unlock" ELSE "Retry")
         /\ UNCHANGED <<threadVars, cancelled, bound, histories>>

-----------------------------------------------------------------------------
(* What the main loop runs *)

\* A lock raises the shields, the view is made and starts an attempt.
Lock ==
  /\ view.state = "NONE"
  /\ StartAuthentication([NoView EXCEPT !.state = "SHOWN"])
  /\ fresh' = (posted = <<>> /\ \A t \in Threads : ~Alive(t))
  /\ proved' = (proved /\ ~fresh')
  /\ UNCHANGED posted

UnlockRequested ==
  /\ view' = Unlocked(view)
  /\ cancelled' = AuthenticateCancel
  /\ UNCHANGED <<threadVars, posted, bound, histories>>

\* The end of the fade: the shields go, the view and its timeouts with them.
FadeEnds ==
  /\ view.state = "FADING"
  /\ view' = NoView
  /\ bound' = FALSE
  /\ UNCHANGED <<authVars, histories>>

Retry ==
  /\ view.retrying > 0
  /\ StartAuthentication([view EXCEPT !.retrying = @ - 1])
  /\ UNCHANGED <<posted, histories>>

\* The signals of the authenticator.  With no view nobody listens to them, and a
\* callback bound to a view that is gone is undefined: the model goes on without it.
Deliver ==
  /\ posted # <<>>
  /\ posted' = Tail(posted)
  /\ LET p == Head(posted)
         Told(v) == view' = v /\ UNCHANGED <<threadVars, cancelled, bound, histories>>
     IN  IF view.state = "NONE" THEN Told(view)
         ELSE CASE p.kind = "clear_prompts" -> Told(ResetLayout(view))
                [] p.kind = "requested" ->
                     Told([view EXCEPT !.prompted = TRUE, !.unacknowledged = FALSE, !.prompts = @ \cup {p.thread}])
                [] p.kind = "message" -> Told([view EXCEPT !.unacknowledged = TRUE])
                [] p.kind = "start_failed" -> Told(StartFailure(view))
                [] p.kind = "authenticated" -> IF bound THEN AuthenticationCb(status) ELSE Told(view)

-----------------------------------------------------------------------------
(* The user *)

\* An entry is activated: it takes no more input, the promise has its value.
Answer(t) ==
  /\ view.state # "NONE" /\ t \in view.prompts
  /\ view' = [view EXCEPT !.prompts = @ \ {t}]
  /\ answered' = answered \cup {t}
  /\ UNCHANGED <<pc, round, account, handle, cancelled, first, status, posted, bound, histories>>

\* Buttons stay where they are until the layout is reset.
PressUnlock ==
  /\ "Unlock" \in view.buttons
  /\ DoUnlock(view)
  /\ UNCHANGED posted

PressRetry ==
  /\ "Retry" \in view.buttons
  /\ StartAuthentication(view)
  /\ UNCHANGED <<posted, histories>>

-----------------------------------------------------------------------------
(* The thread, seen by the view *)

ThreadRuns(t) ==
  /\ Runs(t)
  /\ proved' = (proved \/ (account'[t] /\ ~account[t]))
  /\ UNCHANGED <<view, bound, fresh>>

ThreadConverses(t) == Converses(t) /\ UNCHANGED <<view, bound, histories>>

MainLoop == Lock \/ UnlockRequested \/ FadeEnds \/ Retry \/ Deliver \/ PressUnlock \/ PressRetry

Next ==
  \/ MainLoop
  \/ \E t \in Threads : Answer(t) \/ ThreadRuns(t) \/ ThreadConverses(t)

Spec == Init /\ [][Next]_vars

\* Timeouts that are due run, animations end, threads get on.  Neither that the
\* modules of PAM ask anything nor that the user does is assumed.
Fairness ==
  /\ WF_vars(FadeEnds) /\ WF_vars(Retry) /\ WF_vars(Deliver)
  /\ \A t \in Threads : WF_vars(ThreadRuns(t))

FairSpec == Spec /\ Fairness

-----------------------------------------------------------------------------
(* Properties *)

\* Something is on the screen that the user can act on.
Offered == view.prompts # {} \/ view.buttons # {}

\* Something will come that changes the screen by itself.
Coming ==
  \/ view.retrying > 0
  \/ posted # <<>>
  \/ \E t \in Threads : pc[t] \in {"INIT", "PAM", "ENDED"} \/ HasAnswer(t)

\* The user is never left at a lock screen that offers nothing and waits for nothing:
\* every path of a failed, cancelled or superseded attempt leaves a prompt, a button,
\* a retry or a running attempt behind, unless an attempt of an earlier view was still
\* running (UserPromptView.cpp:281, 476, 494).
NeverStranded == view.state = "SHOWN" /\ fresh => Offered \/ Coming

\* The view unlocks the session only on a success of PAM since it was made, unless an
\* attempt was left over from a view before it, though status_ and the callback are
\* shared by all attempts and status_ starts as PAM_SUCCESS
\* (UserAuthenticatorPam.cpp:91, 106-110).
UnlocksProved ==
  [][(Deliver \/ PressUnlock) /\ view.state = "SHOWN" /\ view'.state = "FADING" => proved]_vars

\* An attempt that was cancelled while it had its handle gives it up, whatever it
\* waits for, unless another attempt is started on the same authenticator
\* (UserAuthenticatorPam.cpp:70, 215).
CancelEnds == cancelled /\ handle # NoHandle ~> handle = NoHandle \/ ~cancelled

\* Whoever looks at a lock screen is offered a prompt, a button, or the session.
Serves == view.state = "SHOWN" /\ fresh ~> Offered \/ view.state # "SHOWN"
=============================================================================
