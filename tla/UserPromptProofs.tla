-------------------------- MODULE UserPromptProofs --------------------------
(* What holds of the authentication of the user for every number of threads, of calls of
   the conversation function and of retries: its types, that only a success of PAM
   unlocks the session, and that who looks at a lock screen is never left with nothing
   to do or to wait for. *)
EXTENDS UserPromptView, TLAPS

-----------------------------------------------------------------------------
(* What is posted to the main loop *)

LEMMA PostOne ==
  ASSUME posted \in Seq(Posts), NEW t \in Threads, NEW k \in {"clear_prompts", "requested", "message", "start_failed", "authenticated"},
         Post(t, <<k>>)
  PROVE  /\ posted' \in Seq(Posts) /\ Len(posted') = Len(posted) + 1
         /\ \A i \in 1..Len(posted) : posted'[i] = posted[i]
         /\ posted'[Len(posted) + 1].kind = k /\ posted'[Len(posted) + 1].thread = t
<1> DEFINE p == [kind |-> k, thread |-> t]
           q == [i \in DOMAIN <<k>> |-> [kind |-> <<k>>[i], thread |-> t]]
<1>1. p \in Posts /\ p.kind = k /\ p.thread = t
  BY DEF Posts
<1>2. q = <<p>>
  OBVIOUS
<1>3. posted' = posted \o <<p>>
  BY <1>2 DEF Post
<1> HIDE DEF p, q
<1> QED BY <1>1, <1>3

LEMMA PostTwo ==
  ASSUME posted \in Seq(Posts), NEW t \in Threads, NEW k \in {"requested", "message"},
         Post(t, <<"clear_prompts", k>>)
  PROVE  /\ posted' \in Seq(Posts) /\ Len(posted') = Len(posted) + 2
         /\ \A i \in 1..Len(posted) : posted'[i] = posted[i]
         /\ posted'[Len(posted) + 1].kind = "clear_prompts" /\ posted'[Len(posted) + 1].thread = t
         /\ posted'[Len(posted) + 2].kind = k /\ posted'[Len(posted) + 2].thread = t
<1> DEFINE p == [kind |-> "clear_prompts", thread |-> t]
           r == [kind |-> k, thread |-> t]
           kinds == <<"clear_prompts", k>>
           q == [i \in DOMAIN kinds |-> [kind |-> kinds[i], thread |-> t]]
<1>1. /\ p \in Posts /\ p.kind = "clear_prompts" /\ p.thread = t
      /\ r \in Posts /\ r.kind = k /\ r.thread = t
  BY DEF Posts
<1>2. q = <<p, r>>
  OBVIOUS
<1>3. posted' = posted \o <<p, r>>
  BY <1>2 DEF Post
<1> HIDE DEF p, q, r
<1> QED BY <1>1, <1>3

LEMMA TailPosted ==
  ASSUME posted \in Seq(Posts), posted # <<>>, posted' = Tail(posted)
  PROVE  /\ posted' \in Seq(Posts) /\ Len(posted') = Len(posted) - 1 /\ Len(posted) \in Nat \ {0}
         /\ \A i \in 1..Len(posted') : posted'[i] = posted[i + 1]
         /\ Head(posted) = posted[1] /\ Head(posted) \in Posts
  OBVIOUS

-----------------------------------------------------------------------------
(* The methods of the view keep it a view *)

LEMMA ViewFields ==
  ASSUME NEW v \in Views
  PROVE  /\ v.state \in {"NONE", "SHOWN", "FADING"} /\ v.prompted \in BOOLEAN /\ v.unacknowledged \in BOOLEAN
         /\ v.retries \in 0..MaxRetries + 1 /\ v.retrying \in 0..MaxRetries
         /\ v.prompts \subseteq Threads /\ v.buttons \subseteq {"Unlock", "Retry", "Greeter"}
  BY DEF Views

LEMMA StartFailureFacts ==
  ASSUME NEW v \in Views
  PROVE  /\ StartFailure(v) \in Views
         /\ StartFailure(v).state = v.state /\ StartFailure(v).prompts = v.prompts
         /\ "Unlock" \in StartFailure(v).buttons <=> "Unlock" \in v.buttons
         /\ StartFailure(v).retrying > 0 \/ StartFailure(v).buttons # {}
<1>1. v.retries \in 0..MaxRetries + 1 /\ v.retrying \in 0..MaxRetries /\ MaxRetries \in Nat
  BY RetriesAssumption DEF Views
<1>2. CASE v.retries < MaxRetries
  <2> DEFINE n == v.retries + 1
             m == IF v.retrying < MaxRetries THEN v.retrying + 1 ELSE v.retrying
  <2>1. n \in 0..MaxRetries + 1 /\ m \in 0..MaxRetries /\ m > 0
    BY <1>1, <1>2
  <2>2. StartFailure(v) = [v EXCEPT !.retries = n, !.retrying = m]
    BY <1>2 DEF StartFailure
  <2> HIDE DEF n, m
  <2> QED BY <2>1, <2>2 DEF Views
<1>3. CASE ~(v.retries < MaxRetries)
  <2> DEFINE n == MaxRetries + 1
             b == v.buttons \cup {"Greeter"}
  <2>1. n \in 0..MaxRetries + 1
    BY <1>1
  <2>2. b \subseteq {"Unlock", "Retry", "Greeter"} /\ b # {} /\ ("Unlock" \in b <=> "Unlock" \in v.buttons)
    BY DEF Views
  <2>3. StartFailure(v) = [v EXCEPT !.retries = n, !.buttons = b]
    BY <1>3 DEF StartFailure
  <2> HIDE DEF n, b
  <2> QED BY <2>1, <2>2, <2>3 DEF Views
<1> QED BY <1>2, <1>3

LEMMA StartTypes ==
  ASSUME TypeOK, NEW v \in Views, StartAuthentication(v)
  PROVE  /\ view' \in Views /\ bound' \in BOOLEAN /\ pc' \in [Threads -> Places]
         /\ answered' \subseteq Threads /\ cancelled' \in BOOLEAN /\ first' \in BOOLEAN
         /\ UNCHANGED <<round, account, handle, status>>
         /\ \A t \in Threads : pc'[t] = pc[t] \/ (pc[t] = "NONE" /\ pc'[t] = "INIT")
         /\ view'.state = v.state /\ ("Unlock" \in view'.buttons <=> "Unlock" \in v.buttons)
<1> DEFINE reset == [v EXCEPT !.prompted = FALSE, !.unacknowledged = FALSE]
<1>1. reset \in Views /\ reset.state = v.state /\ reset.buttons = v.buttons
  BY DEF Views
<1>2. /\ StartFailure(reset) \in Views /\ StartFailure(reset).state = v.state
      /\ "Unlock" \in StartFailure(reset).buttons <=> "Unlock" \in v.buttons
  BY <1>1, StartFailureFacts
<1>3. ASSUME NEW started \in BOOLEAN, AuthenticateStart(v.prompts, started)
      PROVE  /\ pc' \in [Threads -> Places] /\ answered' \subseteq Threads /\ cancelled' \in BOOLEAN /\ first' \in BOOLEAN
             /\ UNCHANGED <<round, account, handle, status>>
             /\ \A t \in Threads : pc'[t] = pc[t] \/ (pc[t] = "NONE" /\ pc'[t] = "INIT")
  BY <1>3 DEF AuthenticateStart, TypeOK, AuthTypeOK, Places
<1> HIDE DEF reset
<1>4. CASE handle # NoHandle
  BY <1>2, <1>4 DEF StartAuthentication, TypeOK, AuthTypeOK, threadVars, reset
<1>5. ASSUME NEW started \in BOOLEAN, AuthenticateStart(v.prompts, started), bound' = TRUE,
             view' = IF started THEN reset ELSE StartFailure(reset)
      PROVE  /\ view' \in Views /\ bound' \in BOOLEAN
             /\ view'.state = v.state /\ ("Unlock" \in view'.buttons <=> "Unlock" \in v.buttons)
  BY <1>1, <1>2, <1>5
<1> QED BY <1>3, <1>4, <1>5 DEF StartAuthentication, reset

LEMMA ViewUpdates ==
  ASSUME NEW v \in Views
  PROVE  /\ ResetLayout(v) \in Views /\ Unlocked(v) \in Views /\ [Unlocked(v) EXCEPT !.retries = 0] \in Views
         /\ ShowAuthenticated(v, "Unlock") \in Views /\ ShowAuthenticated(v, "Retry") \in Views
         /\ [v EXCEPT !.unacknowledged = TRUE] \in Views
         /\ \A t \in Threads :
              /\ [v EXCEPT !.prompted = TRUE, !.unacknowledged = FALSE, !.prompts = @ \cup {t}] \in Views
              /\ [v EXCEPT !.prompts = @ \ {t}] \in Views
         /\ v.retrying > 0 => [v EXCEPT !.retrying = @ - 1] \in Views
<1>1. MaxRetries \in Nat
  BY RetriesAssumption
<1>2. ResetLayout(v) \in Views /\ [v EXCEPT !.unacknowledged = TRUE] \in Views
  BY DEF ResetLayout, Views
<1>3. Unlocked(v) \in Views
  BY DEF Unlocked, Views
<1>4. \A w \in Views : [w EXCEPT !.retries = 0] \in Views
  BY <1>1 DEF Views
<1>5. ShowAuthenticated(v, "Unlock") \in Views /\ ShowAuthenticated(v, "Retry") \in Views
  <2>1. \A b \in {"Unlock", "Retry"} : v.buttons \cup {b} \in SUBSET {"Unlock", "Retry", "Greeter"}
    BY DEF Views
  <2> QED BY <2>1 DEF ShowAuthenticated, Views
<1>6. ASSUME NEW t \in Threads
      PROVE  /\ [v EXCEPT !.prompted = TRUE, !.unacknowledged = FALSE, !.prompts = @ \cup {t}] \in Views
             /\ [v EXCEPT !.prompts = @ \ {t}] \in Views
  <2>1. v.prompts \cup {t} \in SUBSET Threads /\ v.prompts \ {t} \in SUBSET Threads
    BY DEF Views
  <2> QED BY <2>1 DEF Views
<1>7. ASSUME v.retrying > 0 PROVE [v EXCEPT !.retrying = @ - 1] \in Views
  <2>1. v.retrying - 1 \in 0..MaxRetries
    BY <1>1, <1>7 DEF Views
  <2> QED BY <2>1 DEF Views
<1> QED BY <1>2, <1>3, <1>4, <1>5, <1>6, <1>7

LEMMA NoViewIsView ==
  NoView \in Views /\ [NoView EXCEPT !.state = "SHOWN"] \in Views
<1>1. 0 \in 0..MaxRetries + 1 /\ 0 \in 0..MaxRetries
  BY RetriesAssumption
<1> QED BY <1>1 DEF NoView, Views

-----------------------------------------------------------------------------
(* Types *)

LEMMA CallbackTypes ==
  ASSUME TypeOK, NEW authenticated \in BOOLEAN, AuthenticationCb(authenticated)
  PROVE  /\ view' \in Views /\ bound' \in BOOLEAN /\ pc' \in [Threads -> Places]
         /\ answered' \subseteq Threads /\ cancelled' \in BOOLEAN /\ first' \in BOOLEAN
         /\ UNCHANGED <<round, account, handle, status, histories>>
<1> DEFINE v == ResetLayout(view)
<1>1. v \in Views
  BY ViewUpdates DEF TypeOK
<1> HIDE DEF v
<1>2. CASE DoUnlock(v)
  BY <1>1, <1>2, ViewUpdates DEF DoUnlock, AuthenticateCancel, TypeOK, AuthTypeOK, threadVars, histories
<1>3. CASE StartAuthentication(v) /\ UNCHANGED histories
  BY <1>1, <1>3, StartTypes
<1>4. CASE \E b \in {"Unlock", "Retry"} : view' = ShowAuthenticated(v, b) /\ UNCHANGED <<threadVars, cancelled, bound, histories>>
  BY <1>1, <1>4, ViewUpdates DEF TypeOK, AuthTypeOK, threadVars
<1> QED BY <1>2, <1>3, <1>4 DEF AuthenticationCb, v

LEMMA MainLoopTypes ==
  ASSUME TypeOK, MainLoop
  PROVE  TypeOK'
<1> USE DEF TypeOK
<1>1. CASE Lock
  BY <1>1, NoViewIsView, StartTypes DEF Lock, AuthTypeOK
<1>2. CASE UnlockRequested
  BY <1>2, ViewUpdates DEF UnlockRequested, AuthenticateCancel, AuthTypeOK, threadVars, histories
<1>3. CASE FadeEnds
  BY <1>3, NoViewIsView DEF FadeEnds, AuthTypeOK, authVars, threadVars, histories
<1>4. CASE Retry
  <2> DEFINE v == [view EXCEPT !.retrying = @ - 1]
  <2>1. v \in Views
    BY <1>4, ViewUpdates DEF Retry
  <2>2. StartAuthentication(v)
    BY <1>4 DEF Retry
  <2> HIDE DEF v
  <2> QED BY <1>4, <2>1, <2>2, StartTypes DEF Retry, AuthTypeOK, histories
<1>5. CASE Deliver
  <2> DEFINE p == Head(posted)
             Told(v) == view' = v /\ UNCHANGED <<threadVars, cancelled, bound, histories>>
  <2>1. posted' \in Seq(Posts) /\ p \in Posts
    BY <1>5, TailPosted DEF Deliver, AuthTypeOK
  <2>2. p.thread \in Threads
    BY <2>1 DEF Posts
  <2>3. ASSUME NEW v \in Views, Told(v)
        PROVE  TypeOK'
    BY <2>1, <2>3 DEF AuthTypeOK, threadVars, histories
  <2>4. /\ view \in Views /\ ResetLayout(view) \in Views /\ [view EXCEPT !.unacknowledged = TRUE] \in Views
        /\ StartFailure(view) \in Views
        /\ [view EXCEPT !.prompted = TRUE, !.unacknowledged = FALSE, !.prompts = @ \cup {p.thread}] \in Views
    BY <2>2, ViewUpdates, StartFailureFacts
  <2>5. CASE AuthenticationCb(status)
    BY <2>1, <2>5, CallbackTypes DEF AuthTypeOK, histories
  <2> HIDE DEF Told
  <2>6. \/ Told(view) \/ Told(ResetLayout(view)) \/ Told([view EXCEPT !.unacknowledged = TRUE]) \/ Told(StartFailure(view))
        \/ Told([view EXCEPT !.prompted = TRUE, !.unacknowledged = FALSE, !.prompts = @ \cup {p.thread}])
        \/ AuthenticationCb(status)
    BY <1>5, <2>1 DEF Deliver, Told, Posts
  <2> QED BY <2>3, <2>4, <2>5, <2>6
<1>6. CASE PressUnlock
  BY <1>6, ViewUpdates DEF PressUnlock, DoUnlock, AuthenticateCancel, AuthTypeOK, threadVars, histories
<1>7. CASE PressRetry
  BY <1>7, StartTypes DEF PressRetry, AuthTypeOK, histories
<1> QED BY <1>1, <1>2, <1>3, <1>4, <1>5, <1>6, <1>7 DEF MainLoop

LEMMA ThreadTypes ==
  ASSUME TypeOK, NEW t \in Threads, ThreadRuns(t) \/ ThreadConverses(t)
  PROVE  TypeOK'
<1>1. CASE InitPam(t) /\ ThreadRuns(t)
  <2>1. Post(t, <<"start_failed">>) => posted' \in Seq(Posts)
    BY PostOne DEF TypeOK, AuthTypeOK
  <2> QED BY <1>1, <2>1 DEF InitPam, ThreadRuns, TypeOK, AuthTypeOK, Places
<1>2. CASE Resumes(t) /\ ThreadRuns(t)
  BY <1>2 DEF Resumes, ThreadRuns, TypeOK, AuthTypeOK, Places
<1>3. ASSUME NEW success \in BOOLEAN, End(t, success), UNCHANGED answered
      PROVE  AuthTypeOK'
  BY <1>3, ThreadsAssumption DEF End, TypeOK, AuthTypeOK, Places
<1>4. CASE AuthenticateReturns(t) /\ ThreadRuns(t)
  BY <1>3, <1>4 DEF AuthenticateReturns, ThreadRuns, TypeOK, AuthTypeOK
<1>5. CASE AccountReturns(t) /\ ThreadRuns(t)
  BY <1>3, <1>5 DEF AccountReturns, ThreadRuns, TypeOK, AuthTypeOK
<1>6. CASE Finish(t) /\ ThreadRuns(t)
  <2>1. Post(t, <<"authenticated">>) => posted' \in Seq(Posts)
    BY PostOne DEF TypeOK, AuthTypeOK
  <2> QED BY <1>6, <2>1 DEF Finish, ThreadRuns, TypeOK, AuthTypeOK, Places
<1>7. ASSUME NEW kind \in {"requested", "message"}, Conversation(t, kind), ThreadConverses(t)
      PROVE  TypeOK'
  <2>1. posted' \in Seq(Posts)
    BY <1>7, PostOne, PostTwo DEF Conversation, TypeOK, AuthTypeOK
  <2>2. round' \in [Threads -> 0..MaxRounds]
    BY <1>7, ThreadsAssumption DEF Conversation, TypeOK, AuthTypeOK
  <2>3. pc' \in [Threads -> Places]
    BY <1>7 DEF Conversation, TypeOK, AuthTypeOK, Places
  <2> QED BY <1>7, <2>1, <2>2, <2>3 DEF Conversation, ThreadConverses, histories, TypeOK, AuthTypeOK
<1> QED BY <1>1, <1>2, <1>4, <1>5, <1>6, <1>7 DEF ThreadRuns, Runs, ThreadConverses, Converses

LEMMA AnswerTypes ==
  ASSUME TypeOK, NEW t \in Threads, Answer(t)
  PROVE  TypeOK'
  BY ViewUpdates DEF Answer, TypeOK, AuthTypeOK, histories

LEMMA InitTypes == Init => TypeOK
<1>1. 0 \in 0..MaxRounds
  BY ThreadsAssumption
<1>2. ASSUME AuthInit PROVE AuthTypeOK
  <2>1. pc \in [Threads -> Places] /\ account \in [Threads -> BOOLEAN]
    BY <1>2 DEF AuthInit, Places
  <2>2. round \in [Threads -> 0..MaxRounds]
    BY <1>1, <1>2 DEF AuthInit
  <2>3. posted \in Seq(Posts)
    BY <1>2 DEF AuthInit
  <2> QED BY <1>2, <2>1, <2>2, <2>3 DEF AuthInit, AuthTypeOK
<1> QED BY <1>2, NoViewIsView DEF Init, TypeOK

LEMMA StepTypes == TypeOK /\ [Next]_vars => TypeOK'
<1>1. TypeOK /\ UNCHANGED vars => TypeOK'
  BY DEF vars, authVars, threadVars, histories, TypeOK, AuthTypeOK
<1> QED BY <1>1, MainLoopTypes, ThreadTypes, AnswerTypes DEF Next

\* The types of the authenticator and of the view, whatever the bounds.
THEOREM TypesHold == Spec => []TypeOK
<1> QED BY InitTypes, StepTypes, PTL DEF Spec

-----------------------------------------------------------------------------
(* A success of PAM behind everything that unlocks *)

\* The answer of an attempt is on its way to the view
Ended == (\E t \in Threads : pc[t] = "ENDED") \/ (\E i \in 1..Len(posted) : posted[i].kind = "authenticated")

\* A success is known to have happened wherever the code believes in one: in the thread
\* that checks the account, in status_ once an attempt has ended, behind the button.
Prov ==
  /\ \A t \in Threads : account[t] => proved /\ pc[t] \in {"PAM", "WAITING"}
  /\ Ended => ~status \/ proved
  /\ "Unlock" \in view.buttons => proved

ProvInv == TypeOK /\ Prov

LEMMA CallbackFacts ==
  ASSUME TypeOK, NEW authenticated \in BOOLEAN, AuthenticationCb(authenticated)
  PROVE  /\ \A t \in Threads : pc'[t] = pc[t] \/ (pc[t] = "NONE" /\ pc'[t] = "INIT")
         /\ UNCHANGED <<round, account, handle, status, histories>>
         /\ view'.state # view.state => authenticated
         /\ "Unlock" \in view'.buttons => authenticated
<1> DEFINE v == ResetLayout(view)
<1>1. v \in Views /\ v.state = view.state /\ v.buttons = {}
  BY ViewUpdates DEF TypeOK, Views, ResetLayout
<1> HIDE DEF v
<1>2. CASE authenticated /\ DoUnlock(v)
  BY <1>2 DEF DoUnlock, threadVars, histories
<1>3. CASE StartAuthentication(v) /\ UNCHANGED histories
  BY <1>1, <1>3, StartTypes
<1>4. ASSUME NEW b \in {"Unlock", "Retry"}, view' = ShowAuthenticated(v, b), b = "Unlock" => authenticated,
             UNCHANGED <<threadVars, cancelled, bound, histories>>
      PROVE  /\ \A t \in Threads : pc'[t] = pc[t]
             /\ UNCHANGED <<round, account, handle, status, histories>>
             /\ view'.state = view.state
             /\ "Unlock" \in view'.buttons => authenticated
  <2>1. view'.state = view.state /\ view'.buttons = {b}
    BY <1>1, <1>4 DEF ShowAuthenticated, Views
  <2> QED BY <1>4, <2>1 DEF threadVars
<1> QED BY <1>2, <1>3, <1>4 DEF AuthenticationCb, v

LEMMA DeliverFacts ==
  ASSUME TypeOK, Deliver
  PROVE  \/ /\ UNCHANGED <<threadVars, histories>>
            /\ view'.state = view.state
            /\ "Unlock" \in view'.buttons => "Unlock" \in view.buttons
         \/ posted[1].kind = "authenticated" /\ AuthenticationCb(status)
<1> DEFINE p == Head(posted)
           Told(v) == view' = v /\ UNCHANGED <<threadVars, cancelled, bound, histories>>
<1>1. p \in Posts /\ p = posted[1]
  BY TailPosted DEF Deliver, TypeOK, AuthTypeOK
<1>2. /\ StartFailure(view) \in Views /\ StartFailure(view).state = view.state
      /\ "Unlock" \in StartFailure(view).buttons <=> "Unlock" \in view.buttons
  BY StartFailureFacts DEF TypeOK
<1>3. CASE Told(StartFailure(view))
  BY <1>2, <1>3
<1>4. CASE Told(view)
  BY <1>4
<1>5. CASE Told(ResetLayout(view)) \/ Told([view EXCEPT !.unacknowledged = TRUE])
  BY <1>5 DEF TypeOK, Views, ResetLayout
<1>6. CASE Told([view EXCEPT !.prompted = TRUE, !.unacknowledged = FALSE, !.prompts = @ \cup {p.thread}])
  BY <1>6 DEF TypeOK, Views
<1>7. CASE p.kind = "authenticated" /\ AuthenticationCb(status)
  BY <1>1, <1>7
<1> HIDE DEF Told
<1> QED BY <1>1, <1>3, <1>4, <1>5, <1>6, <1>7 DEF Deliver, Told, Posts

LEMMA DeliverProv ==
  ASSUME ProvInv, Deliver
  PROVE  Prov'
<1> USE DEF ProvInv
<1>1. /\ posted' \in Seq(Posts) /\ Len(posted') = Len(posted) - 1 /\ Len(posted) \in Nat \ {0}
      /\ \A i \in 1..Len(posted') : posted'[i] = posted[i + 1]
  BY TailPosted DEF Deliver, TypeOK, AuthTypeOK
<1>2. \A i \in 1..Len(posted') : i + 1 \in 1..Len(posted)
  BY <1>1
<1>3. (\A t \in Threads : pc'[t] = "ENDED" => pc[t] = "ENDED") => (Ended' => Ended)
  BY <1>1, <1>2 DEF Ended
<1>4. CASE /\ UNCHANGED <<threadVars, histories>>
           /\ "Unlock" \in view'.buttons => "Unlock" \in view.buttons
  BY <1>3, <1>4 DEF Prov, threadVars, histories
<1>5. CASE posted[1].kind = "authenticated" /\ AuthenticationCb(status)
  <2>1. Ended
    BY <1>1, <1>5 DEF Ended
  <2>2. status \in BOOLEAN
    BY DEF TypeOK, AuthTypeOK
  <2>3. /\ \A t \in Threads : pc'[t] = pc[t] \/ (pc[t] = "NONE" /\ pc'[t] = "INIT")
        /\ UNCHANGED <<account, status, proved>>
        /\ "Unlock" \in view'.buttons => status
    BY <1>5, <2>2, CallbackFacts DEF histories
  <2> QED BY <1>3, <2>1, <2>3 DEF Prov
<1> QED BY <1>4, <1>5, DeliverFacts

LEMMA LockProv ==
  ASSUME ProvInv, Lock
  PROVE  Prov'
<1>1. TypeOK /\ Prov
  BY DEF ProvInv
<1>2. [NoView EXCEPT !.state = "SHOWN"] \in Views /\ [NoView EXCEPT !.state = "SHOWN"].buttons = {}
  BY NoViewIsView DEF NoView
<1>3. /\ UNCHANGED <<account, status>>
      /\ \A t \in Threads : pc'[t] = pc[t] \/ (pc[t] = "NONE" /\ pc'[t] = "INIT")
      /\ "Unlock" \notin view'.buttons
  <2> DEFINE v == [NoView EXCEPT !.state = "SHOWN"]
  <2>1. v \in Views /\ v.buttons = {} /\ StartAuthentication(v)
    BY <1>2 DEF Lock
  <2> HIDE DEF v
  <2> QED BY <1>1, <2>1, StartTypes
<1>4. /\ UNCHANGED posted
      /\ fresh' = (posted = <<>> /\ \A t \in Threads : ~Alive(t))
      /\ proved' = (proved /\ ~fresh')
  BY DEF Lock
<1>5. CASE fresh'
  <2>1. (\A t \in Threads : pc[t] = "NONE") /\ Len(posted) = 0
    BY <1>4, <1>5 DEF Alive
  <2>2. \A t \in Threads : ~account'[t] /\ pc'[t] # "ENDED"
    BY <1>1, <1>3, <2>1 DEF Prov
  <2>3. ~Ended'
    BY <1>4, <2>1, <2>2 DEF Ended
  <2> QED BY <1>3, <2>2, <2>3 DEF Prov
<1>6. CASE ~fresh'
  <2>1. proved' = proved
    BY <1>1, <1>4, <1>6 DEF TypeOK
  <2>2. Ended' => Ended
    BY <1>3, <1>4 DEF Ended
  <2> QED BY <1>1, <1>3, <2>1, <2>2 DEF Prov
<1> QED BY <1>5, <1>6

LEMMA MainLoopProv ==
  ASSUME ProvInv, MainLoop
  PROVE  Prov'
<1>1. TypeOK /\ Prov
  BY DEF ProvInv
<1>2. CASE Lock \/ Deliver
  BY <1>2, LockProv, DeliverProv
<1>3. CASE UnlockRequested
  <2>1. view'.buttons = view.buttons
    BY <1>1, <1>3 DEF UnlockRequested, Unlocked, TypeOK, Views
  <2> QED BY <1>1, <1>3, <2>1 DEF UnlockRequested, Prov, Ended, threadVars, histories
<1>4. CASE FadeEnds
  <2>1. view'.buttons = {}
    BY <1>4 DEF FadeEnds, NoView
  <2> QED BY <1>1, <1>4, <2>1 DEF FadeEnds, Prov, Ended, authVars, threadVars, histories
<1>5. ASSUME NEW v \in Views, StartAuthentication(v), UNCHANGED <<posted, histories>>, v.buttons = view.buttons
      PROVE  Prov'
  <2>1. /\ UNCHANGED <<account, status>>
        /\ \A t \in Threads : pc'[t] = pc[t] \/ (pc[t] = "NONE" /\ pc'[t] = "INIT")
        /\ "Unlock" \in view'.buttons => "Unlock" \in view.buttons
    BY <1>1, <1>5, StartTypes
  <2>2. Ended' => Ended
    BY <1>5, <2>1 DEF Ended
  <2> QED BY <1>1, <1>5, <2>1, <2>2 DEF Prov, histories
<1>6. CASE Retry
  <2>1. [view EXCEPT !.retrying = @ - 1] \in Views /\ [view EXCEPT !.retrying = @ - 1].buttons = view.buttons
    BY <1>1, <1>6, ViewUpdates DEF Retry, TypeOK, Views
  <2> QED BY <1>5, <1>6, <2>1 DEF Retry
<1>7. CASE PressUnlock
  <2>1. view'.buttons = view.buttons
    BY <1>1, <1>7 DEF PressUnlock, DoUnlock, Unlocked, TypeOK, Views
  <2> QED BY <1>1, <1>7, <2>1 DEF PressUnlock, DoUnlock, Prov, Ended, threadVars, histories
<1>8. CASE PressRetry
  BY <1>1, <1>5, <1>8 DEF PressRetry, TypeOK
<1> QED BY <1>2, <1>3, <1>4, <1>6, <1>7, <1>8 DEF MainLoop

\* What a thread posts, when it has not ended, is no answer.
LEMMA ConversationEnded ==
  ASSUME TypeOK, NEW t \in Threads, NEW kind \in {"requested", "message"}, Conversation(t, kind)
  PROVE  Ended' => Ended
<1>1. \A u \in Threads : pc'[u] = "ENDED" => pc[u] = "ENDED"
  BY DEF Conversation, TypeOK, AuthTypeOK
<1>2. posted \in Seq(Posts) /\ Len(posted) \in Nat
  BY DEF TypeOK, AuthTypeOK
<1>3. CASE Post(t, <<kind>>)
  <2>1. /\ Len(posted') = Len(posted) + 1 /\ posted'[Len(posted) + 1].kind = kind
        /\ \A i \in 1..Len(posted) : posted'[i] = posted[i]
    BY <1>2, <1>3, PostOne
  <2> QED BY <1>1, <1>2, <2>1 DEF Ended
<1>4. CASE Post(t, <<"clear_prompts", kind>>)
  <2>1. /\ Len(posted') = Len(posted) + 2
        /\ posted'[Len(posted) + 1].kind = "clear_prompts" /\ posted'[Len(posted) + 2].kind = kind
        /\ \A i \in 1..Len(posted) : posted'[i] = posted[i]
    BY <1>2, <1>4, PostTwo
  <2> QED BY <1>1, <1>2, <2>1 DEF Ended
<1> QED BY <1>3, <1>4 DEF Conversation

LEMMA ThreadProv ==
  ASSUME ProvInv, NEW t \in Threads, ThreadRuns(t) \/ ThreadConverses(t)
  PROVE  Prov'
<1>1. TypeOK /\ Prov /\ posted \in Seq(Posts) /\ Len(posted) \in Nat
  BY DEF ProvInv, TypeOK, AuthTypeOK
<1>2. CASE InitPam(t) /\ ThreadRuns(t)
  <2>1. UNCHANGED <<account, status, view>> /\ proved' = proved
    BY <1>1, <1>2 DEF InitPam, ThreadRuns, TypeOK, AuthTypeOK
  <2>2. \A u \in Threads : pc'[u] = pc[u] \/ (pc[u] = "INIT" /\ pc'[u] \in {"PAM", "NONE"})
    BY <1>1, <1>2 DEF InitPam, TypeOK, AuthTypeOK
  <2>3. \/ UNCHANGED posted
        \/ /\ Len(posted') = Len(posted) + 1 /\ posted'[Len(posted) + 1].kind = "start_failed"
           /\ \A i \in 1..Len(posted) : posted'[i] = posted[i]
    BY <1>1, <1>2, PostOne DEF InitPam
  <2>4. Ended' => Ended
    BY <1>1, <2>2, <2>3 DEF Ended
  <2> QED BY <1>1, <2>1, <2>2, <2>4 DEF Prov
<1>3. CASE Resumes(t) /\ ThreadRuns(t)
  <2>1. UNCHANGED <<account, status, view, posted>> /\ proved' = proved
    BY <1>1, <1>3 DEF Resumes, ThreadRuns, TypeOK, AuthTypeOK
  <2>2. \A u \in Threads : pc'[u] = pc[u] \/ pc'[u] = "PAM"
    BY <1>1, <1>3 DEF Resumes, TypeOK, AuthTypeOK
  <2> QED BY <1>1, <2>1, <2>2 DEF Prov, Ended
<1>4. ASSUME NEW success \in BOOLEAN, End(t, success), ThreadRuns(t), success => proved
      PROVE  Prov'
  <2>1. UNCHANGED <<view, posted>> /\ status' = success /\ (proved => proved')
    BY <1>4 DEF End, ThreadRuns
  <2>2. \A u \in Threads : u # t => pc'[u] = pc[u] /\ account'[u] = account[u]
    BY <1>1, <1>4 DEF End, TypeOK, AuthTypeOK
  <2>3. ~account'[t]
    BY <1>1, <1>4 DEF End, TypeOK, AuthTypeOK
  <2> QED BY <1>1, <1>4, <2>1, <2>2, <2>3 DEF Prov
<1>5. CASE AuthenticateReturns(t) /\ ThreadRuns(t)
  <2>1. CASE End(t, FALSE)
    BY <1>4, <1>5, <2>1
  <2>2. CASE /\ account' = [account EXCEPT ![t] = TRUE]
             /\ status' = TRUE
             /\ UNCHANGED <<pc, round, handle, cancelled, first, posted>>
    <3>1. proved'
      BY <1>1, <1>5, <2>2 DEF AuthenticateReturns, ThreadRuns, TypeOK, AuthTypeOK
    <3>2. \A u \in Threads : account'[u] => account[u] \/ u = t
      BY <1>1, <2>2 DEF TypeOK, AuthTypeOK
    <3>3. pc[t] = "PAM"
      BY <1>5 DEF AuthenticateReturns
    <3> QED BY <1>1, <2>2, <3>1, <3>2, <3>3 DEF Prov
  <2> QED BY <1>5, <2>1, <2>2 DEF AuthenticateReturns
<1>6. CASE AccountReturns(t) /\ ThreadRuns(t)
  BY <1>1, <1>4, <1>6 DEF AccountReturns, Prov
<1>7. CASE Finish(t) /\ ThreadRuns(t)
  <2>1. UNCHANGED <<account, status, view>> /\ proved' = proved
    BY <1>1, <1>7 DEF Finish, ThreadRuns, TypeOK, AuthTypeOK
  <2>2. \A u \in Threads : pc'[u] = pc[u] \/ (pc[u] = "ENDED" /\ pc'[u] = "NONE")
    BY <1>1, <1>7 DEF Finish, TypeOK, AuthTypeOK
  <2>3. Ended
    BY <1>7 DEF Ended, Finish
  <2> QED BY <1>1, <2>1, <2>2, <2>3 DEF Prov
<1>8. ASSUME NEW kind \in {"requested", "message"}, Conversation(t, kind), ThreadConverses(t)
      PROVE  Prov'
  <2>1. UNCHANGED <<account, status, view, proved>>
    BY <1>8 DEF Conversation, ThreadConverses, histories
  <2>2. \A u \in Threads : pc'[u] = pc[u] \/ pc'[u] \in {"PAM", "WAITING"}
    BY <1>1, <1>8 DEF Conversation, TypeOK, AuthTypeOK
  <2>3. Ended' => Ended
    BY <1>1, <1>8, ConversationEnded
  <2> QED BY <1>1, <2>1, <2>2, <2>3 DEF Prov
<1> QED BY <1>2, <1>3, <1>5, <1>6, <1>7, <1>8 DEF ThreadRuns, Runs, ThreadConverses, Converses

LEMMA AnswerProv ==
  ASSUME ProvInv, NEW t \in Threads, Answer(t)
  PROVE  Prov'
<1>1. view'.buttons = view.buttons
  BY DEF ProvInv, TypeOK, Views, Answer
<1> QED BY <1>1 DEF ProvInv, Prov, Ended, Answer, histories

LEMMA StepProv == ProvInv /\ [Next]_vars => ProvInv'
<1>1. ProvInv /\ UNCHANGED vars => ProvInv'
  BY DEF vars, authVars, threadVars, histories, ProvInv, TypeOK, AuthTypeOK, Prov, Ended
<1> QED BY <1>1, StepTypes, MainLoopProv, ThreadProv, AnswerProv DEF Next, ProvInv

LEMMA InitProv == Init => ProvInv
<1>1. Init => Prov
  BY DEF Init, AuthInit, NoView, Prov, Ended
<1> QED BY <1>1, InitTypes DEF ProvInv

\* No step of the view unlocks the session unless an attempt has succeeded since the view
\* was made, or since the last view that was made with nothing left over: status_, which
\* starts as PAM_SUCCESS, and the callback, which the attempts share, never make a failure
\* or an attempt that has not ended look like a success (UserAuthenticatorPam.cpp:91, 106-110).
THEOREM UnlocksProvedHolds == Spec => UnlocksProved
<1>1. ASSUME ProvInv, Deliver \/ PressUnlock, view.state = "SHOWN", view'.state = "FADING"
      PROVE  proved
  <2>1. TypeOK /\ Prov /\ status \in BOOLEAN
    BY <1>1 DEF ProvInv, TypeOK, AuthTypeOK
  <2>2. CASE PressUnlock
    BY <2>1, <2>2 DEF PressUnlock, Prov
  <2>3. CASE Deliver /\ posted[1].kind = "authenticated" /\ AuthenticationCb(status)
    <3>1. Ended
      <4>1. Len(posted) \in Nat \ {0}
        BY <2>1, <2>3, TailPosted DEF Deliver, TypeOK, AuthTypeOK
      <4> QED BY <2>3, <4>1 DEF Ended
    <3>2. status
      BY <1>1, <2>1, <2>3, CallbackFacts
    <3> QED BY <2>1, <3>1, <3>2 DEF Prov
  <2> QED BY <1>1, <2>1, <2>2, <2>3, DeliverFacts
<1>2. ProvInv /\ [Next]_vars => [(Deliver \/ PressUnlock) /\ view.state = "SHOWN" /\ view'.state = "FADING" => proved]_vars
  BY <1>1
<1> QED BY <1>2, InitProv, StepProv, PTL DEF Spec, UnlocksProved

-----------------------------------------------------------------------------
(* Someone serves the user *)

\* Only the thread that made the handle converses, only one has yet to make it.
OneHandle ==
  /\ \A t \in Threads : pc[t] \in {"PAM", "WAITING"} <=> handle = t
  /\ \A t \in Threads : pc[t] = "INIT" => handle = NoHandle /\ \A u \in Threads : pc[u] = "INIT" => u = t

Waits(t) == pc[t] = "WAITING" /\ t \notin answered

\* A prompt that was cleared is followed by another, a message by what its thread does next.
LastSaid ==
  posted # <<>> =>
    /\ posted[Len(posted)].kind # "clear_prompts"
    /\ posted[Len(posted)].kind = "message" => pc[posted[Len(posted)].thread] \in {"PAM", "ENDED"}

\* One question is on its way at a time, of a thread that waits and has no prompt yet.
Asks ==
  \A i \in 1..Len(posted) : posted[i].kind = "requested" =>
    /\ Waits(posted[i].thread) /\ posted[i].thread \notin view.prompts
    /\ \A j \in 1..Len(posted) : posted[j].kind = "requested" => j = i

\* The view of an attempt that nobody has cancelled: every prompt is waited for.
Served ==
  /\ ~cancelled /\ bound
  /\ LastSaid /\ Asks
  /\ \A t \in view.prompts : Waits(t)
  /\ \A t \in Threads : pc[t] \in {"INIT", "PAM"} => t \notin answered
  /\ Offered \/ Coming

Serving == view.state = "SHOWN" /\ fresh => Served

ServeInv == TypeOK /\ OneHandle /\ Serving

\* What an attempt that starts leaves alone
Kept == \A t \in Threads : pc[t] # "NONE" => pc'[t] = pc[t] /\ (t \in answered' <=> t \in answered)

LEMMA StartFacts ==
  ASSUME TypeOK, NEW v \in Views, StartAuthentication(v)
  PROVE  /\ Followed /\ Kept
         /\ \A t \in Threads : pc'[t] = pc[t] \/ (pc[t] = "NONE" /\ pc'[t] = "INIT" /\ handle = NoHandle /\ t \notin answered')
         /\ \A t, u \in Threads : pc'[t] # pc[t] /\ pc'[u] # pc[u] => t = u
         /\ handle = NoHandle => ~cancelled' /\ bound'
         /\ handle # NoHandle => UNCHANGED <<cancelled, bound>>
         /\ view'.prompts = v.prompts /\ view'.state = v.state
         /\ view'.retrying > 0 \/ view'.buttons # {} \/ \E t \in Threads : pc'[t] = "INIT"
         /\ \A t \in Threads : pc'[t] = pc[t] => (t \in answered' <=> t \in answered)
<1> DEFINE reset == [v EXCEPT !.prompted = FALSE, !.unacknowledged = FALSE]
<1>1. reset \in Views /\ reset.state = v.state /\ reset.prompts = v.prompts
  BY DEF Views
<1>2. /\ StartFailure(reset).state = v.state /\ StartFailure(reset).prompts = v.prompts
      /\ StartFailure(reset).retrying > 0 \/ StartFailure(reset).buttons # {}
  BY <1>1, StartFailureFacts
<1> HIDE DEF reset
<1>3. Followed
  BY DEF StartAuthentication
<1>4. CASE handle # NoHandle
  <2>1. view' = StartFailure(reset) /\ UNCHANGED <<pc, answered, cancelled, bound>>
    BY <1>4 DEF StartAuthentication, threadVars, reset
  <2> QED BY <1>2, <1>3, <1>4, <2>1 DEF Kept
<1>5. CASE handle = NoHandle
  <2>1. PICK started \in BOOLEAN :
          /\ bound' = TRUE
          /\ AuthenticateStart(v.prompts, started)
          /\ view' = IF started THEN reset ELSE StartFailure(reset)
    BY <1>5 DEF StartAuthentication, reset
  <2>2. ~cancelled' /\ bound'
    BY <2>1 DEF AuthenticateStart
  <2>3. CASE started
    <3>1. PICK t \in Threads : pc[t] = "NONE" /\ pc' = [pc EXCEPT ![t] = "INIT"] /\ answered' = answered \ {t}
      BY <2>1, <2>3 DEF AuthenticateStart
    <3>2. pc'[t] = "INIT" /\ t \notin answered' /\ \A u \in Threads : u # t => pc'[u] = pc[u] /\ (u \in answered' <=> u \in answered)
      BY <3>1 DEF TypeOK, AuthTypeOK
    <3>3. view' = reset
      BY <2>1, <2>3
    <3> QED BY <1>1, <1>3, <1>5, <2>2, <3>1, <3>2, <3>3 DEF Kept
  <2>4. CASE ~started
    <3>1. UNCHANGED <<pc, answered>> /\ view' = StartFailure(reset)
      BY <2>1, <2>4 DEF AuthenticateStart
    <3> QED BY <1>2, <1>3, <1>5, <2>2, <3>1 DEF Kept
  <2> QED BY <2>3, <2>4
<1> QED BY <1>4, <1>5

\* What is posted stays in order while fewer posts and fewer prompts are left.
LEMMA FewerSaid ==
  ASSUME TypeOK, LastSaid, Asks, Kept, view'.prompts \subseteq view.prompts,
         UNCHANGED posted \/ (posted # <<>> /\ posted' = Tail(posted))
  PROVE  LastSaid' /\ Asks'
<1>1. posted \in Seq(Posts) /\ Len(posted) \in Nat
  BY DEF TypeOK, AuthTypeOK
<1>2. \A i \in 1..Len(posted) : posted[i].thread \in Threads
  <2>1. \A i \in 1..Len(posted) : posted[i] \in Posts
    BY <1>1
  <2> QED BY <2>1 DEF Posts
<1>3. CASE UNCHANGED posted
  <2>1. LastSaid'
    <3>1. posted # <<>> => Len(posted) \in 1..Len(posted)
      BY <1>1
    <3> QED BY <1>2, <1>3, <3>1 DEF LastSaid, Kept
  <2>2. Asks'
    BY <1>2, <1>3 DEF Asks, Waits, Kept
  <2> QED BY <2>1, <2>2
<1>4. CASE posted # <<>> /\ posted' = Tail(posted)
  <2>1. /\ Len(posted) \in Nat \ {0} /\ Len(posted') = Len(posted) - 1
        /\ \A i \in 1..Len(posted') : posted'[i] = posted[i + 1] /\ i + 1 \in 1..Len(posted)
    BY <1>1, <1>4
  <2>2. posted' # <<>> => Len(posted') \in 1..Len(posted') /\ posted'[Len(posted')] = posted[Len(posted)]
    <3>1. posted' # <<>> => Len(posted') > 0
      BY <1>1, <1>4
    <3>2. Len(posted') > 0 => Len(posted') \in 1..Len(posted')
      BY <2>1
    <3> QED BY <2>1, <3>1, <3>2
  <2>3. LastSaid'
    BY <1>2, <1>4, <2>1, <2>2 DEF LastSaid, Kept
  <2>4. Asks'
    <3>1. SUFFICES ASSUME NEW i \in 1..Len(posted'), posted'[i].kind = "requested"
                   PROVE  /\ pc'[posted'[i].thread] = "WAITING" /\ posted'[i].thread \notin answered'
                          /\ posted'[i].thread \notin view'.prompts
                          /\ \A j \in 1..Len(posted') : posted'[j].kind = "requested" => j = i
      BY DEF Asks, Waits
    <3>2. i + 1 \in 1..Len(posted) /\ posted[i + 1].kind = "requested" /\ posted'[i].thread = posted[i + 1].thread
      BY <2>1, <3>1
    <3>3. /\ Waits(posted[i + 1].thread) /\ posted[i + 1].thread \notin view.prompts
          /\ \A j \in 1..Len(posted) : posted[j].kind = "requested" => j = i + 1
      BY <3>2 DEF Asks
    <3>4. /\ pc'[posted'[i].thread] = "WAITING" /\ posted'[i].thread \notin answered'
          /\ posted'[i].thread \notin view'.prompts
      BY <1>2, <3>2, <3>3 DEF Waits, Kept
    <3>5. ASSUME NEW j \in 1..Len(posted'), posted'[j].kind = "requested" PROVE j = i
      <4>1. j + 1 = i + 1
        BY <2>1, <3>3, <3>5
      <4> QED BY <2>1, <4>1
    <3> QED BY <3>4, <3>5
  <2> QED BY <2>3, <2>4
<1> QED BY <1>3, <1>4

LEMMA StartOneHandle ==
  ASSUME ~Overlap, TypeOK, OneHandle, NEW v \in Views, StartAuthentication(v)
  PROVE  OneHandle'
<1>1. \A t \in Threads : pc[t] # "INIT"
  BY StartFacts DEF Followed
<1>2. UNCHANGED handle
  BY StartTypes
<1>3. \A t \in Threads : pc'[t] = pc[t] \/ (pc[t] = "NONE" /\ pc'[t] = "INIT" /\ handle = NoHandle)
  BY StartFacts
<1>4. \A t, u \in Threads : pc'[t] # pc[t] /\ pc'[u] # pc[u] => t = u
  BY StartFacts
<1> QED BY <1>1, <1>2, <1>3, <1>4 DEF OneHandle

LEMMA StartServes ==
  ASSUME TypeOK, Served, NEW v \in Views, StartAuthentication(v), v.prompts \subseteq view.prompts,
         UNCHANGED posted \/ (posted # <<>> /\ posted' = Tail(posted))
  PROVE  Served'
<1>1. /\ Kept /\ view'.prompts \subseteq view.prompts
      /\ \A t \in Threads : pc'[t] = pc[t] \/ (pc[t] = "NONE" /\ pc'[t] = "INIT" /\ handle = NoHandle /\ t \notin answered')
      /\ \A t \in Threads : pc'[t] = pc[t] => (t \in answered' <=> t \in answered)
  BY StartFacts
<1>2. ~cancelled' /\ bound'
  BY StartFacts DEF Served
<1>3. LastSaid' /\ Asks'
  BY <1>1, FewerSaid DEF Served
<1>4. \A t \in view'.prompts : Waits(t)'
  BY <1>1 DEF Served, Kept, Waits, TypeOK, Views
<1>5. \A t \in Threads : pc'[t] \in {"INIT", "PAM"} => t \notin answered'
  BY <1>1 DEF Served
<1>6. Offered' \/ Coming'
  BY StartFacts DEF Offered, Coming
<1> QED BY <1>2, <1>3, <1>4, <1>5, <1>6 DEF Served

LEMMA LockServes ==
  ASSUME ~Overlap, ServeInv, Lock
  PROVE  OneHandle' /\ Serving'
<1> DEFINE v == [NoView EXCEPT !.state = "SHOWN"]
<1>1. TypeOK /\ OneHandle /\ v \in Views /\ v.prompts = {} /\ StartAuthentication(v)
  BY NoViewIsView DEF Lock, ServeInv, NoView
<1> HIDE DEF v
<1>2. OneHandle'
  BY <1>1, StartOneHandle
<1>3. ASSUME fresh' PROVE Served'
  <2>1. UNCHANGED posted /\ posted = <<>> /\ \A t \in Threads : pc[t] = "NONE"
    BY <1>3 DEF Lock, Alive
  <2>2. handle = NoHandle
    BY <1>1, <2>1 DEF OneHandle, TypeOK, AuthTypeOK
  <2>3. ~cancelled' /\ bound' /\ view'.prompts = {}
    BY <1>1, <2>2, StartFacts
  <2>4. LastSaid' /\ Asks'
    BY <2>1 DEF LastSaid, Asks
  <2>5. \A t \in Threads : pc'[t] \in {"INIT", "PAM"} => t \notin answered'
    BY <1>1, <2>1, StartFacts
  <2>6. Offered' \/ Coming'
    BY <1>1, StartFacts DEF Offered, Coming
  <2> QED BY <2>3, <2>4, <2>5, <2>6 DEF Served
<1> QED BY <1>2, <1>3 DEF Serving

LEMMA CallbackServes ==
  ASSUME ~Overlap, ServeInv, NEW authenticated \in BOOLEAN, AuthenticationCb(authenticated),
         posted # <<>>, posted' = Tail(posted)
  PROVE  OneHandle' /\ Serving'
<1> DEFINE v == ResetLayout(view)
<1>1. TypeOK /\ OneHandle /\ Serving
  BY DEF ServeInv
<1>2. v \in Views /\ v.prompts = {} /\ v.state = view.state
  BY <1>1, ViewUpdates DEF ResetLayout, TypeOK, Views
<1> HIDE DEF v
<1>3. CASE DoUnlock(v)
  <2>1. OneHandle'
    BY <1>1, <1>3 DEF DoUnlock, OneHandle, threadVars
  <2>2. view'.state # "SHOWN"
    BY <1>2, <1>3 DEF DoUnlock, Unlocked, Views
  <2> QED BY <2>1, <2>2 DEF Serving
<1>4. CASE StartAuthentication(v) /\ UNCHANGED histories
  <2>1. OneHandle'
    BY <1>1, <1>2, <1>4, StartOneHandle
  <2>2. view'.state = view.state /\ fresh' = fresh
    BY <1>1, <1>2, <1>4, StartFacts DEF histories
  <2>3. Served => Served'
    BY <1>1, <1>2, <1>4, StartServes
  <2> QED BY <1>1, <2>1, <2>2, <2>3 DEF Serving
<1>5. ASSUME NEW b \in {"Unlock", "Retry"}, view' = ShowAuthenticated(v, b),
             UNCHANGED <<threadVars, cancelled, bound, histories>>
      PROVE  OneHandle' /\ Serving'
  <2>1. view'.state = view.state /\ view'.prompts = {} /\ view'.buttons # {}
    BY <1>2, <1>5 DEF ShowAuthenticated, Views
  <2>2. OneHandle'
    BY <1>1, <1>5 DEF OneHandle, threadVars
  <2>3. Kept /\ fresh' = fresh
    BY <1>5 DEF Kept, threadVars, histories
  <2>4. ASSUME Served PROVE Served'
    <3>1. LastSaid' /\ Asks'
      BY <1>1, <2>1, <2>3, <2>4, FewerSaid DEF Served
    <3> QED BY <1>5, <2>1, <2>4, <3>1 DEF Served, Offered, threadVars
  <2> QED BY <1>1, <2>1, <2>2, <2>3, <2>4 DEF Serving
<1> QED BY <1>3, <1>4, <1>5 DEF AuthenticationCb, v

LEMMA DeliverServes ==
  ASSUME ~Overlap, ServeInv, Deliver
  PROVE  OneHandle' /\ Serving'
<1> DEFINE p == Head(posted)
           Told(v) == view' = v /\ UNCHANGED <<threadVars, cancelled, bound, histories>>
<1>1. TypeOK /\ OneHandle /\ Serving /\ status \in BOOLEAN
  BY DEF ServeInv, TypeOK, AuthTypeOK
<1>2. /\ p \in Posts /\ p = posted[1] /\ posted # <<>> /\ posted' = Tail(posted)
      /\ Len(posted) \in Nat \ {0} /\ Len(posted') = Len(posted) - 1
  BY <1>1, TailPosted DEF Deliver, TypeOK, AuthTypeOK
<1>3. CASE view.state # "NONE" /\ p.kind = "authenticated" /\ AuthenticationCb(status)
  BY <1>1, <1>2, <1>3, CallbackServes
<1>4. ASSUME NEW v \in Views, Told(v), v.state = view.state, v.prompts \subseteq view.prompts,
             v.prompts # {} \/ v.buttons # {} \/ v.retrying > 0 \/ posted' # <<>> \/ (\E t \in Threads : pc[t] \in {"INIT", "PAM", "ENDED"})
      PROVE  OneHandle' /\ Serving'
  <2>1. OneHandle' /\ Kept
    BY <1>1, <1>4 DEF OneHandle, Kept, threadVars
  <2>2. ASSUME Served PROVE Served'
    <3>1. LastSaid' /\ Asks'
      BY <1>1, <1>2, <1>4, <2>1, <2>2, FewerSaid DEF Served
    <3>2. Offered' \/ Coming'
      BY <1>4 DEF Offered, Coming, threadVars
    <3> QED BY <1>4, <2>2, <3>1, <3>2 DEF Served, Waits, threadVars
  <2> QED BY <1>1, <1>4, <2>1, <2>2 DEF Serving, histories
<1>5. ASSUME view.state = "NONE" \/ (p.kind = "authenticated" /\ ~bound), Told(view)
      PROVE  OneHandle' /\ Serving'
  <2>1. OneHandle'
    BY <1>1, <1>5 DEF OneHandle, threadVars
  <2>2. ~Served \/ view'.state # "SHOWN"
    BY <1>5 DEF Served
  <2> QED BY <1>1, <1>5, <2>1, <2>2 DEF Serving, histories
<1>6. view \in Views
  BY <1>1 DEF TypeOK
<1>7. CASE p.kind = "clear_prompts" /\ Told(ResetLayout(view))
  <2>1. ResetLayout(view) \in Views /\ ResetLayout(view).state = view.state /\ ResetLayout(view).prompts = {}
    BY <1>6, ViewUpdates DEF ResetLayout, Views
  <2>2. CASE posted' # <<>>
    BY <1>4, <1>7, <2>1, <2>2
  <2>3. CASE posted' = <<>>
    <3>1. Len(posted) = 1
      BY <1>2, <2>3
    <3>2. ~Served
      BY <1>2, <1>7, <3>1 DEF Served, LastSaid
    <3>3. OneHandle'
      BY <1>1, <1>7 DEF OneHandle, threadVars
    <3> QED BY <1>1, <1>7, <2>1, <3>2, <3>3 DEF Serving, histories
  <2> QED BY <2>2, <2>3
<1>8. CASE p.kind = "message" /\ Told([view EXCEPT !.unacknowledged = TRUE])
  <2> DEFINE v == [view EXCEPT !.unacknowledged = TRUE]
  <2>1. v \in Views /\ v.state = view.state /\ v.prompts = view.prompts
    BY <1>6, ViewUpdates DEF Views
  <2>2. CASE posted' # <<>> \/ \E t \in Threads : pc[t] \in {"INIT", "PAM", "ENDED"}
    <3> HIDE DEF v
    <3> QED BY <1>4, <1>8, <2>1, <2>2 DEF v
  <2>3. CASE posted' = <<>> /\ ~\E t \in Threads : pc[t] \in {"INIT", "PAM", "ENDED"}
    <3>1. Len(posted) = 1
      BY <1>2, <2>3
    <3>2. ~Served
      BY <1>2, <1>8, <2>3, <3>1 DEF Served, LastSaid, Posts
    <3>3. OneHandle'
      BY <1>1, <1>8 DEF OneHandle, threadVars
    <3> QED BY <1>1, <1>8, <2>1, <3>2, <3>3 DEF Serving, histories
  <2> QED BY <2>2, <2>3
<1>9. CASE p.kind = "start_failed" /\ Told(StartFailure(view))
  BY <1>4, <1>6, <1>9, StartFailureFacts
<1>10. CASE p.kind = "requested" /\ Told([view EXCEPT !.prompted = TRUE, !.unacknowledged = FALSE, !.prompts = @ \cup {p.thread}])
  <2>1. view'.state = view.state /\ view'.prompts = view.prompts \cup {p.thread} /\ fresh' = fresh
    BY <1>6, <1>10 DEF Views, histories
  <2>2. OneHandle' /\ Kept /\ UNCHANGED <<pc, answered, cancelled, bound>>
    BY <1>1, <1>10 DEF OneHandle, Kept, threadVars
  <2>3. p.thread \in Threads
    BY <1>2 DEF Posts
  <2>4. ASSUME Served PROVE Served'
    <3>1. Waits(p.thread) /\ (\A j \in 1..Len(posted) : posted[j].kind = "requested" => j = 1)
      BY <1>2, <1>10, <2>4 DEF Served, Asks
    <3>2. /\ posted' \in Seq(Posts) /\ Len(posted') = Len(posted) - 1
          /\ \A i \in 1..Len(posted') : posted'[i] = posted[i + 1]
      BY <1>1, <1>2, TailPosted DEF TypeOK, AuthTypeOK
    <3>3. \A i \in 1..Len(posted') : i + 1 \in 1..Len(posted) /\ i + 1 # 1
      BY <1>2, <3>2
    <3>4. \A i \in 1..Len(posted') : posted'[i].kind # "requested"
      BY <3>1, <3>2, <3>3
    <3>5. Asks'
      BY <3>4 DEF Asks
    <3>6. LastSaid'
      <4>1. posted' # <<>> => Len(posted') \in 1..Len(posted')
        BY <3>2
      <4>2. posted' # <<>> => posted'[Len(posted')] = posted[Len(posted)]
        BY <1>2, <3>2, <4>1
      <4> QED BY <1>2, <2>2, <2>4, <4>2 DEF Served, LastSaid
    <3>7. Offered'
      BY <2>1 DEF Offered
    <3> QED BY <2>1, <2>2, <2>4, <3>1, <3>5, <3>6, <3>7 DEF Served, Waits
  <2> QED BY <1>1, <2>1, <2>2, <2>4 DEF Serving
<1> HIDE DEF Told
<1> QED BY <1>1, <1>2, <1>3, <1>5, <1>7, <1>8, <1>9, <1>10 DEF Deliver, Told, Posts

LEMMA MainLoopServes ==
  ASSUME ~Overlap, ServeInv, MainLoop
  PROVE  OneHandle' /\ Serving'
<1>1. TypeOK /\ OneHandle /\ Serving
  BY DEF ServeInv
<1>2. CASE Lock \/ Deliver
  BY <1>2, LockServes, DeliverServes
<1>3. CASE UnlockRequested \/ PressUnlock
  <2>1. OneHandle'
    BY <1>1, <1>3 DEF UnlockRequested, PressUnlock, DoUnlock, OneHandle, threadVars
  <2>2. view'.state # "SHOWN"
    BY <1>1, <1>3 DEF UnlockRequested, PressUnlock, DoUnlock, Unlocked, TypeOK, Views
  <2> QED BY <2>1, <2>2 DEF Serving
<1>4. CASE FadeEnds
  <2>1. OneHandle'
    BY <1>1, <1>4 DEF FadeEnds, OneHandle, authVars, threadVars
  <2>2. view'.state # "SHOWN"
    BY <1>4 DEF FadeEnds, NoView
  <2> QED BY <2>1, <2>2 DEF Serving
<1>5. ASSUME NEW v \in Views, StartAuthentication(v), UNCHANGED <<posted, histories>>,
             v.prompts = view.prompts, v.state = view.state
      PROVE  OneHandle' /\ Serving'
  <2>1. OneHandle'
    BY <1>1, <1>5, StartOneHandle
  <2>2. view'.state = view.state /\ fresh' = fresh
    BY <1>1, <1>5, StartFacts DEF histories
  <2>3. Served => Served'
    BY <1>1, <1>5, StartServes
  <2> QED BY <1>1, <2>1, <2>2, <2>3 DEF Serving
<1>6. CASE Retry
  <2> DEFINE v == [view EXCEPT !.retrying = @ - 1]
  <2>1. v \in Views /\ v.prompts = view.prompts /\ v.state = view.state
    BY <1>1, <1>6, ViewUpdates DEF Retry, TypeOK, Views
  <2>2. StartAuthentication(v) /\ UNCHANGED <<posted, histories>>
    BY <1>6 DEF Retry
  <2> HIDE DEF v
  <2> QED BY <1>5, <2>1, <2>2
<1>7. CASE PressRetry
  BY <1>1, <1>5, <1>7 DEF PressRetry, TypeOK
<1> QED BY <1>2, <1>3, <1>4, <1>6, <1>7 DEF MainLoop

LEMMA AnswerServes ==
  ASSUME ServeInv, NEW t \in Threads, Answer(t)
  PROVE  OneHandle' /\ Serving'
<1>1. TypeOK /\ OneHandle /\ Serving
  BY DEF ServeInv
<1>2. /\ t \in view.prompts /\ view'.prompts = view.prompts \ {t} /\ view'.state = view.state
      /\ answered' = answered \cup {t} /\ UNCHANGED <<pc, handle, cancelled, posted, bound, fresh>>
  BY <1>1 DEF Answer, TypeOK, Views, histories
<1>3. OneHandle'
  BY <1>1, <1>2 DEF OneHandle
<1>4. ASSUME Served PROVE Served'
  <2>1. Waits(t)
    BY <1>2, <1>4 DEF Served
  <2>2. LastSaid'
    BY <1>2, <1>4 DEF Served, LastSaid
  <2>3. Asks'
    BY <1>2, <1>4 DEF Served, Asks, Waits
  <2>4. \A u \in view'.prompts : Waits(u)'
    BY <1>2, <1>4 DEF Served, Waits
  <2>5. \A u \in Threads : pc'[u] \in {"INIT", "PAM"} => u \notin answered'
    BY <1>2, <1>4, <2>1 DEF Served, Waits
  <2>6. Coming'
    BY <1>2, <2>1 DEF Coming, HasAnswer, Waits
  <2> QED BY <1>2, <1>4, <2>2, <2>3, <2>4, <2>5, <2>6 DEF Served
<1> QED BY <1>1, <1>2, <1>3, <1>4 DEF Serving

\* What a call of Post leaves behind
LEMMA Says ==
  ASSUME TypeOK, NEW t \in Threads, NEW k \in {"requested", "message", "start_failed", "authenticated"},
         Post(t, <<k>>) \/ (k \in {"requested", "message"} /\ Post(t, <<"clear_prompts", k>>))
  PROVE  /\ posted' # <<>> /\ Len(posted') \in 1..Len(posted')
         /\ posted'[Len(posted')].kind = k /\ posted'[Len(posted')].thread = t
         /\ \A i \in 1..Len(posted') :
              \/ i \in 1..Len(posted) /\ posted'[i] = posted[i]
              \/ i = Len(posted')
              \/ posted'[i].kind = "clear_prompts"
<1>1. posted \in Seq(Posts) /\ Len(posted) \in Nat
  BY DEF TypeOK, AuthTypeOK
<1>2. CASE Post(t, <<k>>)
  <2>1. /\ posted' \in Seq(Posts) /\ Len(posted') = Len(posted) + 1
        /\ \A i \in 1..Len(posted) : posted'[i] = posted[i]
        /\ posted'[Len(posted) + 1].kind = k /\ posted'[Len(posted) + 1].thread = t
    BY <1>1, <1>2, PostOne
  <2>2. posted' # <<>>
    BY <1>1, <2>1
  <2> QED BY <1>1, <2>1, <2>2
<1>3. CASE k \in {"requested", "message"} /\ Post(t, <<"clear_prompts", k>>)
  <2>1. /\ posted' \in Seq(Posts) /\ Len(posted') = Len(posted) + 2
        /\ \A i \in 1..Len(posted) : posted'[i] = posted[i]
        /\ posted'[Len(posted) + 1].kind = "clear_prompts"
        /\ posted'[Len(posted) + 2].kind = k /\ posted'[Len(posted) + 2].thread = t
    BY <1>1, <1>3, PostTwo
  <2>2. posted' # <<>>
    BY <1>1, <2>1
  <2>3. \A i \in 1..Len(posted') : i \in 1..Len(posted) \/ i = Len(posted) + 1 \/ i = Len(posted')
    BY <1>1, <2>1
  <2>4. Len(posted') \in 1..Len(posted')
    BY <1>1, <2>1
  <2> QED BY <2>1, <2>2, <2>3, <2>4
<1> QED BY <1>2, <1>3

\* A thread that serves goes on serving: a lemma for each of its steps
LEMMA InitPamServes ==
  ASSUME ServeInv, NEW t \in Threads, InitPam(t), UNCHANGED <<view, bound, fresh>>
  PROVE  OneHandle' /\ Serving'
<1>1. TypeOK /\ OneHandle /\ Serving /\ pc[t] = "INIT" /\ UNCHANGED <<answered, cancelled>>
  BY DEF ServeInv, InitPam
<1>2. \A u \in Threads : u # t => pc'[u] = pc[u]
  BY <1>1 DEF InitPam, TypeOK, AuthTypeOK
<1>3. \/ handle' = t /\ pc'[t] = "PAM" /\ UNCHANGED posted
      \/ handle' = NoHandle /\ pc'[t] = "NONE" /\ Post(t, <<"start_failed">>)
  BY <1>1 DEF InitPam, TypeOK, AuthTypeOK
<1>4. t # NoHandle
  BY DEF Threads, NoHandle
<1>5. handle = NoHandle /\ \A u \in Threads : pc[u] \notin {"PAM", "WAITING"} /\ (pc[u] = "INIT" => u = t)
  BY <1>1 DEF OneHandle, Threads, NoHandle
<1>6. OneHandle'
  BY <1>2, <1>3, <1>4, <1>5 DEF OneHandle, Threads, NoHandle
<1>7. ASSUME Served PROVE Served'
  <2>1. \A u \in Threads : pc'[u] \in {"INIT", "PAM"} => u \notin answered'
    BY <1>1, <1>2, <1>3, <1>7 DEF Served
  <2>2. \A u \in Threads : ~Waits(u)
    BY <1>5 DEF Waits
  <2>3. view.prompts = {}
    BY <1>1, <1>7, <2>2 DEF Served, TypeOK, Views
  <2>4. posted \in Seq(Posts) /\ \A i \in 1..Len(posted) : posted[i].thread \in Threads
    <3>1. posted \in Seq(Posts) /\ \A i \in 1..Len(posted) : posted[i] \in Posts
      BY <1>1 DEF TypeOK, AuthTypeOK
    <3> QED BY <3>1 DEF Posts
  <2>5. \A i \in 1..Len(posted) : posted[i].kind # "requested"
    BY <1>7, <2>2, <2>4 DEF Served, Asks
  <2>6. CASE handle' = t /\ pc'[t] = "PAM" /\ UNCHANGED posted
    <3>1. Asks'
      BY <2>5, <2>6 DEF Asks
    <3>2. posted # <<>> => Len(posted) \in 1..Len(posted)
      BY <2>4
    <3>3. LastSaid'
      BY <1>1, <1>2, <1>7, <2>4, <2>6, <3>2 DEF Served, LastSaid
    <3>4. Coming'
      BY <2>6 DEF Coming
    <3> QED BY <1>1, <1>7, <2>1, <2>3, <3>1, <3>3, <3>4 DEF Served
  <2>7. CASE Post(t, <<"start_failed">>)
    <3>1. /\ posted' # <<>> /\ posted'[Len(posted')].kind = "start_failed"
          /\ \A i \in 1..Len(posted') :
               (i \in 1..Len(posted) /\ posted'[i] = posted[i]) \/ i = Len(posted') \/ posted'[i].kind = "clear_prompts"
      BY <1>1, <2>7, Says
    <3>2. LastSaid' /\ Coming'
      BY <3>1 DEF LastSaid, Coming
    <3>3. \A i \in 1..Len(posted') : posted'[i].kind # "requested"
      BY <2>5, <3>1
    <3>4. Asks'
      BY <3>3 DEF Asks
    <3> QED BY <1>1, <1>7, <2>1, <2>3, <3>2, <3>4 DEF Served
  <2> QED BY <1>3, <2>6, <2>7
<1> QED BY <1>1, <1>6, <1>7 DEF Serving

LEMMA ResumesServes ==
  ASSUME ServeInv, NEW t \in Threads, Resumes(t), UNCHANGED <<view, bound, fresh>>
  PROVE  OneHandle' /\ Serving'
<1>1. /\ TypeOK /\ OneHandle /\ Serving /\ pc[t] = "WAITING" /\ (t \in answered \/ cancelled)
      /\ UNCHANGED <<handle, cancelled, posted>>
  BY DEF ServeInv, Resumes, HasAnswer
<1>2. /\ pc'[t] = "PAM" /\ \A u \in Threads : u # t => pc'[u] = pc[u]
      /\ answered' = answered \ {t}
  BY <1>1 DEF Resumes, TypeOK, AuthTypeOK
<1>3. OneHandle'
  BY <1>1, <1>2 DEF OneHandle
<1>4. ASSUME Served PROVE Served'
  <2>1. t \in answered /\ ~Waits(t)
    BY <1>1, <1>4 DEF Served, Waits, Resumes, HasAnswer
  <2>2. \A u \in Threads : Waits(u) => Waits(u)'
    BY <1>2, <2>1 DEF Waits
  <2>3. posted \in Seq(Posts) /\ \A i \in 1..Len(posted) : posted[i].thread \in Threads
    <3>1. posted \in Seq(Posts) /\ \A i \in 1..Len(posted) : posted[i] \in Posts
      BY <1>1 DEF TypeOK, AuthTypeOK
    <3> QED BY <3>1 DEF Posts
  <2>4. \A i \in 1..Len(posted) : Waits(posted[i].thread) => Waits(posted[i].thread)'
    BY <1>1, <2>2, <2>3 DEF Waits
  <2>5. Asks'
    BY <1>1, <1>4, <2>4 DEF Served, Asks
  <2>6. posted # <<>> => Len(posted) \in 1..Len(posted)
    BY <2>3
  <2>7. LastSaid'
    BY <1>1, <1>2, <1>4, <2>3, <2>6 DEF Served, LastSaid
  <2>8. \A u \in view.prompts : Waits(u)'
    BY <1>1, <1>4, <2>2 DEF Served, TypeOK, Views
  <2>9. (\A u \in Threads : pc'[u] \in {"INIT", "PAM"} => u \notin answered') /\ Coming'
    BY <1>2, <1>4 DEF Served, Coming
  <2> QED BY <1>1, <1>4, <2>5, <2>7, <2>8, <2>9 DEF Served
<1> QED BY <1>1, <1>3, <1>4 DEF Serving

LEMMA EndServes ==
  ASSUME ServeInv, NEW t \in Threads, NEW success \in BOOLEAN, pc[t] = "PAM", End(t, success),
         UNCHANGED <<view, bound, fresh, answered>>
  PROVE  OneHandle' /\ Serving'
<1>1. /\ TypeOK /\ OneHandle /\ Serving /\ handle' = NoHandle /\ UNCHANGED <<cancelled, posted>>
      /\ handle = t
  BY DEF ServeInv, End, OneHandle
<1>2. pc'[t] = "ENDED" /\ \A u \in Threads : u # t => pc'[u] = pc[u]
  BY <1>1 DEF End, TypeOK, AuthTypeOK
<1>3. OneHandle'
  BY <1>1, <1>2 DEF OneHandle, Threads, NoHandle
<1>4. ASSUME Served PROVE Served'
  <2>1. \A u \in Threads : Waits(u) => Waits(u)'
    BY <1>2 DEF Waits
  <2>2. posted \in Seq(Posts) /\ \A i \in 1..Len(posted) : posted[i].thread \in Threads
    <3>1. posted \in Seq(Posts) /\ \A i \in 1..Len(posted) : posted[i] \in Posts
      BY <1>1 DEF TypeOK, AuthTypeOK
    <3> QED BY <3>1 DEF Posts
  <2>3. \A i \in 1..Len(posted) : Waits(posted[i].thread) => Waits(posted[i].thread)'
    BY <1>1, <2>1, <2>2 DEF Waits
  <2>4. Asks'
    BY <1>1, <1>4, <2>3 DEF Served, Asks
  <2>5. posted # <<>> => Len(posted) \in 1..Len(posted)
    BY <2>2
  <2>6. LastSaid'
    BY <1>1, <1>2, <1>4, <2>2, <2>5 DEF Served, LastSaid
  <2>7. \A u \in view.prompts : Waits(u)'
    BY <1>1, <1>4, <2>1 DEF Served, TypeOK, Views
  <2>8. (\A u \in Threads : pc'[u] \in {"INIT", "PAM"} => u \notin answered') /\ Coming'
    BY <1>2, <1>4 DEF Served, Coming
  <2> QED BY <1>1, <1>4, <2>4, <2>6, <2>7, <2>8 DEF Served
<1> QED BY <1>1, <1>3, <1>4 DEF Serving

LEMMA FinishServes ==
  ASSUME ServeInv, NEW t \in Threads, Finish(t), UNCHANGED <<view, bound, fresh>>
  PROVE  OneHandle' /\ Serving'
<1>1. TypeOK /\ OneHandle /\ Serving /\ pc[t] = "ENDED" /\ UNCHANGED <<answered, cancelled, handle>>
  BY DEF ServeInv, Finish
<1>2. pc'[t] = "NONE" /\ \A u \in Threads : u # t => pc'[u] = pc[u]
  BY <1>1 DEF Finish, TypeOK, AuthTypeOK
<1>3. OneHandle'
  BY <1>1, <1>2 DEF OneHandle
<1>4. ASSUME Served PROVE Served'
  <2>1. \A u \in Threads : Waits(u) => Waits(u)'
    BY <1>1, <1>2 DEF Waits
  <2>2. /\ posted' # <<>> /\ Len(posted') \in 1..Len(posted') /\ posted'[Len(posted')].kind = "authenticated"
        /\ \A i \in 1..Len(posted') :
             \/ i \in 1..Len(posted) /\ posted'[i] = posted[i]
             \/ i = Len(posted')
             \/ posted'[i].kind = "clear_prompts"
    BY <1>1, <1>4, Says DEF Finish, Served
  <2>3. LastSaid' /\ Coming'
    BY <2>2 DEF LastSaid, Coming
  <2>4. \A i \in 1..Len(posted) : posted[i].thread \in Threads
    <3>1. \A i \in 1..Len(posted) : posted[i] \in Posts
      BY <1>1 DEF TypeOK, AuthTypeOK
    <3> QED BY <3>1 DEF Posts
  <2>5. \A i \in 1..Len(posted') : posted'[i].kind = "requested" =>
          i \in 1..Len(posted) /\ posted'[i] = posted[i]
    BY <2>2
  <2>6. Asks'
    <3>1. ASSUME NEW i \in 1..Len(posted'), posted'[i].kind = "requested"
          PROVE  /\ pc'[posted'[i].thread] = "WAITING" /\ posted'[i].thread \notin answered'
                 /\ posted'[i].thread \notin view.prompts
                 /\ \A j \in 1..Len(posted') : posted'[j].kind = "requested" => j = i
      <4>1. /\ i \in 1..Len(posted) /\ posted'[i] = posted[i]
            /\ Waits(posted[i].thread) /\ posted[i].thread \notin view.prompts
            /\ \A j \in 1..Len(posted) : posted[j].kind = "requested" => j = i
        BY <1>4, <2>5, <3>1 DEF Served, Asks
      <4>2. pc'[posted[i].thread] = "WAITING" /\ posted[i].thread \notin answered'
        BY <1>1, <1>2, <2>4, <4>1 DEF Waits
      <4> QED BY <2>5, <4>1, <4>2
    <3> QED BY <3>1 DEF Asks, Waits
  <2>7. \A u \in view.prompts : Waits(u)'
    BY <1>1, <1>4, <2>1 DEF Served, TypeOK, Views
  <2>8. \A u \in Threads : pc'[u] \in {"INIT", "PAM"} => u \notin answered'
    BY <1>1, <1>2, <1>4 DEF Served
  <2> QED BY <1>1, <1>4, <2>3, <2>6, <2>7, <2>8 DEF Served
<1> QED BY <1>1, <1>3, <1>4 DEF Serving

LEMMA ConversationServes ==
  ASSUME ServeInv, NEW t \in Threads, NEW kind \in {"requested", "message"}, Conversation(t, kind),
         UNCHANGED <<view, bound, fresh>>
  PROVE  OneHandle' /\ Serving'
<1>1. TypeOK /\ OneHandle /\ Serving /\ pc[t] = "PAM" /\ UNCHANGED <<answered, cancelled, handle>>
  BY DEF ServeInv, Conversation
<1>2. /\ pc'[t] = IF kind = "requested" THEN "WAITING" ELSE "PAM"
      /\ \A u \in Threads : u # t => pc'[u] = pc[u]
  BY <1>1 DEF Conversation, TypeOK, AuthTypeOK
<1>3. OneHandle'
  BY <1>1, <1>2 DEF OneHandle
<1>4. \A u \in Threads : ~Waits(u)
  BY <1>1 DEF OneHandle, Waits
<1>5. ASSUME Served PROVE Served'
  <2>1. /\ posted' # <<>> /\ Len(posted') \in 1..Len(posted')
        /\ posted'[Len(posted')].kind = kind /\ posted'[Len(posted')].thread = t
        /\ \A i \in 1..Len(posted') :
             \/ i \in 1..Len(posted) /\ posted'[i] = posted[i]
             \/ i = Len(posted')
             \/ posted'[i].kind = "clear_prompts"
    BY <1>1, Says DEF Conversation
  <2>2. LastSaid' /\ Coming'
    BY <1>2, <2>1 DEF LastSaid, Coming
  <2>3. \A i \in 1..Len(posted) : posted[i].thread \in Threads
    <3>1. \A i \in 1..Len(posted) : posted[i] \in Posts
      BY <1>1 DEF TypeOK, AuthTypeOK
    <3> QED BY <3>1 DEF Posts
  <2>4. \A i \in 1..Len(posted) : posted[i].kind # "requested"
    BY <1>4, <1>5, <2>3 DEF Served, Asks
  <2>5. view.prompts = {}
    BY <1>1, <1>4, <1>5 DEF Served, TypeOK, Views
  <2>6. \A i \in 1..Len(posted') : posted'[i].kind = "requested" => i = Len(posted') /\ kind = "requested"
    BY <2>1, <2>4
  <2>7. t \notin answered
    BY <1>1, <1>5 DEF Served
  <2>8. Asks'
    BY <1>1, <1>2, <2>1, <2>5, <2>6, <2>7 DEF Asks, Waits
  <2>9. \A u \in Threads : pc'[u] \in {"INIT", "PAM"} => u \notin answered'
    BY <1>1, <1>2, <1>5 DEF Served
  <2> QED BY <1>1, <1>5, <2>2, <2>5, <2>8, <2>9 DEF Served
<1> QED BY <1>1, <1>3, <1>5 DEF Serving

LEMMA ThreadServes ==
  ASSUME ServeInv, NEW t \in Threads, ThreadRuns(t) \/ ThreadConverses(t)
  PROVE  OneHandle' /\ Serving'
<1>1. UNCHANGED <<view, bound, fresh>>
  BY DEF ThreadRuns, ThreadConverses, histories
<1>2. CASE InitPam(t)
  BY <1>1, <1>2, InitPamServes
<1>3. CASE Resumes(t)
  BY <1>1, <1>3, ResumesServes
<1>4. CASE AuthenticateReturns(t)
  <2>1. CASE End(t, FALSE)
    BY <1>1, <1>4, <2>1, EndServes DEF AuthenticateReturns
  <2>2. CASE UNCHANGED <<pc, round, handle, cancelled, first, posted>>
    <3>1. OneHandle' /\ (Served => Served')
      BY <1>1, <1>4, <2>2 DEF ServeInv, AuthenticateReturns, OneHandle, Served, LastSaid, Asks, Waits, Offered, Coming, HasAnswer
    <3> QED BY <1>1, <3>1 DEF ServeInv, Serving
  <2> QED BY <1>4, <2>1, <2>2 DEF AuthenticateReturns
<1>5. CASE AccountReturns(t)
  BY <1>1, <1>5, EndServes DEF AccountReturns
<1>6. CASE Finish(t)
  BY <1>1, <1>6, FinishServes
<1>7. ASSUME NEW kind \in {"requested", "message"}, Conversation(t, kind)
      PROVE  OneHandle' /\ Serving'
  BY <1>1, <1>7, ConversationServes
<1> QED BY <1>2, <1>3, <1>4, <1>5, <1>6, <1>7 DEF ThreadRuns, Runs, ThreadConverses, Converses

LEMMA StepServes ==
  ASSUME ~Overlap
  PROVE  ServeInv /\ [Next]_vars => ServeInv'
<1>1. ASSUME ServeInv, UNCHANGED vars PROVE OneHandle' /\ Serving'
  <2>1. OneHandle' /\ (Served => Served')
    BY <1>1 DEF vars, authVars, threadVars, ServeInv, OneHandle, Served, LastSaid, Asks, Waits, Offered, Coming, HasAnswer
  <2> QED BY <1>1, <2>1 DEF vars, histories, ServeInv, Serving
<1>2. ASSUME ServeInv, Next PROVE OneHandle' /\ Serving'
  BY <1>2, MainLoopServes, AnswerServes, ThreadServes DEF Next
<1> QED BY <1>1, <1>2, StepTypes DEF ServeInv

LEMMA InitServes == Init => ServeInv
<1>1. Init => OneHandle
  BY DEF Init, AuthInit, OneHandle, Threads, NoHandle
<1>2. Init => Serving
  BY DEF Init, NoView, Serving
<1> QED BY <1>1, <1>2, InitTypes DEF ServeInv

\* Where no attempt is started before the thread of another has called pam_start (what two
\* threads do to one pam_handle_ is undefined), the user of a view that was made with nothing
\* left over always has a prompt or a button or something on its way: a failure to start ends
\* in a retry or the greeter, a prompt that is cleared in another, an answer in a thread that
\* reads it (UserPromptView.cpp:281, 476, 494).
THEOREM NeverStrandedHolds ==
  ASSUME ~Overlap
  PROVE  Spec => []NeverStranded
<1>1. ServeInv => NeverStranded
  BY DEF ServeInv, Serving, Served, NeverStranded
<1>2. ServeInv /\ [Next]_vars => ServeInv'
  BY StepServes
<1> QED BY <1>1, <1>2, InitServes, PTL DEF Spec
=============================================================================
