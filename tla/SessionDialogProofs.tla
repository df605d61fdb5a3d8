------------------------ MODULE SessionDialogProofs ------------------------
(* What holds of the session dialog for every length of the queues, whatever the session
   allows: its types, and that a question of gnome-session is not forgotten. *)
EXTENDS SessionDialog, TLAPS

-----------------------------------------------------------------------------
(* What is on its way to the shell *)

HasOpen(s) == \E i \in 1..Len(s) : s[i].kind = "Open"

\* The last question is about a
LastAsks(s, a) ==
  \A i \in 1..Len(s) : s[i].kind = "Open" => s[i].action = a \/ \E j \in (i + 1)..Len(s) : s[j].kind = "Open"

\* What was withdrawn has been asked again
AsksAgain(s) ==
  \A i \in 1..Len(s) : s[i].kind = "Close" => \E j \in (i + 1)..Len(s) : s[j].kind = "Open"

LEMMA AppendOpen ==
  ASSUME NEW s \in Seq(ToShell), NEW a \in Actions, NEW b \in BOOLEAN
  PROVE  /\ Append(s, Open(a, b)) \in Seq(ToShell)
         /\ HasOpen(Append(s, Open(a, b)))
         /\ LastAsks(Append(s, Open(a, b)), a)
         /\ AsksAgain(Append(s, Open(a, b)))
<1> DEFINE m == Open(a, b)
           t == Append(s, m)
<1>1. m \in ToShell /\ m.kind = "Open" /\ m.action = a
  BY DEF Open, ToShell
<1> HIDE DEF m
<1>2. t \in Seq(ToShell) /\ Len(t) = Len(s) + 1 /\ t[Len(t)] = m
  BY <1>1
<1> HIDE DEF t
<1>3. HasOpen(t)
  BY <1>1, <1>2 DEF HasOpen
<1>4. \A i \in 1..Len(t) : i = Len(t) \/ Len(t) \in (i + 1)..Len(t)
  BY <1>2
<1>5. LastAsks(t, a)
  BY <1>1, <1>2, <1>4 DEF LastAsks
<1>6. AsksAgain(t)
  BY <1>1, <1>2, <1>4 DEF AsksAgain
<1> QED BY <1>2, <1>3, <1>5, <1>6 DEF t, m

LEMMA AppendError ==
  ASSUME NEW s \in Seq(ToShell), NEW a \in Actions, NEW b
  PROVE  /\ Append(s, Error(a)) \in Seq(ToShell)
         /\ HasOpen(s) => HasOpen(Append(s, Error(a)))
         /\ LastAsks(s, b) => LastAsks(Append(s, Error(a)), b)
         /\ AsksAgain(s) => AsksAgain(Append(s, Error(a)))
<1> DEFINE m == Error(a)
           t == Append(s, m)
<1>1. m \in ToShell /\ m.kind = "Error"
  <2>1. m \in {Error(x) : x \in Actions}
    BY Zenon
  <2>2. m.kind = "Error"
    BY DEF Error
  <2> QED BY <2>1, <2>2 DEF ToShell
<1> HIDE DEF m
<1>2. /\ t \in Seq(ToShell) /\ Len(t) = Len(s) + 1 /\ t[Len(s) + 1] = m
      /\ Len(s) \in Nat /\ \A i \in 1..Len(s) : t[i] = s[i]
  BY <1>1
<1> HIDE DEF t
<1>3. HasOpen(s) => HasOpen(t)
  BY <1>2 DEF HasOpen
<1>4. LastAsks(s, b) => LastAsks(t, b)
  <2> SUFFICES ASSUME LastAsks(s, b), NEW i \in 1..Len(t), t[i].kind = "Open"
               PROVE  t[i].action = b \/ \E j \in (i + 1)..Len(t) : t[j].kind = "Open"
    BY DEF LastAsks
  <2>1. i \in 1..Len(s)
    BY <1>1, <1>2
  <2>2. s[i].action = b \/ \E j \in (i + 1)..Len(s) : s[j].kind = "Open"
    BY <1>2, <2>1 DEF LastAsks
  <2> QED BY <1>2, <2>1, <2>2
<1>5. AsksAgain(s) => AsksAgain(t)
  <2> SUFFICES ASSUME AsksAgain(s), NEW i \in 1..Len(t), t[i].kind = "Close"
               PROVE  \E j \in (i + 1)..Len(t) : t[j].kind = "Open"
    BY DEF AsksAgain
  <2>1. i \in 1..Len(s)
    BY <1>1, <1>2
  <2>2. \E j \in (i + 1)..Len(s) : s[j].kind = "Open"
    BY <1>2, <2>1 DEF AsksAgain
  <2> QED BY <1>2, <2>1, <2>2
<1> QED BY <1>2, <1>3, <1>4, <1>5 DEF t, m

LEMMA TailOfShell ==
  ASSUME NEW s \in Seq(ToShell), s # <<>>, NEW a
  PROVE  /\ Head(s) \in ToShell /\ Tail(s) \in Seq(ToShell)
         /\ HasOpen(s) => HasOpen(Tail(s)) \/ Head(s).kind = "Open"
         /\ LastAsks(s, a) => LastAsks(Tail(s), a)
         /\ LastAsks(s, a) /\ Head(s).kind = "Open" => HasOpen(Tail(s)) \/ Head(s).action = a
         /\ AsksAgain(s) => AsksAgain(Tail(s))
         /\ AsksAgain(s) /\ Head(s).kind = "Close" => HasOpen(Tail(s))
<1> DEFINE t == Tail(s)
<1>1. /\ Head(s) = s[1] /\ Head(s) \in ToShell /\ t \in Seq(ToShell)
      /\ Len(s) \in Nat /\ Len(s) > 0 /\ Len(t) = Len(s) - 1 /\ \A i \in 1..Len(t) : t[i] = s[i + 1]
  BY DEF t
<1> HIDE DEF t
<1>2. \A i \in 1..Len(s) : \A j \in (i + 1)..Len(s) : s[j].kind = "Open" => j - 1 \in i..Len(t) /\ t[j - 1].kind = "Open"
  BY <1>1
<1>3. HasOpen(s) => HasOpen(t) \/ Head(s).kind = "Open"
  <2> SUFFICES ASSUME NEW i \in 1..Len(s), s[i].kind = "Open" PROVE HasOpen(t) \/ Head(s).kind = "Open"
    BY DEF HasOpen
  <2>1. CASE i = 1
    BY <1>1, <2>1
  <2>2. CASE i # 1
    <3>1. i - 1 \in 1..Len(t) /\ t[i - 1].kind = "Open"
      BY <1>1, <2>2
    <3> QED BY <3>1 DEF HasOpen
  <2> QED BY <2>1, <2>2
<1>4. LastAsks(s, a) => LastAsks(t, a)
  <2> SUFFICES ASSUME LastAsks(s, a), NEW i \in 1..Len(t), t[i].kind = "Open"
               PROVE  t[i].action = a \/ \E j \in (i + 1)..Len(t) : t[j].kind = "Open"
    BY DEF LastAsks
  <2>1. i + 1 \in 1..Len(s) /\ s[i + 1] = t[i]
    BY <1>1
  <2>2. s[i + 1].action = a \/ \E j \in (i + 1 + 1)..Len(s) : s[j].kind = "Open"
    BY <2>1 DEF LastAsks
  <2> QED BY <1>2, <2>1, <2>2
<1>5. LastAsks(s, a) /\ Head(s).kind = "Open" => HasOpen(t) \/ Head(s).action = a
  BY <1>1, <1>2 DEF LastAsks, HasOpen
<1>6. AsksAgain(s) => AsksAgain(t)
  <2> SUFFICES ASSUME AsksAgain(s), NEW i \in 1..Len(t), t[i].kind = "Close"
               PROVE  \E j \in (i + 1)..Len(t) : t[j].kind = "Open"
    BY DEF AsksAgain
  <2>1. i + 1 \in 1..Len(s) /\ s[i + 1] = t[i]
    BY <1>1
  <2>2. \E j \in (i + 1 + 1)..Len(s) : s[j].kind = "Open"
    BY <2>1 DEF AsksAgain
  <2> QED BY <1>2, <2>1, <2>2
<1>7. AsksAgain(s) /\ Head(s).kind = "Close" => HasOpen(t)
  BY <1>1, <1>2 DEF AsksAgain, HasOpen
<1> QED BY <1>1, <1>3, <1>4, <1>5, <1>6, <1>7 DEF t
-----------------------------------------------------------------------------
(* What is on its way to gnome-session *)

Answers(s, a) == \E i \in 1..Len(s) : s[i] \in {Canceled, Confirmed(a)}

LEMMA Signals ==
  /\ Canceled \in ToSession /\ Closed \in ToSession
  /\ \A a \in Actions : Call(a) \in ToSession /\ Confirmed(a) \in ToSession
BY Zenon DEF ToSession

LEMMA AppendSignal ==
  ASSUME NEW s \in Seq(ToSession), NEW m \in ToSession, NEW a
  PROVE  /\ s \o <<m>> \in Seq(ToSession)
         /\ Answers(s, a) => Answers(s \o <<m>>, a)
         /\ m \in {Canceled, Confirmed(a)} => Answers(s \o <<m>>, a)
<1> DEFINE t == s \o <<m>>
<1>1. /\ t \in Seq(ToSession) /\ Len(s) \in Nat /\ Len(t) = Len(s) + 1
      /\ t[Len(s) + 1] = m /\ \A i \in 1..Len(s) : t[i] = s[i]
  OBVIOUS
<1> HIDE DEF t
<1>2. Answers(s, a) => Answers(t, a)
  BY <1>1 DEF Answers
<1>3. m \in {Canceled, Confirmed(a)} => Answers(t, a)
  BY <1>1 DEF Answers
<1> QED BY <1>1, <1>2, <1>3 DEF t

\* CloseReceived and OpenConfirms tell two things at once
LEMMA AppendTwo ==
  ASSUME NEW s \in Seq(ToSession), NEW m \in ToSession, NEW n \in ToSession, NEW a
  PROVE  /\ s \o <<m, n>> \in Seq(ToSession)
         /\ Answers(s, a) => Answers(s \o <<m, n>>, a)
         /\ m \in {Canceled, Confirmed(a)} => Answers(s \o <<m, n>>, a)
<1> DEFINE t == s \o <<m, n>>
<1>1. /\ t \in Seq(ToSession) /\ Len(s) \in Nat /\ Len(t) = Len(s) + 2
      /\ t[Len(s) + 1] = m /\ \A i \in 1..Len(s) : t[i] = s[i]
  OBVIOUS
<1> HIDE DEF t
<1>2. Answers(s, a) => Answers(t, a)
  BY <1>1 DEF Answers
<1>3. m \in {Canceled, Confirmed(a)} => Answers(t, a)
  BY <1>1 DEF Answers
<1> QED BY <1>1, <1>2, <1>3 DEF t

LEMMA TailOfSession ==
  ASSUME NEW s \in Seq(ToSession), s # <<>>, NEW a
  PROVE  /\ Head(s) \in ToSession /\ Tail(s) \in Seq(ToSession)
         /\ Answers(s, a) => Answers(Tail(s), a) \/ Head(s) \in {Canceled, Confirmed(a)}
<1> DEFINE t == Tail(s)
<1>1. /\ Head(s) = s[1] /\ Head(s) \in ToSession /\ t \in Seq(ToSession)
      /\ Len(s) \in Nat /\ Len(s) > 0 /\ Len(t) = Len(s) - 1 /\ \A i \in 1..Len(t) : t[i] = s[i + 1]
  BY DEF t
<1> HIDE DEF t
<1>2. Answers(s, a) => Answers(t, a) \/ Head(s) \in {Canceled, Confirmed(a)}
  <2> SUFFICES ASSUME NEW i \in 1..Len(s), s[i] \in {Canceled, Confirmed(a)}
               PROVE  Answers(t, a) \/ Head(s) \in {Canceled, Confirmed(a)}
    BY DEF Answers
  <2>1. CASE i = 1
    BY <1>1, <2>1
  <2>2. CASE i # 1
    <3>1. i - 1 \in 1..Len(t) /\ t[i - 1] = s[i]
      BY <1>1, <2>2
    <3> QED BY <3>1 DEF Answers
  <2> QED BY <2>1, <2>2
<1> QED BY <1>1, <1>2 DEF t

-----------------------------------------------------------------------------
(* The dialog *)

Grabbing == view # NoView => (view.grabbed <=> view.fade = "FORWARD")
OnScreen == view # NoView /\ view.fade = "FORWARD" /\ view.grabbed

LEMMA NoViewIsNone == \A v \in Views : v # NoView
BY DEF Views, NoView

LEMMA ButtonsType ==
  ASSUME NEW mode \in Modes, locked \in BOOLEAN PROVE Buttons(mode) \subseteq ButtonActions
BY DialogAssumption DEF Buttons, If, Modes, ButtonActions, Actions

LEMMA PopulateType ==
  ASSUME NEW mode \in Modes, locked \in BOOLEAN,
         NEW v, v \in [mode : Modes \cup {NONE}, buttons : SUBSET ButtonActions, cancelIdle : BOOLEAN,
                       fade : {"FORWARD", "BACKWARD"}, grabbed : BOOLEAN]
  PROVE  PopulateButtons(v, mode) \in Views
<1>1. Buttons(mode) \subseteq ButtonActions
  BY ButtonsType
<1>2. (Buttons(mode) = {}) \in BOOLEAN
  OBVIOUS
<1> QED BY <1>1, <1>2 DEF PopulateButtons, Views

LEMMA SetModeType ==
  ASSUME NEW mode \in Modes, locked \in BOOLEAN, NEW v \in Views PROVE SetMode(v, mode) \in Views
<1> DEFINE new == IF mode = "SHUTDOWN" /\ (locked \/ ~CanShutdown) THEN "LOGOUT" ELSE mode
<1>1. new \in Modes
  BY DEF Modes
<1>2. PopulateButtons(v, new) \in Views
  BY <1>1, PopulateType DEF Views
<1> QED BY <1>2 DEF SetMode

LEMMA EnsureViewType ==
  ASSUME locked \in BOOLEAN, view \in Views \cup {NoView} PROVE EnsureView \in Views
<1>1. NewView \in Views
  BY PopulateType DEF NewView, Modes
<1> QED BY <1>1 DEF EnsureView

LEMMA Shows ==
  ASSUME locked \in BOOLEAN, view \in Views \cup {NoView}, NEW mode \in Modes, Show(mode), Grabbing
  PROVE  /\ view' \in Views /\ Grabbing'
         /\ OnScreen' \/ (view # NoView /\ view.mode = mode /\ view.fade = "BACKWARD")
<1>1. CASE view # NoView /\ mode = view.mode
  BY <1>1 DEF Show, Grabbing, OnScreen, Views
<1>2. CASE ~(view # NoView /\ mode = view.mode)
  <2>1. SetMode(EnsureView, mode) \in Views
    BY EnsureViewType, SetModeType
  <2>2. view' = [SetMode(EnsureView, mode) EXCEPT !.fade = "FORWARD", !.grabbed = TRUE]
    BY <1>2, Zenon DEF Show
  <2>3. view' \in Views /\ view'.fade = "FORWARD" /\ view'.grabbed = TRUE
    BY <2>1, <2>2 DEF Views
  <2> QED BY <2>3, NoViewIsNone DEF Grabbing, OnScreen
<1> QED BY <1>1, <1>2

LEMMA Hides ==
  ASSUME view \in Views \cup {NoView}, Hide
  PROVE  view' \in Views \cup {NoView} /\ Grabbing'
BY NoViewIsNone DEF Hide, Grabbing, Views
-----------------------------------------------------------------------------
(* The invariant.  A question that was not lost is on its way to the shell, is on the
   screen as what is pending, or its answer is on its way back: whoever takes it off the
   screen sends the answer, because something is pending. *)

Waits == OnScreen /\ pending # NONE

Held ==
  asked # NONE =>
    /\ LastAsks(toShell, asked) /\ AsksAgain(toShell)
    /\ lost \/ HasOpen(toShell) \/ Answers(toSession, asked) \/ Waits

IInv == TypeOK /\ Grabbing /\ Held

\* A step of the shell that leaves the question alone
LEMMA Quiet ==
  ASSUME IInv, TypeOK', Grabbing', UNCHANGED <<toShell, asked, lost>>,
         Answers(toSession, asked) \/ Waits => Answers(toSession', asked) \/ Waits'
  PROVE  IInv'
BY DEF IInv, Held

\* What the manager does when it gives up what is pending
Gives ==
  /\ SessionTypeOK' /\ toShell' = toShell
  /\ Answers(toSession, asked) \/ pending # NONE => Answers(toSession', asked)

LEMMA CancelGives == ASSUME TypeOK, CancelAction PROVE Gives
<1>1. toSession' = toSession \o <<Canceled>> /\ pending' = NONE /\ UNCHANGED <<starting, toShell>>
  BY DEF CancelAction, Emit
<1> QED BY <1>1, Signals, AppendSignal DEF Gives, TypeOK, SessionTypeOK

LEMMA DropGives == ASSUME TypeOK, DropPending PROVE Gives
BY CancelGives DEF DropPending, Gives, TypeOK, SessionTypeOK, busVars

LEMMA RequestGives == ASSUME TypeOK, NEW a \in Actions, Request(a) PROVE Gives
<1>1. pending' \in Actions \cup {NONE} /\ starting' \subseteq Actions /\ toShell' = toShell
  BY DEF Request, TypeOK, SessionTypeOK
<1>2. CASE pending = NONE
  <2>1. toSession' = toSession
    BY <1>2 DEF Request, Emit, EnsureCancelPendingAction, TypeOK, SessionTypeOK
  <2> QED BY <1>1, <1>2, <2>1 DEF Gives, TypeOK, SessionTypeOK
<1>3. CASE pending # NONE
  <2>1. toSession' = toSession \o <<Canceled>>
    BY <1>3 DEF Request, Emit, EnsureCancelPendingAction
  <2> QED BY <1>1, <2>1, Signals, AppendSignal DEF Gives, TypeOK, SessionTypeOK
<1> QED BY <1>2, <1>3

LEMMA GiveUp ==
  ASSUME IInv, Gives, view' \in Views \cup {NoView}, Grabbing', UNCHANGED <<locked, asked, lost>>
  PROVE  IInv'
<1>1. TypeOK'
  BY DEF IInv, TypeOK, Gives
<1> QED BY <1>1, Quiet DEF Gives, Waits

LEMMA OpenType == ASSUME NEW m \in ToShell, m.kind = "Open" PROVE m.action \in Actions /\ ModeOf[m.action] \in Modes
<1>1. m.action \in Actions
  BY DEF ToShell, Open, Error, Close
<1> QED BY <1>1 DEF ModeOf, Modes, Actions

LEMMA CallType == ASSUME NEW m \in ToSession, m.kind = "Call" PROVE m.action \in Actions
BY DEF ToSession, Call, Confirmed, Canceled, Closed

LEMMA InitIInv == Init => IInv
<1> SUFFICES ASSUME Init PROVE IInv
  OBVIOUS
<1>1. TypeOK
  <2>1. <<>> \in Seq(ToSession) /\ <<>> \in Seq(ToShell)
    OBVIOUS
  <2>2. SessionTypeOK
    BY <2>1, Zenon DEF Init, SessionInit, SessionTypeOK
  <2> QED BY <2>2, Zenon DEF Init, TypeOK
<1>2. Grabbing
  BY DEF Init, Grabbing
<1>3. Held
  BY DEF Init, Held
<1> QED BY <1>1, <1>2, <1>3 DEF IInv

-----------------------------------------------------------------------------
(* The steps of the shell *)

LEMMA CloseWindowStep == IInv /\ CloseWindow => IInv'
<1> SUFFICES ASSUME IInv, CloseWindow PROVE IInv'
  OBVIOUS
<1>1. ~OnScreen /\ TypeOK' /\ Grabbing'
  BY DEF CloseWindow, OnScreen, IInv, TypeOK, SessionTypeOK, busVars, Grabbing
<1> QED BY <1>1, Quiet DEF CloseWindow, busVars, Waits

LEMMA CancelIdleStep == IInv /\ CancelIdle => IInv'
<1> SUFFICES ASSUME IInv, CancelIdle PROVE IInv'
  OBVIOUS
<1>1. Gives
  BY CancelGives DEF CancelIdle, IInv
<1>2. view \in Views
  BY DEF CancelIdle, IInv, TypeOK
<1>3. view' = [view EXCEPT !.cancelIdle = FALSE, !.fade = "BACKWARD", !.grabbed = FALSE]
  BY DEF CancelIdle
<1>4. view' \in Views /\ Grabbing'
  BY <1>2, <1>3 DEF Views, Grabbing
<1> QED BY <1>1, <1>4, GiveUp DEF CancelIdle

LEMMA SendsCallStep == ASSUME IInv, NEW a \in Actions, SendsCall(a) PROVE IInv'
<1>1. toSession' = toSession \o <<Call(a)>> /\ UNCHANGED <<pending, toShell, view, locked, asked, lost>>
  BY DEF SendsCall, CallBegin, Emit
<1>2. toSession' \in Seq(ToSession) /\ (Answers(toSession, asked) => Answers(toSession', asked))
  BY <1>1, Signals, AppendSignal DEF IInv, TypeOK, SessionTypeOK
<1>3. TypeOK' /\ Grabbing'
  BY <1>1, <1>2 DEF SendsCall, CallBegin, IInv, TypeOK, SessionTypeOK, Grabbing
<1> QED BY <1>1, <1>2, <1>3, Quiet DEF Waits, OnScreen

\* A message was received that is no question, or was lost, or is followed by another,
\* or is answered, or is on the screen now
LEMMA Received ==
  ASSUME IInv, TypeOK', Grabbing', UNCHANGED asked, toShell # <<>>, toShell' = Tail(toShell), lost => lost',
         asked # NONE => \/ lost' \/ HasOpen(toShell') \/ Answers(toSession', asked) \/ Waits'
                         \/ Head(toShell).kind # "Open" /\ (Answers(toSession, asked) \/ Waits =>
                                                             Answers(toSession', asked) \/ Waits')
  PROVE  IInv'
<1> SUFFICES ASSUME asked # NONE PROVE Held'
  BY DEF IInv, Held
<1>1. LastAsks(toShell', asked) /\ AsksAgain(toShell')
  BY TailOfShell DEF IInv, Held, TypeOK, SessionTypeOK
<1>2. lost \/ HasOpen(toShell) \/ Answers(toSession, asked) \/ Waits
  BY DEF IInv, Held
<1>3. HasOpen(toShell) => HasOpen(toShell') \/ Head(toShell).kind = "Open"
  BY TailOfShell DEF IInv, TypeOK, SessionTypeOK
<1> QED BY <1>1, <1>2, <1>3 DEF Held

LEMMA ReceiveErrorStep == IInv /\ ReceiveError => IInv'
<1> SUFFICES ASSUME IInv, ReceiveError PROVE IInv'
  OBVIOUS
<1>1. /\ toShell # <<>> /\ toShell' = Tail(toShell) /\ pending' = NONE /\ lost' = (lost \/ asked # NONE)
      /\ UNCHANGED <<starting, toSession, view, locked, asked>>
  BY DEF ReceiveError, CallFails, Receives
<1>2. TypeOK' /\ Grabbing'
  BY <1>1, TailOfShell DEF IInv, TypeOK, SessionTypeOK, Grabbing
<1> QED BY <1>1, <1>2, Received

LEMMA ReceiveCloseStep == IInv /\ ReceiveClose => IInv'
<1> SUFFICES ASSUME IInv, ReceiveClose PROVE IInv'
  OBVIOUS
<1>1. /\ toShell # <<>> /\ Head(toShell).kind = "Close" /\ toShell' = Tail(toShell)
      /\ toSession' = toSession \o <<Closed>> /\ Hide /\ UNCHANGED <<pending, starting, locked, asked, lost>>
  BY DEF ReceiveClose, CloseReceived, Receives, Emit
<1>2. toShell' \in Seq(ToShell) /\ toSession' \in Seq(ToSession)
  BY <1>1, TailOfShell, Signals, AppendSignal DEF IInv, TypeOK, SessionTypeOK
<1>3. TypeOK' /\ Grabbing'
  BY <1>1, <1>2, Hides DEF IInv, TypeOK, SessionTypeOK
<1>4. asked # NONE => HasOpen(toShell')
  BY <1>1, TailOfShell DEF IInv, Held, TypeOK, SessionTypeOK
<1> QED BY <1>1, <1>3, <1>4, Received

\* Open with nothing pending: the dialog asks, and what is pending waits for the user
LEMMA OpenAsksStep ==
  ASSUME IInv, ReceiveOpen, NEW interactive \in Interactives, OpenAsks(Head(toShell), interactive),
         Show(ModeOf[Head(toShell).action]),
         lost' = (lost \/ (view # NoView /\ view.mode = ModeOf[Head(toShell).action] /\ view.fade = "BACKWARD"))
  PROVE  IInv'
<1> DEFINE m == Head(toShell)
<1>1. /\ toShell # <<>> /\ m.kind = "Open" /\ toShell' = Tail(toShell) /\ UNCHANGED <<starting, locked, asked>>
      /\ pending' = IF m.inhibited THEN m.action ELSE NONE
      /\ toSession' = toSession \o (IF m.inhibited THEN <<>> ELSE <<Canceled>>)
  BY DEF ReceiveOpen, OpenAsks, Receives, Emit
<1>2. m \in ToShell /\ Tail(toShell) \in Seq(ToShell)
  BY <1>1, TailOfShell DEF IInv, TypeOK, SessionTypeOK
<1>3. m.action \in Actions /\ ModeOf[m.action] \in Modes
  BY <1>1, <1>2, OpenType
<1>4. /\ view' \in Views /\ Grabbing'
      /\ OnScreen' \/ (view # NoView /\ view.mode = ModeOf[m.action] /\ view.fade = "BACKWARD")
  BY <1>3, Shows DEF IInv, TypeOK
<1>5. /\ toSession' \in Seq(ToSession)
      /\ m.inhibited \/ Answers(toSession', asked)
  <2>1. CASE m.inhibited
    BY <1>1, <2>1 DEF IInv, TypeOK, SessionTypeOK
  <2>2. CASE ~m.inhibited
    BY <1>1, <2>2, Signals, AppendSignal DEF IInv, TypeOK, SessionTypeOK
  <2> QED BY <2>1, <2>2
<1>6. pending' \in Actions \cup {NONE} /\ lost' \in BOOLEAN
  BY <1>1, <1>3 DEF IInv, TypeOK
<1>7. TypeOK'
  BY <1>1, <1>2, <1>4, <1>5, <1>6 DEF IInv, TypeOK, SessionTypeOK
<1>8. lost' \/ Answers(toSession', asked') \/ Waits'
  <2>1. CASE m.inhibited
    BY <1>1, <1>3, <1>4, <2>1 DEF Waits, Actions, NONE
  <2>2. CASE ~m.inhibited
    BY <1>1, <1>5, <2>2
  <2> QED BY <2>1, <2>2
<1> QED BY <1>1, <1>4, <1>7, <1>8, Received

\* Open for what is pending: it is confirmed, and if gnome-session has asked for
\* something else since, that question is still on its way
LEMMA OpenConfirmsStep ==
  ASSUME IInv, ReceiveOpen, NEW interactive \in Interactives, OpenConfirms(Head(toShell), interactive),
         UNCHANGED <<view, lost>>
  PROVE  IInv'
<1> DEFINE m == Head(toShell)
<1>1. /\ toShell # <<>> /\ m.kind = "Open" /\ toShell' = Tail(toShell) /\ UNCHANGED <<starting, locked, asked>>
      /\ pending' = NONE /\ toSession' = toSession \o <<Confirmed(m.action), Closed>>
  BY DEF ReceiveOpen, OpenConfirms, Receives, Emit
<1>2. m \in ToShell /\ Tail(toShell) \in Seq(ToShell)
  BY <1>1, TailOfShell DEF IInv, TypeOK, SessionTypeOK
<1>3. Confirmed(m.action) \in ToSession /\ Closed \in ToSession
  BY <1>1, <1>2, OpenType, Signals
<1>4. /\ toSession' \in Seq(ToSession)
      /\ m.action = asked => Answers(toSession', asked)
  BY <1>1, <1>3, AppendTwo DEF IInv, TypeOK, SessionTypeOK
<1>5. TypeOK' /\ Grabbing'
  BY <1>1, <1>2, <1>4 DEF IInv, TypeOK, SessionTypeOK, Grabbing
<1>6. asked # NONE => HasOpen(Tail(toShell)) \/ m.action = asked
  BY <1>1, TailOfShell DEF IInv, Held, TypeOK, SessionTypeOK
<1> QED BY <1>1, <1>4, <1>5, <1>6, Received

LEMMA ReceiveOpenStep == IInv /\ ReceiveOpen => IInv'
<1> SUFFICES ASSUME IInv, ReceiveOpen PROVE IInv'
  OBVIOUS
<1>1. PICK interactive \in Interactives :
        \/ /\ OpenAsks(Head(toShell), interactive)
           /\ Show(ModeOf[Head(toShell).action])
           /\ lost' = (lost \/ (view # NoView /\ view.mode = ModeOf[Head(toShell).action] /\ view.fade = "BACKWARD"))
        \/ OpenConfirms(Head(toShell), interactive) /\ UNCHANGED <<view, lost>>
        \/ OpenIgnored(Head(toShell), interactive) /\ lost' = TRUE /\ UNCHANGED view
  BY DEF ReceiveOpen
<1>2. CASE OpenIgnored(Head(toShell), interactive) /\ lost' = TRUE /\ UNCHANGED view
  <2>1. /\ toShell # <<>> /\ toShell' = Tail(toShell) /\ lost' = TRUE
        /\ UNCHANGED <<pending, starting, toSession, view, locked, asked>>
    BY <1>2 DEF ReceiveOpen, OpenIgnored, Receives
  <2>2. TypeOK' /\ Grabbing'
    BY <2>1, TailOfShell DEF IInv, TypeOK, SessionTypeOK, Grabbing
  <2> QED BY <2>1, <2>2, Received
<1> QED BY <1>1, <1>2, OpenAsksStep, OpenConfirmsStep

-----------------------------------------------------------------------------
(* The steps of the user *)

LEMMA PressStep == ASSUME IInv, NEW b \in ButtonActions, Press(b) PROVE IInv'
<1>1. Gives
  BY RequestGives, DropGives DEF Press, IInv
<1>2. view' \in Views \cup {NoView} /\ Grabbing'
  BY Hides DEF Press, IInv, TypeOK
<1> QED BY <1>1, <1>2, GiveUp DEF Press

LEMMA CancelStep == IInv /\ Cancel => IInv'
<1> SUFFICES ASSUME IInv, Cancel PROVE IInv'
  OBVIOUS
<1>1. Gives
  BY CancelGives DEF Cancel, CancelAndHide, IInv
<1>2. view' \in Views \cup {NoView} /\ Grabbing'
  BY Hides DEF Cancel, CancelAndHide, IInv, TypeOK
<1> QED BY <1>1, <1>2, GiveUp DEF Cancel

LEMMA CommandStep == ASSUME IInv, NEW a \in Actions, Command(a) PROVE IInv'
<1>1. Gives
  BY RequestGives DEF Command, IInv
<1>2. view' \in Views \cup {NoView} /\ Grabbing'
  BY DEF Command, IInv, TypeOK, Grabbing
<1> QED BY <1>1, <1>2, GiveUp DEF Command

LEMMA RequestDialogStep == ASSUME IInv, NEW a \in Actions, RequestDialog(a) PROVE IInv'
<1>1. ModeOf[a] \in Modes
  BY DEF ModeOf, Modes, Actions
<1>2. Show(ModeOf[a]) /\ UNCHANGED <<pending, starting, toSession, toShell, locked, asked, lost>>
  BY DEF RequestDialog, busVars
<1>3. view' \in Views /\ Grabbing' /\ (OnScreen => OnScreen')
  BY <1>1, <1>2, Shows DEF IInv, TypeOK, OnScreen
<1>4. TypeOK'
  BY <1>2, <1>3 DEF IInv, TypeOK, SessionTypeOK
<1> QED BY <1>2, <1>3, <1>4, Quiet DEF Waits

LEMMA LockScreenStep == IInv /\ LockScreen => IInv'
<1> SUFFICES ASSUME IInv, LockScreen PROVE IInv'
  OBVIOUS
<1>1. Gives
  BY DropGives DEF LockScreen, IInv
<1>2. CASE CanLock \/ locked
  <2>1. view' \in Views \cup {NoView} /\ Grabbing'
    BY <1>2, Hides DEF LockScreen, IInv, TypeOK
  <2> QED BY <1>1, <2>1, GiveUp DEF LockScreen
<1>3. CASE ~(CanLock \/ locked)
  <2>1. view' \in Views \cup {NoView} /\ Grabbing'
    BY <1>3 DEF LockScreen, IInv, TypeOK, Grabbing
  <2> QED BY <1>1, <2>1, GiveUp DEF LockScreen
<1> QED BY <1>2, <1>3

LEMMA LockedChangesStep == IInv /\ LockedChanges => IInv'
<1> SUFFICES ASSUME IInv, LockedChanges PROVE IInv'
  OBVIOUS
<1>1. locked' \in BOOLEAN /\ UNCHANGED <<pending, starting, toSession, toShell, view, asked, lost>>
  BY DEF LockedChanges, busVars
<1>2. TypeOK' /\ Grabbing'
  BY <1>1 DEF IInv, TypeOK, SessionTypeOK, Grabbing
<1> QED BY <1>1, <1>2, Quiet DEF Waits, OnScreen

-----------------------------------------------------------------------------
(* The steps of gnome-session *)

LEMMA HandleSignalStep == IInv /\ HandleSignal => IInv'
<1> SUFFICES ASSUME IInv, HandleSignal PROVE IInv'
  OBVIOUS
<1>1. /\ toSession # <<>> /\ toSession' = Tail(toSession)
      /\ asked' = IF Head(toSession) \in {Canceled, Confirmed(asked)} THEN NONE ELSE asked
      /\ lost' = (lost /\ asked' # NONE) /\ UNCHANGED <<pending, starting, toShell, view, locked>>
  BY DEF HandleSignal
<1>2. /\ toSession' \in Seq(ToSession)
      /\ Answers(toSession, asked) => Answers(toSession', asked) \/ Head(toSession) \in {Canceled, Confirmed(asked)}
  BY <1>1, TailOfSession DEF IInv, TypeOK, SessionTypeOK
<1>3. TypeOK' /\ Grabbing'
  <2>1. SessionTypeOK' /\ asked' \in Actions \cup {NONE} /\ lost' \in BOOLEAN
    BY <1>1, <1>2 DEF IInv, TypeOK, SessionTypeOK
  <2> QED BY <1>1, <2>1 DEF IInv, TypeOK, Grabbing
<1>4. CASE asked' = NONE
  BY <1>3, <1>4 DEF IInv, Held
<1>5. CASE asked' # NONE
  <2>1. asked' = asked /\ Head(toSession) \notin {Canceled, Confirmed(asked)} /\ lost' = lost
    BY <1>1, <1>5 DEF IInv, TypeOK
  <2>2. Waits => Waits'
    BY <1>1 DEF Waits, OnScreen
  <2>3. Answers(toSession, asked) => Answers(toSession', asked)
    BY <1>2, <2>1
  <2> QED BY <1>1, <1>3, <2>1, <2>2, <2>3, Quiet
<1> QED BY <1>4, <1>5

\* A question of its own, or again
LEMMA AsksStep ==
  ASSUME IInv, NEW a \in Actions, Asks(a), toSession' \in Seq(ToSession), UNCHANGED <<pending, starting, view, locked>>
  PROVE  IInv'
<1>1. PICK i \in BOOLEAN : asked' = a /\ lost' = FALSE /\ toShell' = Append(toShell, Open(a, i))
  BY DEF Asks
<1>2. toShell' \in Seq(ToShell) /\ HasOpen(toShell') /\ LastAsks(toShell', a) /\ AsksAgain(toShell')
  BY <1>1, AppendOpen DEF IInv, TypeOK, SessionTypeOK
<1>3. TypeOK' /\ Grabbing'
  BY <1>1, <1>2 DEF IInv, TypeOK, SessionTypeOK, Grabbing
<1> QED BY <1>1, <1>2, <1>3 DEF IInv, Held

LEMMA HandleCallStep == IInv /\ HandleCall => IInv'
<1> SUFFICES ASSUME IInv, HandleCall PROVE IInv'
  OBVIOUS
<1> DEFINE a == Head(toSession).action
<1>1. /\ toSession # <<>> /\ Head(toSession).kind = "Call" /\ toSession' = Tail(toSession)
      /\ UNCHANGED <<pending, starting, view, locked>>
  BY DEF HandleCall
<1>2. /\ Head(toSession) \in ToSession /\ toSession' \in Seq(ToSession)
      /\ Answers(toSession, asked) => Answers(toSession', asked) \/ Head(toSession) \in {Canceled, Confirmed(asked)}
  BY <1>1, TailOfSession DEF IInv, TypeOK, SessionTypeOK
<1>3. a \in Actions
  BY <1>1, <1>2, CallType
<1>4. Answers(toSession, asked) => Answers(toSession', asked)
  BY <1>1, <1>2 DEF Canceled, Confirmed
<1>5. CASE Asks(a)
  BY <1>1, <1>2, <1>3, <1>5, AsksStep
<1>6. CASE toShell' = Append(toShell, Error(a)) /\ UNCHANGED <<asked, lost>>
  <2>1. /\ toShell' \in Seq(ToShell) /\ (HasOpen(toShell) => HasOpen(toShell'))
        /\ LastAsks(toShell, asked) => LastAsks(toShell', asked)
        /\ AsksAgain(toShell) => AsksAgain(toShell')
    BY <1>3, <1>6, AppendError DEF IInv, TypeOK, SessionTypeOK
  <2>2. TypeOK' /\ Grabbing'
    BY <1>1, <1>2, <1>6, <2>1 DEF IInv, TypeOK, SessionTypeOK, Grabbing
  <2>3. Waits => Waits'
    BY <1>1 DEF Waits, OnScreen
  <2> QED BY <1>4, <1>6, <2>1, <2>2, <2>3 DEF IInv, Held
<1>7. CASE UNCHANGED <<toShell, asked, lost>>
  <2>1. TypeOK' /\ Grabbing'
    BY <1>1, <1>2, <1>7 DEF IInv, TypeOK, SessionTypeOK, Grabbing
  <2> QED BY <1>1, <1>4, <1>7, <2>1, Quiet DEF Waits, OnScreen
<1> QED BY <1>5, <1>6, <1>7 DEF HandleCall

LEMMA ClientAsksStep == ASSUME IInv, NEW a \in Actions, ClientAsks(a) PROVE IInv'
BY AsksStep DEF ClientAsks, IInv, TypeOK, SessionTypeOK

LEMMA ClientWithdrawsStep == IInv /\ ClientWithdraws => IInv'
<1> SUFFICES ASSUME IInv, ClientWithdraws PROVE IInv'
  OBVIOUS
<1>1. /\ asked' = NONE /\ lost' = FALSE /\ toShell' = Append(toShell, Close)
      /\ UNCHANGED <<pending, starting, toSession, view, locked>>
  BY DEF ClientWithdraws
<1>2. toShell' \in Seq(ToShell)
  <2>1. Close \in {Close}
    OBVIOUS
  <2>2. Close \in ToShell
    BY <2>1 DEF ToShell
  <2> QED BY <1>1, <2>2 DEF IInv, TypeOK, SessionTypeOK
<1>3. TypeOK' /\ Grabbing'
  <2>1. SessionTypeOK'
    BY <1>1, <1>2 DEF IInv, TypeOK, SessionTypeOK
  <2>2. view' \in Views \cup {NoView} /\ locked' \in BOOLEAN /\ Grabbing'
    BY <1>1 DEF IInv, TypeOK, Grabbing
  <2> QED BY <1>1, <2>1, <2>2 DEF TypeOK
<1> QED BY <1>1, <1>3 DEF IInv, Held

-----------------------------------------------------------------------------
(* The theorems *)

LEMMA NextStep == IInv /\ [Next]_vars => IInv'
<1> SUFFICES ASSUME IInv, [Next]_vars PROVE IInv'
  OBVIOUS
<1>1. CASE CloseWindow
  BY <1>1, CloseWindowStep
<1>2. CASE CancelIdle
  BY <1>2, CancelIdleStep
<1>3. CASE \E a \in Actions : SendsCall(a)
  BY <1>3, SendsCallStep
<1>4. CASE Receive
  BY <1>4, ReceiveOpenStep, ReceiveCloseStep, ReceiveErrorStep DEF Receive
<1>5. CASE \E b \in ButtonActions : Press(b)
  BY <1>5, PressStep
<1>6. CASE Cancel
  BY <1>6, CancelStep
<1>7. CASE \E a \in Actions : Command(a) \/ RequestDialog(a) \/ ClientAsks(a)
  BY <1>7, CommandStep, RequestDialogStep, ClientAsksStep
<1>8. CASE LockScreen
  BY <1>8, LockScreenStep
<1>9. CASE LockedChanges
  BY <1>9, LockedChangesStep
<1>10. CASE HandleSignal
  BY <1>10, HandleSignalStep
<1>11. CASE HandleCall
  BY <1>11, HandleCallStep
<1>12. CASE ClientWithdraws
  BY <1>12, ClientWithdrawsStep
<1>13. CASE UNCHANGED vars
  <2>1. UNCHANGED <<pending, starting, toSession, toShell, view, locked, asked, lost>>
    BY <1>13 DEF vars, busVars
  <2>2. TypeOK' /\ Grabbing'
    BY <2>1 DEF IInv, TypeOK, SessionTypeOK, Grabbing
  <2> QED BY <2>1, <2>2, Quiet DEF Waits, OnScreen
<1> QED BY <1>1, <1>2, <1>3, <1>4, <1>5, <1>6, <1>7, <1>8, <1>9, <1>10, <1>11, <1>12, <1>13 DEF Next

\* Whatever the session allows and however long the queues grow, every message on its way
\* is one the other side knows, and the dialog keeps to its modes and buttons.
THEOREM TypeCorrect == Spec => []TypeOK
<1>1. IInv => TypeOK
  BY DEF IInv
<1> QED BY InitIInv, NextStep, <1>1, PTL DEF Spec

\* No step leaves the grab with a dialog that fades out, which its end would not release.
THEOREM GrabAlwaysFollowsFade == Spec => []GrabFollowsFade
<1>1. IInv => GrabFollowsFade
  BY DEF IInv, Grabbing, GrabFollowsFade
<1> QED BY InitIInv, NextStep, <1>1, PTL DEF Spec

\* A question of gnome-session that was not lost in one of the three known ways is on its
\* way to the shell, on the screen, or its answer is on its way back.
THEOREM AlwaysAnswerable == Spec => []Answerable
<1>1. IInv => Answerable
  BY DEF IInv, Held, Answerable, InFlight, AnswerInFlight, HasOpen, Answers, Waits, OnScreen
<1> QED BY InitIInv, NextStep, <1>1, PTL DEF Spec
=============================================================================
