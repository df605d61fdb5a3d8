-------------------------- MODULE EdgeBarrierProofs --------------------------
(* Proofs about EdgeBarrierController, for any number of monitors: its types, and what
   becomes of a barrier whose release timeout is the timeout of all of them. *)
EXTENDS EdgeBarrierController, TLAPS

\* A record with the one field of NoWrapper is no wrapper.
LEMMA NoWrapperIsNone == NoWrapper \notin Wrappers
<1> SUFFICES ASSUME NoWrapper \in Wrappers PROVE FALSE
  OBVIOUS
<1>1. DOMAIN NoWrapper = {"active"}
  BY DEF NoWrapper
<1>2. "released" \in DOMAIN NoWrapper
  BY DEF Wrappers
<1> QED BY <1>1, <1>2

\* What setting up the barriers gives
LEMMA SetupType ==
  ASSUME NEW rs \in [Barriers -> Wrappers \cup {NoWrapper}], NEW n, NEW o \in Options
  PROVE  SetupBarriers(rs, n, o) \in [Barriers -> Wrappers \cup {NoWrapper}]
<1> SUFFICES ASSUME NEW b \in Barriers
             PROVE  (IF rs[b] = NoWrapper THEN NoWrapper
                     ELSE IF NeedsBarrier(b, n, o)
                          THEN [rs[b] EXCEPT !.active = TRUE, !.direction = Direction(b, o, @)]
                          ELSE [rs[b] EXCEPT !.active = FALSE]) \in Wrappers \cup {NoWrapper}
  BY DEF SetupBarriers
<1>1. CASE rs[b] = NoWrapper
  BY <1>1
<1>2. CASE rs[b] # NoWrapper
  <2>1. rs[b] \in Wrappers
    BY <1>2
  <2>2. Direction(b, o, rs[b].direction) \in {"BOTH", "UP", "DOWN"}
    BY <2>1 DEF Direction, Wrappers
  <2> QED BY <1>2, <2>1, <2>2 DEF Wrappers
<1> QED BY <1>1, <1>2

\* and what it leaves as it was
LEMMA SetupKeeps ==
  ASSUME NEW rs \in [Barriers -> Wrappers \cup {NoWrapper}], NEW n, NEW o \in Options, NEW b \in Barriers,
         SetupBarriers(rs, n, o)[b] # NoWrapper
  PROVE  rs[b] # NoWrapper /\ SetupBarriers(rs, n, o)[b].released = rs[b].released
<1>1. rs[b] # NoWrapper /\ rs[b] \in Wrappers
  BY DEF SetupBarriers
<1>2. SetupBarriers(rs, n, o)[b] =
        IF NeedsBarrier(b, n, o)
        THEN [rs[b] EXCEPT !.active = TRUE, !.direction = Direction(b, o, @)]
        ELSE [rs[b] EXCEPT !.active = FALSE]
  BY <1>1 DEF SetupBarriers
<1> QED BY <1>1, <1>2 DEF Wrappers

-----------------------------------------------------------------------------
(* The handlers *)

\* Types, and the timeout is one of a barrier that is open.
IInv == TypeOK /\ TimesAnOpenOne

\* What every handler does to the barriers and the timeout
Handled ==
  /\ barriers' \in [Barriers -> Wrappers \cup {NoWrapper}]
  /\ timer' \in Barriers \cup {NotRunning, Gone}
  /\ TimesAnOpenOne'
  /\ \A b \in Barriers : LeavesOpen(b)

\* A change of layout, options or subscribers opens nothing, and closes only by destroying.
LEMMA ResetSound ==
  ASSUME IInv, NEW n \in 1..MaxMonitors, NEW o \in Options, ResetBarriers(n, o)
  PROVE  Handled
<1> DEFINE rs == ResizeBarrierList(n, o)
           bs == SetupBarriers(rs, n, o)
<1>1. NewWrapper \in Wrappers /\ ~NewWrapper.released
  BY DEF NewWrapper, Wrappers
<1>2. rs \in [Barriers -> Wrappers \cup {NoWrapper}]
  BY <1>1 DEF ResizeBarrierList, IInv, TypeOK
<1>3. /\ bs \in [Barriers -> Wrappers \cup {NoWrapper}]
      /\ \A b \in Barriers : bs[b] # NoWrapper => rs[b] # NoWrapper /\ bs[b].released = rs[b].released
  <2> HIDE DEF rs
  <2> QED BY <1>2, SetupType, SetupKeeps
<1>4. \A b \in Barriers : rs[b] # NoWrapper => rs[b] = barriers[b] \/ (barriers[b] = NoWrapper /\ rs[b] = NewWrapper)
  BY DEF ResizeBarrierList
<1>5. \A b \in Barriers : rs[b] # NoWrapper /\ Has(b) => rs[b] = barriers[b]
  BY <1>4 DEF Has
<1>6. barriers' = bs /\ timer' = IF timer \in Barriers /\ bs[timer] = NoWrapper THEN Gone ELSE timer
  BY DEF ResetBarriers
<1>7. Gone \notin Barriers
  BY DEF Gone, Barriers, Orientations
<1> HIDE DEF rs, bs
<1>8. TimesAnOpenOne'
  <2> SUFFICES ASSUME timer' \in Barriers PROVE Open(timer)'
    BY DEF TimesAnOpenOne
  <2>1. timer' = timer /\ bs[timer] # NoWrapper
    BY <1>6, <1>7
  <2>2. Has(timer) /\ barriers[timer].released
    BY <2>1 DEF IInv, TimesAnOpenOne, Open
  <2>3. bs[timer].released
    BY <2>1, <2>2, <1>3, <1>5
  <2> QED BY <2>1, <2>3, <1>6 DEF Open, Has
<1>9. ASSUME NEW b \in Barriers, Untimed(b)'
      PROVE  Untimed(b)
  <2>1. bs[b] # NoWrapper /\ bs[b].released /\ timer' # b
    BY <1>6, <1>9 DEF Untimed, Open, Has
  <2>2. rs[b] # NoWrapper /\ rs[b].released
    BY <1>3, <2>1
  <2>3. Open(b)
    BY <1>1, <1>4, <2>2 DEF Open, Has
  <2>4. timer # b
    BY <1>6, <2>1
  <2> QED BY <2>3, <2>4 DEF Untimed
<1> QED BY <1>3, <1>6, <1>8, <1>9 DEF Handled, LeavesOpen, IInv, TypeOK

\* The barriers bs are those of the state, except for the push that b is in.
SameBut(bs, b) ==
  /\ bs \in [Barriers -> Wrappers \cup {NoWrapper}]
  /\ bs[b] # NoWrapper
  /\ bs[b].released = barriers[b].released
  /\ \A c \in Barriers \ {b} : bs[c] = barriers[c]

\* A push that breaks nothing
LEMMA QuietSound ==
  ASSUME IInv, NEW b \in Barriers, Has(b), NEW bs, SameBut(bs, b), barriers' = bs, UNCHANGED timer
  PROVE  Handled
<1>1. \A c \in Barriers : bs[c] # NoWrapper <=> barriers[c] # NoWrapper
  BY DEF SameBut, Has
<1>2. \A c \in Barriers : bs[c].released = barriers[c].released
  BY DEF SameBut
<1>3. \A c \in Barriers : Open(c)' <=> Open(c)
  BY <1>1, <1>2 DEF Open, Has
<1>4. TimesAnOpenOne'
  BY <1>3 DEF TimesAnOpenOne, IInv, Open, Has
<1> QED BY <1>3, <1>4 DEF Handled, LeavesOpen, Untimed, SameBut, IInv, TypeOK

\* A release opens one barrier; the timeout goes to it, or stays where it runs.
LEMMA ReleaseSound ==
  ASSUME IInv, NEW b \in Barriers, NEW bs \in [Barriers -> Wrappers \cup {NoWrapper}], bs[b] # NoWrapper,
         \A c \in Barriers \ {b} : bs[c] = barriers[c], BarrierRelease(bs, b)
  PROVE  Handled /\ pressure' \in 0..Overcome
<1>1. bs[b] \in Wrappers
  OBVIOUS
<1> DEFINE w == [bs[b] EXCEPT !.released = TRUE]
<1>2. w \in Wrappers /\ w.released /\ w.release_once = bs[b].release_once /\ w # NoWrapper
  BY <1>1, NoWrapperIsNone DEF Wrappers
<1>3. barriers' = [bs EXCEPT ![b] = w] /\ pressure' = 0
      /\ timer' = IF ~bs[b].release_once \/ timer = NotRunning THEN b ELSE timer
  BY DEF BarrierRelease
<1> HIDE DEF w
<1>4. /\ barriers' \in [Barriers -> Wrappers \cup {NoWrapper}]
      /\ barriers'[b] = w
      /\ \A c \in Barriers \ {b} : barriers'[c] = barriers[c]
  BY <1>2, <1>3
<1>5. Open(b)' /\ \A c \in Barriers \ {b} : Open(c)' <=> Open(c)
  BY <1>2, <1>4 DEF Open, Has
<1>6. TimesAnOpenOne'
  <2>1. CASE timer' = b
    BY <1>5, <2>1 DEF TimesAnOpenOne, Open, Has
  <2>2. CASE timer' # b
    <3>1. timer' = timer
      BY <1>3, <2>2
    <3> QED BY <1>5, <2>2, <3>1 DEF TimesAnOpenOne, IInv, Open, Has
  <2> QED BY <2>1, <2>2
<1>7. ASSUME NEW c \in Barriers, Untimed(c)'
      PROVE  LeavesOpen(c)
  <2>1. CASE c = b
    <3>1. timer' # b
      BY <1>7, <2>1 DEF Untimed
    <3>2. bs[b].release_once /\ timer # NotRunning /\ timer' = timer
      BY <1>3, <3>1
    <3> QED BY <1>2, <1>4, <2>1, <3>2 DEF LeavesOpen
  <2>2. CASE c # b
    <3>1. Open(c) /\ timer' # c
      BY <1>5, <1>7, <2>2 DEF Untimed
    <3>2. timer' = timer \/ timer' = b
      BY <1>3
    <3> QED BY <2>2, <3>1, <3>2 DEF LeavesOpen, Untimed
  <2> QED BY <2>1, <2>2
<1>8. 0 \in 0..Overcome
  BY EdgeAssumption
<1> QED BY <1>3, <1>4, <1>6, <1>7, <1>8 DEF Handled, LeavesOpen, IInv, TypeOK

\* Whatever the subscriber answers to a push
LEMMA EventSound ==
  ASSUME IInv, NEW b \in Barriers, Has(b), NEW bs, SameBut(bs, b),
         NEW velocity \in Velocities, NEW place \in Places, OnPointerBarrierEvent(bs, b, velocity, place)
  PROVE  Handled /\ pressure' \in 0..Overcome /\ zone' \in [Orientations -> Places]
<1>0. bs \in [Barriers -> Wrappers \cup {NoWrapper}] /\ bs[b] # NoWrapper
      /\ \A c \in Barriers \ {b} : bs[c] = barriers[c]
  BY DEF SameBut
<1>1. CASE BarrierRelease(bs, b) /\ UNCHANGED zone
  BY <1>0, <1>1, ReleaseSound DEF IInv, TypeOK
<1>2. CASE barriers' = bs /\ pressure' = 0 /\ UNCHANGED <<zone, timer>>
  <2>1. 0 \in 0..Overcome
    BY EdgeAssumption
  <2> QED BY <1>2, <2>1, QuietSound DEF IInv, TypeOK
<1>3. CASE BarrierPush(bs, b, velocity, place)
  <2> DEFINE centre == IF pressure = 0 THEN place ELSE zone[b[1]]
             sum    == IF place = centre THEN pressure + velocity ELSE 0
  <2>1. b[1] \in Orientations
    BY DEF Barriers
  <2>2. centre \in Places /\ sum \in Nat
    BY <2>1, EdgeAssumption DEF IInv, TypeOK, Velocities
  <2>3. zone' \in [Orientations -> Places]
    BY <1>3, <2>1, <2>2 DEF BarrierPush, IInv, TypeOK
  <2>4. CASE sum > Overcome
    <3>1. BarrierRelease(bs, b)
      BY <1>3, <2>4 DEF BarrierPush
    <3> QED BY <1>0, <2>3, <3>1, ReleaseSound
  <2>5. CASE ~(sum > Overcome)
    <3>1. barriers' = bs /\ pressure' = sum /\ UNCHANGED timer
      BY <1>3, <2>5 DEF BarrierPush
    <3>2. sum \in 0..Overcome
      BY <2>2, <2>5, EdgeAssumption
    <3> QED BY <2>3, <3>1, <3>2, QuietSound
  <2> QED BY <2>4, <2>5
<1>4. CASE BarrierRelease([bs EXCEPT ![b].release_once = TRUE], b) /\ UNCHANGED zone
  <2> DEFINE cs == [bs EXCEPT ![b].release_once = TRUE]
  <2>1. [bs[b] EXCEPT !.release_once = TRUE] \in Wrappers
    BY <1>0 DEF Wrappers
  <2>2. cs \in [Barriers -> Wrappers \cup {NoWrapper}] /\ cs[b] # NoWrapper
        /\ \A c \in Barriers \ {b} : cs[c] = barriers[c]
    BY <1>0, <2>1, NoWrapperIsNone
  <2> HIDE DEF cs
  <2> QED BY <1>4, <2>2, ReleaseSound DEF cs, IInv, TypeOK
<1> QED BY <1>1, <1>2, <1>3, <1>4 DEF OnPointerBarrierEvent

\* The pointer hits a barrier, or the push it is in is summed up.
LEMMA BarrierEventSound ==
  ASSUME IInv, BarrierEvent
  PROVE  Handled /\ pressure' \in 0..Overcome /\ zone' \in [Orientations -> Places]
<1>1. ASSUME NEW b \in Barriers, NEW value \in BOOLEAN, Has(b)
      PROVE  SameBut([barriers EXCEPT ![b].smoothing = value], b)
  <2>1. barriers[b] \in Wrappers
    BY <1>1 DEF IInv, TypeOK, Has
  <2>2. /\ [barriers[b] EXCEPT !.smoothing = value] \in Wrappers
        /\ [barriers[b] EXCEPT !.smoothing = value].released = barriers[b].released
    BY <2>1 DEF Wrappers
  <2> QED BY <2>2, NoWrapperIsNone DEF IInv, TypeOK, SameBut
<1>2. PICK b \in Barriers :
        \/ HitFast(b)
        \/ HitAgain(b)
        \/ \E velocity \in Velocities, place \in Places :
             \/ HitReleased(b, velocity, place)
             \/ HitFirst(b, velocity, place)
             \/ EmitCurrentData(b, velocity, place)
  BY DEF BarrierEvent
<1>3. CASE HitFast(b) \/ HitAgain(b)
  <2>1. Has(b) /\ UNCHANGED <<pressure, zone, timer>>
    BY <1>3 DEF HitFast, HitAgain
  <2>2. PICK value \in BOOLEAN : barriers' = [barriers EXCEPT ![b].smoothing = value]
    BY <1>3 DEF HitFast, HitAgain
  <2> QED BY <1>1, <2>1, <2>2, QuietSound DEF IInv, TypeOK
<1>4. ASSUME NEW velocity \in Velocities, NEW place \in Places,
             \/ HitReleased(b, velocity, place)
             \/ HitFirst(b, velocity, place)
             \/ EmitCurrentData(b, velocity, place)
      PROVE  Handled /\ pressure' \in 0..Overcome /\ zone' \in [Orientations -> Places]
  <2>1. Has(b)
    BY <1>4 DEF HitReleased, HitFirst, EmitCurrentData
  <2>2. PICK value \in BOOLEAN : OnPointerBarrierEvent([barriers EXCEPT ![b].smoothing = value], b, velocity, place)
    BY <1>4 DEF HitReleased, HitFirst, EmitCurrentData
  <2> QED BY <1>1, <2>1, <2>2, EventSound
<1> QED BY <1>2, <1>3, <1>4

\* The timeout closes the barrier it was started for.
LEMMA TimeoutSound == ASSUME IInv, ReleaseTimeout PROVE Handled
<1>1. timer' = NotRunning /\ timer # NotRunning /\ NotRunning \notin Barriers
  BY DEF ReleaseTimeout, NotRunning, Barriers, Orientations
<1>2. TimesAnOpenOne'
  BY <1>1 DEF TimesAnOpenOne
<1>3. CASE timer = Gone
  <2>1. barriers' = barriers /\ Gone \notin Barriers
    BY <1>3 DEF ReleaseTimeout, Gone, Barriers, Orientations
  <2>2. ASSUME NEW b \in Barriers, Untimed(b)' PROVE Untimed(b)
    BY <1>3, <2>1, <2>2 DEF Untimed, Open, Has
  <2> QED BY <1>1, <1>2, <2>1, <2>2 DEF Handled, LeavesOpen, IInv, TypeOK
<1>4. CASE timer # Gone
  <2>1. timer \in Barriers /\ barriers[timer] \in Wrappers
    BY <1>1, <1>4 DEF IInv, TypeOK, TimesAnOpenOne, Open, Has
  <2> DEFINE w == [barriers[timer] EXCEPT !.released = FALSE, !.release_once = FALSE]
  <2>2. w \in Wrappers /\ ~w.released
    BY <2>1 DEF Wrappers
  <2>3. barriers' = [barriers EXCEPT ![timer] = w]
    BY <1>4, <2>1 DEF ReleaseTimeout, IInv, TypeOK
  <2> HIDE DEF w
  <2>4. /\ barriers' \in [Barriers -> Wrappers \cup {NoWrapper}]
        /\ barriers'[timer] = w
        /\ \A b \in Barriers \ {timer} : barriers'[b] = barriers[b]
    BY <2>1, <2>2, <2>3 DEF IInv, TypeOK
  <2>5. ASSUME NEW b \in Barriers, Untimed(b)' PROVE Untimed(b)
    <3>1. b # timer
      BY <2>2, <2>4, <2>5 DEF Untimed, Open
    <3> QED BY <2>4, <2>5, <3>1 DEF Untimed, Open, Has
  <2> QED BY <1>1, <1>2, <2>4, <2>5 DEF Handled, LeavesOpen
<1> QED BY <1>3, <1>4

-----------------------------------------------------------------------------
(* The theorems *)

LEMMA InitSound == Init => IInv
<1> SUFFICES ASSUME Init PROVE IInv
  OBVIOUS
<1> DEFINE rs == [b \in Barriers |-> IF b[2] > monitors THEN NoWrapper ELSE NewWrapper]
<1>1. rs \in [Barriers -> Wrappers \cup {NoWrapper}]
  BY DEF NewWrapper, Wrappers
<1>2. monitors \in 1..MaxMonitors /\ options \in Options
  BY DEF Init
<1>3. SetupBarriers(rs, monitors, options) \in [Barriers -> Wrappers \cup {NoWrapper}]
  <2> HIDE DEF rs
  <2> QED BY <1>1, <1>2, SetupType
<1>4. 0 \in 0..Overcome
  BY EdgeAssumption
<1>5. NotRunning \notin Barriers
  BY DEF NotRunning, Barriers, Orientations
<1> QED BY <1>2, <1>3, <1>4, <1>5 DEF Init, IInv, TypeOK, TimesAnOpenOne, Places, Orientations

LEMMA NextSound == IInv /\ [Next]_vars => IInv' /\ \A b \in Barriers : LeavesOpen(b)
<1> SUFFICES ASSUME IInv, [Next]_vars PROVE IInv' /\ \A b \in Barriers : LeavesOpen(b)
  OBVIOUS
<1>1. CASE LayoutChanges
  <2>1. PICK n \in 1..MaxMonitors : monitors' = n /\ ResetBarriers(n, options)
    BY <1>1 DEF LayoutChanges
  <2> QED BY <1>1, <2>1, ResetSound DEF LayoutChanges, Handled, IInv, TypeOK
<1>2. CASE OptionsChange
  <2>1. PICK o \in Options : options' = o /\ ResetBarriers(monitors, o)
    BY <1>2 DEF OptionsChange
  <2> QED BY <1>2, <2>1, ResetSound DEF OptionsChange, Handled, IInv, TypeOK
<1>3. CASE SubscribersChange
  BY <1>3, ResetSound, ClientsAssumption DEF SubscribersChange, Handled, IInv, TypeOK
<1>4. CASE BarrierEvent
  BY <1>4, BarrierEventSound DEF BarrierEvent, Handled, IInv, TypeOK
<1>5. CASE ReleaseTimeout
  BY <1>5, TimeoutSound DEF ReleaseTimeout, Handled, IInv, TypeOK
<1>6. CASE DecayTick
  <2>1. pressure \in Nat /\ Decay \in Nat /\ Overcome \in Nat
    BY EdgeAssumption DEF IInv, TypeOK
  <2>2. pressure' \in 0..Overcome
    BY <1>6, <2>1 DEF DecayTick, IInv, TypeOK
  <2> QED BY <1>6, <2>2 DEF DecayTick, IInv, TypeOK, TimesAnOpenOne, LeavesOpen, Untimed, Open, Has
<1>7. CASE UNCHANGED vars
  BY <1>7 DEF vars, IInv, TypeOK, TimesAnOpenOne, LeavesOpen, Untimed, Open, Has
<1> QED BY <1>1, <1>2, <1>3, <1>4, <1>5, <1>6, <1>7 DEF Next

\* Every variable keeps its type, for any number of monitors, thresholds and options.
THEOREM TypeCorrect == Spec => []TypeOK
<1>1. Spec => []IInv
  BY InitSound, NextSound, PTL DEF Spec
<1>2. IInv => TypeOK
  BY DEF IInv
<1> QED BY <1>1, <1>2, PTL

\* EdgeBarrierController.cpp:368: with any number of monitors, the one timeout closes an
\* open barrier, and a barrier loses it only to another barrier that opens.
THEOREM TimeoutHandedOnHolds == Spec => TimeoutHandedOn
<1>1. Spec => []IInv
  BY InitSound, NextSound, PTL DEF Spec
<1>2. IInv => TimesAnOpenOne
  BY DEF IInv
<1>3. IInv /\ [Next]_vars => [\A b \in Barriers : LeavesOpen(b)]_vars
  BY NextSound
<1> QED BY <1>1, <1>2, <1>3, PTL DEF Spec, TimeoutHandedOn
=============================================================================
