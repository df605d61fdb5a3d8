-------------------------- MODULE LockScreenProofs --------------------------
(***************************************************************************)
(* Type correctness of the lock screen and the invariant Lifecycle, for    *)
(* every number of monitors, every set of stimuli and every bound; then    *)
(* its input grab and the refinement of SessionLock; then what is on the   *)
(* screen, and that a machine that sleeps is covered.                      *)
(*                                                                         *)
(* Most methods of the controller leave alone what Lifecycle is about:     *)
(* Keeps(s, t) says so of a call from s to t.  The lemmas go through the   *)
(* methods bottom up; the theorem then has one step per action.            *)
(***************************************************************************)
EXTENDS LockScreenProperties, TLAPS

KeepsLock(s, t) ==
  /\ t.shields = s.shields
  /\ t.primary = s.primary
  /\ t.conn = s.conn
  /\ t.lockInput = s.lockInput
  /\ t.following = s.following
  /\ t.target = s.target
  /\ t.lockTimer = s.lockTimer
  /\ t.isLocked => s.isLocked \/ s.conn # None

Keeps(s, t) == KeepsLock(s, t) /\ t.anim["fade"] = s.anim["fade"]

Step(s, t) == LockState(t) /\ Keeps(s, t)

LEMMA StepReflexive == ASSUME NEW s, LockState(s) PROVE Step(s, s)
  BY DEF Step, Keeps, KeepsLock

LEMMA StepTransitive ==
  ASSUME NEW s, NEW t, NEW u, Step(s, t), Step(t, u)
  PROVE  Step(s, u)
  BY DEF Step, Keeps, KeepsLock

-----------------------------------------------------------------------------
(* Grabs and shields.                                                      *)

USE DEF Monitors, None, BlankArea

LEMMA GrabAddStep ==
  ASSUME NEW s, LockState(s), NEW area \in 0..MaxMonitors
  PROVE  Step(s, GrabAdd(s, area))
<1>1. CASE CanGrab(s)
  BY <1>1 DEF GrabAdd, Step, Keeps, KeepsLock, LockState, Fields, ShieldTypes, LockTypes, BlankTypes, SleepTypes
<1>2. CASE ~CanGrab(s)
  BY <1>2, StepReflexive DEF GrabAdd
<1> QED BY <1>1, <1>2

LEMMA UnGrabStep ==
  ASSUME NEW s, LockState(s), NEW areas
  PROVE  Step(s, UnGrab(s, areas))
  BY DEF UnGrab, Step, Keeps, KeepsLock, LockState, Fields, ShieldTypes, LockTypes, BlankTypes, SleepTypes

LEMMA GrabScreenStep ==
  ASSUME NEW s, LockState(s), NEW i \in Monitors, NEW cancel \in BOOLEAN
  PROVE  Step(s, GrabScreen(s, i, cancel))
<1>1. CASE CanGrab(s)
  <2> DEFINE t == GrabAdd(s, i)
  <2>1. Step(s, t)
    BY GrabAddStep
  <2> HIDE DEF t
  <2>2. Step(t, [t EXCEPT !.regrab = @ \ {i}, !.failTimer = @ \ {i}, !.isLocked = @ \/ t.conn = i])
    BY <2>1 DEF Step, Keeps, KeepsLock, LockState, Fields, ShieldTypes, LockTypes, BlankTypes, SleepTypes
  <2>3. GrabScreen(s, i, cancel) = [t EXCEPT !.regrab = @ \ {i}, !.failTimer = @ \ {i}, !.isLocked = @ \/ t.conn = i]
    BY <1>1, <2>1 DEF GrabScreen, Step, Keeps, KeepsLock, t
  <2> QED BY <2>1, <2>2, <2>3, StepTransitive
<1>2. CASE ~CanGrab(s)
  BY <1>2 DEF GrabScreen, Step, Keeps, KeepsLock, LockState, Fields, ShieldTypes, LockTypes, BlankTypes, SleepTypes
<1> QED BY <1>1, <1>2

LEMMA ShowPrimaryViewStep ==
  ASSUME NEW s, LockState(s), NEW i \in Monitors
  PROVE  Step(s, ShowPrimaryView(s, i))
<1> DEFINE t == [s EXCEPT !.built = @ \cup {i}]
<1>1. Step(s, t)
  BY DEF Step, Keeps, KeepsLock, LockState, Fields, ShieldTypes, LockTypes, BlankTypes, SleepTypes
<1> HIDE DEF t
<1>2. Step(s, GrabScreen(t, i, TRUE))
  BY <1>1, GrabScreenStep, StepTransitive DEF Step
<1> QED BY <1>2, GrabScreenStep DEF ShowPrimaryView, t

LEMMA DemoteStep ==
  ASSUME NEW s, LockState(s), NEW i
  PROVE  Step(s, Demote(s, i))
  BY DEF Demote, Step, Keeps, KeepsLock, LockState, Fields, ShieldTypes, LockTypes, BlankTypes, SleepTypes

LEMMA PromoteStep ==
  ASSUME NEW s, LockState(s), NEW i \in Monitors
  PROVE  Step(s, Promote(s, i))
<1>1. Step(s, Demote(s, i))
  BY DemoteStep
<1>2. Step(Demote(s, i), Promote(s, i))
  BY <1>1, ShowPrimaryViewStep DEF Promote, Step
<1> QED BY <1>1, <1>2, StepTransitive

LEMMA PanelActiveStep ==
  ASSUME NEW s, LockState(s), NEW i \in Monitors
  PROVE  Step(s, PanelActive(s, i))
<1> DEFINE t == [s EXCEPT !.panels = @ \cup {i}]
<1>1. Step(s, t)
  BY DEF Step, Keeps, KeepsLock, LockState, Fields, ShieldTypes, LockTypes, BlankTypes, SleepTypes
<1> HIDE DEF t
<1>2. Step(s, Demote(t, i))
  BY <1>1, DemoteStep, StepTransitive DEF Step
<1>3. Step(s, UnGrab(Demote(t, i), {i}))
  BY <1>2, UnGrabStep, StepTransitive DEF Step
<1> QED BY <1>1, <1>3 DEF PanelActive, t

LEMMA PanelInactiveStep ==
  ASSUME NEW s, LockState(s), NEW i \in Monitors
  PROVE  Step(s, PanelInactive(s, i))
<1> DEFINE t == [s EXCEPT !.panels = @ \ {i}]
<1>1. Step(s, t)
  BY DEF Step, Keeps, KeepsLock, LockState, Fields, ShieldTypes, LockTypes, BlankTypes, SleepTypes
<1> HIDE DEF t
<1>2. Step(s, GrabScreen(t, i, FALSE))
  BY <1>1, GrabScreenStep, StepTransitive DEF Step
<1> QED BY <1>1, <1>2 DEF PanelInactive, t

LEMMA ScreenUngrabbedStep ==
  ASSUME NEW s, LockState(s)
  PROVE  Step(s, ScreenUngrabbed(s))
<1>1. CASE s.regrab = {}
  BY <1>1, StepReflexive DEF ScreenUngrabbed
<1>2. CASE s.regrab # {}
  <2> DEFINE i == CHOOSE j \in s.regrab : TRUE
  <2>1. i \in Monitors
    BY <1>2 DEF LockState, ShieldTypes
  <2> HIDE DEF i
  <2>2. Step(s, GrabScreen(s, i, FALSE))
    BY <2>1, GrabScreenStep
  <2> QED BY <1>2, <2>2 DEF ScreenUngrabbed, i
<1> QED BY <1>1, <1>2

\* The shields gone take the role of the primary with them.
LEMMA DestroyShieldsTypes ==
  ASSUME NEW s, LockState(s), NEW gone
  PROVE  /\ LockState(DestroyShields(s, gone))
         /\ Keeps([s EXCEPT !.primary = IF s.primary \in gone THEN None ELSE s.primary,
                            !.conn = IF s.conn \in gone THEN None ELSE s.conn], DestroyShields(s, gone))
<1> DEFINE t == DestroyShields(s, gone)
<1>1. ShieldTypes(t)
  BY MaxMonitorsAssumption DEF DestroyShields, LockState, Fields, ShieldTypes
<1>2. LockTypes(t)
  BY DEF DestroyShields, LockState, Fields, LockTypes
<1>3. BlankTypes(t)
  BY DEF DestroyShields, LockState, Fields, BlankTypes
<1>4. SleepTypes(t) /\ DOMAIN t = Fields
  BY DEF DestroyShields, LockState, Fields, SleepTypes
<1>5. Keeps([s EXCEPT !.primary = IF s.primary \in gone THEN None ELSE s.primary,
                      !.conn = IF s.conn \in gone THEN None ELSE s.conn], t)
  BY DEF DestroyShields, LockState, Fields, Keeps, KeepsLock
<1> QED BY <1>1, <1>2, <1>3, <1>4, <1>5 DEF LockState

-----------------------------------------------------------------------------
(* The inhibitor and the painting.                                         *)

LEMMA InhibitorTypes ==
  ASSUME NEW m \in InhibitorType
  PROVE  /\ Inhibit(m) \in InhibitorType
         /\ Uninhibit(m) \in InhibitorType
         /\ m.calls > 0 => InhibitReply(m) \in InhibitorType /\ InhibitFailed(m) \in InhibitorType
<1>0. Uninhibit(m) \in InhibitorType
  BY DEF InhibitorType, Uninhibit
<1>1. Inhibit(m) \in InhibitorType
  <2>1. [m EXCEPT !.calls = @ + 1] \in InhibitorType
    BY DEF InhibitorType
  <2> QED BY <2>1 DEF Inhibit
<1>2. m.calls > 0 => m.calls - 1 \in Nat
  BY DEF InhibitorType
<1>3. (m.leaked \/ m.held) \in BOOLEAN
  OBVIOUS
<1>4. ASSUME m.calls > 0 PROVE InhibitReply(m) \in InhibitorType
  BY <1>2, <1>3, <1>4 DEF InhibitorType, InhibitReply
<1>5. ASSUME m.calls > 0 PROVE InhibitFailed(m) \in InhibitorType
  BY <1>2, <1>5 DEF InhibitorType, InhibitFailed
<1> QED BY <1>0, <1>1, <1>4, <1>5

LEMMA SleepFieldsStep ==
  ASSUME NEW s, LockState(s), NEW m \in InhibitorType, NEW b \in BOOLEAN, NEW c \in BOOLEAN
  PROVE  /\ Step(s, [s EXCEPT !.inh = m])
         /\ Step(s, [s EXCEPT !.synced = b])
         /\ Step(s, [s EXCEPT !.inh = m, !.synced = b])
         /\ Step(s, [s EXCEPT !.bufferCleared = b])
         /\ Step(s, [s EXCEPT !.bufferCleared = b, !.paintInhibited = c])
         /\ Step(s, [s EXCEPT !.sessionActive = b])
         /\ Step(s, [s EXCEPT !.lockOnSuspend = b])
         /\ Step(s, [s EXCEPT !.useLegacy = b])
  BY DEF Step, Keeps, KeepsLock, LockState, Fields, ShieldTypes, LockTypes, BlankTypes, SleepTypes

LEMMA SyncInhibitorStep ==
  ASSUME NEW s, LockState(s)
  PROVE  Step(s, SyncInhibitor(s))
<1> DEFINE t == [s EXCEPT !.synced = TRUE]
<1>1. Step(s, t)
  BY SleepFieldsStep DEF LockState, SleepTypes
<1> HIDE DEF t
<1>2. t.inh \in InhibitorType
  BY <1>1 DEF Step, LockState, SleepTypes
<1>3. Step(t, [t EXCEPT !.inh = Inhibit(@)]) /\ Step(t, [t EXCEPT !.inh = Uninhibit(@)])
  <2>1. Inhibit(t.inh) \in InhibitorType /\ Uninhibit(t.inh) \in InhibitorType
    BY <1>2, InhibitorTypes
  <2> QED BY <1>1, <2>1 DEF Step, Keeps, KeepsLock, LockState, Fields, ShieldTypes, LockTypes, BlankTypes, SleepTypes
<1> QED BY <1>1, <1>3, StepTransitive DEF SyncInhibitor, t

LEMMA PaintStep ==
  ASSUME NEW s, LockState(s)
  PROVE  /\ Step(s, InhibitPaint(s))
         /\ Step(s, UninhibitPaint(s))
         /\ Step(s, MarkBufferHasCleared(s))
<1>1. Step(s, [s EXCEPT !.bufferCleared = FALSE, !.paintInhibited = TRUE])
  BY DEF Step, Keeps, KeepsLock, LockState, Fields, ShieldTypes, LockTypes, BlankTypes, SleepTypes
<1> DEFINE t == [s EXCEPT !.bufferCleared = TRUE, !.paintInhibited = FALSE]
           u == [s EXCEPT !.bufferCleared = TRUE]
<1>2. Step(s, t) /\ Step(s, u)
  BY DEF Step, Keeps, KeepsLock, LockState, Fields, ShieldTypes, LockTypes, BlankTypes, SleepTypes
<1> HIDE DEF t, u
<1>3. Step(s, SyncInhibitor(t)) /\ Step(s, SyncInhibitor(u))
  BY <1>2, SyncInhibitorStep, StepTransitive DEF Step
<1> QED BY <1>1, <1>3, StepReflexive DEF InhibitPaint, UninhibitPaint, MarkBufferHasCleared, t, u

-----------------------------------------------------------------------------
(* Animations.                                                             *)

USE DEF Clear, Partial, Full, Values, Ends

\* A record of the animation `a' replaced; the fade of the shields is kept
\* when a is the blank window's.
LEMMA AnimTypes ==
  ASSUME NEW s, LockState(s), NEW a \in Animators
  PROVE  /\ s.anim[a] \in Animation
         /\ s.anim[a].running \in BOOLEAN
         /\ s.anim[a].from \in Ends
         /\ s.anim[a].to \in Ends
         /\ s.anim[a].val \in Values
  BY DEF LockState, BlankTypes, Animation

LEMMA AnimUpdate ==
  ASSUME NEW s, LockState(s), NEW a \in Animators,
         NEW r \in BOOLEAN, NEW x \in Ends, NEW y \in Ends, NEW v \in Values
  PROVE  /\ LockState([s EXCEPT !.anim[a].running = r])
         /\ LockState([s EXCEPT !.anim[a].val = v])
         /\ LockState([s EXCEPT !.anim[a].from = x])
         /\ LockState([s EXCEPT !.anim[a].from = x, !.anim[a].to = y])
<1>1. /\ [s.anim EXCEPT ![a].running = r] \in [Animators -> Animation]
      /\ [s.anim EXCEPT ![a].val = v] \in [Animators -> Animation]
      /\ [s.anim EXCEPT ![a].from = x] \in [Animators -> Animation]
  BY DEF LockState, BlankTypes, Animation
<1>2. [s.anim EXCEPT ![a].from = x, ![a].to = y] \in [Animators -> Animation]
  BY DEF LockState, BlankTypes, Animation
<1> QED BY <1>1, <1>2 DEF LockState, Fields, ShieldTypes, LockTypes, BlankTypes, SleepTypes

\* A call that changes nothing but the animation `a' itself.
LEMMA AnimUpdateKeeps ==
  ASSUME NEW s, LockState(s), NEW a \in Animators,
         NEW r, NEW x, NEW y, NEW v
  PROVE  /\ KeepsLock(s, [s EXCEPT !.anim[a].running = r])
         /\ KeepsLock(s, [s EXCEPT !.anim[a].val = v])
         /\ KeepsLock(s, [s EXCEPT !.anim[a].from = x])
         /\ KeepsLock(s, [s EXCEPT !.anim[a].from = x, !.anim[a].to = y])
  BY DEF LockState, Fields, KeepsLock

LEMMA AnimUpdateOther ==
  ASSUME NEW s, LockState(s), NEW r, NEW x, NEW y, NEW v
  PROVE  /\ [s EXCEPT !.anim["blank"].running = r].anim["fade"] = s.anim["fade"]
         /\ [s EXCEPT !.anim["blank"].val = v].anim["fade"] = s.anim["fade"]
         /\ [s EXCEPT !.anim["blank"].from = x].anim["fade"] = s.anim["fade"]
         /\ [s EXCEPT !.anim["blank"].from = x, !.anim["blank"].to = y].anim["fade"] = s.anim["fade"]
  BY DEF LockState, Fields, BlankTypes, Animators

LEMMA BlankWindowGrabEnableStep ==
  ASSUME NEW s, LockState(s), NEW grab \in BOOLEAN
  PROVE  Step(s, BlankWindowGrabEnable(s, grab))
<1> DEFINE t == [s EXCEPT !.blankInput = grab]
<1>1. Step(s, t)
  BY DEF Step, Keeps, KeepsLock, LockState, Fields, ShieldTypes, LockTypes, BlankTypes, SleepTypes
<1> HIDE DEF t
<1>2. Step(s, UnGrab(t, {BlankArea}))
  BY <1>1, UnGrabStep, StepTransitive DEF Step
<1>3. s.primary \in 0..MaxMonitors /\ BlankArea \in 0..MaxMonitors
  BY MaxMonitorsAssumption DEF LockState, ShieldTypes
<1>4. Step(s, GrabAdd(t, BlankArea)) /\ Step(s, GrabAdd(t, s.primary))
  BY <1>1, <1>3, GrabAddStep, StepTransitive DEF Step
<1> QED BY <1>1, <1>2, <1>4, StepReflexive DEF BlankWindowGrabEnable, t

LEMMA OnBlankFinishedStep ==
  ASSUME NEW s, LockState(s)
  PROVE  Step(s, OnBlankFinished(s))
<1> DEFINE isShown == s.anim["blank"].val = Full
           t == BlankWindowGrabEnable(s, isShown)
           delayed == isShown /\ s.lockOnBlank
<1>1. Step(s, t)
  BY BlankWindowGrabEnableStep
<1>2. isShown \in BOOLEAN /\ delayed \in BOOLEAN
  OBVIOUS
<1>3. OnBlankFinished(s) = [t EXCEPT !.active = isShown, !.delayTimer = delayed]
  BY DEF OnBlankFinished
<1> HIDE DEF t, isShown, delayed
<1>4. Step(t, [t EXCEPT !.active = isShown, !.delayTimer = delayed])
  BY <1>1, <1>2 DEF Step, Keeps, KeepsLock, LockState, Fields, ShieldTypes, LockTypes, BlankTypes, SleepTypes
<1> QED BY <1>1, <1>3, <1>4, StepTransitive

\* What the end of the fade-out leaves of the lock
Removed(s, t) ==
  /\ t.shields = 0 /\ t.primary = None /\ t.conn = None
  /\ ~t.lockInput /\ ~t.following /\ ~t.target /\ ~t.isLocked
  /\ t.lockTimer = s.lockTimer

LEMMA RemoveShieldsLemma ==
  ASSUME NEW s, LockState(s)
  PROVE  /\ LockState(RemoveShields(s))
         /\ Removed(s, RemoveShields(s))
         /\ RemoveShields(s).anim["fade"] = s.anim["fade"]
<1> DEFINE t == DestroyShields(s, Monitors)
           u == [t EXCEPT !.shields = 0, !.lockInput = FALSE, !.following = FALSE,
                          !.isLocked = FALSE, !.target = FALSE, !.early = FALSE]
<1>1. LockState(t)
  BY DestroyShieldsTypes
<1>2. t.primary = None /\ t.conn = None /\ t.lockTimer = s.lockTimer /\ t.anim["fade"] = s.anim["fade"]
  BY MaxMonitorsAssumption DEF DestroyShields, LockState, Fields, ShieldTypes
<1>3. RemoveShields(s) = u
  BY DEF RemoveShields
<1> HIDE DEF t
<1>4. Removed(s, u) /\ u.anim["fade"] = s.anim["fade"]
  BY <1>1, <1>2 DEF Removed, LockState, Fields
<1>5. ShieldTypes(u) /\ LockTypes(u)
  BY <1>1, MaxMonitorsAssumption DEF LockState, Fields, ShieldTypes, LockTypes
<1>6. BlankTypes(u) /\ SleepTypes(u) /\ DOMAIN u = Fields
  BY <1>1 DEF LockState, Fields, BlankTypes, SleepTypes
<1> QED BY <1>3, <1>4, <1>5, <1>6 DEF LockState

LEMMA OnFadeFinishedLemma ==
  ASSUME NEW s, LockState(s)
  PROVE  /\ LockState(OnFadeFinished(s))
         /\ Backward(s.anim["fade"]) => Removed(s, OnFadeFinished(s))
         /\ ~Backward(s.anim["fade"]) => KeepsLock(s, OnFadeFinished(s))
         /\ OnFadeFinished(s).anim["fade"] = s.anim["fade"]
<1> DEFINE t == SyncInhibitor(s)
<1>1. Step(s, t)
  BY SyncInhibitorStep
<1>2. LockState(RemoveShields(t)) /\ Removed(t, RemoveShields(t)) /\ RemoveShields(t).anim["fade"] = t.anim["fade"]
  BY <1>1, RemoveShieldsLemma DEF Step
<1>3. Step(t, [t EXCEPT !.postTimer = TRUE])
  <2> HIDE DEF t
  <2> QED BY <1>1 DEF Step, Keeps, KeepsLock, LockState, Fields, ShieldTypes, LockTypes, BlankTypes, SleepTypes
<1>4. Removed(s, RemoveShields(t))
  BY <1>1, <1>2 DEF Removed, Step, Keeps, KeepsLock
<1>5. Step(s, [t EXCEPT !.postTimer = TRUE])
  BY <1>1, <1>3, StepTransitive
<1> QED BY <1>1, <1>2, <1>4, <1>5 DEF OnFadeFinished, Step, Keeps

LEMMA SetCurrentLemma ==
  ASSUME NEW s, LockState(s), NEW a \in Animators, NEW v \in Values
  PROVE  /\ LockState(SetCurrent(s, a, v))
         /\ KeepsLock(s, SetCurrent(s, a, v))
         /\ \A b \in Animators : b # a => SetCurrent(s, a, v).anim[b] = s.anim[b]
         /\ SetCurrent(s, a, v).anim[a].running = s.anim[a].running
         /\ SetCurrent(s, a, v).anim[a].from = s.anim[a].from
         /\ SetCurrent(s, a, v).anim[a].to = s.anim[a].to
         /\ SetCurrent(s, a, v).anim[a].val = v
<1> DEFINE t == [s EXCEPT !.anim[a].val = v]
<1>1. v \in Values /\ s.anim[a].from \in Ends /\ s.anim[a].to \in Ends /\ s.anim[a].running \in BOOLEAN
  BY AnimTypes
<1>2. LockState(t) /\ KeepsLock(s, t)
  BY <1>1, AnimUpdate, AnimUpdateKeeps
<1>3. /\ \A b \in Animators : b # a => t.anim[b] = s.anim[b]
      /\ t.anim[a].running = s.anim[a].running /\ t.anim[a].from = s.anim[a].from
      /\ t.anim[a].to = s.anim[a].to /\ t.anim[a].val = v
  BY DEF LockState, Fields, BlankTypes, Animation
<1> HIDE DEF t
<1>4. (IF v = Full THEN ShieldsOf(s) ELSE {}) \subseteq Monitors
  BY MaxMonitorsAssumption DEF ShieldsOf, LockState, ShieldTypes
<1>5. ASSUME NEW o, o \subseteq Monitors
      PROVE  Step(t, [t EXCEPT !.opaque = o]) /\ [t EXCEPT !.opaque = o].anim = t.anim
  BY <1>2, <1>5 DEF Step, Keeps, KeepsLock, LockState, Fields, ShieldTypes, LockTypes, BlankTypes, SleepTypes
<1>6. Step(t, [t EXCEPT !.blankOpacity = v]) /\ [t EXCEPT !.blankOpacity = v].anim = t.anim
  BY <1>2, <1>1 DEF Step, Keeps, KeepsLock, LockState, Fields, ShieldTypes, LockTypes, BlankTypes, SleepTypes
<1>7. ASSUME NEW u, Step(t, u) PROVE LockState(u) /\ KeepsLock(s, u)
  BY <1>2, <1>7 DEF Step, Keeps, KeepsLock
<1>8. LockState(SetCurrent(s, a, v)) /\ KeepsLock(s, SetCurrent(s, a, v)) /\ SetCurrent(s, a, v).anim = t.anim
  BY <1>2, <1>4, <1>5, <1>6, <1>7 DEF SetCurrent, t
<1> QED BY <1>3, <1>8

-----------------------------------------------------------------------------
(* The blank window's animation leaves the lock alone.                     *)

LEMMA AnimUpdateStep ==
  ASSUME NEW s, LockState(s), NEW r \in BOOLEAN, NEW x \in Ends, NEW y \in Ends, NEW v \in Values
  PROVE  /\ Step(s, [s EXCEPT !.anim["blank"].running = r])
         /\ Step(s, [s EXCEPT !.anim["blank"].from = x])
         /\ Step(s, [s EXCEPT !.anim["blank"].from = x, !.anim["blank"].to = y])
         /\ Step(s, SetCurrent(s, "blank", v))
<1>1. "blank" \in Animators
  BY DEF Animators
<1> DEFINE c == SetCurrent(s, "blank", v)
<1>2. LockState(c) /\ KeepsLock(s, c)
  BY <1>1, SetCurrentLemma
<1>3. c.anim["fade"] = s.anim["fade"]
  BY <1>1, SetCurrentLemma DEF Animators
<1>4. Step(s, [s EXCEPT !.anim["blank"].running = r])
  BY <1>1, AnimUpdate, AnimUpdateKeeps, AnimUpdateOther, Zenon DEF Step, Keeps
<1>5. Step(s, [s EXCEPT !.anim["blank"].from = x])
  BY <1>1, AnimUpdate, AnimUpdateKeeps, AnimUpdateOther, Zenon DEF Step, Keeps
<1>6. Step(s, [s EXCEPT !.anim["blank"].from = x, !.anim["blank"].to = y])
  <2> DEFINE u == [s EXCEPT !.anim["blank"].from = x, !.anim["blank"].to = y]
  <2>1. LockState(u)
    BY <1>1, AnimUpdate, Zenon
  <2>2. KeepsLock(s, u)
    BY <1>1, AnimUpdateKeeps, Zenon
  <2>3. u.anim["fade"] = s.anim["fade"]
    BY DEF LockState, Fields, BlankTypes, Animators
  <2> QED BY <2>1, <2>2, <2>3, Zenon DEF Step, Keeps
<1> QED BY <1>2, <1>3, <1>4, <1>5, <1>6 DEF Step, Keeps, c

LEMMA BlankStopStep ==
  ASSUME NEW s, LockState(s)
  PROVE  Step(s, AnimStop(s, "blank"))
<1> DEFINE t == [s EXCEPT !.anim["blank"].running = FALSE]
<1>1. Step(s, t)
  BY AnimUpdateStep
<1> HIDE DEF t
<1>2. Step(s, OnBlankFinished(t))
  BY <1>1, OnBlankFinishedStep, StepTransitive DEF Step
<1> QED BY <1>2, StepReflexive DEF AnimStop, Finished, t

LEMMA BlankRunStep ==
  ASSUME NEW s, LockState(s)
  PROVE  Step(s, AnimRun(s, "blank"))
<1> DEFINE v == s.anim["blank"].from
           t == IF s.anim["blank"].val = v THEN s ELSE SetCurrent(s, "blank", v)
<1>1. v \in Values
  BY AnimTypes DEF Animators
<1> HIDE DEF v
<1>2. Step(s, t)
  BY <1>1, AnimUpdateStep, StepReflexive
<1> HIDE DEF t
<1>3. Step(t, [t EXCEPT !.anim["blank"].running = TRUE])
  BY <1>2, AnimUpdateStep DEF Step
<1> QED BY <1>2, <1>3, StepTransitive DEF AnimRun, t, v

LEMMA BlankStartStep ==
  ASSUME NEW s, LockState(s), NEW from \in Ends, NEW to \in Ends
  PROVE  Step(s, AnimStart(s, "blank", from, to))
<1> DEFINE u == AnimStop(s, "blank")
           t == [u EXCEPT !.anim["blank"].from = from, !.anim["blank"].to = to]
<1>1. Step(s, u)
  BY BlankStopStep
<1>2. Step(s, t)
  <2> HIDE DEF u
  <2>1. Step(u, t)
    BY <1>1, AnimUpdateStep DEF Step
  <2> QED BY <1>1, <2>1, StepTransitive
<1> HIDE DEF t
<1>3. Step(s, AnimRun(t, "blank"))
  BY <1>2, BlankRunStep, StepTransitive DEF Step
<1>4. Step(s, AnimStop(AnimRun(t, "blank"), "blank"))
  BY <1>3, BlankStopStep, StepTransitive DEF Step
<1> QED BY <1>2, <1>3, <1>4 DEF AnimStart, t

LEMMA BlankStartOrReverseStep ==
  ASSUME NEW s, LockState(s), NEW from \in Ends, NEW to \in Ends
  PROVE  Step(s, AnimStartOrReverse(s, "blank", from, to))
<1>1. s.anim["blank"].from \in Ends /\ s.anim["blank"].to \in Ends
  BY AnimTypes DEF Animators
<1>2. Step(s, [s EXCEPT !.anim["blank"].from = s.anim["blank"].to, !.anim["blank"].to = s.anim["blank"].from])
  BY <1>1, AnimUpdateStep
<1> QED BY <1>2, BlankStartStep, StepReflexive DEF AnimStartOrReverse

LEMMA BlankSkipStep ==
  ASSUME NEW s, LockState(s)
  PROVE  Step(s, AnimSkip(s, "blank"))
<1> DEFINE t == AnimSetValue(s, "blank", s.anim["blank"].to)
<1>1. s.anim["blank"].from \in Ends /\ s.anim["blank"].to \in Ends
  BY AnimTypes DEF Animators
<1>2. Step(s, t)
  BY <1>1, BlankStartStep DEF AnimSetValue
<1> HIDE DEF t
<1>3. Step(t, [t EXCEPT !.anim["blank"].from = s.anim["blank"].from])
  BY <1>1, <1>2, AnimUpdateStep DEF Step
<1> QED BY <1>2, <1>3, StepTransitive DEF AnimSkip, t

LEMMA BlankAdvanceStep ==
  ASSUME NEW s, LockState(s), NEW v \in Values
  PROVE  Step(s, AnimAdvance(s, "blank", v))
<1>1. Step(s, SetCurrent(s, "blank", v))
  BY AnimUpdateStep
<1>2. Step(s, AnimStop(SetCurrent(s, "blank", v), "blank"))
  BY <1>1, BlankStopStep, StepTransitive DEF Step
<1> QED BY <1>1, <1>2 DEF AnimAdvance

-----------------------------------------------------------------------------
(* The methods of the blank window and the screen saver.                   *)

LEMMA EnsureBlankWindowStep ==
  ASSUME NEW s, LockState(s)
  PROVE  Step(s, EnsureBlankWindow(s))
<1>1. s.anim["blank"].val \in Values
  BY AnimTypes DEF Animators
<1>2. ASSUME NEW v \in Values PROVE Step(s, [s EXCEPT !.blank = TRUE, !.blankOpacity = v])
  BY <1>2 DEF Step, Keeps, KeepsLock, LockState, Fields, ShieldTypes, LockTypes, BlankTypes, SleepTypes
<1> QED BY <1>1, <1>2, StepReflexive DEF EnsureBlankWindow

LEMMA ShowBlankWindowStep ==
  ASSUME NEW s, LockState(s)
  PROVE  Step(s, ShowBlankWindow(s))
<1>1. Step(s, EnsureBlankWindow(s))
  BY EnsureBlankWindowStep
<1>2. Step(s, AnimStartOrReverse(EnsureBlankWindow(s), "blank", Clear, Full))
  BY <1>1, BlankStartOrReverseStep, StepTransitive DEF Step
<1> QED BY <1>2, StepReflexive DEF ShowBlankWindow

LEMMA HideBlankWindowStep ==
  ASSUME NEW s, LockState(s)
  PROVE  Step(s, HideBlankWindow(s))
<1> DEFINE faded    == AnimSetValue(s, "blank", Clear)
           released == IF faded.prompt THEN BlankWindowGrabEnable(faded, FALSE) ELSE faded
           freed    == UnGrab(released, {BlankArea})
<1>1. Step(s, faded)
  BY BlankStartStep DEF AnimSetValue
<1> HIDE DEF faded
<1>2. Step(s, released)
  BY <1>1, BlankWindowGrabEnableStep, StepTransitive DEF Step
<1> HIDE DEF released
<1>3. Step(s, freed)
  BY <1>2, UnGrabStep, StepTransitive DEF Step
<1> HIDE DEF freed
<1>4. Step(freed, [freed EXCEPT !.blank = FALSE, !.blankOpacity = Clear, !.delayTimer = FALSE])
  BY <1>3 DEF Step, Keeps, KeepsLock, LockState, Fields, ShieldTypes, LockTypes, BlankTypes, SleepTypes
<1>5. Step(s, [freed EXCEPT !.blank = FALSE, !.blankOpacity = Clear, !.delayTimer = FALSE])
  BY <1>3, <1>4, StepTransitive
<1> QED BY <1>5, StepReflexive DEF HideBlankWindow, freed, released, faded

LEMMA TimerFieldsStep ==
  ASSUME NEW s, LockState(s), NEW k \in {"none", "activate", "deactivate"}
  PROVE  /\ Step(s, [s EXCEPT !.saverTimer = k])
         /\ Step(s, [s EXCEPT !.postTimer = FALSE])
         /\ Step(s, [s EXCEPT !.delayTimer = FALSE])
  BY DEF Step, Keeps, KeepsLock, LockState, Fields, ShieldTypes, LockTypes, BlankTypes, SleepTypes

LEMMA PresenceStep ==
  ASSUME NEW s, LockState(s), NEW b \in BOOLEAN
  PROVE  /\ Step(s, OnBlankWindowInputEvent(s))
         /\ Step(s, OnPresenceStatusChanged(s, b))
         /\ Step(s, OnScreenSaverActivationRequest(s, b))
  BY HideBlankWindowStep, ShowBlankWindowStep, StepReflexive, TimerFieldsStep
     DEF OnBlankWindowInputEvent, OnPresenceStatusChanged, OnScreenSaverActivationRequest

LEMMA ScreenSaverTimeoutStep ==
  ASSUME NEW s, LockState(s)
  PROVE  Step(s, ScreenSaverTimeout(s))
<1> DEFINE t == [s EXCEPT !.saverTimer = "none"]
<1>1. Step(s, t)
  BY TimerFieldsStep
<1> HIDE DEF t
<1>2. Step(s, HideBlankWindow(t)) /\ Step(s, ShowBlankWindow(t))
  BY <1>1, HideBlankWindowStep, ShowBlankWindowStep, StepTransitive DEF Step
<1>3. Step(s, AnimSkip(ShowBlankWindow(t), "blank"))
  BY <1>2, BlankSkipStep, StepTransitive DEF Step
<1> QED BY <1>1, <1>2, <1>3 DEF ScreenSaverTimeout, t

LEMMA ResetPostLockScreenSaverStep ==
  ASSUME NEW s, LockState(s)
  PROVE  Step(s, ResetPostLockScreenSaver(s))
<1> DEFINE t == [s EXCEPT !.postTimer = FALSE]
<1>1. Step(s, t)
  BY TimerFieldsStep
<1> HIDE DEF t
<1> QED BY <1>1, HideBlankWindowStep, StepTransitive DEF ResetPostLockScreenSaver, t, Step

-----------------------------------------------------------------------------
(* The fade of the shields.                                                *)

\* What the fade is after a call, when the call does not end the lock
FadeIs(t, running, from, to) ==
  t.anim["fade"].running = running /\ t.anim["fade"].from = from /\ t.anim["fade"].to = to

LEMMA FadeUpdate ==
  ASSUME NEW s, LockState(s), NEW r \in BOOLEAN, NEW x \in Ends, NEW y \in Ends
  PROVE  /\ LockState([s EXCEPT !.anim["fade"].running = r])
         /\ KeepsLock(s, [s EXCEPT !.anim["fade"].running = r])
         /\ FadeIs([s EXCEPT !.anim["fade"].running = r], r, s.anim["fade"].from, s.anim["fade"].to)
         /\ LockState([s EXCEPT !.anim["fade"].from = x])
         /\ KeepsLock(s, [s EXCEPT !.anim["fade"].from = x])
         /\ FadeIs([s EXCEPT !.anim["fade"].from = x], s.anim["fade"].running, x, s.anim["fade"].to)
         /\ LockState([s EXCEPT !.anim["fade"].from = x, !.anim["fade"].to = y])
         /\ KeepsLock(s, [s EXCEPT !.anim["fade"].from = x, !.anim["fade"].to = y])
         /\ FadeIs([s EXCEPT !.anim["fade"].from = x, !.anim["fade"].to = y], s.anim["fade"].running, x, y)
<1>1. "fade" \in Animators
  BY DEF Animators
<1>2. FadeIs([s EXCEPT !.anim["fade"].running = r], r, s.anim["fade"].from, s.anim["fade"].to)
  BY <1>1 DEF LockState, Fields, BlankTypes, Animation, FadeIs
<1>3. FadeIs([s EXCEPT !.anim["fade"].from = x], s.anim["fade"].running, x, s.anim["fade"].to)
  BY <1>1 DEF LockState, Fields, BlankTypes, Animation, FadeIs
<1>4. FadeIs([s EXCEPT !.anim["fade"].from = x, !.anim["fade"].to = y], s.anim["fade"].running, x, y)
  BY <1>1 DEF LockState, Fields, BlankTypes, Animation, FadeIs
<1>5. LockState([s EXCEPT !.anim["fade"].running = r]) /\ LockState([s EXCEPT !.anim["fade"].from = x])
  BY <1>1, AnimUpdate, Zenon
<1>6. LockState([s EXCEPT !.anim["fade"].from = x, !.anim["fade"].to = y])
  BY <1>1, AnimUpdate, Zenon
<1>7. KeepsLock(s, [s EXCEPT !.anim["fade"].running = r]) /\ KeepsLock(s, [s EXCEPT !.anim["fade"].from = x])
  BY <1>1, AnimUpdateKeeps, Zenon
<1>8. KeepsLock(s, [s EXCEPT !.anim["fade"].from = x, !.anim["fade"].to = y])
  BY <1>1, AnimUpdateKeeps, Zenon
<1> QED BY <1>2, <1>3, <1>4, <1>5, <1>6, <1>7, <1>8, Zenon

LEMMA KeepsLockTransitive ==
  ASSUME NEW s, NEW t, NEW u, KeepsLock(s, t), KeepsLock(t, u)
  PROVE  KeepsLock(s, u)
  BY DEF KeepsLock

LEMMA FadeValues ==
  ASSUME NEW s, LockState(s)
  PROVE  s.anim["fade"].from \in Ends /\ s.anim["fade"].to \in Ends /\ s.anim["fade"].val \in Values
  BY AnimTypes DEF Animators

LEMMA FadeStop ==
  ASSUME NEW s, LockState(s), s.anim["fade"].running
  PROVE  /\ LockState(AnimStop(s, "fade"))
         /\ FadeIs(AnimStop(s, "fade"), FALSE, s.anim["fade"].from, s.anim["fade"].to)
         /\ Backward(s.anim["fade"]) => Removed(s, AnimStop(s, "fade"))
         /\ ~Backward(s.anim["fade"]) => KeepsLock(s, AnimStop(s, "fade"))
<1> DEFINE t == [s EXCEPT !.anim["fade"].running = FALSE]
<1>1. LockState(t) /\ KeepsLock(s, t) /\ FadeIs(t, FALSE, s.anim["fade"].from, s.anim["fade"].to)
  BY FadeValues, FadeUpdate
<1>2. AnimStop(s, "fade") = OnFadeFinished(t)
  BY DEF AnimStop, Finished
<1> HIDE DEF t
<1>3. Backward(t.anim["fade"]) <=> Backward(s.anim["fade"])
  BY <1>1 DEF Backward, FadeIs
<1>4. ASSUME NEW u, Removed(t, u) PROVE Removed(s, u)
  BY <1>1, <1>4 DEF Removed, KeepsLock
<1> QED BY <1>1, <1>2, <1>3, <1>4, OnFadeFinishedLemma, KeepsLockTransitive DEF FadeIs

LEMMA FadeRun ==
  ASSUME NEW s, LockState(s)
  PROVE  /\ LockState(AnimRun(s, "fade"))
         /\ KeepsLock(s, AnimRun(s, "fade"))
         /\ FadeIs(AnimRun(s, "fade"), TRUE, s.anim["fade"].from, s.anim["fade"].to)
<1> DEFINE v == s.anim["fade"].from
           t == IF s.anim["fade"].val = v THEN s ELSE SetCurrent(s, "fade", v)
<1>1. v \in Values
  BY FadeValues
<1>2. LockState(t) /\ KeepsLock(s, t)
  BY <1>1, SetCurrentLemma DEF Animators, KeepsLock
<1>3. FadeIs(t, s.anim["fade"].running, s.anim["fade"].from, s.anim["fade"].to)
  BY <1>1, SetCurrentLemma DEF Animators, FadeIs
<1>4. AnimRun(s, "fade") = [t EXCEPT !.anim["fade"].running = TRUE]
  BY DEF AnimRun
<1> HIDE DEF t, v
<1> DEFINE u == [t EXCEPT !.anim["fade"].running = TRUE]
<1>5. LockState(u) /\ KeepsLock(t, u) /\ FadeIs(u, TRUE, t.anim["fade"].from, t.anim["fade"].to)
  BY <1>2, FadeValues, FadeUpdate
<1> HIDE DEF u
<1>6. KeepsLock(s, u)
  BY <1>2, <1>5, KeepsLockTransitive
<1> QED BY <1>3, <1>4, <1>5, <1>6 DEF FadeIs, u

LEMMA FadeStart ==
  ASSUME NEW s, LockState(s), ~s.anim["fade"].running,
         NEW from \in Ends, NEW to \in Ends, from # to
  PROVE  /\ LockState(AnimStart(s, "fade", from, to))
         /\ KeepsLock(s, AnimStart(s, "fade", from, to))
         /\ FadeIs(AnimStart(s, "fade", from, to), TRUE, from, to)
<1> DEFINE t == [s EXCEPT !.anim["fade"].from = from, !.anim["fade"].to = to]
<1>1. LockState(t) /\ KeepsLock(s, t) /\ FadeIs(t, s.anim["fade"].running, from, to)
  BY FadeUpdate
<1>2. AnimStart(s, "fade", from, to) = AnimRun(t, "fade")
  BY DEF AnimStart, AnimStop
<1> HIDE DEF t
<1>3. /\ LockState(AnimRun(t, "fade")) /\ KeepsLock(t, AnimRun(t, "fade"))
      /\ FadeIs(AnimRun(t, "fade"), TRUE, from, to)
  BY <1>1, FadeRun DEF FadeIs
<1> QED BY <1>1, <1>2, <1>3, KeepsLockTransitive

LEMMA FadeStartOrReverse ==
  ASSUME NEW s, LockState(s), NEW from \in Ends, NEW to \in Ends, from # to,
         s.anim["fade"].running => s.anim["fade"].from # s.anim["fade"].to
  PROVE  /\ LockState(AnimStartOrReverse(s, "fade", from, to))
         /\ KeepsLock(s, AnimStartOrReverse(s, "fade", from, to))
         /\ FadeIs(AnimStartOrReverse(s, "fade", from, to), TRUE, from, to)
<1> DEFINE now == s.anim["fade"]
<1>1. now.from \in Ends /\ now.to \in Ends /\ now.running \in BOOLEAN
  BY AnimTypes DEF Animators
<1>2. CASE now.running /\ now.from = to /\ now.to = from
  <2> DEFINE t == [s EXCEPT !.anim["fade"].from = now.to, !.anim["fade"].to = now.from]
  <2>1. LockState(t) /\ KeepsLock(s, t) /\ FadeIs(t, now.running, now.to, now.from)
    BY <1>1, FadeUpdate
  <2>2. AnimStartOrReverse(s, "fade", from, to) = t
    BY <1>2 DEF AnimStartOrReverse
  <2> HIDE DEF t
  <2> QED BY <1>2, <2>1, <2>2 DEF FadeIs
<1>3. CASE now.running /\ now.from = from /\ now.to = to
  BY <1>3 DEF AnimStartOrReverse, KeepsLock, FadeIs
<1>4. CASE ~now.running
  BY <1>4, FadeStart DEF AnimStartOrReverse
<1> QED BY <1>1, <1>2, <1>3, <1>4

LEMMA FadeSkip ==
  ASSUME NEW s, LockState(s), FadeIs(s, TRUE, Clear, Full)
  PROVE  /\ LockState(AnimSkip(s, "fade"))
         /\ KeepsLock(s, AnimSkip(s, "fade"))
         /\ FadeIs(AnimSkip(s, "fade"), FALSE, Clear, Full)
<1> DEFINE t == AnimStop(s, "fade")
           u == [t EXCEPT !.anim["fade"].from = Full, !.anim["fade"].to = Full]
           r == AnimRun(u, "fade")
           w == AnimStart(s, "fade", Full, Full)
<1>0. s.anim["fade"].running /\ ~Backward(s.anim["fade"])
  BY DEF FadeIs, Backward
<1>1. LockState(t) /\ KeepsLock(s, t)
  BY <1>0, FadeStop
<1>2. FadeIs(t, FALSE, Clear, Full)
  BY <1>0, FadeStop DEF FadeIs
<1> HIDE DEF t
<1>3. LockState(u) /\ KeepsLock(t, u) /\ FadeIs(u, FALSE, Full, Full)
  BY <1>1, <1>2, FadeUpdate DEF FadeIs
<1>4. w = IF u.anim["fade"].val # Full THEN AnimStop(r, "fade") ELSE u
  BY DEF AnimStart, t
<1> HIDE DEF u
<1>5. LockState(r) /\ KeepsLock(u, r) /\ FadeIs(r, TRUE, Full, Full)
  BY <1>3, FadeRun DEF FadeIs
<1> HIDE DEF r
<1>6. ~Backward(r.anim["fade"])
  BY <1>5 DEF FadeIs, Backward
<1>7. /\ LockState(AnimStop(r, "fade")) /\ KeepsLock(r, AnimStop(r, "fade"))
      /\ FadeIs(AnimStop(r, "fade"), FALSE, Full, Full)
  BY <1>5, <1>6, FadeStop DEF FadeIs
<1>8. LockState(w) /\ KeepsLock(s, w) /\ FadeIs(w, FALSE, Full, Full)
  BY <1>1, <1>3, <1>4, <1>5, <1>7, KeepsLockTransitive
<1>9. AnimSkip(s, "fade") = [w EXCEPT !.anim["fade"].from = Clear]
  BY DEF AnimSkip, AnimSetValue, FadeIs
<1> HIDE DEF w
<1> DEFINE z == [w EXCEPT !.anim["fade"].from = Clear]
<1>10. LockState(z) /\ KeepsLock(w, z) /\ FadeIs(z, FALSE, Clear, Full)
  BY <1>8, FadeUpdate DEF FadeIs
<1> HIDE DEF z
<1> QED BY <1>8, <1>9, <1>10, KeepsLockTransitive DEF z

LEMMA FadeAdvance ==
  ASSUME NEW s, LockState(s), s.anim["fade"].running, NEW v \in Values
  PROVE  /\ LockState(AnimAdvance(s, "fade", v))
         /\ v # s.anim["fade"].to =>
              /\ KeepsLock(s, AnimAdvance(s, "fade", v))
              /\ FadeIs(AnimAdvance(s, "fade", v), TRUE, s.anim["fade"].from, s.anim["fade"].to)
         /\ v = s.anim["fade"].to =>
              /\ FadeIs(AnimAdvance(s, "fade", v), FALSE, s.anim["fade"].from, s.anim["fade"].to)
              /\ \/ KeepsLock(s, AnimAdvance(s, "fade", v))
                 \/ Removed(s, AnimAdvance(s, "fade", v))
<1> DEFINE t == SetCurrent(s, "fade", v)
<1>0. "fade" \in Animators
  BY DEF Animators
<1>1. LockState(t) /\ KeepsLock(s, t)
  BY <1>0, SetCurrentLemma
<1>2. FadeIs(t, s.anim["fade"].running, s.anim["fade"].from, s.anim["fade"].to)
  BY SetCurrentLemma DEF Animators, FadeIs
<1> HIDE DEF t
<1>3. ASSUME NEW u, Removed(t, u) PROVE Removed(s, u)
  BY <1>1, <1>3 DEF Removed, KeepsLock
<1> QED BY <1>1, <1>2, <1>3, FadeStop, KeepsLockTransitive DEF AnimAdvance, FadeIs, t

-----------------------------------------------------------------------------
(* Shields come and go.                                                    *)

LEMMA AddShieldsStep ==
  ASSUME NEW s, LockState(s), NEW added, added \subseteq Monitors
  PROVE  Step(s, AddShields(s, added))
<1> DEFINE v == s.anim["fade"].val
           e == s.early \/ (v = Clear /\ added # {})
           h == IF v # Clear THEN s.shown \cup added ELSE s.shown
           o == IF v # Partial THEN s.opaque \cup added ELSE s.opaque
<1>1. e \in BOOLEAN /\ h \subseteq Monitors /\ o \subseteq Monitors
  BY DEF LockState, ShieldTypes, SleepTypes
<1>2. AddShields(s, added) = [s EXCEPT !.shown = h, !.opaque = o, !.early = e]
  BY DEF AddShields
<1> HIDE DEF e, h, o
<1>3. Step(s, [s EXCEPT !.shown = h, !.opaque = o, !.early = e])
  BY <1>1 DEF Step, Keeps, KeepsLock, LockState, Fields, ShieldTypes, LockTypes, BlankTypes, SleepTypes
<1> QED BY <1>2, <1>3

\* The frame of the calls that rearrange the shields of a lock in progress
Rearranges(s, t) ==
  /\ LockState(t)
  /\ t.following = s.following
  /\ t.target = s.target
  /\ t.lockTimer = s.lockTimer
  /\ t.anim["fade"] = s.anim["fade"]

LEMMA SetupPrimaryShieldConnectionsLemma ==
  ASSUME NEW s, LockState(s)
  PROVE  /\ Rearranges(s, SetupPrimaryShieldConnections(s))
         /\ SetupPrimaryShieldConnections(s).shields = s.shields
         /\ SetupPrimaryShieldConnections(s).primary = s.primary
         /\ SetupPrimaryShieldConnections(s).lockInput
<1> DEFINE c == IF s.isLocked THEN None ELSE s.primary
           t == [s EXCEPT !.lockInput = TRUE, !.conn = c]
<1>1. c \in 0..MaxMonitors
  BY MaxMonitorsAssumption DEF LockState, ShieldTypes
<1>2. SetupPrimaryShieldConnections(s) = t
  BY DEF SetupPrimaryShieldConnections
<1> HIDE DEF c
<1>3. LockState(t)
  BY <1>1 DEF LockState, Fields, ShieldTypes, LockTypes, BlankTypes, SleepTypes
<1>4. /\ t.following = s.following /\ t.target = s.target /\ t.lockTimer = s.lockTimer
      /\ t.anim["fade"] = s.anim["fade"] /\ t.shields = s.shields /\ t.primary = s.primary /\ t.lockInput
  BY DEF LockState, Fields
<1> QED BY <1>2, <1>3, <1>4 DEF Rearranges

LEMMA SetPrimaryLemma ==
  ASSUME NEW s, LockState(s), NEW p \in Monitors
  PROVE  /\ Rearranges(s, [s EXCEPT !.primary = p])
         /\ [s EXCEPT !.primary = p].shields = s.shields
         /\ [s EXCEPT !.primary = p].primary = p
  BY DEF Rearranges, LockState, Fields, ShieldTypes, LockTypes, BlankTypes, SleepTypes

LEMMA EnsureShieldsLemma ==
  ASSUME NEW s, LockState(s)
  PROVE  /\ Rearranges(s, EnsureShields(s))
         /\ EnsureShields(s).shields = s.monitors
         /\ EnsureShields(s).primary = s.mouse
         /\ EnsureShields(s).lockInput
<1> DEFINE p       == s.mouse
           added   == (s.shields + 1)..s.monitors
           left    == DestroyShields(s, (s.monitors + 1)..MaxMonitors)
           resized == [left EXCEPT !.shields = s.monitors]
           demoted == Demote(resized, s.primary)
           built   == IF p \in added THEN Demote(ShowPrimaryView(demoted, p), p) ELSE demoted
           more    == AddShields(built, added)
           laidOut == [more EXCEPT !.primary = p]
           r       == Promote(laidOut, p)
<1>1. p \in Monitors /\ s.monitors \in Monitors /\ s.shields \in 0..MaxMonitors
  BY MaxMonitorsAssumption DEF LockState, LockTypes, ShieldTypes
<1>2. added \subseteq Monitors
  BY <1>1, MaxMonitorsAssumption
<1>3. Rearranges(s, left)
  <2>1. LockState(left)
    BY DestroyShieldsTypes
  <2>2. /\ left.following = s.following /\ left.target = s.target /\ left.lockTimer = s.lockTimer
        /\ left.anim["fade"] = s.anim["fade"]
    BY DEF DestroyShields, LockState, Fields
  <2> QED BY <2>1, <2>2 DEF Rearranges
<1> HIDE DEF left
<1>4. Rearranges(s, resized) /\ resized.shields = s.monitors
  <2>1. /\ resized.following = left.following /\ resized.target = left.target /\ resized.lockTimer = left.lockTimer
        /\ resized.anim["fade"] = left.anim["fade"] /\ resized.shields = s.monitors
    BY <1>3 DEF Rearranges, LockState, Fields
  <2>2. LockState(resized)
    BY <1>1, <1>3 DEF Rearranges, LockState, Fields, ShieldTypes, LockTypes, BlankTypes, SleepTypes
  <2> QED BY <1>3, <2>1, <2>2 DEF Rearranges
<1> HIDE DEF resized
<1>5. Step(resized, demoted)
  BY <1>4, DemoteStep DEF Rearranges
<1> HIDE DEF demoted
<1>6. Step(resized, built)
  <2>1. Step(resized, ShowPrimaryView(demoted, p))
    BY <1>1, <1>5, ShowPrimaryViewStep, StepTransitive DEF Step
  <2>2. Step(resized, Demote(ShowPrimaryView(demoted, p), p))
    BY <2>1, DemoteStep, StepTransitive DEF Step
  <2> QED BY <1>5, <2>2
<1> HIDE DEF built, added
<1>7. Step(resized, more)
  BY <1>2, <1>6, AddShieldsStep, StepTransitive DEF Step
<1> HIDE DEF more
<1>8. Rearranges(s, more) /\ more.shields = s.monitors
  BY <1>4, <1>7 DEF Rearranges, Step, Keeps, KeepsLock
<1>9. Rearranges(more, laidOut) /\ laidOut.shields = s.monitors /\ laidOut.primary = p
  BY <1>1, <1>8, SetPrimaryLemma DEF Rearranges
<1> HIDE DEF laidOut
<1>10. Step(laidOut, r)
  BY <1>1, <1>9, PromoteStep DEF Rearranges
<1> HIDE DEF r
<1>11. Rearranges(s, r) /\ r.shields = s.monitors /\ r.primary = p
  BY <1>8, <1>9, <1>10 DEF Rearranges, Step, Keeps, KeepsLock
<1>12. EnsureShields(s) = SetupPrimaryShieldConnections(r)
  BY DEF EnsureShields, r, laidOut, more, built, added, demoted, resized, left
<1> QED BY <1>11, <1>12, SetupPrimaryShieldConnectionsLemma DEF Rearranges

LEMMA MovePrimaryLemma ==
  ASSUME NEW s, LockState(s), NEW i \in Monitors, i # s.primary
  PROVE  /\ Rearranges(s, MovePrimary(s, i))
         /\ MovePrimary(s, i).shields = s.shields
         /\ MovePrimary(s, i).primary = i
         /\ MovePrimary(s, i).lockInput
<1> DEFINE d == Demote(s, s.primary)
           t == [d EXCEPT !.primary = i]
           r == Promote(t, i)
<1>1. Step(s, d)
  BY DemoteStep
<1> HIDE DEF d
<1>2. Rearranges(d, t) /\ t.shields = d.shields /\ t.primary = i
  BY <1>1, SetPrimaryLemma DEF Step
<1> HIDE DEF t
<1>3. Step(t, r)
  BY <1>2, PromoteStep DEF Rearranges
<1> HIDE DEF r
<1>4. Rearranges(s, r) /\ r.shields = s.shields /\ r.primary = i
  BY <1>1, <1>2, <1>3 DEF Rearranges, Step, Keeps, KeepsLock
<1>5. MovePrimary(s, i) = SetupPrimaryShieldConnections(r)
  BY DEF MovePrimary, r, t, d
<1> QED BY <1>4, <1>5, SetupPrimaryShieldConnectionsLemma DEF Rearranges

-----------------------------------------------------------------------------
(* The inductive invariant: Lifecycle, and what it needs to be kept.  The  *)
(* connection to `grabbed' ends with the shields, so that no grab that     *)
(* arrives later reports a lock; and the fade runs only over shields, from *)
(* one end to the other, so that its end is the end of a fade-in or of a   *)
(* fade-out.                                                               *)

LockInv(s) ==
  /\ s.target <=> IsLocked(s)
  /\ s.following <=> IsLocked(s)
  /\ s.lockInput <=> IsLocked(s)
  /\ IsLocked(s) <=> s.primary \in ShieldsOf(s)
  /\ s.isLocked => IsLocked(s)
  /\ s.lockTimer => ~IsLocked(s)
  /\ s.conn # None => IsLocked(s)
  /\ s.anim["fade"].running => IsLocked(s) /\ s.anim["fade"].from # s.anim["fade"].to

Good(s) == LockState(s) /\ LockInv(s)

\* The shields are up.
Up(s) ==
  /\ s.shields > 0
  /\ s.primary \in 1..s.shields
  /\ s.target /\ s.following /\ s.lockInput

LEMMA GoodStep ==
  ASSUME NEW s, NEW t, Good(s), Step(s, t)
  PROVE  Good(t)
<1>1. IsLocked(t) <=> IsLocked(s)
  BY DEF Step, Keeps, KeepsLock, IsLocked
<1>2. ShieldsOf(t) = ShieldsOf(s)
  BY DEF Step, Keeps, KeepsLock, ShieldsOf
<1>3. t.isLocked => IsLocked(t)
  BY <1>1 DEF Step, Keeps, KeepsLock, Good, LockInv
<1>4. LockInv(t)
  BY <1>1, <1>2, <1>3, Zenon DEF Step, Keeps, KeepsLock, Good, LockInv
<1> QED BY <1>4 DEF Good, Step

LEMMA GoodUp ==
  ASSUME NEW s, Good(s)
  PROVE  IsLocked(s) => Up(s) /\ ~s.lockTimer
  BY DEF Good, LockInv, Up, IsLocked, ShieldsOf

LEMMA UpGood ==
  ASSUME NEW s, LockState(s), Up(s), ~s.lockTimer,
         s.anim["fade"].running => s.anim["fade"].from # s.anim["fade"].to
  PROVE  Good(s)
<1>1. IsLocked(s) /\ s.primary \in ShieldsOf(s)
  BY DEF Up, IsLocked, ShieldsOf
<1> QED BY <1>1, Zenon DEF Good, LockInv, Up

LEMMA UpKept ==
  ASSUME NEW s, NEW t, Up(s), KeepsLock(s, t)
  PROVE  Up(t)
  BY DEF Up, KeepsLock

LEMMA RemovedGood ==
  ASSUME NEW s, NEW t, LockState(t), Removed(s, t), ~t.anim["fade"].running
  PROVE  Good(t)
<1>1. ~IsLocked(t) /\ t.primary \notin ShieldsOf(t)
  BY DEF Removed, IsLocked, ShieldsOf
<1> QED BY <1>1, Zenon DEF Good, LockInv, Removed

LEMMA OnLockRequestedGood ==
  ASSUME NEW s, Good(s), NEW prompt \in BOOLEAN
  PROVE  Good(OnLockRequested(s, prompt))
<1> DEFINE shown   == EnsureBlankWindow(s)
           grabbed == BlankWindowGrabEnable(shown, TRUE)
           blanked == [grabbed EXCEPT !.blankOpacity = Full]
           t       == IF prompt THEN blanked ELSE s
<1>1. Step(s, shown)
  BY EnsureBlankWindowStep DEF Good
<1> HIDE DEF shown
<1>2. Step(s, grabbed)
  BY <1>1, BlankWindowGrabEnableStep, StepTransitive DEF Step
<1> HIDE DEF grabbed
<1>3. Step(grabbed, blanked)
  BY <1>2 DEF Step, Keeps, KeepsLock, LockState, Fields, ShieldTypes, LockTypes, BlankTypes, SleepTypes
<1> HIDE DEF blanked
<1>4. Step(s, t)
  BY <1>2, <1>3, StepTransitive, StepReflexive DEF Good
<1>5. Good(t) /\ (IsLocked(t) <=> IsLocked(s))
  BY <1>4, GoodStep DEF Step, Keeps, KeepsLock, IsLocked
<1> HIDE DEF t
<1> DEFINE u == [t EXCEPT !.prompt = prompt, !.lockTimer = TRUE]
<1>6. ASSUME ~IsLocked(s) PROVE Good(u)
  <2>1. LockState(u)
    BY <1>5 DEF Good, LockState, Fields, ShieldTypes, LockTypes, BlankTypes, SleepTypes
  <2>2. /\ u.shields = t.shields /\ u.primary = t.primary /\ u.conn = t.conn /\ u.lockInput = t.lockInput
        /\ u.following = t.following /\ u.target = t.target /\ u.isLocked = t.isLocked
        /\ u.anim["fade"] = t.anim["fade"]
    BY <1>5 DEF Good, LockState, Fields
  <2>3. (IsLocked(u) <=> IsLocked(t)) /\ ShieldsOf(u) = ShieldsOf(t)
    BY <2>2 DEF IsLocked, ShieldsOf
  <2> HIDE DEF u
  <2>4. LockInv(u)
    BY <1>5, <1>6, <2>2, <2>3, Zenon DEF Good, LockInv
  <2> QED BY <2>1, <2>4 DEF Good
<1> QED BY <1>6 DEF OnLockRequested, u, t, blanked, grabbed, shown

LEMMA RequestLockGood ==
  ASSUME NEW s, Good(s), NEW prompt \in BOOLEAN
  PROVE  Good(RequestLock(s, prompt))
  BY OnLockRequestedGood, PresenceStep, GoodStep DEF RequestLock, Good

LEMMA OnUnlockRequestedGood ==
  ASSUME NEW s, Good(s)
  PROVE  Good(OnUnlockRequested(s))
<1> DEFINE t == [s EXCEPT !.lockTimer = FALSE, !.postTimer = FALSE]
           u == HideBlankWindow(t)
           w == UnGrab(u, ShieldsOf(u))
           z == AnimStartOrReverse(w, "fade", Full, Clear)
<1>1. Good(t)
  <2>1. LockState(t)
    BY DEF Good, LockState, Fields, ShieldTypes, LockTypes, BlankTypes, SleepTypes
  <2>2. /\ t.shields = s.shields /\ t.primary = s.primary /\ t.conn = s.conn /\ t.lockInput = s.lockInput
        /\ t.following = s.following /\ t.target = s.target /\ t.isLocked = s.isLocked /\ ~t.lockTimer
        /\ t.anim["fade"] = s.anim["fade"]
    BY DEF Good, LockState, Fields
  <2>3. (IsLocked(t) <=> IsLocked(s)) /\ ShieldsOf(t) = ShieldsOf(s)
    BY <2>2 DEF IsLocked, ShieldsOf
  <2> HIDE DEF t
  <2> QED BY <2>1, <2>2, <2>3, Zenon DEF Good, LockInv
<1> HIDE DEF t
<1>2. Good(u)
  BY <1>1, HideBlankWindowStep, GoodStep DEF Good
<1> HIDE DEF u
<1>3. Good(w)
  BY <1>2, UnGrabStep, GoodStep DEF Good
<1>4. IsLocked(w) <=> IsLocked(u)
  BY <1>2, UnGrabStep DEF Good, Step, Keeps, KeepsLock, IsLocked
<1> HIDE DEF w
<1>5. ASSUME IsLocked(u) PROVE Good(z)
  <2>0. LockState(w) /\ (w.anim["fade"].running => w.anim["fade"].from # w.anim["fade"].to)
    BY <1>3 DEF Good, LockInv
  <2>1. LockState(z) /\ KeepsLock(w, z) /\ FadeIs(z, TRUE, Full, Clear)
    <3>1. Clear \in Ends /\ Full \in Ends /\ Full # Clear
      OBVIOUS
    <3> HIDE DEF Clear, Full, Ends
    <3> QED BY <2>0, <3>1, FadeStartOrReverse, Zenon
  <2> HIDE DEF z
  <2>2. Up(z) /\ ~z.lockTimer
    BY <1>3, <1>4, <1>5, <2>1, GoodUp, UpKept DEF KeepsLock
  <2> QED BY <2>1, <2>2, UpGood DEF FadeIs
<1> QED BY <1>2, <1>5 DEF OnUnlockRequested, HideShields, z, w, u, t

LEMMA LockScreenLemma ==
  ASSUME NEW s, LockState(s), ~s.anim["fade"].running
  PROVE  /\ LockState(LockScreen(s))
         /\ Up(LockScreen(s))
         /\ FadeIs(LockScreen(s), TRUE, Clear, Full)
<1> DEFINE a == [s EXCEPT !.target = TRUE]
           t == EnsureShields(a)
           k == t.primary \in t.grabs
           o == ShieldsOf(t)
           u == [t EXCEPT !.following = TRUE, !.shown = o, !.opaque = {}, !.isLocked = k, !.early = FALSE]
           z == AnimStartOrReverse(u, "fade", Clear, Full)
<1>1. LockState(a) /\ a.target /\ a.anim["fade"] = s.anim["fade"]
  BY DEF LockState, Fields, ShieldTypes, LockTypes, BlankTypes, SleepTypes
<1> HIDE DEF a
<1>2. Rearranges(a, t) /\ t.shields = a.monitors /\ t.primary = a.mouse /\ t.lockInput
  BY <1>1, EnsureShieldsLemma
<1>3. t.shields > 0 /\ t.primary \in 1..t.shields
  BY <1>1, <1>2 DEF LockState, LockTypes
<1> HIDE DEF t
<1>4. o \subseteq Monitors /\ k \in BOOLEAN
  BY <1>2, MaxMonitorsAssumption DEF ShieldsOf, Rearranges, LockState, ShieldTypes
<1> HIDE DEF o, k
<1>5. LockState(u)
  <2>1. ShieldTypes(u)
    BY <1>2, <1>4 DEF Rearranges, LockState, Fields, ShieldTypes
  <2>2. LockTypes(u)
    BY <1>2, <1>4 DEF Rearranges, LockState, Fields, LockTypes
  <2>3. BlankTypes(u)
    BY <1>2 DEF Rearranges, LockState, Fields, BlankTypes
  <2>4. SleepTypes(u) /\ DOMAIN u = Fields
    BY <1>2 DEF Rearranges, LockState, Fields, SleepTypes
  <2> QED BY <2>1, <2>2, <2>3, <2>4 DEF LockState
<1>6. /\ u.shields = t.shields /\ u.primary = t.primary /\ u.lockInput = t.lockInput
      /\ u.following /\ u.target = t.target /\ u.anim["fade"] = t.anim["fade"]
  BY <1>2 DEF Rearranges, LockState, Fields
<1> HIDE DEF u
<1>7. Up(u) /\ ~u.anim["fade"].running
  BY <1>1, <1>2, <1>3, <1>6 DEF Up, Rearranges
<1>8. LockState(z) /\ KeepsLock(u, z) /\ FadeIs(z, TRUE, Clear, Full)
  <2>1. Clear \in Ends /\ Full \in Ends /\ Full # Clear
    OBVIOUS
  <2> HIDE DEF Clear, Full, Ends
  <2> QED BY <1>5, <1>7, <2>1, FadeStartOrReverse, Zenon
<1> HIDE DEF z
<1>9. Up(z)
  BY <1>7, <1>8, UpKept
<1>10. LockScreen(s) = z
  BY DEF LockScreen, ShowShields, z, u, t, a, k, o
<1> QED BY <1>8, <1>9, <1>10

\* The shields raised by the timeout: everything of a lock is there, and the
\* timeout is over.
LEMMA ShieldsRaisedGood ==
  ASSUME NEW s, Good(s), s.lockTimer
  PROVE  Good(ShieldsRaised(RaiseShields(s)))
<1> DEFINE a == IF s.prompt THEN s ELSE HideBlankWindow(s)
           t == LockScreen(a)
           v == IF t.prompt THEN HideBlankWindow(AnimSkip(t, "fade")) ELSE t
           z == [v EXCEPT !.lockTimer = FALSE]
<1>1. Step(s, a)
  BY StepReflexive, HideBlankWindowStep DEF Good
<1>2. ~s.anim["fade"].running
  BY DEF Good, LockInv
<1> HIDE DEF a
<1>3. LockState(t) /\ Up(t) /\ FadeIs(t, TRUE, Clear, Full)
  BY <1>1, <1>2, LockScreenLemma DEF Step, Keeps
<1> HIDE DEF t
<1>4. LockState(v) /\ Up(v) /\ v.anim["fade"].from = Clear /\ v.anim["fade"].to = Full
  <2> DEFINE k == AnimSkip(t, "fade")
  <2>1. LockState(k) /\ KeepsLock(t, k) /\ FadeIs(k, FALSE, Clear, Full)
    BY <1>3, FadeSkip
  <2> HIDE DEF k
  <2>2. Step(k, HideBlankWindow(k))
    BY <2>1, HideBlankWindowStep
  <2>3. LockState(HideBlankWindow(k)) /\ Up(HideBlankWindow(k)) /\ HideBlankWindow(k).anim["fade"] = k.anim["fade"]
    BY <1>3, <2>1, <2>2, UpKept DEF Step, Keeps
  <2> QED BY <1>3, <2>1, <2>3 DEF FadeIs, k
<1> HIDE DEF v
<1>5. LockState(z)
  BY <1>4 DEF LockState, Fields, ShieldTypes, LockTypes, BlankTypes, SleepTypes
<1>6. Up(z) /\ ~z.lockTimer /\ z.anim["fade"] = v.anim["fade"]
  BY <1>4 DEF Up, LockState, Fields
<1> HIDE DEF z
<1>7. Good(z)
  BY <1>4, <1>5, <1>6, UpGood
<1>8. ShieldsRaised(RaiseShields(s)) = z
  BY DEF ShieldsRaised, RaiseShields, z, v, t, a
<1> QED BY <1>7, <1>8

LEMMA FadeAdvanceGood ==
  ASSUME NEW s, Good(s), s.anim["fade"].running, NEW v \in Values
  PROVE  Good(AnimAdvance(s, "fade", v))
<1> DEFINE t == AnimAdvance(s, "fade", v)
<1>1. LockState(s) /\ IsLocked(s) /\ s.anim["fade"].from # s.anim["fade"].to
  BY DEF Good, LockInv
<1>2. LockState(t)
  BY <1>1, FadeAdvance
<1>3. Up(s) /\ ~s.lockTimer
  BY <1>1, GoodUp
<1>4. CASE v # s.anim["fade"].to
  <2>1. KeepsLock(s, t) /\ FadeIs(t, TRUE, s.anim["fade"].from, s.anim["fade"].to)
    BY <1>1, <1>4, FadeAdvance
  <2> HIDE DEF t
  <2>2. Up(t) /\ ~t.lockTimer
    BY <1>3, <2>1, UpKept DEF KeepsLock
  <2> QED BY <1>1, <1>2, <2>1, <2>2, UpGood DEF FadeIs, t
<1>5. CASE v = s.anim["fade"].to
  <2>1. FadeIs(t, FALSE, s.anim["fade"].from, s.anim["fade"].to) /\ (KeepsLock(s, t) \/ Removed(s, t))
    BY <1>1, <1>5, FadeAdvance
  <2> HIDE DEF t
  <2>2. ~t.anim["fade"].running
    BY <2>1 DEF FadeIs
  <2>3. CASE KeepsLock(s, t)
    <3>1. Up(t) /\ ~t.lockTimer
      BY <1>3, <2>3, UpKept DEF KeepsLock
    <3> QED BY <1>2, <2>2, <3>1, UpGood DEF t
  <2>4. CASE Removed(s, t)
    BY <1>2, <2>2, <2>4, RemovedGood DEF t
  <2> QED BY <2>1, <2>3, <2>4
<1> QED BY <1>4, <1>5

-----------------------------------------------------------------------------
(* The actions.                                                            *)

LEMMA InitGood ==
  ASSUME NEW m \in Monitors, NEW n \in 1..m, NEW p \in AllPolicies
  PROVE  Good(InitialState(m, n, p))
<1> DEFINE t == InitialState(m, n, p)
<1>1. ShieldTypes(t) /\ LockTypes(t)
  BY MaxMonitorsAssumption DEF InitialState, ShieldTypes, LockTypes, Monitors, None
<1>2. BlankTypes(t)
  BY DEF InitialState, BlankTypes, Animation, Stopped, Animators
<1>3. SleepTypes(t) /\ DOMAIN t = Fields
  BY DEF InitialState, SleepTypes, NoInhibitor, InhibitorType, Fields, AllPolicies
<1>4. LockInv(t)
  BY DEF InitialState, LockInv, IsLocked, ShieldsOf, Stopped, Animators
<1> QED BY <1>1, <1>2, <1>3, <1>4 DEF Good, LockState

LEMMA DBusGood ==
  ASSUME Good(ls), DBus
  PROVE  Good(ls')
<1>0. LockState(ls) /\ ls.inh \in InhibitorType
  BY DEF Good, LockState, SleepTypes
<1>1. CASE LoginConnected
  BY <1>0, <1>1, SyncInhibitorStep, GoodStep DEF LoginConnected
<1>2. CASE SessionProxyReady
  <2>1. Step(ls, [ls EXCEPT !.sessionActive = TRUE, !.synced = FALSE])
    BY <1>0 DEF Step, Keeps, KeepsLock, LockState, Fields, ShieldTypes, LockTypes, BlankTypes, SleepTypes
  <2> QED BY <1>2, <2>1, GoodStep DEF SessionProxyReady
<1>3. CASE InhibitReplied
  <2>1. InhibitReply(ls.inh) \in InhibitorType
    BY <1>0, <1>3, InhibitorTypes DEF InhibitReplied
  <2>2. Step(ls, [ls EXCEPT !.inh = InhibitReply(@)])
    BY <1>0, <2>1 DEF Step, Keeps, KeepsLock, LockState, Fields, ShieldTypes, LockTypes, BlankTypes, SleepTypes
  <2> QED BY <1>3, <2>2, GoodStep DEF InhibitReplied, Internal, Runs
<1>4. CASE InhibitRejected
  <2>1. InhibitFailed(ls.inh) \in InhibitorType
    BY <1>0, <1>4, InhibitorTypes DEF InhibitRejected
  <2>2. Step(ls, [ls EXCEPT !.inh = InhibitFailed(@), !.synced = FALSE])
    BY <1>0, <2>1 DEF Step, Keeps, KeepsLock, LockState, Fields, ShieldTypes, LockTypes, BlankTypes, SleepTypes
  <2> QED BY <1>4, <2>2, GoodStep DEF InhibitRejected, Internal, Runs
<1> QED BY <1>1, <1>2, <1>3, <1>4 DEF DBus

LEMMA PolicyGood ==
  ASSUME Good(ls), Policy
  PROVE  Good(ls')
<1>0. LockState(ls)
  BY DEF Good
<1> DEFINE a == [ls EXCEPT !.sessionActive = ~@]
           b == [ls EXCEPT !.lockOnSuspend = ~@]
           c == [ls EXCEPT !.useLegacy = ~@]
<1>1. Step(ls, a) /\ Step(ls, b) /\ Step(ls, c)
  BY <1>0 DEF Step, Keeps, KeepsLock, LockState, Fields, ShieldTypes, LockTypes, BlankTypes, SleepTypes
<1> HIDE DEF a, b, c
<1>2. Good(SyncInhibitor(a)) /\ Good(SyncInhibitor(b)) /\ Good(SyncInhibitor(c))
  BY <1>1, SyncInhibitorStep, GoodStep DEF Step
<1>3. Good(OnScreenSaverActivationRequest(SyncInhibitor(a), FALSE))
  BY <1>2, PresenceStep, GoodStep DEF Good
<1>4. CASE SessionActiveChanged
  BY <1>2, <1>3, <1>4 DEF SessionActiveChanged, Runs, a
<1>5. CASE LockOnSuspendChanged
  BY <1>2, <1>5 DEF LockOnSuspendChanged, Runs, b
<1>6. CASE UseLegacyChanged
  BY <1>2, <1>6 DEF UseLegacyChanged, Runs, c
<1> QED BY <1>4, <1>5, <1>6 DEF Policy

LEMMA RequestsGood ==
  ASSUME Good(ls), Requests
  PROVE  Good(ls')
<1>1. CASE Lock \/ Prompt
  BY <1>1, RequestLockGood DEF Lock, Prompt, Internal, Runs
<1>2. CASE Unlock
  BY <1>2, OnUnlockRequestedGood DEF Unlock, Runs
<1>3. CASE PresenceChanged \/ SaverRequested
  BY <1>3, PresenceStep, GoodStep DEF Good, PresenceChanged, SaverRequested, Internal, Runs
<1>4. CASE SimulateActivity
  BY <1>4, HideBlankWindowStep, GoodStep DEF Good, SimulateActivity, Internal, Runs
<1> QED BY <1>1, <1>2, <1>3, <1>4 DEF Requests

LEMMA TimersGood ==
  ASSUME Good(ls), Timers
  PROVE  Good(ls')
<1>0. LockState(ls)
  BY DEF Good
<1>1. CASE LockRetries
  BY <1>0, <1>1, HideBlankWindowStep, GoodStep DEF LockRetries, Internal, Runs
<1>2. CASE LockHappens
  BY <1>2, ShieldsRaisedGood DEF LockHappens, Internal, Runs
<1>3. CASE DelayTimerFires
  <2> DEFINE t == [ls EXCEPT !.delayTimer = FALSE]
  <2>1. Good(t)
    BY <1>0, TimerFieldsStep, GoodStep
  <2> HIDE DEF t
  <2>2. Good(RequestLock(t, TRUE))
    BY <2>1, RequestLockGood
  <2> QED BY <1>3, <2>2 DEF DelayTimerFires, Internal, Runs, t
<1>4. CASE SaverTimerFires
  BY <1>0, <1>4, ScreenSaverTimeoutStep, GoodStep DEF SaverTimerFires, Internal, Runs
<1>5. CASE PostTimerFires
  <2> DEFINE t == [ls EXCEPT !.postTimer = FALSE]
  <2>1. Good(t)
    BY <1>0, TimerFieldsStep, GoodStep
  <2> HIDE DEF t
  <2>2. Good(OnPresenceStatusChanged(t, TRUE))
    BY <2>1, PresenceStep, GoodStep DEF Good
  <2> QED BY <1>5, <2>2 DEF PostTimerFires, Internal, Runs, t
<1>6. CASE GrabTimerFires
  <2>1. PICK i \in ls.failTimer :
          LET t == [ls EXCEPT !.failTimer = @ \ {i}]
          IN  ls' = OnUnlockRequested(t) \/ ls' = t
    BY <1>6 DEF GrabTimerFires, Internal, Runs
  <2> DEFINE t == [ls EXCEPT !.failTimer = @ \ {i}]
  <2>2. Step(ls, t)
    BY <1>0 DEF Step, Keeps, KeepsLock, LockState, Fields, ShieldTypes, LockTypes, BlankTypes, SleepTypes
  <2>3. ls' = OnUnlockRequested(t) \/ ls' = t
    BY <2>1
  <2> HIDE DEF t
  <2> QED BY <2>2, <2>3, GoodStep, OnUnlockRequestedGood
<1> QED BY <1>1, <1>2, <1>3, <1>4, <1>5, <1>6 DEF Timers

LEMMA PaintingGood ==
  ASSUME Good(ls), Painting
  PROVE  Good(ls')
<1>0. LockState(ls)
  BY DEF Good
<1>1. CASE FadeTick
  <2>1. PICK v \in {Partial, ls.anim["fade"].to} : ls' = AnimAdvance(ls, "fade", v)
    BY <1>1 DEF FadeTick, Tick, Internal, Runs
  <2>2. v \in Values /\ ls.anim["fade"].running
    BY <1>0, <1>1, FadeValues DEF FadeTick, Tick
  <2> QED BY <2>1, <2>2, FadeAdvanceGood
<1>2. CASE BlankTick
  <2>1. PICK v \in {Partial, ls.anim["blank"].to} : ls' = AnimAdvance(ls, "blank", v)
    BY <1>2 DEF BlankTick, Tick, Internal, Runs
  <2>2. v \in Values
    BY <1>0, AnimTypes DEF Animators
  <2> QED BY <1>0, <2>1, <2>2, BlankAdvanceStep, GoodStep
<1>3. CASE DonePaint
  BY <1>0, <1>3, PaintStep, GoodStep DEF DonePaint, Internal, Runs
<1> QED BY <1>1, <1>2, <1>3 DEF Painting

\* A lock whose shields are rearranged stays one.
LEMMA RearrangedGood ==
  ASSUME NEW s, NEW t, Good(s), IsLocked(s), Rearranges(s, t),
         t.shields > 0, t.primary \in 1..t.shields, t.lockInput
  PROVE  Good(t)
<1>1. Up(s) /\ ~s.lockTimer
  BY GoodUp
<1>2. Up(t) /\ ~t.lockTimer
  BY <1>1 DEF Up, Rearranges
<1>3. t.anim["fade"].running => t.anim["fade"].from # t.anim["fade"].to
  BY DEF Rearranges, Good, LockInv
<1> QED BY <1>2, <1>3, UpGood DEF Rearranges

LEMMA UserInputGood ==
  ASSUME Good(ls), UserInput
  PROVE  Good(ls')
<1>0. LockState(ls)
  BY DEF Good
<1>1. CASE LockScreenInput
  <2>1. PICK i \in ShieldsOf(ls) :
          ls' = ResetPostLockScreenSaver(MovePrimary(ls, i)) \/ ls' = ResetPostLockScreenSaver(ls)
    BY <1>1 DEF LockScreenInput, Internal, Runs
  <2>2. /\ i \in Monitors /\ i \in 1..ls.shields /\ ls.shields > 0
        /\ IsLocked(ls)
    BY <1>0, MaxMonitorsAssumption DEF ShieldsOf, IsLocked, LockState, ShieldTypes
  <2>3. Good(MovePrimary(ls, i))
    <3>1. CASE i = ls.primary
      BY <3>1 DEF MovePrimary
    <3>2. CASE i # ls.primary
      BY <1>0, <2>2, <3>2, MovePrimaryLemma, RearrangedGood
    <3> QED BY <3>1, <3>2
  <2> QED BY <2>1, <2>3, ResetPostLockScreenSaverStep, GoodStep DEF Good
<1>2. CASE BlankWindowInput
  BY <1>0, <1>2, PresenceStep, GoodStep DEF BlankWindowInput, Internal, Runs
<1>3. CASE MonitorsChanged
  <2>0. PICK n \in Monitors : \E m \in 1..n :
          LET t == [ls EXCEPT !.monitors = n, !.mouse = m]
          IN  ls' = IF ls.following THEN EnsureBlankWindow(EnsureShields(t)) ELSE t
    BY <1>3 DEF MonitorsChanged, Internal, Runs
  <2>1. PICK m \in 1..n :
          LET t == [ls EXCEPT !.monitors = n, !.mouse = m]
          IN  ls' = IF ls.following THEN EnsureBlankWindow(EnsureShields(t)) ELSE t
    BY <2>0
  <2> DEFINE t == [ls EXCEPT !.monitors = n, !.mouse = m]
             e == EnsureShields(t)
  <2>2. Step(ls, t)
    BY <1>0 DEF Step, Keeps, KeepsLock, LockState, Fields, ShieldTypes, LockTypes, BlankTypes, SleepTypes
  <2>3. t.monitors = n /\ t.mouse = m
    BY <1>0 DEF LockState, Fields
  <2>4. ls' = IF ls.following THEN EnsureBlankWindow(e) ELSE t
    BY <2>1
  <2> HIDE DEF t
  <2>5. Good(t)
    BY <2>2, GoodStep
  <2>6. ASSUME ls.following PROVE Good(e)
    <3>1. IsLocked(t)
      BY <2>2, <2>6 DEF Good, LockInv, Step, Keeps, KeepsLock, IsLocked
    <3>2. Rearranges(t, e) /\ e.shields = n /\ e.primary = m /\ e.lockInput
      BY <2>3, <2>5, EnsureShieldsLemma DEF Good
    <3> HIDE DEF e
    <3> QED BY <2>5, <3>1, <3>2, RearrangedGood DEF e
  <2> HIDE DEF e
  <2> QED BY <2>4, <2>5, <2>6, EnsureBlankWindowStep, GoodStep DEF Good
<1>4. CASE PanelOpens
  <2>1. ls.primary \in Monitors
    BY <1>0, <1>4 DEF PanelOpens, LockState, ShieldTypes
  <2> QED BY <1>0, <1>4, <2>1, PanelActiveStep, GoodStep DEF PanelOpens, Internal, Runs
<1>5. CASE PanelCloses
  <2>1. PICK i \in ls.panels : ls' = PanelInactive(ls, i)
    BY <1>5 DEF PanelCloses, Internal, Runs
  <2>2. i \in Monitors
    BY <1>0 DEF LockState, ShieldTypes
  <2> QED BY <1>0, <2>1, <2>2, PanelInactiveStep, GoodStep
<1> QED BY <1>1, <1>2, <1>3, <1>4, <1>5 DEF UserInput

LEMMA GrabbingGood ==
  ASSUME Good(ls), Grabbing
  PROVE  Good(ls')
<1>0. LockState(ls)
  BY DEF Good
<1>1. CASE ForeignGrabs \/ ForeignUngrabs
  <2>1. ASSUME NEW g \in {"none", "keyboard", "pointer"} PROVE Step(ls, [ls EXCEPT !.foreignGrab = g])
    BY <1>0 DEF Step, Keeps, KeepsLock, LockState, Fields, ShieldTypes, LockTypes, BlankTypes, SleepTypes
  <2> QED BY <1>1, <2>1, GoodStep DEF ForeignGrabs, ForeignUngrabs, Internal, Runs
<1>2. CASE UngrabNotified
  BY <1>0, <1>2, ScreenUngrabbedStep, GoodStep DEF UngrabNotified, Internal, Runs
<1> QED BY <1>1, <1>2 DEF Grabbing

LEMMA SuspendingGood ==
  ASSUME Good(ls), Suspending
  PROVE  Good(ls')
<1>0. LockState(ls)
  BY DEF Good
<1>1. CASE PrepareForSleep
  <2>1. Good(InhibitPaint(ls))
    BY <1>0, PaintStep, GoodStep
  <2>2. Good(RequestLock(InhibitPaint(ls), TRUE))
    BY <2>1, RequestLockGood
  <2> QED BY <1>1, <2>2 DEF PrepareForSleep, AboutToSuspend
<1>2. CASE Sleep \/ SleepAnyway
  BY <1>2 DEF Sleep, SleepAnyway
<1>3. CASE Resume
  BY <1>0, <1>3, PaintStep, GoodStep DEF Resume
<1> QED BY <1>1, <1>2, <1>3 DEF Suspending

-----------------------------------------------------------------------------
(* The theorems.                                                           *)

PowerOK ==
  /\ power \in {"awake", "preparing", "asleep"}
  /\ proxies \subseteq {"login", "session"}
  /\ guarded \in BOOLEAN

IInv == Good(ls) /\ PowerOK

LEMMA InductiveInvariant == Spec => []IInv
<1>1. Init => IInv
  <2> SUFFICES ASSUME Init PROVE IInv
    OBVIOUS
  <2>1. Good(ls)
    BY InitGood, PoliciesAssumption DEF Init
  <2> QED BY <2>1 DEF Init, IInv, PowerOK
<1>2. IInv /\ [Next]_vars => IInv'
  <2> SUFFICES ASSUME IInv, [Next]_vars PROVE IInv'
    OBVIOUS
  <2>1. Good(ls')
    <3>1. CASE Next
      BY <3>1, DBusGood, PolicyGood, RequestsGood, TimersGood, PaintingGood, UserInputGood, GrabbingGood, SuspendingGood
         DEF IInv, Next
    <3>2. CASE UNCHANGED vars
      BY <3>2 DEF IInv, vars
    <3> QED BY <3>1, <3>2
  <2>2. PowerOK'
    <3>1. CASE DBus
      BY <3>1 DEF IInv, PowerOK, DBus, LoginConnected, SessionProxyReady, InhibitReplied, InhibitRejected, Internal, Runs
    <3>2. CASE Policy
      BY <3>2 DEF IInv, PowerOK, Policy, SessionActiveChanged, LockOnSuspendChanged, UseLegacyChanged, Runs
    <3>3. CASE Requests
      BY <3>3 DEF IInv, PowerOK, Requests, Lock, Prompt, Unlock, PresenceChanged, SaverRequested, SimulateActivity, Internal, Runs
    <3>4. CASE Timers
      BY <3>4 DEF IInv, PowerOK, Timers, LockRetries, LockHappens, DelayTimerFires, SaverTimerFires, PostTimerFires, GrabTimerFires, Internal, Runs
    <3>5. CASE Painting
      BY <3>5 DEF IInv, PowerOK, Painting, FadeTick, BlankTick, Tick, DonePaint, Internal, Runs
    <3>6. CASE UserInput
      BY <3>6 DEF IInv, PowerOK, UserInput, LockScreenInput, BlankWindowInput, MonitorsChanged, PanelOpens, PanelCloses, Internal, Runs
    <3>7. CASE Grabbing
      BY <3>7 DEF IInv, PowerOK, Grabbing, ForeignGrabs, ForeignUngrabs, UngrabNotified, Internal, Runs
    <3>8. CASE Suspending
      BY <3>8 DEF IInv, PowerOK, Suspending, PrepareForSleep, Sleep, SleepAnyway, Resume
    <3>9. CASE UNCHANGED vars
      BY <3>9 DEF IInv, PowerOK, vars
    <3> QED BY <3>1, <3>2, <3>3, <3>4, <3>5, <3>6, <3>7, <3>8, <3>9 DEF Next
  <2> QED BY <2>1, <2>2 DEF IInv
<1> QED BY <1>1, <1>2, PTL DEF Spec

\* Type correctness of the lock screen and of its surroundings, whatever the
\* number of monitors, the stimuli and the bound on the calls.
THEOREM TypeCorrect == Spec => []TypeOK
<1>1. IInv => TypeOK
  BY DEF IInv, Good, PowerOK, TypeOK
<1> QED BY <1>1, InductiveInvariant, PTL

\* Every lock is set up and taken down as a whole, whatever suspends, grabs,
\* monitors and requests come in between (LockScreenController.cpp:134-150,
\* 392-439, 489-524): no systemd target, connection or timer outlives it.
THEOREM LifecycleHolds == Spec => []Lifecycle
<1>1. IInv => Lifecycle
  BY Zenon DEF IInv, Good, LockInv, Lifecycle
<1> QED BY <1>1, InductiveInvariant, PTL

-----------------------------------------------------------------------------
(***************************************************************************)
(* The input grab: a locked session has it, nothing else keeps it, losing  *)
(* it never unlocks; and the refinement of SessionLock, for which the same *)
(* facts are needed.                                                       *)
(*                                                                         *)
(* The first part follows the fields that Lifecycle is about.  Here each   *)
(* method also gets a frame: the set of fields it may change at all.       *)
(***************************************************************************)

\* The call from s to t changes fields of F at most.
Only(s, t, F) == \A f \in Fields \ F : t[f] = s[f]

Blanks == {"anim", "blank", "blankOpacity", "blankInput", "delayTimer", "active", "grabs", "postTimer", "saverTimer"}
Inputs == {"grabs", "regrab", "failTimer", "isLocked", "built", "panels"}
Sleeps == {"inh", "synced", "bufferCleared", "paintInhibited"}
Fades  == Sleeps \cup {"anim", "opaque", "postTimer"}

LEMMA OnlyTransitive ==
  ASSUME NEW s, NEW t, NEW u, NEW F, NEW G, Only(s, t, F), Only(t, u, G)
  PROVE  Only(s, u, F \cup G)
  BY DEF Only

LEMMA OnlyWider ==
  ASSUME NEW s, NEW t, NEW F, NEW G, Only(s, t, F), F \subseteq G
  PROVE  Only(s, t, G)
  BY DEF Only

-----------------------------------------------------------------------------
(* The blank window: besides its own fields it changes the grabs, but none *)
(* of a shield is lost, and it holds one itself only while it exists.      *)

BlankCall(s, t) ==
  /\ Only(s, t, Blanks)
  /\ t.grabs \subseteq s.grabs \cup {BlankArea, s.primary}
  /\ s.grabs \ {BlankArea} \subseteq t.grabs
  /\ (BlankArea \in s.grabs => s.blank) => (BlankArea \in t.grabs => t.blank)

LEMMA BlankCallReflexive == ASSUME NEW s PROVE BlankCall(s, s)
  BY DEF BlankCall, Only

LEMMA BlankCallTransitive ==
  ASSUME NEW s, NEW t, NEW u, BlankCall(s, t), BlankCall(t, u)
  PROVE  BlankCall(s, u)
<1>1. Only(s, u, Blanks)
  BY OnlyTransitive DEF BlankCall
<1>2. t.primary = s.primary
  BY DEF BlankCall, Only, Fields, Blanks
<1> QED BY <1>1, <1>2 DEF BlankCall

\* A call that leaves the grabs alone and destroys no window
LEMMA BlankCallQuiet ==
  ASSUME NEW s, NEW t, Only(s, t, Blanks), t.grabs = s.grabs, s.blank => t.blank
  PROVE  BlankCall(s, t)
  BY DEF BlankCall

LEMMA BlankFieldsCall ==
  ASSUME NEW s, LockState(s), NEW b, NEW c, NEW d
  PROVE  /\ BlankCall(s, [s EXCEPT !.blankInput = b])
         /\ BlankCall(s, [s EXCEPT !.blankOpacity = b])
         /\ BlankCall(s, [s EXCEPT !.active = b, !.delayTimer = c])
         /\ BlankCall(s, [s EXCEPT !.blank = TRUE, !.blankOpacity = b])
         /\ BlankCall(s, [s EXCEPT !.delayTimer = b])
         /\ BlankCall(s, [s EXCEPT !.postTimer = b])
         /\ BlankCall(s, [s EXCEPT !.saverTimer = b])
  BY DEF LockState, BlankCall, Only, Blanks, Fields

LEMMA BlankWindowGrabEnableCall ==
  ASSUME NEW s, LockState(s), NEW grab \in BOOLEAN
  PROVE  BlankCall(s, BlankWindowGrabEnable(s, grab))
<1> DEFINE t == [s EXCEPT !.blankInput = grab]
<1>1. BlankCall(s, t) /\ DOMAIN t = Fields /\ t.primary = s.primary /\ t.blank = s.blank
  BY BlankFieldsCall DEF LockState, Fields
<1> HIDE DEF t
<1>2. s.blank => BlankCall(t, GrabAdd(t, BlankArea))
  BY <1>1 DEF GrabAdd, BlankCall, Only, Blanks, Fields
<1>3. s.primary # None => BlankCall(t, GrabAdd(t, s.primary))
  BY <1>1 DEF GrabAdd, BlankCall, Only, Blanks, Fields
<1>4. BlankCall(t, UnGrab(t, {BlankArea}))
  BY <1>1 DEF UnGrab, BlankCall, Only, Blanks, Fields
<1> QED BY <1>1, <1>2, <1>3, <1>4, BlankCallTransitive, BlankCallReflexive DEF BlankWindowGrabEnable, t

LEMMA OnBlankFinishedCall ==
  ASSUME NEW s, LockState(s)
  PROVE  BlankCall(s, OnBlankFinished(s))
<1> DEFINE isShown == s.anim["blank"].val = Full
           t == BlankWindowGrabEnable(s, isShown)
<1>1. LockState(t) /\ BlankCall(s, t)
  BY BlankWindowGrabEnableStep, BlankWindowGrabEnableCall DEF Step
<1>2. OnBlankFinished(s) = [t EXCEPT !.active = isShown, !.delayTimer = isShown /\ s.lockOnBlank]
  BY DEF OnBlankFinished
<1> HIDE DEF t, isShown
<1> QED BY <1>1, <1>2, BlankFieldsCall, BlankCallTransitive

LEMMA BlankAnimCall ==
  ASSUME NEW s, LockState(s), NEW r, NEW x, NEW y, NEW v
  PROVE  /\ BlankCall(s, [s EXCEPT !.anim["blank"].running = r])
         /\ BlankCall(s, [s EXCEPT !.anim["blank"].from = x])
         /\ BlankCall(s, [s EXCEPT !.anim["blank"].from = x, !.anim["blank"].to = y])
         /\ BlankCall(s, SetCurrent(s, "blank", v))
<1>1. BlankCall(s, [s EXCEPT !.anim["blank"].running = r])
  BY DEF LockState, BlankCall, Only, Blanks, Fields
<1>2. BlankCall(s, [s EXCEPT !.anim["blank"].from = x])
  BY DEF LockState, BlankCall, Only, Blanks, Fields
<1>3. BlankCall(s, [s EXCEPT !.anim["blank"].from = x, !.anim["blank"].to = y])
  BY DEF LockState, BlankCall, Only, Blanks, Fields
<1>4. BlankCall(s, SetCurrent(s, "blank", v))
  BY DEF LockState, BlankCall, Only, Blanks, Fields, SetCurrent
<1> QED BY <1>1, <1>2, <1>3, <1>4

LEMMA BlankStopCall ==
  ASSUME NEW s, LockState(s)
  PROVE  BlankCall(s, AnimStop(s, "blank"))
<1> DEFINE t == [s EXCEPT !.anim["blank"].running = FALSE]
<1>1. BlankCall(s, t) /\ LockState(t)
  BY BlankAnimCall, AnimUpdateStep DEF Step
<1> HIDE DEF t
<1>2. BlankCall(s, OnBlankFinished(t))
  BY <1>1, OnBlankFinishedCall, BlankCallTransitive
<1> QED BY <1>2, BlankCallReflexive DEF AnimStop, Finished, t

LEMMA BlankRunCall ==
  ASSUME NEW s, LockState(s)
  PROVE  BlankCall(s, AnimRun(s, "blank"))
<1> DEFINE v == s.anim["blank"].from
           t == IF s.anim["blank"].val = v THEN s ELSE SetCurrent(s, "blank", v)
<1>1. v \in Values
  BY AnimTypes DEF Animators
<1> HIDE DEF v
<1>2. BlankCall(s, t) /\ LockState(t)
  BY <1>1, BlankAnimCall, AnimUpdateStep, BlankCallReflexive DEF Step
<1> HIDE DEF t
<1>3. BlankCall(t, [t EXCEPT !.anim["blank"].running = TRUE])
  BY <1>2, BlankAnimCall
<1> QED BY <1>2, <1>3, BlankCallTransitive DEF AnimRun, t, v

LEMMA BlankStartCall ==
  ASSUME NEW s, LockState(s), NEW from \in Ends, NEW to \in Ends
  PROVE  BlankCall(s, AnimStart(s, "blank", from, to))
<1> DEFINE u == AnimStop(s, "blank")
           t == [u EXCEPT !.anim["blank"].from = from, !.anim["blank"].to = to]
           r == AnimRun(t, "blank")
<1>1. BlankCall(s, u) /\ LockState(u)
  BY BlankStopStep, BlankStopCall DEF Step
<1>2. BlankCall(s, t) /\ LockState(t)
  <2> HIDE DEF u
  <2>1. LockState(t) /\ BlankCall(u, t)
    BY <1>1, BlankAnimCall, AnimUpdateStep DEF Step
  <2> QED BY <1>1, <2>1, BlankCallTransitive
<1> HIDE DEF t
<1>3. BlankCall(s, r) /\ LockState(r)
  BY <1>2, BlankRunStep, BlankRunCall, BlankCallTransitive DEF Step
<1> HIDE DEF r
<1>4. BlankCall(s, AnimStop(r, "blank"))
  BY <1>3, BlankStopCall, BlankCallTransitive
<1> QED BY <1>2, <1>3, <1>4 DEF AnimStart, t, r

LEMMA BlankStartOrReverseCall ==
  ASSUME NEW s, LockState(s), NEW from \in Ends, NEW to \in Ends
  PROVE  BlankCall(s, AnimStartOrReverse(s, "blank", from, to))
  BY BlankStartCall, BlankAnimCall, BlankCallReflexive DEF AnimStartOrReverse

LEMMA BlankSkipCall ==
  ASSUME NEW s, LockState(s)
  PROVE  BlankCall(s, AnimSkip(s, "blank"))
<1> DEFINE t == AnimSetValue(s, "blank", s.anim["blank"].to)
<1>1. s.anim["blank"].to \in Ends
  BY AnimTypes DEF Animators
<1>2. LockState(t) /\ BlankCall(s, t)
  BY <1>1, BlankStartStep, BlankStartCall DEF AnimSetValue, Step
<1> HIDE DEF t
<1>3. BlankCall(t, [t EXCEPT !.anim["blank"].from = s.anim["blank"].from])
  BY <1>2, BlankAnimCall
<1> QED BY <1>2, <1>3, BlankCallTransitive DEF AnimSkip, t

LEMMA BlankAdvanceCall ==
  ASSUME NEW s, LockState(s), NEW v \in Values
  PROVE  BlankCall(s, AnimAdvance(s, "blank", v))
<1> DEFINE t == SetCurrent(s, "blank", v)
<1>1. LockState(t) /\ BlankCall(s, t)
  BY AnimUpdateStep, BlankAnimCall DEF Step
<1> HIDE DEF t
<1>2. BlankCall(s, AnimStop(t, "blank"))
  BY <1>1, BlankStopCall, BlankCallTransitive
<1> QED BY <1>1, <1>2 DEF AnimAdvance, t

LEMMA EnsureBlankWindowCall ==
  ASSUME NEW s, LockState(s)
  PROVE  BlankCall(s, EnsureBlankWindow(s))
  BY BlankFieldsCall, BlankCallReflexive DEF EnsureBlankWindow

LEMMA ShowBlankWindowCall ==
  ASSUME NEW s, LockState(s)
  PROVE  BlankCall(s, ShowBlankWindow(s))
<1>1. LockState(EnsureBlankWindow(s)) /\ BlankCall(s, EnsureBlankWindow(s))
  BY EnsureBlankWindowStep, EnsureBlankWindowCall DEF Step
<1>2. BlankCall(s, AnimStartOrReverse(EnsureBlankWindow(s), "blank", Clear, Full))
  BY <1>1, BlankStartOrReverseCall, BlankCallTransitive
<1> QED BY <1>2, BlankCallReflexive DEF ShowBlankWindow

LEMMA HideBlankWindowCall ==
  ASSUME NEW s, LockState(s)
  PROVE  BlankCall(s, HideBlankWindow(s))
<1> DEFINE faded    == AnimSetValue(s, "blank", Clear)
           released == IF faded.prompt THEN BlankWindowGrabEnable(faded, FALSE) ELSE faded
           gone     == [UnGrab(released, {BlankArea}) EXCEPT !.blank = FALSE, !.blankOpacity = Clear, !.delayTimer = FALSE]
<1>1. LockState(faded) /\ BlankCall(s, faded)
  BY BlankStartStep, BlankStartCall DEF AnimSetValue, Step
<1> HIDE DEF faded
<1>2. LockState(released) /\ BlankCall(s, released)
  BY <1>1, BlankWindowGrabEnableStep, BlankWindowGrabEnableCall, BlankCallTransitive DEF Step
<1> HIDE DEF released
<1>3. BlankCall(released, gone)
  BY <1>2 DEF LockState, UnGrab, BlankCall, Only, Blanks, Fields
<1> QED BY <1>2, <1>3, BlankCallTransitive, BlankCallReflexive DEF HideBlankWindow, gone, released, faded

LEMMA PresenceCall ==
  ASSUME NEW s, LockState(s), NEW b \in BOOLEAN
  PROVE  /\ BlankCall(s, OnBlankWindowInputEvent(s))
         /\ BlankCall(s, OnPresenceStatusChanged(s, b))
         /\ BlankCall(s, OnScreenSaverActivationRequest(s, b))
<1>1. BlankCall(s, HideBlankWindow(s)) /\ BlankCall(s, ShowBlankWindow(s)) /\ BlankCall(s, s)
  BY HideBlankWindowCall, ShowBlankWindowCall, BlankCallReflexive
<1>2. BlankCall(s, OnScreenSaverActivationRequest(s, b))
  BY <1>1, BlankFieldsCall DEF OnScreenSaverActivationRequest
<1> QED BY <1>1, <1>2 DEF OnBlankWindowInputEvent, OnPresenceStatusChanged

LEMMA ScreenSaverTimeoutCall ==
  ASSUME NEW s, LockState(s)
  PROVE  BlankCall(s, ScreenSaverTimeout(s))
<1> DEFINE t == [s EXCEPT !.saverTimer = "none"]
           u == ShowBlankWindow(t)
<1>1. LockState(t) /\ BlankCall(s, t)
  BY TimerFieldsStep, BlankFieldsCall DEF Step
<1> HIDE DEF t
<1>2. BlankCall(s, HideBlankWindow(t))
  BY <1>1, HideBlankWindowCall, BlankCallTransitive
<1>3. LockState(u) /\ BlankCall(s, u)
  BY <1>1, ShowBlankWindowStep, ShowBlankWindowCall, BlankCallTransitive DEF Step
<1> HIDE DEF u
<1>4. BlankCall(s, AnimSkip(u, "blank"))
  BY <1>3, BlankSkipCall, BlankCallTransitive
<1> QED BY <1>1, <1>2, <1>4 DEF ScreenSaverTimeout, t, u

LEMMA ResetPostLockScreenSaverCall ==
  ASSUME NEW s, LockState(s)
  PROVE  BlankCall(s, ResetPostLockScreenSaver(s))
<1> DEFINE t == [s EXCEPT !.postTimer = FALSE]
<1>1. LockState(t) /\ BlankCall(s, t)
  BY TimerFieldsStep, BlankFieldsCall DEF Step
<1> HIDE DEF t
<1> QED BY <1>1, HideBlankWindowCall, BlankCallTransitive DEF ResetPostLockScreenSaver, t

-----------------------------------------------------------------------------
(* Shields: the grab of shield i is taken, or will be.                     *)

ShieldCall(s, t, i) ==
  /\ Only(s, t, Inputs)
  /\ t.panels = s.panels
  /\ s.grabs \subseteq t.grabs /\ t.grabs \subseteq s.grabs \cup {i}
  /\ s.regrab \ {i} \subseteq t.regrab /\ t.regrab \subseteq s.regrab \cup {i}
  /\ i \in t.grabs \cup t.regrab
  /\ s.isLocked => t.isLocked
  /\ t.isLocked => s.isLocked \/ s.conn = i

LEMMA GrabScreenCall ==
  ASSUME NEW s, LockState(s), NEW i, NEW cancel
  PROVE  ShieldCall(s, GrabScreen(s, i, cancel), i)
<1> DEFINE t == GrabScreen(s, i, cancel)
<1>1. Only(s, t, Inputs) /\ t.panels = s.panels
  BY DEF LockState, GrabScreen, GrabAdd, CanGrab, Only, Inputs, Fields
<1>2. /\ s.grabs \subseteq t.grabs /\ t.grabs \subseteq s.grabs \cup {i}
      /\ s.regrab \ {i} \subseteq t.regrab /\ t.regrab \subseteq s.regrab \cup {i}
      /\ i \in t.grabs \cup t.regrab
  BY DEF LockState, GrabScreen, GrabAdd, CanGrab, Fields
<1>3. (s.isLocked => t.isLocked) /\ (t.isLocked => s.isLocked \/ s.conn = i)
  BY DEF LockState, GrabScreen, GrabAdd, CanGrab, Fields
<1> HIDE DEF t
<1> QED BY <1>1, <1>2, <1>3 DEF ShieldCall, t

LEMMA ShowPrimaryViewCall ==
  ASSUME NEW s, LockState(s), NEW i \in Monitors
  PROVE  ShieldCall(s, ShowPrimaryView(s, i), i)
<1> DEFINE t == [s EXCEPT !.built = @ \cup {i}]
<1>1. LockState(t)
  BY DEF LockState, Fields, ShieldTypes, LockTypes, BlankTypes, SleepTypes
<1>2. Only(s, t, {"built"})
  BY DEF LockState, Only, Fields
<1>3. /\ t.panels = s.panels /\ t.grabs = s.grabs /\ t.regrab = s.regrab
      /\ t.isLocked = s.isLocked /\ t.conn = s.conn
  BY <1>2 DEF Only, Fields
<1> HIDE DEF t
<1>4. ShieldCall(t, GrabScreen(t, i, TRUE), i)
  BY <1>1, GrabScreenCall
<1>5. Only(s, GrabScreen(t, i, TRUE), Inputs)
  BY <1>2, <1>4 DEF ShieldCall, Only, Inputs
<1>6. ShieldCall(s, GrabScreen(t, i, TRUE), i)
  BY <1>3, <1>4, <1>5 DEF ShieldCall
<1> QED BY <1>6, GrabScreenCall DEF ShowPrimaryView, t

LEMMA DemoteCall ==
  ASSUME NEW s, LockState(s), NEW i
  PROVE  Only(s, Demote(s, i), {"regrab"}) /\ Demote(s, i).regrab = s.regrab \ {i}
  BY DEF LockState, Demote, Only, Fields

LEMMA PromoteCall ==
  ASSUME NEW s, LockState(s), NEW i \in Monitors
  PROVE  ShieldCall(s, Promote(s, i), i)
<1> DEFINE t == Demote(s, i)
<1>1. LockState(t) /\ Only(s, t, {"regrab"}) /\ t.regrab = s.regrab \ {i}
  BY DemoteStep, DemoteCall DEF Step
<1>2. /\ t.panels = s.panels /\ t.grabs = s.grabs
      /\ t.isLocked = s.isLocked /\ t.conn = s.conn
  BY <1>1 DEF Only, Fields
<1> HIDE DEF t
<1>3. ShieldCall(t, ShowPrimaryView(t, i), i)
  BY <1>1, ShowPrimaryViewCall
<1>4. Only(s, ShowPrimaryView(t, i), Inputs)
  BY <1>1, <1>3 DEF ShieldCall, Only, Inputs
<1> QED BY <1>1, <1>2, <1>3, <1>4 DEF ShieldCall, Promote, t

\* The menu of an indicator takes the grab of the primary shield, or gives it back.
LEMMA PanelActiveCall ==
  ASSUME NEW s, LockState(s), NEW i
  PROVE  /\ Only(s, PanelActive(s, i), {"panels", "regrab", "grabs"})
         /\ PanelActive(s, i).panels = s.panels \cup {i}
         /\ PanelActive(s, i).grabs \subseteq s.grabs
         /\ PanelActive(s, i).regrab \subseteq s.regrab
<1> DEFINE t == PanelActive(s, i)
<1>1. Only(s, t, {"panels", "regrab", "grabs"})
  BY DEF LockState, PanelActive, UnGrab, Demote, Only, Fields
<1>2. t.panels = s.panels \cup {i} /\ t.grabs \subseteq s.grabs /\ t.regrab \subseteq s.regrab
  BY DEF LockState, PanelActive, UnGrab, Demote, Fields
<1> QED BY <1>1, <1>2

LEMMA PanelInactiveCall ==
  ASSUME NEW s, LockState(s), NEW i \in Monitors
  PROVE  LET t == [s EXCEPT !.panels = @ \ {i}]
         IN  /\ Only(s, t, {"panels"})
             /\ t.panels = s.panels \ {i}
             /\ IF i = s.primary THEN ShieldCall(t, PanelInactive(s, i), i) ELSE PanelInactive(s, i) = t
<1> DEFINE t == [s EXCEPT !.panels = @ \ {i}]
<1>1. LockState(t) /\ Only(s, t, {"panels"}) /\ t.panels = s.panels \ {i}
  BY DEF LockState, Fields, ShieldTypes, LockTypes, BlankTypes, SleepTypes, Only
<1> HIDE DEF t
<1>2. ShieldCall(t, GrabScreen(t, i, FALSE), i)
  BY <1>1, GrabScreenCall
<1>3. PanelInactive(s, i) = IF i = s.primary THEN GrabScreen(t, i, FALSE) ELSE t
  BY DEF PanelInactive, t
<1> QED BY <1>1, <1>2, <1>3 DEF t

-----------------------------------------------------------------------------
(* The inhibitor, the painting and the fade leave the input alone.         *)

LEMMA SyncInhibitorCall ==
  ASSUME NEW s, LockState(s)
  PROVE  Only(s, SyncInhibitor(s), {"inh", "synced"})
  BY DEF LockState, SyncInhibitor, Only, Fields

LEMMA PaintCall ==
  ASSUME NEW s, LockState(s)
  PROVE  /\ Only(s, InhibitPaint(s), Sleeps)
         /\ Only(s, UninhibitPaint(s), Sleeps)
         /\ Only(s, MarkBufferHasCleared(s), Sleeps)
<1> DEFINE t == [s EXCEPT !.bufferCleared = TRUE, !.paintInhibited = FALSE]
           u == [s EXCEPT !.bufferCleared = TRUE]
<1>1. LockState(t) /\ LockState(u)
  BY DEF LockState, Fields, ShieldTypes, LockTypes, BlankTypes, SleepTypes
<1>2. Only(s, InhibitPaint(s), Sleeps) /\ Only(s, t, Sleeps) /\ Only(s, u, Sleeps) /\ Only(s, s, Sleeps)
  BY DEF LockState, InhibitPaint, Only, Sleeps, Fields
<1> HIDE DEF t, u
<1>3. Only(s, SyncInhibitor(t), Sleeps) /\ Only(s, SyncInhibitor(u), Sleeps)
  BY <1>1, <1>2, SyncInhibitorCall DEF Only, Sleeps
<1> QED BY <1>2, <1>3 DEF UninhibitPaint, MarkBufferHasCleared, t, u

FadeCall(s, t) == Only(s, t, Fades) /\ t.anim["blank"] = s.anim["blank"]

LEMMA FadeCallTransitive ==
  ASSUME NEW s, NEW t, NEW u, FadeCall(s, t), FadeCall(t, u)
  PROVE  FadeCall(s, u)
  BY DEF FadeCall, Only

LEMMA FadeFieldsCall ==
  ASSUME NEW s, LockState(s), NEW r, NEW x, NEW y, NEW v
  PROVE  /\ FadeCall(s, [s EXCEPT !.anim["fade"].running = r])
         /\ FadeCall(s, [s EXCEPT !.anim["fade"].from = x])
         /\ FadeCall(s, [s EXCEPT !.anim["fade"].from = x, !.anim["fade"].to = y])
         /\ FadeCall(s, SetCurrent(s, "fade", v))
         /\ FadeCall(s, [s EXCEPT !.postTimer = r])
<1>1. FadeCall(s, [s EXCEPT !.anim["fade"].running = r])
  BY DEF LockState, BlankTypes, Animators, FadeCall, Only, Fades, Fields
<1>2. FadeCall(s, [s EXCEPT !.anim["fade"].from = x])
  BY DEF LockState, BlankTypes, Animators, FadeCall, Only, Fades, Fields
<1>3. FadeCall(s, [s EXCEPT !.anim["fade"].from = x, !.anim["fade"].to = y])
  BY DEF LockState, BlankTypes, Animators, FadeCall, Only, Fades, Fields
<1>4. FadeCall(s, SetCurrent(s, "fade", v))
  BY DEF LockState, BlankTypes, Animators, FadeCall, Only, Fades, Fields, SetCurrent
<1>5. FadeCall(s, [s EXCEPT !.postTimer = r])
  BY DEF LockState, FadeCall, Only, Fades, Fields
<1> QED BY <1>1, <1>2, <1>3, <1>4, <1>5

LEMMA OnFadeFinishedCall ==
  ASSUME NEW s, LockState(s), ~Backward(s.anim["fade"])
  PROVE  FadeCall(s, OnFadeFinished(s))
<1> DEFINE t == SyncInhibitor(s)
<1>1. LockState(t) /\ FadeCall(s, t)
  <2>1. LockState(t) /\ Only(s, t, {"inh", "synced"})
    BY SyncInhibitorStep, SyncInhibitorCall DEF Step
  <2> HIDE DEF t
  <2> QED BY <2>1 DEF FadeCall, Only, Fades, Sleeps, Fields
<1> HIDE DEF t
<1>2. FadeCall(s, [t EXCEPT !.postTimer = TRUE])
  BY <1>1, FadeFieldsCall, FadeCallTransitive
<1> QED BY <1>1, <1>2 DEF OnFadeFinished, t

LEMMA FadeStopCall ==
  ASSUME NEW s, LockState(s), ~Backward(s.anim["fade"])
  PROVE  FadeCall(s, AnimStop(s, "fade"))
<1> DEFINE t == [s EXCEPT !.anim["fade"].running = FALSE]
<1>1. LockState(t) /\ FadeCall(s, t)
  BY FadeValues, FadeUpdate, FadeFieldsCall
<1>2. ~Backward(t.anim["fade"])
  <2>1. FadeIs(t, FALSE, s.anim["fade"].from, s.anim["fade"].to)
    BY FadeValues, FadeUpdate
  <2> HIDE DEF t
  <2> QED BY <2>1 DEF FadeIs, Backward
<1> HIDE DEF t
<1>3. FadeCall(s, OnFadeFinished(t))
  BY <1>1, <1>2, OnFadeFinishedCall, FadeCallTransitive
<1>4. FadeCall(s, s)
  BY DEF FadeCall, Only
<1> QED BY <1>3, <1>4 DEF AnimStop, Finished, t

LEMMA FadeRunCall ==
  ASSUME NEW s, LockState(s)
  PROVE  FadeCall(s, AnimRun(s, "fade"))
<1> DEFINE v == s.anim["fade"].from
           t == IF s.anim["fade"].val = v THEN s ELSE SetCurrent(s, "fade", v)
<1>1. v \in Values
  BY FadeValues
<1>2. LockState(t)
  BY <1>1, SetCurrentLemma DEF Animators
<1>3. FadeCall(s, t)
  <2>1. FadeCall(s, s)
    BY DEF FadeCall, Only
  <2> QED BY <2>1, FadeFieldsCall
<1> HIDE DEF t, v
<1>4. FadeCall(s, [t EXCEPT !.anim["fade"].running = TRUE])
  BY <1>2, <1>3, FadeFieldsCall, FadeCallTransitive
<1> QED BY <1>4 DEF AnimRun, t, v

LEMMA FadeStartOrReverseCall ==
  ASSUME NEW s, LockState(s), NEW from \in Ends, NEW to \in Ends, from # to,
         s.anim["fade"].running => s.anim["fade"].from # s.anim["fade"].to
  PROVE  FadeCall(s, AnimStartOrReverse(s, "fade", from, to))
<1> DEFINE now == s.anim["fade"]
           t == [s EXCEPT !.anim["fade"].from = from, !.anim["fade"].to = to]
<1>1. now.from \in Ends /\ now.to \in Ends
  BY FadeValues
<1>2. CASE now.running /\ now.from = to /\ now.to = from
  BY <1>2, FadeFieldsCall DEF AnimStartOrReverse
<1>3. CASE now.running /\ now.from = from /\ now.to = to
  BY <1>3 DEF AnimStartOrReverse, FadeCall, Only
<1>4. CASE ~now.running
  <2>1. LockState(t) /\ FadeCall(s, t)
    BY FadeUpdate, FadeFieldsCall
  <2>2. AnimStartOrReverse(s, "fade", from, to) = AnimRun(t, "fade")
    BY <1>4 DEF AnimStartOrReverse, AnimStart, AnimStop
  <2> HIDE DEF t
  <2> QED BY <2>1, <2>2, FadeRunCall, FadeCallTransitive
<1> QED BY <1>1, <1>2, <1>3, <1>4

LEMMA FadeSkipCall ==
  ASSUME NEW s, LockState(s), FadeIs(s, TRUE, Clear, Full)
  PROVE  FadeCall(s, AnimSkip(s, "fade"))
<1> DEFINE t == AnimStop(s, "fade")
           u == [t EXCEPT !.anim["fade"].from = Full, !.anim["fade"].to = Full]
           r == AnimRun(u, "fade")
           w == AnimStart(s, "fade", Full, Full)
<1>1. s.anim["fade"].running /\ ~Backward(s.anim["fade"])
  BY DEF FadeIs, Backward
<1>2. LockState(t) /\ FadeCall(s, t) /\ FadeIs(t, FALSE, Clear, Full)
  BY <1>1, FadeStop, FadeStopCall DEF FadeIs
<1> HIDE DEF t
<1>3. LockState(u) /\ FadeCall(s, u) /\ FadeIs(u, FALSE, Full, Full)
  BY <1>2, FadeUpdate, FadeFieldsCall, FadeCallTransitive DEF FadeIs
<1>4. w = IF u.anim["fade"].val # Full THEN AnimStop(r, "fade") ELSE u
  BY DEF AnimStart, t
<1> HIDE DEF u
<1>5. LockState(r) /\ FadeCall(s, r) /\ FadeIs(r, TRUE, Full, Full)
  BY <1>3, FadeRun, FadeRunCall, FadeCallTransitive DEF FadeIs
<1> HIDE DEF r
<1>6. ~Backward(r.anim["fade"]) /\ r.anim["fade"].running
  BY <1>5 DEF FadeIs, Backward
<1>7. LockState(w) /\ FadeCall(s, w)
  <2>1. LockState(AnimStop(r, "fade")) /\ FadeCall(r, AnimStop(r, "fade"))
    BY <1>5, <1>6, FadeStop, FadeStopCall
  <2>2. FadeCall(s, AnimStop(r, "fade"))
    BY <1>5, <2>1, FadeCallTransitive
  <2> QED BY <1>3, <1>4, <2>1, <2>2
<1>8. AnimSkip(s, "fade") = [w EXCEPT !.anim["fade"].from = Clear]
  BY DEF AnimSkip, AnimSetValue, FadeIs
<1> HIDE DEF w
<1> QED BY <1>7, <1>8, FadeFieldsCall, FadeCallTransitive

-----------------------------------------------------------------------------
(* The shields of the current monitors, and the primary one among them.    *)

Arranged == Inputs \cup {"shields", "primary", "conn", "shown", "opaque", "early", "lockInput"}

\* What the two methods that choose a primary shield leave behind
Chosen(s, t) ==
  /\ Only(s, t, Arranged)
  /\ t.regrab \subseteq {t.primary}
  /\ t.conn \in {None, t.primary}
  /\ t.primary \in t.grabs \cup t.regrab
  /\ s.isLocked => t.isLocked

LEMMA SetupPrimaryShieldConnectionsCall ==
  ASSUME NEW s, LockState(s)
  PROVE  LET t == SetupPrimaryShieldConnections(s)
         IN  Only(s, t, {"conn", "lockInput"}) /\ t.conn \in {None, s.primary}
  BY DEF LockState, SetupPrimaryShieldConnections, Only, Fields

LEMMA MovePrimaryChosen ==
  ASSUME NEW s, LockState(s), NEW i \in Monitors, i # s.primary, s.regrab \subseteq {s.primary}
  PROVE  /\ Chosen(s, MovePrimary(s, i))
         /\ Only(s, MovePrimary(s, i), Inputs \cup {"primary", "conn", "lockInput"})
         /\ MovePrimary(s, i).grabs \subseteq s.grabs \cup {i}
<1> DEFINE d == Demote(s, s.primary)
           t == [d EXCEPT !.primary = i]
           r == Promote(t, i)
           z == SetupPrimaryShieldConnections(r)
<1>1. LockState(d) /\ Only(s, d, {"regrab"}) /\ d.regrab = {}
  BY DemoteStep, DemoteCall DEF Step
<1> HIDE DEF d
<1>2. LockState(t) /\ Only(s, t, {"regrab", "primary"}) /\ t.regrab = {} /\ t.primary = i
  <2>1. LockState(t)
    BY <1>1, SetPrimaryLemma DEF Rearranges
  <2>2. Only(d, t, {"primary"}) /\ t.primary = i /\ t.regrab = d.regrab
    BY <1>1 DEF LockState, Only, Fields
  <2> HIDE DEF t
  <2> QED BY <1>1, <2>1, <2>2 DEF Only
<1>3. t.grabs = s.grabs /\ t.isLocked = s.isLocked
  BY <1>2 DEF Only, Fields
<1> HIDE DEF t
<1>4. LockState(r) /\ ShieldCall(t, r, i)
  BY <1>2, PromoteStep, PromoteCall DEF Step
<1> HIDE DEF r
<1>5. Only(r, z, {"conn", "lockInput"}) /\ z.conn \in {None, r.primary}
  BY <1>4, SetupPrimaryShieldConnectionsCall
<1> HIDE DEF z
<1>6. r.primary = i
  BY <1>2, <1>4 DEF ShieldCall, Only, Inputs, Fields
<1>7. z.primary = i /\ z.grabs = r.grabs /\ z.regrab = r.regrab /\ z.isLocked = r.isLocked
  BY <1>5, <1>6 DEF Only, Fields
<1>8. Only(s, z, Inputs \cup {"primary", "conn", "lockInput"})
  BY <1>2, <1>4, <1>5 DEF ShieldCall, Only, Inputs
<1>9. Only(s, z, Arranged)
  BY <1>8 DEF Only, Arranged
<1>10. Chosen(s, z) /\ z.grabs \subseteq s.grabs \cup {i}
  BY <1>2, <1>3, <1>4, <1>5, <1>6, <1>7, <1>9 DEF Chosen, ShieldCall
<1> QED BY <1>8, <1>10 DEF MovePrimary, z, r, t, d

LEMMA DestroyShieldsCall ==
  ASSUME NEW s, LockState(s), NEW gone
  PROVE  LET t == DestroyShields(s, gone)
         IN  /\ Only(s, t, Arranged \ {"shields", "early", "lockInput", "isLocked"})
             /\ t.grabs = s.grabs \ gone /\ t.regrab = s.regrab \ gone /\ t.opaque = s.opaque \ gone
  BY DEF LockState, DestroyShields, Only, Arranged, Inputs, Fields

LEMMA AddShieldsCall ==
  ASSUME NEW s, LockState(s), NEW added
  PROVE  LET t == AddShields(s, added)
             v == s.anim["fade"].val
         IN  /\ Only(s, t, {"shown", "opaque", "early"})
             /\ t.opaque = IF v # Partial THEN s.opaque \cup added ELSE s.opaque
             /\ t.early = (s.early \/ (v = Clear /\ added # {}))
<1> DEFINE v == s.anim["fade"].val
           t == AddShields(s, added)
<1>1. v \in Values
  BY FadeValues
<1> HIDE DEF v
<1>2. t = [s EXCEPT !.shown  = IF v # Clear THEN @ \cup added ELSE @,
                    !.opaque = IF v # Partial THEN @ \cup added ELSE @,
                    !.early  = @ \/ (v = Clear /\ added # {})]
  BY DEF AddShields, v
<1> HIDE DEF t
<1>3. Only(s, t, {"shown", "opaque", "early"})
  BY <1>2 DEF LockState, Only, Fields
<1>4. t.opaque = IF v # Partial THEN s.opaque \cup added ELSE s.opaque
  BY <1>2 DEF LockState, Fields
<1>5. t.early = (s.early \/ (v = Clear /\ added # {}))
  BY <1>2 DEF LockState, Fields
<1> QED BY <1>3, <1>4, <1>5 DEF t, v

\* EnsureShields: what is left of the grabs belongs to the shields there are,
\* and the primary one has the input or waits for it.
LEMMA EnsureShieldsChosen ==
  ASSUME NEW s, LockState(s), s.regrab \subseteq {s.primary}
  PROVE  LET t     == EnsureShields(s)
             added == (s.shields + 1)..s.monitors
             v     == s.anim["fade"].val
         IN  /\ Chosen(s, t)
             /\ t.grabs \subseteq ShieldsOf(t) \cup (s.grabs \cap {BlankArea})
             /\ t.opaque = (s.opaque \ ((s.monitors + 1)..MaxMonitors)) \cup (IF v # Partial THEN added ELSE {})
             /\ t.early = (s.early \/ (v = Clear /\ added # {}))
<1> DEFINE p       == s.mouse
           v       == s.anim["fade"].val
           added   == (s.shields + 1)..s.monitors
           gone    == (s.monitors + 1)..MaxMonitors
           left    == DestroyShields(s, gone)
           resized == [left EXCEPT !.shields = s.monitors]
           demoted == Demote(resized, s.primary)
           shown   == ShowPrimaryView(demoted, p)
           built   == IF p \in added THEN Demote(shown, p) ELSE demoted
           more    == AddShields(built, added)
           laidOut == [more EXCEPT !.primary = p]
           r       == Promote(laidOut, p)
           z       == SetupPrimaryShieldConnections(r)
<1>0. p \in Monitors /\ p \in 1..s.monitors /\ s.monitors \in Monitors /\ s.shields \in 0..MaxMonitors
  BY MaxMonitorsAssumption DEF LockState, LockTypes, ShieldTypes
<1>1. added \subseteq Monitors
  BY <1>0, MaxMonitorsAssumption
<1>2. s.grabs \ gone \subseteq (1..s.monitors) \cup (s.grabs \cap {BlankArea})
  BY <1>0, MaxMonitorsAssumption DEF LockState, ShieldTypes
<1>3. EnsureShields(s) = z
  BY DEF EnsureShields
<1> HIDE DEF p, v, added, gone
<1>4. /\ LockState(left) /\ Only(s, left, Arranged \ {"shields", "early", "lockInput", "isLocked"})
      /\ left.grabs = s.grabs \ gone /\ left.regrab = s.regrab \ gone /\ left.opaque = s.opaque \ gone
  BY DestroyShieldsTypes, DestroyShieldsCall
<1> HIDE DEF left
<1>5. LockState(resized) /\ Only(left, resized, {"shields"}) /\ resized.shields = s.monitors
  BY <1>0, <1>4 DEF LockState, Fields, ShieldTypes, LockTypes, BlankTypes, SleepTypes, Only
<1> HIDE DEF resized
<1>6. /\ resized.grabs = s.grabs \ gone /\ resized.regrab \subseteq s.regrab /\ resized.opaque = s.opaque \ gone
      /\ resized.isLocked = s.isLocked /\ resized.early = s.early /\ resized.anim = s.anim
      /\ Only(s, resized, Arranged)
  BY <1>4, <1>5 DEF Only, Arranged, Inputs, Fields
<1>7. LockState(demoted) /\ Only(resized, demoted, Inputs) /\ demoted.regrab = {} /\ demoted.grabs = resized.grabs
      /\ demoted.isLocked = resized.isLocked
  <2>1. LockState(demoted) /\ Only(resized, demoted, {"regrab"}) /\ demoted.regrab = resized.regrab \ {s.primary}
    BY <1>5, DemoteStep, DemoteCall DEF Step
  <2> HIDE DEF demoted
  <2> QED BY <1>6, <2>1 DEF Only, Inputs, Fields
<1> HIDE DEF demoted
<1>8. /\ LockState(built) /\ Only(resized, built, Inputs) /\ built.regrab = {}
      /\ built.grabs \subseteq resized.grabs \cup {p}
      /\ resized.isLocked => built.isLocked
  <2>1. LockState(shown) /\ ShieldCall(demoted, shown, p)
    BY <1>0, <1>7, ShowPrimaryViewStep, ShowPrimaryViewCall DEF Step
  <2> HIDE DEF shown
  <2> DEFINE d == Demote(shown, p)
  <2>2. LockState(d) /\ Only(shown, d, {"regrab"}) /\ d.regrab = shown.regrab \ {p}
    BY <2>1, DemoteStep, DemoteCall DEF Step
  <2> HIDE DEF d
  <2>3. d.grabs = shown.grabs /\ d.isLocked = shown.isLocked
    BY <2>2 DEF Only, Fields
  <2>4. Only(resized, d, Inputs)
    BY <1>7, <2>1, <2>2 DEF ShieldCall, Only, Inputs
  <2>5. d.regrab = {}
    BY <1>7, <2>1, <2>2 DEF ShieldCall
  <2>6. d.grabs \subseteq resized.grabs \cup {p} /\ (resized.isLocked => d.isLocked)
    BY <1>7, <2>1, <2>3 DEF ShieldCall
  <2>7. built = IF p \in added THEN d ELSE demoted
    BY DEF built, d
  <2> HIDE DEF built
  <2> QED BY <1>7, <2>2, <2>4, <2>5, <2>6, <2>7
<1> HIDE DEF built
<1>9. built.anim = s.anim /\ built.opaque = s.opaque \ gone /\ built.early = s.early
  BY <1>6, <1>8 DEF Only, Inputs, Fields
<1>10. /\ LockState(more) /\ Only(built, more, {"shown", "opaque", "early"})
       /\ more.opaque = (s.opaque \ gone) \cup (IF v # Partial THEN added ELSE {})
       /\ more.early = (s.early \/ (v = Clear /\ added # {}))
  <2>1. LockState(more)
    BY <1>1, <1>8, AddShieldsStep DEF Step
  <2>2. /\ Only(built, more, {"shown", "opaque", "early"})
        /\ more.opaque = IF built.anim["fade"].val # Partial THEN built.opaque \cup added ELSE built.opaque
        /\ more.early = (built.early \/ (built.anim["fade"].val = Clear /\ added # {}))
    BY <1>8, AddShieldsCall
  <2>3. built.anim["fade"].val = v
    BY <1>9 DEF v
  <2> HIDE DEF more
  <2> QED BY <1>9, <2>1, <2>2, <2>3
<1> HIDE DEF more
<1>11. LockState(laidOut) /\ Only(more, laidOut, {"primary"}) /\ laidOut.primary = p
  <2>1. LockState(laidOut)
    BY <1>0, <1>10, SetPrimaryLemma DEF Rearranges
  <2> QED BY <1>10, <2>1 DEF LockState, Only, Fields
<1> HIDE DEF laidOut
<1>12. /\ laidOut.regrab = {} /\ laidOut.grabs \subseteq resized.grabs \cup {p}
       /\ resized.isLocked => laidOut.isLocked
  BY <1>8, <1>10, <1>11 DEF Only, Fields
<1>13. LockState(r) /\ ShieldCall(laidOut, r, p)
  BY <1>0, <1>11, PromoteStep, PromoteCall DEF Step
<1> HIDE DEF r
<1>14. Only(r, z, {"conn", "lockInput"}) /\ z.conn \in {None, r.primary}
  BY <1>13, SetupPrimaryShieldConnectionsCall
<1> HIDE DEF z
<1>15. /\ z.primary = p /\ r.primary = p /\ z.shields = s.monitors
       /\ z.opaque = more.opaque /\ z.early = more.early
  BY <1>5, <1>8, <1>10, <1>11, <1>13, <1>14 DEF ShieldCall, Only, Inputs, Fields
<1>16. z.grabs = r.grabs /\ z.regrab = r.regrab /\ z.isLocked = r.isLocked
  BY <1>14 DEF Only, Fields
<1>17. Only(s, z, Arranged)
  <2>1. Only(s, more, Arranged)
    BY <1>6, <1>8, <1>10 DEF Only, Arranged
  <2>2. Only(more, z, Arranged)
    BY <1>11, <1>13, <1>14 DEF ShieldCall, Only, Arranged
  <2> QED BY <2>1, <2>2 DEF Only
<1>18. Chosen(s, z)
  BY <1>6, <1>12, <1>13, <1>14, <1>15, <1>16, <1>17 DEF Chosen, ShieldCall
<1>19. z.grabs \subseteq ShieldsOf(z) \cup (s.grabs \cap {BlankArea})
  <2>1. z.grabs \subseteq (s.grabs \ gone) \cup {p}
    BY <1>6, <1>12, <1>13, <1>16 DEF ShieldCall
  <2>2. ShieldsOf(z) = 1..s.monitors
    BY <1>15 DEF ShieldsOf
  <2>3. s.grabs \ gone \subseteq (1..s.monitors) \cup (s.grabs \cap {BlankArea})
    BY <1>2 DEF gone
  <2> QED BY <1>0, <2>1, <2>2, <2>3
<1> QED BY <1>3, <1>10, <1>15, <1>18, <1>19 DEF gone, added, v

\* The end of the fade-out takes every grab of a shield with it.
LEMMA RemoveShieldsCall ==
  ASSUME NEW s, LockState(s)
  PROVE  LET t == RemoveShields(s)
         IN  /\ Only(s, t, Arranged \cup {"following", "target"})
             /\ t.grabs \subseteq s.grabs \cap {BlankArea} /\ t.regrab = {}
<1> DEFINE d == DestroyShields(s, Monitors)
           t == [d EXCEPT !.shields = 0, !.lockInput = FALSE, !.following = FALSE,
                          !.isLocked = FALSE, !.target = FALSE, !.early = FALSE]
<1>1. LockState(d) /\ Only(s, d, Arranged) /\ d.grabs = s.grabs \ Monitors /\ d.regrab = s.regrab \ Monitors
  <2>1. /\ LockState(d) /\ Only(s, d, Arranged \ {"shields", "early", "lockInput", "isLocked"})
        /\ d.grabs = s.grabs \ Monitors /\ d.regrab = s.regrab \ Monitors
    BY DestroyShieldsTypes, DestroyShieldsCall
  <2> HIDE DEF d
  <2> QED BY <2>1 DEF Only
<1>2. s.grabs \subseteq 0..MaxMonitors /\ s.regrab \subseteq Monitors
  BY DEF LockState, ShieldTypes
<1>3. RemoveShields(s) = t
  BY DEF RemoveShields
<1> HIDE DEF d
<1>4. Only(d, t, Arranged \cup {"following", "target"}) /\ t.grabs = d.grabs /\ t.regrab = d.regrab
  BY <1>1 DEF LockState, Only, Arranged, Inputs, Fields
<1> HIDE DEF t
<1>5. Only(s, t, Arranged \cup {"following", "target"})
  BY <1>1, <1>4 DEF Only
<1>6. t.grabs \subseteq s.grabs \cap {BlankArea} /\ t.regrab = {}
  BY <1>1, <1>2, <1>4, MaxMonitorsAssumption
<1> QED BY <1>3, <1>5, <1>6

-----------------------------------------------------------------------------
(* The inductive invariant, relative to LockInv: NoStrayGrab and GrabKept, *)
(* with the place of the primary shield that both rest on.  And the phase  *)
(* of SessionLock as a function of the state, with its steps.              *)

Leaving(s) == s.anim["fade"].running /\ Backward(s.anim["fade"])

Held(s) ==
  /\ s.grabs \subseteq ShieldsOf(s) \cup (IF s.blank THEN {BlankArea} ELSE {})
  /\ s.regrab \subseteq {s.primary}
  /\ s.conn \in {None, s.primary}
  /\ s.primary \in ShieldsOf(s) \cup {None}
  /\ s.isLocked /\ ~Leaving(s) => s.primary \in s.grabs \cup s.panels \cup s.regrab

PhaseOf(s) ==
  IF IsLocked(s) THEN (IF Leaving(s) THEN "leaving" ELSE "locked")
  ELSE IF s.lockTimer THEN "arming" ELSE "unlocked"

SessionStep(s, t) ==
  \/ PhaseOf(t) = PhaseOf(s) /\ t.isLocked = s.isLocked
  \/ PhaseOf(s) = "unlocked" /\ PhaseOf(t) = "arming" /\ t.isLocked = s.isLocked
  \/ PhaseOf(s) = "arming" /\ PhaseOf(t) = "unlocked" /\ t.isLocked = s.isLocked
  \/ PhaseOf(s) = "arming" /\ PhaseOf(t) = "locked"
  \/ PhaseOf(s) \in {"locked", "leaving"} /\ PhaseOf(t) = PhaseOf(s) /\ t.isLocked
  \/ PhaseOf(s) = "locked" /\ PhaseOf(t) = "leaving" /\ t.isLocked = s.isLocked
  \/ PhaseOf(s) = "leaving" /\ PhaseOf(t) = "unlocked" /\ ~t.isLocked

\* The phase stays, and a reported lock stays reported.
SamePhase(s, t) == PhaseOf(t) = PhaseOf(s) /\ (s.isLocked => t.isLocked)

\* What every step keeps
Sound(s, t) ==
  /\ Held(t)
  /\ SessionStep(s, t)
  /\ s.isLocked /\ ~Leaving(s) => ~Leaving(t)

LEMMA SamePhaseSound ==
  ASSUME NEW s, NEW t, Good(s), Good(t), SamePhase(s, t), Held(t)
  PROVE  Sound(s, t)
<1>1. s.isLocked \in BOOLEAN /\ t.isLocked \in BOOLEAN
  BY DEF Good, LockState, LockTypes
<1>2. (s.isLocked => IsLocked(s)) /\ (t.isLocked => IsLocked(t))
  BY DEF Good, LockInv
<1>3. SessionStep(s, t)
  BY <1>1, <1>2 DEF SamePhase, SessionStep, PhaseOf
<1>4. s.isLocked /\ ~Leaving(s) => ~Leaving(t)
  <2>1. ASSUME s.isLocked, ~Leaving(s) PROVE ~Leaving(t)
    <3>1. PhaseOf(t) = "locked"
      BY <1>2, <2>1 DEF SamePhase, PhaseOf
    <3> QED BY <3>1 DEF PhaseOf
  <2> QED BY <2>1
<1> QED BY <1>3, <1>4 DEF Sound

LEMMA SamePhaseTransitive ==
  ASSUME NEW s, NEW t, NEW u, SamePhase(s, t), SamePhase(t, u)
  PROVE  SamePhase(s, u)
  BY DEF SamePhase

\* The fields that Held and the phase depend on, the fade apart
Watched == {"shields", "primary", "conn", "grabs", "regrab", "panels", "isLocked", "blank", "lockTimer"}

LEMMA ApartKept ==
  ASSUME NEW s, NEW t, Held(s), Only(s, t, Fields \ Watched), Leaving(t) <=> Leaving(s)
  PROVE  Held(t) /\ SamePhase(s, t)
<1>1. /\ t.shields = s.shields /\ t.primary = s.primary /\ t.conn = s.conn /\ t.grabs = s.grabs
      /\ t.regrab = s.regrab /\ t.panels = s.panels /\ t.isLocked = s.isLocked /\ t.blank = s.blank
      /\ t.lockTimer = s.lockTimer
  BY DEF Only, Watched, Fields
<1>2. ShieldsOf(t) = ShieldsOf(s) /\ (IsLocked(t) <=> IsLocked(s))
  BY <1>1 DEF ShieldsOf, IsLocked
<1> QED BY <1>1, <1>2 DEF Held, SamePhase, PhaseOf

LEMMA StepPhase ==
  ASSUME NEW s, NEW t, Step(s, t)
  PROVE  /\ PhaseOf(t) = PhaseOf(s)
         /\ Leaving(t) <=> Leaving(s)
         /\ ShieldsOf(t) = ShieldsOf(s)
         /\ t.primary = s.primary /\ t.conn = s.conn
  BY DEF Step, Keeps, KeepsLock, PhaseOf, Leaving, IsLocked, ShieldsOf

LEMMA BlankHeld ==
  ASSUME NEW s, NEW t, s.isLocked => s.primary # None, Held(s), Step(s, t), BlankCall(s, t)
  PROVE  Held(t) /\ SamePhase(s, t)
<1>1. t.regrab = s.regrab /\ t.panels = s.panels /\ t.isLocked = s.isLocked
  BY DEF BlankCall, Only, Blanks, Fields
<1>2. BlankArea \notin ShieldsOf(s)
  BY DEF ShieldsOf
<1>3. BlankArea \in t.grabs => t.blank
  BY <1>2 DEF Held, BlankCall
<1>4. t.grabs \subseteq ShieldsOf(t) \cup (IF t.blank THEN {BlankArea} ELSE {})
  BY <1>3, StepPhase DEF Held, BlankCall
<1>5. s.isLocked /\ ~Leaving(s) => s.primary \in t.grabs \cup t.panels \cup t.regrab
  BY <1>1 DEF Held, BlankCall
<1> QED BY <1>1, <1>4, <1>5, StepPhase DEF Held, SamePhase

LEMMA BlankKept ==
  ASSUME NEW s, NEW t, Good(s), Held(s), Step(s, t), BlankCall(s, t)
  PROVE  Held(t) /\ SamePhase(s, t)
<1>1. s.isLocked => s.primary # None
  BY DEF Good, LockInv, ShieldsOf
<1> QED BY <1>1, BlankHeld

LEMMA ShieldKept ==
  ASSUME NEW s, NEW t, Held(s), Step(s, t), ShieldCall(s, t, s.primary), s.primary \in ShieldsOf(s)
  PROVE  Held(t) /\ SamePhase(s, t)
<1>1. t.blank = s.blank
  BY DEF ShieldCall, Only, Inputs, Fields
<1>2. t.primary \in t.grabs \cup t.regrab
  BY StepPhase DEF ShieldCall
<1>3. t.grabs \subseteq ShieldsOf(t) \cup (IF t.blank THEN {BlankArea} ELSE {})
  BY <1>1, StepPhase DEF Held, ShieldCall
<1> QED BY <1>2, <1>3, StepPhase DEF Held, SamePhase, ShieldCall

\* A lock whose shields were rearranged
LEMMA ChosenKept ==
  ASSUME NEW s, NEW t, IsLocked(s), IsLocked(t), Rearranges(s, t), Chosen(s, t), t.primary \in ShieldsOf(t),
         t.grabs \subseteq ShieldsOf(t) \cup (IF s.blank THEN {BlankArea} ELSE {})
  PROVE  Held(t) /\ SamePhase(s, t)
<1>1. t.blank = s.blank
  BY DEF Chosen, Only, Arranged, Inputs, Fields
<1>2. Leaving(t) <=> Leaving(s)
  BY DEF Rearranges, Leaving
<1> QED BY <1>1, <1>2 DEF Chosen, Held, SamePhase, PhaseOf

-----------------------------------------------------------------------------
(* The methods that start and end a lock.                                  *)

LEMMA OnLockRequestedSound ==
  ASSUME NEW s, Good(s), Held(s), NEW prompt \in BOOLEAN
  PROVE  Sound(s, OnLockRequested(s, prompt))
<1> DEFINE shown   == EnsureBlankWindow(s)
           grabbed == BlankWindowGrabEnable(shown, TRUE)
           blanked == [grabbed EXCEPT !.blankOpacity = Full]
           t       == IF prompt THEN blanked ELSE s
           u       == [t EXCEPT !.prompt = prompt, !.lockTimer = TRUE]
<1>1. Step(s, shown) /\ BlankCall(s, shown)
  BY EnsureBlankWindowStep, EnsureBlankWindowCall DEF Good
<1> HIDE DEF shown
<1>2. Step(s, grabbed) /\ BlankCall(s, grabbed)
  BY <1>1, BlankWindowGrabEnableStep, BlankWindowGrabEnableCall, StepTransitive, BlankCallTransitive DEF Step
<1> HIDE DEF grabbed
<1>3. Step(grabbed, blanked) /\ BlankCall(grabbed, blanked)
  <2>1. Step(grabbed, blanked)
    BY <1>2 DEF Step, Keeps, KeepsLock, LockState, Fields, ShieldTypes, LockTypes, BlankTypes, SleepTypes
  <2> QED BY <1>2, <2>1, BlankFieldsCall DEF Step
<1> HIDE DEF blanked
<1>4. Step(s, t) /\ BlankCall(s, t)
  BY <1>2, <1>3, StepTransitive, BlankCallTransitive, StepReflexive, BlankCallReflexive DEF Good
<1> HIDE DEF t
<1>5. Good(t) /\ Held(t) /\ SamePhase(s, t) /\ t.isLocked = s.isLocked
  BY <1>4, GoodStep, BlankKept DEF BlankCall, Only, Blanks, Fields
<1>6. ASSUME ~IsLocked(s) PROVE Sound(s, u)
  <2>1. Only(t, u, {"prompt", "lockTimer"}) /\ u.lockTimer
    BY <1>4 DEF Step, LockState, Only, Fields
  <2> HIDE DEF u
  <2>2. /\ u.shields = t.shields /\ u.primary = t.primary /\ u.conn = t.conn /\ u.grabs = t.grabs
        /\ u.regrab = t.regrab /\ u.panels = t.panels /\ u.isLocked = t.isLocked /\ u.blank = t.blank
        /\ u.anim = t.anim
    BY <2>1 DEF Only, Fields
  <2>3. Held(u)
    BY <1>5, <2>2 DEF Held, ShieldsOf, Leaving
  <2>4. ~IsLocked(t) /\ ~IsLocked(u) /\ ~s.isLocked
    BY <1>4, <1>6, <2>2 DEF Step, Keeps, KeepsLock, IsLocked, Good, LockInv
  <2>5. PhaseOf(s) \in {"arming", "unlocked"} /\ PhaseOf(u) = "arming" /\ u.isLocked = s.isLocked
    BY <1>5, <1>6, <2>1, <2>2, <2>4 DEF PhaseOf
  <2> QED BY <2>3, <2>4, <2>5 DEF Sound, SessionStep
<1>7. Sound(s, s)
  BY SamePhaseSound DEF SamePhase
<1> QED BY <1>6, <1>7 DEF OnLockRequested, u, t, blanked, grabbed, shown

LEMMA RequestLockSound ==
  ASSUME NEW s, Good(s), Held(s), NEW prompt \in BOOLEAN
  PROVE  Sound(s, RequestLock(s, prompt))
<1>1. Sound(s, OnScreenSaverActivationRequest(s, TRUE))
  <2> DEFINE t == OnScreenSaverActivationRequest(s, TRUE)
  <2>1. Step(s, t) /\ BlankCall(s, t)
    BY PresenceStep, PresenceCall DEF Good
  <2> HIDE DEF t
  <2> QED BY <2>1, GoodStep, BlankKept, SamePhaseSound DEF t
<1> QED BY <1>1, OnLockRequestedSound DEF RequestLock

\* An unlock, on the contrary, leaves: whoever asks for it.
LEMMA OnUnlockRequestedSound ==
  ASSUME NEW s, Good(s), Held(s)
  PROVE  Held(OnUnlockRequested(s)) /\ SessionStep(s, OnUnlockRequested(s))
<1> DEFINE t == [s EXCEPT !.lockTimer = FALSE, !.postTimer = FALSE]
           u == HideBlankWindow(t)
           w == UnGrab(u, ShieldsOf(u))
           z == AnimStartOrReverse(w, "fade", Full, Clear)
<1>0. LockState(s)
  BY DEF Good
<1>1. LockState(t) /\ Only(s, t, {"lockTimer", "postTimer"}) /\ ~t.lockTimer
  <2>1. LockState(t)
    BY <1>0 DEF LockState, Fields, ShieldTypes, LockTypes, BlankTypes, SleepTypes
  <2> QED BY <1>0, <2>1 DEF LockState, Only, Fields
<1> HIDE DEF t
<1>2. /\ t.shields = s.shields /\ t.primary = s.primary /\ t.conn = s.conn /\ t.grabs = s.grabs
      /\ t.regrab = s.regrab /\ t.panels = s.panels /\ t.isLocked = s.isLocked /\ t.blank = s.blank
      /\ t.anim = s.anim /\ t.lockInput = s.lockInput /\ t.target = s.target /\ t.following = s.following
  BY <1>1 DEF Only, Fields
<1>3. Held(t) /\ Good(t)
  <2>1. Held(t)
    BY <1>2 DEF Held, ShieldsOf, Leaving
  <2>2. (IsLocked(t) <=> IsLocked(s)) /\ ShieldsOf(t) = ShieldsOf(s)
    BY <1>2 DEF IsLocked, ShieldsOf
  <2>3. LockInv(t)
    BY <1>1, <1>2, <2>2, Zenon DEF Good, LockInv
  <2> QED BY <1>1, <2>1, <2>3 DEF Good
<1>4. Step(t, u) /\ BlankCall(t, u)
  BY <1>1, HideBlankWindowStep, HideBlankWindowCall
<1> HIDE DEF u
<1>5. Held(u) /\ Good(u) /\ SamePhase(t, u) /\ u.isLocked = s.isLocked
  BY <1>2, <1>3, <1>4, BlankKept, GoodStep DEF BlankCall, Only, Blanks, Fields
<1>6. /\ IsLocked(u) <=> IsLocked(s)
      /\ Leaving(u) <=> Leaving(s)
      /\ ~u.lockTimer
  BY <1>1, <1>2, <1>4, StepPhase DEF Step, Keeps, KeepsLock, IsLocked, Leaving
<1>7. CASE IsLocked(u)
  <2>1. LockState(w) /\ Only(u, w, {"grabs"}) /\ w.grabs \subseteq u.grabs
    <3>1. LockState(w)
      BY <1>5, UnGrabStep DEF Good, Step
    <3> QED BY <1>5, <3>1 DEF Good, LockState, UnGrab, Only, Fields
  <2> HIDE DEF w
  <2>2. /\ w.shields = u.shields /\ w.primary = u.primary /\ w.conn = u.conn
        /\ w.regrab = u.regrab /\ w.isLocked = u.isLocked /\ w.blank = u.blank
        /\ w.anim = u.anim
    BY <2>1 DEF Only, Fields
  <2>3. w.anim["fade"].running => w.anim["fade"].from # w.anim["fade"].to
    BY <1>5, <2>2 DEF Good, LockInv
  <2>4. FadeCall(w, z) /\ FadeIs(z, TRUE, Full, Clear)
    <3>1. Clear \in Ends /\ Full \in Ends /\ Full # Clear
      OBVIOUS
    <3> HIDE DEF Clear, Full, Ends
    <3> QED BY <2>1, <2>3, <3>1, FadeStartOrReverse, FadeStartOrReverseCall, Zenon
  <2> HIDE DEF z
  <2>5. /\ z.shields = w.shields /\ z.primary = w.primary /\ z.conn = w.conn /\ z.grabs = w.grabs
        /\ z.regrab = w.regrab /\ z.isLocked = w.isLocked /\ z.blank = w.blank
    BY <2>4 DEF FadeCall, Only, Fades, Sleeps, Fields
  <2>6. Leaving(z)
    BY <2>4 DEF FadeIs, Leaving, Backward
  <2>7. Held(z)
    BY <1>5, <2>1, <2>2, <2>5, <2>6 DEF Held, ShieldsOf
  <2>8. PhaseOf(z) = "leaving" /\ PhaseOf(s) \in {"locked", "leaving"} /\ z.isLocked = s.isLocked
    BY <1>5, <1>6, <1>7, <2>2, <2>5, <2>6 DEF PhaseOf, IsLocked
  <2>9. OnUnlockRequested(s) = z
    BY <1>7 DEF OnUnlockRequested, HideShields, z, w, u, t
  <2> QED BY <2>7, <2>8, <2>9 DEF SessionStep
<1>8. CASE ~IsLocked(u)
  <2>1. OnUnlockRequested(s) = u
    BY <1>8 DEF OnUnlockRequested, HideShields, u, t
  <2>2. PhaseOf(s) \in {"arming", "unlocked"} /\ PhaseOf(u) = "unlocked"
    BY <1>6, <1>8 DEF PhaseOf
  <2> QED BY <1>5, <2>1, <2>2 DEF SessionStep
<1> QED BY <1>7, <1>8

LEMMA LockScreenHeld ==
  ASSUME NEW s, LockState(s), ~s.anim["fade"].running, Held(s)
  PROVE  Held(LockScreen(s)) /\ LockScreen(s).prompt = s.prompt
<1> DEFINE a == [s EXCEPT !.target = TRUE]
           t == EnsureShields(a)
           k == t.primary \in t.grabs
           o == ShieldsOf(t)
           u == [t EXCEPT !.following = TRUE, !.shown = o, !.opaque = {}, !.isLocked = k, !.early = FALSE]
           z == AnimStartOrReverse(u, "fade", Clear, Full)
<1>1. LockState(a) /\ Only(s, a, {"target"})
  BY DEF LockState, Fields, ShieldTypes, LockTypes, BlankTypes, SleepTypes, Only
<1> HIDE DEF a
<1>2. /\ a.grabs = s.grabs /\ a.regrab = s.regrab /\ a.primary = s.primary /\ a.blank = s.blank
      /\ a.prompt = s.prompt /\ a.anim = s.anim
  BY <1>1 DEF Only, Fields
<1>3. Rearranges(a, t) /\ t.shields = a.monitors /\ t.primary = a.mouse
  BY <1>1, EnsureShieldsLemma
<1>4. Chosen(a, t) /\ t.grabs \subseteq ShieldsOf(t) \cup (a.grabs \cap {BlankArea})
  BY <1>1, <1>2, EnsureShieldsChosen DEF Held
<1> HIDE DEF t
<1>5. t.primary \in ShieldsOf(t) /\ t.blank = a.blank /\ t.prompt = a.prompt
  <2>1. t.primary \in ShieldsOf(t)
    BY <1>1, <1>3 DEF ShieldsOf, LockState, LockTypes
  <2> QED BY <1>4, <2>1 DEF Chosen, Only, Arranged, Inputs, Fields
<1>6. o \subseteq Monitors /\ k \in BOOLEAN
  BY <1>3, MaxMonitorsAssumption DEF ShieldsOf, Rearranges, LockState, ShieldTypes
<1> HIDE DEF o, k
<1>7. LockState(u) /\ Only(t, u, {"following", "shown", "opaque", "isLocked", "early"}) /\ u.isLocked = k
  <2>0. LockState(t)
    BY <1>3 DEF Rearranges
  <2>1. ShieldTypes(u)
    BY <1>6, <2>0 DEF LockState, Fields, ShieldTypes
  <2>2. LockTypes(u)
    BY <1>6, <2>0 DEF LockState, Fields, LockTypes
  <2>3. BlankTypes(u)
    BY <2>0 DEF LockState, Fields, BlankTypes
  <2>4. SleepTypes(u) /\ DOMAIN u = Fields
    BY <2>0 DEF LockState, Fields, SleepTypes
  <2>5. Only(t, u, {"following", "shown", "opaque", "isLocked", "early"}) /\ u.isLocked = k
    BY <2>0 DEF LockState, Only, Fields
  <2> QED BY <2>1, <2>2, <2>3, <2>4, <2>5 DEF LockState
<1> HIDE DEF u
<1>8. /\ u.shields = t.shields /\ u.primary = t.primary /\ u.conn = t.conn /\ u.grabs = t.grabs
      /\ u.regrab = t.regrab /\ u.panels = t.panels /\ u.blank = t.blank /\ u.prompt = t.prompt
      /\ u.anim = t.anim
  BY <1>7 DEF Only, Fields
<1>9. FadeCall(u, z)
  <2>1. Clear \in Ends /\ Full \in Ends /\ Full # Clear
    OBVIOUS
  <2>2. ~u.anim["fade"].running
    BY <1>2, <1>3, <1>8 DEF Rearranges
  <2> HIDE DEF Clear, Full, Ends
  <2> QED BY <1>7, <2>1, <2>2, FadeStartOrReverseCall, Zenon
<1> HIDE DEF z
<1>10. /\ z.shields = u.shields /\ z.primary = u.primary /\ z.conn = u.conn /\ z.grabs = u.grabs
       /\ z.regrab = u.regrab /\ z.panels = u.panels /\ z.isLocked = u.isLocked /\ z.blank = u.blank
       /\ z.prompt = u.prompt
  BY <1>9 DEF FadeCall, Only, Fades, Sleeps, Fields
<1>11. z.grabs \subseteq ShieldsOf(z) \cup (IF z.blank THEN {BlankArea} ELSE {})
  <2>1. BlankArea \in a.grabs => a.blank
    BY <1>2 DEF Held, ShieldsOf
  <2>2. ShieldsOf(z) = ShieldsOf(t)
    BY <1>8, <1>10 DEF ShieldsOf
  <2> QED BY <1>4, <1>5, <1>8, <1>10, <2>1, <2>2
<1>12. z.primary \in ShieldsOf(z) /\ (z.isLocked => z.primary \in z.grabs)
  BY <1>5, <1>7, <1>8, <1>10 DEF ShieldsOf, k
<1>13. Held(z)
  BY <1>4, <1>8, <1>10, <1>11, <1>12 DEF Chosen, Held
<1>14. LockScreen(s) = z
  BY DEF LockScreen, ShowShields, z, u, t, a, k, o
<1> QED BY <1>2, <1>5, <1>8, <1>10, <1>13, <1>14

LEMMA ShieldsRaisedSound ==
  ASSUME NEW s, Good(s), Held(s), s.lockTimer
  PROVE  Sound(s, ShieldsRaised(RaiseShields(s)))
<1> DEFINE a == IF s.prompt THEN s ELSE HideBlankWindow(s)
           t == LockScreen(a)
           k == AnimSkip(t, "fade")
           h == HideBlankWindow(k)
           v == IF t.prompt THEN h ELSE t
           z == [v EXCEPT !.lockTimer = FALSE]
<1>0. ~s.anim["fade"].running /\ ~IsLocked(s) /\ ~s.isLocked
  BY DEF Good, LockInv
<1>1. Step(s, a) /\ BlankCall(s, a)
  BY StepReflexive, BlankCallReflexive, HideBlankWindowStep, HideBlankWindowCall DEF Good
<1> HIDE DEF a
<1>2. Held(a) /\ LockState(a) /\ ~a.anim["fade"].running
  BY <1>0, <1>1, BlankKept DEF Step, Keeps
<1>3. LockState(t) /\ Up(t) /\ FadeIs(t, TRUE, Clear, Full) /\ Held(t)
  BY <1>2, LockScreenLemma, LockScreenHeld
<1> HIDE DEF t
<1>4. LockState(k) /\ KeepsLock(t, k) /\ FadeIs(k, FALSE, Clear, Full) /\ FadeCall(t, k)
  BY <1>3, FadeSkip, FadeSkipCall
<1> HIDE DEF k
<1>5. Held(k) /\ Up(k)
  <2>1. (Leaving(k) <=> Leaving(t)) /\ Up(k)
    BY <1>3, <1>4, UpKept DEF FadeIs, Leaving, Backward
  <2>2. Only(t, k, Fields \ Watched)
    BY <1>4 DEF FadeCall, Only, Fades, Sleeps, Watched, Fields
  <2> QED BY <1>3, <2>1, <2>2, ApartKept
<1>6. Held(h) /\ Up(h) /\ LockState(h) /\ h.anim["fade"] = k.anim["fade"]
  <2>1. Step(k, h) /\ BlankCall(k, h)
    BY <1>4, HideBlankWindowStep, HideBlankWindowCall
  <2>2. k.primary # None
    BY <1>5 DEF Up
  <2> HIDE DEF h
  <2> QED BY <1>5, <2>1, <2>2, BlankHeld, UpKept DEF Step, Keeps
<1> HIDE DEF h
<1>7. /\ Held(v) /\ Up(v) /\ LockState(v)
      /\ v.anim["fade"].from = Clear /\ v.anim["fade"].to = Full
  BY <1>3, <1>4, <1>6 DEF FadeIs
<1> HIDE DEF v
<1>8. Only(v, z, {"lockTimer"}) /\ ~z.lockTimer
  BY <1>7 DEF LockState, Only, Fields
<1> HIDE DEF z
<1>9. /\ z.shields = v.shields /\ z.primary = v.primary /\ z.conn = v.conn /\ z.grabs = v.grabs
      /\ z.regrab = v.regrab /\ z.panels = v.panels /\ z.isLocked = v.isLocked /\ z.blank = v.blank
      /\ z.anim = v.anim
  BY <1>8 DEF Only, Fields
<1>10. Held(z) /\ IsLocked(z) /\ ~Leaving(z)
  BY <1>7, <1>9 DEF Held, ShieldsOf, Leaving, IsLocked, Up, Backward
<1>11. PhaseOf(s) = "arming" /\ PhaseOf(z) = "locked"
  BY <1>0, <1>10 DEF PhaseOf
<1>12. ShieldsRaised(RaiseShields(s)) = z
  BY DEF ShieldsRaised, RaiseShields, z, v, h, k, t, a
<1> QED BY <1>10, <1>11, <1>12 DEF Sound, SessionStep

LEMMA FadeAdvanceSound ==
  ASSUME NEW s, Good(s), Held(s), s.anim["fade"].running, NEW v \in Values
  PROVE  Sound(s, AnimAdvance(s, "fade", v))
<1> DEFINE now == s.anim["fade"]
           c == SetCurrent(s, "fade", v)
           d == [c EXCEPT !.anim["fade"].running = FALSE]
           z == AnimAdvance(s, "fade", v)
<1>0. LockState(s) /\ IsLocked(s) /\ Good(z)
  BY FadeAdvanceGood DEF Good, LockInv
<1>1. LockState(c) /\ FadeCall(s, c) /\ FadeIs(c, TRUE, now.from, now.to)
  <2>1. LockState(c) /\ FadeIs(c, TRUE, now.from, now.to)
    BY <1>0, SetCurrentLemma DEF Animators, FadeIs
  <2> QED BY <1>0, <2>1, FadeFieldsCall
<1> HIDE DEF c
<1>2. CASE v # now.to
  <2>1. z = c
    BY <1>1, <1>2 DEF AnimAdvance, c
  <2>2. Leaving(c) <=> Leaving(s)
    BY <1>1 DEF FadeIs, Leaving, Backward
  <2>3. Only(s, c, Fields \ Watched)
    BY <1>1 DEF FadeCall, Only, Fades, Sleeps, Watched, Fields
  <2> QED BY <1>0, <2>1, <2>2, <2>3, ApartKept, SamePhaseSound
<1>3. CASE v = now.to /\ ~Backward(now)
  <2>1. z = AnimStop(c, "fade")
    BY <1>1, <1>3 DEF AnimAdvance, c
  <2>2. ~Backward(c.anim["fade"]) /\ c.anim["fade"].running
    BY <1>1, <1>3 DEF FadeIs, Backward
  <2>3. FadeCall(s, z) /\ FadeIs(z, FALSE, now.from, now.to)
    BY <1>1, <2>1, <2>2, FadeStop, FadeStopCall, FadeCallTransitive DEF FadeIs
  <2> HIDE DEF z
  <2>4. ~Leaving(z) /\ ~Leaving(s)
    BY <1>3, <2>3 DEF FadeIs, Leaving
  <2>5. Only(s, z, Fields \ Watched)
    BY <2>3 DEF FadeCall, Only, Fades, Sleeps, Watched, Fields
  <2> QED BY <1>0, <2>4, <2>5, ApartKept, SamePhaseSound DEF z
<1>4. CASE v = now.to /\ Backward(now)
  <2>1. LockState(d) /\ FadeCall(s, d) /\ Backward(d.anim["fade"])
    <3>1. LockState(d) /\ FadeIs(d, FALSE, c.anim["fade"].from, c.anim["fade"].to)
      BY <1>1, FadeUpdate, FadeValues
    <3>2. FadeCall(s, d)
      BY <1>1, FadeFieldsCall, FadeCallTransitive
    <3> HIDE DEF d
    <3> QED BY <1>1, <1>4, <3>1, <3>2 DEF FadeIs, Backward
  <2>2. z = OnFadeFinished(d)
    BY <1>1, <1>4 DEF AnimAdvance, AnimStop, Finished, FadeIs, c, d
  <2> HIDE DEF d, z
  <2> DEFINE e == SyncInhibitor(d)
  <2>3. z = RemoveShields(e)
    BY <2>1, <2>2 DEF OnFadeFinished
  <2>4. LockState(e) /\ Only(d, e, {"inh", "synced"})
    BY <2>1, SyncInhibitorStep, SyncInhibitorCall DEF Step
  <2> HIDE DEF e
  <2>5. Only(e, z, Arranged \cup {"following", "target"}) /\ z.grabs \subseteq e.grabs \cap {BlankArea} /\ z.regrab = {}
    BY <2>3, <2>4, RemoveShieldsCall
  <2>6. Removed(e, z)
    BY <2>3, <2>4, RemoveShieldsLemma
  <2>7. e.grabs = s.grabs /\ z.blank = s.blank /\ z.lockTimer = s.lockTimer
    BY <2>1, <2>4, <2>5 DEF FadeCall, Only, Fades, Sleeps, Arranged, Inputs, Fields
  <2>8. BlankArea \in s.grabs => s.blank
    BY DEF Held, ShieldsOf
  <2>9. z.primary = None /\ z.conn = None /\ ~z.isLocked /\ ~IsLocked(z)
    BY <2>6 DEF Removed, IsLocked
  <2>10. Held(z)
    BY <2>5, <2>7, <2>8, <2>9 DEF Held
  <2>11. PhaseOf(s) = "leaving" /\ PhaseOf(z) = "unlocked" /\ Leaving(s)
    BY <1>0, <1>4, <2>7, <2>9 DEF PhaseOf, Leaving, Good, LockInv
  <2> QED BY <2>9, <2>10, <2>11 DEF Sound, SessionStep, z
<1> QED BY <1>2, <1>3, <1>4

-----------------------------------------------------------------------------
(* The actions.  A call that changes none of the watched fields, one of    *)
(* the blank window, and one that gives the primary shield the input.      *)

LEMMA ApartSound ==
  ASSUME NEW s, NEW t, Good(s), Held(s), Step(s, t), Only(s, t, Fields \ Watched)
  PROVE  Sound(s, t)
  BY ApartKept, StepPhase, GoodStep, SamePhaseSound

LEMMA BlankSound ==
  ASSUME NEW s, NEW t, Good(s), Held(s), Step(s, t), BlankCall(s, t)
  PROVE  Sound(s, t)
  BY BlankKept, GoodStep, SamePhaseSound

LEMMA ShieldSound ==
  ASSUME NEW s, NEW t, Good(s), Held(s), Step(s, t), ShieldCall(s, t, s.primary), s.primary # None
  PROVE  Sound(s, t)
<1>1. s.primary \in ShieldsOf(s)
  BY DEF Held
<1> QED BY <1>1, ShieldKept, GoodStep, SamePhaseSound

LEMMA DBusSound ==
  ASSUME Good(ls), Held(ls), DBus
  PROVE  Sound(ls, ls')
<1>0. LockState(ls) /\ ls.inh \in InhibitorType
  BY DEF Good, LockState, SleepTypes
<1>1. ASSUME NEW f \in {"inh", "synced", "sessionActive"} PROVE f \notin Watched
  BY DEF Watched
<1>2. CASE LoginConnected
  <2>1. Step(ls, ls') /\ Only(ls, ls', {"inh", "synced"})
    BY <1>0, <1>2, SyncInhibitorStep, SyncInhibitorCall DEF LoginConnected
  <2> QED BY <1>1, <2>1, ApartSound DEF Only
<1>3. CASE SessionProxyReady
  <2>1. Step(ls, ls')
    BY <1>0, <1>3 DEF SessionProxyReady, Step, Keeps, KeepsLock, LockState, Fields, ShieldTypes, LockTypes, BlankTypes, SleepTypes
  <2>2. Only(ls, ls', {"sessionActive", "synced"})
    BY <1>0, <1>3 DEF SessionProxyReady, LockState, Only, Fields
  <2> QED BY <1>1, <2>1, <2>2, ApartSound DEF Only
<1>4. CASE InhibitReplied
  <2>1. InhibitReply(ls.inh) \in InhibitorType
    BY <1>0, <1>4, InhibitorTypes DEF InhibitReplied
  <2>2. ls' = [ls EXCEPT !.inh = InhibitReply(@)]
    BY <1>4 DEF InhibitReplied, Internal, Runs
  <2>3. Step(ls, ls')
    BY <1>0, <2>1, <2>2, SleepFieldsStep
  <2>4. Only(ls, ls', {"inh"})
    BY <1>0, <2>2 DEF LockState, Only, Fields
  <2> QED BY <1>1, <2>3, <2>4, ApartSound DEF Only
<1>5. CASE InhibitRejected
  <2>1. InhibitFailed(ls.inh) \in InhibitorType
    BY <1>0, <1>5, InhibitorTypes DEF InhibitRejected
  <2>2. ls' = [ls EXCEPT !.inh = InhibitFailed(@), !.synced = FALSE]
    BY <1>5 DEF InhibitRejected, Internal, Runs
  <2>3. Step(ls, ls')
    BY <1>0, <2>1, <2>2, SleepFieldsStep
  <2>4. Only(ls, ls', {"inh", "synced"})
    BY <1>0, <2>2 DEF LockState, Only, Fields
  <2> QED BY <1>1, <2>3, <2>4, ApartSound DEF Only
<1> QED BY <1>2, <1>3, <1>4, <1>5 DEF DBus

LEMMA PolicySound ==
  ASSUME Good(ls), Held(ls), Policy
  PROVE  Sound(ls, ls')
<1>0. LockState(ls)
  BY DEF Good
<1> DEFINE a == [ls EXCEPT !.sessionActive = ~@]
           b == [ls EXCEPT !.lockOnSuspend = ~@]
           c == [ls EXCEPT !.useLegacy = ~@]
           F == {"sessionActive", "lockOnSuspend", "useLegacy"}
           G == F \cup {"inh", "synced", "saverTimer"}
<1>1. /\ Step(ls, a) /\ Step(ls, b) /\ Step(ls, c)
      /\ Only(ls, a, F) /\ Only(ls, b, F) /\ Only(ls, c, F)
  <2>1. Step(ls, a) /\ Step(ls, b) /\ Step(ls, c)
    BY <1>0 DEF Step, Keeps, KeepsLock, LockState, Fields, ShieldTypes, LockTypes, BlankTypes, SleepTypes
  <2> QED BY <1>0, <2>1 DEF LockState, Only, Fields
<1> HIDE DEF a, b, c
<1>2. ASSUME NEW t, Step(ls, t), Only(ls, t, F)
      PROVE  Step(ls, SyncInhibitor(t)) /\ Only(ls, SyncInhibitor(t), G)
  <2>1. LockState(t)
    BY <1>2 DEF Step
  <2> QED BY <1>2, <2>1, SyncInhibitorStep, SyncInhibitorCall, StepTransitive DEF Only
<1>3. ASSUME NEW t, Step(ls, t), Only(ls, t, G)
      PROVE  /\ Step(ls, OnScreenSaverActivationRequest(t, FALSE))
             /\ Only(ls, OnScreenSaverActivationRequest(t, FALSE), G)
  <2> DEFINE u == OnScreenSaverActivationRequest(t, FALSE)
  <2>1. LockState(t) /\ Step(t, u)
    BY <1>3, PresenceStep DEF Step
  <2>2. Only(t, u, {"saverTimer"})
    BY <2>1 DEF OnScreenSaverActivationRequest, LockState, Only, Fields
  <2> HIDE DEF u
  <2> QED BY <1>3, <2>1, <2>2, StepTransitive DEF Only, u
<1>4. Step(ls, ls') /\ Only(ls, ls', G)
  <2>1. CASE SessionActiveChanged
    <3>1. ls' = OnScreenSaverActivationRequest(SyncInhibitor(a), FALSE) \/ ls' = SyncInhibitor(a)
      BY <2>1 DEF SessionActiveChanged, Runs, a
    <3> QED BY <1>1, <1>2, <1>3, <3>1
  <2>2. CASE LockOnSuspendChanged
    BY <1>1, <1>2, <2>2 DEF LockOnSuspendChanged, Runs, b
  <2>3. CASE UseLegacyChanged
    BY <1>1, <1>2, <2>3 DEF UseLegacyChanged, Runs, c
  <2> QED BY <2>1, <2>2, <2>3 DEF Policy
<1>5. Only(ls, ls', Fields \ Watched)
  BY <1>4 DEF Only, Watched
<1> QED BY <1>4, <1>5, ApartSound

\* Every request but an unlock, and every timer but that of a grab that failed
LEMMA RequestsSound ==
  ASSUME Good(ls), Held(ls), Requests
  PROVE  Unlock \/ Sound(ls, ls')
<1>0. LockState(ls)
  BY DEF Good
<1>1. CASE Lock \/ Prompt
  BY <1>1, RequestLockSound DEF Lock, Prompt, Internal, Runs
<1>2. CASE PresenceChanged \/ SaverRequested
  <2>1. PICK b \in BOOLEAN : ls' = OnPresenceStatusChanged(ls, b) \/ ls' = OnScreenSaverActivationRequest(ls, b)
    BY <1>2 DEF PresenceChanged, SaverRequested, Internal, Runs
  <2>2. Step(ls, ls') /\ BlankCall(ls, ls')
    BY <1>0, <2>1, PresenceStep, PresenceCall
  <2> QED BY <2>2, BlankSound
<1>3. CASE SimulateActivity
  BY <1>0, <1>3, HideBlankWindowStep, HideBlankWindowCall, BlankSound DEF SimulateActivity, Internal, Runs
<1> QED BY <1>1, <1>2, <1>3 DEF Requests

LEMMA UnlockKept ==
  ASSUME Good(ls), Held(ls), Unlock
  PROVE  Held(ls') /\ SessionStep(ls, ls')
  BY OnUnlockRequestedSound DEF Unlock, Runs

LEMMA GrabTimerSound ==
  ASSUME Good(ls), Held(ls), GrabTimerFires
  PROVE  Sound(ls, ls')
<1>0. LockState(ls)
  BY DEF Good
<1>1. PICK i \in ls.failTimer :
        LET t == [ls EXCEPT !.failTimer = @ \ {i}]
        IN  \/ ~ls.isLocked /\ ls' = OnUnlockRequested(t)
            \/ ls' = t
  BY DEF GrabTimerFires, Internal, Runs
<1> DEFINE t == [ls EXCEPT !.failTimer = @ \ {i}]
<1>2. (~ls.isLocked /\ ls' = OnUnlockRequested(t)) \/ ls' = t
  BY <1>1
<1>3. Step(ls, t)
  BY <1>0 DEF Step, Keeps, KeepsLock, LockState, Fields, ShieldTypes, LockTypes, BlankTypes, SleepTypes
<1>4. Only(ls, t, {"failTimer"})
  BY <1>0 DEF LockState, Only, Fields
<1> HIDE DEF t
<1>5. Only(ls, t, Fields \ Watched) /\ t.isLocked = ls.isLocked
  BY <1>4 DEF Only, Watched, Fields
<1>6. Sound(ls, t) /\ Good(t) /\ Held(t)
  BY <1>3, <1>5, ApartSound, GoodStep DEF Sound
<1>7. ASSUME ~ls.isLocked, ls' = OnUnlockRequested(t) PROVE Sound(ls, ls')
  <2>1. Held(ls') /\ SessionStep(t, ls')
    BY <1>6, <1>7, OnUnlockRequestedSound
  <2>2. PhaseOf(t) = PhaseOf(ls)
    BY <1>3, StepPhase
  <2> QED BY <1>5, <1>7, <2>1, <2>2 DEF Sound, SessionStep
<1> QED BY <1>2, <1>6, <1>7

LEMMA TimersSound ==
  ASSUME Good(ls), Held(ls), Timers
  PROVE  Sound(ls, ls')
<1>0. LockState(ls)
  BY DEF Good
<1>1. CASE LockRetries
  BY <1>0, <1>1, HideBlankWindowStep, HideBlankWindowCall, BlankSound DEF LockRetries, Internal, Runs
<1>2. CASE LockHappens
  BY <1>2, ShieldsRaisedSound DEF LockHappens, Internal, Runs
<1>3. CASE DelayTimerFires
  <2> DEFINE t == [ls EXCEPT !.delayTimer = FALSE]
  <2>1. Step(ls, t) /\ BlankCall(ls, t)
    BY <1>0, TimerFieldsStep, BlankFieldsCall
  <2>2. ls' = RequestLock(t, TRUE)
    BY <1>3 DEF DelayTimerFires, Internal, Runs
  <2> HIDE DEF t
  <2>3. Good(t) /\ Held(t) /\ t.isLocked = ls.isLocked
    BY <2>1, GoodStep, BlankKept DEF BlankCall, Only, Blanks, Fields
  <2>4. Sound(t, ls')
    BY <2>2, <2>3, RequestLockSound
  <2>5. PhaseOf(t) = PhaseOf(ls) /\ (Leaving(t) <=> Leaving(ls))
    BY <2>1, StepPhase
  <2> QED BY <2>3, <2>4, <2>5 DEF Sound, SessionStep
<1>4. CASE SaverTimerFires
  BY <1>0, <1>4, ScreenSaverTimeoutStep, ScreenSaverTimeoutCall, BlankSound DEF SaverTimerFires, Internal, Runs
<1>5. CASE PostTimerFires
  <2> DEFINE t == [ls EXCEPT !.postTimer = FALSE]
  <2>1. Step(ls, t) /\ BlankCall(ls, t)
    BY <1>0, TimerFieldsStep, BlankFieldsCall
  <2>2. ls' = OnPresenceStatusChanged(t, TRUE)
    BY <1>5 DEF PostTimerFires, Internal, Runs
  <2> HIDE DEF t
  <2>3. Step(ls, ls') /\ BlankCall(ls, ls')
    BY <2>1, <2>2, PresenceStep, PresenceCall, StepTransitive, BlankCallTransitive DEF Step
  <2> QED BY <2>3, BlankSound
<1>6. CASE GrabTimerFires
  BY <1>6, GrabTimerSound
<1> QED BY <1>1, <1>2, <1>3, <1>4, <1>5, <1>6 DEF Timers

LEMMA PaintingSound ==
  ASSUME Good(ls), Held(ls), Painting
  PROVE  Sound(ls, ls')
<1>0. LockState(ls)
  BY DEF Good
<1>1. CASE FadeTick
  <2>1. PICK v \in {Partial, ls.anim["fade"].to} : ls' = AnimAdvance(ls, "fade", v)
    BY <1>1 DEF FadeTick, Tick, Internal, Runs
  <2>2. v \in Values /\ ls.anim["fade"].running
    BY <1>0, <1>1, FadeValues DEF FadeTick, Tick
  <2> QED BY <2>1, <2>2, FadeAdvanceSound
<1>2. CASE BlankTick
  <2>1. PICK v \in {Partial, ls.anim["blank"].to} : ls' = AnimAdvance(ls, "blank", v)
    BY <1>2 DEF BlankTick, Tick, Internal, Runs
  <2>2. v \in Values
    BY <1>0, AnimTypes DEF Animators
  <2> QED BY <1>0, <2>1, <2>2, BlankAdvanceStep, BlankAdvanceCall, BlankSound
<1>3. CASE DonePaint
  <2>1. Step(ls, ls') /\ Only(ls, ls', Sleeps)
    BY <1>0, <1>3, PaintStep, PaintCall DEF DonePaint, Internal, Runs
  <2>2. Only(ls, ls', Fields \ Watched)
    BY <2>1 DEF Only, Sleeps, Watched
  <2> QED BY <2>1, <2>2, ApartSound
<1> QED BY <1>1, <1>2, <1>3 DEF Painting

LEMMA UserInputSound ==
  ASSUME Good(ls), Held(ls), UserInput
  PROVE  Sound(ls, ls')
<1>0. LockState(ls)
  BY DEF Good
<1>1. CASE LockScreenInput
  <2>1. PICK i \in ShieldsOf(ls) :
          ls' = ResetPostLockScreenSaver(MovePrimary(ls, i)) \/ ls' = ResetPostLockScreenSaver(ls)
    BY <1>1 DEF LockScreenInput, Internal, Runs
  <2>2. /\ i \in Monitors /\ i \in 1..ls.shields /\ ls.shields > 0
        /\ IsLocked(ls)
    BY <1>0, MaxMonitorsAssumption DEF ShieldsOf, IsLocked, LockState, ShieldTypes
  <2> DEFINE m == MovePrimary(ls, i)
  <2>3. Good(m) /\ Held(m) /\ SamePhase(ls, m)
    <3>1. CASE i = ls.primary
      BY <3>1 DEF MovePrimary, SamePhase
    <3>2. CASE i # ls.primary
      <4>1. Rearranges(ls, m) /\ m.shields = ls.shields /\ m.primary = i /\ m.lockInput
        BY <1>0, <2>2, <3>2, MovePrimaryLemma
      <4>2. Chosen(ls, m) /\ m.grabs \subseteq ls.grabs \cup {i}
        BY <1>0, <2>2, <3>2, MovePrimaryChosen DEF Held
      <4> HIDE DEF m
      <4>3. Good(m)
        BY <2>2, <4>1, RearrangedGood
      <4>4. IsLocked(m) /\ m.primary \in ShieldsOf(m) /\ ShieldsOf(m) = ShieldsOf(ls)
        BY <2>2, <4>1 DEF IsLocked, ShieldsOf
      <4>5. m.grabs \subseteq ShieldsOf(m) \cup (IF ls.blank THEN {BlankArea} ELSE {})
        BY <4>2, <4>4 DEF Held
      <4> QED BY <2>2, <4>1, <4>2, <4>3, <4>4, <4>5, ChosenKept
    <3> QED BY <3>1, <3>2
  <2> HIDE DEF m
  <2>4. ASSUME NEW t, Good(t), Held(t), SamePhase(ls, t), ls' = ResetPostLockScreenSaver(t)
        PROVE  Sound(ls, ls')
    <3>1. Step(t, ls') /\ BlankCall(t, ls')
      BY <2>4, ResetPostLockScreenSaverStep, ResetPostLockScreenSaverCall DEF Good
    <3>2. Good(ls') /\ Held(ls') /\ SamePhase(t, ls')
      BY <2>4, <3>1, BlankKept, GoodStep
    <3> QED BY <2>4, <3>2, SamePhaseTransitive, SamePhaseSound
  <2>5. SamePhase(ls, ls)
    BY DEF SamePhase
  <2> QED BY <2>1, <2>3, <2>4, <2>5 DEF m
<1>2. CASE BlankWindowInput
  BY <1>0, <1>2, PresenceStep, PresenceCall, BlankSound DEF BlankWindowInput, Internal, Runs
<1>3. CASE MonitorsChanged
  <2>0. PICK n \in Monitors : \E m \in 1..n :
          LET t == [ls EXCEPT !.monitors = n, !.mouse = m]
          IN  ls' = IF ls.following THEN EnsureBlankWindow(EnsureShields(t)) ELSE t
    BY <1>3 DEF MonitorsChanged, Internal, Runs
  <2>1. PICK m \in 1..n :
          LET t == [ls EXCEPT !.monitors = n, !.mouse = m]
          IN  ls' = IF ls.following THEN EnsureBlankWindow(EnsureShields(t)) ELSE t
    BY <2>0
  <2> DEFINE t == [ls EXCEPT !.monitors = n, !.mouse = m]
             e == EnsureShields(t)
             w == EnsureBlankWindow(e)
  <2>2. Step(ls, t)
    BY <1>0 DEF Step, Keeps, KeepsLock, LockState, Fields, ShieldTypes, LockTypes, BlankTypes, SleepTypes
  <2>3. Only(ls, t, {"monitors", "mouse"}) /\ t.monitors = n /\ t.mouse = m
    BY <1>0 DEF LockState, Only, Fields
  <2>4. ls' = IF ls.following THEN w ELSE t
    BY <2>1
  <2> HIDE DEF t
  <2>5. Good(t) /\ Held(t) /\ SamePhase(ls, t) /\ Sound(ls, t)
    <3>1. Only(ls, t, Fields \ Watched)
      BY <2>3 DEF Only, Watched
    <3> QED BY <2>2, <3>1, ApartKept, StepPhase, GoodStep, SamePhaseSound
  <2>6. ASSUME ls.following PROVE Sound(ls, w)
    <3>1. IsLocked(t)
      BY <2>2, <2>6 DEF Good, LockInv, Step, Keeps, KeepsLock, IsLocked
    <3>2. Rearranges(t, e) /\ e.shields = n /\ e.primary = m /\ e.lockInput
      BY <2>3, <2>5, EnsureShieldsLemma DEF Good
    <3>3. Chosen(t, e) /\ e.grabs \subseteq ShieldsOf(e) \cup (t.grabs \cap {BlankArea})
      BY <2>5, EnsureShieldsChosen DEF Good, Held
    <3> HIDE DEF e
    <3>4. Good(e)
      BY <2>5, <3>1, <3>2, RearrangedGood
    <3>5. IsLocked(e) /\ e.primary \in ShieldsOf(e)
      BY <3>2 DEF IsLocked, ShieldsOf
    <3>6. BlankArea \in t.grabs => t.blank
      BY <2>5 DEF Held, ShieldsOf
    <3>7. Held(e) /\ SamePhase(t, e)
      BY <3>1, <3>2, <3>3, <3>5, <3>6, ChosenKept
    <3>8. Step(e, w) /\ BlankCall(e, w)
      BY <3>4, EnsureBlankWindowStep, EnsureBlankWindowCall DEF Good
    <3> HIDE DEF w
    <3>9. Good(w) /\ Held(w) /\ SamePhase(e, w)
      BY <3>4, <3>7, <3>8, BlankKept, GoodStep
    <3>10. SamePhase(ls, w)
      BY <2>5, <3>7, <3>9, SamePhaseTransitive
    <3> QED BY <3>9, <3>10, SamePhaseSound
  <2> HIDE DEF w
  <2> QED BY <2>4, <2>5, <2>6
<1>4. CASE PanelOpens
  <2>1. ls.primary \in Monitors /\ ls' = PanelActive(ls, ls.primary)
    BY <1>0, <1>4 DEF PanelOpens, LockState, ShieldTypes, Internal, Runs
  <2>2. Step(ls, ls')
    BY <1>0, <2>1, PanelActiveStep
  <2>3. /\ Only(ls, ls', {"panels", "regrab", "grabs"})
        /\ ls'.panels = ls.panels \cup {ls.primary}
        /\ ls'.grabs \subseteq ls.grabs /\ ls'.regrab \subseteq ls.regrab
    BY <1>0, <2>1, PanelActiveCall
  <2>4. ls'.blank = ls.blank /\ ls'.isLocked = ls.isLocked
    BY <2>3 DEF Only, Fields
  <2>5. Held(ls') /\ SamePhase(ls, ls')
    BY <2>2, <2>3, <2>4, StepPhase DEF Held, SamePhase
  <2> QED BY <2>2, <2>5, GoodStep, SamePhaseSound
<1>5. CASE PanelCloses
  <2>1. PICK i \in ls.panels : ls' = PanelInactive(ls, i)
    BY <1>5 DEF PanelCloses, Internal, Runs
  <2>2. i \in Monitors
    BY <1>0 DEF LockState, ShieldTypes
  <2>3. Step(ls, ls')
    BY <1>0, <2>1, <2>2, PanelInactiveStep
  <2> DEFINE t == [ls EXCEPT !.panels = @ \ {i}]
  <2>4. /\ Only(ls, t, {"panels"}) /\ t.panels = ls.panels \ {i}
        /\ IF i = ls.primary THEN ShieldCall(t, ls', i) ELSE ls' = t
    BY <1>0, <2>1, <2>2, PanelInactiveCall
  <2> HIDE DEF t
  <2>5. t.grabs = ls.grabs /\ t.regrab = ls.regrab /\ t.isLocked = ls.isLocked /\ t.blank = ls.blank
    BY <2>4 DEF Only, Fields
  <2>6. CASE i = ls.primary
    <3>1. ls'.blank = t.blank /\ ls.primary \in ShieldsOf(ls)
      BY <2>2, <2>4, <2>6 DEF ShieldCall, Only, Inputs, Fields, Held
    <3>2. ls'.grabs \subseteq ls.grabs \cup {ls.primary} /\ ls'.regrab \subseteq ls.regrab \cup {ls.primary}
          /\ ls.primary \in ls'.grabs \cup ls'.regrab /\ (ls.isLocked => ls'.isLocked)
      BY <2>4, <2>5, <2>6 DEF ShieldCall
    <3>3. Held(ls')
      BY <2>3, <2>5, <3>1, <3>2, StepPhase DEF Held
    <3> QED BY <2>3, <3>2, <3>3, StepPhase, GoodStep, SamePhaseSound DEF SamePhase
  <2>7. CASE i # ls.primary
    <3>1. Held(ls')
      BY <2>3, <2>4, <2>5, <2>7, StepPhase DEF Held
    <3> QED BY <2>3, <2>4, <2>5, <2>7, <3>1, StepPhase, GoodStep, SamePhaseSound DEF SamePhase
  <2> QED BY <2>6, <2>7
<1> QED BY <1>1, <1>2, <1>3, <1>4, <1>5 DEF UserInput

LEMMA GrabbingSound ==
  ASSUME Good(ls), Held(ls), Grabbing
  PROVE  Sound(ls, ls')
<1>0. LockState(ls)
  BY DEF Good
<1>1. CASE ForeignGrabs \/ ForeignUngrabs
  <2>1. PICK g \in {"none", "keyboard", "pointer"} : ls' = [ls EXCEPT !.foreignGrab = g]
    BY <1>1 DEF ForeignGrabs, ForeignUngrabs, Internal, Runs
  <2>2. Step(ls, ls')
    BY <1>0, <2>1 DEF Step, Keeps, KeepsLock, LockState, Fields, ShieldTypes, LockTypes, BlankTypes, SleepTypes
  <2>3. Only(ls, ls', Fields \ Watched)
    BY <1>0, <2>1 DEF LockState, Only, Watched, Fields
  <2> QED BY <2>2, <2>3, ApartSound
<1>2. CASE UngrabNotified
  <2> DEFINE i == CHOOSE j \in ls.regrab : TRUE
  <2>1. i = ls.primary /\ ls.primary \in Monitors
    BY <1>0, <1>2 DEF UngrabNotified, Held, LockState, ShieldTypes
  <2>2. ls' = GrabScreen(ls, ls.primary, FALSE)
    BY <1>2, <2>1 DEF UngrabNotified, ScreenUngrabbed, Internal, Runs
  <2> HIDE DEF i
  <2>3. Step(ls, ls') /\ ShieldCall(ls, ls', ls.primary)
    BY <1>0, <2>1, <2>2, GrabScreenStep, GrabScreenCall
  <2> QED BY <2>1, <2>3, ShieldSound
<1> QED BY <1>1, <1>2 DEF Grabbing

LEMMA SuspendingSound ==
  ASSUME Good(ls), Held(ls), Suspending
  PROVE  Sound(ls, ls')
<1>0. LockState(ls)
  BY DEF Good
<1>1. Sound(ls, ls)
  BY SamePhaseSound DEF SamePhase
<1>2. CASE PrepareForSleep
  <2> DEFINE t == InhibitPaint(ls)
  <2>1. Step(ls, t) /\ Only(ls, t, Sleeps)
    BY <1>0, PaintStep, PaintCall
  <2>2. ls' = RequestLock(t, TRUE) \/ ls' = ls
    BY <1>2 DEF PrepareForSleep, AboutToSuspend
  <2> HIDE DEF t
  <2>3. Only(ls, t, Fields \ Watched) /\ t.isLocked = ls.isLocked
    BY <2>1 DEF Only, Sleeps, Watched, Fields
  <2>4. Good(t) /\ Held(t) /\ PhaseOf(t) = PhaseOf(ls) /\ (Leaving(t) <=> Leaving(ls))
    BY <2>1, <2>3, GoodStep, ApartKept, StepPhase
  <2>5. Sound(t, RequestLock(t, TRUE))
    BY <2>4, RequestLockSound
  <2>6. Sound(ls, RequestLock(t, TRUE))
    BY <2>3, <2>4, <2>5 DEF Sound, SessionStep
  <2> QED BY <1>1, <2>2, <2>6
<1>3. CASE Sleep \/ SleepAnyway
  <2>1. ls' = ls
    BY <1>3 DEF Sleep, SleepAnyway
  <2> QED BY <1>1, <2>1
<1>4. CASE Resume
  <2>1. Step(ls, ls') /\ Only(ls, ls', Sleeps)
    BY <1>0, <1>4, PaintStep, PaintCall DEF Resume
  <2>2. Only(ls, ls', Fields \ Watched)
    BY <2>1 DEF Only, Sleeps, Watched
  <2> QED BY <2>1, <2>2, ApartSound
<1> QED BY <1>2, <1>3, <1>4 DEF Suspending

-----------------------------------------------------------------------------
(* The theorems.                                                           *)

LEMMA NextSound ==
  ASSUME IInv, Held(ls), [Next]_vars
  PROVE  /\ Held(ls') /\ SessionStep(ls, ls')
         /\ Unlock \/ (ls.isLocked /\ ~Leaving(ls) => ~Leaving(ls'))
<1>0. Good(ls)
  BY DEF IInv
<1>1. Sound(ls, ls') => Held(ls') /\ SessionStep(ls, ls') /\ (ls.isLocked /\ ~Leaving(ls) => ~Leaving(ls'))
  BY DEF Sound
<1>2. CASE DBus
  BY <1>0, <1>1, <1>2, DBusSound
<1>3. CASE Policy
  BY <1>0, <1>1, <1>3, PolicySound
<1>4. CASE Requests
  BY <1>0, <1>1, <1>4, RequestsSound, UnlockKept
<1>5. CASE Timers
  BY <1>0, <1>1, <1>5, TimersSound
<1>6. CASE Painting
  BY <1>0, <1>1, <1>6, PaintingSound
<1>7. CASE UserInput
  BY <1>0, <1>1, <1>7, UserInputSound
<1>8. CASE Grabbing
  BY <1>0, <1>1, <1>8, GrabbingSound
<1>9. CASE Suspending
  BY <1>0, <1>1, <1>9, SuspendingSound
<1>10. CASE UNCHANGED vars
  <2>1. ls' = ls
    BY <1>10 DEF vars
  <2>2. Sound(ls, ls)
    BY <1>0, SamePhaseSound DEF SamePhase
  <2> QED BY <1>1, <2>1, <2>2
<1> QED BY <1>2, <1>3, <1>4, <1>5, <1>6, <1>7, <1>8, <1>9, <1>10 DEF Next

HeldInv == Held(ls)

LEMMA HeldInvariant == Spec => []HeldInv
<1>1. Init => HeldInv
  <2> SUFFICES ASSUME Init PROVE HeldInv
    OBVIOUS
  <2>1. /\ ls.grabs = {} /\ ls.regrab = {} /\ ls.conn = None /\ ls.primary = None /\ ~ls.isLocked
    BY DEF Init, InitialState
  <2> QED BY <2>1 DEF HeldInv, Held
<1>2. IInv /\ HeldInv /\ [Next]_vars => HeldInv'
  BY NextSound DEF HeldInv
<1> QED BY <1>1, <1>2, InductiveInvariant, PTL DEF Spec

\* No grab is left behind on any path, whatever blanks, locks, unlocks, moves and
\* unplugs in between (LockScreenBaseShield.cpp:115-138, LockScreenController.cpp:198-390).
THEOREM NoStrayGrabHolds == Spec => []NoStrayGrab
<1>1. HeldInv => NoStrayGrab
  BY DEF HeldInv, Held, NoStrayGrab
<1> QED BY <1>1, HeldInvariant, PTL

\* A session reported as locked keeps the input on its primary shield, for any
\* number of monitors (LockScreenBaseShield.cpp:115-138, LockScreenController.cpp:198-309).
THEOREM GrabKeptHolds == Spec => []GrabKept
<1>1. HeldInv => GrabKept
  BY DEF HeldInv, Held, GrabKept, FadingOut, Leaving
<1> QED BY <1>1, HeldInvariant, PTL

\* The failure of a grab, or any other step but an unlock request, does not start
\* the fade-out of a session that is locked (LockScreenController.cpp:243-256).
THEOREM GrabFailureNeverUnlocksHolds == Spec => GrabFailureNeverUnlocks
<1>1. IInv /\ HeldInv /\ [Next]_vars => [ls.isLocked /\ ~FadingOut /\ FadingOut' => Unlock]_vars
  BY NextSound DEF HeldInv, FadingOut, Leaving
<1> QED BY <1>1, InductiveInvariant, HeldInvariant, PTL DEF Spec, GrabFailureNeverUnlocks

\* The lock screen implements SessionLock: the abstract session is requested,
\* raised, left and removed in that order, whatever the monitors, the grabs and
\* the blank window do meanwhile (LockScreenController.cpp:120-150, 392-440, 489-557).
THEOREM SessionLockImplemented == Spec => ImplementsSessionLock
<1>1. Init => Abstract!LockInit
  <2> SUFFICES ASSUME Init PROVE Abstract!LockInit
    OBVIOUS
  <2>1. ls.shields = 0 /\ ls.lockTimer = FALSE /\ ls.isLocked = FALSE
    BY DEF Init, InitialState
  <2> QED BY <2>1 DEF Abstract!LockInit, Phase, IsLocked
<1>2. IInv /\ IInv' /\ HeldInv /\ [Next]_vars => [Abstract!LockNext]_(Abstract!lockVars)
  <2> SUFFICES ASSUME IInv, IInv', HeldInv, [Next]_vars PROVE [Abstract!LockNext]_(Abstract!lockVars)
    OBVIOUS
  <2>1. Phase = PhaseOf(ls) /\ Phase' = PhaseOf(ls')
    BY DEF Phase, PhaseOf, FadingOut, Leaving
  <2>2. SessionStep(ls, ls')
    BY NextSound DEF HeldInv
  <2>3. ls.isLocked \in BOOLEAN /\ ls'.isLocked \in BOOLEAN
    BY DEF IInv, Good, LockState, LockTypes
  <2> QED BY <2>1, <2>2, <2>3
          DEF SessionStep, Abstract!LockNext, Abstract!lockVars, Abstract!Request, Abstract!Cancel, Abstract!Raise,
              Abstract!Confirm, Abstract!Leave, Abstract!Remove
<1> QED BY <1>1, <1>2, InductiveInvariant, HeldInvariant, PTL DEF Spec, ImplementsSessionLock, Abstract!LockSpec

-----------------------------------------------------------------------------
(***************************************************************************)
(* What is on the screen: the blank window and the delayed lock that waits *)
(* behind it, the shields of a prompted lock, and the inhibitor that keeps *)
(* the machine awake until they cover the session.                         *)
(*                                                                         *)
(* Two inductive invariants, relative to Good and Held:                    *)
(* BlankInv for the blank window and its animation, SleepInv for the       *)
(* shields, the inhibitor and the suspend.  The frames from above          *)
(* tell which methods can touch which of them.                             *)
(***************************************************************************)

USE DEF Monitors, None, BlankArea, Clear, Partial, Full, Values, Ends

-----------------------------------------------------------------------------
(* The blank window.  Its animation only ever runs from Clear to Full, and *)
(* over an existing window; `active' and the delayed lock belong to its    *)
(* end, and a window that goes takes both along.                           *)

BlankGood(s) ==
  /\ s.anim["blank"].running =>
       s.blank /\ s.anim["blank"].from = Clear /\ s.anim["blank"].to = Full /\ s.anim["blank"].val # Full
  /\ ~s.anim["blank"].running => s.anim["blank"].val = s.anim["blank"].to
  /\ ~s.blank => s.anim["blank"].val = Clear
  /\ s.blank /\ s.anim["blank"].val = Full => s.blankOpacity = Full
  /\ s.active => s.blank /\ s.anim["blank"].val = Full
  /\ s.delayTimer => s.active /\ s.lockOnBlank

BlankFields == {"blank", "blankOpacity", "active", "delayTimer", "lockOnBlank"}

\* A call that has nothing to do with the blank window
BlankSame(s, t) == Only(s, t, Fields \ BlankFields) /\ t.anim["blank"] = s.anim["blank"]

LEMMA BlankSameGood ==
  ASSUME NEW s, NEW t, BlankSame(s, t)
  PROVE  BlankGood(s) => BlankGood(t)
<1>1. /\ t.blank = s.blank /\ t.blankOpacity = s.blankOpacity /\ t.active = s.active
      /\ t.delayTimer = s.delayTimer /\ t.lockOnBlank = s.lockOnBlank
  BY DEF BlankSame, Only, BlankFields, Fields
<1> QED BY <1>1 DEF BlankSame, BlankGood

LEMMA BlankSameTransitive ==
  ASSUME NEW s, NEW t, NEW u, BlankSame(s, t), BlankSame(t, u)
  PROVE  BlankSame(s, u)
  BY DEF BlankSame, Only

\* Every frame without a field of the blank window
LEMMA OnlyBlankSame ==
  ASSUME NEW s, NEW t, NEW F, Only(s, t, F), F \cap (BlankFields \cup {"anim"}) = {}
  PROVE  BlankSame(s, t)
<1>1. t.anim = s.anim
  BY DEF Only, Fields
<1> QED BY <1>1 DEF BlankSame, Only

LEMMA FadeCallBlankSame ==
  ASSUME NEW s, NEW t, FadeCall(s, t)
  PROVE  BlankSame(s, t)
  BY DEF FadeCall, BlankSame, Only, Fades, Sleeps, BlankFields

LEMMA GrabEnableBlankSame ==
  ASSUME NEW s, LockState(s), NEW grab
  PROVE  BlankSame(s, BlankWindowGrabEnable(s, grab))
<1>1. Only(s, BlankWindowGrabEnable(s, grab), {"blankInput", "grabs"})
  BY DEF LockState, BlankWindowGrabEnable, GrabAdd, UnGrab, Only, Fields
<1> QED BY <1>1, OnlyBlankSame DEF BlankFields

\* The animation stops: `active' and the delayed lock say whether it ended blank.
LEMMA BlankStopFacts ==
  ASSUME NEW s, LockState(s), s.anim["blank"].running
  PROVE  LET t == AnimStop(s, "blank")
         IN  /\ LockState(t)
             /\ ~t.anim["blank"].running /\ t.anim["blank"].val = s.anim["blank"].val
             /\ t.anim["blank"].from = s.anim["blank"].from /\ t.anim["blank"].to = s.anim["blank"].to
             /\ t.blank = s.blank /\ t.blankOpacity = s.blankOpacity /\ t.lockOnBlank = s.lockOnBlank
             /\ t.active <=> s.anim["blank"].val = Full
             /\ t.delayTimer <=> s.anim["blank"].val = Full /\ s.lockOnBlank
<1> DEFINE d == [s EXCEPT !.anim["blank"].running = FALSE]
           isShown == d.anim["blank"].val = Full
           g == BlankWindowGrabEnable(d, isShown)
           t == AnimStop(s, "blank")
<1>1. LockState(d) /\ LockState(t)
  BY AnimUpdateStep, BlankStopStep DEF Step
<1>2. /\ ~d.anim["blank"].running /\ d.anim["blank"].val = s.anim["blank"].val
      /\ d.anim["blank"].from = s.anim["blank"].from /\ d.anim["blank"].to = s.anim["blank"].to
      /\ d.blank = s.blank /\ d.blankOpacity = s.blankOpacity /\ d.lockOnBlank = s.lockOnBlank
  BY DEF LockState, BlankTypes, Animators, Animation, Fields
<1>3. t = [g EXCEPT !.active = isShown, !.delayTimer = isShown /\ d.lockOnBlank]
  BY DEF AnimStop, Finished, OnBlankFinished
<1> HIDE DEF d, t
<1>4. LockState(g) /\ BlankSame(d, g)
  BY <1>1, BlankWindowGrabEnableStep, GrabEnableBlankSame DEF Step
<1> HIDE DEF g
<1>5. /\ t.anim = g.anim /\ t.blank = g.blank /\ t.blankOpacity = g.blankOpacity /\ t.lockOnBlank = g.lockOnBlank
      /\ t.active <=> isShown
      /\ t.delayTimer <=> isShown /\ d.lockOnBlank
  BY <1>3, <1>4 DEF LockState, Fields
<1>6. g.blank = d.blank /\ g.blankOpacity = d.blankOpacity /\ g.lockOnBlank = d.lockOnBlank /\ g.anim["blank"] = d.anim["blank"]
  BY <1>4 DEF BlankSame, Only, BlankFields, Fields
<1> QED BY <1>1, <1>2, <1>5, <1>6 DEF t

\* A new value reaches the window if there is one.
LEMMA BlankSetFacts ==
  ASSUME NEW s, LockState(s), NEW v \in Values
  PROVE  LET t == SetCurrent(s, "blank", v)
         IN  /\ LockState(t)
             /\ t.anim["blank"].running = s.anim["blank"].running /\ t.anim["blank"].val = v
             /\ t.anim["blank"].from = s.anim["blank"].from /\ t.anim["blank"].to = s.anim["blank"].to
             /\ t.blank = s.blank /\ t.lockOnBlank = s.lockOnBlank
             /\ t.active = s.active /\ t.delayTimer = s.delayTimer
             /\ s.blank => t.blankOpacity = v
<1> DEFINE t == SetCurrent(s, "blank", v)
<1>1. /\ LockState(t)
      /\ t.anim["blank"].running = s.anim["blank"].running /\ t.anim["blank"].val = v
      /\ t.anim["blank"].from = s.anim["blank"].from /\ t.anim["blank"].to = s.anim["blank"].to
  BY SetCurrentLemma DEF Animators
<1>2. /\ t.blank = s.blank /\ t.lockOnBlank = s.lockOnBlank
      /\ t.active = s.active /\ t.delayTimer = s.delayTimer
      /\ s.blank => t.blankOpacity = v
  BY DEF LockState, Fields, SetCurrent
<1> QED BY <1>1, <1>2

\* The fields of the animation, one update at a time
LEMMA BlankRunningFacts ==
  ASSUME NEW s, LockState(s), NEW r \in BOOLEAN
  PROVE  LET t == [s EXCEPT !.anim["blank"].running = r]
         IN  /\ LockState(t) /\ Only(s, t, {"anim"})
             /\ t.anim["blank"].running = r /\ t.anim["blank"].val = s.anim["blank"].val
             /\ t.anim["blank"].from = s.anim["blank"].from /\ t.anim["blank"].to = s.anim["blank"].to
<1> DEFINE t == [s EXCEPT !.anim["blank"].running = r]
<1>1. LockState(t)
  BY AnimUpdateStep DEF Step
<1>2. Only(s, t, {"anim"})
  BY DEF LockState, Only, Fields
<1>3. /\ t.anim["blank"].running = r /\ t.anim["blank"].val = s.anim["blank"].val
      /\ t.anim["blank"].from = s.anim["blank"].from /\ t.anim["blank"].to = s.anim["blank"].to
  BY DEF LockState, BlankTypes, Animators, Animation, Fields
<1> QED BY <1>1, <1>2, <1>3

LEMMA BlankEndsFacts ==
  ASSUME NEW s, LockState(s), NEW x \in Ends, NEW y \in Ends
  PROVE  LET t == [s EXCEPT !.anim["blank"].from = x, !.anim["blank"].to = y]
         IN  /\ LockState(t) /\ Only(s, t, {"anim"})
             /\ t.anim["blank"].running = s.anim["blank"].running /\ t.anim["blank"].val = s.anim["blank"].val
             /\ t.anim["blank"].from = x /\ t.anim["blank"].to = y
<1> DEFINE t == [s EXCEPT !.anim["blank"].from = x, !.anim["blank"].to = y]
<1>1. LockState(t)
  BY AnimUpdateStep DEF Step
<1>2. Only(s, t, {"anim"})
  BY DEF LockState, Only, Fields
<1>3. /\ t.anim["blank"].running = s.anim["blank"].running /\ t.anim["blank"].val = s.anim["blank"].val
      /\ t.anim["blank"].from = x /\ t.anim["blank"].to = y
  BY DEF LockState, BlankTypes, Animators, Animation, Fields
<1> QED BY <1>1, <1>2, <1>3

LEMMA BlankFromFacts ==
  ASSUME NEW s, LockState(s), NEW x \in Ends
  PROVE  LET t == [s EXCEPT !.anim["blank"].from = x]
         IN  /\ LockState(t) /\ Only(s, t, {"anim"})
             /\ t.anim["blank"].running = s.anim["blank"].running /\ t.anim["blank"].val = s.anim["blank"].val
             /\ t.anim["blank"].from = x /\ t.anim["blank"].to = s.anim["blank"].to
<1> DEFINE t == [s EXCEPT !.anim["blank"].from = x]
<1>1. LockState(t)
  BY AnimUpdateStep DEF Step
<1>2. Only(s, t, {"anim"})
  BY DEF LockState, Only, Fields
<1>3. /\ t.anim["blank"].running = s.anim["blank"].running /\ t.anim["blank"].val = s.anim["blank"].val
      /\ t.anim["blank"].from = x /\ t.anim["blank"].to = s.anim["blank"].to
  BY DEF LockState, BlankTypes, Animators, Animation, Fields
<1> QED BY <1>1, <1>2, <1>3

\* SetValue: the animation is at rest, and all of BlankGood holds there.
LEMMA BlankSetValueGood ==
  ASSUME NEW s, LockState(s), BlankGood(s), s.blank, NEW x \in Ends
  PROVE  LET t == AnimSetValue(s, "blank", x)
         IN  /\ LockState(t) /\ BlankGood(t) /\ t.blank
             /\ ~t.anim["blank"].running /\ t.anim["blank"].val = x
<1> DEFINE u == AnimStop(s, "blank")
           d == [u EXCEPT !.anim["blank"].from = x, !.anim["blank"].to = x]
           c == SetCurrent(d, "blank", x)
           r == [c EXCEPT !.anim["blank"].running = TRUE]
           e == AnimStop(r, "blank")
           t == AnimSetValue(s, "blank", x)
\* stopped before the end, it is neither blank nor clear
<1>1. /\ LockState(u) /\ u.blank /\ ~u.anim["blank"].running
      /\ u.anim["blank"].val = Full => u.blankOpacity = Full
      /\ u.active => u.anim["blank"].val = Full
      /\ u.delayTimer => u.active /\ u.lockOnBlank
  <2>1. CASE s.anim["blank"].running
    BY <2>1, BlankStopFacts DEF BlankGood
  <2>2. CASE ~s.anim["blank"].running
    BY <2>2 DEF AnimStop, BlankGood
  <2> QED BY <2>1, <2>2
<1>2. t = IF d.anim["blank"].val # x THEN AnimStop(AnimRun(d, "blank"), "blank") ELSE d
  BY DEF AnimSetValue, AnimStart
<1> HIDE DEF u
<1>3. /\ LockState(d) /\ Only(u, d, {"anim"}) /\ d.anim["blank"].running = u.anim["blank"].running
      /\ d.anim["blank"].val = u.anim["blank"].val
      /\ d.anim["blank"].from = x /\ d.anim["blank"].to = x
  <2>1. LockState(d)
    BY <1>1, BlankEndsFacts
  <2>2. Only(u, d, {"anim"})
    BY <1>1, BlankEndsFacts
  <2>3. /\ d.anim["blank"].running = u.anim["blank"].running /\ d.anim["blank"].val = u.anim["blank"].val
        /\ d.anim["blank"].from = x /\ d.anim["blank"].to = x
    BY <1>1 DEF LockState, BlankTypes, Animators, Animation, Fields
  <2> QED BY <2>1, <2>2, <2>3
<1> HIDE DEF d
<1>4. /\ d.blank /\ ~d.anim["blank"].running
      /\ d.anim["blank"].val = Full => d.blankOpacity = Full
      /\ d.active => d.anim["blank"].val = Full
      /\ d.delayTimer => d.active /\ d.lockOnBlank
  BY <1>1, <1>3 DEF Only, Fields
<1>5. CASE d.anim["blank"].val = x
  <2>1. t = d
    BY <1>2, <1>5
  <2> HIDE DEF t
  <2> QED BY <1>3, <1>4, <1>5, <2>1 DEF BlankGood, t
<1>6. CASE d.anim["blank"].val # x
  <2>1. t = e
    BY <1>2, <1>3, <1>6 DEF AnimRun
  <2>2. /\ LockState(c) /\ c.anim["blank"].val = x
        /\ c.anim["blank"].from = x /\ c.anim["blank"].to = x
        /\ c.blank /\ c.blankOpacity = x
    BY <1>3, <1>4, BlankSetFacts
  <2> HIDE DEF c, t
  <2>3. /\ LockState(r) /\ Only(c, r, {"anim"}) /\ r.anim["blank"].running /\ r.anim["blank"].val = x
        /\ r.anim["blank"].to = x
    BY <2>2, BlankRunningFacts
  <2> HIDE DEF r
  <2>4. r.blank /\ r.blankOpacity = x
    BY <2>2, <2>3 DEF Only, Fields
  <2>5. /\ LockState(e) /\ ~e.anim["blank"].running /\ e.anim["blank"].val = x /\ e.anim["blank"].to = x
        /\ e.blank /\ e.blankOpacity = x
        /\ e.active <=> x = Full
        /\ e.delayTimer <=> x = Full /\ e.lockOnBlank
    BY <2>3, <2>4, BlankStopFacts
  <2> HIDE DEF e
  <2> QED BY <2>1, <2>5 DEF BlankGood, t
<1> QED BY <1>5, <1>6

LEMMA BlankSkipGood ==
  ASSUME NEW s, LockState(s), BlankGood(s), s.blank
  PROVE  BlankGood(AnimSkip(s, "blank"))
<1> DEFINE t == AnimSetValue(s, "blank", s.anim["blank"].to)
           x == s.anim["blank"].from
           u == [t EXCEPT !.anim["blank"].from = x]
<1>1. s.anim["blank"].to \in Ends /\ x \in Ends
  BY AnimTypes DEF Animators
<1>2. LockState(t) /\ BlankGood(t) /\ ~t.anim["blank"].running
  BY <1>1, BlankSetValueGood
<1>3. AnimSkip(s, "blank") = u
  BY DEF AnimSkip
<1> HIDE DEF t, x
<1>4. /\ Only(t, u, {"anim"}) /\ ~u.anim["blank"].running
      /\ u.anim["blank"].val = t.anim["blank"].val /\ u.anim["blank"].to = t.anim["blank"].to
  BY <1>1, <1>2, BlankFromFacts
<1> HIDE DEF u
<1>5. /\ u.blank = t.blank /\ u.blankOpacity = t.blankOpacity /\ u.active = t.active
      /\ u.delayTimer = t.delayTimer /\ u.lockOnBlank = t.lockOnBlank
  BY <1>4 DEF Only, Fields
<1> QED BY <1>2, <1>3, <1>4, <1>5 DEF BlankGood

LEMMA EnsureBlankWindowGood ==
  ASSUME NEW s, LockState(s), BlankGood(s)
  PROVE  LET t == EnsureBlankWindow(s)
         IN  /\ BlankGood(t) /\ t.blank /\ t.anim["blank"] = s.anim["blank"]
             /\ ~s.blank => ~t.active
             /\ s.blank => t = s
<1>1. CASE s.blank
  BY <1>1 DEF EnsureBlankWindow
<1>2. CASE ~s.blank
  <2> DEFINE t == EnsureBlankWindow(s)
  <2>1. /\ t.blank /\ t.blankOpacity = s.anim["blank"].val /\ t.anim = s.anim
        /\ t.active = s.active /\ t.delayTimer = s.delayTimer /\ t.lockOnBlank = s.lockOnBlank
    BY <1>2 DEF EnsureBlankWindow, LockState, Fields
  <2> HIDE DEF t
  <2> QED BY <1>2, <2>1 DEF BlankGood, t
<1> QED BY <1>1, <1>2

LEMMA ShowBlankWindowGood ==
  ASSUME NEW s, LockState(s), BlankGood(s)
  PROVE  BlankGood(ShowBlankWindow(s)) /\ ShowBlankWindow(s).blank
<1> DEFINE e == EnsureBlankWindow(s)
           d == [e EXCEPT !.anim["blank"].from = Clear, !.anim["blank"].to = Full]
           c == IF d.anim["blank"].val = Clear THEN d ELSE SetCurrent(d, "blank", Clear)
           r == [c EXCEPT !.anim["blank"].running = TRUE]
<1>1. CASE s.blank /\ s.blankOpacity = Full
  BY <1>1 DEF ShowBlankWindow
<1>2. CASE ~(s.blank /\ s.blankOpacity = Full)
  <2>1. LockState(e) /\ BlankGood(e) /\ e.blank /\ ~e.active
    BY <1>2, EnsureBlankWindowStep, EnsureBlankWindowGood DEF Step, BlankGood
  <2>2. ShowBlankWindow(s) = AnimStartOrReverse(e, "blank", Clear, Full)
    BY <1>2 DEF ShowBlankWindow
  <2> HIDE DEF e
  <2>3. CASE e.anim["blank"].running
    <3>1. ShowBlankWindow(s) = e
      BY <2>1, <2>2, <2>3 DEF AnimStartOrReverse, BlankGood
    <3> QED BY <2>1, <3>1
  <2>4. CASE ~e.anim["blank"].running
    <3>1. ShowBlankWindow(s) = AnimRun(d, "blank")
      BY <2>2, <2>4 DEF AnimStartOrReverse, AnimStart, AnimStop
    <3>2. /\ LockState(d) /\ Only(e, d, {"anim"}) /\ d.anim["blank"].from = Clear /\ d.anim["blank"].to = Full
      BY <2>1, BlankEndsFacts
    <3>3. ShowBlankWindow(s) = r
      <4> HIDE DEF d
      <4> QED BY <3>1, <3>2 DEF AnimRun
    <3> HIDE DEF d
    <3>4. d.blank /\ ~d.active /\ ~d.delayTimer
      BY <2>1, <3>2 DEF Only, Fields, BlankGood
    <3>5. /\ LockState(c) /\ c.anim["blank"].val = Clear
          /\ c.anim["blank"].from = Clear /\ c.anim["blank"].to = Full
          /\ c.blank /\ ~c.active /\ ~c.delayTimer
      BY <3>2, <3>4, BlankSetFacts
    <3> HIDE DEF c
    <3>6. /\ Only(c, r, {"anim"}) /\ r.anim["blank"].running /\ r.anim["blank"].val = Clear
          /\ r.anim["blank"].from = Clear /\ r.anim["blank"].to = Full
      BY <3>5, BlankRunningFacts
    <3> HIDE DEF r
    <3>7. r.blank /\ ~r.active /\ ~r.delayTimer
      BY <3>5, <3>6 DEF Only, Fields
    <3> QED BY <3>3, <3>6, <3>7 DEF BlankGood
  <2> QED BY <2>3, <2>4
<1> QED BY <1>1, <1>2

LEMMA HideBlankWindowGood ==
  ASSUME NEW s, LockState(s), BlankGood(s)
  PROVE  BlankGood(HideBlankWindow(s))
<1> DEFINE faded    == AnimSetValue(s, "blank", Clear)
           released == IF faded.prompt THEN BlankWindowGrabEnable(faded, FALSE) ELSE faded
           gone     == [UnGrab(released, {BlankArea}) EXCEPT !.blank = FALSE, !.blankOpacity = Clear, !.delayTimer = FALSE]
<1>1. CASE ~s.blank
  BY <1>1 DEF HideBlankWindow
<1>2. CASE s.blank
  <2>1. LockState(faded) /\ BlankGood(faded) /\ ~faded.anim["blank"].running /\ faded.anim["blank"].val = Clear
    BY <1>2, BlankSetValueGood
  <2> HIDE DEF faded
  <2>2. LockState(released) /\ BlankSame(faded, released)
    <3>1. BlankSame(faded, faded)
      BY DEF BlankSame, Only
    <3> QED BY <2>1, <3>1, BlankWindowGrabEnableStep, GrabEnableBlankSame DEF Step
  <2> HIDE DEF released
  <2>3. BlankGood(released) /\ ~released.anim["blank"].running /\ released.anim["blank"].val = Clear
    BY <2>1, <2>2, BlankSameGood DEF BlankSame
  <2>4. /\ ~gone.blank /\ ~gone.delayTimer /\ gone.anim = released.anim /\ gone.active = released.active
    BY <2>2 DEF LockState, UnGrab, Fields
  <2>5. HideBlankWindow(s) = gone
    BY <1>2 DEF HideBlankWindow, gone, released, faded
  <2> HIDE DEF gone
  <2> QED BY <2>3, <2>4, <2>5 DEF BlankGood
<1> QED BY <1>1, <1>2

LEMMA BlankAdvanceGood ==
  ASSUME NEW s, LockState(s), BlankGood(s), s.anim["blank"].running, NEW v \in {Partial, s.anim["blank"].to}
  PROVE  BlankGood(AnimAdvance(s, "blank", v))
<1> DEFINE c == SetCurrent(s, "blank", v)
           e == AnimStop(c, "blank")
<1>1. v \in {Partial, Full} /\ s.anim["blank"].from = Clear /\ s.anim["blank"].to = Full /\ s.blank
  BY DEF BlankGood
<1>2. /\ LockState(c)
      /\ c.anim["blank"].running /\ c.anim["blank"].val = v
      /\ c.anim["blank"].from = Clear /\ c.anim["blank"].to = Full
      /\ c.blank /\ c.lockOnBlank = s.lockOnBlank
      /\ c.active = s.active /\ c.delayTimer = s.delayTimer
      /\ c.blankOpacity = v
  BY <1>1, BlankSetFacts
<1>3. AnimAdvance(s, "blank", v) = IF v = Full THEN e ELSE c
  BY <1>1 DEF AnimAdvance
<1> HIDE DEF c
<1>4. CASE v = Full
  <2>1. /\ ~e.anim["blank"].running /\ e.anim["blank"].val = Full /\ e.anim["blank"].to = Full
        /\ e.blank /\ e.blankOpacity = Full /\ e.active /\ (e.delayTimer <=> e.lockOnBlank)
    BY <1>2, <1>4, BlankStopFacts
  <2> HIDE DEF e
  <2> QED BY <1>3, <1>4, <2>1 DEF BlankGood
<1>5. CASE v # Full
  \* not active while it runs
  <2>1. ~c.active /\ ~c.delayTimer
    BY <1>2 DEF BlankGood
  <2> QED BY <1>2, <1>3, <1>5, <2>1 DEF BlankGood
<1> QED BY <1>4, <1>5

LEMMA OnLockRequestedBlank ==
  ASSUME NEW s, LockState(s), BlankGood(s), NEW prompt \in BOOLEAN
  PROVE  BlankGood(OnLockRequested(s, prompt))
<1> DEFINE shown   == EnsureBlankWindow(s)
           grabbed == BlankWindowGrabEnable(shown, TRUE)
           blanked == [grabbed EXCEPT !.blankOpacity = Full]
           t       == IF prompt THEN blanked ELSE s
           u       == [t EXCEPT !.prompt = prompt, !.lockTimer = TRUE]
<1>1. LockState(shown) /\ BlankGood(shown) /\ shown.blank
  BY EnsureBlankWindowStep, EnsureBlankWindowGood DEF Step
<1> HIDE DEF shown
<1>2. LockState(grabbed) /\ BlankSame(shown, grabbed)
  BY <1>1, BlankWindowGrabEnableStep, GrabEnableBlankSame DEF Step
<1> HIDE DEF grabbed
<1>3. BlankGood(grabbed)
  BY <1>1, <1>2, BlankSameGood
<1>4. LockState(blanked) /\ BlankGood(blanked)
  <2>1. LockState(blanked)
    BY <1>2 DEF LockState, Fields, ShieldTypes, LockTypes, BlankTypes, SleepTypes
  <2>2. Only(grabbed, blanked, {"blankOpacity"}) /\ blanked.blankOpacity = Full
    BY <1>2 DEF LockState, Only, Fields
  <2> HIDE DEF blanked
  <2>3. /\ blanked.blank = grabbed.blank /\ blanked.active = grabbed.active /\ blanked.anim = grabbed.anim
        /\ blanked.delayTimer = grabbed.delayTimer /\ blanked.lockOnBlank = grabbed.lockOnBlank
    BY <2>2 DEF Only, Fields
  <2> QED BY <1>3, <2>1, <2>2, <2>3 DEF BlankGood
<1> HIDE DEF blanked
<1>5. LockState(t) /\ BlankGood(t)
  BY <1>4
<1> HIDE DEF t
<1>6. Only(t, u, {"prompt", "lockTimer"})
  BY <1>5 DEF LockState, Only, Fields
<1> HIDE DEF u
<1>7. BlankGood(u)
  BY <1>5, <1>6, OnlyBlankSame, BlankSameGood DEF BlankFields
<1> QED BY <1>7 DEF OnLockRequested, u, t, blanked, grabbed, shown

LEMMA SaverRequestBlank ==
  ASSUME NEW s, LockState(s), BlankGood(s), NEW b \in BOOLEAN
  PROVE  BlankGood(OnScreenSaverActivationRequest(s, b))
<1>1. Only(s, OnScreenSaverActivationRequest(s, b), {"saverTimer"})
  BY DEF OnScreenSaverActivationRequest, LockState, Only, Fields
<1> QED BY <1>1, OnlyBlankSame, BlankSameGood DEF BlankFields

LEMMA RequestLockBlank ==
  ASSUME NEW s, LockState(s), BlankGood(s), NEW prompt \in BOOLEAN
  PROVE  BlankGood(RequestLock(s, prompt))
  BY OnLockRequestedBlank, SaverRequestBlank DEF RequestLock

LEMMA PresenceBlank ==
  ASSUME NEW s, LockState(s), BlankGood(s), NEW b \in BOOLEAN
  PROVE  BlankGood(OnBlankWindowInputEvent(s)) /\ BlankGood(OnPresenceStatusChanged(s, b))
  BY ShowBlankWindowGood, HideBlankWindowGood DEF OnBlankWindowInputEvent, OnPresenceStatusChanged

LEMMA PostTimerBlank ==
  ASSUME NEW s, LockState(s), BlankGood(s)
  PROVE  LET t == [s EXCEPT !.postTimer = FALSE] IN LockState(t) /\ BlankGood(t)
<1> DEFINE t == [s EXCEPT !.postTimer = FALSE]
<1>1. LockState(t)
  BY TimerFieldsStep DEF Step
<1>2. Only(s, t, {"postTimer"})
  BY DEF LockState, Only, Fields
<1> HIDE DEF t
<1>3. BlankGood(t)
  BY <1>2, OnlyBlankSame, BlankSameGood DEF BlankFields
<1> QED BY <1>1, <1>3 DEF t

LEMMA ScreenSaverTimeoutBlank ==
  ASSUME NEW s, LockState(s), BlankGood(s)
  PROVE  BlankGood(ScreenSaverTimeout(s))
<1> DEFINE t == [s EXCEPT !.saverTimer = "none"]
           u == ShowBlankWindow(t)
<1>1. LockState(t)
  BY TimerFieldsStep DEF Step
<1>2. BlankGood(t)
  <2>1. Only(s, t, {"saverTimer"})
    BY DEF LockState, Only, Fields
  <2> HIDE DEF t
  <2> QED BY <2>1, OnlyBlankSame, BlankSameGood DEF BlankFields
<1> HIDE DEF t
<1>3. LockState(u) /\ BlankGood(u) /\ u.blank
  BY <1>1, <1>2, ShowBlankWindowStep, ShowBlankWindowGood DEF Step
<1> HIDE DEF u
<1>4. BlankGood(AnimSkip(u, "blank")) /\ BlankGood(HideBlankWindow(t))
  BY <1>1, <1>2, <1>3, BlankSkipGood, HideBlankWindowGood
<1> QED BY <1>2, <1>4 DEF ScreenSaverTimeout, t, u

\* The shields never touch the window they stand in front of, ...
LEMMA ArrangedBlankSame ==
  ASSUME NEW s, NEW t, Only(s, t, Arranged \cup {"following", "target"})
  PROVE  BlankSame(s, t)
  BY OnlyBlankSame DEF Arranged, Inputs, BlankFields

LEMMA FadeAdvanceBlank ==
  ASSUME NEW s, Good(s), s.anim["fade"].running, NEW v \in Values
  PROVE  BlankSame(s, AnimAdvance(s, "fade", v))
<1> DEFINE c == SetCurrent(s, "fade", v)
           d == [c EXCEPT !.anim["fade"].running = FALSE]
           e == SyncInhibitor(d)
           z == AnimAdvance(s, "fade", v)
<1>1. LockState(s)
  BY DEF Good
<1>2. LockState(c) /\ BlankSame(s, c)
  BY <1>1, SetCurrentLemma, FadeFieldsCall, FadeCallBlankSame DEF Animators
<1> HIDE DEF c
<1>3. LockState(d) /\ BlankSame(s, d)
  <2>1. LockState(d) /\ FadeCall(c, d)
    BY <1>2, FadeUpdate, FadeValues, FadeFieldsCall
  <2> HIDE DEF d
  <2> QED BY <1>2, <2>1, FadeCallBlankSame, BlankSameTransitive
<1> HIDE DEF d
<1>4. LockState(e) /\ BlankSame(s, e)
  <2>1. LockState(e) /\ Only(d, e, {"inh", "synced"})
    BY <1>3, SyncInhibitorStep, SyncInhibitorCall DEF Step
  <2> HIDE DEF e
  <2> QED BY <1>3, <2>1, OnlyBlankSame, BlankSameTransitive DEF BlankFields
<1> HIDE DEF e
<1>5. BlankSame(s, RemoveShields(e)) /\ BlankSame(s, [e EXCEPT !.postTimer = TRUE])
  <2>1. BlankSame(e, RemoveShields(e)) /\ BlankSame(e, [e EXCEPT !.postTimer = TRUE])
    BY <1>4, RemoveShieldsCall, ArrangedBlankSame, FadeFieldsCall, FadeCallBlankSame
  <2> QED BY <1>4, <2>1, BlankSameTransitive
<1> QED BY <1>2, <1>4, <1>5 DEF AnimAdvance, AnimStop, Finished, OnFadeFinished, z, e, d, c

\* ... neither when they are raised; what a new lock looks like is needed below.
LEMMA FadeInStarts ==
  ASSUME NEW s, LockState(s), ~s.anim["fade"].running
  PROVE  LET z == AnimStartOrReverse(s, "fade", Clear, Full)
         IN  /\ Only(s, z, {"anim", "opaque"}) /\ z.anim["blank"] = s.anim["blank"]
             /\ z.anim["fade"].val = Clear /\ z.opaque \in {s.opaque, {}}
<1> DEFINE d == [s EXCEPT !.anim["fade"].from = Clear, !.anim["fade"].to = Full]
           c == IF d.anim["fade"].val = Clear THEN d ELSE SetCurrent(d, "fade", Clear)
           r == [c EXCEPT !.anim["fade"].running = TRUE]
           z == AnimStartOrReverse(s, "fade", Clear, Full)
<1>1. z = AnimRun(d, "fade")
  BY DEF AnimStartOrReverse, AnimStart, AnimStop
<1>2. /\ LockState(d) /\ d.anim["fade"].from = Clear
  BY FadeUpdate DEF FadeIs
<1>3. /\ Only(s, d, {"anim"}) /\ d.anim["blank"] = s.anim["blank"] /\ d.opaque = s.opaque
  BY DEF LockState, BlankTypes, Animators, Only, Fields
<1> HIDE DEF d
<1>4. z = r
  BY <1>1, <1>2 DEF AnimRun
<1>5. /\ LockState(c) /\ Only(d, c, {"anim", "opaque"}) /\ c.anim["blank"] = d.anim["blank"]
      /\ c.anim["fade"].val = Clear /\ c.opaque \in {d.opaque, {}}
  <2> DEFINE e == SetCurrent(d, "fade", Clear)
  <2>1. /\ LockState(e) /\ e.anim["blank"] = d.anim["blank"] /\ e.anim["fade"].val = Clear
    BY <1>2, SetCurrentLemma DEF Animators
  <2>2. Only(d, e, {"anim", "opaque"}) /\ e.opaque = {}
    <3> DEFINE g == [d EXCEPT !.anim["fade"].val = Clear]
    <3>1. Only(d, g, {"anim"}) /\ DOMAIN g = Fields
      BY <1>2 DEF LockState, Only, Fields
    <3>2. e = [g EXCEPT !.opaque = {}]
      BY DEF SetCurrent
    <3> HIDE DEF g, e
    <3> QED BY <3>1, <3>2 DEF Only, Fields
  <2>3. Only(d, d, {"anim", "opaque"})
    BY DEF Only
  <2> HIDE DEF e
  <2> QED BY <1>2, <2>1, <2>2, <2>3 DEF e
<1> HIDE DEF c, z
<1>6. Only(c, r, {"anim"}) /\ r.anim["blank"] = c.anim["blank"] /\ r.anim["fade"].val = c.anim["fade"].val /\ r.opaque = c.opaque
  BY <1>5 DEF LockState, BlankTypes, Animators, Animation, Only, Fields
<1> HIDE DEF r
<1>7. Only(s, z, {"anim", "opaque"})
  BY <1>3, <1>4, <1>5, <1>6 DEF Only
<1> QED BY <1>3, <1>4, <1>5, <1>6, <1>7 DEF z

LEMMA LockScreenFacts ==
  ASSUME NEW s, LockState(s), ~s.anim["fade"].running, s.regrab \subseteq {s.primary}
  PROVE  LET z == LockScreen(s)
         IN  /\ Only(s, z, Arranged \cup {"following", "target", "anim"}) /\ z.anim["blank"] = s.anim["blank"]
             /\ z.anim["fade"].val = Clear /\ z.opaque = {} /\ ~z.early
<1> DEFINE a == [s EXCEPT !.target = TRUE]
           t == EnsureShields(a)
           k == t.primary \in t.grabs
           o == ShieldsOf(t)
           u == [t EXCEPT !.following = TRUE, !.shown = o, !.opaque = {}, !.isLocked = k, !.early = FALSE]
           z == AnimStartOrReverse(u, "fade", Clear, Full)
<1>1. LockState(a) /\ Only(s, a, {"target"})
  BY DEF LockState, Fields, ShieldTypes, LockTypes, BlankTypes, SleepTypes, Only
<1> HIDE DEF a
<1>2. a.regrab = s.regrab /\ a.primary = s.primary /\ a.anim = s.anim
  BY <1>1 DEF Only, Fields
<1>3. LockState(t) /\ Only(a, t, Arranged)
  BY <1>1, <1>2, EnsureShieldsLemma, EnsureShieldsChosen DEF Rearranges, Chosen
<1> HIDE DEF t
<1>4. o \subseteq Monitors /\ k \in BOOLEAN
  BY <1>3, MaxMonitorsAssumption DEF ShieldsOf, LockState, ShieldTypes
<1> HIDE DEF o, k
<1>5. LockState(u)
  <2>1. ShieldTypes(u)
    BY <1>3, <1>4 DEF LockState, Fields, ShieldTypes
  <2>2. LockTypes(u)
    BY <1>3, <1>4 DEF LockState, Fields, LockTypes
  <2>3. BlankTypes(u)
    BY <1>3 DEF LockState, Fields, BlankTypes
  <2>4. SleepTypes(u) /\ DOMAIN u = Fields
    BY <1>3 DEF LockState, Fields, SleepTypes
  <2> QED BY <2>1, <2>2, <2>3, <2>4 DEF LockState
<1>6. Only(t, u, Arranged \cup {"following"}) /\ u.opaque = {} /\ u.early = FALSE
  BY <1>3 DEF LockState, Only, Arranged, Inputs, Fields
<1> HIDE DEF u
<1>7. u.anim = s.anim
  BY <1>2, <1>3, <1>6 DEF Only, Arranged, Inputs, Fields
<1>8. /\ Only(u, z, {"anim", "opaque"}) /\ z.anim["blank"] = u.anim["blank"]
      /\ z.anim["fade"].val = Clear /\ z.opaque = {}
  BY <1>5, <1>6, <1>7, FadeInStarts
<1> HIDE DEF z
<1>9. z.early = FALSE
  BY <1>6, <1>8 DEF Only, Fields
<1>10. Only(s, z, Arranged \cup {"following", "target", "anim"})
  BY <1>1, <1>3, <1>6, <1>8 DEF Only, Arranged
<1>11. LockScreen(s) = z
  BY DEF LockScreen, ShowShields, z, u, t, a, k, o
<1> QED BY <1>7, <1>8, <1>9, <1>10, <1>11

LEMMA ShieldsRaisedBlank ==
  ASSUME NEW s, Good(s), Held(s), s.lockTimer, BlankGood(s)
  PROVE  BlankGood(ShieldsRaised(RaiseShields(s)))
<1> DEFINE a == IF s.prompt THEN s ELSE HideBlankWindow(s)
           t == LockScreen(a)
           k == AnimSkip(t, "fade")
           h == HideBlankWindow(k)
           v == IF t.prompt THEN h ELSE t
           z == [v EXCEPT !.lockTimer = FALSE]
<1>1. Step(s, a) /\ BlankCall(s, a) /\ BlankGood(a) /\ ~s.anim["fade"].running
  BY StepReflexive, BlankCallReflexive, HideBlankWindowStep, HideBlankWindowCall, HideBlankWindowGood DEF Good, LockInv
<1> HIDE DEF a
<1>2. LockState(a) /\ ~a.anim["fade"].running /\ a.regrab \subseteq {a.primary}
  BY <1>1 DEF Step, Keeps, KeepsLock, BlankCall, Only, Blanks, Fields, Held
<1>3. LockState(t) /\ FadeIs(t, TRUE, Clear, Full) /\ BlankSame(a, t)
  <2>1. /\ LockState(t) /\ FadeIs(t, TRUE, Clear, Full)
        /\ Only(a, t, Arranged \cup {"following", "target", "anim"}) /\ t.anim["blank"] = a.anim["blank"]
    BY <1>2, LockScreenLemma, LockScreenFacts
  <2> HIDE DEF t
  <2> QED BY <2>1 DEF BlankSame, Only, Arranged, Inputs, BlankFields
<1>4. BlankGood(t)
  BY <1>1, <1>3, BlankSameGood
<1> HIDE DEF t
<1>5. LockState(k) /\ BlankGood(k)
  BY <1>3, <1>4, FadeSkip, FadeSkipCall, FadeCallBlankSame, BlankSameGood
<1> HIDE DEF k
<1>6. LockState(h) /\ BlankGood(h)
  BY <1>5, HideBlankWindowStep, HideBlankWindowGood DEF Step
<1> HIDE DEF h
<1>7. LockState(v) /\ BlankGood(v)
  BY <1>3, <1>4, <1>6
<1> HIDE DEF v
<1>8. Only(v, z, {"lockTimer"})
  BY <1>7 DEF LockState, Only, Fields
<1> HIDE DEF z
<1>9. BlankGood(z)
  BY <1>7, <1>8, OnlyBlankSame, BlankSameGood DEF BlankFields
<1> QED BY <1>9 DEF ShieldsRaised, RaiseShields, z, v, h, k, t, a

LEMMA OnUnlockRequestedBlank ==
  ASSUME NEW s, Good(s), BlankGood(s)
  PROVE  BlankGood(OnUnlockRequested(s))
<1> DEFINE t == [s EXCEPT !.lockTimer = FALSE, !.postTimer = FALSE]
           u == HideBlankWindow(t)
           w == UnGrab(u, ShieldsOf(u))
           z == AnimStartOrReverse(w, "fade", Full, Clear)
<1>1. LockState(t) /\ BlankGood(t) /\ t.anim = s.anim
  <2>1. LockState(t) /\ Only(s, t, {"lockTimer", "postTimer"})
    BY DEF Good, LockState, Fields, ShieldTypes, LockTypes, BlankTypes, SleepTypes, Only
  <2> HIDE DEF t
  <2>2. t.anim = s.anim
    BY <2>1 DEF Only, Fields
  <2> QED BY <2>1, <2>2, OnlyBlankSame, BlankSameGood DEF BlankFields
<1> HIDE DEF t
<1>2. LockState(u) /\ BlankGood(u) /\ u.anim["fade"] = s.anim["fade"]
  BY <1>1, HideBlankWindowStep, HideBlankWindowGood DEF Step, Keeps
<1> HIDE DEF u
<1>3. LockState(w) /\ BlankGood(w) /\ w.anim["fade"] = s.anim["fade"]
  <2>1. LockState(w) /\ w.anim["fade"] = u.anim["fade"]
    BY <1>2, UnGrabStep DEF Step, Keeps
  <2>2. Only(u, w, {"grabs"})
    BY <1>2 DEF LockState, UnGrab, Only, Fields
  <2> HIDE DEF w
  <2> QED BY <1>2, <2>1, <2>2, OnlyBlankSame, BlankSameGood DEF BlankFields
<1> HIDE DEF w
<1>4. BlankGood(z)
  <2>1. w.anim["fade"].running => w.anim["fade"].from # w.anim["fade"].to
    BY <1>3 DEF Good, LockInv
  <2>2. FadeCall(w, z)
    <3>1. Clear \in Ends /\ Full \in Ends /\ Full # Clear
      OBVIOUS
    <3> HIDE DEF Clear, Full, Ends
    <3> QED BY <1>3, <2>1, <3>1, FadeStartOrReverseCall, Zenon
  <2> HIDE DEF z
  <2> QED BY <1>3, <2>2, FadeCallBlankSame, BlankSameGood
<1> QED BY <1>2, <1>4 DEF OnUnlockRequested, HideShields, z, w, u, t

LEMMA DBusBlank ==
  ASSUME LockState(ls), DBus
  PROVE  BlankSame(ls, ls')
<1>1. Only(ls, ls', {"inh", "synced", "sessionActive"})
  <2>1. CASE LoginConnected
    BY <2>1, SyncInhibitorCall DEF LoginConnected, Only
  <2>2. CASE SessionProxyReady
    BY <2>2 DEF SessionProxyReady, LockState, Only, Fields
  <2>3. CASE InhibitReplied
    BY <2>3 DEF InhibitReplied, Internal, Runs, LockState, Only, Fields
  <2>4. CASE InhibitRejected
    BY <2>4 DEF InhibitRejected, Internal, Runs, LockState, Only, Fields
  <2> QED BY <2>1, <2>2, <2>3, <2>4 DEF DBus
<1> QED BY <1>1, OnlyBlankSame DEF BlankFields

\* What the session or a setting changes, before the inhibitor follows
LEMMA PolicyFields ==
  ASSUME LockState(ls)
  PROVE  LET a == [ls EXCEPT !.sessionActive = ~@]
             b == [ls EXCEPT !.lockOnSuspend = ~@]
             c == [ls EXCEPT !.useLegacy = ~@]
             F == {"sessionActive", "lockOnSuspend", "useLegacy"}
         IN  /\ LockState(a) /\ LockState(b) /\ LockState(c)
             /\ Only(ls, a, F) /\ Only(ls, b, F) /\ Only(ls, c, F)
<1> DEFINE a == [ls EXCEPT !.sessionActive = ~@]
           b == [ls EXCEPT !.lockOnSuspend = ~@]
           c == [ls EXCEPT !.useLegacy = ~@]
           F == {"sessionActive", "lockOnSuspend", "useLegacy"}
<1>1. LockState(a) /\ LockState(b) /\ LockState(c)
  BY DEF LockState, Fields, ShieldTypes, LockTypes, BlankTypes, SleepTypes
<1>2. Only(ls, a, F) /\ Only(ls, b, F) /\ Only(ls, c, F)
  BY DEF LockState, Only, Fields
<1> QED BY <1>1, <1>2

LEMMA PolicyBlank ==
  ASSUME LockState(ls), Policy
  PROVE  BlankSame(ls, ls')
<1> DEFINE a == [ls EXCEPT !.sessionActive = ~@]
           b == [ls EXCEPT !.lockOnSuspend = ~@]
           c == [ls EXCEPT !.useLegacy = ~@]
           F == {"sessionActive", "lockOnSuspend", "useLegacy"}
           G == F \cup {"inh", "synced", "saverTimer"}
<1>1. /\ LockState(a) /\ LockState(b) /\ LockState(c)
      /\ Only(ls, a, F) /\ Only(ls, b, F) /\ Only(ls, c, F)
  BY PolicyFields
<1> HIDE DEF a, b, c
<1>2. ASSUME NEW t, LockState(t), Only(ls, t, F)
      PROVE  LockState(SyncInhibitor(t)) /\ Only(ls, SyncInhibitor(t), G)
  BY <1>2, SyncInhibitorStep, SyncInhibitorCall DEF Step, Only
<1>3. ASSUME NEW t, LockState(t), Only(ls, t, G)
      PROVE  Only(ls, OnScreenSaverActivationRequest(t, FALSE), G)
  <2>1. Only(t, OnScreenSaverActivationRequest(t, FALSE), {"saverTimer"})
    BY <1>3 DEF OnScreenSaverActivationRequest, LockState, Only, Fields
  <2> QED BY <1>3, <2>1 DEF Only
<1>4. Only(ls, ls', G)
  <2>1. CASE SessionActiveChanged
    <3>1. ls' = OnScreenSaverActivationRequest(SyncInhibitor(a), FALSE) \/ ls' = SyncInhibitor(a)
      BY <2>1 DEF SessionActiveChanged, Runs, a
    <3> QED BY <1>1, <1>2, <1>3, <3>1
  <2>2. CASE LockOnSuspendChanged
    BY <1>1, <1>2, <2>2 DEF LockOnSuspendChanged, Runs, b
  <2>3. CASE UseLegacyChanged
    BY <1>1, <1>2, <2>3 DEF UseLegacyChanged, Runs, c
  <2> QED BY <2>1, <2>2, <2>3 DEF Policy
<1> QED BY <1>4, OnlyBlankSame DEF BlankFields

LEMMA RequestsBlank ==
  ASSUME Good(ls), BlankGood(ls), Requests
  PROVE  BlankGood(ls')
<1>0. LockState(ls)
  BY DEF Good
<1>1. CASE Lock \/ Prompt
  BY <1>0, <1>1, RequestLockBlank DEF Lock, Prompt, Internal, Runs
<1>2. CASE Unlock
  BY <1>2, OnUnlockRequestedBlank DEF Unlock, Runs
<1>3. CASE PresenceChanged \/ SaverRequested
  <2>1. PICK b \in BOOLEAN : ls' = OnPresenceStatusChanged(ls, b) \/ ls' = OnScreenSaverActivationRequest(ls, b)
    BY <1>3 DEF PresenceChanged, SaverRequested, Internal, Runs
  <2> QED BY <1>0, <2>1, PresenceBlank, SaverRequestBlank
<1>4. CASE SimulateActivity
  BY <1>0, <1>4, HideBlankWindowGood DEF SimulateActivity, Internal, Runs
<1> QED BY <1>1, <1>2, <1>3, <1>4 DEF Requests

LEMMA TimersBlank ==
  ASSUME Good(ls), Held(ls), BlankGood(ls), Timers
  PROVE  BlankGood(ls')
<1>0. LockState(ls)
  BY DEF Good
<1>1. CASE LockRetries
  BY <1>0, <1>1, HideBlankWindowGood DEF LockRetries, Internal, Runs
<1>2. CASE LockHappens
  BY <1>2, ShieldsRaisedBlank DEF LockHappens, Internal, Runs
<1>3. CASE DelayTimerFires
  <2> DEFINE t == [ls EXCEPT !.delayTimer = FALSE]
  <2>1. LockState(t)
    BY <1>0, TimerFieldsStep DEF Step
  <2>2. ls' = RequestLock(t, TRUE)
    BY <1>3 DEF DelayTimerFires, Internal, Runs
  <2>3. BlankGood(t)
    <3>1. Only(ls, t, {"delayTimer"}) /\ ~t.delayTimer
      BY <1>0 DEF LockState, Only, Fields
    <3> HIDE DEF t
    <3>2. t.blank = ls.blank /\ t.blankOpacity = ls.blankOpacity /\ t.active = ls.active /\ t.anim = ls.anim
      BY <3>1 DEF Only, Fields
    <3> QED BY <3>1, <3>2 DEF BlankGood
  <2> HIDE DEF t
  <2> QED BY <2>1, <2>2, <2>3, RequestLockBlank
<1>4. CASE SaverTimerFires
  BY <1>0, <1>4, ScreenSaverTimeoutBlank DEF SaverTimerFires, Internal, Runs
<1>5. CASE PostTimerFires
  <2> DEFINE t == [ls EXCEPT !.postTimer = FALSE]
  <2>1. LockState(t) /\ BlankGood(t)
    BY <1>0, PostTimerBlank
  <2>2. ls' = OnPresenceStatusChanged(t, TRUE)
    BY <1>5 DEF PostTimerFires, Internal, Runs
  <2> HIDE DEF t
  <2> QED BY <2>1, <2>2, PresenceBlank
<1>6. CASE GrabTimerFires
  <2>1. PICK i \in ls.failTimer :
          LET t == [ls EXCEPT !.failTimer = @ \ {i}]
          IN  \/ ls' = OnUnlockRequested(t)
              \/ ls' = t
    BY <1>6 DEF GrabTimerFires, Internal, Runs
  <2> DEFINE t == [ls EXCEPT !.failTimer = @ \ {i}]
  <2>2. ls' = OnUnlockRequested(t) \/ ls' = t
    BY <2>1
  <2>3. Step(ls, t)
    BY <1>0 DEF Step, Keeps, KeepsLock, LockState, Fields, ShieldTypes, LockTypes, BlankTypes, SleepTypes
  <2>4. Only(ls, t, {"failTimer"})
    BY <1>0 DEF LockState, Only, Fields
  <2> HIDE DEF t
  <2>5. Good(t) /\ BlankGood(t)
    BY <2>3, <2>4, GoodStep, OnlyBlankSame, BlankSameGood DEF BlankFields
  <2> QED BY <2>2, <2>5, OnUnlockRequestedBlank
<1> QED BY <1>1, <1>2, <1>3, <1>4, <1>5, <1>6 DEF Timers

LEMMA PaintingBlank ==
  ASSUME Good(ls), BlankGood(ls), Painting
  PROVE  BlankGood(ls')
<1>0. LockState(ls)
  BY DEF Good
<1>1. CASE FadeTick
  <2>1. PICK v \in {Partial, ls.anim["fade"].to} : ls' = AnimAdvance(ls, "fade", v)
    BY <1>1 DEF FadeTick, Tick, Internal, Runs
  <2>2. v \in Values /\ ls.anim["fade"].running
    BY <1>0, <1>1, FadeValues DEF FadeTick, Tick
  <2> QED BY <2>1, <2>2, FadeAdvanceBlank, BlankSameGood
<1>2. CASE BlankTick
  <2>1. PICK v \in {Partial, ls.anim["blank"].to} : ls' = AnimAdvance(ls, "blank", v)
    BY <1>2 DEF BlankTick, Tick, Internal, Runs
  <2>2. ls.anim["blank"].running
    BY <1>2 DEF BlankTick, Tick
  <2> QED BY <1>0, <2>1, <2>2, BlankAdvanceGood
<1>3. CASE DonePaint
  <2>1. Only(ls, ls', Sleeps)
    BY <1>0, <1>3, PaintCall DEF DonePaint, Internal, Runs
  <2> QED BY <2>1, OnlyBlankSame, BlankSameGood DEF Sleeps, BlankFields
<1> QED BY <1>1, <1>2, <1>3 DEF Painting

LEMMA UserInputBlank ==
  ASSUME Good(ls), Held(ls), BlankGood(ls), UserInput
  PROVE  BlankGood(ls')
<1>0. LockState(ls)
  BY DEF Good
<1>1. CASE LockScreenInput
  <2>1. PICK i \in ShieldsOf(ls) :
          ls' = ResetPostLockScreenSaver(MovePrimary(ls, i)) \/ ls' = ResetPostLockScreenSaver(ls)
    BY <1>1 DEF LockScreenInput, Internal, Runs
  <2>2. i \in Monitors
    BY <1>0, MaxMonitorsAssumption DEF ShieldsOf, LockState, ShieldTypes
  <2> DEFINE m == MovePrimary(ls, i)
  <2>3. LockState(m) /\ BlankGood(m)
    <3>1. CASE i = ls.primary
      BY <1>0, <3>1 DEF MovePrimary
    <3>2. CASE i # ls.primary
      <4>1. LockState(m) /\ Only(ls, m, Arranged)
        BY <1>0, <2>2, <3>2, MovePrimaryLemma, MovePrimaryChosen DEF Held, Rearranges, Chosen
      <4> HIDE DEF m
      <4> QED BY <4>1, OnlyBlankSame, BlankSameGood DEF Arranged, Inputs, BlankFields
    <3> QED BY <3>1, <3>2
  <2> HIDE DEF m
  <2>4. ASSUME NEW t, LockState(t), BlankGood(t) PROVE BlankGood(ResetPostLockScreenSaver(t))
    <3> DEFINE u == [t EXCEPT !.postTimer = FALSE]
    <3>1. LockState(u) /\ BlankGood(u)
      BY <2>4, PostTimerBlank
    <3> HIDE DEF u
    <3> QED BY <3>1, HideBlankWindowGood DEF ResetPostLockScreenSaver, u
  <2> QED BY <1>0, <2>1, <2>3, <2>4 DEF m
<1>2. CASE BlankWindowInput
  BY <1>0, <1>2, PresenceBlank DEF BlankWindowInput, Internal, Runs
<1>3. CASE MonitorsChanged
  <2>0. PICK n \in Monitors : \E m \in 1..n :
          LET t == [ls EXCEPT !.monitors = n, !.mouse = m]
          IN  ls' = IF ls.following THEN EnsureBlankWindow(EnsureShields(t)) ELSE t
    BY <1>3 DEF MonitorsChanged, Internal, Runs
  <2>1. PICK m \in 1..n :
          LET t == [ls EXCEPT !.monitors = n, !.mouse = m]
          IN  ls' = IF ls.following THEN EnsureBlankWindow(EnsureShields(t)) ELSE t
    BY <2>0
  <2> DEFINE t == [ls EXCEPT !.monitors = n, !.mouse = m]
             e == EnsureShields(t)
  <2>2. LockState(t) /\ Only(ls, t, {"monitors", "mouse"})
    <3>1. LockState(t)
      BY <1>0 DEF LockState, Fields, ShieldTypes, LockTypes, BlankTypes, SleepTypes
    <3> QED BY <1>0, <3>1 DEF LockState, Only, Fields
  <2>3. ls' = IF ls.following THEN EnsureBlankWindow(e) ELSE t
    BY <2>1
  <2> HIDE DEF t
  <2>4. BlankGood(t) /\ t.regrab \subseteq {t.primary}
    <3>1. BlankGood(t)
      BY <2>2, OnlyBlankSame, BlankSameGood DEF BlankFields
    <3>2. t.regrab \subseteq {t.primary}
      BY <2>2 DEF Only, Fields, Held
    <3> QED BY <3>1, <3>2
  <2>5. LockState(e) /\ BlankGood(e)
    <3>1. LockState(e) /\ Only(t, e, Arranged)
      BY <2>2, <2>4, EnsureShieldsLemma, EnsureShieldsChosen DEF Rearranges, Chosen
    <3> HIDE DEF e
    <3> QED BY <2>4, <3>1, OnlyBlankSame, BlankSameGood DEF Arranged, Inputs, BlankFields
  <2> HIDE DEF e
  <2> QED BY <2>3, <2>4, <2>5, EnsureBlankWindowGood
<1>4. CASE PanelOpens \/ PanelCloses
  <2>1. PICK i \in Monitors : ls' = PanelActive(ls, i) \/ ls' = PanelInactive(ls, i)
    BY <1>0, <1>4 DEF PanelOpens, PanelCloses, LockState, ShieldTypes, Internal, Runs
  <2>2. Only(ls, PanelActive(ls, i), Inputs)
    <3>1. Only(ls, PanelActive(ls, i), {"panels", "regrab", "grabs"})
      BY <1>0, PanelActiveCall
    <3> QED BY <3>1 DEF Only, Inputs
  <2>3. Only(ls, PanelInactive(ls, i), Inputs)
    <3> DEFINE t == [ls EXCEPT !.panels = @ \ {i}]
    <3>1. /\ Only(ls, t, {"panels"})
          /\ IF i = ls.primary THEN ShieldCall(t, PanelInactive(ls, i), i) ELSE PanelInactive(ls, i) = t
      BY <1>0, PanelInactiveCall
    <3> HIDE DEF t
    <3> QED BY <3>1 DEF ShieldCall, Only, Inputs
  <2> QED BY <2>1, <2>2, <2>3, OnlyBlankSame, BlankSameGood DEF Inputs, BlankFields
<1> QED BY <1>1, <1>2, <1>3, <1>4 DEF UserInput

LEMMA GrabbingBlank ==
  ASSUME LockState(ls), BlankGood(ls), Grabbing
  PROVE  BlankGood(ls')
<1>1. CASE ForeignGrabs \/ ForeignUngrabs
  <2>1. PICK g \in {"none", "keyboard", "pointer"} : ls' = [ls EXCEPT !.foreignGrab = g]
    BY <1>1 DEF ForeignGrabs, ForeignUngrabs, Internal, Runs
  <2>2. Only(ls, ls', {"foreignGrab"})
    BY <2>1 DEF LockState, Only, Fields
  <2> QED BY <2>2, OnlyBlankSame, BlankSameGood DEF BlankFields
<1>2. CASE UngrabNotified
  <2>1. PICK i \in ls.regrab : ls' = GrabScreen(ls, i, FALSE)
    BY <1>2 DEF UngrabNotified, ScreenUngrabbed, Internal, Runs
  <2>2. Only(ls, ls', Inputs)
    BY <2>1, GrabScreenCall DEF ShieldCall
  <2> QED BY <2>2, OnlyBlankSame, BlankSameGood DEF Inputs, BlankFields
<1> QED BY <1>1, <1>2 DEF Grabbing

LEMMA SuspendingBlank ==
  ASSUME LockState(ls), BlankGood(ls), Suspending
  PROVE  BlankGood(ls')
<1>1. CASE PrepareForSleep
  <2> DEFINE t == InhibitPaint(ls)
  <2>1. LockState(t) /\ BlankGood(t)
    <3>1. LockState(t) /\ Only(ls, t, Sleeps)
      BY PaintStep, PaintCall DEF Step
    <3> HIDE DEF t
    <3> QED BY <3>1, OnlyBlankSame, BlankSameGood DEF Sleeps, BlankFields
  <2>2. ls' = RequestLock(t, TRUE) \/ ls' = ls
    BY <1>1 DEF PrepareForSleep, AboutToSuspend
  <2> HIDE DEF t
  <2> QED BY <2>1, <2>2, RequestLockBlank
<1>2. CASE Sleep \/ SleepAnyway
  BY <1>2 DEF Sleep, SleepAnyway
<1>3. CASE Resume
  <2>1. Only(ls, ls', Sleeps)
    BY <1>3, PaintCall DEF Resume
  <2> QED BY <2>1, OnlyBlankSame, BlankSameGood DEF Sleeps, BlankFields
<1> QED BY <1>1, <1>2, <1>3 DEF Suspending

BlankInv == BlankGood(ls)

LEMMA BlankInvariant == Spec => []BlankInv
<1>1. Init => BlankInv
  <2> SUFFICES ASSUME Init PROVE BlankInv
    OBVIOUS
  <2>1. /\ ls.anim["blank"] = Stopped /\ ls.blank = FALSE /\ ls.active = FALSE /\ ls.delayTimer = FALSE
    BY DEF Init, InitialState, Animators
  <2> QED BY <2>1 DEF BlankInv, BlankGood, Stopped
<1>2. IInv /\ HeldInv /\ BlankInv /\ [Next]_vars => BlankInv'
  <2> SUFFICES ASSUME IInv, HeldInv, BlankInv, [Next]_vars PROVE BlankInv'
    OBVIOUS
  <2>0. Good(ls) /\ LockState(ls) /\ Held(ls) /\ BlankGood(ls)
    BY DEF IInv, Good, HeldInv, BlankInv
  <2>1. CASE DBus
    BY <2>0, <2>1, DBusBlank, BlankSameGood DEF BlankInv
  <2>2. CASE Policy
    BY <2>0, <2>2, PolicyBlank, BlankSameGood DEF BlankInv
  <2>3. CASE Requests
    BY <2>0, <2>3, RequestsBlank DEF BlankInv
  <2>4. CASE Timers
    BY <2>0, <2>4, TimersBlank DEF BlankInv
  <2>5. CASE Painting
    BY <2>0, <2>5, PaintingBlank DEF BlankInv
  <2>6. CASE UserInput
    BY <2>0, <2>6, UserInputBlank DEF BlankInv
  <2>7. CASE Grabbing
    BY <2>0, <2>7, GrabbingBlank DEF BlankInv
  <2>8. CASE Suspending
    BY <2>0, <2>8, SuspendingBlank DEF BlankInv
  <2>9. CASE UNCHANGED vars
    BY <2>9 DEF vars, BlankInv
  <2> QED BY <2>1, <2>2, <2>3, <2>4, <2>5, <2>6, <2>7, <2>8, <2>9 DEF Next
<1> QED BY <1>1, <1>2, InductiveInvariant, HeldInvariant, PTL DEF Spec

\* Nothing can leave the delayed lock armed on a screen that has been unblanked: input,
\* a lock, an unlock and a new monitor included (LockScreenController.cpp:158-179, 311-390).
THEOREM DelayedLockHolds == Spec => []DelayedLockNeedsBlank
<1>1. BlankInv => DelayedLockNeedsBlank
  BY DEF BlankInv, BlankGood, DelayedLockNeedsBlank
<1> QED BY <1>1, BlankInvariant, PTL

\* The screen saver service never says Active over a visible desktop
\* (LockScreenController.cpp:158-170, 311-390).
THEOREM ActiveHolds == Spec => []ActiveMeansBlanked
<1>1. BlankInv => ActiveMeansBlanked
  BY DEF BlankInv, BlankGood, ActiveMeansBlanked
<1> QED BY <1>1, BlankInvariant, PTL

-----------------------------------------------------------------------------
(* The shields and the suspend.  Shields at rest are opaque, shields that  *)
(* fade in are not (but for those added before the first frame), and a     *)
(* prompted lock only ever fades out.                                      *)

Shown(s) ==
  LET fade == s.anim["fade"]
  IN  /\ s.early => IsLocked(s)
      /\ IsLocked(s) /\ ~fade.running => fade.val = Full /\ s.opaque = ShieldsOf(s)
      /\ IsLocked(s) /\ fade.running /\ ~Backward(fade) => fade.val # Full /\ (s.early \/ s.opaque = {})
      /\ IsLocked(s) /\ fade.running /\ s.prompt => Backward(fade)

\* InhibitorCovers, of any state
Covered(s) ==
  s.synced /\ MustLock(s) /\ ~s.early /\ ~FullyLocked(s) /\ ~Leaving(s) => s.inh.held \/ s.inh.calls > 0

\* What a guarded suspend goes on with: the inhibitor, or shields that replace it
Guarded(s) ==
  MustLock(s) /\ ~Leaving(s) /\ (s.inh.held \/ ((s.early \/ FullyLocked(s)) /\ s.bufferCleared))

Kept(s, t) == Shown(t) /\ Covered(t) /\ (Guarded(s) => Guarded(t))

LEMMA KeptReflexive == ASSUME NEW s, Shown(s), Covered(s) PROVE Kept(s, s)
  BY DEF Kept

LEMMA KeptTransitive ==
  ASSUME NEW s, NEW t, NEW u, Kept(s, t), Kept(t, u)
  PROVE  Kept(s, u)
  BY DEF Kept

SleepFields == {"shields", "primary", "prompt", "opaque", "early", "synced", "inh", "bufferCleared",
                "sessionActive", "lockOnSuspend", "useLegacy"}

\* A call that has nothing to do with the shields' opacity or with the suspend
SleepSame(s, t) == Only(s, t, Fields \ SleepFields) /\ t.anim["fade"] = s.anim["fade"]

LEMMA SleepSameFacts ==
  ASSUME NEW s, NEW t, SleepSame(s, t)
  PROVE  /\ t.shields = s.shields /\ t.primary = s.primary /\ t.prompt = s.prompt /\ t.opaque = s.opaque
         /\ t.early = s.early /\ t.synced = s.synced /\ t.inh = s.inh /\ t.bufferCleared = s.bufferCleared
         /\ t.sessionActive = s.sessionActive /\ t.lockOnSuspend = s.lockOnSuspend /\ t.useLegacy = s.useLegacy
         /\ t.anim["fade"] = s.anim["fade"]
  BY DEF SleepSame, Only, SleepFields, Fields

LEMMA SleepSameKept ==
  ASSUME NEW s, NEW t, SleepSame(s, t), Shown(s), Covered(s)
  PROVE  Kept(s, t)
<1>1. /\ IsLocked(t) <=> IsLocked(s)
      /\ ShieldsOf(t) = ShieldsOf(s)
      /\ FullyLocked(t) <=> FullyLocked(s)
      /\ MustLock(t) <=> MustLock(s)
      /\ Leaving(t) <=> Leaving(s)
  BY SleepSameFacts DEF IsLocked, ShieldsOf, FullyLocked, MustLock, Leaving
<1>2. Shown(t)
  BY <1>1, SleepSameFacts DEF Shown
<1>3. Covered(t) /\ (Guarded(s) => Guarded(t))
  BY <1>1, SleepSameFacts DEF Covered, Guarded
<1> QED BY <1>2, <1>3 DEF Kept

LEMMA OnlySleepSame ==
  ASSUME NEW s, NEW t, NEW F, Only(s, t, F), F \cap (SleepFields \cup {"anim"}) = {}
  PROVE  SleepSame(s, t)
<1>1. t.anim = s.anim
  BY DEF Only, Fields
<1> QED BY <1>1 DEF SleepSame, Only

\* The blank window, and the grabs of the shields
LEMMA BlankSleepSame ==
  ASSUME NEW s, NEW t, Step(s, t), BlankCall(s, t)
  PROVE  SleepSame(s, t)
  BY DEF Step, Keeps, BlankCall, SleepSame, Only, Blanks, SleepFields

LEMMA InputsSleepSame ==
  ASSUME NEW s, NEW t, Only(s, t, Inputs)
  PROVE  SleepSame(s, t)
  BY OnlySleepSame DEF Inputs, SleepFields

\* The inhibitor is decided upon: whatever was before, the decision covers.
LEMMA InhibitorFacts ==
  ASSUME NEW m \in InhibitorType
  PROVE  /\ Inhibit(m).held = m.held
         /\ Inhibit(m).held \/ Inhibit(m).calls > 0
         /\ ~Uninhibit(m).held
<1>1. ~Uninhibit(m).held
  BY DEF InhibitorType, Uninhibit
<1>2. [m EXCEPT !.calls = @ + 1].held = m.held /\ [m EXCEPT !.calls = @ + 1].calls > 0
  BY DEF InhibitorType
<1>3. Inhibit(m).held = m.held
  BY <1>2 DEF Inhibit
<1>4. Inhibit(m).held \/ Inhibit(m).calls > 0
  <2>1. CASE m.held
    BY <2>1, <1>3
  <2>2. CASE ~m.held
    BY <1>2, <2>2 DEF Inhibit
  <2> QED BY <2>1, <2>2
<1> QED BY <1>1, <1>3, <1>4

LEMMA SyncInhibitorFacts ==
  ASSUME NEW s, LockState(s)
  PROVE  LET t == SyncInhibitor(s)
         IN  /\ LockState(t) /\ Only(s, t, {"inh", "synced"}) /\ t.anim = s.anim
             /\ t.inh = IF MustLock(s) /\ ~FullyLocked(s) THEN Inhibit(s.inh)
                        ELSE IF s.bufferCleared THEN Uninhibit(s.inh)
                        ELSE s.inh
<1> DEFINE t == SyncInhibitor(s)
           d == [s EXCEPT !.synced = TRUE]
<1>1. LockState(t) /\ Only(s, t, {"inh", "synced"})
  BY SyncInhibitorStep, SyncInhibitorCall DEF Step
<1>2. DOMAIN d = Fields /\ d.inh = s.inh
  BY DEF LockState, Fields
<1>3. t = IF MustLock(s) /\ ~FullyLocked(s) THEN [d EXCEPT !.inh = Inhibit(@)]
          ELSE IF s.bufferCleared THEN [d EXCEPT !.inh = Uninhibit(@)]
          ELSE d
  BY DEF SyncInhibitor
<1> HIDE DEF t, d
<1>4. t.inh = IF MustLock(s) /\ ~FullyLocked(s) THEN Inhibit(s.inh)
              ELSE IF s.bufferCleared THEN Uninhibit(s.inh)
              ELSE s.inh
  BY <1>2, <1>3 DEF Fields
<1>5. t.anim = s.anim
  BY <1>1 DEF Only, Fields
<1> QED BY <1>1, <1>4, <1>5 DEF t

LEMMA SyncInhibitorKept ==
  ASSUME NEW s, LockState(s)
  PROVE  LET t == SyncInhibitor(s)
         IN  /\ Covered(t)
             /\ Shown(s) => Shown(t)
             /\ Guarded(s) => Guarded(t)
             /\ MustLock(s) /\ ~FullyLocked(s) => t.inh.held \/ t.inh.calls > 0
             /\ s.inh.held /\ MustLock(s) /\ ~FullyLocked(s) => t.inh.held
<1> DEFINE t == SyncInhibitor(s)
<1>1. /\ LockState(t) /\ Only(s, t, {"inh", "synced"}) /\ t.anim = s.anim
      /\ t.inh = IF MustLock(s) /\ ~FullyLocked(s) THEN Inhibit(s.inh)
                 ELSE IF s.bufferCleared THEN Uninhibit(s.inh)
                 ELSE s.inh
  BY SyncInhibitorFacts
<1> HIDE DEF t
<1>2. /\ t.shields = s.shields /\ t.primary = s.primary /\ t.prompt = s.prompt /\ t.opaque = s.opaque
      /\ t.early = s.early /\ t.bufferCleared = s.bufferCleared
      /\ t.sessionActive = s.sessionActive /\ t.lockOnSuspend = s.lockOnSuspend /\ t.useLegacy = s.useLegacy
  BY <1>1 DEF Only, Fields
<1>3. /\ IsLocked(t) <=> IsLocked(s)
      /\ ShieldsOf(t) = ShieldsOf(s)
      /\ FullyLocked(t) <=> FullyLocked(s)
      /\ MustLock(t) <=> MustLock(s)
      /\ Leaving(t) <=> Leaving(s)
  BY <1>1, <1>2 DEF IsLocked, ShieldsOf, FullyLocked, MustLock, Leaving
<1>4. s.inh \in InhibitorType
  BY DEF LockState, SleepTypes
<1>5. /\ Inhibit(s.inh).held = s.inh.held
      /\ Inhibit(s.inh).held \/ Inhibit(s.inh).calls > 0
      /\ ~Uninhibit(s.inh).held
  BY <1>4, InhibitorFacts
<1>6. Covered(t)
  BY <1>1, <1>3, <1>5 DEF Covered
<1>7. Shown(s) => Shown(t)
  BY <1>1, <1>2, <1>3 DEF Shown
<1>8. /\ MustLock(s) /\ ~FullyLocked(s) => t.inh.held \/ t.inh.calls > 0
      /\ s.inh.held /\ MustLock(s) /\ ~FullyLocked(s) => t.inh.held
  BY <1>1, <1>5
<1>9. ASSUME Guarded(s) PROVE Guarded(t)
  <2>1. CASE ~FullyLocked(s)
    <3>1. t.inh.held = s.inh.held
      BY <1>1, <1>5, <1>9, <2>1 DEF Guarded
    <3> QED BY <1>2, <1>3, <1>9, <3>1 DEF Guarded
  <2>2. CASE FullyLocked(s)
    <3>1. t.inh = s.inh \/ s.bufferCleared
      BY <1>1, <2>2
    <3> QED BY <1>2, <1>3, <1>9, <2>2, <3>1 DEF Guarded
  <2> QED BY <2>1, <2>2
<1> QED BY <1>6, <1>7, <1>8, <1>9 DEF t

\* Between the first frame and the end, and before the way back, the fade alone
\* decides whether the screen is fully locked.
LEMMA FadeDecides ==
  ASSUME NEW s, Shown(s), IsLocked(s), s.primary \in ShieldsOf(s), ~s.early, ~Leaving(s)
  PROVE  FullyLocked(s) <=> ~s.anim["fade"].running
<1>1. CASE s.anim["fade"].running
  <2>1. s.opaque = {}
    BY <1>1 DEF Shown, Leaving
  <2> QED BY <1>1, <2>1 DEF FullyLocked
<1>2. CASE ~s.anim["fade"].running
  <2>1. s.opaque = ShieldsOf(s)
    BY <1>2 DEF Shown
  <2>2. s.primary # None
    BY DEF ShieldsOf
  <2> QED BY <1>2, <2>1, <2>2 DEF FullyLocked
<1> QED BY <1>1, <1>2

LEMMA ArrangedKept ==
  ASSUME NEW s, NEW t, Shown(s), Covered(s), IsLocked(s), s.primary \in ShieldsOf(s),
         Only(s, t, Arranged), IsLocked(t), t.primary \in ShieldsOf(t), s.early => t.early,
         ~t.anim["fade"].running => t.opaque = ShieldsOf(t),
         t.anim["fade"].running /\ ~Backward(t.anim["fade"]) => t.early \/ t.opaque = {}
  PROVE  Kept(s, t)
<1>1. /\ t.anim = s.anim /\ t.prompt = s.prompt /\ t.synced = s.synced /\ t.inh = s.inh /\ t.bufferCleared = s.bufferCleared
      /\ t.sessionActive = s.sessionActive /\ t.lockOnSuspend = s.lockOnSuspend /\ t.useLegacy = s.useLegacy
  BY DEF Only, Arranged, Inputs, Fields
<1>2. (MustLock(t) <=> MustLock(s)) /\ (Leaving(t) <=> Leaving(s))
  BY <1>1 DEF MustLock, Leaving
<1>3. Shown(t)
  BY <1>1 DEF Shown
<1>4. ~t.early /\ ~Leaving(t) => (FullyLocked(t) <=> FullyLocked(s))
  BY <1>1, <1>2, <1>3, FadeDecides
<1>5. Covered(t)
  BY <1>1, <1>2, <1>4 DEF Covered
<1>6. Guarded(s) => Guarded(t)
  BY <1>1, <1>2, <1>4 DEF Guarded
<1> QED BY <1>3, <1>5, <1>6 DEF Kept

LEMMA FadeRunningFacts ==
  ASSUME NEW s, LockState(s), NEW r \in BOOLEAN
  PROVE  LET t == [s EXCEPT !.anim["fade"].running = r]
         IN  /\ LockState(t) /\ Only(s, t, {"anim"}) /\ FadeIs(t, r, s.anim["fade"].from, s.anim["fade"].to)
             /\ t.anim["fade"].val = s.anim["fade"].val
<1> DEFINE t == [s EXCEPT !.anim["fade"].running = r]
<1>1. LockState(t) /\ FadeIs(t, r, s.anim["fade"].from, s.anim["fade"].to)
  BY FadeUpdate
<1>2. Only(s, t, {"anim"})
  BY DEF LockState, Only, Fields
<1>3. t.anim["fade"].val = s.anim["fade"].val
  BY DEF LockState, BlankTypes, Animators, Animation, Fields
<1> QED BY <1>1, <1>2, <1>3

LEMMA FadeSetFacts ==
  ASSUME NEW s, LockState(s), NEW v \in Values
  PROVE  LET t == SetCurrent(s, "fade", v)
         IN  /\ LockState(t) /\ Only(s, t, {"anim", "opaque"})
             /\ FadeIs(t, s.anim["fade"].running, s.anim["fade"].from, s.anim["fade"].to)
             /\ t.anim["fade"].val = v
             /\ t.opaque = IF v = Full THEN ShieldsOf(s) ELSE {}
<1> DEFINE t == SetCurrent(s, "fade", v)
           g == [s EXCEPT !.anim["fade"].val = v]
           o == IF v = Full THEN ShieldsOf(s) ELSE {}
<1>1. LockState(t) /\ FadeIs(t, s.anim["fade"].running, s.anim["fade"].from, s.anim["fade"].to) /\ t.anim["fade"].val = v
  BY SetCurrentLemma DEF Animators, FadeIs
<1>2. Only(s, g, {"anim"}) /\ DOMAIN g = Fields
  BY DEF LockState, Only, Fields
<1>3. t = [g EXCEPT !.opaque = o]
  BY DEF SetCurrent
<1> HIDE DEF g, o, t
<1>4. Only(s, t, {"anim", "opaque"}) /\ t.opaque = o
  BY <1>2, <1>3 DEF Only, Fields
<1> QED BY <1>1, <1>4 DEF t, o

LEMMA RemoveShieldsFacts ==
  ASSUME NEW s, LockState(s)
  PROVE  LET t == RemoveShields(s)
         IN  ~IsLocked(t) /\ t.early = FALSE /\ Only(s, t, Arranged \cup {"following", "target"})
<1> DEFINE d == DestroyShields(s, Monitors)
           t == RemoveShields(s)
<1>1. LockState(d)
  BY DestroyShieldsTypes
<1>2. t = [d EXCEPT !.shields = 0, !.lockInput = FALSE, !.following = FALSE,
                    !.isLocked = FALSE, !.target = FALSE, !.early = FALSE]
  BY DEF RemoveShields
<1> HIDE DEF d
<1>3. t.shields = 0 /\ t.early = FALSE
  BY <1>1, <1>2 DEF LockState, Fields
<1> QED BY <1>3, RemoveShieldsCall DEF IsLocked

LEMMA FadeAdvanceKept ==
  ASSUME NEW s, Good(s), Held(s), Shown(s), Covered(s), s.anim["fade"].running, NEW v \in {Partial, s.anim["fade"].to}
  PROVE  Kept(s, AnimAdvance(s, "fade", v))
<1> DEFINE now == s.anim["fade"]
           c == SetCurrent(s, "fade", v)
           d == [c EXCEPT !.anim["fade"].running = FALSE]
           e == SyncInhibitor(d)
           z == AnimAdvance(s, "fade", v)
<1>0. /\ LockState(s) /\ IsLocked(s) /\ s.primary \in ShieldsOf(s) /\ v \in Values
      /\ now.from \in Ends /\ now.to \in Ends /\ now.from # now.to
  BY FadeValues DEF Good, LockInv
<1>1. /\ LockState(c) /\ Only(s, c, {"anim", "opaque"}) /\ FadeIs(c, TRUE, now.from, now.to) /\ c.anim["fade"].val = v
      /\ c.opaque = IF v = Full THEN ShieldsOf(s) ELSE {}
  BY <1>0, FadeSetFacts DEF FadeIs
<1>2. z = IF v = now.to THEN OnFadeFinished(d) ELSE c
  BY <1>1 DEF AnimAdvance, AnimStop, Finished, FadeIs
<1> HIDE DEF c
<1>3. LockState(d) /\ Only(c, d, {"anim"}) /\ FadeIs(d, FALSE, now.from, now.to) /\ d.anim["fade"].val = v
  <2>1. LockState(d) /\ Only(c, d, {"anim"}) /\ FadeIs(d, FALSE, c.anim["fade"].from, c.anim["fade"].to)
        /\ d.anim["fade"].val = c.anim["fade"].val
    BY <1>1, FadeRunningFacts
  <2> HIDE DEF d
  <2> QED BY <1>1, <2>1 DEF FadeIs
<1> HIDE DEF d
<1>4. /\ c.shields = s.shields /\ c.primary = s.primary /\ c.prompt = s.prompt
      /\ c.early = s.early /\ c.synced = s.synced /\ c.inh = s.inh /\ c.bufferCleared = s.bufferCleared
      /\ c.sessionActive = s.sessionActive /\ c.lockOnSuspend = s.lockOnSuspend /\ c.useLegacy = s.useLegacy
  BY <1>1 DEF Only, Fields
<1>5. /\ d.shields = s.shields /\ d.primary = s.primary /\ d.prompt = s.prompt /\ d.opaque = c.opaque
      /\ d.early = s.early /\ d.synced = s.synced /\ d.inh = s.inh /\ d.bufferCleared = s.bufferCleared
      /\ d.sessionActive = s.sessionActive /\ d.lockOnSuspend = s.lockOnSuspend /\ d.useLegacy = s.useLegacy
  BY <1>3, <1>4 DEF Only, Fields
<1>6. /\ IsLocked(c) /\ IsLocked(d) /\ ShieldsOf(c) = ShieldsOf(s) /\ ShieldsOf(d) = ShieldsOf(s)
      /\ (MustLock(c) <=> MustLock(s)) /\ (MustLock(d) <=> MustLock(s))
      /\ (Leaving(c) <=> Leaving(s)) /\ ~Leaving(d)
  BY <1>0, <1>1, <1>3, <1>4, <1>5 DEF IsLocked, ShieldsOf, MustLock, Leaving, FadeIs, Backward
<1>7. CASE v # now.to
  <2>1. v = Partial /\ c.opaque = {} /\ ~FullyLocked(c)
    BY <1>1, <1>7 DEF FullyLocked
  <2>2. Shown(c)
    <3>1. c.anim["fade"].running /\ (Backward(c.anim["fade"]) <=> Backward(now))
      BY <1>1 DEF FadeIs, Backward
    <3>2. c.anim["fade"].val # Full
      BY <1>1, <2>1
    <3> QED BY <1>0, <1>4, <1>6, <2>1, <3>1, <3>2 DEF Shown
  <2>3. ~s.early /\ ~Leaving(s) => ~FullyLocked(s)
    BY <1>0, FadeDecides
  <2>4. Covered(c)
    BY <1>4, <1>6, <2>3 DEF Covered
  <2>5. Guarded(s) => Guarded(c)
    BY <1>4, <1>6, <2>3 DEF Guarded
  <2> QED BY <1>2, <1>7, <2>2, <2>4, <2>5 DEF Kept
<1>8. CASE v = now.to /\ ~Backward(now)
  <2>1. v = Full /\ d.opaque = ShieldsOf(s)
    BY <1>0, <1>1, <1>5, <1>8 DEF Backward
  <2>2. Shown(d) /\ FullyLocked(d)
    BY <1>0, <1>3, <1>5, <1>6, <2>1 DEF Shown, FadeIs, FullyLocked, ShieldsOf
  <2>3. Guarded(s) => Guarded(d)
    BY <1>5, <1>6, <2>2 DEF Guarded
  <2>4. LockState(e) /\ Shown(e) /\ Covered(e) /\ (Guarded(d) => Guarded(e))
    BY <1>3, <2>2, SyncInhibitorKept, SyncInhibitorStep DEF Step
  <2>5. z = e \/ z = [e EXCEPT !.postTimer = TRUE]
    <3>1. ~Backward(d.anim["fade"])
      BY <1>3, <1>8 DEF FadeIs, Backward
    <3> QED BY <1>2, <1>8, <3>1 DEF OnFadeFinished
  <2> HIDE DEF e, z
  <2>6. Kept(s, e)
    BY <2>3, <2>4 DEF Kept
  <2>7. Kept(e, [e EXCEPT !.postTimer = TRUE])
    <3>1. Only(e, [e EXCEPT !.postTimer = TRUE], {"postTimer"})
      BY <2>4 DEF LockState, Only, Fields
    <3> QED BY <2>4, <3>1, OnlySleepSame, SleepSameKept DEF SleepFields
  <2>8. Kept(s, [e EXCEPT !.postTimer = TRUE])
    BY <2>6, <2>7, KeptTransitive
  <2> QED BY <2>5, <2>6, <2>8 DEF z
<1>9. CASE v = now.to /\ Backward(now)
  <2>1. ~FullyLocked(d) /\ Leaving(s)
    BY <1>0, <1>1, <1>5, <1>9 DEF Backward, FullyLocked, Leaving
  <2>2. LockState(e) /\ Covered(e) /\ (MustLock(d) /\ ~FullyLocked(d) => e.inh.held \/ e.inh.calls > 0)
    BY <1>3, SyncInhibitorKept, SyncInhibitorStep DEF Step
  <2>3. z = RemoveShields(e)
    <3>1. Backward(d.anim["fade"])
      BY <1>3, <1>9 DEF FadeIs, Backward
    <3> QED BY <1>2, <1>9, <3>1 DEF OnFadeFinished
  <2>4. Only(d, e, {"inh", "synced"})
    BY <1>3, SyncInhibitorCall
  <2> HIDE DEF e, z
  <2>5. ~IsLocked(z) /\ z.early = FALSE /\ Only(e, z, Arranged \cup {"following", "target"})
    BY <2>2, <2>3, RemoveShieldsFacts
  <2>6. z.inh = e.inh /\ (MustLock(z) <=> MustLock(d))
    BY <2>4, <2>5 DEF Only, Arranged, Inputs, Fields, MustLock
  <2>7. Shown(z) /\ Covered(z)
    BY <2>1, <2>2, <2>5, <2>6 DEF Shown, Covered
  <2>8. ~Guarded(s)
    BY <2>1 DEF Guarded
  <2> QED BY <2>7, <2>8 DEF Kept, z
<1> QED BY <1>7, <1>8, <1>9

\* The fade-in stops: the inhibitor is decided upon.
LEMMA FadeStopFacts ==
  ASSUME NEW s, LockState(s), s.anim["fade"].running, ~Backward(s.anim["fade"])
  PROVE  LET t == AnimStop(s, "fade")
         IN  /\ LockState(t) /\ Only(s, t, {"anim", "inh", "synced", "postTimer"})
             /\ FadeIs(t, FALSE, s.anim["fade"].from, s.anim["fade"].to) /\ t.anim["fade"].val = s.anim["fade"].val
             /\ Covered(t)
             /\ Guarded(s) => Guarded(t)
             /\ s.inh.held /\ MustLock(s) /\ ~FullyLocked(s) => t.inh.held
<1> DEFINE now == s.anim["fade"]
           d == [s EXCEPT !.anim["fade"].running = FALSE]
           e == SyncInhibitor(d)
           p == [e EXCEPT !.postTimer = TRUE]
           t == AnimStop(s, "fade")
<1>1. LockState(d) /\ Only(s, d, {"anim"}) /\ FadeIs(d, FALSE, now.from, now.to) /\ d.anim["fade"].val = now.val
  BY FadeRunningFacts
<1>2. t = OnFadeFinished(d)
  BY DEF AnimStop, Finished
<1> HIDE DEF d, t
<1>3. t = e \/ t = p
  <2>1. ~Backward(d.anim["fade"])
    BY <1>1 DEF FadeIs, Backward
  <2> QED BY <1>2, <2>1 DEF OnFadeFinished
<1>4. /\ d.inh = s.inh /\ (IsLocked(d) <=> IsLocked(s)) /\ (FullyLocked(d) <=> FullyLocked(s)) /\ (MustLock(d) <=> MustLock(s))
      /\ ~Leaving(d) /\ d.bufferCleared = s.bufferCleared /\ d.early = s.early
  <2>1. /\ d.shields = s.shields /\ d.primary = s.primary /\ d.opaque = s.opaque
        /\ d.early = s.early /\ d.inh = s.inh /\ d.bufferCleared = s.bufferCleared
        /\ d.sessionActive = s.sessionActive /\ d.lockOnSuspend = s.lockOnSuspend /\ d.useLegacy = s.useLegacy
    BY <1>1 DEF Only, Fields
  <2> QED BY <1>1, <2>1 DEF IsLocked, FullyLocked, MustLock, Leaving, FadeIs
<1>5. /\ LockState(e) /\ Only(d, e, {"inh", "synced"}) /\ e.anim = d.anim
  BY <1>1, SyncInhibitorFacts
<1>6. /\ Covered(e) /\ (Guarded(d) => Guarded(e))
      /\ s.inh.held /\ MustLock(s) /\ ~FullyLocked(s) => e.inh.held
  BY <1>1, <1>4, SyncInhibitorKept
<1>7. Guarded(s) => Guarded(d)
  BY <1>4 DEF Guarded
<1> HIDE DEF e
<1>8. LockState(p) /\ Only(e, p, {"postTimer"})
  BY <1>5 DEF LockState, Fields, ShieldTypes, LockTypes, BlankTypes, SleepTypes, Only
<1> HIDE DEF p
<1>9. p.anim = e.anim /\ p.inh = e.inh
  BY <1>8 DEF Only, Fields
<1>10. Covered(p) /\ (Guarded(e) => Guarded(p))
  <2>1. /\ p.shields = e.shields /\ p.primary = e.primary /\ p.opaque = e.opaque /\ p.early = e.early
        /\ p.synced = e.synced /\ p.inh = e.inh /\ p.bufferCleared = e.bufferCleared /\ p.anim = e.anim
        /\ p.sessionActive = e.sessionActive /\ p.lockOnSuspend = e.lockOnSuspend /\ p.useLegacy = e.useLegacy
    BY <1>8 DEF Only, Fields
  <2>2. /\ IsLocked(p) <=> IsLocked(e)
        /\ FullyLocked(p) <=> FullyLocked(e)
        /\ MustLock(p) <=> MustLock(e)
        /\ Leaving(p) <=> Leaving(e)
    BY <2>1 DEF IsLocked, FullyLocked, MustLock, Leaving
  <2>3. Covered(p)
    BY <1>6, <2>1, <2>2 DEF Covered
  <2> QED BY <2>1, <2>2, <2>3 DEF Guarded
<1>11. Only(s, t, {"anim", "inh", "synced", "postTimer"})
  BY <1>1, <1>3, <1>5, <1>8 DEF Only
<1>12. t.anim = d.anim
  BY <1>3, <1>5, <1>9
<1>13. LockState(t) /\ Covered(t) /\ (Guarded(s) => Guarded(t)) /\ (s.inh.held /\ MustLock(s) /\ ~FullyLocked(s) => t.inh.held)
  BY <1>3, <1>5, <1>6, <1>7, <1>8, <1>9, <1>10
<1> QED BY <1>1, <1>11, <1>12, <1>13 DEF FadeIs, t

\* A prompted lock skips its fade-in: the shields are opaque at once.
LEMMA FadeSkipFacts ==
  ASSUME NEW s, LockState(s), FadeIs(s, TRUE, Clear, Full), s.anim["fade"].val = Clear, s.opaque = {},
         IsLocked(s), s.primary \in ShieldsOf(s), ~s.early
  PROVE  LET k == AnimSkip(s, "fade")
         IN  LockState(k) /\ Shown(k) /\ Covered(k) /\ (s.inh.held /\ MustLock(s) => Guarded(k))
<1> DEFINE p == AnimStop(s, "fade")
           u == [p EXCEPT !.anim["fade"].from = Full, !.anim["fade"].to = Full]
           c == SetCurrent(u, "fade", Full)
           r == [c EXCEPT !.anim["fade"].running = TRUE]
           w == AnimStop(r, "fade")
           z == [w EXCEPT !.anim["fade"].from = Clear]
           k == AnimSkip(s, "fade")
           Rest == {"anim", "inh", "synced", "postTimer", "opaque"}
<1>1. /\ LockState(p) /\ Only(s, p, Rest) /\ FadeIs(p, FALSE, Clear, Full) /\ p.anim["fade"].val = Clear
      /\ s.inh.held /\ MustLock(s) => p.inh.held
  <2>1. s.anim["fade"].running /\ ~Backward(s.anim["fade"]) /\ ~FullyLocked(s)
    BY DEF FadeIs, Backward, FullyLocked
  <2>2. /\ LockState(p) /\ Only(s, p, {"anim", "inh", "synced", "postTimer"})
        /\ FadeIs(p, FALSE, s.anim["fade"].from, s.anim["fade"].to) /\ p.anim["fade"].val = s.anim["fade"].val
        /\ s.inh.held /\ MustLock(s) => p.inh.held
    BY <2>1, FadeStopFacts
  <2> HIDE DEF p
  <2> QED BY <2>2 DEF FadeIs, Only
<1>2. k = [AnimStart(s, "fade", Full, Full) EXCEPT !.anim["fade"].from = Clear]
  BY DEF AnimSkip, AnimSetValue, FadeIs
<1>3. AnimStart(s, "fade", Full, Full)
        = IF u.anim["fade"].val # Full THEN AnimStop(AnimRun(u, "fade"), "fade") ELSE u
  BY DEF AnimStart
<1> HIDE DEF p, k
<1>4. LockState(u) /\ Only(p, u, {"anim"}) /\ FadeIs(u, FALSE, Full, Full) /\ u.anim["fade"].val = Clear
  <2>1. LockState(u) /\ FadeIs(u, p.anim["fade"].running, Full, Full)
    BY <1>1, FadeUpdate
  <2>2. Only(p, u, {"anim"})
    BY <1>1 DEF LockState, Only, Fields
  <2>3. u.anim["fade"].val = p.anim["fade"].val
    BY <1>1 DEF LockState, BlankTypes, Animators, Animation, Fields
  <2> HIDE DEF u
  <2> QED BY <1>1, <2>1, <2>2, <2>3 DEF FadeIs
<1> HIDE DEF u
<1>5. AnimRun(u, "fade") = r
  BY <1>4 DEF AnimRun, FadeIs
<1>6. AnimStart(s, "fade", Full, Full) = w
  <2>1. u.anim["fade"].val # Full
    BY <1>4
  <2> HIDE DEF r
  <2> QED BY <1>3, <1>5, <2>1
<1>7. /\ LockState(c) /\ Only(u, c, {"anim", "opaque"}) /\ FadeIs(c, FALSE, Full, Full) /\ c.anim["fade"].val = Full
      /\ c.opaque = ShieldsOf(u)
  BY <1>4, FadeSetFacts DEF FadeIs
<1> HIDE DEF c
<1>8. LockState(r) /\ Only(c, r, {"anim"}) /\ FadeIs(r, TRUE, Full, Full) /\ r.anim["fade"].val = Full
  <2>1. LockState(r) /\ Only(c, r, {"anim"}) /\ FadeIs(r, TRUE, c.anim["fade"].from, c.anim["fade"].to)
        /\ r.anim["fade"].val = c.anim["fade"].val
    BY <1>7, FadeRunningFacts
  <2> HIDE DEF r
  <2> QED BY <1>7, <2>1 DEF FadeIs
<1> HIDE DEF r
<1>9. s.inh.held /\ MustLock(s) => Guarded(r)
  <2>1. r.inh = p.inh /\ ~Leaving(r)
    BY <1>4, <1>7, <1>8 DEF Only, Fields, Leaving, FadeIs, Backward
  <2>2. MustLock(r) <=> MustLock(s)
    BY <1>1, <1>4, <1>7, <1>8 DEF Only, Fields, MustLock
  <2> QED BY <1>1, <2>1, <2>2 DEF Guarded
<1>10. /\ LockState(w) /\ Only(r, w, {"anim", "inh", "synced", "postTimer"}) /\ Covered(w) /\ (Guarded(r) => Guarded(w))
       /\ FadeIs(w, FALSE, Full, Full) /\ w.anim["fade"].val = Full
  <2>1. r.anim["fade"].running /\ ~Backward(r.anim["fade"])
    BY <1>8 DEF FadeIs, Backward
  <2>2. /\ LockState(w) /\ Only(r, w, {"anim", "inh", "synced", "postTimer"}) /\ Covered(w) /\ (Guarded(r) => Guarded(w))
        /\ FadeIs(w, FALSE, r.anim["fade"].from, r.anim["fade"].to) /\ w.anim["fade"].val = r.anim["fade"].val
    BY <1>8, <2>1, FadeStopFacts
  <2> HIDE DEF w
  <2> QED BY <1>8, <2>2 DEF FadeIs
<1> HIDE DEF w
<1>11. LockState(z) /\ Only(w, z, {"anim"}) /\ FadeIs(z, FALSE, Clear, Full) /\ z.anim["fade"].val = Full
  <2>1. LockState(z) /\ FadeIs(z, w.anim["fade"].running, Clear, w.anim["fade"].to)
    BY <1>10, FadeUpdate
  <2>2. Only(w, z, {"anim"})
    BY <1>10 DEF LockState, Only, Fields
  <2>3. z.anim["fade"].val = w.anim["fade"].val
    BY <1>10 DEF LockState, BlankTypes, Animators, Animation, Fields
  <2> HIDE DEF z
  <2> QED BY <1>10, <2>1, <2>2, <2>3 DEF FadeIs
<1> HIDE DEF z
<1>12. z = k
  BY <1>2, <1>6 DEF z
<1>13. /\ z.shields = s.shields /\ z.primary = s.primary /\ z.early = s.early /\ z.opaque = c.opaque /\ u.shields = s.shields
  BY <1>1, <1>4, <1>7, <1>8, <1>10, <1>11 DEF Only, Fields
<1>14. Shown(z)
  <2>1. z.opaque = ShieldsOf(z) /\ ~z.early
    BY <1>7, <1>13 DEF ShieldsOf
  <2> QED BY <1>11, <2>1 DEF Shown, FadeIs
<1>15. /\ z.shields = w.shields /\ z.primary = w.primary /\ z.opaque = w.opaque
       /\ z.early = w.early /\ z.synced = w.synced /\ z.inh = w.inh /\ z.bufferCleared = w.bufferCleared
       /\ z.sessionActive = w.sessionActive /\ z.lockOnSuspend = w.lockOnSuspend /\ z.useLegacy = w.useLegacy
  BY <1>11 DEF Only, Fields
<1>16. /\ IsLocked(z) <=> IsLocked(w)
       /\ FullyLocked(z) <=> FullyLocked(w)
       /\ MustLock(z) <=> MustLock(w)
       /\ ~Leaving(z) /\ ~Leaving(w)
  BY <1>10, <1>11, <1>15 DEF IsLocked, FullyLocked, MustLock, Leaving, FadeIs
<1>17. Covered(z) /\ (Guarded(w) => Guarded(z))
  BY <1>10, <1>15, <1>16 DEF Covered, Guarded
<1> QED BY <1>9, <1>10, <1>11, <1>12, <1>14, <1>17 DEF k

\* One more call of that kind after a call that kept what matters
LEMMA KeptThenSame ==
  ASSUME NEW s, NEW t, NEW u, Kept(s, t), SleepSame(t, u)
  PROVE  Kept(s, u)
<1>1. Kept(t, u)
  BY SleepSameKept DEF Kept
<1> QED BY <1>1, KeptTransitive

LEMMA ShieldsRaisedKept ==
  ASSUME NEW s, Good(s), Held(s), Shown(s), Covered(s), s.lockTimer
  PROVE  Kept(s, ShieldsRaised(RaiseShields(s)))
<1> DEFINE a == IF s.prompt THEN s ELSE HideBlankWindow(s)
           t == LockScreen(a)
           k == AnimSkip(t, "fade")
           h == HideBlankWindow(k)
           v == IF t.prompt THEN h ELSE t
           z == [v EXCEPT !.lockTimer = FALSE]
<1>0. LockState(s) /\ ~IsLocked(s) /\ ~s.early /\ ~FullyLocked(s) /\ ~s.anim["fade"].running /\ ~Leaving(s)
  BY DEF Good, LockInv, Shown, FullyLocked, Leaving
<1>1. Step(s, a) /\ BlankCall(s, a)
  BY <1>0, StepReflexive, BlankCallReflexive, HideBlankWindowStep, HideBlankWindowCall
<1> HIDE DEF a
<1>2. LockState(a) /\ ~a.anim["fade"].running /\ a.regrab \subseteq {a.primary} /\ SleepSame(s, a)
  BY <1>0, <1>1, BlankSleepSame DEF Step, Keeps, KeepsLock, BlankCall, Only, Blanks, Fields, Held
<1>3. /\ LockState(t) /\ FadeIs(t, TRUE, Clear, Full) /\ IsLocked(t) /\ t.primary \in ShieldsOf(t)
      /\ Only(a, t, Arranged \cup {"following", "target", "anim"})
      /\ t.anim["fade"].val = Clear /\ t.opaque = {} /\ ~t.early
  BY <1>2, LockScreenLemma, LockScreenFacts DEF Up, IsLocked, ShieldsOf
<1> HIDE DEF t
<1>4. /\ t.prompt = s.prompt /\ t.synced = s.synced /\ t.inh = s.inh /\ (MustLock(t) <=> MustLock(s))
  <2>1. /\ t.prompt = a.prompt /\ t.synced = a.synced /\ t.inh = a.inh
        /\ t.sessionActive = a.sessionActive /\ t.lockOnSuspend = a.lockOnSuspend /\ t.useLegacy = a.useLegacy
    BY <1>3 DEF Only, Arranged, Inputs, Fields
  <2> QED BY <1>2, <2>1, SleepSameFacts DEF MustLock
<1>5. CASE t.prompt
  <2>1. LockState(k) /\ Shown(k) /\ Covered(k) /\ (t.inh.held /\ MustLock(t) => Guarded(k))
    BY <1>3, FadeSkipFacts
  <2> HIDE DEF k
  <2>2. Kept(s, k)
    BY <1>0, <1>4, <2>1 DEF Kept, Guarded
  <2>3. LockState(h) /\ SleepSame(k, h)
    BY <2>1, HideBlankWindowStep, HideBlankWindowCall, BlankSleepSame DEF Step
  <2> HIDE DEF h
  <2>4. SleepSame(h, z)
    <3>1. Only(h, z, {"lockTimer"})
      BY <1>5, <2>3 DEF LockState, Only, Fields
    <3> QED BY <3>1, OnlySleepSame DEF SleepFields
  <2> HIDE DEF z
  <2>5. Kept(s, z)
    BY <2>2, <2>3, <2>4, KeptThenSame
  <2> QED BY <2>5 DEF ShieldsRaised, RaiseShields, z, v, h, k, t, a
<1>6. CASE ~t.prompt
  <2>1. Shown(t)
    BY <1>3, <1>6 DEF Shown, FadeIs, Backward
  <2>2. Kept(s, t)
    <3>1. Covered(t)
      BY <1>0, <1>4 DEF Covered
    <3>2. ~Leaving(t)
      BY <1>3 DEF Leaving, FadeIs, Backward
    <3> QED BY <1>0, <1>4, <2>1, <3>1, <3>2 DEF Kept, Guarded
  <2>3. SleepSame(t, z)
    <3>1. Only(t, z, {"lockTimer"})
      BY <1>3, <1>6 DEF LockState, Only, Fields
    <3> QED BY <3>1, OnlySleepSame DEF SleepFields
  <2> HIDE DEF z
  <2>4. Kept(s, z)
    BY <2>2, <2>3, KeptThenSame
  <2> QED BY <2>4 DEF ShieldsRaised, RaiseShields, z, v, h, k, t, a
<1> QED BY <1>5, <1>6

\* A request to lock does nothing to shields that are up: a prompt that comes
\* while an unprompted lock fades in does not make it a prompted one.
LEMMA RequestLockKept ==
  ASSUME NEW s, Good(s), Shown(s), Covered(s), NEW prompt \in BOOLEAN
  PROVE  Kept(s, RequestLock(s, prompt))
<1> DEFINE shown   == EnsureBlankWindow(s)
           grabbed == BlankWindowGrabEnable(shown, TRUE)
           blanked == [grabbed EXCEPT !.blankOpacity = Full]
           t       == IF prompt THEN blanked ELSE s
           u       == [t EXCEPT !.prompt = prompt, !.lockTimer = TRUE]
<1>1. Step(s, shown) /\ BlankCall(s, shown)
  BY EnsureBlankWindowStep, EnsureBlankWindowCall DEF Good
<1> HIDE DEF shown
<1>2. Step(s, grabbed) /\ BlankCall(s, grabbed)
  BY <1>1, BlankWindowGrabEnableStep, BlankWindowGrabEnableCall, StepTransitive, BlankCallTransitive DEF Step
<1> HIDE DEF grabbed
<1>3. Step(grabbed, blanked) /\ BlankCall(grabbed, blanked)
  <2>1. Step(grabbed, blanked)
    BY <1>2 DEF Step, Keeps, KeepsLock, LockState, Fields, ShieldTypes, LockTypes, BlankTypes, SleepTypes
  <2> QED BY <1>2, <2>1, BlankFieldsCall DEF Step
<1> HIDE DEF blanked
<1>4. LockState(t) /\ SleepSame(s, t)
  <2>1. Step(s, t) /\ BlankCall(s, t)
    BY <1>2, <1>3, StepTransitive, BlankCallTransitive, StepReflexive, BlankCallReflexive DEF Good
  <2> HIDE DEF t
  <2> QED BY <2>1, BlankSleepSame DEF Step
<1> HIDE DEF t
<1>5. ASSUME ~IsLocked(s) PROVE Kept(s, u)
  <2>1. Only(t, u, {"prompt", "lockTimer"})
    BY <1>4 DEF LockState, Only, Fields
  <2> HIDE DEF u
  <2>2. /\ u.shields = t.shields /\ u.primary = t.primary /\ u.opaque = t.opaque /\ u.anim = t.anim
        /\ u.early = t.early /\ u.synced = t.synced /\ u.inh = t.inh /\ u.bufferCleared = t.bufferCleared
        /\ u.sessionActive = t.sessionActive /\ u.lockOnSuspend = t.lockOnSuspend /\ u.useLegacy = t.useLegacy
    BY <2>1 DEF Only, Fields
  <2>3. Kept(s, t)
    BY <1>4, SleepSameKept
  <2>4. ~IsLocked(t)
    BY <1>4, <1>5, SleepSameFacts DEF IsLocked
  <2>5. /\ ~IsLocked(u)
        /\ FullyLocked(u) <=> FullyLocked(t)
        /\ MustLock(u) <=> MustLock(t)
        /\ Leaving(u) <=> Leaving(t)
    BY <2>2, <2>4 DEF IsLocked, FullyLocked, MustLock, Leaving
  <2>6. Shown(u)
    BY <2>2, <2>3, <2>4, <2>5 DEF Kept, Shown
  <2>7. Covered(u) /\ (Guarded(t) => Guarded(u))
    BY <2>2, <2>3, <2>5 DEF Kept, Covered, Guarded
  <2> QED BY <2>3, <2>6, <2>7 DEF Kept
<1>6. Kept(s, s)
  BY KeptReflexive
<1>7. Kept(s, OnScreenSaverActivationRequest(s, TRUE))
  <2>1. Only(s, OnScreenSaverActivationRequest(s, TRUE), {"saverTimer"})
    BY DEF OnScreenSaverActivationRequest, Good, LockState, Only, Fields
  <2> QED BY <2>1, OnlySleepSame, SleepSameKept DEF SleepFields
<1>8. Kept(s, OnLockRequested(s, prompt))
  BY <1>5, <1>6 DEF OnLockRequested, u, t, blanked, grabbed, shown
<1> QED BY <1>7, <1>8 DEF RequestLock

LEMMA OnUnlockRequestedShown ==
  ASSUME NEW s, Good(s), Shown(s), Covered(s)
  PROVE  Shown(OnUnlockRequested(s)) /\ Covered(OnUnlockRequested(s))
<1> DEFINE t == [s EXCEPT !.lockTimer = FALSE, !.postTimer = FALSE]
           u == HideBlankWindow(t)
           w == UnGrab(u, ShieldsOf(u))
           z == AnimStartOrReverse(w, "fade", Full, Clear)
<1>1. LockState(t) /\ Only(s, t, {"lockTimer", "postTimer"})
  BY DEF Good, LockState, Fields, ShieldTypes, LockTypes, BlankTypes, SleepTypes, Only
<1> HIDE DEF t
<1>2. LockState(u) /\ Kept(s, u) /\ u.anim["fade"] = s.anim["fade"]
  <2>1. Step(t, u) /\ BlankCall(t, u)
    BY <1>1, HideBlankWindowStep, HideBlankWindowCall
  <2> HIDE DEF u
  <2>2. SleepSame(s, t) /\ SleepSame(t, u) /\ LockState(u)
    BY <1>1, <2>1, OnlySleepSame, BlankSleepSame DEF SleepFields, Step
  <2> QED BY <2>2, SleepSameKept, KeptThenSame, SleepSameFacts
<1> HIDE DEF u
<1>3. CASE IsLocked(u)
  <2>1. Step(u, w)
    BY <1>2, UnGrabStep
  <2>2. Only(u, w, {"grabs"})
    BY <1>2 DEF LockState, UnGrab, Only, Fields
  <2> HIDE DEF w
  <2>3. LockState(w) /\ (w.anim["fade"].running => w.anim["fade"].from # w.anim["fade"].to)
    BY <1>2, <2>1 DEF Good, LockInv, Step, Keeps
  <2>4. KeepsLock(w, z) /\ FadeIs(z, TRUE, Full, Clear)
    <3>1. Clear \in Ends /\ Full \in Ends /\ Full # Clear
      OBVIOUS
    <3> HIDE DEF Clear, Full, Ends
    <3> QED BY <2>3, <3>1, FadeStartOrReverse, Zenon
  <2> HIDE DEF z
  <2>5. IsLocked(z) /\ Leaving(z)
    BY <1>3, <2>1, <2>4 DEF Step, Keeps, KeepsLock, IsLocked, FadeIs, Leaving, Backward
  <2>6. Shown(z) /\ Covered(z)
    BY <2>5 DEF Shown, Covered, Leaving
  <2> QED BY <1>3, <2>6 DEF OnUnlockRequested, HideShields, z, w, u, t
<1>4. CASE ~IsLocked(u)
  BY <1>2, <1>4 DEF Kept, OnUnlockRequested, HideShields, u, t
<1> QED BY <1>3, <1>4

\* The inhibitor and the session, apart from the shields
LEMMA InhibitorKept ==
  ASSUME NEW s, NEW t, Shown(s), Only(s, t, {"inh", "synced", "sessionActive", "bufferCleared", "paintInhibited"}),
         MustLock(s) => MustLock(t), s.inh.held => t.inh.held, s.bufferCleared => t.bufferCleared,
         ~t.synced \/ t.inh.held
  PROVE  Kept(s, t)
<1>1. /\ t.shields = s.shields /\ t.primary = s.primary /\ t.prompt = s.prompt /\ t.opaque = s.opaque
      /\ t.early = s.early /\ t.anim = s.anim
  BY DEF Only, Fields
<1>2. /\ IsLocked(t) <=> IsLocked(s)
      /\ ShieldsOf(t) = ShieldsOf(s)
      /\ FullyLocked(t) <=> FullyLocked(s)
      /\ Leaving(t) <=> Leaving(s)
  BY <1>1 DEF IsLocked, ShieldsOf, FullyLocked, Leaving
<1>3. Shown(t)
  BY <1>1, <1>2 DEF Shown
<1>4. Covered(t)
  BY DEF Covered
<1>5. Guarded(s) => Guarded(t)
  BY <1>1, <1>2 DEF Guarded
<1> QED BY <1>3, <1>4, <1>5 DEF Kept

LEMMA DBusKept ==
  ASSUME LockState(ls), Shown(ls), Covered(ls), DBus
  PROVE  Kept(ls, ls')
<1>1. CASE LoginConnected
  <2>1. ls' = SyncInhibitor(ls)
    BY <1>1 DEF LoginConnected
  <2> QED BY <2>1, SyncInhibitorKept DEF Kept
<1>2. CASE SessionProxyReady
  <2>1. Only(ls, ls', {"sessionActive", "synced"}) /\ ls'.sessionActive = TRUE /\ ls'.synced = FALSE
    BY <1>2 DEF SessionProxyReady, LockState, Only, Fields
  <2>2. ls'.inh = ls.inh /\ ls'.bufferCleared = ls.bufferCleared /\ ls'.lockOnSuspend = ls.lockOnSuspend /\ ls'.useLegacy = ls.useLegacy
    BY <2>1 DEF Only, Fields
  <2>3. Only(ls, ls', {"inh", "synced", "sessionActive", "bufferCleared", "paintInhibited"})
    BY <2>1 DEF Only
  <2> QED BY <2>1, <2>2, <2>3, InhibitorKept DEF MustLock
<1>3. CASE InhibitReplied
  <2>1. Only(ls, ls', {"inh"}) /\ ls'.inh = InhibitReply(ls.inh)
    BY <1>3 DEF InhibitReplied, Internal, Runs, LockState, Only, Fields
  <2>2. /\ ls'.sessionActive = ls.sessionActive /\ ls'.lockOnSuspend = ls.lockOnSuspend /\ ls'.useLegacy = ls.useLegacy
        /\ ls'.bufferCleared = ls.bufferCleared /\ ls'.inh.held
    BY <2>1 DEF Only, Fields, InhibitReply
  <2>3. Only(ls, ls', {"inh", "synced", "sessionActive", "bufferCleared", "paintInhibited"})
    BY <2>1 DEF Only
  <2> QED BY <2>2, <2>3, InhibitorKept DEF MustLock
<1>4. CASE InhibitRejected
  <2>1. Only(ls, ls', {"inh", "synced"}) /\ ls'.inh = InhibitFailed(ls.inh) /\ ls'.synced = FALSE
    BY <1>4 DEF InhibitRejected, Internal, Runs, LockState, Only, Fields
  <2>2. /\ ls'.sessionActive = ls.sessionActive /\ ls'.lockOnSuspend = ls.lockOnSuspend /\ ls'.useLegacy = ls.useLegacy
        /\ ls'.bufferCleared = ls.bufferCleared
    BY <2>1 DEF Only, Fields
  <2>3. ls'.inh.held = ls.inh.held
    BY <2>1 DEF InhibitFailed, LockState, SleepTypes, InhibitorType
  <2>4. Only(ls, ls', {"inh", "synced", "sessionActive", "bufferCleared", "paintInhibited"})
    BY <2>1 DEF Only
  <2> QED BY <2>1, <2>2, <2>3, <2>4, InhibitorKept DEF MustLock
<1> QED BY <1>1, <1>2, <1>3, <1>4 DEF DBus

LEMMA PolicyShown ==
  ASSUME LockState(ls), Shown(ls), Policy
  PROVE  Shown(ls') /\ Covered(ls')
<1> DEFINE a == [ls EXCEPT !.sessionActive = ~@]
           b == [ls EXCEPT !.lockOnSuspend = ~@]
           c == [ls EXCEPT !.useLegacy = ~@]
           F == {"sessionActive", "lockOnSuspend", "useLegacy"}
<1>1. /\ LockState(a) /\ LockState(b) /\ LockState(c)
      /\ Only(ls, a, F) /\ Only(ls, b, F) /\ Only(ls, c, F)
  BY PolicyFields
<1> HIDE DEF a, b, c
<1>2. ASSUME NEW t, LockState(t), Only(ls, t, F)
      PROVE  LockState(SyncInhibitor(t)) /\ Shown(SyncInhibitor(t)) /\ Covered(SyncInhibitor(t))
  <2>1. /\ t.shields = ls.shields /\ t.prompt = ls.prompt /\ t.opaque = ls.opaque
        /\ t.early = ls.early /\ t.anim = ls.anim
    BY <1>2 DEF Only, Fields
  <2>2. (IsLocked(t) <=> IsLocked(ls)) /\ ShieldsOf(t) = ShieldsOf(ls)
    BY <2>1 DEF IsLocked, ShieldsOf
  <2>3. Shown(t)
    BY <2>1, <2>2 DEF Shown
  <2> QED BY <1>2, <2>3, SyncInhibitorKept, SyncInhibitorStep DEF Step
<1>3. ASSUME NEW t, LockState(t), Shown(t), Covered(t)
      PROVE  Kept(t, OnScreenSaverActivationRequest(t, FALSE))
  <2>1. Only(t, OnScreenSaverActivationRequest(t, FALSE), {"saverTimer"})
    BY <1>3 DEF OnScreenSaverActivationRequest, LockState, Only, Fields
  <2> QED BY <1>3, <2>1, OnlySleepSame, SleepSameKept DEF SleepFields
<1>4. CASE SessionActiveChanged
  <2>1. ls' = OnScreenSaverActivationRequest(SyncInhibitor(a), FALSE) \/ ls' = SyncInhibitor(a)
    BY <1>4 DEF SessionActiveChanged, Runs, a
  <2> QED BY <1>1, <1>2, <1>3, <2>1 DEF Kept
<1>5. CASE LockOnSuspendChanged
  BY <1>1, <1>2, <1>5 DEF LockOnSuspendChanged, Runs, b
<1>6. CASE UseLegacyChanged
  BY <1>1, <1>2, <1>6 DEF UseLegacyChanged, Runs, c
<1> QED BY <1>4, <1>5, <1>6 DEF Policy

LEMMA PresenceKept ==
  ASSUME NEW s, LockState(s), Shown(s), Covered(s), NEW b \in BOOLEAN
  PROVE  /\ Kept(s, OnBlankWindowInputEvent(s))
         /\ Kept(s, OnPresenceStatusChanged(s, b))
         /\ Kept(s, OnScreenSaverActivationRequest(s, b))
         /\ Kept(s, HideBlankWindow(s))
         /\ Kept(s, ScreenSaverTimeout(s))
         /\ Kept(s, ResetPostLockScreenSaver(s))
  BY PresenceStep, PresenceCall, HideBlankWindowStep, HideBlankWindowCall, ScreenSaverTimeoutStep, ScreenSaverTimeoutCall,
     ResetPostLockScreenSaverStep, ResetPostLockScreenSaverCall, BlankSleepSame, SleepSameKept

\* What an action other than those of the suspend protocol does
SleepStep == Shown(ls') /\ Covered(ls') /\ (guarded' => guarded) /\ (guarded' /\ Guarded(ls) => Guarded(ls'))

LEMMA RequestsSleep ==
  ASSUME Good(ls), Shown(ls), Covered(ls), Requests
  PROVE  SleepStep
<1>0. LockState(ls)
  BY DEF Good
<1>1. CASE Lock \/ Prompt
  <2>1. PICK prompt \in BOOLEAN : ls' = RequestLock(ls, prompt) /\ guarded' = guarded
    BY <1>1 DEF Lock, Prompt, Internal, Runs
  <2> QED BY <2>1, RequestLockKept DEF Kept, SleepStep
<1>2. CASE Unlock
  BY <1>2, OnUnlockRequestedShown DEF Unlock, Runs, SleepStep
<1>3. CASE PresenceChanged \/ SaverRequested
  <2>1. PICK b \in BOOLEAN : /\ ls' = OnPresenceStatusChanged(ls, b) \/ ls' = OnScreenSaverActivationRequest(ls, b)
                             /\ guarded' = guarded
    BY <1>3 DEF PresenceChanged, SaverRequested, Internal, Runs
  <2> QED BY <1>0, <2>1, PresenceKept DEF Kept, SleepStep
<1>4. CASE SimulateActivity
  <2>1. ls' = HideBlankWindow(ls) /\ guarded' = guarded
    BY <1>4 DEF SimulateActivity, Internal, Runs
  <2> QED BY <1>0, <2>1, PresenceKept DEF Kept, SleepStep
<1> QED BY <1>1, <1>2, <1>3, <1>4 DEF Requests

LEMMA TimersSleep ==
  ASSUME Good(ls), Held(ls), Shown(ls), Covered(ls), Timers
  PROVE  SleepStep
<1>0. LockState(ls)
  BY DEF Good
<1>1. CASE LockRetries \/ SaverTimerFires
  <2>1. (ls' = HideBlankWindow(ls) \/ ls' = ScreenSaverTimeout(ls)) /\ guarded' = guarded
    BY <1>1 DEF LockRetries, SaverTimerFires, Internal, Runs
  <2> QED BY <1>0, <2>1, PresenceKept DEF Kept, SleepStep
<1>2. CASE LockHappens
  <2>1. ls.lockTimer /\ ls' = ShieldsRaised(RaiseShields(ls)) /\ guarded' = guarded
    BY <1>2 DEF LockHappens, Internal, Runs
  <2> QED BY <2>1, ShieldsRaisedKept DEF Kept, SleepStep
<1>3. CASE DelayTimerFires
  <2> DEFINE t == [ls EXCEPT !.delayTimer = FALSE]
  <2>1. Good(t)
    BY <1>0, TimerFieldsStep, GoodStep
  <2>2. Only(ls, t, {"delayTimer"})
    BY <1>0 DEF LockState, Only, Fields
  <2>3. ls' = RequestLock(t, TRUE) /\ guarded' = guarded
    BY <1>3 DEF DelayTimerFires, Internal, Runs
  <2> HIDE DEF t
  <2>4. Kept(ls, t)
    BY <2>2, OnlySleepSame, SleepSameKept DEF SleepFields
  <2>5. Kept(t, ls')
    BY <2>1, <2>3, <2>4, RequestLockKept DEF Kept
  <2> QED BY <2>3, <2>4, <2>5, KeptTransitive DEF Kept, SleepStep
<1>4. CASE PostTimerFires
  <2> DEFINE t == [ls EXCEPT !.postTimer = FALSE]
  <2>1. LockState(t)
    BY <1>0, TimerFieldsStep DEF Step
  <2>2. Only(ls, t, {"postTimer"})
    BY <1>0 DEF LockState, Only, Fields
  <2>3. ls' = OnPresenceStatusChanged(t, TRUE) /\ guarded' = guarded
    BY <1>4 DEF PostTimerFires, Internal, Runs
  <2> HIDE DEF t
  <2>4. Kept(ls, t)
    BY <2>2, OnlySleepSame, SleepSameKept DEF SleepFields
  <2>5. Kept(t, ls')
    BY <2>1, <2>3, <2>4, PresenceKept DEF Kept
  <2> QED BY <2>3, <2>4, <2>5, KeptTransitive DEF Kept, SleepStep
<1>5. CASE GrabTimerFires
  <2>1. PICK i \in ls.failTimer :
          LET t == [ls EXCEPT !.failTimer = @ \ {i}]
          IN  \/ ls' = OnUnlockRequested(t) /\ guarded' = FALSE
              \/ ls' = t /\ guarded' = guarded
    BY <1>5 DEF GrabTimerFires, Internal, Runs
  <2> DEFINE t == [ls EXCEPT !.failTimer = @ \ {i}]
  <2>2. \/ ls' = OnUnlockRequested(t) /\ guarded' = FALSE
        \/ ls' = t /\ guarded' = guarded
    BY <2>1
  <2>3. Step(ls, t)
    BY <1>0 DEF Step, Keeps, KeepsLock, LockState, Fields, ShieldTypes, LockTypes, BlankTypes, SleepTypes
  <2>4. Only(ls, t, {"failTimer"})
    BY <1>0 DEF LockState, Only, Fields
  <2> HIDE DEF t
  <2>5. Good(t) /\ Kept(ls, t)
    BY <2>3, <2>4, GoodStep, OnlySleepSame, SleepSameKept DEF SleepFields
  <2> QED BY <2>2, <2>5, OnUnlockRequestedShown DEF Kept, SleepStep
<1> QED BY <1>1, <1>2, <1>3, <1>4, <1>5 DEF Timers

LEMMA PaintingSleep ==
  ASSUME Good(ls), Held(ls), Shown(ls), Covered(ls), Painting
  PROVE  SleepStep
<1>0. LockState(ls)
  BY DEF Good
<1>1. CASE FadeTick
  <2>1. PICK v \in {Partial, ls.anim["fade"].to} :
          ls.anim["fade"].running /\ ls' = AnimAdvance(ls, "fade", v) /\ guarded' = guarded
    BY <1>1 DEF FadeTick, Tick, Internal, Runs
  <2> QED BY <2>1, FadeAdvanceKept DEF Kept, SleepStep
<1>2. CASE BlankTick
  <2>1. PICK v \in {Partial, ls.anim["blank"].to} : ls' = AnimAdvance(ls, "blank", v) /\ guarded' = guarded
    BY <1>2 DEF BlankTick, Tick, Internal, Runs
  <2>2. v \in Values
    BY <1>0, AnimTypes DEF Animators
  <2> QED BY <1>0, <2>1, <2>2, BlankAdvanceStep, BlankAdvanceCall, BlankSleepSame, SleepSameKept DEF Kept, SleepStep
<1>3. CASE DonePaint
  <2> DEFINE t == [ls EXCEPT !.bufferCleared = TRUE]
  <2>1. LockState(t)
    BY <1>0 DEF LockState, Fields, ShieldTypes, LockTypes, BlankTypes, SleepTypes
  <2>2. Only(ls, t, {"bufferCleared"}) /\ t.bufferCleared
    BY <1>0 DEF LockState, Only, Fields
  <2>3. (ls' = ls \/ ls' = SyncInhibitor(t)) /\ guarded' = guarded
    BY <1>3 DEF DonePaint, MarkBufferHasCleared, Internal, Runs
  <2> HIDE DEF t
  <2>4. Shown(t) /\ (Guarded(ls) => Guarded(t))
    <3>1. /\ t.shields = ls.shields /\ t.primary = ls.primary /\ t.prompt = ls.prompt /\ t.opaque = ls.opaque
          /\ t.early = ls.early /\ t.anim = ls.anim /\ t.inh = ls.inh
          /\ t.sessionActive = ls.sessionActive /\ t.lockOnSuspend = ls.lockOnSuspend /\ t.useLegacy = ls.useLegacy
      BY <2>2 DEF Only, Fields
    <3>2. /\ IsLocked(t) <=> IsLocked(ls)
          /\ ShieldsOf(t) = ShieldsOf(ls)
          /\ FullyLocked(t) <=> FullyLocked(ls)
          /\ MustLock(t) <=> MustLock(ls)
          /\ Leaving(t) <=> Leaving(ls)
      BY <3>1 DEF IsLocked, ShieldsOf, FullyLocked, MustLock, Leaving
    <3>3. Shown(t)
      BY <3>1, <3>2 DEF Shown
    <3> QED BY <2>2, <3>1, <3>2, <3>3 DEF Guarded
  <2> QED BY <2>1, <2>3, <2>4, SyncInhibitorKept DEF SleepStep
<1> QED BY <1>1, <1>2, <1>3 DEF Painting

LEMMA GrabbingSleep ==
  ASSUME LockState(ls), Shown(ls), Covered(ls), Grabbing
  PROVE  SleepStep
<1>1. CASE ForeignGrabs \/ ForeignUngrabs
  <2>1. PICK g \in {"none", "keyboard", "pointer"} : ls' = [ls EXCEPT !.foreignGrab = g] /\ guarded' = guarded
    BY <1>1 DEF ForeignGrabs, ForeignUngrabs, Internal, Runs
  <2>2. Only(ls, ls', {"foreignGrab"})
    BY <2>1 DEF LockState, Only, Fields
  <2> QED BY <2>1, <2>2, OnlySleepSame, SleepSameKept DEF SleepFields, Kept, SleepStep
<1>2. CASE UngrabNotified
  <2>1. PICK i \in ls.regrab : ls' = GrabScreen(ls, i, FALSE) /\ guarded' = guarded
    BY <1>2 DEF UngrabNotified, ScreenUngrabbed, Internal, Runs
  <2>2. Only(ls, ls', Inputs)
    BY <2>1, GrabScreenCall DEF ShieldCall
  <2> QED BY <2>1, <2>2, InputsSleepSame, SleepSameKept DEF Kept, SleepStep
<1> QED BY <1>1, <1>2 DEF Grabbing

\* The primary shield moves: none is added or lost.
LEMMA MovePrimaryKept ==
  ASSUME NEW s, Good(s), Held(s), Shown(s), Covered(s), IsLocked(s), NEW i \in ShieldsOf(s)
  PROVE  Kept(s, MovePrimary(s, i)) /\ LockState(MovePrimary(s, i))
<1> DEFINE t == MovePrimary(s, i)
<1>0. LockState(s) /\ s.primary \in ShieldsOf(s) /\ i \in Monitors
  BY MaxMonitorsAssumption DEF Good, LockInv, ShieldsOf, LockState, ShieldTypes
<1>1. CASE i = s.primary
  BY <1>0, <1>1, KeptReflexive DEF MovePrimary
<1>2. CASE i # s.primary
  <2>1. LockState(t) /\ t.shields = s.shields /\ t.primary = i
    BY <1>0, <1>2, MovePrimaryLemma DEF Rearranges
  <2>2. Only(s, t, Inputs \cup {"primary", "conn", "lockInput"})
    BY <1>0, <1>2, MovePrimaryChosen DEF Held
  <2> HIDE DEF t
  <2>3. /\ Only(s, t, Arranged) /\ t.opaque = s.opaque /\ t.early = s.early /\ t.anim = s.anim
        /\ t.prompt = s.prompt
    BY <2>2 DEF Only, Arranged, Inputs, Fields
  <2>4. ShieldsOf(t) = ShieldsOf(s) /\ IsLocked(t)
    BY <2>1 DEF ShieldsOf, IsLocked
  <2>5. /\ ~t.anim["fade"].running => t.opaque = ShieldsOf(t)
        /\ t.anim["fade"].running /\ ~Backward(t.anim["fade"]) => t.early \/ t.opaque = {}
    BY <2>3, <2>4 DEF Shown
  <2>6. Kept(s, t)
    BY <1>0, <2>1, <2>3, <2>4, <2>5, ArrangedKept
  <2> QED BY <2>1, <2>6 DEF t
<1> QED BY <1>1, <1>2

\* Monitors come and go: shields at rest are opaque, the new ones included.
LEMMA EnsureShieldsKept ==
  ASSUME NEW s, Good(s), Held(s), Shown(s), Covered(s), IsLocked(s)
  PROVE  Kept(s, EnsureShields(s)) /\ LockState(EnsureShields(s))
<1> DEFINE t == EnsureShields(s)
           added == (s.shields + 1)..s.monitors
           v == s.anim["fade"].val
<1>0. /\ LockState(s) /\ s.primary \in ShieldsOf(s) /\ s.shields \in 0..MaxMonitors
      /\ s.monitors \in Monitors /\ s.mouse \in 1..s.monitors /\ s.opaque \subseteq Monitors
  BY DEF Good, LockInv, LockState, ShieldTypes, LockTypes
<1>1. LockState(t) /\ t.shields = s.monitors /\ t.primary = s.mouse /\ t.anim["fade"] = s.anim["fade"]
  BY <1>0, EnsureShieldsLemma DEF Rearranges
<1>2. /\ Only(s, t, Arranged)
      /\ t.opaque = (s.opaque \ ((s.monitors + 1)..MaxMonitors)) \cup (IF v # Partial THEN added ELSE {})
      /\ t.early = (s.early \/ (v = Clear /\ added # {}))
  BY <1>0, EnsureShieldsChosen DEF Held, Chosen
<1> HIDE DEF t
<1>3. IsLocked(t) /\ t.primary \in ShieldsOf(t) /\ ShieldsOf(t) = 1..s.monitors
  BY <1>0, <1>1 DEF IsLocked, ShieldsOf
<1>4. ASSUME ~t.anim["fade"].running PROVE t.opaque = ShieldsOf(t)
  <2>1. v = Full /\ s.opaque = 1..s.shields
    BY <1>1, <1>4 DEF Shown, ShieldsOf
  <2>2. t.opaque = ((1..s.shields) \ ((s.monitors + 1)..MaxMonitors)) \cup ((s.shields + 1)..s.monitors)
    BY <1>2, <2>1
  <2> QED BY <1>0, <1>3, <2>2, MaxMonitorsAssumption
<1>5. ASSUME t.anim["fade"].running, ~Backward(t.anim["fade"]) PROVE t.early \/ t.opaque = {}
  <2>1. v # Full /\ (s.early \/ s.opaque = {})
    BY <1>1, <1>5 DEF Shown
  <2>2. v \in Values
    BY <1>0, FadeValues
  <2> QED BY <1>2, <2>1, <2>2
<1>6. s.early => t.early
  BY <1>2
<1>7. Kept(s, t)
  BY <1>0, <1>2, <1>3, <1>4, <1>5, <1>6, ArrangedKept
<1> QED BY <1>1, <1>7 DEF t

LEMMA UserInputSleep ==
  ASSUME Good(ls), Held(ls), Shown(ls), Covered(ls), UserInput
  PROVE  SleepStep
<1>0. LockState(ls)
  BY DEF Good
<1>1. CASE LockScreenInput
  <2>1. PICK i \in ShieldsOf(ls) :
          /\ ls' = ResetPostLockScreenSaver(MovePrimary(ls, i)) \/ ls' = ResetPostLockScreenSaver(ls)
          /\ guarded' = guarded
    BY <1>1 DEF LockScreenInput, Internal, Runs
  <2>2. IsLocked(ls)
    BY <1>1 DEF LockScreenInput, Good, LockInv
  <2> DEFINE m == MovePrimary(ls, i)
  <2>3. Kept(ls, m) /\ LockState(m)
    BY <2>2, MovePrimaryKept
  <2>4. ls' = ResetPostLockScreenSaver(m) \/ ls' = ResetPostLockScreenSaver(ls)
    BY <2>1
  <2> HIDE DEF m
  <2>5. Kept(ls, ResetPostLockScreenSaver(ls)) /\ Kept(m, ResetPostLockScreenSaver(m))
    BY <1>0, <2>3, PresenceKept DEF Kept
  <2>6. Kept(ls, ls')
    BY <2>3, <2>4, <2>5, KeptTransitive
  <2> QED BY <2>1, <2>6 DEF Kept, SleepStep
<1>2. CASE BlankWindowInput
  <2>1. ls' = OnBlankWindowInputEvent(ls) /\ guarded' = guarded
    BY <1>2 DEF BlankWindowInput, Internal, Runs
  <2> QED BY <1>0, <2>1, PresenceKept DEF Kept, SleepStep
<1>3. CASE MonitorsChanged
  <2>0. PICK n \in Monitors : \E m \in 1..n :
          LET t == [ls EXCEPT !.monitors = n, !.mouse = m]
          IN  ls' = (IF ls.following THEN EnsureBlankWindow(EnsureShields(t)) ELSE t) /\ guarded' = guarded
    BY <1>3 DEF MonitorsChanged, Internal, Runs
  <2>1. PICK m \in 1..n :
          LET t == [ls EXCEPT !.monitors = n, !.mouse = m]
          IN  ls' = (IF ls.following THEN EnsureBlankWindow(EnsureShields(t)) ELSE t) /\ guarded' = guarded
    BY <2>0
  <2> DEFINE t == [ls EXCEPT !.monitors = n, !.mouse = m]
             e == EnsureShields(t)
             w == EnsureBlankWindow(e)
  <2>2. Step(ls, t)
    BY <1>0 DEF Step, Keeps, KeepsLock, LockState, Fields, ShieldTypes, LockTypes, BlankTypes, SleepTypes
  <2>3. Only(ls, t, {"monitors", "mouse"})
    BY <1>0 DEF LockState, Only, Fields
  <2>4. ls' = (IF ls.following THEN w ELSE t) /\ guarded' = guarded
    BY <2>1
  <2> HIDE DEF t
  <2>5. Good(t) /\ Held(t) /\ Kept(ls, t)
    <3>1. Only(ls, t, Fields \ Watched)
      BY <2>3 DEF Only, Watched
    <3>2. Good(t) /\ Held(t)
      BY <2>2, <3>1, ApartKept, StepPhase, GoodStep
    <3> QED BY <2>3, <3>2, OnlySleepSame, SleepSameKept DEF SleepFields
  <2>6. ASSUME ls.following PROVE Kept(ls, w)
    <3>1. IsLocked(t)
      BY <2>2, <2>6 DEF Good, LockInv, Step, Keeps, KeepsLock, IsLocked
    <3>2. Kept(t, e) /\ LockState(e)
      BY <2>5, <3>1, EnsureShieldsKept DEF Kept
    <3> HIDE DEF e
    <3>3. SleepSame(e, w)
      BY <3>2, EnsureBlankWindowStep, EnsureBlankWindowCall, BlankSleepSame
    <3> HIDE DEF w
    <3> QED BY <2>5, <3>2, <3>3, KeptThenSame, KeptTransitive
  <2> HIDE DEF w
  <2> QED BY <2>4, <2>5, <2>6 DEF Kept, SleepStep
<1>4. CASE PanelOpens \/ PanelCloses
  <2>1. PICK i \in Monitors : (ls' = PanelActive(ls, i) \/ ls' = PanelInactive(ls, i)) /\ guarded' = guarded
    BY <1>0, <1>4 DEF PanelOpens, PanelCloses, LockState, ShieldTypes, Internal, Runs
  <2>2. Only(ls, PanelActive(ls, i), Inputs)
    <3>1. Only(ls, PanelActive(ls, i), {"panels", "regrab", "grabs"})
      BY <1>0, PanelActiveCall
    <3> QED BY <3>1 DEF Only, Inputs
  <2>3. Only(ls, PanelInactive(ls, i), Inputs)
    <3> DEFINE t == [ls EXCEPT !.panels = @ \ {i}]
    <3>1. /\ Only(ls, t, {"panels"})
          /\ IF i = ls.primary THEN ShieldCall(t, PanelInactive(ls, i), i) ELSE PanelInactive(ls, i) = t
      BY <1>0, PanelInactiveCall
    <3> HIDE DEF t
    <3> QED BY <3>1 DEF ShieldCall, Only, Inputs
  <2> QED BY <2>1, <2>2, <2>3, InputsSleepSame, SleepSameKept DEF Kept, SleepStep
<1> QED BY <1>1, <1>2, <1>3, <1>4 DEF UserInput

-----------------------------------------------------------------------------
(* The suspend.  A guarded one goes on as long as somebody holds it back;  *)
(* when nobody does, the shields must be what is left of Guarded.          *)

SleepInv ==
  /\ Shown(ls)
  /\ Covered(ls)
  /\ guarded => Guarded(ls)
  /\ power = "awake" => ~guarded
  /\ guarded /\ power = "asleep" => ~ls.inh.held

LEMMA PrepareKept ==
  ASSUME Good(ls), Shown(ls), Covered(ls), PrepareForSleep
  PROVE  Shown(ls') /\ Covered(ls') /\ (guarded' => Guarded(ls'))
<1> DEFINE t == InhibitPaint(ls)
<1>1. LockState(ls) /\ guarded' = (ls.inh.held /\ MustLock(ls) /\ ~Leaving(ls))
  BY DEF Good, PrepareForSleep, FadingOut, Leaving
<1>2. ls' = IF ls.lockOnSuspend THEN RequestLock(t, TRUE) ELSE ls
  BY DEF PrepareForSleep, AboutToSuspend
<1>3. Good(t)
  BY <1>1, PaintStep, GoodStep
<1>4. Only(ls, t, {"bufferCleared", "paintInhibited"})
  BY <1>1 DEF InhibitPaint, LockState, Only, Fields
<1> HIDE DEF t
<1>5. /\ t.shields = ls.shields /\ t.primary = ls.primary /\ t.prompt = ls.prompt /\ t.opaque = ls.opaque
      /\ t.early = ls.early /\ t.anim = ls.anim /\ t.inh = ls.inh /\ t.synced = ls.synced
      /\ t.sessionActive = ls.sessionActive /\ t.lockOnSuspend = ls.lockOnSuspend /\ t.useLegacy = ls.useLegacy
  BY <1>4 DEF Only, Fields
<1>6. /\ IsLocked(t) <=> IsLocked(ls)
      /\ ShieldsOf(t) = ShieldsOf(ls)
      /\ FullyLocked(t) <=> FullyLocked(ls)
      /\ MustLock(t) <=> MustLock(ls)
      /\ Leaving(t) <=> Leaving(ls)
  BY <1>5 DEF IsLocked, ShieldsOf, FullyLocked, MustLock, Leaving
<1>7. Shown(t)
  BY <1>5, <1>6 DEF Shown
<1>8. Covered(t)
  BY <1>5, <1>6 DEF Covered
<1>9. guarded' => Guarded(t)
  BY <1>1, <1>5, <1>6 DEF Guarded
<1>10. Kept(t, RequestLock(t, TRUE))
  BY <1>3, <1>7, <1>8, RequestLockKept
<1>11. guarded' => ls.lockOnSuspend
  BY <1>1 DEF MustLock
<1> QED BY <1>2, <1>9, <1>10, <1>11 DEF Kept

LEMMA ResumeShown ==
  ASSUME LockState(ls), Shown(ls), Covered(ls), Resume
  PROVE  Shown(ls') /\ Covered(ls')
<1> DEFINE t == [ls EXCEPT !.bufferCleared = TRUE, !.paintInhibited = FALSE]
<1>1. ls' = ls \/ ls' = SyncInhibitor(t)
  BY DEF Resume, UninhibitPaint
<1>2. LockState(t)
  BY DEF LockState, Fields, ShieldTypes, LockTypes, BlankTypes, SleepTypes
<1>3. Only(ls, t, {"bufferCleared", "paintInhibited"})
  BY DEF LockState, Only, Fields
<1> HIDE DEF t
<1>4. /\ t.shields = ls.shields /\ t.prompt = ls.prompt /\ t.opaque = ls.opaque
      /\ t.early = ls.early /\ t.anim = ls.anim
  BY <1>3 DEF Only, Fields
<1>5. (IsLocked(t) <=> IsLocked(ls)) /\ ShieldsOf(t) = ShieldsOf(ls)
  BY <1>4 DEF IsLocked, ShieldsOf
<1>6. Shown(t)
  BY <1>4, <1>5 DEF Shown
<1> QED BY <1>1, <1>2, <1>6, SyncInhibitorKept

LEMMA SuspendingSleep ==
  ASSUME Good(ls), SleepInv, Suspending
  PROVE  SleepInv'
<1>0. LockState(ls) /\ Shown(ls) /\ Covered(ls)
  BY DEF Good, SleepInv
<1>1. CASE PrepareForSleep
  <2>1. power' = "preparing"
    BY <1>1 DEF PrepareForSleep
  <2> QED BY <1>0, <1>1, <2>1, PrepareKept DEF SleepInv
<1>2. CASE Sleep
  BY <1>2 DEF Sleep, Delaying, SleepInv
<1>3. CASE SleepAnyway
  BY <1>3 DEF SleepAnyway, SleepInv
<1>4. CASE Resume
  <2>1. power' = "awake" /\ guarded' = FALSE
    BY <1>4 DEF Resume
  <2> QED BY <1>0, <1>4, <2>1, ResumeShown DEF SleepInv
<1> QED BY <1>1, <1>2, <1>3, <1>4 DEF Suspending

\* The other actions leave the suspend where it is, and need the machine awake.
LEMMA PowerSame ==
  ASSUME Next, ~Suspending
  PROVE  power' = power /\ power # "asleep"
<1>1. CASE DBus
  BY <1>1 DEF DBus, LoginConnected, SessionProxyReady, InhibitReplied, InhibitRejected, Internal, Runs, Running
<1>2. CASE Policy
  BY <1>2 DEF Policy, SessionActiveChanged, LockOnSuspendChanged, UseLegacyChanged, Runs, Running
<1>3. CASE Requests
  BY <1>3 DEF Requests, Lock, Prompt, Unlock, PresenceChanged, SaverRequested, SimulateActivity, Internal, Runs, Running
<1>4. CASE Timers
  BY <1>4 DEF Timers, LockRetries, LockHappens, DelayTimerFires, SaverTimerFires, PostTimerFires, GrabTimerFires,
              Internal, Runs, Running
<1>5. CASE Painting
  BY <1>5 DEF Painting, FadeTick, BlankTick, Tick, DonePaint, Internal, Runs, Running
<1>6. CASE UserInput
  BY <1>6 DEF UserInput, LockScreenInput, BlankWindowInput, MonitorsChanged, PanelOpens, PanelCloses, Internal, Runs, Running
<1>7. CASE Grabbing
  BY <1>7 DEF Grabbing, ForeignGrabs, ForeignUngrabs, UngrabNotified, Internal, Runs, Running
<1> QED BY <1>1, <1>2, <1>3, <1>4, <1>5, <1>6, <1>7 DEF Next

LEMMA SleepInvariant == Spec => []SleepInv
<1>1. Init => SleepInv
  <2> SUFFICES ASSUME Init PROVE SleepInv
    OBVIOUS
  <2>1. /\ ls.shields = 0 /\ ls.early = FALSE /\ ls.sessionActive = FALSE
        /\ power = "awake" /\ guarded = FALSE
    BY DEF Init, InitialState
  <2>2. ~IsLocked(ls) /\ ~MustLock(ls)
    BY <2>1 DEF IsLocked, MustLock
  <2> QED BY <2>1, <2>2 DEF SleepInv, Shown, Covered
<1>2. IInv /\ HeldInv /\ SleepInv /\ [Next]_vars => SleepInv'
  <2> SUFFICES ASSUME IInv, HeldInv, SleepInv, [Next]_vars PROVE SleepInv'
    OBVIOUS
  <2>0. Good(ls) /\ LockState(ls) /\ Held(ls) /\ Shown(ls) /\ Covered(ls)
    BY DEF IInv, Good, HeldInv, SleepInv
  <2>1. CASE UNCHANGED vars
    BY <2>1 DEF vars, SleepInv, Shown, Covered, Guarded, IsLocked, ShieldsOf, FullyLocked, MustLock, Leaving
  <2>2. CASE Suspending
    BY <2>0, <2>2, SuspendingSleep
  <2>3. CASE Next /\ ~Suspending
    <3>1. ASSUME DBus PROVE SleepStep
      <4>1. guarded' = guarded
        BY <3>1 DEF DBus, LoginConnected, SessionProxyReady, InhibitReplied, InhibitRejected, Internal
      <4> QED BY <2>0, <3>1, <4>1, DBusKept DEF Kept, SleepStep
    <3>2. ASSUME Policy PROVE SleepStep
      <4>1. guarded' = FALSE
        BY <3>2 DEF Policy, SessionActiveChanged, LockOnSuspendChanged, UseLegacyChanged
      <4> QED BY <2>0, <3>2, <4>1, PolicyShown DEF SleepStep
    <3>3. SleepStep
      BY <2>0, <2>3, <3>1, <3>2, RequestsSleep, TimersSleep, PaintingSleep, UserInputSleep, GrabbingSleep DEF Next
    <3>4. power' = power /\ power # "asleep"
      BY <2>3, PowerSame
    <3> QED BY <3>3, <3>4 DEF SleepInv, SleepStep
  <2> QED BY <2>1, <2>2, <2>3
<1> QED BY <1>1, <1>2, InductiveInvariant, HeldInvariant, PTL DEF Spec

\* A prompted lock is opaque from its first moment, whatever request, monitor or tick
\* comes after: the fade-in is skipped and a prompt that comes late is not recorded
\* (LockScreenController.cpp:392-439, 505-524).
THEOREM PromptCoversHolds == Spec => []PromptCovers
<1>1. SleepInv => PromptCovers
  BY DEF SleepInv, Shown, PromptCovers, FadingOut
<1> QED BY <1>1, SleepInvariant, PTL

\* Every way for a lock to start or end, for a monitor to come or go, and for the session
\* or a setting to change leaves the suspend inhibitor held or asked for
\* (LockScreenController.cpp:97-118, 120-150, 590-611).
THEOREM InhibitorCoversHolds == Spec => []InhibitorCovers
<1>1. SleepInv => InhibitorCovers
  BY DEF SleepInv, Covered, InhibitorCovers, FadingOut, Leaving
<1> QED BY <1>1, SleepInvariant, PTL

\* The machine falls asleep behind opaque shields on a cleared buffer: between the
\* PrepareForSleep signal and the close of the descriptor no callback can take away
\* the one before it has brought the other (LockScreenController.cpp:97-110, 569-611).
THEOREM SleepsLockedHolds == Spec => []SleepsLocked
<1>1. SleepInv => SleepsLocked
  BY DEF SleepInv, Guarded, SleepsLocked
<1> QED BY <1>1, SleepInvariant, PTL
=============================================================================
