------------------------ MODULE LauncherRevealProofs -------------------------
(***************************************************************************)
(* What holds of the launcher's reveal whatever the inputs, the pressure a *)
(* reveal needs and the rate of its decay.                                 *)
(*                                                                         *)
(* The argument: every handler changes the machines through SetQuirk,      *)
(* SetMode, the timeout and SetHoverQuirk only, and each of these leaves   *)
(* its machine coherent (HideGood, HoverGood) whatever the quirk.  So a    *)
(* handler that does not touch LAUNCHER_HIDDEN keeps both machines good    *)
(* and agreeing with hidden_ (HideKeeps, HoverKeeps); the two that emit    *)
(* the machines' decisions are looked at one by one.                       *)
(***************************************************************************)
EXTENDS LauncherReveal, TLAPS

\* A hide machine whose decision is what its quirks ask for
HideGood(h) ==
  /\ h \in HideMachine
  /\ h.shouldHide => WantsHidden(h)
  /\ WantsHidden(h) /\ ~h.shouldHide => h.delay
  /\ LockedHidden(h) => h.shouldHide
  /\ h.shouldHide # h.latest => h.idle

\* A hover machine whose decision is what its quirks ask for
HoverGood(m) ==
  /\ m \in HoverMachine
  /\ m.shouldHover = WantsHover(m)
  /\ m.shouldHover # m.latest => m.idle

\* g is h after quirks of the environment changed
HideKeeps(h, g) ==
  /\ HideGood(g)
  /\ g.latest = h.latest
  /\ "LAUNCHER_HIDDEN" \in g.quirks <=> "LAUNCHER_HIDDEN" \in h.quirks

HoverKeeps(m, n) ==
  /\ HoverGood(n)
  /\ n.latest = m.latest
  /\ "LAUNCHER_HIDDEN" \in n.quirks <=> "LAUNCHER_HIDDEN" \in m.quirks

-----------------------------------------------------------------------------
(* The hide machine *)

\* EnsureHideState makes a machine good that may have decided anything.
LEMMA EnsureGood ==
  ASSUME NEW h \in HideMachine, NEW skip, h.shouldHide # h.latest => h.idle
  PROVE  /\ HideGood(EnsureHideState(h, skip))
         /\ EnsureHideState(h, skip).latest = h.latest
         /\ EnsureHideState(h, skip).quirks = h.quirks
<1> DEFINE w == WantsHidden(h)
           g == EnsureHideState(h, skip)
<1>1. w \in BOOLEAN /\ LockedHidden(h) \in BOOLEAN /\ (LockedHidden(h) => w)
  BY DEF WantsHidden, LockedHidden
<1>2. /\ g \in HideMachine
      /\ g.quirks = h.quirks /\ g.mode = h.mode /\ g.latest = h.latest
      /\ g.shouldHide = w \/ (w /\ ~LockedHidden(h) /\ g.delay /\ ~g.shouldHide)
      /\ g.shouldHide # g.latest => g.idle
  <2> HIDE DEF w
  <2>1. g = SetShouldHide(h, w, skip \/ LockedHidden(h))
    BY DEF EnsureHideState, w
  <2>2. CASE h.shouldHide = w
    BY <2>1, <2>2 DEF SetShouldHide, HideMachine
  <2>3. CASE h.shouldHide # w /\ w /\ ~(skip \/ LockedHidden(h))
    <3>1. g = [h EXCEPT !.delay = TRUE]
      BY <2>1, <2>3 DEF SetShouldHide
    <3>2. h.shouldHide = FALSE
      BY <2>3, <1>1 DEF HideMachine
    <3> QED BY <3>1, <3>2, <2>3 DEF HideMachine
  <2>4. CASE h.shouldHide # w /\ ~(w /\ ~(skip \/ LockedHidden(h)))
    <3>1. g = [h EXCEPT !.shouldHide = w, !.idle = TRUE]
      BY <2>1, <2>4 DEF SetShouldHide
    <3> QED BY <3>1, <1>1 DEF HideMachine
  <2> QED BY <2>2, <2>3, <2>4
<1>3. WantsHidden(g) = w /\ LockedHidden(g) = LockedHidden(h)
  BY <1>2 DEF WantsHidden, LockedHidden, PushedOff, ShouldShowQuirk
<1>4. g.shouldHide \in BOOLEAN
  BY <1>2 DEF HideMachine
<1> QED BY <1>1, <1>2, <1>3, <1>4 DEF HideGood

\* Whatever the quirk, SetQuirk keeps a machine good and touches no other quirk.
LEMMA SetQuirkGood ==
  ASSUME NEW h, HideGood(h), NEW quirk \in HideQuirks, NEW active \in BOOLEAN
  PROVE  /\ HideGood(SetQuirk(h, quirk, active))
         /\ SetQuirk(h, quirk, active).latest = h.latest
         /\ quirk \in SetQuirk(h, quirk, active).quirks <=> active
         /\ \A q : q # quirk => (q \in SetQuirk(h, quirk, active).quirks <=> q \in h.quirks)
<1>1. CASE (quirk \in h.quirks) = active
  BY <1>1 DEF SetQuirk
<1>2. CASE (quirk \in h.quirks) # active
  <2> DEFINE g == [h EXCEPT !.quirks = IF active THEN @ \cup {quirk} ELSE @ \ {quirk}]
  <2>1. /\ g \in HideMachine
        /\ g.shouldHide # g.latest => g.idle
        /\ g.latest = h.latest
        /\ quirk \in g.quirks <=> active
        /\ \A q : q # quirk => (q \in g.quirks <=> q \in h.quirks)
    BY DEF HideGood, HideMachine
  <2>2. SetQuirk(h, quirk, active) = EnsureHideState(g, quirk \in SkipDelayQuirk)
    BY <1>2 DEF SetQuirk
  <2> HIDE DEF g
  <2> QED BY <2>1, <2>2, EnsureGood
<1> QED BY <1>1, <1>2

\* A quirk of the environment leaves LAUNCHER_HIDDEN alone.
LEMMA SetQuirkKeeps ==
  ASSUME NEW h0, NEW h, HideKeeps(h0, h),
         NEW quirk \in HideQuirks \ {"LAUNCHER_HIDDEN"}, NEW active \in BOOLEAN
  PROVE  HideKeeps(h0, SetQuirk(h, quirk, active))
<1> DEFINE g == SetQuirk(h, quirk, active)
<1>1. quirk \in HideQuirks /\ quirk # "LAUNCHER_HIDDEN" /\ HideGood(h)
  BY DEF HideKeeps
<1>2. HideGood(g) /\ g.latest = h.latest /\ ("LAUNCHER_HIDDEN" \in g.quirks <=> "LAUNCHER_HIDDEN" \in h.quirks)
  BY <1>1, SetQuirkGood
<1> QED BY <1>2 DEF HideKeeps

\* SetStateMouseOverLauncher is a change of the environment's quirks.
LEMMA MouseOverKeeps ==
  ASSUME NEW h0, NEW h, HideKeeps(h0, h), NEW over \in BOOLEAN
  PROVE  HideKeeps(h0, MouseOver(h, over))
<1>1. HideKeeps(h0, SetQuirk(h, "MOUSE_OVER_LAUNCHER", over))
  BY SetQuirkKeeps DEF HideQuirks
<1> QED BY <1>1, SetQuirkKeeps DEF MouseOver, HideQuirks

-----------------------------------------------------------------------------
(* The hover machine *)

\* Whatever the quirk, SetQuirk of the hover machine keeps it good.
LEMMA SetHoverQuirkGood ==
  ASSUME NEW m, HoverGood(m), NEW quirk \in HoverQuirks, NEW active \in BOOLEAN
  PROVE  /\ HoverGood(SetHoverQuirk(m, quirk, active))
         /\ SetHoverQuirk(m, quirk, active).latest = m.latest
         /\ quirk \in SetHoverQuirk(m, quirk, active).quirks <=> active
         /\ \A q : q # quirk => (q \in SetHoverQuirk(m, quirk, active).quirks <=> q \in m.quirks)
<1>1. CASE (quirk \in m.quirks) = active
  BY <1>1 DEF SetHoverQuirk
<1>2. CASE (quirk \in m.quirks) # active
  <2> DEFINE q == IF active THEN m.quirks \cup {quirk} ELSE m.quirks \ {quirk}
             g == [m EXCEPT !.quirks = q]
             n == EnsureHoverState(g)
  <2>1. g \in HoverMachine /\ g.quirks = q /\ g.latest = m.latest
    BY DEF HoverGood, HoverMachine
  <2>2. WantsHover(g) \in BOOLEAN
    BY DEF WantsHover
  <2>3. SetHoverQuirk(m, quirk, active) = n
    BY <1>2 DEF SetHoverQuirk
  <2> HIDE DEF g, q
  <2>4. /\ n \in HoverMachine /\ n.quirks = q /\ n.latest = m.latest
        /\ n.idle = TRUE /\ n.shouldHover = WantsHover(g)
    BY <2>1, <2>2 DEF EnsureHoverState, HoverMachine
  <2>5. WantsHover(n) = WantsHover(g)
    BY <2>1, <2>4 DEF WantsHover
  <2>6. (quirk \in q <=> active) /\ \A x : x # quirk => (x \in q <=> x \in m.quirks)
    BY DEF q
  <2> QED BY <2>3, <2>4, <2>5, <2>6 DEF HoverGood
<1> QED BY <1>1, <1>2

\* A quirk of the environment leaves LAUNCHER_HIDDEN alone.
LEMMA SetHoverQuirkKeeps ==
  ASSUME NEW m0, NEW m, HoverKeeps(m0, m),
         NEW quirk \in HoverQuirks \ {"LAUNCHER_HIDDEN"}, NEW active \in BOOLEAN
  PROVE  HoverKeeps(m0, SetHoverQuirk(m, quirk, active))
<1> DEFINE g == SetHoverQuirk(m, quirk, active)
<1>1. quirk \in HoverQuirks /\ quirk # "LAUNCHER_HIDDEN" /\ HoverGood(m)
  BY DEF HoverKeeps
<1>2. HoverGood(g) /\ g.latest = m.latest /\ ("LAUNCHER_HIDDEN" \in g.quirks <=> "LAUNCHER_HIDDEN" \in m.quirks)
  BY <1>1, SetHoverQuirkGood
<1> QED BY <1>2 DEF HoverKeeps

\* So does SetStateMouseOverLauncher for the hover machine,
LEMMA HoverMouseOverKeeps ==
  ASSUME NEW m0, NEW m, HoverKeeps(m0, m), NEW over \in BOOLEAN
  PROVE  HoverKeeps(m0, HoverMouseOver(m, over))
BY SetHoverQuirkKeeps DEF HoverMouseOver, HoverQuirks, HoldsHover

\* and SetActionState.
LEMMA InActionKeeps ==
  ASSUME NEW m0, NEW m, HoverKeeps(m0, m), NEW state
  PROVE  HoverKeeps(m0, InAction(m, state))
<1>1. CASE state = action
  BY <1>1 DEF InAction
<1>2. CASE state # action
  <2>1. (state # "NONE") \in BOOLEAN
    OBVIOUS
  <2> QED BY <1>2, <2>1, SetHoverQuirkKeeps DEF InAction, HoverQuirks, HoldsHover
<1> QED BY <1>1, <1>2

-----------------------------------------------------------------------------
(* The launcher *)

\* What is left of the type invariant: all but the machines and what they said
TypeRest ==
  /\ pressure \in 0 .. RevealPressure /\ decaying \in BOOLEAN
  /\ action \in Actions
  /\ hud \in BOOLEAN
  /\ dnd \in [over : BOOLEAN, checked : BOOLEAN, touching : BOOLEAN]
  /\ push \in [running : Directions, off : BOOLEAN]
  /\ window \in Windows
  /\ drag \in [ongoing : BOOLEAN, out : BOOLEAN]

\* The launcher and its two machines agree.
Agree ==
  /\ HideGood(hide) /\ HoverGood(hover)
  /\ hidden \in BOOLEAN /\ hovered \in BOOLEAN
  /\ hidden = hide.latest
  /\ hidden <=> "LAUNCHER_HIDDEN" \in hide.quirks
  /\ hidden <=> "LAUNCHER_HIDDEN" \in hover.quirks
  /\ hovered => hover.latest

IInv == Agree /\ TypeRest /\ PressureDecays

\* A step of the environment
InputStep ==
  /\ HideKeeps(hide, hide')
  /\ HoverKeeps(hover, hover')
  /\ hidden' = hidden
  /\ hovered' \in BOOLEAN /\ (hovered' => hovered)

\* A step of the environment keeps the launcher and its machines in agreement.
LEMMA InputKeepsAgree == Agree /\ InputStep => Agree'
BY DEF Agree, InputStep, HideKeeps, HoverKeeps

\* A machine left alone is kept.
LEMMA AgreeReflexive == Agree => HideKeeps(hide, hide) /\ HoverKeeps(hover, hover)
BY DEF Agree, HideKeeps, HoverKeeps

\* The quirks the handlers set are quirks of their machine.
LEMMA Quirks ==
  /\ {"MOUSE_OVER_LAUNCHER", "REVEAL_PRESSURE_PASS", "MOUSE_MOVE_POST_REVEAL", "DND_PUSHED_OFF", "LOCK_HIDE",
      "QUICKLIST_OPEN", "EXTERNAL_DND_ACTIVE", "INTERNAL_DND_ACTIVE", "TRIGGER_BUTTON_SHOW",
      "VERTICAL_SLIDE_ACTIVE", "KEY_NAV_ACTIVE", "PLACES_VISIBLE", "SCALE_ACTIVE", "EXPO_ACTIVE", "MT_DRAG_OUT",
      "SHORTCUT_KEYS_VISIBLE"} \subseteq HideQuirks \ {"LAUNCHER_HIDDEN"}
  /\ {"MOUSE_OVER_LAUNCHER", "KEY_NAV_ACTIVE", "QUICKLIST_OPEN", "LAUNCHER_IN_ACTION", "PLACES_VISIBLE"}
       \subseteq HoverQuirks \ {"LAUNCHER_HIDDEN"}
  /\ "LAUNCHER_HIDDEN" \in HideQuirks /\ "LAUNCHER_HIDDEN" \in HoverQuirks
BY DEF HideQuirks, VisibleRequired, HoverQuirks, HoldsHover

\* The timeout of the delayed hide decides, it does not emit.
LEMMA TimeoutStep == ASSUME Agree, HideDelayTimeout PROVE InputStep
<1> DEFINE g == [hide EXCEPT !.delay = FALSE]
<1>1. /\ g \in HideMachine /\ (g.shouldHide # g.latest => g.idle)
      /\ g.latest = hide.latest /\ g.quirks = hide.quirks
  BY DEF Agree, HideGood, HideMachine
<1>2. hide' = EnsureHideState(g, TRUE)
  BY DEF HideDelayTimeout, HideDelayExpired
<1> HIDE DEF g
<1>3. HideKeeps(hide, hide')
  BY <1>1, <1>2, EnsureGood DEF HideKeeps
<1> QED BY <1>3, AgreeReflexive DEF HideDelayTimeout, InputStep, Agree

\* A change of the hide mode decides, it does not emit.
LEMMA SetModeStep == ASSUME Agree, SetHideMode PROVE InputStep
<1>1. PICK mode \in HideModes : hide' = SetMode(hide, mode)
  BY DEF SetHideMode
<1>2. HideKeeps(hide, hide')
  <2>1. CASE hide.mode = mode
    BY <1>1, <2>1, AgreeReflexive DEF SetMode
  <2>2. CASE hide.mode # mode
    <3> DEFINE g == [hide EXCEPT !.mode = mode]
    <3>1. /\ g \in HideMachine /\ (g.shouldHide # g.latest => g.idle)
          /\ g.latest = hide.latest /\ g.quirks = hide.quirks
      BY DEF Agree, HideGood, HideMachine
    <3>2. hide' = EnsureHideState(g, TRUE)
      BY <1>1, <2>2 DEF SetMode
    <3> HIDE DEF g
    <3> QED BY <3>1, <3>2, EnsureGood DEF HideKeeps
  <2> QED BY <2>1, <2>2
<1> QED BY <1>2, AgreeReflexive DEF SetHideMode, InputStep, Agree

\* Pressure sets quirks of the environment only.
LEMMA PressureStep ==
  ASSUME Agree, NEW velocity, AddRevealPressure(velocity)
  PROVE  HideKeeps(hide, hide')
<1>1. HideKeeps(hide, SetQuirk(hide, "REVEAL_PRESSURE_PASS", TRUE))
  BY AgreeReflexive, SetQuirkKeeps, Quirks
<1>2. HideKeeps(hide, SetQuirk(SetQuirk(hide, "REVEAL_PRESSURE_PASS", TRUE), "MOUSE_MOVE_POST_REVEAL", TRUE))
  BY <1>1, SetQuirkKeeps, Quirks
<1> QED BY <1>2, AgreeReflexive DEF AddRevealPressure

\* The pointer changes the environment's quirks only,
LEMMA PointerStep == ASSUME Agree, Pointer PROVE InputStep
<1>1. CASE RecvMouseEnter
  BY <1>1, AgreeReflexive, MouseOverKeeps, HoverMouseOverKeeps DEF RecvMouseEnter, InputStep, Agree
<1>2. CASE RecvMouseLeave
  BY <1>2, AgreeReflexive, MouseOverKeeps, HoverMouseOverKeeps DEF RecvMouseLeave, InputStep, Agree
<1>3. CASE UpdateChangeInMousePosition
  BY <1>3, AgreeReflexive, SetQuirkKeeps, Quirks DEF UpdateChangeInMousePosition, InputStep, Agree
<1>4. CASE HandleBarrierEvent
  BY <1>4, AgreeReflexive, PressureStep DEF HandleBarrierEvent, InputStep, Agree
<1>5. CASE OnDecayTimeout
  BY <1>5, AgreeReflexive DEF OnDecayTimeout, InputStep, Agree
<1> QED BY <1>1, <1>2, <1>3, <1>4, <1>5 DEF Pointer

\* so do the keyboard, the quicklists, the overlays and the mode,
LEMMA ViewsStep == ASSUME Agree, TypeRest, Views PROVE InputStep
<1> USE AgreeReflexive, Quirks
<1>1. CASE ForceReveal \/ ShowShortcuts
  <2>1. PICK quirk \in {"TRIGGER_BUTTON_SHOW", "SHORTCUT_KEYS_VISIBLE"}, active \in BOOLEAN : Super(quirk, active)
    BY <1>1 DEF ForceReveal, ShowShortcuts
  <2>2. HideKeeps(hide, SetQuirk(hide, quirk, active))
    BY SetQuirkKeeps
  <2> QED BY <2>1, <2>2 DEF Super, InputStep, Agree
<1>2. CASE KeyNavMode
  <2>1. ("KEY_NAV_ACTIVE" \notin hide.quirks) \in BOOLEAN
    OBVIOUS
  <2> QED BY <1>2, <2>1, SetQuirkKeeps, SetHoverQuirkKeeps DEF KeyNavMode, InputStep, Agree
<1>3. CASE RecvQuicklistOpened
  BY <1>3, SetQuirkKeeps, SetHoverQuirkKeeps DEF RecvQuicklistOpened, InputStep, Agree
<1>4. CASE RecvQuicklistClosed
  <2>1. PICK outside \in BOOLEAN :
          LET left == outside /\ "KEY_NAV_ACTIVE" \notin hide.quirks
          IN  /\ hovered' = (hovered /\ ~left)
              /\ hide' = SetQuirk(IF left THEN MouseOver(hide, FALSE) ELSE hide, "QUICKLIST_OPEN", FALSE)
              /\ hover' = SetHoverQuirk(InAction(IF left THEN HoverMouseOver(hover, FALSE) ELSE hover, "NONE"),
                                        "QUICKLIST_OPEN", FALSE)
    BY <1>4 DEF RecvQuicklistClosed
  <2> DEFINE left == outside /\ "KEY_NAV_ACTIVE" \notin hide.quirks
             h == IF left THEN MouseOver(hide, FALSE) ELSE hide
             m == IF left THEN HoverMouseOver(hover, FALSE) ELSE hover
  <2>2. HideKeeps(hide, h) /\ HoverKeeps(hover, m)
    BY MouseOverKeeps, HoverMouseOverKeeps
  <2>3. hide' = SetQuirk(h, "QUICKLIST_OPEN", FALSE) /\ hover' = SetHoverQuirk(InAction(m, "NONE"), "QUICKLIST_OPEN", FALSE)
    BY <2>1
  <2>4. hovered' \in BOOLEAN /\ (hovered' => hovered)
    BY <2>1 DEF Agree
  <2> HIDE DEF h, m
  <2>5. HoverKeeps(hover, InAction(m, "NONE"))
    BY <2>2, InActionKeeps
  <2>6. HideKeeps(hide, hide') /\ HoverKeeps(hover, hover')
    BY <2>2, <2>3, <2>5, SetQuirkKeeps, SetHoverQuirkKeeps
  <2> QED BY <1>4, <2>4, <2>6 DEF RecvQuicklistClosed, InputStep
<1>5. CASE DashShown
  BY <1>5, SetQuirkKeeps, SetHoverQuirkKeeps DEF DashShown, InputStep, Agree
<1>6. CASE DashHidden \/ HudHidden \/ OverlayHiddenElsewhere
  <2>1. PICK overlay : OverlayHidden(overlay)
    BY <1>6 DEF DashHidden, HudHidden, OverlayHiddenElsewhere
  <2> DEFINE h == IF overlay = "dash" THEN SetQuirk(hide, "PLACES_VISIBLE", FALSE) ELSE hide
             m == IF overlay = "dash" THEN SetHoverQuirk(hover, "PLACES_VISIBLE", FALSE) ELSE hover
  <2>2. HideKeeps(hide, h) /\ HoverKeeps(hover, m)
    BY SetQuirkKeeps, SetHoverQuirkKeeps
  <2>3. PICK inside \in BOOLEAN : hide' = MouseOver(h, inside) /\ hover' = HoverMouseOver(m, inside)
    BY <2>1 DEF OverlayHidden
  <2> HIDE DEF h, m
  <2>4. HideKeeps(hide, hide') /\ HoverKeeps(hover, hover')
    BY <2>2, <2>3, MouseOverKeeps, HoverMouseOverKeeps
  <2>5. hidden' = hidden /\ hovered' = hovered
    BY <2>1 DEF OverlayHidden
  <2> QED BY <2>4, <2>5 DEF InputStep, Agree
<1>7. CASE HudShown
  BY <1>7 DEF HudShown, InputStep, Agree
<1>8. CASE OnLockHideChanged
  <2>1. ("LOCK_HIDE" \notin hide.quirks) \in BOOLEAN
    OBVIOUS
  <2> QED BY <1>8, <2>1, SetQuirkKeeps DEF OnLockHideChanged, InputStep, Agree
<1>9. CASE ViewChanged
  <2>1. PICK quirk \in {"EXPO_ACTIVE", "SCALE_ACTIVE"} : hide' = SetQuirk(hide, quirk, quirk \notin hide.quirks)
    BY <1>9 DEF ViewChanged
  <2>2. (quirk \notin hide.quirks) \in BOOLEAN
    OBVIOUS
  <2>3. HideKeeps(hide, hide')
    BY <2>1, <2>2, SetQuirkKeeps
  <2> QED BY <1>9, <2>3 DEF ViewChanged, InputStep, Agree
<1>10. CASE SetHideMode
  BY <1>10, SetModeStep
<1> QED BY <1>1, <1>2, <1>3, <1>4, <1>5, <1>6, <1>7, <1>8, <1>9, <1>10 DEF Views

\* UnsetDndQuirk sets quirks of the environment only.
LEMMA DndQuirkKeeps == ASSUME Agree, TypeRest PROVE HideKeeps(hide, DndQuirkUnset(hide))
<1>1. drag.out \in BOOLEAN
  BY DEF TypeRest
<1>2. HideKeeps(hide, SetQuirk(hide, "MT_DRAG_OUT", drag.out))
  BY <1>1, AgreeReflexive, SetQuirkKeeps, Quirks
<1> QED BY <1>2, SetQuirkKeeps, Quirks DEF DndQuirkUnset

\* An icon that is picked up, dropped, taken back or that has returned
IconDrags == StartIconDrag \/ DragRefused \/ RecvMouseUp \/ CancelDrag \/ OnDragWindowAnimCompleted

\* The enter event of a drag window that goes away changes the environment's
\* quirks only.
LEMMA EnteredKeeps ==
  ASSUME NEW inside \in BOOLEAN
  PROVE  /\ \A h0, h : HideKeeps(h0, h) => HideKeeps(h0, Entered(h, inside))
         /\ \A m0, m : HoverKeeps(m0, m) => HoverKeeps(m0, HoverEntered(m, inside))
BY MouseOverKeeps, HoverMouseOverKeeps DEF Entered, HoverEntered

\* The drags of an icon change the environment's quirks only.
LEMMA IconDragsStep == ASSUME Agree, IconDrags PROVE InputStep
<1> USE AgreeReflexive, Quirks
<1>1. \A inside \in BOOLEAN : HideKeeps(hide, Entered(hide, inside)) /\ HoverKeeps(hover, HoverEntered(hover, inside))
  BY EnteredKeeps
<1>2. \A state : HoverKeeps(hover, InAction(hover, state))
  BY InActionKeeps
<1>3. HideKeeps(hide, SetQuirk(hide, "VERTICAL_SLIDE_ACTIVE", FALSE))
  BY SetQuirkKeeps
<1>4. ASSUME NEW trashed \in BOOLEAN, NEW inside \in BOOLEAN, EndIconDrag(trashed, inside)
      PROVE  HideKeeps(hide, hide')
  <2>1. (trashed /\ inside) \in BOOLEAN
    OBVIOUS
  <2>2. HideKeeps(hide, Entered(hide, trashed /\ inside))
    BY <1>1, <2>1
  <2> QED BY <1>4, <2>2, SetQuirkKeeps DEF EndIconDrag
<1>5. hidden \in BOOLEAN /\ hovered \in BOOLEAN
  BY DEF Agree
<1>6. CASE StartIconDrag
  <2>1. PICK inside \in BOOLEAN :
          /\ hide' = Entered(SetQuirk(hide, "INTERNAL_DND_ACTIVE", TRUE), inside)
          /\ hover' = HoverEntered(InAction(hover, "DRAG_ICON"), inside)
    BY <1>6 DEF StartIconDrag
  <2>2. HideKeeps(hide, SetQuirk(hide, "INTERNAL_DND_ACTIVE", TRUE))
    BY SetQuirkKeeps
  <2>3. HideKeeps(hide, hide') /\ HoverKeeps(hover, hover')
    BY <1>2, <2>1, <2>2, EnteredKeeps
  <2> QED BY <1>5, <1>6, <2>3 DEF StartIconDrag, InputStep
<1>7. CASE DragRefused \/ OnDragWindowAnimCompleted
  <2>1. HideKeeps(hide, hide') /\ HoverKeeps(hover, hover')
    BY <1>1, <1>7 DEF DragRefused, OnDragWindowAnimCompleted
  <2> QED BY <1>5, <1>7, <2>1 DEF DragRefused, OnDragWindowAnimCompleted, InputStep
<1>8. CASE RecvMouseUp
  <2>1. HideKeeps(hide, hide')
    BY <1>3, <1>4, <1>8 DEF RecvMouseUp
  <2>2. \A trashed, inside \in BOOLEAN : HoverKeeps(hover, InAction(HoverEntered(hover, trashed /\ inside), "NONE"))
    <3>1. SUFFICES ASSUME NEW trashed \in BOOLEAN, NEW inside \in BOOLEAN
                   PROVE  HoverKeeps(hover, InAction(HoverEntered(hover, trashed /\ inside), "NONE"))
      OBVIOUS
    <3>2. (trashed /\ inside) \in BOOLEAN
      OBVIOUS
    <3>3. HoverKeeps(hover, HoverEntered(hover, trashed /\ inside))
      BY <1>1, <3>2
    <3> QED BY <3>3, InActionKeeps
  <2>4. HoverKeeps(hover, hover')
    BY <1>2, <1>8, <2>2 DEF RecvMouseUp
  <2> QED BY <1>5, <1>8, <2>1, <2>4 DEF RecvMouseUp, InputStep
<1>9. CASE CancelDrag
  <2>1. HideKeeps(hide, hide')
    BY <1>3, <1>4, <1>9 DEF CancelDrag
  <2>2. HoverKeeps(hover, SetHoverQuirk(InAction(hover, "NONE"), "LAUNCHER_IN_ACTION", TRUE))
    BY <1>2, SetHoverQuirkKeeps
  <2> QED BY <1>5, <1>9, <2>1, <2>2 DEF CancelDrag, InputStep
<1> QED BY <1>6, <1>7, <1>8, <1>9 DEF IconDrags

\* The drags and the frames change the environment's quirks only.
LEMMA DragsStep == ASSUME Agree, TypeRest, Drags PROVE InputStep
<1> USE AgreeReflexive, Quirks
<1>1. CASE SlideLauncher
  BY <1>1, SetQuirkKeeps, InActionKeeps DEF SlideLauncher, InputStep, Agree
<1>2. CASE IconDrags
  BY <1>2, IconDragsStep
<1>3. CASE DndStarted
  BY <1>3, SetQuirkKeeps DEF DndStarted, InputStep, Agree
<1>4. CASE UnsetDndQuirk \/ DndFinished
  BY <1>4, DndQuirkKeeps, InActionKeeps DEF UnsetDndQuirk, DndFinished, InputStep, Agree
<1>5. CASE ProcessDndEnter
  BY <1>5, MouseOverKeeps, HoverMouseOverKeeps DEF ProcessDndEnter, InputStep, Agree
<1>6. CASE ProcessDndMove
  <2>1. HoverKeeps(hover, InAction(hover, "DRAG_EXTERNAL"))
    BY InActionKeeps
  <2>2. HideKeeps(hide, MouseOver(hide, TRUE)) /\ HoverKeeps(hover, HoverMouseOver(InAction(hover, "DRAG_EXTERNAL"), TRUE))
    BY <2>1, MouseOverKeeps, HoverMouseOverKeeps
  <2> QED BY <1>6, <2>2 DEF ProcessDndMove, InputStep, Agree
<1>7. CASE ProcessDndLeave
  <2>1. HideKeeps(hide, MouseOver(hide, FALSE)) /\ HoverKeeps(hover, HoverMouseOver(hover, FALSE))
    BY MouseOverKeeps, HoverMouseOverKeeps
  <2> QED BY <1>7, <2>1, InActionKeeps DEF ProcessDndLeave, InputStep, Agree
<1>8. CASE ProcessDndDrop
  BY <1>8, InActionKeeps DEF ProcessDndDrop, InputStep, Agree
<1>9. CASE PushAnimated \/ OnDragUpdate
  BY <1>9 DEF PushAnimated, OnDragUpdate, InputStep, Agree
<1>10. CASE Frame
  <2>1. push.off \in BOOLEAN
    BY DEF TypeRest
  <2>2. HideKeeps(hide, SetQuirk(hide, "DND_PUSHED_OFF", push.off))
    BY <2>1, SetQuirkKeeps
  <2> QED BY <1>10, <2>2 DEF Frame, InputStep, Agree
<1>11. CASE OnDragStart \/ OnDragFinish
  <2>1. \A active \in BOOLEAN : HideKeeps(hide, SetQuirk(hide, "MT_DRAG_OUT", active))
    BY SetQuirkKeeps
  <2>2. HideKeeps(hide, hide') /\ hover' = hover /\ hidden' = hidden /\ hovered' = hovered
    BY <1>11, <2>1 DEF OnDragStart, OnDragFinish
  <2> QED BY <2>2 DEF InputStep, Agree
<1> QED BY <1>1, <1>2, <1>3, <1>4, <1>5, <1>6, <1>7, <1>8, <1>9, <1>10, <1>11 DEF Drags, IconDrags

-----------------------------------------------------------------------------
(* The two emissions *)

\* SetHidden leaves both machines good; only what it was told becomes of LAUNCHER_HIDDEN.
LEMMA HiddenSetGood ==
  ASSUME NEW h, HideGood(h), NEW value \in BOOLEAN
  PROVE  /\ HideGood(HiddenSet(h, value)) /\ HiddenSet(h, value).latest = h.latest
         /\ "LAUNCHER_HIDDEN" \in HiddenSet(h, value).quirks <=> value
<1> USE Quirks
<1> DEFINE moved == SetQuirk(h, "LAUNCHER_HIDDEN", value)
<1>1. HideGood(moved) /\ moved.latest = h.latest /\ ("LAUNCHER_HIDDEN" \in moved.quirks <=> value)
  BY SetQuirkGood
<1>2. HideKeeps(moved, moved)
  BY <1>1 DEF HideKeeps
<1>3. HiddenSet(h, value) = IF ~value THEN moved
        ELSE MouseOver(SetQuirk(SetQuirk(moved, "MOUSE_MOVE_POST_REVEAL", FALSE), "MT_DRAG_OUT", FALSE), FALSE)
  BY DEF HiddenSet
<1> HIDE DEF moved
<1>4. HideKeeps(moved, SetQuirk(moved, "MOUSE_MOVE_POST_REVEAL", FALSE))
  BY <1>2, SetQuirkKeeps
<1>5. HideKeeps(moved, SetQuirk(SetQuirk(moved, "MOUSE_MOVE_POST_REVEAL", FALSE), "MT_DRAG_OUT", FALSE))
  BY <1>4, SetQuirkKeeps
<1>6. HideKeeps(moved, MouseOver(SetQuirk(SetQuirk(moved, "MOUSE_MOVE_POST_REVEAL", FALSE), "MT_DRAG_OUT", FALSE), FALSE))
  BY <1>5, MouseOverKeeps
<1>7. HideKeeps(moved, HiddenSet(h, value))
  BY <1>2, <1>3, <1>6
<1> QED BY <1>1, <1>7 DEF HideKeeps

\* The same of the hover machine.
LEMMA HoverHiddenSetGood ==
  ASSUME NEW m, HoverGood(m), NEW value \in BOOLEAN
  PROVE  /\ HoverGood(HoverHiddenSet(m, value)) /\ HoverHiddenSet(m, value).latest = m.latest
         /\ "LAUNCHER_HIDDEN" \in HoverHiddenSet(m, value).quirks <=> value
<1> USE Quirks
<1> DEFINE moved == SetHoverQuirk(m, "LAUNCHER_HIDDEN", value)
<1>1. HoverGood(moved) /\ moved.latest = m.latest /\ ("LAUNCHER_HIDDEN" \in moved.quirks <=> value)
  BY SetHoverQuirkGood
<1>2. HoverKeeps(moved, moved)
  BY <1>1 DEF HoverKeeps
<1>3. HoverHiddenSet(m, value) = IF value THEN HoverMouseOver(moved, FALSE) ELSE moved
  BY DEF HoverHiddenSet
<1> HIDE DEF moved
<1>4. HoverKeeps(moved, HoverMouseOver(moved, FALSE))
  BY <1>2, HoverMouseOverKeeps
<1> QED BY <1>1, <1>2, <1>3, <1>4 DEF HoverKeeps

\* EmitShouldHideChanged, with the SetHidden it calls, keeps the agreement.
LEMMA EmitHideStep == ASSUME Agree, EmitShouldHideChanged PROVE Agree'
<1>1. CASE hide.shouldHide = hide.latest /\ hide' = [hide EXCEPT !.idle = FALSE]
           /\ UNCHANGED <<hover, hidden, hovered>>
  BY <1>1 DEF Agree, HideGood, HideMachine, WantsHidden, LockedHidden, PushedOff, ShouldShowQuirk
<1>2. CASE SetHidden(Emitting(hide), hide.shouldHide)
  <2> DEFINE h == Emitting(hide)
             v == hide.shouldHide
  <2>1. v \in BOOLEAN /\ h.latest = v
    BY DEF Agree, HideGood, HideMachine, Emitting
  <2>2. HideGood(h)
    BY DEF Agree, HideGood, HideMachine, Emitting, WantsHidden, LockedHidden, PushedOff, ShouldShowQuirk
  <2>3. /\ hidden' = v /\ hovered' = hovered
        /\ hide' = HiddenSet(h, v)
        /\ hover' = HoverHiddenSet(hover, v) \/ hover' = InAction(HoverHiddenSet(hover, v), "NONE")
    BY <1>2 DEF SetHidden
  <2> HIDE DEF h, v
  <2>4. HideGood(hide') /\ hide'.latest = v /\ ("LAUNCHER_HIDDEN" \in hide'.quirks <=> v)
    BY <2>1, <2>2, <2>3, HiddenSetGood
  <2> DEFINE m == HoverHiddenSet(hover, v)
  <2>5. HoverGood(m) /\ m.latest = hover.latest /\ ("LAUNCHER_HIDDEN" \in m.quirks <=> v)
    BY <2>1, HoverHiddenSetGood DEF Agree
  <2>6. HoverKeeps(m, m)
    BY <2>5 DEF HoverKeeps
  <2>7. HoverKeeps(m, hover')
    BY <2>3, <2>6, InActionKeeps
  <2> QED BY <2>1, <2>3, <2>4, <2>5, <2>7 DEF Agree, HoverKeeps
<1> QED BY <1>1, <1>2 DEF EmitShouldHideChanged

\* EmitShouldHoverChanged, with the SetHover it calls, keeps the agreement.
LEMMA EmitHoverStep == ASSUME Agree, EmitShouldHoverChanged PROVE Agree'
<1>1. HoverGood(hover')
  BY DEF Agree, HoverGood, HoverMachine, EmitShouldHoverChanged, HoverEmitting, WantsHover
<1>2. hover'.quirks = hover.quirks /\ hover'.latest = hover.shouldHover
  BY DEF Agree, HoverGood, HoverMachine, EmitShouldHoverChanged, HoverEmitting
<1>3. hovered' \in BOOLEAN /\ (hovered' => hover'.latest)
  BY <1>2 DEF Agree, HoverGood, HoverMachine, EmitShouldHoverChanged
<1> QED BY <1>1, <1>2, <1>3 DEF Agree, EmitShouldHoverChanged

-----------------------------------------------------------------------------
(* The rest of the state *)

\* A tick of the decay takes a natural number off, 0 included.
LEMMA PartialDecayType == PartialDecay \in Nat
<1>1. EdgeDecayRate \in Nat
  BY DecayAssumption DEF EdgeDecayRate
<1> QED BY <1>1 DEF PartialDecay

\* Every step keeps the types of the variables that are no machine.
LEMMA TypeRestStep == ASSUME Agree, TypeRest, [Next]_vars PROVE TypeRest'
<1> USE PressureAssumption DEF TypeRest, pressureVars, dragVars
<1>1. CASE UNCHANGED vars
  BY <1>1 DEF vars
<1>2. CASE EmitShouldHideChanged
  BY <1>2 DEF EmitShouldHideChanged, SetHidden, Actions
<1>3. CASE HideDelayTimeout \/ EmitShouldHoverChanged
  BY <1>3 DEF HideDelayTimeout, EmitShouldHoverChanged
<1>4. CASE RecvMouseEnter \/ RecvMouseLeave \/ UpdateChangeInMousePosition
  BY <1>4 DEF RecvMouseEnter, RecvMouseLeave, UpdateChangeInMousePosition
<1>5. CASE HandleBarrierEvent
  <2>1. PICK velocity \in 1 .. MaxVelocity : AddRevealPressure(velocity)
    BY <1>5 DEF HandleBarrierEvent
  <2>2. pressure' \in 0 .. RevealPressure
    <3>1. CASE pressure + velocity > RevealPressure
      <4>1. pressure' = 0
        BY <2>1, <3>1, Zenon DEF AddRevealPressure
      <4> QED BY <4>1
    <3>2. CASE ~(pressure + velocity > RevealPressure)
      <4>1. pressure' = pressure + velocity
        BY <2>1, <3>2, Zenon DEF AddRevealPressure
      <4> QED BY <3>2, <4>1
    <3> QED BY <3>1, <3>2
  <2>3. decaying' \in BOOLEAN
    BY <2>1, Zenon DEF AddRevealPressure, DecayStarted
  <2> QED BY <1>5, <2>2, <2>3 DEF HandleBarrierEvent
<1>6. CASE OnDecayTimeout
  <2>1. pressure' \in 0 .. RevealPressure /\ decaying' \in BOOLEAN
    BY <1>6, PartialDecayType DEF OnDecayTimeout
  <2> QED BY <1>6, <2>1 DEF OnDecayTimeout
<1>7. CASE Views
  <2>1. CASE \E overlay : OverlayHidden(overlay)
    BY <2>1 DEF OverlayHidden
  <2>2. CASE ForceReveal \/ ShowShortcuts \/ KeyNavMode \/ RecvQuicklistOpened \/ DashShown
    BY <2>2 DEF ForceReveal, ShowShortcuts, Super, KeyNavMode, RecvQuicklistOpened, DashShown
  <2>3. CASE RecvQuicklistClosed \/ HudShown \/ OnLockHideChanged \/ ViewChanged \/ SetHideMode
    BY <2>3 DEF RecvQuicklistClosed, HudShown, OnLockHideChanged, ViewChanged, SetHideMode, Actions
  <2> QED BY <1>7, <2>1, <2>2, <2>3 DEF Views, DashHidden, HudHidden, OverlayHiddenElsewhere
<1>8. CASE SlideLauncher \/ DndStarted
  BY <1>8 DEF SlideLauncher, DndStarted, Actions
<1>16. CASE IconDrags
  <2>1. \A trashed, inside : EndIconDrag(trashed, inside) => window' \in Windows
    BY DEF EndIconDrag, Windows
  <2>2. window' \in Windows /\ action' \in Actions
    BY <1>16, <2>1
       DEF IconDrags, StartIconDrag, DragRefused, RecvMouseUp, CancelDrag, OnDragWindowAnimCompleted, Windows, Actions
  <2> QED BY <1>16, <2>2 DEF IconDrags, StartIconDrag, DragRefused, RecvMouseUp, CancelDrag, OnDragWindowAnimCompleted
<1>9. CASE UnsetDndQuirk \/ DndFinished
  <2>1. CASE UnsetDndQuirk
    BY <2>1 DEF UnsetDndQuirk, Directions
  <2>2. CASE DndFinished
    BY <2>2 DEF DndFinished, Actions, Directions
  <2> QED BY <1>9, <2>1, <2>2
<1>10. CASE ProcessDndEnter \/ ProcessDndLeave \/ ProcessDndDrop
  <2>1. CASE ProcessDndEnter
    BY <2>1 DEF ProcessDndEnter, Directions
  <2>2. CASE ProcessDndLeave
    BY <2>2 DEF ProcessDndLeave, Actions
  <2>3. CASE ProcessDndDrop
    BY <2>3 DEF ProcessDndDrop, Actions
  <2> QED BY <1>10, <2>1, <2>2, <2>3
<1>11. CASE ProcessDndMove
  <2>1. dnd' \in [over : BOOLEAN, checked : BOOLEAN, touching : BOOLEAN]
    BY <1>11 DEF ProcessDndMove
  <2>2. /\ StartOrReverse(push, "FORWARD") \in [running : Directions, off : BOOLEAN]
        /\ StartOrReverse(push, "BACKWARD") \in [running : Directions, off : BOOLEAN]
    BY DEF StartOrReverse, Directions
  <2>3. action' \in Actions
    BY <1>11 DEF ProcessDndMove, Actions
  <2>4. push' \in [running : Directions, off : BOOLEAN]
    BY <1>11, <2>2 DEF ProcessDndMove
  <2> QED BY <1>11, <2>1, <2>3, <2>4 DEF ProcessDndMove
<1>12. CASE PushAnimated
  <2>1. (push.running = "FORWARD") \in BOOLEAN
    OBVIOUS
  <2>2. push' \in [running : Directions, off : BOOLEAN]
    BY <1>12, <2>1 DEF PushAnimated, Directions
  <2> QED BY <1>12, <2>2 DEF PushAnimated
<1>13. CASE Frame
  BY <1>13 DEF Frame
<1>14. CASE OnDragStart
  <2>1. (~hidden) \in BOOLEAN
    BY DEF Agree
  <2> QED BY <1>14, <2>1 DEF OnDragStart
<1>15. CASE OnDragUpdate \/ OnDragFinish
  BY <1>15 DEF OnDragUpdate, OnDragFinish
<1> QED BY <1>1, <1>2, <1>3, <1>4, <1>5, <1>6, <1>7, <1>8, <1>9, <1>10, <1>11, <1>12, <1>13, <1>14, <1>15, <1>16
        DEF Next, Machines, Pointer, Drags, IconDrags

\* Every step that leaves pressure leaves the timer running.
LEMMA PressureDecaysStep == ASSUME TypeRest, PressureDecays, [Next]_vars PROVE PressureDecays'
<1>1. CASE HandleBarrierEvent
  <2>1. PICK velocity \in 1 .. MaxVelocity : AddRevealPressure(velocity)
    BY <1>1 DEF HandleBarrierEvent
  <2>2. pressure + velocity > 0
    BY PressureAssumption DEF TypeRest
  <2>3. decaying'
    BY <2>1, <2>2, Zenon DEF AddRevealPressure, DecayStarted
  <2> QED BY <2>3 DEF PressureDecays
<1>2. CASE OnDecayTimeout
  <2>1. CASE pressure > PartialDecay
    BY <1>2, <2>1, Zenon DEF OnDecayTimeout, PressureDecays
  <2>2. CASE ~(pressure > PartialDecay)
    <3>1. pressure' = 0
      BY <1>2, <2>2 DEF OnDecayTimeout
    <3> QED BY <3>1 DEF PressureDecays
  <2> QED BY <2>1, <2>2
<1>3. CASE UNCHANGED pressureVars
  BY <1>3 DEF pressureVars, PressureDecays
<1>4. HandleBarrierEvent \/ OnDecayTimeout \/ UNCHANGED pressureVars
  <2>1. CASE UNCHANGED vars \/ Machines
    BY <2>1 DEF vars, pressureVars, Machines, EmitShouldHideChanged, SetHidden, HideDelayTimeout, EmitShouldHoverChanged
  <2>2. CASE Pointer
    BY <2>2 DEF Pointer, pressureVars, RecvMouseEnter, RecvMouseLeave, UpdateChangeInMousePosition
  <2>3. CASE Views
    BY <2>3 DEF Views, pressureVars, ForceReveal, ShowShortcuts, Super, KeyNavMode, RecvQuicklistOpened,
      RecvQuicklistClosed, DashShown, DashHidden, HudShown, HudHidden, OverlayHiddenElsewhere, OverlayHidden,
      OnLockHideChanged, ViewChanged, SetHideMode
  <2>4. CASE Drags
    BY <2>4 DEF Drags, pressureVars, SlideLauncher, StartIconDrag, DragRefused, RecvMouseUp, CancelDrag,
      OnDragWindowAnimCompleted, DndStarted, UnsetDndQuirk,
      DndFinished, ProcessDndEnter, ProcessDndMove, ProcessDndLeave, ProcessDndDrop, PushAnimated, Frame,
      OnDragStart, OnDragUpdate, OnDragFinish
  <2> QED BY <2>1, <2>2, <2>3, <2>4 DEF Next
<1> QED BY <1>1, <1>2, <1>3, <1>4

-----------------------------------------------------------------------------
(* The invariant *)

\* The invariant holds of a launcher that was just created,
LEMMA InitIInv == Init => IInv
<1> SUFFICES ASSUME Init PROVE IInv
  OBVIOUS
<1>1. /\ HideGood(hide)
      /\ hide.latest = NewHideMachine.latest /\ hide.quirks = NewHideMachine.quirks
  <2>1. CASE NewHideMachine.mode = StartMode
    BY <2>1 DEF Init, SetMode, NewHideMachine, HideGood, HideMachine, HideModes, WantsHidden, LockedHidden
  <2>2. CASE NewHideMachine.mode # StartMode
    <3> DEFINE g == [NewHideMachine EXCEPT !.mode = StartMode]
    <3>1. /\ g \in HideMachine /\ g.shouldHide = g.latest
          /\ g.latest = NewHideMachine.latest /\ g.quirks = NewHideMachine.quirks
      BY ModeAssumption DEF NewHideMachine, HideMachine, HideModes
    <3>2. hide = EnsureHideState(g, TRUE)
      BY <2>2 DEF Init, SetMode
    <3> HIDE DEF g
    <3> QED BY <3>1, <3>2, EnsureGood
  <2> QED BY <2>1, <2>2
<1>2. HoverGood(hover)
  BY DEF Init, NewHoverMachine, HoverGood, HoverMachine, WantsHover
<1>3. Agree
  BY <1>1, <1>2 DEF Init, Agree, NewHideMachine, NewHoverMachine
<1>4. TypeRest
  <2>1. 0 \in 0 .. RevealPressure
    BY PressureAssumption
  <2> QED BY <2>1 DEF Init, TypeRest, Actions, Directions, Windows
<1>5. PressureDecays
  BY DEF Init, PressureDecays
<1> QED BY <1>3, <1>4, <1>5 DEF IInv

\* and every step keeps it.
LEMMA NextIInv == IInv /\ [Next]_vars => IInv'
<1> SUFFICES ASSUME IInv, [Next]_vars PROVE IInv'
  OBVIOUS
<1>1. Agree'
  <2>1. CASE UNCHANGED vars
    BY <2>1 DEF IInv, Agree, vars
  <2>2. CASE Machines
    BY <2>2, EmitHideStep, EmitHoverStep, TimeoutStep, InputKeepsAgree DEF IInv, Machines
  <2>3. CASE Pointer
    BY <2>3, PointerStep, InputKeepsAgree DEF IInv
  <2>4. CASE Views
    BY <2>4, ViewsStep, InputKeepsAgree DEF IInv
  <2>5. CASE Drags
    BY <2>5, DragsStep, InputKeepsAgree DEF IInv
  <2> QED BY <2>1, <2>2, <2>3, <2>4, <2>5 DEF Next
<1>2. TypeRest' /\ PressureDecays'
  BY TypeRestStep, PressureDecaysStep DEF IInv
<1> QED BY <1>1, <1>2 DEF IInv

\* The launcher and its machines agree in every reachable state.
THEOREM Invariance == Spec => []IInv
BY InitIInv, NextIInv, PTL DEF Spec

\* Every variable of the launcher keeps its type.
THEOREM TypeCorrect == Spec => []TypeOK
<1>1. IInv => TypeOK
  BY DEF IInv, Agree, TypeRest, TypeOK, HideGood, HoverGood
<1> QED BY <1>1, Invariance, PTL

\* What the hide machine has decided, and what the launcher knows of it, follows
\* from its quirks: every hide that is owed has its timeout or its idle source.
THEOREM DecisionAlwaysCurrent == Spec => []DecisionIsCurrent
<1>1. IInv => DecisionIsCurrent
  BY DEF IInv, Agree, DecisionIsCurrent, HideGood, HideMachine
<1> QED BY <1>1, Invariance, PTL

\* A hidden launcher is not hovered, once the hover machine has spoken.
THEOREM HiddenUnhovered == Spec => []NoHoverWhileHidden
<1>1. IInv => NoHoverWhileHidden
  BY DEF IInv, Agree, NoHoverWhileHidden, HoverGood, HoverMachine, WantsHover
<1> QED BY <1>1, Invariance, PTL

\* Pressure on the edge decays.
THEOREM PressureAlwaysDecays == Spec => []PressureDecays
<1>1. IInv => PressureDecays
  BY DEF IInv
<1> QED BY <1>1, Invariance, PTL

\* Only the emission hides or reveals the launcher.
LEMMA HiddenChanges ==
  ASSUME Agree, TypeRest, [Next]_vars, hidden' # hidden
  PROVE  hide.shouldHide # hide.latest /\ hidden' = hide.shouldHide
<1>1. CASE EmitShouldHideChanged
  BY <1>1 DEF EmitShouldHideChanged, SetHidden
<1>2. CASE HideDelayTimeout \/ EmitShouldHoverChanged \/ UNCHANGED vars
  BY <1>2 DEF HideDelayTimeout, EmitShouldHoverChanged, vars
<1>3. CASE Pointer \/ Views \/ Drags
  BY <1>3, PointerStep, ViewsStep, DragsStep DEF InputStep
<1> QED BY <1>1, <1>2, <1>3 DEF Next, Machines

\* The launcher hides only when nothing holds it open at that very moment, a
\* drag has pushed it off or the HUD locks it out.
THEOREM OnlyUnheldHides == Spec => HidesOnlyUnheld
<1> DEFINE Unheld == /\ hide.mode # "HIDE_NEVER"
                     /\ LockedHidden(hide) \/ PushedOff(hide) \/ hide.quirks \cap ShouldShowQuirk(hide) = {}
           Act == ~hidden /\ hidden' => Unheld
<1>1. IInv /\ [Next]_vars => [Act]_vars
  <2> SUFFICES ASSUME IInv, [Next]_vars, ~hidden, hidden' PROVE Unheld
    BY DEF Act
  <2>1. hidden \in BOOLEAN /\ hidden' \in BOOLEAN
    BY NextIInv DEF IInv, Agree
  <2>2. hide.shouldHide
    BY <2>1, HiddenChanges DEF IInv
  <2>3. WantsHidden(hide)
    BY <2>2 DEF IInv, Agree, HideGood
  <2> QED BY <2>3 DEF WantsHidden, LockedHidden
<1>2. Spec => [][Act]_vars
  BY <1>1, Invariance, PTL DEF Spec
<1> QED BY <1>2 DEF HidesOnlyUnheld

\* No reveal brings the launcher up while the HUD locks it out.
THEOREM LockHideAlwaysWins == Spec => LockHideWins
<1> DEFINE Act == hidden /\ ~hidden' => ~LockedHidden(hide)
<1>1. IInv /\ [Next]_vars => [Act]_vars
  <2> SUFFICES ASSUME IInv, [Next]_vars, hidden, ~hidden' PROVE ~LockedHidden(hide)
    BY DEF Act
  <2>1. ~hide.shouldHide
    BY HiddenChanges DEF IInv
  <2> QED BY <2>1 DEF IInv, Agree, HideGood
<1>2. Spec => [][Act]_vars
  BY <1>1, Invariance, PTL DEF Spec
<1> QED BY <1>2 DEF LockHideWins
=============================================================================
