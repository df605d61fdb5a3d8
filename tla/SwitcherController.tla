-------------------------- MODULE SwitcherController --------------------------
(* The application switcher: launcher/SwitcherController.cpp with its model, and the key
   bindings of plugins/unityshell/src/unityshell.cpp.

   Abstracted: priorities do not change; the windows of an application are all on the
   viewport or all away from it; timeout_length is 0, as in the plugin, so that the view
   is built at once; low graphics mode, where nothing fades; the mouse over windows. *)
EXTENDS SwitcherModel

CONSTANTS MaxIcons,     \* bound: applications of the launcher
          MaxWindows,   \* bound: windows of an application
          StartIndex,   \* 0 if there is no desktop icon in the switcher (show_desktop_disabled)
          RowsStray     \* whether what RowKept rules out may happen

ASSUME SwitcherAssumption ==
  /\ MaxIcons \in Nat \ {0} /\ MaxWindows \in Nat \ {0} /\ StartIndex \in {0, 1}
  /\ RowsStray \in BOOLEAN

Icons == 1..MaxIcons

VARIABLES icons,    \* e of SwitcherModel, and which icons are in the launcher
          model,    \* model_
          visible,  \* visible_
          view,     \* "none", "current", or "stale": it shows the model before this one
          fade,     \* where the fade is, and whether it runs: "out", "in", "falling", "rising"
          timer     \* DETAIL_TIMEOUT

vars == <<icons, model, visible, view, fade, timer>>

NoModel == [applications |-> <<>>, hidden |-> {}, index |-> 0, last_active |-> NoIcon,
            only_apps_on_viewport |-> TRUE, detail |-> FALSE, detail_index |-> 0,
            xids |-> <<>>, rows |-> <<>>, row |-> 0]

TypeOK ==
  /\ icons.known \subseteq Icons /\ icons.running \subseteq Icons /\ icons.away \subseteq Icons
  /\ icons.windows \in [Icons -> SUBSET (1..MaxWindows)]
  /\ icons.active \in Icons \cup {NoIcon}
  /\ Connected(model) \subseteq Icons /\ IsInjective(model.applications)
  /\ ToSet(model.applications) \cap model.hidden = {}
  /\ model.index \in Nat /\ model.detail_index \in Nat /\ model.row \in Nat
  /\ visible \in BOOLEAN /\ timer \in BOOLEAN
  /\ view \in {"none", "current", "stale"}
  /\ fade \in {"out", "in", "falling", "rising"}

Init ==
  /\ icons \in [known : {Icons}, running : {Icons}, away : SUBSET Icons,
                windows : {[i \in Icons |-> 1..MaxWindows]}, active : {1, NoIcon}]
  /\ model = NoModel /\ visible = FALSE /\ view = "none" /\ fade = "out" /\ timer = FALSE

-----------------------------------------------------------------------------
(* Steps of the controller *)

\* The rows the view makes of n windows: as equal as can be, in any order
Layouts(n) ==
  {<<n>>} \cup {r \in UNION {[1..k -> 1..n] : k \in 1..n} :
                  /\ TotalAbove(r, Len(r)) = n
                  /\ \A j, k \in DOMAIN r : r[j] - r[k] \in {-1, 0, 1}}

\* The view lays out the windows of its model before it is drawn
Laid(m, shown) ==
  IF shown = "stale" THEN {m} ELSE {[m EXCEPT !.rows = r] : r \in Layouts(Len(m.xids))}

\* Mutant: the fade in goes on
HideModelShowing(m) ==
  /\ visible' = FALSE /\ timer' = FALSE
  /\ model' = m
  /\ UNCHANGED <<view, fade>>

HideModel(m) ==
  /\ visible' = FALSE /\ timer' = FALSE
  /\ fade' = IF fade = "out" THEN "out" ELSE "falling"
  /\ model' = m
  /\ UNCHANGED view

\* The model has this new state.  It tells when its selection is another, which starts
\* the timer, and when it was updated, which hides a switcher with nothing in it
Changed(m, told, updated) ==
  \/ updated /\ m.applications = <<>> /\ HideModel(m)
  \/ /\ updated => m.applications # <<>>
     /\ timer' = (told \/ (timer /\ m.detail = model.detail))
     /\ model' \in IF m.xids = model.xids THEN {m} ELSE Laid(m, view)
     /\ UNCHANGED <<visible, view, fade>>

Moved(m) == Changed(m, TRUE, FALSE)

\* SetDetail with this least number of windows
Detailed(m, value, min_windows) ==
  SetDetailSelection(icons, m,
    value /\ Selection(m) # NoIcon /\ Len(SelectionWindows(icons, m)) >= min_windows)

\* SelectFirstItem: the second application, or the first if a second window of it was
\* used after the second application
First(m) ==
  IF At(m, StartIndex) = NoIcon THEN {SelectClamped(icons, m, 0)}
  ELSE IF At(m, StartIndex + 1) = NoIcon THEN {SelectClamped(icons, m, 1)}
  ELSE {Select(icons, m, StartIndex), Select(icons, m, StartIndex + 1)}

\* Every icon of the launcher goes into the model
FreshModel(current) == NewModel(icons, icons.known, current)

\* altTabInitiateCommon, CanShowSwitcher, Show and ShowView, with one of these models
ShowWith(models) ==
  /\ ~visible /\ icons.known # {}
  /\ view' = IF view = "none" THEN "current" ELSE "stale"
  /\ model' \in models
  /\ visible' = TRUE /\ timer' = ~model'.detail
  /\ fade' = IF fade = "in" THEN "in" ELSE "rising"
  /\ UNCHANGED icons

Show(current) ==
  /\ FreshModel(current).applications # <<>>
  /\ ShowWith(First(FreshModel(current)))

\* Nothing to be shown: the model goes, also from under a view that fades out
ShowNothing ==
  /\ ~visible /\ icons.known # {}
  /\ \E current \in BOOLEAN : FreshModel(current).applications = <<>>
  /\ model' = NoModel
  /\ UNCHANGED <<icons, visible, view, fade, timer>>

\* Alt+` while it is hidden: the windows of the first application
ShowWindows ==
  LET first == Detailed(SelectClamped(icons, FreshModel(TRUE), StartIndex), TRUE, 1)
  IN /\ FreshModel(TRUE).applications # <<>>
     /\ ShowWith(IF first.detail THEN Laid(first, view') ELSE {first})

\* altTabTerminateCommon
Hide ==
  /\ visible
  /\ HideModel(model)
  /\ UNCHANGED icons

\* fade_animator_ at its end, and HideWindow
FadeFinished ==
  \/ /\ fade = "rising" /\ fade' = "in"
     /\ UNCHANGED <<icons, model, visible, view, timer>>
  \/ /\ fade = "falling" /\ fade' = "out"
     /\ ~visible
     /\ model' = NoModel /\ view' = "none"
     /\ UNCHANGED <<icons, visible, timer>>

\* Alt+Tab: through the windows of an application, then on to the next one
NextSelection ==
  /\ visible
  /\ IF model.detail /\ (model.xids = <<>> \/ model.detail_index < Len(model.xids) - 1)
     THEN Changed(NextDetail(model), FALSE, FALSE)
     ELSE Moved(Next(icons, model))
  /\ UNCHANGED icons

PrevSelection ==
  /\ visible
  /\ IF model.detail /\ model.detail_index > 0
     THEN Changed(PrevDetail(model), FALSE, FALSE)
     ELSE Moved(Prev(icons, model))
  /\ UNCHANGED icons

\* The mouse on an icon
SelectIcon(n) ==
  /\ visible /\ n < Size(model) /\ n # model.index
  /\ Moved(Select(icons, model, n))
  /\ UNCHANGED icons

OnDetailTimer ==
  /\ timer
  /\ timer' = FALSE
  /\ IF visible /\ ~model.detail
     THEN LET m == Detailed(model, TRUE, 2) IN model' \in IF m.detail THEN Laid(m, view) ELSE {m}
     ELSE UNCHANGED model
  /\ UNCHANGED <<icons, visible, view, fade>>

\* Down.  With no window left the code divides by zero (NextDetailRow)
StartDetailMode ==
  /\ visible
  /\ model.detail => model.xids # <<>>
  /\ IF model.detail /\ HasNextDetailRow(model)
     THEN Changed(NextDetailRow(model), FALSE, FALSE)
     ELSE Changed(Detailed(model, TRUE, 1), FALSE, FALSE)
  /\ UNCHANGED icons

StopDetailMode ==
  /\ visible
  /\ IF model.detail /\ HasPrevDetailRow(model)
     THEN model.row < Len(model.rows) /\ Changed(PrevDetailRow(model), FALSE, FALSE)
     ELSE Changed(Detailed(model, FALSE, 1), FALSE, FALSE)
  /\ UNCHANGED icons

\* Alt+`
AltTabNextWindow ==
  /\ visible
  /\ Changed(IF model.detail THEN NextDetail(model) ELSE Detailed(model, TRUE, 1), FALSE, FALSE)
  /\ UNCHANGED icons

\* The row that goes with a window is only looked up in the layout there was: it strays
\* when the layout or the window changes without it
RowKept ==
  \/ RowsStray \/ view = "stale"
  \/ model'.xids = <<>> /\ model'.row = 0
  \/ InRow(model')

\* The other way it goes into the details by itself
AltTabPrevWindow ==
  /\ visible
  /\ Changed(PrevDetail(IF model.detail THEN model ELSE Detailed(model, TRUE, 1)), FALSE, FALSE)
  /\ RowKept
  /\ UNCHANGED icons

\* The mouse on a window
SelectWindow(n) ==
  /\ visible /\ model.detail /\ n < Len(model.xids)
  /\ Changed([model EXCEPT !.detail_index = n], FALSE, FALSE)
  /\ RowKept
  /\ UNCHANGED icons

\* The mouse beside the windows.  Which window was selected is not forgotten
LeaveDetail ==
  /\ visible /\ model.detail
  /\ ~RowsStray => model.detail_index = 0 /\ model.row = 0
  /\ Changed(SetDetailSelection(icons, model, FALSE), FALSE, FALSE)
  /\ UNCHANGED icons

-----------------------------------------------------------------------------
(* Icons and windows *)

\* A quirk of an icon.  Only a model that knows the icon hears of it
QuirksChange(i, new) ==
  /\ icons' = new
  /\ IF i \notin Connected(model) THEN UNCHANGED <<model, visible, view, fade, timer>>
     ELSE LET m == OnIconQuirksChanged(new, model)
          IN Changed(m, Selection(m) # Selection(model), VerifyApplications(new, model) # model)

ApplicationStops(i) ==
  /\ i \in icons.running /\ icons.windows[i] = {}
  /\ QuirksChange(i, [icons EXCEPT !.running = @ \ {i}, !.active = IF @ = i THEN NoIcon ELSE @])

ApplicationStarts(i) ==
  /\ i \in icons.known \ icons.running
  /\ QuirksChange(i, [icons EXCEPT !.running = @ \cup {i}, !.windows[i] = {1}])

ActiveChanges(i) ==
  /\ icons.active # i
  /\ i = NoIcon \/ i \in icons.running
  /\ QuirksChange(IF i = NoIcon THEN icons.active ELSE i, [icons EXCEPT !.active = i])

\* The icon tells how many windows it has on the viewport; they are numbered anew
WindowsChange(i, n) ==
  /\ i \in icons.running /\ 1..n # icons.windows[i]
  /\ icons' = [icons EXCEPT !.windows[i] = 1..n]
  /\ IF i \in icons.away \/ i \notin Connected(model) THEN UNCHANGED <<model, visible, view, fade, timer>>
     ELSE Changed(OnIconWindowsUpdated(icons', model, i), FALSE, TRUE)
  /\ RowKept

\* The launcher tells a visible switcher of its icons
LauncherAddsIcon(i) ==
  /\ i \notin icons.known
  /\ icons' = [icons EXCEPT !.known = @ \cup {i}, !.running = @ \cup {i}, !.windows[i] = {1}]
  /\ IF ~visible THEN UNCHANGED <<model, visible, view, fade, timer>>
     ELSE Changed(AddIcon(icons', model, i), FALSE, TRUE)

LauncherRemovesIcon(i) ==
  /\ i \in icons.known \ icons.running
  /\ icons' = [icons EXCEPT !.known = @ \ {i}]
  /\ IF ~visible THEN UNCHANGED <<model, visible, view, fade, timer>>
     ELSE Changed(RemoveIcon(icons', model, i), FALSE, Contains(model.applications, i))

NextStep ==
  \/ (\E current \in BOOLEAN : Show(current)) \/ ShowNothing \/ ShowWindows
  \/ Hide \/ FadeFinished
  \/ NextSelection \/ PrevSelection \/ (\E n \in 0..(MaxIcons - 1) : SelectIcon(n))
  \/ (\E n \in 0..(MaxWindows - 1) : SelectWindow(n)) \/ LeaveDetail
  \/ OnDetailTimer \/ StartDetailMode \/ StopDetailMode \/ AltTabNextWindow \/ AltTabPrevWindow
  \/ \E i \in Icons :
       \/ ApplicationStops(i) \/ ApplicationStarts(i)
       \/ LauncherAddsIcon(i) \/ LauncherRemovesIcon(i)
       \/ \E n \in 0..MaxWindows : WindowsChange(i, n)
  \/ \E i \in Icons \cup {NoIcon} : ActiveChanges(i)

Spec == Init /\ [][NextStep]_vars

\* An animation runs to its end
FairSpec == Spec /\ WF_vars(FadeFinished)

-----------------------------------------------------------------------------
(* Properties *)

\* A visible switcher has a selected application.
SelectionValid == visible => Selection(model) # NoIcon

\* Nothing but the user takes the selection from an application that stays in the
\* switcher.
SelectionKept ==
  [][icons' # icons /\ visible /\ Contains(model'.applications, Selection(model))
       => Selection(model') = Selection(model)]_vars

\* The windows to choose from are those of the selected application, and the chosen one
\* is one of them.
DetailCurrent ==
  visible /\ model.detail =>
    /\ Selection(model) \notin icons.away => ToSet(model.xids) = icons.windows[Selection(model)]
    /\ model.xids # <<>> => model.detail_index < Len(model.xids)

\* A key that moves among the windows of the layout keeps to it: the row goes with the
\* selected window.
RowFollows ==
  [][visible /\ model.detail /\ model'.detail /\ model'.rows = model.rows /\ icons' = icons
       /\ model.xids # <<>> /\ InRow(model) => InRow(model')]_vars

\* A hidden switcher lets its view and model go, unless it is shown again.
Releases == ~visible ~> (visible \/ (view = "none" /\ model = NoModel))
=============================================================================
