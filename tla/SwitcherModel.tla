---------------------------- MODULE SwitcherModel ----------------------------
(* launcher/SwitcherModel.cpp: the applications of the switcher and what is selected, as
   operators on a record m with the fields
     applications, hidden  what is in the switcher, and what would be if it had to be shown
     index                 the selected application, from 0
     last_active           the active application, or NoIcon
     only_apps_on_viewport
     detail, detail_index  a window of the selected application is selected, and which
     xids                  those windows, as they were when they were last looked at
     rows, row             how the view lays them out, and the row of the selected one
   and a record e of the icons: running, away (windows on another viewport), windows,
   active.

   Icons are numbers, the one that was used last first, and a higher window is one that
   was used later.  Signals are in SwitcherController. *)
EXTENDS Integers, Sequences, FiniteSets, SequencesExt

NoIcon == 0

\* Numbers by size
InOrder(S) == CHOOSE s \in SetToSeqs(S) : \A i, j \in DOMAIN s : i < j => s[i] < s[j]

\* Icons that are hidden, and what UpdateLastActiveApplication finds
ShowInSwitcher(e, i, current) ==
  i \in e.running /\ (current => i \notin e.away /\ e.windows[i] # {})

Size(m) == Len(m.applications)
At(m, n) == IF n < Size(m) THEN m.applications[n + 1] ELSE NoIcon
Selection(m) == At(m, m.index)
Connected(m) == ToSet(m.applications) \cup m.hidden

UpdateLastActiveApplication(e, m) ==
  IF Contains(m.applications, e.active) THEN [m EXCEPT !.last_active = e.active] ELSE m

-----------------------------------------------------------------------------
(* Windows of the selected application *)

\* By use, the latest first; of the active application, that one last
SelectionWindows(e, m) ==
  LET i     == Selection(m)
      found == IF i = NoIcon \/ (m.only_apps_on_viewport /\ i \in e.away) THEN {} ELSE e.windows[i]
      all   == Reverse(InOrder(found))
  IN IF m.xids # <<>> THEN m.xids
     ELSE IF all # <<>> /\ i = m.last_active THEN Append(Tail(all), Head(all))
     ELSE all

UpdateDetailXids(e, m) ==
  LET none == [m EXCEPT !.xids = <<>>]
  IN IF m.detail THEN [none EXCEPT !.xids = SelectionWindows(e, none)] ELSE none

SetDetailSelection(e, m, value) ==
  IF m.detail = value THEN m ELSE UpdateDetailXids(e, [m EXCEPT !.detail = value])

UnsetDetailSelection(e, m) == [SetDetailSelection(e, m, FALSE) EXCEPT !.detail_index = 0, !.row = 0]

\* The windows of the first n rows
TotalAbove(rows, n) == LET sum[k \in 0..Len(rows)] == IF k = 0 THEN 0 ELSE sum[k - 1] + rows[k] IN sum[n]

\* The row of the selected window, if the view knows one
UpdateRowIndex(m) ==
  LET rows == {r \in DOMAIN m.rows : m.detail_index < TotalAbove(m.rows, r)}
  IN IF rows = {} THEN m ELSE [m EXCEPT !.row = Min(rows) - 1]

\* The selected window is in the selected row of the layout
InRow(m) ==
  /\ m.row < Len(m.rows)
  /\ LET before == TotalAbove(m.rows, m.row)
     IN m.detail_index \in before..(before + m.rows[m.row + 1] - 1)

NextDetail(m) ==
  IF ~m.detail \/ m.xids = <<>> THEN m
  ELSE UpdateRowIndex([m EXCEPT !.detail_index = (@ + 1) % Len(m.xids)])

PrevDetail(m) ==
  IF ~m.detail \/ m.xids = <<>> THEN m
  ELSE UpdateRowIndex([m EXCEPT !.detail_index = (IF @ > 0 THEN @ ELSE Len(m.xids)) - 1])

HasNextDetailRow(m) == m.detail_index < Len(m.xids) - 1
HasPrevDetailRow(m) == m.detail_index > 0

DetailIndexInLeftHalfOfRow(m) ==
  m.detail_index - TotalAbove(m.rows, m.row) < m.rows[m.row + 1] \div 2

\* Mutant: always by the size of this row
NextDetailRowThisSize(m) ==
  IF m.row < Len(m.rows) - 1
  THEN [m EXCEPT !.detail_index = @ + m.rows[m.row + 1], !.row = @ + 1]
  ELSE [m EXCEPT !.detail_index = (@ + 1) % Len(m.xids)]

NextDetailRow(m) ==
  IF m.row < Len(m.rows) - 1
  THEN [m EXCEPT !.detail_index = @ + (IF DetailIndexInLeftHalfOfRow(m) THEN m.rows[m.row + 1] ELSE m.rows[m.row + 2]),
                 !.row = @ + 1]
  ELSE [m EXCEPT !.detail_index = (@ + 1) % Len(m.xids)]

PrevDetailRow(m) ==
  IF m.row > 0
  THEN [m EXCEPT !.detail_index = @ - (IF DetailIndexInLeftHalfOfRow(m) THEN m.rows[m.row] ELSE m.rows[m.row + 1]),
                 !.row = @ - 1]
  ELSE [m EXCEPT !.detail_index = (IF @ > 0 THEN @ ELSE Len(m.xids)) - 1]

-----------------------------------------------------------------------------
(* Applications *)

NextIndex(m) == IF m.applications = <<>> THEN m ELSE [m EXCEPT !.index = (@ + 1) % Size(m)]
PrevIndex(m) ==
  IF m.applications = <<>> THEN m
  ELSE [m EXCEPT !.index = (IF @ > 0 /\ @ < Size(m) THEN @ ELSE Size(m)) - 1]

Next(e, m) == UnsetDetailSelection(e, NextIndex(m))
Prev(e, m) == UnsetDetailSelection(e, PrevIndex(m))

Select(e, m, n) == IF n = m.index THEN m ELSE UnsetDetailSelection(e, [m EXCEPT !.index = n])
SelectClamped(e, m, n) == Select(e, m, IF n > Size(m) - 1 THEN Size(m) - 1 ELSE n)

\* Mutant: an icon in the place of the selected one takes the selection
InsertIconBehind(m, i) ==
  LET at == Cardinality({j \in ToSet(m.applications) : j < i})
      added == [m EXCEPT !.applications = InsertAt(@, at + 1, i)]
  IN IF at < m.index THEN NextIndex(added) ELSE added

\* By priority.  The selection moves with its icon
InsertIcon(m, i) ==
  LET at == Cardinality({j \in ToSet(m.applications) : j < i})
      added == [m EXCEPT !.applications = InsertAt(@, at + 1, i)]
  IN IF at <= m.index THEN NextIndex(added) ELSE added

\* Mutant: the selection may be left behind the last one
EraseBehindLast(e, m, i) ==
  LET at     == SelectInSeq(m.applications, LAMBDA j : j = i) - 1
      erased == [m EXCEPT !.applications = RemoveAt(@, at + 1)]
      moved  == IF at < m.index THEN PrevIndex(erased) ELSE erased
  IN IF m.detail /\ at = m.index THEN UnsetDetailSelection(e, moved) ELSE moved

\* What VerifyApplications and RemoveIcon do for one icon
Erase(e, m, i) ==
  LET at     == SelectInSeq(m.applications, LAMBDA j : j = i) - 1
      erased == [m EXCEPT !.applications = RemoveAt(@, at + 1)]
      moved  == IF at < m.index \/ m.index = Size(erased) THEN PrevIndex(erased) ELSE erased
  IN IF m.detail /\ at = m.index THEN UnsetDetailSelection(e, moved) ELSE moved

\* One round of each of the two loops of VerifyApplications
HideIcon(e, m, i) ==
  IF ShowInSwitcher(e, i, m.only_apps_on_viewport) THEN m
  ELSE [Erase(e, m, i) EXCEPT !.hidden = @ \cup {i}]

ShowIcon(m, i) == InsertIcon([m EXCEPT !.hidden = @ \ {i}], i)

HideIcons(e, m) == FoldLeft(LAMBDA x, i : HideIcon(e, x, i), m, m.applications)
ShowIcons(m, icons) == FoldLeft(ShowIcon, m, InOrder(icons))

VerifyApplications(e, m) ==
  LET current == m.only_apps_on_viewport
      less    == HideIcons(e, m)
      shown   == ShowIcons(less, {i \in less.hidden : ShowInSwitcher(e, i, current)})
  IN IF \A i \in Connected(m) : ShowInSwitcher(e, i, current) <=> i \notin m.hidden THEN m
     ELSE IF m.last_active = NoIcon \/ ~ShowInSwitcher(e, m.last_active, current)
          THEN UpdateLastActiveApplication(e, shown)
     ELSE shown

AddIcon(e, m, i) ==
  IF ShowInSwitcher(e, i, m.only_apps_on_viewport)
  THEN LET active == IF i = e.active THEN [m EXCEPT !.last_active = i] ELSE m
       IN IF Contains(m.applications, i) THEN active ELSE InsertIcon(active, i)
  ELSE [m EXCEPT !.hidden = @ \cup {i}]

RemoveIcon(e, m, i) ==
  IF Contains(m.applications, i)
  THEN LET gone == [m EXCEPT !.applications = RemoveFirst(@, i)]
           last == IF i = m.last_active THEN UpdateLastActiveApplication(e, gone).last_active ELSE m.last_active
       IN [Erase(e, m, i) EXCEPT !.last_active = last]
  ELSE [m EXCEPT !.hidden = @ \ {i}]

OnIconQuirksChanged(e, m) ==
  LET verified == VerifyApplications(e, m)
  IN IF Selection(m) = verified.last_active THEN UpdateLastActiveApplication(e, verified) ELSE verified

\* Mutant: the windows that were looked at stay
OnIconWindowsUpdatedCached(e, m, i) ==
  LET last == Len(m.xids) - 1
  IN IF ~m.detail \/ i # Selection(m) THEN m
     ELSE IF m.detail_index > last THEN [m EXCEPT !.detail_index = IF last < 0 THEN 0 ELSE last] ELSE m

OnIconWindowsUpdated(e, m, i) ==
  LET fresh == UpdateDetailXids(e, m)
      last  == Len(fresh.xids) - 1
  IN IF ~m.detail \/ i # Selection(m) THEN m
     ELSE IF fresh.detail_index > last THEN [fresh EXCEPT !.detail_index = IF last < 0 THEN 0 ELSE last]
     ELSE fresh

\* A new model looks at the viewport first, whatever it is to show
NewModel(e, icons, current) ==
  LET shown == {i \in icons : ShowInSwitcher(e, i, TRUE)}
      m     == UpdateLastActiveApplication(e,
                 [applications |-> InOrder(shown), hidden |-> icons \ shown, index |-> 0,
                  last_active |-> NoIcon, only_apps_on_viewport |-> TRUE,
                  detail |-> FALSE, detail_index |-> 0, xids |-> <<>>, rows |-> <<>>, row |-> 0])
  IN IF current THEN m ELSE VerifyApplications(e, [m EXCEPT !.only_apps_on_viewport = FALSE])
=============================================================================
