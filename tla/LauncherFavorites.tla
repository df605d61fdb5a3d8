-------------------------- MODULE LauncherFavorites --------------------------
(* What is on the launcher, in which order, and what the favorites say about it:
   launcher/LauncherController.cpp (registration, favorites, priorities), the life of an
   application's icon (launcher/ApplicationLauncherIcon.cpp, launcher/LauncherIcon.cpp),
   launcher/FavoriteStoreGSettings.cpp and the icon drags of launcher/Launcher.cpp.

   Abstracted: an icon is <<application, n>>; priorities count from sort_priority_, which
   only grows; the icons at the ends of the launcher are not in the model (LauncherModel),
   and an icon that is to go next to the home icon is not reordered.  Volumes and the
   entry of the favorites that stands for them are left out. *)
EXTENDS LauncherModel

CONSTANTS Applications,
          MaxIcons,     \* bound: icons at a time
          MaxPriority,  \* bound: how far priorities drift between two saves
          Inputs        \* what users and other programs do

RUNNING_APPS_URI == "unity://running-apps"

ASSUME FavoritesAssumption ==
  /\ Applications # {} /\ IsFiniteSet(Applications) /\ RUNNING_APPS_URI \notin Applications
  /\ MaxIcons \in Nat \ {0} /\ MaxPriority \in Nat \ {0}
  /\ Inputs \subseteq {"stick", "drag", "request", "add", "beside", "remove", "move", "races"}

\* An application's icon, and one more while that leaves
Icons == Applications \X (1..2)
Uris == Applications \cup {RUNNING_APPS_URI}
NoDrag == [icon |-> NullIcon]
GoneIcon == <<"gone", 0>>

VARIABLES launcher,   \* the model, the icons and the applications
          favorites,  \* FavoriteStore
          drag        \* the icon drag of a launcher

vars == <<launcher, favorites, drag>>

TypeOK ==
  /\ launcher \in [inner : Seq(Icons), priority : [Icons -> Int], given : Nat,
                   stuck : SUBSET Icons, visible : SUBSET Icons, removed : SUBSET Icons,
                   closing : SUBSET Icons, running : SUBSET Applications,
                   sticky : SUBSET Applications, seen : SUBSET Applications]
  /\ IsInjective(launcher.inner)
  /\ favorites \in Seq(Uris)
  /\ drag.icon \in Icons \cup {NullIcon}

-----------------------------------------------------------------------------
(* The controller.  Operators on s: the launcher s.l and the favorites s.f *)

\* An icon of the model that is not on its way out
Live(l, i) == Contains(l.inner, i) /\ i \notin l.removed

IsSticky(l, i) == i[1] \in l.sticky /\ i \in l.stuck
StickyIcons(l) == {i \in Icons : IsSticky(l, i)}

\* The first icon with this address, be it on its way out
GetIconByUri(l, uri) ==
  LET at == SelectInSeq(l.inner, LAMBDA i : i[1] = uri)
  IN IF at = 0 THEN NullIcon ELSE l.inner[at]

Loose(l) == Only(l.inner, Icons \ StickyIcons(l))

\* Behind what came before it in the store
AddFavoriteKeepingOldPosition(f, icons, uri) ==
  LET before == Only(SubSeq(f, 1, Index(f, uri)), ToSet(icons))
      at     == IF ~Contains(f, uri) THEN Len(icons)
                ELSE IF before = <<>> THEN 0
                ELSE SelectLastInSeq(icons, LAMBDA u : u = Last(before))
  IN InsertAt(icons, at + 1, uri)

\* The first running application that is no favorite stands for all of them
SaveIconsOrder(s) ==
  LET shown == Only(s.l.inner, StickyIcons(s.l) \cup s.l.visible)
      first == SelectInSeq(shown, LAMBDA i : ~IsSticky(s.l, i))
      kept  == Only(shown, StickyIcons(s.l) \cup (IF first = 0 THEN {} ELSE {shown[first]}))
      icons == [k \in DOMAIN kept |-> IF IsSticky(s.l, kept[k]) THEN kept[k][1] ELSE RUNNING_APPS_URI]
  IN [s EXCEPT !.f = IF first = 0 THEN AddFavoriteKeepingOldPosition(@, icons, RUNNING_APPS_URI)
                     ELSE icons]

\* An icon that gets no priority has its type's, from which sort_priority_ has gone away
DefaultPriority(l) == -l.given

\* New priorities in this order; those of all others fall behind
Renumber(l, order) ==
  LET last(i) == SelectLastInSeq(order, LAMBDA j : j = i)
  IN Sort([l EXCEPT !.given = IF @ + Len(order) > MaxPriority THEN MaxPriority ELSE @ + Len(order),
                    !.priority =
       [i \in Icons |-> IF Contains(order, i) THEN last(i) - Len(order)
                        ELSE IF Contains(l.inner, i) THEN @[i] - Len(order) ELSE 0]])

ResetIconPriorities(s) ==
  LET named(uris) == Only([k \in DOMAIN uris |-> GetIconByUri(s.l, uris[k])], Icons)
      at          == IF Contains(s.f, RUNNING_APPS_URI) THEN Index(s.f, RUNNING_APPS_URI) ELSE Len(s.f) + 1
      order       == named(SubSeq(s.f, 1, at - 1)) \o Loose(s.l) \o named(SubSeq(s.f, at + 1, Len(s.f)))
  IN [s EXCEPT !.l = Renumber(@, order)]

\* Next to the last (non-)sticky icon, or in front of all if only a sticky one is sought
GetLastIconPriority(l, sticky) ==
  LET last == SelectLastInSeq(l.inner, LAMBDA i : IsSticky(l, i) = sticky)
  IN IF l.inner = <<>> THEN DefaultPriority(l)
     ELSE IF last # 0 THEN l.priority[l.inner[last]]
     ELSE IF sticky THEN l.priority[l.inner[1]] - 1
     ELSE l.priority[Last(l.inner)]

RemoveFavorite(s, uri) == [s EXCEPT !.f = Without(@, uri)]

-----------------------------------------------------------------------------
(* The icon of an application *)

NewIcon(l, a) == CHOOSE i \in Icons : i[1] = a /\ ~Contains(l.inner, i)
HasRoom(l, a) == Len(l.inner) < MaxIcons /\ \E i \in Icons : i[1] = a /\ ~Contains(l.inner, i)

\* CreateAppLauncherIcon and RegisterIcon
RegisterIcon(l, icon, priority) ==
  LET a == icon[1]
  IN AddIcon([l EXCEPT !.priority[icon] = priority, !.seen = @ \cup {a},
                       !.stuck = IF a \in l.sticky THEN @ \cup {icon} ELSE @,
                       !.visible = IF a \in l.running \cup l.sticky THEN @ \cup {icon} ELSE @], icon)

\* Mutant: the application still counts as seen
RemoveKeepsSeen(l, icon) ==
  [l EXCEPT !.sticky = IF icon \in l.removed THEN @ ELSE @ \ {icon[1]},
            !.visible = @ \ {icon}, !.removed = @ \cup {icon}, !.closing = @ \ {icon}]

\* Remove: the application is let go at once, the icon leaves the model a second later
RemoveAppIcon(l, icon) ==
  [l EXCEPT !.sticky = IF icon \in l.removed THEN @ ELSE @ \ {icon[1]},
            !.seen = IF icon \in l.removed THEN @ ELSE @ \ {icon[1]},
            !.visible = @ \ {icon}, !.removed = @ \cup {icon}, !.closing = @ \ {icon}]

\* position_saved is told before the icon is shown
Stick(s, icon, save) ==
  IF IsSticky(s.l, icon) /\ ~save THEN s
  ELSE LET stuck == [s EXCEPT !.l.sticky = @ \cup {icon[1]}, !.l.stuck = @ \cup {icon}]
           saved == IF save THEN ResetIconPriorities(SaveIconsOrder(stuck)) ELSE stuck
       IN [saved EXCEPT !.l.visible = @ \cup {icon}]

\* Mutant: the favorites are not told
UnStickRemembered(s, icon) ==
  IF ~IsSticky(s.l, icon) THEN s
  ELSE LET a     == icon[1]
           loose == [s.l EXCEPT !.stuck = @ \ {icon}, !.sticky = @ \ {a},
                       !.visible = IF a \in s.l.running THEN @ \cup {icon} ELSE @ \ {icon}]
       IN [s EXCEPT !.l = IF a \in s.l.running THEN loose ELSE RemoveAppIcon(loose, icon)]

UnStick(s, icon) ==
  IF ~IsSticky(s.l, icon) THEN s
  ELSE LET a     == icon[1]
           loose == [s.l EXCEPT !.stuck = @ \ {icon}, !.sticky = @ \ {a},
                       !.visible = IF a \in s.l.running THEN @ \cup {icon} ELSE @ \ {icon}]
       IN [RemoveFavorite(s, a) EXCEPT !.l = IF a \in s.l.running THEN loose ELSE RemoveAppIcon(loose, icon)]

\* CreateFavoriteIcon, of an application without an icon
CreateFavoriteIcon(s, a, priority) ==
  IF a \in s.l.seen THEN s
  ELSE LET favorite == [s.l EXCEPT !.sticky = @ \cup {a}]
       IN [s EXCEPT !.l = RegisterIcon(favorite, NewIcon(favorite, a), priority)]

-----------------------------------------------------------------------------

Update(s) == launcher' = s.l /\ favorites' = s.f
State == [l |-> launcher, f |-> favorites]

\* Unless there are to be races, other programs leave the favorites alone during a drag,
\* and nothing sticks while an icon of the application is on its way out
Settled(a) ==
  "races" \notin Inputs =>
    drag = NoDrag /\ \A i \in launcher.closing \cup launcher.removed : i[1] # a

\* The session starts with these favorites and runs nothing (SetupIcons)
Init ==
  /\ favorites \in {f \in UNION {[1..n -> Uris] : n \in 1..Cardinality(Uris)} :
                      IsInjective(f) /\ Contains(f, RUNNING_APPS_URI)}
  /\ LET apps  == Without(favorites, RUNNING_APPS_URI)
         icons == [k \in DOMAIN apps |-> <<apps[k], 1>>]
     IN launcher = [inner |-> icons,
                    priority |-> [i \in Icons |-> IF Contains(icons, i) THEN Index(icons, i) - Len(icons)
                                                  ELSE 0], given |-> Len(icons),
                    stuck |-> ToSet(icons), visible |-> ToSet(icons), removed |-> {}, closing |-> {},
                    running |-> {}, sticky |-> ToSet(apps), seen |-> ToSet(apps)]
  /\ drag = NoDrag

\* OnApplicationStarted, or the icon there is hears that it runs
ApplicationStarts(a) ==
  /\ a \notin launcher.running
  /\ LET l     == [launcher EXCEPT !.running = @ \cup {a}]
         icons == {i \in Icons : i[1] = a /\ Live(l, i)}
     IN IF a \in l.sticky \cup l.seen
        THEN launcher' = [l EXCEPT !.visible = @ \cup icons, !.closing = @ \ icons]
        ELSE HasRoom(l, a) /\ launcher' = RegisterIcon(l, NewIcon(l, a), GetLastIconPriority(l, FALSE))
  /\ UNCHANGED <<favorites, drag>>

ApplicationCloses(a) ==
  /\ a \in launcher.running
  /\ "races" \notin Inputs => a # drag.icon[1]
  /\ LET l     == [launcher EXCEPT !.running = @ \ {a}]
         icons == {i \in Icons : i[1] = a /\ Live(l, i) /\ ~IsSticky(l, i)}
     IN launcher' = [l EXCEPT !.visible = @ \ icons, !.closing = @ \cup icons]
  /\ UNCHANGED <<favorites, drag>>

\* ICON_REMOVE_TIMEOUT
CloseTimeout(icon) ==
  /\ icon \in launcher.closing
  /\ launcher' = RemoveAppIcon(launcher, icon)
  /\ UNCHANGED <<favorites, drag>>

\* The model's timeout of OnIconRemove
RemoveTimeout(icon) ==
  /\ icon \in launcher.removed
  /\ launcher' = [RemoveIcon(launcher, icon) EXCEPT !.removed = @ \ {icon}, !.stuck = @ \ {icon},
                    !.visible = @ \ {icon}, !.priority[icon] = 0]
  /\ drag' = IF drag # NoDrag /\ drag.closer.icon = icon THEN [drag EXCEPT !.closer.icon = GoneIcon] ELSE drag
  /\ UNCHANGED favorites

-----------------------------------------------------------------------------
(* The user: "Lock to Launcher", and drags *)

ToggleSticky(icon) ==
  /\ "stick" \in Inputs
  /\ Live(launcher, icon) /\ icon \in launcher.visible /\ drag = NoDrag /\ Settled(icon[1])
  /\ Update(IF IsSticky(launcher, icon) THEN UnStick(State, icon) ELSE Stick(State, icon, TRUE))
  /\ UNCHANGED drag

\* The icon that shows the way back is chosen now, drag.inner is for the properties
StartIconDrag(icon) ==
  /\ "drag" \in Inputs /\ drag = NoDrag
  /\ Live(launcher, icon) /\ icon \in launcher.visible /\ Settled(icon[1])
  /\ drag' = [icon |-> icon, position |-> Index(launcher.inner, icon),
              closer |-> GetClosestIcon(launcher, icon), inner |-> launcher.inner]
  /\ UNCHANGED <<launcher, favorites>>

\* Over an icon, beyond the edge of the launcher, or below all icons
UpdateDragWindowPosition(other) ==
  /\ drag # NoDrag /\ other # drag.icon /\ other \in launcher.visible
  /\ Contains(launcher.inner, other) /\ Contains(launcher.inner, drag.icon)
  /\ \/ launcher' = ReorderSmart(launcher, drag.icon, other)
     \/ launcher' = ReorderBefore(launcher, drag.icon, other)
     \/ launcher' = ReorderAfter(launcher, drag.icon, other)
  /\ UNCHANGED <<favorites, drag>>

\* Escape.  The closer icon may have left the model: the code then goes on past the end
DragCancel ==
  /\ drag # NoDrag /\ Contains(launcher.inner, drag.icon)
  /\ LET closer == drag.closer.icon
     IN /\ closer = NullIcon \/ Contains(launcher.inner, closer)
        /\ launcher' = IF drag.closer.is_before THEN ReorderAfter(launcher, drag.icon, closer)
                       ELSE ReorderBefore(launcher, drag.icon, closer)
  /\ drag' = NoDrag
  /\ UNCHANGED favorites

\* Unless there are to be races, the icons before a dragged one do not come and go in such
\* a way that it seems to be where it was
InPlace ==
  "races" \notin Inputs /\ Index(launcher.inner, drag.icon) = drag.position =>
    SubSeq(launcher.inner, 1, drag.position) = SubSeq(drag.inner, 1, drag.position)

\* EndIconDrag on the launcher: an icon that has another index now is saved
EndIconDrag ==
  /\ drag # NoDrag /\ InPlace
  /\ Update(IF Index(launcher.inner, drag.icon) = drag.position THEN State
            ELSE Stick(State, drag.icon, TRUE))
  /\ drag' = NoDrag

\* EndIconDrag on the trash, AboutToRemove.  Quit is a request to the application
DropOnTrash ==
  /\ drag # NoDrag
  /\ Update(UnStick(State, drag.icon))
  /\ drag' = NoDrag

\* A result of the dash dropped behind an icon
OnLauncherAddRequest(a, icon_before) ==
  /\ "request" \in Inputs /\ Settled(a) /\ HasRoom(launcher, a)
  /\ Contains(launcher.inner, icon_before) /\ icon_before \in launcher.visible
  /\ LET icon == GetIconByUri(launcher, a)
     IN Update(IF icon # NullIcon
               THEN Stick([State EXCEPT !.l = ReorderAfter(@, icon, icon_before)], icon, TRUE)
               ELSE SaveIconsOrder(CreateFavoriteIcon(State, a, launcher.priority[icon_before])))
  /\ UNCHANGED drag

\* The D-Bus method UpdateLauncherIconFavoriteState
OnLauncherUpdateIconStickyState(a, sticky) ==
  /\ "request" \in Inputs /\ Settled(a) /\ HasRoom(launcher, a)
  /\ LET icon == GetIconByUri(launcher, a)
     IN Update(IF icon # NullIcon
               THEN IF IsSticky(launcher, icon) = sticky THEN State
                    ELSE IF sticky THEN Stick(State, icon, TRUE) ELSE UnStick(State, icon)
               ELSE IF Contains(favorites, a) = sticky THEN State
               ELSE IF sticky
                    THEN SaveIconsOrder(CreateFavoriteIcon(State, a, GetLastIconPriority(launcher, TRUE)))
                    ELSE RemoveFavorite(State, a))
  /\ UNCHANGED drag

-----------------------------------------------------------------------------
(* Another program writes the favorites: FavoriteStoreGSettings::Changed *)

\* Mutant: a new first favorite goes behind the second one
FavoriteAddedAfter(s, n) ==
  LET a     == s.f[n]
      pos   == IF n = 1 THEN IF Len(s.f) > 1 THEN s.f[2] ELSE RUNNING_APPS_URI ELSE s.f[n - 1]
      at    == SelectLastInSeq(s.l.inner, LAMBDA i : i \in s.l.visible /\ i[1] = pos)
      fav   == GetIconByUri(s.l, a)
      added == IF fav # NullIcon THEN Stick(s, fav, FALSE) ELSE CreateFavoriteIcon(s, a, DefaultPriority(s.l))
      icon  == GetIconByUri(added.l, a)
  IN IF at = 0 \/ icon = NullIcon THEN added
     ELSE [added EXCEPT !.l = ReorderAfter(@, icon, s.l.inner[at])]

\* Where GetSignalAddedInfo puts what was added at position n of f
OnFavoriteStoreFavoriteAdded(s, n) ==
  LET a      == s.f[n]
      before == n = 1
      pos    == IF before THEN IF Len(s.f) > 1 THEN s.f[2] ELSE RUNNING_APPS_URI ELSE s.f[n - 1]
      at     == SelectLastInSeq(s.l.inner, LAMBDA i : i \in s.l.visible /\ i[1] = pos)
      fav    == GetIconByUri(s.l, a)
      added  == IF fav # NullIcon THEN Stick(s, fav, FALSE) ELSE CreateFavoriteIcon(s, a, DefaultPriority(s.l))
      icon   == GetIconByUri(added.l, a)
  IN IF at = 0 \/ icon = NullIcon THEN added
     ELSE [added EXCEPT !.l = IF before THEN ReorderBefore(@, icon, s.l.inner[at])
                              ELSE ReorderAfter(@, icon, s.l.inner[at])]

Neighbour(f, n) == IF n > 1 THEN f[n - 1] ELSE IF f # <<>> THEN f[1] ELSE RUNNING_APPS_URI

FavoriteAdded(a, n) ==
  /\ "add" \in Inputs /\ Settled(a) /\ HasRoom(launcher, a)
  /\ ~Contains(favorites, a) /\ n \in 1..(Len(favorites) + 1)
  /\ "beside" \notin Inputs => Neighbour(favorites, n) # RUNNING_APPS_URI
  /\ Update(OnFavoriteStoreFavoriteAdded([State EXCEPT !.f = InsertAt(@, n, a)], n))
  /\ UNCHANGED drag

FavoriteRemoved(a) ==
  /\ "remove" \in Inputs /\ Contains(favorites, a) /\ Settled(a)
  /\ LET s    == RemoveFavorite(State, a)
         icon == GetIconByUri(launcher, a)
     IN Update(IF icon = NullIcon THEN s ELSE UnStick(s, icon))
  /\ UNCHANGED drag

RunningAppsRemoved ==
  /\ "remove" \in Inputs /\ Contains(favorites, RUNNING_APPS_URI) /\ Settled(RUNNING_APPS_URI)
  /\ Update(SaveIconsOrder(ResetIconPriorities(RemoveFavorite(State, RUNNING_APPS_URI))))
  /\ UNCHANGED drag

Reordered(uri, n) ==
  /\ "move" \in Inputs /\ Contains(favorites, uri) /\ Settled(uri)
  /\ n \in 1..(Len(Without(favorites, uri)) + 1)
  /\ Update(ResetIconPriorities([State EXCEPT !.f = InsertAt(Without(@, uri), n, uri)]))
  /\ UNCHANGED drag

Next ==
  /\ \/ \E a \in Applications :
          \/ ApplicationStarts(a) \/ ApplicationCloses(a) \/ FavoriteRemoved(a)
          \/ \E icon \in Icons : OnLauncherAddRequest(a, icon)
          \/ \E sticky \in BOOLEAN : OnLauncherUpdateIconStickyState(a, sticky)
          \/ \E n \in 1..(Cardinality(Uris) + 1) : FavoriteAdded(a, n)
     \/ \E icon \in Icons :
          \/ CloseTimeout(icon) \/ RemoveTimeout(icon) \/ ToggleSticky(icon)
          \/ StartIconDrag(icon) \/ UpdateDragWindowPosition(icon)
     \/ EndIconDrag \/ DropOnTrash \/ DragCancel
     \/ RunningAppsRemoved
     \/ \E uri \in Uris, n \in 1..Cardinality(Uris) : Reordered(uri, n)
  /\ \A i \in Icons : launcher'.priority[i] \in -MaxPriority..MaxPriority

Spec == Init /\ [][Next]_vars

\* For TLC: no application is special
Symmetry == Permutations(Applications)

-----------------------------------------------------------------------------
(* Properties *)

LiveIcons(a) == {i \in Icons : i[1] = a /\ Live(launcher, i)}

\* launcher/ApplicationLauncherIcon.cpp:125: an application that runs is on the
\* launcher, with one icon, also if it was opened while its icon was removed.
RunningShown ==
  \A a \in launcher.running : Cardinality(LiveIcons(a) \cap launcher.visible) = 1

\* Every favorite has one icon on the launcher that is there to stay.
FavoritesShown ==
  \A a \in Applications : Contains(favorites, a) =>
    \E i \in LiveIcons(a) : LiveIcons(a) = {i} /\ IsSticky(launcher, i) /\ i \in launcher.visible \ launcher.closing

\* The favorites are shown in the order of the store, once no icon is dragged.
StoreOrder ==
  drag = NoDrag =>
    LET sticky == Only(launcher.inner, StickyIcons(launcher))
    IN [k \in DOMAIN sticky |-> sticky[k][1]] = Without(favorites, RUNNING_APPS_URI)

\* Escape puts a dragged icon back where it was, if the others stayed as they were.
CancelRestores ==
  [][DragCancel /\ Without(drag.inner, drag.icon) = Without(launcher.inner, drag.icon)
       => launcher'.inner = drag.inner]_vars

\* An icon dragged over another one ends up beside it, on the side away from where it
\* came from, and the others stay in order.
SmartPasses ==
  \A i, o \in ToSet(launcher.inner) :
    LET after == ReorderSmart(launcher, i, o).inner
        from  == Index(launcher.inner, i)
        to    == Index(launcher.inner, o)
    IN i # o => /\ Without(after, i) = Without(launcher.inner, i)
                /\ Index(after, i) = Index(after, o) + (IF from < to THEN 1 ELSE -1)
=============================================================================
