---------------------------- MODULE LauncherModel ----------------------------
(* launcher/LauncherModel.cpp: the order of the icons, as operators on a record with the
   fields inner (the icons as they are shown) and priority.

   Abstracted: the icons at the ends of the launcher (home, trash).  They have a list or
   a position of their own, no icon of the middle is reordered next to them, and their
   priorities are thousands away, so that PopulatePart never raises one. *)
EXTENDS Integers, Sequences, FiniteSets, SequencesExt

NullIcon == <<"none", 0>>

Index(s, x) == SelectInSeq(s, LAMBDA y : y = x)

\* The part of a sequence that is in a set: SelectSeq, which proofs cannot expand
Only(s, S) ==
  LET upTo[n \in 0..Len(s)] ==
        IF n = 0 THEN <<>> ELSE IF s[n] \in S THEN Append(upTo[n - 1], s[n]) ELSE upTo[n - 1]
  IN upTo[Len(s)]

Without(s, x) == Only(s, ToSet(s) \ {x})

\* Behind the icons that do not come after it
Insert(m, sorted, icon) ==
  InsertAt(sorted, Cardinality({i \in ToSet(sorted) : m.priority[i] <= m.priority[icon]}) + 1, icon)

\* stable_sort: icons of the same priority keep their order
Sort(m) ==
  LET upTo[n \in 0..Len(m.inner)] == IF n = 0 THEN <<>> ELSE Insert(m, upTo[n - 1], m.inner[n])
  IN [m EXCEPT !.inner = upTo[Len(@)]]

AddIcon(m, icon) ==
  IF Contains(m.inner, icon) THEN m ELSE Sort([m EXCEPT !.inner = Append(@, icon)])

RemoveIcon(m, icon) == [m EXCEPT !.inner = Without(@, icon)]

\* Mutant: what follows makes room for nobody
ReorderAfterOnly(m, icon, other) ==
  IF icon = other \/ NullIcon \in {icon, other} THEN m
  ELSE Sort([m EXCEPT !.priority[icon] = m.priority[other] + 1])

ReorderAfter(m, icon, other) ==
  IF icon = other \/ NullIcon \in {icon, other} THEN m
  ELSE Sort([m EXCEPT !.priority =
         [i \in DOMAIN @ |->
           IF i = icon THEN @[other] + 1
           ELSE IF Index(m.inner, i) > Index(m.inner, other) THEN @[i] + 2
           ELSE @[i]]])

\* What the reorderings before an icon do to the other ones
MakeRoom(m, icon, other, place) ==
  LET p  == m.priority
      at == Index(m.inner, other)
  IN Sort([m EXCEPT !.priority =
       [i \in DOMAIN p |->
         IF i = icon THEN place
         ELSE IF ~Contains(m.inner, i) THEN p[i]
         ELSE IF Index(m.inner, i) > at THEN p[i] + 1
         ELSE IF i # other /\ p[i] = p[other] THEN p[i] - 2
         ELSE p[i] - 1]])

ReorderBefore(m, icon, other) ==
  IF icon = other \/ NullIcon \in {icon, other} THEN m
  ELSE MakeRoom(m, icon, other, m.priority[other] - 2)

\* Mutant: always in front of the other one
ReorderSmartBefore(m, icon, other) ==
  IF icon = other \/ NullIcon \in {icon, other} THEN m
  ELSE MakeRoom(m, icon, other, m.priority[other] - 2)

\* Past the other icon, from whichever side
ReorderSmart(m, icon, other) ==
  IF icon = other \/ NullIcon \in {icon, other} THEN m
  ELSE LET found == Index(m.inner, icon) < Index(m.inner, other)
       IN MakeRoom(m, icon, other, m.priority[other] - 1 + (IF found THEN 1 ELSE -1))

\* The neighbour by which a drag finds its way back, and whether that one comes first
GetClosestIcon(m, icon) ==
  LET at == Index(m.inner, icon)
  IN IF at > 1 THEN [icon |-> m.inner[at - 1], is_before |-> TRUE]
     ELSE IF at < Len(m.inner) THEN [icon |-> m.inner[at + 1], is_before |-> FALSE]
     ELSE [icon |-> NullIcon, is_before |-> TRUE]
=============================================================================
