----------------------- MODULE LauncherFavoritesProofs -----------------------
(* What holds of the icons of the launcher and of the favorites for every number of
   applications and of icons: the order of the icons is the one of their priorities,
   reorderings move one icon, a cancelled drag goes back to where it began, applications
   that run and favorites have one icon each, and the favorites are shown in the order of
   the store.

   A sequence without repetitions is a set and an order: Before(s, x, y).  The lemmas say
   of every operator of the model which icons it keeps, and which of them come before
   which; the order of two sequences then says that they are the same (SameOrder).  The
   operators come first, those on sequences, those of the model, those of the controller;
   then one invariant after the other, each with one lemma per action:
     OrderedInv, the types, the priorities and what a drag remembers, of every input;
     LifeInv, the life of an icon and what the favorites know of it, without "races";
     OrderInv, the order of the favorites, without "races" and "beside". *)
EXTENDS LauncherFavorites, FiniteSetTheorems, WellFoundedInduction, SequenceTheorems, TLAPS

-----------------------------------------------------------------------------
(* Induction up to a number.  The theorems on induction of the library are about
   operators, this one is about a set. *)

LEMMA Least ==
  ASSUME NEW T \in SUBSET Nat, T # {}
  PROVE  \E x \in T : \A y \in T : x <= y
<1> DEFINE R == OpToRel(<, Nat)
<1>1. IsWellFoundedOn(R, Nat)
  BY NatLessThanWellFounded
<1> HIDE DEF R
<1>2. PICK x \in T : \A y \in T : ~ (<<y, x>> \in R)
  BY <1>1, WFMin
<1>3. \A y \in T : y < x => <<y, x>> \in R
  BY <1>2 DEF R, OpToRel
<1>4. x \in Nat /\ \A y \in T : y \in Nat /\ ~(y < x)
  BY <1>2, <1>3
<1>5. \A m, n \in Nat : ~(n < m) => m <= n
  OBVIOUS
<1> QED BY <1>4, <1>5

\* What holds at the beginning and is kept by every step holds at the end.
LEMMA ToTheEnd ==
  ASSUME NEW n \in Nat, NEW G, 0 \in G, \A k \in 0..(n - 1) : k \in G => k + 1 \in G
  PROVE  n \in G
<1> DEFINE T == {k \in 0..n : k \notin G}
<1>1. SUFFICES ASSUME n \notin G PROVE FALSE
  OBVIOUS
<1>2. T \in SUBSET Nat /\ n \in T
  BY <1>1
<1>3. PICK x \in T : \A y \in T : x <= y
  BY <1>2, Least
<1>4. x \in 0..n /\ x \notin G /\ x # 0
  BY <1>3
<1>5. x - 1 \in 0..(n - 1) /\ x - 1 \in 0..n
  BY <1>4
<1>6. x - 1 \notin G
  <2>1. (x - 1) + 1 = x
    BY <1>4
  <2> QED BY <1>4, <1>5, <2>1
<1>7. x - 1 \in T
  BY <1>5, <1>6
<1>8. x <= x - 1
  BY <1>3, <1>7
<1> QED BY <1>4, <1>8

LEMMA MaxIs ==
  ASSUME NEW S \in SUBSET Nat, NEW m \in S, \A x \in S : m >= x
  PROVE  Max(S) = m
<1>1. \A x \in S : (\A y \in S : x >= y) => x = m
  OBVIOUS
<1> QED BY <1>1 DEF Max

LEMMA MinIs ==
  ASSUME NEW S \in SUBSET Nat, NEW m \in S, \A x \in S : m <= x
  PROVE  Min(S) = m
<1>1. \A x \in S : (\A y \in S : x <= y) => x = m
  OBVIOUS
<1> QED BY <1>1 DEF Min

-----------------------------------------------------------------------------
(* Sequences without repetitions: a set in some order *)

Before(s, x, y) == \E i, j \in 1..Len(s) : i < j /\ s[i] = x /\ s[j] = y

LEMMA Elements ==
  ASSUME NEW A, NEW s \in Seq(A)
  PROVE  /\ ToSet(s) = {s[i] : i \in 1..Len(s)} /\ ToSet(s) \subseteq A
         /\ \A x : Contains(s, x) <=> x \in ToSet(s)
         /\ \A x \in ToSet(s) : \E i \in 1..Len(s) : s[i] = x
         /\ \A i \in 1..Len(s) : s[i] \in ToSet(s) /\ s[i] \in A
         /\ IsInjective(s) <=> \A i, j \in 1..Len(s) : s[i] = s[j] => i = j
<1>1. DOMAIN s = 1..Len(s)
  OBVIOUS
<1>2. ToSet(s) = {s[i] : i \in 1..Len(s)}
  BY <1>1 DEF ToSet
<1>3. \A i \in 1..Len(s) : s[i] \in A
  OBVIOUS
<1>4. IsInjective(s) <=> \A i, j \in 1..Len(s) : s[i] = s[j] => i = j
  BY <1>1 DEF IsInjective
<1> QED BY <1>2, <1>3, <1>4 DEF Contains

LEMMA BeforeIs ==
  ASSUME NEW A, NEW s \in Seq(A), IsInjective(s)
  PROVE  /\ \A x, y : Before(s, x, y) => x \in ToSet(s) /\ y \in ToSet(s) /\ x # y /\ ~Before(s, y, x)
         /\ \A x, y \in ToSet(s) : x # y => Before(s, x, y) \/ Before(s, y, x)
         /\ \A x, y, z : Before(s, x, y) /\ Before(s, y, z) => Before(s, x, z)
         /\ \A i, j \in 1..Len(s) : Before(s, s[i], s[j]) <=> i < j
<1>1. \A i, j \in 1..Len(s) : s[i] = s[j] => i = j
  BY Elements
<1>2. ASSUME NEW i \in 1..Len(s), NEW j \in 1..Len(s), Before(s, s[i], s[j]) PROVE i < j
  BY <1>1, <1>2 DEF Before
<1>3. ASSUME NEW i \in 1..Len(s), NEW j \in 1..Len(s), i < j PROVE Before(s, s[i], s[j])
  BY <1>3 DEF Before
<1>4. ASSUME NEW x, NEW y, Before(s, x, y) PROVE x \in ToSet(s) /\ y \in ToSet(s) /\ x # y /\ ~Before(s, y, x)
  <2>1. PICK i, j \in 1..Len(s) : i < j /\ s[i] = x /\ s[j] = y
    BY <1>4 DEF Before
  <2>2. ~(j < i) /\ i # j
    BY <2>1
  <2>3. x \in ToSet(s) /\ y \in ToSet(s)
    BY <2>1, Elements
  <2>4. ~Before(s, y, x)
    BY <1>2, <2>1, <2>2
  <2> QED BY <1>1, <2>1, <2>2, <2>3, <2>4
<1>5. ASSUME NEW x \in ToSet(s), NEW y \in ToSet(s), x # y PROVE Before(s, x, y) \/ Before(s, y, x)
  <2>1. PICK i \in 1..Len(s) : s[i] = x
    BY Elements
  <2>2. PICK j \in 1..Len(s) : s[j] = y
    BY Elements
  <2>3. i < j \/ j < i
    BY <1>5, <2>1, <2>2
  <2> QED BY <1>3, <2>1, <2>2, <2>3
<1>6. ASSUME NEW x, NEW y, NEW z, Before(s, x, y), Before(s, y, z) PROVE Before(s, x, z)
  <2>1. PICK i, j \in 1..Len(s) : i < j /\ s[i] = x /\ s[j] = y
    BY <1>6 DEF Before
  <2>2. PICK k, l \in 1..Len(s) : k < l /\ s[k] = y /\ s[l] = z
    BY <1>6 DEF Before
  <2>3. j = k
    BY <1>1, <2>1, <2>2
  <2>4. i < l
    BY <2>1, <2>2, <2>3
  <2> QED BY <2>1, <2>2, <2>4 DEF Before
<1> QED BY <1>2, <1>3, <1>4, <1>5, <1>6

\* The order says it all
LEMMA SameOrder ==
  ASSUME NEW A, NEW s \in Seq(A), NEW t \in Seq(A), IsInjective(s), IsInjective(t), ToSet(s) = ToSet(t),
         \A x, y : Before(s, x, y) => Before(t, x, y)
  PROVE  s = t
<1> DEFINE n == Len(s)
           G == {k \in 0..n : k <= Len(t) /\ \A i \in 1..k : s[i] = t[i]}
<1>1. n \in Nat /\ Len(t) \in Nat /\ DOMAIN s = 1..n /\ DOMAIN t = 1..Len(t)
  OBVIOUS
<1>2. 0 \in G
  BY <1>1
<1>3. ASSUME NEW k \in 0..(n - 1), k \in G PROVE k + 1 \in G
  <2>1. k \in Nat /\ k + 1 \in 1..n /\ k <= Len(t) /\ \A i \in 1..k : s[i] = t[i]
    BY <1>1, <1>3
  <2>2. s[k + 1] \in ToSet(t)
    BY <2>1, Elements
  <2>3. PICK p \in 1..Len(t) : t[p] = s[k + 1]
    BY <1>1, <2>2 DEF ToSet
  <2>4. ~(p <= k)
    <3>1. SUFFICES ASSUME p <= k PROVE FALSE
      OBVIOUS
    <3>2. p \in 1..k /\ p \in 1..n
      BY <1>1, <2>1, <3>1
    <3>3. s[p] = s[k + 1]
      BY <2>1, <2>3, <3>2
    <3>4. p = k + 1
      BY <2>1, <3>2, <3>3, Elements
    <3> QED BY <2>1, <3>1, <3>4
  <2>5. k + 1 \in 1..Len(t)
    BY <2>1, <2>4, <1>1
  <2>6. p = k + 1
    <3>1. SUFFICES ASSUME p # k + 1 PROVE FALSE
      OBVIOUS
    <3>2. k + 1 < p
      BY <2>1, <2>4, <3>1
    <3>3. t[k + 1] \in ToSet(s)
      BY <2>5, Elements
    <3>4. PICK q \in 1..n : s[q] = t[k + 1]
      BY <1>1, <3>3 DEF ToSet
    <3>5. ~(q <= k)
      <4>1. SUFFICES ASSUME q <= k PROVE FALSE
        OBVIOUS
      <4>2. q \in 1..k /\ q \in 1..Len(t)
        BY <2>1, <4>1
      <4>3. t[q] = t[k + 1]
        BY <2>1, <3>4, <4>2
      <4>4. q = k + 1
        BY <2>5, <4>2, <4>3, Elements
      <4> QED BY <2>1, <4>1, <4>4
    <3>6. q # k + 1
      <4>1. SUFFICES ASSUME q = k + 1 PROVE FALSE
        OBVIOUS
      <4>2. t[p] = t[k + 1]
        BY <2>3, <3>4, <4>1
      <4>3. p = k + 1
        BY <2>5, <4>2, Elements
      <4> QED BY <3>1, <4>3
    <3>7. k + 1 < q
      BY <2>1, <3>5, <3>6
    <3>8. Before(s, s[k + 1], s[q])
      BY <2>1, <3>7, BeforeIs
    <3>9. Before(t, t[p], t[k + 1])
      BY <2>3, <3>4, <3>8
    <3>10. p < k + 1
      BY <2>5, <3>9, BeforeIs
    <3> QED BY <2>1, <3>2, <3>10
  <2>7. ASSUME NEW i \in 1..(k + 1) PROVE s[i] = t[i]
    <3>1. CASE i = k + 1
      BY <2>3, <2>6, <3>1
    <3>2. CASE i # k + 1
      <4>1. i \in 1..k
        BY <2>1, <3>2
      <4> QED BY <2>1, <4>1
    <3> QED BY <3>1, <3>2
  <2> QED BY <1>1, <2>1, <2>5, <2>7
<1> HIDE DEF G
<1>4. n \in G
  BY <1>1, <1>2, <1>3, ToTheEnd
<1>5. n <= Len(t) /\ \A i \in 1..n : s[i] = t[i]
  BY <1>4 DEF G
<1>6. n = Len(t)
  <2>1. SUFFICES ASSUME n # Len(t) PROVE FALSE
    OBVIOUS
  <2>2. n + 1 \in 1..Len(t)
    <3>1. \A a, b \in Nat : a <= b /\ a # b => a + 1 \in 1..b
      OBVIOUS
    <3> HIDE DEF n
    <3> QED BY <1>1, <1>5, <2>1, <3>1
  <2>3. t[n + 1] \in ToSet(s)
    BY <2>2, Elements
  <2>4. PICK q \in 1..n : s[q] = t[n + 1]
    BY <1>1, <2>3 DEF ToSet
  <2>5. q \in 1..Len(t) /\ t[q] = t[n + 1]
    BY <1>1, <1>5, <2>4
  <2>6. q = n + 1
    BY <2>2, <2>5, Elements
  <2> QED BY <1>1, <2>6
<1> QED BY <1>5, <1>6

-----------------------------------------------------------------------------
(* The part of a sequence that is in a set: where its elements come from *)

Picks(t, s, S, k) ==
  \E e \in [1..Len(t) -> 1..k] :
    /\ \A i, j \in 1..Len(t) : i < j => e[i] < e[j]
    /\ \A i \in 1..Len(t) : t[i] = s[e[i]] /\ s[e[i]] \in S
    /\ \A p \in 1..k : s[p] \in S => \E i \in 1..Len(t) : e[i] = p

Filters(f, s, S, n) ==
  f = [k \in 0..n |-> IF k = 0 THEN <<>> ELSE IF s[k] \in S THEN Append(f[k - 1], s[k]) ELSE f[k - 1]]

LEMMA FiltersExist ==
  ASSUME NEW A, NEW s \in Seq(A), NEW S
  PROVE  \E f : Filters(f, s, S, Len(s))
<1> DEFINE n == Len(s)
           G == {k \in 0..n : \E f : Filters(f, s, S, k)}
<1>1. n \in Nat
  OBVIOUS
<1>2. 0 \in G
  <2> DEFINE f == [k \in 0..0 |-> <<>>]
  <2>1. Filters(f, s, S, 0)
    BY DEF Filters
  <2> HIDE DEF f
  <2> QED BY <1>1, <2>1
<1>3. ASSUME NEW k \in 0..(n - 1), k \in G PROVE k + 1 \in G
  <2>1. k + 1 \in 0..n /\ k \in Nat
    BY <1>1
  <2>2. PICK g : Filters(g, s, S, k)
    BY <1>3
  <2> DEFINE next == IF s[k + 1] \in S THEN Append(g[k], s[k + 1]) ELSE g[k]
             f == [j \in 0..(k + 1) |-> IF j = k + 1 THEN next ELSE g[j]]
             h == [j \in 0..(k + 1) |->
                    IF j = 0 THEN <<>> ELSE IF s[j] \in S THEN Append(f[j - 1], s[j]) ELSE f[j - 1]]
  <2>3. ASSUME NEW j \in 0..(k + 1) PROVE f[j] = h[j]
    <3>1. CASE j = k + 1
      <4>1. j - 1 = k /\ k \in 0..(k + 1) /\ k # k + 1 /\ j # 0
        BY <2>1, <3>1
      <4>2. f[j - 1] = g[k]
        BY <4>1
      <4> QED BY <3>1, <4>1, <4>2
    <3>2. CASE j # k + 1 /\ j # 0
      <4>1. j \in 0..k /\ j - 1 \in 0..(k + 1) /\ j - 1 # k + 1
        BY <2>1, <3>2
      <4>2. g[j] = IF s[j] \in S THEN Append(g[j - 1], s[j]) ELSE g[j - 1]
        BY <2>2, <3>2, <4>1 DEF Filters
      <4>3. f[j - 1] = g[j - 1]
        BY <4>1
      <4> QED BY <3>2, <4>2, <4>3
    <3>3. CASE j # k + 1 /\ j = 0
      <4>1. 0 \in 0..k
        BY <2>1
      <4>2. g[0] = <<>>
        BY <2>2, <4>1 DEF Filters
      <4> QED BY <3>3, <4>2
    <3> QED BY <3>1, <3>2, <3>3
  <2>4. f = h
    BY <2>3
  <2>5. Filters(f, s, S, k + 1)
    BY <2>4 DEF Filters
  <2> HIDE DEF f
  <2> QED BY <2>1, <2>5
<1> HIDE DEF G
<1>4. n \in G
  BY <1>1, <1>2, <1>3, ToTheEnd
<1> QED BY <1>4 DEF G

LEMMA PicksOne ==
  ASSUME NEW A, NEW s \in Seq(A), NEW S, NEW k \in 0..(Len(s) - 1), NEW t \in Seq(A), Picks(t, s, S, k)
  PROVE  LET u == IF s[k + 1] \in S THEN Append(t, s[k + 1]) ELSE t
         IN u \in Seq(A) /\ Picks(u, s, S, k + 1)
<1>1. k \in Nat /\ k + 1 \in 1..Len(s) /\ s[k + 1] \in A /\ Len(t) \in Nat
  OBVIOUS
<1>2. PICK e \in [1..Len(t) -> 1..k] :
        /\ \A i, j \in 1..Len(t) : i < j => e[i] < e[j]
        /\ \A i \in 1..Len(t) : t[i] = s[e[i]] /\ s[e[i]] \in S
        /\ \A p \in 1..k : s[p] \in S => \E i \in 1..Len(t) : e[i] = p
  BY DEF Picks
<1>3. CASE s[k + 1] \notin S
  <2>1. e \in [1..Len(t) -> 1..(k + 1)]
    BY <1>1
  <2>2. ASSUME NEW p \in 1..(k + 1), s[p] \in S PROVE \E i \in 1..Len(t) : e[i] = p
    <3>1. p \in 1..k
      BY <1>1, <1>3, <2>2
    <3> QED BY <1>2, <2>2, <3>1
  <2>3. Picks(t, s, S, k + 1)
    BY <1>2, <2>1, <2>2 DEF Picks
  <2> QED BY <1>3, <2>3
<1>4. CASE s[k + 1] \in S
  <2> DEFINE u == Append(t, s[k + 1])
             d == [i \in 1..(Len(t) + 1) |-> IF i = Len(t) + 1 THEN k + 1 ELSE e[i]]
  <2>1. u \in Seq(A) /\ Len(u) = Len(t) + 1 /\ u[Len(t) + 1] = s[k + 1] /\ \A i \in 1..Len(t) : u[i] = t[i]
    BY <1>1
  <2>2. \A i \in 1..(Len(t) + 1) : i # Len(t) + 1 => i \in 1..Len(t)
    <3>1. \A n \in Nat : \A i \in 1..(n + 1) : i # n + 1 => i \in 1..n
      OBVIOUS
    <3> QED BY <1>1, <3>1
  <2> HIDE DEF u
  <2>3. ASSUME NEW i \in 1..(Len(t) + 1)
        PROVE  d[i] \in 1..(k + 1) /\ u[i] = s[d[i]] /\ s[d[i]] \in S
    <3>1. CASE i = Len(t) + 1
      BY <1>1, <1>4, <2>1, <3>1
    <3>2. CASE i # Len(t) + 1
      <4>1. i \in 1..Len(t) /\ d[i] = e[i] /\ e[i] \in 1..k
        BY <2>2, <3>2
      <4> QED BY <1>1, <1>2, <2>1, <4>1
    <3> QED BY <3>1, <3>2
  <2>4. d \in [1..Len(u) -> 1..(k + 1)]
    BY <2>1, <2>3
  <2>5. ASSUME NEW i \in 1..Len(u), NEW j \in 1..Len(u), i < j PROVE d[i] < d[j]
    <3>1. i \in 1..Len(t) /\ d[i] = e[i] /\ e[i] \in 1..k
      <4>1. \A n \in Nat : \A p, q \in 1..(n + 1) : p < q => p \in 1..n /\ p # n + 1 /\ p \in 1..(n + 1)
        OBVIOUS
      <4>2. i \in 1..Len(t) /\ i # Len(t) + 1 /\ i \in 1..(Len(t) + 1)
        BY <1>1, <2>1, <2>5, <4>1
      <4> QED BY <4>2
    <3>2. CASE j = Len(t) + 1
      <4>1. d[j] = k + 1
        BY <2>1, <3>2
      <4> QED BY <1>1, <3>1, <4>1
    <3>3. CASE j # Len(t) + 1
      <4>1. j \in 1..Len(t) /\ d[j] = e[j]
        BY <2>1, <2>2, <3>3
      <4> QED BY <1>2, <2>5, <3>1, <4>1
    <3> QED BY <3>2, <3>3
  <2>6. ASSUME NEW p \in 1..(k + 1), s[p] \in S PROVE \E i \in 1..Len(u) : d[i] = p
    <3>1. CASE p = k + 1
      <4>1. Len(t) + 1 \in 1..Len(u) /\ d[Len(t) + 1] = p
        BY <1>1, <2>1, <3>1
      <4> QED BY <4>1
    <3>2. CASE p # k + 1
      <4>1. p \in 1..k
        BY <1>1, <3>2
      <4>2. PICK i \in 1..Len(t) : e[i] = p
        BY <1>2, <2>6, <4>1
      <4>3. i \in 1..Len(u) /\ d[i] = p
        BY <1>1, <2>1, <4>2
      <4> QED BY <4>3
    <3> QED BY <3>1, <3>2
  <2>7. \A i \in 1..Len(u) : u[i] = s[d[i]] /\ s[d[i]] \in S
    BY <2>1, <2>3
  <2> HIDE DEF d
  <2>8. Picks(u, s, S, k + 1)
    BY <2>4, <2>5, <2>6, <2>7 DEF Picks
  <2> QED BY <1>4, <2>1, <2>8 DEF u
<1> QED BY <1>3, <1>4

LEMMA OnlyPicks ==
  ASSUME NEW A, NEW s \in Seq(A), NEW S
  PROVE  Only(s, S) \in Seq(A) /\ Picks(Only(s, S), s, S, Len(s))
<1> DEFINE n == Len(s)
           f == CHOOSE g : Filters(g, s, S, n)
           G == {k \in 0..n : f[k] \in Seq(A) /\ Picks(f[k], s, S, k)}
<1>1. n \in Nat /\ Filters(f, s, S, n)
  BY FiltersExist
<1>2. Only(s, S) = f[n]
  BY Zenon DEF Only, Filters
<1> HIDE DEF f
<1>3. 0 \in G
  <2>1. 0 \in 0..n /\ f[0] = <<>>
    BY <1>1 DEF Filters
  <2>2. Picks(<<>>, s, S, 0)
    <3>1. Len(<<>>) = 0 /\ 1..0 = {}
      OBVIOUS
    <3> DEFINE e == [i \in {} |-> 0]
    <3>2. e \in [{} -> {}]
      OBVIOUS
    <3> HIDE DEF e
    <3>3. Picks(<<>>, s, S, 0) <=> \E d \in [{} -> {}] : TRUE
      BY <3>1 DEF Picks
    <3> QED BY <3>2, <3>3
  <2>3. f[0] \in Seq(A) /\ Picks(f[0], s, S, 0)
    <3>1. <<>> \in Seq(A)
      OBVIOUS
    <3> QED BY <2>1, <2>2, <3>1
  <2> QED BY <2>1, <2>3
<1>4. ASSUME NEW k \in 0..(n - 1), k \in G PROVE k + 1 \in G
  <2>1. k + 1 \in 0..n /\ k + 1 # 0 /\ (k + 1) - 1 = k
    BY <1>1
  <2>2. f[k + 1] = IF s[k + 1] \in S THEN Append(f[k], s[k + 1]) ELSE f[k]
    BY <1>1, <2>1 DEF Filters
  <2>3. f[k] \in Seq(A) /\ Picks(f[k], s, S, k)
    BY <1>4
  <2>4. f[k + 1] \in Seq(A) /\ Picks(f[k + 1], s, S, k + 1)
    BY <2>2, <2>3, PicksOne
  <2> QED BY <2>1, <2>4
<1> HIDE DEF G
<1>5. n \in G
  BY <1>1, <1>3, <1>4, ToTheEnd
<1> QED BY <1>2, <1>5 DEF G

LEMMA OnlyIs ==
  ASSUME NEW A, NEW s \in Seq(A), NEW S
  PROVE  LET t == Only(s, S)
         IN  /\ t \in Seq(A) /\ ToSet(t) = ToSet(s) \cap S
             /\ IsInjective(s) => /\ IsInjective(t)
                                  /\ \A x, y : Before(t, x, y) <=> x \in S /\ y \in S /\ Before(s, x, y)
<1> DEFINE t == Only(s, S)
<1>1. t \in Seq(A) /\ Picks(t, s, S, Len(s))
  BY OnlyPicks
<1> HIDE DEF t
<1>2. PICK e \in [1..Len(t) -> 1..Len(s)] :
        /\ \A i, j \in 1..Len(t) : i < j => e[i] < e[j]
        /\ \A i \in 1..Len(t) : t[i] = s[e[i]] /\ s[e[i]] \in S
        /\ \A p \in 1..Len(s) : s[p] \in S => \E i \in 1..Len(t) : e[i] = p
  BY <1>1 DEF Picks
<1>3. ToSet(t) = {t[i] : i \in 1..Len(t)} /\ ToSet(s) = {s[i] : i \in 1..Len(s)}
  BY <1>1, Elements
<1>4. ASSUME NEW x \in ToSet(t) PROVE x \in ToSet(s) \cap S
  <2>1. PICK i \in 1..Len(t) : t[i] = x
    BY <1>3
  <2> QED BY <1>2, <1>3, <2>1
<1>5. ASSUME NEW x \in ToSet(s) \cap S PROVE x \in ToSet(t)
  <2>1. PICK p \in 1..Len(s) : s[p] = x
    BY <1>3
  <2>2. PICK i \in 1..Len(t) : e[i] = p
    BY <1>2, <2>1
  <2> QED BY <1>2, <1>3, <2>1, <2>2
<1>6. ToSet(t) = ToSet(s) \cap S
  BY <1>4, <1>5
<1>7. ASSUME IsInjective(s)
      PROVE  IsInjective(t) /\ \A x, y : Before(t, x, y) <=> x \in S /\ y \in S /\ Before(s, x, y)
  <2>1. \A i, j \in 1..Len(s) : s[i] = s[j] => i = j
    BY <1>7, Elements
  <2>2. ASSUME NEW i \in 1..Len(t), NEW j \in 1..Len(t), t[i] = t[j] PROVE i = j
    <3>1. e[i] = e[j]
      BY <1>2, <2>1, <2>2
    <3>2. e[i] \in Nat /\ ~(i < j) /\ ~(j < i)
      BY <1>2, <3>1
    <3> QED BY <3>2
  <2>3. IsInjective(t)
    BY <1>1, <2>2, Elements
  <2>4. ASSUME NEW x, NEW y, Before(t, x, y) PROVE x \in S /\ y \in S /\ Before(s, x, y)
    <3>1. PICK i, j \in 1..Len(t) : i < j /\ t[i] = x /\ t[j] = y
      BY <2>4 DEF Before
    <3>2. e[i] \in 1..Len(s) /\ e[j] \in 1..Len(s) /\ e[i] < e[j] /\ s[e[i]] = x /\ s[e[j]] = y /\ x \in S /\ y \in S
      BY <1>2, <3>1
    <3> QED BY <3>2 DEF Before
  <2>5. ASSUME NEW x, NEW y, x \in S, y \in S, Before(s, x, y) PROVE Before(t, x, y)
    <3>1. PICK p, q \in 1..Len(s) : p < q /\ s[p] = x /\ s[q] = y
      BY <2>5 DEF Before
    <3>2. PICK i \in 1..Len(t) : e[i] = p
      BY <1>2, <2>5, <3>1
    <3>3. PICK j \in 1..Len(t) : e[j] = q
      BY <1>2, <2>5, <3>1
    <3>4. i # j /\ ~(j < i)
      BY <1>2, <3>1, <3>2, <3>3
    <3>5. i < j /\ t[i] = x /\ t[j] = y
      BY <1>2, <3>1, <3>2, <3>3, <3>4
    <3> QED BY <3>5 DEF Before
  <2> QED BY <2>3, <2>4, <2>5
<1> QED BY <1>1, <1>6, <1>7 DEF t

-----------------------------------------------------------------------------
(* Places *)

LEMMA FirstIs ==
  ASSUME NEW n \in Nat, NEW I \in SUBSET (1..n), I # {}
  PROVE  Min(I) \in I /\ \A j \in I : Min(I) <= j
<1>1. I \in SUBSET Nat
  OBVIOUS
<1>2. PICK m \in I : \A j \in I : m <= j
  BY <1>1, Least
<1> QED BY <1>1, <1>2, MinIs

LEMMA IndexType ==
  ASSUME NEW A, NEW s \in Seq(A), NEW x
  PROVE  /\ Index(s, x) \in 0..Len(s) /\ (Index(s, x) = 0 <=> x \notin ToSet(s))
         /\ x \in ToSet(s) => Index(s, x) \in 1..Len(s) /\ s[Index(s, x)] = x
         /\ \A j \in 1..Len(s) : s[j] = x => Index(s, x) <= j
<1> DEFINE I == {k \in 1..Len(s) : s[k] = x}
<1>1. Index(s, x) = IF I # {} THEN Min(I) ELSE 0
  BY DEF Index, SelectInSeq
<1>2. Len(s) \in Nat /\ I \in SUBSET (1..Len(s))
  OBVIOUS
<1>3. x \in ToSet(s) <=> I # {}
  BY Elements
<1>4. \A k \in I : s[k] = x
  OBVIOUS
<1>5. \A k \in 1..Len(s) : s[k] = x => k \in I
  OBVIOUS
<1> HIDE DEF I
<1>6. CASE I = {}
  <2>1. Index(s, x) = 0
    BY <1>1, <1>6
  <2> QED BY <1>2, <1>3, <1>5, <1>6, <2>1
<1>7. CASE I # {}
  <2>1. Index(s, x) \in I /\ \A j \in I : Index(s, x) <= j
    <3>1. Index(s, x) = Min(I)
      BY <1>1, <1>7
    <3>2. Min(I) \in I /\ \A j \in I : Min(I) <= j
      <4> HIDE DEF Index
      <4> QED BY <1>2, <1>7, FirstIs
    <3> QED BY <3>1, <3>2
  <2>2. Index(s, x) \in 1..Len(s)
    BY <1>2, <2>1
  <2>3. Index(s, x) \in 0..Len(s) /\ Index(s, x) # 0
    <3>1. \A n \in Nat : \A i \in 1..n : i \in 0..n /\ i # 0
      OBVIOUS
    <3> QED BY <1>2, <2>2, <3>1
  <2> QED BY <1>3, <1>4, <1>5, <1>7, <2>1, <2>2, <2>3
<1> QED BY <1>6, <1>7

LEMMA IndexIs ==
  ASSUME NEW A, NEW s \in Seq(A), IsInjective(s)
  PROVE  /\ \A i \in 1..Len(s) : Index(s, s[i]) = i
         /\ \A x, y \in ToSet(s) : Index(s, x) < Index(s, y) <=> Before(s, x, y)
<1>1. ASSUME NEW i \in 1..Len(s) PROVE Index(s, s[i]) = i
  <2>1. s[i] \in ToSet(s)
    BY Elements
  <2>2. Index(s, s[i]) \in 1..Len(s) /\ s[Index(s, s[i])] = s[i]
    BY <2>1, IndexType
  <2> QED BY <2>2, Elements
<1>2. ASSUME NEW x \in ToSet(s), NEW y \in ToSet(s) PROVE Index(s, x) < Index(s, y) <=> Before(s, x, y)
  <2>1. Index(s, x) \in 1..Len(s) /\ s[Index(s, x)] = x
    BY IndexType
  <2>2. Index(s, y) \in 1..Len(s) /\ s[Index(s, y)] = y
    BY IndexType
  <2>3. Before(s, s[Index(s, x)], s[Index(s, y)]) <=> Index(s, x) < Index(s, y)
    BY <2>1, <2>2, BeforeIs
  <2> QED BY <2>1, <2>2, <2>3
<1> QED BY <1>1, <1>2

\* One after the other
LEMMA Adjacent ==
  ASSUME NEW A, NEW s \in Seq(A), IsInjective(s), NEW x, NEW y, Before(s, x, y),
         \A z : ~(Before(s, x, z) /\ Before(s, z, y))
  PROVE  Index(s, y) = Index(s, x) + 1
<1> DEFINE i == Index(s, x)
           j == Index(s, y)
<1>1. x \in ToSet(s) /\ y \in ToSet(s)
  BY BeforeIs
<1>2. i \in 1..Len(s) /\ s[i] = x /\ j \in 1..Len(s) /\ s[j] = y /\ i < j
  BY <1>1, IndexType, IndexIs
<1> HIDE DEF i, j
<1>3. SUFFICES ASSUME j # i + 1 PROVE FALSE
  BY DEF i, j
<1>4. i + 1 \in 1..Len(s) /\ i < i + 1 /\ i + 1 < j
  BY <1>2, <1>3
<1>5. Before(s, s[i], s[i + 1]) /\ Before(s, s[i + 1], s[j])
  BY <1>2, <1>4, BeforeIs
<1> QED BY <1>2, <1>5

-----------------------------------------------------------------------------
(* Sequences put together *)

LEMMA JoinIs ==
  ASSUME NEW S, NEW a \in Seq(S), NEW b \in Seq(S)
  PROVE  /\ a \o b \in Seq(S) /\ Len(a \o b) = Len(a) + Len(b)
         /\ \A j \in 1..Len(a) : (a \o b)[j] = a[j]
         /\ \A j \in 1..Len(b) : (a \o b)[Len(a) + j] = b[j]
<1>1. a \o b \in Seq(S)
  OBVIOUS
<1>2. Len(a \o b) = Len(a) + Len(b)
  OBVIOUS
<1>3. \A j \in 1..Len(a) : (a \o b)[j] = a[j]
  OBVIOUS
<1>4. \A j \in 1..Len(b) : (a \o b)[Len(a) + j] = b[j]
  OBVIOUS
<1> QED BY <1>1, <1>2, <1>3, <1>4

LEMMA InsertIs ==
  ASSUME NEW S, NEW s \in Seq(S), NEW x \in S, NEW p \in 1..(Len(s) + 1)
  PROVE  LET t == InsertAt(s, p, x)
         IN  /\ t \in Seq(S) /\ Len(t) = Len(s) + 1 /\ t[p] = x
             /\ \A j \in 1..(p - 1) : t[j] = s[j]
             /\ \A j \in p..Len(s) : t[j + 1] = s[j]
<1> DEFINE a == SubSeq(s, 1, p - 1)
           b == SubSeq(s, p, Len(s))
<1>1. a \in Seq(S) /\ Len(a) = p - 1 /\ \A j \in 1..(p - 1) : a[j] = s[j]
  OBVIOUS
<1>2. b \in Seq(S) /\ Len(b) = Len(s) - p + 1 /\ \A j \in 1..(Len(s) - p + 1) : b[j] = s[p + j - 1]
  OBVIOUS
<1>3. <<x>> \in Seq(S) /\ Len(<<x>>) = 1 /\ <<x>>[1] = x
  OBVIOUS
<1> HIDE DEF a, b
<1> DEFINE c == a \o <<x>>
<1>4. c \in Seq(S) /\ Len(c) = p /\ c[p] = x /\ \A j \in 1..(p - 1) : c[j] = s[j]
  BY <1>1, <1>3
<1> HIDE DEF c
<1>5. c \o b \in Seq(S) /\ Len(c \o b) = Len(s) + 1
  <2>1. c \o b \in Seq(S) /\ Len(c \o b) = Len(c) + Len(b)
    BY <1>2, <1>4, JoinIs
  <2> QED BY <1>2, <1>4, <2>1
<1>6. (c \o b)[p] = x /\ \A j \in 1..(p - 1) : (c \o b)[j] = s[j]
  <2>1. \A j \in 1..Len(c) : (c \o b)[j] = c[j]
    BY <1>2, <1>4, JoinIs
  <2> QED BY <1>4, <2>1
<1>7. ASSUME NEW j \in p..Len(s) PROVE (c \o b)[j + 1] = s[j]
  <2>1. j + 1 - p \in 1..(Len(s) - p + 1) /\ Len(c) + (j + 1 - p) = j + 1
    BY <1>4
  <2>2. \A k \in 1..Len(b) : (c \o b)[Len(c) + k] = b[k]
    BY <1>2, <1>4, JoinIs
  <2>4. (c \o b)[j + 1] = b[j + 1 - p]
    BY <1>2, <2>1, <2>2
  <2>3. b[j + 1 - p] = s[p + (j + 1 - p) - 1] /\ p + (j + 1 - p) - 1 = j
    BY <1>2, <2>1
  <2> QED BY <2>3, <2>4
<1>8. InsertAt(s, p, x) = c \o b
  BY DEF InsertAt, a, b, c
<1> QED BY <1>5, <1>6, <1>7, <1>8


LEMMA InsertOrder ==
  ASSUME NEW A, NEW s \in Seq(A), IsInjective(s), NEW x \in A, x \notin ToSet(s), NEW p \in 1..(Len(s) + 1)
  PROVE  LET t == InsertAt(s, p, x)
         IN  /\ t \in Seq(A) /\ IsInjective(t) /\ ToSet(t) = ToSet(s) \cup {x}
             /\ \A y, z \in ToSet(s) : Before(t, y, z) <=> Before(s, y, z)
             /\ \A j \in 1..Len(s) : /\ Before(t, s[j], x) <=> j < p
                                     /\ Before(t, x, s[j]) <=> p <= j
<1> DEFINE t == InsertAt(s, p, x)
           n == Len(s)
           up(j) == IF j < p THEN j ELSE j + 1
<1>1. n \in Nat /\ t \in Seq(A) /\ Len(t) = n + 1 /\ t[p] = x
  BY InsertIs
<1>2. /\ \A j \in 1..(p - 1) : t[j] = s[j]
      /\ \A j \in p..n : t[j + 1] = s[j]
  BY InsertIs
<1> HIDE DEF t
<1>3. ASSUME NEW j \in 1..n PROVE up(j) \in 1..(n + 1) /\ up(j) # p /\ t[up(j)] = s[j]
  <2>1. CASE j < p
    <3>1. j \in 1..(p - 1) /\ up(j) = j /\ j \in 1..(n + 1) /\ j # p
      BY <1>1, <2>1
    <3> QED BY <1>2, <3>1
  <2>2. CASE ~(j < p)
    <3>1. j \in p..n /\ up(j) = j + 1 /\ j + 1 \in 1..(n + 1) /\ j + 1 # p
      BY <1>1, <2>2
    <3> QED BY <1>2, <3>1
  <2> QED BY <2>1, <2>2
<1>4. ASSUME NEW k \in 1..(n + 1), k # p PROVE \E j \in 1..n : up(j) = k
  <2>1. CASE k < p
    <3>1. k \in 1..n /\ up(k) = k
      BY <1>1, <2>1
    <3> QED BY <3>1
  <2>2. CASE ~(k < p)
    <3>1. k - 1 \in 1..n /\ up(k - 1) = k
      BY <1>1, <1>4, <2>2
    <3> QED BY <3>1
  <2> QED BY <2>1, <2>2
<1>5. \A i, j \in 1..n : (i < j <=> up(i) < up(j)) /\ (i = j <=> up(i) = up(j))
  BY <1>1
<1>6. \A j \in 1..n : (j < p <=> up(j) < p) /\ (p <= j <=> p < up(j))
  BY <1>1
<1> HIDE DEF up
<1>7. \A j \in 1..n : s[j] \in ToSet(s) /\ s[j] # x
  BY Elements
<1>8. ASSUME NEW k \in 1..(n + 1), NEW l \in 1..(n + 1), t[k] = t[l] PROVE k = l
  <2>1. CASE k # p /\ l # p
    <3>1. PICK i \in 1..n : up(i) = k
      BY <1>4, <2>1
    <3>2. PICK j \in 1..n : up(j) = l
      BY <1>4, <2>1
    <3>3. s[i] = s[j]
      BY <1>3, <1>8, <3>1, <3>2
    <3> QED BY <3>1, <3>2, <3>3, Elements
  <2>2. CASE k # p /\ l = p
    <3>1. PICK i \in 1..n : up(i) = k
      BY <1>4, <2>2
    <3> QED BY <1>1, <1>3, <1>7, <1>8, <2>2, <3>1
  <2>3. CASE k = p /\ l # p
    <3>1. PICK i \in 1..n : up(i) = l
      BY <1>4, <2>3
    <3> QED BY <1>1, <1>3, <1>7, <1>8, <2>3, <3>1
  <2> QED BY <2>1, <2>2, <2>3
<1>9. IsInjective(t)
  BY <1>1, <1>8, Elements
<1>10. \A k, l \in 1..(n + 1) : Before(t, t[k], t[l]) <=> k < l
  BY <1>1, <1>9, BeforeIs
<1>11. ToSet(t) = ToSet(s) \cup {x}
  <2>1. ASSUME NEW y \in ToSet(t) PROVE y \in ToSet(s) \cup {x}
    <3>1. PICK k \in 1..(n + 1) : t[k] = y
      BY <1>1, <2>1, Elements
    <3>2. CASE k # p
      <4>1. PICK i \in 1..n : up(i) = k
        BY <1>4, <3>2
      <4> QED BY <1>3, <1>7, <3>1, <4>1
    <3> QED BY <1>1, <3>1, <3>2
  <2>2. ASSUME NEW y \in ToSet(s) PROVE y \in ToSet(t)
    <3>1. PICK i \in 1..n : s[i] = y
      BY <2>2, Elements
    <3>2. up(i) \in 1..(n + 1) /\ t[up(i)] = y
      BY <1>3, <3>1
    <3> QED BY <1>1, <3>2, Elements
  <2>3. p \in 1..(n + 1)
    OBVIOUS
  <2>4. x \in ToSet(t)
    BY <1>1, <2>3, Elements
  <2> QED BY <2>1, <2>2, <2>4
<1>12. ASSUME NEW y \in ToSet(s), NEW z \in ToSet(s) PROVE Before(t, y, z) <=> Before(s, y, z)
  <2>1. PICK i \in 1..n : s[i] = y
    BY Elements
  <2>2. PICK j \in 1..n : s[j] = z
    BY Elements
  <2>3. Before(s, y, z) <=> i < j
    BY <2>1, <2>2, BeforeIs
  <2>4. Before(t, y, z) <=> up(i) < up(j)
    BY <1>3, <1>10, <2>1, <2>2
  <2> QED BY <1>5, <2>3, <2>4
<1>13. ASSUME NEW j \in 1..n PROVE (Before(t, s[j], x) <=> j < p) /\ (Before(t, x, s[j]) <=> p <= j)
  <2>1. up(j) \in 1..(n + 1) /\ t[up(j)] = s[j] /\ p \in 1..(n + 1) /\ t[p] = x
    BY <1>1, <1>3
  <2>2. Before(t, s[j], x) <=> up(j) < p
    BY <1>10, <2>1
  <2>3. Before(t, x, s[j]) <=> p < up(j)
    BY <1>10, <2>1
  <2> QED BY <1>6, <2>2, <2>3
<1> QED BY <1>1, <1>9, <1>11, <1>12, <1>13 DEF t

-----------------------------------------------------------------------------
(* An insertion sort by priority *)

LEMMA CountIs ==
  ASSUME NEW A, NEW s \in Seq(A), IsInjective(s)
  PROVE  IsFiniteSet(ToSet(s)) /\ Cardinality(ToSet(s)) = Len(s)
<1> DEFINE S == ToSet(s)
           n == Len(s)
<1>1. n \in Nat /\ DOMAIN s = 1..n /\ s \in [1..n -> S]
  <2>1. \A i \in 1..n : s[i] \in S
    BY Elements
  <2> QED BY <2>1
<1>2. \A x \in S : \E i \in 1..n : s[i] = x
  BY Elements
<1>3. s \in Surjection(1..n, S) /\ s \in Injection(1..n, S)
  BY <1>1, <1>2 DEF Surjection, Injection
<1>4. ExistsBijection(1..n, S)
  BY <1>3 DEF ExistsBijection, Bijection
<1>5. IsFiniteSet(1..n) /\ Cardinality(1..n) = n
  <2>1. 1 \in Int /\ n \in Int /\ (IF 1 > n THEN 0 ELSE n - 1 + 1) = n
    BY <1>1
  <2> QED BY <2>1, FS_Interval
<1>6. IsFiniteSet(S) /\ Cardinality(S) = Cardinality(1..n)
  BY <1>4, <1>5, FS_Bijection
<1> QED BY <1>5, <1>6

LEMMA InsertSorted ==
  ASSUME NEW A, NEW t \in Seq(A), IsInjective(t), NEW x \in A, x \notin ToSet(t),
         NEW p, \A y \in A : p[y] \in Int, \A y, z : Before(t, y, z) => p[y] <= p[z]
  PROVE  LET u == InsertAt(t, Cardinality({y \in ToSet(t) : p[y] <= p[x]}) + 1, x)
         IN  /\ u \in Seq(A) /\ IsInjective(u) /\ ToSet(u) = ToSet(t) \cup {x}
             /\ \A y, z \in ToSet(t) : Before(u, y, z) <=> Before(t, y, z)
             /\ \A y \in ToSet(t) : /\ Before(u, y, x) <=> p[y] <= p[x]
                                    /\ Before(u, x, y) <=> p[x] < p[y]
<1> DEFINE n == Len(t)
           T == {q \in 1..(n + 1) : q # n + 1 => p[x] < p[t[q]]}
           before == {y \in ToSet(t) : p[y] <= p[x]}
<1>1. n \in Nat /\ T \in SUBSET Nat /\ T # {}
  <2>1. n \in Nat
    OBVIOUS
  <2>2. n + 1 \in 1..(n + 1)
    BY <2>1
  <2>3. n + 1 \in T
    BY <2>2
  <2>4. \A m \in Nat : 1..(m + 1) \in SUBSET Nat
    OBVIOUS
  <2>5. T \in SUBSET Nat
    BY <2>1, <2>4
  <2> QED BY <2>1, <2>3, <2>5
<1>2. PICK q \in T : \A j \in T : q <= j
  BY <1>1, Least
<1>3. q \in 1..(n + 1) /\ q - 1 \in 0..n
  BY <1>1
<1>4. \A j \in 1..n : t[j] \in A /\ p[t[j]] \in Int /\ p[x] \in Int
  BY Elements
<1>5. \A j \in 1..n : p[t[j]] <= p[x] <=> j < q
  <2>1. ASSUME NEW j \in 1..n, j < q PROVE p[t[j]] <= p[x]
    <3>1. j \in 1..(n + 1) /\ j # n + 1 /\ ~(q <= j)
      BY <1>1, <1>3, <2>1
    <3>2. j \notin T
      BY <1>2, <3>1
    <3>3. ~(p[x] < p[t[j]])
      BY <3>1, <3>2
    <3> HIDE DEF T
    <3> QED BY <1>4, <3>3
  <2>2. ASSUME NEW j \in 1..n, ~(j < q) PROVE ~(p[t[j]] <= p[x])
    <3>1. q \in 1..n /\ q # n + 1 /\ q <= j
      BY <1>1, <1>3, <2>2
    <3>2. p[x] < p[t[q]]
      BY <3>1
    <3> HIDE DEF T
    <3>3. p[t[q]] <= p[t[j]]
      <4>1. CASE q = j
        BY <1>4, <4>1
      <4>2. CASE q # j
        <5>1. q < j
          BY <1>3, <3>1, <4>2
        <5>2. Before(t, t[q], t[j])
          BY <3>1, <5>1, BeforeIs
        <5> QED BY <5>2
      <4> QED BY <4>1, <4>2
    <3> QED BY <1>4, <3>1, <3>2, <3>3
  <2> QED BY <2>1, <2>2
<1> HIDE DEF T
<1>6. Cardinality(before) + 1 = q
  <2> DEFINE s == SubSeq(t, 1, q - 1)
  <2>1. s \in Seq(A) /\ Len(s) = q - 1 /\ \A j \in 1..(q - 1) : s[j] = t[j] /\ j \in 1..n /\ j < q
    BY <1>1, <1>3
  <2>2. \A j \in 1..n : j < q => j \in 1..(q - 1)
    BY <1>1, <1>3
  <2> HIDE DEF s
  <2>3. IsInjective(s)
    <3>1. \A i, j \in 1..Len(s) : s[i] = s[j] => i = j
      BY <2>1, Elements
    <3> QED BY <2>1, <3>1, Elements
  <2>4. ToSet(s) = before
    <3>1. ASSUME NEW y \in ToSet(s) PROVE y \in before
      <4>1. PICK j \in 1..Len(s) : s[j] = y
        BY <2>1, Elements
      <4>2. j \in 1..n /\ j < q /\ y = t[j]
        BY <2>1, <4>1
      <4> QED BY <1>5, <4>2, Elements
    <3>2. ASSUME NEW y \in before PROVE y \in ToSet(s)
      <4>1. PICK j \in 1..n : t[j] = y
        BY Elements
      <4>2. j < q
        BY <1>5, <4>1
      <4>3. j \in 1..Len(s) /\ s[j] = y
        BY <2>1, <2>2, <4>1, <4>2
      <4> QED BY <2>1, <4>3, Elements
    <3> HIDE DEF before
    <3> QED BY <3>1, <3>2
  <2>5. Cardinality(before) = q - 1
    <3> HIDE DEF before
    <3> QED BY <2>1, <2>3, <2>4, CountIs
  <2> QED BY <1>3, <2>5
<1> HIDE DEF before
<1> DEFINE u == InsertAt(t, q, x)
<1>7. /\ u \in Seq(A) /\ IsInjective(u) /\ ToSet(u) = ToSet(t) \cup {x}
      /\ \A y, z \in ToSet(t) : Before(u, y, z) <=> Before(t, y, z)
      /\ \A j \in 1..Len(t) : /\ Before(u, t[j], x) <=> j < q
                              /\ Before(u, x, t[j]) <=> q <= j
  <2>1. q \in 1..(Len(t) + 1)
    BY <1>3
  <2> QED BY <2>1, InsertOrder
<1> HIDE DEF u
<1>8. ASSUME NEW y \in ToSet(t) PROVE (Before(u, y, x) <=> p[y] <= p[x]) /\ (Before(u, x, y) <=> p[x] < p[y])
  <2>1. PICK j \in 1..n : t[j] = y
    BY Elements
  <2>2. q <= j <=> ~(j < q)
    BY <1>3, <2>1
  <2>3. p[x] < p[y] <=> ~(p[y] <= p[x])
    BY <1>4, <2>1
  <2> QED BY <1>5, <1>7, <2>1, <2>2, <2>3
<1> QED BY <1>6, <1>7, <1>8 DEF u, before

-----------------------------------------------------------------------------
(* Launchers, and the sort of their icons *)

Launchers ==
  [inner : Seq(Icons), priority : [Icons -> Int], given : Nat,
   stuck : SUBSET Icons, visible : SUBSET Icons, removed : SUBSET Icons,
   closing : SUBSET Icons, running : SUBSET Applications,
   sticky : SUBSET Applications, seen : SUBSET Applications]

Fit(l) == l \in Launchers /\ IsInjective(l.inner)

\* All but the order and what it comes from
Same(t, l) ==
  /\ t.stuck = l.stuck /\ t.visible = l.visible /\ t.removed = l.removed
  /\ t.closing = l.closing /\ t.running = l.running /\ t.sticky = l.sticky /\ t.seen = l.seen

\* The icons are in the order of their priorities
Ranked(l) == \A x, y : Before(l.inner, x, y) => l.priority[x] <= l.priority[y]

\* By their priorities, and where these are the same, as they were
ComesFirst(m, i, j) ==
  \/ m.priority[i] < m.priority[j]
  \/ m.priority[i] = m.priority[j] /\ Index(m.inner, i) < Index(m.inner, j)

LEMMA ComesFirstIs ==
  ASSUME NEW m, Fit(m)
  PROVE  /\ \A x, y \in ToSet(m.inner) : x # y => ComesFirst(m, x, y) \/ ComesFirst(m, y, x)
         /\ \A x, y \in ToSet(m.inner) : ComesFirst(m, x, y) => x # y /\ ~ComesFirst(m, y, x)
         /\ \A x, y, z \in ToSet(m.inner) :
              ComesFirst(m, x, y) /\ ComesFirst(m, y, z) => ComesFirst(m, x, z)
         /\ \A x, y \in ToSet(m.inner) : ComesFirst(m, x, y) => m.priority[x] <= m.priority[y]
         /\ \A x, y \in ToSet(m.inner) : m.priority[x] < m.priority[y] => ComesFirst(m, x, y)
         /\ \A x, y : Before(m.inner, x, y) /\ m.priority[x] <= m.priority[y] => ComesFirst(m, x, y)
<1> DEFINE S == ToSet(m.inner)
           P(x) == m.priority[x]
           I(x) == Index(m.inner, x)
<1>1. m.inner \in Seq(Icons) /\ IsInjective(m.inner) /\ m.priority \in [Icons -> Int]
  BY DEF Fit, Launchers
<1>2. S \subseteq Icons
  BY <1>1, Elements
<1>3. \A x \in S : P(x) \in Int /\ I(x) \in Int
  <2>1. ASSUME NEW x \in S PROVE I(x) \in Int
    <3>1. I(x) \in 1..Len(m.inner)
      BY <1>1, IndexType
    <3> QED BY <3>1
  <2> QED BY <1>1, <1>2, <2>1
<1>4. \A x, y \in S : I(x) = I(y) => x = y
  <2>1. \A x \in S : m.inner[I(x)] = x
    BY <1>1, IndexType
  <2> QED BY <2>1
<1>5. \A x, y \in S : I(x) < I(y) <=> Before(m.inner, x, y)
  BY <1>1, IndexIs
<1>6. \A x, y : Before(m.inner, x, y) => x \in S /\ y \in S
  BY <1>1, BeforeIs
<1>7. \A x, y : ComesFirst(m, x, y) <=> P(x) < P(y) \/ (P(x) = P(y) /\ I(x) < I(y))
  BY DEF ComesFirst
<1> HIDE DEF S, P, I
<1>8. \A x, y \in S : x # y => ComesFirst(m, x, y) \/ ComesFirst(m, y, x)
  BY <1>3, <1>4, <1>7
<1>9. \A x, y \in S : ComesFirst(m, x, y) => x # y /\ ~ComesFirst(m, y, x)
  BY <1>3, <1>7
<1>10. \A x, y, z \in S : ComesFirst(m, x, y) /\ ComesFirst(m, y, z) => ComesFirst(m, x, z)
  BY <1>3, <1>7
<1>11. \A x, y \in S : ComesFirst(m, x, y) => P(x) <= P(y)
  BY <1>3, <1>7
<1>12. \A x, y \in S : P(x) < P(y) => ComesFirst(m, x, y)
  BY <1>3, <1>7
<1>13. \A x, y : Before(m.inner, x, y) /\ P(x) <= P(y) => ComesFirst(m, x, y)
  BY <1>3, <1>5, <1>6, <1>7
<1> QED BY <1>8, <1>9, <1>10, <1>11, <1>12, <1>13 DEF S, P

\* What a sort makes of its first n icons: f[k] is the sequence of the first k ones
Sorts(f, m, n) ==
  f = [k \in 0..n |-> IF k = 0 THEN <<>> ELSE Insert(m, f[k - 1], m.inner[k])]

LEMMA SortsExist ==
  ASSUME NEW A, NEW m, m.inner \in Seq(A)
  PROVE  \E f : Sorts(f, m, Len(m.inner))
<1> DEFINE n == Len(m.inner)
           G == {k \in 0..n : \E f : Sorts(f, m, k)}
<1>1. n \in Nat
  OBVIOUS
<1>2. 0 \in G
  <2> DEFINE f == [k \in 0..0 |-> <<>>]
  <2>1. Sorts(f, m, 0)
    BY DEF Sorts
  <2> HIDE DEF f
  <2> QED BY <1>1, <2>1
<1>3. ASSUME NEW k \in 0..(n - 1), k \in G PROVE k + 1 \in G
  <2>1. k + 1 \in 0..n /\ k \in Nat
    BY <1>1
  <2>2. PICK g : Sorts(g, m, k)
    BY <1>3
  <2> DEFINE f == [j \in 0..(k + 1) |-> IF j = k + 1 THEN Insert(m, g[k], m.inner[k + 1]) ELSE g[j]]
             h == [j \in 0..(k + 1) |-> IF j = 0 THEN <<>> ELSE Insert(m, f[j - 1], m.inner[j])]
  <2>3. ASSUME NEW j \in 0..(k + 1) PROVE f[j] = h[j]
    <3>1. CASE j = k + 1
      <4>1. j - 1 = k /\ k \in 0..(k + 1) /\ k # k + 1 /\ j # 0
        BY <2>1, <3>1
      <4>2. f[j - 1] = g[k]
        BY <4>1
      <4> QED BY <3>1, <4>1, <4>2
    <3>2. CASE j # k + 1 /\ j # 0
      <4>1. j \in 0..k /\ j - 1 \in 0..(k + 1) /\ j - 1 # k + 1
        BY <2>1, <3>2
      <4>2. g[j] = Insert(m, g[j - 1], m.inner[j])
        BY <2>2, <3>2, <4>1 DEF Sorts
      <4>3. f[j - 1] = g[j - 1]
        BY <4>1
      <4> QED BY <3>2, <4>2, <4>3
    <3>3. CASE j # k + 1 /\ j = 0
      <4>1. 0 \in 0..k
        BY <2>1
      <4>2. g[0] = <<>>
        BY <2>2, <4>1 DEF Sorts
      <4> QED BY <3>3, <4>2
    <3> QED BY <3>1, <3>2, <3>3
  <2>4. f = h
    BY <2>3
  <2>5. Sorts(f, m, k + 1)
    BY <2>4 DEF Sorts
  <2> HIDE DEF f
  <2> QED BY <2>1, <2>5
<1> HIDE DEF G
<1>4. n \in G
  BY <1>1, <1>2, <1>3, ToTheEnd
<1> QED BY <1>4 DEF G

LEMMA SortIs ==
  ASSUME NEW m, Fit(m)
  PROVE  LET t == Sort(m)
         IN  /\ Fit(t) /\ Same(t, m) /\ t.priority = m.priority /\ ToSet(t.inner) = ToSet(m.inner)
             /\ Ranked(t)
             /\ \A x, y \in ToSet(m.inner) : Before(t.inner, x, y) <=> ComesFirst(m, x, y)
<1> DEFINE s == m.inner
           n == Len(s)
           part(k) == {s[i] : i \in 1..k}
           f == CHOOSE g : Sorts(g, m, n)
           Done(u, k) == /\ u \in Seq(Icons) /\ IsInjective(u) /\ ToSet(u) = part(k)
                         /\ \A x, y : Before(u, x, y) => ComesFirst(m, x, y)
           G == {k \in 0..n : Done(f[k], k)}
           t == Sort(m)
<1>1. m \in Launchers /\ s \in Seq(Icons) /\ IsInjective(s) /\ m.priority \in [Icons -> Int] /\ n \in Nat
  BY DEF Fit, Launchers
<1>2. Sorts(f, m, n)
  BY <1>1, SortsExist
<1>3. t = [m EXCEPT !.inner = f[n]]
  BY Zenon DEF Sort, Sorts
<1> HIDE DEF f
<1>4. 0 \in G
  <2>1. 0 \in 0..n /\ f[0] = <<>> /\ part(0) = {}
    BY <1>1, <1>2 DEF Sorts
  <2>2. <<>> \in Seq(Icons) /\ IsInjective(<<>>) /\ ToSet(<<>>) = {} /\ \A x, y : ~Before(<<>>, x, y)
    BY DEF IsInjective, ToSet, Before
  <2> HIDE DEF part
  <2> QED BY <2>1, <2>2
<1>5. ASSUME NEW k \in 0..(n - 1), k \in G PROVE k + 1 \in G
  <2> DEFINE q == f[k]
             x == s[k + 1]
             p == m.priority
             u == InsertAt(q, Cardinality({y \in ToSet(q) : p[y] <= p[x]}) + 1, x)
  <2>1. k \in Nat /\ k + 1 \in 0..n /\ k + 1 \in 1..n /\ \A i \in 1..k : i \in 1..n /\ i # k + 1 /\ i < k + 1
    BY <1>1
  <2>2. Done(q, k)
    BY <1>5
  <2>3. f[k + 1] = u
    <3>1. k + 1 # 0 /\ (k + 1) - 1 = k
      BY <2>1
    <3>2. f[k + 1] = Insert(m, f[k], s[k + 1])
      BY <1>2, <2>1, <3>1 DEF Sorts
    <3> QED BY <3>2 DEF Insert
  <2>4. part(k + 1) = part(k) \cup {x}
    <3>1. \A i \in 1..(k + 1) : i \in 1..k \/ i = k + 1
      BY <2>1
    <3>2. \A i \in 1..k : i \in 1..(k + 1)
      BY <2>1
    <3>3. k + 1 \in 1..(k + 1)
      BY <2>1
    <3> QED BY <3>1, <3>2, <3>3
  <2>5. x \in Icons /\ x \in ToSet(s) /\ x \notin part(k) /\ part(k) \subseteq ToSet(s)
    <3>1. x \in Icons /\ x \in ToSet(s)
      BY <1>1, <2>1, Elements
    <3>2. \A i \in 1..k : s[i] \in ToSet(s)
      BY <1>1, <2>1, Elements
    <3>3. \A i \in 1..k : s[i] # x
      <4>1. \A i, j \in 1..n : s[i] = s[j] => i = j
        BY <1>1, Elements
      <4> QED BY <2>1, <4>1
    <3> HIDE DEF x, s
    <3> QED BY <3>1, <3>2, <3>3
  <2>6. \A y \in part(k) : Before(s, y, x)
    BY <1>1, <2>1, BeforeIs
  <2> HIDE DEF part
  <2>7. \A y, z : Before(q, y, z) => p[y] <= p[z]
    <3>1. \A y, z : Before(q, y, z) => y \in ToSet(s) /\ z \in ToSet(s)
      BY <2>2, <2>5, BeforeIs
    <3> QED BY <2>2, <3>1, ComesFirstIs
  <2>8. \A y \in Icons : p[y] \in Int
    BY <1>1
  <2>9. /\ u \in Seq(Icons) /\ IsInjective(u) /\ ToSet(u) = ToSet(q) \cup {x}
        /\ \A y, z \in ToSet(q) : Before(u, y, z) <=> Before(q, y, z)
        /\ \A y \in ToSet(q) : /\ Before(u, y, x) <=> p[y] <= p[x]
                               /\ Before(u, x, y) <=> p[x] < p[y]
    <3>1. q \in Seq(Icons) /\ IsInjective(q) /\ x \in Icons /\ x \notin ToSet(q)
      BY <2>2, <2>5
    <3> HIDE DEF p, x, q
    <3> QED BY <2>7, <2>8, <3>1, InsertSorted
  <2> HIDE DEF u, q
  <2>10. ASSUME NEW y, NEW z, Before(u, y, z) PROVE ComesFirst(m, y, z)
    <3>1. y \in ToSet(q) \cup {x} /\ z \in ToSet(q) \cup {x} /\ y # z
      BY <2>9, <2>10, BeforeIs
    <3>2. CASE y = x
      <4>1. z \in ToSet(q) /\ p[x] < p[z] /\ z \in ToSet(s)
        BY <2>2, <2>5, <2>9, <2>10, <3>1, <3>2
      <4> QED BY <2>5, <3>2, <4>1, ComesFirstIs
    <3>3. CASE y # x /\ z = x
      <4>1. y \in ToSet(q) /\ p[y] <= p[x] /\ Before(s, y, x)
        BY <2>2, <2>6, <2>9, <2>10, <3>1, <3>3
      <4> QED BY <3>3, <4>1, ComesFirstIs
    <3>4. CASE y # x /\ z # x
      BY <2>2, <2>9, <2>10, <3>1, <3>4
    <3> QED BY <3>2, <3>3, <3>4
  <2>11. Done(u, k + 1)
    BY <2>2, <2>4, <2>9, <2>10
  <2> HIDE DEF Done
  <2> QED BY <2>1, <2>3, <2>11
<1>6. Done(f[n], n)
  <2> HIDE DEF G
  <2>1. n \in G
    BY <1>1, <1>4, <1>5, ToTheEnd
  <2> QED BY <2>1 DEF G
<1> DEFINE c == f[n]
           S == ToSet(s)
<1>7. c \in Seq(Icons) /\ IsInjective(c) /\ ToSet(c) = S /\ \A x, y : Before(c, x, y) => ComesFirst(m, x, y)
  <2>1. part(n) = S
    BY <1>1, Elements
  <2> QED BY <1>6, <2>1
<1>8. t \in Launchers /\ t.inner = c /\ t.priority = m.priority /\ Same(t, m)
  BY <1>1, <1>3, <1>7 DEF Launchers, Same
<1> HIDE DEF c, S, t
<1>9. ASSUME NEW x \in S, NEW y \in S, ComesFirst(m, x, y) PROVE Before(c, x, y)
  <2>1. x # y /\ ~ComesFirst(m, y, x)
    BY <1>9, ComesFirstIs DEF S
  <2>2. Before(c, x, y) \/ Before(c, y, x)
    BY <1>7, <2>1, BeforeIs
  <2> QED BY <1>7, <2>1, <2>2
<1>10. Ranked(t)
  <2>1. \A x, y \in S : ComesFirst(m, x, y) => m.priority[x] <= m.priority[y]
    BY ComesFirstIs DEF S
  <2>2. \A x, y : Before(c, x, y) => x \in S /\ y \in S
    BY <1>7, BeforeIs
  <2> QED BY <1>7, <1>8, <2>1, <2>2 DEF Ranked
<1>11. Fit(t)
  BY <1>7, <1>8 DEF Fit
<1> QED BY <1>7, <1>8, <1>9, <1>10, <1>11 DEF S, t

-----------------------------------------------------------------------------
(* The reorderings *)

\* The icons other than this one are in the same order
OthersKept(t, m, icon) ==
  \A x, y \in ToSet(m.inner) \ {icon} : Before(t.inner, x, y) <=> Before(m.inner, x, y)

\* The same icons in another order, by their priorities
Shuffled(t, m) == Fit(t) /\ Same(t, m) /\ Ranked(t) /\ ToSet(t.inner) = ToSet(m.inner)

LEMMA RankedIs ==
  ASSUME NEW m, Fit(m), Ranked(m)
  PROVE  \A x, y \in ToSet(m.inner) : m.priority[x] < m.priority[y] => Before(m.inner, x, y)
<1>1. m.inner \in Seq(Icons) /\ IsInjective(m.inner) /\ m.priority \in [Icons -> Int]
  BY DEF Fit, Launchers
<1>2. ToSet(m.inner) \subseteq Icons
  BY <1>1, Elements
<1> TAKE x, y \in ToSet(m.inner)
<1>3. m.priority[x] \in Int /\ m.priority[y] \in Int
  BY <1>1, <1>2
<1>4. HAVE m.priority[x] < m.priority[y]
<1>5. x # y /\ ~(m.priority[y] <= m.priority[x])
  BY <1>3, <1>4
<1>6. ~Before(m.inner, y, x)
  BY <1>5 DEF Ranked
<1> QED BY <1>1, <1>5, <1>6, BeforeIs

\* Other priorities, which keep the order of all but one icon
LEMMA Repriced ==
  ASSUME NEW m, Fit(m), NEW q \in [Icons -> Int], NEW icon,
         \A x, y \in ToSet(m.inner) \ {icon} : Before(m.inner, x, y) => q[x] <= q[y]
  PROVE  LET t == Sort([m EXCEPT !.priority = q])
         IN  /\ Shuffled(t, m) /\ OthersKept(t, m, icon)
             /\ \A x, y \in ToSet(m.inner) : q[x] < q[y] => Before(t.inner, x, y)
             /\ \A x, y : Before(m.inner, x, y) /\ q[x] <= q[y] => Before(t.inner, x, y)
<1> DEFINE w == [m EXCEPT !.priority = q]
           t == Sort(w)
<1>1. Fit(w) /\ w.inner = m.inner /\ w.priority = q /\ Same(w, m)
  BY DEF Fit, Launchers, Same
<1> HIDE DEF w
<1>2. /\ Fit(t) /\ Same(t, w) /\ Ranked(t) /\ ToSet(t.inner) = ToSet(m.inner)
      /\ \A x, y \in ToSet(m.inner) : Before(t.inner, x, y) <=> ComesFirst(w, x, y)
  BY <1>1, SortIs
<1> HIDE DEF t
<1>3. \A x, y : Before(m.inner, x, y) /\ q[x] <= q[y] => ComesFirst(w, x, y)
  BY <1>1, ComesFirstIs
<1>4. \A x, y \in ToSet(m.inner) : q[x] < q[y] => ComesFirst(w, x, y)
  BY <1>1, ComesFirstIs
<1>5. m.inner \in Seq(Icons) /\ IsInjective(m.inner)
  BY DEF Fit, Launchers
<1>6. t.inner \in Seq(Icons) /\ IsInjective(t.inner)
  BY <1>2 DEF Fit, Launchers
<1>7. \A x, y : Before(m.inner, x, y) => x \in ToSet(m.inner) /\ y \in ToSet(m.inner)
  BY <1>5, BeforeIs
<1>8. \A x, y : Before(m.inner, x, y) /\ q[x] <= q[y] => Before(t.inner, x, y)
  BY <1>2, <1>3, <1>7
<1>9. ASSUME NEW x \in ToSet(m.inner) \ {icon}, NEW y \in ToSet(m.inner) \ {icon}
      PROVE  Before(t.inner, x, y) <=> Before(m.inner, x, y)
  <2>1. Before(m.inner, x, y) => Before(t.inner, x, y)
    BY <1>8
  <2>2. Before(m.inner, y, x) => Before(t.inner, y, x)
    BY <1>8
  <2>3. Before(t.inner, x, y) => x # y /\ ~Before(t.inner, y, x)
    BY <1>6, BeforeIs
  <2>4. x # y => Before(m.inner, x, y) \/ Before(m.inner, y, x)
    BY <1>5, BeforeIs
  <2> QED BY <2>1, <2>2, <2>3, <2>4
<1>10. Same(t, m)
  BY <1>1, <1>2 DEF Same
<1> QED BY <1>2, <1>4, <1>8, <1>9, <1>10 DEF Shuffled, OthersKept, t, w

LEMMA ReorderAfterIs ==
  ASSUME NEW m, Fit(m), Ranked(m), NEW icon \in Icons, NEW other \in ToSet(m.inner), icon # other
  PROVE  LET t == ReorderAfter(m, icon, other)
         IN  /\ Shuffled(t, m) /\ OthersKept(t, m, icon)
             /\ icon \in ToSet(m.inner) =>
                  \A x \in ToSet(m.inner) \ {icon} :
                    Before(t.inner, x, icon) <=> x = other \/ Before(m.inner, x, other)
<1> DEFINE S == ToSet(m.inner)
           p == m.priority
           q == [i \in Icons |-> IF i = icon THEN p[other] + 1
                                 ELSE IF Index(m.inner, i) > Index(m.inner, other) THEN p[i] + 2
                                 ELSE p[i]]
           t == Sort([m EXCEPT !.priority = q])
<1>1. m.inner \in Seq(Icons) /\ IsInjective(m.inner) /\ p \in [Icons -> Int]
  BY DEF Fit, Launchers
<1>2. S \subseteq Icons /\ other \in Icons
  BY <1>1, Elements
<1>3. \A i \in Icons : p[i] \in Int
  BY <1>1
<1>4. NullIcon \notin Icons \/ NullIcon \in Icons
  OBVIOUS
<1>5. NullIcon \notin {icon, other}
  BY <1>2 DEF NullIcon, Icons
<1>6. ReorderAfter(m, icon, other) = t
  <2>1. DOMAIN p = Icons
    BY <1>1
  <2> QED BY <1>5, <2>1 DEF ReorderAfter
<1>7. \A i \in S : Index(m.inner, i) > Index(m.inner, other) <=> Before(m.inner, other, i)
  <2>1. \A i \in S : Index(m.inner, i) \in Int
    <3>1. \A n \in Nat : \A i \in 1..n : i \in Int
      OBVIOUS
    <3>2. \A i \in S : Index(m.inner, i) \in 1..Len(m.inner)
      BY <1>1, IndexType
    <3> QED BY <1>1, <3>1, <3>2
  <2>2. \A i \in S : Index(m.inner, other) < Index(m.inner, i) <=> Before(m.inner, other, i)
    BY <1>1, IndexIs
  <2>3. \A a, b \in Int : a > b <=> b < a
    OBVIOUS
  <2> QED BY <2>1, <2>2, <2>3
<1>8. \A i \in S \ {icon} : q[i] = IF Before(m.inner, other, i) THEN p[i] + 2 ELSE p[i]
  BY <1>2, <1>7
<1>9. q[icon] = p[other] + 1 /\ q \in [Icons -> Int]
  BY <1>2, <1>3
<1> HIDE DEF q, S, p
<1>10. \A x, y : Before(m.inner, x, y) => p[x] <= p[y] /\ x \in S /\ y \in S
  BY <1>1, BeforeIs DEF Ranked, S, p
<1>11. /\ \A x, y, z : Before(m.inner, x, y) /\ Before(m.inner, y, z) => Before(m.inner, x, z)
       /\ \A x, y : Before(m.inner, x, y) => x # y /\ ~Before(m.inner, y, x)
       /\ \A x, y \in S : x # y => Before(m.inner, x, y) \/ Before(m.inner, y, x)
  BY <1>1, BeforeIs DEF S
<1>12. ASSUME NEW x \in S \ {icon}, NEW y \in S \ {icon}, Before(m.inner, x, y) PROVE q[x] <= q[y]
  <2>1. p[x] \in Int /\ p[y] \in Int /\ p[x] <= p[y]
    BY <1>2, <1>3, <1>10, <1>12
  <2>2. Before(m.inner, other, x) => Before(m.inner, other, y)
    BY <1>11, <1>12
  <2>3. q[x] = (IF Before(m.inner, other, x) THEN p[x] + 2 ELSE p[x])
    BY <1>8
  <2>4. q[y] = (IF Before(m.inner, other, y) THEN p[y] + 2 ELSE p[y])
    BY <1>8
  <2> QED BY <2>1, <2>2, <2>3, <2>4
<1>13. /\ Shuffled(t, m) /\ OthersKept(t, m, icon)
       /\ \A x, y \in S : q[x] < q[y] => Before(t.inner, x, y)
  BY <1>9, <1>12, Repriced DEF S
<1>14. ASSUME icon \in S, NEW x \in S \ {icon}
       PROVE  Before(t.inner, x, icon) <=> x = other \/ Before(m.inner, x, other)
  <2>1. p[x] \in Int /\ p[other] \in Int /\ q[icon] = p[other] + 1
    BY <1>2, <1>3, <1>9
  <2>2. t.inner \in Seq(Icons) /\ IsInjective(t.inner)
    BY <1>13 DEF Shuffled, Fit, Launchers
  <2>3. CASE x = other \/ Before(m.inner, x, other)
    <3>1. p[x] <= p[other] /\ ~Before(m.inner, other, x)
      BY <1>10, <1>11, <2>1, <2>3
    <3>2. q[x] = p[x]
      BY <1>8, <3>1
    <3>3. q[x] < q[icon]
      BY <2>1, <3>1, <3>2
    <3> QED BY <1>13, <1>14, <2>3, <3>3
  <2>4. CASE ~(x = other \/ Before(m.inner, x, other))
    <3>1. Before(m.inner, other, x)
      BY <1>11, <2>4 DEF S
    <3>2. p[other] <= p[x] /\ q[x] = p[x] + 2
      BY <1>8, <1>10, <3>1
    <3>3. q[icon] < q[x]
      BY <2>1, <3>2
    <3>4. Before(t.inner, icon, x)
      BY <1>13, <1>14, <3>3
    <3> QED BY <2>2, <2>4, <3>4, BeforeIs
  <2> QED BY <2>3, <2>4
<1> QED BY <1>6, <1>13, <1>14 DEF S

LEMMA MakeRoomIs ==
  ASSUME NEW m, Fit(m), Ranked(m), NEW icon \in Icons, NEW other \in ToSet(m.inner), icon # other,
         NEW place \in Int
  PROVE  LET t == MakeRoom(m, icon, other, place)
         IN  /\ Shuffled(t, m) /\ OthersKept(t, m, icon)
             /\ icon \in ToSet(m.inner) /\ place = m.priority[other] =>
                  \A x \in ToSet(m.inner) \ {icon} :
                    Before(t.inner, x, icon) <=> x = other \/ Before(m.inner, x, other)
             /\ icon \in ToSet(m.inner) /\ place = m.priority[other] - 2 => Before(t.inner, icon, other)
             /\ place = m.priority[other] - 2 /\ Before(m.inner, other, icon) =>
                  \A x \in ToSet(m.inner) \ {icon} : Before(t.inner, x, icon) <=> Before(m.inner, x, other)
<1> DEFINE S == ToSet(m.inner)
           p == m.priority
           at == Index(m.inner, other)
           q == [i \in Icons |-> IF i = icon THEN place
                                 ELSE IF ~Contains(m.inner, i) THEN p[i]
                                 ELSE IF Index(m.inner, i) > at THEN p[i] + 1
                                 ELSE IF i # other /\ p[i] = p[other] THEN p[i] - 2
                                 ELSE p[i] - 1]
           t == Sort([m EXCEPT !.priority = q])
<1>1. m.inner \in Seq(Icons) /\ IsInjective(m.inner) /\ p \in [Icons -> Int]
  BY DEF Fit, Launchers
<1>2. S \subseteq Icons /\ other \in Icons
  BY <1>1, Elements
<1>3. \A i \in Icons : p[i] \in Int
  BY <1>1
<1>4. MakeRoom(m, icon, other, place) = t
  <2>1. DOMAIN p = Icons
    BY <1>1
  <2> QED BY <2>1 DEF MakeRoom
<1>5. \A i \in S : Index(m.inner, i) > at <=> Before(m.inner, other, i)
  <2>1. \A i \in S : Index(m.inner, i) \in Int
    <3>1. \A n \in Nat : \A i \in 1..n : i \in Int
      OBVIOUS
    <3>2. \A i \in S : Index(m.inner, i) \in 1..Len(m.inner)
      BY <1>1, IndexType
    <3> QED BY <1>1, <3>1, <3>2
  <2>2. \A i \in S : Index(m.inner, other) < Index(m.inner, i) <=> Before(m.inner, other, i)
    BY <1>1, IndexIs
  <2>3. \A a, b \in Int : a > b <=> b < a
    OBVIOUS
  <2> QED BY <2>1, <2>2, <2>3
<1>6. \A i \in S : Contains(m.inner, i)
  BY <1>1, Elements
<1>7. \A i \in S \ {icon} : q[i] = IF Before(m.inner, other, i) THEN p[i] + 1
                                   ELSE IF i # other /\ p[i] = p[other] THEN p[i] - 2
                                   ELSE p[i] - 1
  BY <1>2, <1>5, <1>6
<1>8. q[icon] = place /\ q \in [Icons -> Int]
  <2>1. \A i \in Icons : q[i] \in Int
    BY <1>2, <1>3
  <2> QED BY <2>1
<1> HIDE DEF q, S, p, at
<1>10. \A x, y : Before(m.inner, x, y) => p[x] <= p[y] /\ x \in S /\ y \in S
  BY <1>1, BeforeIs DEF Ranked, S, p
<1>11. /\ \A x, y, z : Before(m.inner, x, y) /\ Before(m.inner, y, z) => Before(m.inner, x, z)
       /\ \A x, y : Before(m.inner, x, y) => x # y /\ ~Before(m.inner, y, x)
       /\ \A x, y \in S : x # y => Before(m.inner, x, y) \/ Before(m.inner, y, x)
  BY <1>1, BeforeIs DEF S
<1>9. \A x \in S \ {icon} :
        /\ Before(m.inner, other, x) => q[x] = p[x] + 1 /\ p[other] <= p[x]
        /\ x = other => q[x] = p[other] - 1
        /\ Before(m.inner, x, other) => q[x] <= p[other] - 2 /\ q[x] <= p[x] - 1
                                        /\ (q[x] = p[x] - 1 \/ (p[x] = p[other] /\ q[x] = p[other] - 2))
  <2> TAKE x \in S \ {icon}
  <2>1. p[x] \in Int /\ p[other] \in Int
    BY <1>2, <1>3
  <2>2. Before(m.inner, other, x) => q[x] = p[x] + 1 /\ p[other] <= p[x]
    BY <1>7, <1>10
  <2>3. x = other => q[x] = p[other] - 1
    BY <1>7, <1>11
  <2>4. ASSUME Before(m.inner, x, other)
        PROVE  /\ q[x] <= p[other] - 2 /\ q[x] <= p[x] - 1
               /\ q[x] = p[x] - 1 \/ (p[x] = p[other] /\ q[x] = p[other] - 2)
    <3>1. x # other /\ ~Before(m.inner, other, x) /\ p[x] <= p[other]
      BY <1>10, <1>11, <2>4
    <3>2. q[x] = IF p[x] = p[other] THEN p[x] - 2 ELSE p[x] - 1
      BY <1>7, <3>1
    <3>3. \A a, b, c \in Int : b <= a /\ c = (IF b = a THEN b - 2 ELSE b - 1) =>
            /\ c <= a - 2 /\ c <= b - 1
            /\ c = b - 1 \/ (b = a /\ c = a - 2)
      OBVIOUS
    <3>4. q[x] \in Int
      BY <1>2, <1>8
    <3> QED BY <2>1, <3>1, <3>2, <3>3, <3>4
  <2> QED BY <2>2, <2>3, <2>4
<1>12. ASSUME NEW x \in S \ {icon}, NEW y \in S \ {icon}, Before(m.inner, x, y) PROVE q[x] <= q[y]
  <2>1. p[x] \in Int /\ p[y] \in Int /\ p[other] \in Int /\ p[x] <= p[y] /\ q[x] \in Int /\ q[y] \in Int
    BY <1>2, <1>3, <1>8, <1>10, <1>12
  <2>2. CASE Before(m.inner, other, x)
    <3>1. q[x] = p[x] + 1 /\ q[y] = p[y] + 1
      BY <1>9, <1>11, <1>12, <2>2
    <3> QED BY <2>1, <3>1
  <2>3. CASE x = other
    <3>1. q[x] = p[other] - 1 /\ q[y] = p[y] + 1 /\ p[other] <= p[y]
      BY <1>9, <1>12, <2>3
    <3> QED BY <2>1, <3>1
  <2>4. CASE Before(m.inner, x, other)
    <3>1. q[x] <= p[other] - 2 /\ q[x] <= p[x] - 1
      BY <1>9, <2>4
    <3>2. CASE Before(m.inner, other, y)
      <4>1. q[y] = p[y] + 1 /\ p[other] <= p[y]
        BY <1>9, <3>2
      <4> QED BY <2>1, <3>1, <4>1
    <3>3. CASE y = other
      <4>1. q[other] = p[other] - 1 /\ q[x] <= p[other] - 2
        BY <1>9, <3>1, <3>3
      <4>2. q[x] <= q[other]
        BY <2>1, <3>3, <4>1
      <4> QED BY <3>3, <4>2
    <3>4. CASE Before(m.inner, y, other)
      <4>1. q[y] = p[y] - 1 \/ (p[y] = p[other] /\ q[y] = p[other] - 2)
        BY <1>9, <3>4
      <4> QED BY <2>1, <3>1, <4>1
    <3> QED BY <1>11, <3>2, <3>3, <3>4 DEF S
  <2> QED BY <1>11, <2>2, <2>3, <2>4 DEF S
<1>13. /\ Shuffled(t, m) /\ OthersKept(t, m, icon)
       /\ \A x, y \in S : q[x] < q[y] => Before(t.inner, x, y)
       /\ \A x, y : Before(m.inner, x, y) /\ q[x] <= q[y] => Before(t.inner, x, y)
  BY <1>8, <1>12, Repriced DEF S
<1>14. t.inner \in Seq(Icons) /\ IsInjective(t.inner)
  BY <1>13 DEF Shuffled, Fit, Launchers
<1>15. \A x, y : Before(t.inner, x, y) => ~Before(t.inner, y, x)
  BY <1>14, BeforeIs
<1>16. \A x \in S \ {icon} : p[x] \in Int /\ p[other] \in Int /\ q[x] \in Int
  BY <1>2, <1>3, <1>8
<1> HIDE DEF t
<1>17. ASSUME icon \in S, place = p[other], NEW x \in S \ {icon}
       PROVE  Before(t.inner, x, icon) <=> x = other \/ Before(m.inner, x, other)
  <2>1. CASE x = other \/ Before(m.inner, x, other)
    <3>1. q[x] < q[icon]
      BY <1>8, <1>9, <1>16, <1>17, <2>1
    <3> QED BY <1>13, <1>17, <2>1, <3>1
  <2>2. CASE ~(x = other \/ Before(m.inner, x, other))
    <3>1. Before(m.inner, other, x)
      BY <1>11, <2>2 DEF S
    <3>2. q[icon] < q[x]
      BY <1>8, <1>9, <1>16, <1>17, <3>1
    <3>3. Before(t.inner, icon, x)
      BY <1>13, <1>17, <3>2
    <3> QED BY <1>15, <2>2, <3>3
  <2> QED BY <2>1, <2>2
<1>18. ASSUME icon \in S, place = p[other] - 2 PROVE Before(t.inner, icon, other)
  <2>1. other \in S \ {icon}
    BY DEF S
  <2>2. q[icon] < q[other]
    BY <1>8, <1>9, <1>16, <1>18, <2>1
  <2> QED BY <1>13, <1>18, <2>1, <2>2
<1>19. ASSUME place = p[other] - 2, Before(m.inner, other, icon), NEW x \in S \ {icon}
       PROVE  Before(t.inner, x, icon) <=> Before(m.inner, x, other)
  <2>1. icon \in S
    BY <1>10, <1>19
  <2>2. CASE Before(m.inner, x, other)
    <3>1. q[x] <= q[icon]
      BY <1>8, <1>9, <1>16, <1>19, <2>2
    <3>2. Before(m.inner, x, icon)
      BY <1>11, <1>19, <2>2
    <3> QED BY <1>13, <2>2, <3>1, <3>2
  <2>3. CASE ~Before(m.inner, x, other)
    <3>1. x = other \/ Before(m.inner, other, x)
      BY <1>11, <2>3 DEF S
    <3>2. q[icon] < q[x]
      BY <1>8, <1>9, <1>16, <1>19, <3>1
    <3>3. Before(t.inner, icon, x)
      BY <1>13, <2>1, <3>2
    <3> QED BY <1>15, <2>3, <3>3
  <2> QED BY <2>2, <2>3
<1> QED BY <1>4, <1>13, <1>17, <1>18, <1>19 DEF S, p

LEMMA ReorderBeforeIs ==
  ASSUME NEW m, Fit(m), Ranked(m), NEW icon \in Icons, NEW other \in ToSet(m.inner), icon # other
  PROVE  LET t == ReorderBefore(m, icon, other)
         IN  /\ Shuffled(t, m) /\ OthersKept(t, m, icon)
             /\ icon \in ToSet(m.inner) => Before(t.inner, icon, other)
<1>1. m.inner \in Seq(Icons) /\ m.priority \in [Icons -> Int]
  BY DEF Fit, Launchers
<1>2. other \in Icons
  BY <1>1, Elements
<1>3. m.priority[other] - 2 \in Int
  BY <1>1, <1>2
<1>4. ReorderBefore(m, icon, other) = MakeRoom(m, icon, other, m.priority[other] - 2)
  BY <1>2 DEF ReorderBefore, NullIcon, Icons
<1> QED BY <1>3, <1>4, MakeRoomIs

LEMMA ReorderSmartIs ==
  ASSUME NEW m, Fit(m), Ranked(m), NEW icon \in ToSet(m.inner), NEW other \in ToSet(m.inner), icon # other
  PROVE  LET t == ReorderSmart(m, icon, other)
         IN  /\ Shuffled(t, m) /\ OthersKept(t, m, icon)
             /\ Before(m.inner, icon, other) =>
                  \A x \in ToSet(m.inner) \ {icon} :
                    Before(t.inner, x, icon) <=> x = other \/ Before(m.inner, x, other)
             /\ Before(m.inner, other, icon) =>
                  \A x \in ToSet(m.inner) \ {icon} : Before(t.inner, x, icon) <=> Before(m.inner, x, other)
<1>1. m.inner \in Seq(Icons) /\ IsInjective(m.inner) /\ m.priority \in [Icons -> Int]
  BY DEF Fit, Launchers
<1>2. other \in Icons /\ icon \in Icons
  BY <1>1, Elements
<1> DEFINE p == m.priority[other]
           place == p - 1 + (IF Index(m.inner, icon) < Index(m.inner, other) THEN 1 ELSE -1)
<1>3. p \in Int
  BY <1>1, <1>2
<1>4. ReorderSmart(m, icon, other) = MakeRoom(m, icon, other, place)
  BY <1>2 DEF ReorderSmart, NullIcon, Icons
<1>5. Index(m.inner, icon) < Index(m.inner, other) <=> Before(m.inner, icon, other)
  BY <1>1, IndexIs
<1>6. Before(m.inner, icon, other) => ~Before(m.inner, other, icon)
  BY <1>1, BeforeIs
<1>7. /\ place \in Int
      /\ Before(m.inner, icon, other) => place = p
      /\ Before(m.inner, other, icon) => place = p - 2
  BY <1>3, <1>5, <1>6
<1> HIDE DEF place
<1> QED BY <1>2, <1>4, <1>7, MakeRoomIs

-----------------------------------------------------------------------------
(* What the operators of the controller return *)

LEMMA LastIs ==
  ASSUME NEW n \in Nat, NEW I \in SUBSET (1..n), I # {}
  PROVE  Max(I) \in I /\ \A j \in I : Max(I) >= j
<1> DEFINE T == {n - k : k \in I}
<1>1. \A k \in I : k \in Nat /\ n - k \in Nat /\ k = n - (n - k)
  OBVIOUS
<1>2. T \in SUBSET Nat /\ T # {}
  BY <1>1
<1>3. PICK d \in T : \A e \in T : d <= e
  BY <1>2, Least
<1>4. PICK m \in I : d = n - m
  OBVIOUS
<1>5. \A j \in I : n - m <= n - j
  BY <1>3, <1>4
<1>6. \A j \in I : m >= j
  BY <1>1, <1>5
<1>7. I \in SUBSET Nat
  BY <1>1
<1> HIDE DEF T
<1> QED BY <1>6, <1>7, MaxIs

LEMMA SeqOver ==
  ASSUME NEW A, NEW s \in Seq(A), NEW B, ToSet(s) \subseteq B
  PROVE  s \in Seq(B)
<1>1. \A i \in 1..Len(s) : s[i] \in B
  BY Elements
<1>2. Len(s) \in Nat /\ s = [i \in 1..Len(s) |-> s[i]]
  OBVIOUS
<1> QED BY <1>1, <1>2

LEMMA IsASequence ==
  ASSUME NEW B, NEW n \in Nat, NEW t \in [1..n -> B]
  PROVE  t \in Seq(B) /\ Len(t) = n /\ DOMAIN t = 1..n
OBVIOUS

LEMMA PartIs ==
  ASSUME NEW A, NEW s \in Seq(A), NEW m \in Nat, NEW n \in Nat, 1 <= m, n <= Len(s)
  PROVE  /\ SubSeq(s, m, n) \in Seq(A) /\ ToSet(SubSeq(s, m, n)) = {s[i] : i \in m..n}
         /\ IsInjective(s) => /\ IsInjective(SubSeq(s, m, n))
                              /\ \A i, j \in m..n : Before(SubSeq(s, m, n), s[i], s[j]) <=> i < j
<1> DEFINE t == SubSeq(s, m, n)
           k == IF m <= n THEN n - m + 1 ELSE 0
<1>1. t \in Seq(A) /\ Len(t) = k /\ \A i \in 1..k : t[i] = s[m + i - 1]
  <2>1. \A i \in m..n : s[i] \in A
    <3>1. \A i \in m..n : i \in 1..Len(s)
      OBVIOUS
    <3> QED BY <3>1, Elements
  <2>2. t \in Seq(A) /\ Len(t) = (IF m <= n THEN n - m + 1 ELSE 0)
        /\ \A i \in 1..(n - m + 1) : t[i] = s[m + i - 1]
    BY <2>1, SubSeqProperties
  <2>3. \A i \in 1..k : i \in 1..(n - m + 1)
    OBVIOUS
  <2> QED BY <2>2, <2>3
<1>2. \A i \in m..n : i - m + 1 \in 1..k /\ m + (i - m + 1) - 1 = i
  OBVIOUS
<1>3. \A i \in 1..k : m + i - 1 \in m..n /\ (m + i - 1) - m + 1 = i
  OBVIOUS
<1> HIDE DEF t, k
<1>4. \A i \in m..n : t[i - m + 1] = s[i]
  BY <1>1, <1>2
<1>5. ToSet(t) = {s[i] : i \in m..n}
  <2>1. ToSet(t) = {t[i] : i \in 1..k}
    BY <1>1, Elements
  <2> QED BY <1>1, <1>2, <1>3, <1>4, <2>1
<1>6. ASSUME IsInjective(s)
      PROVE  IsInjective(t) /\ \A i, j \in m..n : Before(t, s[i], s[j]) <=> i < j
  <2>1. \A i \in m..n : i \in 1..Len(s) /\ i \in Int
    OBVIOUS
  <2>2. \A i, j \in m..n : s[i] = s[j] => i = j
    BY <1>6, <2>1, Elements
  <2>3. ASSUME NEW i \in 1..k, NEW j \in 1..k, t[i] = t[j] PROVE i = j
    <3>1. m + i - 1 = m + j - 1
      BY <1>1, <1>3, <2>2, <2>3
    <3> QED BY <1>3, <3>1
  <2>4. IsInjective(t)
    BY <1>1, <2>3, Elements
  <2>5. ASSUME NEW i \in m..n, NEW j \in m..n PROVE Before(t, s[i], s[j]) <=> i < j
    <3>1. Before(t, t[i - m + 1], t[j - m + 1]) <=> i - m + 1 < j - m + 1
      <4>1. i - m + 1 \in 1..Len(t) /\ j - m + 1 \in 1..Len(t)
        BY <1>1, <1>2
      <4>2. \A a, b \in 1..Len(t) : Before(t, t[a], t[b]) <=> a < b
        BY <1>1, <2>4, BeforeIs
      <4> QED BY <4>1, <4>2
    <3>2. i - m + 1 < j - m + 1 <=> i < j
      BY <2>1
    <3> QED BY <1>4, <3>1, <3>2
  <2> QED BY <2>4, <2>5
<1> QED BY <1>1, <1>5, <1>6 DEF t

LEMMA JoinOrder ==
  ASSUME NEW A, NEW s \in Seq(A), NEW t \in Seq(A)
  PROVE  /\ s \o t \in Seq(A) /\ ToSet(s \o t) = ToSet(s) \cup ToSet(t)
         /\ \A x, y : Before(s \o t, x, y) <=>
              Before(s, x, y) \/ Before(t, x, y) \/ (x \in ToSet(s) /\ y \in ToSet(t))
         /\ IsInjective(s) /\ IsInjective(t) /\ ToSet(s) \cap ToSet(t) = {} => IsInjective(s \o t)
<1> DEFINE u == s \o t
           m == Len(s)
           n == Len(t)
<1>1. /\ u \in Seq(A) /\ Len(u) = m + n /\ m \in Nat /\ n \in Nat
      /\ \A j \in 1..m : u[j] = s[j]
      /\ \A j \in 1..n : u[m + j] = t[j]
  BY JoinIs
<1> HIDE DEF u
<1>2. \A i \in 1..(m + n) : i \in 1..m \/ \E j \in 1..n : i = m + j
  <2> TAKE i \in 1..(m + n)
  <2>1. i \in 1..m \/ (i - m \in 1..n /\ i = m + (i - m))
    BY <1>1
  <2> QED BY <2>1
<1>3. \A i \in 1..m : i \in 1..(m + n)
  BY <1>1
<1>4. \A j \in 1..n : m + j \in 1..(m + n)
  BY <1>1
<1>5. \A i \in 1..m, j \in 1..n : i < m + j /\ i # m + j
  BY <1>1
<1>6. \A i, j \in 1..n : (m + i < m + j <=> i < j) /\ (m + i = m + j => i = j)
  BY <1>1
<1>7. /\ \A i \in 1..m : s[i] \in ToSet(s)
      /\ \A i \in 1..n : t[i] \in ToSet(t)
      /\ \A x \in ToSet(s) : \E i \in 1..m : s[i] = x
      /\ \A x \in ToSet(t) : \E i \in 1..n : t[i] = x
      /\ \A i \in 1..(m + n) : u[i] \in ToSet(u)
      /\ \A x \in ToSet(u) : \E i \in 1..(m + n) : u[i] = x
  <2>1. /\ \A i \in 1..m : s[i] \in ToSet(s)
        /\ \A x \in ToSet(s) : \E i \in 1..m : s[i] = x
    BY Elements
  <2>2. /\ \A i \in 1..n : t[i] \in ToSet(t)
        /\ \A x \in ToSet(t) : \E i \in 1..n : t[i] = x
    BY Elements
  <2>3. /\ \A i \in 1..(m + n) : u[i] \in ToSet(u)
        /\ \A x \in ToSet(u) : \E i \in 1..(m + n) : u[i] = x
    <3>1. /\ \A i \in 1..Len(u) : u[i] \in ToSet(u)
          /\ \A x \in ToSet(u) : \E i \in 1..Len(u) : u[i] = x
      <4>1. u \in Seq(A)
        BY <1>1
      <4> QED BY <4>1, Elements
    <3>2. Len(u) = m + n
      BY <1>1
    <3> HIDE DEF m, n
    <3> QED BY <3>1, <3>2
  <2> QED BY <2>1, <2>2, <2>3
<1>8. ToSet(u) = ToSet(s) \cup ToSet(t)
  <2>1. ASSUME NEW x \in ToSet(u) PROVE x \in ToSet(s) \cup ToSet(t)
    <3>1. PICK i \in 1..(m + n) : u[i] = x
      BY <1>7
    <3>2. CASE i \in 1..m
      BY <1>1, <1>7, <3>1, <3>2
    <3>3. CASE i \notin 1..m
      <4>1. PICK j \in 1..n : i = m + j
        BY <1>2, <3>3
      <4> QED BY <1>1, <1>7, <3>1, <4>1
    <3> QED BY <3>2, <3>3
  <2>2. ASSUME NEW x \in ToSet(s) PROVE x \in ToSet(u)
    <3>1. PICK i \in 1..m : s[i] = x
      BY <1>7
    <3> QED BY <1>1, <1>3, <1>7, <3>1
  <2>3. ASSUME NEW x \in ToSet(t) PROVE x \in ToSet(u)
    <3>1. PICK i \in 1..n : t[i] = x
      BY <1>7
    <3> QED BY <1>1, <1>4, <1>7, <3>1
  <2> QED BY <2>1, <2>2, <2>3
<1> DEFINE after(x, y) == Before(s, x, y) \/ Before(t, x, y) \/ (x \in ToSet(s) /\ y \in ToSet(t))
<1>9. ASSUME NEW x, NEW y, Before(u, x, y) PROVE after(x, y)
  <2>1. PICK i, j \in 1..(m + n) : i < j /\ u[i] = x /\ u[j] = y
    BY <1>1, <1>9 DEF Before
  <2>2. CASE i \in 1..m /\ j \in 1..m
    <3>1. s[i] = x /\ s[j] = y
      BY <1>1, <2>1, <2>2
    <3>2. Before(s, x, y)
      BY <2>1, <2>2, <3>1 DEF Before
    <3> QED BY <3>2
  <2>3. CASE i \in 1..m /\ j \notin 1..m
    <3>1. PICK l \in 1..n : j = m + l
      BY <1>2, <2>3
    <3>2. x \in ToSet(s) /\ y \in ToSet(t)
      BY <1>1, <1>7, <2>1, <2>3, <3>1
    <3> QED BY <3>2
  <2>4. CASE i \notin 1..m
    <3>1. PICK k \in 1..n : i = m + k
      BY <1>2, <2>4
    <3>2. j \notin 1..m
      <4>1. \A a \in 1..m : ~(m + k < a)
        BY <1>1
      <4> QED BY <2>1, <3>1, <4>1
    <3>3. PICK l \in 1..n : j = m + l
      BY <1>2, <3>2
    <3>4. k < l /\ t[k] = x /\ t[l] = y
      BY <1>1, <1>6, <2>1, <3>1, <3>3
    <3>5. Before(t, x, y)
      BY <3>4 DEF Before
    <3> QED BY <3>5
  <2> QED BY <2>2, <2>3, <2>4
<1>10. ASSUME NEW x, NEW y, after(x, y) PROVE Before(u, x, y)
  <2>1. CASE Before(s, x, y)
    <3>1. PICK i, j \in 1..m : i < j /\ s[i] = x /\ s[j] = y
      BY <2>1 DEF Before
    <3>2. i \in 1..Len(u) /\ j \in 1..Len(u) /\ u[i] = x /\ u[j] = y
      BY <1>1, <1>3, <3>1
    <3> QED BY <3>1, <3>2 DEF Before
  <2>2. CASE Before(t, x, y)
    <3>1. PICK i, j \in 1..n : i < j /\ t[i] = x /\ t[j] = y
      BY <2>2 DEF Before
    <3>2. m + i \in 1..Len(u) /\ m + j \in 1..Len(u) /\ u[m + i] = x /\ u[m + j] = y /\ m + i < m + j
      BY <1>1, <1>4, <1>6, <3>1
    <3> QED BY <3>2 DEF Before
  <2>3. CASE x \in ToSet(s) /\ y \in ToSet(t)
    <3>1. PICK i \in 1..m : s[i] = x
      BY <1>7, <2>3
    <3>2. PICK j \in 1..n : t[j] = y
      BY <1>7, <2>3
    <3>3. i \in 1..Len(u) /\ m + j \in 1..Len(u) /\ u[i] = x /\ u[m + j] = y /\ i < m + j
      BY <1>1, <1>3, <1>4, <1>5, <3>1, <3>2
    <3> QED BY <3>3 DEF Before
  <2> QED BY <1>10, <2>1, <2>2, <2>3
<1>11. ASSUME IsInjective(s), IsInjective(t), ToSet(s) \cap ToSet(t) = {} PROVE IsInjective(u)
  <2>1. \A i, j \in 1..m : s[i] = s[j] => i = j
    BY <1>11, Elements
  <2>2. \A i, j \in 1..n : t[i] = t[j] => i = j
    BY <1>11, Elements
  <2>3. \A i \in 1..m, j \in 1..n : s[i] # t[j]
    BY <1>7, <1>11
  <2>4. ASSUME NEW i \in 1..(m + n), NEW j \in 1..(m + n), u[i] = u[j] PROVE i = j
    <3>1. CASE i \in 1..m /\ j \in 1..m
      BY <1>1, <2>1, <2>4, <3>1
    <3>2. CASE i \notin 1..m /\ j \notin 1..m
      <4>1. PICK k \in 1..n : i = m + k
        BY <1>2, <3>2
      <4>2. PICK l \in 1..n : j = m + l
        BY <1>2, <3>2
      <4>3. k = l
        BY <1>1, <2>2, <2>4, <4>1, <4>2
      <4> QED BY <4>1, <4>2, <4>3
    <3>3. CASE i \in 1..m /\ j \notin 1..m
      <4>1. PICK l \in 1..n : j = m + l
        BY <1>2, <3>3
      <4> QED BY <1>1, <2>3, <2>4, <3>3, <4>1
    <3>4. CASE i \notin 1..m /\ j \in 1..m
      <4>1. PICK l \in 1..n : i = m + l
        BY <1>2, <3>4
      <4>2. s[j] = t[l]
        BY <1>1, <2>4, <3>4, <4>1
      <4> QED BY <2>3, <3>4, <4>2
    <3> QED BY <3>1, <3>2, <3>3, <3>4
  <2> QED BY <1>1, <2>4, Elements
<1> QED BY <1>1, <1>8, <1>9, <1>10, <1>11 DEF u

-----------------------------------------------------------------------------
(* The operators of the controller *)

\* The launcher and the favorites, as the operators take them
States == [l : Launchers, f : Seq(Uris)]
Good(s) == s \in States /\ Fit(s.l) /\ Ranked(s.l)

LEMMA IconsAre ==
  /\ NullIcon \notin Icons /\ GoneIcon \notin Icons /\ \A i \in Icons : i[1] \in Applications
  /\ RUNNING_APPS_URI \notin Applications /\ Uris = Applications \cup {RUNNING_APPS_URI}
BY FavoritesAssumption DEF NullIcon, GoneIcon, Icons, Uris

Mapped(s, g) == [k \in DOMAIN s |-> g[s[k]]]
Image(S, g) == {g[x] : x \in S}

LEMMA MapIs ==
  ASSUME NEW A, NEW B, NEW s \in Seq(A), NEW g \in [A -> B]
  PROVE  LET t == Mapped(s, g)
         IN  /\ t \in Seq(B) /\ Len(t) = Len(s) /\ \A k \in 1..Len(s) : t[k] = g[s[k]]
             /\ ToSet(t) = Image(ToSet(s), g)
             /\ \A x, y : Before(s, x, y) => Before(t, g[x], g[y])
             /\ IsInjective(s) /\ (\A x, y \in ToSet(s) : g[x] = g[y] => x = y) => IsInjective(t)
<1> DEFINE n == Len(s)
           t == Mapped(s, g)
<1>1. n \in Nat /\ DOMAIN s = 1..n /\ \A k \in 1..n : s[k] \in A /\ s[k] \in ToSet(s)
  BY Elements
<1>2. t \in [1..n -> B] /\ \A k \in 1..n : t[k] = g[s[k]]
  BY <1>1 DEF Mapped
<1>3. t \in Seq(B) /\ Len(t) = n
  BY <1>1, <1>2, IsASequence
<1> HIDE DEF t
<1>4. ToSet(t) = Image(ToSet(s), g)
  <2>1. (\A y \in ToSet(t) : \E k \in 1..n : t[k] = y) /\ \A k \in 1..n : t[k] \in ToSet(t)
    <3>1. (\A y \in ToSet(t) : \E k \in 1..Len(t) : t[k] = y) /\ \A k \in 1..Len(t) : t[k] \in ToSet(t)
      BY <1>3, Elements
    <3> QED BY <1>3, <3>1
  <2>2. \A x \in ToSet(s) : \E k \in 1..n : s[k] = x
    BY Elements
  <2>3. ASSUME NEW y \in ToSet(t) PROVE \E x \in ToSet(s) : g[x] = y
    <3>1. PICK k \in 1..n : y = t[k]
      BY <2>1
    <3> QED BY <1>1, <1>2, <3>1
  <2>4. ASSUME NEW x \in ToSet(s) PROVE g[x] \in ToSet(t)
    <3>1. PICK k \in 1..n : s[k] = x
      BY <2>2
    <3> QED BY <1>2, <2>1, <3>1
  <2> QED BY <2>3, <2>4 DEF Image
<1>5. \A x, y : Before(s, x, y) => Before(t, g[x], g[y])
  BY <1>2, <1>3 DEF Before
<1>6. IsInjective(s) /\ (\A x, y \in ToSet(s) : g[x] = g[y] => x = y) => IsInjective(t)
  <2>1. HAVE IsInjective(s) /\ (\A x, y \in ToSet(s) : g[x] = g[y] => x = y)
  <2>2. ASSUME NEW i \in 1..n, NEW j \in 1..n, t[i] = t[j] PROVE i = j
    <3>1. s[i] = s[j]
      BY <1>1, <1>2, <2>1, <2>2
    <3> QED BY <2>1, <3>1, Elements
  <2>3. \A i, j \in 1..Len(t) : t[i] = t[j] => i = j
    BY <1>3, <2>2
  <2> QED BY <1>3, <2>3, Elements
<1> QED BY <1>2, <1>3, <1>4, <1>5, <1>6 DEF t

LEMMA GetIconByUriIs ==
  ASSUME NEW l, l.inner \in Seq(Icons), NEW uri
  PROVE  LET i == GetIconByUri(l, uri)
         IN  \/ i = NullIcon /\ \A j \in ToSet(l.inner) : j[1] # uri
             \/ i \in ToSet(l.inner) /\ i \in Icons /\ i # NullIcon /\ i[1] = uri
<1> DEFINE s == l.inner
           I == {k \in 1..Len(s) : s[k][1] = uri}
           at == IF I # {} THEN Min(I) ELSE 0
<1>1. GetIconByUri(l, uri) = IF at = 0 THEN NullIcon ELSE s[at]
  BY DEF GetIconByUri, SelectInSeq
<1>2. Len(s) \in Nat
  OBVIOUS
<1>3. CASE I = {}
  <2>1. \A k \in 1..Len(s) : s[k][1] # uri
    BY <1>3
  <2>2. \A j \in ToSet(s) : j[1] # uri
    BY <2>1, Elements
  <2> QED BY <1>1, <1>3, <2>2
<1>4. CASE I # {}
  <2>1. I \in SUBSET (1..Len(s))
    OBVIOUS
  <2>2. Min(I) \in I
    <3> HIDE DEF I
    <3> QED BY <1>2, <1>4, <2>1, FirstIs
  <2>3. at \in 1..Len(s) /\ s[at][1] = uri
    BY <1>4, <2>2
  <2>4. at # 0
    BY <1>2, <2>3
  <2> HIDE DEF at
  <2>5. s[at] \in ToSet(s) /\ s[at] \in Icons
    BY <2>3, Elements
  <2> QED BY <1>1, <2>3, <2>4, <2>5, IconsAre
<1> QED BY <1>3, <1>4

LEMMA AddFavoriteIs ==
  ASSUME NEW f \in Seq(Uris), NEW icons \in Seq(Uris), NEW uri
  PROVE  \E p \in 1..(Len(icons) + 1) : AddFavoriteKeepingOldPosition(f, icons, uri) = InsertAt(icons, p, uri)
<1> DEFINE before == Only(SubSeq(f, 1, Index(f, uri)), ToSet(icons))
           I == {k \in 1..Len(icons) : icons[k] = Last(before)}
           last == IF I # {} THEN Max(I) ELSE 0
           at == IF ~Contains(f, uri) THEN Len(icons) ELSE IF before = <<>> THEN 0 ELSE last
<1>1. AddFavoriteKeepingOldPosition(f, icons, uri) = InsertAt(icons, at + 1, uri)
  BY DEF AddFavoriteKeepingOldPosition, SelectLastInSeq
<1>2. Len(icons) \in Nat /\ I \in SUBSET (1..Len(icons))
  OBVIOUS
<1> HIDE DEF I
<1>3. last \in 0..Len(icons)
  <2>1. I # {} => Max(I) \in I
    BY <1>2, LastIs
  <2>2. \A n \in Nat : 1..n \subseteq 0..n /\ 0 \in 0..n
    OBVIOUS
  <2> QED BY <1>2, <2>1, <2>2
<1> HIDE DEF last
<1>4. at \in 0..Len(icons)
  BY <1>2, <1>3
<1> HIDE DEF at
<1>5. at + 1 \in 1..(Len(icons) + 1)
  <2>1. \A n \in Nat : \A k \in 0..n : k + 1 \in 1..(n + 1)
    OBVIOUS
  <2> QED BY <1>2, <1>4, <2>1
<1> QED BY <1>1, <1>5

\* The icons that are there to stay
StickyHere(l) == ToSet(l.inner) \cap StickyIcons(l)
OneEach(l) == \A i, j \in StickyHere(l) : i[1] = j[1] => i = j

\* The favorites are those applications, in the order of the icons
Listed(s) == \A a \in Applications : a \in ToSet(s.f) <=> \E i \in StickyHere(s.l) : i[1] = a
Agrees(s) == IsInjective(s.f) /\ \A i, j \in StickyHere(s.l) : Before(s.l.inner, i, j) => Before(s.f, i[1], j[1])

LEMMA SaveIconsOrderIs ==
  ASSUME NEW s \in States, Fit(s.l)
  PROVE  LET t == SaveIconsOrder(s)
         IN  /\ t \in States /\ t.l = s.l
             /\ OneEach(s.l) => Listed(t) /\ Agrees(t)
<1> DEFINE l == s.l
           S == StickyIcons(l)
           shown == Only(l.inner, S \cup l.visible)
           I == {k \in 1..Len(shown) : ~IsSticky(l, shown[k])}
           first == IF I # {} THEN Min(I) ELSE 0
           more == IF first = 0 THEN {} ELSE {shown[first]}
           kept == Only(shown, S \cup more)
           icons == [k \in DOMAIN kept |-> IF IsSticky(l, kept[k]) THEN kept[k][1] ELSE RUNNING_APPS_URI]
           g == [i \in Icons |-> IF IsSticky(l, i) THEN i[1] ELSE RUNNING_APPS_URI]
           f == IF first = 0 THEN AddFavoriteKeepingOldPosition(s.f, icons, RUNNING_APPS_URI) ELSE icons
<1>1. SaveIconsOrder(s) = [s EXCEPT !.f = f]
  BY DEF SaveIconsOrder, SelectInSeq
<1>2. l.inner \in Seq(Icons) /\ IsInjective(l.inner) /\ s.f \in Seq(Uris)
  BY DEF Fit, Launchers, States
<1>3. \A i \in Icons : i \in S <=> IsSticky(l, i)
  BY DEF StickyIcons
<1> HIDE DEF S
<1>4. /\ shown \in Seq(Icons) /\ IsInjective(shown) /\ ToSet(shown) = ToSet(l.inner) \cap (S \cup l.visible)
      /\ \A x, y : Before(shown, x, y) <=> x \in S \cup l.visible /\ y \in S \cup l.visible /\ Before(l.inner, x, y)
  BY <1>2, OnlyIs
<1> HIDE DEF shown
<1>5. \/ first = 0 /\ \A i \in ToSet(shown) : IsSticky(l, i)
      \/ first # 0 /\ more = {shown[first]} /\ shown[first] \in ToSet(shown) /\ ~IsSticky(l, shown[first])
  <2>1. Len(shown) \in Nat /\ I \in SUBSET (1..Len(shown))
    BY <1>4
  <2>2. CASE I = {}
    <3>1. \A k \in 1..Len(shown) : IsSticky(l, shown[k])
      BY <2>2
    <3>2. \A i \in ToSet(shown) : \E k \in 1..Len(shown) : shown[k] = i
      BY <1>4, Elements
    <3> QED BY <2>2, <3>1, <3>2
  <2>3. CASE I # {}
    <3>1. \A k \in I : ~IsSticky(l, shown[k])
      OBVIOUS
    <3> HIDE DEF I
    <3>2. Min(I) \in I
      BY <2>1, <2>3, FirstIs
    <3>3. first \in 1..Len(shown) /\ ~IsSticky(l, shown[first])
      BY <2>1, <2>3, <3>1, <3>2
    <3>4. first # 0
      <4>1. \A n \in Nat : \A k \in 1..n : k # 0
        OBVIOUS
      <4> HIDE DEF first
      <4> QED BY <2>1, <3>3, <4>1
    <3>5. shown[first] \in ToSet(shown)
      <4> HIDE DEF first
      <4> QED BY <1>4, <3>3, Elements
    <3> QED BY <3>3, <3>4, <3>5
  <2> QED BY <2>2, <2>3
<1> HIDE DEF first
<1>6. more \subseteq ToSet(shown) /\ \A i, j \in more : i = j /\ ~IsSticky(l, i)
  BY <1>5
<1>7. first = 0 => more = {}
  OBVIOUS
<1> HIDE DEF more
<1>8. /\ kept \in Seq(Icons) /\ IsInjective(kept) /\ ToSet(kept) = ToSet(shown) \cap (S \cup more)
      /\ \A x, y : Before(kept, x, y) <=> x \in S \cup more /\ y \in S \cup more /\ Before(shown, x, y)
  BY <1>4, OnlyIs
<1> HIDE DEF kept
<1>9. ToSet(kept) = StickyHere(l) \cup more
  <2>1. StickyHere(l) = ToSet(l.inner) \cap S
    BY DEF StickyHere, S
  <2> QED BY <1>4, <1>6, <1>8, <2>1
<1>10. \A x, y \in StickyHere(l) : Before(l.inner, x, y) => Before(kept, x, y)
  <2>1. \A x \in StickyHere(l) : x \in S
    BY DEF StickyHere, S
  <2> QED BY <1>4, <1>8, <2>1
<1>11. ToSet(kept) \subseteq Icons /\ StickyHere(l) \subseteq Icons
  BY <1>8, <1>9, Elements
<1>12. \A x \in StickyHere(l) : x \in Icons /\ IsSticky(l, x) /\ g[x] = x[1] /\ x[1] \in Applications
  <2>1. \A x \in StickyHere(l) : x \in Icons /\ IsSticky(l, x)
    BY <1>11 DEF StickyHere, StickyIcons
  <2> QED BY <2>1, IconsAre
<1>13. \A x \in more : x \in Icons /\ g[x] = RUNNING_APPS_URI
  BY <1>6, <1>9, <1>11
<1>14. g \in [Icons -> Uris]
  BY IconsAre
<1>15. icons = [k \in DOMAIN kept |-> g[kept[k]]]
  <2>1. \A k \in DOMAIN kept : kept[k] \in Icons
    <3>1. DOMAIN kept = 1..Len(kept)
      BY <1>8
    <3> QED BY <1>8, <3>1, Elements
  <2> QED BY <2>1
<1> HIDE DEF g, icons
<1>16. /\ icons \in Seq(Uris) /\ ToSet(icons) = {g[x] : x \in ToSet(kept)}
       /\ \A x, y : Before(kept, x, y) => Before(icons, g[x], g[y])
       /\ (\A x, y \in ToSet(kept) : g[x] = g[y] => x = y) => IsInjective(icons)
  <2> DEFINE c == Mapped(kept, g)
  <2>1. kept \in Seq(Icons) /\ IsInjective(kept) /\ g \in [Icons -> Uris]
    BY <1>8, <1>14
  <2>2. /\ c \in Seq(Uris) /\ ToSet(c) = Image(ToSet(kept), g)
        /\ \A x, y : Before(kept, x, y) => Before(c, g[x], g[y])
        /\ (\A x, y \in ToSet(kept) : g[x] = g[y] => x = y) => IsInjective(c)
    BY <2>1, MapIs
  <2> HIDE DEF c
  <2>3. c = icons
    BY <1>15 DEF c, Mapped
  <2> QED BY <2>2, <2>3 DEF Image
<1>17. \A a \in Applications : a \in ToSet(icons) <=> \E i \in StickyHere(l) : i[1] = a
  BY <1>9, <1>12, <1>13, <1>16, IconsAre
<1>18. \A x, y \in StickyHere(l) : Before(l.inner, x, y) => Before(icons, x[1], y[1])
  BY <1>10, <1>12, <1>16
<1>19. ASSUME OneEach(l) PROVE IsInjective(icons)
  <2>1. ASSUME NEW x \in ToSet(kept), NEW y \in ToSet(kept), g[x] = g[y] PROVE x = y
    <3>1. CASE x \in StickyHere(l) /\ y \in StickyHere(l)
      BY <1>12, <1>19, <2>1, <3>1 DEF OneEach
    <3>2. CASE x \in more /\ y \in more
      BY <1>6, <3>2
    <3>3. CASE (x \in more /\ y \in StickyHere(l)) \/ (x \in StickyHere(l) /\ y \in more)
      BY <1>12, <1>13, <2>1, <3>3, IconsAre
    <3> QED BY <1>9, <3>1, <3>2, <3>3
  <2> QED BY <1>16, <2>1
<1>20. /\ f \in Seq(Uris)
       /\ \A a \in Applications : OneEach(l) => (a \in ToSet(f) <=> a \in ToSet(icons))
       /\ \A a, b \in Applications : OneEach(l) /\ Before(icons, a, b) => Before(f, a, b)
       /\ OneEach(l) => IsInjective(f)
  <2>1. CASE first = 0
    <3>1. PICK p \in 1..(Len(icons) + 1) : f = InsertAt(icons, p, RUNNING_APPS_URI)
      BY <1>2, <1>16, <2>1, AddFavoriteIs
    <3>2. RUNNING_APPS_URI \in Uris /\ RUNNING_APPS_URI \notin ToSet(icons)
      <4>1. ToSet(kept) = StickyHere(l)
        BY <1>7, <1>9, <2>1
      <4>2. \A x \in ToSet(kept) : g[x] \in Applications
        BY <1>12, <4>1
      <4> QED BY <1>16, <4>2, IconsAre
    <3> HIDE DEF f
    <3>3. f \in Seq(Uris)
      BY <1>16, <3>1, <3>2, InsertIs
    <3>4. ASSUME OneEach(l)
          PROVE  /\ IsInjective(f) /\ ToSet(f) = ToSet(icons) \cup {RUNNING_APPS_URI}
                 /\ \A a, b \in ToSet(icons) : Before(f, a, b) <=> Before(icons, a, b)
      <4>1. IsInjective(icons)
        BY <1>19, <3>4
      <4>2. icons \in Seq(Uris) /\ RUNNING_APPS_URI \in Uris /\ RUNNING_APPS_URI \notin ToSet(icons)
        BY <1>16, <3>2
      <4>3. LET u == InsertAt(icons, p, RUNNING_APPS_URI)
            IN  /\ IsInjective(u) /\ ToSet(u) = ToSet(icons) \cup {RUNNING_APPS_URI}
                /\ \A a, b \in ToSet(icons) : Before(u, a, b) <=> Before(icons, a, b)
        <5> HIDE DEF l
        <5> QED BY <4>1, <4>2, InsertOrder
      <4> QED BY <3>1, <4>3
    <3>5. \A a, b : OneEach(l) /\ Before(icons, a, b) => a \in ToSet(icons) /\ b \in ToSet(icons)
      BY <1>16, <1>19, BeforeIs
    <3> QED BY <3>3, <3>4, <3>5, IconsAre
  <2>2. CASE first # 0
    BY <1>16, <1>19, <2>2
  <2> QED BY <2>1, <2>2
<1> HIDE DEF f
<1> DEFINE t == SaveIconsOrder(s)
<1>21. t \in States /\ t.l = s.l /\ t.f = f
  BY <1>1, <1>20 DEF States
<1> HIDE DEF t
<1>22. OneEach(l) => Listed(t)
  BY <1>17, <1>20, <1>21 DEF Listed
<1>23. OneEach(l) => Agrees(t)
  BY <1>12, <1>18, <1>20, <1>21 DEF Agrees
<1> QED BY <1>21, <1>22, <1>23 DEF t

LastIndex(s, x) == SelectLastInSeq(s, LAMBDA y : y = x)

LEMMA LastIndexIs ==
  ASSUME NEW A, NEW s \in Seq(A)
  PROVE  /\ \A x : LastIndex(s, x) \in 0..Len(s)
         /\ IsInjective(s) => \A k \in 1..Len(s) : LastIndex(s, s[k]) = k
<1>1. Len(s) \in Nat
  OBVIOUS
<1>2. ASSUME NEW x
      PROVE  /\ LastIndex(s, x) \in 0..Len(s)
             /\ \A k \in 1..Len(s) : s[k] = x => LastIndex(s, x) \in 1..Len(s) /\ s[LastIndex(s, x)] = x
  <2> DEFINE I == {k \in 1..Len(s) : s[k] = x}
  <2>1. LastIndex(s, x) = IF I # {} THEN Max(I) ELSE 0
    BY DEF LastIndex, SelectLastInSeq
  <2>2. I \in SUBSET (1..Len(s)) /\ \A k \in I : s[k] = x
    OBVIOUS
  <2>3. \A k \in 1..Len(s) : s[k] = x => k \in I
    OBVIOUS
  <2> HIDE DEF I
  <2>4. I # {} => LastIndex(s, x) \in I
    <3>1. I # {} => Max(I) \in I
      BY <1>1, <2>2, LastIs
    <3> QED BY <2>1, <3>1
  <2>5. LastIndex(s, x) \in 0..Len(s)
    <3>1. \A n \in Nat : 1..n \subseteq 0..n /\ 0 \in 0..n
      OBVIOUS
    <3>2. CASE I = {}
      BY <1>1, <2>1, <3>1, <3>2
    <3>3. CASE I # {}
      BY <1>1, <2>2, <2>4, <3>1, <3>3
    <3> QED BY <3>2, <3>3
  <2> QED BY <2>2, <2>3, <2>4, <2>5
<1>3. ASSUME IsInjective(s), NEW k \in 1..Len(s) PROVE LastIndex(s, s[k]) = k
  <2>1. LastIndex(s, s[k]) \in 1..Len(s) /\ s[LastIndex(s, s[k])] = s[k]
    BY <1>2
  <2> QED BY <1>3, <2>1, Elements
<1> QED BY <1>2, <1>3

LEMMA RenumberIs ==
  ASSUME NEW l, Fit(l), NEW order \in Seq(Icons)
  PROVE  LET t == Renumber(l, order)
         IN  /\ Shuffled(t, l)
             /\ IsInjective(order) => \A x, y \in ToSet(l.inner) : Before(order, x, y) => Before(t.inner, x, y)
<1> DEFINE n == Len(order)
           q == [i \in Icons |-> IF Contains(order, i) THEN LastIndex(order, i) - n
                                 ELSE IF Contains(l.inner, i) THEN l.priority[i] - n ELSE 0]
           given == IF l.given + n > MaxPriority THEN MaxPriority ELSE l.given + n
           w == [l EXCEPT !.given = given, !.priority = q]
           t == Sort(w)
<1>1. Renumber(l, order) = t
  BY DEF Renumber, LastIndex
<1>2. /\ n \in Nat /\ l \in Launchers /\ l.inner \in Seq(Icons) /\ IsInjective(l.inner)
      /\ l.priority \in [Icons -> Int] /\ l.given \in Nat
  BY DEF Fit, Launchers
<1>3. given \in Nat
  BY <1>2, FavoritesAssumption
<1>4. q \in [Icons -> Int]
  <2>1. \A i \in Icons : LastIndex(order, i) \in Int
    <3>1. \A k \in Nat : 0..k \subseteq Int
      OBVIOUS
    <3> QED BY <1>2, <3>1, LastIndexIs
  <2>2. \A i \in Icons : l.priority[i] \in Int
    BY <1>2
  <2> HIDE DEF n
  <2> QED BY <1>2, <2>1, <2>2
<1>5. \A i \in Icons : i \in ToSet(order) => q[i] = LastIndex(order, i) - n
  BY Elements
<1> HIDE DEF q, given
<1>6. Fit(w) /\ w.inner = l.inner /\ w.priority = q /\ Same(w, l)
  BY <1>2, <1>3, <1>4 DEF Fit, Launchers, Same
<1> HIDE DEF w
<1>7. /\ Fit(t) /\ Same(t, w) /\ Ranked(t) /\ ToSet(t.inner) = ToSet(l.inner)
      /\ \A x, y \in ToSet(l.inner) : Before(t.inner, x, y) <=> ComesFirst(w, x, y)
  BY <1>6, SortIs
<1>8. \A x, y \in ToSet(l.inner) : q[x] < q[y] => ComesFirst(w, x, y)
  BY <1>6, ComesFirstIs
<1> HIDE DEF t
<1>9. Shuffled(t, l)
  BY <1>6, <1>7 DEF Shuffled, Same
<1>10. ASSUME IsInjective(order), NEW x \in ToSet(l.inner), NEW y \in ToSet(l.inner), Before(order, x, y)
       PROVE  Before(t.inner, x, y)
  <2>1. PICK i, j \in 1..n : i < j /\ order[i] = x /\ order[j] = y
    BY <1>10 DEF Before
  <2>2. LastIndex(order, x) = i /\ LastIndex(order, y) = j
    BY <1>10, <2>1, LastIndexIs
  <2>3. x \in ToSet(order) /\ y \in ToSet(order) /\ x \in Icons /\ y \in Icons
    BY <2>1, Elements
  <2>4. q[x] = i - n /\ q[y] = j - n
    BY <1>5, <2>2, <2>3
  <2>5. q[x] < q[y]
    BY <1>2, <2>1, <2>4
  <2> QED BY <1>7, <1>8, <2>5
<1> QED BY <1>1, <1>9, <1>10 DEF t

Named(l, uris) == Only(Mapped(uris, [u \in Uris |-> GetIconByUri(l, u)]), Icons)

LEMMA NamedIs ==
  ASSUME NEW l, l.inner \in Seq(Icons), NEW uris \in Seq(Uris)
  PROVE  LET t == Named(l, uris)
         IN  /\ t \in Seq(Icons)
             /\ (\A u \in ToSet(uris) : GetIconByUri(l, u) \in Icons) =>
                  /\ \A u \in ToSet(uris) : GetIconByUri(l, u) \in ToSet(t)
                  /\ \A i \in ToSet(t) : i[1] \in ToSet(uris) /\ i = GetIconByUri(l, i[1])
                  /\ IsInjective(uris) =>
                       /\ IsInjective(t)
                       /\ \A a, b : Before(uris, a, b) => Before(t, GetIconByUri(l, a), GetIconByUri(l, b))
<1> DEFINE g == [u \in Uris |-> GetIconByUri(l, u)]
           A == Icons \cup {NullIcon}
           m == Mapped(uris, g)
           t == Only(m, Icons)
<1>1. g \in [Uris -> A] /\ \A u \in Uris : g[u] = GetIconByUri(l, u)
  <2>1. \A u \in Uris : GetIconByUri(l, u) \in A
    BY GetIconByUriIs
  <2> QED BY <2>1
<1>2. \A u : GetIconByUri(l, u) \in Icons => GetIconByUri(l, u)[1] = u
  BY GetIconByUriIs, IconsAre
<1> HIDE DEF g
<1>3. ToSet(uris) \subseteq Uris
  BY Elements
<1>4. /\ m \in Seq(A)
      /\ ToSet(m) = Image(ToSet(uris), g)
      /\ \A x, y : Before(uris, x, y) => Before(m, g[x], g[y])
      /\ IsInjective(uris) /\ (\A x, y \in ToSet(uris) : g[x] = g[y] => x = y) => IsInjective(m)
  <2>1. g \in [Uris -> A]
    BY <1>1
  <2> HIDE DEF A
  <2>2. m \in Seq(A) /\ ToSet(m) = Image(ToSet(uris), g)
    BY <2>1, MapIs
  <2>3. m \in Seq(A) /\ \A x, y : Before(uris, x, y) => Before(m, g[x], g[y])
    BY <2>1, MapIs
  <2>4. IsInjective(uris) /\ (\A x, y \in ToSet(uris) : g[x] = g[y] => x = y) => IsInjective(m)
    BY <2>1, MapIs
  <2> QED BY <2>2, <2>3, <2>4
<1> HIDE DEF m
<1>5. /\ t \in Seq(A) /\ ToSet(t) = ToSet(m) \cap Icons
      /\ IsInjective(m) => /\ IsInjective(t)
                           /\ \A x, y : Before(t, x, y) <=> x \in Icons /\ y \in Icons /\ Before(m, x, y)
  <2> HIDE DEF A
  <2> QED BY <1>4, OnlyIs
<1> HIDE DEF t
<1>6. t \in Seq(Icons)
  BY <1>5, SeqOver
<1>7. ASSUME \A u \in ToSet(uris) : GetIconByUri(l, u) \in Icons
      PROVE  /\ \A u \in ToSet(uris) : GetIconByUri(l, u) \in ToSet(t)
             /\ \A i \in ToSet(t) : i[1] \in ToSet(uris) /\ i = GetIconByUri(l, i[1])
             /\ IsInjective(uris) =>
                  /\ IsInjective(t)
                  /\ \A a, b : Before(uris, a, b) => Before(t, GetIconByUri(l, a), GetIconByUri(l, b))
  <2>1. \A u \in ToSet(uris) : g[u] = GetIconByUri(l, u) /\ g[u] \in Icons
    BY <1>1, <1>3, <1>7
  <2>2. /\ \A u \in ToSet(uris) : GetIconByUri(l, u) \in ToSet(m)
        /\ \A i \in ToSet(m) : i \in Icons /\ i[1] \in ToSet(uris) /\ i = GetIconByUri(l, i[1])
    BY <1>2, <1>4, <1>7, <2>1 DEF Image
  <2>3. ToSet(t) = ToSet(m)
    <3>1. ToSet(m) \subseteq Icons
      BY <2>2
    <3> QED BY <1>5, <3>1
  <2>4. ASSUME IsInjective(uris)
        PROVE  /\ IsInjective(t)
               /\ \A a, b : Before(uris, a, b) => Before(t, GetIconByUri(l, a), GetIconByUri(l, b))
    <3>1. \A x, y \in ToSet(uris) : g[x] = g[y] => x = y
      BY <1>2, <1>7, <2>1
    <3>2. IsInjective(m)
      BY <1>4, <2>4, <3>1
    <3>3. ASSUME NEW a, NEW b, Before(uris, a, b) PROVE Before(t, GetIconByUri(l, a), GetIconByUri(l, b))
      <4>1. a \in ToSet(uris) /\ b \in ToSet(uris)
        BY <2>4, <3>3, BeforeIs
      <4>2. Before(m, g[a], g[b])
        BY <1>4, <3>3
      <4> QED BY <1>5, <2>1, <3>2, <4>1, <4>2
    <3> QED BY <1>5, <3>2, <3>3
  <2> QED BY <2>2, <2>3, <2>4
<1> QED BY <1>6, <1>7 DEF t, m, g, Named

\* The icon by which every favorite is found is there to stay
FoundSticky(s) ==
  IsInjective(s.f) /\ \A a \in ToSet(s.f) \cap Applications : GetIconByUri(s.l, a) \in StickyIcons(s.l)

LEMMA ResetIs ==
  ASSUME NEW s \in States, Fit(s.l)
  PROVE  LET t == ResetIconPriorities(s)
         IN  /\ t \in States /\ t.f = s.f /\ Shuffled(t.l, s.l)
             /\ FoundSticky(s) =>
                  \A a, b \in Applications :
                    Before(s.f, a, b) => Before(t.l.inner, GetIconByUri(s.l, a), GetIconByUri(s.l, b))
<1> DEFINE l == s.l
           f == s.f
           at == IF Contains(f, RUNNING_APPS_URI) THEN Index(f, RUNNING_APPS_URI) ELSE Len(f) + 1
           f1 == SubSeq(f, 1, at - 1)
           f2 == SubSeq(f, at + 1, Len(f))
           n1 == Named(l, f1)
           n2 == Named(l, f2)
           o == Loose(l)
           order == n1 \o o \o n2
<1>1. f \in Seq(Uris) /\ l \in Launchers /\ l.inner \in Seq(Icons) /\ IsInjective(l.inner)
  BY DEF Fit, Launchers, States
<1>2. Len(f) \in Nat /\ at \in 1..(Len(f) + 1)
  <2>1. Len(f) \in Nat
    BY <1>1
  <2>2. CASE RUNNING_APPS_URI \in ToSet(f)
    <3>1. Index(f, RUNNING_APPS_URI) \in 1..Len(f) /\ Contains(f, RUNNING_APPS_URI)
      BY <1>1, <2>2, IndexType, Elements
    <3>2. \A n \in Nat : 1..n \subseteq 1..(n + 1)
      OBVIOUS
    <3> QED BY <2>1, <3>1, <3>2
  <2>3. CASE RUNNING_APPS_URI \notin ToSet(f)
    <3>1. ~Contains(f, RUNNING_APPS_URI)
      BY <1>1, <2>3, Elements
    <3> QED BY <2>1, <3>1
  <2> QED BY <2>1, <2>2, <2>3
<1>3. \A k \in 1..Len(f) : k = at => f[k] = RUNNING_APPS_URI
  <2>1. CASE RUNNING_APPS_URI \in ToSet(f)
    BY <1>1, <2>1, IndexType, Elements
  <2>2. CASE RUNNING_APPS_URI \notin ToSet(f)
    <3>1. at = Len(f) + 1
      BY <1>1, <2>2, Elements
    <3> QED BY <1>2, <3>1
  <2> QED BY <2>1, <2>2
<1>4. IsInjective(f) => \A k \in 1..Len(f) : f[k] = RUNNING_APPS_URI => k = at
  <2>1. HAVE IsInjective(f)
  <2> TAKE k \in 1..Len(f)
  <2>2. HAVE f[k] = RUNNING_APPS_URI
  <2>3. RUNNING_APPS_URI \in ToSet(f) /\ Contains(f, RUNNING_APPS_URI)
    BY <1>1, <2>2, Elements
  <2>4. at \in 1..Len(f) /\ f[at] = RUNNING_APPS_URI
    BY <1>1, <2>3, IndexType
  <2> HIDE DEF at
  <2> QED BY <1>1, <2>1, <2>2, <2>4, Elements
<1> HIDE DEF at
<1>5. /\ f1 \in Seq(Uris) /\ ToSet(f1) = {f[i] : i \in 1..(at - 1)}
      /\ IsInjective(f) => /\ IsInjective(f1)
                           /\ \A i, j \in 1..(at - 1) : Before(f1, f[i], f[j]) <=> i < j
  <2>1. 1 \in Nat /\ at - 1 \in Nat /\ 1 <= 1 /\ at - 1 <= Len(f)
    BY <1>2
  <2> HIDE DEF f
  <2> QED BY <1>1, <2>1, PartIs
<1>6. /\ f2 \in Seq(Uris) /\ ToSet(f2) = {f[i] : i \in (at + 1)..Len(f)}
      /\ IsInjective(f) => /\ IsInjective(f2)
                           /\ \A i, j \in (at + 1)..Len(f) : Before(f2, f[i], f[j]) <=> i < j
  <2>1. at + 1 \in Nat /\ 1 <= at + 1 /\ Len(f) \in Nat /\ Len(f) <= Len(f)
    BY <1>2
  <2> HIDE DEF f
  <2> QED BY <1>1, <2>1, PartIs
<1> HIDE DEF f1, f2
<1>7. /\ o \in Seq(Icons) /\ IsInjective(o) /\ ToSet(o) \cap StickyIcons(l) = {}
  <2>1. o \in Seq(Icons) /\ IsInjective(o) /\ ToSet(o) = ToSet(l.inner) \cap (Icons \ StickyIcons(l))
    BY <1>1, OnlyIs DEF Loose
  <2> QED BY <2>1
<1>8. n1 \in Seq(Icons) /\ n2 \in Seq(Icons)
  BY <1>1, <1>5, <1>6, NamedIs
<1>9. ResetIconPriorities(s) = [s EXCEPT !.l = Renumber(l, order)]
  <2>1. n1 = Only([k \in DOMAIN f1 |-> GetIconByUri(l, f1[k])], Icons)
    <3>1. \A k \in DOMAIN f1 : f1[k] \in Uris
      <4>1. DOMAIN f1 = 1..Len(f1)
        BY <1>5
      <4> QED BY <1>5, <4>1, Elements
    <3>2. Mapped(f1, [u \in Uris |-> GetIconByUri(l, u)]) = [k \in DOMAIN f1 |-> GetIconByUri(l, f1[k])]
      BY <3>1 DEF Mapped
    <3> QED BY <3>2 DEF Named
  <2>2. n2 = Only([k \in DOMAIN f2 |-> GetIconByUri(l, f2[k])], Icons)
    <3>1. \A k \in DOMAIN f2 : f2[k] \in Uris
      <4>1. DOMAIN f2 = 1..Len(f2)
        BY <1>6
      <4> QED BY <1>6, <4>1, Elements
    <3>2. Mapped(f2, [u \in Uris |-> GetIconByUri(l, u)]) = [k \in DOMAIN f2 |-> GetIconByUri(l, f2[k])]
      BY <3>1 DEF Mapped
    <3> QED BY <3>2 DEF Named
  <2> HIDE DEF n1, n2
  <2> QED BY <2>1, <2>2 DEF ResetIconPriorities, f1, f2, at
<1> HIDE DEF n1, n2, o
<1> DEFINE front == n1 \o o
<1>10. /\ front \in Seq(Icons) /\ ToSet(front) = ToSet(n1) \cup ToSet(o)
       /\ \A x, y : Before(front, x, y) <=> Before(n1, x, y) \/ Before(o, x, y) \/ (x \in ToSet(n1) /\ y \in ToSet(o))
       /\ IsInjective(n1) /\ IsInjective(o) /\ ToSet(n1) \cap ToSet(o) = {} => IsInjective(front)
  BY <1>7, <1>8, JoinOrder
<1> HIDE DEF front
<1>11. /\ order \in Seq(Icons)
       /\ \A x, y : Before(order, x, y) <=>
            Before(front, x, y) \/ Before(n2, x, y) \/ (x \in ToSet(front) /\ y \in ToSet(n2))
       /\ IsInjective(front) /\ IsInjective(n2) /\ ToSet(front) \cap ToSet(n2) = {} => IsInjective(order)
  <2>1. order = front \o n2
    BY DEF front
  <2> HIDE DEF order
  <2> QED BY <1>8, <1>10, <2>1, JoinOrder
<1> HIDE DEF order
<1> DEFINE r == Renumber(l, order)
           t == ResetIconPriorities(s)
<1>12. /\ Shuffled(r, l)
       /\ IsInjective(order) => \A x, y \in ToSet(l.inner) : Before(order, x, y) => Before(r.inner, x, y)
  BY <1>11, RenumberIs
<1> HIDE DEF r
<1>13. t \in States /\ t.f = f /\ t.l = r
  <2>1. r \in Launchers
    BY <1>12 DEF Shuffled, Fit
  <2> QED BY <1>9, <2>1 DEF States, r
<1> HIDE DEF t
<1>14. ASSUME FoundSticky(s), NEW a \in Applications, NEW b \in Applications, Before(f, a, b)
       PROVE  Before(r.inner, GetIconByUri(l, a), GetIconByUri(l, b))
  <2> DEFINE G(u) == GetIconByUri(l, u)
  <2>1. IsInjective(f) /\ \A u \in ToSet(f) \cap Applications : G(u) \in StickyIcons(l)
    BY <1>14 DEF FoundSticky
  <2>2. \A u : G(u) \in Icons => G(u) \in ToSet(l.inner) /\ G(u)[1] = u
    BY <1>1, GetIconByUriIs, IconsAre
  <2>3. StickyIcons(l) \subseteq Icons
    BY DEF StickyIcons
  <2>4. \A k \in 1..Len(f) : k # at => f[k] \in ToSet(f) \cap Applications
    <3>1. \A k \in 1..Len(f) : f[k] \in ToSet(f) /\ f[k] \in Uris
      BY <1>1, Elements
    <3> QED BY <1>4, <2>1, <3>1, IconsAre
  <2>5. \A i \in 1..(at - 1) : i \in 1..Len(f) /\ i # at /\ i \in Int
    BY <1>2
  <2>6. \A i \in (at + 1)..Len(f) : i \in 1..Len(f) /\ i # at /\ i \in Int
    BY <1>2
  <2>7. \A u \in ToSet(f1) : u \in ToSet(f) \cap Applications
    BY <1>5, <2>4, <2>5
  <2>8. \A u \in ToSet(f2) : u \in ToSet(f) \cap Applications
    BY <1>6, <2>4, <2>6
  <2>9. ToSet(f1) \cap ToSet(f2) = {}
    <3>1. \A i \in 1..(at - 1), j \in (at + 1)..Len(f) : i # j
      BY <1>2
    <3>2. \A i, j \in 1..Len(f) : f[i] = f[j] => i = j
      BY <1>1, <2>1, Elements
    <3>3. \A i \in 1..(at - 1), j \in (at + 1)..Len(f) : f[i] # f[j]
      BY <2>5, <2>6, <3>1, <3>2
    <3> QED BY <1>5, <1>6, <3>3
  <2>10. /\ IsInjective(n1)
         /\ \A u \in ToSet(f1) : G(u) \in ToSet(n1)
         /\ \A i \in ToSet(n1) : i[1] \in ToSet(f1) /\ i = G(i[1])
         /\ \A u, v : Before(f1, u, v) => Before(n1, G(u), G(v))
    <3>1. \A u \in ToSet(f1) : GetIconByUri(l, u) \in Icons
      BY <2>1, <2>3, <2>7
    <3>2. IsInjective(f1) /\ f1 \in Seq(Uris)
      BY <1>5, <2>1
    <3> QED BY <1>1, <3>1, <3>2, NamedIs DEF n1
  <2>11. /\ IsInjective(n2)
         /\ \A u \in ToSet(f2) : G(u) \in ToSet(n2)
         /\ \A i \in ToSet(n2) : i[1] \in ToSet(f2) /\ i = G(i[1])
         /\ \A u, v : Before(f2, u, v) => Before(n2, G(u), G(v))
    <3>1. \A u \in ToSet(f2) : GetIconByUri(l, u) \in Icons
      BY <2>1, <2>3, <2>8
    <3>2. IsInjective(f2) /\ f2 \in Seq(Uris)
      BY <1>6, <2>1
    <3> QED BY <1>1, <3>1, <3>2, NamedIs DEF n2
  <2>12. \A i \in ToSet(n1) : i \in StickyIcons(l)
    BY <2>1, <2>7, <2>10
  <2>13. \A i \in ToSet(n2) : i \in StickyIcons(l)
    BY <2>1, <2>8, <2>11
  <2> HIDE DEF G
  <2>14. IsInjective(front)
    <3>1. ToSet(n1) \cap ToSet(o) = {}
      BY <1>7, <2>12
    <3> QED BY <1>7, <1>10, <2>10, <3>1
  <2>15. ToSet(front) \cap ToSet(n2) = {}
    <3>1. ToSet(o) \cap ToSet(n2) = {}
      BY <1>7, <2>13
    <3>2. ToSet(n1) \cap ToSet(n2) = {}
      BY <2>9, <2>10, <2>11
    <3> QED BY <1>10, <3>1, <3>2
  <2>16. IsInjective(order)
    BY <1>11, <2>11, <2>14, <2>15
  <2>17. PICK i, j \in 1..Len(f) : i < j /\ f[i] = a /\ f[j] = b
    BY <1>14 DEF Before
  <2>18. i # at /\ j # at
    BY <1>3, <2>17, IconsAre
  <2>19. Before(order, G(a), G(b))
    <3>1. CASE j \in 1..(at - 1)
      <4>1. i \in 1..(at - 1)
        BY <1>2, <2>17, <3>1
      <4>2. Before(f1, a, b)
        BY <1>5, <2>1, <2>17, <3>1, <4>1
      <4> QED BY <1>10, <1>11, <2>10, <4>2
    <3>2. CASE i \in (at + 1)..Len(f)
      <4>1. j \in (at + 1)..Len(f)
        BY <1>2, <2>17, <3>2
      <4>2. Before(f2, a, b)
        BY <1>6, <2>1, <2>17, <3>2, <4>1
      <4> QED BY <1>11, <2>11, <4>2
    <3>3. CASE i \in 1..(at - 1) /\ j \in (at + 1)..Len(f)
      <4>1. a \in ToSet(f1)
        BY <1>5, <2>17, <3>3
      <4>2. b \in ToSet(f2)
        BY <1>6, <2>17, <3>3
      <4>3. G(a) \in ToSet(front) /\ G(b) \in ToSet(n2)
        BY <1>10, <2>10, <2>11, <4>1, <4>2
      <4> QED BY <1>11, <4>3
    <3>4. (i \in 1..(at - 1) \/ i \in (at + 1)..Len(f)) /\ (j \in 1..(at - 1) \/ j \in (at + 1)..Len(f))
      BY <1>2, <2>18
    <3> QED BY <3>1, <3>2, <3>3, <3>4
  <2>20. a \in ToSet(f) \cap Applications /\ b \in ToSet(f) \cap Applications
    BY <1>1, <2>17, Elements
  <2>21. G(a) \in ToSet(l.inner) /\ G(b) \in ToSet(l.inner)
    BY <2>1, <2>2, <2>3, <2>20 DEF G
  <2> QED BY <1>12, <2>16, <2>19, <2>21 DEF G
<1> QED BY <1>12, <1>13, <1>14 DEF t

-----------------------------------------------------------------------------
(* An icon comes and goes *)

LEMMA AppendOrder ==
  ASSUME NEW A, NEW s \in Seq(A), IsInjective(s), NEW x \in A, x \notin ToSet(s)
  PROVE  LET t == Append(s, x)
         IN  /\ t \in Seq(A) /\ IsInjective(t) /\ ToSet(t) = ToSet(s) \cup {x}
             /\ \A y, z \in ToSet(s) : Before(t, y, z) <=> Before(s, y, z)
<1> DEFINE e == <<x>>
           t == Append(s, x)
<1>1. e \in Seq(A) /\ Len(e) = 1 /\ e[1] = x
  OBVIOUS
<1>2. t = s \o e
  BY AppendIsConcat
<1> HIDE DEF e
<1>3. ToSet(e) = {x} /\ IsInjective(e)
  <2>1. \A i \in 1..Len(e) : i = 1
    BY <1>1
  <2>2. 1 \in 1..Len(e)
    BY <1>1
  <2>3. \A y \in ToSet(e) : y = x
    <3>1. \A y \in ToSet(e) : \E i \in 1..Len(e) : e[i] = y
      BY <1>1, Elements
    <3> QED BY <1>1, <2>1, <3>1
  <2>4. x \in ToSet(e)
    BY <1>1, <2>2, Elements
  <2>5. IsInjective(e)
    BY <1>1, <2>1, Elements
  <2> QED BY <2>3, <2>4, <2>5
<1>4. \A y, z : ~Before(e, y, z)
  <2>1. \A i, j \in 1..Len(e) : ~(i < j)
    BY <1>1
  <2> QED BY <2>1 DEF Before
<1>5. /\ s \o e \in Seq(A) /\ ToSet(s \o e) = ToSet(s) \cup {x}
      /\ \A y, z : Before(s \o e, y, z) <=> Before(s, y, z) \/ (y \in ToSet(s) /\ z \in {x})
      /\ IsInjective(s \o e)
  BY <1>1, <1>3, <1>4, JoinOrder
<1> QED BY <1>2, <1>5

LEMMA GetLastIconPriorityIs ==
  ASSUME NEW l, Fit(l), NEW sticky
  PROVE  GetLastIconPriority(l, sticky) \in Int
<1> DEFINE s == l.inner
           I == {k \in 1..Len(s) : IsSticky(l, s[k]) = sticky}
           last == IF I # {} THEN Max(I) ELSE 0
           p == l.priority
<1>1. s \in Seq(Icons) /\ p \in [Icons -> Int] /\ l.given \in Nat
  BY DEF Fit, Launchers
<1>2. GetLastIconPriority(l, sticky) =
        IF s = <<>> THEN -l.given
        ELSE IF last # 0 THEN p[s[last]]
        ELSE IF sticky THEN p[s[1]] - 1
        ELSE p[Last(s)]
  BY DEF GetLastIconPriority, SelectLastInSeq, DefaultPriority
<1>3. Len(s) \in Nat /\ I \in SUBSET (1..Len(s))
  BY <1>1
<1> HIDE DEF I
<1>4. last # 0 => last \in 1..Len(s)
  BY <1>3, LastIs
<1> HIDE DEF last
<1>5. s # <<>> => 1 \in 1..Len(s) /\ Len(s) \in 1..Len(s)
  BY <1>1
<1>6. Last(s) = s[Len(s)]
  BY DEF Last
<1>7. \A k \in 1..Len(s) : p[s[k]] \in Int
  BY <1>1
<1>8. -l.given \in Int
  BY <1>1
<1> HIDE DEF s, p
<1>9. \A n \in Int : n - 1 \in Int
  OBVIOUS
<1> QED BY <1>2, <1>4, <1>5, <1>6, <1>7, <1>8, <1>9

LEMMA NewIconIs ==
  ASSUME NEW l, l.inner \in Seq(Icons), NEW a, HasRoom(l, a)
  PROVE  NewIcon(l, a) \in Icons /\ NewIcon(l, a)[1] = a /\ NewIcon(l, a) \notin ToSet(l.inner)
<1>1. \E i \in Icons : i[1] = a /\ ~Contains(l.inner, i)
  BY DEF HasRoom
<1>2. NewIcon(l, a) \in Icons /\ NewIcon(l, a)[1] = a /\ ~Contains(l.inner, NewIcon(l, a))
  BY <1>1 DEF NewIcon
<1> QED BY <1>2, Elements

\* The icon is on the launcher now, and the others are where they were
Joined(t, l, icon) ==
  /\ Fit(t) /\ Ranked(t) /\ ToSet(t.inner) = ToSet(l.inner) \cup {icon} /\ OthersKept(t, l, icon)
  /\ t.removed = l.removed /\ t.closing = l.closing /\ t.running = l.running /\ t.sticky = l.sticky
  /\ t.seen = l.seen \cup {icon[1]}
  /\ t.stuck = IF icon[1] \in l.sticky THEN l.stuck \cup {icon} ELSE l.stuck
  /\ t.visible = IF icon[1] \in l.running \cup l.sticky THEN l.visible \cup {icon} ELSE l.visible

LEMMA RegisterIconIs ==
  ASSUME NEW l, Fit(l), Ranked(l), NEW icon \in Icons, icon \notin ToSet(l.inner), NEW p \in Int
  PROVE  Joined(RegisterIcon(l, icon, p), l, icon)
<1> DEFINE a == icon[1]
           stuck == IF a \in l.sticky THEN l.stuck \cup {icon} ELSE l.stuck
           visible == IF a \in l.running \cup l.sticky THEN l.visible \cup {icon} ELSE l.visible
           k == [l EXCEPT !.priority[icon] = p, !.seen = @ \cup {a}, !.stuck = stuck, !.visible = visible]
           q == Append(l.inner, icon)
           w == [k EXCEPT !.inner = q]
           t == Sort(w)
<1>1. l \in Launchers /\ l.inner \in Seq(Icons) /\ IsInjective(l.inner) /\ l.priority \in [Icons -> Int]
  BY DEF Fit, Launchers
<1>2. a \in Applications
  BY IconsAre
<1>3. k \in Launchers /\ k.inner = l.inner
  BY <1>1, <1>2 DEF Launchers
<1>4. RegisterIcon(l, icon, p) = t
  <2>1. ~Contains(k.inner, icon)
    BY <1>1, <1>3, Elements
  <2>2. RegisterIcon(l, icon, p) = AddIcon(k, icon)
    BY DEF RegisterIcon
  <2>3. w = [k EXCEPT !.inner = Append(@, icon)]
    BY <1>3
  <2> HIDE DEF k, w
  <2> QED BY <2>1, <2>2, <2>3 DEF AddIcon
<1>5. /\ q \in Seq(Icons) /\ IsInjective(q) /\ ToSet(q) = ToSet(l.inner) \cup {icon}
      /\ \A y, z \in ToSet(l.inner) : Before(q, y, z) <=> Before(l.inner, y, z)
  BY <1>1, AppendOrder
<1> HIDE DEF q
<1>6. /\ w \in Launchers /\ w.inner = q /\ \A y \in Icons \ {icon} : w.priority[y] = l.priority[y]
      /\ w.removed = l.removed /\ w.closing = l.closing /\ w.running = l.running /\ w.sticky = l.sticky
      /\ w.seen = l.seen \cup {a} /\ w.stuck = stuck /\ w.visible = visible
  <2>1. w \in Launchers
    <3> HIDE DEF k
    <3> QED BY <1>3, <1>5 DEF Launchers
  <2>2. w.inner = q /\ \A y \in Icons \ {icon} : w.priority[y] = l.priority[y]
    BY <1>1 DEF Launchers
  <2>3. /\ w.removed = l.removed /\ w.closing = l.closing /\ w.running = l.running /\ w.sticky = l.sticky
        /\ w.seen = l.seen \cup {a} /\ w.stuck = stuck /\ w.visible = visible
    <3> HIDE DEF stuck, visible
    <3> QED BY <1>1 DEF Launchers
  <2> QED BY <2>1, <2>2, <2>3
<1>7. Fit(w)
  BY <1>5, <1>6 DEF Fit
<1> HIDE DEF w
<1>8. /\ Fit(t) /\ Same(t, w) /\ ToSet(t.inner) = ToSet(w.inner) /\ Ranked(t)
      /\ \A x, y \in ToSet(w.inner) : Before(t.inner, x, y) <=> ComesFirst(w, x, y)
  BY <1>7, SortIs
<1>9. OthersKept(t, l, icon)
  <2>1. ASSUME NEW x \in ToSet(l.inner), NEW y \in ToSet(l.inner), Before(l.inner, x, y)
        PROVE  Before(t.inner, x, y)
    <3>1. x \in Icons \ {icon} /\ y \in Icons \ {icon}
      BY <1>1, Elements
    <3>2. w.priority[x] <= w.priority[y]
      BY <1>6, <2>1, <3>1 DEF Ranked
    <3>3. Before(w.inner, x, y)
      BY <1>5, <1>6, <2>1
    <3>4. ComesFirst(w, x, y)
      BY <1>7, <3>2, <3>3, ComesFirstIs
    <3>5. x \in ToSet(w.inner) /\ y \in ToSet(w.inner)
      BY <1>5, <1>6
    <3> QED BY <1>8, <3>4, <3>5
  <2>2. ASSUME NEW x \in ToSet(l.inner), NEW y \in ToSet(l.inner), Before(t.inner, x, y)
        PROVE  Before(l.inner, x, y)
    <3>1. t.inner \in Seq(Icons) /\ IsInjective(t.inner)
      BY <1>8 DEF Fit, Launchers
    <3>2. x # y /\ ~Before(t.inner, y, x)
      BY <2>2, <3>1, BeforeIs
    <3>3. Before(l.inner, x, y) \/ Before(l.inner, y, x)
      BY <1>1, <3>2, BeforeIs
    <3> QED BY <2>1, <3>2, <3>3
  <2> QED BY <2>1, <2>2 DEF OthersKept
<1> HIDE DEF t
<1> QED BY <1>4, <1>5, <1>6, <1>8, <1>9 DEF Joined, Same

-----------------------------------------------------------------------------
(* What the operations on one icon do *)

LEMMA ShuffledNot ==
  ASSUME NEW m, Fit(m), Ranked(m), NEW icon
  PROVE  Shuffled(m, m) /\ OthersKept(m, m, icon)
BY DEF Shuffled, Same, OthersKept

\* A reordering next to whatever icon of the model
LEMMA ReorderIs ==
  ASSUME NEW m, Fit(m), Ranked(m), NEW icon \in Icons, NEW other \in ToSet(m.inner) \cup {NullIcon}
  PROVE  /\ Shuffled(ReorderAfter(m, icon, other), m) /\ OthersKept(ReorderAfter(m, icon, other), m, icon)
         /\ Shuffled(ReorderBefore(m, icon, other), m) /\ OthersKept(ReorderBefore(m, icon, other), m, icon)
<1>1. CASE icon = other \/ other = NullIcon
  <2>1. ReorderAfter(m, icon, other) = m /\ ReorderBefore(m, icon, other) = m
    BY <1>1 DEF ReorderAfter, ReorderBefore
  <2> QED BY <2>1, ShuffledNot
<1>2. CASE icon # other /\ other # NullIcon
  <2>1. other \in ToSet(m.inner)
    BY <1>2
  <2> QED BY <1>2, <2>1, ReorderAfterIs, ReorderBeforeIs
<1> QED BY <1>1, <1>2

LEMMA RemoveAppIconIs ==
  ASSUME NEW l \in Launchers, NEW icon \in Icons
  PROVE  LET t == RemoveAppIcon(l, icon)
         IN  /\ t \in Launchers /\ t.inner = l.inner /\ t.priority = l.priority
             /\ t.running = l.running /\ t.stuck = l.stuck
             /\ t.visible = l.visible \ {icon} /\ t.removed = l.removed \cup {icon}
             /\ t.closing = l.closing \ {icon}
             /\ icon \in l.removed => t.sticky = l.sticky /\ t.seen = l.seen
             /\ icon \notin l.removed => t.sticky = l.sticky \ {icon[1]} /\ t.seen = l.seen \ {icon[1]}
BY DEF RemoveAppIcon, Launchers

\* Let go by its user: it stays while it runs
LetGo(t, s, icon) ==
  LET a == icon[1]
  IN  /\ t.f = Without(s.f, a) /\ t.l.stuck = s.l.stuck \ {icon} /\ t.l.sticky = s.l.sticky \ {a}
      /\ t.l.running = s.l.running
      /\ a \in s.l.running => /\ t.l.visible = s.l.visible \cup {icon} /\ t.l.removed = s.l.removed
                              /\ t.l.closing = s.l.closing /\ t.l.seen = s.l.seen
      /\ a \notin s.l.running => /\ t.l.visible = s.l.visible \ {icon}
                                 /\ t.l.removed = s.l.removed \cup {icon}
                                 /\ t.l.closing = s.l.closing \ {icon}
                                 /\ icon \notin s.l.removed => t.l.seen = s.l.seen \ {a}

LEMMA UnStickIs ==
  ASSUME NEW s \in States, NEW icon
  PROVE  LET t == UnStick(s, icon)
         IN  /\ t \in States /\ t.l.inner = s.l.inner /\ t.l.priority = s.l.priority
             /\ ~IsSticky(s.l, icon) => t = s
             /\ IsSticky(s.l, icon) => LetGo(t, s, icon)
<1>1. CASE ~IsSticky(s.l, icon)
  BY <1>1 DEF UnStick
<1>2. CASE IsSticky(s.l, icon)
  <2> DEFINE a == icon[1]
             g == Without(s.f, a)
             visible == IF a \in s.l.running THEN s.l.visible \cup {icon} ELSE s.l.visible \ {icon}
             k == [s.l EXCEPT !.stuck = @ \ {icon}, !.sticky = @ \ {a}, !.visible = visible]
             t == UnStick(s, icon)
  <2>1. icon \in Icons /\ a \in Applications /\ s.l \in Launchers /\ s.f \in Seq(Uris)
    BY <1>2, IconsAre DEF IsSticky, States, Launchers
  <2>2. g \in Seq(Uris)
    <3>1. g = Only(s.f, ToSet(s.f) \ {a})
      BY DEF Without
    <3> QED BY <2>1, <3>1, OnlyIs
  <2>3. s = [l |-> s.l, f |-> s.f]
    BY DEF States
  <2> HIDE DEF g
  <2>4. k \in Launchers
    BY <2>1 DEF Launchers
  <2>5. t = [l |-> IF a \in s.l.running THEN k ELSE RemoveAppIcon(k, icon), f |-> g]
    <3> DEFINE r == IF a \in s.l.running THEN k ELSE RemoveAppIcon(k, icon)
    <3>1. t = [RemoveFavorite(s, a) EXCEPT !.l = r]
      BY <1>2 DEF UnStick
    <3>2. RemoveFavorite(s, a) = [l |-> s.l, f |-> g]
      BY <2>3 DEF RemoveFavorite, g
    <3> HIDE DEF r, t, k
    <3>3. t = [l |-> r, f |-> g]
      BY <3>1, <3>2
    <3> QED BY <3>3 DEF r
  <2>6. /\ k.inner = s.l.inner /\ k.priority = s.l.priority /\ k.stuck = s.l.stuck \ {icon}
        /\ k.sticky = s.l.sticky \ {a} /\ k.visible = visible /\ k.running = s.l.running
        /\ k.removed = s.l.removed /\ k.closing = s.l.closing /\ k.seen = s.l.seen
    BY <2>1 DEF Launchers
  <2> HIDE DEF k, t
  <2>7. CASE a \in s.l.running
    <3>1. t = [l |-> k, f |-> g] /\ visible = s.l.visible \cup {icon}
      BY <2>5, <2>7
    <3>2. t \in States /\ t.l = k /\ t.f = g
      BY <2>2, <2>4, <3>1 DEF States
    <3> QED BY <1>2, <2>6, <2>7, <3>1, <3>2 DEF LetGo, g, t
  <2>8. CASE a \notin s.l.running
    <3> DEFINE r == RemoveAppIcon(k, icon)
    <3>1. t = [l |-> r, f |-> g] /\ visible = s.l.visible \ {icon}
      BY <2>5, <2>8
    <3>2. /\ r \in Launchers /\ r.inner = k.inner /\ r.priority = k.priority
          /\ r.running = k.running /\ r.stuck = k.stuck
          /\ r.visible = k.visible \ {icon} /\ r.removed = k.removed \cup {icon}
          /\ r.closing = k.closing \ {icon}
          /\ icon \in k.removed => r.sticky = k.sticky /\ r.seen = k.seen
          /\ icon \notin k.removed => r.sticky = k.sticky \ {a} /\ r.seen = k.seen \ {a}
      BY <2>1, <2>4, RemoveAppIconIs
    <3> HIDE DEF r
    <3>3. t \in States /\ t.l = r /\ t.f = g
      BY <2>2, <3>1, <3>2 DEF States
    <3>4. r.sticky = s.l.sticky \ {a} /\ r.visible = s.l.visible \ {icon}
      BY <2>6, <3>1, <3>2
    <3> QED BY <1>2, <2>6, <2>8, <3>2, <3>3, <3>4 DEF LetGo, g, t
  <2> QED BY <2>7, <2>8
<1> QED BY <1>1, <1>2

\* There to stay, in whatever order
Held(t, l, icon) ==
  /\ Fit(t) /\ Ranked(t) /\ ToSet(t.inner) = ToSet(l.inner)
  /\ t.removed = l.removed /\ t.closing = l.closing /\ t.running = l.running /\ t.seen = l.seen
  /\ t.stuck = l.stuck \cup {icon} /\ t.sticky = l.sticky \cup {icon[1]}
  /\ t.visible = l.visible \cup {icon}

\* The state a saved position is told from
Stuck(s, icon) == [s EXCEPT !.l.sticky = @ \cup {icon[1]}, !.l.stuck = @ \cup {icon}]

LEMMA StuckIs ==
  ASSUME NEW s \in States, NEW icon \in Icons
  PROVE  LET k == Stuck(s, icon)
         IN  /\ k \in States /\ k.f = s.f /\ k.l.inner = s.l.inner /\ k.l.priority = s.l.priority
             /\ k.l.stuck = s.l.stuck \cup {icon} /\ k.l.sticky = s.l.sticky \cup {icon[1]}
             /\ k.l.visible = s.l.visible /\ k.l.removed = s.l.removed /\ k.l.closing = s.l.closing
             /\ k.l.running = s.l.running /\ k.l.seen = s.l.seen
<1>1. icon[1] \in Applications
  BY IconsAre
<1> QED BY <1>1 DEF Stuck, States, Launchers

LEMMA ShowIs ==
  ASSUME NEW s, Good(s), NEW icon \in Icons
  PROVE  LET t == [s EXCEPT !.l.visible = @ \cup {icon}]
         IN  /\ Good(t) /\ t.f = s.f /\ t.l.inner = s.l.inner /\ t.l.stuck = s.l.stuck
             /\ t.l.sticky = s.l.sticky /\ t.l.visible = s.l.visible \cup {icon}
             /\ t.l.removed = s.l.removed /\ t.l.closing = s.l.closing
             /\ t.l.running = s.l.running /\ t.l.seen = s.l.seen
<1> DEFINE t == [s EXCEPT !.l.visible = @ \cup {icon}]
<1>1. s \in States /\ Fit(s.l) /\ Ranked(s.l)
  BY DEF Good
<1>2. /\ t \in States /\ t.f = s.f /\ t.l.inner = s.l.inner /\ t.l.priority = s.l.priority /\ t.l.stuck = s.l.stuck
      /\ t.l.sticky = s.l.sticky /\ t.l.visible = s.l.visible \cup {icon}
      /\ t.l.removed = s.l.removed /\ t.l.closing = s.l.closing
      /\ t.l.running = s.l.running /\ t.l.seen = s.l.seen
  BY <1>1 DEF States, Launchers
<1> HIDE DEF t
<1>3. Good(t)
  <2>1. t.l \in Launchers
    BY <1>2 DEF States
  <2> QED BY <1>1, <1>2, <2>1 DEF Good, Fit, Ranked
<1> QED BY <1>2, <1>3 DEF t

LEMMA StickIs ==
  ASSUME NEW s, Good(s), NEW icon \in Icons, NEW save \in BOOLEAN
  PROVE  LET t == Stick(s, icon, save)
             r == ResetIconPriorities(SaveIconsOrder(Stuck(s, icon)))
         IN  /\ Good(t)
             /\ IsSticky(s.l, icon) /\ ~save => t = s
             /\ save \/ ~IsSticky(s.l, icon) => Held(t.l, s.l, icon)
             /\ ~save => t.f = s.f /\ t.l.inner = s.l.inner
             /\ save => /\ r \in States /\ t.f = r.f /\ t.l.inner = r.l.inner
                        /\ r.l.stuck = s.l.stuck \cup {icon} /\ r.l.sticky = s.l.sticky \cup {icon[1]}
<1> DEFINE t == Stick(s, icon, save)
           k == Stuck(s, icon)
           o == SaveIconsOrder(k)
           r == ResetIconPriorities(o)
<1>1. s \in States /\ Fit(s.l) /\ Ranked(s.l)
  BY DEF Good
<1>2. IsSticky(s.l, icon) /\ ~save => t = s
  BY DEF Stick
<1>3. save \/ ~IsSticky(s.l, icon) => t = IF save THEN [r EXCEPT !.l.visible = @ \cup {icon}]
                                        ELSE [k EXCEPT !.l.visible = @ \cup {icon}]
  <2> HAVE save \/ ~IsSticky(s.l, icon)
  <2>1. t = [(IF save THEN r ELSE k) EXCEPT !.l.visible = @ \cup {icon}]
    BY DEF Stick, Stuck
  <2> HIDE DEF r, k, t
  <2> QED BY <2>1
<1> HIDE DEF t
<1>4. /\ k \in States /\ k.f = s.f /\ k.l.inner = s.l.inner /\ k.l.priority = s.l.priority
      /\ k.l.stuck = s.l.stuck \cup {icon} /\ k.l.sticky = s.l.sticky \cup {icon[1]}
      /\ k.l.visible = s.l.visible /\ k.l.removed = s.l.removed /\ k.l.closing = s.l.closing
      /\ k.l.running = s.l.running /\ k.l.seen = s.l.seen
  BY <1>1, StuckIs
<1> HIDE DEF k
<1>5. Good(k) /\ Fit(k.l)
  <2>1. k.l \in Launchers
    BY <1>4 DEF States
  <2> QED BY <1>1, <1>4, <2>1 DEF Good, Fit, Ranked
<1>6. o \in States /\ o.l = k.l
  BY <1>4, <1>5, SaveIconsOrderIs
<1> HIDE DEF o
<1>7. r \in States /\ r.f = o.f /\ Shuffled(r.l, k.l)
  BY <1>5, <1>6, ResetIs
<1> HIDE DEF r
<1>8. /\ Good(r) /\ ToSet(r.l.inner) = ToSet(k.l.inner) /\ r.l.stuck = k.l.stuck /\ r.l.visible = k.l.visible
      /\ r.l.removed = k.l.removed /\ r.l.closing = k.l.closing /\ r.l.running = k.l.running
      /\ r.l.sticky = k.l.sticky /\ r.l.seen = k.l.seen
  BY <1>7 DEF Shuffled, Same, Good
<1>9. ASSUME save
      PROVE  Good(t) /\ Held(t.l, s.l, icon) /\ t.f = r.f /\ t.l.inner = r.l.inner
  <2>1. t = [r EXCEPT !.l.visible = @ \cup {icon}]
    BY <1>3, <1>9
  <2>2. /\ Good(t) /\ t.f = r.f /\ t.l.inner = r.l.inner /\ t.l.stuck = r.l.stuck
        /\ t.l.sticky = r.l.sticky /\ t.l.visible = r.l.visible \cup {icon}
        /\ t.l.removed = r.l.removed /\ t.l.closing = r.l.closing
        /\ t.l.running = r.l.running /\ t.l.seen = r.l.seen
    BY <1>8, <2>1, ShowIs
  <2> QED BY <1>4, <1>8, <2>2 DEF Held, Good
<1>10. ASSUME ~save, ~IsSticky(s.l, icon)
       PROVE  Good(t) /\ Held(t.l, s.l, icon) /\ t.f = s.f /\ t.l.inner = s.l.inner
  <2>1. t = [k EXCEPT !.l.visible = @ \cup {icon}]
    BY <1>3, <1>10
  <2>2. /\ Good(t) /\ t.f = k.f /\ t.l.inner = k.l.inner /\ t.l.stuck = k.l.stuck
        /\ t.l.sticky = k.l.sticky /\ t.l.visible = k.l.visible \cup {icon}
        /\ t.l.removed = k.l.removed /\ t.l.closing = k.l.closing
        /\ t.l.running = k.l.running /\ t.l.seen = k.l.seen
    BY <1>5, <2>1, ShowIs
  <2> QED BY <1>4, <2>2 DEF Held, Good
<1> QED BY <1>2, <1>4, <1>7, <1>8, <1>9, <1>10 DEF t, r, o, k

\* A new favorite has got an icon
Created(t, l, icon) ==
  /\ Fit(t) /\ Ranked(t) /\ ToSet(t.inner) = ToSet(l.inner) \cup {icon} /\ OthersKept(t, l, icon)
  /\ t.removed = l.removed /\ t.closing = l.closing /\ t.running = l.running
  /\ t.seen = l.seen \cup {icon[1]} /\ t.sticky = l.sticky \cup {icon[1]}
  /\ t.stuck = l.stuck \cup {icon} /\ t.visible = l.visible \cup {icon}

LEMMA CreateFavoriteIconIs ==
  ASSUME NEW s, Good(s), NEW a \in Applications, HasRoom(s.l, a), NEW p \in Int
  PROVE  LET t == CreateFavoriteIcon(s, a, p)
         IN  /\ Good(t) /\ t.f = s.f
             /\ a \in s.l.seen => t = s
             /\ a \notin s.l.seen =>
                  \E icon \in Icons : icon[1] = a /\ icon \notin ToSet(s.l.inner) /\ Created(t.l, s.l, icon)
<1> DEFINE t == CreateFavoriteIcon(s, a, p)
<1>1. CASE a \in s.l.seen
  BY <1>1 DEF CreateFavoriteIcon
<1>2. CASE a \notin s.l.seen
  <2> DEFINE k == [s.l EXCEPT !.sticky = @ \cup {a}]
             icon == NewIcon(k, a)
             r == RegisterIcon(k, icon, p)
  <2>1. s \in States /\ s.l \in Launchers /\ Fit(s.l) /\ Ranked(s.l) /\ s.l.inner \in Seq(Icons)
    BY DEF Good, States, Fit, Launchers
  <2>2. /\ k \in Launchers /\ k.inner = s.l.inner /\ k.priority = s.l.priority /\ k.stuck = s.l.stuck
        /\ k.sticky = s.l.sticky \cup {a} /\ k.visible = s.l.visible /\ k.removed = s.l.removed
        /\ k.closing = s.l.closing /\ k.running = s.l.running /\ k.seen = s.l.seen
    BY <2>1 DEF Launchers
  <2>3. t = [s EXCEPT !.l = r]
    BY <1>2 DEF CreateFavoriteIcon
  <2> HIDE DEF k
  <2>4. Fit(k) /\ Ranked(k) /\ HasRoom(k, a)
    BY <2>1, <2>2 DEF Fit, Ranked, HasRoom
  <2>5. icon \in Icons /\ icon[1] = a /\ icon \notin ToSet(k.inner)
    BY <2>1, <2>2, <2>4, NewIconIs
  <2> HIDE DEF icon
  <2>6. Joined(r, k, icon)
    BY <2>4, <2>5, RegisterIconIs
  <2> HIDE DEF r
  <2>7. Created(r, s.l, icon)
    BY <2>2, <2>5, <2>6 DEF Joined, Created, OthersKept
  <2>8. r \in Launchers /\ Fit(r) /\ Ranked(r)
    BY <2>6 DEF Joined, Fit
  <2>9. Good(t) /\ t.f = s.f /\ t.l = r
    BY <2>1, <2>3, <2>8 DEF Good, States
  <2> HIDE DEF t
  <2>10. icon \notin ToSet(s.l.inner)
    BY <2>2, <2>5
  <2> QED BY <1>2, <2>5, <2>7, <2>9, <2>10 DEF t
<1> QED BY <1>1, <1>2

\* A new favorite, before it finds its place
Added(s, a) ==
  IF GetIconByUri(s.l, a) # NullIcon THEN Stick(s, GetIconByUri(s.l, a), FALSE)
  ELSE CreateFavoriteIcon(s, a, DefaultPriority(s.l))

\* The favorite next to which GetSignalAddedInfo puts it
Beside(f, n) == IF n = 1 THEN IF Len(f) > 1 THEN f[2] ELSE RUNNING_APPS_URI ELSE f[n - 1]

LEMMA AddedIs ==
  ASSUME NEW s, Good(s), NEW a \in Applications, HasRoom(s.l, a)
  PROVE  LET t == Added(s, a)
         IN  /\ Good(t) /\ t.f = s.f /\ ToSet(s.l.inner) \subseteq ToSet(t.l.inner)
             /\ \A i \in Icons : OthersKept(t.l, s.l, i) \/ i \in ToSet(s.l.inner) \/ i[1] # a
<1> DEFINE t == Added(s, a)
           i == GetIconByUri(s.l, a)
<1>1. Fit(s.l) /\ s.l.inner \in Seq(Icons) /\ s.l.given \in Nat
  BY DEF Good, Fit, Launchers
<1>2. DefaultPriority(s.l) \in Int
  BY <1>1 DEF DefaultPriority
<1>3. CASE i # NullIcon
  <2>1. t = Stick(s, i, FALSE)
    BY <1>3 DEF Added
  <2>2. i \in Icons
    BY <1>1, <1>3, GetIconByUriIs
  <2> HIDE DEF i, t
  <2>3. Good(t) /\ t.f = s.f /\ t.l.inner = s.l.inner
    <3>1. /\ Good(t) /\ FALSE \in BOOLEAN
          /\ IsSticky(s.l, i) /\ ~FALSE => t = s
          /\ ~FALSE => t.f = s.f /\ t.l.inner = s.l.inner
      BY <2>1, <2>2, StickIs
    <3> QED BY <3>1
  <2>4. \A x : OthersKept(t.l, s.l, x)
    BY <2>3 DEF OthersKept
  <2> QED BY <2>3, <2>4 DEF t
<1>4. CASE i = NullIcon
  <2>1. t = CreateFavoriteIcon(s, a, DefaultPriority(s.l))
    BY <1>4 DEF Added
  <2> HIDE DEF i, t
  <2>2. /\ Good(t) /\ t.f = s.f
        /\ a \in s.l.seen => t = s
        /\ a \notin s.l.seen =>
             \E icon \in Icons : icon[1] = a /\ icon \notin ToSet(s.l.inner) /\ Created(t.l, s.l, icon)
    BY <1>2, <2>1, CreateFavoriteIconIs
  <2>3. CASE a \in s.l.seen
    <3>1. \A x : OthersKept(s.l, s.l, x)
      BY DEF OthersKept
    <3> QED BY <2>2, <2>3, <3>1 DEF t
  <2>4. CASE a \notin s.l.seen
    <3>1. PICK icon \in Icons : icon[1] = a /\ icon \notin ToSet(s.l.inner) /\ Created(t.l, s.l, icon)
      BY <2>2, <2>4
    <3>2. \A x : x \notin ToSet(s.l.inner) => OthersKept(t.l, s.l, x)
      BY <3>1 DEF OthersKept, Created
    <3>3. ToSet(s.l.inner) \subseteq ToSet(t.l.inner)
      BY <3>1 DEF Created
    <3> QED BY <2>2, <3>2, <3>3 DEF t
  <2> QED BY <2>3, <2>4
<1> QED BY <1>3, <1>4

LEMMA OnFavoriteStoreFavoriteAddedIs ==
  ASSUME NEW s, Good(s), NEW n \in 1..Len(s.f), s.f[n] \in Applications, HasRoom(s.l, s.f[n])
  PROVE  LET t    == OnFavoriteStoreFavoriteAdded(s, n)
             k    == Added(s, s.f[n])
             icon == GetIconByUri(k.l, s.f[n])
             pos  == Beside(s.f, n)
         IN  /\ Good(t) /\ t.f = s.f /\ Good(k) /\ Shuffled(t.l, k.l)
             /\ \E c \in ToSet(s.l.inner) \cup {NullIcon} :
                  /\ c = NullIcon => \A i \in ToSet(s.l.inner) : ~(i \in s.l.visible /\ i[1] = pos)
                  /\ c # NullIcon => c \in s.l.visible /\ c[1] = pos
                  /\ t.l = IF n = 1 THEN ReorderBefore(k.l, icon, c) ELSE ReorderAfter(k.l, icon, c)
<1> DEFINE a == s.f[n]
           t == OnFavoriteStoreFavoriteAdded(s, n)
           k == Added(s, a)
           icon == GetIconByUri(k.l, a)
           pos == Beside(s.f, n)
           q == s.l.inner
           I == {j \in 1..Len(q) : q[j] \in s.l.visible /\ q[j][1] = pos}
           at == IF I # {} THEN Max(I) ELSE 0
           c == IF at = 0 THEN NullIcon ELSE q[at]
           m == IF n = 1 THEN ReorderBefore(k.l, icon, c) ELSE ReorderAfter(k.l, icon, c)
<1>1. q \in Seq(Icons) /\ Len(q) \in Nat /\ I \in SUBSET (1..Len(q))
  BY DEF Good, Fit, Launchers
<1>2. \A j \in I : j # 0 /\ q[j] \in ToSet(q) /\ q[j] \in Icons /\ q[j] \in s.l.visible /\ q[j][1] = pos
  BY <1>1, Elements
<1>3. I = {} => \A i \in ToSet(q) : ~(i \in s.l.visible /\ i[1] = pos)
  <2>1. \A i \in ToSet(q) : \E j \in 1..Len(q) : q[j] = i
    BY <1>1, Elements
  <2>2. I = {} => \A j \in 1..Len(q) : ~(q[j] \in s.l.visible /\ q[j][1] = pos)
    OBVIOUS
  <2> HIDE DEF I, pos
  <2> QED BY <2>1, <2>2
<1>4. t = IF at = 0 \/ icon = NullIcon THEN k
          ELSE [k EXCEPT !.l = IF n = 1 THEN ReorderBefore(@, icon, q[at]) ELSE ReorderAfter(@, icon, q[at])]
  <2> DEFINE place == IF n = 1 THEN IF Len(s.f) > 1 THEN s.f[2] ELSE RUNNING_APPS_URI ELSE s.f[n - 1]
             J == {j \in 1..Len(s.l.inner) : s.l.inner[j] \in s.l.visible /\ s.l.inner[j][1] = place}
             last == IF J # {} THEN Max(J) ELSE 0
  <2>1. last = at
    BY DEF Beside
  <2>2. t = IF last = 0 \/ icon = NullIcon THEN k
            ELSE [k EXCEPT !.l = IF n = 1 THEN ReorderBefore(@, icon, q[last]) ELSE ReorderAfter(@, icon, q[last])]
    BY DEF OnFavoriteStoreFavoriteAdded, Added, SelectLastInSeq
  <2> HIDE DEF last, at, t, k, icon
  <2> QED BY <2>1, <2>2
<1> HIDE DEF I
<1>5. /\ at = 0 => I = {}
      /\ at # 0 => at \in I
  <2>1. I # {} => Max(I) \in I
    BY <1>1, LastIs
  <2> QED BY <1>2, <2>1
<1> HIDE DEF at
<1>6. /\ c \in ToSet(q) \cup {NullIcon}
      /\ c = NullIcon => \A i \in ToSet(q) : ~(i \in s.l.visible /\ i[1] = pos)
      /\ c # NullIcon => c \in s.l.visible /\ c[1] = pos
      /\ at # 0 => c = q[at] /\ c # NullIcon
  BY <1>2, <1>3, <1>5, IconsAre
<1> HIDE DEF t
<1>7. Good(k) /\ k.f = s.f /\ ToSet(q) \subseteq ToSet(k.l.inner)
  BY AddedIs
<1>8. k \in States /\ Fit(k.l) /\ Ranked(k.l) /\ k.l.inner \in Seq(Icons) /\ k = [k EXCEPT !.l = k.l]
  BY <1>7 DEF Good, Fit, Launchers, States
<1>9. t = [k EXCEPT !.l = m]
  <2>1. CASE at = 0 \/ icon = NullIcon
    <3>1. c = NullIcon \/ icon = NullIcon
      BY <2>1
    <3>2. m = k.l
      <4> HIDE DEF c, icon
      <4> QED BY <3>1 DEF ReorderBefore, ReorderAfter
    <3>3. t = k
      BY <1>4, <2>1
    <3> QED BY <1>8, <3>2, <3>3
  <2>2. CASE at # 0 /\ icon # NullIcon
    <3>1. t = [k EXCEPT !.l = IF n = 1 THEN ReorderBefore(k.l, icon, q[at]) ELSE ReorderAfter(k.l, icon, q[at])]
      BY <1>4, <2>2
    <3>2. c = q[at]
      BY <1>6, <2>2
    <3> HIDE DEF c
    <3> QED BY <3>1, <3>2
  <2> QED BY <2>1, <2>2
<1> HIDE DEF c, k
<1>10. icon = NullIcon \/ icon \in Icons
  BY <1>8, GetIconByUriIs
<1>11. Shuffled(m, k.l)
  <2>1. CASE icon = NullIcon
    <3>1. m = k.l
      <4> HIDE DEF icon
      <4> QED BY <2>1 DEF ReorderBefore, ReorderAfter
    <3> QED BY <1>8, <3>1, ShuffledNot
  <2>2. CASE icon \in Icons
    <3>1. c \in ToSet(k.l.inner) \cup {NullIcon}
      BY <1>6, <1>7
    <3> HIDE DEF icon
    <3>2. Shuffled(ReorderAfter(k.l, icon, c), k.l) /\ Shuffled(ReorderBefore(k.l, icon, c), k.l)
      BY <1>8, <2>2, <3>1, ReorderIs
    <3> QED BY <3>2
  <2> QED BY <1>10, <2>1, <2>2
<1> HIDE DEF m
<1>12. Good(t) /\ t.f = s.f /\ t.l = m
  <2>1. t \in States /\ t.f = k.f /\ t.l = m
    BY <1>8, <1>9, <1>11 DEF States, Shuffled, Fit
  <2> QED BY <1>7, <1>11, <2>1 DEF Good, Shuffled
<1> QED BY <1>6, <1>7, <1>11, <1>12 DEF t, k, m

-----------------------------------------------------------------------------
(* The drag of an icon *)

\* How the icon that was closest to d in q leads back to its place
Leads(q, d, c) ==
  \/ c.icon = NullIcon /\ ToSet(q) = {d}
  \/ /\ c.icon \in ToSet(q) \ {d} /\ c.is_before
     /\ \A x : Before(q, x, d) <=> x = c.icon \/ Before(q, x, c.icon)
  \/ /\ c.icon \in ToSet(q) \ {d} /\ ~c.is_before
     /\ \A x \in ToSet(q) \ {d} : Before(q, d, x) /\ (x = c.icon \/ Before(q, c.icon, x))

LEMMA GetClosestIconIs ==
  ASSUME NEW m, m.inner \in Seq(Icons), IsInjective(m.inner), NEW d \in ToSet(m.inner)
  PROVE  LET c == GetClosestIcon(m, d)
         IN  c \in [icon : Icons \cup {NullIcon}, is_before : BOOLEAN] /\ Leads(m.inner, d, c)
<1> DEFINE q == m.inner
           at == Index(q, d)
           c == GetClosestIcon(m, d)
<1>1. Len(q) \in Nat /\ at \in 1..Len(q) /\ q[at] = d
  BY IndexType
<1>2. c = IF at > 1 THEN [icon |-> q[at - 1], is_before |-> TRUE]
          ELSE IF at < Len(q) THEN [icon |-> q[at + 1], is_before |-> FALSE]
          ELSE [icon |-> NullIcon, is_before |-> TRUE]
  BY DEF GetClosestIcon
<1> HIDE DEF at, c
<1>3. \A i, j \in 1..Len(q) : Before(q, q[i], q[j]) <=> i < j
  BY BeforeIs
<1>4. /\ \A i \in 1..Len(q) : q[i] \in ToSet(q) /\ q[i] \in Icons
      /\ \A i, j \in 1..Len(q) : q[i] = q[j] => i = j
      /\ \A x \in ToSet(q) : \E i \in 1..Len(q) : q[i] = x
  BY Elements
<1>5. \A x, y : Before(q, x, y) => x \in ToSet(q) /\ y \in ToSet(q)
  BY BeforeIs
<1> HIDE DEF q
<1>6. CASE at > 1
  <2> DEFINE p == at - 1
  <2>1. p \in 1..Len(q) /\ p # at /\ \A i \in 1..Len(q) : i < at <=> i = p \/ i < p
    BY <1>1, <1>6
  <2>2. c.icon = q[p] /\ c.is_before = TRUE /\ c = [icon |-> q[p], is_before |-> TRUE]
    BY <1>2, <1>6
  <2> HIDE DEF p
  <2>3. c.icon \in ToSet(q) \ {d} /\ c.icon \in Icons
    BY <1>1, <1>4, <2>1, <2>2
  <2>4. ASSUME NEW x \in ToSet(q)
        PROVE  Before(q, x, d) <=> x = c.icon \/ Before(q, x, c.icon)
    <3>1. PICK i \in 1..Len(q) : q[i] = x
      BY <1>4
    <3>2. (Before(q, x, d) <=> i < at) /\ (Before(q, x, c.icon) <=> i < p) /\ (x = c.icon <=> i = p)
      BY <1>1, <1>3, <1>4, <2>1, <2>2, <3>1
    <3> QED BY <2>1, <3>2
  <2>5. \A x : Before(q, x, d) <=> x = c.icon \/ Before(q, x, c.icon)
    BY <1>5, <2>3, <2>4
  <2>6. c \in [icon : Icons \cup {NullIcon}, is_before : BOOLEAN]
    BY <2>2, <2>3
  <2> QED BY <2>2, <2>3, <2>5, <2>6 DEF Leads, c, q
<1>7. CASE ~(at > 1) /\ at < Len(q)
  <2> DEFINE p == at + 1
  <2>1. p \in 1..Len(q) /\ p # at /\ \A i \in 1..Len(q) : i # at => at < i /\ (i = p \/ p < i)
    BY <1>1, <1>7
  <2>2. c.icon = q[p] /\ c.is_before = FALSE /\ c = [icon |-> q[p], is_before |-> FALSE]
    BY <1>2, <1>7
  <2> HIDE DEF p
  <2>3. c.icon \in ToSet(q) \ {d} /\ c.icon \in Icons
    BY <1>1, <1>4, <2>1, <2>2
  <2>4. ASSUME NEW x \in ToSet(q) \ {d}
        PROVE  Before(q, d, x) /\ (x = c.icon \/ Before(q, c.icon, x))
    <3>1. PICK i \in 1..Len(q) : q[i] = x
      BY <1>4
    <3>2. i # at
      BY <1>1, <3>1
    <3> QED BY <1>1, <1>3, <2>1, <2>2, <3>1, <3>2
  <2>6. c \in [icon : Icons \cup {NullIcon}, is_before : BOOLEAN]
    BY <2>2, <2>3
  <2> QED BY <2>2, <2>3, <2>4, <2>6 DEF Leads, c, q
<1>8. CASE ~(at > 1) /\ ~(at < Len(q))
  <2>1. \A i \in 1..Len(q) : i = at
    BY <1>1, <1>8
  <2>2. c.icon = NullIcon /\ c = [icon |-> NullIcon, is_before |-> TRUE]
    BY <1>2, <1>8
  <2>3. ToSet(q) = {d}
    BY <1>1, <1>4, <2>1
  <2>4. c \in [icon : Icons \cup {NullIcon}, is_before : BOOLEAN]
    BY <2>2
  <2> QED BY <2>2, <2>3, <2>4 DEF Leads, c, q
<1> QED BY <1>6, <1>7, <1>8

Drags == [icon : Icons, position : Nat, inner : Seq(Icons),
          closer : [icon : Icons \cup {NullIcon, GoneIcon}, is_before : BOOLEAN]]

\* A drag remembers the order it began with, and the way back unless that has left
DragInv ==
  drag = NoDrag \/
    /\ drag \in Drags /\ IsInjective(drag.inner) /\ drag.icon \in ToSet(drag.inner)
    /\ drag.position = Index(drag.inner, drag.icon)
    /\ drag.closer.icon = GoneIcon \/ Leads(drag.inner, drag.icon, drag.closer)

\* The icons are a set in the order of their priorities
Well == Good(State)

OrderedInv == Well /\ DragInv

LEMMA WellIs ==
  /\ Well <=> Fit(launcher) /\ Ranked(launcher) /\ favorites \in Seq(Uris)
  /\ State.l = launcher /\ State.f = favorites
BY DEF Well, Good, State, States, Fit

LEMMA WellNext ==
  /\ Well' <=> Fit(launcher') /\ Ranked(launcher') /\ (favorites \in Seq(Uris))'
  /\ State'.l = launcher' /\ State'.f = favorites'
BY DEF Well, Good, State, States, Fit

LEMMA UpdateWell ==
  ASSUME NEW s, Good(s), Update(s)
  PROVE  Well'
<1>1. Fit(s.l) /\ Ranked(s.l) /\ s.f \in Seq(Uris)
  BY DEF Good, States
<1>2. launcher' = s.l /\ favorites' = s.f
  BY DEF Update
<1>3. Fit(launcher') /\ Ranked(launcher') /\ (favorites \in Seq(Uris))'
  BY <1>1, <1>2 DEF Uris
<1> QED BY <1>3, WellNext

\* The order of the icons is not concerned
LEMMA FieldsWell ==
  ASSUME Well, launcher' \in Launchers, launcher'.inner = launcher.inner,
         launcher'.priority = launcher.priority, UNCHANGED favorites
  PROVE  Well'
<1>1. Fit(launcher) /\ Ranked(launcher) /\ favorites \in Seq(Uris)
  BY WellIs
<1>2. Fit(launcher') /\ Ranked(launcher') /\ (favorites \in Seq(Uris))'
  BY <1>1 DEF Fit, Ranked, Uris
<1> QED BY <1>2, WellNext

LEMMA OtherFavorites ==
  ASSUME NEW s, Good(s), NEW g \in Seq(Uris)
  PROVE  Good([s EXCEPT !.f = g]) /\ [s EXCEPT !.f = g].l = s.l /\ [s EXCEPT !.f = g].f = g
BY DEF Good, States

LEMMA OtherLauncher ==
  ASSUME NEW s, Good(s), NEW k, Fit(k), Ranked(k)
  PROVE  Good([s EXCEPT !.l = k]) /\ [s EXCEPT !.l = k].l = k /\ [s EXCEPT !.l = k].f = s.f
BY DEF Good, States, Fit

LEMMA ResetWell ==
  ASSUME NEW s, Good(s)
  PROVE  LET t == ResetIconPriorities(s)
         IN  Good(t) /\ t.f = s.f /\ Shuffled(t.l, s.l)
<1>1. s \in States /\ Fit(s.l)
  BY DEF Good
<1>2. LET t == ResetIconPriorities(s)
      IN  t \in States /\ t.f = s.f /\ Shuffled(t.l, s.l)
  BY <1>1, ResetIs
<1> QED BY <1>2 DEF Good, Shuffled

LEMMA SaveWell ==
  ASSUME NEW s, Good(s)
  PROVE  Good(SaveIconsOrder(s)) /\ SaveIconsOrder(s).l = s.l
<1>1. s \in States /\ Fit(s.l) /\ Ranked(s.l)
  BY DEF Good
<1>2. SaveIconsOrder(s) \in States /\ SaveIconsOrder(s).l = s.l
  BY <1>1, SaveIconsOrderIs
<1> QED BY <1>1, <1>2 DEF Good

LEMMA RemoveFavoriteWell ==
  ASSUME NEW s, Good(s), NEW uri
  PROVE  LET t == RemoveFavorite(s, uri)
         IN  Good(t) /\ t.l = s.l /\ t.f = Without(s.f, uri)
<1> DEFINE g == Without(s.f, uri)
<1>1. s.f \in Seq(Uris)
  BY DEF Good, States
<1>2. g \in Seq(Uris)
  BY <1>1, OnlyIs DEF Without
<1>3. RemoveFavorite(s, uri) = [s EXCEPT !.f = g]
  BY DEF RemoveFavorite
<1> HIDE DEF g
<1>4. Good([s EXCEPT !.f = g]) /\ [s EXCEPT !.f = g].l = s.l /\ [s EXCEPT !.f = g].f = g
  BY <1>2, OtherFavorites
<1> QED BY <1>3, <1>4 DEF g

LEMMA UnStickWell ==
  ASSUME NEW s, Good(s), NEW icon
  PROVE  Good(UnStick(s, icon))
<1>1. s \in States /\ Fit(s.l) /\ Ranked(s.l)
  BY DEF Good
<1> DEFINE t == UnStick(s, icon)
<1>2. t \in States /\ t.l.inner = s.l.inner /\ t.l.priority = s.l.priority
  BY <1>1, UnStickIs
<1>3. t.l \in Launchers
  BY <1>2 DEF States
<1> HIDE DEF t
<1>4. Good(t)
  BY <1>1, <1>2, <1>3 DEF Good, Fit, Ranked
<1> QED BY <1>4 DEF t

LEMMA StickWell ==
  ASSUME NEW s, Good(s), NEW icon \in Icons
  PROVE  Good(Stick(s, icon, TRUE))
<1>1. TRUE \in BOOLEAN
  OBVIOUS
<1> QED BY <1>1, StickIs

LEMMA StartsWell ==
  ASSUME Well, NEW a \in Applications, ApplicationStarts(a)
  PROVE  Well'
<1> DEFINE l == [launcher EXCEPT !.running = @ \cup {a}]
           icons == {i \in Icons : i[1] = a /\ Live(l, i)}
<1>1. launcher \in Launchers /\ Fit(launcher) /\ Ranked(launcher)
  BY WellIs DEF Fit
<1>2. l \in Launchers /\ l.inner = launcher.inner /\ l.priority = launcher.priority
  BY <1>1 DEF Launchers
<1>3. Fit(l) /\ Ranked(l) /\ l.inner \in Seq(Icons)
  BY <1>1, <1>2 DEF Fit, Ranked, Launchers
<1>4. UNCHANGED favorites
  BY DEF ApplicationStarts
<1>5. CASE a \in l.sticky \cup l.seen
  <2>1. launcher' = [l EXCEPT !.visible = @ \cup icons, !.closing = @ \ icons]
    BY <1>5 DEF ApplicationStarts
  <2>2. icons \subseteq Icons
    OBVIOUS
  <2> HIDE DEF l, icons
  <2>3. launcher' \in Launchers /\ launcher'.inner = l.inner /\ launcher'.priority = l.priority
    BY <1>2, <2>1, <2>2 DEF Launchers
  <2> QED BY <1>2, <1>4, <2>3, FieldsWell
<1>6. CASE a \notin l.sticky \cup l.seen
  <2> DEFINE icon == NewIcon(l, a)
             p == GetLastIconPriority(l, FALSE)
  <2>1. HasRoom(l, a) /\ launcher' = RegisterIcon(l, icon, p)
    BY <1>6 DEF ApplicationStarts
  <2> HIDE DEF l
  <2>2. icon \in Icons /\ icon \notin ToSet(l.inner)
    BY <1>3, <2>1, NewIconIs
  <2>3. p \in Int
    BY <1>3, GetLastIconPriorityIs
  <2> HIDE DEF icon, p
  <2>4. Joined(RegisterIcon(l, icon, p), l, icon)
    BY <1>3, <2>2, <2>3, RegisterIconIs
  <2>5. Fit(launcher') /\ Ranked(launcher')
    BY <2>1, <2>4 DEF Joined
  <2>6. (favorites \in Seq(Uris))'
    BY <1>4, WellIs DEF Uris
  <2> QED BY <2>5, <2>6, WellNext
<1> QED BY <1>5, <1>6

LEMMA ClosesWell ==
  ASSUME Well, NEW a \in Applications, ApplicationCloses(a)
  PROVE  Well'
<1> DEFINE l == [launcher EXCEPT !.running = @ \ {a}]
           icons == {i \in Icons : i[1] = a /\ Live(l, i) /\ ~IsSticky(l, i)}
<1>1. launcher \in Launchers
  BY WellIs DEF Fit
<1>2. l \in Launchers /\ l.inner = launcher.inner /\ l.priority = launcher.priority
  BY <1>1 DEF Launchers
<1>3. launcher' = [l EXCEPT !.visible = @ \ icons, !.closing = @ \cup icons] /\ UNCHANGED favorites
  BY DEF ApplicationCloses
<1>4. icons \subseteq Icons
  OBVIOUS
<1> HIDE DEF l, icons
<1>5. launcher' \in Launchers /\ launcher'.inner = l.inner /\ launcher'.priority = l.priority
  BY <1>2, <1>3, <1>4 DEF Launchers
<1> QED BY <1>2, <1>3, <1>5, FieldsWell

LEMMA CloseTimeoutWell ==
  ASSUME Well, NEW icon \in Icons, CloseTimeout(icon)
  PROVE  Well'
<1>1. launcher \in Launchers
  BY WellIs DEF Fit
<1>2. launcher' = RemoveAppIcon(launcher, icon) /\ UNCHANGED favorites
  BY DEF CloseTimeout
<1>3. launcher' \in Launchers /\ launcher'.inner = launcher.inner /\ launcher'.priority = launcher.priority
  BY <1>1, <1>2, RemoveAppIconIs
<1> QED BY <1>2, <1>3, FieldsWell

\* The icon has left the model
Gone(t, l, icon) ==
  /\ Fit(t) /\ Ranked(t) /\ ToSet(t.inner) = ToSet(l.inner) \ {icon} /\ OthersKept(t, l, icon)
  /\ t.removed = l.removed \ {icon} /\ t.stuck = l.stuck \ {icon} /\ t.visible = l.visible \ {icon}
  /\ t.closing = l.closing /\ t.running = l.running /\ t.sticky = l.sticky /\ t.seen = l.seen

LEMMA RemoveIconIs ==
  ASSUME NEW l, Fit(l), Ranked(l), NEW icon \in Icons
  PROVE  Gone([RemoveIcon(l, icon) EXCEPT !.removed = @ \ {icon}, !.stuck = @ \ {icon},
                 !.visible = @ \ {icon}, !.priority[icon] = 0], l, icon)
<1> DEFINE q == Without(l.inner, icon)
           k == [l EXCEPT !.inner = q]
           t == [RemoveIcon(l, icon) EXCEPT !.removed = @ \ {icon}, !.stuck = @ \ {icon},
                   !.visible = @ \ {icon}, !.priority[icon] = 0]
<1>1. l \in Launchers /\ l.inner \in Seq(Icons) /\ IsInjective(l.inner) /\ l.priority \in [Icons -> Int]
  BY DEF Fit, Launchers
<1>2. /\ q \in Seq(Icons) /\ ToSet(q) = ToSet(l.inner) \cap (ToSet(l.inner) \ {icon}) /\ IsInjective(q)
      /\ \A x, y : Before(q, x, y) <=>
           x \in ToSet(l.inner) \ {icon} /\ y \in ToSet(l.inner) \ {icon} /\ Before(l.inner, x, y)
  <2>1. q = Only(l.inner, ToSet(l.inner) \ {icon})
    BY DEF Without
  <2> HIDE DEF q
  <2> QED BY <1>1, <2>1, OnlyIs
<1>3. k = RemoveIcon(l, icon)
  BY DEF RemoveIcon
<1> HIDE DEF q
<1>4. k \in Launchers /\ k.inner = q /\ k.priority = l.priority /\ Same(k, l)
  BY <1>1, <1>2 DEF Launchers, Same
<1> HIDE DEF k
<1>5. t = [k EXCEPT !.removed = @ \ {icon}, !.stuck = @ \ {icon}, !.visible = @ \ {icon}, !.priority[icon] = 0]
  BY <1>3
<1> HIDE DEF t
<1>6. /\ t \in Launchers /\ t.inner = k.inner /\ \A i \in Icons \ {icon} : t.priority[i] = k.priority[i]
      /\ t.removed = k.removed \ {icon} /\ t.stuck = k.stuck \ {icon} /\ t.visible = k.visible \ {icon}
      /\ t.closing = k.closing /\ t.running = k.running /\ t.sticky = k.sticky /\ t.seen = k.seen
  <2>1. t \in Launchers
    <3> DEFINE u == [k EXCEPT !.removed = @ \ {icon}, !.stuck = @ \ {icon}, !.visible = @ \ {icon}]
    <3>1. u \in Launchers
      BY <1>4 DEF Launchers
    <3>2. t = [u EXCEPT !.priority[icon] = 0]
      BY <1>5
    <3> HIDE DEF u
    <3>3. [u.priority EXCEPT ![icon] = 0] \in [Icons -> Int]
      BY <3>1 DEF Launchers
    <3>4. t = [u EXCEPT !.priority = [u.priority EXCEPT ![icon] = 0]]
      BY <3>2
    <3> QED BY <3>1, <3>3, <3>4 DEF Launchers
  <2>2. t.inner = k.inner /\ \A i \in Icons \ {icon} : t.priority[i] = k.priority[i]
    BY <1>4, <1>5 DEF Launchers
  <2>3. /\ t.removed = k.removed \ {icon} /\ t.stuck = k.stuck \ {icon} /\ t.visible = k.visible \ {icon}
        /\ t.closing = k.closing /\ t.running = k.running /\ t.sticky = k.sticky /\ t.seen = k.seen
    BY <1>4, <1>5 DEF Launchers
  <2> QED BY <2>1, <2>2, <2>3
<1>7. Fit(t)
  BY <1>2, <1>4, <1>6 DEF Fit
<1>8. Ranked(t)
  <2> SUFFICES ASSUME NEW x, NEW y, Before(t.inner, x, y) PROVE t.priority[x] <= t.priority[y]
    BY DEF Ranked
  <2>1. Before(l.inner, x, y) /\ x \in ToSet(l.inner) \ {icon} /\ y \in ToSet(l.inner) \ {icon}
    BY <1>2, <1>4, <1>6
  <2>2. x \in Icons \ {icon} /\ y \in Icons \ {icon}
    BY <1>1, <2>1, Elements
  <2>3. l.priority[x] <= l.priority[y]
    BY <2>1 DEF Ranked
  <2> QED BY <1>4, <1>6, <2>2, <2>3
<1>9. OthersKept(t, l, icon)
  BY <1>2, <1>4, <1>6 DEF OthersKept
<1>10. Gone(t, l, icon)
  BY <1>2, <1>4, <1>6, <1>7, <1>8, <1>9 DEF Gone, Same
<1> QED BY <1>10 DEF t

LEMMA RemoveTimeoutWell ==
  ASSUME Well, NEW icon \in Icons, RemoveTimeout(icon)
  PROVE  Well'
<1>1. Fit(launcher) /\ Ranked(launcher) /\ favorites \in Seq(Uris)
  BY WellIs
<1>2. Gone(launcher', launcher, icon) /\ UNCHANGED favorites
  BY <1>1, RemoveIconIs DEF RemoveTimeout
<1>3. Fit(launcher') /\ Ranked(launcher') /\ (favorites \in Seq(Uris))'
  BY <1>1, <1>2 DEF Gone, Uris
<1> QED BY <1>3, WellNext

LEMMA ToggleWell ==
  ASSUME Well, NEW icon \in Icons, ToggleSticky(icon)
  PROVE  Well'
<1>1. Good(State)
  BY DEF Well
<1>2. Good(UnStick(State, icon)) /\ Good(Stick(State, icon, TRUE))
  BY <1>1, UnStickWell, StickWell
<1>3. Update(UnStick(State, icon)) \/ Update(Stick(State, icon, TRUE))
  BY DEF ToggleSticky
<1> QED BY <1>2, <1>3, UpdateWell

LEMMA MovedWell ==
  ASSUME Well, NEW d, Shuffled(launcher', launcher) /\ OthersKept(launcher', launcher, d), UNCHANGED favorites
  PROVE  Well'
<1>1. Fit(launcher') /\ Ranked(launcher') /\ (favorites \in Seq(Uris))'
  BY WellIs DEF Shuffled, Uris
<1> QED BY <1>1, WellNext

LEMMA UpdateDragMoves ==
  ASSUME Well, NEW other \in Icons, UpdateDragWindowPosition(other)
  PROVE  Shuffled(launcher', launcher) /\ OthersKept(launcher', launcher, drag.icon)
<1>1. Fit(launcher) /\ Ranked(launcher) /\ launcher.inner \in Seq(Icons)
  BY WellIs DEF Fit, Launchers
<1>2. /\ Contains(launcher.inner, other) /\ Contains(launcher.inner, drag.icon) /\ other # drag.icon
      /\ \/ launcher' = ReorderSmart(launcher, drag.icon, other)
         \/ launcher' = ReorderBefore(launcher, drag.icon, other)
         \/ launcher' = ReorderAfter(launcher, drag.icon, other)
  BY DEF UpdateDragWindowPosition
<1>3. other \in ToSet(launcher.inner) /\ drag.icon \in ToSet(launcher.inner) /\ drag.icon \in Icons
  BY <1>1, <1>2, Elements
<1>4. /\ Shuffled(ReorderSmart(launcher, drag.icon, other), launcher)
      /\ OthersKept(ReorderSmart(launcher, drag.icon, other), launcher, drag.icon)
  BY <1>1, <1>2, <1>3, ReorderSmartIs
<1>5. /\ Shuffled(ReorderAfter(launcher, drag.icon, other), launcher)
      /\ OthersKept(ReorderAfter(launcher, drag.icon, other), launcher, drag.icon)
      /\ Shuffled(ReorderBefore(launcher, drag.icon, other), launcher)
      /\ OthersKept(ReorderBefore(launcher, drag.icon, other), launcher, drag.icon)
  BY <1>1, <1>3, ReorderIs
<1> QED BY <1>2, <1>4, <1>5

LEMMA DragCancelMoves ==
  ASSUME Well, DragCancel
  PROVE  Shuffled(launcher', launcher) /\ OthersKept(launcher', launcher, drag.icon)
<1>1. Fit(launcher) /\ Ranked(launcher) /\ launcher.inner \in Seq(Icons)
  BY WellIs DEF Fit, Launchers
<1> DEFINE closer == drag.closer.icon
<1>2. /\ Contains(launcher.inner, drag.icon)
      /\ closer = NullIcon \/ Contains(launcher.inner, closer)
      /\ launcher' = ReorderAfter(launcher, drag.icon, closer) \/ launcher' = ReorderBefore(launcher, drag.icon, closer)
  BY DEF DragCancel
<1> HIDE DEF closer
<1>3. closer \in ToSet(launcher.inner) \cup {NullIcon} /\ drag.icon \in Icons
  BY <1>1, <1>2, Elements
<1>4. /\ Shuffled(ReorderAfter(launcher, drag.icon, closer), launcher)
      /\ OthersKept(ReorderAfter(launcher, drag.icon, closer), launcher, drag.icon)
      /\ Shuffled(ReorderBefore(launcher, drag.icon, closer), launcher)
      /\ OthersKept(ReorderBefore(launcher, drag.icon, closer), launcher, drag.icon)
  BY <1>1, <1>3, ReorderIs
<1> QED BY <1>2, <1>4

LEMMA EndDragWell ==
  ASSUME Well, DragInv, EndIconDrag
  PROVE  Well'
<1>1. Good(State) /\ drag.icon \in Icons
  BY DEF Well, DragInv, EndIconDrag, Drags
<1>2. Good(Stick(State, drag.icon, TRUE))
  BY <1>1, StickWell
<1>3. Update(State) \/ Update(Stick(State, drag.icon, TRUE))
  BY DEF EndIconDrag
<1> QED BY <1>1, <1>2, <1>3, UpdateWell

LEMMA DropWell ==
  ASSUME Well, DropOnTrash
  PROVE  Well'
<1>1. Good(State)
  BY DEF Well
<1>2. Good(UnStick(State, drag.icon)) /\ Update(UnStick(State, drag.icon))
  BY <1>1, UnStickWell DEF DropOnTrash
<1> QED BY <1>2, UpdateWell

LEMMA AddRequestWell ==
  ASSUME Well, NEW a \in Applications, NEW icon_before \in Icons, OnLauncherAddRequest(a, icon_before)
  PROVE  Well'
<1> DEFINE icon == GetIconByUri(launcher, a)
           s == [State EXCEPT !.l = ReorderAfter(@, icon, icon_before)]
           p == launcher.priority[icon_before]
<1>1. /\ Good(State) /\ State.l = launcher /\ Fit(launcher) /\ Ranked(launcher)
      /\ launcher.inner \in Seq(Icons) /\ launcher.priority \in [Icons -> Int]
  BY WellIs DEF Well, Fit, Launchers
<1>2. /\ HasRoom(launcher, a) /\ Contains(launcher.inner, icon_before)
      /\ \/ icon # NullIcon /\ Update(Stick(s, icon, TRUE))
         \/ Update(SaveIconsOrder(CreateFavoriteIcon(State, a, p)))
  BY DEF OnLauncherAddRequest
<1> HIDE DEF icon
<1>3. CASE icon # NullIcon /\ Update(Stick(s, icon, TRUE))
  <2>1. icon \in Icons
    BY <1>1, <1>3, GetIconByUriIs DEF icon
  <2>2. icon_before \in ToSet(launcher.inner)
    BY <1>1, <1>2, Elements
  <2>3. Shuffled(ReorderAfter(launcher, icon, icon_before), launcher)
    BY <1>1, <2>1, <2>2, ReorderIs
  <2>4. Good(s)
    BY <1>1, <2>3, OtherLauncher DEF Shuffled
  <2> HIDE DEF s
  <2> QED BY <1>3, <2>1, <2>4, StickWell, UpdateWell
<1>4. CASE Update(SaveIconsOrder(CreateFavoriteIcon(State, a, p)))
  <2>1. p \in Int
    BY <1>1
  <2> HIDE DEF p
  <2>2. Good(CreateFavoriteIcon(State, a, p))
    BY <1>1, <1>2, <2>1, CreateFavoriteIconIs
  <2>3. Good(SaveIconsOrder(CreateFavoriteIcon(State, a, p)))
    BY <2>2, SaveWell
  <2> QED BY <1>4, <2>3, UpdateWell
<1> QED BY <1>2, <1>3, <1>4

LEMMA StickyStateWell ==
  ASSUME Well, NEW a \in Applications, NEW sticky \in BOOLEAN, OnLauncherUpdateIconStickyState(a, sticky)
  PROVE  Well'
<1> DEFINE icon == GetIconByUri(launcher, a)
           p == GetLastIconPriority(launcher, TRUE)
<1>1. /\ Good(State) /\ State.l = launcher /\ Fit(launcher) /\ Ranked(launcher)
      /\ launcher.inner \in Seq(Icons)
  BY WellIs DEF Well, Fit, Launchers
<1>2. /\ HasRoom(launcher, a)
      /\ \/ Update(State)
         \/ icon # NullIcon /\ Update(Stick(State, icon, TRUE))
         \/ Update(UnStick(State, icon))
         \/ Update(SaveIconsOrder(CreateFavoriteIcon(State, a, p)))
         \/ Update(RemoveFavorite(State, a))
  <2> HIDE DEF icon, p
  <2> QED BY DEF OnLauncherUpdateIconStickyState, icon, p
<1>3. icon # NullIcon => icon \in Icons
  BY <1>1, GetIconByUriIs
<1>4. p \in Int
  BY <1>1, GetLastIconPriorityIs
<1> HIDE DEF icon, p
<1>5. icon # NullIcon => Good(Stick(State, icon, TRUE))
  BY <1>1, <1>3, StickWell
<1>6. Good(UnStick(State, icon)) /\ Good(RemoveFavorite(State, a))
  BY <1>1, UnStickWell, RemoveFavoriteWell
<1>7. Good(CreateFavoriteIcon(State, a, p))
  BY <1>1, <1>2, <1>4, CreateFavoriteIconIs
<1>8. Good(SaveIconsOrder(CreateFavoriteIcon(State, a, p)))
  BY <1>7, SaveWell
<1> QED BY <1>1, <1>2, <1>5, <1>6, <1>8, UpdateWell

LEMMA FavoriteAddedWell ==
  ASSUME Well, NEW a \in Applications, NEW n, FavoriteAdded(a, n)
  PROVE  LET s == [State EXCEPT !.f = InsertAt(@, n, a)]
         IN  /\ Well' /\ Good(s) /\ n \in 1..Len(s.f) /\ s.l = launcher /\ s.f = InsertAt(favorites, n, a)
             /\ s.f[n] = a /\ Update(OnFavoriteStoreFavoriteAdded(s, n)) /\ HasRoom(launcher, a)
<1> DEFINE g == InsertAt(favorites, n, a)
           s == [State EXCEPT !.f = g]
<1>1. Good(State) /\ State.l = launcher /\ State.f = favorites /\ favorites \in Seq(Uris)
  BY WellIs DEF Well
<1>2. /\ n \in 1..(Len(favorites) + 1) /\ HasRoom(launcher, a)
      /\ Update(OnFavoriteStoreFavoriteAdded([State EXCEPT !.f = InsertAt(@, n, a)], n))
  BY DEF FavoriteAdded
<1>3. [State EXCEPT !.f = InsertAt(@, n, a)] = s
  BY <1>1
<1>4. a \in Uris
  BY IconsAre
<1>5. g \in Seq(Uris) /\ Len(g) = Len(favorites) + 1 /\ g[n] = a
  BY <1>1, <1>2, <1>4, InsertIs
<1> HIDE DEF g
<1>6. Good(s) /\ s.l = launcher /\ s.f = g
  BY <1>1, <1>5, OtherFavorites
<1> HIDE DEF s
<1>7. n \in 1..Len(s.f) /\ s.f[n] = a /\ HasRoom(s.l, s.f[n]) /\ s.f[n] \in Applications
  BY <1>2, <1>5, <1>6
<1>8. Good(OnFavoriteStoreFavoriteAdded(s, n))
  BY <1>6, <1>7, OnFavoriteStoreFavoriteAddedIs
<1>9. Update(OnFavoriteStoreFavoriteAdded(s, n))
  BY <1>2, <1>3
<1>10. Well'
  BY <1>8, <1>9, UpdateWell
<1> QED BY <1>2, <1>3, <1>6, <1>7, <1>9, <1>10 DEF g

LEMMA FavoriteRemovedWell ==
  ASSUME Well, NEW a \in Applications, FavoriteRemoved(a)
  PROVE  Well'
<1> DEFINE s == RemoveFavorite(State, a)
           icon == GetIconByUri(launcher, a)
<1>1. Good(State)
  BY DEF Well
<1>2. Update(s) \/ Update(UnStick(s, icon))
  BY DEF FavoriteRemoved
<1>3. Good(s)
  BY <1>1, RemoveFavoriteWell
<1> HIDE DEF s, icon
<1>4. Good(UnStick(s, icon))
  BY <1>3, UnStickWell
<1> QED BY <1>2, <1>3, <1>4, UpdateWell

LEMMA RunningAppsRemovedWell ==
  ASSUME Well, RunningAppsRemoved
  PROVE  Well'
<1> DEFINE s == RemoveFavorite(State, RUNNING_APPS_URI)
<1>1. Good(State)
  BY DEF Well
<1>2. Update(SaveIconsOrder(ResetIconPriorities(s)))
  BY DEF RunningAppsRemoved
<1>3. Good(s)
  BY <1>1, RemoveFavoriteWell
<1> HIDE DEF s
<1>4. Good(SaveIconsOrder(ResetIconPriorities(s)))
  BY <1>3, ResetWell, SaveWell
<1> QED BY <1>2, <1>4, UpdateWell

LEMMA ReorderedWell ==
  ASSUME Well, NEW uri \in Uris, NEW n, Reordered(uri, n)
  PROVE  LET g == InsertAt(Without(favorites, uri), n, uri)
             s == [State EXCEPT !.f = g]
         IN  /\ Well' /\ Good(s) /\ s.l = launcher /\ s.f = g /\ Update(ResetIconPriorities(s))
             /\ IsInjective(favorites) /\ uri \in ToSet(favorites) => IsInjective(g) /\ ToSet(g) = ToSet(favorites)
<1> DEFINE w == Without(favorites, uri)
           g == InsertAt(w, n, uri)
           s == [State EXCEPT !.f = g]
<1>1. Good(State) /\ State.l = launcher /\ State.f = favorites /\ favorites \in Seq(Uris)
  BY WellIs DEF Well
<1>2. /\ n \in 1..(Len(w) + 1)
      /\ Update(ResetIconPriorities([State EXCEPT !.f = InsertAt(Without(@, uri), n, uri)]))
  BY DEF Reordered
<1>3. [State EXCEPT !.f = InsertAt(Without(@, uri), n, uri)] = s
  BY <1>1
<1>4. /\ w \in Seq(Uris) /\ ToSet(w) = ToSet(favorites) \cap (ToSet(favorites) \ {uri})
      /\ IsInjective(favorites) => IsInjective(w)
  <2>1. w = Only(favorites, ToSet(favorites) \ {uri})
    BY DEF Without
  <2> HIDE DEF w
  <2> QED BY <1>1, <2>1, OnlyIs
<1> HIDE DEF w
<1>5. g \in Seq(Uris)
  BY <1>2, <1>4, InsertIs
<1>6. IsInjective(favorites) /\ uri \in ToSet(favorites) => IsInjective(g) /\ ToSet(g) = ToSet(favorites)
  <2> HAVE IsInjective(favorites) /\ uri \in ToSet(favorites)
  <2>1. uri \notin ToSet(w) /\ IsInjective(w)
    BY <1>4
  <2>2. IsInjective(g) /\ ToSet(g) = ToSet(w) \cup {uri}
    BY <1>2, <1>4, <2>1, InsertOrder
  <2> QED BY <1>4, <2>2
<1> HIDE DEF g
<1>7. Good(s) /\ s.l = launcher /\ s.f = g
  BY <1>1, <1>5, OtherFavorites
<1> HIDE DEF s
<1>8. Good(ResetIconPriorities(s)) /\ Update(ResetIconPriorities(s))
  BY <1>2, <1>3, <1>7, ResetWell
<1>9. Well'
  BY <1>8, UpdateWell
<1> QED BY <1>6, <1>7, <1>8, <1>9 DEF g, s, w

LEMMA InitIs ==
  ASSUME Init
  PROVE  /\ Well /\ drag = NoDrag /\ IsInjective(favorites)
         /\ launcher.removed = {} /\ launcher.closing = {} /\ launcher.running = {}
         /\ launcher.stuck = ToSet(launcher.inner) /\ launcher.visible = ToSet(launcher.inner)
         /\ launcher.seen = launcher.sticky
         /\ launcher.sticky = ToSet(favorites) \ {RUNNING_APPS_URI}
         /\ \A a \in launcher.sticky : <<a, 1>> \in ToSet(launcher.inner)
         /\ \A i \in ToSet(launcher.inner) : i[1] \in launcher.sticky /\ i = <<i[1], 1>>
         /\ \A i, j : Before(launcher.inner, i, j) => Before(favorites, i[1], j[1])
<1> DEFINE f == favorites
           apps == Without(f, RUNNING_APPS_URI)
           icons == [k \in DOMAIN apps |-> <<apps[k], 1>>]
           p == [i \in Icons |-> IF Contains(icons, i) THEN Index(icons, i) - Len(icons) ELSE 0]
           g == [a \in Applications |-> <<a, 1>>]
<1>1. /\ f \in UNION {[1..n -> Uris] : n \in 1..Cardinality(Uris)} /\ IsInjective(f) /\ drag = NoDrag
      /\ launcher = [inner |-> icons, priority |-> p, given |-> Len(icons),
                     stuck |-> ToSet(icons), visible |-> ToSet(icons), removed |-> {}, closing |-> {},
                     running |-> {}, sticky |-> ToSet(apps), seen |-> ToSet(apps)]
  BY DEF Init
<1>2. f \in Seq(Uris)
  <2>1. PICK n \in 1..Cardinality(Uris) : f \in [1..n -> Uris]
    BY <1>1
  <2>2. IsFiniteSet(Uris)
    <3>1. Uris = Applications \cup {RUNNING_APPS_URI}
      BY DEF Uris
    <3> QED BY <3>1, FavoritesAssumption, FS_AddElement
  <2>3. Cardinality(Uris) \in Nat
    BY <2>2, FS_CardinalityType
  <2>4. n \in Nat
    BY <2>3
  <2> QED BY <2>1, <2>4, IsASequence
<1>3. /\ apps \in Seq(Uris) /\ ToSet(apps) = ToSet(f) \cap (ToSet(f) \ {RUNNING_APPS_URI}) /\ IsInjective(apps)
      /\ \A x, y : Before(apps, x, y) => Before(f, x, y)
  <2>1. apps = Only(f, ToSet(f) \ {RUNNING_APPS_URI})
    BY DEF Without
  <2> HIDE DEF apps, f
  <2>2. IsInjective(f)
    BY <1>1 DEF f
  <2> QED BY <1>2, <2>1, <2>2, OnlyIs
<1> HIDE DEF apps, f
<1>4. ToSet(apps) = ToSet(f) \ {RUNNING_APPS_URI} /\ ToSet(apps) \subseteq Applications
  <2>1. ToSet(f) \subseteq Uris
    BY <1>2, Elements
  <2> QED BY <1>3, <2>1, IconsAre
<1>5. apps \in Seq(Applications)
  BY <1>3, <1>4, SeqOver
<1>6. g \in [Applications -> Icons]
  BY DEF Icons
<1>7. icons = Mapped(apps, g)
  <2>1. \A k \in DOMAIN apps : apps[k] \in Applications
    <3>1. DOMAIN apps = 1..Len(apps)
      BY <1>5
    <3> QED BY <1>5, <3>1, Elements
  <2> QED BY <2>1 DEF Mapped
<1>8. \A a \in Applications : g[a] = <<a, 1>> /\ g[a][1] = a
  OBVIOUS
<1> HIDE DEF g, icons, p
<1>9. /\ icons \in Seq(Icons) /\ Len(icons) = Len(apps) /\ (\A k \in 1..Len(apps) : icons[k] = g[apps[k]])
      /\ ToSet(icons) = Image(ToSet(apps), g) /\ IsInjective(icons)
  <2>1. \A x, y \in ToSet(apps) : g[x] = g[y] => x = y
    BY <1>4, <1>8
  <2> DEFINE c == Mapped(apps, g)
  <2>2. apps \in Seq(Applications) /\ IsInjective(apps) /\ g \in [Applications -> Icons]
    BY <1>3, <1>5, <1>6
  <2>3. /\ c \in Seq(Icons) /\ Len(c) = Len(apps) /\ ToSet(c) = Image(ToSet(apps), g)
        /\ \A k \in 1..Len(apps) : c[k] = g[apps[k]]
    BY <2>2, MapIs
  <2>4. c \in Seq(Icons) /\ IsInjective(c)
    BY <2>1, <2>2, MapIs
  <2> HIDE DEF c
  <2>5. c = icons
    BY <1>7 DEF c
  <2> QED BY <2>3, <2>4, <2>5
<1>10. /\ \A a \in ToSet(apps) : <<a, 1>> \in ToSet(icons)
       /\ \A i \in ToSet(icons) : i[1] \in ToSet(apps) /\ i = <<i[1], 1>>
  <2>1. \A i : i \in ToSet(icons) <=> \E a \in ToSet(apps) : i = g[a]
    BY <1>9 DEF Image
  <2> HIDE DEF apps, icons
  <2>2. \A a \in ToSet(apps) : g[a] = <<a, 1>> /\ g[a][1] = a
    BY <1>4, <1>8
  <2> QED BY <2>1, <2>2
<1>11. ASSUME NEW x, NEW y, Before(icons, x, y) PROVE Before(f, x[1], y[1])
  <2>1. PICK i, j \in 1..Len(icons) : i < j /\ icons[i] = x /\ icons[j] = y
    BY <1>11 DEF Before
  <2>2. i \in 1..Len(apps) /\ j \in 1..Len(apps) /\ apps[i] \in Applications /\ apps[j] \in Applications
    BY <1>5, <1>9, <2>1, Elements
  <2>3. x[1] = apps[i] /\ y[1] = apps[j]
    BY <1>8, <1>9, <2>1, <2>2
  <2>4. Before(apps, apps[i], apps[j])
    BY <2>1, <2>2 DEF Before
  <2> QED BY <1>3, <2>3, <2>4
<1>12. p \in [Icons -> Int] /\ \A x \in ToSet(icons) : p[x] = Index(icons, x) - Len(icons)
  <2>1. Len(icons) \in Nat /\ \A i : Index(icons, i) \in 0..Len(icons)
    BY <1>9, IndexType
  <2>2. \A i : Index(icons, i) - Len(icons) \in Int
    <3>1. \A n \in Nat : \A k \in 0..n : k - n \in Int
      OBVIOUS
    <3> QED BY <2>1, <3>1
  <2>3. \A i \in ToSet(icons) : i \in Icons /\ Contains(icons, i)
    BY <1>9, Elements
  <2> QED BY <2>2, <2>3 DEF p
<1>13. launcher \in Launchers
  <2>1. ToSet(icons) \subseteq Icons /\ Len(icons) \in Nat
    BY <1>9, Elements
  <2> QED BY <1>1, <1>4, <1>9, <1>12, <2>1 DEF Launchers
<1>14. Fit(launcher)
  BY <1>1, <1>9, <1>13 DEF Fit
<1>15. Ranked(launcher)
  <2> SUFFICES ASSUME NEW x, NEW y, Before(icons, x, y) PROVE p[x] <= p[y]
    BY <1>1 DEF Ranked
  <2>1. x \in ToSet(icons) /\ y \in ToSet(icons)
    BY <1>9, BeforeIs
  <2>2. Index(icons, x) < Index(icons, y)
    BY <1>9, <2>1, IndexIs
  <2>3. Index(icons, x) \in 0..Len(icons) /\ Index(icons, y) \in 0..Len(icons) /\ Len(icons) \in Nat
    BY <1>9, IndexType
  <2>4. \A n \in Nat : \A j, k \in 0..n : j < k => j - n <= k - n
    OBVIOUS
  <2>5. Index(icons, x) - Len(icons) <= Index(icons, y) - Len(icons)
    BY <2>2, <2>3, <2>4
  <2> QED BY <1>12, <2>1, <2>5
<1>16. Well
  BY <1>2, <1>14, <1>15, WellIs DEF f
<1> QED BY <1>1, <1>4, <1>10, <1>11, <1>16 DEF f

LEMMA DragStays ==
  ASSUME DragInv, UNCHANGED drag
  PROVE  DragInv'
BY DEF DragInv, NoDrag, Drags, Icons, NullIcon, GoneIcon, Leads, Before

LEMMA StartIconDragIs ==
  ASSUME Well, NEW icon \in Icons, StartIconDrag(icon)
  PROVE  /\ DragInv' /\ drag' # NoDrag /\ drag'.icon = icon /\ drag'.inner = launcher.inner
         /\ drag'.closer.icon # GoneIcon /\ icon \in ToSet(launcher.inner) /\ UNCHANGED <<launcher, favorites>>
<1> DEFINE c == GetClosestIcon(launcher, icon)
           at == Index(launcher.inner, icon)
           d == [icon |-> icon, position |-> at, closer |-> c, inner |-> launcher.inner]
<1>1. launcher.inner \in Seq(Icons) /\ IsInjective(launcher.inner)
  BY WellIs DEF Fit, Launchers
<1>2. drag' = d /\ Contains(launcher.inner, icon) /\ UNCHANGED <<launcher, favorites>>
  BY DEF StartIconDrag, Live
<1>3. icon \in ToSet(launcher.inner)
  BY <1>1, <1>2, Elements
<1>4. c \in [icon : Icons \cup {NullIcon}, is_before : BOOLEAN] /\ Leads(launcher.inner, icon, c)
  BY <1>1, <1>3, GetClosestIconIs
<1>5. at \in Nat
  <2>1. at \in 1..Len(launcher.inner)
    BY <1>1, <1>3, IndexType
  <2> QED BY <2>1
<1> HIDE DEF c, at
<1>6. /\ d \in Drags /\ d.inner = launcher.inner /\ d.icon = icon /\ d.position = at /\ d.closer = c
  <2>1. c \in [icon : Icons \cup {NullIcon, GoneIcon}, is_before : BOOLEAN]
    BY <1>4
  <2> QED BY <1>1, <1>5, <2>1 DEF Drags
<1>7. c.icon # GoneIcon
  <2>1. c.icon \in Icons \cup {NullIcon}
    BY <1>4
  <2> QED BY <2>1, IconsAre DEF NullIcon, GoneIcon
<1>8. d # NoDrag
  BY <1>6, IconsAre DEF NoDrag
<1> HIDE DEF d
<1>9. /\ drag' \in Drags /\ IsInjective(drag'.inner) /\ drag'.icon \in ToSet(drag'.inner)
      /\ drag'.position = Index(drag'.inner, drag'.icon) /\ Leads(drag'.inner, drag'.icon, drag'.closer)
  BY <1>1, <1>2, <1>3, <1>4, <1>6 DEF at
<1>10. DragInv'
  BY <1>9 DEF DragInv, Drags, Icons, NullIcon, GoneIcon, Leads, Before, NoDrag
<1> QED BY <1>2, <1>3, <1>6, <1>7, <1>8, <1>10

LEMMA RemoveTimeoutDrag ==
  ASSUME DragInv, NEW icon \in Icons, RemoveTimeout(icon)
  PROVE  /\ DragInv' /\ (drag = NoDrag => drag' = NoDrag)
         /\ drag # NoDrag => /\ drag' # NoDrag /\ drag'.icon = drag.icon /\ drag'.inner = drag.inner
                             /\ drag'.position = drag.position
                             /\ drag.closer.icon = icon => drag'.closer.icon = GoneIcon
                             /\ drag.closer.icon # icon => drag'.closer = drag.closer
<1>1. drag' = IF drag # NoDrag /\ drag.closer.icon = icon THEN [drag EXCEPT !.closer.icon = GoneIcon] ELSE drag
  BY DEF RemoveTimeout
<1>2. CASE drag # NoDrag /\ drag.closer.icon = icon
  <2> DEFINE d == [drag EXCEPT !.closer.icon = GoneIcon]
  <2>1. drag' = d /\ drag \in Drags
    BY <1>1, <1>2 DEF DragInv
  <2>2. /\ d \in Drags /\ d.icon = drag.icon /\ d.inner = drag.inner /\ d.position = drag.position
        /\ d.closer.icon = GoneIcon
    BY <2>1 DEF Drags
  <2>3. d # NoDrag
    BY <2>2, IconsAre DEF Drags, NoDrag
  <2> HIDE DEF d
  <2>4. /\ drag' \in Drags /\ IsInjective(drag'.inner) /\ drag'.icon \in ToSet(drag'.inner)
        /\ drag'.position = Index(drag'.inner, drag'.icon) /\ drag'.closer.icon = GoneIcon
    BY <1>2, <2>1, <2>2 DEF DragInv
  <2>5. DragInv'
    BY <2>4 DEF DragInv, Drags, Icons, NullIcon, GoneIcon, Leads, Before, NoDrag
  <2> QED BY <1>2, <2>1, <2>2, <2>3, <2>5
<1>3. CASE ~(drag # NoDrag /\ drag.closer.icon = icon)
  BY <1>1, <1>3, DragStays
<1> QED BY <1>2, <1>3

LEMMA DragOver ==
  ASSUME drag' = NoDrag
  PROVE  DragInv'
BY DEF DragInv, NoDrag

LEMMA OrderedInit == Init => OrderedInv
BY InitIs DEF OrderedInv, DragInv

LEMMA OrderedStep == OrderedInv /\ [Next]_vars => OrderedInv'
<1> SUFFICES ASSUME OrderedInv, [Next]_vars PROVE OrderedInv'
  OBVIOUS
<1>0. Well /\ DragInv
  BY DEF OrderedInv
<1>1. ASSUME NEW a \in Applications, ApplicationStarts(a) PROVE Well' /\ DragInv'
  BY <1>0, <1>1, StartsWell, DragStays DEF ApplicationStarts
<1>2. ASSUME NEW a \in Applications, ApplicationCloses(a) PROVE Well' /\ DragInv'
  BY <1>0, <1>2, ClosesWell, DragStays DEF ApplicationCloses
<1>3. ASSUME NEW a \in Applications, FavoriteRemoved(a) PROVE Well' /\ DragInv'
  BY <1>0, <1>3, FavoriteRemovedWell, DragStays DEF FavoriteRemoved
<1>4. ASSUME NEW a \in Applications, NEW icon \in Icons, OnLauncherAddRequest(a, icon) PROVE Well' /\ DragInv'
  BY <1>0, <1>4, AddRequestWell, DragStays DEF OnLauncherAddRequest
<1>5. ASSUME NEW a \in Applications, NEW sticky \in BOOLEAN, OnLauncherUpdateIconStickyState(a, sticky)
      PROVE  Well' /\ DragInv'
  BY <1>0, <1>5, StickyStateWell, DragStays DEF OnLauncherUpdateIconStickyState
<1>6. ASSUME NEW a \in Applications, NEW n, FavoriteAdded(a, n) PROVE Well' /\ DragInv'
  BY <1>0, <1>6, FavoriteAddedWell, DragStays DEF FavoriteAdded
<1>7. ASSUME NEW icon \in Icons, CloseTimeout(icon) PROVE Well' /\ DragInv'
  BY <1>0, <1>7, CloseTimeoutWell, DragStays DEF CloseTimeout
<1>8. ASSUME NEW icon \in Icons, RemoveTimeout(icon) PROVE Well' /\ DragInv'
  BY <1>0, <1>8, RemoveTimeoutWell, RemoveTimeoutDrag
<1>9. ASSUME NEW icon \in Icons, ToggleSticky(icon) PROVE Well' /\ DragInv'
  BY <1>0, <1>9, ToggleWell, DragStays DEF ToggleSticky
<1>10. ASSUME NEW icon \in Icons, StartIconDrag(icon) PROVE Well' /\ DragInv'
  <2>1. UNCHANGED <<launcher, favorites>> /\ DragInv'
    BY <1>0, <1>10, StartIconDragIs
  <2>2. Fit(launcher') /\ Ranked(launcher') /\ (favorites \in Seq(Uris))'
    BY <1>0, <2>1, WellIs DEF Uris
  <2> QED BY <2>1, <2>2, WellNext
<1>11. ASSUME NEW icon \in Icons, UpdateDragWindowPosition(icon) PROVE Well' /\ DragInv'
  <2>1. Shuffled(launcher', launcher) /\ OthersKept(launcher', launcher, drag.icon)
    BY <1>0, <1>11, UpdateDragMoves
  <2>2. UNCHANGED <<favorites, drag>>
    BY <1>11 DEF UpdateDragWindowPosition
  <2> QED BY <1>0, <2>1, <2>2, MovedWell, DragStays
<1>12. CASE EndIconDrag
  <2>1. drag' = NoDrag
    BY <1>12 DEF EndIconDrag
  <2>2. Well'
    BY <1>0, <1>12, EndDragWell
  <2> QED BY <2>1, <2>2, DragOver DEF OrderedInv
<1>13. CASE DropOnTrash
  <2>1. drag' = NoDrag
    BY <1>13 DEF DropOnTrash
  <2>2. Well'
    BY <1>0, <1>13, DropWell
  <2> QED BY <2>1, <2>2, DragOver DEF OrderedInv
<1>14. CASE DragCancel
  <2>1. Shuffled(launcher', launcher) /\ OthersKept(launcher', launcher, drag.icon)
    BY <1>0, <1>14, DragCancelMoves
  <2>2. UNCHANGED favorites /\ drag' = NoDrag
    BY <1>14 DEF DragCancel
  <2> QED BY <1>0, <2>1, <2>2, MovedWell, DragOver DEF OrderedInv
<1>15. CASE RunningAppsRemoved
  BY <1>0, <1>15, RunningAppsRemovedWell, DragStays DEF RunningAppsRemoved, OrderedInv
<1>16. ASSUME NEW uri \in Uris, NEW n, Reordered(uri, n) PROVE Well' /\ DragInv'
  BY <1>0, <1>16, ReorderedWell, DragStays DEF Reordered
<1>17. CASE UNCHANGED vars
  <2>1. UNCHANGED <<launcher, favorites, drag>>
    BY <1>17 DEF vars
  <2>2. Fit(launcher') /\ Ranked(launcher') /\ (favorites \in Seq(Uris))'
    BY <1>0, <2>1, WellIs DEF Uris
  <2> QED BY <1>0, <2>1, <2>2, WellNext, DragStays DEF OrderedInv
<1>18. CASE Next
  BY <1>1, <1>2, <1>3, <1>4, <1>5, <1>6, <1>7, <1>8, <1>9, <1>10, <1>11, <1>12, <1>13, <1>14, <1>15, <1>16, <1>18
  DEF Next, OrderedInv
<1> QED BY <1>17, <1>18 DEF OrderedInv

LEMMA Ordered == Spec => []OrderedInv
BY OrderedInit, OrderedStep, PTL DEF Spec

\* launcher/LauncherModel.cpp, AddIcon and the stores: the icons of the model are a list
\* without repetitions, the favorites are a list, and what a drag remembers is an icon.
THEOREM TypeCorrect == Spec => []TypeOK
<1>1. OrderedInv => TypeOK
  <2> SUFFICES ASSUME OrderedInv PROVE TypeOK
    OBVIOUS
  <2>1. launcher \in Launchers /\ IsInjective(launcher.inner) /\ favorites \in Seq(Uris)
    BY WellIs DEF OrderedInv, Fit
  <2>2. drag.icon \in Icons \cup {NullIcon}
    BY DEF OrderedInv, DragInv, Drags, NoDrag
  <2> QED BY <2>1, <2>2 DEF TypeOK, Launchers
<1> QED BY <1>1, Ordered, PTL

\* Without one, the rest is the same in the same order
LEMMA WithoutSame ==
  ASSUME NEW s \in Seq(Icons), NEW t \in Seq(Icons), IsInjective(s), IsInjective(t), ToSet(s) = ToSet(t), NEW x,
         \A y, z \in ToSet(s) \ {x} : Before(s, y, z) => Before(t, y, z)
  PROVE  Without(s, x) = Without(t, x)
<1> DEFINE v == Without(s, x)
           w == Without(t, x)
<1>1. /\ v \in Seq(Icons) /\ ToSet(v) = ToSet(s) \cap (ToSet(s) \ {x}) /\ IsInjective(v)
      /\ \A y, z : Before(v, y, z) <=> y \in ToSet(s) \ {x} /\ z \in ToSet(s) \ {x} /\ Before(s, y, z)
  <2>1. v = Only(s, ToSet(s) \ {x})
    BY DEF Without
  <2> HIDE DEF v
  <2> QED BY <2>1, OnlyIs
<1>2. /\ w \in Seq(Icons) /\ ToSet(w) = ToSet(t) \cap (ToSet(t) \ {x}) /\ IsInjective(w)
      /\ \A y, z : Before(w, y, z) <=> y \in ToSet(t) \ {x} /\ z \in ToSet(t) \ {x} /\ Before(t, y, z)
  <2>1. w = Only(t, ToSet(t) \ {x})
    BY DEF Without
  <2> HIDE DEF w
  <2> QED BY <2>1, OnlyIs
<1> HIDE DEF v, w
<1>3. ToSet(v) = ToSet(w) /\ \A y, z : Before(v, y, z) => Before(w, y, z)
  BY <1>1, <1>2
<1>4. v = w
  BY <1>1, <1>2, <1>3, SameOrder
<1> QED BY <1>4 DEF v, w

\* What Without has lost
LEMMA WithoutIs ==
  ASSUME NEW s \in Seq(Icons), IsInjective(s), NEW x
  PROVE  /\ ToSet(Without(s, x)) = ToSet(s) \ {x}
         /\ \A y, z \in ToSet(s) \ {x} : Before(Without(s, x), y, z) <=> Before(s, y, z)
<1> DEFINE v == Without(s, x)
<1>1. /\ v \in Seq(Icons) /\ ToSet(v) = ToSet(s) \cap (ToSet(s) \ {x})
      /\ \A y, z : Before(v, y, z) <=> y \in ToSet(s) \ {x} /\ z \in ToSet(s) \ {x} /\ Before(s, y, z)
  <2>1. v = Only(s, ToSet(s) \ {x})
    BY DEF Without
  <2> HIDE DEF v
  <2> QED BY <2>1, OnlyIs
<1> HIDE DEF v
<1>2. ToSet(v) = ToSet(s) \ {x} /\ \A y, z \in ToSet(s) \ {x} : Before(v, y, z) <=> Before(s, y, z)
  BY <1>1
<1> QED BY <1>2 DEF v

\* launcher/LauncherModel.cpp, ReorderSmart: in whatever state, with whatever icons that
\* come and go, an icon that is dragged over another one ends up right beside it, on the
\* side away from where it came from, and the others stay in order.
THEOREM SmartPassesHolds == Spec => []SmartPasses
<1>1. OrderedInv => SmartPasses
  <2> SUFFICES ASSUME OrderedInv, NEW i \in ToSet(launcher.inner), NEW o \in ToSet(launcher.inner), i # o
               PROVE  LET after == ReorderSmart(launcher, i, o).inner
                          from  == Index(launcher.inner, i)
                          to    == Index(launcher.inner, o)
                      IN  /\ Without(after, i) = Without(launcher.inner, i)
                          /\ Index(after, i) = Index(after, o) + (IF from < to THEN 1 ELSE -1)
    BY DEF SmartPasses
  <2> DEFINE q == launcher.inner
             m == ReorderSmart(launcher, i, o)
             after == m.inner
  <2>1. Fit(launcher) /\ Ranked(launcher) /\ q \in Seq(Icons) /\ IsInjective(q)
    BY WellIs DEF OrderedInv, Fit, Launchers
  <2>2. i \in Icons /\ o \in Icons
    BY <2>1, Elements
  <2>3. /\ Shuffled(m, launcher) /\ OthersKept(m, launcher, i)
        /\ Before(q, i, o) => \A x \in ToSet(q) \ {i} : Before(after, x, i) <=> x = o \/ Before(q, x, o)
        /\ Before(q, o, i) => \A x \in ToSet(q) \ {i} : Before(after, x, i) <=> Before(q, x, o)
    BY <2>1, ReorderSmartIs
  <2> HIDE DEF m
  <2>4. after \in Seq(Icons) /\ IsInjective(after) /\ ToSet(after) = ToSet(q)
    BY <2>3 DEF Shuffled, Fit, Launchers
  <2>5. \A x, y \in ToSet(q) \ {i} : Before(after, x, y) <=> Before(q, x, y)
    BY <2>3 DEF OthersKept
  <2> HIDE DEF after
  <2>6. Without(after, i) = Without(q, i)
    BY <2>1, <2>4, <2>5, WithoutSame
  <2>7. /\ \A x, y : Before(after, x, y) => x \in ToSet(q) /\ y \in ToSet(q) /\ x # y /\ ~Before(after, y, x)
        /\ \A x, y \in ToSet(q) : x # y => Before(after, x, y) \/ Before(after, y, x)
    BY <2>4, BeforeIs
  <2>8. \A x, y : Before(q, x, y) => x # y /\ ~Before(q, y, x)
    BY <2>1, BeforeIs
  <2>9. Index(q, i) < Index(q, o) <=> Before(q, i, o)
    BY <2>1, IndexIs
  <2>10. Index(after, i) \in Nat /\ Index(after, o) \in Nat
    <3>1. Index(after, i) \in 0..Len(after) /\ Index(after, o) \in 0..Len(after)
      BY <2>4, IndexType
    <3> QED BY <3>1
  <2>11. CASE Before(q, i, o)
    <3>1. Before(after, o, i)
      BY <2>3, <2>11
    <3>2. ASSUME NEW z, Before(after, o, z), Before(after, z, i) PROVE FALSE
      <4>1. z \in ToSet(q) \ {i} /\ z # o
        BY <2>7, <3>2
      <4>2. Before(q, z, o)
        BY <2>3, <2>11, <3>2, <4>1
      <4>3. Before(q, o, z)
        BY <2>5, <3>2, <4>1
      <4> QED BY <2>8, <4>2, <4>3
    <3>3. Index(after, i) = Index(after, o) + 1
      BY <2>4, <3>1, <3>2, Adjacent
    <3> QED BY <2>6, <2>9, <2>11, <3>3 DEF after, m, q
  <2>12. CASE Before(q, o, i)
    <3>1. Before(after, i, o)
      <4>1. ~Before(q, o, o)
        BY <2>8
      <4>2. ~Before(after, o, i)
        BY <2>3, <2>12, <4>1
      <4> QED BY <2>7, <4>2
    <3>2. ASSUME NEW z, Before(after, i, z), Before(after, z, o) PROVE FALSE
      <4>1. z \in ToSet(q) \ {i}
        BY <2>7, <3>2
      <4>2. Before(q, z, o)
        BY <2>5, <3>2, <4>1
      <4>3. Before(after, z, i)
        BY <2>3, <2>12, <4>1, <4>2
      <4> QED BY <2>7, <3>2, <4>3
    <3>3. Index(after, o) = Index(after, i) + 1
      BY <2>4, <3>1, <3>2, Adjacent
    <3>4. Index(after, i) = Index(after, o) + (-1)
      BY <2>10, <3>3
    <3>5. ~Before(q, i, o)
      BY <2>8, <2>12
    <3> QED BY <2>6, <2>9, <3>4, <3>5 DEF after, m, q
  <2> QED BY <2>1, <2>11, <2>12, BeforeIs
<1> QED BY <1>1, Ordered, PTL

\* launcher/Launcher.cpp:2243, drag_cancel_request: Escape brings the icons back into the
\* order in which the drag began, from wherever the icon has been dragged to, if the others
\* stayed as they were.
THEOREM CancelRestoresHolds == Spec => CancelRestores
<1> DEFINE Restores == DragCancel /\ Without(drag.inner, drag.icon) = Without(launcher.inner, drag.icon)
                         => launcher'.inner = drag.inner
<1>1. OrderedInv /\ [Next]_vars => [Restores]_vars
  <2> SUFFICES ASSUME OrderedInv, DragCancel,
                      Without(drag.inner, drag.icon) = Without(launcher.inner, drag.icon)
               PROVE  launcher'.inner = drag.inner
    OBVIOUS
  <2> DEFINE q == drag.inner
             d == drag.icon
             c == drag.closer.icon
             now == launcher.inner
             t == launcher'.inner
  <2>1. /\ Well /\ Fit(launcher) /\ Ranked(launcher) /\ now \in Seq(Icons) /\ IsInjective(now)
    BY WellIs DEF OrderedInv, Fit, Launchers
  <2>2. /\ drag # NoDrag /\ Contains(now, d) /\ (c = NullIcon \/ Contains(now, c))
        /\ launcher' = IF drag.closer.is_before THEN ReorderAfter(launcher, d, c)
                       ELSE ReorderBefore(launcher, d, c)
    BY DEF DragCancel
  <2>3. d \in ToSet(now) /\ d \in Icons /\ (c = NullIcon \/ c \in ToSet(now))
    BY <2>1, <2>2, Elements
  <2>4. /\ q \in Seq(Icons) /\ IsInjective(q) /\ d \in ToSet(q)
        /\ c = GoneIcon \/ Leads(q, d, drag.closer)
    BY <2>2 DEF OrderedInv, DragInv, Drags
  <2>5. c # GoneIcon
    <3>1. ToSet(now) \subseteq Icons
      BY <2>1, Elements
    <3> QED BY <2>3, <3>1, IconsAre DEF NullIcon, GoneIcon
  <2>6. Shuffled(launcher', launcher) /\ OthersKept(launcher', launcher, d)
    BY <2>1, DragCancelMoves
  <2>7. t \in Seq(Icons) /\ IsInjective(t) /\ ToSet(t) = ToSet(now)
    BY <2>6 DEF Shuffled, Fit, Launchers
  <2>8. \A x, y \in ToSet(now) \ {d} : Before(t, x, y) <=> Before(now, x, y)
    BY <2>6 DEF OthersKept
  <2>9. ToSet(q) \ {d} = ToSet(now) \ {d} /\ \A x, y \in ToSet(q) \ {d} : Before(q, x, y) <=> Before(now, x, y)
    <3>1. /\ ToSet(Without(q, d)) = ToSet(q) \ {d} /\ ToSet(Without(now, d)) = ToSet(now) \ {d}
          /\ \A x, y \in ToSet(q) \ {d} : Before(Without(q, d), x, y) <=> Before(q, x, y)
          /\ \A x, y \in ToSet(now) \ {d} : Before(Without(now, d), x, y) <=> Before(now, x, y)
      BY <2>1, <2>4, WithoutIs
    <3> QED BY <3>1
  <2>10. ToSet(q) = ToSet(now)
    <3>1. \A S, T : d \in S /\ d \in T /\ S \ {d} = T \ {d} => S = T
      OBVIOUS
    <3> HIDE DEF q, d, now
    <3> QED BY <2>3, <2>4, <2>9, <3>1
  <2>11. /\ \A x, y : Before(q, x, y) => x \in ToSet(q) /\ y \in ToSet(q) /\ x # y /\ ~Before(q, y, x)
         /\ \A x, y \in ToSet(q) : x # y => Before(q, x, y) \/ Before(q, y, x)
    BY <2>4, BeforeIs
  <2>12. /\ \A x, y : Before(t, x, y) => x # y /\ ~Before(t, y, x)
         /\ \A x, y \in ToSet(t) : x # y => Before(t, x, y) \/ Before(t, y, x)
         /\ \A x, y, z : Before(t, x, y) /\ Before(t, y, z) => Before(t, x, z)
    <3> HIDE DEF t
    <3> QED BY <2>7, BeforeIs
  <2>13. launcher' = IF drag.closer.is_before THEN ReorderAfter(launcher, d, c) ELSE ReorderBefore(launcher, d, c)
    BY <2>2
  <2> HIDE DEF q, d, c, now, t
  <2>14. \A x \in ToSet(q) \ {d} : Before(q, x, d) <=> Before(t, x, d)
    <3>1. CASE c = NullIcon /\ ToSet(q) = {d}
      BY <3>1
    <3>2. CASE c \in ToSet(q) \ {d} /\ drag.closer.is_before /\ \A x : Before(q, x, d) <=> x = c \/ Before(q, x, c)
      <4>1. launcher' = ReorderAfter(launcher, d, c)
        BY <2>13, <3>2
      <4>2. c \in ToSet(launcher.inner) /\ d \in ToSet(launcher.inner) /\ d # c
        BY <2>3, <2>10, <3>2 DEF now
      <4>3. \A x \in ToSet(launcher.inner) \ {d} :
              Before(launcher'.inner, x, d) <=> x = c \/ Before(launcher.inner, x, c)
        BY <2>1, <2>3, <4>1, <4>2, ReorderAfterIs
      <4>4. \A x \in ToSet(now) \ {d} : Before(t, x, d) <=> x = c \/ Before(now, x, c)
        BY <4>3 DEF t, now
      <4> QED BY <2>9, <2>10, <3>2, <4>4
    <3>3. CASE /\ c \in ToSet(q) \ {d} /\ ~drag.closer.is_before
               /\ \A x \in ToSet(q) \ {d} : Before(q, d, x) /\ (x = c \/ Before(q, c, x))
      <4>1. launcher' = ReorderBefore(launcher, d, c)
        BY <2>13, <3>3
      <4>2. c \in ToSet(launcher.inner) /\ d \in ToSet(launcher.inner) /\ d # c
        BY <2>3, <2>10, <3>3 DEF now
      <4>3. Before(launcher'.inner, d, c)
        BY <2>1, <2>3, <4>1, <4>2, ReorderBeforeIs
      <4>4. Before(t, d, c)
        BY <4>3 DEF t
      <4>5. ASSUME NEW x \in ToSet(q) \ {d} PROVE ~Before(q, x, d) /\ ~Before(t, x, d)
        <5>1. Before(q, d, x) /\ (x = c \/ Before(q, c, x))
          BY <3>3
        <5>2. x = c \/ Before(t, c, x)
          BY <2>8, <2>9, <2>10, <3>3, <5>1
        <5>3. Before(t, d, x)
          BY <2>12, <4>4, <5>2
        <5> QED BY <2>11, <2>12, <5>1, <5>3
      <4> QED BY <4>5
    <3>4. Leads(q, d, drag.closer)
      BY <2>4, <2>5
    <3> QED BY <3>1, <3>2, <3>3, <3>4 DEF Leads, c
  <2>15. ASSUME NEW x, NEW y, Before(q, x, y) PROVE Before(t, x, y)
    <3>1. x \in ToSet(q) /\ y \in ToSet(q) /\ x # y /\ ~Before(q, y, x)
      BY <2>11, <2>15
    <3>2. CASE x # d /\ y # d
      BY <2>8, <2>9, <2>10, <2>15, <3>1, <3>2
    <3>3. CASE y = d
      BY <2>14, <2>15, <3>1, <3>3
    <3>4. CASE x = d
      BY <2>7, <2>10, <2>12, <2>14, <3>1, <3>4
    <3> QED BY <3>2, <3>3, <3>4
  <2>16. q = t
    BY <2>4, <2>7, <2>10, <2>15, SameOrder
  <2> QED BY <2>16 DEF q, t
<1>2. Spec => [][Restores]_vars
  BY <1>1, Ordered, PTL DEF Spec
<1> QED BY <1>2 DEF CancelRestores

-----------------------------------------------------------------------------
(* The life of the icons, without races *)

Alive(l) ==
  /\ l.closing \cup l.removed \cup l.stuck \cup l.visible \subseteq ToSet(l.inner)
  /\ l.closing \cap l.removed = {} /\ l.removed \cap l.visible = {}
  /\ \A i, j \in ToSet(l.inner) \ l.removed : i[1] = j[1] => i = j
  /\ \A a \in Applications : a \in l.seen <=> \E i \in ToSet(l.inner) \ l.removed : i[1] = a
  /\ \A a \in l.sticky : \E i \in l.stuck \cap l.visible : i[1] = a
  /\ \A i \in l.closing \cup l.removed : i[1] \notin l.sticky
  /\ \A i \in l.stuck : i[1] \in l.sticky
  /\ \A a \in l.running : \E i \in l.visible \ l.closing : i[1] = a

\* The favorites are the applications that are sticky
Known(s) == IsInjective(s.f) /\ \A a \in Applications : a \in s.l.sticky <=> a \in ToSet(s.f)

\* No icon of the application is on its way out
Steady(l, a) == \A i \in l.closing \cup l.removed : i[1] # a

LifeInv ==
  /\ Alive(launcher) /\ Known(State)
  /\ drag # NoDrag => drag.icon \in ToSet(launcher.inner) /\ Steady(launcher, drag.icon[1])

LEMMA ShuffledAlive ==
  ASSUME NEW l, NEW t, Alive(l), Shuffled(t, l)
  PROVE  Alive(t)
BY DEF Shuffled, Same, Alive

LEMMA HeldAlive ==
  ASSUME NEW l, NEW t, NEW icon \in ToSet(l.inner), Alive(l), Steady(l, icon[1]), Held(t, l, icon)
  PROVE  Alive(t)
<1>1. /\ ToSet(t.inner) = ToSet(l.inner)
      /\ t.removed = l.removed /\ t.closing = l.closing /\ t.running = l.running /\ t.seen = l.seen
      /\ t.stuck = l.stuck \cup {icon} /\ t.sticky = l.sticky \cup {icon[1]}
      /\ t.visible = l.visible \cup {icon}
  BY DEF Held
<1>2. icon \notin l.closing /\ icon \notin l.removed
  BY DEF Steady
<1>3. /\ t.closing \cup t.removed \cup t.stuck \cup t.visible \subseteq ToSet(t.inner)
      /\ t.closing \cap t.removed = {} /\ t.removed \cap t.visible = {}
  BY <1>1, <1>2 DEF Alive
<1>4. /\ \A i, j \in ToSet(t.inner) \ t.removed : i[1] = j[1] => i = j
      /\ \A a \in Applications : a \in t.seen <=> \E i \in ToSet(t.inner) \ t.removed : i[1] = a
  BY <1>1 DEF Alive
<1>5. \A a \in t.sticky : \E i \in t.stuck \cap t.visible : i[1] = a
  BY <1>1 DEF Alive
<1>6. /\ \A i \in t.closing \cup t.removed : i[1] \notin t.sticky
      /\ \A i \in t.stuck : i[1] \in t.sticky
  BY <1>1 DEF Alive, Steady
<1>7. \A a \in t.running : \E i \in t.visible \ t.closing : i[1] = a
  BY <1>1 DEF Alive
<1> QED BY <1>3, <1>4, <1>5, <1>6, <1>7 DEF Alive

LEMMA CreatedAlive ==
  ASSUME NEW l, NEW t, NEW icon \in Icons, icon \notin ToSet(l.inner), icon[1] \notin l.seen,
         Alive(l), Steady(l, icon[1]), Created(t, l, icon)
  PROVE  Alive(t)
<1>1. /\ ToSet(t.inner) = ToSet(l.inner) \cup {icon}
      /\ t.removed = l.removed /\ t.closing = l.closing /\ t.running = l.running
      /\ t.seen = l.seen \cup {icon[1]} /\ t.sticky = l.sticky \cup {icon[1]}
      /\ t.stuck = l.stuck \cup {icon} /\ t.visible = l.visible \cup {icon}
  BY DEF Created
<1>2. icon \notin l.closing /\ icon \notin l.removed /\ icon[1] \in Applications
  BY IconsAre DEF Alive
<1>3. /\ t.closing \cup t.removed \cup t.stuck \cup t.visible \subseteq ToSet(t.inner)
      /\ t.closing \cap t.removed = {} /\ t.removed \cap t.visible = {}
  BY <1>1, <1>2 DEF Alive
<1>4. \A i \in ToSet(l.inner) \ l.removed : i[1] # icon[1]
  BY <1>2 DEF Alive
<1>5. \A i, j \in ToSet(t.inner) \ t.removed : i[1] = j[1] => i = j
  BY <1>1, <1>4 DEF Alive
<1>6. \A a \in Applications : a \in t.seen <=> \E i \in ToSet(t.inner) \ t.removed : i[1] = a
  BY <1>1, <1>2 DEF Alive
<1>7. \A a \in t.sticky : \E i \in t.stuck \cap t.visible : i[1] = a
  BY <1>1 DEF Alive
<1>8. /\ \A i \in t.closing \cup t.removed : i[1] \notin t.sticky
      /\ \A i \in t.stuck : i[1] \in t.sticky
  BY <1>1 DEF Alive, Steady
<1>9. \A a \in t.running : \E i \in t.visible \ t.closing : i[1] = a
  BY <1>1 DEF Alive
<1> QED BY <1>3, <1>5, <1>6, <1>7, <1>8, <1>9 DEF Alive

LEMMA LetGoAlive ==
  ASSUME NEW s \in States, NEW t, NEW icon, Alive(s.l), IsSticky(s.l, icon), t.l.inner = s.l.inner, LetGo(t, s, icon)
  PROVE  Alive(t.l)
<1> DEFINE l == s.l
           k == t.l
           a == icon[1]
<1>1. k.inner = l.inner /\ k.stuck = l.stuck \ {icon} /\ k.sticky = l.sticky \ {a} /\ k.running = l.running
  BY DEF LetGo
<1>2. icon \in l.stuck /\ a \in l.sticky
  BY DEF IsSticky
<1>3. /\ l.closing \cup l.removed \cup l.stuck \cup l.visible \subseteq ToSet(l.inner)
      /\ l.closing \cap l.removed = {} /\ l.removed \cap l.visible = {}
      /\ \A i, j \in ToSet(l.inner) \ l.removed : i[1] = j[1] => i = j
      /\ \A b \in Applications : b \in l.seen <=> \E i \in ToSet(l.inner) \ l.removed : i[1] = b
      /\ \A b \in l.sticky : \E i \in l.stuck \cap l.visible : i[1] = b
      /\ \A i \in l.closing \cup l.removed : i[1] \notin l.sticky
      /\ \A i \in l.stuck : i[1] \in l.sticky
      /\ \A b \in l.running : \E i \in l.visible \ l.closing : i[1] = b
  BY DEF Alive
<1>4. /\ a \in l.running => /\ k.visible = l.visible \cup {icon} /\ k.removed = l.removed
                            /\ k.closing = l.closing /\ k.seen = l.seen
      /\ a \notin l.running => /\ k.visible = l.visible \ {icon} /\ k.removed = l.removed \cup {icon}
                               /\ k.closing = l.closing \ {icon}
                               /\ icon \notin l.removed => k.seen = l.seen \ {a}
  BY DEF LetGo
<1> HIDE DEF l, k, a
<1>5. icon \in ToSet(l.inner) /\ icon \notin l.removed /\ icon \notin l.closing
  BY <1>2, <1>3 DEF a
<1>6. \A i \in ToSet(l.inner) \ l.removed : i[1] = a => i = icon
  BY <1>3, <1>5 DEF a
<1>7. /\ k.closing \cup k.removed \cup k.stuck \cup k.visible \subseteq ToSet(k.inner)
      /\ k.closing \cap k.removed = {} /\ k.removed \cap k.visible = {}
  BY <1>1, <1>3, <1>4, <1>5
<1>8. \A i, j \in ToSet(k.inner) \ k.removed : i[1] = j[1] => i = j
  BY <1>1, <1>3, <1>4
<1>9. \A b \in Applications : b \in k.seen <=> \E i \in ToSet(k.inner) \ k.removed : i[1] = b
  <2>1. CASE a \in l.running
    BY <1>1, <1>3, <1>4, <2>1
  <2>2. CASE a \notin l.running
    <3>1. k.removed = l.removed \cup {icon} /\ k.seen = l.seen \ {a} /\ k.inner = l.inner
      BY <1>1, <1>4, <1>5, <2>2
    <3>2. \A i \in ToSet(k.inner) \ k.removed : i \in ToSet(l.inner) \ l.removed /\ i[1] # a
      BY <1>6, <3>1
    <3>3. \A i \in ToSet(l.inner) \ l.removed : i[1] # a => i \in ToSet(k.inner) \ k.removed
      BY <3>1 DEF a
    <3> QED BY <1>3, <3>1, <3>2, <3>3
  <2> QED BY <2>1, <2>2
<1>10. \A b \in k.sticky : \E i \in k.stuck \cap k.visible : i[1] = b
  <2> TAKE b \in k.sticky
  <2>1. PICK i \in l.stuck \cap l.visible : i[1] = b
    BY <1>1, <1>3
  <2>2. i # icon
    BY <1>1, <2>1 DEF a
  <2> QED BY <1>1, <1>4, <2>1, <2>2
<1>11. \A i \in k.closing \cup k.removed : i[1] \notin k.sticky
  BY <1>1, <1>3, <1>4 DEF a
<1>12. \A i \in k.stuck : i[1] \in k.sticky
  <2> TAKE i \in k.stuck
  <2>1. i \in l.stuck /\ i # icon /\ i[1] \in l.sticky
    BY <1>1, <1>3
  <2>2. i \in ToSet(l.inner) \ l.removed
    BY <1>3, <2>1
  <2>3. i[1] # a
    BY <1>6, <2>1, <2>2
  <2> QED BY <1>1, <2>1, <2>3
<1>13. \A b \in k.running : \E i \in k.visible \ k.closing : i[1] = b
  <2> TAKE b \in k.running
  <2>1. PICK i \in l.visible \ l.closing : i[1] = b
    BY <1>1, <1>3
  <2>2. a \notin l.running => i # icon
    BY <1>1, <2>1 DEF a
  <2> QED BY <1>1, <1>4, <2>1, <2>2
<1>14. Alive(k)
  BY <1>7, <1>8, <1>9, <1>10, <1>11, <1>12, <1>13 DEF Alive
<1> QED BY <1>14 DEF k

LEMMA LetGoKnown ==
  ASSUME NEW s \in States, NEW t \in States, NEW icon \in Icons, LetGo(t, s, icon), IsInjective(s.f),
         \A a \in Applications \ {icon[1]} : a \in s.l.sticky <=> a \in ToSet(s.f)
  PROVE  Known(t)
<1> DEFINE f == s.f
           g == Without(f, icon[1])
<1>1. t.f = g /\ t.l.sticky = s.l.sticky \ {icon[1]} /\ f \in Seq(Uris)
  BY DEF LetGo, States
<1>2. ToSet(g) = ToSet(f) \cap (ToSet(f) \ {icon[1]}) /\ IsInjective(g)
  <2>1. g = Only(f, ToSet(f) \ {icon[1]})
    BY DEF Without
  <2> HIDE DEF g, f
  <2>2. IsInjective(f)
    BY DEF f
  <2>3. LET u == Only(f, ToSet(f) \ {icon[1]})
        IN  u \in Seq(Uris) /\ ToSet(u) = ToSet(f) \cap (ToSet(f) \ {icon[1]}) /\ IsInjective(u)
    BY <1>1, <2>2, OnlyIs
  <2> QED BY <2>1, <2>3
<1> HIDE DEF g
<1> QED BY <1>1, <1>2 DEF Known

\* An icon that is to stay is the only one of its application
Firm(l) ==
  /\ \A i, j \in ToSet(l.inner) \ l.removed : i[1] = j[1] => i = j
  /\ \A i \in l.removed : i[1] \notin l.sticky

LEMMA FirmIs ==
  ASSUME NEW l, l.inner \in Seq(Icons), Firm(l)
  PROVE  /\ OneEach(l)
         /\ \A i \in StickyHere(l), j \in ToSet(l.inner) : j[1] = i[1] => j = i
         /\ \A i \in StickyHere(l) : i[1] \in Applications /\ GetIconByUri(l, i[1]) = i
<1>1. \A i \in StickyHere(l) : i \in ToSet(l.inner) /\ i \in Icons /\ i[1] \in l.sticky
  BY DEF StickyHere, StickyIcons, IsSticky
<1>2. \A i \in StickyHere(l), j \in ToSet(l.inner) : j[1] = i[1] => j = i
  BY <1>1 DEF Firm
<1>3. ASSUME NEW i \in StickyHere(l) PROVE i[1] \in Applications /\ GetIconByUri(l, i[1]) = i
  <2>1. GetIconByUri(l, i[1]) \in ToSet(l.inner) /\ GetIconByUri(l, i[1])[1] = i[1]
    BY <1>1, GetIconByUriIs
  <2> QED BY <1>1, <1>2, <2>1, IconsAre
<1> QED BY <1>1, <1>2, <1>3 DEF OneEach

\* New priorities put the icons in the order of the favorites
LEMMA ResetAgrees ==
  ASSUME NEW s \in States, Fit(s.l), Firm(s.l), Listed(s), IsInjective(s.f)
  PROVE  Agrees(ResetIconPriorities(s))
<1> DEFINE l == s.l
           f == s.f
           t == ResetIconPriorities(s)
           S == StickyHere(l)
<1>1. l.inner \in Seq(Icons) /\ IsInjective(l.inner) /\ f \in Seq(Uris) /\ IsInjective(f)
  BY DEF Fit, Launchers, States
<1>2. /\ OneEach(l)
      /\ \A i \in S : i[1] \in Applications /\ GetIconByUri(l, i[1]) = i
  BY <1>1, FirmIs
<1>3. \A a \in Applications : a \in ToSet(f) <=> \E i \in S : i[1] = a
  BY DEF Listed
<1>4. FoundSticky(s)
  <2>1. ASSUME NEW a \in ToSet(f) \cap Applications PROVE GetIconByUri(l, a) \in StickyIcons(l)
    <3>1. PICK i \in S : i[1] = a
      BY <1>3
    <3> QED BY <1>2, <3>1 DEF StickyHere
  <2> QED BY <1>1, <2>1 DEF FoundSticky
<1>5. /\ t \in States /\ t.f = s.f /\ Shuffled(t.l, s.l)
      /\ \A a, b \in Applications : Before(f, a, b) => Before(t.l.inner, GetIconByUri(l, a), GetIconByUri(l, b))
  BY <1>4, ResetIs
<1> HIDE DEF t
<1>6. t.l.inner \in Seq(Icons) /\ IsInjective(t.l.inner) /\ StickyHere(t.l) = S
  BY <1>5 DEF Shuffled, Same, Fit, Launchers, StickyHere, StickyIcons, IsSticky
<1> HIDE DEF S, l, f
<1>7. ASSUME NEW i \in S, NEW j \in S, Before(t.l.inner, i, j) PROVE Before(f, i[1], j[1])
  <2>1. i # j /\ ~Before(t.l.inner, j, i)
    BY <1>6, <1>7, BeforeIs
  <2>2. i[1] \in ToSet(f) /\ j[1] \in ToSet(f) /\ i[1] # j[1]
    BY <1>2, <1>3, <2>1 DEF OneEach, S
  <2>3. ~Before(f, j[1], i[1])
    BY <1>2, <1>5, <2>1
  <2> QED BY <1>1, <2>2, <2>3, BeforeIs
<1>8. t.f = f
  BY <1>5 DEF f
<1> QED BY <1>1, <1>6, <1>7, <1>8 DEF Agrees, t

LEMMA ListedKnown ==
  ASSUME NEW s, Listed(s), IsInjective(s.f), s.l.stuck \subseteq ToSet(s.l.inner), ToSet(s.l.inner) \subseteq Icons,
         \A a \in s.l.sticky : \E i \in s.l.stuck : i[1] = a
  PROVE  Known(s)
<1>1. ASSUME NEW a \in Applications PROVE (\E i \in StickyHere(s.l) : i[1] = a) <=> a \in s.l.sticky
  <2>1. \A i \in StickyHere(s.l) : i[1] \in s.l.sticky
    BY DEF StickyHere, StickyIcons, IsSticky
  <2>2. \A i \in s.l.stuck : i[1] \in s.l.sticky => i \in StickyHere(s.l)
    BY DEF StickyHere, StickyIcons, IsSticky
  <2> QED BY <2>1, <2>2
<1> QED BY <1>1 DEF Known, Listed

LEMMA StickLife ==
  ASSUME NEW s, Good(s), Alive(s.l), NEW icon \in ToSet(s.l.inner), Steady(s.l, icon[1])
  PROVE  LET t == Stick(s, icon, TRUE)
         IN  Good(t) /\ Held(t.l, s.l, icon) /\ Alive(t.l) /\ Known(t) /\ Agrees(t)
<1> DEFINE k == Stuck(s, icon)
           o == SaveIconsOrder(k)
           r == ResetIconPriorities(o)
           t == Stick(s, icon, TRUE)
<1>1. s \in States /\ Fit(s.l) /\ Ranked(s.l) /\ s.l.inner \in Seq(Icons) /\ ToSet(s.l.inner) \subseteq Icons
  <2>1. s \in States /\ Fit(s.l) /\ Ranked(s.l) /\ s.l.inner \in Seq(Icons)
    BY DEF Good, Fit, Launchers
  <2> QED BY <2>1, Elements
<1>2. icon \in Icons
  BY <1>1
<1>3. /\ Good(t) /\ Held(t.l, s.l, icon) /\ r \in States /\ t.f = r.f /\ t.l.inner = r.l.inner
      /\ r.l.stuck = s.l.stuck \cup {icon} /\ r.l.sticky = s.l.sticky \cup {icon[1]}
  <2>1. TRUE \in BOOLEAN
    OBVIOUS
  <2>2. Good(Stick(s, icon, TRUE)) /\ Held(Stick(s, icon, TRUE).l, s.l, icon)
    BY <1>2, <2>1, StickIs
  <2> DEFINE u == ResetIconPriorities(SaveIconsOrder(Stuck(s, icon)))
  <2>3. /\ u \in States /\ Stick(s, icon, TRUE).f = u.f /\ Stick(s, icon, TRUE).l.inner = u.l.inner
        /\ u.l.stuck = s.l.stuck \cup {icon} /\ u.l.sticky = s.l.sticky \cup {icon[1]}
    BY <1>2, <2>1, StickIs
  <2> QED BY <2>2, <2>3
<1>4. Alive(t.l)
  BY <1>3, HeldAlive
<1>5. /\ k \in States /\ k.f = s.f /\ k.l.inner = s.l.inner /\ k.l.priority = s.l.priority
      /\ k.l.stuck = s.l.stuck \cup {icon} /\ k.l.sticky = s.l.sticky \cup {icon[1]}
      /\ k.l.removed = s.l.removed
  BY <1>1, <1>2, StuckIs
<1> HIDE DEF k
<1>6. Fit(k.l)
  BY <1>1, <1>5 DEF Fit, States
<1>7. Firm(k.l)
  <2>1. \A i \in k.l.removed : i[1] \notin k.l.sticky
    BY <1>5 DEF Alive, Steady
  <2>2. \A i, j \in ToSet(k.l.inner) \ k.l.removed : i[1] = j[1] => i = j
    BY <1>5 DEF Alive
  <2> QED BY <2>1, <2>2 DEF Firm
<1>8. OneEach(k.l)
  BY <1>1, <1>5, <1>7, FirmIs
<1>9. o \in States /\ o.l = k.l /\ Listed(o) /\ Agrees(o)
  BY <1>5, <1>6, <1>8, SaveIconsOrderIs
<1> HIDE DEF o
<1>10. IsInjective(o.f)
  BY <1>9 DEF Agrees
<1>11. Known(o)
  <2>1. o.l.stuck \subseteq ToSet(o.l.inner) /\ ToSet(o.l.inner) \subseteq Icons
    BY <1>1, <1>5, <1>9 DEF Alive
  <2>2. \A a \in o.l.sticky : \E i \in o.l.stuck : i[1] = a
    BY <1>5, <1>9 DEF Alive
  <2> QED BY <1>9, <1>10, <2>1, <2>2, ListedKnown
<1>12. Agrees(r)
  BY <1>6, <1>7, <1>9, <1>10, ResetAgrees
<1>13. r.f = o.f
  BY <1>6, <1>9, ResetIs
<1> HIDE DEF r, t
<1>14. t.f = o.f /\ t.l.sticky = o.l.sticky /\ t.l.stuck = r.l.stuck /\ t.l.sticky = r.l.sticky
  <2>1. t.l.stuck = s.l.stuck \cup {icon} /\ t.l.sticky = s.l.sticky \cup {icon[1]}
    BY <1>3 DEF Held
  <2>2. o.l.sticky = s.l.sticky \cup {icon[1]}
    BY <1>5, <1>9
  <2> QED BY <1>3, <1>13, <2>1, <2>2
<1>15. Known(t)
  BY <1>11, <1>14 DEF Known
<1>16. StickyHere(t.l) = StickyHere(r.l)
  BY <1>3, <1>14 DEF StickyHere, StickyIcons, IsSticky
<1>17. Agrees(t)
  BY <1>3, <1>12, <1>16 DEF Agrees
<1> QED BY <1>3, <1>4, <1>15, <1>17 DEF t

LEMMA AliveFirm ==
  ASSUME NEW l, Alive(l)
  PROVE  Firm(l)
BY DEF Alive, Firm

LEMMA SaveLife ==
  ASSUME NEW s, Good(s), Alive(s.l)
  PROVE  LET t == SaveIconsOrder(s)
         IN  Good(t) /\ t.l = s.l /\ Known(t) /\ Agrees(t)
<1> DEFINE t == SaveIconsOrder(s)
<1>1. s \in States /\ Fit(s.l) /\ s.l.inner \in Seq(Icons) /\ ToSet(s.l.inner) \subseteq Icons
  <2>1. s \in States /\ Fit(s.l) /\ s.l.inner \in Seq(Icons)
    BY DEF Good, Fit, Launchers
  <2> QED BY <2>1, Elements
<1>2. OneEach(s.l)
  BY <1>1, AliveFirm, FirmIs
<1>3. t \in States /\ t.l = s.l /\ Listed(t) /\ Agrees(t) /\ Good(t)
  BY <1>1, <1>2, SaveIconsOrderIs, SaveWell
<1> HIDE DEF t
<1>4. Known(t)
  <2>1. t.l.stuck \subseteq ToSet(t.l.inner) /\ \A a \in t.l.sticky : \E i \in t.l.stuck : i[1] = a
    BY <1>3 DEF Alive
  <2>2. IsInjective(t.f)
    BY <1>3 DEF Agrees
  <2> QED BY <1>1, <1>3, <2>1, <2>2, ListedKnown
<1> QED BY <1>3, <1>4 DEF t

LEMMA CreateLife ==
  ASSUME NEW s, Good(s), Alive(s.l), NEW a \in Applications, HasRoom(s.l, a), a \notin s.l.seen,
         Steady(s.l, a), NEW p \in Int
  PROVE  LET t == CreateFavoriteIcon(s, a, p)
         IN  Good(t) /\ Alive(t.l) /\ Good(SaveIconsOrder(t)) /\ SaveIconsOrder(t).l = t.l
             /\ Known(SaveIconsOrder(t)) /\ Agrees(SaveIconsOrder(t))
<1> DEFINE t == CreateFavoriteIcon(s, a, p)
<1>1. /\ Good(t)
      /\ \E icon \in Icons : icon[1] = a /\ icon \notin ToSet(s.l.inner) /\ Created(t.l, s.l, icon)
  BY CreateFavoriteIconIs
<1> HIDE DEF t
<1>2. Alive(t.l)
  BY <1>1, CreatedAlive
<1>3. Good(SaveIconsOrder(t)) /\ SaveIconsOrder(t).l = t.l /\ Known(SaveIconsOrder(t)) /\ Agrees(SaveIconsOrder(t))
  BY <1>1, <1>2, SaveLife
<1> QED BY <1>1, <1>2, <1>3 DEF t

LEMMA UpdateLife ==
  ASSUME NEW s, Update(s)
  PROVE  /\ Alive(s.l) => Alive(launcher')
         /\ Known(s) => Known(State')
         /\ Agrees(s) => Agrees(State')
<1>1. launcher' = s.l /\ favorites' = s.f /\ State'.l = launcher' /\ State'.f = favorites'
  BY DEF Update, State
<1> HIDE DEF State
<1>2. State'.l = s.l /\ State'.f = s.f
  BY <1>1
<1> QED BY <1>1, <1>2 DEF Known, Agrees

LEMMA LifeNext ==
  ASSUME Alive(launcher'), Known(State'),
         drag' # NoDrag => drag'.icon \in ToSet(launcher'.inner) /\ Steady(launcher', drag'.icon[1])
  PROVE  LifeInv'
BY DEF LifeInv, NoDrag, NullIcon

LEMMA SettledIs ==
  ASSUME "races" \notin Inputs, NEW a, Settled(a)
  PROVE  drag = NoDrag /\ Steady(launcher, a)
BY DEF Settled, Steady

\* The icons that are there to stay keep their order
Keeps(t, l) ==
  /\ t.sticky = l.sticky /\ StickyHere(t) = StickyHere(l)
  /\ \A x, y \in ToSet(l.inner) \cap ToSet(t.inner) : Before(t.inner, x, y) <=> Before(l.inner, x, y)

\* What others do while an icon may be dragged
Calm == /\ Alive(launcher') /\ Keeps(launcher', launcher) /\ UNCHANGED favorites
        /\ drag # NoDrag => drag.icon \in ToSet(launcher'.inner) /\ Steady(launcher', drag.icon[1])

LEMMA StartsLife ==
  ASSUME Well, LifeInv, NEW a \in Applications, ApplicationStarts(a)
  PROVE  Calm /\ ToSet(launcher.inner) \subseteq ToSet(launcher'.inner)
<1> DEFINE l == [launcher EXCEPT !.running = @ \cup {a}]
           icons == {i \in Icons : i[1] = a /\ Live(l, i)}
           m == launcher
<1>1. m \in Launchers /\ Fit(m) /\ Ranked(m) /\ m.inner \in Seq(Icons) /\ Alive(m)
  BY WellIs DEF Fit, LifeInv, Launchers
<1>2. /\ l \in Launchers /\ l.inner = m.inner /\ l.priority = m.priority /\ l.stuck = m.stuck
      /\ l.sticky = m.sticky /\ l.visible = m.visible /\ l.removed = m.removed
      /\ l.closing = m.closing /\ l.seen = m.seen /\ l.running = m.running \cup {a}
  BY <1>1 DEF Launchers
<1>3. Fit(l) /\ Ranked(l)
  BY <1>1, <1>2 DEF Fit, Ranked
<1>4. UNCHANGED favorites
  BY DEF ApplicationStarts
<1>5. CASE a \in l.sticky \cup l.seen
  <2> DEFINE t == launcher'
  <2>1. t = [l EXCEPT !.visible = @ \cup icons, !.closing = @ \ icons]
    BY <1>5 DEF ApplicationStarts
  <2>2. \A i : i \in icons <=> i \in Icons /\ i[1] = a /\ i \in ToSet(m.inner) /\ i \notin m.removed
    <3>1. \A i : Contains(l.inner, i) <=> i \in ToSet(m.inner)
      BY <1>1, <1>2, Elements
    <3> QED BY <1>2, <3>1 DEF Live
  <2> HIDE DEF l, icons
  <2>3. /\ t.inner = m.inner /\ t.stuck = m.stuck /\ t.sticky = m.sticky /\ t.visible = m.visible \cup icons
        /\ t.removed = m.removed /\ t.closing = m.closing \ icons /\ t.seen = m.seen /\ t.running = m.running \cup {a}
    BY <1>2, <2>1 DEF Launchers
  <2> HIDE DEF t, m
  <2>4. ToSet(m.inner) \subseteq Icons
    BY <1>1, Elements
  <2>5. \E i \in icons : TRUE
    <3>1. CASE a \in m.sticky
      <4>1. PICK i \in m.stuck \cap m.visible : i[1] = a
        BY <1>1, <3>1 DEF Alive
      <4>2. i \in ToSet(m.inner) /\ i \notin m.removed
        BY <1>1, <4>1 DEF Alive
      <4> QED BY <2>2, <2>4, <4>1, <4>2
    <3>2. CASE a \in m.seen
      <4>1. PICK i \in ToSet(m.inner) \ m.removed : i[1] = a
        BY <1>1, <3>2 DEF Alive
      <4> QED BY <2>2, <2>4, <4>1
    <3> QED BY <1>2, <1>5, <3>1, <3>2
  <2>6. Alive(t)
    <3>1. /\ t.closing \cup t.removed \cup t.stuck \cup t.visible \subseteq ToSet(t.inner)
          /\ t.closing \cap t.removed = {} /\ t.removed \cap t.visible = {}
      BY <1>1, <2>2, <2>3 DEF Alive
    <3>2. \A b \in t.sticky : \E i \in t.stuck \cap t.visible : i[1] = b
      BY <1>1, <2>3 DEF Alive
    <3>3. \A b \in t.running : \E i \in t.visible \ t.closing : i[1] = b
      <4> TAKE b \in t.running
      <4>1. CASE b = a
        BY <2>2, <2>3, <2>5, <4>1
      <4>2. CASE b # a
        BY <1>1, <2>3, <4>2 DEF Alive
      <4> QED BY <4>1, <4>2
    <3> QED BY <1>1, <2>3, <3>1, <3>2, <3>3 DEF Alive
  <2>7. Keeps(t, m)
    BY <2>3 DEF Keeps, StickyHere, StickyIcons, IsSticky
  <2>8. drag # NoDrag => drag.icon \in ToSet(t.inner) /\ Steady(t, drag.icon[1])
    BY <2>3 DEF LifeInv, Steady, m
  <2> QED BY <1>4, <2>3, <2>6, <2>7, <2>8 DEF Calm, t, m
<1>6. CASE a \notin l.sticky \cup l.seen
  <2> DEFINE icon == NewIcon(l, a)
             p == GetLastIconPriority(l, FALSE)
             t == launcher'
  <2>1. HasRoom(l, a) /\ t = RegisterIcon(l, icon, p)
    BY <1>6 DEF ApplicationStarts
  <2> HIDE DEF l
  <2>2. icon \in Icons /\ icon \notin ToSet(l.inner) /\ icon[1] = a
    BY <1>1, <1>2, <2>1, NewIconIs
  <2>3. p \in Int
    BY <1>3, GetLastIconPriorityIs
  <2> HIDE DEF icon, p
  <2>4. Joined(RegisterIcon(l, icon, p), l, icon)
    BY <1>3, <2>2, <2>3, RegisterIconIs
  <2>5. /\ ToSet(t.inner) = ToSet(m.inner) \cup {icon} /\ OthersKept(t, m, icon)
        /\ t.removed = m.removed /\ t.closing = m.closing /\ t.running = m.running \cup {a} /\ t.sticky = m.sticky
        /\ t.seen = m.seen \cup {a} /\ t.stuck = m.stuck /\ t.visible = m.visible \cup {icon}
    <3>1. a \in l.running \cup l.sticky /\ icon[1] \notin l.sticky
      BY <1>2, <1>6, <2>2
    <3> HIDE DEF m
    <3> QED BY <1>2, <2>1, <2>2, <2>4, <3>1 DEF Joined, OthersKept
  <2> HIDE DEF t, m
  <2>6. /\ icon \notin ToSet(m.inner) /\ icon[1] = a /\ a \notin m.sticky /\ a \notin m.seen
    BY <1>2, <1>6, <2>2
  <2>7. Alive(t)
    <3>1. /\ t.closing \cup t.removed \cup t.stuck \cup t.visible \subseteq ToSet(t.inner)
          /\ t.closing \cap t.removed = {} /\ t.removed \cap t.visible = {}
      BY <1>1, <2>5, <2>6 DEF Alive
    <3>2. \A i \in ToSet(m.inner) \ m.removed : i[1] # a
      BY <1>1, <2>6 DEF Alive
    <3>3. icon \notin m.removed /\ icon \notin m.closing
      BY <1>1, <2>6 DEF Alive
    <3>4. \A i, j \in ToSet(t.inner) \ t.removed : i[1] = j[1] => i = j
      BY <1>1, <2>5, <2>6, <3>2 DEF Alive
    <3>5. \A b \in Applications : b \in t.seen <=> \E i \in ToSet(t.inner) \ t.removed : i[1] = b
      BY <1>1, <2>5, <2>6, <3>3 DEF Alive
    <3>6. \A b \in t.sticky : \E i \in t.stuck \cap t.visible : i[1] = b
      BY <1>1, <2>5 DEF Alive
    <3>7. \A i \in t.closing \cup t.removed : i[1] \notin t.sticky
      BY <1>1, <2>5 DEF Alive
    <3>8. \A i \in t.stuck : i[1] \in t.sticky
      BY <1>1, <2>5 DEF Alive
    <3>9. \A b \in t.running : \E i \in t.visible \ t.closing : i[1] = b
      <4> TAKE b \in t.running
      <4>1. CASE b = a
        BY <2>5, <2>6, <3>3, <4>1
      <4>2. CASE b # a
        BY <1>1, <2>5, <4>2 DEF Alive
      <4> QED BY <4>1, <4>2
    <3> QED BY <3>1, <3>4, <3>5, <3>6, <3>7, <3>8, <3>9 DEF Alive
  <2>8. Keeps(t, m)
    <3>1. \A i : IsSticky(t, i) <=> IsSticky(m, i)
      BY <2>5 DEF IsSticky
    <3>2. StickyHere(t) = StickyHere(m)
      <4>1. ~IsSticky(m, icon)
        BY <2>6 DEF IsSticky
      <4> QED BY <2>5, <3>1, <4>1 DEF StickyHere, StickyIcons
    <3>3. \A x, y \in ToSet(m.inner) : Before(t.inner, x, y) <=> Before(m.inner, x, y)
      BY <2>5, <2>6 DEF OthersKept
    <3> QED BY <2>5, <3>2, <3>3 DEF Keeps
  <2>9. drag # NoDrag => drag.icon \in ToSet(t.inner) /\ Steady(t, drag.icon[1])
    BY <2>5 DEF LifeInv, Steady, m
  <2> QED BY <1>4, <2>5, <2>7, <2>8, <2>9 DEF Calm, t, m
<1> QED BY <1>5, <1>6

LEMMA ClosesLife ==
  ASSUME "races" \notin Inputs, Well, LifeInv, NEW a \in Applications, ApplicationCloses(a)
  PROVE  Calm /\ ToSet(launcher'.inner) = ToSet(launcher.inner)
<1> DEFINE l == [launcher EXCEPT !.running = @ \ {a}]
           icons == {i \in Icons : i[1] = a /\ Live(l, i) /\ ~IsSticky(l, i)}
           m == launcher
           t == launcher'
<1>1. m \in Launchers /\ m.inner \in Seq(Icons) /\ Alive(m)
  BY WellIs DEF Fit, LifeInv, Launchers
<1>2. /\ l \in Launchers /\ l.inner = m.inner /\ l.priority = m.priority /\ l.stuck = m.stuck
      /\ l.sticky = m.sticky /\ l.visible = m.visible /\ l.removed = m.removed
      /\ l.closing = m.closing /\ l.seen = m.seen /\ l.running = m.running \ {a}
  BY <1>1 DEF Launchers
<1>3. t = [l EXCEPT !.visible = @ \ icons, !.closing = @ \cup icons] /\ UNCHANGED favorites /\ a # drag.icon[1]
  BY DEF ApplicationCloses
<1>4. \A i : i \in icons <=> /\ i \in Icons /\ i[1] = a /\ i \in ToSet(m.inner) /\ i \notin m.removed
                             /\ ~(i[1] \in m.sticky /\ i \in m.stuck)
  <2>1. \A i : Contains(l.inner, i) <=> i \in ToSet(m.inner)
    BY <1>1, <1>2, Elements
  <2> QED BY <1>2, <2>1 DEF Live, IsSticky
<1> HIDE DEF l, icons
<1>5. /\ t.inner = m.inner /\ t.stuck = m.stuck /\ t.sticky = m.sticky /\ t.visible = m.visible \ icons
      /\ t.removed = m.removed /\ t.closing = m.closing \cup icons /\ t.seen = m.seen /\ t.running = m.running \ {a}
  BY <1>2, <1>3 DEF Launchers
<1> HIDE DEF t, m
<1>6. \A i \in icons : i[1] \notin m.sticky
  <2> SUFFICES ASSUME NEW i \in icons, i[1] \in m.sticky PROVE FALSE
    OBVIOUS
  <2>1. PICK j \in m.stuck \cap m.visible : j[1] = i[1]
    BY <1>1 DEF Alive
  <2>2. j \in ToSet(m.inner) \ m.removed /\ i \in ToSet(m.inner) \ m.removed
    BY <1>1, <1>4, <2>1 DEF Alive
  <2>3. i = j
    BY <1>1, <2>1, <2>2 DEF Alive
  <2> QED BY <1>4, <2>1, <2>3
<1>7. Alive(t)
  <2>1. /\ t.closing \cup t.removed \cup t.stuck \cup t.visible \subseteq ToSet(t.inner)
        /\ t.closing \cap t.removed = {} /\ t.removed \cap t.visible = {}
    BY <1>1, <1>4, <1>5 DEF Alive
  <2>2. /\ \A i, j \in ToSet(t.inner) \ t.removed : i[1] = j[1] => i = j
        /\ \A b \in Applications : b \in t.seen <=> \E i \in ToSet(t.inner) \ t.removed : i[1] = b
    BY <1>1, <1>5 DEF Alive
  <2>3. \A b \in t.sticky : \E i \in t.stuck \cap t.visible : i[1] = b
    <3> TAKE b \in t.sticky
    <3>1. PICK i \in m.stuck \cap m.visible : i[1] = b
      BY <1>1, <1>5 DEF Alive
    <3>2. i \notin icons
      BY <1>5, <1>6, <3>1
    <3> QED BY <1>5, <3>1, <3>2
  <2>4. \A i \in t.closing \cup t.removed : i[1] \notin t.sticky
    BY <1>1, <1>5, <1>6 DEF Alive
  <2>5. \A i \in t.stuck : i[1] \in t.sticky
    BY <1>1, <1>5 DEF Alive
  <2>6. \A b \in t.running : \E i \in t.visible \ t.closing : i[1] = b
    <3> TAKE b \in t.running
    <3>1. PICK i \in m.visible \ m.closing : i[1] = b
      BY <1>1, <1>5 DEF Alive
    <3> QED BY <1>4, <1>5, <3>1
  <2> QED BY <2>1, <2>2, <2>3, <2>4, <2>5, <2>6 DEF Alive
<1>8. Keeps(t, m)
  BY <1>5 DEF Keeps, StickyHere, StickyIcons, IsSticky
<1>9. drag # NoDrag => drag.icon \in ToSet(t.inner) /\ Steady(t, drag.icon[1])
  BY <1>3, <1>4, <1>5 DEF LifeInv, Steady, m
<1> QED BY <1>3, <1>5, <1>7, <1>8, <1>9 DEF Calm, t, m

LEMMA CloseTimeoutLife ==
  ASSUME Well, LifeInv, NEW icon \in Icons, CloseTimeout(icon)
  PROVE  Calm /\ ToSet(launcher'.inner) = ToSet(launcher.inner)
<1> DEFINE m == launcher
           t == launcher'
<1>1. m \in Launchers /\ Alive(m)
  BY WellIs DEF Fit, LifeInv
<1>2. t = RemoveAppIcon(m, icon) /\ UNCHANGED favorites /\ icon \in m.closing
  BY DEF CloseTimeout
<1>3. drag # NoDrag => drag.icon \in ToSet(m.inner) /\ Steady(m, drag.icon[1])
  BY DEF LifeInv
<1> HIDE DEF m, t
<1>4. icon \notin m.removed /\ icon[1] \notin m.sticky /\ icon \in ToSet(m.inner)
  BY <1>1, <1>2 DEF Alive
<1>5. /\ t.inner = m.inner /\ t.running = m.running /\ t.stuck = m.stuck
      /\ t.visible = m.visible \ {icon} /\ t.removed = m.removed \cup {icon}
      /\ t.closing = m.closing \ {icon} /\ t.sticky = m.sticky \ {icon[1]} /\ t.seen = m.seen \ {icon[1]}
  BY <1>1, <1>2, <1>4, RemoveAppIconIs
<1>6. t.sticky = m.sticky
  BY <1>4, <1>5
<1>7. Alive(t)
  <2>1. /\ t.closing \cup t.removed \cup t.stuck \cup t.visible \subseteq ToSet(t.inner)
        /\ t.closing \cap t.removed = {} /\ t.removed \cap t.visible = {}
    BY <1>1, <1>4, <1>5 DEF Alive
  <2>2. \A i, j \in ToSet(t.inner) \ t.removed : i[1] = j[1] => i = j
    BY <1>1, <1>5 DEF Alive
  <2>3. \A b \in Applications : b \in t.seen <=> \E i \in ToSet(t.inner) \ t.removed : i[1] = b
    <3>1. \A i \in ToSet(m.inner) \ m.removed : i[1] = icon[1] => i = icon
      BY <1>1, <1>4 DEF Alive
    <3>2. \A b \in Applications : b \in m.seen <=> \E i \in ToSet(m.inner) \ m.removed : i[1] = b
      BY <1>1 DEF Alive
    <3>3. \A i : i \in ToSet(t.inner) \ t.removed <=> i \in ToSet(m.inner) \ m.removed /\ i[1] # icon[1]
      BY <1>5, <3>1
    <3> QED BY <1>5, <3>2, <3>3
  <2>4. \A b \in t.sticky : \E i \in t.stuck \cap t.visible : i[1] = b
    <3> TAKE b \in t.sticky
    <3>1. PICK i \in m.stuck \cap m.visible : i[1] = b
      BY <1>1, <1>6 DEF Alive
    <3> QED BY <1>4, <1>5, <1>6, <3>1
  <2>5. \A i \in t.closing \cup t.removed : i[1] \notin t.sticky
    BY <1>1, <1>4, <1>5, <1>6 DEF Alive
  <2>6. \A i \in t.stuck : i[1] \in t.sticky
    BY <1>1, <1>5, <1>6 DEF Alive
  <2>7. \A b \in t.running : \E i \in t.visible \ t.closing : i[1] = b
    BY <1>1, <1>2, <1>5 DEF Alive
  <2> QED BY <2>1, <2>2, <2>3, <2>4, <2>5, <2>6, <2>7 DEF Alive
<1>8. Keeps(t, m)
  BY <1>5, <1>6 DEF Keeps, StickyHere, StickyIcons, IsSticky
<1>9. drag # NoDrag => drag.icon \in ToSet(t.inner) /\ Steady(t, drag.icon[1])
  BY <1>2, <1>3, <1>5 DEF Steady
<1> QED BY <1>2, <1>5, <1>7, <1>8, <1>9 DEF Calm, t, m

LEMMA RemoveTimeoutLife ==
  ASSUME Well, LifeInv, NEW icon \in Icons, RemoveTimeout(icon)
  PROVE  /\ Calm /\ icon \notin StickyHere(launcher) /\ (drag # NoDrag => icon # drag.icon)
         /\ ToSet(launcher'.inner) = ToSet(launcher.inner) \ {icon}
<1> DEFINE m == launcher
           t == launcher'
<1>1. Fit(m) /\ Ranked(m) /\ Alive(m)
  BY WellIs DEF LifeInv
<1>2. Gone(t, m, icon) /\ UNCHANGED favorites /\ icon \in m.removed
  BY <1>1, RemoveIconIs DEF RemoveTimeout
<1>3. drag # NoDrag => drag.icon \in ToSet(m.inner) /\ Steady(m, drag.icon[1])
  BY DEF LifeInv
<1> HIDE DEF m, t
<1>4. icon \notin m.closing /\ icon[1] \notin m.sticky /\ icon \notin m.stuck /\ icon \notin m.visible
  BY <1>1, <1>2 DEF Alive
<1>5. /\ ToSet(t.inner) = ToSet(m.inner) \ {icon} /\ OthersKept(t, m, icon)
      /\ t.removed = m.removed \ {icon} /\ t.stuck = m.stuck /\ t.visible = m.visible
      /\ t.closing = m.closing /\ t.running = m.running /\ t.sticky = m.sticky /\ t.seen = m.seen
  BY <1>2, <1>4 DEF Gone
<1>6. ToSet(t.inner) \ t.removed = ToSet(m.inner) \ m.removed
  BY <1>2, <1>5
<1>7. Alive(t)
  <2>1. /\ t.closing \cup t.removed \cup t.stuck \cup t.visible \subseteq ToSet(t.inner)
        /\ t.closing \cap t.removed = {} /\ t.removed \cap t.visible = {}
    BY <1>1, <1>4, <1>5 DEF Alive
  <2>2. /\ \A i, j \in ToSet(t.inner) \ t.removed : i[1] = j[1] => i = j
        /\ \A b \in Applications : b \in t.seen <=> \E i \in ToSet(t.inner) \ t.removed : i[1] = b
    BY <1>1, <1>5, <1>6 DEF Alive
  <2>3. /\ \A b \in t.sticky : \E i \in t.stuck \cap t.visible : i[1] = b
        /\ \A i \in t.closing \cup t.removed : i[1] \notin t.sticky
        /\ \A i \in t.stuck : i[1] \in t.sticky
        /\ \A b \in t.running : \E i \in t.visible \ t.closing : i[1] = b
    BY <1>1, <1>5 DEF Alive
  <2> QED BY <2>1, <2>2, <2>3 DEF Alive
<1>8. icon \notin StickyHere(m)
  BY <1>4 DEF StickyHere, StickyIcons, IsSticky
<1>9. Keeps(t, m)
  <2>1. \A i : IsSticky(t, i) <=> IsSticky(m, i)
    BY <1>5 DEF IsSticky
  <2>2. StickyHere(t) = StickyHere(m)
    BY <1>5, <1>8, <2>1 DEF StickyHere, StickyIcons
  <2>3. \A x, y \in ToSet(m.inner) \cap ToSet(t.inner) : Before(t.inner, x, y) <=> Before(m.inner, x, y)
    BY <1>5 DEF OthersKept
  <2> QED BY <1>5, <2>2, <2>3 DEF Keeps
<1>10. drag # NoDrag => drag.icon \in ToSet(t.inner) /\ Steady(t, drag.icon[1]) /\ icon # drag.icon
  BY <1>2, <1>3, <1>5 DEF Steady
<1> QED BY <1>2, <1>5, <1>7, <1>8, <1>9, <1>10 DEF Calm, t, m

LEMMA CalmLife ==
  ASSUME LifeInv, Calm, drag' = NoDrag \/ (drag # NoDrag /\ drag'.icon = drag.icon)
  PROVE  LifeInv'
<1>1. Alive(launcher') /\ launcher'.sticky = launcher.sticky /\ UNCHANGED favorites /\ Known(State)
  BY DEF Calm, Keeps, LifeInv
<1>2. State'.l = launcher' /\ State'.f = favorites' /\ State.l = launcher /\ State.f = favorites
  BY DEF State
<1> HIDE DEF State
<1>3. Known(State')
  BY <1>1, <1>2 DEF Known
<1>4. drag' # NoDrag => drag'.icon \in ToSet(launcher'.inner) /\ Steady(launcher', drag'.icon[1])
  BY DEF Calm
<1> QED BY <1>1, <1>3, <1>4, LifeNext

LEMMA KnownListed ==
  ASSUME NEW s, Alive(s.l), Known(s), ToSet(s.l.inner) \subseteq Icons
  PROVE  Listed(s)
<1> SUFFICES ASSUME NEW a \in Applications
             PROVE  a \in ToSet(s.f) <=> \E i \in StickyHere(s.l) : i[1] = a
  BY DEF Listed
<1>1. \A i : i \in StickyHere(s.l) <=> i \in s.l.stuck /\ i[1] \in s.l.sticky
  BY DEF StickyHere, StickyIcons, IsSticky, Alive
<1>2. a \in s.l.sticky => \E i \in s.l.stuck : i[1] = a
  BY DEF Alive
<1> QED BY <1>1, <1>2 DEF Known

LEMMA UnStickLife ==
  ASSUME NEW s, Good(s), Alive(s.l), NEW icon \in ToSet(s.l.inner), IsSticky(s.l, icon), IsInjective(s.f),
         \A b \in Applications \ {icon[1]} : b \in s.l.sticky <=> b \in ToSet(s.f)
  PROVE  LET t == UnStick(s, icon)
         IN  /\ Alive(t.l) /\ Known(t)
             /\ (\A i, j \in StickyHere(s.l) \ {icon} : Before(s.l.inner, i, j) => Before(s.f, i[1], j[1])) => Agrees(t)
<1> DEFINE t == UnStick(s, icon)
           a == icon[1]
           f == s.f
           g == Without(f, a)
<1>1. s \in States /\ s.l.inner \in Seq(Icons) /\ ToSet(s.l.inner) \subseteq Icons /\ f \in Seq(Uris)
  <2>1. s \in States /\ s.l.inner \in Seq(Icons) /\ f \in Seq(Uris)
    BY DEF Good, Fit, Launchers, States
  <2> QED BY <2>1, Elements
<1>2. icon \in Icons
  BY <1>1
<1>3. t \in States /\ t.l.inner = s.l.inner /\ LetGo(t, s, icon)
  BY <1>1, UnStickIs
<1> HIDE DEF t
<1>4. Alive(t.l)
  BY <1>1, <1>3, LetGoAlive
<1>5. Known(t)
  BY <1>1, <1>2, <1>3, LetGoKnown
<1>6. ASSUME \A i, j \in StickyHere(s.l) \ {icon} : Before(s.l.inner, i, j) => Before(s.f, i[1], j[1])
      PROVE  Agrees(t)
  <2>1. t.f = g /\ t.l.stuck = s.l.stuck \ {icon} /\ t.l.sticky = s.l.sticky \ {a}
    BY <1>3 DEF LetGo
  <2>2. \A i \in StickyHere(t.l) : i \in StickyHere(s.l) \ {icon} /\ i[1] # a
    BY <1>3, <2>1 DEF StickyHere, StickyIcons, IsSticky
  <2>3. \A x, y : Before(f, x, y) /\ x # a /\ y # a => Before(g, x, y)
    <3>1. g = Only(f, ToSet(f) \ {a})
      BY DEF Without
    <3> HIDE DEF g, a, f
    <3>2. IsInjective(f)
      BY DEF f
    <3>3. LET u == Only(f, ToSet(f) \ {a})
          IN  /\ u \in Seq(Uris)
              /\ \A x, y : Before(u, x, y) <=> x \in ToSet(f) \ {a} /\ y \in ToSet(f) \ {a} /\ Before(f, x, y)
      BY <1>1, <3>2, OnlyIs
    <3>4. \A x, y : Before(f, x, y) => x \in ToSet(f) /\ y \in ToSet(f)
      BY <1>1, <3>2, BeforeIs
    <3> QED BY <3>1, <3>3, <3>4
  <2>4. IsInjective(t.f)
    BY <1>5 DEF Known
  <2> HIDE DEF g, a
  <2>5. \A i, j \in StickyHere(t.l) : Before(t.l.inner, i, j) => Before(t.f, i[1], j[1])
    BY <1>3, <1>6, <2>1, <2>2, <2>3
  <2> QED BY <2>4, <2>5 DEF Agrees
<1> QED BY <1>4, <1>5, <1>6 DEF t

\* The icons and the favorites fit together after a step as before
Fits == Alive(launcher') /\ Known(State') /\ (Agrees(State) => Agrees(State'))

LEMMA UpdateFits ==
  ASSUME NEW s, Update(s), Alive(s.l), Known(s), Agrees(State) => Agrees(s)
  PROVE  Fits
BY UpdateLife DEF Fits

LEMMA FitsLife ==
  ASSUME "races" \notin Inputs, Fits, NEW a, Settled(a), UNCHANGED drag
  PROVE  LifeInv'
<1>1. drag' = NoDrag
  BY SettledIs
<1> QED BY <1>1, LifeNext DEF Fits

LEMMA LifeIs ==
  ASSUME Well, LifeInv
  PROVE  /\ Good(State) /\ State.l = launcher /\ State.f = favorites /\ Alive(launcher) /\ Known(State)
         /\ Fit(launcher) /\ Ranked(launcher) /\ launcher.inner \in Seq(Icons) /\ IsInjective(launcher.inner)
         /\ ToSet(launcher.inner) \subseteq Icons
         /\ favorites \in Seq(Uris) /\ IsInjective(favorites)
         /\ \A a \in Applications : a \in launcher.sticky <=> a \in ToSet(favorites)
<1>1. /\ Good(State) /\ State.l = launcher /\ State.f = favorites /\ Alive(launcher) /\ Known(State)
      /\ Fit(launcher) /\ Ranked(launcher) /\ launcher.inner \in Seq(Icons) /\ favorites \in Seq(Uris)
      /\ IsInjective(launcher.inner)
  BY WellIs DEF Well, LifeInv, Fit, Launchers
<1>2. ToSet(launcher.inner) \subseteq Icons
  BY <1>1, Elements
<1>3. IsInjective(favorites) /\ \A a \in Applications : a \in launcher.sticky <=> a \in ToSet(favorites)
  BY <1>1 DEF Known
<1> QED BY <1>1, <1>2, <1>3

LEMMA ToggleFits ==
  ASSUME "races" \notin Inputs, Well, LifeInv, NEW icon \in Icons, ToggleSticky(icon)
  PROVE  Fits
<1>1. /\ Good(State) /\ State.l = launcher /\ State.f = favorites /\ Alive(State.l) /\ Known(State)
      /\ launcher.inner \in Seq(Icons)
  BY LifeIs
<1>2. /\ Contains(launcher.inner, icon) /\ Settled(icon[1])
      /\ \/ IsSticky(launcher, icon) /\ Update(UnStick(State, icon))
         \/ Update(Stick(State, icon, TRUE))
  BY DEF ToggleSticky, Live
<1>3. icon \in ToSet(State.l.inner) /\ Steady(State.l, icon[1])
  BY <1>1, <1>2, Elements, SettledIs
<1> HIDE DEF State
<1>4. CASE IsSticky(launcher, icon) /\ Update(UnStick(State, icon))
  <2>1. IsInjective(State.f) /\ \A b \in Applications \ {icon[1]} : b \in State.l.sticky <=> b \in ToSet(State.f)
    BY <1>1 DEF Known
  <2>2. IsSticky(State.l, icon)
    BY <1>1, <1>4
  <2> DEFINE t == UnStick(State, icon)
  <2>3. /\ Alive(t.l) /\ Known(t)
        /\ (\A i, j \in StickyHere(State.l) \ {icon} :
              Before(State.l.inner, i, j) => Before(State.f, i[1], j[1])) => Agrees(t)
    BY <1>1, <1>3, <2>1, <2>2, UnStickLife
  <2> HIDE DEF t
  <2>4. Agrees(State) => Agrees(t)
    BY <2>3 DEF Agrees
  <2>5. Update(t)
    BY <1>4 DEF t
  <2> QED BY <2>3, <2>4, <2>5, UpdateFits
<1>5. CASE Update(Stick(State, icon, TRUE))
  <2>1. Alive(Stick(State, icon, TRUE).l) /\ Known(Stick(State, icon, TRUE)) /\ Agrees(Stick(State, icon, TRUE))
    BY <1>1, <1>3, StickLife
  <2> QED BY <1>5, <2>1, UpdateFits
<1> QED BY <1>2, <1>4, <1>5

LEMMA AddRequestFits ==
  ASSUME "races" \notin Inputs, Well, LifeInv, NEW a \in Applications, NEW icon_before \in Icons,
         OnLauncherAddRequest(a, icon_before)
  PROVE  Fits
<1> DEFINE icon == GetIconByUri(launcher, a)
           s == [State EXCEPT !.l = ReorderAfter(@, icon, icon_before)]
           p == launcher.priority[icon_before]
<1>1. /\ Good(State) /\ State.l = launcher /\ State.f = favorites /\ Alive(State.l) /\ Alive(launcher)
      /\ Fit(launcher) /\ Ranked(launcher)
      /\ launcher.inner \in Seq(Icons) /\ launcher.priority \in [Icons -> Int]
  BY LifeIs DEF Fit, Launchers
<1>2. /\ HasRoom(launcher, a) /\ Contains(launcher.inner, icon_before) /\ Settled(a)
      /\ \/ icon # NullIcon /\ Update(Stick(s, icon, TRUE))
         \/ icon = NullIcon /\ Update(SaveIconsOrder(CreateFavoriteIcon(State, a, p)))
  BY DEF OnLauncherAddRequest
<1>3. Steady(launcher, a)
  BY <1>2, SettledIs
<1>4. \/ icon = NullIcon /\ \A j \in ToSet(launcher.inner) : j[1] # a
      \/ icon \in ToSet(launcher.inner) /\ icon \in Icons /\ icon # NullIcon /\ icon[1] = a
  BY <1>1, GetIconByUriIs
<1> HIDE DEF icon, State
<1>5. CASE icon # NullIcon /\ Update(Stick(s, icon, TRUE))
  <2>1. icon_before \in ToSet(launcher.inner)
    BY <1>1, <1>2, Elements
  <2>2. Shuffled(ReorderAfter(launcher, icon, icon_before), launcher)
    BY <1>1, <1>4, <1>5, <2>1, ReorderIs
  <2>3. Good(s) /\ s.l = ReorderAfter(launcher, icon, icon_before)
    BY <1>1, <2>2, OtherLauncher DEF Shuffled
  <2> HIDE DEF s
  <2>4. Alive(s.l) /\ icon \in ToSet(s.l.inner) /\ Steady(s.l, icon[1])
    <3>1. Alive(s.l)
      BY <1>1, <2>2, <2>3, ShuffledAlive
    <3> QED BY <1>3, <1>4, <1>5, <2>2, <2>3, <3>1 DEF Shuffled, Same, Steady
  <2>5. Alive(Stick(s, icon, TRUE).l) /\ Known(Stick(s, icon, TRUE)) /\ Agrees(Stick(s, icon, TRUE))
    BY <2>3, <2>4, StickLife
  <2> QED BY <1>5, <2>5, UpdateFits
<1>6. CASE icon = NullIcon /\ Update(SaveIconsOrder(CreateFavoriteIcon(State, a, p)))
  <2>1. p \in Int
    BY <1>1
  <2>2. a \notin State.l.seen /\ HasRoom(State.l, a) /\ Steady(State.l, a)
    <3>1. \A j \in ToSet(launcher.inner) : j[1] # a
      BY <1>4, <1>6
    <3> QED BY <1>1, <1>2, <1>3, <3>1 DEF Alive
  <2> HIDE DEF p
  <2> DEFINE t == SaveIconsOrder(CreateFavoriteIcon(State, a, p))
  <2>3. Alive(CreateFavoriteIcon(State, a, p).l) /\ t.l = CreateFavoriteIcon(State, a, p).l /\ Known(t) /\ Agrees(t)
    BY <1>1, <2>1, <2>2, CreateLife
  <2>4. Update(t)
    BY <1>6
  <2> HIDE DEF t
  <2>5. Alive(t.l)
    BY <2>3
  <2> QED BY <2>3, <2>4, <2>5, UpdateFits
<1> QED BY <1>2, <1>5, <1>6

LEMMA StickyStateFits ==
  ASSUME "races" \notin Inputs, Well, LifeInv, NEW a \in Applications, NEW sticky \in BOOLEAN,
         OnLauncherUpdateIconStickyState(a, sticky)
  PROVE  Fits
<1> DEFINE icon == GetIconByUri(launcher, a)
           p == GetLastIconPriority(launcher, TRUE)
<1>1. /\ Good(State) /\ State.l = launcher /\ State.f = favorites /\ Alive(State.l) /\ Alive(launcher)
      /\ Fit(launcher) /\ Ranked(launcher) /\ Known(State) /\ launcher.inner \in Seq(Icons)
      /\ ToSet(launcher.inner) \subseteq Icons
  BY LifeIs
<1>2. /\ HasRoom(launcher, a) /\ Settled(a)
      /\ \/ Update(State)
         \/ icon # NullIcon /\ Update(Stick(State, icon, TRUE))
         \/ icon # NullIcon /\ IsSticky(launcher, icon) /\ Update(UnStick(State, icon))
         \/ icon = NullIcon /\ Update(SaveIconsOrder(CreateFavoriteIcon(State, a, p)))
         \/ icon = NullIcon /\ Contains(favorites, a) /\ Update(RemoveFavorite(State, a))
  <2> HIDE DEF icon, p
  <2>1. \A A, B \in BOOLEAN : ~(A = B) /\ ~B => A
    OBVIOUS
  <2>2. IsSticky(launcher, icon) \in BOOLEAN /\ Contains(favorites, a) \in BOOLEAN
    BY DEF IsSticky, Contains
  <2>3. HasRoom(launcher, a) /\ Settled(a)
    BY DEF OnLauncherUpdateIconStickyState
  <2>4. Update(IF icon # NullIcon
               THEN IF IsSticky(launcher, icon) = sticky THEN State
                    ELSE IF sticky THEN Stick(State, icon, TRUE) ELSE UnStick(State, icon)
               ELSE IF Contains(favorites, a) = sticky THEN State
               ELSE IF sticky THEN SaveIconsOrder(CreateFavoriteIcon(State, a, p))
                    ELSE RemoveFavorite(State, a))
    BY DEF OnLauncherUpdateIconStickyState, icon, p
  <2>5. CASE icon # NullIcon
    <3>1. Update(IF IsSticky(launcher, icon) = sticky THEN State
                 ELSE IF sticky THEN Stick(State, icon, TRUE) ELSE UnStick(State, icon))
      BY <2>4, <2>5
    <3> QED BY <2>1, <2>2, <2>3, <2>5, <3>1
  <2>6. CASE icon = NullIcon
    <3>1. Update(IF Contains(favorites, a) = sticky THEN State
                 ELSE IF sticky THEN SaveIconsOrder(CreateFavoriteIcon(State, a, p))
                      ELSE RemoveFavorite(State, a))
      BY <2>4, <2>6
    <3> QED BY <2>1, <2>2, <2>3, <2>6, <3>1
  <2> QED BY <2>5, <2>6
<1>3. Steady(State.l, a) /\ HasRoom(State.l, a)
  BY <1>1, <1>2, SettledIs
<1>4. \/ icon = NullIcon /\ \A j \in ToSet(launcher.inner) : j[1] # a
      \/ icon \in ToSet(launcher.inner) /\ icon \in Icons /\ icon # NullIcon /\ icon[1] = a
  BY <1>1, GetIconByUriIs
<1>5. p \in Int
  BY <1>1, GetLastIconPriorityIs
<1>6. favorites \in Seq(Uris)
  BY LifeIs
<1> HIDE DEF icon, p, State
<1>7. CASE Update(State)
  BY <1>1, <1>7, UpdateFits
<1>8. CASE icon # NullIcon /\ Update(Stick(State, icon, TRUE))
  <2>1. icon \in ToSet(State.l.inner) /\ Steady(State.l, icon[1])
    BY <1>1, <1>3, <1>4, <1>8
  <2>2. Alive(Stick(State, icon, TRUE).l) /\ Known(Stick(State, icon, TRUE)) /\ Agrees(Stick(State, icon, TRUE))
    BY <1>1, <2>1, StickLife
  <2> QED BY <1>8, <2>2, UpdateFits
<1>9. CASE icon # NullIcon /\ IsSticky(launcher, icon) /\ Update(UnStick(State, icon))
  <2>1. IsInjective(State.f) /\ \A b \in Applications \ {icon[1]} : b \in State.l.sticky <=> b \in ToSet(State.f)
    BY <1>1 DEF Known
  <2>2. IsSticky(State.l, icon) /\ icon \in ToSet(State.l.inner)
    BY <1>1, <1>4, <1>9
  <2> DEFINE t == UnStick(State, icon)
  <2>3. /\ Alive(t.l) /\ Known(t)
        /\ (\A i, j \in StickyHere(State.l) \ {icon} :
              Before(State.l.inner, i, j) => Before(State.f, i[1], j[1])) => Agrees(t)
    BY <1>1, <2>1, <2>2, UnStickLife
  <2> HIDE DEF t
  <2>4. Agrees(State) => Agrees(t)
    BY <2>3 DEF Agrees
  <2>5. Update(t)
    BY <1>9 DEF t
  <2> QED BY <2>3, <2>4, <2>5, UpdateFits
<1>10. CASE icon = NullIcon /\ Update(SaveIconsOrder(CreateFavoriteIcon(State, a, p)))
  <2>1. a \notin State.l.seen
    <3>1. \A j \in ToSet(launcher.inner) : j[1] # a
      BY <1>4, <1>10
    <3> QED BY <1>1, <3>1 DEF Alive
  <2> DEFINE t == SaveIconsOrder(CreateFavoriteIcon(State, a, p))
  <2>2. Alive(CreateFavoriteIcon(State, a, p).l) /\ t.l = CreateFavoriteIcon(State, a, p).l /\ Known(t) /\ Agrees(t)
    BY <1>1, <1>3, <1>5, <2>1, CreateLife
  <2>3. Update(t)
    BY <1>10
  <2> HIDE DEF t
  <2>4. Alive(t.l)
    BY <2>2
  <2> QED BY <2>2, <2>3, <2>4, UpdateFits
<1>11. ~(icon = NullIcon /\ Contains(favorites, a))
  <2> SUFFICES ASSUME icon = NullIcon, Contains(favorites, a) PROVE FALSE
    OBVIOUS
  <2>1. a \in ToSet(favorites)
    BY <1>6, Elements
  <2>2. a \in launcher.sticky
    BY <1>1, <2>1 DEF Known
  <2>3. PICK i \in launcher.stuck : i[1] = a
    BY <1>1, <2>2 DEF Alive
  <2>4. i \in ToSet(launcher.inner)
    BY <1>1 DEF Alive
  <2> QED BY <1>4, <2>3, <2>4
<1> QED BY <1>2, <1>7, <1>8, <1>9, <1>10, <1>11

LEMMA FavoriteRemovedFits ==
  ASSUME "races" \notin Inputs, Well, LifeInv, NEW a \in Applications, FavoriteRemoved(a)
  PROVE  Fits
<1> DEFINE s == RemoveFavorite(State, a)
           icon == GetIconByUri(launcher, a)
           t == UnStick(s, icon)
           f == favorites
           g == Without(f, a)
<1>1. /\ Good(State) /\ State.l = launcher /\ State.f = f /\ Alive(launcher)
      /\ launcher.inner \in Seq(Icons) /\ ToSet(launcher.inner) \subseteq Icons
      /\ f \in Seq(Uris) /\ IsInjective(f)
      /\ \A b \in Applications : b \in launcher.sticky <=> b \in ToSet(f)
  BY LifeIs
<1>2. Contains(f, a) /\ (icon # NullIcon => Update(t))
  BY DEF FavoriteRemoved
<1>3. a \in launcher.sticky
  BY <1>1, <1>2, Elements
<1>4. PICK i \in launcher.stuck : i[1] = a
  BY <1>1, <1>3 DEF Alive
<1>5. i \in StickyHere(launcher) /\ i \in ToSet(launcher.inner) /\ IsSticky(launcher, i)
  <2>1. i \in ToSet(launcher.inner)
    BY <1>1 DEF Alive
  <2>2. IsSticky(launcher, i)
    BY <1>3, <1>4 DEF IsSticky
  <2> QED BY <1>1, <2>1, <2>2 DEF StickyHere, StickyIcons
<1>6. icon = i /\ icon # NullIcon
  <2>1. Firm(launcher)
    BY <1>1, AliveFirm
  <2>2. GetIconByUri(launcher, i[1]) = i
    BY <1>1, <1>5, <2>1, FirmIs
  <2>3. i \in Icons
    BY <1>1, <1>5
  <2> QED BY <1>4, <2>2, <2>3, IconsAre
<1> HIDE DEF icon, State
<1>7. Good(s) /\ s.l = launcher /\ s.f = g
  BY <1>1, RemoveFavoriteWell
<1>8. /\ g \in Seq(Uris) /\ ToSet(g) = ToSet(f) \cap (ToSet(f) \ {a}) /\ IsInjective(g)
      /\ \A x, y : Before(g, x, y) <=> x \in ToSet(f) \ {a} /\ y \in ToSet(f) \ {a} /\ Before(f, x, y)
  <2>1. g = Only(f, ToSet(f) \ {a})
    BY DEF Without
  <2> HIDE DEF g, f
  <2>2. LET u == Only(f, ToSet(f) \ {a})
        IN  /\ u \in Seq(Uris) /\ ToSet(u) = ToSet(f) \cap (ToSet(f) \ {a}) /\ IsInjective(u)
            /\ \A x, y : Before(u, x, y) <=> x \in ToSet(f) \ {a} /\ y \in ToSet(f) \ {a} /\ Before(f, x, y)
    BY <1>1, OnlyIs
  <2> QED BY <2>1, <2>2
<1> HIDE DEF s, g
<1>9. /\ Alive(s.l) /\ icon \in ToSet(s.l.inner) /\ IsSticky(s.l, icon) /\ IsInjective(s.f)
      /\ \A b \in Applications \ {icon[1]} : b \in s.l.sticky <=> b \in ToSet(s.f)
  BY <1>1, <1>4, <1>5, <1>6, <1>7, <1>8
<1>10. /\ Alive(t.l) /\ Known(t)
       /\ (\A j, k \in StickyHere(s.l) \ {icon} : Before(s.l.inner, j, k) => Before(s.f, j[1], k[1])) => Agrees(t)
  BY <1>7, <1>9, UnStickLife
<1> HIDE DEF t
<1>11. ASSUME Agrees(State) PROVE Agrees(t)
  <2> SUFFICES ASSUME NEW j \in StickyHere(launcher) \ {icon}, NEW k \in StickyHere(launcher) \ {icon},
                      Before(launcher.inner, j, k)
               PROVE  Before(g, j[1], k[1])
    BY <1>7, <1>10
  <2>1. Before(f, j[1], k[1])
    BY <1>1, <1>11 DEF Agrees
  <2>2. j[1] \in ToSet(f) /\ k[1] \in ToSet(f)
    BY <1>1, <2>1, BeforeIs DEF f
  <2>3. OneEach(launcher)
    BY <1>1, AliveFirm, FirmIs
  <2>4. j[1] # a /\ k[1] # a
    BY <1>4, <1>5, <1>6, <2>3 DEF OneEach
  <2> QED BY <1>8, <2>1, <2>2, <2>4
<1>12. Update(t)
  BY <1>2, <1>6
<1> QED BY <1>10, <1>11, <1>12, UpdateFits

LEMMA RunningAppsRemovedFits ==
  ASSUME Well, LifeInv, RunningAppsRemoved
  PROVE  Fits
<1> DEFINE s == RemoveFavorite(State, RUNNING_APPS_URI)
           r == ResetIconPriorities(s)
<1>1. Good(State) /\ State.l = launcher /\ Alive(launcher)
  BY LifeIs
<1>2. Update(SaveIconsOrder(r))
  BY DEF RunningAppsRemoved
<1> HIDE DEF State
<1>3. Good(s) /\ s.l = launcher
  BY <1>1, RemoveFavoriteWell
<1> HIDE DEF s
<1>4. Good(r) /\ Shuffled(r.l, s.l)
  BY <1>3, ResetWell
<1> HIDE DEF r
<1>5. Alive(r.l)
  BY <1>1, <1>3, <1>4, ShuffledAlive
<1> DEFINE t == SaveIconsOrder(r)
<1>6. t.l = r.l /\ Known(t) /\ Agrees(t)
  BY <1>4, <1>5, SaveLife
<1>7. Update(t)
  BY <1>2
<1> HIDE DEF t
<1> QED BY <1>5, <1>6, <1>7, UpdateFits

LEMMA ReorderedFits ==
  ASSUME Well, LifeInv, NEW uri \in Uris, NEW n, Reordered(uri, n)
  PROVE  Fits
<1> DEFINE g == InsertAt(Without(favorites, uri), n, uri)
           s == [State EXCEPT !.f = g]
           t == ResetIconPriorities(s)
<1>1. /\ Alive(launcher) /\ launcher.inner \in Seq(Icons) /\ ToSet(launcher.inner) \subseteq Icons
      /\ favorites \in Seq(Uris) /\ IsInjective(favorites)
      /\ \A b \in Applications : b \in launcher.sticky <=> b \in ToSet(favorites)
  BY LifeIs
<1>2. uri \in ToSet(favorites)
  <2>1. Contains(favorites, uri)
    BY DEF Reordered
  <2> QED BY <1>1, <2>1, Elements
<1>3. /\ Good(s) /\ s.l = launcher /\ s.f = g /\ Update(t)
      /\ IsInjective(g) /\ ToSet(g) = ToSet(favorites)
  BY <1>1, <1>2, ReorderedWell
<1> HIDE DEF g, s
<1>4. Alive(s.l) /\ Known(s) /\ IsInjective(s.f)
  BY <1>1, <1>3 DEF Known
<1>5. Listed(s) /\ Firm(s.l)
  BY <1>1, <1>3, <1>4, KnownListed, AliveFirm
<1>6. Agrees(t)
  BY <1>3, <1>4, <1>5, ResetAgrees DEF Good
<1>7. t.f = s.f /\ Shuffled(t.l, s.l)
  BY <1>3, ResetWell
<1> HIDE DEF t
<1>8. Alive(t.l)
  BY <1>4, <1>7, ShuffledAlive
<1>9. Known(t)
  BY <1>4, <1>7 DEF Known, Shuffled, Same
<1> QED BY <1>3, <1>6, <1>8, <1>9, UpdateFits

\* The icon of a new favorite, before it finds its place
LEMMA AddedLife ==
  ASSUME NEW s, Good(s), Alive(s.l), NEW a \in Applications, HasRoom(s.l, a), a \notin s.l.sticky, Steady(s.l, a)
  PROVE  LET k    == Added(s, a)
             icon == GetIconByUri(k.l, a)
         IN  /\ Good(k) /\ k.f = s.f /\ Alive(k.l) /\ k.l.sticky = s.l.sticky \cup {a}
             /\ icon \in ToSet(k.l.inner) /\ icon[1] = a
             /\ StickyHere(k.l) = StickyHere(s.l) \cup {icon} /\ icon \notin StickyHere(s.l)
             /\ ToSet(s.l.inner) \subseteq ToSet(k.l.inner) /\ OthersKept(k.l, s.l, icon)
<1> DEFINE k == Added(s, a)
           fav == GetIconByUri(s.l, a)
           icon == GetIconByUri(k.l, a)
<1>1. s \in States /\ s.l.inner \in Seq(Icons) /\ ToSet(s.l.inner) \subseteq Icons /\ Fit(s.l) /\ Ranked(s.l)
  <2>1. s \in States /\ s.l.inner \in Seq(Icons) /\ Fit(s.l) /\ Ranked(s.l)
    BY DEF Good, Fit, Launchers
  <2> QED BY <2>1, Elements
<1>2. \A i : i[1] = a => ~IsSticky(s.l, i)
  BY DEF IsSticky
<1>3. /\ Good(k) /\ k.f = s.f /\ Alive(k.l)
      /\ \E i \in Icons : /\ i[1] = a /\ ToSet(k.l.inner) = ToSet(s.l.inner) \cup {i} /\ OthersKept(k.l, s.l, i)
                          /\ k.l.sticky = s.l.sticky \cup {a} /\ k.l.stuck = s.l.stuck \cup {i}
  <2>1. CASE fav # NullIcon
    <3>1. fav \in ToSet(s.l.inner) /\ fav \in Icons /\ fav[1] = a
      BY <1>1, <2>1, GetIconByUriIs
    <3>2. FALSE \in BOOLEAN /\ ~IsSticky(s.l, fav)
      BY <1>2, <3>1
    <3>3. k = Stick(s, fav, FALSE)
      BY <2>1 DEF Added
    <3> HIDE DEF fav
    <3>4. /\ Good(Stick(s, fav, FALSE)) /\ Held(Stick(s, fav, FALSE).l, s.l, fav)
          /\ Stick(s, fav, FALSE).f = s.f /\ Stick(s, fav, FALSE).l.inner = s.l.inner
      BY <3>1, <3>2, StickIs
    <3> HIDE DEF k
    <3>5. Good(k) /\ Held(k.l, s.l, fav) /\ k.f = s.f /\ k.l.inner = s.l.inner
      BY <3>3, <3>4
    <3>6. Alive(k.l)
      BY <3>1, <3>5, HeldAlive
    <3>7. /\ ToSet(k.l.inner) = ToSet(s.l.inner) \cup {fav} /\ OthersKept(k.l, s.l, fav)
          /\ k.l.sticky = s.l.sticky \cup {a} /\ k.l.stuck = s.l.stuck \cup {fav}
      BY <3>1, <3>5 DEF Held, OthersKept
    <3> QED BY <3>1, <3>5, <3>6, <3>7
  <2>2. CASE fav = NullIcon
    <3>1. \A j \in ToSet(s.l.inner) : j[1] # a
      BY <1>1, <2>2, GetIconByUriIs, IconsAre
    <3>2. a \notin s.l.seen
      BY <3>1 DEF Alive
    <3> DEFINE p == DefaultPriority(s.l)
    <3>3. p \in Int
      BY <1>1 DEF DefaultPriority, Fit, Launchers
    <3>4. k = CreateFavoriteIcon(s, a, p)
      BY <2>2 DEF Added
    <3> HIDE DEF p, k
    <3>5. /\ Good(k) /\ k.f = s.f
          /\ \E i \in Icons : i[1] = a /\ i \notin ToSet(s.l.inner) /\ Created(k.l, s.l, i)
      BY <3>2, <3>3, <3>4, CreateFavoriteIconIs
    <3>6. PICK i \in Icons : i[1] = a /\ i \notin ToSet(s.l.inner) /\ Created(k.l, s.l, i)
      BY <3>5
    <3>7. Alive(k.l)
      BY <3>2, <3>6, CreatedAlive
    <3>8. /\ ToSet(k.l.inner) = ToSet(s.l.inner) \cup {i} /\ OthersKept(k.l, s.l, i)
          /\ k.l.sticky = s.l.sticky \cup {a} /\ k.l.stuck = s.l.stuck \cup {i}
      BY <3>6 DEF Created
    <3> QED BY <3>5, <3>6, <3>7, <3>8
  <2> QED BY <2>1, <2>2
<1> HIDE DEF k, fav
<1>4. PICK i \in Icons : /\ i[1] = a /\ ToSet(k.l.inner) = ToSet(s.l.inner) \cup {i} /\ OthersKept(k.l, s.l, i)
                         /\ k.l.sticky = s.l.sticky \cup {a} /\ k.l.stuck = s.l.stuck \cup {i}
  BY <1>3
<1>5. i \in StickyHere(k.l) /\ i \notin StickyHere(s.l)
  BY <1>2, <1>4 DEF StickyHere, StickyIcons, IsSticky
<1>6. icon = i
  <2>1. k.l.inner \in Seq(Icons) /\ Firm(k.l)
    BY <1>3, AliveFirm DEF Good, Fit, Launchers
  <2>2. GetIconByUri(k.l, i[1]) = i
    BY <1>5, <2>1, FirmIs
  <2> QED BY <1>4, <2>2
<1>7. StickyHere(k.l) = StickyHere(s.l) \cup {i}
  <2>1. \A j \in StickyHere(k.l) : j = i \/ j \in StickyHere(s.l)
    <3> TAKE j \in StickyHere(k.l)
    <3>1. j \in Icons /\ j \in k.l.stuck /\ j[1] \in k.l.sticky
      BY DEF StickyHere, StickyIcons, IsSticky
    <3>2. CASE j # i
      <4>1. j \in s.l.stuck
        BY <1>4, <3>1, <3>2
      <4>2. j[1] \in s.l.sticky /\ j \in ToSet(s.l.inner)
        BY <4>1 DEF Alive
      <4> QED BY <3>1, <4>1, <4>2 DEF StickyHere, StickyIcons, IsSticky
    <3> QED BY <3>2
  <2>2. \A j \in StickyHere(s.l) : j \in StickyHere(k.l)
    BY <1>4 DEF StickyHere, StickyIcons, IsSticky
  <2> QED BY <1>5, <2>1, <2>2
<1> QED BY <1>3, <1>4, <1>5, <1>6, <1>7 DEF k

LEMMA FavoriteAddedLife ==
  ASSUME "races" \notin Inputs, Well, LifeInv, NEW a \in Applications, NEW n, FavoriteAdded(a, n)
  PROVE  Alive(launcher') /\ Known(State')
<1> DEFINE s == [State EXCEPT !.f = InsertAt(@, n, a)]
           k == Added(s, a)
           t == OnFavoriteStoreFavoriteAdded(s, n)
<1>1. /\ Good(s) /\ n \in 1..Len(s.f) /\ s.l = launcher /\ s.f = InsertAt(favorites, n, a)
      /\ s.f[n] = a /\ Update(t) /\ HasRoom(launcher, a)
  BY FavoriteAddedWell
<1>2. /\ Alive(launcher) /\ favorites \in Seq(Uris) /\ IsInjective(favorites)
      /\ \A b \in Applications : b \in launcher.sticky <=> b \in ToSet(favorites)
  BY LifeIs
<1>3. ~Contains(favorites, a) /\ Settled(a) /\ n \in 1..(Len(favorites) + 1)
  BY DEF FavoriteAdded
<1>4. a \notin ToSet(favorites) /\ a \notin launcher.sticky /\ Steady(launcher, a) /\ a \in Uris
  BY <1>2, <1>3, Elements, SettledIs, IconsAre
<1>5. IsInjective(s.f) /\ ToSet(s.f) = ToSet(favorites) \cup {a}
  BY <1>1, <1>2, <1>3, <1>4, InsertOrder
<1> HIDE DEF s
<1>6. Good(k) /\ k.f = s.f /\ Alive(k.l) /\ k.l.sticky = launcher.sticky \cup {a}
  BY <1>1, <1>2, <1>4, AddedLife
<1>7. t.f = s.f /\ Shuffled(t.l, k.l)
  BY <1>1, OnFavoriteStoreFavoriteAddedIs
<1> HIDE DEF k, t
<1>8. Alive(t.l)
  BY <1>6, <1>7, ShuffledAlive
<1>9. t.l.sticky = launcher.sticky \cup {a}
  BY <1>6, <1>7 DEF Shuffled, Same
<1>10. Known(t)
  BY <1>2, <1>5, <1>7, <1>9 DEF Known
<1> QED BY <1>1, <1>8, <1>10, UpdateLife

LEMMA StartIconDragLife ==
  ASSUME "races" \notin Inputs, Well, LifeInv, NEW icon \in Icons, StartIconDrag(icon)
  PROVE  LifeInv'
<1>1. drag'.icon = icon /\ icon \in ToSet(launcher.inner) /\ UNCHANGED <<launcher, favorites>>
  BY StartIconDragIs
<1>2. Settled(icon[1])
  BY DEF StartIconDrag
<1>3. Steady(launcher, icon[1])
  BY <1>2, SettledIs
<1>4. Alive(launcher') /\ Known(State')
  BY <1>1 DEF LifeInv, State
<1>5. drag'.icon \in ToSet(launcher'.inner) /\ Steady(launcher', drag'.icon[1])
  BY <1>1, <1>3
<1> QED BY <1>4, <1>5, LifeNext

LEMMA MovedLife ==
  ASSUME Well, LifeInv, Shuffled(launcher', launcher), UNCHANGED favorites,
         drag' = NoDrag \/ (drag # NoDrag /\ drag' = drag)
  PROVE  LifeInv'
<1>1. Alive(launcher')
  BY ShuffledAlive DEF LifeInv
<1>2. /\ launcher'.sticky = launcher.sticky /\ ToSet(launcher'.inner) = ToSet(launcher.inner)
      /\ launcher'.closing = launcher.closing /\ launcher'.removed = launcher.removed
  BY DEF Shuffled, Same
<1>3. State'.l = launcher' /\ State'.f = favorites' /\ State.l = launcher /\ State.f = favorites /\ Known(State)
  BY DEF State, LifeInv
<1> HIDE DEF State
<1>4. Known(State')
  BY <1>2, <1>3 DEF Known
<1>5. drag' # NoDrag => drag'.icon \in ToSet(launcher'.inner) /\ Steady(launcher', drag'.icon[1])
  BY <1>2 DEF LifeInv, Steady
<1> QED BY <1>1, <1>4, <1>5, LifeNext

\* What the end of a drag on the launcher leaves
LEMMA EndDragLife ==
  ASSUME Well, LifeInv, EndIconDrag
  PROVE  /\ Alive(launcher') /\ Known(State') /\ LifeInv'
         /\ Index(launcher.inner, drag.icon) # drag.position => Agrees(State')
         /\ Index(launcher.inner, drag.icon) = drag.position => UNCHANGED <<launcher, favorites>>
<1>1. Good(State) /\ State.l = launcher /\ State.f = favorites /\ Alive(State.l) /\ Known(State)
  BY LifeIs
<1>2. /\ drag # NoDrag /\ drag' = NoDrag
      /\ Index(launcher.inner, drag.icon) = drag.position => Update(State)
      /\ Index(launcher.inner, drag.icon) # drag.position => Update(Stick(State, drag.icon, TRUE))
  BY DEF EndIconDrag
<1>3. drag.icon \in ToSet(State.l.inner) /\ Steady(State.l, drag.icon[1])
  BY <1>1, <1>2 DEF LifeInv
<1> HIDE DEF State
<1>4. /\ Alive(Stick(State, drag.icon, TRUE).l) /\ Known(Stick(State, drag.icon, TRUE))
      /\ Agrees(Stick(State, drag.icon, TRUE))
  BY <1>1, <1>3, StickLife
<1>5. Alive(launcher') /\ Known(State')
  BY <1>1, <1>2, <1>4, UpdateLife
<1>6. Index(launcher.inner, drag.icon) # drag.position => Agrees(State')
  BY <1>2, <1>4, UpdateLife
<1>7. Index(launcher.inner, drag.icon) = drag.position => UNCHANGED <<launcher, favorites>>
  BY <1>1, <1>2 DEF Update
<1> QED BY <1>2, <1>5, <1>6, <1>7, LifeNext

LEMMA DropLife ==
  ASSUME Well, LifeInv, DropOnTrash
  PROVE  /\ LifeInv'
         /\ (\A i, j \in StickyHere(launcher) \ {drag.icon} :
               Before(launcher.inner, i, j) => Before(favorites, i[1], j[1]))
              => Agrees(State')
<1> DEFINE icon == drag.icon
           t == UnStick(State, icon)
           P == \A i, j \in StickyHere(launcher) \ {icon} :
                  Before(launcher.inner, i, j) => Before(favorites, i[1], j[1])
<1>1. /\ Good(State) /\ State.l = launcher /\ State.f = favorites /\ Alive(State.l) /\ Known(State)
      /\ launcher.inner \in Seq(Icons) /\ ToSet(launcher.inner) \subseteq Icons
  BY LifeIs
<1>2. drag # NoDrag /\ drag' = NoDrag /\ Update(t)
  BY DEF DropOnTrash
<1>3. icon \in ToSet(State.l.inner)
  BY <1>1, <1>2 DEF LifeInv
<1>4. IsInjective(State.f) /\ \A b \in Applications \ {icon[1]} : b \in State.l.sticky <=> b \in ToSet(State.f)
  BY <1>1 DEF Known
<1> HIDE DEF State, icon
<1>5. CASE IsSticky(State.l, icon)
  <2>1. /\ Alive(t.l) /\ Known(t)
        /\ (\A i, j \in StickyHere(State.l) \ {icon} :
              Before(State.l.inner, i, j) => Before(State.f, i[1], j[1])) => Agrees(t)
    BY <1>1, <1>3, <1>4, <1>5, UnStickLife
  <2> HIDE DEF t
  <2>2. P => Agrees(t)
    BY <1>1, <2>1
  <2> HIDE DEF P
  <2>3. Alive(launcher') /\ Known(State') /\ (P => Agrees(State'))
    BY <1>2, <2>1, <2>2, UpdateLife
  <2>4. LifeInv'
    BY <1>2, <2>3, LifeNext
  <2> QED BY <2>3, <2>4 DEF P, icon
<1>6. CASE ~IsSticky(State.l, icon)
  <2>1. t = State
    BY <1>1, <1>6, UnStickIs DEF Good
  <2>2. icon \notin StickyHere(State.l)
    BY <1>6 DEF StickyHere, StickyIcons
  <2>3. P => Agrees(State)
    BY <1>1, <1>4, <2>2 DEF Agrees
  <2> HIDE DEF P, t
  <2>4. Update(State)
    BY <1>2, <2>1
  <2>5. Alive(launcher') /\ Known(State') /\ (P => Agrees(State'))
    BY <1>1, <2>3, <2>4, UpdateLife
  <2>6. LifeInv'
    BY <1>2, <2>5, LifeNext
  <2> QED BY <2>5, <2>6 DEF P, icon
<1> QED BY <1>5, <1>6

LEMMA LifeInit ==
  ASSUME Init
  PROVE  LifeInv /\ Agrees(State)
<1> DEFINE l == launcher
           f == favorites
<1>1. /\ Well /\ drag = NoDrag /\ IsInjective(f)
      /\ l.removed = {} /\ l.closing = {} /\ l.running = {}
      /\ l.stuck = ToSet(l.inner) /\ l.visible = ToSet(l.inner)
      /\ l.seen = l.sticky
      /\ l.sticky = ToSet(f) \ {RUNNING_APPS_URI}
      /\ \A a \in l.sticky : <<a, 1>> \in ToSet(l.inner)
      /\ \A i \in ToSet(l.inner) : i[1] \in l.sticky /\ i = <<i[1], 1>>
      /\ \A i, j : Before(l.inner, i, j) => Before(f, i[1], j[1])
  BY InitIs
<1>2. State.l = l /\ State.f = f
  BY DEF State
<1> HIDE DEF l, f, State
<1>3. Alive(l)
  <2>1. /\ l.closing \cup l.removed \cup l.stuck \cup l.visible \subseteq ToSet(l.inner)
        /\ l.closing \cap l.removed = {} /\ l.removed \cap l.visible = {}
        /\ \A i \in l.closing \cup l.removed : i[1] \notin l.sticky
        /\ \A i \in l.stuck : i[1] \in l.sticky
        /\ \A a \in l.running : \E i \in l.visible \ l.closing : i[1] = a
    BY <1>1
  <2>2. \A i, j \in ToSet(l.inner) \ l.removed : i[1] = j[1] => i = j
    <3> TAKE i, j \in ToSet(l.inner) \ l.removed
    <3>1. i = <<i[1], 1>> /\ j = <<j[1], 1>>
      BY <1>1
    <3> QED BY <3>1
  <2>3. \A a : <<a, 1>>[1] = a
    OBVIOUS
  <2>4. \A a \in l.sticky : \E i \in l.stuck \cap l.visible : i[1] = a
    BY <1>1, <2>3
  <2>5. \A a \in Applications : a \in l.seen <=> \E i \in ToSet(l.inner) \ l.removed : i[1] = a
    BY <1>1, <2>3
  <2> QED BY <2>1, <2>2, <2>4, <2>5 DEF Alive
<1>4. Known(State)
  BY <1>1, <1>2, IconsAre DEF Known
<1>5. Agrees(State)
  BY <1>1, <1>2 DEF Agrees
<1> QED BY <1>1, <1>3, <1>4, <1>5 DEF LifeInv, l

LEMMA LifeStep ==
  ASSUME "races" \notin Inputs
  PROVE  OrderedInv /\ LifeInv /\ [Next]_vars => LifeInv'
<1> SUFFICES ASSUME Well, DragInv, LifeInv, [Next]_vars PROVE LifeInv'
  BY DEF OrderedInv
<1>1. ASSUME NEW a \in Applications, ApplicationStarts(a) PROVE LifeInv'
  <2>1. Calm /\ UNCHANGED drag
    BY <1>1, StartsLife DEF ApplicationStarts
  <2> QED BY <2>1, CalmLife
<1>2. ASSUME NEW a \in Applications, ApplicationCloses(a) PROVE LifeInv'
  <2>1. Calm /\ UNCHANGED drag
    BY <1>2, ClosesLife DEF ApplicationCloses
  <2> QED BY <2>1, CalmLife
<1>3. ASSUME NEW a \in Applications, FavoriteRemoved(a) PROVE LifeInv'
  <2>1. Fits /\ Settled(a) /\ UNCHANGED drag
    BY <1>3, FavoriteRemovedFits DEF FavoriteRemoved
  <2> QED BY <2>1, FitsLife
<1>4. ASSUME NEW a \in Applications, NEW icon \in Icons, OnLauncherAddRequest(a, icon) PROVE LifeInv'
  <2>1. Fits /\ Settled(a) /\ UNCHANGED drag
    BY <1>4, AddRequestFits DEF OnLauncherAddRequest
  <2> QED BY <2>1, FitsLife
<1>5. ASSUME NEW a \in Applications, NEW sticky \in BOOLEAN, OnLauncherUpdateIconStickyState(a, sticky)
      PROVE  LifeInv'
  <2>1. Fits /\ Settled(a) /\ UNCHANGED drag
    BY <1>5, StickyStateFits DEF OnLauncherUpdateIconStickyState
  <2> QED BY <2>1, FitsLife
<1>6. ASSUME NEW a \in Applications, NEW n, FavoriteAdded(a, n) PROVE LifeInv'
  <2>1. Alive(launcher') /\ Known(State')
    BY <1>6, FavoriteAddedLife
  <2>2. Settled(a) /\ UNCHANGED drag
    BY <1>6 DEF FavoriteAdded
  <2>3. drag' = NoDrag
    BY <2>2, SettledIs
  <2> QED BY <2>1, <2>3, LifeNext
<1>7. ASSUME NEW icon \in Icons, CloseTimeout(icon) PROVE LifeInv'
  <2>1. Calm /\ UNCHANGED drag
    BY <1>7, CloseTimeoutLife DEF CloseTimeout
  <2> QED BY <2>1, CalmLife
<1>8. ASSUME NEW icon \in Icons, RemoveTimeout(icon) PROVE LifeInv'
  <2>1. Calm
    BY <1>8, RemoveTimeoutLife
  <2>2. drag' = NoDrag \/ (drag # NoDrag /\ drag'.icon = drag.icon)
    BY <1>8, RemoveTimeoutDrag
  <2> QED BY <2>1, <2>2, CalmLife
<1>9. ASSUME NEW icon \in Icons, ToggleSticky(icon) PROVE LifeInv'
  <2>1. Fits /\ Settled(icon[1]) /\ UNCHANGED drag
    BY <1>9, ToggleFits DEF ToggleSticky
  <2> QED BY <2>1, FitsLife
<1>10. ASSUME NEW icon \in Icons, StartIconDrag(icon) PROVE LifeInv'
  BY <1>10, StartIconDragLife
<1>11. ASSUME NEW icon \in Icons, UpdateDragWindowPosition(icon) PROVE LifeInv'
  <2>1. Shuffled(launcher', launcher)
    BY <1>11, UpdateDragMoves
  <2>2. UNCHANGED favorites /\ UNCHANGED drag /\ drag # NoDrag
    BY <1>11 DEF UpdateDragWindowPosition
  <2> QED BY <2>1, <2>2, MovedLife
<1>12. ASSUME EndIconDrag PROVE LifeInv'
  BY <1>12, EndDragLife
<1>13. ASSUME DropOnTrash PROVE LifeInv'
  BY <1>13, DropLife
<1>14. ASSUME DragCancel PROVE LifeInv'
  <2>1. Shuffled(launcher', launcher)
    BY <1>14, DragCancelMoves
  <2>2. UNCHANGED favorites /\ drag' = NoDrag
    BY <1>14 DEF DragCancel
  <2> QED BY <2>1, <2>2, MovedLife
<1>15. ASSUME RunningAppsRemoved PROVE LifeInv'
  <2>1. Fits /\ Settled(RUNNING_APPS_URI) /\ UNCHANGED drag
    BY <1>15, RunningAppsRemovedFits DEF RunningAppsRemoved
  <2> QED BY <2>1, FitsLife
<1>16. ASSUME NEW uri \in Uris, NEW n, Reordered(uri, n) PROVE LifeInv'
  <2>1. Fits /\ Settled(uri) /\ UNCHANGED drag
    BY <1>16, ReorderedFits DEF Reordered
  <2> QED BY <2>1, FitsLife
<1>17. ASSUME UNCHANGED vars PROVE LifeInv'
  <2>1. Alive(launcher') /\ Known(State')
    BY <1>17 DEF vars, LifeInv, State
  <2>2. drag' # NoDrag => drag'.icon \in ToSet(launcher'.inner) /\ Steady(launcher', drag'.icon[1])
    BY <1>17 DEF vars, LifeInv
  <2> QED BY <2>1, <2>2, LifeNext
<1> QED
  BY <1>1, <1>2, <1>3, <1>4, <1>5, <1>6, <1>7, <1>8, <1>9, <1>10, <1>11, <1>12, <1>13, <1>14, <1>15, <1>16, <1>17
     DEF Next

LEMMA Living ==
  ASSUME "races" \notin Inputs
  PROVE  Spec => [](OrderedInv /\ LifeInv)
<1>1. Init => OrderedInv /\ LifeInv
  BY OrderedInit, LifeInit
<1>2. OrderedInv /\ LifeInv /\ [Next]_vars => (OrderedInv /\ LifeInv)'
  BY OrderedStep, LifeStep
<1> QED BY <1>1, <1>2, PTL DEF Spec

\* launcher/ApplicationLauncherIcon.cpp:125: an application that runs is on the launcher
\* with one icon, however many applications and icons there are, as long as other programs
\* leave the favorites alone during a drag and nothing sticks to an icon on its way out.
THEOREM RunningShownHolds ==
  ASSUME "races" \notin Inputs
  PROVE  Spec => []RunningShown
<1>1. Well /\ LifeInv => RunningShown
  <2> SUFFICES ASSUME Well, LifeInv, NEW a \in launcher.running
               PROVE  Cardinality(LiveIcons(a) \cap launcher.visible) = 1
    BY DEF RunningShown
  <2>1. Alive(launcher) /\ launcher.inner \in Seq(Icons) /\ ToSet(launcher.inner) \subseteq Icons
    BY LifeIs
  <2>2. PICK i \in launcher.visible : i[1] = a
    BY <2>1 DEF Alive
  <2>3. i \in ToSet(launcher.inner) \ launcher.removed
    BY <2>1, <2>2 DEF Alive
  <2>4. \A j : j \in LiveIcons(a) <=> j[1] = a /\ j \in ToSet(launcher.inner) \ launcher.removed
    BY <2>1, Elements DEF LiveIcons, Live
  <2>5. \A j \in ToSet(launcher.inner) \ launcher.removed : j[1] = a => j = i
    BY <2>1, <2>2, <2>3 DEF Alive
  <2>6. LiveIcons(a) \cap launcher.visible = {i}
    BY <2>2, <2>3, <2>4, <2>5
  <2> QED BY <2>6, FS_Singleton
<1> QED BY <1>1, Living, PTL DEF OrderedInv

\* launcher/LauncherController.cpp, the favorites as they are stored and the icons that
\* are stuck: every favorite has one icon that is there to stay, under the same hypothesis.
THEOREM FavoritesShownHolds ==
  ASSUME "races" \notin Inputs
  PROVE  Spec => []FavoritesShown
<1>1. Well /\ LifeInv => FavoritesShown
  <2> SUFFICES ASSUME Well, LifeInv, NEW a \in Applications, Contains(favorites, a)
               PROVE  \E i \in LiveIcons(a) :
                        /\ LiveIcons(a) = {i} /\ IsSticky(launcher, i)
                        /\ i \in launcher.visible \ launcher.closing
    BY DEF FavoritesShown
  <2>1. /\ Alive(launcher) /\ launcher.inner \in Seq(Icons) /\ ToSet(launcher.inner) \subseteq Icons
        /\ favorites \in Seq(Uris) /\ (a \in launcher.sticky <=> a \in ToSet(favorites))
    BY LifeIs
  <2>2. a \in launcher.sticky
    BY <2>1, Elements
  <2>3. PICK i \in launcher.stuck \cap launcher.visible : i[1] = a
    BY <2>1, <2>2 DEF Alive
  <2>4. i \in ToSet(launcher.inner) \ launcher.removed /\ i \notin launcher.closing
    BY <2>1, <2>2, <2>3 DEF Alive
  <2>5. \A j : j \in LiveIcons(a) <=> j[1] = a /\ j \in ToSet(launcher.inner) \ launcher.removed
    BY <2>1, Elements DEF LiveIcons, Live
  <2>6. \A j \in ToSet(launcher.inner) \ launcher.removed : j[1] = a => j = i
    BY <2>1, <2>3, <2>4 DEF Alive
  <2>7. LiveIcons(a) = {i}
    BY <2>3, <2>4, <2>5, <2>6
  <2>8. IsSticky(launcher, i)
    BY <2>2, <2>3 DEF IsSticky
  <2> QED BY <2>3, <2>4, <2>7, <2>8
<1> QED BY <1>1, Living, PTL DEF OrderedInv

-----------------------------------------------------------------------------
(* The order of the favorites, without races and with neighbours that are shown *)

\* During a drag, all but the dragged icon are in the order of the favorites; the dragged
\* one was when the drag began, and the way back still is where it was
OrderInv ==
  LET S == StickyHere(launcher)
      d == drag.icon
      c == drag.closer.icon
  IN  /\ drag = NoDrag => Agrees(State)
      /\ drag # NoDrag =>
           /\ \A i, j \in S \ {d} : Before(launcher.inner, i, j) => Before(favorites, i[1], j[1])
           /\ S \subseteq ToSet(drag.inner)
           /\ d \in S => \A i \in S \ {d} : Before(drag.inner, i, d) <=> Before(favorites, i[1], d[1])
           /\ c \in Icons => /\ c \in ToSet(launcher.inner)
                             /\ \A i \in S \ {c, d} : Before(launcher.inner, i, c) <=> Before(drag.inner, i, c)

LEMMA OrderOver ==
  ASSUME drag' = NoDrag, Agrees(State')
  PROVE  OrderInv'
BY DEF OrderInv, NoDrag, NullIcon, Agrees, State, StickyHere, StickyIcons, IsSticky, Before, Icons

\* The favorites by which the icons that are there to stay are named
LEMMA StickyNames ==
  ASSUME Well, LifeInv
  PROVE  LET S == StickyHere(launcher)
         IN  /\ S \subseteq Icons /\ S \subseteq ToSet(launcher.inner)
             /\ \A i \in S : i[1] \in ToSet(favorites) /\ i[1] \in Applications
             /\ \A i \in S, j \in ToSet(launcher.inner) : j[1] = i[1] => j = i
             /\ \A a \in ToSet(favorites) \cap Applications : \E i \in S : i[1] = a /\ i \in launcher.visible
<1> DEFINE S == StickyHere(launcher)
<1>1. /\ Alive(launcher) /\ launcher.inner \in Seq(Icons) /\ ToSet(launcher.inner) \subseteq Icons
      /\ \A a \in Applications : a \in launcher.sticky <=> a \in ToSet(favorites)
  BY LifeIs
<1>2. \A i : i \in S <=> i \in launcher.stuck /\ i[1] \in launcher.sticky
  BY <1>1 DEF StickyHere, StickyIcons, IsSticky, Alive
<1>3. S \subseteq Icons /\ S \subseteq ToSet(launcher.inner)
  BY <1>1 DEF StickyHere
<1>4. \A i \in S, j \in ToSet(launcher.inner) : j[1] = i[1] => j = i
  BY <1>1, AliveFirm, FirmIs
<1> HIDE DEF S
<1>5. \A i \in S : i[1] \in ToSet(favorites) /\ i[1] \in Applications
  BY <1>1, <1>2, <1>3, IconsAre
<1>6. \A a \in ToSet(favorites) \cap Applications : \E i \in S : i[1] = a /\ i \in launcher.visible
  <2> TAKE a \in ToSet(favorites) \cap Applications
  <2>1. a \in launcher.sticky
    BY <1>1
  <2>2. PICK i \in launcher.stuck \cap launcher.visible : i[1] = a
    BY <1>1, <2>1 DEF Alive
  <2> QED BY <1>2, <2>1, <2>2
<1> QED BY <1>3, <1>4, <1>5, <1>6 DEF S

\* An order in which the dragged icon has the place it was taken from
LEMMA DragOrder ==
  ASSUME Well, LifeInv, OrderInv, drag # NoDrag, NEW q \in Seq(Icons), IsInjective(q),
         StickyHere(launcher) \subseteq ToSet(q),
         \A i, j \in StickyHere(launcher) \ {drag.icon} : Before(q, i, j) => Before(launcher.inner, i, j),
         drag.icon \in StickyHere(launcher) =>
           \A i \in StickyHere(launcher) \ {drag.icon} : Before(q, i, drag.icon) <=> Before(drag.inner, i, drag.icon)
  PROVE  \A i, j \in StickyHere(launcher) : Before(q, i, j) => Before(favorites, i[1], j[1])
<1> DEFINE S == StickyHere(launcher)
           d == drag.icon
           f == favorites
<1>1. /\ \A i, j \in S \ {d} : Before(launcher.inner, i, j) => Before(f, i[1], j[1])
      /\ d \in S => \A i \in S \ {d} : Before(drag.inner, i, d) <=> Before(f, i[1], d[1])
  BY DEF OrderInv
<1>2. /\ f \in Seq(Uris) /\ IsInjective(f)
      /\ \A i \in S : i[1] \in ToSet(f)
      /\ \A i, j \in S : i[1] = j[1] => i = j
  BY LifeIs, StickyNames
<1> HIDE DEF S, d, f
<1> SUFFICES ASSUME NEW i \in S, NEW j \in S, Before(q, i, j)
             PROVE  Before(f, i[1], j[1])
  BY DEF S, f
<1>3. i # j /\ ~Before(q, j, i)
  BY BeforeIs
<1>4. CASE i # d /\ j # d
  BY <1>1, <1>4 DEF S, d
<1>5. CASE j = d
  BY <1>1, <1>3, <1>5 DEF S, d
<1>6. CASE i = d
  <2>1. ~Before(f, j[1], i[1])
    BY <1>1, <1>3, <1>6 DEF S, d
  <2>2. i[1] # j[1] /\ i[1] \in ToSet(f) /\ j[1] \in ToSet(f)
    BY <1>2, <1>3
  <2> QED BY <1>2, <2>1, <2>2, BeforeIs
<1> QED BY <1>4, <1>5, <1>6

\* What is in front of an icon, by the first part of the sequence
LEMMA PrefixIs ==
  ASSUME NEW s \in Seq(Icons), NEW t \in Seq(Icons), IsInjective(s), IsInjective(t), NEW p \in Nat,
         p \in 1..Len(s), p \in 1..Len(t), s[p] = t[p], SubSeq(s, 1, p) = SubSeq(t, 1, p)
  PROVE  \A y : Before(s, y, s[p]) <=> Before(t, y, s[p])
<1>1. \A i \in 1..p : SubSeq(s, 1, p)[i] = s[i] /\ SubSeq(t, 1, p)[i] = t[i]
  OBVIOUS
<1>2. \A i \in 1..p : s[i] = t[i]
  BY <1>1
<1>3. \A y : Before(s, y, s[p]) <=> \E i \in 1..(p - 1) : s[i] = y
  <2>1. \A j \in 1..Len(s) : s[j] = s[p] => j = p
    BY Elements
  <2> QED BY <2>1 DEF Before
<1>4. \A y : Before(t, y, t[p]) <=> \E i \in 1..(p - 1) : t[i] = y
  <2>1. \A j \in 1..Len(t) : t[j] = t[p] => j = p
    BY Elements
  <2> QED BY <2>1 DEF Before
<1>5. \A i \in 1..(p - 1) : i \in 1..p
  OBVIOUS
<1> QED BY <1>2, <1>3, <1>4, <1>5

LEMMA CalmOrder ==
  ASSUME LifeInv, OrderInv, Calm, drag = NoDrag => drag' = NoDrag,
         drag # NoDrag => /\ drag' # NoDrag /\ drag'.icon = drag.icon /\ drag'.inner = drag.inner
                          /\ drag'.closer.icon \in Icons =>
                               drag'.closer.icon = drag.closer.icon /\ drag.closer.icon \in ToSet(launcher'.inner)
  PROVE  OrderInv'
<1> DEFINE S == StickyHere(launcher)
           T == StickyHere(launcher')
<1>1. T = S /\ UNCHANGED favorites /\ S \subseteq ToSet(launcher.inner) /\ T \subseteq ToSet(launcher'.inner)
  BY DEF Calm, Keeps, StickyHere
<1>2. \A x, y \in ToSet(launcher.inner) \cap ToSet(launcher'.inner) :
        Before(launcher'.inner, x, y) <=> Before(launcher.inner, x, y)
  BY DEF Calm, Keeps
<1>3. State'.l = launcher' /\ State'.f = favorites' /\ State.l = launcher /\ State.f = favorites
  BY DEF State
<1> HIDE DEF State, S, T
<1>4. CASE drag = NoDrag
  <2>1. Agrees(State)
    BY <1>4 DEF OrderInv
  <2>2. Agrees(State')
    BY <1>1, <1>2, <1>3, <2>1 DEF Agrees, S, T
  <2> QED BY <1>4, <2>2, OrderOver
<1>5. CASE drag # NoDrag
  <2> DEFINE d == drag.icon
             c == drag.closer.icon
             q == drag.inner
  <2>1. /\ \A i, j \in S \ {d} : Before(launcher.inner, i, j) => Before(favorites, i[1], j[1])
        /\ S \subseteq ToSet(q)
        /\ d \in S => \A i \in S \ {d} : Before(q, i, d) <=> Before(favorites, i[1], d[1])
        /\ c \in Icons => /\ c \in ToSet(launcher.inner)
                          /\ \A i \in S \ {c, d} : Before(launcher.inner, i, c) <=> Before(q, i, c)
    BY <1>5 DEF OrderInv, S
  <2>2. /\ drag' # NoDrag /\ drag'.icon = d /\ drag'.inner = q
        /\ drag'.closer.icon \in Icons => drag'.closer.icon = c /\ c \in ToSet(launcher'.inner)
    BY <1>5
  <2> HIDE DEF d, c, q
  <2>3. /\ \A i, j \in T \ {d} : Before(launcher'.inner, i, j) => Before(favorites', i[1], j[1])
        /\ T \subseteq ToSet(q)
        /\ d \in T => \A i \in T \ {d} : Before(q, i, d) <=> Before(favorites', i[1], d[1])
    BY <1>1, <1>2, <2>1
  <2>4. drag'.closer.icon \in Icons =>
          /\ c \in ToSet(launcher'.inner)
          /\ \A i \in T \ {c, d} : Before(launcher'.inner, i, c) <=> Before(q, i, c)
    BY <1>1, <1>2, <2>1, <2>2
  <2>5. OrderInv' <=>
          LET e == drag'.icon
              b == drag'.closer.icon
          IN  /\ drag' = NoDrag => Agrees(State')
              /\ drag' # NoDrag =>
                   /\ \A i, j \in T \ {e} : Before(launcher'.inner, i, j) => Before(favorites', i[1], j[1])
                   /\ T \subseteq ToSet(drag'.inner)
                   /\ e \in T => \A i \in T \ {e} : Before(drag'.inner, i, e) <=> Before(favorites', i[1], e[1])
                   /\ b \in Icons => /\ b \in ToSet(launcher'.inner)
                                     /\ \A i \in T \ {b, e} : Before(launcher'.inner, i, b) <=> Before(drag'.inner, i, b)
    BY DEF OrderInv, T, NoDrag, NullIcon, Agrees, State, StickyHere, StickyIcons, IsSticky, Before, Icons
  <2> QED BY <2>2, <2>3, <2>4, <2>5
<1> QED BY <1>4, <1>5

LEMMA OrderDrag ==
  ASSUME drag' # NoDrag, NEW S, S = StickyHere(launcher'), NEW d, d = drag'.icon, NEW c, c = drag'.closer.icon,
         \A i, j \in S \ {d} : Before(launcher'.inner, i, j) => Before(favorites', i[1], j[1]),
         S \subseteq ToSet(drag'.inner),
         d \in S => \A i \in S \ {d} : Before(drag'.inner, i, d) <=> Before(favorites', i[1], d[1]),
         c \in Icons => /\ c \in ToSet(launcher'.inner)
                        /\ \A i \in S \ {c, d} : Before(launcher'.inner, i, c) <=> Before(drag'.inner, i, c)
  PROVE  OrderInv'
<1> DEFINE T == StickyHere(launcher')
<1>1. OrderInv' <=>
        LET e == drag'.icon
            b == drag'.closer.icon
        IN  /\ drag' = NoDrag => Agrees(State')
            /\ drag' # NoDrag =>
                 /\ \A i, j \in T \ {e} : Before(launcher'.inner, i, j) => Before(favorites', i[1], j[1])
                 /\ T \subseteq ToSet(drag'.inner)
                 /\ e \in T => \A i \in T \ {e} : Before(drag'.inner, i, e) <=> Before(favorites', i[1], e[1])
                 /\ b \in Icons => /\ b \in ToSet(launcher'.inner)
                                   /\ \A i \in T \ {b, e} : Before(launcher'.inner, i, b) <=> Before(drag'.inner, i, b)
  BY DEF OrderInv, NoDrag, NullIcon, Agrees, State, StickyHere, StickyIcons, IsSticky, Before, Icons
<1> HIDE DEF T
<1>2. S = T
  BY DEF T
<1> QED BY <1>1, <1>2

LEMMA StartIconDragOrder ==
  ASSUME Well, LifeInv, OrderInv, NEW icon \in Icons, StartIconDrag(icon)
  PROVE  OrderInv'
<1> DEFINE S == StickyHere(launcher)
           c == drag'.closer.icon
           q == launcher.inner
           f == favorites
<1>1. /\ DragInv' /\ drag' # NoDrag /\ drag'.icon = icon /\ drag'.inner = q
      /\ c # GoneIcon /\ icon \in ToSet(q) /\ UNCHANGED <<launcher, favorites>>
  BY StartIconDragIs
<1>2. drag = NoDrag
  BY DEF StartIconDrag
<1>3. \A i, j \in S : Before(q, i, j) => Before(f, i[1], j[1])
  BY <1>2 DEF OrderInv, Agrees, State
<1>4. q \in Seq(Icons) /\ IsInjective(q) /\ f \in Seq(Uris) /\ IsInjective(f) /\ S \subseteq ToSet(q)
  BY LifeIs DEF StickyHere
<1>5. c \in Icons => c \in ToSet(q)
  <2>1. Leads(drag'.inner, drag'.icon, drag'.closer)
    BY <1>1 DEF DragInv, NoDrag, NullIcon, GoneIcon, Leads, Before, Drags, Icons
  <2> QED BY <1>1, <2>1, IconsAre DEF Leads
<1>6. S = StickyHere(launcher')
  BY <1>1
<1> HIDE DEF S, c, q, f
<1>7. \A i, j \in S : Before(q, i, j) <=> Before(f, i[1], j[1])
  <2> SUFFICES ASSUME NEW i \in S, NEW j \in S, Before(f, i[1], j[1]) PROVE Before(q, i, j)
    BY <1>3
  <2>1. i[1] # j[1] /\ ~Before(f, j[1], i[1])
    BY <1>4, BeforeIs
  <2>2. ~Before(q, j, i)
    BY <1>3, <2>1
  <2> QED BY <1>4, <2>1, <2>2, BeforeIs
<1>8. launcher'.inner = q /\ favorites' = f
  BY <1>1 DEF q, f
<1> QED BY <1>1, <1>4, <1>5, <1>6, <1>7, <1>8, OrderDrag DEF c

LEMMA UpdateDragOrder ==
  ASSUME Well, DragInv, OrderInv, NEW other \in Icons, UpdateDragWindowPosition(other)
  PROVE  OrderInv'
<1> DEFINE S == StickyHere(launcher)
           d == drag.icon
           c == drag.closer.icon
           q == drag.inner
           f == favorites
           t == launcher'
           m == launcher
<1>1. Shuffled(t, m) /\ OthersKept(t, m, d)
  BY UpdateDragMoves
<1>2. drag # NoDrag /\ UNCHANGED favorites /\ UNCHANGED drag
  BY DEF UpdateDragWindowPosition
<1>3. /\ \A i, j \in S \ {d} : Before(m.inner, i, j) => Before(f, i[1], j[1])
      /\ S \subseteq ToSet(q)
      /\ d \in S => \A i \in S \ {d} : Before(q, i, d) <=> Before(f, i[1], d[1])
      /\ c \in Icons => /\ c \in ToSet(m.inner)
                        /\ \A i \in S \ {c, d} : Before(m.inner, i, c) <=> Before(q, i, c)
  BY <1>2 DEF OrderInv
<1>4. c \in Icons => c # d
  <2>1. c = GoneIcon \/ Leads(q, d, drag.closer)
    BY <1>2 DEF DragInv
  <2> QED BY <2>1, IconsAre DEF Leads
<1>5. S \subseteq ToSet(m.inner) /\ S = StickyHere(t) /\ ToSet(t.inner) = ToSet(m.inner)
  BY <1>1 DEF Shuffled, Same, StickyHere, StickyIcons, IsSticky
<1> HIDE DEF S, d, c, q, f, t, m
<1>6. \A x, y \in ToSet(m.inner) \ {d} : Before(t.inner, x, y) <=> Before(m.inner, x, y)
  BY <1>1 DEF OthersKept
<1>7. /\ \A i, j \in S \ {d} : Before(t.inner, i, j) => Before(f, i[1], j[1])
      /\ c \in Icons => /\ c \in ToSet(t.inner)
                        /\ \A i \in S \ {c, d} : Before(t.inner, i, c) <=> Before(q, i, c)
  BY <1>3, <1>4, <1>5, <1>6
<1>8. drag' # NoDrag /\ drag'.icon = d /\ drag'.closer.icon = c /\ drag'.inner = q /\ favorites' = f
  BY <1>2 DEF d, c, q, f
<1>9. S = StickyHere(launcher')
  BY <1>5 DEF t
<1> QED BY <1>3, <1>7, <1>8, <1>9, OrderDrag DEF t

\* The way back leads to the place the icon was taken from
LEMMA DragCancelOrder ==
  ASSUME Well, DragInv, LifeInv, OrderInv, DragCancel
  PROVE  OrderInv'
<1> DEFINE S == StickyHere(launcher)
           d == drag.icon
           c == drag.closer.icon
           q == drag.inner
           f == favorites
           t == launcher'
           m == launcher
<1>1. Shuffled(t, m) /\ OthersKept(t, m, d)
  BY DragCancelMoves
<1>2. /\ drag # NoDrag /\ UNCHANGED favorites /\ drag' = NoDrag
      /\ Contains(m.inner, d) /\ (c = NullIcon \/ Contains(m.inner, c))
      /\ t = IF drag.closer.is_before THEN ReorderAfter(m, d, c) ELSE ReorderBefore(m, d, c)
  BY DEF DragCancel
<1>3. /\ S \subseteq ToSet(q)
      /\ c \in Icons => \A i \in S \ {c, d} : Before(m.inner, i, c) <=> Before(q, i, c)
  BY <1>2 DEF OrderInv
<1>4. /\ Fit(m) /\ Ranked(m) /\ m.inner \in Seq(Icons) /\ ToSet(m.inner) \subseteq Icons
      /\ f \in Seq(Uris) /\ IsInjective(f) /\ S \subseteq ToSet(m.inner) /\ S \subseteq Icons
  BY LifeIs, StickyNames
<1>5. /\ c \in ToSet(m.inner) \/ c = NullIcon
      /\ d \in ToSet(m.inner)
  BY <1>2, <1>4, Elements
<1>6. /\ c = GoneIcon \/ Leads(q, d, drag.closer)
      /\ q \in Seq(Icons) /\ IsInjective(q) /\ drag.closer.is_before \in BOOLEAN
  BY <1>2 DEF DragInv, Drags
<1>7. /\ t.inner \in Seq(Icons) /\ IsInjective(t.inner) /\ ToSet(t.inner) = ToSet(m.inner)
      /\ StickyHere(t) = S
  BY <1>1 DEF Shuffled, Same, Fit, Launchers, StickyHere, StickyIcons, IsSticky
<1> HIDE DEF S, d, c, q, f, t, m
<1>8. \A x, y \in ToSet(m.inner) \ {d} : Before(t.inner, x, y) <=> Before(m.inner, x, y)
  BY <1>1 DEF OthersKept
<1>9. Leads(q, d, drag.closer)
  <2>1. c # GoneIcon
    BY <1>4, <1>5, IconsAre DEF NullIcon, GoneIcon
  <2> QED BY <1>6, <2>1
<1>10. \A i \in S \ {d} : Before(t.inner, i, d) <=> Before(q, i, d)
  <2>1. CASE c = NullIcon /\ ToSet(q) = {d}
    BY <1>3, <2>1
  <2>2. CASE c \in ToSet(q) \ {d} /\ drag.closer.is_before /\ \A x : Before(q, x, d) <=> x = c \/ Before(q, x, c)
    <3>1. c \in ToSet(m.inner) /\ c \in Icons /\ c # d /\ d \in Icons
      BY <1>4, <1>5, <1>6, <2>2, Elements, IconsAre
    <3>2. t = ReorderAfter(m, d, c)
      BY <1>2, <2>2
    <3>3. \A x \in ToSet(m.inner) \ {d} : Before(t.inner, x, d) <=> x = c \/ Before(m.inner, x, c)
      BY <1>4, <1>5, <3>1, <3>2, ReorderAfterIs
    <3> QED BY <1>3, <1>4, <2>2, <3>1, <3>3
  <2>3. CASE /\ c \in ToSet(q) \ {d} /\ ~drag.closer.is_before
             /\ \A x \in ToSet(q) \ {d} : Before(q, d, x) /\ (x = c \/ Before(q, c, x))
    <3>1. c \in ToSet(m.inner) /\ c \in Icons /\ c # d /\ d \in Icons
      BY <1>4, <1>5, <1>6, <2>3, Elements, IconsAre
    <3>2. t = ReorderBefore(m, d, c)
      BY <1>2, <2>3
    <3>3. Before(t.inner, d, c)
      BY <1>4, <1>5, <3>1, <3>2, ReorderBeforeIs
    <3> SUFFICES ASSUME NEW i \in S \ {d} PROVE ~Before(t.inner, i, d) /\ ~Before(q, i, d)
      OBVIOUS
    <3>4. Before(q, d, i) /\ (i = c \/ Before(q, c, i))
      BY <1>3, <2>3
    <3>5. ~Before(q, i, d)
      BY <1>6, <3>4, BeforeIs
    <3>6. ~Before(t.inner, i, c)
      <4>1. i # c => ~Before(q, i, c)
        BY <1>6, <3>4, BeforeIs
      <4>2. i # c => ~Before(m.inner, i, c)
        BY <1>3, <3>1, <4>1
      <4>3. i # c => ~Before(t.inner, i, c)
        BY <1>4, <1>8, <3>1, <4>2
      <4>4. ~Before(t.inner, c, c)
        BY <1>7, BeforeIs
      <4> QED BY <4>3, <4>4
    <3>7. ~Before(t.inner, i, d)
      BY <1>7, <3>3, <3>6, BeforeIs
    <3> QED BY <3>5, <3>7
  <2> QED BY <1>9, <2>1, <2>2, <2>3 DEF Leads, c
<1>11. \A i, j \in S : Before(t.inner, i, j) => Before(f, i[1], j[1])
  <2>1. /\ S \subseteq ToSet(t.inner)
        /\ \A i, j \in S \ {d} : Before(t.inner, i, j) => Before(m.inner, i, j)
        /\ d \in S => \A i \in S \ {d} : Before(t.inner, i, d) <=> Before(q, i, d)
    BY <1>4, <1>7, <1>8, <1>10
  <2> QED BY <1>2, <1>7, <2>1, DragOrder DEF S, d, q, m, f
<1>12. State'.l = t /\ State'.f = f
  BY <1>2 DEF State, t, f
<1>13. Agrees(State')
  BY <1>4, <1>7, <1>11, <1>12 DEF Agrees
<1> QED BY <1>2, <1>13, OrderOver

LEMMA EndDragOrder ==
  ASSUME "races" \notin Inputs, Well, DragInv, LifeInv, OrderInv, EndIconDrag
  PROVE  OrderInv'
<1> DEFINE S == StickyHere(launcher)
           d == drag.icon
           p == drag.position
           q == drag.inner
           m == launcher
<1>1. /\ drag # NoDrag /\ drag' = NoDrag
      /\ Index(m.inner, d) = p => SubSeq(m.inner, 1, p) = SubSeq(q, 1, p)
  BY DEF EndIconDrag, InPlace
<1>2. Index(m.inner, d) # p => Agrees(State')
  BY EndDragLife
<1>3. Index(m.inner, d) = p => UNCHANGED <<launcher, favorites>>
  BY EndDragLife
<1>4. /\ m.inner \in Seq(Icons) /\ IsInjective(m.inner) /\ d \in ToSet(m.inner) /\ S \subseteq ToSet(m.inner)
      /\ favorites \in Seq(Uris) /\ IsInjective(favorites)
  BY <1>1, LifeIs DEF LifeInv, StickyHere
<1>5. q \in Seq(Icons) /\ IsInjective(q) /\ d \in ToSet(q) /\ p = Index(q, d)
  BY <1>1 DEF DragInv, Drags
<1> HIDE DEF S, d, p, q, m
<1>6. CASE Index(m.inner, d) = p
  <2>1. p \in 1..Len(m.inner) /\ m.inner[p] = d
    BY <1>4, <1>6, IndexType
  <2>2. p \in 1..Len(q) /\ q[p] = d
    BY <1>5, IndexType
  <2>3. p \in Nat
    BY <2>1
  <2>4. \A y : Before(m.inner, y, d) <=> Before(q, y, d)
    BY <1>1, <1>4, <1>5, <1>6, <2>1, <2>2, <2>3, PrefixIs
  <2>5. /\ \A i, j \in S \ {d} : Before(m.inner, i, j) => Before(m.inner, i, j)
        /\ d \in S => \A i \in S \ {d} : Before(m.inner, i, d) <=> Before(q, i, d)
    BY <2>4
  <2>6. \A i, j \in S : Before(m.inner, i, j) => Before(favorites, i[1], j[1])
    BY <1>1, <1>4, <2>5, DragOrder DEF S, d, q, m
  <2>7. State'.l = m /\ State'.f = favorites
    BY <1>3, <1>6 DEF State, m
  <2>8. Agrees(State')
    BY <1>4, <2>6, <2>7 DEF Agrees, S, m
  <2> QED BY <1>1, <2>8, OrderOver
<1>7. CASE Index(m.inner, d) # p
  BY <1>1, <1>2, <1>7, OrderOver
<1> QED BY <1>6, <1>7

LEMMA DropOrder ==
  ASSUME Well, LifeInv, OrderInv, DropOnTrash
  PROVE  OrderInv'
<1>1. drag # NoDrag /\ drag' = NoDrag
  BY DEF DropOnTrash
<1>2. \A i, j \in StickyHere(launcher) \ {drag.icon} : Before(launcher.inner, i, j) => Before(favorites, i[1], j[1])
  BY <1>1 DEF OrderInv
<1>3. Agrees(State')
  BY <1>2, DropLife
<1> QED BY <1>1, <1>3, OrderOver

\* A new favorite next to one that is shown
LEMMA FavoriteAddedOrder ==
  ASSUME "races" \notin Inputs, "beside" \notin Inputs, Well, LifeInv, Agrees(State),
         NEW a \in Applications, NEW n, FavoriteAdded(a, n)
  PROVE  Agrees(State')
<1> DEFINE s == [State EXCEPT !.f = InsertAt(@, n, a)]
           k == Added(s, a)
           t == OnFavoriteStoreFavoriteAdded(s, n)
           icon == GetIconByUri(k.l, a)
           pos == Beside(s.f, n)
           f == favorites
           g == InsertAt(f, n, a)
           m == launcher
           S == StickyHere(m)
<1>1. /\ Good(s) /\ n \in 1..Len(s.f) /\ s.l = m /\ s.f = g /\ s.f[n] = a /\ Update(t) /\ HasRoom(m, a)
  BY FavoriteAddedWell
<1>2. /\ Alive(m) /\ f \in Seq(Uris) /\ IsInjective(f) /\ m.inner \in Seq(Icons) /\ IsInjective(m.inner)
      /\ \A b \in Applications : b \in m.sticky <=> b \in ToSet(f)
  BY LifeIs
<1>3. /\ S \subseteq Icons /\ S \subseteq ToSet(m.inner)
      /\ \A i \in S : i[1] \in ToSet(f) /\ i[1] \in Applications
      /\ \A i \in S, j \in ToSet(m.inner) : j[1] = i[1] => j = i
      /\ \A b \in ToSet(f) \cap Applications : \E i \in S : i[1] = b /\ i \in m.visible
  BY StickyNames
<1>4. \A i, j \in S : Before(m.inner, i, j) => Before(f, i[1], j[1])
  BY DEF Agrees, State
<1>5. ~Contains(f, a) /\ Settled(a) /\ n \in 1..(Len(f) + 1) /\ Neighbour(f, n) # RUNNING_APPS_URI
  BY DEF FavoriteAdded
<1> HIDE DEF f, m, S
<1>6. a \notin ToSet(f) /\ a \notin m.sticky /\ a \in Uris /\ Steady(m, a)
  BY <1>2, <1>5, Elements, SettledIs, IconsAre DEF m
<1>7. /\ g \in Seq(Uris) /\ IsInjective(g) /\ ToSet(g) = ToSet(f) \cup {a}
      /\ \A y, z \in ToSet(f) : Before(g, y, z) <=> Before(f, y, z)
      /\ \A j \in 1..Len(f) : (Before(g, f[j], a) <=> j < n) /\ (Before(g, a, f[j]) <=> n <= j)
  BY <1>2, <1>5, <1>6, InsertOrder
<1>8. /\ Len(g) = Len(f) + 1
      /\ \A j \in 1..(n - 1) : g[j] = f[j]
      /\ \A j \in n..Len(f) : g[j + 1] = f[j]
  BY <1>2, <1>5, <1>6, InsertIs
<1> HIDE DEF s, g
<1>9. /\ Good(k) /\ k.f = s.f /\ Alive(k.l) /\ k.l.sticky = m.sticky \cup {a}
      /\ icon \in ToSet(k.l.inner) /\ icon[1] = a
      /\ StickyHere(k.l) = S \cup {icon} /\ icon \notin S
      /\ ToSet(m.inner) \subseteq ToSet(k.l.inner) /\ OthersKept(k.l, m, icon)
  <2>1. HasRoom(s.l, a) /\ a \notin s.l.sticky /\ Steady(s.l, a) /\ Alive(s.l)
    BY <1>1, <1>2, <1>6
  <2> HIDE DEF k, icon, t, pos
  <2>2. LET kk == Added(s, a)
            ii == GetIconByUri(kk.l, a)
        IN  /\ Good(kk) /\ kk.f = s.f /\ Alive(kk.l) /\ kk.l.sticky = s.l.sticky \cup {a}
            /\ ii \in ToSet(kk.l.inner) /\ ii[1] = a
            /\ StickyHere(kk.l) = StickyHere(s.l) \cup {ii} /\ ii \notin StickyHere(s.l)
            /\ ToSet(s.l.inner) \subseteq ToSet(kk.l.inner) /\ OthersKept(kk.l, s.l, ii)
    BY <1>1, <2>1, AddedLife
  <2>3. /\ Good(k) /\ k.f = s.f /\ Alive(k.l) /\ k.l.sticky = s.l.sticky \cup {a}
        /\ icon \in ToSet(k.l.inner) /\ icon[1] = a
        /\ StickyHere(k.l) = StickyHere(s.l) \cup {icon} /\ icon \notin StickyHere(s.l)
        /\ ToSet(s.l.inner) \subseteq ToSet(k.l.inner) /\ OthersKept(k.l, s.l, icon)
    BY <2>2 DEF k, icon
  <2> QED BY <1>1, <2>3 DEF S
<1>10. /\ Good(t) /\ t.f = s.f /\ Shuffled(t.l, k.l)
       /\ \E c \in ToSet(m.inner) \cup {NullIcon} :
            /\ c = NullIcon => \A i \in ToSet(m.inner) : ~(i \in m.visible /\ i[1] = pos)
            /\ c # NullIcon => c \in m.visible /\ c[1] = pos
            /\ t.l = IF n = 1 THEN ReorderBefore(k.l, icon, c) ELSE ReorderAfter(k.l, icon, c)
  <2>1. n \in 1..Len(s.f) /\ s.f[n] \in Applications /\ HasRoom(s.l, s.f[n])
    BY <1>1
  <2>2. s.f[n] = a /\ s.l = m
    BY <1>1
  <2> HIDE DEF t, pos, icon, k
  <2> QED BY <1>1, <2>1, <2>2, OnFavoriteStoreFavoriteAddedIs DEF t, pos, icon, k
<1>11. PICK h \in 1..Len(f) : /\ pos = f[h] /\ f[h] \in Applications
                              /\ n = 1 => h = 1
                              /\ n # 1 => h = n - 1
  <2>1. CASE n = 1
    <3>1. f # <<>> /\ f[1] # RUNNING_APPS_URI
      BY <1>5, <2>1 DEF Neighbour
    <3>2. 1 \in 1..Len(f) /\ Len(f) >= 1
      BY <1>2, <3>1
    <3>3. Len(g) > 1 /\ g[2] = f[1]
      BY <1>8, <2>1, <3>2
    <3>4. pos = f[1]
      BY <1>1, <2>1, <3>3 DEF Beside
    <3>5. f[1] \in Applications
      BY <1>2, <3>1, <3>2, IconsAre
    <3> QED BY <2>1, <3>2, <3>4, <3>5
  <2>2. CASE n # 1
    <3>1. n - 1 \in 1..Len(f) /\ n - 1 \in 1..(n - 1) /\ n > 1
      BY <1>2, <1>5, <2>2
    <3>2. pos = f[n - 1]
      BY <1>1, <1>8, <2>2, <3>1 DEF Beside
    <3>3. f[n - 1] # RUNNING_APPS_URI
      BY <1>5, <3>1 DEF Neighbour
    <3>4. f[n - 1] \in Applications
      BY <1>2, <3>1, <3>3, IconsAre
    <3> QED BY <2>2, <3>1, <3>2, <3>4
  <2> QED BY <2>1, <2>2
<1>12. PICK c \in S : /\ c[1] = f[h]
                      /\ t.l = IF n = 1 THEN ReorderBefore(k.l, icon, c) ELSE ReorderAfter(k.l, icon, c)
  <2>1. f[h] \in ToSet(f)
    BY <1>2, Elements
  <2>2. PICK v \in S : v[1] = f[h] /\ v \in m.visible
    BY <1>3, <1>11, <2>1
  <2>3. PICK c \in ToSet(m.inner) \cup {NullIcon} :
            /\ c = NullIcon => \A i \in ToSet(m.inner) : ~(i \in m.visible /\ i[1] = pos)
            /\ c # NullIcon => c \in m.visible /\ c[1] = pos
            /\ t.l = IF n = 1 THEN ReorderBefore(k.l, icon, c) ELSE ReorderAfter(k.l, icon, c)
    BY <1>10
  <2> HIDE DEF pos, k, icon, t
  <2>4. c # NullIcon
    BY <1>3, <1>11, <2>2, <2>3
  <2>5. c = v
    BY <1>3, <1>11, <2>2, <2>3, <2>4
  <2> QED BY <2>2, <2>3, <2>5
<1> HIDE DEF k, icon, t, pos
<1> DEFINE u == t.l.inner
           w == k.l.inner
<1>13. /\ Fit(k.l) /\ Ranked(k.l) /\ w \in Seq(Icons) /\ IsInjective(w) /\ icon \in Icons /\ icon \in ToSet(w)
       /\ c \in ToSet(w) /\ icon # c /\ S \subseteq ToSet(w)
  <2>1. Fit(k.l) /\ Ranked(k.l) /\ w \in Seq(Icons) /\ IsInjective(w)
    BY <1>9 DEF Good, Fit, Launchers
  <2>2. icon \in Icons
    BY <1>9, <2>1, Elements
  <2> QED BY <1>3, <1>9, <2>1, <2>2
<1>14. u \in Seq(Icons) /\ IsInjective(u) /\ ToSet(u) = ToSet(w) /\ StickyHere(t.l) = S \cup {icon}
  BY <1>9, <1>10 DEF Shuffled, Same, Fit, Launchers, StickyHere, StickyIcons, IsSticky
<1>15. \A i, j \in S : Before(w, i, j) <=> Before(m.inner, i, j)
  BY <1>3, <1>9 DEF OthersKept
<1>16. /\ OthersKept(t.l, k.l, icon)
       /\ n = 1 => Before(u, icon, c)
       /\ n # 1 => \A x \in ToSet(w) \ {icon} : Before(u, x, icon) <=> x = c \/ Before(w, x, c)
  <2>1. CASE n = 1
    <3>1. t.l = ReorderBefore(k.l, icon, c)
      BY <1>12, <2>1
    <3> QED BY <1>13, <2>1, <3>1, ReorderBeforeIs
  <2>2. CASE n # 1
    <3>1. t.l = ReorderAfter(k.l, icon, c)
      BY <1>12, <2>2
    <3> QED BY <1>13, <2>2, <3>1, ReorderAfterIs
  <2> QED BY <2>1, <2>2
<1>17. \A i, j \in S : Before(u, i, j) <=> Before(m.inner, i, j)
  <2>1. \A i, j \in S : Before(u, i, j) <=> Before(w, i, j)
    BY <1>9, <1>13, <1>16 DEF OthersKept
  <2> QED BY <1>15, <2>1
<1> HIDE DEF u, w
<1>18. \A i, j \in S : Before(u, i, j) => Before(g, i[1], j[1])
  BY <1>3, <1>4, <1>7, <1>17
\* By positions in the store: the neighbour is at h
<1>19. ASSUME NEW i \in S
       PROVE  \E x \in 1..Len(f) : f[x] = i[1] /\ (Before(m.inner, i, c) => x < h) /\ (Before(m.inner, c, i) => h < x)
  <2>1. PICK x \in 1..Len(f) : f[x] = i[1]
    <3>1. i[1] \in ToSet(f)
      BY <1>3
    <3>2. \A y \in ToSet(f) : \E x \in 1..Len(f) : f[x] = y
      BY <1>2, Elements
    <3> QED BY <3>1, <3>2
  <2>2. Before(m.inner, i, c) => Before(f, f[x], f[h])
    BY <1>4, <1>12, <2>1
  <2>3. Before(m.inner, c, i) => Before(f, f[h], f[x])
    BY <1>4, <1>12, <2>1
  <2>4. \A y, z \in 1..Len(f) : Before(f, f[y], f[z]) <=> y < z
    BY <1>2, BeforeIs
  <2> QED BY <2>1, <2>2, <2>3, <2>4
<1>20. ASSUME NEW i \in S, Before(u, i, icon) PROVE Before(g, i[1], a)
  <2>1. PICK x \in 1..Len(f) : f[x] = i[1] /\ (Before(m.inner, i, c) => x < h)
    BY <1>19
  <2>2. CASE n = 1
    <3>1. Before(u, i, c)
      BY <1>14, <1>16, <1>20, <2>2, BeforeIs
    <3>2. x < h
      BY <1>17, <2>1, <3>1
    <3> QED BY <1>11, <2>2, <3>2
  <2>3. CASE n # 1
    <3>1. i = c \/ Before(m.inner, i, c)
      BY <1>9, <1>13, <1>15, <1>16, <1>20, <2>3
    <3>2. i = c => x = h
      <4>1. \A y, z \in 1..Len(f) : f[y] = f[z] => y = z
        BY <1>2, Elements
      <4> QED BY <1>12, <2>1, <4>1
    <3>3. x < n
      BY <1>5, <1>11, <2>1, <2>3, <3>1, <3>2
    <3> QED BY <1>7, <2>1, <3>3
  <2> QED BY <2>2, <2>3
<1>21. ASSUME NEW i \in S, Before(u, icon, i) PROVE Before(g, a, i[1])
  <2>1. PICK x \in 1..Len(f) : f[x] = i[1] /\ (Before(m.inner, c, i) => h < x)
    BY <1>19
  <2>2. CASE n = 1
    <3>1. n <= x
      BY <2>2
    <3> QED BY <1>7, <2>1, <3>1
  <2>3. CASE n # 1
    <3>1. ~Before(u, i, icon)
      BY <1>14, <1>21, BeforeIs
    <3>2. i # c /\ ~Before(w, i, c)
      BY <1>9, <1>13, <1>16, <2>3, <3>1
    <3>3. Before(w, c, i)
      BY <1>13, <3>2, BeforeIs
    <3>4. h < x
      BY <1>15, <2>1, <3>3
    <3>5. n <= x
      BY <1>5, <1>11, <2>3, <3>4
    <3> QED BY <1>7, <2>1, <3>5
  <2> QED BY <2>2, <2>3
<1>22. ~Before(u, icon, icon)
  BY <1>14, BeforeIs
<1>23. \A i, j \in S \cup {icon} : Before(u, i, j) => Before(g, i[1], j[1])
  BY <1>9, <1>18, <1>20, <1>21, <1>22
<1>24. Agrees(t)
  <2>1. t.f = g
    BY <1>1, <1>10
  <2> QED BY <1>7, <1>14, <1>23, <2>1 DEF Agrees, u
<1> QED BY <1>1, <1>24, UpdateLife

LEMMA FitsOrder ==
  ASSUME "races" \notin Inputs, OrderInv, Fits, NEW a, Settled(a), UNCHANGED drag
  PROVE  OrderInv'
<1>1. drag = NoDrag /\ drag' = NoDrag
  BY SettledIs
<1>2. Agrees(State')
  BY <1>1 DEF OrderInv, Fits
<1> QED BY <1>1, <1>2, OrderOver

\* While nothing leaves, the way back is where it was
LEMMA StayedOrder ==
  ASSUME LifeInv, OrderInv, Calm, UNCHANGED drag, ToSet(launcher.inner) \subseteq ToSet(launcher'.inner)
  PROVE  OrderInv'
<1>1. drag # NoDrag => (drag.closer.icon \in Icons => drag.closer.icon \in ToSet(launcher.inner))
  BY DEF OrderInv
<1> QED BY <1>1, CalmOrder

LEMMA RemoveTimeoutOrder ==
  ASSUME Well, DragInv, LifeInv, OrderInv, NEW icon \in Icons, RemoveTimeout(icon)
  PROVE  OrderInv'
<1>1. Calm /\ ToSet(launcher'.inner) = ToSet(launcher.inner) \ {icon}
  BY RemoveTimeoutLife
<1>2. /\ drag = NoDrag => drag' = NoDrag
      /\ drag # NoDrag => /\ drag' # NoDrag /\ drag'.icon = drag.icon /\ drag'.inner = drag.inner
                          /\ drag.closer.icon = icon => drag'.closer.icon = GoneIcon
                          /\ drag.closer.icon # icon => drag'.closer = drag.closer
  BY RemoveTimeoutDrag
<1>3. drag # NoDrag => (drag.closer.icon \in Icons => drag.closer.icon \in ToSet(launcher.inner))
  BY DEF OrderInv
<1>4. drag # NoDrag /\ drag'.closer.icon \in Icons =>
        drag'.closer.icon = drag.closer.icon /\ drag.closer.icon \in ToSet(launcher'.inner)
  BY <1>1, <1>2, <1>3, IconsAre
<1> QED BY <1>1, <1>2, <1>4, CalmOrder

LEMMA OrderStep ==
  ASSUME "races" \notin Inputs, "beside" \notin Inputs
  PROVE  OrderedInv /\ LifeInv /\ OrderInv /\ [Next]_vars => OrderInv'
<1> SUFFICES ASSUME Well, DragInv, LifeInv, OrderInv, [Next]_vars PROVE OrderInv'
  BY DEF OrderedInv
<1>1. ASSUME NEW a \in Applications, ApplicationStarts(a) PROVE OrderInv'
  <2>1. Calm /\ ToSet(launcher.inner) \subseteq ToSet(launcher'.inner) /\ UNCHANGED drag
    BY <1>1, StartsLife DEF ApplicationStarts
  <2> QED BY <2>1, StayedOrder
<1>2. ASSUME NEW a \in Applications, ApplicationCloses(a) PROVE OrderInv'
  <2>1. Calm /\ ToSet(launcher.inner) \subseteq ToSet(launcher'.inner) /\ UNCHANGED drag
    BY <1>2, ClosesLife DEF ApplicationCloses
  <2> QED BY <2>1, StayedOrder
<1>3. ASSUME NEW a \in Applications, FavoriteRemoved(a) PROVE OrderInv'
  <2>1. Fits /\ Settled(a) /\ UNCHANGED drag
    BY <1>3, FavoriteRemovedFits DEF FavoriteRemoved
  <2> QED BY <2>1, FitsOrder
<1>4. ASSUME NEW a \in Applications, NEW icon \in Icons, OnLauncherAddRequest(a, icon) PROVE OrderInv'
  <2>1. Fits /\ Settled(a) /\ UNCHANGED drag
    BY <1>4, AddRequestFits DEF OnLauncherAddRequest
  <2> QED BY <2>1, FitsOrder
<1>5. ASSUME NEW a \in Applications, NEW sticky \in BOOLEAN, OnLauncherUpdateIconStickyState(a, sticky)
      PROVE  OrderInv'
  <2>1. Fits /\ Settled(a) /\ UNCHANGED drag
    BY <1>5, StickyStateFits DEF OnLauncherUpdateIconStickyState
  <2> QED BY <2>1, FitsOrder
<1>6. ASSUME NEW a \in Applications, NEW n, FavoriteAdded(a, n) PROVE OrderInv'
  <2>1. Settled(a) /\ UNCHANGED drag
    BY <1>6 DEF FavoriteAdded
  <2>2. drag = NoDrag /\ drag' = NoDrag
    BY <2>1, SettledIs
  <2>3. Agrees(State)
    BY <2>2 DEF OrderInv
  <2>4. Agrees(State')
    BY <1>6, <2>3, FavoriteAddedOrder
  <2> QED BY <2>2, <2>4, OrderOver
<1>7. ASSUME NEW icon \in Icons, CloseTimeout(icon) PROVE OrderInv'
  <2>1. Calm /\ ToSet(launcher.inner) \subseteq ToSet(launcher'.inner) /\ UNCHANGED drag
    BY <1>7, CloseTimeoutLife DEF CloseTimeout
  <2> QED BY <2>1, StayedOrder
<1>8. ASSUME NEW icon \in Icons, RemoveTimeout(icon) PROVE OrderInv'
  BY <1>8, RemoveTimeoutOrder
<1>9. ASSUME NEW icon \in Icons, ToggleSticky(icon) PROVE OrderInv'
  <2>1. Fits /\ Settled(icon[1]) /\ UNCHANGED drag
    BY <1>9, ToggleFits DEF ToggleSticky
  <2> QED BY <2>1, FitsOrder
<1>10. ASSUME NEW icon \in Icons, StartIconDrag(icon) PROVE OrderInv'
  BY <1>10, StartIconDragOrder
<1>11. ASSUME NEW icon \in Icons, UpdateDragWindowPosition(icon) PROVE OrderInv'
  BY <1>11, UpdateDragOrder
<1>12. ASSUME EndIconDrag PROVE OrderInv'
  BY <1>12, EndDragOrder
<1>13. ASSUME DropOnTrash PROVE OrderInv'
  BY <1>13, DropOrder
<1>14. ASSUME DragCancel PROVE OrderInv'
  BY <1>14, DragCancelOrder
<1>15. ASSUME RunningAppsRemoved PROVE OrderInv'
  <2>1. Fits /\ Settled(RUNNING_APPS_URI) /\ UNCHANGED drag
    BY <1>15, RunningAppsRemovedFits DEF RunningAppsRemoved
  <2> QED BY <2>1, FitsOrder
<1>16. ASSUME NEW uri \in Uris, NEW n, Reordered(uri, n) PROVE OrderInv'
  <2>1. Fits /\ Settled(uri) /\ UNCHANGED drag
    BY <1>16, ReorderedFits DEF Reordered
  <2> QED BY <2>1, FitsOrder
<1>17. ASSUME UNCHANGED vars PROVE OrderInv'
  BY <1>17 DEF vars, OrderInv, NoDrag, NullIcon, Agrees, State, StickyHere, StickyIcons, IsSticky, Before, Icons
<1> QED
  BY <1>1, <1>2, <1>3, <1>4, <1>5, <1>6, <1>7, <1>8, <1>9, <1>10, <1>11, <1>12, <1>13, <1>14, <1>15, <1>16, <1>17
     DEF Next

LEMMA StoreOrderIs ==
  ASSUME Well, LifeInv, Agrees(State)
  PROVE  StoreOrder
<1> DEFINE m == launcher
           f == favorites
           S == StickyHere(m)
           sticky == Only(m.inner, StickyIcons(m))
           g == [i \in Icons |-> i[1]]
           t == [k \in DOMAIN sticky |-> sticky[k][1]]
           w == Without(f, RUNNING_APPS_URI)
<1>1. /\ m.inner \in Seq(Icons) /\ IsInjective(m.inner) /\ f \in Seq(Uris) /\ IsInjective(f)
      /\ \A i, j \in S : Before(m.inner, i, j) => Before(f, i[1], j[1])
  BY LifeIs DEF Agrees
<1>2. /\ S \subseteq Icons /\ S \subseteq ToSet(m.inner)
      /\ \A i \in S : i[1] \in ToSet(f) /\ i[1] \in Applications
      /\ \A i, j \in S : i[1] = j[1] => i = j
      /\ \A a \in ToSet(f) \cap Applications : \E i \in S : i[1] = a
  BY StickyNames
<1>3. /\ sticky \in Seq(Icons) /\ IsInjective(sticky) /\ ToSet(sticky) = S
      /\ \A x, y : Before(sticky, x, y) => x \in S /\ y \in S /\ Before(m.inner, x, y)
  <2> HIDE DEF g, t
  <2>1. /\ sticky \in Seq(Icons) /\ IsInjective(sticky) /\ ToSet(sticky) = ToSet(m.inner) \cap StickyIcons(m)
        /\ \A x, y : Before(sticky, x, y) <=> x \in StickyIcons(m) /\ y \in StickyIcons(m) /\ Before(m.inner, x, y)
    BY <1>1, OnlyIs
  <2>2. \A x, y : Before(m.inner, x, y) => x \in ToSet(m.inner) /\ y \in ToSet(m.inner)
    BY <1>1, BeforeIs
  <2> HIDE DEF sticky
  <2> QED BY <2>1, <2>2 DEF StickyHere
<1>4. /\ w \in Seq(Uris) /\ IsInjective(w) /\ ToSet(w) = ToSet(f) \ {RUNNING_APPS_URI}
      /\ \A x, y : Before(w, x, y) <=> x # RUNNING_APPS_URI /\ y # RUNNING_APPS_URI /\ Before(f, x, y)
  <2>1. w = Only(f, ToSet(f) \ {RUNNING_APPS_URI})
    BY DEF Without
  <2> HIDE DEF w, g, t, sticky, f
  <2>2. LET u == Only(f, ToSet(f) \ {RUNNING_APPS_URI})
        IN  /\ u \in Seq(Uris) /\ IsInjective(u) /\ ToSet(u) = ToSet(f) \cap (ToSet(f) \ {RUNNING_APPS_URI})
            /\ \A x, y : Before(u, x, y) <=> /\ x \in ToSet(f) \ {RUNNING_APPS_URI}
                                             /\ y \in ToSet(f) \ {RUNNING_APPS_URI} /\ Before(f, x, y)
    BY <1>1, OnlyIs
  <2>3. \A x, y : Before(f, x, y) => x \in ToSet(f) /\ y \in ToSet(f)
    BY <1>1, BeforeIs
  <2>4. /\ w \in Seq(Uris) /\ IsInjective(w) /\ ToSet(w) = ToSet(f) \cap (ToSet(f) \ {RUNNING_APPS_URI})
        /\ \A x, y : Before(w, x, y) <=> /\ x \in ToSet(f) \ {RUNNING_APPS_URI}
                                         /\ y \in ToSet(f) \ {RUNNING_APPS_URI} /\ Before(f, x, y)
    BY <2>1, <2>2
  <2> QED BY <2>3, <2>4
<1>5. \A k \in DOMAIN sticky : sticky[k] \in Icons
  <2> HIDE DEF sticky, g, t
  <2>1. DOMAIN sticky = 1..Len(sticky)
    BY <1>3
  <2> QED BY <1>3, <2>1, Elements
<1>6. t = Mapped(sticky, g)
  <2> HIDE DEF sticky
  <2> QED BY <1>5 DEF Mapped
<1>7. g \in [Icons -> Uris] /\ \A i \in Icons : g[i] = i[1]
  BY IconsAre
<1> HIDE DEF g, t, w, sticky, S, f
<1>8. /\ t \in Seq(Uris) /\ Len(t) = Len(sticky) /\ ToSet(t) = Image(S, g)
      /\ \A k \in 1..Len(sticky) : t[k] = g[sticky[k]]
  <2> DEFINE c == Mapped(sticky, g)
  <2>1. /\ c \in Seq(Uris) /\ Len(c) = Len(sticky) /\ (\A k \in 1..Len(sticky) : c[k] = g[sticky[k]])
        /\ ToSet(c) = Image(ToSet(sticky), g)
    BY <1>3, <1>7, MapIs
  <2> HIDE DEF c
  <2>2. c = t
    BY <1>6 DEF c
  <2> QED BY <1>3, <2>1, <2>2
<1>9. IsInjective(t)
  <2>1. \A x, y \in ToSet(sticky) : g[x] = g[y] => x = y
    BY <1>2, <1>3, <1>7
  <2> DEFINE c == Mapped(sticky, g)
  <2>2. c \in Seq(Uris) /\ IsInjective(c)
    BY <1>3, <1>7, <2>1, MapIs
  <2> HIDE DEF c
  <2>3. c = t
    BY <1>6 DEF c
  <2> QED BY <2>2, <2>3
<1>10. ToSet(t) = ToSet(w)
  <2>1. \A a : a \in ToSet(t) <=> \E i \in S : i[1] = a
    BY <1>2, <1>7, <1>8 DEF Image
  <2>2. ToSet(f) \subseteq Uris
    BY <1>1, Elements
  <2>3. \A a : a \in ToSet(w) <=> a \in ToSet(f) \cap Applications
    BY <1>4, <2>2, IconsAre
  <2>4. \A a : a \in ToSet(t) <=> a \in ToSet(w)
    BY <1>2, <2>1, <2>3
  <2> QED BY <2>4
<1>11. ASSUME NEW x, NEW y, Before(t, x, y) PROVE Before(w, x, y)
  <2>1. PICK i, j \in 1..Len(t) : i < j /\ t[i] = x /\ t[j] = y
    BY <1>11 DEF Before
  <2>2. i \in 1..Len(sticky) /\ j \in 1..Len(sticky)
    BY <1>8, <2>1
  <2>3. Before(sticky, sticky[i], sticky[j])
    BY <2>1, <2>2 DEF Before
  <2>4. sticky[i] \in S /\ sticky[j] \in S /\ Before(m.inner, sticky[i], sticky[j])
    BY <1>3, <2>3
  <2>5. x = sticky[i][1] /\ y = sticky[j][1]
    BY <1>2, <1>7, <1>8, <2>1, <2>2, <2>4
  <2>6. Before(f, x, y) /\ x \in Applications /\ y \in Applications
    BY <1>1, <1>2, <2>4, <2>5
  <2> QED BY <1>4, <2>6, IconsAre
<1>12. t = w
  BY <1>4, <1>8, <1>9, <1>10, <1>11, SameOrder
<1> QED BY <1>12 DEF StoreOrder, t, w, sticky, f

\* launcher/LauncherController.cpp: SaveIconsOrder and ResetIconPriorities keep the store
\* and the launcher in the same order.  The icons that are there to stay are shown in the
\* order of the store whenever no icon is dragged, for any number of applications, if other
\* programs leave the favorites alone during a drag, nothing sticks to an icon on its way
\* out, and no favorite is added right beside the entry for the running applications.
THEOREM StoreOrderHolds ==
  ASSUME "races" \notin Inputs, "beside" \notin Inputs
  PROVE  Spec => []StoreOrder
<1> DEFINE I == OrderedInv /\ LifeInv /\ OrderInv
<1>1. Init => I
  <2> SUFFICES ASSUME Init PROVE I
    OBVIOUS
  <2>1. OrderedInv /\ LifeInv /\ Agrees(State) /\ drag = NoDrag
    BY OrderedInit, LifeInit, InitIs
  <2> QED BY <2>1 DEF OrderInv
<1>2. I /\ [Next]_vars => I'
  BY OrderedStep, LifeStep, OrderStep
<1>3. I => StoreOrder
  <2> SUFFICES ASSUME I, drag = NoDrag PROVE StoreOrder
    BY DEF StoreOrder
  <2> QED BY StoreOrderIs DEF OrderInv, OrderedInv
<1> QED BY <1>1, <1>2, <1>3, PTL DEF Spec
=============================================================================
