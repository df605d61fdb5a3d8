--------------------------- MODULE SwitcherProofs ---------------------------
(* What holds of the switcher for every number of applications and of windows: that
   something is selected while it is shown, that no application or window that comes or
   goes takes the selection from an application that stays, and that the selected window
   is one of the selected application's, in the selected row. *)
EXTENDS SwitcherController, FiniteSetTheorems, WellFoundedInduction, TLAPS

-----------------------------------------------------------------------------
(* Induction up to a number.  The theorems on induction of the library are about
   operators, this one is about a set. *)

LEMMA Least ==
  ASSUME NEW T \in SUBSET Nat, T # {}
  PROVE  \E x \in T : \A y \in T : x <= y
<1> DEFINE R == OpToRel(<, Nat)
<1>1. IsWellFoundedOn(R, Nat)
  BY NatLessThanWellFounded
<1> HIDE DEF R
<1>2. PICK x \in T : \A y \in T : ~ (<<y, x>> \in R)
  BY <1>1, WFMin
<1>3. \A y \in T : y < x => <<y, x>> \in R
  BY <1>2 DEF R, OpToRel
<1>4. x \in Nat /\ \A y \in T : y \in Nat /\ ~(y < x)
  BY <1>2, <1>3
<1>5. \A m, n \in Nat : ~(n < m) => m <= n
  OBVIOUS
<1> QED BY <1>4, <1>5

\* What holds at the beginning and is kept by every step holds at the end.
LEMMA ToTheEnd ==
  ASSUME NEW n \in Nat, NEW G, 0 \in G, \A k \in 0..(n - 1) : k \in G => k + 1 \in G
  PROVE  n \in G
<1> DEFINE T == {k \in 0..n : k \notin G}
<1>1. SUFFICES ASSUME n \notin G PROVE FALSE
  OBVIOUS
<1>2. T \in SUBSET Nat /\ n \in T
  BY <1>1
<1>3. PICK x \in T : \A y \in T : x <= y
  BY <1>2, Least
<1>4. x \in 0..n /\ x \notin G /\ x # 0
  BY <1>3
<1>5. x - 1 \in 0..(n - 1) /\ x - 1 \in 0..n
  BY <1>4
<1>6. x - 1 \notin G
  <2>1. (x - 1) + 1 = x
    BY <1>4
  <2> QED BY <1>4, <1>5, <2>1
<1>7. x - 1 \in T
  BY <1>5, <1>6
<1>8. x <= x - 1
  BY <1>3, <1>7
<1> QED BY <1>4, <1>8

-----------------------------------------------------------------------------
(* A finite set of numbers as a sorted sequence *)

Sorted(f, n, S) ==
  /\ f \in [1..n -> S] /\ \A i, j \in 1..n : i < j => f[i] < f[j]
  /\ \A x \in S : \E i \in 1..n : f[i] = x

LEMMA SortedExists ==
  ASSUME NEW n \in Nat
  PROVE  \A S \in SUBSET Nat : IsFiniteSet(S) /\ Cardinality(S) = n => \E f : Sorted(f, n, S)
<1> DEFINE G == {k \in Nat : \A S \in SUBSET Nat : IsFiniteSet(S) /\ Cardinality(S) = k => \E f : Sorted(f, k, S)}
<1>1. 0 \in G
  <2>1. ASSUME NEW S \in SUBSET Nat, IsFiniteSet(S), Cardinality(S) = 0 PROVE \E f : Sorted(f, 0, S)
    <3>1. S = {}
      BY <2>1, FS_EmptySet
    <3>2. Sorted([i \in 1..0 |-> 0], 0, S)
      BY <3>1 DEF Sorted
    <3> QED BY <3>2
  <2> QED BY <2>1
<1>2. ASSUME NEW k \in Nat, k \in G PROVE k + 1 \in G
  <2>1. ASSUME NEW S \in SUBSET Nat, IsFiniteSet(S), Cardinality(S) = k + 1 PROVE \E f : Sorted(f, k + 1, S)
    <3>1. S # {}
      BY <2>1, FS_EmptySet
    <3>2. PICK x \in S : \A y \in S : x <= y
      BY <3>1, Least
    <3>3. IsFiniteSet(S \ {x}) /\ Cardinality(S \ {x}) = k /\ S \ {x} \in SUBSET Nat
      BY <2>1, <3>2, FS_RemoveElement
    <3>4. PICK g : Sorted(g, k, S \ {x})
      BY <1>2, <3>3
    <3> DEFINE f == [i \in 1..(k + 1) |-> IF i = 1 THEN x ELSE g[i - 1]]
    <3>5. \A i \in 1..(k + 1) : i # 1 => i - 1 \in 1..k
      OBVIOUS
    <3>6. f \in [1..(k + 1) -> S]
      BY <3>2, <3>4, <3>5 DEF Sorted
    <3>7. ASSUME NEW i \in 1..(k + 1), NEW j \in 1..(k + 1), i < j PROVE f[i] < f[j]
      <4>1. j # 1 /\ j - 1 \in 1..k /\ f[j] = g[j - 1] /\ g[j - 1] \in S \ {x}
        BY <3>4, <3>5, <3>7 DEF Sorted
      <4>2. CASE i = 1
        <5>1. f[i] = x /\ x <= g[j - 1] /\ g[j - 1] # x /\ x \in Nat /\ g[j - 1] \in Nat
          BY <3>2, <4>1, <4>2
        <5> QED BY <4>1, <5>1
      <4>3. CASE i # 1
        <5>1. i - 1 \in 1..k /\ f[i] = g[i - 1] /\ i - 1 < j - 1
          BY <3>5, <3>7, <4>3
        <5> QED BY <3>4, <4>1, <5>1 DEF Sorted
      <4> QED BY <4>2, <4>3
    <3>8. ASSUME NEW y \in S PROVE \E i \in 1..(k + 1) : f[i] = y
      <4>1. CASE y = x
        <5>1. 1 \in 1..(k + 1) /\ f[1] = y
          BY <4>1
        <5> QED BY <5>1
      <4>2. CASE y # x
        <5>1. PICK i \in 1..k : g[i] = y
          BY <3>4, <4>2 DEF Sorted
        <5>2. i + 1 \in 1..(k + 1) /\ f[i + 1] = y
          BY <5>1
        <5> QED BY <5>2
      <4> QED BY <4>1, <4>2
    <3> HIDE DEF f
    <3>9. Sorted(f, k + 1, S)
      BY <3>6, <3>7, <3>8 DEF Sorted
    <3> QED BY <3>9
  <2> QED BY <1>2, <2>1
<1>3. \A k \in 0..(n - 1) : k \in G => k + 1 \in G
  BY <1>2
<1> HIDE DEF G
<1>4. n \in G
  BY <1>1, <1>3, ToTheEnd
<1> QED BY <1>4 DEF G

LEMMA InOrderIs ==
  ASSUME NEW S \in SUBSET Nat, IsFiniteSet(S)
  PROVE  /\ InOrder(S) \in Seq(S) /\ Len(InOrder(S)) = Cardinality(S)
         /\ ToSet(InOrder(S)) = S /\ IsInjective(InOrder(S))
<1> DEFINE n == Cardinality(S)
           s == InOrder(S)
           Rising(f) == \A i, j \in DOMAIN f : i < j => f[i] < f[j]
<1>1. n \in Nat
  BY FS_CardinalityType
<1>2. \E f \in SetToSeqs(S) : Rising(f)
  <2>1. PICK f : Sorted(f, n, S)
    BY <1>1, SortedExists
  <2>2. f \in [1..n -> S] /\ DOMAIN f = 1..n
    BY <2>1 DEF Sorted
  <2>3. ASSUME NEW i \in 1..n, NEW j \in 1..n, i # j PROVE f[i] # f[j]
    <3>1. i < j \/ j < i
      BY <2>3
    <3>2. f[i] \in Nat /\ f[j] \in Nat
      BY <2>2
    <3> QED BY <2>1, <3>1, <3>2 DEF Sorted
  <2>4. f \in SetToSeqs(S)
    BY <2>2, <2>3 DEF SetToSeqs
  <2> QED BY <2>1, <2>2, <2>4 DEF Sorted
<1>3. s \in SetToSeqs(S)
  BY <1>2 DEF InOrder
<1>4. s \in [1..n -> S] /\ \A i, j \in 1..n : i # j => s[i] # s[j]
  BY <1>3 DEF SetToSeqs
<1> HIDE DEF s
<1>5. s \in Seq(S) /\ Len(s) = n /\ DOMAIN s = 1..n
  BY <1>1, <1>4
<1>6. IsInjective(s)
  BY <1>4, <1>5 DEF IsInjective
<1>7. s \in Injection(1..n, S)
  BY <1>4, <1>6 DEF Injection
<1>8. Cardinality(1..n) = n
  <2>1. 1 \in Int /\ n \in Int /\ (IF 1 > n THEN 0 ELSE n - 1 + 1) = n
    BY <1>1
  <2> QED BY <2>1, FS_Interval
<1>9. s \in Surjection(1..n, S)
  BY <1>7, <1>8, FS_Injection
<1>10. ToSet(s) = S
  <2>1. \A e \in S : \E i \in 1..n : s[i] = e
    BY <1>9, Zenon DEF Surjection
  <2>2. \A i \in 1..n : s[i] \in S
    BY <1>4
  <2>3. ToSet(s) = {s[i] : i \in 1..n}
    BY <1>5, Zenon DEF ToSet
  <2> HIDE DEF n
  <2> QED BY <2>1, <2>2, <2>3
<1> QED BY <1>5, <1>6, <1>10 DEF s

-----------------------------------------------------------------------------
(* One element more or less *)

LEMMA JoinIs ==
  ASSUME NEW S, NEW a \in Seq(S), NEW b \in Seq(S)
  PROVE  /\ a \o b \in Seq(S) /\ Len(a \o b) = Len(a) + Len(b)
         /\ \A j \in 1..Len(a) : (a \o b)[j] = a[j]
         /\ \A j \in 1..Len(b) : (a \o b)[Len(a) + j] = b[j]
<1>1. a \o b \in Seq(S)
  OBVIOUS
<1>2. Len(a \o b) = Len(a) + Len(b)
  OBVIOUS
<1>3. \A j \in 1..Len(a) : (a \o b)[j] = a[j]
  OBVIOUS
<1>4. \A j \in 1..Len(b) : (a \o b)[Len(a) + j] = b[j]
  OBVIOUS
<1> QED BY <1>1, <1>2, <1>3, <1>4

LEMMA InsertIs ==
  ASSUME NEW S, NEW s \in Seq(S), NEW x \in S, NEW p \in 1..(Len(s) + 1)
  PROVE  LET t == InsertAt(s, p, x)
         IN  /\ t \in Seq(S) /\ Len(t) = Len(s) + 1 /\ t[p] = x
             /\ \A j \in 1..(p - 1) : t[j] = s[j]
             /\ \A j \in p..Len(s) : t[j + 1] = s[j]
<1> DEFINE a == SubSeq(s, 1, p - 1)
           b == SubSeq(s, p, Len(s))
<1>1. a \in Seq(S) /\ Len(a) = p - 1 /\ \A j \in 1..(p - 1) : a[j] = s[j]
  OBVIOUS
<1>2. b \in Seq(S) /\ Len(b) = Len(s) - p + 1 /\ \A j \in 1..(Len(s) - p + 1) : b[j] = s[p + j - 1]
  OBVIOUS
<1>3. <<x>> \in Seq(S) /\ Len(<<x>>) = 1 /\ <<x>>[1] = x
  OBVIOUS
<1> HIDE DEF a, b
<1> DEFINE c == a \o <<x>>
<1>4. c \in Seq(S) /\ Len(c) = p /\ c[p] = x /\ \A j \in 1..(p - 1) : c[j] = s[j]
  BY <1>1, <1>3
<1> HIDE DEF c
<1>5. c \o b \in Seq(S) /\ Len(c \o b) = Len(s) + 1
  <2>1. c \o b \in Seq(S) /\ Len(c \o b) = Len(c) + Len(b)
    BY <1>2, <1>4, JoinIs
  <2> QED BY <1>2, <1>4, <2>1
<1>6. (c \o b)[p] = x /\ \A j \in 1..(p - 1) : (c \o b)[j] = s[j]
  <2>1. \A j \in 1..Len(c) : (c \o b)[j] = c[j]
    BY <1>2, <1>4, JoinIs
  <2> QED BY <1>4, <2>1
<1>7. ASSUME NEW j \in p..Len(s) PROVE (c \o b)[j + 1] = s[j]
  <2>1. j + 1 - p \in 1..(Len(s) - p + 1) /\ Len(c) + (j + 1 - p) = j + 1
    BY <1>4
  <2>2. \A k \in 1..Len(b) : (c \o b)[Len(c) + k] = b[k]
    BY <1>2, <1>4, JoinIs
  <2>4. (c \o b)[j + 1] = b[j + 1 - p]
    BY <1>2, <2>1, <2>2
  <2>3. b[j + 1 - p] = s[p + (j + 1 - p) - 1] /\ p + (j + 1 - p) - 1 = j
    BY <1>2, <2>1
  <2> QED BY <2>3, <2>4
<1>8. InsertAt(s, p, x) = c \o b
  BY DEF InsertAt, a, b, c
<1> QED BY <1>5, <1>6, <1>7, <1>8

LEMMA RemoveIs ==
  ASSUME NEW S, NEW s \in Seq(S), NEW p \in 1..Len(s)
  PROVE  LET t == RemoveAt(s, p)
         IN  /\ t \in Seq(S) /\ Len(t) = Len(s) - 1
             /\ \A j \in 1..(p - 1) : t[j] = s[j]
             /\ \A j \in p..(Len(s) - 1) : t[j] = s[j + 1]
<1> DEFINE a == SubSeq(s, 1, p - 1)
           b == SubSeq(s, p + 1, Len(s))
<1>1. a \in Seq(S) /\ Len(a) = p - 1 /\ \A j \in 1..(p - 1) : a[j] = s[j]
  OBVIOUS
<1>2. b \in Seq(S) /\ Len(b) = Len(s) - p /\ \A j \in 1..(Len(s) - p) : b[j] = s[p + j]
  OBVIOUS
<1> HIDE DEF a, b
<1>3. a \o b \in Seq(S) /\ Len(a \o b) = Len(s) - 1 /\ \A j \in 1..(p - 1) : (a \o b)[j] = s[j]
  <2>1. a \o b \in Seq(S) /\ Len(a \o b) = Len(a) + Len(b) /\ \A j \in 1..Len(a) : (a \o b)[j] = a[j]
    BY <1>1, <1>2, JoinIs
  <2>2. Len(a) + Len(b) = Len(s) - 1
    BY <1>1, <1>2
  <2> QED BY <1>1, <2>1, <2>2
<1>4. ASSUME NEW j \in p..(Len(s) - 1) PROVE (a \o b)[j] = s[j + 1]
  <2>1. j - (p - 1) \in 1..(Len(s) - p) /\ Len(a) + (j - (p - 1)) = j
    BY <1>1
  <2>4. \A k \in 1..Len(b) : (a \o b)[Len(a) + k] = b[k]
    BY <1>1, <1>2, JoinIs
  <2>2. (a \o b)[j] = b[j - (p - 1)]
    BY <1>2, <2>1, <2>4
  <2>3. b[j - (p - 1)] = s[p + (j - (p - 1))] /\ p + (j - (p - 1)) = j + 1
    BY <1>2, <2>1
  <2> QED BY <2>2, <2>3
<1>5. RemoveAt(s, p) = a \o b
  BY DEF RemoveAt, a, b
<1> QED BY <1>3, <1>4, <1>5

LEMMA Elements ==
  ASSUME NEW S, NEW s \in Seq(S)
  PROVE  /\ ToSet(s) = {s[j] : j \in 1..Len(s)} /\ ToSet(s) \in SUBSET S
         /\ IsInjective(s) <=> \A j, k \in 1..Len(s) : s[j] = s[k] => j = k
         /\ \A x : Contains(s, x) <=> x \in ToSet(s)
<1>1. DOMAIN s = 1..Len(s) /\ \A j \in 1..Len(s) : s[j] \in S
  OBVIOUS
<1> QED BY <1>1 DEF ToSet, IsInjective, Contains

LEMMA InsertSet ==
  ASSUME NEW S, NEW s \in Seq(S), NEW x \in S, NEW p \in 1..(Len(s) + 1)
  PROVE  /\ ToSet(InsertAt(s, p, x)) = ToSet(s) \cup {x}
         /\ IsInjective(s) /\ x \notin ToSet(s) => IsInjective(InsertAt(s, p, x))
<1> DEFINE t == InsertAt(s, p, x)
           n == Len(s)
           \* where the elements come from
           From(j) == IF j < p THEN j ELSE j - 1
<1>1. n \in Nat /\ t \in Seq(S) /\ Len(t) = n + 1 /\ t[p] = x
  BY InsertIs
<1>2. /\ \A j \in 1..(p - 1) : t[j] = s[j]
      /\ \A j \in p..n : t[j + 1] = s[j]
  BY InsertIs
<1> HIDE DEF t
<1>3. ASSUME NEW j \in 1..(n + 1), j # p PROVE From(j) \in 1..n /\ t[j] = s[From(j)]
  <2>1. CASE j < p
    BY <1>1, <1>2, <2>1
  <2>2. CASE ~(j < p)
    <3>1. j - 1 \in p..n /\ j - 1 \in 1..n /\ (j - 1) + 1 = j
      BY <1>1, <1>3, <2>2
    <3>2. t[(j - 1) + 1] = s[j - 1]
      BY <1>2, <3>1
    <3> QED BY <2>2, <3>1, <3>2
  <2> QED BY <2>1, <2>2
<1>4. ASSUME NEW j \in 1..n PROVE \E k \in 1..(n + 1) : t[k] = s[j]
  <2>1. CASE j < p
    BY <1>1, <1>2, <2>1
  <2>2. CASE ~(j < p)
    <3>1. j \in p..n /\ j + 1 \in 1..(n + 1)
      BY <1>1, <2>2
    <3> QED BY <1>2, <3>1
  <2> QED BY <2>1, <2>2
<1>5. ToSet(t) = {t[j] : j \in 1..(n + 1)} /\ ToSet(s) = {s[j] : j \in 1..n}
  BY <1>1, Elements
<1>6. ToSet(t) = ToSet(s) \cup {x}
  <2>1. ASSUME NEW y \in ToSet(t) PROVE y \in ToSet(s) \cup {x}
    <3>1. PICK j \in 1..(n + 1) : y = t[j]
      BY <1>5, <2>1
    <3>2. CASE j = p
      BY <1>1, <3>1, <3>2
    <3>3. CASE j # p
      BY <1>3, <1>5, <3>1, <3>3
    <3> QED BY <3>2, <3>3
  <2>2. ASSUME NEW y \in ToSet(s) PROVE y \in ToSet(t)
    BY <1>4, <1>5, <2>2
  <2>3. x \in ToSet(t)
    <3>1. p \in 1..(n + 1)
      BY <1>1
    <3> QED BY <1>1, <1>5, <3>1
  <2> QED BY <2>1, <2>2, <2>3
<1>7. ASSUME IsInjective(s), x \notin ToSet(s) PROVE IsInjective(t)
  <2>1. \A j, k \in 1..n : s[j] = s[k] => j = k
    BY <1>7, Elements
  <2>2. ASSUME NEW j \in 1..(n + 1), NEW k \in 1..(n + 1), t[j] = t[k] PROVE j = k
    <3>1. \A l \in 1..(n + 1) : l # p => t[l] # x
      BY <1>3, <1>5, <1>7
    <3>2. CASE j = p \/ k = p
      BY <1>1, <2>2, <3>1, <3>2
    <3>3. CASE j # p /\ k # p
      <4>1. From(j) = From(k)
        BY <1>3, <2>1, <2>2, <3>3
      <4> QED BY <1>1, <3>3, <4>1
    <3> QED BY <3>2, <3>3
  <2> QED BY <1>1, <2>2, Elements
<1> QED BY <1>6, <1>7 DEF t

LEMMA RemoveSet ==
  ASSUME NEW S, NEW s \in Seq(S), NEW p \in 1..Len(s), IsInjective(s)
  PROVE  ToSet(RemoveAt(s, p)) = ToSet(s) \ {s[p]} /\ IsInjective(RemoveAt(s, p))
<1> DEFINE t == RemoveAt(s, p)
           n == Len(s)
           From(j) == IF j < p THEN j ELSE j + 1
<1>1. n \in Nat /\ t \in Seq(S) /\ Len(t) = n - 1 /\ n - 1 \in Nat
  BY RemoveIs
<1>2. /\ \A j \in 1..(p - 1) : t[j] = s[j]
      /\ \A j \in p..(n - 1) : t[j] = s[j + 1]
  BY RemoveIs
<1> HIDE DEF t
<1>3. ASSUME NEW j \in 1..(n - 1) PROVE From(j) \in 1..n /\ From(j) # p /\ t[j] = s[From(j)]
  <2>1. CASE j < p
    BY <1>1, <1>2, <2>1
  <2>2. CASE ~(j < p)
    <3>1. j \in p..(n - 1)
      BY <1>1, <2>2
    <3> QED BY <1>1, <1>2, <2>2, <3>1
  <2> QED BY <2>1, <2>2
<1>4. ASSUME NEW j \in 1..n, j # p PROVE \E k \in 1..(n - 1) : t[k] = s[j]
  <2>1. CASE j < p
    BY <1>1, <1>2, <2>1
  <2>2. CASE ~(j < p)
    <3>1. j - 1 \in p..(n - 1) /\ j - 1 \in 1..(n - 1) /\ (j - 1) + 1 = j
      BY <1>1, <1>4, <2>2
    <3>2. t[j - 1] = s[(j - 1) + 1]
      BY <1>2, <3>1
    <3> QED BY <3>1, <3>2
  <2> QED BY <2>1, <2>2
<1>5. ToSet(t) = {t[j] : j \in 1..(n - 1)} /\ ToSet(s) = {s[j] : j \in 1..n}
  BY <1>1, Elements
<1>6. \A j, k \in 1..n : s[j] = s[k] => j = k
  BY Elements
<1>7. ToSet(t) = ToSet(s) \ {s[p]}
  <2>1. ASSUME NEW y \in ToSet(t) PROVE y \in ToSet(s) /\ y # s[p]
    <3>1. PICK j \in 1..(n - 1) : y = t[j]
      BY <1>5, <2>1
    <3> QED BY <1>1, <1>3, <1>5, <1>6, <3>1
  <2>2. ASSUME NEW y \in ToSet(s), y # s[p] PROVE y \in ToSet(t)
    BY <1>4, <1>5, <2>2
  <2> QED BY <2>1, <2>2
<1>8. IsInjective(t)
  <2>1. ASSUME NEW j \in 1..(n - 1), NEW k \in 1..(n - 1), t[j] = t[k] PROVE j = k
    <3>1. From(j) = From(k)
      BY <1>3, <1>6, <2>1
    <3> QED BY <1>1, <3>1
  <2> QED BY <1>1, <2>1, Elements
<1> QED BY <1>7, <1>8 DEF t

-----------------------------------------------------------------------------
(* The applications and which of them is selected *)

Fields == {"applications", "hidden", "index", "last_active", "only_apps_on_viewport",
           "detail", "detail_index", "xids", "rows", "row"}

\* No application is there twice, and one of them is selected
Chosen(m) ==
  /\ DOMAIN m = Fields
  /\ m.applications \in Seq(Icons) /\ IsInjective(m.applications)
  /\ m.hidden \in SUBSET Icons /\ ToSet(m.applications) \cap m.hidden = {}
  /\ m.index \in Nat
  /\ m.index < Len(m.applications) \/ (m.index = 0 /\ Len(m.applications) = 0)

\* To neither of them something happens
Same(m, t) ==
  /\ DOMAIN t = Fields
  /\ t.applications = m.applications /\ t.hidden = m.hidden /\ t.index = m.index
  /\ t.only_apps_on_viewport = m.only_apps_on_viewport

\* The application i does not lose the selection by staying
Keeps(t, i) == i \in ToSet(t.applications) => Selection(t) = i

LEMMA SameChosen ==
  ASSUME NEW m, NEW t, Same(m, t)
  PROVE  /\ Chosen(m) => Chosen(t)
         /\ Selection(t) = Selection(m) /\ ToSet(t.applications) = ToSet(m.applications)
         /\ Connected(t) = Connected(m)
BY DEF Same, Chosen, Selection, At, Size, Connected

LEMMA SelectionIs ==
  ASSUME NEW m, Chosen(m)
  PROVE  /\ ToSet(m.applications) \in SUBSET Icons /\ Connected(m) \in SUBSET Icons
         /\ Len(m.applications) \in Nat
         /\ m.applications = <<>> <=> Len(m.applications) = 0
         /\ m.applications # <<>> =>
               /\ m.index + 1 \in 1..Len(m.applications)
               /\ Selection(m) = m.applications[m.index + 1]
               /\ Selection(m) \in ToSet(m.applications) /\ Selection(m) \in Icons
         /\ m.applications = <<>> => Selection(m) = NoIcon /\ ToSet(m.applications) = {}
         /\ NoIcon \notin Icons
<1>1. m.applications \in Seq(Icons) /\ m.index \in Nat /\ m.hidden \in SUBSET Icons
  BY DEF Chosen
<1>2. ToSet(m.applications) = {m.applications[j] : j \in 1..Len(m.applications)} /\ ToSet(m.applications) \in SUBSET Icons
  BY <1>1, Elements
<1>3. Len(m.applications) \in Nat /\ (m.applications = <<>> <=> Len(m.applications) = 0)
  BY <1>1
<1>4. ASSUME m.applications # <<>>
      PROVE  /\ m.index + 1 \in 1..Len(m.applications)
             /\ Selection(m) = m.applications[m.index + 1]
             /\ Selection(m) \in ToSet(m.applications) /\ Selection(m) \in Icons
  <2>1. m.index < Len(m.applications) /\ m.index + 1 \in 1..Len(m.applications)
    BY <1>1, <1>3, <1>4 DEF Chosen
  <2>2. Selection(m) = m.applications[m.index + 1]
    BY <2>1 DEF Selection, At, Size
  <2> QED BY <1>2, <2>1, <2>2
<1>5. ASSUME m.applications = <<>> PROVE Selection(m) = NoIcon /\ ToSet(m.applications) = {}
  <2>1. Len(m.applications) = 0
    BY <1>3, <1>5
  <2>2. ~(m.index < 0)
    BY <1>1
  <2> QED BY <1>2, <2>1, <2>2 DEF Selection, At, Size
<1>6. NoIcon \notin Icons
  BY SwitcherAssumption DEF NoIcon, Icons
<1> QED BY <1>1, <1>2, <1>3, <1>4, <1>5, <1>6 DEF Connected

LEMMA CountBefore ==
  ASSUME NEW s \in Seq(Icons), NEW i \in Icons
  PROVE  Cardinality({j \in ToSet(s) : j < i}) \in 0..Len(s)
<1> DEFINE n == Len(s)
           T == ToSet(s)
           B == {j \in T : j < i}
<1>1. n \in Nat /\ s \in [1..n -> T] /\ \A x \in T : \E j \in 1..n : s[j] = x
  <2>1. DOMAIN s = 1..Len(s) /\ s = [j \in 1..n |-> s[j]]
    OBVIOUS
  <2> QED BY <2>1, Elements
<1>2. s \in Surjection(1..n, T)
  BY <1>1 DEF Surjection
<1>3. IsFiniteSet(1..n) /\ Cardinality(1..n) = n
  <2>1. 1 \in Int /\ n \in Int /\ (IF 1 > n THEN 0 ELSE n - 1 + 1) = n
    BY <1>1
  <2> QED BY <2>1, FS_Interval
<1>4. IsFiniteSet(T) /\ Cardinality(T) <= n
  BY <1>2, <1>3, FS_Surjection
<1>5. B \in SUBSET T
  OBVIOUS
<1>6. IsFiniteSet(B) /\ Cardinality(B) <= Cardinality(T)
  BY <1>4, <1>5, FS_Subset
<1>7. Cardinality(B) \in Nat /\ Cardinality(T) \in Nat
  BY <1>4, <1>6, FS_CardinalityType
<1> QED BY <1>1, <1>4, <1>6, <1>7

LEMMA InsertChosen ==
  ASSUME NEW m, Chosen(m), NEW i \in Icons, i \notin Connected(m)
  PROVE  LET t == InsertIcon(m, i)
         IN  /\ Chosen(t) /\ t.hidden = m.hidden /\ t.applications # <<>>
             /\ ToSet(t.applications) = ToSet(m.applications) \cup {i}
             /\ \A j : j # i /\ Keeps(m, j) => Keeps(t, j)
<1> DEFINE s == m.applications
           at == Cardinality({j \in ToSet(s) : j < i})
           w == InsertAt(s, at + 1, i)
           added == [m EXCEPT !.applications = w]
           n == Len(s)
           t == InsertIcon(m, i)
<1>1. s \in Seq(Icons) /\ IsInjective(s) /\ n \in Nat /\ m.index \in Nat /\ DOMAIN m = Fields /\ i \notin ToSet(s)
  BY SelectionIs DEF Chosen, Connected
<1>2. at \in 0..n
  BY <1>1, CountBefore
<1>3. t = IF at <= m.index THEN NextIndex(added) ELSE added
  BY DEF InsertIcon
<1> HIDE DEF at, t, s
<1>4. at + 1 \in 1..(n + 1)
  BY <1>1, <1>2
<1>5. /\ w \in Seq(Icons) /\ Len(w) = n + 1 /\ w[at + 1] = i
      /\ \A j \in 1..at : w[j] = s[j]
      /\ \A j \in (at + 1)..n : w[j + 1] = s[j]
  <2>1. /\ w \in Seq(Icons) /\ Len(w) = n + 1 /\ w[at + 1] = i
        /\ \A j \in 1..((at + 1) - 1) : w[j] = s[j]
        /\ \A j \in (at + 1)..n : w[j + 1] = s[j]
    BY <1>1, <1>4, InsertIs
  <2>2. (at + 1) - 1 = at
    BY <1>2
  <2> QED BY <2>1, <2>2
<1>6. ToSet(w) = ToSet(s) \cup {i} /\ IsInjective(w)
  BY <1>1, <1>4, InsertSet
<1>7. w # <<>>
  BY <1>1, <1>5
<1> HIDE DEF w
<1>8. /\ DOMAIN added = Fields /\ added.applications = w /\ added.hidden = m.hidden /\ added.index = m.index
  BY <1>1 DEF Fields
<1> HIDE DEF added
<1>9. NextIndex(added) = [added EXCEPT !.index = (m.index + 1) % (n + 1)]
  BY <1>5, <1>7, <1>8 DEF NextIndex, Size
<1>10. /\ DOMAIN t = Fields /\ t.applications = w /\ t.hidden = m.hidden
       /\ t.index = IF at <= m.index THEN (m.index + 1) % (n + 1) ELSE m.index
  BY <1>3, <1>8, <1>9 DEF Fields
<1>11. m.index < n \/ (m.index = 0 /\ n = 0)
  BY DEF Chosen, s
<1>12. t.index \in Nat /\ t.index < n + 1 /\ (n # 0 /\ at <= m.index => t.index = m.index + 1)
  <2>1. CASE at <= m.index /\ n # 0
    <3>1. m.index + 1 \in 0..n
      BY <1>1, <1>11, <2>1
    <3>2. (m.index + 1) % (n + 1) = m.index + 1
      BY <1>1, <3>1
    <3> QED BY <1>1, <1>10, <1>11, <2>1, <3>2
  <2>2. CASE n = 0
    <3>1. m.index = 0 /\ (0 + 1) % (0 + 1) = 0
      BY <1>1, <1>11, <2>2
    <3> QED BY <1>10, <2>2, <3>1
  <2>3. CASE ~(at <= m.index)
    <3>1. m.index < n
      BY <1>1, <1>2, <1>11, <2>3
    <3> QED BY <1>1, <1>10, <2>3, <3>1
  <2> QED BY <2>1, <2>2, <2>3
<1>13. Chosen(t)
  <2>1. m.hidden \in SUBSET Icons /\ ToSet(s) \cap m.hidden = {} /\ i \notin m.hidden
    BY DEF Chosen, Connected, s
  <2> QED BY <1>5, <1>6, <1>10, <1>12, <2>1 DEF Chosen
<1>14. ASSUME NEW j, j # i, Keeps(m, j) PROVE Keeps(t, j)
  <2>1. SUFFICES ASSUME j \in ToSet(w) PROVE Selection(t) = j
    BY <1>10 DEF Keeps
  <2>2. j \in ToSet(s) /\ Selection(m) = j
    BY <1>6, <1>14, <2>1 DEF Keeps, s
  <2>3. s # <<>>
    BY <2>2, SelectionIs DEF s
  <2>4. n # 0 /\ m.index < n /\ m.index + 1 \in 1..n /\ s[m.index + 1] = j
    <3>1. n # 0
      BY <1>1, <2>3
    <3> QED BY <1>11, <2>2, <2>3, <3>1, SelectionIs DEF s
  <2>5. Selection(t) = w[t.index + 1]
    BY <1>7, <1>10, <1>13, SelectionIs
  <2>6. CASE at <= m.index
    <3>1. t.index = m.index + 1 /\ m.index + 1 \in (at + 1)..n
      BY <1>1, <1>2, <1>12, <2>4, <2>6
    <3> QED BY <1>5, <2>4, <2>5, <3>1
  <2>7. CASE ~(at <= m.index)
    <3>1. t.index = m.index /\ m.index + 1 \in 1..at
      BY <1>1, <1>2, <1>10, <2>7
    <3> QED BY <1>5, <2>4, <2>5, <3>1
  <2> QED BY <2>6, <2>7
<1>15. t.applications # <<>> /\ ToSet(t.applications) = ToSet(m.applications) \cup {i} /\ t.hidden = m.hidden
  BY <1>6, <1>7, <1>10 DEF s
<1> QED BY <1>13, <1>14, <1>15 DEF t

LEMMA DetailsSame ==
  ASSUME NEW m, DOMAIN m = Fields, NEW e
  PROVE  /\ Same(m, UpdateLastActiveApplication(e, m))
         /\ Same(m, UpdateDetailXids(e, m))
         /\ \A value : Same(m, SetDetailSelection(e, m, value))
         /\ Same(m, UnsetDetailSelection(e, m))
<1>1. Same(m, UpdateLastActiveApplication(e, m))
  BY DEF Same, UpdateLastActiveApplication, Fields
<1>2. ASSUME NEW x, DOMAIN x = Fields PROVE Same(x, UpdateDetailXids(e, x))
  BY <1>2 DEF Same, UpdateDetailXids, Fields
<1>3. ASSUME NEW value PROVE Same(m, SetDetailSelection(e, m, value))
  <2> DEFINE x == [m EXCEPT !.detail = value]
  <2>1. Same(m, x)
    BY DEF Same, Fields
  <2>2. Same(x, UpdateDetailXids(e, x))
    BY <1>2, <2>1 DEF Same
  <2>3. Same(m, m)
    BY DEF Same
  <2>4. SetDetailSelection(e, m, value) = m \/ SetDetailSelection(e, m, value) = UpdateDetailXids(e, x)
    BY DEF SetDetailSelection
  <2> HIDE DEF x
  <2>5. Same(m, UpdateDetailXids(e, x))
    BY <2>1, <2>2 DEF Same
  <2> QED BY <2>3, <2>4, <2>5
<1>4. Same(m, UnsetDetailSelection(e, m))
  <2> DEFINE x == SetDetailSelection(e, m, FALSE)
  <2>1. Same(m, x)
    BY <1>3
  <2> HIDE DEF x
  <2>2. Same(x, [x EXCEPT !.detail_index = 0, !.row = 0])
    BY <2>1 DEF Same, Fields
  <2>3. UnsetDetailSelection(e, m) = [x EXCEPT !.detail_index = 0, !.row = 0]
    BY DEF UnsetDetailSelection, x
  <2> QED BY <2>1, <2>2, <2>3 DEF Same
<1> QED BY <1>1, <1>2, <1>3, <1>4

LEMMA WindowsSame ==
  ASSUME NEW m, DOMAIN m = Fields, NEW e
  PROVE  /\ Same(m, NextDetail(m)) /\ Same(m, PrevDetail(m))
         /\ Same(m, NextDetailRow(m)) /\ Same(m, PrevDetailRow(m))
         /\ \A i : Same(m, OnIconWindowsUpdated(e, m, i))
<1>1. ASSUME NEW x, DOMAIN x = Fields PROVE Same(x, UpdateRowIndex(x))
  BY <1>1 DEF Same, UpdateRowIndex, Fields
<1>2. ASSUME NEW v PROVE Same(m, UpdateRowIndex([m EXCEPT !.detail_index = v])) /\ Same(m, m)
  <2> DEFINE x == [m EXCEPT !.detail_index = v]
  <2>1. Same(m, x) /\ Same(m, m)
    BY DEF Same, Fields
  <2> HIDE DEF x
  <2>2. Same(x, UpdateRowIndex(x))
    BY <1>1, <2>1 DEF Same
  <2>3. Same(m, UpdateRowIndex(x))
    BY <2>1, <2>2 DEF Same
  <2> QED BY <2>1, <2>3 DEF x
<1>3. Same(m, NextDetail(m))
  BY <1>2 DEF NextDetail
<1>4. Same(m, PrevDetail(m))
  BY <1>2 DEF PrevDetail
<1>5. ASSUME NEW v, NEW r PROVE Same(m, [m EXCEPT !.detail_index = v, !.row = r]) /\ Same(m, [m EXCEPT !.detail_index = v])
  BY DEF Same, Fields
<1>6. Same(m, NextDetailRow(m))
  BY <1>5 DEF NextDetailRow
<1>7. Same(m, PrevDetailRow(m))
  BY <1>5 DEF PrevDetailRow
<1>8. ASSUME NEW i PROVE Same(m, OnIconWindowsUpdated(e, m, i))
  <2> DEFINE x == UpdateDetailXids(e, m)
  <2>1. Same(m, x) /\ Same(m, m)
    BY <1>2, DetailsSame
  <2>2. OnIconWindowsUpdated(e, m, i) \in {m, x, [x EXCEPT !.detail_index = IF Len(x.xids) - 1 < 0 THEN 0 ELSE Len(x.xids) - 1]}
    BY DEF OnIconWindowsUpdated
  <2> HIDE DEF x
  <2>3. ASSUME NEW v PROVE Same(m, [x EXCEPT !.detail_index = v])
    BY <2>1 DEF Same, Fields
  <2> QED BY <2>1, <2>2, <2>3
<1> QED BY <1>3, <1>4, <1>6, <1>7, <1>8

Place(s, i) == SelectInSeq(s, LAMBDA j : j = i)

LEMMA PlaceIs ==
  ASSUME NEW s \in Seq(Icons), IsInjective(s), NEW i \in ToSet(s)
  PROVE  Place(s, i) \in 1..Len(s) /\ s[Place(s, i)] = i
<1> DEFINE I == {k \in 1..Len(s) : s[k] = i}
<1>1. PICK p \in 1..Len(s) : s[p] = i
  BY Elements
<1>2. I = {p}
  BY <1>1, Elements
<1>3. Place(s, i) = IF I # {} THEN Min(I) ELSE 0
  BY DEF Place, SelectInSeq
<1>4. Min({p}) = p
  BY DEF Min
<1> QED BY <1>1, <1>2, <1>3, <1>4

LEMMA EraseChosen ==
  ASSUME NEW e, NEW m, Chosen(m), NEW i \in ToSet(m.applications)
  PROVE  LET t == Erase(e, m, i)
         IN  /\ Chosen(t) /\ t.hidden = m.hidden
             /\ t.only_apps_on_viewport = m.only_apps_on_viewport
             /\ ToSet(t.applications) = ToSet(m.applications) \ {i}
             /\ \A j : Keeps(m, j) => Keeps(t, j)
<1> DEFINE s == m.applications
           at == Place(s, i) - 1
           w == RemoveAt(s, at + 1)
           erased == [m EXCEPT !.applications = w]
           n == Len(s)
           moved == IF at < m.index \/ m.index = n - 1 THEN PrevIndex(erased) ELSE erased
           t == Erase(e, m, i)
<1>1. /\ s \in Seq(Icons) /\ IsInjective(s) /\ n \in Nat /\ m.index \in Nat /\ DOMAIN m = Fields
      /\ m.index < n \/ (m.index = 0 /\ n = 0)
  BY SelectionIs DEF Chosen
<1>2. at + 1 \in 1..n /\ s[at + 1] = i /\ at \in 0..(n - 1)
  <2>1. Place(s, i) \in 1..n /\ s[Place(s, i)] = i
    BY <1>1, PlaceIs
  <2>2. Place(s, i) \in Int
    BY <2>1
  <2>3. at + 1 = Place(s, i)
    BY <2>2
  <2> QED BY <1>1, <2>1, <2>3
<1>3. t = IF m.detail /\ at = m.index
          THEN UnsetDetailSelection(e, IF at < m.index \/ m.index = Size(erased) THEN PrevIndex(erased) ELSE erased)
          ELSE IF at < m.index \/ m.index = Size(erased) THEN PrevIndex(erased) ELSE erased
  BY Zenon DEF Erase, Place
<1> HIDE DEF at, s
<1>4. /\ w \in Seq(Icons) /\ Len(w) = n - 1
      /\ \A j \in 1..at : w[j] = s[j]
      /\ \A j \in (at + 1)..(n - 1) : w[j] = s[j + 1]
  <2>1. /\ w \in Seq(Icons) /\ Len(w) = n - 1
        /\ \A j \in 1..((at + 1) - 1) : w[j] = s[j]
        /\ \A j \in (at + 1)..(n - 1) : w[j] = s[j + 1]
    BY <1>1, <1>2, RemoveIs
  <2>2. (at + 1) - 1 = at
    BY <1>2
  <2> QED BY <2>1, <2>2
<1>5. ToSet(w) = ToSet(s) \ {i} /\ IsInjective(w)
  BY <1>1, <1>2, RemoveSet
<1>6. w = <<>> <=> n = 1
  BY <1>1, <1>4
<1> HIDE DEF w
<1>7. /\ DOMAIN erased = Fields /\ erased.applications = w /\ erased.hidden = m.hidden /\ erased.index = m.index
      /\ erased.only_apps_on_viewport = m.only_apps_on_viewport
  BY <1>1 DEF Fields
<1> HIDE DEF erased
<1>8. Size(erased) = n - 1
  BY <1>4, <1>7 DEF Size
<1>9. PrevIndex(erased) = IF n = 1 THEN erased
                          ELSE [erased EXCEPT !.index = (IF m.index > 0 /\ m.index < n - 1 THEN m.index ELSE n - 1) - 1]
  BY <1>6, <1>7, <1>8 DEF PrevIndex
<1>10. /\ DOMAIN moved = Fields /\ moved.applications = w /\ moved.hidden = m.hidden
       /\ moved.only_apps_on_viewport = m.only_apps_on_viewport
       /\ moved.index = IF (at < m.index \/ m.index = n - 1) /\ n # 1
                        THEN (IF m.index > 0 /\ m.index < n - 1 THEN m.index ELSE n - 1) - 1 ELSE m.index
  BY <1>7, <1>9 DEF Fields
<1>11. t = IF m.detail /\ at = m.index THEN UnsetDetailSelection(e, moved) ELSE moved
  BY <1>3, <1>8
<1> HIDE DEF moved, t
<1>12. Same(moved, t)
  <2>1. Same(moved, moved)
    BY <1>10 DEF Same
  <2> QED BY <1>10, <1>11, <2>1, DetailsSame
<1>13. /\ moved.index \in Nat /\ (moved.index < n - 1 \/ (n = 1 /\ moved.index = 0))
       /\ n # 1 /\ at < m.index => moved.index = m.index - 1
       /\ m.index < at => moved.index = m.index
  <2> DEFINE x == m.index
             y == moved.index
  <2>1. x \in Nat /\ n \in Nat /\ at \in Nat /\ at <= n - 1 /\ x <= n - 1
    BY <1>1, <1>2
  <2>2. y = IF (at < x \/ x = n - 1) /\ n # 1 THEN (IF x > 0 /\ x < n - 1 THEN x ELSE n - 1) - 1 ELSE x
    BY <1>10
  <2> HIDE DEF x, y, n
  <2>3. /\ y \in Nat /\ (y < n - 1 \/ (n = 1 /\ y = 0))
        /\ n # 1 /\ at < x => y = x - 1
        /\ x < at => y = x
    BY <2>1, <2>2
  <2> QED BY <2>3 DEF x, y
<1>14. Chosen(moved)
  <2>1. m.hidden \in SUBSET Icons /\ ToSet(s) \cap m.hidden = {}
    BY DEF Chosen, s
  <2> QED BY <1>1, <1>4, <1>5, <1>10, <1>13, <2>1 DEF Chosen
<1>15. ASSUME NEW j, Keeps(m, j) PROVE Keeps(moved, j)
  <2>1. SUFFICES ASSUME j \in ToSet(w) PROVE Selection(moved) = j
    BY <1>10 DEF Keeps
  <2>2. j \in ToSet(s) /\ j # i /\ Selection(m) = j
    BY <1>5, <1>15, <2>1 DEF Keeps, s
  <2>3. m.index + 1 \in 1..n /\ s[m.index + 1] = j
    BY <2>2, SelectionIs DEF s
  <2>4. m.index # at
    BY <1>2, <2>2, <2>3
  <2>5. n # 1
    BY <1>1, <1>2, <2>3, <2>4
  <2>6. Selection(moved) = w[moved.index + 1]
    BY <1>6, <1>10, <1>14, <2>5, SelectionIs
  <2>7. CASE at < m.index
    <3>1. moved.index + 1 = m.index /\ m.index \in (at + 1)..(n - 1)
      BY <1>1, <1>2, <1>13, <2>3, <2>5, <2>7
    <3> QED BY <1>4, <2>3, <2>6, <3>1
  <2>8. CASE m.index < at
    <3>1. moved.index + 1 = m.index + 1 /\ m.index + 1 \in 1..at
      BY <1>1, <1>2, <1>13, <2>8
    <3> QED BY <1>4, <2>3, <2>6, <3>1
  <2>9. at < m.index \/ m.index < at
    BY <1>1, <1>2, <2>4
  <2> QED BY <2>7, <2>8, <2>9
<1>16. /\ Chosen(t) /\ t.hidden = m.hidden /\ t.only_apps_on_viewport = m.only_apps_on_viewport
       /\ ToSet(t.applications) = ToSet(m.applications) \ {i}
  <2>1. Chosen(t)
    BY <1>12, <1>14, SameChosen
  <2> QED BY <1>5, <1>10, <1>12, <2>1 DEF Same, s
<1>17. ASSUME NEW j, Keeps(m, j) PROVE Keeps(t, j)
  <2>1. Selection(t) = Selection(moved) /\ ToSet(t.applications) = ToSet(moved.applications)
    BY <1>12, SameChosen
  <2> QED BY <1>15, <1>17, <2>1 DEF Keeps
<1> QED BY <1>16, <1>17 DEF t

-----------------------------------------------------------------------------
(* What FoldLeft goes through.  Its stages are those of a recursion over the sets of
   positions, of which only 1..k are met. *)

LEMMA MaxIs ==
  ASSUME NEW S \in SUBSET Nat, NEW m \in S, \A x \in S : m >= x
  PROVE  Max(S) = m
<1>1. \A x \in S : (\A y \in S : x >= y) => x = m
  OBVIOUS
<1> QED BY <1>1 DEF Max

LEMMA MinIs ==
  ASSUME NEW S \in SUBSET Nat, NEW m \in S, \A x \in S : m <= x
  PROVE  Min(S) = m
<1>1. \A x \in S : (\A y \in S : x <= y) => x = m
  OBVIOUS
<1> QED BY <1>1 DEF Min

HideIterates(f, e, start, q) ==
  f = [x \in SUBSET (1..Len(q)) |-> IF x = {} THEN start ELSE HideIcon(e, f[x \ {Max(x)}], q[Max(x)])]

LEMMA HideIter ==
  ASSUME NEW e, NEW start, NEW q \in Seq(Icons)
  PROVE  \E f : HideIterates(f, e, start, q)
<1> DEFINE n == Len(q)
           Iter(f, k) == f = [x \in SUBSET (1..k) |-> IF x = {} THEN start ELSE HideIcon(e, f[x \ {Max(x)}], q[Max(x)])]
           G == {k \in 0..n : \E f : Iter(f, k)}
<1>1. n \in Nat
  OBVIOUS
<1>2. 0 \in G
  <2> DEFINE f == [x \in SUBSET (1..0) |-> start]
  <2>1. \A x \in SUBSET (1..0) : x = {}
    OBVIOUS
  <2>2. Iter(f, 0)
    BY <2>1
  <2> HIDE DEF Iter, f
  <2> QED BY <1>1, <2>2
<1>3. ASSUME NEW k \in 0..(n - 1), k \in G PROVE k + 1 \in G
  <2>1. k + 1 \in 0..n /\ k \in Nat
    BY <1>1
  <2>2. PICK g : Iter(g, k)
    BY <1>3
  <2> DEFINE f == [x \in SUBSET (1..k + 1) |-> IF k + 1 \in x THEN HideIcon(e, g[x \ {k + 1}], q[k + 1]) ELSE g[x]]
             h == [x \in SUBSET (1..k + 1) |-> IF x = {} THEN start ELSE HideIcon(e, f[x \ {Max(x)}], q[Max(x)])]
  <2>3. ASSUME NEW x \in SUBSET (1..k + 1) PROVE f[x] = h[x]
    <3>1. CASE k + 1 \in x
      <4>1. Max(x) = k + 1
        <5>1. x \in SUBSET Nat /\ \A y \in x : k + 1 >= y
          BY <2>1
        <5> QED BY <3>1, <5>1, MaxIs
      <4>2. x \ {k + 1} \in SUBSET (1..k + 1) /\ k + 1 \notin x \ {k + 1}
        OBVIOUS
      <4>3. f[x \ {k + 1}] = g[x \ {k + 1}]
        BY <4>2
      <4> QED BY <3>1, <4>1, <4>3
    <3>2. CASE x = {}
      <4>1. x \in SUBSET (1..k)
        BY <3>2
      <4>2. g[x] = start
        BY <2>2, <3>2, <4>1
      <4> QED BY <3>2, <4>2
    <3>3. CASE x # {} /\ k + 1 \notin x
      <4>1. x \in SUBSET (1..k)
        BY <2>1, <3>3
      <4>2. g[x] = HideIcon(e, g[x \ {Max(x)}], q[Max(x)])
        BY <2>2, <3>3, <4>1
      <4>3. x \ {Max(x)} \in SUBSET (1..k + 1) /\ k + 1 \notin x \ {Max(x)}
        BY <3>3
      <4>4. f[x \ {Max(x)}] = g[x \ {Max(x)}]
        BY <4>3
      <4> QED BY <3>3, <4>2, <4>4
    <3> QED BY <3>1, <3>2, <3>3
  <2>4. f = h
    BY <2>3
  <2>5. Iter(f, k + 1)
    BY <2>4
  <2> HIDE DEF Iter
  <2> QED BY <2>1, <2>5
<1> HIDE DEF G
<1>4. n \in G
  BY <1>1, <1>2, <1>3, ToTheEnd
<1>5. PICK f : Iter(f, n)
  BY <1>4 DEF G
<1>6. HideIterates(f, e, start, q)
  BY <1>5 DEF HideIterates
<1> QED BY <1>6

AllHidden(e, m, q) == FoldLeft(LAMBDA x, i : HideIcon(e, x, i), m, q)

\* There are stages in between, when the applications of q are hidden that are not to be shown
HasHideStages(e, start, q) ==
  \E stages : /\ stages[0] = start /\ stages[Len(q)] = AllHidden(e, start, q)
              /\ \A k \in 0..(Len(q) - 1) : stages[k + 1] = HideIcon(e, stages[k], q[k + 1])

LEMMA HideStages ==
  ASSUME NEW e, NEW start, NEW q \in Seq(Icons)
  PROVE  HasHideStages(e, start, q)
<1> DEFINE n == Len(q)
           iter == CHOOSE f : HideIterates(f, e, start, q)
           stages == [k \in 0..n |-> iter[1..k]]
<1>1. n \in Nat /\ DOMAIN q = 1..n
  OBVIOUS
<1>2. iter = [x \in SUBSET (1..n) |-> IF x = {} THEN start ELSE HideIcon(e, iter[x \ {Max(x)}], q[Max(x)])]
  <2>1. HideIterates(iter, e, start, q)
    BY HideIter
  <2> HIDE DEF iter
  <2> QED BY <2>1 DEF HideIterates
<1>3. AllHidden(e, start, q) = iter[1..n]
  BY <1>1, Zenon DEF AllHidden, FoldLeft, MapThenFoldSet, HideIterates
<1> HIDE DEF iter
<1>4. stages[0] = start
  <2>1. 1..0 = {}
    OBVIOUS
  <2> QED BY <1>1, <1>2, <2>1
<1>5. ASSUME NEW k \in 0..(n - 1) PROVE stages[k + 1] = HideIcon(e, stages[k], q[k + 1])
  <2>1. k \in 0..n /\ k + 1 \in 0..n /\ 1..(k + 1) \in SUBSET (1..n) /\ 1..(k + 1) # {}
    <3>1. k + 1 \in 1..(k + 1) /\ k \in Nat /\ k + 1 <= n /\ k \in 0..n /\ k + 1 \in 0..n
      BY <1>1
    <3>2. \A x \in 1..(k + 1) : x \in 1..n
      BY <1>1, <3>1
    <3>3. 1..(k + 1) \in SUBSET (1..n)
      BY <3>2
    <3> QED BY <3>1, <3>3
  <2>2. Max(1..(k + 1)) = k + 1
    BY <1>1, MaxIs
  <2>3. 1..(k + 1) \ {k + 1} = 1..k
    BY <1>1
  <2>4. iter[1..(k + 1)] = HideIcon(e, iter[1..k], q[k + 1])
    BY <1>2, <2>1, <2>2, <2>3
  <2> QED BY <2>1, <2>4
<1>6. stages[n] = AllHidden(e, start, q)
  BY <1>1, <1>3
<1> HIDE DEF stages
<1> QED BY <1>4, <1>5, <1>6 DEF HasHideStages

ShowIterates(f, start, q) ==
  f = [x \in SUBSET (1..Len(q)) |-> IF x = {} THEN start ELSE ShowIcon(f[x \ {Max(x)}], q[Max(x)])]

LEMMA ShowIter ==
  ASSUME NEW start, NEW q \in Seq(Icons)
  PROVE  \E f : ShowIterates(f, start, q)
<1> DEFINE n == Len(q)
           Iter(f, k) == f = [x \in SUBSET (1..k) |-> IF x = {} THEN start ELSE ShowIcon(f[x \ {Max(x)}], q[Max(x)])]
           G == {k \in 0..n : \E f : Iter(f, k)}
<1>1. n \in Nat
  OBVIOUS
<1>2. 0 \in G
  <2> DEFINE f == [x \in SUBSET (1..0) |-> start]
  <2>1. \A x \in SUBSET (1..0) : x = {}
    OBVIOUS
  <2>2. Iter(f, 0)
    BY <2>1
  <2> HIDE DEF Iter, f
  <2> QED BY <1>1, <2>2
<1>3. ASSUME NEW k \in 0..(n - 1), k \in G PROVE k + 1 \in G
  <2>1. k + 1 \in 0..n /\ k \in Nat
    BY <1>1
  <2>2. PICK g : Iter(g, k)
    BY <1>3
  <2> DEFINE f == [x \in SUBSET (1..k + 1) |-> IF k + 1 \in x THEN ShowIcon(g[x \ {k + 1}], q[k + 1]) ELSE g[x]]
             h == [x \in SUBSET (1..k + 1) |-> IF x = {} THEN start ELSE ShowIcon(f[x \ {Max(x)}], q[Max(x)])]
  <2>3. ASSUME NEW x \in SUBSET (1..k + 1) PROVE f[x] = h[x]
    <3>1. CASE k + 1 \in x
      <4>1. Max(x) = k + 1
        <5>1. x \in SUBSET Nat /\ \A y \in x : k + 1 >= y
          BY <2>1
        <5> QED BY <3>1, <5>1, MaxIs
      <4>2. x \ {k + 1} \in SUBSET (1..k + 1) /\ k + 1 \notin x \ {k + 1}
        OBVIOUS
      <4>3. f[x \ {k + 1}] = g[x \ {k + 1}]
        BY <4>2
      <4> QED BY <3>1, <4>1, <4>3
    <3>2. CASE x = {}
      <4>1. x \in SUBSET (1..k)
        BY <3>2
      <4>2. g[x] = start
        BY <2>2, <3>2, <4>1
      <4> QED BY <3>2, <4>2
    <3>3. CASE x # {} /\ k + 1 \notin x
      <4>1. x \in SUBSET (1..k)
        BY <2>1, <3>3
      <4>2. g[x] = ShowIcon(g[x \ {Max(x)}], q[Max(x)])
        BY <2>2, <3>3, <4>1
      <4>3. x \ {Max(x)} \in SUBSET (1..k + 1) /\ k + 1 \notin x \ {Max(x)}
        BY <3>3
      <4>4. f[x \ {Max(x)}] = g[x \ {Max(x)}]
        BY <4>3
      <4> QED BY <3>3, <4>2, <4>4
    <3> QED BY <3>1, <3>2, <3>3
  <2>4. f = h
    BY <2>3
  <2>5. Iter(f, k + 1)
    BY <2>4
  <2> HIDE DEF Iter
  <2> QED BY <2>1, <2>5
<1> HIDE DEF G
<1>4. n \in G
  BY <1>1, <1>2, <1>3, ToTheEnd
<1>5. PICK f : Iter(f, n)
  BY <1>4 DEF G
<1>6. ShowIterates(f, start, q)
  BY <1>5 DEF ShowIterates
<1> QED BY <1>6

AllShown(m, q) == FoldLeft(ShowIcon, m, q)

\* The stages in between, when the applications of q come back
LEMMA ShowStages ==
  ASSUME NEW start, NEW q \in Seq(Icons)
  PROVE  \E stages : /\ stages[0] = start /\ stages[Len(q)] = AllShown(start, q)
                     /\ \A k \in 0..(Len(q) - 1) : stages[k + 1] = ShowIcon(stages[k], q[k + 1])
<1> DEFINE n == Len(q)
           iter == CHOOSE f : ShowIterates(f, start, q)
           stages == [k \in 0..n |-> iter[1..k]]
<1>1. n \in Nat /\ DOMAIN q = 1..n
  OBVIOUS
<1>2. iter = [x \in SUBSET (1..n) |-> IF x = {} THEN start ELSE ShowIcon(iter[x \ {Max(x)}], q[Max(x)])]
  <2>1. ShowIterates(iter, start, q)
    BY ShowIter
  <2> HIDE DEF iter
  <2> QED BY <2>1 DEF ShowIterates
<1>3. AllShown(start, q) = iter[1..n]
  BY <1>1, Zenon DEF AllShown, FoldLeft, MapThenFoldSet, ShowIterates
<1> HIDE DEF iter
<1>4. stages[0] = start
  <2>1. 1..0 = {}
    OBVIOUS
  <2> QED BY <1>1, <1>2, <2>1
<1>5. ASSUME NEW k \in 0..(n - 1) PROVE stages[k + 1] = ShowIcon(stages[k], q[k + 1])
  <2>1. k \in 0..n /\ k + 1 \in 0..n /\ 1..(k + 1) \in SUBSET (1..n) /\ 1..(k + 1) # {}
    <3>1. k + 1 \in 1..(k + 1) /\ k \in Nat /\ k + 1 <= n /\ k \in 0..n /\ k + 1 \in 0..n
      BY <1>1
    <3>2. \A x \in 1..(k + 1) : x \in 1..n
      BY <1>1, <3>1
    <3>3. 1..(k + 1) \in SUBSET (1..n)
      BY <3>2
    <3> QED BY <3>1, <3>3
  <2>2. Max(1..(k + 1)) = k + 1
    BY <1>1, MaxIs
  <2>3. 1..(k + 1) \ {k + 1} = 1..k
    BY <1>1
  <2>4. iter[1..(k + 1)] = ShowIcon(iter[1..k], q[k + 1])
    BY <1>2, <2>1, <2>2, <2>3
  <2> QED BY <2>1, <2>4
<1>6. stages[n] = AllShown(start, q)
  BY <1>1, <1>3
<1> HIDE DEF stages
<1> QED BY <1>4, <1>5, <1>6

-----------------------------------------------------------------------------
(* What an application that comes or goes does to the windows that are looked at *)

Sound(m) ==
  /\ m.detail \in BOOLEAN
  /\ m.detail => m.applications # <<>>
  /\ ~m.detail => m.xids = <<>>

NoDetail(t) == t.detail = FALSE /\ t.detail_index = 0 /\ t.xids = <<>> /\ t.row = 0

\* Their windows stay selected with the application, or none is
Tracks(m, t) ==
  /\ t.rows = m.rows
  /\ \/ /\ t.detail = m.detail /\ t.detail_index = m.detail_index /\ t.xids = m.xids /\ t.row = m.row
        /\ m.detail => t.applications # <<>> /\ Selection(t) = Selection(m)
     \/ NoDetail(t)

LEMMA TracksOn ==
  ASSUME NEW m, Sound(m), NEW t, Tracks(m, t)
  PROVE  Sound(t) /\ \A u : Tracks(t, u) => Tracks(m, u)
BY DEF Sound, Tracks, NoDetail

LEMMA ActiveTracks ==
  ASSUME NEW e, NEW m, DOMAIN m = Fields, Sound(m)
  PROVE  Tracks(m, UpdateLastActiveApplication(e, m))
<1> DEFINE t == UpdateLastActiveApplication(e, m)
<1>1. /\ t.applications = m.applications /\ t.index = m.index
      /\ t.detail = m.detail /\ t.detail_index = m.detail_index /\ t.xids = m.xids
      /\ t.row = m.row /\ t.rows = m.rows
  BY DEF UpdateLastActiveApplication, Fields
<1> HIDE DEF t
<1>2. Selection(t) = Selection(m)
  BY <1>1 DEF Selection, At, Size
<1> QED BY <1>1, <1>2 DEF Tracks, Sound, t

LEMMA UnsetIs ==
  ASSUME NEW m, DOMAIN m = Fields, Sound(m), NEW e
  PROVE  NoDetail(UnsetDetailSelection(e, m)) /\ UnsetDetailSelection(e, m).rows = m.rows
<1> DEFINE x == [m EXCEPT !.detail = FALSE]
           none == [x EXCEPT !.xids = <<>>]
           y == SetDetailSelection(e, m, FALSE)
           z == [y EXCEPT !.detail_index = 0, !.row = 0]
<1>1. none.detail = FALSE /\ none.xids = <<>> /\ none.rows = m.rows /\ DOMAIN none = Fields /\ x.detail = FALSE
  BY DEF Fields
<1>2. (y = m /\ m.detail = FALSE) \/ y = UpdateDetailXids(e, x)
  BY Zenon DEF SetDetailSelection
<1>3. UpdateDetailXids(e, x) = IF x.detail THEN [none EXCEPT !.xids = SelectionWindows(e, none)] ELSE none
  BY Zenon DEF UpdateDetailXids
<1>4. UnsetDetailSelection(e, m) = z
  BY Zenon DEF UnsetDetailSelection
<1> HIDE DEF none, x, y
<1>5. y.detail = FALSE /\ y.xids = <<>> /\ y.rows = m.rows /\ DOMAIN y = Fields
  BY <1>1, <1>2, <1>3 DEF Sound
<1> QED BY <1>4, <1>5 DEF NoDetail, Fields

LEMMA EraseTracks ==
  ASSUME NEW e, NEW m, Chosen(m), Sound(m), NEW i \in ToSet(m.applications)
  PROVE  Tracks(m, Erase(e, m, i))
<1> DEFINE s == m.applications
           at == Place(s, i) - 1
           erased == [m EXCEPT !.applications = RemoveAt(s, at + 1)]
           moved == IF at < m.index \/ m.index = Size(erased) THEN PrevIndex(erased) ELSE erased
           t == Erase(e, m, i)
<1>1. /\ s \in Seq(Icons) /\ IsInjective(s) /\ m.index \in Nat /\ DOMAIN m = Fields /\ s # <<>>
      /\ Selection(m) = s[m.index + 1] /\ Selection(m) \in ToSet(s)
  BY SelectionIs DEF Chosen
<1>2. Place(s, i) \in 1..Len(s) /\ s[Place(s, i)] = i
  BY <1>1, PlaceIs
<1>3. t = IF m.detail /\ at = m.index THEN UnsetDetailSelection(e, moved) ELSE moved
  BY Zenon DEF Erase, Place
<1>4. Chosen(t) /\ ToSet(t.applications) = ToSet(s) \ {i} /\ \A j : Keeps(m, j) => Keeps(t, j)
  <2>1. /\ Chosen(Erase(e, m, i)) /\ Erase(e, m, i).hidden = m.hidden
        /\ Erase(e, m, i).only_apps_on_viewport = m.only_apps_on_viewport
        /\ ToSet(Erase(e, m, i).applications) = ToSet(m.applications) \ {i}
        /\ \A j : Keeps(m, j) => Keeps(Erase(e, m, i), j)
    BY EraseChosen, Zenon
  <2> QED BY <2>1, Zenon
<1>5. at # m.index => Selection(m) # i
  <2>1. at # m.index => Place(s, i) # m.index + 1
    BY <1>1, <1>2
  <2>2. m.index + 1 \in 1..Len(s)
    BY <1>1, SelectionIs
  <2> QED BY <1>1, <1>2, <2>1, <2>2, Elements
<1> HIDE DEF at
<1>6. /\ DOMAIN moved = Fields /\ moved.detail = m.detail /\ moved.detail_index = m.detail_index
      /\ moved.xids = m.xids /\ moved.row = m.row /\ moved.rows = m.rows
  <2>1. /\ DOMAIN erased = Fields /\ erased.detail = m.detail /\ erased.detail_index = m.detail_index
        /\ erased.xids = m.xids /\ erased.row = m.row /\ erased.rows = m.rows
    BY <1>1 DEF Fields
  <2> HIDE DEF erased
  <2>2. \A v : [erased EXCEPT !.index = v].detail = m.detail /\ DOMAIN [erased EXCEPT !.index = v] = Fields
               /\ [erased EXCEPT !.index = v].detail_index = m.detail_index
               /\ [erased EXCEPT !.index = v].xids = m.xids /\ [erased EXCEPT !.index = v].row = m.row
               /\ [erased EXCEPT !.index = v].rows = m.rows
    BY <2>1 DEF Fields
  <2>3. PrevIndex(erased) = erased \/ \E v : PrevIndex(erased) = [erased EXCEPT !.index = v]
    BY DEF PrevIndex
  <2> QED BY <2>1, <2>2, <2>3
<1> HIDE DEF moved, t, s
<1>7. CASE m.detail /\ at = m.index
  <2>1. DOMAIN moved = Fields /\ t = UnsetDetailSelection(e, moved) /\ moved.rows = m.rows
    BY <1>3, <1>6, <1>7
  <2>2. NoDetail(t) /\ t.rows = m.rows
    <3> DEFINE y == SetDetailSelection(e, moved, FALSE)
    <3>1. y = UpdateDetailXids(e, [moved EXCEPT !.detail = FALSE])
      BY <1>6, <1>7 DEF SetDetailSelection
    <3>2. y = [[moved EXCEPT !.detail = FALSE] EXCEPT !.xids = <<>>]
      BY <2>1, <3>1 DEF UpdateDetailXids, Fields
    <3>3. t = [y EXCEPT !.detail_index = 0, !.row = 0]
      BY <2>1, Zenon DEF UnsetDetailSelection
    <3> HIDE DEF y
    <3> QED BY <2>1, <3>2, <3>3 DEF NoDetail, Fields
  <2> QED BY <2>2 DEF Tracks, t
<1>8. CASE ~m.detail
  <2>1. t = moved
    BY <1>3, <1>8
  <2> QED BY <1>6, <1>8, <2>1 DEF Tracks, t
<1>9. CASE m.detail /\ at # m.index
  <2>1. t = moved
    BY <1>3, <1>9
  <2>2. Selection(m) \in ToSet(t.applications) /\ Keeps(m, Selection(m))
    BY <1>1, <1>4, <1>5, <1>9 DEF Keeps
  <2>3. Selection(t) = Selection(m)
    BY <1>4, <2>2 DEF Keeps
  <2>4. t.applications # <<>>
    BY <1>4, <2>2, SelectionIs
  <2> QED BY <1>6, <2>1, <2>3, <2>4 DEF Tracks, t
<1> QED BY <1>7, <1>8, <1>9 DEF Sound

LEMMA InsertTracks ==
  ASSUME NEW m, Chosen(m), Sound(m), NEW i \in Icons, i \notin Connected(m)
  PROVE  Tracks(m, InsertIcon(m, i))
<1> DEFINE added == [m EXCEPT !.applications =
                       InsertAt(@, Cardinality({j \in ToSet(m.applications) : j < i}) + 1, i)]
           t == InsertIcon(m, i)
<1>1. t = added \/ t = NextIndex(added)
  BY Zenon DEF InsertIcon
<1>2. /\ DOMAIN added = Fields /\ added.detail = m.detail /\ added.detail_index = m.detail_index
      /\ added.xids = m.xids /\ added.row = m.row /\ added.rows = m.rows
  BY DEF Chosen, Fields
<1> HIDE DEF added
<1>3. /\ t.detail = m.detail /\ t.detail_index = m.detail_index
      /\ t.xids = m.xids /\ t.row = m.row /\ t.rows = m.rows
  <2>1. NextIndex(added) = added \/ \E v : NextIndex(added) = [added EXCEPT !.index = v]
    BY DEF NextIndex
  <2>2. \A v : /\ [added EXCEPT !.index = v].detail = m.detail
               /\ [added EXCEPT !.index = v].detail_index = m.detail_index
               /\ [added EXCEPT !.index = v].xids = m.xids /\ [added EXCEPT !.index = v].row = m.row
               /\ [added EXCEPT !.index = v].rows = m.rows
    BY <1>2 DEF Fields
  <2> HIDE DEF t
  <2>3. CASE t = added
    BY <1>2, <2>3
  <2>4. CASE t = NextIndex(added) /\ t # added
    <3>1. PICK v : t = [added EXCEPT !.index = v]
      BY <2>1, <2>4
    <3> QED BY <2>2, <3>1
  <2> QED BY <1>1, <2>3, <2>4
<1>4. /\ t.applications # <<>> /\ ToSet(t.applications) = ToSet(m.applications) \cup {i}
      /\ \A j : j # i /\ Keeps(m, j) => Keeps(t, j)
  <2>1. /\ Chosen(t) /\ t.hidden = m.hidden /\ t.applications # <<>>
        /\ ToSet(t.applications) = ToSet(m.applications) \cup {i}
        /\ \A j : j # i /\ Keeps(m, j) => Keeps(t, j)
    BY InsertChosen, Zenon
  <2> QED BY <2>1
<1> HIDE DEF t
<1>5. m.detail => Selection(t) = Selection(m)
  <2>1. m.detail => Selection(m) \in ToSet(m.applications)
    BY SelectionIs DEF Sound
  <2>2. Keeps(m, Selection(m)) /\ (Selection(m) \in ToSet(m.applications) => Selection(m) # i)
    BY DEF Keeps, Connected
  <2> QED BY <1>4, <2>1, <2>2 DEF Keeps
<1> QED BY <1>3, <1>4, <1>5 DEF Tracks, t

-----------------------------------------------------------------------------
(* Applications that are hidden, come back, are added and removed *)

\* What hiding applications of m leaves, those behind position k have not been looked at
Hiding(e, m, x, k) ==
  /\ Chosen(x) /\ Connected(x) = Connected(m) /\ x.only_apps_on_viewport = m.only_apps_on_viewport
  /\ \A l \in (k + 1)..Len(m.applications) : m.applications[l] \in ToSet(x.applications)
  /\ \A j \in ToSet(m.applications) : j \in ToSet(x.applications) \/ ~ShowInSwitcher(e, j, m.only_apps_on_viewport)
  /\ \A j : Keeps(m, j) => Keeps(x, j)
  /\ ToSet(x.applications) \subseteq ToSet(m.applications)
  /\ \A l \in 1..k : m.applications[l] \in ToSet(x.applications)
                      => ShowInSwitcher(e, m.applications[l], m.only_apps_on_viewport)
  /\ Sound(m) => Tracks(m, x)

LEMMA HideOne ==
  ASSUME NEW e, NEW m, Chosen(m), NEW k \in 0..(Len(m.applications) - 1), NEW x, Hiding(e, m, x, k)
  PROVE  Hiding(e, m, HideIcon(e, x, m.applications[k + 1]), k + 1)
<1> DEFINE s == m.applications
           i == s[k + 1]
           y == Erase(e, x, i)
           z == [y EXCEPT !.hidden = @ \cup {i}]
<1>1. /\ s \in Seq(Icons) /\ IsInjective(s) /\ Len(s) \in Nat /\ k + 1 \in 1..Len(s) /\ k \in Nat
      /\ i \in ToSet(s) /\ i \in Icons
  BY SelectionIs, Elements DEF Chosen
<1>2. i \in ToSet(x.applications)
  <2>1. k + 1 \in (k + 1)..Len(s)
    BY <1>1
  <2> QED BY <2>1 DEF Hiding
<1>3. \A l \in ((k + 1) + 1)..Len(s) : s[l] \in ToSet(x.applications) /\ s[l] # i
  <2>1. \A a, b \in 1..Len(s) : s[a] = s[b] => a = b
    BY <1>1, Elements
  <2>2. ASSUME NEW l \in ((k + 1) + 1)..Len(s) PROVE l \in (k + 1)..Len(s) /\ l \in 1..Len(s) /\ l # k + 1
    BY <1>1
  <2> QED BY <1>1, <2>1, <2>2 DEF Hiding
<1>6. \A l \in 1..(k + 1) : l \in 1..k \/ l = k + 1
  BY <1>1
<1> HIDE DEF s, i
<1>4. CASE ShowInSwitcher(e, i, x.only_apps_on_viewport)
  <2>1. HideIcon(e, x, i) = x
    BY <1>4 DEF HideIcon
  <2>2. \A l \in 1..(k + 1) : s[l] \in ToSet(x.applications) => ShowInSwitcher(e, s[l], m.only_apps_on_viewport)
    BY <1>4, <1>6 DEF Hiding, s, i
  <2> QED BY <1>3, <2>1, <2>2 DEF Hiding, s, i
<1>5. CASE ~ShowInSwitcher(e, i, x.only_apps_on_viewport)
  <2>1. HideIcon(e, x, i) = z
    BY <1>5 DEF HideIcon
  <2>2. /\ Chosen(y) /\ y.hidden = x.hidden /\ y.only_apps_on_viewport = x.only_apps_on_viewport
        /\ ToSet(y.applications) = ToSet(x.applications) \ {i}
        /\ \A j : Keeps(x, j) => Keeps(y, j)
    <3>1. Chosen(x)
      BY DEF Hiding
    <3>2. /\ Chosen(Erase(e, x, i)) /\ Erase(e, x, i).hidden = x.hidden
          /\ Erase(e, x, i).only_apps_on_viewport = x.only_apps_on_viewport
          /\ ToSet(Erase(e, x, i).applications) = ToSet(x.applications) \ {i}
          /\ \A j : Keeps(x, j) => Keeps(Erase(e, x, i), j)
      BY <1>2, <3>1, EraseChosen, Zenon
    <3> QED BY <3>2, Zenon
  <2> HIDE DEF y
  <2>3. /\ DOMAIN z = Fields /\ z.applications = y.applications /\ z.hidden = x.hidden \cup {i} /\ z.index = y.index
        /\ z.only_apps_on_viewport = x.only_apps_on_viewport
    BY <2>2 DEF Chosen, Fields
  <2> HIDE DEF z
  <2>4. Chosen(z)
    <3>1. x.hidden \in SUBSET Icons /\ ToSet(x.applications) \cap x.hidden = {}
      BY DEF Hiding, Chosen
    <3> QED BY <1>1, <2>2, <2>3, <3>1 DEF Chosen
  <2>5. Selection(z) = Selection(y)
    BY <2>3 DEF Selection, At, Size
  <2>6. \A j : Keeps(m, j) => Keeps(z, j)
    BY <2>2, <2>3, <2>5 DEF Keeps, Hiding
  <2>7. Connected(z) = Connected(x)
    BY <1>2, <2>2, <2>3 DEF Connected
  <2>8. \A l \in ((k + 1) + 1)..Len(s) : s[l] \in ToSet(z.applications)
    BY <1>3, <2>2, <2>3
  <2>9. \A j \in ToSet(s) : j \in ToSet(z.applications) \/ ~ShowInSwitcher(e, j, m.only_apps_on_viewport)
    BY <1>5, <2>2, <2>3 DEF Hiding, s
  <2>10. ToSet(z.applications) \subseteq ToSet(s)
    BY <2>2, <2>3 DEF Hiding, s
  <2>11. \A l \in 1..(k + 1) : s[l] \in ToSet(z.applications) => ShowInSwitcher(e, s[l], m.only_apps_on_viewport)
    BY <1>6, <2>2, <2>3 DEF Hiding, s, i
  <2>12. Sound(m) => Tracks(m, z)
    <3> SUFFICES ASSUME Sound(m) PROVE Tracks(m, z)
      OBVIOUS
    <3>1. Chosen(x) /\ Tracks(m, x) /\ Sound(x)
      BY TracksOn DEF Hiding
    <3>2. Tracks(x, y)
      BY <1>2, <3>1, EraseTracks DEF y
    <3>3. Tracks(m, y)
      BY <3>1, <3>2, TracksOn
    <3>4. /\ z.detail = y.detail /\ z.detail_index = y.detail_index /\ z.xids = y.xids /\ z.row = y.row
          /\ z.rows = y.rows
      BY <2>2 DEF Chosen, Fields, z
    <3> QED BY <2>3, <2>5, <3>3, <3>4 DEF Tracks, NoDetail
  <2> QED BY <2>1, <2>3, <2>4, <2>6, <2>7, <2>8, <2>9, <2>10, <2>11, <2>12 DEF Hiding, s, i
<1> QED BY <1>4, <1>5

LEMMA HidesThem ==
  ASSUME NEW e, NEW m, Chosen(m)
  PROVE  Hiding(e, m, HideIcons(e, m), Len(m.applications))
<1> DEFINE s == m.applications
           n == Len(s)
<1>1. s \in Seq(Icons) /\ n \in Nat /\ \A l \in 1..n : s[l] \in ToSet(s)
  BY SelectionIs, Elements DEF Chosen
<1>7. HasHideStages(e, m, s)
  BY <1>1, HideStages
<1>2. PICK stages : /\ stages[0] = m /\ stages[Len(s)] = AllHidden(e, m, s)
                    /\ \A k \in 0..(Len(s) - 1) : stages[k + 1] = HideIcon(e, stages[k], s[k + 1])
  BY <1>7 DEF HasHideStages
<1> DEFINE G == {k \in 0..n : Hiding(e, m, stages[k], k)}
<1>3. 0 \in G
  <2>1. \A l \in (0 + 1)..n : s[l] \in ToSet(s)
    BY <1>1
  <2>2. Sound(m) => Tracks(m, m)
    BY DEF Sound, Tracks
  <2>3. \A l \in 1..0 : FALSE
    OBVIOUS
  <2>4. Hiding(e, m, m, 0)
    BY <2>1, <2>2, <2>3 DEF Hiding
  <2> QED BY <1>1, <1>2, <2>4
<1>4. \A k \in 0..(n - 1) : k \in G => k + 1 \in G
  <2>1. ASSUME NEW k \in 0..(n - 1), k \in G PROVE k + 1 \in G
    <3>1. k + 1 \in 0..n
      BY <1>1
    <3>2. Hiding(e, m, HideIcon(e, stages[k], s[k + 1]), k + 1)
      BY <2>1, HideOne
    <3> QED BY <1>2, <3>1, <3>2
  <2> QED BY <2>1
<1> HIDE DEF G
<1>5. n \in G
  BY <1>1, <1>3, <1>4, ToTheEnd
<1>6. AllHidden(e, m, s) = HideIcons(e, m)
  BY Zenon DEF AllHidden, HideIcons
<1> QED BY <1>2, <1>5, <1>6 DEF G

LEMMA ShowsThem ==
  ASSUME NEW m, Chosen(m), NEW S \in SUBSET m.hidden
  PROVE  LET t == ShowIcons(m, S)
         IN  /\ Chosen(t) /\ Connected(t) = Connected(m)
             /\ \A j : j \notin S /\ Keeps(m, j) => Keeps(t, j)
             /\ ToSet(t.applications) \subseteq ToSet(m.applications) \cup S
             /\ Sound(m) => Tracks(m, t)
<1> DEFINE q == InOrder(S)
           n == Len(q)
<1>1. S \in SUBSET Icons /\ IsFiniteSet(S) /\ S \in SUBSET Nat
  <2>1. S \in SUBSET Icons /\ Icons = 1..MaxIcons /\ MaxIcons \in Nat
    BY SwitcherAssumption DEF Chosen, Icons
  <2>2. IsFiniteSet(Icons)
    <3>1. 1 \in Int /\ MaxIcons \in Int
      BY <2>1
    <3> QED BY <2>1, <3>1, FS_Interval
  <2>3. IsFiniteSet(S)
    BY <2>1, <2>2, FS_Subset
  <2> QED BY <2>1, <2>3
<1>2. q \in Seq(S) /\ IsInjective(q) /\ n \in Nat /\ q \in Seq(Icons)
  <2>1. q \in Seq(S) /\ IsInjective(q)
    BY <1>1, InOrderIs
  <2> HIDE DEF q
  <2>2. n \in Nat /\ DOMAIN q = 1..n
    BY <2>1
  <2>3. \A k \in 1..n : q[k] \in Icons
    <3>1. ASSUME NEW k \in 1..n PROVE q[k] \in S
      BY <2>1
    <3> QED BY <1>1, <3>1
  <2> QED BY <1>1, <2>1, <2>2, <2>3
<1> HIDE DEF q
<1>3. \A a, b \in 1..n : q[a] = q[b] => a = b
  BY <1>2, Elements
<1>4. PICK stages : /\ stages[0] = m /\ stages[Len(q)] = AllShown(m, q)
                    /\ \A k \in 0..(Len(q) - 1) : stages[k + 1] = ShowIcon(stages[k], q[k + 1])
  BY <1>2, ShowStages
<1> DEFINE Back(x, k) == /\ Chosen(x) /\ Connected(x) = Connected(m)
                         /\ \A l \in (k + 1)..n : q[l] \notin ToSet(x.applications)
                         /\ \A j : j \notin S /\ Keeps(m, j) => Keeps(x, j)
                         /\ ToSet(x.applications) \subseteq ToSet(m.applications) \cup S
                         /\ Sound(m) => Tracks(m, x)
           G == {k \in 0..n : Back(stages[k], k)}
<1>5. 0 \in G
  <2>1. ASSUME NEW l \in (0 + 1)..n PROVE q[l] \notin ToSet(m.applications)
    <3>1. q[l] \in S
      BY <1>2
    <3> QED BY <3>1 DEF Chosen
  <2>2. Sound(m) => Tracks(m, m)
    BY DEF Sound, Tracks
  <2>3. Back(m, 0)
    BY <2>1, <2>2
  <2> QED BY <1>2, <1>4, <2>3
<1>6. \A k \in 0..(n - 1) : k \in G => k + 1 \in G
  <2>1. ASSUME NEW k \in 0..(n - 1), k \in G PROVE k + 1 \in G
    <3> DEFINE x == stages[k]
               i == q[k + 1]
               y == [x EXCEPT !.hidden = @ \ {i}]
               t == InsertIcon(y, i)
    <3>1. k + 1 \in 0..n /\ k + 1 \in 1..n /\ k + 1 \in (k + 1)..n /\ k \in Nat
      BY <1>2
    <3>2. Back(x, k)
      BY <2>1
    <3>3. i \in S /\ i \in Icons /\ i \notin ToSet(x.applications) /\ i \in Connected(x)
      <4>1. i \in S
        BY <1>2, <3>1
      <4>2. i \in Connected(m)
        BY <4>1 DEF Connected
      <4>3. Connected(x) = Connected(m) /\ \A l \in (k + 1)..n : q[l] \notin ToSet(x.applications)
        BY <3>2
      <4>4. i \notin ToSet(x.applications)
        BY <3>1, <4>3
      <4> QED BY <1>1, <4>1, <4>2, <4>3, <4>4
    <3>4. stages[k + 1] = t
      BY <1>4 DEF ShowIcon
    <3>5. \A l \in ((k + 1) + 1)..n : q[l] \notin ToSet(x.applications) /\ q[l] # i
      <4>1. ASSUME NEW l \in ((k + 1) + 1)..n PROVE l \in (k + 1)..n /\ l \in 1..n /\ l # k + 1
        BY <1>2, <3>1
      <4> QED BY <1>3, <3>1, <3>2, <4>1
    <3> HIDE DEF x, i
    <3>6. /\ DOMAIN y = Fields /\ y.applications = x.applications /\ y.hidden = x.hidden \ {i} /\ y.index = x.index
      BY <3>2 DEF Chosen, Fields
    <3> HIDE DEF y
    <3>7. Chosen(y) /\ i \notin Connected(y)
      <4>1. x.hidden \in SUBSET Icons /\ ToSet(x.applications) \cap x.hidden = {}
        BY <3>2 DEF Chosen
      <4> QED BY <3>2, <3>3, <3>6, <4>1 DEF Chosen, Connected
    <3>8. /\ Chosen(t) /\ t.hidden = y.hidden /\ ToSet(t.applications) = ToSet(y.applications) \cup {i}
          /\ \A j : j # i /\ Keeps(y, j) => Keeps(t, j)
      BY <3>3, <3>7, InsertChosen
    <3>12. Sound(y) => Tracks(y, t)
      BY <3>3, <3>7, InsertTracks
    <3> HIDE DEF t
    <3>13. Sound(m) => Tracks(m, t)
      <4> SUFFICES ASSUME Sound(m) PROVE Tracks(m, t)
        OBVIOUS
      <4>1. Tracks(m, x) /\ Sound(x)
        BY <3>2, TracksOn
      <4>2. /\ y.detail = x.detail /\ y.detail_index = x.detail_index /\ y.xids = x.xids /\ y.row = x.row
            /\ y.rows = x.rows
        BY <3>2 DEF Chosen, Fields, y
      <4>3. Selection(y) = Selection(x)
        BY <3>6 DEF Selection, At, Size
      <4>4. Sound(y) /\ Tracks(x, y)
        BY <3>6, <4>1, <4>2, <4>3 DEF Sound, Tracks
      <4>5. Tracks(m, y) /\ Tracks(y, t)
        BY <3>12, <4>1, <4>4, TracksOn
      <4>6. Sound(m) /\ Tracks(m, y)
        BY <4>5
      <4> QED BY <4>5, <4>6, TracksOn
    <3>14. ToSet(t.applications) \subseteq ToSet(m.applications) \cup S
      BY <3>2, <3>3, <3>6, <3>8
    <3>9. Connected(t) = Connected(m)
      BY <3>2, <3>3, <3>6, <3>8 DEF Connected
    <3>10. \A j : j \notin S /\ Keeps(m, j) => Keeps(t, j)
      <4>1. Selection(y) = Selection(x)
        BY <3>6 DEF Selection, At, Size
      <4> QED BY <3>2, <3>3, <3>6, <3>8, <4>1 DEF Keeps
    <3>11. Back(t, k + 1)
      BY <3>5, <3>6, <3>8, <3>9, <3>10, <3>13, <3>14
    <3> HIDE DEF Back
    <3> QED BY <3>1, <3>4, <3>11
  <2> QED BY <2>1
<1> HIDE DEF G
<1>7. n \in G
  BY <1>2, <1>5, <1>6, ToTheEnd
<1>8. AllShown(m, q) = ShowIcons(m, S)
  BY Zenon DEF AllShown, ShowIcons, q
<1> QED BY <1>4, <1>7, <1>8 DEF G

LEMMA VerifyChosen ==
  ASSUME NEW e, NEW m, Chosen(m)
  PROVE  LET t == VerifyApplications(e, m)
         IN  /\ Chosen(t) /\ Connected(t) = Connected(m)
             /\ \A j \in ToSet(m.applications) : Keeps(m, j) => Keeps(t, j)
             /\ ToSet(t.applications) \subseteq e.running
             /\ Sound(m) => Tracks(m, t)
<1> DEFINE less == HideIcons(e, m)
           back == {i \in less.hidden : ShowInSwitcher(e, i, m.only_apps_on_viewport)}
           shown == ShowIcons(less, back)
           t == VerifyApplications(e, m)
<1>1. Hiding(e, m, less, Len(m.applications))
  BY HidesThem
<1>2. \/ t = m /\ \A i \in Connected(m) : ShowInSwitcher(e, i, m.only_apps_on_viewport) <=> i \notin m.hidden
      \/ t = shown \/ t = UpdateLastActiveApplication(e, shown)
  BY Zenon DEF VerifyApplications
<1> HIDE DEF less, t
<1>3. /\ Chosen(shown) /\ Connected(shown) = Connected(less)
      /\ \A j : j \notin back /\ Keeps(less, j) => Keeps(shown, j)
      /\ ToSet(shown.applications) \subseteq ToSet(less.applications) \cup back
      /\ Sound(less) => Tracks(less, shown)
  BY <1>1, ShowsThem DEF Hiding
<1>4. ASSUME NEW j \in ToSet(m.applications), Keeps(m, j) PROVE Keeps(shown, j)
  <2>1. Keeps(less, j)
    BY <1>1, <1>4 DEF Hiding
  <2>2. j \notin back
    <3>1. ToSet(less.applications) \cap less.hidden = {}
      BY <1>1 DEF Hiding, Chosen
    <3> QED BY <1>1, <3>1 DEF Hiding
  <2> QED BY <1>3, <2>1, <2>2
<1>8. \A j \in back : j \in e.running
  BY DEF ShowInSwitcher
<1> HIDE DEF back, shown
<1>9. ToSet(shown.applications) \subseteq e.running
  <2>1. \A j \in ToSet(less.applications) : \E l \in 1..Len(m.applications) : m.applications[l] = j
    <3>1. m.applications \in Seq(Icons)
      BY DEF Chosen
    <3> QED BY <1>1, <3>1, Elements DEF Hiding
  <2>2. \A j \in ToSet(less.applications) : j \in e.running
    BY <1>1, <2>1 DEF Hiding, ShowInSwitcher
  <2> QED BY <1>3, <1>8, <2>2
<1>10. Sound(m) => Tracks(m, shown)
  BY <1>1, <1>3, TracksOn DEF Hiding
<1>5. CASE t = m /\ \A i \in Connected(m) : ShowInSwitcher(e, i, m.only_apps_on_viewport) <=> i \notin m.hidden
  <2>1. Sound(m) => Tracks(m, m)
    BY DEF Sound, Tracks
  <2>2. ToSet(m.applications) \subseteq e.running
    BY <1>5 DEF Chosen, Connected, ShowInSwitcher
  <2> QED BY <1>5, <2>1, <2>2 DEF t
<1>6. CASE t = shown
  BY <1>1, <1>3, <1>4, <1>6, <1>9, <1>10 DEF t, Hiding
<1>7. CASE t = UpdateLastActiveApplication(e, shown)
  <2>1. Same(shown, t)
    BY <1>3, <1>7, DetailsSame DEF Chosen
  <2>2. /\ Chosen(t) /\ Connected(t) = Connected(shown)
        /\ Selection(t) = Selection(shown) /\ ToSet(t.applications) = ToSet(shown.applications)
        /\ t.applications = shown.applications
    BY <1>3, <2>1, SameChosen DEF Same
  <2>3. /\ t.detail = shown.detail /\ t.detail_index = shown.detail_index /\ t.xids = shown.xids
        /\ t.row = shown.row /\ t.rows = shown.rows
    BY <1>3, <1>7 DEF Chosen, Fields, UpdateLastActiveApplication
  <2>4. Sound(m) => Tracks(m, t)
    BY <1>10, <2>2, <2>3 DEF Tracks, NoDetail
  <2>5. \A j \in ToSet(m.applications) : Keeps(m, j) => Keeps(t, j)
    BY <1>4, <2>2 DEF Keeps
  <2>6. Connected(t) = Connected(m)
    BY <1>1, <1>3, <2>2 DEF Hiding
  <2> QED BY <1>9, <2>2, <2>4, <2>5, <2>6 DEF t
<1> QED BY <1>2, <1>5, <1>6, <1>7

\* From m to t only the selection may move, and it is valid again
Stays(m, t) == Chosen(t) /\ t.applications = m.applications /\ t.hidden = m.hidden

LEMMA SameStays ==
  ASSUME NEW m, Chosen(m), NEW t, Same(m, t)
  PROVE  Stays(m, t)
BY SameChosen DEF Stays, Same

LEMMA IndexStays ==
  ASSUME NEW m, Chosen(m), NEW e
  PROVE  /\ Stays(m, Next(e, m)) /\ Stays(m, Prev(e, m))
         /\ \A n \in 0..(Size(m) - 1) : Stays(m, Select(e, m, n))
         /\ \A n \in Nat : m.applications # <<>> => Stays(m, SelectClamped(e, m, n))
<1>1. /\ DOMAIN m = Fields /\ m.index \in Nat /\ Size(m) \in Nat
      /\ m.applications = <<>> <=> Size(m) = 0
  BY SelectionIs DEF Chosen, Size
<1>2. ASSUME NEW n \in 0..(Size(m) - 1) PROVE Stays(m, [m EXCEPT !.index = n])
  <2> DEFINE t == [m EXCEPT !.index = n]
  <2>1. DOMAIN t = Fields /\ t.applications = m.applications /\ t.hidden = m.hidden /\ t.index = n
    BY <1>1 DEF Fields
  <2> HIDE DEF t
  <2>2. n \in Nat /\ n < Len(t.applications)
    BY <1>1, <2>1 DEF Size
  <2>3. Stays(m, t)
    BY <2>1, <2>2 DEF Stays, Chosen
  <2> QED BY <2>3 DEF t
<1>3. ASSUME NEW t, Stays(m, t) PROVE Stays(m, UnsetDetailSelection(e, t))
  <2>1. Same(t, UnsetDetailSelection(e, t))
    BY <1>3, DetailsSame DEF Stays, Chosen
  <2>2. Stays(t, UnsetDetailSelection(e, t))
    BY <1>3, <2>1, SameStays DEF Stays
  <2> QED BY <1>3, <2>2 DEF Stays
<1>4. Stays(m, m)
  BY DEF Stays
<1>5. Stays(m, NextIndex(m))
  <2>1. CASE m.applications = <<>>
    BY <1>4, <2>1 DEF NextIndex
  <2>2. CASE m.applications # <<>>
    <3> DEFINE n == (m.index + 1) % Size(m)
    <3>1. \A a, b \in Nat : b # 0 => (a + 1) % b \in 0..(b - 1)
      OBVIOUS
    <3>2. n \in 0..(Size(m) - 1)
      BY <1>1, <2>2, <3>1
    <3>3. NextIndex(m) = [m EXCEPT !.index = n]
      BY <2>2 DEF NextIndex
    <3> HIDE DEF n
    <3> QED BY <1>2, <3>2, <3>3
  <2> QED BY <2>1, <2>2
<1>6. Stays(m, PrevIndex(m))
  <2>1. CASE m.applications = <<>>
    BY <1>4, <2>1 DEF PrevIndex
  <2>2. CASE m.applications # <<>>
    <3> DEFINE n == (IF m.index > 0 /\ m.index < Size(m) THEN m.index ELSE Size(m)) - 1
    <3>1. n \in 0..(Size(m) - 1)
      <4> DEFINE a == m.index
                 b == Size(m)
      <4>1. a \in Nat /\ b \in Nat /\ b # 0
        BY <1>1, <2>2
      <4> HIDE DEF a, b
      <4>2. (IF a > 0 /\ a < b THEN a ELSE b) - 1 \in 0..(b - 1)
        BY <4>1
      <4> QED BY <4>2 DEF a, b
    <3>2. PrevIndex(m) = [m EXCEPT !.index = n]
      BY <2>2 DEF PrevIndex
    <3> HIDE DEF n
    <3> QED BY <1>2, <3>1, <3>2
  <2> QED BY <2>1, <2>2
<1>7. \A n \in 0..(Size(m) - 1) : Stays(m, Select(e, m, n))
  <2>1. ASSUME NEW n \in 0..(Size(m) - 1) PROVE Stays(m, Select(e, m, n))
    <3>1. CASE n = m.index
      BY <1>4, <3>1 DEF Select
    <3>2. CASE n # m.index
      BY <1>2, <1>3, <3>2 DEF Select
    <3> QED BY <3>1, <3>2
  <2> QED BY <2>1
<1>8. ASSUME NEW n \in Nat, m.applications # <<>> PROVE Stays(m, SelectClamped(e, m, n))
  <2> DEFINE k == IF n > Size(m) - 1 THEN Size(m) - 1 ELSE n
  <2>1. k \in 0..(Size(m) - 1)
    BY <1>1, <1>8
  <2>2. SelectClamped(e, m, n) = Select(e, m, k)
    BY DEF SelectClamped
  <2> HIDE DEF k
  <2> QED BY <1>7, <2>1, <2>2
<1>9. Stays(m, Next(e, m)) /\ Stays(m, Prev(e, m))
  BY <1>3, <1>5, <1>6 DEF Next, Prev
<1> QED BY <1>7, <1>8, <1>9

LEMMA FirstStays ==
  ASSUME NEW m, Chosen(m), m.applications # <<>>, NEW t \in First(m)
  PROVE  Stays(m, t)
<1>1. /\ StartIndex \in Nat /\ StartIndex + 1 \in Nat /\ 0 \in Nat /\ 1 \in Nat /\ Size(m) \in Nat
      /\ StartIndex >= 0 /\ StartIndex + 1 >= 0
  BY SwitcherAssumption, SelectionIs DEF Size
<1>2. CASE At(m, StartIndex) = NoIcon
  <2>1. t = SelectClamped(icons, m, 0)
    BY <1>2 DEF First
  <2> QED BY <1>1, <2>1, IndexStays
<1>3. CASE At(m, StartIndex) # NoIcon /\ At(m, StartIndex + 1) = NoIcon
  <2>1. t = SelectClamped(icons, m, 1)
    BY <1>3 DEF First
  <2> QED BY <1>1, <2>1, IndexStays
<1>4. CASE At(m, StartIndex) # NoIcon /\ At(m, StartIndex + 1) # NoIcon
  <2>1. StartIndex < Size(m) /\ StartIndex + 1 < Size(m)
    BY <1>4 DEF At
  <2>2. StartIndex \in 0..(Size(m) - 1) /\ StartIndex + 1 \in 0..(Size(m) - 1)
    BY <1>1, <2>1
  <2>3. t = Select(icons, m, StartIndex) \/ t = Select(icons, m, StartIndex + 1)
    BY <1>4 DEF First
  <2> QED BY <2>2, <2>3, IndexStays
<1> QED BY <1>2, <1>3, <1>4

LEMMA NewChosen ==
  ASSUME NEW e, NEW S \in SUBSET Icons, NEW current \in BOOLEAN
  PROVE  LET t == NewModel(e, S, current)
         IN  /\ Chosen(t) /\ Connected(t) = S /\ ToSet(t.applications) \subseteq e.running
             /\ NoDetail(t) /\ t.rows = <<>>
<1> DEFINE shown == {i \in S : ShowInSwitcher(e, i, TRUE)}
           m == [applications |-> InOrder(shown), hidden |-> S \ shown, index |-> 0,
                 last_active |-> NoIcon, only_apps_on_viewport |-> TRUE,
                 detail |-> FALSE, detail_index |-> 0, xids |-> <<>>, rows |-> <<>>, row |-> 0]
           x == UpdateLastActiveApplication(e, m)
           y == [x EXCEPT !.only_apps_on_viewport = FALSE]
<1>1. NewModel(e, S, current) = IF current THEN x ELSE VerifyApplications(e, y)
  BY Zenon DEF NewModel
<1>2. shown \in SUBSET S /\ shown \in SUBSET Icons /\ shown \subseteq e.running
  BY DEF ShowInSwitcher
<1> HIDE DEF shown
<1>3. IsFiniteSet(shown) /\ shown \in SUBSET Nat
  <2>1. Icons = 1..MaxIcons /\ 1 \in Int /\ MaxIcons \in Int
    BY SwitcherAssumption DEF Icons
  <2>2. IsFiniteSet(Icons) /\ Icons \in SUBSET Nat
    BY <2>1, FS_Interval
  <2> QED BY <1>2, <2>2, FS_Subset
<1> DEFINE q == InOrder(shown)
<1>4. q \in Seq(shown) /\ ToSet(q) = shown /\ IsInjective(q)
  BY <1>3, InOrderIs
<1> HIDE DEF q
<1>5. q \in Seq(Icons)
  <2>1. \A k \in 1..Len(q) : q[k] \in shown
    BY <1>4
  <2>2. \A k \in 1..Len(q) : q[k] \in Icons
    BY <1>2, <2>1
  <2> QED BY <1>4, <2>2
<1>6. /\ DOMAIN m = Fields /\ m.applications = q /\ m.hidden = S \ shown /\ m.index = 0
      /\ Sound(m) /\ NoDetail(m) /\ m.rows = <<>>
  BY DEF Fields, q, Sound, NoDetail
<1> HIDE DEF m
<1>7. Chosen(m)
  <2>1. Len(q) \in Nat
    BY <1>5
  <2>2. 0 < Len(q) \/ Len(q) = 0
    BY <2>1
  <2> QED BY <1>4, <1>5, <1>6, <2>2 DEF Chosen
<1>8. Connected(m) = S
  BY <1>2, <1>4, <1>6 DEF Connected
<1>9. /\ Chosen(x) /\ Connected(x) = S /\ ToSet(x.applications) \subseteq e.running
      /\ Sound(x) /\ NoDetail(x) /\ x.rows = <<>>
  <2>1. Same(m, x) /\ Tracks(m, x)
    BY <1>6, DetailsSame, ActiveTracks
  <2>2. Chosen(x) /\ Connected(x) = S /\ ToSet(x.applications) \subseteq e.running
    BY <1>2, <1>4, <1>6, <1>7, <1>8, <2>1, SameChosen
  <2>3. Sound(x) /\ NoDetail(x) /\ x.rows = <<>>
    BY <1>6, <2>1 DEF Tracks, NoDetail, Sound
  <2> QED BY <2>2, <2>3
<1> HIDE DEF x
<1>10. Chosen(y) /\ Connected(y) = S /\ Sound(y) /\ NoDetail(y) /\ y.rows = <<>>
  <2>1. DOMAIN y = Fields /\ y.applications = x.applications /\ y.hidden = x.hidden /\ y.index = x.index
    BY <1>9 DEF Chosen, Fields
  <2>2. NoDetail(y) /\ Sound(y) /\ y.rows = <<>>
    BY <1>9 DEF NoDetail, Sound, Chosen, Fields
  <2> HIDE DEF y
  <2> QED BY <1>9, <2>1, <2>2 DEF Chosen, Connected
<1> HIDE DEF y
<1>11. LET z == VerifyApplications(e, y)
       IN  /\ Chosen(z) /\ Connected(z) = S /\ ToSet(z.applications) \subseteq e.running
           /\ NoDetail(z) /\ z.rows = <<>>
  <2> DEFINE z == VerifyApplications(e, y)
  <2>1. /\ Chosen(VerifyApplications(e, y)) /\ Connected(VerifyApplications(e, y)) = S
        /\ ToSet(VerifyApplications(e, y).applications) \subseteq e.running
        /\ Tracks(y, VerifyApplications(e, y))
    BY <1>10, VerifyChosen
  <2>2. Chosen(z) /\ Connected(z) = S /\ ToSet(z.applications) \subseteq e.running /\ Tracks(y, z)
    BY <2>1, Zenon
  <2> HIDE DEF z
  <2>3. NoDetail(z) /\ z.rows = <<>>
    BY <1>10, <2>2 DEF Tracks, NoDetail
  <2> QED BY <2>2, <2>3 DEF z
<1> QED BY <1>1, <1>9, <1>11, Zenon

LEMMA QuirksChosen ==
  ASSUME NEW e, NEW m, Chosen(m)
  PROVE  LET t == OnIconQuirksChanged(e, m)
         IN  /\ Chosen(t) /\ Connected(t) = Connected(m)
             /\ t.applications = VerifyApplications(e, m).applications
             /\ \A j \in ToSet(m.applications) : Keeps(m, j) => Keeps(t, j)
             /\ ToSet(t.applications) \subseteq e.running
             /\ Sound(m) => Tracks(m, t)
<1> DEFINE x == VerifyApplications(e, m)
           t == OnIconQuirksChanged(e, m)
<1>1. /\ Chosen(x) /\ Connected(x) = Connected(m)
      /\ \A j \in ToSet(m.applications) : Keeps(m, j) => Keeps(x, j)
      /\ ToSet(x.applications) \subseteq e.running
      /\ Sound(m) => Tracks(m, x)
  BY VerifyChosen, Zenon
<1>2. t = x \/ t = UpdateLastActiveApplication(e, x)
  BY Zenon DEF OnIconQuirksChanged
<1> HIDE DEF x, t
<1>3. CASE t = x
  BY <1>1, <1>3 DEF t, x
<1>4. CASE t = UpdateLastActiveApplication(e, x)
  <2>1. Same(x, t)
    BY <1>1, <1>4, DetailsSame DEF Chosen
  <2>2. /\ Chosen(t) /\ Connected(t) = Connected(x) /\ t.applications = x.applications
        /\ Selection(t) = Selection(x) /\ ToSet(t.applications) = ToSet(x.applications)
    BY <1>1, <2>1, SameChosen DEF Same
  <2>3. \A j : Keeps(x, j) => Keeps(t, j)
    BY <2>2 DEF Keeps
  <2>4. /\ Chosen(t) /\ Connected(t) = Connected(m) /\ t.applications = x.applications
        /\ \A j \in ToSet(m.applications) : Keeps(m, j) => Keeps(t, j)
        /\ ToSet(t.applications) \subseteq e.running
    BY <1>1, <2>2, <2>3
  <2>5. Sound(m) => Tracks(m, t)
    <3> SUFFICES ASSUME Sound(m) PROVE Tracks(m, t)
      OBVIOUS
    <3>1. Tracks(m, x) /\ Sound(x)
      BY <1>1, TracksOn
    <3>2. Tracks(x, t)
      BY <1>1, <1>4, <3>1, ActiveTracks DEF Chosen
    <3> QED BY <3>1, <3>2, TracksOn
  <2> QED BY <2>4, <2>5 DEF t, x
<1> QED BY <1>2, <1>3, <1>4

LEMMA AddChosen ==
  ASSUME NEW e, NEW m, Chosen(m), NEW i \in Icons, i \notin Connected(m)
  PROVE  LET t == AddIcon(e, m, i)
         IN  /\ Chosen(t) /\ Connected(t) = Connected(m) \cup {i}
             /\ \A j : j # i /\ Keeps(m, j) => Keeps(t, j)
             /\ ToSet(t.applications) \subseteq ToSet(m.applications) \cup e.running
             /\ Sound(m) => Tracks(m, t)
<1> DEFINE active == IF i = e.active THEN [m EXCEPT !.last_active = i] ELSE m
           away == [m EXCEPT !.hidden = @ \cup {i}]
           t == AddIcon(e, m, i)
<1>1. ~Contains(m.applications, i)
  <2>1. m.applications \in Seq(Icons) /\ i \notin ToSet(m.applications)
    BY DEF Chosen, Connected
  <2> QED BY <2>1, Elements DEF Contains
<1>2. t = IF ShowInSwitcher(e, i, m.only_apps_on_viewport)
          THEN (IF Contains(active.applications, i) THEN active ELSE InsertIcon(active, i)) ELSE away
  <2>1. active.applications = m.applications
    BY DEF Chosen, Fields
  <2>2. t = IF ShowInSwitcher(e, i, m.only_apps_on_viewport)
            THEN (IF Contains(m.applications, i) THEN active ELSE InsertIcon(active, i)) ELSE away
    BY Zenon DEF AddIcon
  <2> QED BY <2>1, <2>2
<1>3. Same(m, active)
  BY DEF Same, Chosen, Fields
<1>7. /\ active.detail = m.detail /\ active.detail_index = m.detail_index /\ active.xids = m.xids
      /\ active.row = m.row /\ active.rows = m.rows
  BY DEF Chosen, Fields
<1> HIDE DEF active, t
<1>4. /\ Chosen(active) /\ active.applications = m.applications /\ active.hidden = m.hidden
      /\ Selection(active) = Selection(m) /\ Connected(active) = Connected(m)
  BY <1>3, SameChosen DEF Same
<1>5. CASE ShowInSwitcher(e, i, m.only_apps_on_viewport)
  <2>1. t = InsertIcon(active, i)
    BY <1>1, <1>2, <1>4, <1>5
  <2>2. /\ Chosen(t) /\ t.hidden = active.hidden /\ ToSet(t.applications) = ToSet(active.applications) \cup {i}
        /\ \A j : j # i /\ Keeps(active, j) => Keeps(t, j)
    BY <1>4, <2>1, InsertChosen
  <2>3. Connected(t) = Connected(m) \cup {i}
    BY <1>4, <2>2 DEF Connected
  <2>4. \A j : j # i /\ Keeps(m, j) => Keeps(t, j)
    BY <1>4, <2>2 DEF Keeps
  <2>5. ToSet(t.applications) \subseteq ToSet(m.applications) \cup e.running
    BY <1>4, <1>5, <2>2 DEF ShowInSwitcher
  <2>6. Sound(m) => Tracks(m, t)
    <3> SUFFICES ASSUME Sound(m) PROVE Tracks(m, t)
      OBVIOUS
    <3>1. Sound(active) /\ Tracks(m, active)
      BY <1>4, <1>7 DEF Sound, Tracks
    <3>2. Tracks(active, t)
      BY <1>4, <2>1, <3>1, InsertTracks
    <3> QED BY <3>1, <3>2, TracksOn
  <2> QED BY <2>2, <2>3, <2>4, <2>5, <2>6 DEF t
<1>6. CASE ~ShowInSwitcher(e, i, m.only_apps_on_viewport)
  <2>1. t = away
    BY <1>2, <1>6
  <2>2. DOMAIN away = Fields /\ away.applications = m.applications /\ away.hidden = m.hidden \cup {i} /\ away.index = m.index
    BY DEF Chosen, Fields
  <2>7. /\ away.detail = m.detail /\ away.detail_index = m.detail_index /\ away.xids = m.xids
        /\ away.row = m.row /\ away.rows = m.rows
    BY DEF Chosen, Fields
  <2> HIDE DEF away
  <2>3. Chosen(t)
    <3>1. m.hidden \in SUBSET Icons /\ ToSet(m.applications) \cap m.hidden = {} /\ i \notin ToSet(m.applications)
      BY DEF Chosen, Connected
    <3> QED BY <2>1, <2>2, <3>1 DEF Chosen
  <2>4. Connected(t) = Connected(m) \cup {i}
    BY <2>1, <2>2 DEF Connected
  <2>5. Selection(t) = Selection(m)
    BY <2>1, <2>2 DEF Selection, At, Size
  <2>6. \A j : j # i /\ Keeps(m, j) => Keeps(t, j)
    BY <2>1, <2>2, <2>5 DEF Keeps
  <2>8. Sound(m) => Tracks(m, t)
    BY <2>1, <2>2, <2>5, <2>7 DEF Sound, Tracks
  <2>9. ToSet(t.applications) \subseteq ToSet(m.applications) \cup e.running
    BY <2>1, <2>2
  <2> QED BY <2>3, <2>4, <2>6, <2>8, <2>9 DEF t
<1> QED BY <1>5, <1>6

LEMMA RemoveChosen ==
  ASSUME NEW e, NEW m, Chosen(m), NEW i
  PROVE  LET t == RemoveIcon(e, m, i)
         IN  /\ Chosen(t) /\ Connected(t) = Connected(m) \ {i}
             /\ ~Contains(m.applications, i) => t.applications = m.applications
             /\ \A j : Keeps(m, j) => Keeps(t, j)
             /\ ToSet(t.applications) \subseteq ToSet(m.applications)
             /\ Sound(m) => Tracks(m, t)
<1> DEFINE t == RemoveIcon(e, m, i)
<1>1. m.applications \in Seq(Icons) /\ DOMAIN m = Fields /\ ToSet(m.applications) \cap m.hidden = {} /\ m.hidden \in SUBSET Icons
  BY DEF Chosen
<1>2. CASE Contains(m.applications, i)
  <2> DEFINE gone == [m EXCEPT !.applications = RemoveFirst(@, i)]
             last == IF i = m.last_active THEN UpdateLastActiveApplication(e, gone).last_active ELSE m.last_active
             y == Erase(e, m, i)
  <2>1. t = [y EXCEPT !.last_active = last]
    BY <1>2, Zenon DEF RemoveIcon
  <2>2. i \in ToSet(m.applications)
    BY <1>1, <1>2, Elements DEF Contains
  <2>3. /\ Chosen(y) /\ y.hidden = m.hidden /\ y.only_apps_on_viewport = m.only_apps_on_viewport
        /\ ToSet(y.applications) = ToSet(m.applications) \ {i}
        /\ \A j : Keeps(m, j) => Keeps(y, j)
    <3>1. Chosen(m)
      OBVIOUS
    <3>2. /\ Chosen(Erase(e, m, i)) /\ Erase(e, m, i).hidden = m.hidden
          /\ Erase(e, m, i).only_apps_on_viewport = m.only_apps_on_viewport
          /\ ToSet(Erase(e, m, i).applications) = ToSet(m.applications) \ {i}
          /\ \A j : Keeps(m, j) => Keeps(Erase(e, m, i), j)
      BY <2>2, <3>1, EraseChosen, Zenon
    <3> QED BY <3>2, Zenon
  <2>8. Sound(m) => Tracks(m, y)
    BY <2>2, EraseTracks
  <2> HIDE DEF y, last, t
  <2>4. Same(y, t)
    BY <2>1, <2>3 DEF Same, Chosen, Fields
  <2>5. /\ Chosen(t) /\ Connected(t) = Connected(y) /\ Selection(t) = Selection(y)
        /\ ToSet(t.applications) = ToSet(y.applications)
    BY <2>3, <2>4, SameChosen
  <2>6. Connected(y) = Connected(m) \ {i}
    BY <1>1, <2>2, <2>3 DEF Connected
  <2>7. \A j : Keeps(m, j) => Keeps(t, j)
    BY <2>3, <2>5 DEF Keeps
  <2>9. /\ t.detail = y.detail /\ t.detail_index = y.detail_index /\ t.xids = y.xids
        /\ t.row = y.row /\ t.rows = y.rows /\ t.applications = y.applications
    BY <2>1, <2>3 DEF Chosen, Fields
  <2>10. Sound(m) => Tracks(m, t)
    BY <2>5, <2>8, <2>9 DEF Tracks, NoDetail
  <2>11. ToSet(t.applications) \subseteq ToSet(m.applications)
    BY <2>3, <2>5
  <2> QED BY <1>2, <2>5, <2>6, <2>7, <2>10, <2>11 DEF t
<1>3. CASE ~Contains(m.applications, i)
  <2>1. t = [m EXCEPT !.hidden = @ \ {i}]
    BY <1>3, Zenon DEF RemoveIcon
  <2>2. i \notin ToSet(m.applications)
    BY <1>1, <1>3, Elements DEF Contains
  <2> HIDE DEF t
  <2>3. DOMAIN t = Fields /\ t.applications = m.applications /\ t.hidden = m.hidden \ {i} /\ t.index = m.index
    BY <1>1, <2>1 DEF Fields
  <2>4. Chosen(t)
    BY <1>1, <2>3 DEF Chosen
  <2>5. Connected(t) = Connected(m) \ {i}
    BY <2>2, <2>3 DEF Connected
  <2>6. \A j : Keeps(m, j) => Keeps(t, j)
    BY <2>3 DEF Keeps, Selection, At, Size
  <2>7. /\ t.detail = m.detail /\ t.detail_index = m.detail_index /\ t.xids = m.xids
        /\ t.row = m.row /\ t.rows = m.rows
    BY <1>1, <2>1 DEF Fields
  <2>8. Sound(m) => Tracks(m, t)
    BY <2>3, <2>7 DEF Sound, Tracks, Selection, At, Size
  <2> QED BY <2>3, <2>4, <2>5, <2>6, <2>8 DEF t
<1> QED BY <1>2, <1>3

-----------------------------------------------------------------------------
(* The steps *)

IconFields == {"known", "running", "away", "windows", "active"}

\* While the switcher is shown there is something in it, and nothing the launcher lacks
SelInv ==
  /\ DOMAIN icons = IconFields /\ icons.known \in SUBSET Icons
  /\ Chosen(model)
  /\ visible => model.applications # <<>> /\ Connected(model) \subseteq icons.known

\* What SelectionKept says of a step
KeptStep ==
  icons' # icons /\ visible /\ Contains(model'.applications, Selection(model))
    => Selection(model') = Selection(model)

LEMMA LaidSame ==
  ASSUME NEW m, DOMAIN m = Fields, NEW shown, NEW t \in Laid(m, shown)
  PROVE  Same(m, t)
<1>1. \A r : Same(m, [m EXCEPT !.rows = r])
  BY DEF Same, Fields
<1>2. Same(m, m)
  BY DEF Same
<1>3. t = m \/ \E r : t = [m EXCEPT !.rows = r]
  BY DEF Laid
<1> QED BY <1>1, <1>2, <1>3

LEMMA DetailedSame ==
  ASSUME NEW m, DOMAIN m = Fields, NEW value, NEW n
  PROVE  Same(m, Detailed(m, value, n))
BY DetailsSame, Zenon DEF Detailed

LEMMA ChangedIs ==
  ASSUME NEW m, DOMAIN m = Fields, NEW told, NEW updated, Changed(m, told, updated)
  PROVE  /\ Same(m, model')
         /\ visible' => visible /\ (updated => m.applications # <<>>)
<1>1. Same(m, m)
  BY DEF Same
<1>2. CASE updated /\ m.applications = <<>> /\ HideModel(m)
  BY <1>1, <1>2 DEF HideModel
<1>3. CASE /\ updated => m.applications # <<>>
           /\ model' \in IF m.xids = model.xids THEN {m} ELSE Laid(m, view)
           /\ UNCHANGED <<visible, view, fade>>
  BY <1>1, <1>3, LaidSame
<1> QED BY <1>2, <1>3 DEF Changed

\* The user moves the selection
LEMMA StaysInv ==
  ASSUME SelInv, Stays(model, model'), icons' = icons, visible' => visible
  PROVE  SelInv'
<1>1. Connected(model') = Connected(model) /\ model'.applications = model.applications /\ Chosen(model')
  BY DEF Stays, Connected
<1> QED BY <1>1 DEF SelInv

LEMMA ChangedInv ==
  ASSUME SelInv, NEW m, Stays(model, m), NEW told, NEW updated, Changed(m, told, updated), icons' = icons
  PROVE  SelInv'
<1>1. Same(m, model') /\ (visible' => visible)
  BY ChangedIs DEF Stays, Chosen
<1>2. Stays(m, model')
  BY <1>1, SameStays DEF Stays
<1>3. Stays(model, model')
  BY <1>2 DEF Stays
<1> QED BY <1>1, <1>3, StaysInv

\* An icon or a window comes, goes or changes
LEMMA IconsInv ==
  ASSUME SelInv, DOMAIN icons' = IconFields, icons'.known \in SUBSET Icons,
         NEW m, Chosen(m), visible => Connected(m) \subseteq icons'.known,
         visible => Keeps(m, Selection(model)),
         NEW told, NEW updated, ~updated /\ visible => m.applications # <<>>,
         Changed(m, told, updated)
  PROVE  SelInv' /\ KeptStep
<1>1. Same(m, model') /\ (visible' => visible /\ (updated => m.applications # <<>>))
  BY ChangedIs DEF Chosen
<1>2. /\ Chosen(model') /\ Selection(model') = Selection(m) /\ Connected(model') = Connected(m)
      /\ ToSet(model'.applications) = ToSet(m.applications) /\ model'.applications = m.applications
  BY <1>1, SameChosen DEF Same
<1>3. SelInv'
  BY <1>1, <1>2 DEF SelInv
<1>4. KeptStep
  <2>1. \A i : Contains(model'.applications, i) => i \in ToSet(m.applications)
    <3>1. m.applications \in Seq(Icons)
      BY DEF Chosen
    <3>2. \A i : Contains(m.applications, i) <=> i \in ToSet(m.applications)
      BY <3>1, Elements
    <3> QED BY <1>2, <3>2
  <2> QED BY <1>2, <2>1 DEF KeptStep, Keeps
<1> QED BY <1>3, <1>4

\* Where the switcher does not hear of it
LEMMA UnheardInv ==
  ASSUME SelInv, DOMAIN icons' = IconFields, icons'.known \in SUBSET Icons,
         UNCHANGED <<model, visible>>, visible => icons.known \subseteq icons'.known
  PROVE  SelInv' /\ KeptStep
<1>1. SelInv'
  BY DEF SelInv
<1>2. KeptStep
  BY DEF KeptStep
<1> QED BY <1>1, <1>2

LEMMA QuirksInv ==
  ASSUME SelInv, NEW i, NEW new, DOMAIN new = IconFields, new.known = icons.known, QuirksChange(i, new)
  PROVE  SelInv' /\ KeptStep
<1>1. icons' = new /\ icons.known \in SUBSET Icons
  BY DEF QuirksChange, SelInv
<1>2. CASE i \notin Connected(model)
  <2>1. UNCHANGED <<model, visible>>
    BY <1>2 DEF QuirksChange
  <2> QED BY <1>1, <2>1, UnheardInv
<1>3. CASE i \in Connected(model)
  <2> DEFINE m == OnIconQuirksChanged(new, model)
             x == VerifyApplications(new, model)
             updated == x # model
  <2>1. Changed(m, Selection(m) # Selection(model), updated)
    BY <1>3, Zenon DEF QuirksChange
  <2>2. /\ Chosen(m) /\ Connected(m) = Connected(model) /\ m.applications = x.applications
        /\ \A j \in ToSet(model.applications) : Keeps(model, j) => Keeps(m, j)
    <3>1. Chosen(model)
      BY DEF SelInv
    <3> QED BY <3>1, QuirksChosen, Zenon
  <2> HIDE DEF m, x
  <2>3. visible => Keeps(m, Selection(model))
    <3>1. visible => Selection(model) \in ToSet(model.applications)
      BY SelectionIs DEF SelInv
    <3>2. Keeps(model, Selection(model))
      BY DEF Keeps
    <3> QED BY <2>2, <3>1, <3>2
  <2>4. ~updated /\ visible => m.applications # <<>>
    BY <2>2 DEF SelInv
  <2>5. visible => Connected(m) \subseteq icons'.known
    BY <1>1, <2>2 DEF SelInv
  <2> HIDE DEF updated
  <2> QED BY <1>1, <2>1, <2>2, <2>3, <2>4, <2>5, IconsInv
<1> QED BY <1>2, <1>3

LEMMA FreshChosen ==
  ASSUME SelInv, NEW current \in BOOLEAN
  PROVE  Chosen(FreshModel(current)) /\ Connected(FreshModel(current)) = icons.known
BY NewChosen DEF SelInv, FreshModel

\* It is shown, with one of these models
LEMMA ShowInv ==
  ASSUME SelInv, icons' = icons, NEW m, Chosen(m), Connected(m) = icons.known, m.applications # <<>>,
         Stays(m, model')
  PROVE  SelInv'
BY DEF SelInv, Stays, Connected

LEMMA NoModelChosen == Chosen(NoModel)
<1>1. DOMAIN NoModel = Fields
  BY DEF NoModel, Fields
<1>2. <<>> \in Seq(Icons) /\ IsInjective(<<>>) /\ ToSet(<<>>) = {} /\ Len(<<>>) = 0
  <2> DEFINE s == <<>>
  <2>1. s \in Seq(Icons) /\ Len(s) = 0 /\ DOMAIN s = {}
    OBVIOUS
  <2> HIDE DEF s
  <2>2. IsInjective(s) /\ ToSet(s) = {}
    BY <2>1 DEF IsInjective, ToSet
  <2> QED BY <2>1, <2>2 DEF s
<1> QED BY <1>1, <1>2 DEF NoModel, Chosen

LEMMA InitInv == Init => SelInv
<1> SUFFICES ASSUME Init PROVE SelInv
  OBVIOUS
<1>1. DOMAIN icons = IconFields /\ icons.known = Icons
  BY DEF Init, IconFields
<1>2. model = NoModel /\ visible = FALSE
  BY DEF Init
<1> QED BY <1>1, <1>2, NoModelChosen DEF SelInv

LEMMA ShowKeeps ==
  ASSUME SelInv, Show(TRUE) \/ Show(FALSE) \/ ShowNothing \/ ShowWindows
  PROVE  SelInv' /\ icons' = icons
<1>1. ASSUME NEW current \in BOOLEAN, Show(current) PROVE SelInv' /\ icons' = icons
  <2> DEFINE m == FreshModel(current)
  <2>1. m.applications # <<>> /\ model' \in First(m) /\ icons' = icons
    BY <1>1 DEF Show, ShowWith
  <2>2. Chosen(m) /\ Connected(m) = icons.known
    BY FreshChosen
  <2> HIDE DEF m
  <2>3. Stays(m, model')
    BY <2>1, <2>2, FirstStays
  <2> QED BY <2>1, <2>2, <2>3, ShowInv
<1>2. ASSUME ShowNothing PROVE SelInv' /\ icons' = icons
  <2>1. model' = NoModel /\ icons' = icons /\ visible' = visible /\ ~visible
    BY <1>2 DEF ShowNothing
  <2> QED BY <2>1, NoModelChosen DEF SelInv
<1>3. ASSUME ShowWindows PROVE SelInv' /\ icons' = icons
  <2> DEFINE m == FreshModel(TRUE)
             x == SelectClamped(icons, m, StartIndex)
             first == Detailed(x, TRUE, 1)
  <2>1. m.applications # <<>> /\ ShowWith(IF first.detail THEN Laid(first, view') ELSE {first})
    BY <1>3, Zenon DEF ShowWindows
  <2>2. icons' = icons /\ model' \in IF first.detail THEN Laid(first, view') ELSE {first}
    BY <2>1 DEF ShowWith
  <2>3. Chosen(m) /\ Connected(m) = icons.known
    BY FreshChosen
  <2> HIDE DEF m
  <2>4. Stays(m, x)
    BY <2>1, <2>3, SwitcherAssumption, IndexStays
  <2> HIDE DEF x
  <2>5. DOMAIN x = Fields
    BY <2>4 DEF Stays, Chosen
  <2>6. Same(x, first)
    BY <2>5, DetailedSame
  <2> HIDE DEF first
  <2>7. DOMAIN first = Fields /\ Same(first, first)
    BY <2>6 DEF Same
  <2>8. Same(first, model')
    BY <2>2, <2>7, LaidSame
  <2>9. Stays(x, first) /\ Stays(first, model')
    BY <2>4, <2>6, <2>8, SameStays DEF Stays
  <2>10. Stays(m, model')
    BY <2>4, <2>9 DEF Stays
  <2> QED BY <2>1, <2>2, <2>3, <2>10, ShowInv
<1> QED BY <1>1, <1>2, <1>3

LEMMA HideKeeps ==
  ASSUME SelInv, Hide \/ FadeFinished
  PROVE  SelInv' /\ icons' = icons
<1>1. CASE Hide
  BY <1>1 DEF Hide, HideModel, SelInv
<1>2. CASE FadeFinished
  BY <1>2, NoModelChosen DEF FadeFinished, SelInv
<1> QED BY <1>1, <1>2

\* Alt+Tab and the mouse on an icon
LEMMA SelectionMoves ==
  ASSUME SelInv, NextSelection \/ PrevSelection \/ \E n \in 0..(MaxIcons - 1) : SelectIcon(n)
  PROVE  SelInv' /\ icons' = icons
<1>1. Chosen(model) /\ DOMAIN model = Fields
  BY DEF SelInv, Chosen
<1>2. /\ Stays(model, NextDetail(model)) /\ Stays(model, PrevDetail(model))
      /\ Stays(model, Next(icons, model)) /\ Stays(model, Prev(icons, model))
  <2>1. Same(model, NextDetail(model)) /\ Same(model, PrevDetail(model))
    BY <1>1, WindowsSame
  <2> QED BY <1>1, <2>1, SameStays, IndexStays
<1>3. CASE NextSelection
  BY <1>2, <1>3, ChangedInv DEF NextSelection, Moved
<1>4. CASE PrevSelection
  BY <1>2, <1>4, ChangedInv DEF PrevSelection, Moved
<1>5. ASSUME NEW n \in 0..(MaxIcons - 1), SelectIcon(n) PROVE SelInv' /\ icons' = icons
  <2>1. n < Size(model) /\ Changed(Select(icons, model, n), TRUE, FALSE) /\ icons' = icons
    BY <1>5 DEF SelectIcon, Moved
  <2>2. n \in Nat /\ Size(model) \in Nat
    BY <1>1, SwitcherAssumption, SelectionIs DEF Size
  <2>3. n \in 0..(Size(model) - 1)
    BY <2>1, <2>2
  <2>4. Stays(model, Select(icons, model, n))
    BY <1>1, <2>3, IndexStays
  <2> QED BY <2>1, <2>4, ChangedInv
<1> QED BY <1>3, <1>4, <1>5

\* Into the windows of an application, among them, and out again
LEMMA WindowMoves ==
  ASSUME SelInv,
         \/ \E n \in 0..(MaxWindows - 1) : SelectWindow(n)
         \/ LeaveDetail \/ OnDetailTimer \/ StartDetailMode \/ StopDetailMode
         \/ AltTabNextWindow \/ AltTabPrevWindow
  PROVE  SelInv' /\ icons' = icons
<1>1. Chosen(model) /\ DOMAIN model = Fields
  BY DEF SelInv, Chosen
<1>2. ASSUME NEW m, Same(model, m), NEW told, NEW updated, Changed(m, told, updated), icons' = icons
      PROVE  SelInv' /\ icons' = icons
  <2>1. Stays(model, m)
    BY <1>1, <1>2, SameStays
  <2> QED BY <1>2, <2>1, ChangedInv
<1>3. \A value, n : Same(model, Detailed(model, value, n))
  BY <1>1, DetailedSame
<1>4. ASSUME NEW n \in 0..(MaxWindows - 1), SelectWindow(n) PROVE SelInv' /\ icons' = icons
  <2>1. Same(model, [model EXCEPT !.detail_index = n])
    BY <1>1 DEF Same, Fields
  <2> QED BY <1>2, <1>4, <2>1 DEF SelectWindow
<1>5. CASE LeaveDetail
  <2>1. Same(model, SetDetailSelection(icons, model, FALSE))
    BY <1>1, DetailsSame
  <2> QED BY <1>2, <1>5, <2>1 DEF LeaveDetail
<1>6. CASE OnDetailTimer
  <2> DEFINE m == Detailed(model, TRUE, 2)
  <2>1. Same(model, m)
    BY <1>3
  <2>2. /\ model' \in {model, m} \cup Laid(m, view) /\ UNCHANGED <<icons, visible>>
    BY <1>6 DEF OnDetailTimer
  <2> HIDE DEF m
  <2>3. Same(model, model') /\ icons' = icons /\ visible' = visible
    <3>1. \A t \in Laid(m, view) : Same(m, t)
      BY <2>1, LaidSame DEF Same
    <3> QED BY <1>1, <2>1, <2>2, <3>1 DEF Same
  <2> QED BY <1>1, <2>3, SameStays, StaysInv
<1>7. CASE StartDetailMode
  <2>1. Same(model, NextDetailRow(model))
    BY <1>1, WindowsSame
  <2> QED BY <1>2, <1>3, <1>7, <2>1 DEF StartDetailMode
<1>8. CASE StopDetailMode
  <2>1. Same(model, PrevDetailRow(model))
    BY <1>1, WindowsSame
  <2> QED BY <1>2, <1>3, <1>8, <2>1 DEF StopDetailMode
<1>9. CASE AltTabNextWindow
  <2>1. Same(model, NextDetail(model))
    BY <1>1, WindowsSame
  <2> QED BY <1>2, <1>3, <1>9, <2>1 DEF AltTabNextWindow
<1>10. CASE AltTabPrevWindow
  <2> DEFINE x == IF model.detail THEN model ELSE Detailed(model, TRUE, 1)
  <2>1. Same(model, x)
    BY <1>1, <1>3 DEF Same
  <2>2. Changed(PrevDetail(x), FALSE, FALSE) /\ icons' = icons
    BY <1>10 DEF AltTabPrevWindow
  <2> HIDE DEF x
  <2>3. Same(x, PrevDetail(x))
    BY <2>1, WindowsSame DEF Same
  <2>4. Same(model, PrevDetail(x))
    BY <2>1, <2>3 DEF Same
  <2> QED BY <1>2, <2>2, <2>4
<1> QED BY <1>4, <1>5, <1>6, <1>7, <1>8, <1>9, <1>10

\* An application starts, stops or is used; its windows come and go; the launcher adds or
\* removes an icon
IconStep ==
  \/ \E i \in Icons :
       \/ ApplicationStops(i) \/ ApplicationStarts(i)
       \/ LauncherAddsIcon(i) \/ LauncherRemovesIcon(i)
       \/ \E n \in 0..MaxWindows : WindowsChange(i, n)
  \/ \E i \in Icons \cup {NoIcon} : ActiveChanges(i)

LEMMA IconsKeep ==
  ASSUME SelInv, IconStep
  PROVE  SelInv' /\ KeptStep
<1>1. /\ Chosen(model) /\ DOMAIN icons = IconFields /\ icons.known \in SUBSET Icons
      /\ Keeps(model, Selection(model))
      /\ visible => Selection(model) \in Connected(model) /\ Connected(model) \subseteq icons.known
  BY SelectionIs DEF SelInv, Keeps, Connected
<1>2. ASSUME NEW i \in Icons, ApplicationStops(i) PROVE SelInv' /\ KeptStep
  <2> DEFINE new == [icons EXCEPT !.running = @ \ {i}, !.active = IF @ = i THEN NoIcon ELSE @]
  <2>1. DOMAIN new = IconFields /\ new.known = icons.known
    BY <1>1 DEF IconFields
  <2>2. QuirksChange(i, new)
    BY <1>2, Zenon DEF ApplicationStops
  <2> HIDE DEF new
  <2> QED BY <2>1, <2>2, QuirksInv
<1>3. ASSUME NEW i \in Icons, ApplicationStarts(i) PROVE SelInv' /\ KeptStep
  <2> DEFINE new == [icons EXCEPT !.running = @ \cup {i}, !.windows[i] = {1}]
  <2>1. DOMAIN new = IconFields /\ new.known = icons.known
    BY <1>1 DEF IconFields
  <2>2. QuirksChange(i, new)
    BY <1>3, Zenon DEF ApplicationStarts
  <2> HIDE DEF new
  <2> QED BY <2>1, <2>2, QuirksInv
<1>4. ASSUME NEW i \in Icons \cup {NoIcon}, ActiveChanges(i) PROVE SelInv' /\ KeptStep
  <2> DEFINE new == [icons EXCEPT !.active = i]
             one == IF i = NoIcon THEN icons.active ELSE i
  <2>1. DOMAIN new = IconFields /\ new.known = icons.known
    BY <1>1 DEF IconFields
  <2>2. QuirksChange(one, new)
    BY <1>4, Zenon DEF ActiveChanges
  <2> HIDE DEF new, one
  <2> QED BY <2>1, <2>2, QuirksInv
<1>5. ASSUME NEW i \in Icons, NEW n \in 0..MaxWindows, WindowsChange(i, n) PROVE SelInv' /\ KeptStep
  <2>1. icons' = [icons EXCEPT !.windows[i] = 1..n]
    BY <1>5 DEF WindowsChange
  <2>2. DOMAIN icons' = IconFields /\ icons'.known = icons.known
    BY <1>1, <2>1 DEF IconFields
  <2>3. CASE i \in icons.away \/ i \notin Connected(model)
    <3>1. UNCHANGED <<model, visible>>
      BY <1>5, <2>3 DEF WindowsChange
    <3> QED BY <1>1, <2>2, <3>1, UnheardInv
  <2>4. CASE ~(i \in icons.away \/ i \notin Connected(model))
    <3> DEFINE m == OnIconWindowsUpdated(icons', model, i)
    <3>1. Changed(m, FALSE, TRUE)
      BY <1>5, <2>4, Zenon DEF WindowsChange
    <3>2. Same(model, m)
      BY <1>1, WindowsSame DEF Chosen
    <3> HIDE DEF m
    <3>3. Chosen(m) /\ Connected(m) = Connected(model) /\ Keeps(m, Selection(model))
      BY <1>1, <3>2, SameChosen DEF Keeps
    <3> QED BY <1>1, <2>2, <3>1, <3>3, IconsInv
  <2> QED BY <2>3, <2>4
<1>6. ASSUME NEW i \in Icons, LauncherAddsIcon(i) PROVE SelInv' /\ KeptStep
  <2>1. /\ i \notin icons.known
        /\ icons' = [icons EXCEPT !.known = @ \cup {i}, !.running = @ \cup {i}, !.windows[i] = {1}]
    BY <1>6 DEF LauncherAddsIcon
  <2>2. DOMAIN icons' = IconFields /\ icons'.known = icons.known \cup {i}
    BY <1>1, <2>1 DEF IconFields
  <2>3. CASE ~visible
    <3>1. UNCHANGED <<model, visible>>
      BY <1>6, <2>3 DEF LauncherAddsIcon
    <3> QED BY <1>1, <2>2, <2>3, <3>1, UnheardInv
  <2>4. CASE visible
    <3> DEFINE m == AddIcon(icons', model, i)
    <3>1. Changed(m, FALSE, TRUE)
      BY <1>6, <2>4, Zenon DEF LauncherAddsIcon
    <3>2. i \notin Connected(model) /\ i # Selection(model)
      BY <1>1, <2>1, <2>4
    <3>3. /\ Chosen(m) /\ Connected(m) = Connected(model) \cup {i}
          /\ \A j : j # i /\ Keeps(model, j) => Keeps(m, j)
      <4>1. /\ Chosen(AddIcon(icons', model, i)) /\ Connected(AddIcon(icons', model, i)) = Connected(model) \cup {i}
            /\ \A j : j # i /\ Keeps(model, j) => Keeps(AddIcon(icons', model, i), j)
            /\ ToSet(AddIcon(icons', model, i).applications) \subseteq ToSet(model.applications) \cup icons'.running
            /\ Sound(model) => Tracks(model, AddIcon(icons', model, i))
        BY <1>1, <3>2, AddChosen, Zenon
      <4> QED BY <4>1, Zenon
    <3> HIDE DEF m
    <3>4. Keeps(m, Selection(model))
      BY <1>1, <3>2, <3>3
    <3>5. Connected(m) \subseteq icons'.known
      BY <1>1, <2>2, <2>4, <3>3
    <3> QED BY <1>1, <2>2, <3>1, <3>3, <3>4, <3>5, IconsInv
  <2> QED BY <2>3, <2>4
<1>7. ASSUME NEW i \in Icons, LauncherRemovesIcon(i) PROVE SelInv' /\ KeptStep
  <2>1. icons' = [icons EXCEPT !.known = @ \ {i}]
    BY <1>7 DEF LauncherRemovesIcon
  <2>2. DOMAIN icons' = IconFields /\ icons'.known = icons.known \ {i}
    BY <1>1, <2>1 DEF IconFields
  <2>3. CASE ~visible
    <3>1. UNCHANGED <<model, visible>>
      BY <1>7, <2>3 DEF LauncherRemovesIcon
    <3> QED BY <1>1, <2>2, <2>3, <3>1, UnheardInv
  <2>4. CASE visible
    <3> DEFINE m == RemoveIcon(icons', model, i)
               updated == Contains(model.applications, i)
    <3>1. Changed(m, FALSE, updated)
      BY <1>7, <2>4, Zenon DEF LauncherRemovesIcon
    <3>2. /\ Chosen(m) /\ Connected(m) = Connected(model) \ {i}
          /\ ~updated => m.applications = model.applications
          /\ \A j : Keeps(model, j) => Keeps(m, j)
      BY <1>1, RemoveChosen, Zenon
    <3> HIDE DEF m, updated
    <3>3. Keeps(m, Selection(model))
      BY <1>1, <3>2
    <3>4. Connected(m) \subseteq icons'.known
      BY <1>1, <2>2, <2>4, <3>2
    <3>5. ~updated => m.applications # <<>>
      BY <2>4, <3>2 DEF SelInv
    <3> QED BY <1>1, <2>2, <3>1, <3>2, <3>3, <3>4, <3>5, IconsInv
  <2> QED BY <2>3, <2>4
<1> QED BY <1>2, <1>3, <1>4, <1>5, <1>6, <1>7 DEF IconStep

LEMMA StepInv == SelInv /\ [NextStep]_vars => SelInv' /\ (KeptStep \/ UNCHANGED vars)
<1> SUFFICES ASSUME SelInv, [NextStep]_vars PROVE SelInv' /\ (KeptStep \/ UNCHANGED vars)
  OBVIOUS
<1>1. icons' = icons => KeptStep
  BY DEF KeptStep
<1>2. CASE (\E current \in BOOLEAN : Show(current)) \/ ShowNothing \/ ShowWindows
  BY <1>1, <1>2, ShowKeeps
<1>3. CASE Hide \/ FadeFinished
  BY <1>1, <1>3, HideKeeps
<1>4. CASE NextSelection \/ PrevSelection \/ \E n \in 0..(MaxIcons - 1) : SelectIcon(n)
  BY <1>1, <1>4, SelectionMoves
<1>5. CASE \/ \E n \in 0..(MaxWindows - 1) : SelectWindow(n)
           \/ LeaveDetail \/ OnDetailTimer \/ StartDetailMode \/ StopDetailMode
           \/ AltTabNextWindow \/ AltTabPrevWindow
  BY <1>1, <1>5, WindowMoves
<1>6. CASE IconStep
  BY <1>6, IconsKeep
<1>7. CASE UNCHANGED vars
  BY <1>7 DEF vars, SelInv
<1> QED BY <1>2, <1>3, <1>4, <1>5, <1>6, <1>7 DEF NextStep, IconStep
-----------------------------------------------------------------------------
(* The rows of windows *)

TotalRuns(f, rows, n) == f = [k \in 0..n |-> IF k = 0 THEN 0 ELSE f[k - 1] + rows[k]]

LEMMA TotalIs ==
  ASSUME NEW rows \in Seq(Nat)
  PROVE  /\ TotalAbove(rows, 0) = 0
         /\ \A k \in 0..(Len(rows) - 1) : TotalAbove(rows, k + 1) = TotalAbove(rows, k) + rows[k + 1]
         /\ \A k \in 0..Len(rows) : TotalAbove(rows, k) \in Nat
<1> DEFINE n == Len(rows)
           G == {k \in 0..n : \E f : TotalRuns(f, rows, k)}
<1>1. n \in Nat /\ \A k \in 1..n : rows[k] \in Nat
  OBVIOUS
<1>2. 0 \in G
  <2> DEFINE f == [k \in 0..0 |-> 0]
  <2>1. TotalRuns(f, rows, 0)
    BY DEF TotalRuns
  <2> HIDE DEF f
  <2> QED BY <1>1, <2>1
<1>3. ASSUME NEW k \in 0..(n - 1), k \in G PROVE k + 1 \in G
  <2>1. k + 1 \in 0..n /\ k \in Nat
    BY <1>1
  <2>2. PICK g : TotalRuns(g, rows, k)
    BY <1>3
  <2> DEFINE f == [j \in 0..(k + 1) |-> IF j = k + 1 THEN g[k] + rows[k + 1] ELSE g[j]]
             h == [j \in 0..(k + 1) |-> IF j = 0 THEN 0 ELSE f[j - 1] + rows[j]]
  <2>3. ASSUME NEW j \in 0..(k + 1) PROVE f[j] = h[j]
    <3>1. CASE j = k + 1
      <4>1. j - 1 = k /\ k \in 0..(k + 1) /\ k # k + 1 /\ j # 0
        BY <2>1, <3>1
      <4>2. f[j - 1] = g[k]
        BY <4>1
      <4> QED BY <3>1, <4>1, <4>2
    <3>2. CASE j # k + 1 /\ j # 0
      <4>1. j \in 0..k /\ j - 1 \in 0..(k + 1) /\ j - 1 # k + 1
        BY <2>1, <3>2
      <4>2. g[j] = g[j - 1] + rows[j]
        BY <2>2, <3>2, <4>1 DEF TotalRuns
      <4>3. f[j - 1] = g[j - 1]
        BY <4>1
      <4> QED BY <3>2, <4>2, <4>3
    <3>3. CASE j # k + 1 /\ j = 0
      <4>1. 0 \in 0..k
        BY <2>1
      <4>2. g[0] = 0
        BY <2>2, <4>1 DEF TotalRuns
      <4> QED BY <3>3, <4>2
    <3> QED BY <3>1, <3>2, <3>3
  <2>4. f = h
    BY <2>3
  <2>5. TotalRuns(f, rows, k + 1)
    BY <2>4 DEF TotalRuns
  <2> HIDE DEF f
  <2> QED BY <2>1, <2>5
<1> HIDE DEF G
<1>4. n \in G
  BY <1>1, <1>2, <1>3, ToTheEnd
<1> DEFINE sum == CHOOSE f : TotalRuns(f, rows, n)
<1>5. TotalRuns(sum, rows, n)
  BY <1>4 DEF G
<1>6. \A k : TotalAbove(rows, k) = sum[k]
  BY Zenon DEF TotalAbove, TotalRuns
<1> HIDE DEF sum
<1>7. 0 \in 0..n /\ sum[0] = 0
  BY <1>1, <1>5 DEF TotalRuns
<1>8. ASSUME NEW k \in 0..(n - 1) PROVE sum[k + 1] = sum[k] + rows[k + 1]
  <2>1. k + 1 \in 0..n /\ k + 1 # 0 /\ (k + 1) - 1 = k
    BY <1>1
  <2> QED BY <1>5, <2>1 DEF TotalRuns
<1> DEFINE H == {k \in 0..n : sum[k] \in Nat}
<1>9. 0 \in H
  BY <1>7
<1>10. ASSUME NEW k \in 0..(n - 1), k \in H PROVE k + 1 \in H
  <2>1. k + 1 \in 0..n /\ k + 1 \in 1..n
    BY <1>1
  <2>2. sum[k] \in Nat /\ rows[k + 1] \in Nat
    BY <1>1, <1>10, <2>1
  <2> QED BY <1>8, <2>1, <2>2
<1>11. ASSUME NEW k \in 0..n PROVE k \in H
  <2>1. k \in Nat /\ \A j \in 0..(k - 1) : j \in 0..(n - 1)
    BY <1>1
  <2> HIDE DEF H
  <2> QED BY <1>9, <1>10, <2>1, ToTheEnd
<1>12. \A k \in 0..n : sum[k] \in Nat
  BY <1>11
<1> QED BY <1>6, <1>7, <1>8, <1>12

LEMMA TotalGrows ==
  ASSUME NEW rows \in Seq(Nat), NEW a \in 0..Len(rows), NEW b \in a..Len(rows)
  PROVE  TotalAbove(rows, a) <= TotalAbove(rows, b)
<1> DEFINE T(k) == TotalAbove(rows, k)
           G == {k \in 0..Len(rows) : k < a \/ T(a) <= T(k)}
<1>1. Len(rows) \in Nat /\ a \in Nat /\ b \in Nat /\ b \in 0..Len(rows) /\ ~(b < a)
  OBVIOUS
<1>2. \A k \in 0..Len(rows) : T(k) \in Nat
  BY TotalIs
<1>3. ASSUME NEW k \in 0..(Len(rows) - 1) PROVE T(k + 1) = T(k) + rows[k + 1] /\ rows[k + 1] \in Nat
  <2>1. k + 1 \in 1..Len(rows)
    BY <1>1
  <2> QED BY <2>1, TotalIs
<1> HIDE DEF T
<1>4. 0 \in G
  <2>1. 0 < a \/ a = 0
    BY <1>1
  <2>2. 0 \in 0..Len(rows) /\ T(0) <= T(0)
    BY <1>1, <1>2
  <2> QED BY <2>1, <2>2
<1>5. ASSUME NEW k \in 0..(b - 1), k \in G PROVE k + 1 \in G
  <2>1. k \in 0..(Len(rows) - 1) /\ k + 1 \in 0..Len(rows) /\ k \in 0..Len(rows) /\ a \in 0..Len(rows)
    BY <1>1
  <2>2. T(k + 1) = T(k) + rows[k + 1] /\ rows[k + 1] \in Nat /\ T(k) \in Nat /\ T(a) \in Nat /\ T(k + 1) \in Nat
    BY <1>2, <1>3, <2>1
  <2>3. CASE k < a /\ k + 1 < a
    BY <2>1, <2>3
  <2>4. CASE k < a /\ ~(k + 1 < a)
    <3>1. k + 1 = a
      BY <1>1, <2>1, <2>4
    <3> QED BY <2>1, <2>2, <3>1
  <2>5. CASE T(a) <= T(k)
    <3>1. T(a) <= T(k + 1)
      BY <2>2, <2>5
    <3> QED BY <2>1, <3>1
  <2> QED BY <1>5, <2>3, <2>4, <2>5
<1> HIDE DEF G
<1>6. b \in G
  BY <1>1, <1>4, <1>5, ToTheEnd
<1> QED BY <1>1, <1>6 DEF G, T

\* Rows of n windows, as equal as can be
Laying(rows, n) ==
  /\ rows \in Seq(Nat) /\ rows # <<>>
  /\ TotalAbove(rows, Len(rows)) = n
  /\ n # 0 => \A j \in 1..Len(rows) : rows[j] # 0
  /\ \A j, k \in 1..Len(rows) : rows[j] <= rows[k] + 1

LEMMA LayoutsLay ==
  ASSUME NEW n \in Nat, NEW r \in Layouts(n)
  PROVE  Laying(r, n)
<1>1. CASE r = <<n>>
  <2>1. r \in Seq(Nat) /\ r # <<>> /\ Len(r) = 1 /\ r[1] = n
    BY <1>1
  <2>2. 0 \in 0..(Len(r) - 1) /\ TotalAbove(r, 0 + 1) = TotalAbove(r, 0) + r[0 + 1] /\ TotalAbove(r, 0) = 0
    BY <2>1, TotalIs
  <2>3. TotalAbove(r, 1) = n
    BY <2>1, <2>2
  <2>4. \A j \in 1..Len(r) : r[j] = n
    BY <2>1
  <2>5. n <= n + 1
    OBVIOUS
  <2> QED BY <2>1, <2>3, <2>4, <2>5 DEF Laying
<1>2. CASE r # <<n>>
  <2>1. /\ r \in UNION {[1..k -> 1..n] : k \in 1..n} /\ TotalAbove(r, Len(r)) = n
        /\ \A j, k \in DOMAIN r : r[j] - r[k] \in {-1, 0, 1}
    BY <1>2 DEF Layouts
  <2>2. PICK k \in 1..n : r \in [1..k -> 1..n]
    BY <2>1
  <2>3. r \in Seq(1..n) /\ Len(r) = k /\ DOMAIN r = 1..k /\ k \in Nat /\ k # 0
    BY <2>2
  <2>4. \A j \in 1..k : r[j] \in Nat /\ r[j] # 0
    BY <2>2
  <2>5. ASSUME NEW j \in 1..k, NEW l \in 1..k PROVE r[j] <= r[l] + 1
    <3> DEFINE x == r[j]
               y == r[l]
    <3>1. x \in Nat /\ y \in Nat
      BY <2>4
    <3>2. x - y \in {-1, 0, 1}
      BY <2>1, <2>3, Zenon
    <3> HIDE DEF x, y
    <3>3. x <= y + 1
      BY <3>1, <3>2
    <3> QED BY <3>3 DEF x, y
  <2>6. r \in Seq(Nat) /\ r # <<>>
    BY <2>3, <2>4
  <2> QED BY <2>1, <2>3, <2>4, <2>5, <2>6 DEF Laying
<1> QED BY <1>1, <1>2

LEMMA InRowIs ==
  ASSUME NEW m, m.rows \in Seq(Nat), m.row \in Nat, m.detail_index \in Nat
  PROVE  InRow(m) <=> /\ m.row < Len(m.rows)
                      /\ TotalAbove(m.rows, m.row) <= m.detail_index
                      /\ m.detail_index < TotalAbove(m.rows, m.row + 1)
<1> DEFINE a == TotalAbove(m.rows, m.row)
           b == TotalAbove(m.rows, m.row + 1)
           c == m.rows[m.row + 1]
           x == m.detail_index
           n == Len(m.rows)
           y == m.row
<1>1. n \in Nat /\ x \in Nat /\ y \in Nat
  OBVIOUS
<1>2. InRow(m) <=> y < n /\ x \in a..(a + c - 1)
  BY Zenon DEF InRow
<1>3. y < n => a \in Nat /\ b \in Nat /\ c \in Nat /\ b = a + c
  <2> SUFFICES ASSUME y < n PROVE a \in Nat /\ b \in Nat /\ c \in Nat /\ b = a + c
    OBVIOUS
  <2>1. y \in 0..(n - 1) /\ y \in 0..n /\ y + 1 \in 0..n /\ y + 1 \in 1..n
    BY <1>1
  <2> QED BY <2>1, TotalIs
<1> HIDE DEF a, b, c, x, n, y
<1>4. y < n => (x \in a..(a + c - 1) <=> a <= x /\ x < b)
  BY <1>1, <1>3
<1> QED BY <1>2, <1>4 DEF a, b, c, x, n, y

\* The window of a row of a layout is one of those that are laid out
LEMMA InRowBelow ==
  ASSUME NEW m, NEW n \in Nat, Laying(m.rows, n), m.row \in Nat, m.detail_index \in Nat, InRow(m)
  PROVE  m.detail_index < n
<1>1. m.rows \in Seq(Nat) /\ TotalAbove(m.rows, Len(m.rows)) = n
  BY DEF Laying
<1>2. m.row < Len(m.rows) /\ m.detail_index < TotalAbove(m.rows, m.row + 1)
  BY <1>1, InRowIs
<1> DEFINE k == Len(m.rows)
           a == m.row + 1
           x == m.detail_index
           t == TotalAbove(m.rows, a)
<1>3. k \in Nat /\ a \in 0..k /\ k \in a..k /\ x \in Nat
  BY <1>1, <1>2
<1>4. t <= n /\ t \in Nat
  BY <1>1, <1>3, TotalGrows, TotalIs
<1>5. x < t
  BY <1>2
<1> HIDE DEF t, x
<1>6. x < n
  BY <1>3, <1>4, <1>5
<1> QED BY <1>6 DEF x

\* The row that is looked up for a window is the row the window is in
LEMMA RowFound ==
  ASSUME NEW m, DOMAIN m = Fields, NEW n \in Nat, Laying(m.rows, n), m.detail_index \in 0..(n - 1)
  PROVE  /\ InRow(UpdateRowIndex(m)) /\ UpdateRowIndex(m).row \in Nat
         /\ UpdateRowIndex(m) = [m EXCEPT !.row = UpdateRowIndex(m).row]
<1> DEFINE x == m.detail_index
           T(r) == TotalAbove(m.rows, r)
           k == Len(m.rows)
           R == {r \in DOMAIN m.rows : x < T(r)}
           u == Min(R) - 1
           t == [m EXCEPT !.row = u]
<1>1. m.rows \in Seq(Nat) /\ m.rows # <<>> /\ T(k) = n /\ x \in Nat /\ x < n
  BY DEF Laying
<1>2. k \in Nat /\ k # 0 /\ DOMAIN m.rows = 1..k
  BY <1>1
<1>3. k \in R
  BY <1>1, <1>2
<1>4. R \in SUBSET Nat /\ R # {}
  BY <1>2, <1>3
<1>5. PICK p \in R : \A y \in R : p <= y
  BY <1>4, Least
<1>6. Min(R) = p
  BY <1>4, <1>5, MinIs
<1>7. p \in 1..k /\ x < T(p)
  BY <1>2, <1>5
<1>8. u \in Nat /\ u < k /\ u + 1 = p /\ u \in 0..k
  BY <1>2, <1>6, <1>7
<1>9. T(u) <= x
  <2>1. CASE u = 0
    <3>1. T(0) = 0
      BY <1>1, TotalIs
    <3> QED BY <1>1, <2>1, <3>1
  <2>2. CASE u # 0
    <3>1. u \in DOMAIN m.rows /\ ~(p <= u)
      <4> HIDE DEF u, R
      <4> QED BY <1>2, <1>7, <1>8, <2>2
    <3>2. u \notin R
      BY <1>5, <3>1
    <3>3. T(u) \in Nat
      BY <1>1, <1>8, TotalIs
    <3>4. ~(x < T(u))
      BY <3>1, <3>2
    <3> HIDE DEF T, x
    <3> QED BY <1>1, <3>3, <3>4
  <2> QED BY <2>1, <2>2
<1>10. UpdateRowIndex(m) = t
  <2>1. {r \in DOMAIN m.rows : m.detail_index < TotalAbove(m.rows, r)} # {}
    BY <1>4
  <2> QED BY <2>1, Zenon DEF UpdateRowIndex
<1> HIDE DEF R, u
<1>11. t.row = u /\ t.rows = m.rows /\ t.detail_index = x
  BY DEF Fields
<1> HIDE DEF t
<1>12. InRow(t)
  <2>1. t.rows \in Seq(Nat) /\ t.row \in Nat /\ t.detail_index \in Nat
    BY <1>1, <1>8, <1>11
  <2>2. /\ t.row < Len(t.rows) /\ TotalAbove(t.rows, t.row) <= t.detail_index
        /\ t.detail_index < TotalAbove(t.rows, t.row + 1)
    BY <1>7, <1>8, <1>9, <1>11
  <2> QED BY <2>1, <2>2, InRowIs
<1> QED BY <1>8, <1>10, <1>11, <1>12 DEF t

-----------------------------------------------------------------------------
(* Keys that move from row to row *)

\* A window at x is in a row of s windows behind a others.  The row below has q, the row
\* above has p, and they differ by one at most.
LEMMA Halves ==
  ASSUME NEW s \in Nat
  PROVE  s \div 2 \in Nat /\ 2 * (s \div 2) <= s /\ s <= 2 * (s \div 2) + 1
OBVIOUS

LEMMA RowBelow ==
  ASSUME NEW a \in Nat, NEW s \in Nat, NEW q \in Nat, NEW x \in Nat,
         a <= x, x < a + s, q # 0, s <= q + 1
  PROVE  LET y == x + (IF x - a < s \div 2 THEN s ELSE q)
         IN  y \in Nat /\ a + s <= y /\ y < a + s + q
<1> DEFINE d == s \div 2
<1>1. d \in Nat /\ 2 * d <= s /\ s <= 2 * d + 1
  BY Halves
<1> HIDE DEF d
<1>2. CASE x - a < d
  <2>1. x + s \in Nat /\ a + s <= x + s /\ x + s < a + s + q
    BY <1>1, <1>2
  <2> QED BY <1>2, <2>1 DEF d
<1>3. CASE ~(x - a < d)
  <2>1. x + q \in Nat /\ a + s <= x + q /\ x + q < a + s + q
    BY <1>1, <1>3
  <2> QED BY <1>3, <2>1 DEF d
<1> QED BY <1>2, <1>3

LEMMA RowAbove ==
  ASSUME NEW b \in Nat, NEW p \in Nat, NEW s \in Nat, NEW x \in Nat,
         b + p <= x, x < b + p + s, p # 0, s <= p + 1
  PROVE  LET y == x - (IF x - (b + p) < s \div 2 THEN p ELSE s)
         IN  y \in Nat /\ b <= y /\ y < b + p
<1> DEFINE d == s \div 2
<1>1. d \in Nat /\ 2 * d <= s /\ s <= 2 * d + 1
  BY Halves
<1> HIDE DEF d
<1>2. CASE x - (b + p) < d
  <2>1. x - p \in Nat /\ b <= x - p /\ x - p < b + p
    BY <1>1, <1>2
  <2> QED BY <1>2, <2>1 DEF d
<1>3. CASE ~(x - (b + p) < d)
  <2>1. x - s \in Nat /\ b <= x - s /\ x - s < b + p
    BY <1>1, <1>3
  <2> QED BY <1>3, <2>1 DEF d
<1> QED BY <1>2, <1>3

\* From m to t only another window is selected
Glides(m, t) ==
  /\ Same(m, t)
  /\ t.detail = m.detail /\ t.xids = m.xids /\ t.rows = m.rows

\* Neighbouring rows of a layout
LEMMA RowsFit ==
  ASSUME NEW rows, NEW n \in Nat \ {0}, Laying(rows, n), NEW r \in Nat, r < Len(rows)
  PROVE  /\ TotalAbove(rows, r) \in Nat /\ rows[r + 1] \in Nat /\ rows[r + 1] # 0
         /\ TotalAbove(rows, r + 1) = TotalAbove(rows, r) + rows[r + 1]
         /\ \A j \in 1..Len(rows) : rows[r + 1] <= rows[j] + 1
<1>1. rows \in Seq(Nat) /\ Len(rows) \in Nat
  BY DEF Laying
<1>2. r \in 0..(Len(rows) - 1) /\ r \in 0..Len(rows) /\ r + 1 \in 1..Len(rows)
  BY <1>1
<1>3. TotalAbove(rows, r) \in Nat /\ TotalAbove(rows, r + 1) = TotalAbove(rows, r) + rows[r + 1]
  BY <1>1, <1>2, TotalIs
<1>4. rows[r + 1] \in Nat
  BY <1>1, <1>2
<1>5. rows[r + 1] # 0 /\ \A j \in 1..Len(rows) : rows[r + 1] <= rows[j] + 1
  BY <1>2 DEF Laying
<1> QED BY <1>3, <1>4, <1>5

\* The key down selects a window of the row below, or the next one of the last row
LEMMA NextRowIs ==
  ASSUME NEW m, DOMAIN m = Fields, NEW n \in Nat \ {0}, n = Len(m.xids), Laying(m.rows, n),
         m.row \in Nat, m.detail_index \in Nat, InRow(m), m.detail_index + 1 < n
  PROVE  LET t == NextDetailRow(m)
         IN  InRow(t) /\ t.row \in Nat /\ t.detail_index \in Nat
<1> DEFINE T(j) == TotalAbove(m.rows, j)
           k == Len(m.rows)
           r == m.row
           x == m.detail_index
           t == NextDetailRow(m)
           a == T(r)
           s == m.rows[r + 1]
           q == m.rows[r + 2]
<1>1. m.rows \in Seq(Nat) /\ k \in Nat /\ r \in Nat /\ x \in Nat /\ x + 1 < n
  BY DEF Laying
<1>2. r < k /\ T(r) <= x /\ x < T(r + 1)
  BY <1>1, InRowIs
<1>3. a \in Nat /\ s \in Nat /\ T(r + 1) = a + s
  BY <1>1, <1>2, RowsFit
<1>4. CASE r < k - 1
  <2>1. r + 1 \in Nat /\ r + 1 < k /\ r + 2 \in 1..k /\ (r + 1) + 1 = r + 2
    <3> HIDE DEF k, r
    <3> QED BY <1>1, <1>4
  <2>2. q \in Nat /\ q # 0 /\ T(r + 2) = T(r + 1) + q
    <3>1. /\ T(r + 1) \in Nat /\ m.rows[(r + 1) + 1] \in Nat /\ m.rows[(r + 1) + 1] # 0
          /\ T((r + 1) + 1) = T(r + 1) + m.rows[(r + 1) + 1]
      BY <2>1, RowsFit
    <3> QED BY <2>1, <3>1
  <2>3. s <= q + 1
    BY <1>1, <1>2, <2>1, RowsFit
  <2> DEFINE y == x + (IF x - a < s \div 2 THEN s ELSE q)
  <2>4. y \in Nat /\ a + s <= y /\ y < a + s + q
    <3>1. a <= x /\ x < a + s
      BY <1>2, <1>3
    <3> HIDE DEF a, s, q, x
    <3> QED BY <1>1, <1>3, <2>2, <2>3, <3>1, RowBelow
  <2>5. t = [m EXCEPT !.detail_index = y, !.row = r + 1]
    BY <1>4, Zenon DEF NextDetailRow, DetailIndexInLeftHalfOfRow
  <2> HIDE DEF y
  <2>6. t.rows = m.rows /\ t.row = r + 1 /\ t.detail_index = y
    BY <2>5 DEF Fields
  <2> HIDE DEF t
  <2>7. T(r + 1) <= y /\ y < T((r + 1) + 1)
    <3> HIDE DEF T, a, s, q, r
    <3> QED BY <1>3, <2>1, <2>2, <2>4
  <2>8. /\ t.rows \in Seq(Nat) /\ t.row \in Nat /\ t.detail_index \in Nat
        /\ t.row < Len(t.rows) /\ TotalAbove(t.rows, t.row) <= t.detail_index
        /\ t.detail_index < TotalAbove(t.rows, t.row + 1)
    BY <1>1, <2>1, <2>4, <2>6, <2>7
  <2> QED BY <2>8, InRowIs DEF t
<1>5. CASE ~(r < k - 1)
  <2>1. r + 1 = k
    <3> HIDE DEF k, r
    <3> QED BY <1>1, <1>2, <1>5
  <2>2. t = [m EXCEPT !.detail_index = (x + 1) % n]
    BY <1>5, Zenon DEF NextDetailRow
  <2>3. (x + 1) % n = x + 1
    <3>1. \A c, d \in Nat : c + 1 < d => (c + 1) % d = c + 1
      OBVIOUS
    <3> QED BY <1>1, <3>1
  <2>4. t.rows = m.rows /\ t.row = r /\ t.detail_index = x + 1
    BY <2>2, <2>3 DEF Fields
  <2> HIDE DEF t
  <2>5. T(r + 1) = n
    BY <2>1 DEF Laying
  <2>6. T(r) <= x + 1 /\ x + 1 < T(r + 1) /\ x + 1 \in Nat
    <3> HIDE DEF T, x, r
    <3>1. T(r) \in Nat
      BY <1>3
    <3> QED BY <1>1, <1>2, <2>5, <3>1
  <2>7. /\ t.rows \in Seq(Nat) /\ t.row \in Nat /\ t.detail_index \in Nat
        /\ t.row < Len(t.rows) /\ TotalAbove(t.rows, t.row) <= t.detail_index
        /\ t.detail_index < TotalAbove(t.rows, t.row + 1)
    BY <1>1, <1>2, <2>4, <2>6
  <2> QED BY <2>7, InRowIs DEF t
<1> QED BY <1>4, <1>5

\* The key up selects a window of the row above, or the one before in the first row
LEMMA PrevRowIs ==
  ASSUME NEW m, DOMAIN m = Fields, NEW n \in Nat \ {0}, n = Len(m.xids), Laying(m.rows, n),
         m.row \in Nat, m.detail_index \in Nat, InRow(m), m.detail_index > 0
  PROVE  LET t == PrevDetailRow(m)
         IN  InRow(t) /\ t.row \in Nat /\ t.detail_index \in Nat
<1> DEFINE T(j) == TotalAbove(m.rows, j)
           k == Len(m.rows)
           r == m.row
           x == m.detail_index
           t == PrevDetailRow(m)
           b == T(r - 1)
           p == m.rows[r]
           s == m.rows[r + 1]
<1>1. m.rows \in Seq(Nat) /\ k \in Nat /\ r \in Nat /\ x \in Nat /\ x > 0
  BY DEF Laying
<1>2. r < k /\ T(r) <= x /\ x < T(r + 1)
  BY <1>1, InRowIs
<1>3. T(r) \in Nat /\ s \in Nat /\ T(r + 1) = T(r) + s
  BY <1>1, <1>2, RowsFit
<1>4. CASE r > 0
  <2>1. r - 1 \in Nat /\ r - 1 < k /\ r \in 1..k /\ (r - 1) + 1 = r
    <3> HIDE DEF k, r
    <3> QED BY <1>1, <1>2, <1>4
  <2>2. p \in Nat /\ p # 0 /\ T(r) = b + p /\ b \in Nat
    <3>1. /\ T(r - 1) \in Nat /\ m.rows[(r - 1) + 1] \in Nat /\ m.rows[(r - 1) + 1] # 0
          /\ T((r - 1) + 1) = T(r - 1) + m.rows[(r - 1) + 1]
      BY <2>1, RowsFit
    <3> QED BY <2>1, <3>1
  <2>3. s <= p + 1
    BY <1>1, <1>2, <2>1, RowsFit
  <2> DEFINE y == x - (IF x - T(r) < s \div 2 THEN p ELSE s)
  <2>4. y \in Nat /\ b <= y /\ y < b + p
    <3>1. b + p <= x /\ x < b + p + s /\ T(r) = b + p
      BY <1>2, <1>3, <2>2
    <3> HIDE DEF b, s, p, x
    <3> QED BY <1>1, <1>3, <2>2, <2>3, <3>1, RowAbove
  <2>5. t = [m EXCEPT !.detail_index = y, !.row = r - 1]
    BY <1>4, Zenon DEF PrevDetailRow, DetailIndexInLeftHalfOfRow
  <2> HIDE DEF y
  <2>6. t.rows = m.rows /\ t.row = r - 1 /\ t.detail_index = y
    BY <2>5 DEF Fields
  <2> HIDE DEF t
  <2>7. T(r - 1) <= y /\ y < T((r - 1) + 1)
    BY <2>1, <2>2, <2>4
  <2>8. /\ t.rows \in Seq(Nat) /\ t.row \in Nat /\ t.detail_index \in Nat
        /\ t.row < Len(t.rows) /\ TotalAbove(t.rows, t.row) <= t.detail_index
        /\ t.detail_index < TotalAbove(t.rows, t.row + 1)
    BY <1>1, <2>1, <2>4, <2>6, <2>7
  <2> QED BY <2>8, InRowIs DEF t
<1>5. CASE ~(r > 0)
  <2>1. r = 0 /\ x - 1 \in Nat
    BY <1>1, <1>5
  <2>2. t = [m EXCEPT !.detail_index = x - 1]
    BY <1>1, <1>5, Zenon DEF PrevDetailRow
  <2>3. t.rows = m.rows /\ t.row = r /\ t.detail_index = x - 1
    BY <2>2 DEF Fields
  <2> HIDE DEF t
  <2>4. T(r) = 0
    BY <1>1, <2>1, TotalIs
  <2>5. T(r) <= x - 1 /\ x - 1 < T(r + 1)
    <3>1. x < T(r + 1) /\ T(r + 1) \in Nat
      BY <1>2, <1>3
    <3> HIDE DEF T, x, r
    <3> QED BY <1>1, <2>1, <2>4, <3>1
  <2>6. /\ t.rows \in Seq(Nat) /\ t.row \in Nat /\ t.detail_index \in Nat
        /\ t.row < Len(t.rows) /\ TotalAbove(t.rows, t.row) <= t.detail_index
        /\ t.detail_index < TotalAbove(t.rows, t.row + 1)
    BY <1>1, <1>2, <2>1, <2>3, <2>5
  <2> QED BY <2>6, InRowIs DEF t
<1> QED BY <1>4, <1>5

-----------------------------------------------------------------------------
(* The windows that are looked at *)

LEMMA ReverseSet ==
  ASSUME NEW S, NEW s \in Seq(S)
  PROVE  Reverse(s) \in Seq(S) /\ ToSet(Reverse(s)) = ToSet(s)
<1> DEFINE n == Len(s)
           t == Reverse(s)
<1>1. n \in Nat /\ \A j \in 1..n : (n - j) + 1 \in 1..n /\ s[j] \in S
  OBVIOUS
<1>2. t = [j \in 1..n |-> s[(n - j) + 1]]
  BY DEF Reverse
<1> HIDE DEF t
<1>3. t \in [1..n -> S]
  BY <1>1, <1>2
<1>4. t \in Seq(S) /\ Len(t) = n
  BY <1>1, <1>3
<1>5. ASSUME NEW j \in 1..n PROVE t[j] \in {s[k] : k \in 1..n} /\ s[j] \in {t[k] : k \in 1..n}
  <2>1. (n - j) + 1 \in 1..n /\ (n - ((n - j) + 1)) + 1 = j
    BY <1>1
  <2>2. t[j] = s[(n - j) + 1] /\ t[(n - j) + 1] = s[(n - ((n - j) + 1)) + 1]
    BY <1>2, <2>1
  <2> QED BY <2>1, <2>2
<1>6. {t[k] : k \in 1..n} = {s[k] : k \in 1..n}
  BY <1>5
<1> QED BY <1>4, <1>6, Elements DEF t

LEMMA FirstToLast ==
  ASSUME NEW S, NEW s \in Seq(S), s # <<>>
  PROVE  Append(Tail(s), Head(s)) \in Seq(S) /\ ToSet(Append(Tail(s), Head(s))) = ToSet(s)
<1> DEFINE n == Len(s)
           t == Append(Tail(s), Head(s))
<1>1. n \in Nat /\ n # 0 /\ \A j \in 1..n : s[j] \in S
  OBVIOUS
<1>2. Head(s) = s[1] /\ Tail(s) \in Seq(S) /\ Len(Tail(s)) = n - 1 /\ \A j \in 1..(n - 1) : Tail(s)[j] = s[j + 1]
  OBVIOUS
<1>3. t \in Seq(S) /\ Len(t) = n /\ t[n] = s[1] /\ \A j \in 1..(n - 1) : t[j] = Tail(s)[j]
  <2>1. s[1] \in S
    BY <1>1
  <2> QED BY <1>1, <1>2, <2>1
<1> HIDE DEF t
<1>4. \A j \in 1..(n - 1) : t[j] = s[j + 1]
  BY <1>2, <1>3
<1>5. ASSUME NEW j \in 1..n PROVE t[j] \in {s[k] : k \in 1..n} /\ s[j] \in {t[k] : k \in 1..n}
  <2>1. CASE j # n
    <3>1. j \in 1..(n - 1) /\ j + 1 \in 1..n
      BY <1>1, <2>1
    <3>2. t[j] \in {s[k] : k \in 1..n}
      BY <1>4, <3>1
    <3>3. CASE j = 1
      BY <1>1, <1>3, <3>2, <3>3
    <3>4. CASE j # 1
      <4>1. j - 1 \in 1..(n - 1) /\ (j - 1) + 1 = j /\ j - 1 \in 1..n
        BY <1>1, <3>4
      <4> QED BY <1>4, <3>2, <4>1
    <3> QED BY <3>3, <3>4
  <2>2. CASE j = n /\ n = 1
    BY <1>1, <1>3, <2>2
  <2>3. CASE j = n /\ n # 1
    <3>1. j - 1 \in 1..(n - 1) /\ (j - 1) + 1 = j /\ j - 1 \in 1..n /\ 1 \in 1..n
      BY <1>1, <2>3
    <3> QED BY <1>3, <1>4, <2>3, <3>1
  <2> QED BY <2>1, <2>2, <2>3
<1>6. {t[k] : k \in 1..n} = {s[k] : k \in 1..n}
  BY <1>5
<1> QED BY <1>3, <1>6, Elements DEF t

Windows == 1..MaxWindows

\* Those of an application on the viewport are all of its windows
LEMMA SelectionWindowsAre ==
  ASSUME NEW e, e.windows \in [Icons -> SUBSET Windows], NEW m, m.xids = <<>>,
         Selection(m) \in Icons \cup {NoIcon}
  PROVE  /\ SelectionWindows(e, m) \in Seq(Nat)
         /\ Selection(m) \in Icons \ e.away => ToSet(SelectionWindows(e, m)) = e.windows[Selection(m)]
<1> DEFINE i == Selection(m)
           found == IF i = NoIcon \/ (m.only_apps_on_viewport /\ i \in e.away) THEN {} ELSE e.windows[i]
           all == Reverse(InOrder(found))
           w == SelectionWindows(e, m)
<1>1. found \in SUBSET Windows
  BY DEF Icons, NoIcon
<1>2. Windows \in SUBSET Nat /\ IsFiniteSet(Windows)
  BY FS_Interval, SwitcherAssumption DEF Windows
<1>3. i \in Icons \ e.away => found = e.windows[i]
  BY DEF Icons, NoIcon
<1>4. w = IF all # <<>> /\ i = m.last_active THEN Append(Tail(all), Head(all)) ELSE all
  BY Zenon DEF SelectionWindows
<1> HIDE DEF found, i
<1>5. InOrder(found) \in Seq(found) /\ ToSet(InOrder(found)) = found
  <2>1. found \in SUBSET Nat /\ IsFiniteSet(found)
    BY <1>1, <1>2, FS_Subset
  <2> QED BY <2>1, InOrderIs
<1>6. all \in Seq(found) /\ ToSet(all) = found
  BY <1>5, ReverseSet
<1> HIDE DEF all
<1>7. w \in Seq(found) /\ ToSet(w) = found
  BY <1>4, <1>6, FirstToLast
<1>8. w \in Seq(Nat)
  <2> HIDE DEF w
  <2> QED BY <1>1, <1>2, <1>7
<1> QED BY <1>3, <1>7, <1>8 DEF i

\* From m to t the windows of the selected application come under view, as they are
Opens(e, m, t) ==
  /\ t.detail = TRUE /\ t.xids \in Seq(Nat) /\ Selection(m) # NoIcon
  /\ Selection(m) \in Icons \ e.away => ToSet(t.xids) = e.windows[Selection(m)]

\* Which of them was selected is as it was
KeepsPlace(m, t) ==
  /\ Same(m, t)
  /\ t.detail_index = m.detail_index /\ t.row = m.row /\ t.rows = m.rows

LEMMA UpdateXidsIs ==
  ASSUME NEW e, e.windows \in [Icons -> SUBSET Windows], NEW m, Chosen(m), m.detail \in BOOLEAN
  PROVE  LET t == UpdateDetailXids(e, m)
         IN  /\ KeepsPlace(m, t) /\ t.detail = m.detail
             /\ m.detail /\ Selection(m) # NoIcon => Opens(e, m, t)
             /\ ~m.detail => t.xids = <<>>
<1> DEFINE none == [m EXCEPT !.xids = <<>>]
           w == SelectionWindows(e, none)
           u == [none EXCEPT !.xids = w]
           t == UpdateDetailXids(e, m)
<1>1. DOMAIN m = Fields
  BY DEF Chosen
<1>2. KeepsPlace(m, none) /\ none.detail = m.detail /\ none.xids = <<>> /\ DOMAIN none = Fields
  BY <1>1 DEF KeepsPlace, Same, Fields
<1>3. Selection(none) = Selection(m)
  BY <1>2, SameChosen DEF KeepsPlace
<1>4. t = IF m.detail THEN u ELSE none
  BY Zenon DEF UpdateDetailXids
<1>5. Selection(m) \in Icons \cup {NoIcon}
  BY SelectionIs
<1>6. w \in Seq(Nat) /\ (Selection(m) \in Icons \ e.away => ToSet(w) = e.windows[Selection(m)])
  <2> HIDE DEF none
  <2> QED BY <1>2, <1>3, <1>5, SelectionWindowsAre
<1> HIDE DEF none, w
<1>7. KeepsPlace(m, u) /\ u.detail = m.detail /\ u.xids = w
  BY <1>2 DEF KeepsPlace, Same, Fields
<1> HIDE DEF u
<1> QED BY <1>2, <1>4, <1>6, <1>7 DEF Opens

LEMMA SetDetailIs ==
  ASSUME NEW e, e.windows \in [Icons -> SUBSET Windows], NEW m, Chosen(m), m.detail \in BOOLEAN,
         NEW value \in BOOLEAN, value # m.detail
  PROVE  LET t == SetDetailSelection(e, m, value)
         IN  /\ KeepsPlace(m, t) /\ t.detail = value
             /\ value /\ Selection(m) # NoIcon => Opens(e, m, t)
             /\ ~value => t.xids = <<>>
<1> DEFINE x == [m EXCEPT !.detail = value]
           t == SetDetailSelection(e, m, value)
           u == UpdateDetailXids(e, x)
<1>1. t = u
  BY Zenon DEF SetDetailSelection
<1>2. KeepsPlace(m, x) /\ x.detail = value
  BY DEF KeepsPlace, Same, Fields, Chosen
<1> HIDE DEF x, u
<1>3. Chosen(x) /\ Selection(x) = Selection(m)
  BY <1>2, SameChosen DEF KeepsPlace
<1>4. /\ KeepsPlace(x, UpdateDetailXids(e, x)) /\ UpdateDetailXids(e, x).detail = x.detail
      /\ x.detail /\ Selection(x) # NoIcon => Opens(e, x, UpdateDetailXids(e, x))
      /\ ~x.detail => UpdateDetailXids(e, x).xids = <<>>
  BY <1>2, <1>3, UpdateXidsIs, Zenon
<1>5. KeepsPlace(x, u) /\ u.detail = value /\ (value /\ Selection(m) # NoIcon => Opens(e, x, u))
      /\ (~value => u.xids = <<>>)
  BY <1>2, <1>3, <1>4 DEF u
<1>6. KeepsPlace(m, u)
  BY <1>2, <1>5 DEF KeepsPlace, Same
<1>7. Opens(e, x, u) => Opens(e, m, u)
  BY <1>3 DEF Opens
<1> QED BY <1>1, <1>5, <1>6, <1>7

\* SetDetail either does nothing, or starts or ends the details
LEMMA DetailedIs ==
  ASSUME icons.windows \in [Icons -> SUBSET Windows], NEW m, Chosen(m), Sound(m), m.xids \in Seq(Nat),
         NEW value \in BOOLEAN, NEW n \in Nat \ {0}
  PROVE  LET t == Detailed(m, value, n)
         IN  \/ t = m
             \/ value /\ ~m.detail /\ KeepsPlace(m, t) /\ Opens(icons, m, t) /\ t.xids # <<>>
             \/ m.detail /\ KeepsPlace(m, t) /\ t.detail = FALSE /\ t.xids = <<>> /\ (value => Len(m.xids) < n)
<1> DEFINE w == SelectionWindows(icons, m)
           on == value /\ Selection(m) # NoIcon /\ Len(w) >= n
           t == Detailed(m, value, n)
           u == SetDetailSelection(icons, m, on)
<1>1. t = u
  BY Zenon DEF Detailed
<1>2. on \in BOOLEAN /\ m.detail \in BOOLEAN
  BY DEF Sound
<1>3. m.xids # <<>> => w = m.xids
  BY Zenon DEF SelectionWindows
<1>4. m.xids = <<>> => w \in Seq(Nat)
  BY SelectionIs, SelectionWindowsAre
<1>5. CASE on = m.detail
  BY <1>1, <1>5, Zenon DEF SetDetailSelection
<1>6. CASE on = TRUE /\ m.detail = FALSE
  <2>1. m.xids = <<>>
    BY <1>6 DEF Sound
  <2> DEFINE x == [m EXCEPT !.detail = TRUE]
             none == [x EXCEPT !.xids = <<>>]
             v == SetDetailSelection(icons, m, TRUE)
  <2>2. KeepsPlace(m, v) /\ v.detail = TRUE /\ Opens(icons, m, v)
    <3>1. /\ KeepsPlace(m, SetDetailSelection(icons, m, TRUE))
          /\ SetDetailSelection(icons, m, TRUE).detail = TRUE
          /\ TRUE /\ Selection(m) # NoIcon => Opens(icons, m, SetDetailSelection(icons, m, TRUE))
      <4>1. TRUE \in BOOLEAN /\ TRUE # m.detail
        BY <1>6
      <4>2. /\ KeepsPlace(m, SetDetailSelection(icons, m, TRUE))
            /\ SetDetailSelection(icons, m, TRUE).detail = TRUE
            /\ TRUE /\ Selection(m) # NoIcon => Opens(icons, m, SetDetailSelection(icons, m, TRUE))
            /\ ~TRUE => SetDetailSelection(icons, m, TRUE).xids = <<>>
        BY <1>2, <4>1, SetDetailIs, Zenon
      <4> QED BY <4>2
    <3>2. Selection(m) # NoIcon
      BY <1>6
    <3> QED BY <3>1, <3>2
  <2>3. v.xids = SelectionWindows(icons, none)
    <3>1. v = UpdateDetailXids(icons, x)
      BY <1>6, Zenon DEF SetDetailSelection
    <3>2. x.detail = TRUE /\ DOMAIN none = Fields
      BY DEF Chosen, Fields
    <3>3. v = [none EXCEPT !.xids = SelectionWindows(icons, none)]
      BY <3>1, <3>2, Zenon DEF UpdateDetailXids
    <3> HIDE DEF none, v
    <3> QED BY <3>2, <3>3 DEF Fields
  <2>4. SelectionWindows(icons, none) = w
    <3>1. /\ none.xids = <<>> /\ none.applications = m.applications /\ none.index = m.index
          /\ none.only_apps_on_viewport = m.only_apps_on_viewport /\ none.last_active = m.last_active
      BY DEF Chosen, Fields
    <3> HIDE DEF none
    <3>2. Selection(none) = Selection(m)
      BY <3>1 DEF Selection, At, Size
    <3> QED BY <2>1, <3>1, <3>2, Zenon DEF SelectionWindows
  <2>5. v.xids # <<>>
    <3>1. w # <<>>
      BY <1>6
    <3> QED BY <2>3, <2>4, <3>1
  <2>6. t = v
    BY <1>1, <1>6
  <2> HIDE DEF t, v
  <2> QED BY <1>6, <2>2, <2>5, <2>6 DEF t
<1>7. CASE on = FALSE /\ m.detail = TRUE
  <2> DEFINE v == SetDetailSelection(icons, m, FALSE)
  <2>1. KeepsPlace(m, v) /\ v.detail = FALSE /\ v.xids = <<>>
    <3>1. FALSE \in BOOLEAN /\ FALSE # m.detail
      BY <1>7
    <3>2. /\ KeepsPlace(m, SetDetailSelection(icons, m, FALSE))
          /\ SetDetailSelection(icons, m, FALSE).detail = FALSE
          /\ FALSE /\ Selection(m) # NoIcon => Opens(icons, m, SetDetailSelection(icons, m, FALSE))
          /\ ~FALSE => SetDetailSelection(icons, m, FALSE).xids = <<>>
      BY <1>2, <3>1, SetDetailIs, Zenon
    <3> QED BY <3>2
  <2>2. value => Len(m.xids) < n
    <3>1. Selection(m) # NoIcon
      BY <1>7, SelectionIs DEF Sound, Icons, NoIcon
    <3>2. value => ~(Len(w) >= n)
      BY <1>7, <3>1
    <3> HIDE DEF w
    <3>3. CASE m.xids # <<>>
      <4>1. w = m.xids /\ Len(m.xids) \in Nat
        BY <1>3, <3>3
      <4> QED BY <3>2, <4>1
    <3>4. CASE m.xids = <<>>
      BY <3>4
    <3> QED BY <3>3, <3>4
  <2>3. t = v
    BY <1>1, <1>7
  <2> HIDE DEF t, v
  <2> QED BY <1>7, <2>1, <2>2, <2>3 DEF t
<1> QED BY <1>2, <1>5, <1>6, <1>7

\* Another window is selected, and its row looked up
LEMMA WindowSet ==
  ASSUME NEW m, DOMAIN m = Fields, NEW x \in 0..(Len(m.xids) - 1), m.xids \in Seq(Nat),
         m.rows \in Seq(Nat), m.row \in Nat
  PROVE  LET t == UpdateRowIndex([m EXCEPT !.detail_index = x])
         IN  /\ Glides(m, t) /\ t.detail_index = x /\ t.row \in Nat
             /\ m.rows = <<>> => t.row = m.row
             /\ Laying(m.rows, Len(m.xids)) => InRow(t)
<1> DEFINE n == Len(m.xids)
           u == [m EXCEPT !.detail_index = x]
           R == {r \in DOMAIN u.rows : u.detail_index < TotalAbove(u.rows, r)}
           z == Min(R) - 1
           v == [u EXCEPT !.row = z]
           t == UpdateRowIndex(u)
<1>1. n \in Nat /\ x \in 0..(n - 1)
  OBVIOUS
<1>2. Glides(m, u) /\ u.detail_index = x /\ u.row = m.row /\ u.rows = m.rows /\ u.xids = m.xids /\ DOMAIN u = Fields
  BY DEF Glides, Same, Fields
<1>3. t = IF R = {} THEN u ELSE v
  BY Zenon DEF UpdateRowIndex
<1> HIDE DEF u, z
<1>4. /\ Glides(m, v) /\ v.detail_index = x /\ v.row = z
  BY <1>2 DEF Glides, Same, Fields
<1>5. R # {} => z \in Nat /\ m.rows # <<>>
  <2> SUFFICES ASSUME R # {} PROVE z \in Nat /\ m.rows # <<>>
    OBVIOUS
  <2>1. \A y \in R : y \in Nat /\ y # 0 /\ m.rows # <<>>
    BY <1>2
  <2> HIDE DEF R
  <2>2. R \in SUBSET Nat
    BY <2>1
  <2>3. PICK p \in R : \A y \in R : p <= y
    BY <2>2, Least
  <2>4. Min(R) = p
    BY <2>2, <2>3, MinIs
  <2> QED BY <2>1, <2>4 DEF z
<1>6. Laying(m.rows, n) => InRow(t)
  <2> SUFFICES ASSUME Laying(m.rows, n) PROVE InRow(t)
    OBVIOUS
  <2>1. Laying(u.rows, n) /\ u.detail_index \in 0..(n - 1)
    BY <1>1, <1>2
  <2>2. InRow(UpdateRowIndex(u))
    BY <1>1, <1>2, <2>1, RowFound
  <2> QED BY <2>2
<1> HIDE DEF R, v, t
<1>7. Glides(m, t) /\ t.detail_index = x /\ t.row \in Nat /\ (m.rows = <<>> => t.row = m.row)
  BY <1>2, <1>3, <1>4, <1>5
<1> QED BY <1>6, <1>7 DEF t, u

LEMMA NextWindow ==
  ASSUME NEW m, DOMAIN m = Fields, m.xids \in Seq(Nat), m.rows \in Seq(Nat), m.row \in Nat,
         m.detail_index \in Nat, m.xids # <<>> => m.detail_index < Len(m.xids),
         NEW t, t = NextDetail(m) \/ t = PrevDetail(m)
  PROVE  \/ t = m /\ (~m.detail \/ m.xids = <<>>)
         \/ /\ Glides(m, t) /\ m.xids # <<>> /\ t.detail_index \in 0..(Len(m.xids) - 1) /\ t.row \in Nat
            /\ m.rows = <<>> => t.row = m.row
            /\ Laying(m.rows, Len(m.xids)) => InRow(t)
<1> DEFINE n == Len(m.xids)
           a == (m.detail_index + 1) % n
           b == (IF m.detail_index > 0 THEN m.detail_index ELSE n) - 1
<1>1. CASE ~m.detail \/ m.xids = <<>>
  BY <1>1, Zenon DEF NextDetail, PrevDetail
<1>2. CASE ~(~m.detail \/ m.xids = <<>>)
  <2>1. n \in Nat /\ n # 0 /\ m.detail_index < n
    BY <1>2
  <2>2. a \in 0..(n - 1) /\ b \in 0..(n - 1)
    <3>1. \A c, d \in Nat : d # 0 => (c + 1) % d \in 0..(d - 1)
      OBVIOUS
    <3>2. a \in 0..(n - 1)
      BY <2>1, <3>1
    <3> HIDE DEF a
    <3>3. b \in 0..(n - 1)
      <4> HIDE DEF n
      <4>1. m.detail_index \in Nat
        OBVIOUS
      <4> QED BY <2>1, <4>1
    <3> QED BY <3>2, <3>3
  <2>3. \/ t = UpdateRowIndex([m EXCEPT !.detail_index = a])
        \/ t = UpdateRowIndex([m EXCEPT !.detail_index = b])
    BY <1>2, Zenon DEF NextDetail, PrevDetail
  <2> HIDE DEF a, b
  <2>4. ASSUME NEW x \in 0..(n - 1), t = UpdateRowIndex([m EXCEPT !.detail_index = x])
        PROVE  /\ Glides(m, t) /\ t.detail_index = x /\ t.row \in Nat
               /\ m.rows = <<>> => t.row = m.row
               /\ Laying(m.rows, n) => InRow(t)
    <3>1. LET u == UpdateRowIndex([m EXCEPT !.detail_index = x])
          IN  /\ Glides(m, u) /\ u.detail_index = x /\ u.row \in Nat
              /\ m.rows = <<>> => u.row = m.row
              /\ Laying(m.rows, Len(m.xids)) => InRow(u)
      BY WindowSet, Zenon
    <3> QED BY <2>4, <3>1, Zenon
  <2> QED BY <1>2, <2>2, <2>3, <2>4
<1> QED BY <1>1, <1>2

\* The first window is in the first row
LEMMA FirstInRow ==
  ASSUME NEW m, NEW n \in Nat \ {0}, Laying(m.rows, n), m.detail_index = 0, m.row = 0
  PROVE  InRow(m)
<1>1. m.rows \in Seq(Nat) /\ m.rows # <<>>
  BY DEF Laying
<1>2. 0 < Len(m.rows) /\ 0 + 1 = 1
  BY <1>1
<1>3. m.rows[1] \in Nat /\ m.rows[1] # 0 /\ TotalAbove(m.rows, 0) = 0 /\ TotalAbove(m.rows, 1) = TotalAbove(m.rows, 0) + m.rows[1]
  <2>1. /\ TotalAbove(m.rows, 0) \in Nat /\ m.rows[0 + 1] \in Nat /\ m.rows[0 + 1] # 0
        /\ TotalAbove(m.rows, 0 + 1) = TotalAbove(m.rows, 0) + m.rows[0 + 1]
    BY <1>2, RowsFit
  <2> QED BY <1>1, <2>1, TotalIs
<1>4. m.row < Len(m.rows) /\ TotalAbove(m.rows, m.row) <= m.detail_index /\ m.detail_index < TotalAbove(m.rows, m.row + 1)
  BY <1>2, <1>3
<1> QED BY <1>1, <1>4, InRowIs

\* The row of the first window is the first row
LEMMA RowOfFirst ==
  ASSUME NEW m, NEW n \in Nat \ {0}, Laying(m.rows, n), m.row \in Nat, m.detail_index = 0, InRow(m)
  PROVE  m.row = 0
<1> DEFINE r == m.row
<1>1. m.rows \in Seq(Nat) /\ Len(m.rows) \in Nat
  BY DEF Laying
<1>2. r < Len(m.rows) /\ TotalAbove(m.rows, r) <= 0
  BY <1>1, InRowIs
<1>3. CASE r # 0
  <2>1. r - 1 \in Nat /\ r - 1 < Len(m.rows) /\ (r - 1) + 1 = r
    BY <1>1, <1>2, <1>3
  <2>2. /\ TotalAbove(m.rows, r - 1) \in Nat /\ m.rows[(r - 1) + 1] \in Nat /\ m.rows[(r - 1) + 1] # 0
        /\ TotalAbove(m.rows, (r - 1) + 1) = TotalAbove(m.rows, r - 1) + m.rows[(r - 1) + 1]
    BY <2>1, RowsFit
  <2>3. TotalAbove(m.rows, r) = TotalAbove(m.rows, r - 1) + m.rows[r] /\ m.rows[r] \in Nat /\ m.rows[r] # 0
    BY <2>1, <2>2
  <2> HIDE DEF r
  <2>4. FALSE
    BY <1>2, <2>2, <2>3
  <2> QED BY <2>4
<1> QED BY <1>3

-----------------------------------------------------------------------------
(* What holds of the windows while the switcher is shown *)

\* They are those of the selected application, one of them is selected, and the old view
\* has not laid them out
Windowed(e, m, v) ==
  /\ Sound(m) /\ m.xids \in Seq(Nat) /\ m.rows \in Seq(Nat)
  /\ m.detail_index \in Nat /\ m.row \in Nat
  /\ ToSet(m.applications) \subseteq e.running
  /\ m.detail /\ Selection(m) \notin e.away => ToSet(m.xids) = e.windows[Selection(m)]
  /\ m.xids = <<>> => m.detail_index = 0 /\ m.row = 0
  /\ m.xids # <<>> => m.detail_index < Len(m.xids)
  /\ v = "stale" => m.rows = <<>> /\ m.row = 0

\* The view has laid them out, the selected one in the selected row
Placed(m, v) == v # "stale" /\ m.xids # <<>> => Laying(m.rows, Len(m.xids)) /\ InRow(m)

Looked(e, m, v) == Windowed(e, m, v) /\ Placed(m, v)

\* The view draws t for m, if the windows are not the old ones
Draws(t, m, old, v) == t \in IF m.xids = old THEN {m} ELSE Laid(m, v)

\* What that needs to be so
Drawable(t, m, old, v) ==
  /\ m.xids = old => Placed(m, v)
  /\ m.xids # old /\ m.xids # <<>> /\ v # "stale" =>
        (m.detail_index = 0 /\ m.row = 0) \/ InRow(t)

LEMMA DrawnLooked ==
  ASSUME NEW e, NEW m, DOMAIN m = Fields, NEW v, Windowed(e, m, v),
         NEW old, NEW t, Draws(t, m, old, v), Drawable(t, m, old, v)
  PROVE  Looked(e, t, v) /\ t.xids = m.xids /\ t.detail = m.detail
<1>1. CASE m.xids = old
  BY <1>1 DEF Looked, Draws, Drawable
<1>2. CASE m.xids # old /\ v = "stale"
  <2>1. t = m
    BY <1>2 DEF Laid, Draws
  <2> QED BY <1>2, <2>1 DEF Looked, Placed
<1>3. CASE m.xids # old /\ v # "stale"
  <2> DEFINE n == Len(m.xids)
  <2>1. n \in Nat
    BY DEF Windowed
  <2>2. t \in {[m EXCEPT !.rows = r] : r \in Layouts(n)}
    BY <1>3 DEF Laid, Draws
  <2>3. PICK r \in Layouts(n) : t = [m EXCEPT !.rows = r]
    BY <2>2
  <2>4. Laying(r, n)
    BY <2>1, LayoutsLay
  <2>5. /\ t.rows = r /\ t.applications = m.applications /\ t.index = m.index /\ t.detail = m.detail
        /\ t.detail_index = m.detail_index /\ t.xids = m.xids /\ t.row = m.row
    BY <2>3 DEF Fields
  <2>6. Selection(t) = Selection(m)
    BY <2>5 DEF Selection, At, Size
  <2>7. r \in Seq(Nat)
    BY <2>4 DEF Laying
  <2>8. Sound(t)
    BY <2>5 DEF Sound, Windowed
  <2>9. Windowed(e, t, v)
    BY <1>3, <2>5, <2>6, <2>7, <2>8 DEF Windowed
  <2>10. m.xids # <<>> => Laying(t.rows, n) /\ n \in Nat \ {0}
    BY <2>1, <2>4, <2>5 DEF Windowed
  <2>11. m.xids # <<>> => InRow(t)
    BY <1>3, <2>5, <2>10, FirstInRow DEF Drawable
  <2> QED BY <2>5, <2>9, <2>10, <2>11 DEF Looked, Placed
<1> QED BY <1>1, <1>2, <1>3

\* Another window of the same application
LEMMA GlidesWindowed ==
  ASSUME NEW e, NEW m, NEW v, Windowed(e, m, v), NEW t, Glides(m, t), m.xids # <<>>,
         t.detail_index \in 0..(Len(m.xids) - 1), t.row \in Nat, v = "stale" => t.row = m.row
  PROVE  Windowed(e, t, v)
<1>1. /\ t.applications = m.applications /\ t.index = m.index
      /\ t.detail = m.detail /\ t.xids = m.xids /\ t.rows = m.rows
  BY DEF Glides, Same
<1>2. Selection(t) = Selection(m)
  BY <1>1 DEF Selection, At, Size
<1>3. Len(m.xids) \in Nat
  BY DEF Windowed
<1>4. t.detail_index \in Nat /\ t.detail_index < Len(m.xids)
  BY <1>3
<1>5. Sound(t)
  BY <1>1 DEF Windowed, Sound
<1> QED BY <1>1, <1>2, <1>4, <1>5 DEF Windowed

\* No window is looked at
LEMMA ClosedLooked ==
  ASSUME NEW e, NEW t, NoDetail(t), NEW v, t.rows \in Seq(Nat), v = "stale" => t.rows = <<>>,
         ToSet(t.applications) \subseteq e.running
  PROVE  Looked(e, t, v)
<1>1. t.detail = FALSE /\ t.detail_index = 0 /\ t.xids = <<>> /\ t.row = 0
  BY DEF NoDetail
<1>2. Sound(t)
  BY <1>1 DEF Sound
<1>3. <<>> \in Seq(Nat)
  OBVIOUS
<1>4. Windowed(e, t, v)
  BY <1>1, <1>2, <1>3 DEF Windowed
<1> QED BY <1>1, <1>4 DEF Looked, Placed

\* The windows come under view, the first one selected
LEMMA OpensWindowed ==
  ASSUME NEW e, NEW m, Chosen(m), NEW v, Windowed(e, m, v), ~m.detail,
         NEW t, KeepsPlace(m, t), Opens(e, m, t), t.xids # <<>>
  PROVE  Windowed(e, t, v) /\ t.detail_index = 0 /\ t.row = 0 /\ m.xids = <<>>
<1>1. m.xids = <<>> /\ m.detail_index = 0 /\ m.row = 0
  BY DEF Windowed, Sound
<1>2. t.detail_index = 0 /\ t.row = 0 /\ t.rows = m.rows /\ t.applications = m.applications /\ Same(m, t)
  BY <1>1 DEF KeepsPlace, Same
<1>3. Selection(t) = Selection(m)
  BY <1>2, SameChosen
<1>4. Selection(m) # NoIcon /\ m.applications # <<>> /\ Selection(m) \in Icons
  BY SelectionIs DEF Opens
<1>5. t.detail = TRUE /\ t.xids \in Seq(Nat) /\ (Selection(m) \notin e.away => ToSet(t.xids) = e.windows[Selection(m)])
  BY <1>4 DEF Opens
<1>6. 0 < Len(t.xids)
  BY <1>5
<1>7. Sound(t)
  BY <1>2, <1>4, <1>5 DEF Sound
<1> QED BY <1>1, <1>2, <1>3, <1>5, <1>6, <1>7 DEF Windowed

\* They go from view while the first one is selected
LEMMA ClosesIs ==
  ASSUME NEW e, NEW m, NEW v, Windowed(e, m, v), m.detail_index = 0, m.row = 0,
         NEW t, KeepsPlace(m, t), t.detail = FALSE, t.xids = <<>>
  PROVE  Looked(e, t, v)
<1>1. /\ NoDetail(t) /\ t.rows \in Seq(Nat) /\ (v = "stale" => t.rows = <<>>)
      /\ ToSet(t.applications) \subseteq e.running
  BY DEF NoDetail, KeepsPlace, Same, Windowed
<1> QED BY <1>1, ClosedLooked

LEMMA IndexCloses ==
  ASSUME NEW m, Chosen(m), Sound(m), NEW e
  PROVE  /\ NoDetail(Next(e, m)) /\ Next(e, m).rows = m.rows
         /\ NoDetail(Prev(e, m)) /\ Prev(e, m).rows = m.rows
         /\ \A n : n # m.index => NoDetail(Select(e, m, n)) /\ Select(e, m, n).rows = m.rows
<1> DEFINE X(v) == [m EXCEPT !.index = v]
<1>1. DOMAIN m = Fields
  BY DEF Chosen
<1>2. ASSUME NEW v PROVE DOMAIN X(v) = Fields /\ Sound(X(v)) /\ X(v).rows = m.rows
  <2> DEFINE x == X(v)
  <2>1. DOMAIN x = Fields /\ x.rows = m.rows /\ x.detail = m.detail /\ x.xids = m.xids /\ x.applications = m.applications
    BY <1>1 DEF Fields
  <2> HIDE DEF x
  <2>2. Sound(x)
    BY <2>1 DEF Sound
  <2> QED BY <2>1, <2>2 DEF x
<1>3. ASSUME NEW v PROVE NoDetail(UnsetDetailSelection(e, X(v))) /\ UnsetDetailSelection(e, X(v)).rows = m.rows
  BY <1>2, UnsetIs
<1>4. NoDetail(UnsetDetailSelection(e, m)) /\ UnsetDetailSelection(e, m).rows = m.rows
  BY <1>1, UnsetIs
<1>5. \E v : NextIndex(m) = m \/ NextIndex(m) = X(v)
  BY Zenon DEF NextIndex
<1>6. \E v : PrevIndex(m) = m \/ PrevIndex(m) = X(v)
  BY Zenon DEF PrevIndex
<1>7. NoDetail(Next(e, m)) /\ Next(e, m).rows = m.rows
  BY <1>3, <1>4, <1>5, Zenon DEF Next
<1>8. NoDetail(Prev(e, m)) /\ Prev(e, m).rows = m.rows
  BY <1>3, <1>4, <1>6, Zenon DEF Prev
<1>9. ASSUME NEW n, n # m.index PROVE NoDetail(Select(e, m, n)) /\ Select(e, m, n).rows = m.rows
  <2>1. Select(e, m, n) = UnsetDetailSelection(e, X(n))
    BY <1>9, Zenon DEF Select
  <2> QED BY <1>3, <2>1, Zenon
<1> QED BY <1>7, <1>8, <1>9

-----------------------------------------------------------------------------
(* The user's moves *)

\* No icon is running that the launcher lacks
EnvOK == icons.running \subseteq icons.known /\ icons.windows \in [Icons -> SUBSET Windows]

DetInv == SelInv /\ EnvOK /\ (visible => Looked(icons, model, view))

\* What RowFollows says of a step
FollowsStep ==
  visible /\ model.detail /\ model'.detail /\ model'.rows = model.rows /\ icons' = icons
    /\ model.xids # <<>> /\ InRow(model) => InRow(model')

\* What a move makes of the windows before the view draws them
MoveOK(m) ==
  /\ DOMAIN m = Fields /\ Windowed(icons, m, view)
  /\ Drawable(model', m, model.xids, view)
  /\ model.detail /\ m.detail => m.xids = model.xids

LEMMA StaleIsNoRow ==
  ASSUME NEW e, NEW m, NEW v, Windowed(e, m, v), InRow(m)
  PROVE  v # "stale"
<1> SUFFICES ASSUME v = "stale" PROVE FALSE
  OBVIOUS
<1>1. m.rows = <<>> /\ m.row = 0
  BY DEF Windowed
<1>2. m.row < Len(m.rows)
  BY DEF InRow
<1> QED BY <1>1, <1>2

LEMMA DrawnKeeps ==
  ASSUME DetInv, visible, NEW m, MoveOK(m), icons' = icons, view' = view,
         model' \in IF m.xids = model.xids THEN {m} ELSE Laid(m, view)
  PROVE  Looked(icons', model', view') /\ FollowsStep
<1>1. Looked(icons, model', view) /\ model'.xids = m.xids /\ model'.detail = m.detail
  <2>1. DOMAIN m = Fields /\ Windowed(icons, m, view) /\ Drawable(model', m, model.xids, view)
    BY DEF MoveOK
  <2>2. Draws(model', m, model.xids, view)
    BY DEF Draws
  <2> QED BY <2>1, <2>2, DrawnLooked
<1>2. FollowsStep
  <2> SUFFICES ASSUME model.detail, model'.detail, model.xids # <<>>, InRow(model)
               PROVE  InRow(model')
    BY DEF FollowsStep
  <2>1. view # "stale"
    BY StaleIsNoRow DEF DetInv, Looked
  <2>2. model'.xids # <<>>
    BY <1>1 DEF MoveOK, Drawable
  <2> QED BY <1>1, <2>1, <2>2 DEF Looked, Placed
<1> QED BY <1>1, <1>2

LEMMA MoveKeeps ==
  ASSUME DetInv, visible, NEW m, MoveOK(m), NEW told, Changed(m, told, FALSE), icons' = icons
  PROVE  Looked(icons', model', view') /\ FollowsStep
<1>1. view' = view /\ model' \in IF m.xids = model.xids THEN {m} ELSE Laid(m, view)
  BY DEF Changed
<1> QED BY <1>1, DrawnKeeps

\* Nothing, another window, and none
LEMMA MovesOK ==
  ASSUME DetInv, visible
  PROVE  /\ MoveOK(model)
         /\ \A t : /\ Glides(model, t) /\ model.xids # <<>> /\ t.row \in Nat
                   /\ t.detail_index \in 0..(Len(model.xids) - 1)
                   /\ view = "stale" => t.row = model.row
                   /\ view # "stale" => InRow(t)
                   => MoveOK(t)
         /\ \A t : NoDetail(t) /\ t.rows = model.rows /\ Stays(model, t) => MoveOK(t)
         /\ \A t : ~model.detail /\ KeepsPlace(model, t) /\ Opens(icons, model, t) /\ t.xids # <<>>
                   => MoveOK(t)
<1>1. Chosen(model) /\ DOMAIN model = Fields /\ Windowed(icons, model, view) /\ Placed(model, view)
  BY DEF DetInv, SelInv, Chosen, Looked
<1>2. MoveOK(model)
  BY <1>1 DEF MoveOK, Drawable
<1>3. ASSUME NEW t, Glides(model, t), model.xids # <<>>, t.row \in Nat,
             t.detail_index \in 0..(Len(model.xids) - 1),
             view = "stale" => t.row = model.row, view # "stale" => InRow(t)
      PROVE  MoveOK(t)
  <2>1. Windowed(icons, t, view)
    BY <1>1, <1>3, GlidesWindowed
  <2>2. DOMAIN t = Fields /\ t.xids = model.xids /\ t.rows = model.rows /\ t.detail = model.detail
    BY <1>3 DEF Glides, Same
  <2>3. Placed(t, view)
    BY <1>1, <1>3, <2>2 DEF Placed
  <2> QED BY <2>1, <2>2, <2>3 DEF MoveOK, Drawable
<1>4. ASSUME NEW t, NoDetail(t), t.rows = model.rows, Stays(model, t) PROVE MoveOK(t)
  <2>1. /\ t.rows \in Seq(Nat) /\ (view = "stale" => t.rows = <<>>)
        /\ ToSet(t.applications) \subseteq icons.running /\ DOMAIN t = Fields
    BY <1>1, <1>4 DEF Windowed, Stays, Chosen
  <2>2. Looked(icons, t, view)
    BY <1>4, <2>1, ClosedLooked
  <2>3. t.detail = FALSE /\ t.xids = <<>>
    BY <1>4 DEF NoDetail
  <2> QED BY <2>1, <2>2, <2>3 DEF MoveOK, Drawable, Looked
<1>5. ASSUME NEW t, ~model.detail, KeepsPlace(model, t), Opens(icons, model, t), t.xids # <<>> PROVE MoveOK(t)
  <2>1. Windowed(icons, t, view) /\ t.detail_index = 0 /\ t.row = 0 /\ model.xids = <<>>
    BY <1>1, <1>5, OpensWindowed
  <2>2. DOMAIN t = Fields
    BY <1>5 DEF KeepsPlace, Same
  <2> QED BY <1>5, <2>1, <2>2 DEF MoveOK, Drawable
<1> QED BY <1>2, <1>3, <1>4, <1>5

\* A key that goes on or back by one
LEMMA OneWindowOK ==
  ASSUME DetInv, visible, NEW t, t = NextDetail(model) \/ t = PrevDetail(model)
  PROVE  MoveOK(t)
<1>1. DOMAIN model = Fields /\ Windowed(icons, model, view) /\ Placed(model, view)
  BY DEF DetInv, SelInv, Chosen, Looked
<1>2. \/ t = model
      \/ /\ Glides(model, t) /\ model.xids # <<>> /\ t.detail_index \in 0..(Len(model.xids) - 1) /\ t.row \in Nat
         /\ model.rows = <<>> => t.row = model.row
         /\ Laying(model.rows, Len(model.xids)) => InRow(t)
  BY <1>1, NextWindow DEF Windowed
<1>3. CASE t = model
  BY <1>3, MovesOK
<1>4. CASE t # model
  <2>1. /\ Glides(model, t) /\ model.xids # <<>> /\ t.detail_index \in 0..(Len(model.xids) - 1) /\ t.row \in Nat
        /\ model.rows = <<>> => t.row = model.row
        /\ Laying(model.rows, Len(model.xids)) => InRow(t)
    BY <1>2, <1>4
  <2>2. view = "stale" => t.row = model.row
    BY <1>1, <2>1 DEF Windowed
  <2>3. view # "stale" => InRow(t)
    BY <1>1, <2>1 DEF Placed
  <2> QED BY <2>1, <2>2, <2>3, MovesOK
<1> QED BY <1>3, <1>4

\* Into the details, if there are that many windows
LEMMA OpenOK ==
  ASSUME DetInv, visible, NEW n \in Nat \ {0}, model.detail => n <= Len(model.xids)
  PROVE  /\ MoveOK(Detailed(model, TRUE, n))
         /\ \/ Detailed(model, TRUE, n) = model
            \/ /\ ~model.detail /\ KeepsPlace(model, Detailed(model, TRUE, n))
               /\ Opens(icons, model, Detailed(model, TRUE, n)) /\ Detailed(model, TRUE, n).xids # <<>>
<1> DEFINE t == Detailed(model, TRUE, n)
<1>1. Chosen(model) /\ Sound(model) /\ model.xids \in Seq(Nat) /\ icons.windows \in [Icons -> SUBSET Windows]
  BY DEF DetInv, SelInv, EnvOK, Looked, Windowed
<1>2. \/ Detailed(model, TRUE, n) = model
      \/ /\ TRUE /\ ~model.detail /\ KeepsPlace(model, Detailed(model, TRUE, n))
         /\ Opens(icons, model, Detailed(model, TRUE, n)) /\ Detailed(model, TRUE, n).xids # <<>>
      \/ /\ model.detail /\ KeepsPlace(model, Detailed(model, TRUE, n))
         /\ Detailed(model, TRUE, n).detail = FALSE /\ Detailed(model, TRUE, n).xids = <<>>
         /\ (TRUE => Len(model.xids) < n)
  <2>1. TRUE \in BOOLEAN
    OBVIOUS
  <2> QED BY <1>1, <2>1, DetailedIs, Zenon
<1>3. model.detail => ~(Len(model.xids) < n)
  BY <1>1
<1> HIDE DEF t
<1>4. t = model \/ (~model.detail /\ KeepsPlace(model, t) /\ Opens(icons, model, t) /\ t.xids # <<>>)
  BY <1>2, <1>3 DEF t
<1>5. MoveOK(t)
  BY <1>4, MovesOK
<1> QED BY <1>4, <1>5 DEF t

\* From one application to another
LEMMA SelectionLooks ==
  ASSUME DetInv, NextSelection \/ PrevSelection \/ \E n \in 0..(MaxIcons - 1) : SelectIcon(n)
  PROVE  Looked(icons', model', view') /\ FollowsStep
<1>1. visible /\ icons' = icons /\ Chosen(model) /\ Sound(model)
  BY DEF DetInv, SelInv, Looked, Windowed, NextSelection, PrevSelection, SelectIcon
<1>2. MoveOK(Next(icons, model)) /\ MoveOK(Prev(icons, model))
  <2>1. Stays(model, Next(icons, model)) /\ Stays(model, Prev(icons, model))
    BY <1>1, IndexStays
  <2>2. /\ NoDetail(Next(icons, model)) /\ Next(icons, model).rows = model.rows
        /\ NoDetail(Prev(icons, model)) /\ Prev(icons, model).rows = model.rows
    BY <1>1, IndexCloses
  <2> QED BY <1>1, <2>1, <2>2, MovesOK
<1>3. MoveOK(NextDetail(model)) /\ MoveOK(PrevDetail(model))
  BY <1>1, OneWindowOK
<1>4. ASSUME NEW n \in 0..(MaxIcons - 1), SelectIcon(n) PROVE \E m : MoveOK(m) /\ Changed(m, TRUE, FALSE)
  <2>1. n < Size(model) /\ n # model.index /\ Changed(Select(icons, model, n), TRUE, FALSE)
    BY <1>4 DEF SelectIcon, Moved
  <2>2. n \in Nat /\ Size(model) \in Nat
    BY <1>1, SwitcherAssumption, SelectionIs DEF Size
  <2>3. n \in 0..(Size(model) - 1)
    BY <2>1, <2>2
  <2>4. Stays(model, Select(icons, model, n))
    BY <1>1, <2>3, IndexStays
  <2>5. NoDetail(Select(icons, model, n)) /\ Select(icons, model, n).rows = model.rows
    BY <1>1, <2>1, IndexCloses
  <2>6. MoveOK(Select(icons, model, n))
    BY <1>1, <2>4, <2>5, MovesOK
  <2> QED BY <2>1, <2>6
<1>5. \E m, told : MoveOK(m) /\ Changed(m, told, FALSE)
  <2>1. CASE NextSelection
    BY <1>2, <1>3, <2>1 DEF NextSelection, Moved
  <2>2. CASE PrevSelection
    BY <1>2, <1>3, <2>2 DEF PrevSelection, Moved
  <2> QED BY <1>4, <2>1, <2>2
<1> QED BY <1>1, <1>5, MoveKeeps

\* Into the windows of the application and out again
LEMMA DetailsLook ==
  ASSUME ~RowsStray, DetInv, visible, LeaveDetail \/ OnDetailTimer \/ AltTabNextWindow
  PROVE  Looked(icons', model', view') /\ FollowsStep
<1>1. Chosen(model) /\ Sound(model) /\ Windowed(icons, model, view) /\ icons.windows \in [Icons -> SUBSET Windows]
  BY DEF DetInv, SelInv, EnvOK, Looked, Windowed
<1>2. CASE LeaveDetail
  <2> DEFINE t == SetDetailSelection(icons, model, FALSE)
  <2>1. model.detail = TRUE /\ model.detail_index = 0 /\ model.row = 0
    BY <1>1, <1>2 DEF LeaveDetail, Sound
  <2>2. KeepsPlace(model, t) /\ t.detail = FALSE /\ t.xids = <<>>
    <3>1. FALSE \in BOOLEAN /\ FALSE # model.detail /\ model.detail \in BOOLEAN
      BY <2>1
    <3>2. /\ KeepsPlace(model, SetDetailSelection(icons, model, FALSE))
          /\ SetDetailSelection(icons, model, FALSE).detail = FALSE
          /\ FALSE /\ Selection(model) # NoIcon => Opens(icons, model, SetDetailSelection(icons, model, FALSE))
          /\ ~FALSE => SetDetailSelection(icons, model, FALSE).xids = <<>>
      BY <1>1, <3>1, SetDetailIs, Zenon
    <3> QED BY <3>2
  <2> HIDE DEF t
  <2>3. NoDetail(t) /\ t.rows = model.rows /\ Stays(model, t)
    BY <1>1, <2>1, <2>2, SameStays DEF NoDetail, KeepsPlace
  <2>4. MoveOK(t)
    BY <2>3, MovesOK
  <2>5. Changed(t, FALSE, FALSE) /\ icons' = icons
    BY <1>2 DEF LeaveDetail, t
  <2> QED BY <2>4, <2>5, MoveKeeps
<1>3. CASE OnDetailTimer
  <2>1. icons' = icons /\ view' = view
    BY <1>3 DEF OnDetailTimer
  <2>2. CASE model.detail
    <3>1. model' = model
      BY <1>3, <2>2 DEF OnDetailTimer
    <3>2. MoveOK(model)
      BY MovesOK
    <3> QED BY <2>1, <3>1, <3>2, DrawnKeeps
  <2>3. CASE ~model.detail
    <3> DEFINE m == Detailed(model, TRUE, 2)
    <3>1. model' \in IF m.detail THEN Laid(m, view) ELSE {m}
      BY <1>3, <2>3 DEF OnDetailTimer
    <3>2. MoveOK(m) /\ (m = model \/ (~model.detail /\ KeepsPlace(model, m) /\ Opens(icons, model, m) /\ m.xids # <<>>))
      <4>1. 2 \in Nat \ {0}
        OBVIOUS
      <4> QED BY <2>3, <4>1, OpenOK
    <3> HIDE DEF m
    <3>3. CASE m = model
      BY <2>1, <2>3, <3>1, <3>2, <3>3, DrawnKeeps
    <3>4. CASE m # model
      <4>1. m.detail = TRUE /\ m.xids # <<>> /\ model.xids = <<>>
        BY <1>1, <2>3, <3>2, <3>4 DEF Opens, Sound
      <4> QED BY <2>1, <3>1, <3>2, <4>1, DrawnKeeps
    <3> QED BY <3>3, <3>4
  <2> QED BY <2>2, <2>3
<1>4. CASE AltTabNextWindow
  <2>1. MoveOK(NextDetail(model))
    BY OneWindowOK
  <2>2. ~model.detail => MoveOK(Detailed(model, TRUE, 1))
    <3>1. 1 \in Nat \ {0}
      OBVIOUS
    <3> QED BY <3>1, OpenOK
  <2> QED BY <1>4, <2>1, <2>2, MoveKeeps DEF AltTabNextWindow
<1> QED BY <1>2, <1>3, <1>4

\* By rows
LEMMA RowMovesLook ==
  ASSUME DetInv, StartDetailMode \/ StopDetailMode
  PROVE  Looked(icons', model', view') /\ FollowsStep
<1>1. /\ Chosen(model) /\ Sound(model) /\ Windowed(icons, model, view) /\ Placed(model, view)
      /\ visible /\ icons' = icons /\ icons.windows \in [Icons -> SUBSET Windows] /\ DOMAIN model = Fields
  BY DEF DetInv, SelInv, EnvOK, Chosen, Looked, Windowed, StartDetailMode, StopDetailMode
<1> DEFINE n == Len(model.xids)
           x == model.detail_index
<1>2. n \in Nat /\ x \in Nat /\ model.row \in Nat /\ (model.xids # <<>> <=> n # 0)
  BY <1>1 DEF Windowed
<1>3. ASSUME NEW t,
             \/ t = NextDetailRow(model) /\ x + 1 < n
             \/ t = PrevDetailRow(model) /\ x > 0 /\ model.row < Len(model.rows),
             model.xids # <<>>
      PROVE  MoveOK(t)
  <2>1. Glides(model, t)
    <3>1. Same(model, t)
      BY <1>1, <1>3, WindowsSame
    <3>2. t.detail = model.detail /\ t.xids = model.xids /\ t.rows = model.rows
      <4>1. PICK a, b : t = [model EXCEPT !.detail_index = a, !.row = b] \/ t = [model EXCEPT !.detail_index = a]
        BY <1>3, Zenon DEF NextDetailRow, PrevDetailRow
      <4>2. CASE t = [model EXCEPT !.detail_index = a, !.row = b]
        BY <1>1, <4>2 DEF Fields
      <4>3. CASE t = [model EXCEPT !.detail_index = a]
        BY <1>1, <4>3 DEF Fields
      <4> QED BY <4>1, <4>2, <4>3
    <3> QED BY <3>1, <3>2 DEF Glides
  <2>2. CASE view # "stale"
    <3>1. Laying(model.rows, n) /\ InRow(model) /\ n \in Nat \ {0}
      BY <1>1, <1>2, <1>3, <2>2 DEF Placed
    <3>2. InRow(t) /\ t.row \in Nat /\ t.detail_index \in Nat
      BY <1>1, <1>2, <1>3, <3>1, NextRowIs, PrevRowIs
    <3>3. t.detail_index < n
      BY <2>1, <3>1, <3>2, InRowBelow DEF Glides
    <3>4. t.detail_index \in 0..(n - 1)
      BY <1>2, <3>2, <3>3
    <3> QED BY <1>1, <1>3, <2>1, <2>2, <3>2, <3>4, MovesOK
  <2>3. CASE view = "stale"
    <3>1. model.rows = <<>> /\ model.row = 0
      BY <1>1, <2>3 DEF Windowed
    <3>2. ~(model.row < Len(model.rows)) /\ ~(model.row < Len(model.rows) - 1)
      BY <3>1
    <3>3. t = [model EXCEPT !.detail_index = (x + 1) % n] /\ x + 1 < n
      <4>1. t = NextDetailRow(model) /\ x + 1 < n
        BY <1>3, <3>2
      <4> QED BY <3>2, <4>1, Zenon DEF NextDetailRow
    <3>4. (x + 1) % n \in 0..(n - 1)
      <4>1. \A c, d \in Nat : d # 0 => (c + 1) % d \in 0..(d - 1)
        OBVIOUS
      <4> QED BY <1>2, <1>3, <4>1
    <3>5. t.detail_index \in 0..(n - 1) /\ t.row = model.row
      <4> DEFINE y == (x + 1) % n
      <4> HIDE DEF y
      <4>1. t = [model EXCEPT !.detail_index = y]
        BY <3>3 DEF y
      <4>2. t.detail_index = y /\ t.row = model.row
        BY <1>1, <4>1 DEF Fields
      <4> QED BY <3>4, <4>2 DEF y
    <3> QED BY <1>1, <1>2, <1>3, <2>1, <2>3, <3>5, MovesOK
  <2> QED BY <2>2, <2>3
<1>4. CASE StartDetailMode
  <2>1. CASE model.detail /\ HasNextDetailRow(model)
    <3>1. model.xids # <<>> /\ x + 1 < n
      BY <1>2, <1>4, <2>1 DEF StartDetailMode, HasNextDetailRow
    <3>2. MoveOK(NextDetailRow(model))
      BY <1>3, <3>1
    <3> QED BY <1>1, <1>4, <2>1, <3>2, MoveKeeps DEF StartDetailMode
  <2>2. CASE ~(model.detail /\ HasNextDetailRow(model))
    <3>1. model.detail => 1 <= n
      BY <1>2, <1>4 DEF StartDetailMode
    <3>2. MoveOK(Detailed(model, TRUE, 1))
      <4>1. 1 \in Nat \ {0}
        OBVIOUS
      <4> QED BY <1>1, <3>1, <4>1, OpenOK
    <3> QED BY <1>1, <1>4, <2>2, <3>2, MoveKeeps DEF StartDetailMode
  <2> QED BY <2>1, <2>2
<1>5. CASE StopDetailMode
  <2>1. CASE model.detail /\ HasPrevDetailRow(model)
    <3>1. x > 0 /\ model.row < Len(model.rows) /\ Changed(PrevDetailRow(model), FALSE, FALSE)
      BY <1>5, <2>1 DEF StopDetailMode, HasPrevDetailRow
    <3>2. model.xids # <<>>
      BY <1>1, <1>2, <3>1 DEF Windowed
    <3>3. MoveOK(PrevDetailRow(model))
      BY <1>3, <3>1, <3>2
    <3> QED BY <1>1, <3>1, <3>3, MoveKeeps
  <2>2. CASE ~(model.detail /\ HasPrevDetailRow(model))
    <3> DEFINE t == Detailed(model, FALSE, 1)
    <3>1. \/ Detailed(model, FALSE, 1) = model
          \/ /\ FALSE /\ ~model.detail /\ KeepsPlace(model, Detailed(model, FALSE, 1))
             /\ Opens(icons, model, Detailed(model, FALSE, 1)) /\ Detailed(model, FALSE, 1).xids # <<>>
          \/ /\ model.detail /\ KeepsPlace(model, Detailed(model, FALSE, 1))
             /\ Detailed(model, FALSE, 1).detail = FALSE /\ Detailed(model, FALSE, 1).xids = <<>>
             /\ (FALSE => Len(model.xids) < 1)
      <4>1. FALSE \in BOOLEAN /\ 1 \in Nat \ {0} /\ model.xids \in Seq(Nat)
        BY <1>1 DEF Windowed
      <4> QED BY <1>1, <4>1, DetailedIs, Zenon
    <3>2. Changed(t, FALSE, FALSE)
      BY <1>5, <2>2 DEF StopDetailMode
    <3> HIDE DEF t
    <3>3. t = model \/ (model.detail /\ KeepsPlace(model, t) /\ t.detail = FALSE /\ t.xids = <<>>)
      BY <3>1 DEF t
    <3>4. CASE t = model
      BY <1>1, <3>2, <3>4, MovesOK, MoveKeeps
    <3>5. CASE t # model
      <4>1. model.detail /\ KeepsPlace(model, t) /\ t.detail = FALSE /\ t.xids = <<>>
        BY <3>3, <3>5
      <4>2. x = 0
        BY <1>2, <2>2, <4>1 DEF HasPrevDetailRow
      <4>3. model.row = 0
        <5>1. CASE model.xids = <<>> \/ view = "stale"
          BY <1>1, <5>1 DEF Windowed
        <5>2. CASE ~(model.xids = <<>> \/ view = "stale")
          <6>1. n \in Nat \ {0} /\ Laying(model.rows, n) /\ InRow(model)
            BY <1>1, <1>2, <5>2 DEF Placed
          <6> QED BY <1>2, <4>2, <6>1, RowOfFirst
        <5> QED BY <5>1, <5>2
      <4>4. NoDetail(t) /\ t.rows = model.rows /\ Stays(model, t)
        BY <1>1, <4>1, <4>2, <4>3, SameStays DEF NoDetail, KeepsPlace
      <4>5. MoveOK(t)
        BY <1>1, <4>4, MovesOK
      <4> QED BY <1>1, <3>2, <4>5, MoveKeeps
    <3> QED BY <3>4, <3>5
  <2> QED BY <2>1, <2>2
<1> QED BY <1>4, <1>5

LEMMA LaidXids ==
  ASSUME NEW m, DOMAIN m = Fields, NEW v, NEW t \in Laid(m, v)
  PROVE  t.xids = m.xids
BY DEF Laid, Fields

LEMMA DrawsXids ==
  ASSUME NEW m, DOMAIN m = Fields, NEW v, NEW old, NEW t, Draws(t, m, old, v)
  PROVE  t.xids = m.xids
BY LaidXids DEF Draws

\* A window by the mouse, and back out of no details: here the row may stray
LEMMA StraysLook ==
  ASSUME ~RowsStray, DetInv, AltTabPrevWindow \/ \E n \in 0..(MaxWindows - 1) : SelectWindow(n)
  PROVE  Looked(icons', model', view') /\ FollowsStep
<1>1. /\ Chosen(model) /\ Sound(model) /\ Windowed(icons, model, view) /\ Placed(model, view)
      /\ visible /\ icons' = icons /\ DOMAIN model = Fields
  BY DEF DetInv, SelInv, Chosen, Looked, Windowed, AltTabPrevWindow, SelectWindow
<1>2. view = "stale" \/ (model'.xids = <<>> /\ model'.row = 0) \/ InRow(model')
  BY DEF AltTabPrevWindow, SelectWindow, RowKept
<1>3. CASE AltTabPrevWindow
  <2> DEFINE x == IF model.detail THEN model ELSE Detailed(model, TRUE, 1)
             m == PrevDetail(x)
  <2>1. Changed(m, FALSE, FALSE)
    BY <1>3, Zenon DEF AltTabPrevWindow
  <2>2. \/ x = model
        \/ ~model.detail /\ KeepsPlace(model, x) /\ Opens(icons, model, x) /\ x.xids # <<>>
    <3>1. 1 \in Nat \ {0}
      OBVIOUS
    <3> QED BY <1>1, <3>1, OpenOK
  <2> HIDE DEF x
  <2>3. CASE x = model
    <3>1. MoveOK(PrevDetail(model))
      BY <1>1, OneWindowOK
    <3> QED BY <1>1, <2>1, <2>3, <3>1, MoveKeeps
  <2>4. CASE x # model
    <3>1. ~model.detail /\ KeepsPlace(model, x) /\ Opens(icons, model, x) /\ x.xids # <<>>
      BY <2>2, <2>4
    <3>2. Windowed(icons, x, view) /\ model.xids = <<>> /\ x.detail = TRUE /\ DOMAIN x = Fields
      BY <1>1, <3>1, OpensWindowed DEF Opens, KeepsPlace, Same
    <3>3. /\ Glides(x, m) /\ m.detail_index \in 0..(Len(x.xids) - 1) /\ m.row \in Nat
          /\ x.rows = <<>> => m.row = x.row
      BY <3>1, <3>2, NextWindow DEF Windowed
    <3> HIDE DEF m
    <3>4. view = "stale" => m.row = x.row
      BY <3>2, <3>3 DEF Windowed
    <3>5. Windowed(icons, m, view)
      BY <3>1, <3>2, <3>3, <3>4, GlidesWindowed
    <3>6. m.xids = x.xids /\ DOMAIN m = Fields
      BY <3>3 DEF Glides, Same
    <3>7. model'.xids = m.xids
      <4>1. Draws(model', m, model.xids, view)
        BY <2>1 DEF Changed, Draws
      <4> QED BY <3>6, <4>1, DrawsXids
    <3>8. MoveOK(m)
      BY <1>2, <3>1, <3>2, <3>5, <3>6, <3>7 DEF MoveOK, Drawable
    <3> QED BY <1>1, <2>1, <3>8, MoveKeeps
  <2> QED BY <2>3, <2>4
<1>4. ASSUME NEW n \in 0..(MaxWindows - 1), SelectWindow(n) PROVE Looked(icons', model', view') /\ FollowsStep
  <2> DEFINE m == [model EXCEPT !.detail_index = n]
  <2>1. model.detail /\ n < Len(model.xids) /\ Changed(m, FALSE, FALSE)
    BY <1>4 DEF SelectWindow
  <2>2. Glides(model, m) /\ m.detail_index = n /\ m.row = model.row /\ m.xids = model.xids
    BY <1>1 DEF Glides, Same, Fields
  <2> HIDE DEF m
  <2>3. model' = m
    BY <2>1, <2>2 DEF Changed
  <2>4. model.xids # <<>> /\ n \in 0..(Len(model.xids) - 1) /\ model.row \in Nat
    <3>1. n \in Nat /\ Len(model.xids) \in Nat /\ model.row \in Nat
      BY <1>1, SwitcherAssumption DEF Windowed
    <3> QED BY <2>1, <3>1
  <2>5. view # "stale" => InRow(m)
    BY <1>2, <2>2, <2>3, <2>4
  <2>6. MoveOK(m)
    BY <1>1, <2>2, <2>4, <2>5, MovesOK
  <2> QED BY <1>1, <2>1, <2>6, MoveKeeps
<1> QED BY <1>3, <1>4

-----------------------------------------------------------------------------
(* It is shown *)

LEMMA SelectStaysClosed ==
  ASSUME NEW m, Chosen(m), NoDetail(m), NEW e, NEW n
  PROVE  /\ NoDetail(Select(e, m, n)) /\ Select(e, m, n).rows = m.rows
         /\ NoDetail(SelectClamped(e, m, n)) /\ SelectClamped(e, m, n).rows = m.rows
<1>1. Sound(m)
  BY DEF NoDetail, Sound
<1>2. \A k : NoDetail(Select(e, m, k)) /\ Select(e, m, k).rows = m.rows
  <2>1. \A k : k = m.index => Select(e, m, k) = m
    BY Zenon DEF Select
  <2> QED BY <1>1, <2>1, IndexCloses
<1> DEFINE last == IF n > Size(m) - 1 THEN Size(m) - 1 ELSE n
<1>3. SelectClamped(e, m, n) = Select(e, m, last)
  BY Zenon DEF SelectClamped
<1> HIDE DEF last
<1> QED BY <1>2, <1>3

LEMMA FreshClosed ==
  ASSUME SelInv, NEW current \in BOOLEAN
  PROVE  /\ Chosen(FreshModel(current)) /\ NoDetail(FreshModel(current)) /\ FreshModel(current).rows = <<>>
         /\ ToSet(FreshModel(current).applications) \subseteq icons.running
BY NewChosen DEF SelInv, FreshModel

LEMMA ShowsLook ==
  ASSUME DetInv, Show(TRUE) \/ Show(FALSE) \/ ShowNothing \/ ShowWindows
  PROVE  (visible' => Looked(icons', model', view')) /\ ~visible
<1>1. \A v, t : NoDetail(t) /\ t.rows = <<>> /\ ToSet(t.applications) \subseteq icons.running => Looked(icons, t, v)
  <2>1. <<>> \in Seq(Nat)
    OBVIOUS
  <2> QED BY <2>1, ClosedLooked
<1>2. ASSUME NEW current \in BOOLEAN, Show(current) PROVE Looked(icons', model', view') /\ ~visible
  <2> DEFINE m == FreshModel(current)
  <2>1. m.applications # <<>> /\ model' \in First(m) /\ icons' = icons /\ ~visible
    BY <1>2 DEF Show, ShowWith
  <2>2. Chosen(m) /\ NoDetail(m) /\ m.rows = <<>> /\ ToSet(m.applications) \subseteq icons.running
    BY FreshClosed DEF DetInv
  <2> HIDE DEF m
  <2>3. ASSUME NEW t \in First(m) PROVE NoDetail(t) /\ t.rows = <<>> /\ t.applications = m.applications
    <3>1. t.applications = m.applications
      BY <2>1, <2>2, FirstStays DEF Stays
    <3>2. \E n : t = SelectClamped(icons, m, n) \/ t = Select(icons, m, n)
      BY DEF First
    <3>3. NoDetail(t) /\ t.rows = m.rows
      BY <2>2, <3>2, SelectStaysClosed
    <3> QED BY <2>2, <3>1, <3>3
  <2>4. \A t \in First(m) : \A v : Looked(icons, t, v)
    BY <1>1, <2>2, <2>3
  <2> QED BY <2>1, <2>4
<1>3. ASSUME ShowNothing PROVE ~visible' /\ ~visible
  BY <1>3 DEF ShowNothing
<1>4. ASSUME ShowWindows PROVE Looked(icons', model', view') /\ ~visible
  <2> DEFINE m == FreshModel(TRUE)
             x == SelectClamped(icons, m, StartIndex)
             first == Detailed(x, TRUE, 1)
  <2>1. m.applications # <<>> /\ ShowWith(IF first.detail THEN Laid(first, view') ELSE {first})
    BY <1>4, Zenon DEF ShowWindows
  <2>2. icons' = icons /\ ~visible /\ model' \in IF first.detail THEN Laid(first, view') ELSE {first}
    BY <2>1 DEF ShowWith
  <2>3. Chosen(m) /\ NoDetail(m) /\ m.rows = <<>> /\ ToSet(m.applications) \subseteq icons.running
    BY FreshClosed DEF DetInv
  <2> HIDE DEF m
  <2>4. Stays(m, x) /\ NoDetail(x) /\ x.rows = <<>>
    BY <2>1, <2>3, SwitcherAssumption, IndexStays, SelectStaysClosed
  <2> HIDE DEF x
  <2>5. /\ Chosen(x) /\ Sound(x) /\ x.xids \in Seq(Nat) /\ x.xids = <<>> /\ ~x.detail
        /\ ToSet(x.applications) \subseteq icons.running /\ DOMAIN x = Fields
    <3>1. x.xids = <<>> /\ x.detail = FALSE
      BY <2>4 DEF NoDetail
    <3>2. <<>> \in Seq(Nat)
      OBVIOUS
    <3> QED BY <2>3, <2>4, <3>1, <3>2 DEF Stays, Sound, Chosen
  <2>6. \A v : Looked(icons, x, v)
    BY <1>1, <2>4, <2>5
  <2>7. first = x \/ (KeepsPlace(x, first) /\ Opens(icons, x, first) /\ first.xids # <<>>)
    <3>1. \/ Detailed(x, TRUE, 1) = x
          \/ TRUE /\ ~x.detail /\ KeepsPlace(x, Detailed(x, TRUE, 1)) /\ Opens(icons, x, Detailed(x, TRUE, 1))
             /\ Detailed(x, TRUE, 1).xids # <<>>
          \/ x.detail /\ KeepsPlace(x, Detailed(x, TRUE, 1)) /\ Detailed(x, TRUE, 1).detail = FALSE
             /\ Detailed(x, TRUE, 1).xids = <<>> /\ (TRUE => Len(x.xids) < 1)
      <4>1. TRUE \in BOOLEAN /\ 1 \in Nat \ {0} /\ icons.windows \in [Icons -> SUBSET Windows]
        BY DEF DetInv, EnvOK
      <4> QED BY <2>5, <4>1, DetailedIs, Zenon
    <3> QED BY <2>5, <3>1
  <2> HIDE DEF first
  <2>8. CASE first = x
    BY <2>2, <2>5, <2>6, <2>8
  <2>9. CASE first # x
    <3>1. KeepsPlace(x, first) /\ Opens(icons, x, first) /\ first.xids # <<>> /\ first.detail
      BY <2>7, <2>9 DEF Opens
    <3>2. ASSUME NEW v, NEW t \in Laid(first, v) PROVE Looked(icons, t, v)
      <4>1. Windowed(icons, first, v) /\ first.detail_index = 0 /\ first.row = 0
        BY <2>5, <2>6, <3>1, OpensWindowed DEF Looked
      <4>2. DOMAIN first = Fields
        BY <3>1 DEF KeepsPlace, Same
      <4>3. Draws(t, first, <<>>, v) /\ Drawable(t, first, <<>>, v)
        BY <3>1, <4>1 DEF Draws, Drawable
      <4> QED BY <4>1, <4>2, <4>3, DrawnLooked
    <3> QED BY <2>2, <3>1, <3>2
  <2> QED BY <2>8, <2>9
<1> QED BY <1>2, <1>3, <1>4

-----------------------------------------------------------------------------
(* Icons and their windows *)

\* The windows of the selected application are left alone
Spares(f) ==
  /\ f.away = icons.away
  /\ model.detail /\ Selection(model) \notin icons.away =>
        f.windows[Selection(model)] = icons.windows[Selection(model)]

LEMMA TracksWindowed ==
  ASSUME DetInv, visible, NEW f, Spares(f), NEW t, Chosen(t), Tracks(model, t),
         ToSet(t.applications) \subseteq f.running
  PROVE  Windowed(f, t, view) /\ \A u : Drawable(u, t, model.xids, view)
<1>1. Windowed(icons, model, view) /\ Placed(model, view)
  BY DEF DetInv, Looked
<1>2. CASE NoDetail(t)
  <2>1. t.rows \in Seq(Nat) /\ (view = "stale" => t.rows = <<>>)
    BY <1>1 DEF Tracks, Windowed
  <2>2. Looked(f, t, view) /\ t.detail_index = 0 /\ t.row = 0
    BY <1>2, <2>1, ClosedLooked DEF NoDetail
  <2> QED BY <2>2 DEF Looked, Drawable
<1>3. CASE ~NoDetail(t)
  <2>1. /\ t.rows = model.rows /\ t.detail = model.detail /\ t.detail_index = model.detail_index
        /\ t.xids = model.xids /\ t.row = model.row
        /\ model.detail => t.applications # <<>> /\ Selection(t) = Selection(model)
    BY <1>3 DEF Tracks
  <2>2. Sound(t)
    BY <1>1, <2>1 DEF Sound, Windowed
  <2>3. t.detail /\ Selection(t) \notin f.away => ToSet(t.xids) = f.windows[Selection(t)]
    BY <1>1, <2>1 DEF Windowed, Spares
  <2>4. Windowed(f, t, view)
    BY <1>1, <2>1, <2>2, <2>3 DEF Windowed
  <2>5. InRow(model) => InRow(t)
    BY <2>1 DEF InRow
  <2>6. Placed(t, view)
    BY <1>1, <2>1, <2>5 DEF Placed
  <2> QED BY <2>1, <2>4, <2>6 DEF Drawable
<1> QED BY <1>2, <1>3

\* The model changes with the icons
LEMMA ChangedLooks ==
  ASSUME NEW m, DOMAIN m = Fields, Windowed(icons', m, view),
         Draws(model', m, model.xids, view) => Drawable(model', m, model.xids, view),
         NEW told, NEW updated, Changed(m, told, updated), visible'
  PROVE  Looked(icons', model', view') /\ visible
<1>1. view' = view /\ visible' = visible /\ Draws(model', m, model.xids, view)
  BY DEF Changed, HideModel, Draws
<1> DEFINE f == icons'
<1>2. Windowed(f, m, view)
  OBVIOUS
<1> HIDE DEF f
<1>3. Looked(f, model', view)
  BY <1>1, <1>2, DrawnLooked
<1> QED BY <1>1, <1>3 DEF f

LEMMA TracksLook ==
  ASSUME DetInv, Spares(icons'), NEW m, Chosen(m), Tracks(model, m),
         ToSet(m.applications) \subseteq icons'.running,
         NEW told, NEW updated, Changed(m, told, updated), visible'
  PROVE  Looked(icons', model', view')
<1>1. visible /\ DOMAIN m = Fields
  BY DEF Changed, HideModel, Chosen
<1> DEFINE f == icons'
<1>2. Spares(f) /\ ToSet(m.applications) \subseteq f.running
  OBVIOUS
<1> HIDE DEF f
<1>3. Windowed(f, m, view) /\ \A u : Drawable(u, m, model.xids, view)
  BY <1>1, <1>2, TracksWindowed
<1> QED BY <1>1, <1>3, ChangedLooks DEF f

\* The model does not hear of it
LEMMA UnheardLooks ==
  ASSUME DetInv, Spares(icons'), UNCHANGED <<model, visible, view>>,
         visible => ToSet(model.applications) \subseteq icons'.running
  PROVE  visible' => Looked(icons', model', view')
<1> SUFFICES ASSUME visible PROVE Looked(icons', model, view)
  OBVIOUS
<1>1. Chosen(model) /\ Sound(model) /\ Placed(model, view)
  BY DEF DetInv, SelInv, Looked, Windowed
<1>2. Tracks(model, model)
  BY <1>1 DEF Tracks, Sound
<1> DEFINE f == icons'
<1>3. Spares(f) /\ ToSet(model.applications) \subseteq f.running
  OBVIOUS
<1> HIDE DEF f
<1>4. Windowed(f, model, view)
  BY <1>1, <1>2, <1>3, TracksWindowed
<1> QED BY <1>1, <1>4 DEF Looked, f

LEMMA QuirksLook ==
  ASSUME DetInv, NEW i, NEW new, Spares(new), QuirksChange(i, new),
         visible /\ i \notin Connected(model) => ToSet(model.applications) \subseteq new.running
  PROVE  visible' => Looked(icons', model', view')
<1>1. icons' = new
  BY DEF QuirksChange
<1>2. CASE i \notin Connected(model)
  <2>1. UNCHANGED <<model, visible, view>>
    BY <1>2 DEF QuirksChange
  <2> QED BY <1>1, <1>2, <2>1, UnheardLooks
<1>3. CASE i \in Connected(model)
  <2> SUFFICES ASSUME visible' PROVE Looked(icons', model', view')
    OBVIOUS
  <2> DEFINE m == OnIconQuirksChanged(new, model)
             updated == VerifyApplications(new, model) # model
             told == Selection(m) # Selection(model)
  <2>1. Changed(m, told, updated)
    BY <1>3, Zenon DEF QuirksChange
  <2>2. visible
    BY <2>1 DEF Changed, HideModel
  <2>3. Chosen(model) /\ Sound(model)
    BY <2>2 DEF DetInv, SelInv, Looked, Windowed
  <2>4. Chosen(m) /\ ToSet(m.applications) \subseteq new.running /\ Tracks(model, m)
    <3>1. /\ Chosen(OnIconQuirksChanged(new, model))
          /\ Connected(OnIconQuirksChanged(new, model)) = Connected(model)
          /\ OnIconQuirksChanged(new, model).applications = VerifyApplications(new, model).applications
          /\ \A j \in ToSet(model.applications) : Keeps(model, j) => Keeps(OnIconQuirksChanged(new, model), j)
          /\ ToSet(OnIconQuirksChanged(new, model).applications) \subseteq new.running
          /\ Sound(model) => Tracks(model, OnIconQuirksChanged(new, model))
      BY <2>3, QuirksChosen, Zenon
    <3> QED BY <2>3, <3>1, Zenon
  <2> HIDE DEF m, updated, told
  <2> QED BY <1>1, <2>1, <2>4, TracksLook
<1> QED BY <1>2, <1>3

\* The windows of the selected application are looked at again.  The row of the selected
\* one is only where it should be by RowKept.
LEMMA FreshWindowsLook ==
  ASSUME DetInv, visible, NEW i, i = Selection(model), i \in Icons \ icons.away, model.detail,
         NEW f, f.away = icons.away, f.running = icons.running, f.windows \in [Icons -> SUBSET Windows],
         NEW t, Draws(t, OnIconWindowsUpdated(f, model, i), model.xids, view),
         view = "stale" \/ (t.xids = <<>> /\ t.row = 0) \/ InRow(t)
  PROVE  /\ Windowed(f, OnIconWindowsUpdated(f, model, i), view)
         /\ Drawable(t, OnIconWindowsUpdated(f, model, i), model.xids, view)
<1> DEFINE fresh == UpdateDetailXids(f, model)
           n == Len(fresh.xids)
           last == n - 1
           z == IF last < 0 THEN 0 ELSE last
           moved == [fresh EXCEPT !.detail_index = z]
           m == OnIconWindowsUpdated(f, model, i)
<1>1. /\ Chosen(model) /\ Sound(model) /\ Windowed(icons, model, view) /\ Placed(model, view)
      /\ model.detail \in BOOLEAN /\ Selection(model) # NoIcon
  BY SelectionIs DEF DetInv, SelInv, Looked, Windowed, Sound, Icons, NoIcon
<1>2. KeepsPlace(model, fresh) /\ fresh.detail = model.detail /\ Opens(f, model, fresh)
  <2>1. /\ KeepsPlace(model, UpdateDetailXids(f, model)) /\ UpdateDetailXids(f, model).detail = model.detail
        /\ model.detail /\ Selection(model) # NoIcon => Opens(f, model, UpdateDetailXids(f, model))
        /\ ~model.detail => UpdateDetailXids(f, model).xids = <<>>
    BY <1>1, UpdateXidsIs, Zenon
  <2> QED BY <1>1, <2>1
<1>3. m = IF fresh.detail_index > last THEN moved ELSE fresh
  BY Zenon DEF OnIconWindowsUpdated
<1> HIDE DEF fresh
<1>4. fresh.detail_index = model.detail_index /\ model.detail_index \in Nat /\ n \in Nat /\ DOMAIN fresh = Fields
  BY <1>1, <1>2 DEF KeepsPlace, Same, Opens, Windowed
<1>5. last < 0 <=> n = 0
  BY <1>4
<1>6. z \in Nat /\ (n # 0 => z < n) /\ (n = 0 => z = 0)
  BY <1>4
<1> HIDE DEF z
<1>7. /\ Same(model, m) /\ m.row = model.row /\ m.rows = model.rows /\ m.detail = model.detail /\ m.xids = fresh.xids
      /\ m.detail_index \in Nat /\ (n # 0 => m.detail_index < n) /\ (n = 0 => m.detail_index = 0)
      /\ model.detail_index < n => m.detail_index = model.detail_index
  <2>1. CASE fresh.detail_index > last
    <3>1. m = moved
      BY <1>3, <2>1
    <3>2. ~(model.detail_index < n)
      BY <1>4, <2>1
    <3>3. /\ Same(fresh, moved) /\ moved.row = fresh.row /\ moved.rows = fresh.rows
          /\ moved.detail = fresh.detail /\ moved.xids = fresh.xids /\ moved.detail_index = z
      BY <1>4 DEF Same, Fields
    <3> HIDE DEF m, moved
    <3> QED BY <1>2, <1>6, <3>1, <3>2, <3>3 DEF KeepsPlace, Same
  <2>2. CASE ~(fresh.detail_index > last)
    <3>1. m = fresh
      BY <1>3, <2>2
    <3>2. model.detail_index < n
      BY <1>4, <2>2
    <3>3. n # 0
      BY <1>4, <3>2
    <3> HIDE DEF m
    <3> QED BY <1>2, <1>4, <3>1, <3>2, <3>3 DEF KeepsPlace, Same
  <2> QED BY <2>1, <2>2
<1> HIDE DEF m
<1>8. Selection(m) = Selection(model) /\ DOMAIN m = Fields /\ m.applications = model.applications
  BY <1>1, <1>7, SameChosen DEF Same
<1>9. m.xids \in Seq(Nat) /\ ToSet(m.xids) = f.windows[Selection(m)] /\ (m.xids = <<>> <=> n = 0) /\ n = Len(m.xids)
  BY <1>2, <1>7, <1>8 DEF Opens
<1>10. t.xids = m.xids
  BY <1>8, DrawsXids DEF m
<1>11. m.xids = model.xids => m.detail_index = model.detail_index
  BY <1>1, <1>7, <1>9 DEF Windowed
<1>12. m.xids = <<>> => m.row = 0
  <2> SUFFICES ASSUME m.xids = <<>> PROVE m.row = 0
    OBVIOUS
  <2>1. CASE m.xids = model.xids
    BY <1>1, <1>7, <2>1 DEF Windowed
  <2>2. CASE view = "stale"
    BY <1>1, <1>7, <2>2 DEF Windowed
  <2>3. CASE m.xids # model.xids /\ view # "stale"
    <3>1. t \in Laid(m, view)
      BY <2>3 DEF Draws, m
    <3>2. PICK r \in Layouts(Len(m.xids)) : t = [m EXCEPT !.rows = r]
      BY <2>3, <3>1 DEF Laid
    <3>3. Len(m.xids) = 0
      BY <1>9
    <3>4. Laying(r, 0)
      BY <3>2, <3>3, LayoutsLay
    <3>5. t.rows = r /\ t.row = m.row /\ t.detail_index = m.detail_index
      BY <1>8, <3>2 DEF Fields
    <3>6. m.row \in Nat /\ m.detail_index = 0
      BY <1>1, <1>7, <1>9 DEF Windowed
    <3>7. ~InRow(t)
      <4> SUFFICES ASSUME InRow(t) PROVE FALSE
        OBVIOUS
      <4>1. t.detail_index < 0
        BY <3>4, <3>5, <3>6, InRowBelow
      <4> QED BY <3>5, <3>6, <4>1
    <3> QED BY <2>3, <3>5, <3>7
  <2> QED BY <2>1, <2>2, <2>3
<1>13. Windowed(f, m, view)
  <2>1. Sound(m)
    BY <1>1, <1>7, <1>8 DEF Sound
  <2> QED BY <1>1, <1>7, <1>8, <1>9, <1>12, <2>1 DEF Windowed
<1>14. Drawable(t, m, model.xids, view)
  <2>1. m.xids = model.xids => Placed(m, view)
    BY <1>1, <1>7, <1>11 DEF Placed, InRow
  <2> QED BY <1>10, <2>1 DEF Drawable
<1> QED BY <1>13, <1>14 DEF m

LEMMA WindowsLook ==
  ASSUME ~RowsStray, DetInv, NEW i \in Icons, NEW n \in 0..MaxWindows, WindowsChange(i, n)
  PROVE  EnvOK' /\ (visible' => Looked(icons', model', view')) /\ icons' # icons
<1> DEFINE f == icons'
<1>1. icons' = [icons EXCEPT !.windows[i] = 1..n] /\ i \in icons.running /\ 1..n # icons.windows[i]
  BY DEF WindowsChange
<1>2. DOMAIN icons = IconFields /\ icons.running \subseteq icons.known /\ icons.windows \in [Icons -> SUBSET Windows]
  BY DEF DetInv, SelInv, EnvOK
<1>3. 1..n \in SUBSET Windows
  <2>1. n \in Nat /\ MaxWindows \in Nat /\ n <= MaxWindows
    BY SwitcherAssumption
  <2> QED BY <2>1 DEF Windows
<1>4. /\ f.known = icons.known /\ f.running = icons.running /\ f.away = icons.away
      /\ f.windows = [icons.windows EXCEPT ![i] = 1..n]
  BY <1>1, <1>2 DEF IconFields
<1> HIDE DEF f
<1>5. f.windows \in [Icons -> SUBSET Windows] /\ f.windows[i] = 1..n /\ \A j \in Icons : j # i => f.windows[j] = icons.windows[j]
  BY <1>2, <1>3, <1>4
<1>6. f # icons
  BY <1>1, <1>5
<1>7. EnvOK'
  BY <1>2, <1>4, <1>5 DEF EnvOK, f
<1>8. visible' => Looked(icons', model', view')
  <2>1. visible => Chosen(model) /\ Selection(model) \in ToSet(model.applications) /\ Selection(model) \in Icons
                   /\ ToSet(model.applications) \subseteq f.running
    BY <1>4, SelectionIs DEF DetInv, SelInv, Looked, Windowed
  <2>2. Selection(model) # i \/ i \in icons.away \/ ~model.detail \/ ~visible => Spares(f) \/ ~visible
    BY <1>4, <1>5, <2>1 DEF Spares
  <2>3. CASE i \in icons.away \/ i \notin Connected(model)
    <3>1. UNCHANGED <<model, visible, view>>
      BY <2>3 DEF WindowsChange
    <3>2. CASE ~visible
      BY <3>1, <3>2
    <3>3. CASE visible
      <4>1. i \in icons.away \/ Selection(model) # i
        BY <2>1, <2>3, <3>3 DEF Connected
      <4> QED BY <2>1, <2>2, <3>1, <3>3, <4>1, UnheardLooks DEF f
    <3> QED BY <3>2, <3>3
  <2>4. CASE ~(i \in icons.away \/ i \notin Connected(model))
    <3> SUFFICES ASSUME visible' PROVE Looked(icons', model', view')
      OBVIOUS
    <3> DEFINE m == OnIconWindowsUpdated(f, model, i)
    <3>1. Changed(m, FALSE, TRUE)
      BY <2>4, Zenon DEF WindowsChange, f
    <3>2. visible
      BY <3>1 DEF Changed, HideModel
    <3>3. Chosen(model) /\ Sound(model) /\ DOMAIN model = Fields
      BY <3>2 DEF DetInv, SelInv, Looked, Windowed, Chosen
    <3>4. CASE ~model.detail \/ i # Selection(model)
      <4>1. m = model
        BY <3>4, Zenon DEF OnIconWindowsUpdated
      <4>2. Tracks(model, model)
        BY <3>3 DEF Tracks, Sound
      <4>3. Spares(f)
        BY <2>2, <3>2, <3>4
      <4> HIDE DEF m
      <4> QED BY <2>1, <3>1, <3>2, <3>3, <4>1, <4>2, <4>3, TracksLook DEF f
    <3>5. CASE ~(~model.detail \/ i # Selection(model))
      <4>1. view = "stale" \/ (model'.xids = <<>> /\ model'.row = 0) \/ InRow(model')
        BY DEF WindowsChange, RowKept
      <4>2. ASSUME NEW t, Draws(t, m, model.xids, view),
                   view = "stale" \/ (t.xids = <<>> /\ t.row = 0) \/ InRow(t)
            PROVE  Windowed(f, m, view) /\ Drawable(t, m, model.xids, view)
        <5>1. /\ i = Selection(model) /\ i \in Icons \ icons.away /\ model.detail
              /\ f.away = icons.away /\ f.running = icons.running /\ f.windows \in [Icons -> SUBSET Windows]
          BY <1>4, <1>5, <2>4, <3>5
        <5>2. /\ Windowed(f, OnIconWindowsUpdated(f, model, i), view)
              /\ Drawable(t, OnIconWindowsUpdated(f, model, i), model.xids, view)
          BY <3>2, <4>2, <5>1, FreshWindowsLook, Zenon
        <5> QED BY <5>2
      <4>3. Same(model, m)
        BY <3>3, WindowsSame
      <4> HIDE DEF m
      <4>4. Draws(model', m, model.xids, view)
        BY <3>1 DEF Changed, HideModel, Draws
      <4>5. Windowed(f, m, view) /\ Drawable(model', m, model.xids, view) /\ DOMAIN m = Fields
        BY <4>1, <4>2, <4>3, <4>4 DEF Same
      <4> QED BY <3>1, <4>5, ChangedLooks DEF f
    <3> QED BY <3>4, <3>5
  <2> QED BY <2>3, <2>4
<1> QED BY <1>6, <1>7, <1>8 DEF f

LEMMA IconsLook ==
  ASSUME ~RowsStray, DetInv, IconStep
  PROVE  EnvOK' /\ (visible' => Looked(icons', model', view')) /\ icons' # icons
<1>1. /\ Chosen(model) /\ DOMAIN icons = IconFields
      /\ icons.running \subseteq icons.known /\ icons.windows \in [Icons -> SUBSET Windows]
  BY DEF DetInv, SelInv, EnvOK
<1>2. visible => /\ Sound(model) /\ ToSet(model.applications) \subseteq icons.running
                 /\ Selection(model) \in ToSet(model.applications) /\ Selection(model) \in Icons
                 /\ Connected(model) \subseteq icons.known
  BY SelectionIs DEF DetInv, SelInv, Looked, Windowed
<1>3. {1} \in SUBSET Windows
  BY SwitcherAssumption DEF Windows
<1>4. \A i \in Icons : i \notin icons.running /\ visible => Selection(model) # i
  BY <1>2
<1>5. ASSUME NEW i \in Icons, ApplicationStops(i)
      PROVE  EnvOK' /\ (visible' => Looked(icons', model', view')) /\ icons' # icons
  <2> DEFINE new == [icons EXCEPT !.running = @ \ {i}, !.active = IF @ = i THEN NoIcon ELSE @]
  <2>1. i \in icons.running /\ QuirksChange(i, new)
    BY <1>5, Zenon DEF ApplicationStops
  <2>2. new.running = icons.running \ {i} /\ new.windows = icons.windows /\ new.away = icons.away /\ new.known = icons.known
    BY <1>1 DEF IconFields
  <2> HIDE DEF new
  <2>3. icons' = new
    BY <2>1 DEF QuirksChange
  <2>4. EnvOK' /\ icons' # icons
    BY <1>1, <2>1, <2>2, <2>3 DEF EnvOK
  <2>5. Spares(new)
    BY <2>2 DEF Spares
  <2>6. visible /\ i \notin Connected(model) => ToSet(model.applications) \subseteq new.running
    BY <1>2, <2>2 DEF Connected
  <2> QED BY <2>1, <2>4, <2>5, <2>6, QuirksLook
<1>6. ASSUME NEW i \in Icons, ApplicationStarts(i)
      PROVE  EnvOK' /\ (visible' => Looked(icons', model', view')) /\ icons' # icons
  <2> DEFINE new == [icons EXCEPT !.running = @ \cup {i}, !.windows[i] = {1}]
  <2>1. i \in icons.known \ icons.running /\ QuirksChange(i, new)
    BY <1>6, Zenon DEF ApplicationStarts
  <2>2. /\ new.running = icons.running \cup {i} /\ new.windows = [icons.windows EXCEPT ![i] = {1}]
        /\ new.away = icons.away /\ new.known = icons.known
    BY <1>1 DEF IconFields
  <2> HIDE DEF new
  <2>3. icons' = new
    BY <2>1 DEF QuirksChange
  <2>4. EnvOK' /\ icons' # icons
    BY <1>1, <1>3, <2>1, <2>2, <2>3 DEF EnvOK
  <2>5. CASE visible
    <3>1. Spares(new)
      BY <1>1, <1>2, <1>4, <2>1, <2>2, <2>5 DEF Spares
    <3>2. ToSet(model.applications) \subseteq new.running
      BY <1>2, <2>2, <2>5
    <3> QED BY <2>1, <2>4, <3>1, <3>2, QuirksLook
  <2>6. CASE ~visible
    <3>1. ~visible'
      BY <2>1, <2>6 DEF QuirksChange, Changed, HideModel
    <3> QED BY <2>4, <3>1
  <2> QED BY <2>5, <2>6
<1>7. ASSUME NEW i \in Icons \cup {NoIcon}, ActiveChanges(i)
      PROVE  EnvOK' /\ (visible' => Looked(icons', model', view')) /\ icons' # icons
  <2> DEFINE new == [icons EXCEPT !.active = i]
             one == IF i = NoIcon THEN icons.active ELSE i
  <2>1. icons.active # i /\ QuirksChange(one, new)
    BY <1>7, Zenon DEF ActiveChanges
  <2>2. /\ new.running = icons.running /\ new.windows = icons.windows
        /\ new.away = icons.away /\ new.known = icons.known /\ new.active = i
    BY <1>1 DEF IconFields
  <2> HIDE DEF new, one
  <2>3. icons' = new
    BY <2>1 DEF QuirksChange
  <2>4. EnvOK' /\ icons' # icons
    BY <1>1, <2>1, <2>2, <2>3 DEF EnvOK
  <2>5. Spares(new)
    BY <2>2 DEF Spares
  <2>6. visible => ToSet(model.applications) \subseteq new.running
    BY <1>2, <2>2
  <2> QED BY <2>1, <2>4, <2>5, <2>6, QuirksLook
<1>8. ASSUME NEW i \in Icons, LauncherAddsIcon(i)
      PROVE  EnvOK' /\ (visible' => Looked(icons', model', view')) /\ icons' # icons
  <2> DEFINE f == icons'
  <2>1. i \notin icons.known /\ f = [icons EXCEPT !.known = @ \cup {i}, !.running = @ \cup {i}, !.windows[i] = {1}]
    BY <1>8 DEF LauncherAddsIcon
  <2> HIDE DEF f
  <2>2. /\ f.running = icons.running \cup {i} /\ f.windows = [icons.windows EXCEPT ![i] = {1}]
        /\ f.away = icons.away /\ f.known = icons.known \cup {i}
    BY <1>1, <2>1 DEF IconFields
  <2>3. EnvOK' /\ f # icons
    <3>1. f.windows \in [Icons -> SUBSET Windows]
      BY <1>1, <1>3, <2>2
    <3>2. f.running \subseteq f.known /\ f.known # icons.known
      BY <1>1, <2>1, <2>2
    <3> QED BY <3>1, <3>2 DEF EnvOK, f
  <2>4. CASE ~visible
    <3>1. ~visible'
      BY <1>8, <2>4 DEF LauncherAddsIcon
    <3> QED BY <2>3, <3>1 DEF f
  <2>5. CASE visible
    <3> SUFFICES ASSUME visible' PROVE Looked(icons', model', view')
      BY <2>3 DEF f
    <3> DEFINE m == AddIcon(f, model, i)
    <3>1. Changed(m, FALSE, TRUE)
      BY <1>8, <2>5, Zenon DEF LauncherAddsIcon, f
    <3>2. i \notin Connected(model) /\ i \notin icons.running
      BY <1>1, <1>2, <2>1, <2>5
    <3>3. /\ Chosen(m) /\ Tracks(model, m)
          /\ ToSet(m.applications) \subseteq ToSet(model.applications) \cup f.running
      <4>1. /\ Chosen(AddIcon(f, model, i)) /\ Connected(AddIcon(f, model, i)) = Connected(model) \cup {i}
            /\ \A j : j # i /\ Keeps(model, j) => Keeps(AddIcon(f, model, i), j)
            /\ ToSet(AddIcon(f, model, i).applications) \subseteq ToSet(model.applications) \cup f.running
            /\ Sound(model) => Tracks(model, AddIcon(f, model, i))
        BY <1>1, <3>2, AddChosen, Zenon
      <4> QED BY <1>2, <2>5, <4>1, Zenon
    <3> HIDE DEF m
    <3>4. Spares(f) /\ ToSet(m.applications) \subseteq f.running
      BY <1>1, <1>2, <1>4, <2>2, <2>5, <3>2, <3>3 DEF Spares
    <3> QED BY <3>1, <3>3, <3>4, TracksLook DEF f
  <2> QED BY <2>4, <2>5
<1>9. ASSUME NEW i \in Icons, LauncherRemovesIcon(i)
       PROVE  EnvOK' /\ (visible' => Looked(icons', model', view')) /\ icons' # icons
  <2> DEFINE f == icons'
  <2>1. i \in icons.known \ icons.running /\ f = [icons EXCEPT !.known = @ \ {i}]
    BY <1>9 DEF LauncherRemovesIcon
  <2> HIDE DEF f
  <2>2. f.running = icons.running /\ f.windows = icons.windows /\ f.away = icons.away /\ f.known = icons.known \ {i}
    BY <1>1, <2>1 DEF IconFields
  <2>3. EnvOK' /\ f # icons
    BY <1>1, <2>1, <2>2 DEF EnvOK, f
  <2>4. CASE ~visible
    <3>1. ~visible'
      BY <1>9, <2>4 DEF LauncherRemovesIcon
    <3> QED BY <2>3, <3>1 DEF f
  <2>5. CASE visible
    <3> SUFFICES ASSUME visible' PROVE Looked(icons', model', view')
      BY <2>3 DEF f
    <3> DEFINE m == RemoveIcon(f, model, i)
               updated == Contains(model.applications, i)
    <3>1. Changed(m, FALSE, updated)
      BY <1>9, <2>5, Zenon DEF LauncherRemovesIcon, f
    <3>2. Chosen(m) /\ Tracks(model, m) /\ ToSet(m.applications) \subseteq ToSet(model.applications)
      <4>1. /\ Chosen(RemoveIcon(f, model, i)) /\ Connected(RemoveIcon(f, model, i)) = Connected(model) \ {i}
            /\ ~Contains(model.applications, i) => RemoveIcon(f, model, i).applications = model.applications
            /\ \A j : Keeps(model, j) => Keeps(RemoveIcon(f, model, i), j)
            /\ ToSet(RemoveIcon(f, model, i).applications) \subseteq ToSet(model.applications)
            /\ Sound(model) => Tracks(model, RemoveIcon(f, model, i))
        BY <1>1, RemoveChosen, Zenon
      <4> QED BY <1>2, <2>5, <4>1, Zenon
    <3> HIDE DEF m, updated
    <3>3. Spares(f) /\ ToSet(m.applications) \subseteq f.running
      BY <1>2, <2>2, <2>5, <3>2 DEF Spares
    <3> QED BY <3>1, <3>2, <3>3, TracksLook DEF f
  <2> QED BY <2>4, <2>5
<1> QED BY <1>5, <1>6, <1>7, <1>8, <1>9, WindowsLook DEF IconStep

LEMMA InitLooks == Init => DetInv
<1> SUFFICES ASSUME Init PROVE DetInv
  OBVIOUS
<1>1. icons.known = Icons /\ icons.running = Icons /\ icons.windows = [i \in Icons |-> Windows] /\ visible = FALSE
  BY DEF Init, Windows
<1>2. EnvOK
  BY <1>1 DEF EnvOK
<1> QED BY <1>1, <1>2, InitInv DEF DetInv

LEMMA StepLooks ==
  ASSUME ~RowsStray, DetInv, [NextStep]_vars
  PROVE  DetInv' /\ (FollowsStep \/ UNCHANGED vars)
<1>1. SelInv'
  BY StepInv DEF DetInv
<1>2. icons' = icons /\ EnvOK => EnvOK'
  BY DEF EnvOK
<1>3. EnvOK
  BY DEF DetInv
<1>4. ~visible => FollowsStep
  BY DEF FollowsStep
<1>5. CASE (\E current \in BOOLEAN : Show(current)) \/ ShowNothing \/ ShowWindows
  <2>1. icons' = icons
    BY <1>5, ShowKeeps DEF DetInv
  <2>2. (visible' => Looked(icons', model', view')) /\ ~visible
    BY <1>5, ShowsLook
  <2> QED BY <1>1, <1>2, <1>3, <1>4, <2>1, <2>2 DEF DetInv
<1>6. CASE Hide \/ FadeFinished
  <2>1. icons' = icons
    BY <1>6 DEF Hide, FadeFinished
  <2>2. (visible' => visible /\ UNCHANGED <<model, view>>) /\ (visible => model' = model)
    BY <1>6 DEF Hide, HideModel, FadeFinished
  <2>3. FollowsStep
    BY <2>2 DEF FollowsStep
  <2>4. visible' => Looked(icons', model', view')
    BY <2>1, <2>2 DEF DetInv
  <2> QED BY <1>1, <1>2, <1>3, <2>1, <2>3, <2>4 DEF DetInv
<1>7. CASE NextSelection \/ PrevSelection \/ \E n \in 0..(MaxIcons - 1) : SelectIcon(n)
  <2>1. icons' = icons
    BY <1>7, SelectionMoves DEF DetInv
  <2> QED BY <1>1, <1>2, <1>3, <1>7, <2>1, SelectionLooks DEF DetInv
<1>8. CASE \/ \E n \in 0..(MaxWindows - 1) : SelectWindow(n)
           \/ LeaveDetail \/ OnDetailTimer \/ StartDetailMode \/ StopDetailMode
           \/ AltTabNextWindow \/ AltTabPrevWindow
  <2>1. icons' = icons
    BY <1>8, WindowMoves DEF DetInv
  <2>2. CASE visible
    <3>1. Looked(icons', model', view') /\ FollowsStep
      BY <1>8, <2>2, StraysLook, DetailsLook, RowMovesLook
    <3> QED BY <1>1, <1>2, <1>3, <2>1, <3>1 DEF DetInv
  <2>3. CASE ~visible
    <3>1. OnDetailTimer
      BY <1>8, <2>3 DEF SelectWindow, LeaveDetail, StartDetailMode, StopDetailMode,
                        AltTabNextWindow, AltTabPrevWindow
    <3>2. ~visible'
      BY <2>3, <3>1 DEF OnDetailTimer
    <3> QED BY <1>1, <1>2, <1>3, <1>4, <2>1, <2>3, <3>2 DEF DetInv
  <2> QED BY <2>2, <2>3
<1>9. CASE IconStep
  <2>1. EnvOK' /\ (visible' => Looked(icons', model', view')) /\ icons' # icons
    BY <1>9, IconsLook
  <2> QED BY <1>1, <2>1 DEF DetInv, FollowsStep
<1>10. CASE UNCHANGED vars
  BY <1>10 DEF vars, DetInv, SelInv, EnvOK
<1> QED BY <1>5, <1>6, <1>7, <1>8, <1>9, <1>10 DEF NextStep, IconStep

-----------------------------------------------------------------------------
(* Theorems *)

\* In every state what is shown has applications, each of them once, all of them in the
\* launcher, and the index of the selected one is one of theirs: the applications and the
\* index of SwitcherModel.cpp, which every signal of an icon may change.
THEOREM SwitcherInvariant == Spec => []SelInv
<1>1. SelInv /\ [NextStep]_vars => SelInv'
  BY StepInv
<1> QED BY <1>1, InitInv, PTL DEF Spec

\* A visible switcher has a selected application, whichever application closed
\* (SwitcherModel::Selection, which the controller and the view use without a check).
THEOREM SelectionValidHolds == Spec => []SelectionValid
<1>1. SelInv => SelectionValid
  <2> SUFFICES ASSUME SelInv, visible PROVE Selection(model) # NoIcon
    BY DEF SelectionValid
  <2>1. Chosen(model) /\ model.applications # <<>>
    BY DEF SelInv
  <2> QED BY <2>1, SelectionIs
<1> QED BY <1>1, SwitcherInvariant, PTL

\* Nothing but the user takes the selection from an application that stays in the
\* switcher: the index moves with its icon in AddIcon, RemoveIcon and VerifyApplications.
THEOREM SelectionKeptHolds == Spec => SelectionKept
<1>1. SelInv /\ [NextStep]_vars =>
        [icons' # icons /\ visible /\ Contains(model'.applications, Selection(model))
           => Selection(model') = Selection(model)]_vars
  BY StepInv DEF KeptStep
<1> QED BY <1>1, SwitcherInvariant, PTL DEF Spec, SelectionKept

\* Where the row does not stray from its window, the windows to choose from are those of
\* the selected application and the chosen one is one of them, through every window that
\* opens or closes and every key (OnIconWindowsUpdated, UpdateDetailXids and the moves of
\* SwitcherModel.cpp).
THEOREM DetailCurrentHolds ==
  ASSUME ~RowsStray
  PROVE  Spec => []DetailCurrent
<1>1. Init => DetInv
  BY InitLooks
<1>2. DetInv /\ [NextStep]_vars => DetInv'
  BY StepLooks
<1>3. DetInv => DetailCurrent
  BY DEF DetInv, DetailCurrent, Looked, Windowed
<1> QED BY <1>1, <1>2, <1>3, PTL DEF Spec

\* Where the row does not stray by a layout or by the mouse, no key takes it from its
\* window: the halves of NextDetailRow and PrevDetailRow land in the row they name, for
\* every number of windows and every layout of them.
THEOREM RowFollowsHolds ==
  ASSUME ~RowsStray
  PROVE  Spec => RowFollows
<1>1. Init => DetInv
  BY InitLooks
<1>2. DetInv /\ [NextStep]_vars =>
        DetInv' /\ [visible /\ model.detail /\ model'.detail /\ model'.rows = model.rows /\ icons' = icons
                      /\ model.xids # <<>> /\ InRow(model) => InRow(model')]_vars
  BY StepLooks DEF FollowsStep
<1> QED BY <1>1, <1>2, PTL DEF Spec, RowFollows
=============================================================================
