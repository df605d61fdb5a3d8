--------------------------- MODULE OverlaysProofs ---------------------------
(* What holds of the dash and the HUD for every number of monitors and of messages on
   their way: that they are never both open, what the rest of the shell knows of them,
   and where the input goes. *)
EXTENDS Overlays, WellFoundedInduction, TLAPS

-----------------------------------------------------------------------------
(* Induction along a sequence.  The theorems on induction of the library are about
   operators, this one is about a set. *)

LEMMA Least ==
  ASSUME NEW T \in SUBSET Nat, T # {}
  PROVE  \E x \in T : \A y \in T : x <= y
<1> DEFINE R == OpToRel(<, Nat)
<1>1. IsWellFoundedOn(R, Nat)
  BY NatLessThanWellFounded
<1> HIDE DEF R
<1>2. PICK x \in T : \A y \in T : ~ (<<y, x>> \in R)
  BY <1>1, WFMin
<1>3. \A y \in T : y < x => <<y, x>> \in R
  BY <1>2 DEF R, OpToRel
<1>4. x \in Nat /\ \A y \in T : y \in Nat /\ ~(y < x)
  BY <1>2, <1>3
<1>5. \A m, n \in Nat : ~(n < m) => m <= n
  OBVIOUS
<1> QED BY <1>4, <1>5

\* What holds at the beginning and is kept by every step holds at the end.
LEMMA ToTheEnd ==
  ASSUME NEW n \in Nat, NEW G, 0 \in G, \A k \in 0..(n - 1) : k \in G => k + 1 \in G
  PROVE  n \in G
<1> DEFINE T == {k \in 0..n : k \notin G}
<1>1. SUFFICES ASSUME n \notin G PROVE FALSE
  OBVIOUS
<1>2. T \in SUBSET Nat /\ n \in T
  BY <1>1
<1>3. PICK x \in T : \A y \in T : x <= y
  BY <1>2, Least
<1>4. x \in 0..n /\ x \notin G /\ x # 0
  BY <1>3
<1>5. x - 1 \in 0..(n - 1) /\ x - 1 \in 0..n
  BY <1>4
<1>6. x - 1 \notin G
  <2>1. (x - 1) + 1 = x
    BY <1>4
  <2> QED BY <1>4, <1>5, <2>1
<1>7. x - 1 \in T
  BY <1>5, <1>6
<1>8. x <= x - 1
  BY <1>3, <1>7
<1> QED BY <1>4, <1>8

-----------------------------------------------------------------------------
(* What FoldLeft goes through.  Its states are those of a recursion over the sets of
   positions, of which only 1..k are met. *)

LEMMA MaxIs ==
  ASSUME NEW S \in SUBSET Nat, NEW m \in S, \A x \in S : m >= x
  PROVE  Max(S) = m
<1>1. \A x \in S : (\A y \in S : x >= y) => x = m
  OBVIOUS
<1> QED BY <1>1 DEF Max

Iterates(f, start, q) ==
  f = [x \in SUBSET (1..Len(q)) |-> IF x = {} THEN start ELSE Deliver(f[x \ {Max(x)}], q[Max(x)])]

LEMMA DeliverIter ==
  ASSUME NEW start, NEW q \in Seq(Messages)
  PROVE  \E f : Iterates(f, start, q)
<1> DEFINE n == Len(q)
           Iter(f, k) == f = [x \in SUBSET (1..k) |-> IF x = {} THEN start ELSE Deliver(f[x \ {Max(x)}], q[Max(x)])]
           G == {k \in 0..n : \E f : Iter(f, k)}
<1>1. n \in Nat
  OBVIOUS
<1>2. 0 \in G
  <2> DEFINE f == [x \in SUBSET (1..0) |-> start]
  <2>1. \A x \in SUBSET (1..0) : x = {}
    OBVIOUS
  <2>2. Iter(f, 0)
    BY <2>1
  <2> HIDE DEF Iter, f
  <2> QED BY <1>1, <2>2
<1>3. ASSUME NEW k \in 0..(n - 1), k \in G PROVE k + 1 \in G
  <2>1. k + 1 \in 0..n /\ k \in Nat
    BY <1>1
  <2>2. PICK g : Iter(g, k)
    BY <1>3
  <2> DEFINE f == [x \in SUBSET (1..k + 1) |-> IF k + 1 \in x THEN Deliver(g[x \ {k + 1}], q[k + 1]) ELSE g[x]]
             h == [x \in SUBSET (1..k + 1) |-> IF x = {} THEN start ELSE Deliver(f[x \ {Max(x)}], q[Max(x)])]
  <2>3. ASSUME NEW x \in SUBSET (1..k + 1) PROVE f[x] = h[x]
    <3>1. CASE k + 1 \in x
      <4>1. Max(x) = k + 1
        <5>1. x \in SUBSET Nat /\ \A y \in x : k + 1 >= y
          BY <2>1
        <5> QED BY <3>1, <5>1, MaxIs
      <4>2. x \ {k + 1} \in SUBSET (1..k + 1) /\ k + 1 \notin x \ {k + 1}
        OBVIOUS
      <4>3. f[x \ {k + 1}] = g[x \ {k + 1}]
        BY <4>2
      <4> QED BY <3>1, <4>1, <4>3
    <3>2. CASE x = {}
      <4>1. x \in SUBSET (1..k)
        BY <3>2
      <4>2. g[x] = start
        BY <2>2, <3>2, <4>1
      <4> QED BY <3>2, <4>2
    <3>3. CASE x # {} /\ k + 1 \notin x
      <4>1. x \in SUBSET (1..k)
        BY <2>1, <3>3
      <4>2. g[x] = Deliver(g[x \ {Max(x)}], q[Max(x)])
        BY <2>2, <3>3, <4>1
      <4>3. x \ {Max(x)} \in SUBSET (1..k + 1) /\ k + 1 \notin x \ {Max(x)}
        BY <3>3
      <4>4. f[x \ {Max(x)}] = g[x \ {Max(x)}]
        BY <4>3
      <4> QED BY <3>3, <4>2, <4>4
    <3> QED BY <3>1, <3>2, <3>3
  <2>4. f = h
    BY <2>3
  <2>5. Iter(f, k + 1)
    BY <2>4
  <2> HIDE DEF Iter
  <2> QED BY <2>1, <2>5
<1> HIDE DEF G
<1>4. n \in G
  BY <1>1, <1>2, <1>3, ToTheEnd
<1>5. PICK f : Iter(f, n)
  BY <1>4 DEF G
<1>6. Iterates(f, start, q)
  BY <1>5 DEF Iterates
<1> QED BY <1>6

AllDelivered(s, q) == FoldLeft(Deliver, s, q)

\* The states in between, when all messages of q are delivered
LEMMA DeliverStates ==
  ASSUME NEW start, NEW q \in Seq(Messages)
  PROVE  \E states : /\ states[0] = start /\ states[Len(q)] = AllDelivered(start, q)
                     /\ \A k \in 0..(Len(q) - 1) : states[k + 1] = Deliver(states[k], q[k + 1])
<1> DEFINE n == Len(q)
           iter == CHOOSE f : Iterates(f, start, q)
           states == [k \in 0..n |-> iter[1..k]]
<1>1. n \in Nat /\ DOMAIN q = 1..n
  OBVIOUS
<1>2. iter = [x \in SUBSET (1..n) |-> IF x = {} THEN start ELSE Deliver(iter[x \ {Max(x)}], q[Max(x)])]
  <2>1. Iterates(iter, start, q)
    BY DeliverIter
  <2> HIDE DEF iter
  <2> QED BY <2>1 DEF Iterates
<1>3. AllDelivered(start, q) = iter[1..n]
  BY <1>1, Zenon DEF AllDelivered, FoldLeft, MapThenFoldSet, Iterates
<1> HIDE DEF iter
<1>4. states[0] = start
  <2>1. 1..0 = {}
    OBVIOUS
  <2> QED BY <1>1, <1>2, <2>1
<1>5. ASSUME NEW k \in 0..(n - 1) PROVE states[k + 1] = Deliver(states[k], q[k + 1])
  <2>1. k \in 0..n /\ k + 1 \in 0..n /\ 1..(k + 1) \in SUBSET (1..n) /\ 1..(k + 1) # {}
    <3>1. k + 1 \in 1..(k + 1) /\ k \in Nat /\ k + 1 <= n /\ k \in 0..n /\ k + 1 \in 0..n
      BY <1>1
    <3>2. \A x \in 1..(k + 1) : x \in 1..n
      BY <1>1, <3>1
    <3>3. 1..(k + 1) \in SUBSET (1..n)
      BY <3>2
    <3> QED BY <3>1, <3>3
  <2>2. Max(1..(k + 1)) = k + 1
    BY <1>1, MaxIs
  <2>3. 1..(k + 1) \ {k + 1} = 1..k
    BY <1>1
  <2>4. iter[1..(k + 1)] = Deliver(iter[1..k], q[k + 1])
    BY <1>2, <2>1, <2>2, <2>3
  <2> QED BY <2>1, <2>4
<1>6. states[n] = AllDelivered(start, q)
  BY <1>1, <1>3
<1> HIDE DEF states
<1> QED BY <1>4, <1>5, <1>6

CallIterates(f, start, w, late) ==
  f = [x \in SUBSET (1..Len(w)) |-> IF x = {} THEN start ELSE Called(f[x \ {Max(x)}], w[Max(x)], late)]

LEMMA CalledIter ==
  ASSUME NEW start, NEW w \in Seq(OverlayNames), NEW late
  PROVE  \E f : CallIterates(f, start, w, late)
<1> DEFINE n == Len(w)
           Iter(f, k) == f = [x \in SUBSET (1..k) |-> IF x = {} THEN start ELSE Called(f[x \ {Max(x)}], w[Max(x)], late)]
           G == {k \in 0..n : \E f : Iter(f, k)}
<1>1. n \in Nat
  OBVIOUS
<1>2. 0 \in G
  <2> DEFINE f == [x \in SUBSET (1..0) |-> start]
  <2>1. \A x \in SUBSET (1..0) : x = {}
    OBVIOUS
  <2>2. Iter(f, 0)
    BY <2>1
  <2> HIDE DEF Iter, f
  <2> QED BY <1>1, <2>2
<1>3. ASSUME NEW k \in 0..(n - 1), k \in G PROVE k + 1 \in G
  <2>1. k + 1 \in 0..n /\ k \in Nat
    BY <1>1
  <2>2. PICK g : Iter(g, k)
    BY <1>3
  <2> DEFINE f == [x \in SUBSET (1..k + 1) |-> IF k + 1 \in x THEN Called(g[x \ {k + 1}], w[k + 1], late) ELSE g[x]]
             h == [x \in SUBSET (1..k + 1) |-> IF x = {} THEN start ELSE Called(f[x \ {Max(x)}], w[Max(x)], late)]
  <2>3. ASSUME NEW x \in SUBSET (1..k + 1) PROVE f[x] = h[x]
    <3>1. CASE k + 1 \in x
      <4>1. Max(x) = k + 1
        <5>1. x \in SUBSET Nat /\ \A y \in x : k + 1 >= y
          BY <2>1
        <5> QED BY <3>1, <5>1, MaxIs
      <4>2. x \ {k + 1} \in SUBSET (1..k + 1) /\ k + 1 \notin x \ {k + 1}
        OBVIOUS
      <4>3. f[x \ {k + 1}] = g[x \ {k + 1}]
        BY <4>2
      <4> QED BY <3>1, <4>1, <4>3
    <3>2. CASE x = {}
      <4>1. x \in SUBSET (1..k)
        BY <3>2
      <4>2. g[x] = start
        BY <2>2, <3>2, <4>1
      <4> QED BY <3>2, <4>2
    <3>3. CASE x # {} /\ k + 1 \notin x
      <4>1. x \in SUBSET (1..k)
        BY <2>1, <3>3
      <4>2. g[x] = Called(g[x \ {Max(x)}], w[Max(x)], late)
        BY <2>2, <3>3, <4>1
      <4>3. x \ {Max(x)} \in SUBSET (1..k + 1) /\ k + 1 \notin x \ {Max(x)}
        BY <3>3
      <4>4. f[x \ {Max(x)}] = g[x \ {Max(x)}]
        BY <4>3
      <4> QED BY <3>3, <4>2, <4>4
    <3> QED BY <3>1, <3>2, <3>3
  <2>4. f = h
    BY <2>3
  <2>5. Iter(f, k + 1)
    BY <2>4
  <2> HIDE DEF Iter
  <2> QED BY <2>1, <2>5
<1> HIDE DEF G
<1>4. n \in G
  BY <1>1, <1>2, <1>3, ToTheEnd
<1>5. PICK f : Iter(f, n)
  BY <1>4 DEF G
<1>6. CallIterates(f, start, w, late)
  BY <1>5 DEF CallIterates
<1> QED BY <1>6

\* The states in between, when all that wait are called
LEMMA CalledStates ==
  ASSUME NEW start, NEW w \in Seq(OverlayNames), NEW late
  PROVE  \E states : /\ states[0] = start /\ states[Len(w)] = AllCalled(start, w, late)
                     /\ \A k \in 0..(Len(w) - 1) : states[k + 1] = Called(states[k], w[k + 1], late)
<1> DEFINE n == Len(w)
           iter == CHOOSE f : CallIterates(f, start, w, late)
           states == [k \in 0..n |-> iter[1..k]]
<1>1. n \in Nat /\ DOMAIN w = 1..n
  OBVIOUS
<1>2. iter = [x \in SUBSET (1..n) |-> IF x = {} THEN start ELSE Called(iter[x \ {Max(x)}], w[Max(x)], late)]
  <2>1. CallIterates(iter, start, w, late)
    BY CalledIter
  <2> HIDE DEF iter
  <2> QED BY <2>1 DEF CallIterates
<1>3. AllCalled(start, w, late) = iter[1..n]
  BY <1>1, Zenon DEF AllCalled, FoldLeft, MapThenFoldSet, CallIterates
<1> HIDE DEF iter
<1>4. states[0] = start
  <2>1. 1..0 = {}
    OBVIOUS
  <2> QED BY <1>1, <1>2, <2>1
<1>5. ASSUME NEW k \in 0..(n - 1) PROVE states[k + 1] = Called(states[k], w[k + 1], late)
  <2>1. k \in 0..n /\ k + 1 \in 0..n /\ 1..(k + 1) \in SUBSET (1..n) /\ 1..(k + 1) # {}
    <3>1. k + 1 \in 1..(k + 1) /\ k \in Nat /\ k + 1 <= n /\ k \in 0..n /\ k + 1 \in 0..n
      BY <1>1
    <3>2. \A x \in 1..(k + 1) : x \in 1..n
      BY <1>1, <3>1
    <3>3. 1..(k + 1) \in SUBSET (1..n)
      BY <3>2
    <3> QED BY <3>1, <3>3
  <2>2. Max(1..(k + 1)) = k + 1
    BY <1>1, MaxIs
  <2>3. 1..(k + 1) \ {k + 1} = 1..k
    BY <1>1
  <2>4. iter[1..(k + 1)] = Called(iter[1..k], w[k + 1], late)
    BY <1>2, <2>1, <2>2, <2>3
  <2> QED BY <2>1, <2>4
<1>6. states[n] = AllCalled(start, w, late)
  BY <1>1, <1>3
<1> HIDE DEF states
<1> QED BY <1>4, <1>5, <1>6

-----------------------------------------------------------------------------
(* What is on its way.  While the messages of q are delivered, those behind position k are
   still to come, and after them what has been sent meanwhile, d. *)

Shown(o, m) == [name |-> "OVERLAY_SHOWN", overlay |-> o, monitor |-> m]
Hidden(o, m) == [name |-> "OVERLAY_HIDDEN", overlay |-> o, monitor |-> m]
LockHide == [name |-> "LOCK_HIDE"]
UnlockHide == [name |-> "UNLOCK_HIDE"]

\* The last of these two messages behind position k is on
LastOn(q, k, on, off) ==
  \E i \in (k + 1)..Len(q) : q[i] = on /\ \A j \in (i + 1)..Len(q) : q[j] # on /\ q[j] # off

\* There is none of the two
Silent(q, k, on, off) == \A j \in (k + 1)..Len(q) : q[j] # on /\ q[j] # off

\* What who hears of both will believe in the end, who believes b now
Pending(d, q, k, on, off, b) ==
  \/ LastOn(d, 0, on, off)
  \/ Silent(d, 0, on, off) /\ (LastOn(q, k, on, off) \/ (Silent(q, k, on, off) /\ b))

ToCome(d, q, k, x) == (\E i \in 1..Len(d) : d[i] = x) \/ (\E i \in (k + 1)..Len(q) : q[i] = x)

ShownToCome(d, q, k) ==
  (\E i \in 1..Len(d) : d[i].name = "OVERLAY_SHOWN") \/ (\E i \in (k + 1)..Len(q) : q[i].name = "OVERLAY_SHOWN")

LEMMA AppendSays ==
  ASSUME NEW d \in Seq(Messages), NEW x \in Messages, NEW on, NEW off, on # off
  PROVE  /\ LastOn(Append(d, x), 0, on, off) <=> x = on \/ (x # off /\ LastOn(d, 0, on, off))
         /\ Silent(Append(d, x), 0, on, off) <=> x # on /\ x # off /\ Silent(d, 0, on, off)
<1> DEFINE e == Append(d, x)
           n == Len(d)
<1>1. n \in Nat /\ Len(e) = n + 1 /\ e[n + 1] = x /\ \A i \in 1..n : e[i] = d[i]
  OBVIOUS
<1> HIDE DEF e, n
<1>2. Silent(e, 0, on, off) <=> x # on /\ x # off /\ Silent(d, 0, on, off)
  BY <1>1 DEF Silent, n
<1>3. x = on => LastOn(e, 0, on, off)
  <2>1. n + 1 \in (0 + 1)..Len(e) /\ \A j \in ((n + 1) + 1)..Len(e) : FALSE
    BY <1>1
  <2> QED BY <1>1, <2>1 DEF LastOn
<1>4. ASSUME x # off, LastOn(d, 0, on, off), x # on PROVE LastOn(e, 0, on, off)
  <2>1. PICK i \in 1..n : d[i] = on /\ \A j \in (i + 1)..n : d[j] # on /\ d[j] # off
    BY <1>4 DEF LastOn, n
  <2>2. i \in (0 + 1)..Len(e) /\ e[i] = on
    BY <1>1, <2>1
  <2>3. \A j \in (i + 1)..Len(e) : j = n + 1 \/ (j \in (i + 1)..n /\ j \in 1..n)
    BY <1>1
  <2>4. \A j \in (i + 1)..Len(e) : e[j] # on /\ e[j] # off
    BY <1>1, <1>4, <2>1, <2>3
  <2> QED BY <2>2, <2>4 DEF LastOn
<1>5. ASSUME LastOn(e, 0, on, off), x # on PROVE x # off /\ LastOn(d, 0, on, off)
  <2>1. PICK i \in 1..(n + 1) : e[i] = on /\ \A j \in (i + 1)..(n + 1) : e[j] # on /\ e[j] # off
    BY <1>1, <1>5 DEF LastOn
  <2>2. i \in 1..n /\ d[i] = on
    BY <1>1, <1>5, <2>1
  <2>3. n + 1 \in (i + 1)..(n + 1) /\ \A j \in (i + 1)..n : j \in (i + 1)..(n + 1) /\ j \in 1..n
    BY <1>1, <2>2
  <2>4. \A j \in (i + 1)..n : d[j] # on /\ d[j] # off
    BY <1>1, <2>1, <2>3
  <2> QED BY <1>1, <2>1, <2>2, <2>3, <2>4 DEF LastOn, n
<1> QED BY <1>2, <1>3, <1>4, <1>5 DEF e

LEMMA NextSays ==
  ASSUME NEW q \in Seq(Messages), NEW k \in 0..(Len(q) - 1), NEW on, NEW off, on # off
  PROVE  /\ LastOn(q, k, on, off) <=> LastOn(q, k + 1, on, off) \/ (q[k + 1] = on /\ Silent(q, k + 1, on, off))
         /\ Silent(q, k, on, off) <=> q[k + 1] # on /\ q[k + 1] # off /\ Silent(q, k + 1, on, off)
<1>1. /\ Len(q) \in Nat /\ k \in Nat /\ k + 1 \in (k + 1)..Len(q)
      /\ \A j \in (k + 1)..Len(q) : j = k + 1 \/ j \in ((k + 1) + 1)..Len(q)
      /\ \A j \in ((k + 1) + 1)..Len(q) : j \in (k + 1)..Len(q)
  OBVIOUS
<1>2. Silent(q, k, on, off) <=> q[k + 1] # on /\ q[k + 1] # off /\ Silent(q, k + 1, on, off)
  BY <1>1 DEF Silent
<1>3. LastOn(q, k, on, off) => LastOn(q, k + 1, on, off) \/ (q[k + 1] = on /\ Silent(q, k + 1, on, off))
  BY <1>1 DEF LastOn, Silent
<1>4. LastOn(q, k + 1, on, off) => LastOn(q, k, on, off)
  BY <1>1 DEF LastOn
<1>5. q[k + 1] = on /\ Silent(q, k + 1, on, off) => LastOn(q, k, on, off)
  BY <1>1 DEF LastOn, Silent
<1> QED BY <1>2, <1>3, <1>4, <1>5

LEMMA EndSays ==
  ASSUME NEW q \in Seq(Messages), NEW on, NEW off
  PROVE  ~LastOn(q, Len(q), on, off) /\ Silent(q, Len(q), on, off)
<1>1. \A i \in (Len(q) + 1)..Len(q) : FALSE
  OBVIOUS
<1> QED BY <1>1 DEF LastOn, Silent

\* Who will believe the contrary of what he believes now is yet to be told.
LEMMA OffToCome ==
  ASSUME NEW q \in Seq(Messages), NEW k \in 0..Len(q), NEW on, NEW off,
         ~LastOn(q, k, on, off), ~Silent(q, k, on, off)
  PROVE  \E i \in (k + 1)..Len(q) : q[i] = off
<1> DEFINE n == Len(q)
           T == {j \in 0..n : k + 1 <= n - j /\ (q[n - j] = on \/ q[n - j] = off)}
<1>1. n \in Nat /\ k \in Nat
  OBVIOUS
<1>2. PICK i \in (k + 1)..n : q[i] = on \/ q[i] = off
  BY DEF Silent
<1>3. n - i \in T
  <2>1. n - i \in 0..n /\ n - (n - i) = i /\ k + 1 <= i
    BY <1>1
  <2> QED BY <1>2, <2>1
<1>4. T \in SUBSET Nat
  OBVIOUS
<1>5. PICK j \in T : \A y \in T : j <= y
  BY <1>3, <1>4, Least
<1>6. j \in 0..n /\ k + 1 <= n - j /\ n - j \in (k + 1)..n /\ (q[n - j] = on \/ q[n - j] = off)
  BY <1>1, <1>5
<1>7. ASSUME NEW y \in ((n - j) + 1)..n PROVE q[y] # on /\ q[y] # off
  <2>1. n - y \in 0..n /\ n - (n - y) = y /\ k + 1 <= y /\ ~(j <= n - y)
    BY <1>1, <1>6
  <2>2. n - y \notin T
    BY <1>5, <2>1
  <2> QED BY <2>1, <2>2
<1> HIDE DEF T
<1> QED BY <1>6, <1>7 DEF LastOn

LEMMA PendingSend ==
  ASSUME NEW d \in Seq(Messages), NEW x \in Messages, NEW q, NEW k, NEW on, NEW off, on # off, NEW b
  PROVE  Pending(Append(d, x), q, k, on, off, b) <=> x = on \/ (x # off /\ Pending(d, q, k, on, off, b))
<1>1. /\ LastOn(Append(d, x), 0, on, off) <=> x = on \/ (x # off /\ LastOn(d, 0, on, off))
      /\ Silent(Append(d, x), 0, on, off) <=> x # on /\ x # off /\ Silent(d, 0, on, off)
  BY AppendSays
<1> QED BY <1>1 DEF Pending

LEMMA PendingNext ==
  ASSUME NEW d, NEW q \in Seq(Messages), NEW k \in 0..(Len(q) - 1), NEW on, NEW off, on # off, NEW b, NEW c,
         c <=> q[k + 1] = on \/ (q[k + 1] # off /\ b)
  PROVE  Pending(d, q, k, on, off, b) <=> Pending(d, q, k + 1, on, off, c)
<1>1. /\ LastOn(q, k, on, off) <=> LastOn(q, k + 1, on, off) \/ (q[k + 1] = on /\ Silent(q, k + 1, on, off))
      /\ Silent(q, k, on, off) <=> q[k + 1] # on /\ q[k + 1] # off /\ Silent(q, k + 1, on, off)
  BY NextSays
<1> QED BY <1>1 DEF Pending

LEMMA ToComeSend ==
  ASSUME NEW d \in Seq(Messages), NEW x \in Messages, NEW q, NEW k
  PROVE  /\ \A y : ToCome(d, q, k, y) \/ x = y => ToCome(Append(d, x), q, k, y)
         /\ ShownToCome(d, q, k) \/ x.name = "OVERLAY_SHOWN" => ShownToCome(Append(d, x), q, k)
<1> DEFINE e == Append(d, x)
           n == Len(d)
<1>1. n \in Nat /\ Len(e) = n + 1 /\ e[n + 1] = x /\ \A i \in 1..n : e[i] = d[i]
  OBVIOUS
<1>2. n + 1 \in 1..Len(e) /\ \A i \in 1..n : i \in 1..Len(e)
  BY <1>1
<1>3. \A y : (\E i \in 1..n : d[i] = y) => \E i \in 1..Len(e) : e[i] = y
  BY <1>1, <1>2
<1>4. (\E i \in 1..n : d[i].name = "OVERLAY_SHOWN") => \E i \in 1..Len(e) : e[i].name = "OVERLAY_SHOWN"
  BY <1>1, <1>2
<1> HIDE DEF e, n
<1> QED BY <1>1, <1>2, <1>3, <1>4 DEF ToCome, ShownToCome, e, n

LEMMA ToComeNext ==
  ASSUME NEW d, NEW q \in Seq(Messages), NEW k \in 0..(Len(q) - 1)
  PROVE  /\ \A y : y # q[k + 1] /\ ToCome(d, q, k, y) => ToCome(d, q, k + 1, y)
         /\ q[k + 1].name # "OVERLAY_SHOWN" /\ ShownToCome(d, q, k) => ShownToCome(d, q, k + 1)
<1>1. \A j \in (k + 1)..Len(q) : j = k + 1 \/ j \in ((k + 1) + 1)..Len(q)
  OBVIOUS
<1> QED BY <1>1 DEF ToCome, ShownToCome

-----------------------------------------------------------------------------
(* The kinds of messages *)

Tells == {"OVERLAY_SHOWN", "OVERLAY_HIDDEN", "LOCK_HIDE", "UNLOCK_HIDE"}

LEMMA MessagesDiffer ==
  ASSUME NEW o \in OverlayNames, NEW m \in Monitors
  PROVE  /\ Shown(o, m) \in Messages /\ Hidden(o, m) \in Messages /\ LockHide \in Messages /\ UnlockHide \in Messages
         /\ Shown(o, m).name = "OVERLAY_SHOWN" /\ Hidden(o, m).name = "OVERLAY_HIDDEN"
         /\ LockHide.name = "LOCK_HIDE" /\ UnlockHide.name = "UNLOCK_HIDE"
         /\ Shown(o, m) # Hidden(o, m) /\ LockHide # UnlockHide
         /\ \A p, n : Shown(o, m) = Shown(p, n) => o = p /\ m = n
         /\ \A p, n : Hidden(o, m) = Hidden(p, n) => o = p /\ m = n
<1>1. LockHide \in Messages /\ UnlockHide \in Messages
  BY DEF Messages, LockHide, UnlockHide
<1>2. Shown(o, m) \in Messages /\ Hidden(o, m) \in Messages
  BY DEF Messages, Shown, Hidden
<1>3. /\ Shown(o, m).name = "OVERLAY_SHOWN" /\ Hidden(o, m).name = "OVERLAY_HIDDEN"
      /\ LockHide.name = "LOCK_HIDE" /\ UnlockHide.name = "UNLOCK_HIDE"
  BY DEF Shown, Hidden, LockHide, UnlockHide
<1>4. Shown(o, m) # Hidden(o, m) /\ LockHide # UnlockHide
  BY <1>3
<1>5. \A p, n : Shown(p, n).overlay = p /\ Shown(p, n).monitor = n /\ Hidden(p, n).overlay = p /\ Hidden(p, n).monitor = n
  BY DEF Shown, Hidden
<1> QED BY <1>1, <1>2, <1>3, <1>4, <1>5

LEMMA NamesDiffer ==
  ASSUME NEW x \in Messages, NEW o \in OverlayNames, NEW m \in Monitors
  PROVE  /\ x.name # "OVERLAY_SHOWN" => x # Shown(o, m)
         /\ x.name # "OVERLAY_HIDDEN" => x # Hidden(o, m)
         /\ x.name # "LOCK_HIDE" => x # LockHide
         /\ x.name # "UNLOCK_HIDE" => x # UnlockHide
BY MessagesDiffer

LEMMA MessageIs ==
  ASSUME NEW x \in Messages
  PROVE  /\ x.name \in {"OVERLAY_SHOWN", "OVERLAY_HIDDEN"} =>
              x.overlay \in OverlayNames /\ x.monitor \in Monitors
         /\ x.name = "OVERLAY_SHOWN" => x = Shown(x.overlay, x.monitor)
         /\ x.name = "OVERLAY_HIDDEN" => x = Hidden(x.overlay, x.monitor)
         /\ x.name = "LOCK_HIDE" => x = LockHide
         /\ x.name = "UNLOCK_HIDE" => x = UnlockHide
<1> DEFINE A == [name : {"OVERLAY_SHOWN", "OVERLAY_HIDDEN"}, overlay : OverlayNames, monitor : Monitors]
           B == [name : {"LOCK_HIDE", "UNLOCK_HIDE", "OVERLAY_CLOSE", "HUD_CLOSE", "ACTIVATE", "GOTO", "EXTERNAL"}]
<1>1. x \in A \/ x \in B
  BY DEF Messages
<1>2. CASE x \in A
  BY <1>2 DEF Shown, Hidden
<1>3. CASE x \in B
  BY <1>3 DEF LockHide, UnlockHide
<1> QED BY <1>1, <1>2, <1>3

-----------------------------------------------------------------------------
(* What is true of the shell while the messages of q are delivered, of which those up to
   position k have been *)

Open(s, o, m) == s[o].visible /\ s[o].monitor = m

\* Launchers know what is open, or are yet to be told.
LaunchersTold(s, q, k) ==
  \A o \in OverlayNames, m \in Monitors :
    Open(s, o, m) <=> Pending(s.queue["DEFAULT"], q, k, Shown(o, m), Hidden(o, m), s.launchers[m][o])

LockTold(s, q, k) == s.hud.visible <=> Pending(s.queue["DEFAULT"], q, k, LockHide, UnlockHide, s.locked)

\* A panel follows one overlay that its launcher believes to be open; of the other one it
\* is yet to be told that it is hidden.
PanelsFollow(s, q, k) ==
  \A o \in OverlayNames, m \in Monitors :
    /\ s.panels[m] = o => s.launchers[m][o]
    /\ s.launchers[m][o] /\ s.panels[m] # o => ToCome(s.queue["DEFAULT"], q, k, Hidden(o, m))

OneStays(s, q, k) == s.dash.visible /\ s.hud.visible => ShownToCome(s.queue["DEFAULT"], q, k)

\* The input is with an open overlay, or no overlay is open, or the plugin will hear that
\* an application has it.
InputKnown(s) ==
  \/ s.focus = "app" /\ (s.notice \/ (~s.dash.visible /\ ~s.hud.visible))
  \/ s.focus = "dash" /\ s.dash.visible
  \/ s.focus = "hud" /\ s.hud.visible

\* What has another priority tells nobody what is open.
Asides(s) ==
  \A p \in {"HIGH", "LOW"} : \A i \in 1..Len(s.queue[p]) : s.queue[p][i].name \in {"OVERLAY_CLOSE", "GOTO"}

Good(s, q, k) ==
  /\ s \in Shells
  /\ LaunchersTold(s, q, k) /\ LockTold(s, q, k) /\ PanelsFollow(s, q, k)
  /\ OneStays(s, q, k) /\ InputKnown(s) /\ Asides(s)

\* To the two views and to all that was told, nothing happens.
SameView(s, t) ==
  /\ t.dash.visible = s.dash.visible /\ t.dash.monitor = s.dash.monitor
  /\ t.hud.visible = s.hud.visible /\ t.hud.monitor = s.hud.monitor

SameKnown(s, t) == t.launchers = s.launchers /\ t.panels = s.panels /\ t.locked = s.locked

LEMMA ByName ==
  ASSUME NEW s, s \in Shells
  PROVE  /\ \A o \in OverlayNames : s[o] = IF o = "dash" THEN s.dash ELSE s.hud
         /\ s["dash"] = s.dash /\ s["hud"] = s.hud
         /\ \A o \in OverlayNames, m \in Monitors : s.launchers[m][o] \in BOOLEAN
         /\ s.locked \in BOOLEAN
         /\ s.queue["DEFAULT"] \in Seq(Messages)
<1>1. /\ \A o \in OverlayNames : s[o] = IF o = "dash" THEN s.dash ELSE s.hud
      /\ s["dash"] = s.dash /\ s["hud"] = s.hud
  BY DEF OverlayNames
<1>2. \A o \in OverlayNames, m \in Monitors : s.launchers[m][o] \in BOOLEAN
  BY DEF Shells, OverlayNames
<1>3. s.locked \in BOOLEAN
  BY DEF Shells
<1>4. s.queue["DEFAULT"] \in Seq(Messages)
  BY DEF Shells, Priorities
<1> QED BY <1>1, <1>2, <1>3, <1>4

LEMMA Quiet ==
  ASSUME NEW s, NEW q, NEW k, Good(s, q, k),
         NEW t \in Shells, SameView(s, t), SameKnown(s, t), t.queue["DEFAULT"] = s.queue["DEFAULT"],
         InputKnown(t), Asides(t)
  PROVE  Good(t, q, k)
<1>1. s \in Shells
  BY DEF Good
<1>2. \A o \in OverlayNames, m \in Monitors : Open(t, o, m) <=> Open(s, o, m)
  BY <1>1, ByName DEF SameView, Open
<1>3. LaunchersTold(t, q, k)
  BY <1>2 DEF Good, LaunchersTold, SameKnown
<1>4. LockTold(t, q, k) /\ PanelsFollow(t, q, k) /\ OneStays(t, q, k)
  BY DEF Good, LockTold, PanelsFollow, OneStays, SameKnown, SameView
<1> QED BY <1>3, <1>4 DEF Good

\* A message that tells nobody what is open
LEMMA SendsOther ==
  ASSUME NEW s, NEW q, NEW k, Good(s, q, k),
         NEW x \in Messages, x.name \notin Tells,
         NEW t \in Shells, SameView(s, t), SameKnown(s, t), t.queue["DEFAULT"] = Append(s.queue["DEFAULT"], x),
         InputKnown(t), Asides(t)
  PROVE  Good(t, q, k)
<1> DEFINE d == s.queue["DEFAULT"]
<1>1. s \in Shells /\ d \in Seq(Messages)
  BY ByName DEF Good
<1>2. \A o \in OverlayNames, m \in Monitors : x # Shown(o, m) /\ x # Hidden(o, m)
  BY NamesDiffer DEF Tells
<1>3. x # LockHide /\ x # UnlockHide
  BY DEF Tells, LockHide, UnlockHide
<1> HIDE DEF d
<1>4. ASSUME NEW o \in OverlayNames, NEW m \in Monitors
      PROVE  Open(t, o, m) <=> Pending(Append(d, x), q, k, Shown(o, m), Hidden(o, m), t.launchers[m][o])
  <2>1. Open(t, o, m) <=> Open(s, o, m)
    BY <1>1, ByName DEF SameView, Open
  <2>2. Open(s, o, m) <=> Pending(d, q, k, Shown(o, m), Hidden(o, m), s.launchers[m][o])
    BY DEF Good, LaunchersTold, d
  <2>3. Pending(Append(d, x), q, k, Shown(o, m), Hidden(o, m), s.launchers[m][o])
          <=> Pending(d, q, k, Shown(o, m), Hidden(o, m), s.launchers[m][o])
    BY <1>1, <1>2, MessagesDiffer, PendingSend
  <2> QED BY <2>1, <2>2, <2>3 DEF SameKnown
<1>5. t.hud.visible <=> Pending(Append(d, x), q, k, LockHide, UnlockHide, t.locked)
  <2>1. LockHide # UnlockHide
    BY DEF LockHide, UnlockHide
  <2>2. Pending(Append(d, x), q, k, LockHide, UnlockHide, s.locked) <=> Pending(d, q, k, LockHide, UnlockHide, s.locked)
    BY <1>1, <1>3, <2>1, PendingSend
  <2>3. s.hud.visible <=> Pending(d, q, k, LockHide, UnlockHide, s.locked)
    BY DEF Good, LockTold, d
  <2> QED BY <2>2, <2>3 DEF SameKnown, SameView
<1>6. PanelsFollow(t, q, k)
  <2>1. ASSUME NEW o \in OverlayNames, NEW m \in Monitors
        PROVE  /\ t.panels[m] = o => t.launchers[m][o]
               /\ t.launchers[m][o] /\ t.panels[m] # o => ToCome(Append(d, x), q, k, Hidden(o, m))
    <3>1. /\ s.panels[m] = o => s.launchers[m][o]
          /\ s.launchers[m][o] /\ s.panels[m] # o => ToCome(d, q, k, Hidden(o, m))
      BY DEF Good, PanelsFollow, d
    <3>2. ToCome(d, q, k, Hidden(o, m)) => ToCome(Append(d, x), q, k, Hidden(o, m))
      BY <1>1, ToComeSend
    <3> QED BY <3>1, <3>2 DEF SameKnown
  <2> QED BY <2>1 DEF PanelsFollow, d
<1>7. OneStays(t, q, k)
  <2>1. ShownToCome(d, q, k) => ShownToCome(Append(d, x), q, k)
    BY <1>1, ToComeSend
  <2> QED BY <2>1 DEF Good, OneStays, SameView, d
<1> QED BY <1>4, <1>5, <1>6, <1>7 DEF Good, LaunchersTold, LockTold, d

-----------------------------------------------------------------------------
(* An overlay opens or closes, and tells *)

\* What is sent before the word that o is hidden or shown
First(d, o, x) == IF o = "hud" THEN Append(d, x) ELSE d

LEMMA FirstSays ==
  ASSUME NEW d \in Seq(Messages), NEW o \in OverlayNames, NEW lock \in {LockHide, UnlockHide},
         NEW p \in OverlayNames, NEW m \in Monitors, NEW q, NEW k, NEW b
  PROVE  /\ First(d, o, lock) \in Seq(Messages)
         /\ Pending(First(d, o, lock), q, k, Shown(p, m), Hidden(p, m), b) <=> Pending(d, q, k, Shown(p, m), Hidden(p, m), b)
         /\ ToCome(d, q, k, Hidden(p, m)) => ToCome(First(d, o, lock), q, k, Hidden(p, m))
         /\ ShownToCome(d, q, k) => ShownToCome(First(d, o, lock), q, k)
<1>1. lock \in Messages /\ lock.name # "OVERLAY_SHOWN" /\ lock.name # "OVERLAY_HIDDEN"
  BY MessagesDiffer
<1>2. lock # Shown(p, m) /\ lock # Hidden(p, m) /\ Shown(p, m) # Hidden(p, m)
  BY <1>1, MessagesDiffer
<1>3. Append(d, lock) \in Seq(Messages)
  BY <1>1
<1>4. Pending(Append(d, lock), q, k, Shown(p, m), Hidden(p, m), b) <=> Pending(d, q, k, Shown(p, m), Hidden(p, m), b)
  BY <1>1, <1>2, PendingSend
<1>5. /\ ToCome(d, q, k, Hidden(p, m)) => ToCome(Append(d, lock), q, k, Hidden(p, m))
      /\ ShownToCome(d, q, k) => ShownToCome(Append(d, lock), q, k)
  BY <1>1, ToComeSend
<1> QED BY <1>3, <1>4, <1>5 DEF First

Other(o) == IF o = "dash" THEN "hud" ELSE "dash"

LEMMA Opens ==
  ASSUME NEW s, NEW q, NEW k, Good(s, q, k), NEW o \in OverlayNames, NEW m \in Monitors,
         ~s[o].visible,
         NEW t \in Shells, t[o].visible, t[o].monitor = m,
         t[Other(o)].visible = s[Other(o)].visible, t[Other(o)].monitor = s[Other(o)].monitor,
         SameKnown(s, t),
         t.queue["DEFAULT"] = Append(First(s.queue["DEFAULT"], o, LockHide), Shown(o, m)),
         InputKnown(t), Asides(t)
  PROVE  Good(t, q, k)
<1> DEFINE d == s.queue["DEFAULT"]
           e == First(d, o, LockHide)
           x == Shown(o, m)
<1>1. s \in Shells /\ d \in Seq(Messages) /\ e \in Seq(Messages)
  BY ByName, FirstSays DEF Good
<1>2. x \in Messages /\ x.name = "OVERLAY_SHOWN" /\ x # LockHide /\ x # UnlockHide
  BY MessagesDiffer
<1>3. \A p \in OverlayNames, n \in Monitors : x # Hidden(p, n) /\ (x = Shown(p, n) <=> p = o /\ n = m) /\ Shown(p, n) # Hidden(p, n)
  BY MessagesDiffer
<1> HIDE DEF x
<1>4. ASSUME NEW p \in OverlayNames, NEW n \in Monitors
      PROVE  Open(t, p, n) <=> Pending(Append(e, x), q, k, Shown(p, n), Hidden(p, n), t.launchers[n][p])
  <2>1. Pending(Append(e, x), q, k, Shown(p, n), Hidden(p, n), s.launchers[n][p])
          <=> (p = o /\ n = m) \/ Pending(e, q, k, Shown(p, n), Hidden(p, n), s.launchers[n][p])
    <3> HIDE DEF e
    <3> QED BY <1>1, <1>2, <1>3, PendingSend
  <2>2. Pending(e, q, k, Shown(p, n), Hidden(p, n), s.launchers[n][p])
          <=> Pending(d, q, k, Shown(p, n), Hidden(p, n), s.launchers[n][p])
    BY <1>1, FirstSays
  <2>3. Open(s, p, n) <=> Pending(d, q, k, Shown(p, n), Hidden(p, n), s.launchers[n][p])
    BY DEF Good, LaunchersTold
  <2>4. Open(t, p, n) <=> (p = o /\ n = m) \/ Open(s, p, n)
    BY DEF Open, Other, OverlayNames
  <2> QED BY <2>1, <2>2, <2>3, <2>4 DEF SameKnown
<1>5. t.hud.visible <=> Pending(Append(e, x), q, k, LockHide, UnlockHide, t.locked)
  <2> HIDE DEF e
  <2>1. Pending(Append(e, x), q, k, LockHide, UnlockHide, s.locked) <=> Pending(e, q, k, LockHide, UnlockHide, s.locked)
    BY <1>1, <1>2, MessagesDiffer, PendingSend
  <2>2. CASE o = "hud"
    <3>1. t.hud.visible
      BY <2>2, ByName
    <3>2. Pending(Append(d, LockHide), q, k, LockHide, UnlockHide, s.locked)
      BY <1>1, MessagesDiffer, PendingSend
    <3> QED BY <2>1, <2>2, <3>1, <3>2 DEF e, First, SameKnown
  <2>3. CASE o = "dash"
    <3>1. t.hud.visible = s.hud.visible
      BY <1>1, <2>3, ByName DEF Other
    <3>2. s.hud.visible <=> Pending(d, q, k, LockHide, UnlockHide, s.locked)
      BY DEF Good, LockTold
    <3> QED BY <2>1, <2>3, <3>1, <3>2 DEF e, First, SameKnown
  <2> QED BY <2>2, <2>3 DEF OverlayNames
<1>6. PanelsFollow(t, q, k)
  <2>1. ASSUME NEW p \in OverlayNames, NEW n \in Monitors
        PROVE  /\ t.panels[n] = p => t.launchers[n][p]
               /\ t.launchers[n][p] /\ t.panels[n] # p => ToCome(Append(e, x), q, k, Hidden(p, n))
    <3>1. /\ s.panels[n] = p => s.launchers[n][p]
          /\ s.launchers[n][p] /\ s.panels[n] # p => ToCome(d, q, k, Hidden(p, n))
      BY DEF Good, PanelsFollow
    <3>2. ToCome(d, q, k, Hidden(p, n)) => ToCome(e, q, k, Hidden(p, n))
      BY <1>1, FirstSays
    <3>3. ToCome(e, q, k, Hidden(p, n)) => ToCome(Append(e, x), q, k, Hidden(p, n))
      <4> HIDE DEF e
      <4> QED BY <1>1, <1>2, ToComeSend
    <3> QED BY <3>1, <3>2, <3>3 DEF SameKnown
  <2> QED BY <2>1 DEF PanelsFollow, x
<1>7. OneStays(t, q, k)
  <2>1. ShownToCome(Append(e, x), q, k)
    <3> HIDE DEF e
    <3> QED BY <1>1, <1>2, ToComeSend
  <2> QED BY <2>1 DEF OneStays, x
<1> QED BY <1>4, <1>5, <1>6, <1>7 DEF Good, LaunchersTold, LockTold, x

LEMMA Closes ==
  ASSUME NEW s, NEW q, NEW k, Good(s, q, k), NEW o \in OverlayNames, NEW m \in Monitors,
         s[o].visible, s[o].monitor = m,
         NEW t \in Shells, ~t[o].visible,
         t[Other(o)].visible = s[Other(o)].visible, t[Other(o)].monitor = s[Other(o)].monitor,
         SameKnown(s, t),
         t.queue["DEFAULT"] = Append(First(s.queue["DEFAULT"], o, UnlockHide), Hidden(o, m)),
         InputKnown(t), Asides(t)
  PROVE  Good(t, q, k)
<1> DEFINE d == s.queue["DEFAULT"]
           e == First(d, o, UnlockHide)
           x == Hidden(o, m)
<1>1. s \in Shells /\ d \in Seq(Messages) /\ e \in Seq(Messages)
  BY ByName, FirstSays DEF Good
<1>2. x \in Messages /\ x.name = "OVERLAY_HIDDEN" /\ x # LockHide /\ x # UnlockHide
  BY MessagesDiffer
<1>3. \A p \in OverlayNames, n \in Monitors : x # Shown(p, n) /\ (x = Hidden(p, n) <=> p = o /\ n = m) /\ Shown(p, n) # Hidden(p, n)
  BY MessagesDiffer
<1> HIDE DEF x
<1>4. ASSUME NEW p \in OverlayNames, NEW n \in Monitors
      PROVE  Open(t, p, n) <=> Pending(Append(e, x), q, k, Shown(p, n), Hidden(p, n), t.launchers[n][p])
  <2>1. Pending(Append(e, x), q, k, Shown(p, n), Hidden(p, n), s.launchers[n][p])
          <=> ~(p = o /\ n = m) /\ Pending(e, q, k, Shown(p, n), Hidden(p, n), s.launchers[n][p])
    <3> HIDE DEF e
    <3> QED BY <1>1, <1>2, <1>3, PendingSend
  <2>2. Pending(e, q, k, Shown(p, n), Hidden(p, n), s.launchers[n][p])
          <=> Pending(d, q, k, Shown(p, n), Hidden(p, n), s.launchers[n][p])
    BY <1>1, FirstSays
  <2>3. Open(s, p, n) <=> Pending(d, q, k, Shown(p, n), Hidden(p, n), s.launchers[n][p])
    BY DEF Good, LaunchersTold
  <2>4. Open(t, p, n) <=> ~(p = o /\ n = m) /\ Open(s, p, n)
    BY DEF Open, Other, OverlayNames
  <2> QED BY <2>1, <2>2, <2>3, <2>4 DEF SameKnown
<1>5. t.hud.visible <=> Pending(Append(e, x), q, k, LockHide, UnlockHide, t.locked)
  <2> HIDE DEF e
  <2>1. Pending(Append(e, x), q, k, LockHide, UnlockHide, s.locked) <=> Pending(e, q, k, LockHide, UnlockHide, s.locked)
    BY <1>1, <1>2, MessagesDiffer, PendingSend
  <2>2. CASE o = "hud"
    <3>1. ~t.hud.visible
      BY <2>2, ByName
    <3>2. ~Pending(Append(d, UnlockHide), q, k, LockHide, UnlockHide, s.locked)
      BY <1>1, MessagesDiffer, PendingSend
    <3> QED BY <2>1, <2>2, <3>1, <3>2 DEF e, First, SameKnown
  <2>3. CASE o = "dash"
    <3>1. t.hud.visible = s.hud.visible
      BY <1>1, <2>3, ByName DEF Other
    <3>2. s.hud.visible <=> Pending(d, q, k, LockHide, UnlockHide, s.locked)
      BY DEF Good, LockTold
    <3> QED BY <2>1, <2>3, <3>1, <3>2 DEF e, First, SameKnown
  <2> QED BY <2>2, <2>3 DEF OverlayNames
<1>6. PanelsFollow(t, q, k)
  <2>1. ASSUME NEW p \in OverlayNames, NEW n \in Monitors
        PROVE  /\ t.panels[n] = p => t.launchers[n][p]
               /\ t.launchers[n][p] /\ t.panels[n] # p => ToCome(Append(e, x), q, k, Hidden(p, n))
    <3>1. /\ s.panels[n] = p => s.launchers[n][p]
          /\ s.launchers[n][p] /\ s.panels[n] # p => ToCome(d, q, k, Hidden(p, n))
      BY DEF Good, PanelsFollow
    <3>2. ToCome(d, q, k, Hidden(p, n)) => ToCome(e, q, k, Hidden(p, n))
      BY <1>1, FirstSays
    <3>3. ToCome(e, q, k, Hidden(p, n)) => ToCome(Append(e, x), q, k, Hidden(p, n))
      <4> HIDE DEF e
      <4> QED BY <1>1, <1>2, ToComeSend
    <3> QED BY <3>1, <3>2, <3>3 DEF SameKnown
  <2> QED BY <2>1 DEF PanelsFollow, x
<1>7. OneStays(t, q, k)
  <2>1. ~(t.dash.visible /\ t.hud.visible)
    BY ByName DEF OverlayNames
  <2> QED BY <2>1 DEF OneStays
<1> QED BY <1>4, <1>5, <1>6, <1>7 DEF Good, LaunchersTold, LockTold, x

-----------------------------------------------------------------------------
(* The next message of q arrives *)

LEMMA NextOther ==
  ASSUME NEW s, NEW q \in Seq(Messages), NEW k \in 0..(Len(q) - 1), Good(s, q, k), q[k + 1].name \notin Tells
  PROVE  Good(s, q, k + 1)
<1> DEFINE d == s.queue["DEFAULT"]
           x == q[k + 1]
<1>1. s \in Shells /\ x \in Messages
  BY DEF Good
<1>2. \A o \in OverlayNames, m \in Monitors : x # Shown(o, m) /\ x # Hidden(o, m)
  BY <1>1, NamesDiffer DEF Tells
<1>3. x # LockHide /\ x # UnlockHide /\ LockHide # UnlockHide
  BY DEF Tells, LockHide, UnlockHide
<1> HIDE DEF d
<1>4. ASSUME NEW o \in OverlayNames, NEW m \in Monitors
      PROVE  Pending(d, q, k, Shown(o, m), Hidden(o, m), s.launchers[m][o])
               <=> Pending(d, q, k + 1, Shown(o, m), Hidden(o, m), s.launchers[m][o])
  <2>1. Shown(o, m) # Hidden(o, m)
    BY MessagesDiffer
  <2>2. s.launchers[m][o] <=> q[k + 1] = Shown(o, m) \/ (q[k + 1] # Hidden(o, m) /\ s.launchers[m][o])
    BY <1>2
  <2> QED BY <2>1, <2>2, PendingNext
<1>5. Pending(d, q, k, LockHide, UnlockHide, s.locked) <=> Pending(d, q, k + 1, LockHide, UnlockHide, s.locked)
  <2>1. s.locked <=> q[k + 1] = LockHide \/ (q[k + 1] # UnlockHide /\ s.locked)
    BY <1>3
  <2> QED BY <1>3, <2>1, PendingNext
<1>6. \A o \in OverlayNames, m \in Monitors : ToCome(d, q, k, Hidden(o, m)) => ToCome(d, q, k + 1, Hidden(o, m))
  BY <1>2, ToComeNext
<1>7. ShownToCome(d, q, k) => ShownToCome(d, q, k + 1)
  BY ToComeNext DEF Tells
<1>8. LaunchersTold(s, q, k + 1) /\ LockTold(s, q, k + 1)
  BY <1>4, <1>5 DEF Good, LaunchersTold, LockTold, d
<1>9. PanelsFollow(s, q, k + 1) /\ OneStays(s, q, k + 1)
  BY <1>6, <1>7 DEF Good, PanelsFollow, OneStays, d
<1> QED BY <1>8, <1>9 DEF Good

LEMMA NextLock ==
  ASSUME NEW s, NEW q \in Seq(Messages), NEW k \in 0..(Len(q) - 1), Good(s, q, k),
         NEW b \in BOOLEAN, q[k + 1] = IF b THEN LockHide ELSE UnlockHide
  PROVE  Good([s EXCEPT !.locked = b], q, k + 1)
<1> DEFINE d == s.queue["DEFAULT"]
           x == q[k + 1]
           t == [s EXCEPT !.locked = b]
<1>1. s \in Shells /\ x \in Messages
  BY DEF Good
<1>2. /\ t \in Shells /\ t.locked = b /\ t.queue = s.queue /\ t.launchers = s.launchers /\ t.panels = s.panels
      /\ t.dash = s.dash /\ t.hud = s.hud /\ t.notice = s.notice /\ t.focus = s.focus
  BY <1>1 DEF Shells
<1>3. LockHide # UnlockHide /\ x.name \notin {"OVERLAY_SHOWN", "OVERLAY_HIDDEN"}
  BY DEF LockHide, UnlockHide
<1>4. \A o \in OverlayNames, m \in Monitors : x # Shown(o, m) /\ x # Hidden(o, m)
  BY <1>1, <1>3, NamesDiffer
<1> HIDE DEF d, t
<1>5. ASSUME NEW o \in OverlayNames, NEW m \in Monitors
      PROVE  Pending(d, q, k, Shown(o, m), Hidden(o, m), s.launchers[m][o])
               <=> Pending(d, q, k + 1, Shown(o, m), Hidden(o, m), s.launchers[m][o])
  <2>1. Shown(o, m) # Hidden(o, m)
    BY MessagesDiffer
  <2>2. s.launchers[m][o] <=> q[k + 1] = Shown(o, m) \/ (q[k + 1] # Hidden(o, m) /\ s.launchers[m][o])
    BY <1>4
  <2> QED BY <2>1, <2>2, PendingNext
<1>6. Pending(d, q, k, LockHide, UnlockHide, s.locked) <=> Pending(d, q, k + 1, LockHide, UnlockHide, b)
  <2>1. b <=> q[k + 1] = LockHide \/ (q[k + 1] # UnlockHide /\ s.locked)
    BY <1>3
  <2> QED BY <1>3, <2>1, PendingNext
<1>7. \A o \in OverlayNames, m \in Monitors : ToCome(d, q, k, Hidden(o, m)) => ToCome(d, q, k + 1, Hidden(o, m))
  BY <1>4, ToComeNext
<1>8. ShownToCome(d, q, k) => ShownToCome(d, q, k + 1)
  BY <1>3, ToComeNext
<1>9. \A o \in OverlayNames, m \in Monitors : Open(t, o, m) <=> Open(s, o, m)
  BY <1>1, <1>2, ByName DEF Open
<1>10. LaunchersTold(t, q, k + 1)
  BY <1>2, <1>5, <1>9 DEF Good, LaunchersTold, d
<1>11. LockTold(t, q, k + 1)
  BY <1>2, <1>6 DEF Good, LockTold, d
<1>12. PanelsFollow(t, q, k + 1) /\ OneStays(t, q, k + 1)
  BY <1>2, <1>7, <1>8 DEF Good, PanelsFollow, OneStays, d
<1>13. InputKnown(t) /\ Asides(t)
  BY <1>2 DEF Good, InputKnown, Asides
<1> QED BY <1>2, <1>10, <1>11, <1>12, <1>13 DEF Good, t

\* What launchers and panels make of the word that o is hidden or shown
WhenShown(s, o, m, t) ==
  /\ t \in Shells
  /\ t.locked = s.locked /\ t.queue = s.queue /\ t.dash = s.dash /\ t.hud = s.hud
  /\ t.notice = s.notice /\ t.focus = s.focus
  /\ \A p \in OverlayNames, n \in Monitors :
       t.launchers[n][p] <=> (p = o /\ n = m) \/ s.launchers[n][p]
  /\ \A n \in Monitors : t.panels[n] = IF n = m THEN o ELSE s.panels[n]

LEMMA ShownMakes ==
  ASSUME NEW s \in Shells, NEW o \in OverlayNames, NEW m \in Monitors
  PROVE  WhenShown(s, o, m, OverlayShown(s, o, m))
<1> DEFINE t == OverlayShown(s, o, m)
<1>1. s.launchers[m] \in [dash : BOOLEAN, hud : BOOLEAN]
  BY DEF Shells
<1>2. [s.launchers[m] EXCEPT ![o] = TRUE] \in [dash : BOOLEAN, hud : BOOLEAN]
  BY <1>1 DEF OverlayNames
<1> DEFINE l == [s.launchers EXCEPT ![m] = [@ EXCEPT ![o] = TRUE]]
           p == [s.panels EXCEPT ![m] = o]
<1>3. l \in [Monitors -> [dash : BOOLEAN, hud : BOOLEAN]] /\ p \in [Monitors -> OverlayNames \cup {""}]
  BY <1>2 DEF Shells
<1>4. t = [s EXCEPT !.launchers = l, !.panels = p]
  BY DEF OverlayShown, Shells
<1>5. \A r \in OverlayNames, n \in Monitors :
        l[n][r] <=> (r = o /\ n = m) \/ s.launchers[n][r]
  BY DEF Shells, OverlayNames
<1>6. \A n \in Monitors : p[n] = IF n = m THEN o ELSE s.panels[n]
  BY DEF Shells
<1> HIDE DEF l, p
<1>7. t \in Shells
  BY <1>3, <1>4 DEF Shells
<1>8. /\ t.locked = s.locked /\ t.queue = s.queue /\ t.dash = s.dash /\ t.hud = s.hud
      /\ t.notice = s.notice /\ t.focus = s.focus /\ t.launchers = l /\ t.panels = p
  BY <1>4 DEF Shells
<1> HIDE DEF t
<1> QED BY <1>5, <1>6, <1>7, <1>8 DEF WhenShown, t

WhenHidden(s, o, m, t) ==
  /\ t \in Shells
  /\ t.locked = s.locked /\ t.queue = s.queue /\ t.dash = s.dash /\ t.hud = s.hud
  /\ t.notice = s.notice /\ t.focus = s.focus
  /\ \A p \in OverlayNames, n \in Monitors :
       t.launchers[n][p] <=> ~(p = o /\ n = m) /\ s.launchers[n][p]
  /\ \A n \in Monitors : IF n = m /\ s.panels[m] = o THEN t.panels[n] = "" ELSE t.panels[n] = s.panels[n]

LEMMA HiddenMakes ==
  ASSUME NEW s \in Shells, NEW o \in OverlayNames, NEW m \in Monitors
  PROVE  WhenHidden(s, o, m, OverlayHidden(s, o, m))
<1> DEFINE t == OverlayHidden(s, o, m)
<1>1. s.launchers[m] \in [dash : BOOLEAN, hud : BOOLEAN]
  BY DEF Shells
<1>2. [s.launchers[m] EXCEPT ![o] = FALSE] \in [dash : BOOLEAN, hud : BOOLEAN]
  BY <1>1 DEF OverlayNames
<1> DEFINE l == [s.launchers EXCEPT ![m] = [@ EXCEPT ![o] = FALSE]]
           p == [s.panels EXCEPT ![m] = IF @ = o THEN "" ELSE @]
<1>3. l \in [Monitors -> [dash : BOOLEAN, hud : BOOLEAN]] /\ p \in [Monitors -> OverlayNames \cup {""}]
  BY <1>2 DEF Shells
<1>4. t = [s EXCEPT !.launchers = l, !.panels = p]
  BY DEF OverlayHidden, Shells
<1>5. \A r \in OverlayNames, n \in Monitors :
        l[n][r] <=> ~(r = o /\ n = m) /\ s.launchers[n][r]
  BY DEF Shells, OverlayNames
<1>6. \A n \in Monitors : IF n = m /\ s.panels[m] = o THEN p[n] = "" ELSE p[n] = s.panels[n]
  BY DEF Shells
<1> HIDE DEF l, p
<1>7. t \in Shells
  BY <1>3, <1>4 DEF Shells
<1>8. /\ t.locked = s.locked /\ t.queue = s.queue /\ t.dash = s.dash /\ t.hud = s.hud
      /\ t.notice = s.notice /\ t.focus = s.focus /\ t.launchers = l /\ t.panels = p
  BY <1>4 DEF Shells
<1> HIDE DEF t
<1> QED BY <1>5, <1>6, <1>7, <1>8 DEF WhenHidden, t

LEMMA NextHidden ==
  ASSUME NEW s, NEW q \in Seq(Messages), NEW k \in 0..(Len(q) - 1), Good(s, q, k),
         NEW o \in OverlayNames, NEW m \in Monitors, q[k + 1] = Hidden(o, m)
  PROVE  Good(OverlayHidden(s, o, m), q, k + 1)
<1> DEFINE d == s.queue["DEFAULT"]
           x == q[k + 1]
           t == OverlayHidden(s, o, m)
<1>1. s \in Shells /\ x \in Messages
  BY DEF Good
<1>2. /\ t \in Shells
      /\ t.locked = s.locked /\ t.queue = s.queue /\ t.dash = s.dash /\ t.hud = s.hud
      /\ t.notice = s.notice /\ t.focus = s.focus
      /\ \A p \in OverlayNames, n \in Monitors :
           t.launchers[n][p] <=> ~(p = o /\ n = m) /\ s.launchers[n][p]
      /\ \A n \in Monitors : IF n = m /\ s.panels[m] = o THEN t.panels[n] = "" ELSE t.panels[n] = s.panels[n]
  <2>1. WhenHidden(s, o, m, t)
    BY <1>1, HiddenMakes
  <2> HIDE DEF t
  <2> QED BY <2>1 DEF WhenHidden
<1>3. x # LockHide /\ x # UnlockHide /\ LockHide # UnlockHide /\ x.name # "OVERLAY_SHOWN"
  BY MessagesDiffer
<1>4. \A p \in OverlayNames, n \in Monitors : x # Shown(p, n) /\ (x = Hidden(p, n) <=> p = o /\ n = m)
  BY MessagesDiffer
<1> HIDE DEF d, t
<1>5. ASSUME NEW p \in OverlayNames, NEW n \in Monitors
      PROVE  Pending(d, q, k, Shown(p, n), Hidden(p, n), s.launchers[n][p])
               <=> Pending(d, q, k + 1, Shown(p, n), Hidden(p, n), t.launchers[n][p])
  <2>1. Shown(p, n) # Hidden(p, n)
    BY MessagesDiffer
  <2>2. t.launchers[n][p] <=> q[k + 1] = Shown(p, n) \/ (q[k + 1] # Hidden(p, n) /\ s.launchers[n][p])
    BY <1>2, <1>4
  <2> QED BY <2>1, <2>2, PendingNext
<1>6. Pending(d, q, k, LockHide, UnlockHide, s.locked) <=> Pending(d, q, k + 1, LockHide, UnlockHide, s.locked)
  <2>1. s.locked <=> q[k + 1] = LockHide \/ (q[k + 1] # UnlockHide /\ s.locked)
    BY <1>3
  <2>2. LockHide # UnlockHide
    BY <1>3
  <2> QED BY <2>1, <2>2, PendingNext
<1>7. ShownToCome(d, q, k) => ShownToCome(d, q, k + 1)
  BY <1>3, ToComeNext
<1>8. \A p \in OverlayNames, n \in Monitors : Open(t, p, n) <=> Open(s, p, n)
  <2>1. t \in Shells /\ t.dash = s.dash /\ t.hud = s.hud
    BY <1>2
  <2> QED BY <1>1, <2>1, ByName DEF Open
<1>9. LaunchersTold(t, q, k + 1)
  BY <1>2, <1>5, <1>8 DEF Good, LaunchersTold, d
<1>10. PanelsFollow(t, q, k + 1)
  <2>1. ASSUME NEW p \in OverlayNames, NEW n \in Monitors
        PROVE  /\ t.panels[n] = p => t.launchers[n][p]
               /\ t.launchers[n][p] /\ t.panels[n] # p => ToCome(d, q, k + 1, Hidden(p, n))
    <3>1. /\ s.panels[n] = p => s.launchers[n][p]
          /\ s.launchers[n][p] /\ s.panels[n] # p => ToCome(d, q, k, Hidden(p, n))
      BY DEF Good, PanelsFollow, d
    <3>2. p # ""
      BY DEF OverlayNames
    <3>3. CASE p = o /\ n = m
      BY <1>2, <3>2, <3>3
    <3>4. CASE ~(p = o /\ n = m)
      <4>1. ToCome(d, q, k, Hidden(p, n)) => ToCome(d, q, k + 1, Hidden(p, n))
        BY <1>4, <3>4, ToComeNext
      <4>2. t.launchers[n][p] <=> s.launchers[n][p]
        BY <1>2, <3>4
      <4>3. t.panels[n] = p <=> s.panels[n] = p
        <5>1. IF n = m /\ s.panels[m] = o THEN t.panels[n] = "" ELSE t.panels[n] = s.panels[n]
          BY <1>2
        <5> QED BY <3>2, <3>4, <5>1
      <4> QED BY <3>1, <4>1, <4>2, <4>3
    <3> QED BY <3>3, <3>4
  <2> QED BY <1>2, <2>1 DEF PanelsFollow, d
<1>11. LockTold(t, q, k + 1) /\ OneStays(t, q, k + 1)
  BY <1>2, <1>6, <1>7 DEF Good, LockTold, OneStays, d
<1>12. InputKnown(t) /\ Asides(t)
  BY <1>2 DEF Good, InputKnown, Asides
<1> QED BY <1>2, <1>9, <1>10, <1>11, <1>12 DEF Good, t

\* The other overlay has made room before.
LEMMA NextShown ==
  ASSUME NEW s, NEW q \in Seq(Messages), NEW k \in 0..(Len(q) - 1), Good(s, q, k),
         NEW o \in OverlayNames, NEW m \in Monitors, q[k + 1] = Shown(o, m), ~s[Other(o)].visible
  PROVE  Good(OverlayShown(s, o, m), q, k + 1)
<1> DEFINE d == s.queue["DEFAULT"]
           x == q[k + 1]
           t == OverlayShown(s, o, m)
<1>1. s \in Shells /\ x \in Messages /\ d \in Seq(Messages)
  BY ByName DEF Good
<1>2. /\ t \in Shells
      /\ t.locked = s.locked /\ t.queue = s.queue /\ t.dash = s.dash /\ t.hud = s.hud
      /\ t.notice = s.notice /\ t.focus = s.focus
      /\ \A p \in OverlayNames, n \in Monitors :
           t.launchers[n][p] <=> (p = o /\ n = m) \/ s.launchers[n][p]
      /\ \A n \in Monitors : t.panels[n] = IF n = m THEN o ELSE s.panels[n]
  <2>1. WhenShown(s, o, m, t)
    BY <1>1, ShownMakes
  <2> HIDE DEF t
  <2> QED BY <2>1 DEF WhenShown
<1>3. x # LockHide /\ x # UnlockHide /\ LockHide # UnlockHide
  BY MessagesDiffer
<1>4. \A p \in OverlayNames, n \in Monitors : x # Hidden(p, n) /\ (x = Shown(p, n) <=> p = o /\ n = m)
  BY MessagesDiffer
<1> HIDE DEF d, t
<1>5. ASSUME NEW p \in OverlayNames, NEW n \in Monitors
      PROVE  Pending(d, q, k, Shown(p, n), Hidden(p, n), s.launchers[n][p])
               <=> Pending(d, q, k + 1, Shown(p, n), Hidden(p, n), t.launchers[n][p])
  <2>1. Shown(p, n) # Hidden(p, n)
    BY MessagesDiffer
  <2>2. t.launchers[n][p] <=> q[k + 1] = Shown(p, n) \/ (q[k + 1] # Hidden(p, n) /\ s.launchers[n][p])
    BY <1>2, <1>4
  <2> QED BY <2>1, <2>2, PendingNext
<1>6. Pending(d, q, k, LockHide, UnlockHide, s.locked) <=> Pending(d, q, k + 1, LockHide, UnlockHide, s.locked)
  <2>1. s.locked <=> q[k + 1] = LockHide \/ (q[k + 1] # UnlockHide /\ s.locked)
    BY <1>3
  <2> QED BY <1>3, <2>1, PendingNext
<1>7. \A p \in OverlayNames, n \in Monitors : Open(t, p, n) <=> Open(s, p, n)
  BY <1>1, <1>2, ByName DEF Open
<1>8. LaunchersTold(t, q, k + 1)
  BY <1>2, <1>5, <1>7 DEF Good, LaunchersTold, d
<1>9. PanelsFollow(t, q, k + 1)
  <2>1. ASSUME NEW p \in OverlayNames, NEW n \in Monitors
        PROVE  /\ t.panels[n] = p => t.launchers[n][p]
               /\ t.launchers[n][p] /\ t.panels[n] # p => ToCome(d, q, k + 1, Hidden(p, n))
    <3>1. /\ s.panels[n] = p => s.launchers[n][p]
          /\ s.launchers[n][p] /\ s.panels[n] # p => ToCome(d, q, k, Hidden(p, n))
      BY DEF Good, PanelsFollow, d
    <3>2. ToCome(d, q, k, Hidden(p, n)) => ToCome(d, q, k + 1, Hidden(p, n))
      BY <1>4, ToComeNext
    <3>3. CASE n # m
      BY <1>2, <3>1, <3>2, <3>3
    <3>4. CASE n = m /\ p = o
      BY <1>2, <3>4
    <3>5. CASE n = m /\ p # o
      <4>1. (t.launchers[n][p] <=> s.launchers[n][p]) /\ t.panels[n] # p
        BY <1>2, <3>5
      <4>2. ASSUME s.launchers[n][p] PROVE ToCome(d, q, k, Hidden(p, n))
        <5>1. p = Other(o)
          BY <3>5 DEF Other, OverlayNames
        <5>2. ~Pending(d, q, k, Shown(p, n), Hidden(p, n), s.launchers[n][p])
          BY <5>1 DEF Good, LaunchersTold, Open, d
        <5>3. CASE Silent(d, 0, Shown(p, n), Hidden(p, n))
          <6>1. ~LastOn(q, k, Shown(p, n), Hidden(p, n)) /\ ~Silent(q, k, Shown(p, n), Hidden(p, n))
            BY <4>2, <5>2, <5>3 DEF Pending
          <6>2. \E i \in (k + 1)..Len(q) : q[i] = Hidden(p, n)
            BY <6>1, OffToCome
          <6> QED BY <6>2 DEF ToCome
        <5>4. CASE ~Silent(d, 0, Shown(p, n), Hidden(p, n))
          <6>1. ~LastOn(d, 0, Shown(p, n), Hidden(p, n)) /\ 0 \in 0..Len(d)
            BY <1>1, <5>2 DEF Pending
          <6>2. \E i \in (0 + 1)..Len(d) : d[i] = Hidden(p, n)
            BY <1>1, <5>4, <6>1, OffToCome
          <6> QED BY <6>2 DEF ToCome
        <5> QED BY <5>3, <5>4
      <4> QED BY <3>2, <4>1, <4>2
    <3> QED BY <3>3, <3>4, <3>5
  <2> QED BY <1>2, <2>1 DEF PanelsFollow, d
<1>10. OneStays(t, q, k + 1)
  <2>1. ~(s.dash.visible /\ s.hud.visible)
    BY <1>1, ByName DEF Other, OverlayNames
  <2> QED BY <1>2, <2>1 DEF OneStays
<1>11. LockTold(t, q, k + 1)
  BY <1>2, <1>6 DEF Good, LockTold, d
<1>12. InputKnown(t) /\ Asides(t)
  BY <1>2 DEF Good, InputKnown, Asides
<1> QED BY <1>2, <1>8, <1>9, <1>10, <1>11, <1>12 DEF Good, t

-----------------------------------------------------------------------------
(* The steps that tell nothing *)

LEMMA RemoveFirstType ==
  ASSUME NEW w \in Seq(OverlayNames), NEW o
  PROVE  RemoveFirst(w, o) \in Seq(OverlayNames)
<1> DEFINE I == {i \in 1..Len(w) : w[i] = o}
<1>1. CASE \A i \in 1..Len(w) : w[i] # o
  BY <1>1 DEF RemoveFirst
<1>2. CASE \E i \in 1..Len(w) : w[i] = o
  <2>1. I \in SUBSET Nat /\ I # {} /\ I \in SUBSET (1..Len(w))
    BY <1>2
  <2>2. PICK x \in I : \A y \in I : x <= y
    BY <2>1, Least
  <2>3. Min(I) \in I
    BY <2>2, Zenon DEF Min
  <2>4. SelectInSeq(w, LAMBDA v : v = o) = Min(I)
    BY <2>1 DEF SelectInSeq
  <2>5. RemoveFirst(w, o) = RemoveAt(w, Min(I))
    BY <1>2, <2>4 DEF RemoveFirst
  <2> HIDE DEF I
  <2>6. Min(I) \in 1..Len(w)
    BY <2>1, <2>3
  <2>7. RemoveAt(w, Min(I)) \in Seq(OverlayNames)
    BY <2>6 DEF RemoveAt
  <2> QED BY <2>5, <2>7
<1> QED BY <1>1, <1>2

\* t is s with other values of what nobody is told
LEMMA Unseen ==
  ASSUME NEW s, NEW q, NEW k, Good(s, q, k),
         NEW t \in Shells, SameView(s, t), SameKnown(s, t), t.queue = s.queue,
         (t.focus = s.focus /\ t.notice = s.notice) \/ (t.focus = "app" /\ t.notice)
  PROVE  Good(t, q, k)
<1>1. InputKnown(t) /\ Asides(t)
  BY DEF Good, InputKnown, Asides, SameView
<1> QED BY <1>1, Quiet

LEMMA Unheard ==
  ASSUME NEW s, NEW q, NEW k, Good(s, q, k)
  PROVE  /\ \A b \in BOOLEAN : Good([s EXCEPT !.need_show = b], q, k)
         /\ \A w \in Seq(OverlayNames) : Good([s EXCEPT !.waiting = w], q, k)
         /\ \A g \in {"none", "other", "scale"} : Good([s EXCEPT !.grab = g], q, k)
         /\ \A b \in BOOLEAN, g \in {"none", "other", "scale"} : Good([s EXCEPT !.need_show = b, !.grab = g], q, k)
         /\ \A f \in {"out", "rising", "in", "falling"} : Good([s EXCEPT !.dash.fade = f], q, k)
         /\ \A f \in {"out", "rising", "in", "falling"} : Good([s EXCEPT !.hud.fade = f], q, k)
<1>1. s \in Shells
  BY DEF Good
<1>2. ASSUME NEW b \in BOOLEAN PROVE Good([s EXCEPT !.need_show = b], q, k)
  <2> DEFINE t == [s EXCEPT !.need_show = b]
  <2>1. t \in Shells /\ SameView(s, t) /\ SameKnown(s, t) /\ t.queue = s.queue /\ t.focus = s.focus /\ t.notice = s.notice
    BY <1>1, <1>2 DEF Shells, SameView, SameKnown
  <2> HIDE DEF t
  <2>2. Good(t, q, k)
    BY <2>1, Unseen
  <2> QED BY <2>2 DEF t
<1>3. ASSUME NEW w \in Seq(OverlayNames) PROVE Good([s EXCEPT !.waiting = w], q, k)
  <2> DEFINE t == [s EXCEPT !.waiting = w]
  <2>1. t \in Shells /\ SameView(s, t) /\ SameKnown(s, t) /\ t.queue = s.queue /\ t.focus = s.focus /\ t.notice = s.notice
    BY <1>1, <1>3 DEF Shells, SameView, SameKnown
  <2> HIDE DEF t
  <2>2. Good(t, q, k)
    BY <2>1, Unseen
  <2> QED BY <2>2 DEF t
<1>4. ASSUME NEW g \in {"none", "other", "scale"} PROVE Good([s EXCEPT !.grab = g], q, k)
  <2> DEFINE t == [s EXCEPT !.grab = g]
  <2>1. t \in Shells /\ SameView(s, t) /\ SameKnown(s, t) /\ t.queue = s.queue /\ t.focus = s.focus /\ t.notice = s.notice
    BY <1>1, <1>4 DEF Shells, SameView, SameKnown
  <2> HIDE DEF t
  <2>2. Good(t, q, k)
    BY <2>1, Unseen
  <2> QED BY <2>2 DEF t
<1>5. ASSUME NEW b \in BOOLEAN, NEW g \in {"none", "other", "scale"} PROVE Good([s EXCEPT !.need_show = b, !.grab = g], q, k)
  <2> DEFINE t == [s EXCEPT !.need_show = b, !.grab = g]
  <2>1. t \in Shells /\ SameView(s, t) /\ SameKnown(s, t) /\ t.queue = s.queue /\ t.focus = s.focus /\ t.notice = s.notice
    BY <1>1, <1>5 DEF Shells, SameView, SameKnown
  <2> HIDE DEF t
  <2>2. Good(t, q, k)
    BY <2>1, Unseen
  <2> QED BY <2>2 DEF t
<1>6. ASSUME NEW f \in {"out", "rising", "in", "falling"} PROVE Good([s EXCEPT !.dash.fade = f], q, k)
  <2> DEFINE t == [s EXCEPT !.dash.fade = f]
  <2>1. t \in Shells /\ SameView(s, t) /\ SameKnown(s, t) /\ t.queue = s.queue /\ t.focus = s.focus /\ t.notice = s.notice
    BY <1>1, <1>6 DEF Shells, SameView, SameKnown, OverlayStates
  <2> HIDE DEF t
  <2>2. Good(t, q, k)
    BY <2>1, Unseen
  <2> QED BY <2>2 DEF t
<1>7. ASSUME NEW f \in {"out", "rising", "in", "falling"} PROVE Good([s EXCEPT !.hud.fade = f], q, k)
  <2> DEFINE t == [s EXCEPT !.hud.fade = f]
  <2>1. t \in Shells /\ SameView(s, t) /\ SameKnown(s, t) /\ t.queue = s.queue /\ t.focus = s.focus /\ t.notice = s.notice
    BY <1>1, <1>7 DEF Shells, SameView, SameKnown, OverlayStates
  <2> HIDE DEF t
  <2>2. Good(t, q, k)
    BY <2>1, Unseen
  <2> QED BY <2>2 DEF t
<1> QED BY <1>2, <1>3, <1>4, <1>5, <1>6, <1>7

LEMMA FocusKept ==
  ASSUME NEW s, NEW q, NEW k, Good(s, q, k)
  PROVE  Good(FocusApplication(s), q, k)
<1> DEFINE t == FocusApplication(s)
<1>1. t \in Shells /\ SameView(s, t) /\ SameKnown(s, t) /\ t.queue = s.queue /\ t.focus = "app" /\ t.notice
  BY DEF Good, Shells, SameView, SameKnown, FocusApplication
<1> HIDE DEF t
<1>2. Good(t, q, k)
  BY <1>1, Unseen
<1> QED BY <1>2 DEF t

LEMMA WaitKept ==
  ASSUME NEW s, NEW q, NEW k, Good(s, q, k), NEW o \in OverlayNames
  PROVE  Good(StopWaiting(s, o), q, k) /\ Good(Wait(s, o), q, k)
<1>1. s \in Shells /\ s.waiting \in Seq(OverlayNames)
  BY DEF Good, Shells
<1>2. RemoveFirst(s.waiting, o) \in Seq(OverlayNames)
  BY <1>1, RemoveFirstType
<1>3. Append(RemoveFirst(s.waiting, o), o) \in Seq(OverlayNames)
  BY <1>2
<1> QED BY <1>2, <1>3, Unheard DEF StopWaiting, Wait

-----------------------------------------------------------------------------
(* Messages are sent *)

Sent(s, x, p, t) ==
  /\ t \in Shells
  /\ t.dash = s.dash /\ t.hud = s.hud /\ t.need_show = s.need_show /\ t.waiting = s.waiting
  /\ t.launchers = s.launchers /\ t.panels = s.panels /\ t.locked = s.locked
  /\ t.grab = s.grab /\ t.focus = s.focus /\ t.notice = s.notice
  /\ t.queue[p] = Append(s.queue[p], x)
  /\ \A r \in Priorities : r # p => t.queue[r] = s.queue[r]

LEMMA Sends ==
  ASSUME NEW s \in Shells, NEW x \in Messages, NEW p \in Priorities
  PROVE  Sent(s, x, p, [s EXCEPT !.queue = SendMessageFull(@, x, p)])
<1> DEFINE r == [s.queue EXCEPT ![p] = Append(@, x)]
           t == [s EXCEPT !.queue = r]
<1>1. s.queue \in [Priorities -> Seq(Messages)]
  BY DEF Shells
<1>2. r \in [Priorities -> Seq(Messages)] /\ r[p] = Append(s.queue[p], x) /\ \A j \in Priorities : j # p => r[j] = s.queue[j]
  BY <1>1
<1> HIDE DEF r
<1>3. Sent(s, x, p, t)
  BY <1>2 DEF Shells, Sent
<1> QED BY <1>3 DEF SendMessageFull, r

LEMMA SendKept ==
  ASSUME NEW s, NEW q, NEW k, Good(s, q, k), NEW x \in Messages, x.name \notin Tells
  PROVE  Good(Send(s, x), q, k)
<1> DEFINE t == Send(s, x)
<1>1. s \in Shells
  BY DEF Good
<1>2. Sent(s, x, "DEFAULT", t)
  BY <1>1, Sends DEF Send, Priorities
<1> HIDE DEF t
<1>3. /\ t \in Shells /\ SameView(s, t) /\ SameKnown(s, t)
      /\ t.queue["DEFAULT"] = Append(s.queue["DEFAULT"], x)
      /\ t.queue["HIGH"] = s.queue["HIGH"] /\ t.queue["LOW"] = s.queue["LOW"]
  BY <1>2 DEF Sent, SameView, SameKnown, Priorities
<1>4. InputKnown(t) /\ Asides(t)
  BY <1>2, <1>3 DEF Good, Sent, InputKnown, Asides
<1>5. Good(t, q, k)
  BY <1>3, <1>4, SendsOther
<1> QED BY <1>5 DEF t

LEMMA AsideKept ==
  ASSUME NEW s, NEW q, NEW k, Good(s, q, k), NEW x \in Messages, x.name \in {"OVERLAY_CLOSE", "GOTO"},
         NEW p \in {"HIGH", "LOW"}
  PROVE  Good([s EXCEPT !.queue = SendMessageFull(@, x, p)], q, k)
<1> DEFINE t == [s EXCEPT !.queue = SendMessageFull(@, x, p)]
<1>1. s \in Shells
  BY DEF Good
<1>2. Sent(s, x, p, t)
  BY <1>1, Sends DEF Priorities
<1> HIDE DEF t
<1>3. t \in Shells /\ SameView(s, t) /\ SameKnown(s, t) /\ t.queue["DEFAULT"] = s.queue["DEFAULT"] /\ InputKnown(t)
  BY <1>2 DEF Good, InputKnown, Sent, SameView, SameKnown, Priorities
<1>4. Asides(t)
  <2>1. s.queue[p] \in Seq(Messages)
    BY <1>1 DEF Shells, Priorities
  <2>2. \A i \in 1..Len(Append(s.queue[p], x)) :
          IF i \in 1..Len(s.queue[p]) THEN Append(s.queue[p], x)[i] = s.queue[p][i] ELSE Append(s.queue[p], x)[i] = x
    BY <2>1
  <2>3. \A r \in {"HIGH", "LOW"} : r # p => t.queue[r] = s.queue[r]
    BY <1>2 DEF Sent, Priorities
  <2>4. ASSUME NEW r \in {"HIGH", "LOW"}, NEW i \in 1..Len(t.queue[r])
        PROVE  t.queue[r][i].name \in {"OVERLAY_CLOSE", "GOTO"}
    <3>1. CASE r # p
      BY <2>3, <3>1 DEF Good, Asides
    <3>2. CASE r = p
      <4>1. t.queue[p] = Append(s.queue[p], x)
        BY <1>2 DEF Sent
      <4>2. t.queue[r][i] = x \/ (i \in 1..Len(s.queue[p]) /\ t.queue[r][i] = s.queue[p][i])
        BY <2>2, <3>2, <4>1
      <4> QED BY <4>2 DEF Good, Asides
    <3> QED BY <3>1, <3>2
  <2> QED BY <2>4 DEF Asides
<1>5. Good(t, q, k)
  BY <1>3, <1>4, Quiet
<1> QED BY <1>5 DEF t

-----------------------------------------------------------------------------
(* The overlays *)

LEMMA HideDashKept ==
  ASSUME NEW s, NEW q, NEW k, Good(s, q, k)
  PROVE  Good(HideDash(s), q, k) /\ ~HideDash(s).dash.visible
<1>1. s \in Shells /\ s["dash"] = s.dash /\ s["hud"] = s.hud
  BY ByName DEF Good
<1>2. CASE ~s.dash.visible
  BY <1>2 DEF HideDash
<1>3. CASE s.dash.visible
  <2> DEFINE u == [FocusApplication(s) EXCEPT !.dash.visible = FALSE, !.dash.fade = "falling"]
             m == s.dash.monitor
             t == Send(u, Hidden("dash", m))
  <2>1. /\ u \in Shells /\ ~u.dash.visible /\ u.hud = s.hud /\ u.queue = s.queue
        /\ u.focus = "app" /\ u.notice
        /\ u.launchers = s.launchers /\ u.panels = s.panels /\ u.locked = s.locked
    BY <1>1 DEF Shells, OverlayStates, FocusApplication
  <2>2. m \in Monitors
    BY <1>1 DEF Shells, OverlayStates
  <2>3. HideDash(s) = t
    BY <1>3 DEF HideDash, SendOverlay, Hidden
  <2> HIDE DEF u, m
  <2>4. Sent(u, Hidden("dash", m), "DEFAULT", t)
    BY <2>1, <2>2, MessagesDiffer, Sends DEF Send, Priorities, OverlayNames
  <2> HIDE DEF t
  <2>5. /\ t \in Shells /\ ~t.dash.visible /\ t.hud = s.hud /\ SameKnown(s, t)
        /\ t.queue["DEFAULT"] = Append(s.queue["DEFAULT"], Hidden("dash", m))
        /\ t.queue["HIGH"] = s.queue["HIGH"] /\ t.queue["LOW"] = s.queue["LOW"]
        /\ t.focus = "app" /\ t.notice
    BY <2>1, <2>4 DEF Sent, SameKnown, Priorities
  <2>6. InputKnown(t) /\ Asides(t)
    BY <2>5 DEF Good, InputKnown, Asides
  <2>7. t["dash"] = t.dash /\ t["hud"] = t.hud
    BY <2>5, ByName
  <2>8. s["dash"].visible /\ s["dash"].monitor = m /\ "dash" \in OverlayNames /\ Other("dash") = "hud"
    BY <1>1, <1>3 DEF m, OverlayNames, Other
  <2>9. t.queue["DEFAULT"] = Append(First(s.queue["DEFAULT"], "dash", UnlockHide), Hidden("dash", m))
    BY <2>5 DEF First
  <2>10. Good(t, q, k)
    BY <1>1, <2>2, <2>5, <2>6, <2>7, <2>8, <2>9, Closes
  <2> QED BY <2>3, <2>5, <2>10
<1> QED BY <1>2, <1>3

LEMMA ShowDashKept ==
  ASSUME NEW s, NEW q, NEW k, Good(s, q, k), mouse \in Monitors
  PROVE  Good(ShowDash(s), q, k)
<1>1. s \in Shells /\ s["dash"] = s.dash /\ s["hud"] = s.hud
  BY ByName DEF Good
<1>2. CASE s.dash.visible
  BY <1>2 DEF ShowDash
<1>3. CASE ~s.dash.visible /\ s.grab # "none"
  BY <1>3, WaitKept DEF ShowDash, OverlayNames
<1>4. CASE ~s.dash.visible /\ s.grab = "none"
  <2> DEFINE w == StopWaiting(FocusApplication(s), "dash")
             u == [w EXCEPT !.dash = Opened(@), !.focus = "dash"]
             m == u.dash.monitor
             t == Send(u, Shown("dash", m))
  <2>1. Good(FocusApplication(s), q, k)
    BY FocusKept
  <2>2. w \in Shells
    BY <2>1, WaitKept DEF Good, OverlayNames
  <2>3. /\ w.dash = s.dash /\ w.hud = s.hud /\ w.queue = s.queue
        /\ w.launchers = s.launchers /\ w.panels = s.panels /\ w.locked = s.locked
    BY <1>1 DEF StopWaiting, FocusApplication, Shells
  <2>4. ShowDash(s) = t
    BY <1>4 DEF ShowDash, SendOverlay, Shown
  <2> HIDE DEF w
  <2>5. Opened(w.dash) \in OverlayStates /\ Opened(w.dash).visible
    BY <2>2 DEF Opened, OverlayStates, Shells
  <2>6. /\ u \in Shells /\ u.dash.visible /\ u.hud = s.hud /\ u.queue = s.queue
        /\ u.focus = "dash"
        /\ u.launchers = s.launchers /\ u.panels = s.panels /\ u.locked = s.locked
    BY <2>2, <2>3, <2>5 DEF Shells
  <2>7. m \in Monitors
    BY <2>6 DEF Shells, OverlayStates
  <2> HIDE DEF u
  <2>8. Sent(u, Shown("dash", m), "DEFAULT", t)
    <3> HIDE DEF m
    <3> QED BY <2>6, <2>7, MessagesDiffer, Sends DEF Send, Priorities, OverlayNames
  <2> HIDE DEF t
  <2>9. /\ t \in Shells /\ t.dash.visible /\ t.dash.monitor = m /\ t.hud = s.hud /\ SameKnown(s, t)
        /\ t.queue["DEFAULT"] = Append(s.queue["DEFAULT"], Shown("dash", m))
        /\ t.queue["HIGH"] = s.queue["HIGH"] /\ t.queue["LOW"] = s.queue["LOW"]
        /\ t.focus = "dash"
    BY <2>6, <2>8 DEF Sent, SameKnown, Priorities
  <2> HIDE DEF m
  <2>10. InputKnown(t) /\ Asides(t)
    BY <2>9 DEF Good, InputKnown, Asides
  <2>11. t["dash"] = t.dash /\ t["hud"] = t.hud
    BY <2>9, ByName
  <2>12. ~s["dash"].visible /\ "dash" \in OverlayNames /\ Other("dash") = "hud"
    BY <1>1, <1>4 DEF OverlayNames, Other
  <2>13. t.queue["DEFAULT"] = Append(First(s.queue["DEFAULT"], "dash", LockHide), Shown("dash", m))
    BY <2>9 DEF First
  <2>14. Good(t, q, k)
    BY <1>1, <2>7, <2>9, <2>10, <2>11, <2>12, <2>13, Opens
  <2> QED BY <2>4, <2>14
<1> QED BY <1>2, <1>3, <1>4

LEMMA HideHudKept ==
  ASSUME NEW s, NEW q, NEW k, Good(s, q, k)
  PROVE  Good(HideHud(s), q, k) /\ ~HideHud(s).hud.visible
<1>1. s \in Shells /\ s["dash"] = s.dash /\ s["hud"] = s.hud
  BY ByName DEF Good
<1>2. CASE ~s.hud.visible
  BY <1>2 DEF HideHud
<1>3. CASE s.hud.visible
  <2> DEFINE u == [FocusApplication(s) EXCEPT !.hud.visible = FALSE, !.hud.fade = "falling", !.need_show = FALSE]
             m == s.hud.monitor
             v == Send(u, UnlockHide)
             t == Send(v, Hidden("hud", m))
  <2>1. /\ u \in Shells /\ ~u.hud.visible /\ u.dash = s.dash /\ u.queue = s.queue
        /\ u.focus = "app" /\ u.notice
        /\ u.launchers = s.launchers /\ u.panels = s.panels /\ u.locked = s.locked
    BY <1>1 DEF Shells, OverlayStates, FocusApplication
  <2>2. m \in Monitors
    BY <1>1 DEF Shells, OverlayStates
  <2>3. HideHud(s) = t
    BY <1>3 DEF HideHud, SendOverlay, Hidden, UnlockHide
  <2> HIDE DEF u, m
  <2>4. Hidden("hud", m) \in Messages /\ UnlockHide \in Messages
    BY <2>2, MessagesDiffer DEF OverlayNames
  <2>5. Sent(u, UnlockHide, "DEFAULT", v)
    BY <2>1, <2>4, Sends DEF Send, Priorities
  <2>6. v \in Shells
    BY <2>5 DEF Sent
  <2> HIDE DEF v
  <2>7. Sent(v, Hidden("hud", m), "DEFAULT", t)
    BY <2>4, <2>6, Sends DEF Send, Priorities
  <2> HIDE DEF t
  <2>8. /\ t \in Shells /\ ~t.hud.visible /\ t.dash = s.dash /\ SameKnown(s, t)
        /\ t.queue["DEFAULT"] = Append(Append(s.queue["DEFAULT"], UnlockHide), Hidden("hud", m))
        /\ t.queue["HIGH"] = s.queue["HIGH"] /\ t.queue["LOW"] = s.queue["LOW"]
        /\ t.focus = "app" /\ t.notice
    BY <2>1, <2>5, <2>7 DEF Sent, SameKnown, Priorities
  <2>9. InputKnown(t) /\ Asides(t)
    BY <2>8 DEF Good, InputKnown, Asides
  <2>10. t["dash"] = t.dash /\ t["hud"] = t.hud
    BY <2>8, ByName
  <2>11. s["hud"].visible /\ s["hud"].monitor = m /\ "hud" \in OverlayNames /\ Other("hud") = "dash"
    BY <1>1, <1>3 DEF m, OverlayNames, Other
  <2>12. t.queue["DEFAULT"] = Append(First(s.queue["DEFAULT"], "hud", UnlockHide), Hidden("hud", m))
    BY <2>8 DEF First
  <2>13. Good(t, q, k)
    BY <1>1, <2>2, <2>8, <2>9, <2>10, <2>11, <2>12, Closes
  <2> QED BY <2>3, <2>8, <2>13
<1> QED BY <1>2, <1>3

LEMMA HudShownKept ==
  ASSUME NEW s, NEW q, NEW k, Good(s, q, k), mouse \in Monitors, ~s.hud.visible
  PROVE  Good(HudShown(s), q, k)
<1>1. s \in Shells /\ s["dash"] = s.dash /\ s["hud"] = s.hud
  BY ByName DEF Good
<1> DEFINE w == FocusApplication(s)
           u == [w EXCEPT !.hud = Opened(@), !.need_show = TRUE, !.focus = "hud"]
           m == u.hud.monitor
           v == Send(u, LockHide)
           t == Send(v, Shown("hud", m))
<1>2. w \in Shells
  BY FocusKept DEF Good
<1>3. /\ w.dash = s.dash /\ w.hud = s.hud /\ w.queue = s.queue
      /\ w.launchers = s.launchers /\ w.panels = s.panels /\ w.locked = s.locked
  BY <1>1 DEF FocusApplication, Shells
<1> HIDE DEF w
<1>4. Opened(w.hud) \in OverlayStates /\ Opened(w.hud).visible
  BY <1>2 DEF Opened, OverlayStates, Shells
<1>5. /\ u \in Shells /\ u.hud.visible /\ u.dash = s.dash /\ u.queue = s.queue
      /\ u.focus = "hud"
      /\ u.launchers = s.launchers /\ u.panels = s.panels /\ u.locked = s.locked
  BY <1>2, <1>3, <1>4 DEF Shells
<1>6. m \in Monitors
  BY <1>5 DEF Shells, OverlayStates
<1>7. HudShown(s) = t
  <2>1. v.hud.monitor = m
    BY <1>5 DEF Send, Shells
  <2>2. HudShown(s) = SendOverlay(v, "OVERLAY_SHOWN", "hud", m)
    BY DEF HudShown, LockHide, w
  <2> HIDE DEF v, m
  <2> QED BY <2>2 DEF SendOverlay, Shown
<1> HIDE DEF u
<1>8. Shown("hud", m) \in Messages /\ LockHide \in Messages
  <2> HIDE DEF m
  <2> QED BY <1>6, MessagesDiffer DEF OverlayNames
<1>9. Sent(u, LockHide, "DEFAULT", v)
  BY <1>5, <1>8, Sends DEF Send, Priorities
<1>10. v \in Shells
  BY <1>9 DEF Sent
<1> HIDE DEF v
<1>11. Sent(v, Shown("hud", m), "DEFAULT", t)
  <2> HIDE DEF m
  <2> QED BY <1>8, <1>10, Sends DEF Send, Priorities
<1> HIDE DEF t
<1>12. /\ t \in Shells /\ t.hud.visible /\ t.hud.monitor = m /\ t.dash = s.dash /\ SameKnown(s, t)
       /\ t.queue["DEFAULT"] = Append(Append(s.queue["DEFAULT"], LockHide), Shown("hud", m))
       /\ t.queue["HIGH"] = s.queue["HIGH"] /\ t.queue["LOW"] = s.queue["LOW"]
       /\ t.focus = "hud"
  BY <1>5, <1>9, <1>11 DEF Sent, SameKnown, Priorities
<1> HIDE DEF m
<1>13. InputKnown(t) /\ Asides(t)
  BY <1>12 DEF Good, InputKnown, Asides
<1>14. t["dash"] = t.dash /\ t["hud"] = t.hud
  BY <1>12, ByName
<1>15. ~s["hud"].visible /\ "hud" \in OverlayNames /\ Other("hud") = "dash"
  BY <1>1 DEF OverlayNames, Other
<1>16. t.queue["DEFAULT"] = Append(First(s.queue["DEFAULT"], "hud", LockHide), Shown("hud", m))
  BY <1>12 DEF First
<1>17. Good(t, q, k)
  BY <1>1, <1>6, <1>12, <1>13, <1>14, <1>15, <1>16, Opens
<1> QED BY <1>7, <1>17

LEMMA ShowHudOfKept ==
  ASSUME NEW s, NEW q, NEW k, Good(s, q, k), mouse \in Monitors, NEW late \in BOOLEAN
  PROVE  Good(ShowHudOf(s, late), q, k)
<1>1. CASE s.hud.visible \/ s.grab = "scale"
  BY <1>1 DEF ShowHudOf
<1>2. CASE ~(s.hud.visible \/ s.grab = "scale") /\ s.grab # "none"
  <2>1. \A b \in BOOLEAN : Good([s EXCEPT !.need_show = b], q, k)
    BY Unheard
  <2>2. Good([s EXCEPT !.need_show = TRUE], q, k)
    BY <2>1
  <2> QED BY <1>2, <2>2 DEF ShowHudOf
<1>3. CASE ~(s.hud.visible \/ s.grab = "scale") /\ s.grab = "none" /\ late
  <2>1. \A b \in BOOLEAN, g \in {"none", "other", "scale"} : Good([s EXCEPT !.need_show = b, !.grab = g], q, k)
    BY Unheard
  <2>2. Good([s EXCEPT !.need_show = TRUE, !.grab = "other"], q, k)
    BY <2>1
  <2> QED BY <1>3, <2>2 DEF ShowHudOf
<1>4. CASE ~(s.hud.visible \/ s.grab = "scale") /\ s.grab = "none" /\ ~late
  BY <1>4, HudShownKept DEF ShowHudOf
<1> QED BY <1>1, <1>2, <1>3, <1>4

LEMMA HudUngrabbedKept ==
  ASSUME NEW s, NEW q, NEW k, Good(s, q, k), mouse \in Monitors, NEW late \in BOOLEAN
  PROVE  Good(HudUngrabbed(s, late), q, k)
<1>1. CASE ~s.need_show
  BY <1>1 DEF HudUngrabbed
<1>2. CASE s.need_show /\ ~s.hud.visible
  BY <1>2, ShowHudOfKept DEF HudUngrabbed
<1>3. CASE s.need_show /\ s.hud.visible
  <2> DEFINE t == [s EXCEPT !.focus = "hud"]
  <2>1. /\ t \in Shells /\ SameView(s, t) /\ SameKnown(s, t) /\ t.queue = s.queue /\ t.focus = "hud"
    BY DEF Good, Shells, SameView, SameKnown
  <2>2. HudUngrabbed(s, late) = ShowHudOf(t, late)
    BY <1>3 DEF HudUngrabbed
  <2> HIDE DEF t
  <2>3. InputKnown(t) /\ Asides(t)
    BY <1>3, <2>1 DEF Good, InputKnown, Asides, SameView
  <2>4. Good(t, q, k)
    BY <2>1, <2>3, Quiet
  <2> QED BY <2>2, <2>4, ShowHudOfKept
<1> QED BY <1>1, <1>2, <1>3

LEMMA ShowHudKept ==
  ASSUME NEW s, NEW q, NEW k, Good(s, q, k), mouse \in Monitors, NEW late \in BOOLEAN
  PROVE  Good(ShowHud(s, late), q, k)
<1>1. CASE s.hud.visible
  BY <1>1, HideHudKept DEF ShowHud
<1>2. CASE ~s.hud.visible /\ s.grab # "none"
  BY <1>2, HideDashKept, WaitKept DEF ShowHud, OverlayNames
<1>3. CASE ~s.hud.visible /\ s.grab = "none"
  <2>1. Good(FocusApplication(HideDash(s)), q, k)
    BY HideDashKept, FocusKept
  <2>2. Good(StopWaiting(FocusApplication(HideDash(s)), "hud"), q, k)
    BY <2>1, WaitKept DEF OverlayNames
  <2> QED BY <1>3, <2>2, ShowHudOfKept DEF ShowHud
<1> QED BY <1>1, <1>2, <1>3

LEMMA QuicklyHideDashKept ==
  ASSUME NEW s, NEW q, NEW k, Good(s, q, k)
  PROVE  Good(QuicklyHideDash(s), q, k)
<1>1. Good(HideDash(s), q, k)
  BY HideDashKept
<1>2. \A f \in {"out", "rising", "in", "falling"} : Good([HideDash(s) EXCEPT !.dash.fade = f], q, k)
  BY <1>1, Unheard
<1> QED BY <1>2 DEF QuicklyHideDash

LEMMA HideBothKept ==
  ASSUME NEW s, NEW q, NEW k, Good(s, q, k)
  PROVE  Good(HideBoth(s), q, k)
BY HideDashKept, HideHudKept DEF HideBoth

-----------------------------------------------------------------------------
(* The messages of a queue are delivered *)

LEMMA DeliverOther ==
  ASSUME NEW s, NEW q, NEW k, Good(s, q, k), mouse \in Monitors, NEW x \in Messages, x.name \notin Tells
  PROVE  Good(Deliver(s, x), q, k)
<1>1. x.name \in {"OVERLAY_CLOSE", "HUD_CLOSE", "ACTIVATE", "GOTO", "EXTERNAL"}
  BY DEF Messages, Tells
<1>2. CASE x.name = "OVERLAY_CLOSE"
  BY <1>2, HideBothKept DEF Deliver
<1>3. CASE x.name = "HUD_CLOSE"
  BY <1>3, HideHudKept DEF Deliver
<1>4. CASE x.name = "EXTERNAL"
  <2>1. Good(OnExternalShowDash(s), q, k)
    BY HideDashKept, ShowDashKept DEF OnExternalShowDash
  <2> QED BY <1>4, <2>1 DEF Deliver
<1>5. CASE x.name \in {"ACTIVATE", "GOTO"}
  <2>1. [name |-> "EXTERNAL"] \in Messages /\ [name |-> "OVERLAY_CLOSE"] \in Messages
    BY DEF Messages
  <2>2. Good(Send(s, [name |-> "EXTERNAL"]), q, k)
    BY <2>1, SendKept DEF Tells
  <2>3. Good([s EXCEPT !.queue = SendMessageFull(@, [name |-> "OVERLAY_CLOSE"], "HIGH")], q, k)
    BY <2>1, AsideKept
  <2>4. Good(OnActivateRequest(s, x.name), q, k)
    BY <2>2, <2>3 DEF OnActivateRequest
  <2>5. Deliver(s, x) = OnActivateRequest(s, x.name)
    BY <1>5 DEF Deliver
  <2> QED BY <2>4, <2>5
<1> QED BY <1>1, <1>2, <1>3, <1>4, <1>5

LEMMA DeliverNext ==
  ASSUME NEW s, NEW q \in Seq(Messages), NEW k \in 0..(Len(q) - 1), Good(s, q, k), mouse \in Monitors
  PROVE  Good(Deliver(s, q[k + 1]), q, k + 1)
<1> DEFINE x == q[k + 1]
<1>1. x \in Messages
  OBVIOUS
<1>2. CASE x.name = "OVERLAY_SHOWN"
  <2> DEFINE o == x.overlay
             m == x.monitor
             r == MakeRoom(s, o)
  <2>1. o \in OverlayNames /\ m \in Monitors /\ x = Shown(o, m)
    BY <1>1, <1>2, MessageIs
  <2>2. Good(r, q, k) /\ ~r[Other(o)].visible
    <3>1. CASE o = "dash"
      <4>1. r = HideHud(s)
        BY <3>1 DEF MakeRoom
      <4>2. Good(r, q, k) /\ ~r.hud.visible
        BY <4>1, HideHudKept
      <4>3. r["hud"] = r.hud
        BY <4>2, ByName DEF Good
      <4> QED BY <3>1, <4>2, <4>3 DEF Other
    <3>2. CASE o = "hud"
      <4>1. r = HideDash(s)
        BY <3>2 DEF MakeRoom
      <4>2. Good(r, q, k) /\ ~r.dash.visible
        BY <4>1, HideDashKept
      <4>3. r["dash"] = r.dash
        BY <4>2, ByName DEF Good
      <4> QED BY <3>2, <4>2, <4>3 DEF Other
    <3> QED BY <2>1, <3>1, <3>2 DEF OverlayNames
  <2>3. Deliver(s, x) = OverlayShown(r, o, m)
    BY <1>2 DEF Deliver
  <2> HIDE DEF r, o, m
  <2>4. q[k + 1] = Shown(o, m)
    BY <2>1
  <2>5. Good(OverlayShown(r, o, m), q, k + 1)
    BY <2>1, <2>2, <2>4, NextShown
  <2> QED BY <2>3, <2>5
<1>3. CASE x.name = "OVERLAY_HIDDEN"
  <2>1. x.overlay \in OverlayNames /\ x.monitor \in Monitors /\ x = Hidden(x.overlay, x.monitor)
    BY <1>1, <1>3, MessageIs
  <2>2. Deliver(s, x) = OverlayHidden(s, x.overlay, x.monitor)
    BY <1>3 DEF Deliver
  <2>3. Good(OverlayHidden(s, x.overlay, x.monitor), q, k + 1)
    BY <2>1, NextHidden
  <2> QED BY <2>2, <2>3
<1>4. CASE x.name = "LOCK_HIDE"
  <2>1. x = LockHide /\ Deliver(s, x) = [s EXCEPT !.locked = TRUE]
    BY <1>1, <1>4, MessageIs DEF Deliver
  <2>2. q[k + 1] = IF TRUE THEN LockHide ELSE UnlockHide
    BY <2>1
  <2>3. Good([s EXCEPT !.locked = TRUE], q, k + 1)
    BY <2>2, NextLock
  <2> QED BY <2>1, <2>3
<1>5. CASE x.name = "UNLOCK_HIDE"
  <2>1. x = UnlockHide /\ Deliver(s, x) = [s EXCEPT !.locked = FALSE]
    BY <1>1, <1>5, MessageIs DEF Deliver
  <2>2. q[k + 1] = IF FALSE THEN LockHide ELSE UnlockHide
    BY <2>1
  <2>3. Good([s EXCEPT !.locked = FALSE], q, k + 1)
    BY <2>2, NextLock
  <2> QED BY <2>1, <2>3
<1>6. CASE x.name \notin Tells
  <2>1. Good(Deliver(s, x), q, k)
    BY <1>1, <1>6, DeliverOther
  <2> QED BY <1>6, <2>1, NextOther
<1> QED BY <1>2, <1>3, <1>4, <1>5, <1>6 DEF Tells

LEMMA CalledKept ==
  ASSUME NEW s, NEW q, NEW k, Good(s, q, k), mouse \in Monitors, NEW o, NEW late \in BOOLEAN
  PROVE  Good(Called(s, o, late), q, k)
<1>1. Good(ShowDash(s), q, k)
  BY ShowDashKept
<1>2. Good(ShowHud(s, late), q, k)
  BY ShowHudKept
<1> QED BY <1>1, <1>2 DEF Called

\* A queue is taken to be delivered.
Taken(s, p, t) ==
  /\ t \in Shells
  /\ t.dash = s.dash /\ t.hud = s.hud /\ t.launchers = s.launchers /\ t.panels = s.panels /\ t.locked = s.locked
  /\ t.focus = s.focus /\ t.notice = s.notice
  /\ t.queue[p] = <<>>
  /\ \A r \in Priorities : r # p => t.queue[r] = s.queue[r]

LEMMA Takes ==
  ASSUME NEW s \in Shells, NEW p \in Priorities
  PROVE  Taken(s, p, [s EXCEPT !.queue = Rest(@, p)])
<1> DEFINE r == [s.queue EXCEPT ![p] = <<>>]
           t == [s EXCEPT !.queue = r]
<1>1. s.queue \in [Priorities -> Seq(Messages)]
  BY DEF Shells
<1>2. r \in [Priorities -> Seq(Messages)] /\ r[p] = <<>> /\ \A j \in Priorities : j # p => r[j] = s.queue[j]
  BY <1>1
<1> HIDE DEF r
<1>3. Taken(s, p, t)
  BY <1>2 DEF Shells, Taken
<1> QED BY <1>3 DEF Rest, r

\* What was sent is what is to come.
LEMMA Begins ==
  ASSUME NEW s, Good(s, <<>>, 0)
  PROVE  Good([s EXCEPT !.queue = Rest(@, "DEFAULT")], s.queue["DEFAULT"], 0)
<1> DEFINE d == s.queue["DEFAULT"]
           t == [s EXCEPT !.queue = Rest(@, "DEFAULT")]
<1>1. s \in Shells /\ d \in Seq(Messages)
  BY ByName DEF Good
<1>2. Taken(s, "DEFAULT", t)
  BY <1>1, Takes DEF Priorities
<1> HIDE DEF d, t
<1>3. /\ t \in Shells /\ t.dash = s.dash /\ t.hud = s.hud /\ t.launchers = s.launchers /\ t.panels = s.panels
      /\ t.locked = s.locked /\ t.focus = s.focus /\ t.notice = s.notice
      /\ t.queue["DEFAULT"] = <<>> /\ t.queue["HIGH"] = s.queue["HIGH"] /\ t.queue["LOW"] = s.queue["LOW"]
  BY <1>2 DEF Taken, Priorities
<1>4. <<>> \in Seq(Messages) /\ Len(<<>>) = 0
  OBVIOUS
<1>5. \A on, off : ~LastOn(<<>>, 0, on, off) /\ Silent(<<>>, 0, on, off)
  BY <1>4, EndSays
<1>6. \A on, off, b : Pending(<<>>, d, 0, on, off, b) <=> Pending(d, <<>>, 0, on, off, b)
  BY <1>5 DEF Pending
<1>7. \A x : ToCome(<<>>, d, 0, x) <=> ToCome(d, <<>>, 0, x)
  BY <1>1 DEF ToCome
<1>8. ShownToCome(<<>>, d, 0) <=> ShownToCome(d, <<>>, 0)
  BY <1>1 DEF ShownToCome
<1>9. \A o \in OverlayNames, m \in Monitors : Open(t, o, m) <=> Open(s, o, m)
  <2>1. t \in Shells /\ t.dash = s.dash /\ t.hud = s.hud
    BY <1>3
  <2> QED BY <1>1, <2>1, ByName DEF Open
<1>10. LaunchersTold(t, d, 0)
  BY <1>3, <1>6, <1>9 DEF Good, LaunchersTold, d
<1>11. LockTold(t, d, 0)
  BY <1>3, <1>6 DEF Good, LockTold, d
<1>12. PanelsFollow(t, d, 0) /\ OneStays(t, d, 0)
  BY <1>3, <1>7, <1>8 DEF Good, PanelsFollow, OneStays, d
<1>13. InputKnown(t) /\ Asides(t)
  BY <1>3 DEF Good, InputKnown, Asides
<1> QED BY <1>3, <1>10, <1>11, <1>12, <1>13 DEF Good, d, t

LEMMA Ends ==
  ASSUME NEW s, NEW q \in Seq(Messages), Good(s, q, Len(q))
  PROVE  Good(s, <<>>, 0)
<1> DEFINE d == s.queue["DEFAULT"]
<1>1. <<>> \in Seq(Messages) /\ Len(<<>>) = 0
  OBVIOUS
<1>2. \A on, off : ~LastOn(<<>>, 0, on, off) /\ Silent(<<>>, 0, on, off)
  BY <1>1, EndSays
<1>3. \A on, off : ~LastOn(q, Len(q), on, off) /\ Silent(q, Len(q), on, off)
  BY EndSays
<1>4. \A on, off, b : Pending(d, q, Len(q), on, off, b) <=> Pending(d, <<>>, 0, on, off, b)
  BY <1>2, <1>3 DEF Pending
<1>5. \A i \in (Len(q) + 1)..Len(q) : FALSE
  OBVIOUS
<1>6. \A x : ToCome(d, q, Len(q), x) => ToCome(d, <<>>, 0, x)
  BY <1>5 DEF ToCome
<1>7. ShownToCome(d, q, Len(q)) => ShownToCome(d, <<>>, 0)
  BY <1>5 DEF ShownToCome
<1> HIDE DEF d
<1>8. LaunchersTold(s, <<>>, 0)
  BY <1>4 DEF Good, LaunchersTold, d
<1>9. LockTold(s, <<>>, 0)
  BY <1>4 DEF Good, LockTold, d
<1>10. PanelsFollow(s, <<>>, 0) /\ OneStays(s, <<>>, 0)
  BY <1>6, <1>7 DEF Good, PanelsFollow, OneStays, d
<1> QED BY <1>8, <1>9, <1>10 DEF Good

LEMMA DispatchKept ==
  ASSUME NEW s, Good(s, <<>>, 0), mouse \in Monitors, NEW p \in Priorities
  PROVE  Good(AllDelivered([s EXCEPT !.queue = Rest(@, p)], s.queue[p]), <<>>, 0)
<1> DEFINE start == [s EXCEPT !.queue = Rest(@, p)]
           q == s.queue[p]
<1>1. s \in Shells /\ s.queue \in [Priorities -> Seq(Messages)] /\ q \in Seq(Messages)
  BY DEF Good, Shells
<1>2. PICK states : /\ states[0] = start /\ states[Len(q)] = AllDelivered(start, q)
                    /\ \A k \in 0..(Len(q) - 1) : states[k + 1] = Deliver(states[k], q[k + 1])
  <2> HIDE DEF start, q
  <2> QED BY <1>1, DeliverStates
<1>3. CASE p = "DEFAULT"
  <2> DEFINE G == {k \in 0..Len(q) : Good(states[k], q, k)}
  <2>1. Good(start, q, 0)
    <3>1. start = [s EXCEPT !.queue = Rest(@, "DEFAULT")]
      BY <1>3
    <3> HIDE DEF start
    <3>2. Good(start, s.queue["DEFAULT"], 0)
      BY <3>1, Begins
    <3> QED BY <1>3, <3>2
  <2>2. 0 \in G
    <3>1. 0 \in 0..Len(q)
      BY <1>1
    <3> HIDE DEF start, q
    <3> QED BY <1>2, <2>1, <3>1
  <2>3. ASSUME NEW k \in 0..(Len(q) - 1), k \in G PROVE k + 1 \in G
    <3>1. k + 1 \in 0..Len(q)
      BY <1>1
    <3> HIDE DEF q
    <3>2. Good(Deliver(states[k], q[k + 1]), q, k + 1)
      BY <1>1, <2>3, DeliverNext
    <3>3. states[k + 1] = Deliver(states[k], q[k + 1])
      BY <1>2
    <3> QED BY <3>1, <3>2, <3>3
  <2>4. Len(q) \in Nat
    BY <1>1
  <2> HIDE DEF G, q, start
  <2>5. Len(q) \in G
    BY <2>2, <2>3, <2>4, ToTheEnd
  <2>6. Good(states[Len(q)], q, Len(q))
    BY <2>5 DEF G
  <2>7. Good(states[Len(q)], <<>>, 0)
    BY <1>1, <2>6, Ends
  <2> QED BY <1>2, <2>7 DEF start, q
<1>4. CASE p \in {"HIGH", "LOW"}
  <2> DEFINE G == {k \in 0..Len(q) : Good(states[k], <<>>, 0)}
  <2>1. Good(start, <<>>, 0)
    <3>0. Taken(s, p, start)
      BY <1>1, Takes
    <3> HIDE DEF start
    <3>1. start \in Shells /\ SameView(s, start) /\ SameKnown(s, start) /\ start.focus = s.focus /\ start.notice = s.notice
      BY <3>0 DEF Taken, SameView, SameKnown
    <3>2. start.queue["DEFAULT"] = s.queue["DEFAULT"] /\ \A r \in {"HIGH", "LOW"} : start.queue[r] = s.queue[r] \/ start.queue[r] = <<>>
      BY <1>4, <3>0 DEF Taken, Priorities
    <3>3. Asides(start)
      BY <3>2 DEF Good, Asides
    <3>4. InputKnown(start)
      BY <3>1 DEF Good, InputKnown, SameView
    <3> QED BY <3>1, <3>2, <3>3, <3>4, Quiet
  <2>2. 0 \in G
    <3>1. 0 \in 0..Len(q)
      BY <1>1
    <3> HIDE DEF start, q
    <3> QED BY <1>2, <2>1, <3>1
  <2>3. ASSUME NEW k \in 0..(Len(q) - 1), k \in G PROVE k + 1 \in G
    <3>1. k + 1 \in 0..Len(q) /\ k + 1 \in 1..Len(q)
      BY <1>1
    <3>5. q[k + 1].name \in {"OVERLAY_CLOSE", "GOTO"}
      BY <1>4, <3>1 DEF Good, Asides
    <3> HIDE DEF q
    <3>2. q[k + 1] \in Messages /\ q[k + 1].name \notin Tells
      BY <1>1, <3>1, <3>5 DEF Tells
    <3>3. Good(Deliver(states[k], q[k + 1]), <<>>, 0)
      BY <2>3, <3>2, DeliverOther
    <3>4. states[k + 1] = Deliver(states[k], q[k + 1])
      BY <1>2
    <3> QED BY <3>1, <3>3, <3>4
  <2>4. Len(q) \in Nat
    BY <1>1
  <2> HIDE DEF G, q, start
  <2>5. Len(q) \in G
    BY <2>2, <2>3, <2>4, ToTheEnd
  <2>6. Good(states[Len(q)], <<>>, 0)
    BY <2>5 DEF G
  <2> QED BY <1>2, <2>6 DEF start, q
<1> QED BY <1>3, <1>4 DEF Priorities

LEMMA AllCalledKept ==
  ASSUME NEW s, NEW q, NEW j, Good(s, q, j), mouse \in Monitors, NEW w \in Seq(OverlayNames), NEW late \in BOOLEAN
  PROVE  Good(AllCalled(s, w, late), q, j)
<1>1. PICK states : /\ states[0] = s /\ states[Len(w)] = AllCalled(s, w, late)
                    /\ \A k \in 0..(Len(w) - 1) : states[k + 1] = Called(states[k], w[k + 1], late)
  BY CalledStates
<1> DEFINE G == {k \in 0..Len(w) : Good(states[k], q, j)}
<1>2. 0 \in G
  <2>1. 0 \in 0..Len(w)
    OBVIOUS
  <2> QED BY <1>1, <2>1
<1>3. ASSUME NEW k \in 0..(Len(w) - 1), k \in G PROVE k + 1 \in G
  <2>1. k + 1 \in 0..Len(w)
    OBVIOUS
  <2>2. Good(Called(states[k], w[k + 1], late), q, j)
    BY <1>3, CalledKept
  <2> QED BY <1>1, <2>1, <2>2
<1>4. Len(w) \in Nat
  OBVIOUS
<1> HIDE DEF G
<1>5. Len(w) \in G
  BY <1>2, <1>3, <1>4, ToTheEnd
<1> QED BY <1>1, <1>5 DEF G

-----------------------------------------------------------------------------
(* The inductive invariant *)

OverlayInv == Good(shell, <<>>, 0) /\ mouse \in Monitors

LEMMA InitGood == Init => OverlayInv
<1> SUFFICES ASSUME Init PROVE OverlayInv
  OBVIOUS
<1>1. PICK m \in Monitors :
        shell = [dash |-> Closed(m), hud |-> Closed(m), need_show |-> FALSE, waiting |-> <<>>,
                 queue |-> NoMessages, launchers |-> [n \in Monitors |-> [dash |-> FALSE, hud |-> FALSE]],
                 locked |-> FALSE, panels |-> [n \in Monitors |-> ""],
                 grab |-> "none", focus |-> "app", notice |-> FALSE]
  BY DEF Init
<1>2. Closed(m) \in OverlayStates /\ ~Closed(m).visible
  BY DEF Closed, OverlayStates
<1>3. <<>> \in Seq(Messages) /\ <<>> \in Seq(OverlayNames) /\ Len(<<>>) = 0
  OBVIOUS
<1>4. NoMessages \in [Priorities -> Seq(Messages)] /\ \A p \in Priorities : NoMessages[p] = <<>>
  BY <1>3 DEF NoMessages
<1>5. /\ shell.dash = Closed(m) /\ shell.hud = Closed(m) /\ shell.queue = NoMessages /\ ~shell.locked
      /\ shell.launchers = [n \in Monitors |-> [dash |-> FALSE, hud |-> FALSE]]
      /\ shell.panels = [n \in Monitors |-> ""] /\ shell.focus = "app"
  BY <1>1
<1>6. shell \in Shells
  BY <1>1, <1>2, <1>3, <1>4 DEF Shells
<1>7. \A on, off : ~LastOn(<<>>, 0, on, off) /\ Silent(<<>>, 0, on, off)
  BY <1>3, EndSays
<1>8. \A on, off : ~Pending(<<>>, <<>>, 0, on, off, FALSE)
  BY <1>7 DEF Pending
<1>9. /\ ~shell.dash.visible /\ ~shell.hud.visible
      /\ \A p \in Priorities : shell.queue[p] = <<>>
      /\ \A o \in OverlayNames, n \in Monitors : shell.launchers[n][o] = FALSE /\ shell.panels[n] # o
  <2>1. ~shell.dash.visible /\ ~shell.hud.visible
    BY <1>2, <1>5
  <2>2. \A p \in Priorities : shell.queue[p] = <<>>
    BY <1>4, <1>5
  <2>3. ASSUME NEW o \in OverlayNames, NEW n \in Monitors PROVE shell.launchers[n][o] = FALSE
    <3>1. shell.launchers[n] = [dash |-> FALSE, hud |-> FALSE]
      BY <1>5
    <3>2. shell.launchers[n]["dash"] = FALSE /\ shell.launchers[n]["hud"] = FALSE
      BY <3>1
    <3> QED BY <3>2 DEF OverlayNames
  <2>4. \A o \in OverlayNames, n \in Monitors : shell.panels[n] # o
    BY <1>5 DEF OverlayNames
  <2> QED BY <2>1, <2>2, <2>3, <2>4
<1>10. LaunchersTold(shell, <<>>, 0)
  <2>1. ASSUME NEW o \in OverlayNames, NEW n \in Monitors
        PROVE  ~Open(shell, o, n) /\ ~Pending(shell.queue["DEFAULT"], <<>>, 0, Shown(o, n), Hidden(o, n), shell.launchers[n][o])
    <3>1. ~Open(shell, o, n)
      BY <1>6, <1>9, ByName DEF Open
    <3>2. shell.launchers[n][o] = FALSE
      BY <1>9
    <3> QED BY <1>8, <1>9, <3>1, <3>2 DEF Priorities
  <2> QED BY <2>1 DEF LaunchersTold
<1>11. LockTold(shell, <<>>, 0)
  <2>1. shell.locked = FALSE
    BY <1>1
  <2> QED BY <1>8, <1>9, <2>1 DEF LockTold, Priorities
<1>12. PanelsFollow(shell, <<>>, 0)
  BY <1>9 DEF PanelsFollow
<1>13. OneStays(shell, <<>>, 0) /\ InputKnown(shell)
  BY <1>5, <1>9 DEF OneStays, InputKnown
<1>14. Asides(shell)
  BY <1>9 DEF Asides, Priorities
<1>15. mouse \in Monitors
  BY DEF Init
<1> QED BY <1>6, <1>10, <1>11, <1>12, <1>13, <1>14, <1>15 DEF Good, OverlayInv

LEMMA BecomesGood ==
  ASSUME OverlayInv, NEW s, Good(s, <<>>, 0), Becomes(s)
  PROVE  OverlayInv'
BY DEF OverlayInv, Becomes

LEMMA FadeGood ==
  ASSUME OverlayInv, FadeFinished
  PROVE  OverlayInv'
<1>1. Good(shell, <<>>, 0)
  BY DEF OverlayInv
<1>2. /\ \A f \in {"out", "rising", "in", "falling"} : Good([shell EXCEPT !.dash.fade = f], <<>>, 0)
      /\ \A f \in {"out", "rising", "in", "falling"} : Good([shell EXCEPT !.hud.fade = f], <<>>, 0)
  BY <1>1, Unheard
<1>3. /\ Good([shell EXCEPT !.dash.fade = "in"], <<>>, 0) /\ Good([shell EXCEPT !.dash.fade = "out"], <<>>, 0)
      /\ Good([shell EXCEPT !.hud.fade = "in"], <<>>, 0) /\ Good([shell EXCEPT !.hud.fade = "out"], <<>>, 0)
  BY <1>2
<1> QED BY <1>3, BecomesGood DEF FadeFinished

LEMMA UngrabbedGood ==
  ASSUME OverlayInv, NEW late \in BOOLEAN, ScreenUngrabbed(late)
  PROVE  OverlayInv'
<1>1. Good(shell, <<>>, 0) /\ mouse \in Monitors
  BY DEF OverlayInv
<1>2. Good(HudUngrabbed(shell, late), <<>>, 0)
  BY <1>1, HudUngrabbedKept
<1>3. shell.waiting \in Seq(OverlayNames)
  BY <1>1 DEF Good, Shells
<1>4. Good(AllCalled(HudUngrabbed(shell, late), shell.waiting, late), <<>>, 0)
  BY <1>1, <1>2, <1>3, AllCalledKept
<1> QED BY <1>4, BecomesGood DEF ScreenUngrabbed

LEMMA DispatchGood ==
  ASSUME OverlayInv, NEW p \in Priorities, DispatchMessages(p)
  PROVE  OverlayInv'
<1>1. Good(shell, <<>>, 0) /\ mouse \in Monitors
  BY DEF OverlayInv
<1> DEFINE s == AllDelivered([shell EXCEPT !.queue = Rest(@, p)], shell.queue[p])
<1>2. Good(s, <<>>, 0)
  BY <1>1, DispatchKept
<1>3. Becomes(s)
  BY Zenon DEF DispatchMessages, AllDelivered
<1> HIDE DEF s
<1> QED BY <1>2, <1>3, BecomesGood

LEMMA FocusGood ==
  ASSUME OverlayInv, FocusChangeNotify
  PROVE  OverlayInv'
<1> DEFINE t == ReFocusKeyInput(shell)
<1>1. Good(shell, <<>>, 0) /\ shell \in Shells
  BY DEF OverlayInv, Good
<1>2. /\ t \in Shells /\ SameView(shell, t) /\ SameKnown(shell, t) /\ t.queue = shell.queue
      /\ t.focus = IF shell.dash.visible THEN "dash" ELSE IF shell.hud.visible THEN "hud" ELSE shell.focus
  BY <1>1 DEF Shells, SameView, SameKnown, ReFocusKeyInput
<1> HIDE DEF t
<1>3. InputKnown(t)
  BY <1>1, <1>2 DEF Good, InputKnown, SameView
<1>4. Asides(t)
  BY <1>1, <1>2 DEF Good, Asides
<1>5. Good(t, <<>>, 0)
  BY <1>1, <1>2, <1>3, <1>4, Quiet
<1> QED BY <1>5, BecomesGood DEF FocusChangeNotify, t

LEMMA TerminateKept ==
  ASSUME NEW s, Good(s, <<>>, 0)
  PROVE  Good(TerminateScale(s), <<>>, 0)
<1>1. \A g \in {"none", "other", "scale"} : Good([s EXCEPT !.grab = g], <<>>, 0)
  BY Unheard
<1>2. Good([s EXCEPT !.grab = "none"], <<>>, 0)
  BY <1>1
<1> QED BY <1>2 DEF TerminateScale

LEMMA NamesSent ==
  ASSUME NEW s, Good(s, <<>>, 0), NEW name \in {"ACTIVATE", "GOTO", "OVERLAY_CLOSE", "HUD_CLOSE"}
  PROVE  Good(Send(s, [name |-> name]), <<>>, 0)
<1>1. [name |-> name] \in Messages /\ [name |-> name].name \notin Tells
  BY DEF Messages, Tells
<1> QED BY <1>1, SendKept

LEMMA SuperTapGood ==
  ASSUME OverlayInv, SuperTap
  PROVE  OverlayInv'
<1>1. Good(shell, <<>>, 0) /\ mouse \in Monitors
  BY DEF OverlayInv
<1>2. PICK start \in {shell, TerminateScale(shell)} :
        LET s == HideHud(start)
            t == ShowDash(s)
        IN IF s.dash.visible THEN Becomes(HideDash(s)) \/ Becomes(Send(s, [name |-> "GOTO"]))
           ELSE Becomes(IF t.dash.visible THEN Send(t, [name |-> "GOTO"]) ELSE t)
  BY DEF SuperTap
<1> DEFINE s == HideHud(start)
           t == ShowDash(s)
<1>3. Good(s, <<>>, 0)
  BY <1>1, TerminateKept, HideHudKept
<1> HIDE DEF s
<1>4. Good(t, <<>>, 0) /\ Good(HideDash(s), <<>>, 0)
  BY <1>1, <1>3, ShowDashKept, HideDashKept
<1> HIDE DEF t
<1>5. Good(Send(s, [name |-> "GOTO"]), <<>>, 0) /\ Good(Send(t, [name |-> "GOTO"]), <<>>, 0)
  BY <1>3, <1>4, NamesSent
<1>6. \/ Becomes(HideDash(s)) \/ Becomes(Send(s, [name |-> "GOTO"]))
      \/ Becomes(Send(t, [name |-> "GOTO"])) \/ Becomes(t)
  BY <1>2 DEF s, t
<1> QED BY <1>4, <1>5, <1>6, BecomesGood

LEMMA RunCommandGood ==
  ASSUME OverlayInv, RunCommand
  PROVE  OverlayInv'
<1>1. Good(shell, <<>>, 0)
  BY DEF OverlayInv
<1> DEFINE s == TerminateScale(HideHud(shell))
<1>2. Good(s, <<>>, 0)
  BY <1>1, HideHudKept, TerminateKept
<1> DEFINE u == [s EXCEPT !.queue = SendMessageFull(@, [name |-> "GOTO"], "LOW")]
<1>3. Becomes(Send(s, [name |-> "OVERLAY_CLOSE"])) \/ Becomes(u)
  BY DEF RunCommand
<1> HIDE DEF s
<1>4. Good(Send(s, [name |-> "OVERLAY_CLOSE"]), <<>>, 0)
  BY <1>2, NamesSent
<1>5. [name |-> "GOTO"] \in Messages /\ [name |-> "GOTO"].name \in {"OVERLAY_CLOSE", "GOTO"}
  BY DEF Messages
<1>6. Good(u, <<>>, 0)
  BY <1>2, <1>5, AsideKept
<1> HIDE DEF u
<1> QED BY <1>3, <1>4, <1>6, BecomesGood

LEMMA OthersGood ==
  ASSUME OverlayInv, ClickOutside \/ OthersHide \/ ScaleStarts \/ GrabChanges \/ ApplicationTakesFocus
  PROVE  OverlayInv'
<1>1. Good(shell, <<>>, 0)
  BY DEF OverlayInv
<1>2. \A g \in {"none", "other", "scale"} : Good([shell EXCEPT !.grab = g], <<>>, 0)
  BY <1>1, Unheard
<1>3. CASE ClickOutside
  <2>1. Good(HideDash(shell), <<>>, 0) /\ Good(QuicklyHideDash(shell), <<>>, 0) /\ Good(HideHud(shell), <<>>, 0)
    BY <1>1, HideDashKept, QuicklyHideDashKept, HideHudKept
  <2>2. Becomes(HideDash(shell)) \/ Becomes(QuicklyHideDash(shell)) \/ Becomes(HideHud(shell))
    BY <1>3 DEF ClickOutside
  <2> QED BY <2>1, <2>2, BecomesGood
<1>4. CASE OthersHide
  <2>1. Good(HideBoth(shell), <<>>, 0)
    BY <1>1, HideBothKept
  <2> QED BY <1>4, <2>1, BecomesGood DEF OthersHide
<1>5. CASE ScaleStarts
  <2>1. Good([shell EXCEPT !.grab = "scale"], <<>>, 0)
    BY <1>2
  <2>2. Good(HideBoth([shell EXCEPT !.grab = "scale"]), <<>>, 0)
    BY <2>1, HideBothKept
  <2> QED BY <1>5, <2>2, BecomesGood DEF ScaleStarts
<1>6. CASE GrabChanges
  <2>1. Good([shell EXCEPT !.grab = IF @ = "none" THEN "other" ELSE "none"], <<>>, 0)
    BY <1>2
  <2> QED BY <1>6, <2>1, BecomesGood DEF GrabChanges
<1>7. CASE ApplicationTakesFocus
  <2>1. Good(FocusApplication(shell), <<>>, 0)
    BY <1>1, FocusKept
  <2> QED BY <1>7, <2>1, BecomesGood DEF ApplicationTakesFocus
<1> QED BY <1>3, <1>4, <1>5, <1>6, <1>7

LEMMA NextGood == OverlayInv /\ [Next]_vars => OverlayInv'
<1> SUFFICES ASSUME OverlayInv, [Next]_vars PROVE OverlayInv'
  OBVIOUS
<1>1. Good(shell, <<>>, 0) /\ mouse \in Monitors
  BY DEF OverlayInv
<1>2. ASSUME NEW p \in Priorities, DispatchMessages(p) PROVE OverlayInv'
  BY <1>2, DispatchGood
<1>3. CASE FadeFinished
  BY <1>3, FadeGood
<1>4. ASSUME NEW overlay \in OverlayNames, WaitTimeout(overlay) PROVE OverlayInv'
  <2>1. Good(StopWaiting(shell, overlay), <<>>, 0)
    BY <1>1, WaitKept
  <2> QED BY <1>4, <2>1, BecomesGood DEF WaitTimeout
<1>5. ASSUME NEW late \in BOOLEAN, ScreenUngrabbed(late) PROVE OverlayInv'
  BY <1>5, UngrabbedGood
<1>6. ASSUME NEW late \in BOOLEAN, AltTap(late) PROVE OverlayInv'
  <2>1. Good(ShowHud(shell, late), <<>>, 0)
    BY <1>1, ShowHudKept
  <2> QED BY <1>6, <2>1, BecomesGood DEF AltTap
<1>7. CASE FocusChangeNotify
  BY <1>7, FocusGood
<1>8. CASE SuperTap
  BY <1>8, SuperTapGood
<1>9. CASE RunCommand
  BY <1>9, RunCommandGood
<1>10. ASSUME NEW name \in {"ACTIVATE", "GOTO", "OVERLAY_CLOSE", "HUD_CLOSE"}, OthersSend(name) PROVE OverlayInv'
  <2>1. Good(Send(shell, [name |-> name]), <<>>, 0)
    BY <1>1, NamesSent
  <2> QED BY <1>10, <2>1, BecomesGood DEF OthersSend
<1>11. CASE ClickOutside \/ OthersHide \/ ScaleStarts \/ GrabChanges \/ ApplicationTakesFocus
  BY <1>11, OthersGood
<1>12. CASE MouseMoves
  BY <1>1, <1>12 DEF MouseMoves, OverlayInv
<1>13. CASE UNCHANGED vars
  BY <1>1, <1>13 DEF vars, OverlayInv
<1> QED BY <1>2, <1>3, <1>4, <1>5, <1>6, <1>7, <1>8, <1>9, <1>10, <1>11, <1>12, <1>13 DEF Next

LEMMA AlwaysGood == Spec => []OverlayInv
BY InitGood, NextGood, PTL DEF Spec

-----------------------------------------------------------------------------
(* The theorems *)

LEMMA GoodAtRest ==
  ASSUME OverlayInv
  PROVE  /\ TypeOK /\ OneOverlay
         /\ Told => /\ shell.locked = shell.hud.visible
                    /\ \A o \in OverlayNames, m \in Monitors :
                         /\ shell.launchers[m][o] <=> shell[o].visible /\ shell[o].monitor = m
                         /\ shell.panels[m] = o <=> shell.launchers[m][o]
                    /\ ~(shell.dash.visible /\ shell.hud.visible)
         /\ shell \in Shells /\ InputKnown(shell)
<1>1. Good(shell, <<>>, 0) /\ shell \in Shells /\ mouse \in Monitors
  BY DEF OverlayInv, Good
<1>2. TypeOK /\ InputKnown(shell)
  BY <1>1 DEF TypeOK, Good
<1>3. shell.queue["DEFAULT"] \in Seq(Messages)
  BY <1>1, ByName
<1>4. shell.dash.visible /\ shell.hud.visible =>
        \E i \in 1..Len(shell.queue["DEFAULT"]) : shell.queue["DEFAULT"][i].name = "OVERLAY_SHOWN"
  BY <1>1 DEF Good, OneStays, ShownToCome
<1>5. OneOverlay
  BY <1>3, <1>4 DEF OneOverlay
<1>6. ASSUME Told
      PROVE  /\ shell.locked = shell.hud.visible
             /\ \A o \in OverlayNames, m \in Monitors :
                  /\ shell.launchers[m][o] <=> shell[o].visible /\ shell[o].monitor = m
                  /\ shell.panels[m] = o <=> shell.launchers[m][o]
             /\ ~(shell.dash.visible /\ shell.hud.visible)
  <2>1. shell.queue["DEFAULT"] = <<>> /\ Len(<<>>) = 0 /\ <<>> \in Seq(Messages)
    BY <1>6 DEF Told, NoMessages, Priorities
  <2>2. \A on, off : ~LastOn(<<>>, 0, on, off) /\ Silent(<<>>, 0, on, off)
    BY <2>1, EndSays
  <2>3. \A on, off, b : Pending(<<>>, <<>>, 0, on, off, b) <=> b
    BY <2>2 DEF Pending
  <2>4. \A i \in 1..Len(<<>>) : FALSE
    BY <2>1
  <2>5. \A x : ~ToCome(<<>>, <<>>, 0, x)
    BY <2>4 DEF ToCome
  <2>6. ~ShownToCome(<<>>, <<>>, 0)
    BY <2>4 DEF ShownToCome
  <2>7. shell.locked \in BOOLEAN /\ shell.hud.visible \in BOOLEAN
    BY <1>1 DEF Shells, OverlayStates
  <2>8. shell.hud.visible <=> shell.locked
    BY <1>1, <2>1, <2>3 DEF Good, LockTold
  <2>9. ASSUME NEW o \in OverlayNames, NEW m \in Monitors
        PROVE  /\ shell.launchers[m][o] <=> shell[o].visible /\ shell[o].monitor = m
               /\ shell.panels[m] = o <=> shell.launchers[m][o]
    <3>1. Open(shell, o, m) <=> shell.launchers[m][o]
      BY <1>1, <2>1, <2>3 DEF Good, LaunchersTold
    <3>2. /\ shell.panels[m] = o => shell.launchers[m][o]
          /\ shell.launchers[m][o] /\ shell.panels[m] # o => ToCome(<<>>, <<>>, 0, Hidden(o, m))
      BY <1>1, <2>1 DEF Good, PanelsFollow
    <3> QED BY <2>5, <3>1, <3>2 DEF Open
  <2>10. ~(shell.dash.visible /\ shell.hud.visible)
    BY <1>1, <2>1, <2>6 DEF Good, OneStays
  <2> QED BY <2>7, <2>8, <2>9, <2>10
<1> QED BY <1>1, <1>2, <1>5, <1>6

\* Every state of the dash, the HUD, the queues of UBus and what launchers and panels
\* keep of them is one of those described.
THEOREM TypesHold == Spec => []TypeOK
<1>1. OverlayInv => TypeOK
  BY GoodAtRest
<1> QED BY <1>1, AlwaysGood, PTL

\* The dash and the HUD are never both open unless the message is on its way that makes
\* one of them go, whatever is pressed, clicked or delivered in which order
\* (DashController.cpp:179, HudController.cpp).
THEOREM OneOverlayHolds == Spec => []OneOverlay
<1>1. OverlayInv => OneOverlay
  BY GoodAtRest
<1> QED BY <1>1, AlwaysGood, PTL

\* When all messages have arrived, the launchers and the panels of all monitors know what
\* is open and where, and the launchers are locked away exactly while the HUD is open:
\* OnOverlayShown and OnOverlayHidden of Launcher.cpp and PanelView.cpp, whatever came
\* between.
THEOREM ShellAgreesHolds == Spec => []ShellAgrees
<1>1. OverlayInv => ShellAgrees
  <2> SUFFICES ASSUME OverlayInv, Told PROVE ShellAgrees
    BY DEF ShellAgrees
  <2>1. /\ shell.locked = shell.hud.visible
        /\ \A o \in OverlayNames, m \in Monitors :
             /\ shell.launchers[m][o] <=> shell[o].visible /\ shell[o].monitor = m
             /\ shell.panels[m] = o <=> shell.launchers[m][o]
        /\ shell \in Shells
    BY GoodAtRest
  <2>2. ASSUME NEW m \in Monitors, NEW open, open = {o \in OverlayNames : shell[o].visible /\ shell[o].monitor = m}
        PROVE  /\ {o \in OverlayNames : shell.launchers[m][o]} = open
               /\ IF shell.panels[m] = "" THEN open = {} ELSE open = {shell.panels[m]}
    <3>1. \A o \in OverlayNames : (o \in open <=> shell.launchers[m][o]) /\ (shell.panels[m] = o <=> o \in open)
      BY <2>1, <2>2
    <3>2. open \in SUBSET OverlayNames /\ shell.panels[m] \in OverlayNames \cup {""}
      BY <2>1, <2>2 DEF Shells
    <3>3. "" \notin OverlayNames
      BY DEF OverlayNames
    <3> QED BY <3>1, <3>2, <3>3
  <2> QED BY <2>1, <2>2 DEF ShellAgrees
<1> QED BY <1>1, AlwaysGood, PTL

\* The input goes to the overlay that is open, and to none that is closed, once all that
\* was told and what the X server has to tell has arrived: a hidden overlay gives the
\* input back, and the plugin returns it to one that is open (unityshell.cpp, compiz's
\* FocusChangeNotify).
THEOREM FocusFollowsHolds == Spec => []FocusFollows
<1>1. OverlayInv => FocusFollows
  <2> SUFFICES ASSUME OverlayInv, Told, ~shell.notice PROVE FocusFollows
    BY DEF FocusFollows
  <2>1. ~(shell.dash.visible /\ shell.hud.visible) /\ InputKnown(shell)
    BY GoodAtRest
  <2> QED BY <2>1 DEF FocusFollows, InputKnown
<1> QED BY <1>1, AlwaysGood, PTL
=============================================================================
