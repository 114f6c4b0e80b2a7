-------------------------- MODULE SchedulerProofs --------------------------
(***************************************************************************)
(* Proofs about the delayed delivery, for any messages, schedulers, rungs, *)
(* prefetch and bounds on delays, slack and faults: what after() returned  *)
(* for is kept until it arrives, and arrives once if nothing went wrong;   *)
(* the ladder never overshoots, and is late by no more than slack.         *)
(*                                                                         *)
(* A message weighs what the broker owes of it (in rungs, on the control   *)
(* queue, in schedulers' hands), how often it arrived, and what a put-back *)
(* or the application may still add: no step adds more than a fault        *)
(* accounts for (Weighed), so an undisturbed message weighs one.  A rung   *)
(* is sorted by what is left of each stay, as all stay equally long, so a  *)
(* message whose stay is over is never behind one whose is not, and time   *)
(* that passes then is slack (Sorted, Ladder).                             *)
(***************************************************************************)
EXTENDS Scheduler, FiniteSetTheorems, SequenceTheorems, WellFoundedInduction, TLAPS

-----------------------------------------------------------------------------
(* Numbers and finite sets *)

\* A set of numbers that is not empty has a least one.
LEMMA LeastNumber ==
  ASSUME NEW T, T \subseteq Nat, T # {}
  PROVE  \E x \in T : \A y \in T : x <= y
<1> DEFINE R == {ss \in Nat \X Nat : ss[1] < ss[2]}
<1>1. IsWellFoundedOn(R, Nat)
  BY NatLessThanWellFounded DEF OpToRel
<1>2. \E x \in T : \A y \in T : ~(<<y, x>> \in R)
  <2> HIDE DEF R
  <2> QED
    BY <1>1, WFMin
<1>3. PICK x \in T : \A y \in T : ~(<<y, x>> \in R)
  BY <1>2
<1>4. \A a, b \in Nat : a < b => <<a, b>> \in R
  OBVIOUS
<1> HIDE DEF R
<1>5. \A y \in T : ~(y < x)
  BY <1>3, <1>4
<1> QED
  BY <1>5

\* What Max says of two numbers.
LEMMA MaxOfTwo ==
  ASSUME NEW a \in Int, NEW b \in Int
  PROVE  /\ Max({a, b}) \in {a, b} /\ Max({a, b}) >= a /\ Max({a, b}) >= b
<1> DEFINE S == {a, b}
<1>1. \E x \in S : \A y \in S : x >= y
  <2>1. CASE a >= b
    BY <2>1
  <2>2. CASE b >= a
    BY <2>2
  <2> QED
    BY <2>1, <2>2
<1>2. PICK v : v = Max(S)
  OBVIOUS
<1>3. v \in S /\ \A y \in S : v >= y
  BY <1>1, <1>2 DEF Max
<1> QED
  BY <1>2, <1>3

\* The smallest rung is one, and none is smaller.
LEMMA SmallestRung == Smallest \in Rungs /\ \A r \in Rungs : Smallest <= r
<1>1. Rungs \subseteq Nat /\ Rungs # {}
  BY SchedulerAssumption
<1>2. \E x \in Rungs : \A y \in Rungs : x <= y
  BY <1>1, LeastNumber
<1>3. PICK v : v = Min(Rungs)
  OBVIOUS
<1>4. v \in Rungs /\ \A y \in Rungs : v <= y
  BY <1>2, <1>3 DEF Min
<1> QED
  BY <1>3, <1>4 DEF Smallest

\* A message that is not due has a rung to go to, and it does not overshoot.
LEMMA FittingRung ==
  ASSUME NEW m \in Messages, left[m] \in Int, ~IsDue(m)
  PROVE  RungFor(m) \in Rungs /\ RungFor(m) <= left[m]
<1> DEFINE S == {r \in Rungs : r <= left[m]}
           T == {n \in Nat : \E r \in S : n = left[m] - r}
<1>1. Smallest \in Rungs /\ Rungs \subseteq Nat \ {0}
  BY SmallestRung, SchedulerAssumption
<1>2. Smallest \in S /\ left[m] - Smallest \in T
  BY <1>1 DEF IsDue
<1>3. PICK n \in T : \A k \in T : n <= k
  BY <1>2, LeastNumber
<1>4. PICK x \in S : n = left[m] - x
  BY <1>3
<1>5. \A y \in S : left[m] - y \in T
  BY <1>1
<1>6. \A y \in S : x >= y
  BY <1>1, <1>3, <1>4, <1>5
<1>7. PICK v : v = Max(S)
  OBVIOUS
<1>8. v \in S
  BY <1>6, <1>7 DEF Max
<1> QED
  BY <1>7, <1>8 DEF RungFor

\* Two finite sets that differ in one element at most.
LEMMA OneElement ==
  ASSUME NEW S, NEW T, NEW x, IsFiniteSet(S), S \ {x} = T \ {x}
  PROVE  /\ IsFiniteSet(T) /\ Cardinality(S) \in Nat /\ Cardinality(T) \in Nat
         /\ Cardinality(T) = Cardinality(S) + (IF x \in T THEN 1 ELSE 0) - (IF x \in S THEN 1 ELSE 0)
<1>1. /\ IsFiniteSet(S \ {x})
      /\ Cardinality(S \ {x}) = IF x \in S THEN Cardinality(S) - 1 ELSE Cardinality(S)
  BY FS_RemoveElement
<1>2. IsFiniteSet(T)
  <2>1. IsFiniteSet((T \ {x}) \cup {x})
    BY <1>1, FS_AddElement
  <2> QED
    BY <2>1, FS_Subset
<1>3. Cardinality(T \ {x}) = IF x \in T THEN Cardinality(T) - 1 ELSE Cardinality(T)
  BY <1>2, FS_RemoveElement
<1>4. Cardinality(S) \in Nat /\ Cardinality(T) \in Nat
  BY <1>2, FS_CardinalityType
<1> QED
  BY <1>1, <1>2, <1>3, <1>4

-----------------------------------------------------------------------------
(* Places in sequences, and how many *)

\* Of any two sequences, one after the other.
LEMMA Concatenated ==
  ASSUME NEW S
  PROVE  \A p, q \in Seq(S) :
           /\ p \o q \in Seq(S) /\ Len(p \o q) = Len(p) + Len(q)
           /\ \A i \in 1..Len(p) + Len(q) : (p \o q)[i] = IF i <= Len(p) THEN p[i] ELSE q[i - Len(p)]
  BY ConcatProperties

\* The places of a sequence put before another.
LEMMA JoinedPlaces ==
  ASSUME NEW S, NEW s \in Seq(S), NEW q \in Seq(S)
  PROVE  /\ s \o q \in Seq(S) /\ Len(s) \in Nat
         /\ \A i \in DOMAIN s : i \in Nat /\ i <= Len(s) /\ i \in DOMAIN (s \o q) /\ (s \o q)[i] = s[i]
         /\ \A i \in DOMAIN q : i \in Nat /\ i + Len(s) \in DOMAIN (s \o q) /\ (s \o q)[i + Len(s)] = q[i]
         /\ \A i \in DOMAIN (s \o q) : i \in Nat /\ (i \in DOMAIN s \/ i - Len(s) \in DOMAIN q)
<1> DEFINE r == s \o q
<1>1. /\ r \in Seq(S) /\ Len(r) = Len(s) + Len(q)
      /\ \A i \in 1..Len(s) + Len(q) : r[i] = IF i <= Len(s) THEN s[i] ELSE q[i - Len(s)]
  BY ConcatProperties, Zenon
<1> HIDE DEF r
<1>2. Len(s) \in Nat /\ Len(q) \in Nat /\ DOMAIN s = 1..Len(s) /\ DOMAIN q = 1..Len(q)
  OBVIOUS
<1>3. DOMAIN r = 1..Len(s) + Len(q)
  BY <1>1, <1>2
<1>4. \A i \in DOMAIN s : i \in Nat /\ i <= Len(s) /\ i \in DOMAIN r /\ r[i] = s[i]
  BY <1>1, <1>2, <1>3
<1>5. ASSUME NEW i \in DOMAIN q PROVE i \in Nat /\ i + Len(s) \in DOMAIN r /\ r[i + Len(s)] = q[i]
  <2>1. i \in Nat /\ i + Len(s) \in 1..Len(s) + Len(q) /\ ~(i + Len(s) <= Len(s)) /\ i + Len(s) - Len(s) = i
    BY <1>2
  <2> QED
    BY <2>1, <1>1, <1>3
<1>6. \A i \in DOMAIN r : i \in Nat /\ (i \in DOMAIN s \/ i - Len(s) \in DOMAIN q)
  BY <1>2, <1>3
<1> QED
  BY <1>1, <1>2, <1>4, <1>5, <1>6 DEF r

\* The places of a sequence without its head.
LEMMA TailPlaces ==
  ASSUME NEW S, NEW s \in Seq(S), s # <<>>
  PROVE  /\ Tail(s) \in Seq(S) /\ Head(s) \in S /\ 1 \in DOMAIN s /\ s[1] = Head(s)
         /\ s = <<Head(s)>> \o Tail(s)
         /\ \A i \in DOMAIN Tail(s) : i \in Nat /\ 1 < i + 1 /\ i + 1 \in DOMAIN s /\ Tail(s)[i] = s[i + 1]
<1>1. /\ Tail(s) \in Seq(S) /\ Head(s) \in S /\ s[1] = Head(s) /\ Len(Tail(s)) = Len(s) - 1
      /\ \A i \in 1..Len(s) - 1 : Tail(s)[i] = s[i + 1]
  BY HeadTailProperties
<1>2. Len(s) \in Nat \ {0} /\ DOMAIN s = 1..Len(s)
  OBVIOUS
<1>3. DOMAIN Tail(s) = 1..Len(s) - 1
  BY <1>1, <1>2
<1>4. ASSUME NEW i \in DOMAIN Tail(s)
      PROVE  i \in Nat /\ 1 < i + 1 /\ i + 1 \in DOMAIN s /\ Tail(s)[i] = s[i + 1]
  BY <1>1, <1>2, <1>3
<1>5. s = <<Head(s)>> \o Tail(s)
  OBVIOUS
<1> QED
  BY <1>1, <1>2, <1>4, <1>5

\* The places of a sequence with one more.
LEMMA AppendPlaces ==
  ASSUME NEW S, NEW s \in Seq(S), NEW x \in S
  PROVE  /\ Append(s, x) \in Seq(S) /\ Append(s, x) = s \o <<x>> /\ Len(s) \in Nat
         /\ Len(s) + 1 \in DOMAIN Append(s, x) /\ Append(s, x)[Len(s) + 1] = x
         /\ \A i \in DOMAIN s : i \in Nat /\ i < Len(s) + 1 /\ i \in DOMAIN Append(s, x) /\ Append(s, x)[i] = s[i]
         /\ \A i \in DOMAIN Append(s, x) : i \in Nat /\ (i = Len(s) + 1 \/ i \in DOMAIN s)
<1>1. /\ Append(s, x) \in Seq(S) /\ Len(Append(s, x)) = Len(s) + 1
      /\ \A i \in 1..Len(s) : Append(s, x)[i] = s[i]
      /\ Append(s, x)[Len(s) + 1] = x
  BY AppendProperties
<1>2. Len(s) \in Nat /\ DOMAIN s = 1..Len(s)
  OBVIOUS
<1>3. DOMAIN Append(s, x) = 1..Len(s) + 1
  BY <1>1, <1>2
<1>4. Append(s, x) = s \o <<x>>
  BY AppendIsConcat
<1> QED
  BY <1>1, <1>2, <1>3, <1>4

\* The places with an element of a set, and how many they are.
At(s, A) == {i \in DOMAIN s : s[i] \in A}
CountOf(s, A) == Cardinality(At(s, A))

\* They are finitely many.
LEMMA CountIs ==
  ASSUME NEW S, NEW s \in Seq(S), NEW A
  PROVE  /\ IsFiniteSet(At(s, A)) /\ CountOf(s, A) \in Nat /\ At(s, A) \subseteq 1..Len(s)
         /\ CountOf(s, A) = 0 <=> \A i \in DOMAIN s : s[i] \notin A
<1>1. At(s, A) \subseteq 1..Len(s) /\ Len(s) \in Nat
  BY DEF At
<1>2. IsFiniteSet(1..Len(s))
  BY <1>1, FS_Interval
<1>3. IsFiniteSet(At(s, A))
  BY <1>1, <1>2, FS_Subset
<1>4. Cardinality(At(s, A)) \in Nat /\ (Cardinality(At(s, A)) = 0 <=> At(s, A) = {})
  BY <1>3, FS_CardinalityType, FS_EmptySet
<1>5. At(s, A) = {} <=> \A i \in DOMAIN s : s[i] \notin A
  BY DEF At
<1> QED
  BY <1>1, <1>3, <1>4, <1>5 DEF CountOf

\* Those of two sequences add up.
LEMMA CountConcat ==
  ASSUME NEW S, NEW s \in Seq(S), NEW t \in Seq(S), NEW A
  PROVE  s \o t \in Seq(S) /\ CountOf(s \o t, A) = CountOf(s, A) + CountOf(t, A)
<1> DEFINE B == At(s, A)
           D == At(t, A)
           C == {n + Len(s) : n \in D}
           f == [n \in D |-> n + Len(s)]
<1>1. /\ IsFiniteSet(B) /\ B \subseteq 1..Len(s) /\ Cardinality(B) \in Nat
      /\ IsFiniteSet(D) /\ D \subseteq 1..Len(t) /\ Cardinality(D) \in Nat
  BY CountIs DEF CountOf
<1>2. Len(s) \in Nat /\ Len(t) \in Nat
  OBVIOUS
<1>3. IsFiniteSet(C) /\ Cardinality(C) = Cardinality(D)
  <2>1. f \in Bijection(D, C)
    <3>1. f \in [D -> C] /\ \A y \in C : \E n \in D : f[n] = y
      OBVIOUS
    <3>2. \A m, n \in D : f[m] = f[n] => m = n
      BY <1>1, <1>2
    <3> HIDE DEF f, C
    <3> QED
      BY <3>1, <3>2 DEF Bijection, Injection, Surjection, IsInjective
  <2>2. ExistsBijection(D, C)
    BY <2>1 DEF ExistsBijection
  <2> QED
    BY <1>1, <2>2, FS_Bijection
<1>4. At(s \o t, A) = B \cup C
  <2>1. /\ \A i \in DOMAIN s : i \in DOMAIN (s \o t) /\ (s \o t)[i] = s[i]
        /\ \A i \in DOMAIN t : i + Len(s) \in DOMAIN (s \o t) /\ (s \o t)[i + Len(s)] = t[i]
        /\ \A i \in DOMAIN (s \o t) : i \in Nat /\ (i \in DOMAIN s \/ i - Len(s) \in DOMAIN t)
    BY JoinedPlaces
  <2> DEFINE u == s \o t
  <2> HIDE DEF u
  <2>2. ASSUME NEW n \in At(u, A) PROVE n \in B \cup C
    <3>1. n \in DOMAIN u /\ u[n] \in A /\ n \in Nat
      BY <2>1 DEF At, u
    <3>2. CASE n \in DOMAIN s
      <4>1. s[n] \in A
        BY <2>1, <3>1, <3>2 DEF u
      <4> QED
        BY <3>2, <4>1 DEF At
    <3>3. CASE n - Len(s) \in DOMAIN t
      <4>1. (n - Len(s)) + Len(s) = n
        BY <1>2, <3>1
      <4>2. t[n - Len(s)] = u[(n - Len(s)) + Len(s)]
        BY <2>1, <3>3 DEF u
      <4>3. n - Len(s) \in D
        BY <3>1, <3>3, <4>1, <4>2 DEF At
      <4> QED
        BY <4>1, <4>3
    <3> QED
      BY <2>1, <3>1, <3>2, <3>3 DEF u
  <2>3. B \subseteq At(u, A)
    BY <2>1 DEF At, u
  <2>4. C \subseteq At(u, A)
    BY <2>1 DEF At, u
  <2> QED
    BY <2>2, <2>3, <2>4 DEF u
<1>5. B \cap C = {}
  BY <1>1, <1>2
<1>6. Cardinality(B \cup C) = Cardinality(B) + Cardinality(C) - Cardinality(B \cap C)
  BY <1>1, <1>3, FS_Union
<1>7. Cardinality({}) = 0
  BY FS_EmptySet
<1>8. s \o t \in Seq(S)
  BY JoinedPlaces
<1>9. Cardinality(B \cup C) = Cardinality(B) + Cardinality(D)
  <2>1. Cardinality(B \cap C) = 0
    BY <1>5, <1>7
  <2> HIDE DEF B, C, D
  <2> QED
    BY <1>1, <1>3, <1>6, <2>1
<1> QED
  BY <1>4, <1>8, <1>9 DEF CountOf

\* A sequence of one has that one.
LEMMA CountOne ==
  ASSUME NEW S, NEW c \in S, NEW A
  PROVE  <<c>> \in Seq(S) /\ CountOf(<<c>>, A) = IF c \in A THEN 1 ELSE 0
<1>1. At(<<c>>, A) = IF c \in A THEN {1} ELSE {}
  BY DEF At
<1>2. <<c>> \in Seq(S)
  OBVIOUS
<1>3. Cardinality({}) = 0 /\ Cardinality({1}) = 1
  BY FS_EmptySet, FS_Singleton
<1> QED
  BY <1>1, <1>2, <1>3 DEF CountOf

\* What goes on at the end.
LEMMA CountAppend ==
  ASSUME NEW S, NEW s \in Seq(S), NEW c \in S, NEW A
  PROVE  CountOf(Append(s, c), A) = CountOf(s, A) + (IF c \in A THEN 1 ELSE 0)
<1>1. PICK u : u = <<c>>
  OBVIOUS
<1>2. Append(s, c) = s \o u
  BY <1>1, AppendPlaces
<1>3. u \in Seq(S) /\ CountOf(u, A) = IF c \in A THEN 1 ELSE 0
  BY <1>1, CountOne
<1>4. CountOf(s \o u, A) = CountOf(s, A) + CountOf(u, A)
  BY <1>3, CountConcat
<1> QED
  BY <1>2, <1>3, <1>4

\* What goes on at the head.
LEMMA CountPut ==
  ASSUME NEW S, NEW s \in Seq(S), NEW c \in S, NEW A
  PROVE  <<c>> \o s \in Seq(S) /\ CountOf(<<c>> \o s, A) = CountOf(s, A) + (IF c \in A THEN 1 ELSE 0)
<1>1. PICK u : u = <<c>>
  OBVIOUS
<1>2. u \in Seq(S) /\ CountOf(u, A) = IF c \in A THEN 1 ELSE 0
  BY <1>1, CountOne
<1>3. u \o s \in Seq(S) /\ CountOf(u \o s, A) = CountOf(u, A) + CountOf(s, A) /\ CountOf(s, A) \in Nat
  BY <1>2, CountConcat, CountIs
<1> QED
  BY <1>1, <1>2, <1>3

\* What comes off at the head.
LEMMA CountTail ==
  ASSUME NEW S, NEW s \in Seq(S), s # <<>>, NEW A
  PROVE  CountOf(Tail(s), A) = CountOf(s, A) - (IF Head(s) \in A THEN 1 ELSE 0)
<1>1. PICK h : h = Head(s)
  OBVIOUS
<1>2. PICK t : t = Tail(s)
  OBVIOUS
<1>3. h \in S /\ t \in Seq(S) /\ s = <<h>> \o t
  BY <1>1, <1>2, TailPlaces
<1>4. CountOf(<<h>> \o t, A) = CountOf(t, A) + (IF h \in A THEN 1 ELSE 0)
  BY <1>3, CountPut
<1>5. CountOf(t, A) \in Nat
  BY <1>3, CountIs
<1>6. CountOf(s, A) = CountOf(t, A) + (IF h \in A THEN 1 ELSE 0)
  BY <1>3, <1>4, Zenon
<1>7. CountOf(t, A) = CountOf(s, A) - (IF h \in A THEN 1 ELSE 0)
  BY <1>5, <1>6
<1> QED
  BY <1>1, <1>2, <1>7, Zenon

\* A sequence is what it has before a place, at it and after it.
LEMMA CutUp ==
  ASSUME NEW S, NEW s \in Seq(S), NEW k \in DOMAIN s
  PROVE  \E a, b, c \in Seq(S) :
           /\ c = <<s[k]>> /\ RemoveAt(s, k) = a \o b /\ s = (a \o c) \o b
           /\ \A i \in DOMAIN a : \E j \in DOMAIN s : a[i] = s[j]
           /\ \A i \in DOMAIN b : \E j \in DOMAIN s : b[i] = s[j]
<1>0. \A p, q \in Seq(S) :
        /\ p \o q \in Seq(S) /\ Len(p \o q) = Len(p) + Len(q)
        /\ \A i \in 1..Len(p) + Len(q) : (p \o q)[i] = IF i <= Len(p) THEN p[i] ELSE q[i - Len(p)]
  BY Concatenated, Zenon
<1>1. k \in 1..Len(s) /\ Len(s) \in Nat /\ DOMAIN s = 1..Len(s) /\ \A i \in 1..Len(s) : s[i] \in S
  OBVIOUS
<1>2. PICK a : a = SubSeq(s, 1, k - 1)
  OBVIOUS
<1>3. PICK b : b = SubSeq(s, k + 1, Len(s))
  OBVIOUS
<1>4. PICK c : c = <<s[k]>>
  OBVIOUS
<1>5. a \in Seq(S) /\ Len(a) = k - 1 /\ \A i \in 1..k - 1 : a[i] = s[i]
  BY <1>1, <1>2
<1>6. b \in Seq(S) /\ Len(b) = Len(s) - k /\ \A i \in 1..Len(s) - k : b[i] = s[k + i]
  <2>1. PICK m : m = k + 1
    OBVIOUS
  <2>2. PICK n : n = Len(s)
    OBVIOUS
  <2>3. m \in Int /\ n \in Int /\ \A i \in m..n : s[i] \in S
    BY <1>1, <2>1, <2>2
  <2>4. /\ SubSeq(s, m, n) \in Seq(S)
        /\ Len(SubSeq(s, m, n)) = IF m <= n THEN n - m + 1 ELSE 0
        /\ \A i \in 1..n - m + 1 : SubSeq(s, m, n)[i] = s[m + i - 1]
    BY <2>3, SubSeqProperties, SMTT(30)
  <2>5. b = SubSeq(s, m, n)
    BY <1>3, <2>1, <2>2
  <2>6. /\ Len(s) - k = IF m <= n THEN n - m + 1 ELSE 0
        /\ \A i \in 1..Len(s) - k : i \in 1..n - m + 1 /\ m + i - 1 = k + i
    BY <1>1, <2>1, <2>2
  <2> QED
    BY <2>4, <2>5, <2>6
<1>7. c \in Seq(S) /\ Len(c) = 1 /\ c[1] = s[k]
  <2>1. s[k] \in S
    BY <1>1
  <2> QED
    BY <1>4, <2>1
<1>8. PICK u : u = a \o c
  OBVIOUS
<1>9. /\ u \in Seq(S) /\ Len(u) = Len(a) + Len(c)
      /\ \A i \in 1..Len(a) + Len(c) : u[i] = IF i <= Len(a) THEN a[i] ELSE c[i - Len(a)]
  BY <1>0, <1>5, <1>7, <1>8
<1>10. /\ Len(u) = k /\ \A i \in 1..k : u[i] = s[i]
  <2>1. Len(a) + Len(c) = k /\ k - (k - 1) = 1
    BY <1>1, <1>5, <1>7
  <2>2. ASSUME NEW i \in 1..k PROVE u[i] = s[i]
    <3>1. u[i] = IF i <= k - 1 THEN a[i] ELSE c[i - (k - 1)]
      BY <1>5, <1>9, <2>1
    <3>2. CASE i <= k - 1
      <4>1. i \in 1..k - 1
        BY <1>1, <3>2
      <4> QED
        BY <3>1, <3>2, <4>1, <1>5
    <3>3. CASE ~(i <= k - 1)
      <4>1. i = k
        BY <1>1, <3>3
      <4> QED
        BY <3>1, <3>3, <4>1, <1>7, <2>1
    <3> QED
      BY <3>2, <3>3
  <2> QED
    BY <1>9, <2>1, <2>2
<1>11. PICK w : w = u \o b
  OBVIOUS
<1>12. /\ w \in Seq(S) /\ Len(w) = Len(u) + Len(b)
       /\ \A i \in 1..Len(u) + Len(b) : w[i] = IF i <= Len(u) THEN u[i] ELSE b[i - Len(u)]
  BY <1>0, <1>6, <1>9, <1>11
<1>13. w = s
  <2>1. Len(u) + Len(b) = Len(s)
    BY <1>1, <1>6, <1>10
  <2>2. ASSUME NEW i \in 1..Len(s) PROVE w[i] = s[i]
    <3>1. w[i] = IF i <= k THEN u[i] ELSE b[i - k]
      BY <1>10, <1>12, <2>1
    <3>2. CASE i <= k
      <4>1. i \in 1..k
        BY <1>1, <3>2
      <4> QED
        BY <3>1, <3>2, <4>1, <1>10
    <3>3. CASE ~(i <= k)
      <4>1. i - k \in 1..Len(s) - k /\ k + (i - k) = i
        BY <1>1, <3>3
      <4> QED
        BY <3>1, <3>3, <4>1, <1>6
    <3> QED
      BY <3>2, <3>3
  <2>3. Len(w) = Len(s)
    BY <1>12, <2>1
  <2> QED
    BY <1>1, <1>12, <2>2, <2>3
<1>14. RemoveAt(s, k) = a \o b
  BY <1>2, <1>3 DEF RemoveAt
<1>15. \A i \in DOMAIN a : \E j \in DOMAIN s : a[i] = s[j]
  <2>1. DOMAIN a = 1..k - 1 /\ \A i \in 1..k - 1 : i \in DOMAIN s
    BY <1>1, <1>5
  <2> QED
    BY <2>1, <1>5
<1>16. \A i \in DOMAIN b : \E j \in DOMAIN s : b[i] = s[j]
  <2>1. DOMAIN b = 1..Len(s) - k /\ \A i \in 1..Len(s) - k : k + i \in DOMAIN s
    BY <1>1, <1>6
  <2> QED
    BY <2>1, <1>6
<1>17. s = (a \o c) \o b
  BY <1>8, <1>11, <1>13
<1> QED
  BY <1>4, <1>5, <1>6, <1>7, <1>14, <1>15, <1>16, <1>17

\* What taking one out of a sequence leaves.
LEMMA TakenOut ==
  ASSUME NEW S, NEW s \in Seq(S), NEW k \in DOMAIN s
  PROVE  /\ RemoveAt(s, k) \in Seq(S) /\ s[k] \in S
         /\ \A i \in DOMAIN RemoveAt(s, k) : \E j \in DOMAIN s : RemoveAt(s, k)[i] = s[j]
         /\ \A A : CountOf(RemoveAt(s, k), A) = CountOf(s, A) - (IF s[k] \in A THEN 1 ELSE 0)
<1>1. PICK a, b, c \in Seq(S) :
        /\ c = <<s[k]>> /\ RemoveAt(s, k) = a \o b /\ s = (a \o c) \o b
        /\ \A i \in DOMAIN a : \E j \in DOMAIN s : a[i] = s[j]
        /\ \A i \in DOMAIN b : \E j \in DOMAIN s : b[i] = s[j]
  BY CutUp
<1>2. PICK w : w = RemoveAt(s, k)
  OBVIOUS
<1>3. PICK u : u = a \o c
  OBVIOUS
<1>4. w = a \o b /\ s = u \o b
  BY <1>1, <1>2, <1>3
<1>5. u \in Seq(S) /\ w \in Seq(S)
  BY <1>1, <1>3, <1>4, Concatenated
<1>6. s[k] \in S
  OBVIOUS
<1>7. ASSUME NEW A PROVE CountOf(w, A) = CountOf(s, A) - (IF s[k] \in A THEN 1 ELSE 0)
  <2>1. CountOf(c, A) = IF s[k] \in A THEN 1 ELSE 0
    BY <1>1, <1>6, CountOne
  <2>0. ASSUME NEW p \in Seq(S), NEW q \in Seq(S)
        PROVE  CountOf(p \o q, A) = CountOf(p, A) + CountOf(q, A)
    BY CountConcat
  <2>2. CountOf(u \o b, A) = CountOf(u, A) + CountOf(b, A)
    BY <1>5, <2>0
  <2>3. CountOf(a \o c, A) = CountOf(a, A) + CountOf(c, A)
    BY <2>0
  <2>4. CountOf(a \o b, A) = CountOf(a, A) + CountOf(b, A)
    BY <2>0
  <2>5. CountOf(a, A) \in Nat /\ CountOf(b, A) \in Nat
    BY <1>1, CountIs
  <2> QED
    BY <2>1, <2>2, <2>3, <2>4, <2>5, <1>3, <1>4
<1>8. ASSUME NEW i \in DOMAIN w PROVE \E j \in DOMAIN s : w[i] = s[j]
  <2>1. /\ Len(w) = Len(a) + Len(b)
        /\ \A n \in 1..Len(a) + Len(b) : w[n] = IF n <= Len(a) THEN a[n] ELSE b[n - Len(a)]
    BY <1>1, <1>4, Concatenated
  <2>2. /\ Len(a) \in Nat /\ DOMAIN a = 1..Len(a) /\ Len(b) \in Nat /\ DOMAIN b = 1..Len(b)
        /\ DOMAIN w = 1..Len(w)
    BY <1>1, <1>5
  <2>3. CASE i <= Len(a)
    <3>1. i \in DOMAIN a /\ w[i] = a[i]
      BY <2>1, <2>2, <2>3
    <3> QED
      BY <3>1, <1>1
  <2>4. CASE ~(i <= Len(a))
    <3>1. i - Len(a) \in DOMAIN b /\ w[i] = b[i - Len(a)]
      BY <2>1, <2>2, <2>4
    <3> QED
      BY <3>1, <1>1
  <2> QED
    BY <2>3, <2>4
<1> QED
  BY <1>2, <1>5, <1>6, <1>7, <1>8

-----------------------------------------------------------------------------
(* How many copies of a message there are, and where *)

Entry == [msg : Messages, ttl : Nat]
\* What the rungs may hold.
Ladders == [Rungs -> Seq(Entry)]
Of(m) == {e \in Entry : e.msg = m}

Stored(q, m, R) == Cardinality(UNION {{r} \X InRung(q[r], m) : r \in R})

Stock(m)  == Stored(rung, m, Rungs)
Queued(m) == CountOf(due, {m})
Held(m)   == {s \in Schedulers : job[s] = m /\ pc[s] # "settling"}
Backs(m)  == {s \in Schedulers : job[s] = m /\ pc[s] = "backing"}
Asked(m)  == IF job[App] = m THEN 1 ELSE 0

\* The places of a message in a rung are finitely many.
LEMMA RungCount ==
  ASSUME NEW q \in Seq(Entry), NEW m
  PROVE  /\ IsFiniteSet(InRung(q, m)) /\ Cardinality(InRung(q, m)) = CountOf(q, Of(m))
         /\ CountOf(q, Of(m)) \in Nat
<1>1. \A i \in DOMAIN q : q[i] \in Entry
  OBVIOUS
<1>2. InRung(q, m) = At(q, Of(m))
  BY <1>1 DEF InRung, At, Of
<1>3. IsFiniteSet(At(q, Of(m))) /\ CountOf(q, Of(m)) \in Nat
  BY CountIs
<1> QED
  BY <1>2, <1>3 DEF CountOf

\* One rung and the others make all.
LEMMA StoredSplit ==
  ASSUME NEW q \in [Rungs -> Seq(Entry)], NEW m, NEW j \in Rungs
  PROVE  /\ Stored(q, m, Rungs) \in Nat /\ Stored(q, m, Rungs \ {j}) \in Nat
         /\ Stored(q, m, Rungs) = Stored(q, m, Rungs \ {j}) + CountOf(q[j], Of(m))
<1> DEFINE U(T) == UNION {{i} \X InRung(q[i], m) : i \in T}
<1>1. IsFiniteSet(Rungs)
  BY SchedulerAssumption
<1>2. ASSUME NEW T \in SUBSET Rungs PROVE IsFiniteSet(U(T)) /\ Cardinality(U(T)) \in Nat
  <2> DEFINE F == {{i} \X InRung(q[i], m) : i \in T}
             f == [i \in T |-> {i} \X InRung(q[i], m)]
  <2>1. IsFiniteSet(T)
    BY <1>1, FS_Subset
  <2>2. f \in Surjection(T, F)
    BY DEF Surjection
  <2>3. IsFiniteSet(F)
    BY <2>1, <2>2, FS_Surjection
  <2>4. \A i \in T : IsFiniteSet({i} \X InRung(q[i], m))
    <3> TAKE i \in T
    <3>1. q[i] \in Seq(Entry)
      OBVIOUS
    <3> QED
      BY <3>1, RungCount, FS_Singleton, FS_Product
  <2>5. IsFiniteSet(UNION F)
    BY <2>3, <2>4, FS_UNION
  <2> QED
    BY <2>5, FS_CardinalityType
<1>3. U(Rungs) = U(Rungs \ {j}) \cup ({j} \X InRung(q[j], m))
  OBVIOUS
<1>4. U(Rungs \ {j}) \cap ({j} \X InRung(q[j], m)) = {}
  OBVIOUS
<1>5. /\ IsFiniteSet({j} \X InRung(q[j], m))
      /\ Cardinality({j} \X InRung(q[j], m)) = CountOf(q[j], Of(m))
  <2>1. IsFiniteSet({j}) /\ Cardinality({j}) = 1
    BY FS_Singleton
  <2>2. /\ IsFiniteSet(InRung(q[j], m)) /\ Cardinality(InRung(q[j], m)) = CountOf(q[j], Of(m))
        /\ CountOf(q[j], Of(m)) \in Nat
    BY RungCount
  <2>3. /\ IsFiniteSet({j} \X InRung(q[j], m))
        /\ Cardinality({j} \X InRung(q[j], m)) = Cardinality({j}) * Cardinality(InRung(q[j], m))
    BY <2>1, <2>2, FS_Product
  <2> QED
    BY <2>1, <2>2, <2>3
<1>6. /\ IsFiniteSet(U(Rungs)) /\ Cardinality(U(Rungs)) \in Nat
      /\ IsFiniteSet(U(Rungs \ {j})) /\ Cardinality(U(Rungs \ {j})) \in Nat
  BY <1>2
<1>7. CountOf(q[j], Of(m)) \in Nat
  BY RungCount
<1>8. Stored(q, m, Rungs) = Cardinality(U(Rungs)) /\ Stored(q, m, Rungs \ {j}) = Cardinality(U(Rungs \ {j}))
  BY DEF Stored
<1>9. PICK x : x = U(Rungs)
  OBVIOUS
<1>10. PICK y : y = U(Rungs \ {j})
  OBVIOUS
<1>11. PICK z : z = {j} \X InRung(q[j], m)
  OBVIOUS
<1>12. x = y \cup z /\ y \cap z = {} /\ IsFiniteSet(y) /\ IsFiniteSet(z) /\ Cardinality(z) = CountOf(q[j], Of(m))
  BY <1>3, <1>4, <1>5, <1>6, <1>9, <1>10, <1>11
<1>13. Cardinality(x) = Cardinality(y) + CountOf(q[j], Of(m))
  <2>1. Cardinality(y \cup z) = Cardinality(y) + Cardinality(z) - Cardinality(y \cap z)
    BY <1>12, FS_Union
  <2>2. Cardinality(y \cap z) = 0
    BY <1>12, FS_EmptySet
  <2>3. Cardinality(y) \in Nat
    BY <1>6, <1>10
  <2> QED
    BY <2>1, <2>2, <2>3, <1>7, <1>12
<1> QED
  BY <1>6, <1>8, <1>9, <1>10, <1>13

\* What a change of one rung makes of it.
LEMMA StoredChange ==
  \A q, p \in Ladders : \A r \in Rungs : \A m :
    (\A x \in Rungs \ {r} : p[x] = q[x]) =>
      /\ Stored(q, m, Rungs) \in Nat /\ Stored(p, m, Rungs) \in Nat
      /\ Stored(p, m, Rungs) = Stored(q, m, Rungs) + CountOf(p[r], Of(m)) - CountOf(q[r], Of(m))
<1> USE DEF Ladders
<1> SUFFICES ASSUME NEW q \in Ladders, NEW p \in Ladders, NEW r \in Rungs,
                    NEW m, \A x \in Rungs \ {r} : p[x] = q[x]
             PROVE  /\ Stored(q, m, Rungs) \in Nat /\ Stored(p, m, Rungs) \in Nat
                    /\ Stored(p, m, Rungs) = Stored(q, m, Rungs) + CountOf(p[r], Of(m)) - CountOf(q[r], Of(m))
  OBVIOUS
<1>1. {{x} \X InRung(p[x], m) : x \in Rungs \ {r}} = {{x} \X InRung(q[x], m) : x \in Rungs \ {r}}
  OBVIOUS
<1>2. Stored(p, m, Rungs \ {r}) = Stored(q, m, Rungs \ {r})
  BY <1>1 DEF Stored
<1>3. /\ Stored(q, m, Rungs) \in Nat /\ Stored(q, m, Rungs \ {r}) \in Nat
      /\ Stored(q, m, Rungs) = Stored(q, m, Rungs \ {r}) + CountOf(q[r], Of(m))
  BY StoredSplit
<1>4. /\ Stored(p, m, Rungs) \in Nat
      /\ Stored(p, m, Rungs) = Stored(p, m, Rungs \ {r}) + CountOf(p[r], Of(m))
  BY StoredSplit
<1>5. CountOf(q[r], Of(m)) \in Nat /\ CountOf(p[r], Of(m)) \in Nat
  <2>1. q[r] \in Seq(Entry) /\ p[r] \in Seq(Entry)
    OBVIOUS
  <2> QED
    BY <2>1, RungCount
<1> QED
  BY <1>2, <1>3, <1>4, <1>5

\* A message enters a rung, behind the others.
LEMMA RungGets ==
  ASSUME rung \in [Rungs -> Seq(Entry)], NEW j \in Messages, NEW r \in Rungs, Enters(j, r)
  PROVE  /\ rung' \in [Rungs -> Seq(Entry)]
         /\ \A m \in Messages : Stock(m) \in Nat /\ Stock(m)' = Stock(m) + (IF m = j THEN 1 ELSE 0)
         /\ \A q \in Rungs : \A i \in DOMAIN rung'[q] : i \in Nat /\
              \/ i \in DOMAIN rung[q] /\ rung'[q][i] = rung[q][i] /\ (q = r => i < Len(rung[r]) + 1)
              \/ q = r /\ i = Len(rung[r]) + 1 /\ rung'[q][i] = [msg |-> j, ttl |-> r]
<1>1. PICK e : e = [msg |-> j, ttl |-> r]
  OBVIOUS
<1>2. e \in Entry /\ e.msg = j
  BY <1>1, SchedulerAssumption DEF Entry
<1>3. PICK s \in Seq(Entry) : s = rung[r]
  OBVIOUS
<1>4. PICK t : t = Append(s, e)
  OBVIOUS
<1>5. /\ t \in Seq(Entry) /\ Len(s) \in Nat /\ t[Len(s) + 1] = e
      /\ \A i \in DOMAIN s : i \in Nat /\ i < Len(s) + 1 /\ i \in DOMAIN t /\ t[i] = s[i]
      /\ \A i \in DOMAIN t : i \in Nat /\ (i = Len(s) + 1 \/ i \in DOMAIN s)
  BY <1>2, <1>4, AppendPlaces
<1>6. rung' = [rung EXCEPT ![r] = t]
  BY <1>1, <1>3, <1>4 DEF Enters, RungQueue
<1>7. /\ rung' \in [Rungs -> Seq(Entry)] /\ rung'[r] = t
      /\ \A q \in Rungs \ {r} : rung'[q] = rung[q]
  BY <1>5, <1>6
<1>8. ASSUME NEW m \in Messages
      PROVE  Stock(m) \in Nat /\ Stock(m)' = Stock(m) + (IF m = j THEN 1 ELSE 0)
  <2>1. /\ Stored(rung, m, Rungs) \in Nat
        /\ Stored(rung', m, Rungs) = Stored(rung, m, Rungs) + CountOf(t, Of(m)) - CountOf(s, Of(m))
    <3>1. PICK q \in Ladders : q = rung
      BY DEF Ladders
    <3>2. PICK p \in Ladders : p = rung'
      BY <1>7 DEF Ladders
    <3>3. \A x \in Rungs \ {r} : p[x] = q[x]
      BY <1>7, <3>1, <3>2
    <3>4. /\ Stored(q, m, Rungs) \in Nat
          /\ Stored(p, m, Rungs) = Stored(q, m, Rungs) + CountOf(p[r], Of(m)) - CountOf(q[r], Of(m))
      BY <3>3, StoredChange
    <3>5. p[r] = t /\ q[r] = s
      BY <1>3, <1>7, <3>1, <3>2
    <3> QED
      BY <3>1, <3>2, <3>4, <3>5
  <2>2. CountOf(t, Of(m)) = CountOf(s, Of(m)) + (IF e \in Of(m) THEN 1 ELSE 0)
    <3>1. CountOf(Append(s, e), Of(m)) = CountOf(s, Of(m)) + (IF e \in Of(m) THEN 1 ELSE 0)
      BY <1>2, CountAppend
    <3> QED
      BY <1>2, <1>4, <3>1
  <2>3. e \in Of(m) <=> m = j
    BY <1>2 DEF Of
  <2>4. CountOf(s, Of(m)) \in Nat
    BY RungCount
  <2> QED
    BY <2>1, <2>2, <2>3, <2>4 DEF Stock
<1>9. ASSUME NEW q \in Rungs, NEW i \in DOMAIN rung'[q]
      PROVE  i \in Nat /\
              \/ i \in DOMAIN rung[q] /\ rung'[q][i] = rung[q][i] /\ (q = r => i < Len(rung[r]) + 1)
              \/ q = r /\ i = Len(rung[r]) + 1 /\ rung'[q][i] = [msg |-> j, ttl |-> r]
  <2>1. CASE q = r
    BY <1>1, <1>3, <1>5, <1>7, <2>1
  <2>2. CASE q # r
    <3>1. rung'[q] = rung[q] /\ rung[q] \in Seq(Entry)
      BY <1>7, <2>2
    <3> QED
      BY <2>2, <3>1
  <2> QED
    BY <2>1, <2>2
<1> QED
  BY <1>7, <1>8, <1>9

\* It is one more.
LEMMA OneMore ==
  ASSUME rung \in [Rungs -> Seq(Entry)], NEW j \in Messages, NEW r \in Rungs, Enters(j, r)
  PROVE  Stock(j) \in Nat /\ Stock(j)' = Stock(j) + 1
<1>1. \A m \in Messages : Stock(m) \in Nat /\ Stock(m)' = Stock(m) + (IF m = j THEN 1 ELSE 0)
  BY RungGets
<1> QED
  BY <1>1

\* The head of a rung leaves it.
LEMMA RungLoses ==
  ASSUME rung \in [Rungs -> Seq(Entry)], NEW r \in Rungs, rung[r] # <<>>,
         rung' = [rung EXCEPT ![r] = Tail(@)]
  PROVE  /\ rung' \in [Rungs -> Seq(Entry)]
         /\ Head(rung[r]).msg \in Messages /\ 1 \in DOMAIN rung[r] /\ rung[r][1] = Head(rung[r])
         /\ \A m \in Messages : Stock(m) \in Nat
              /\ Stock(m)' = Stock(m) - (IF m = Head(rung[r]).msg THEN 1 ELSE 0)
         /\ \A q \in Rungs \ {r} : rung'[q] = rung[q]
         /\ \A i \in DOMAIN rung'[r] : i \in Nat /\ i + 1 \in DOMAIN rung[r] /\ rung'[r][i] = rung[r][i + 1]
<1>1. PICK s \in Seq(Entry) : s = rung[r]
  OBVIOUS
<1>2. PICK t : t = Tail(s)
  OBVIOUS
<1>3. PICK h : h = Head(s)
  OBVIOUS
<1>4. /\ t \in Seq(Entry) /\ h \in Entry /\ 1 \in DOMAIN s /\ s[1] = h
      /\ \A i \in DOMAIN t : i \in Nat /\ i + 1 \in DOMAIN s /\ t[i] = s[i + 1]
  BY <1>1, <1>2, <1>3, TailPlaces
<1>5. rung' = [rung EXCEPT ![r] = t]
  BY <1>1, <1>2
<1>6. /\ rung' \in [Rungs -> Seq(Entry)] /\ rung'[r] = t
      /\ \A q \in Rungs \ {r} : rung'[q] = rung[q]
  BY <1>4, <1>5
<1>7. h.msg \in Messages
  BY <1>4 DEF Entry
<1>8. ASSUME NEW m \in Messages
      PROVE  Stock(m) \in Nat /\ Stock(m)' = Stock(m) - (IF m = h.msg THEN 1 ELSE 0)
  <2>1. /\ Stored(rung, m, Rungs) \in Nat
        /\ Stored(rung', m, Rungs) = Stored(rung, m, Rungs) + CountOf(t, Of(m)) - CountOf(s, Of(m))
    <3>1. PICK q \in Ladders : q = rung
      BY DEF Ladders
    <3>2. PICK p \in Ladders : p = rung'
      BY <1>6 DEF Ladders
    <3>3. \A x \in Rungs \ {r} : p[x] = q[x]
      BY <1>6, <3>1, <3>2
    <3>4. /\ Stored(q, m, Rungs) \in Nat
          /\ Stored(p, m, Rungs) = Stored(q, m, Rungs) + CountOf(p[r], Of(m)) - CountOf(q[r], Of(m))
      BY <3>3, StoredChange
    <3>5. p[r] = t /\ q[r] = s
      BY <1>1, <1>6, <3>1, <3>2
    <3> QED
      BY <3>1, <3>2, <3>4, <3>5
  <2>2. CountOf(t, Of(m)) = CountOf(s, Of(m)) - (IF h \in Of(m) THEN 1 ELSE 0)
    <3>0. s # <<>>
      BY <1>1
    <3>1. CountOf(Tail(s), Of(m)) = CountOf(s, Of(m)) - (IF Head(s) \in Of(m) THEN 1 ELSE 0)
      BY <3>0, CountTail
    <3> QED
      BY <1>1, <1>2, <1>3, <3>1
  <2>3. h \in Of(m) <=> m = h.msg
    BY <1>4 DEF Of
  <2>4. CountOf(s, Of(m)) \in Nat
    BY RungCount
  <2> QED
    BY <2>1, <2>2, <2>3, <2>4 DEF Stock
<1> QED
  BY <1>1, <1>3, <1>4, <1>6, <1>7, <1>8

\* An entry of a rung is counted.
LEMMA EntryCounts ==
  ASSUME rung \in [Rungs -> Seq(Entry)], NEW r \in Rungs, NEW i \in DOMAIN rung[r],
         NEW m, rung[r][i].msg = m
  PROVE  Stock(m) > 0
<1>1. PICK s \in Seq(Entry) : s = rung[r]
  OBVIOUS
<1>2. /\ Stored(rung, m, Rungs) \in Nat /\ Stored(rung, m, Rungs \ {r}) \in Nat
      /\ Stored(rung, m, Rungs) = Stored(rung, m, Rungs \ {r}) + CountOf(rung[r], Of(m))
  BY StoredSplit
<1>3. s[i] \in Of(m) /\ i \in DOMAIN s
  BY <1>1 DEF Of
<1>4. CountOf(s, Of(m)) \in Nat /\ CountOf(s, Of(m)) # 0
  BY <1>3, CountIs
<1> QED
  BY <1>1, <1>2, <1>4 DEF Stock

Wares == Messages \cup Foreign

\* A message goes into the control queue, at either end or at both, or out of it.
LEMMA DueChange ==
  ASSUME due \in Seq(Wares), NEW j \in Wares
  PROVE  /\ \A m \in Messages : Queued(m) \in Nat
         /\ due' = due => due' \in Seq(Wares) /\ \A m \in Messages : Queued(m)' = Queued(m)
         /\ due' = Append(due, j) =>
              /\ due' \in Seq(Wares)
              /\ \A m \in Messages : Queued(m)' = Queued(m) + (IF m = j THEN 1 ELSE 0)
         /\ due' = <<j>> \o due =>
              /\ due' \in Seq(Wares)
              /\ \A m \in Messages : Queued(m)' = Queued(m) + (IF m = j THEN 1 ELSE 0)
         /\ due' = Append(<<j>> \o due, j) =>
              /\ due' \in Seq(Wares)
              /\ \A m \in Messages : Queued(m)' = Queued(m) + (IF m = j THEN 2 ELSE 0)
<1>1. ASSUME NEW m \in Messages, NEW s \in Seq(Wares)
      PROVE  /\ CountOf(s, {m}) \in Nat
             /\ Append(s, j) \in Seq(Wares)
             /\ CountOf(Append(s, j), {m}) = CountOf(s, {m}) + (IF m = j THEN 1 ELSE 0)
             /\ <<j>> \o s \in Seq(Wares)
             /\ CountOf(<<j>> \o s, {m}) = CountOf(s, {m}) + (IF m = j THEN 1 ELSE 0)
  <2>1. CountOf(s, {m}) \in Nat
    BY CountIs
  <2>2. CountOf(Append(s, j), {m}) = CountOf(s, {m}) + (IF j \in {m} THEN 1 ELSE 0)
    BY CountAppend
  <2>3. <<j>> \o s \in Seq(Wares) /\ CountOf(<<j>> \o s, {m}) = CountOf(s, {m}) + (IF j \in {m} THEN 1 ELSE 0)
    BY CountPut
  <2>4. j \in {m} <=> m = j
    OBVIOUS
  <2>5. Append(s, j) \in Seq(Wares)
    OBVIOUS
  <2> QED
    BY <2>1, <2>2, <2>3, <2>4, <2>5
<1>2. \A m \in Messages : Queued(m) \in Nat
  BY <1>1 DEF Queued
<1>3. due' = due => due' \in Seq(Wares) /\ \A m \in Messages : Queued(m)' = Queued(m)
  BY DEF Queued
<1>4. Append(due, j) \in Seq(Wares) /\ <<j>> \o due \in Seq(Wares)
  <2>1. <<j>> \o due \in Seq(Wares)
    BY CountPut
  <2> QED
    BY <2>1
<1>5. ASSUME due' = Append(due, j), NEW m \in Messages
      PROVE  Queued(m)' = Queued(m) + (IF m = j THEN 1 ELSE 0)
  BY <1>1, <1>5 DEF Queued
<1>6. ASSUME due' = <<j>> \o due, NEW m \in Messages
      PROVE  Queued(m)' = Queued(m) + (IF m = j THEN 1 ELSE 0)
  BY <1>1, <1>6 DEF Queued
<1>7. ASSUME due' = Append(<<j>> \o due, j), NEW m \in Messages
      PROVE  due' \in Seq(Wares) /\ Queued(m)' = Queued(m) + (IF m = j THEN 2 ELSE 0)
  <2>1. PICK u : u = <<j>> \o due
    OBVIOUS
  <2>2. u \in Seq(Wares) /\ CountOf(u, {m}) = CountOf(due, {m}) + (IF m = j THEN 1 ELSE 0)
    BY <1>1, <2>1
  <2>3. Append(u, j) \in Seq(Wares) /\ CountOf(Append(u, j), {m}) = CountOf(u, {m}) + (IF m = j THEN 1 ELSE 0)
    BY <1>1, <2>2
  <2>4. CountOf(due, {m}) \in Nat /\ due' = Append(u, j)
    BY <1>1, <1>7, <2>1
  <2> QED
    BY <2>2, <2>3, <2>4 DEF Queued
<1>8. due' = Append(<<j>> \o due, j) => due' \in Seq(Wares)
  BY <1>4
<1> QED
  BY <1>2, <1>3, <1>4, <1>5, <1>6, <1>7, <1>8

HeldOf(m) == Cardinality(Held(m))
BacksOf(m) == Cardinality(Backs(m))

\* An actor takes up or lays down what it moves.
LEMMA HandsChange ==
  ASSUME NEW a \in Actors, \A b \in Actors \ {a} : job'[b] = job[b] /\ pc'[b] = pc[b], NEW m
  PROVE  /\ HeldOf(m) \in Nat /\ BacksOf(m) \in Nat /\ Asked(m) \in 0..1
         /\ HeldOf(m)' =
              HeldOf(m)
                + (IF a \in Schedulers /\ job'[a] = m /\ pc'[a] # "settling" THEN 1 ELSE 0)
                - (IF a \in Schedulers /\ job[a] = m /\ pc[a] # "settling" THEN 1 ELSE 0)
         /\ BacksOf(m)' =
              BacksOf(m)
                + (IF a \in Schedulers /\ job'[a] = m /\ pc'[a] = "backing" THEN 1 ELSE 0)
                - (IF a \in Schedulers /\ job[a] = m /\ pc[a] = "backing" THEN 1 ELSE 0)
         /\ Asked(m)' = IF a = App THEN (IF job'[a] = m THEN 1 ELSE 0) ELSE Asked(m)
<1>1. IsFiniteSet(Schedulers) /\ App \in Actors
  BY SchedulerAssumption DEF Actors
<1>2. PICK x : x = job'[a]
  OBVIOUS
<1>20. PICK w : w = pc'[a]
  OBVIOUS
<1>3. PICK S : S = Held(m)
  OBVIOUS
<1>4. PICK T : T = Held(m)'
  OBVIOUS
<1>5. PICK U : U = Backs(m)
  OBVIOUS
<1>6. PICK V : V = Backs(m)'
  OBVIOUS
<1>7. IsFiniteSet(S) /\ IsFiniteSet(U)
  <2>1. S \in SUBSET Schedulers /\ U \in SUBSET Schedulers
    BY <1>3, <1>5 DEF Held, Backs
  <2> QED
    BY <1>1, <2>1, FS_Subset
<1>8. S \ {a} = T \ {a} /\ U \ {a} = V \ {a}
  <2>1. \A s \in Schedulers \ {a} : job'[s] = job[s] /\ pc'[s] = pc[s]
    BY DEF Actors
  <2> QED
    BY <2>1, <1>3, <1>4, <1>5, <1>6 DEF Held, Backs
<1>9. /\ a \in S <=> a \in Schedulers /\ job[a] = m /\ pc[a] # "settling"
      /\ a \in T <=> a \in Schedulers /\ x = m /\ w # "settling"
      /\ a \in U <=> a \in Schedulers /\ job[a] = m /\ pc[a] = "backing"
      /\ a \in V <=> a \in Schedulers /\ x = m /\ w = "backing"
  BY <1>2, <1>20, <1>3, <1>4, <1>5, <1>6 DEF Held, Backs
<1>10. /\ Cardinality(S) \in Nat /\ Cardinality(T) \in Nat
       /\ Cardinality(T) = Cardinality(S) + (IF a \in T THEN 1 ELSE 0) - (IF a \in S THEN 1 ELSE 0)
  BY <1>7, <1>8, OneElement
<1>11. /\ Cardinality(U) \in Nat /\ Cardinality(V) \in Nat
       /\ Cardinality(V) = Cardinality(U) + (IF a \in V THEN 1 ELSE 0) - (IF a \in U THEN 1 ELSE 0)
  BY <1>7, <1>8, OneElement
<1>12. Asked(m) \in 0..1 /\ Asked(m)' = IF a = App THEN (IF x = m THEN 1 ELSE 0) ELSE Asked(m)
  BY <1>1, <1>2 DEF Asked
<1>13. /\ HeldOf(m) = Cardinality(S) /\ BacksOf(m) = Cardinality(U)
       /\ HeldOf(m)' = Cardinality(T) /\ BacksOf(m)' = Cardinality(V)
  BY <1>3, <1>4, <1>5, <1>6 DEF HeldOf, BacksOf
<1> QED
  BY <1>2, <1>20, <1>9, <1>10, <1>11, <1>12, <1>13

-----------------------------------------------------------------------------
(* The inductive invariant *)

InHand(m) == \E a \in Actors : job[a] = m

\* In a rung what goes in later stays no shorter.
Sorted ==
  \A r \in Rungs :
    /\ \A i \in DOMAIN rung[r] : rung[r][i].ttl <= r
    /\ \A i, j \in DOMAIN rung[r] : i <= j => rung[r][i].ttl <= rung[r][j].ttl

\* What nobody has scheduled is nowhere.
Unscheduled ==
  \A m \in Messages : left[m] = None =>
    ~InHand(m) /\ got[m] = None /\ m \notin promised \cup disturbed

\* What an actor is at goes with what it moves.
Working ==
  /\ \A a \in Actors :
       /\ pc[a] = "idle" <=> job[a] = None
       /\ pc[a] \in {"retrying", "backing"} => job[a] \in disturbed
       /\ job[a] \in Foreign => pc[a] = "routing"
  /\ pc[App] \in {"idle", "routing", "retrying"} /\ job[App] \notin Foreign
  /\ job[App] \notin promised

\* A message nothing went wrong for is late by no more than slack wherever it is,
\* and leaves its rung before it is due.
Ladder ==
  \A m \in Messages \ disturbed : left[m] # None =>
    /\ \A r \in Rungs : \A i \in DOMAIN rung[r] :
         rung[r][i].msg = m => left[m] - rung[r][i].ttl >= -slack
    /\ Queued(m) > 0 \/ InHand(m) => left[m] >= -slack

\* What after() returned for is owed until it arrives.
Kept == \A m \in promised : times[m] = 0 => Owed(m) > 0

\* How often a message was or will be delivered: a fault adds two at most.
Weight(m) == Owed(m) + times[m] + BacksOf(m) + Asked(m)

Weighed ==
  \A m \in Messages :
    /\ Weight(m) <= 1 + 2 * faults
    /\ m \notin disturbed => Weight(m) = IF left[m] = None THEN 0 ELSE 1

SchedInv == TypeOK /\ Sorted /\ Unscheduled /\ Working /\ Ladder /\ OnTime /\ Kept /\ Weighed

\* What the type invariant says, in the terms of the lemmas.
LEMMA Types ==
  ASSUME TypeOK
  PROVE  /\ rung \in [Rungs -> Seq(Entry)] /\ due \in Seq(Wares)
         /\ DOMAIN job = Actors /\ DOMAIN pc = Actors /\ App \in Actors
         /\ slack \in Nat /\ faults \in Nat /\ MaxFaults \in Nat
         /\ \A m \in Messages : times[m] \in Nat /\ (left[m] = None \/ left[m] \in Int)
         /\ None \notin Messages /\ None \notin Foreign /\ None \notin Int
<1>1. MaxSlack \in Nat /\ MaxFaults \in Nat /\ MaxDelay \in Nat /\ None \notin Messages \cup Foreign \cup Int
  BY SchedulerAssumption
<1>2. Latest \in Int
  BY <1>1 DEF Latest
<1>3. slack \in Nat /\ faults \in Nat
  BY <1>1 DEF TypeOK
<1>4. \A m \in Messages : times[m] \in Nat /\ (left[m] = None \/ left[m] \in Int)
  BY <1>1, <1>2 DEF TypeOK
<1> QED
  BY <1>1, <1>3, <1>4 DEF TypeOK, Entry, Wares, Actors

\* What there is of a message is a number.
LEMMA Numbers ==
  ASSUME TypeOK, NEW m \in Messages
  PROVE  /\ Stock(m) \in Nat /\ Queued(m) \in Nat /\ HeldOf(m) \in Nat
         /\ BacksOf(m) \in Nat /\ Asked(m) \in 0..1 /\ times[m] \in Nat
         /\ Owed(m) = Stock(m) + Queued(m) + HeldOf(m)
<1>1. Stock(m) \in Nat
  BY Types, StoredSplit, SmallestRung DEF Stock
<1>2. Queued(m) \in Nat
  BY Types, CountIs DEF Queued
<1>3. Held(m) \in SUBSET Schedulers /\ Backs(m) \in SUBSET Schedulers /\ IsFiniteSet(Schedulers)
  BY SchedulerAssumption DEF Held, Backs
<1>4. HeldOf(m) \in Nat /\ BacksOf(m) \in Nat
  BY <1>3, FS_Subset, FS_CardinalityType DEF HeldOf, BacksOf
<1>5. Asked(m) \in 0..1 /\ times[m] \in Nat
  BY Types DEF Asked
<1>6. At(due, {m}) = {i \in DOMAIN due : due[i] = m}
  BY DEF At
<1>7. Owed(m) = Stock(m) + Queued(m) + HeldOf(m)
  BY <1>6 DEF Owed, Stock, Stored, Queued, CountOf, Held, HeldOf
<1> QED
  BY <1>1, <1>2, <1>4, <1>5, <1>7

\* The same of what there will be.
LEMMA NextOwed ==
  ASSUME NEW m \in Messages
  PROVE  /\ Owed(m)' = Stock(m)' + Queued(m)' + HeldOf(m)'
         /\ Weight(m)' = Owed(m)' + times'[m] + BacksOf(m)' + Asked(m)'
<1>1. At(due', {m}) = {i \in DOMAIN due' : due'[i] = m}
  BY DEF At
<1>2. Owed(m)' = Stock(m)' + Queued(m)' + HeldOf(m)'
  BY <1>1 DEF Owed, Stock, Stored, Queued, CountOf, Held, HeldOf
<1> QED
  BY <1>2 DEF Weight

-----------------------------------------------------------------------------
(* The steps of an actor that has a message *)

\* All that such a step may do: to move `j`, whatever becomes of the attempt.
Acts(a, j, w) ==
  /\ w \in {"idle", "retrying", "backing", "settling"} /\ (a = App => w \in {"idle", "retrying"})
  /\ pc' = [pc EXCEPT ![a] = w]
  /\ job' = [job EXCEPT ![a] = IF w = "idle" THEN None ELSE j]
  /\ left' = left /\ slack' = slack /\ bound' = bound
  /\ rung' = rung \/ \E r \in Rungs : j \in Messages /\ Enters(j, r) /\ (j \notin disturbed' => r <= left[j])
  /\ due' = due \/ due' = Append(due, j) \/ due' = <<j>> \o due \/ due' = Append(<<j>> \o due, j)
  /\ \/ got' = got
     \/ j \in Messages /\ IsDue(j) /\ got' = [got EXCEPT ![j] = IF @ = None THEN left[j] ELSE @]
  /\ times' = times \/ (j \in Messages /\ times' = [times EXCEPT ![j] = @ + 1])
  /\ promised' = promised \/ (a = App /\ w = "idle" /\ promised' = promised \cup {j})
  /\ disturbed' = disturbed \/ (j \in Messages /\ disturbed' = disturbed \cup {j})
  /\ faults' = faults \/ (faults < MaxFaults /\ faults' = faults + 1)
  /\ w \in {"retrying", "backing"} => j \in disturbed'
  /\ j \in Foreign => w = "idle"

\* The other messages stay as they are.
LEMMA OthersStay ==
  ASSUME TypeOK, NEW a \in Actors, NEW j, j = job[a], j # None, NEW w, Acts(a, j, w),
         NEW m \in Messages, m # j
  PROVE  /\ Stock(m)' = Stock(m) /\ Queued(m)' = Queued(m)
         /\ Owed(m)' = Owed(m) /\ Weight(m)' = Weight(m) /\ times'[m] = times[m] /\ got'[m] = got[m]
         /\ InHand(m)' => InHand(m)
         /\ (m \in promised' <=> m \in promised) /\ (m \in disturbed' <=> m \in disturbed)
<1>0. /\ rung \in [Rungs -> Seq(Entry)] /\ due \in Seq(Wares)
      /\ DOMAIN job = Actors /\ DOMAIN pc = Actors /\ App \in Actors /\ None \notin Messages
  BY Types
<1>1. Stock(m)' = Stock(m)
  <2>1. CASE rung' = rung
    BY <2>1 DEF Stock
  <2>2. ASSUME NEW r \in Rungs, j \in Messages, Enters(j, r) PROVE Stock(m)' = Stock(m)
    <3>1. Stock(m) \in Nat /\ Stock(m)' = Stock(m) + (IF m = j THEN 1 ELSE 0)
      BY <1>0, <2>2, RungGets
    <3> QED
      BY <3>1
  <2> QED
    BY <2>1, <2>2 DEF Acts
<1>2. j \in Wares
  BY DEF TypeOK, Wares
<1>3. Queued(m)' = Queued(m)
  <2>1. /\ Queued(m) \in Nat
        /\ due' = due => Queued(m)' = Queued(m)
        /\ due' = Append(due, j) => Queued(m)' = Queued(m) + (IF m = j THEN 1 ELSE 0)
        /\ due' = <<j>> \o due => Queued(m)' = Queued(m) + (IF m = j THEN 1 ELSE 0)
        /\ due' = Append(<<j>> \o due, j) => Queued(m)' = Queued(m) + (IF m = j THEN 2 ELSE 0)
    BY <1>0, <1>2, DueChange
  <2> QED
    BY <2>1 DEF Acts
<1>4. \A b \in Actors \ {a} : job'[b] = job[b] /\ pc'[b] = pc[b]
  BY <1>0 DEF Acts
<1>5. job'[a] # m /\ job[a] # m
  BY <1>0 DEF Acts
<1>6. /\ HeldOf(m) \in Nat /\ BacksOf(m) \in Nat
      /\ HeldOf(m)' = HeldOf(m) /\ BacksOf(m)' = BacksOf(m)
      /\ Asked(m)' = IF a = App THEN 0 ELSE Asked(m)
  <2>1. /\ HeldOf(m) \in Nat /\ BacksOf(m) \in Nat
        /\ HeldOf(m)' =
             HeldOf(m)
               + (IF a \in Schedulers /\ job'[a] = m /\ pc'[a] # "settling" THEN 1 ELSE 0)
               - (IF a \in Schedulers /\ job[a] = m /\ pc[a] # "settling" THEN 1 ELSE 0)
        /\ BacksOf(m)' =
             BacksOf(m)
               + (IF a \in Schedulers /\ job'[a] = m /\ pc'[a] = "backing" THEN 1 ELSE 0)
               - (IF a \in Schedulers /\ job[a] = m /\ pc[a] = "backing" THEN 1 ELSE 0)
        /\ Asked(m)' = IF a = App THEN (IF job'[a] = m THEN 1 ELSE 0) ELSE Asked(m)
    BY <1>4, HandsChange
  <2> QED
    BY <1>5, <2>1
<1>7. Asked(m)' = Asked(m)
  BY <1>5, <1>6 DEF Asked
<1>8. times'[m] = times[m] /\ got'[m] = got[m]
  BY DEF Acts, TypeOK
<1>9. InHand(m)' => InHand(m)
  BY <1>4, <1>5 DEF InHand
<1>10. (m \in promised' <=> m \in promised) /\ (m \in disturbed' <=> m \in disturbed)
  BY DEF Acts
<1>11. /\ Owed(m) = Stock(m) + Queued(m) + HeldOf(m)
       /\ Owed(m)' = Stock(m)' + Queued(m)' + HeldOf(m)'
       /\ Weight(m)' = Owed(m)' + times'[m] + BacksOf(m)' + Asked(m)'
  BY Numbers, NextOwed
<1>12. Owed(m)' = Owed(m)
  BY <1>1, <1>3, <1>6, <1>11
<1>13. Weight(m)' = Weight(m)
  BY <1>6, <1>7, <1>8, <1>11, <1>12 DEF Weight
<1> QED
  BY <1>1, <1>3, <1>8, <1>9, <1>10, <1>12, <1>13

\* Messages go into a rung behind those that stay as long at the most.
LEMMA SortedStays ==
  ASSUME TypeOK, Sorted, rung' = rung \/ \E r \in Rungs : \E j \in Messages : Enters(j, r)
  PROVE  rung' \in [Rungs -> Seq(Entry)] /\ Sorted'
<1>0. rung \in [Rungs -> Seq(Entry)] /\ Rungs \subseteq Nat
  BY Types, SchedulerAssumption
<1>1. CASE rung' = rung
  BY <1>0, <1>1 DEF Sorted
<1>2. ASSUME NEW r \in Rungs, NEW j \in Messages, Enters(j, r)
      PROVE  rung' \in [Rungs -> Seq(Entry)] /\ Sorted'
  <2>1. /\ rung' \in [Rungs -> Seq(Entry)]
        /\ \A q \in Rungs : \A i \in DOMAIN rung'[q] : i \in Nat /\
             \/ i \in DOMAIN rung[q] /\ rung'[q][i] = rung[q][i] /\ (q = r => i < Len(rung[r]) + 1)
             \/ q = r /\ i = Len(rung[r]) + 1 /\ rung'[q][i] = [msg |-> j, ttl |-> r]
    BY <1>0, <1>2, RungGets
  <2>2. ASSUME NEW q \in Rungs, NEW i \in DOMAIN rung'[q] PROVE rung'[q][i].ttl <= q
    <3>1. CASE i \in DOMAIN rung[q] /\ rung'[q][i] = rung[q][i]
      BY <2>2, <3>1 DEF Sorted
    <3>2. CASE q = r /\ rung'[q][i] = [msg |-> j, ttl |-> r]
      BY <1>0, <3>2
    <3> QED
      BY <2>1, <2>2, <3>1, <3>2
  <2>3. ASSUME NEW q \in Rungs, NEW i \in DOMAIN rung'[q], NEW k \in DOMAIN rung'[q], i <= k
        PROVE  rung'[q][i].ttl <= rung'[q][k].ttl
    <3>1. CASE k \in DOMAIN rung[q] /\ rung'[q][k] = rung[q][k] /\ (q = r => k < Len(rung[r]) + 1)
      <4>1. i \in DOMAIN rung[q] /\ rung'[q][i] = rung[q][i]
        <5>1. Len(rung[r]) \in Nat /\ i \in Nat /\ k \in Nat
          BY <1>0, <2>1
        <5> QED
          BY <2>1, <2>3, <3>1, <5>1
      <4> QED
        BY <2>3, <3>1, <4>1 DEF Sorted
    <3>2. CASE q = r /\ k = Len(rung[r]) + 1 /\ rung'[q][k] = [msg |-> j, ttl |-> r]
      BY <2>2, <3>2
    <3> QED
      BY <2>1, <3>1, <3>2
  <2> QED
    BY <2>1, <2>2, <2>3 DEF Sorted
<1> QED
  BY <1>1, <1>2

\* What there will be is a number too.
LEMMA NextNumbers ==
  ASSUME rung' \in [Rungs -> Seq(Entry)], due' \in Seq(Wares), NEW m \in Messages
  PROVE  Owed(m)' \in Nat /\ BacksOf(m)' \in Nat /\ Asked(m)' \in Nat
<1>1. Stock(m)' \in Nat
  BY StoredSplit, SmallestRung DEF Stock
<1>2. Queued(m)' \in Nat
  BY CountIs DEF Queued
<1>3. Held(m)' \in SUBSET Schedulers /\ Backs(m)' \in SUBSET Schedulers /\ IsFiniteSet(Schedulers)
  BY SchedulerAssumption DEF Held, Backs
<1>4. HeldOf(m)' \in Nat /\ BacksOf(m)' \in Nat
  BY <1>3, FS_Subset, FS_CardinalityType DEF HeldOf, BacksOf
<1>5. Asked(m)' \in Nat
  BY DEF Asked
<1> QED
  BY <1>1, <1>2, <1>4, <1>5, NextOwed

\* A step of an actor that keeps account of its own message keeps the invariant.
LEMMA ActorStep ==
  ASSUME SchedInv, NEW a \in Actors, NEW j, j = job[a], j # None, NEW w, Acts(a, j, w),
         j \in Messages => /\ Weight(j)' <= 1 + 2 * faults'
                           /\ j \notin disturbed' => Weight(j)' = 1
                           /\ j \in promised' /\ times'[j] = 0 => Owed(j)' > 0
  PROVE  SchedInv'
<1>0. /\ TypeOK /\ rung \in [Rungs -> Seq(Entry)] /\ due \in Seq(Wares)
      /\ DOMAIN job = Actors /\ DOMAIN pc = Actors /\ App \in Actors
      /\ slack \in Nat /\ faults \in Nat /\ MaxFaults \in Nat
      /\ None \notin Messages /\ None \notin Foreign /\ None \notin Int
  BY Types DEF SchedInv
<1>1. j \in Wares /\ (j \in Messages => InHand(j) /\ left[j] # None /\ left[j] \in Int /\ times[j] \in Nat)
  <2>1. j \in Wares
    BY <1>0 DEF TypeOK, Wares
  <2>2. InHand(j)
    BY DEF InHand
  <2> QED
    BY <1>0, <2>1, <2>2, Types DEF SchedInv, Unscheduled
<1>2. rung' \in [Rungs -> Seq(Entry)] /\ Sorted'
  <2>1. rung' = rung \/ \E r \in Rungs : \E k \in Messages : Enters(k, r)
    BY DEF Acts
  <2> QED
    BY <1>0, <2>1, SortedStays DEF SchedInv
<1>3. due' \in Seq(Wares)
  BY <1>0, <1>1, DueChange DEF Acts
<1>4. /\ left' = left /\ slack' = slack /\ disturbed \subseteq disturbed' /\ promised \subseteq promised'
      /\ faults' \in Nat /\ faults <= faults' /\ faults' <= MaxFaults
  BY <1>0 DEF Acts, TypeOK
<1>5. \A m \in Messages : m # j =>
        /\ Stock(m)' = Stock(m) /\ Queued(m)' = Queued(m)
        /\ Owed(m)' = Owed(m) /\ Weight(m)' = Weight(m) /\ times'[m] = times[m] /\ got'[m] = got[m]
        /\ InHand(m)' => InHand(m)
        /\ (m \in promised' <=> m \in promised) /\ (m \in disturbed' <=> m \in disturbed)
  BY <1>0, OthersStay
<1>6. Weighed'
  <2> SUFFICES ASSUME NEW m \in Messages
               PROVE  /\ Weight(m)' <= 1 + 2 * faults'
                      /\ m \notin disturbed' => Weight(m)' = IF left'[m] = None THEN 0 ELSE 1
    BY DEF Weighed
  <2>1. CASE m = j
    BY <1>1, <1>4, <2>1
  <2>2. CASE m # j
    <3>1. Weight(m) <= 1 + 2 * faults /\ (m \notin disturbed => Weight(m) = IF left[m] = None THEN 0 ELSE 1)
      BY DEF SchedInv, Weighed
    <3>2. Weight(m) \in Int
      <4>1. Owed(m) \in Nat /\ times[m] \in Nat /\ BacksOf(m) \in Nat /\ Asked(m) \in 0..1
        BY <1>0, Numbers
      <4> QED
        BY <4>1 DEF Weight
    <3> QED
      BY <1>0, <1>4, <1>5, <2>2, <3>1, <3>2
  <2> QED
    BY <2>1, <2>2
<1>7. Kept'
  <2> SUFFICES ASSUME NEW m \in promised', times'[m] = 0 PROVE Owed(m)' > 0
    BY DEF Kept
  <2>1. m \in Messages
    <3>1. promised' \subseteq promised \cup {j} /\ (promised' # promised => a = App)
      BY DEF Acts
    <3>2. promised \subseteq Messages /\ (a = App => j \notin Foreign)
      BY <1>0 DEF TypeOK, SchedInv, Working
    <3> QED
      BY <1>1, <3>1, <3>2 DEF Wares
  <2>2. CASE m = j
    BY <2>1, <2>2
  <2>3. CASE m # j
    BY <1>5, <2>1, <2>3 DEF SchedInv, Kept
  <2> QED
    BY <2>2, <2>3
<1>8. OnTime'
  <2> SUFFICES ASSUME NEW m \in Messages, got'[m] # None
               PROVE  got'[m] < Smallest /\ (m \notin disturbed' => got'[m] >= -slack')
    BY DEF OnTime
  <2>1. CASE got'[m] = got[m]
    BY <1>4, <2>1 DEF SchedInv, OnTime
  <2>2. CASE got'[m] # got[m]
    <3>1. m = j
      BY <1>5, <2>2
    <3>2. IsDue(j) /\ got'[j] = left[j]
      BY <2>2, <3>1, <1>0 DEF Acts, TypeOK
    <3>3. j \notin disturbed => left[j] >= -slack
      BY <1>1, <3>1 DEF SchedInv, Ladder
    <3> QED
      BY <1>4, <3>1, <3>2, <3>3 DEF IsDue
  <2> QED
    BY <2>1, <2>2
<1>9. Ladder'
  <2> SUFFICES ASSUME NEW m \in Messages, m \notin disturbed', left[m] # None
               PROVE  /\ \A r \in Rungs : \A i \in DOMAIN rung'[r] :
                           rung'[r][i].msg = m => left[m] - rung'[r][i].ttl >= -slack
                      /\ Queued(m)' > 0 \/ InHand(m)' => left[m] >= -slack
    BY <1>4 DEF Ladder
  <2>1. /\ \A r \in Rungs : \A i \in DOMAIN rung[r] :
             rung[r][i].msg = m => left[m] - rung[r][i].ttl >= -slack
        /\ Queued(m) > 0 \/ InHand(m) => left[m] >= -slack
    BY <1>4 DEF SchedInv, Ladder
  <2>2. Queued(m)' > 0 \/ InHand(m)' => left[m] >= -slack
    BY <1>1, <1>5, <2>1
  <2>3. ASSUME NEW r \in Rungs, NEW i \in DOMAIN rung'[r], rung'[r][i].msg = m
        PROVE  left[m] - rung'[r][i].ttl >= -slack
    <3>1. CASE rung' = rung
      BY <2>1, <2>3, <3>1
    <3>2. ASSUME NEW k \in Rungs, j \in Messages, Enters(j, k), j \notin disturbed' => k <= left[j]
          PROVE  left[m] - rung'[r][i].ttl >= -slack
      <4>1. \/ i \in DOMAIN rung[r] /\ rung'[r][i] = rung[r][i]
            \/ rung'[r][i] = [msg |-> j, ttl |-> k]
        BY <1>0, <3>2, RungGets
      <4>2. CASE i \in DOMAIN rung[r] /\ rung'[r][i] = rung[r][i]
        BY <2>1, <2>3, <4>2
      <4>3. CASE rung'[r][i] = [msg |-> j, ttl |-> k]
        <5>1. m = j /\ rung'[r][i].ttl = k
          BY <2>3, <4>3
        <5>2. k <= left[m] /\ k \in Nat /\ left[m] \in Int
          BY <1>1, <3>2, <5>1, SchedulerAssumption
        <5> QED
          BY <1>0, <5>1, <5>2
      <4> QED
        BY <4>1, <4>2, <4>3
    <3> QED
      BY <3>1, <3>2 DEF Acts
  <2> QED
    BY <2>2, <2>3
<1>10. Unscheduled'
  <2> SUFFICES ASSUME NEW m \in Messages, left[m] = None
               PROVE  ~InHand(m)' /\ got'[m] = None /\ m \notin promised' \cup disturbed'
    BY <1>4 DEF Unscheduled
  <2>1. m # j
    BY <1>1
  <2> QED
    BY <1>5, <2>1 DEF SchedInv, Unscheduled
<1>11. Working'
  <2>1. ASSUME NEW b \in Actors
        PROVE  /\ pc'[b] = "idle" <=> job'[b] = None
               /\ pc'[b] \in {"retrying", "backing"} => job'[b] \in disturbed'
               /\ job'[b] \in Foreign => pc'[b] = "routing"
    <3>1. CASE b # a
      <4>1. job'[b] = job[b] /\ pc'[b] = pc[b]
        BY <1>0, <3>1 DEF Acts
      <4> QED
        BY <1>4, <4>1 DEF SchedInv, Working
    <3>2. CASE b = a
      <4>1. pc'[b] = w /\ job'[b] = IF w = "idle" THEN None ELSE j
        BY <1>0, <3>2 DEF Acts
      <4> QED
        BY <1>0, <4>1 DEF Acts
    <3> QED
      BY <3>1, <3>2
  <2>2. /\ pc'[App] \in {"idle", "routing", "retrying"} /\ job'[App] \notin Foreign
        /\ job'[App] \notin promised'
    <3>1. /\ pc[App] \in {"idle", "routing", "retrying"} /\ job[App] \notin Foreign
          /\ job[App] \notin promised /\ promised \subseteq Messages
      BY <1>0 DEF SchedInv, Working, TypeOK
    <3>2. CASE a = App
      <4>1. /\ pc'[App] = w /\ job'[App] = (IF w = "idle" THEN None ELSE j) /\ w \in {"idle", "retrying"}
            /\ promised' = promised \/ (w = "idle" /\ promised' = promised \cup {j})
        BY <1>0, <3>2 DEF Acts
      <4> QED
        BY <1>0, <3>1, <3>2, <4>1
    <3>3. CASE a # App
      <4>1. job'[App] = job[App] /\ pc'[App] = pc[App] /\ promised' = promised
        BY <1>0, <3>3 DEF Acts
      <4> QED
        BY <3>1, <4>1
    <3> QED
      BY <3>2, <3>3
  <2> QED
    BY <2>1, <2>2 DEF Working
<1>12. TypeOK'
  <2>1. ASSUME NEW m \in Messages PROVE times'[m] \in 0..2 * MaxFaults + 1
    <3>1. times'[m] = times[m] \/ times'[m] = times[m] + 1
      BY <1>0 DEF Acts, TypeOK
    <3>2. times'[m] \in Nat
      BY <1>0, <3>1, Numbers
    <3>3. Weight(m)' <= 1 + 2 * faults'
      BY <1>6 DEF Weighed
    <3>4. Owed(m)' \in Nat /\ BacksOf(m)' \in Nat /\ Asked(m)' \in Nat
      BY <1>2, <1>3, NextNumbers
    <3>5. Weight(m)' = Owed(m)' + times'[m] + BacksOf(m)' + Asked(m)'
      BY NextOwed
    <3> QED
      BY <1>0, <1>4, <3>2, <3>3, <3>4, <3>5
  <2>2. times' \in [Messages -> 0..2 * MaxFaults + 1]
    <3>1. DOMAIN times' = Messages /\ times' = [m \in Messages |-> times'[m]]
      BY <1>0 DEF Acts, TypeOK
    <3> QED
      BY <2>1, <3>1
  <2>3. got' \in [Messages -> (Latest..MaxDelay) \cup {None}]
    <3>1. got \in [Messages -> (Latest..MaxDelay) \cup {None}] /\ left \in [Messages -> (Latest..MaxDelay) \cup {None}]
      BY <1>0 DEF TypeOK
    <3>2. \/ got' = got
          \/ j \in Messages /\ got' = [got EXCEPT ![j] = IF @ = None THEN left[j] ELSE @]
      BY <1>0 DEF Acts
    <3> QED
      BY <3>1, <3>2
  <2>4. job' \in [Actors -> Messages \cup Foreign \cup {None}]
    BY <1>0, <1>1 DEF Acts, TypeOK, Wares
  <2>5. pc' \in [Actors -> {"idle", "routing", "retrying", "backing", "settling"}]
    BY <1>0 DEF Acts, TypeOK
  <2>6. promised' \subseteq Messages /\ disturbed' \subseteq Messages
    <3>1. promised' = promised \/ (a = App /\ promised' = promised \cup {j})
      BY DEF Acts
    <3>2. a = App => j \in Messages
      BY <1>1 DEF SchedInv, Working, Wares
    <3> QED
      BY <1>0, <3>1, <3>2 DEF Acts, TypeOK
  <2>7. left' \in [Messages -> (Latest..MaxDelay) \cup {None}] /\ bound' \in BOOLEAN /\ slack' \in 0..MaxSlack
    BY <1>0 DEF Acts, TypeOK
  <2>8. faults' \in 0..MaxFaults
    BY <1>0, <1>4
  <2> QED
    BY <1>2, <1>3, <2>2, <2>3, <2>4, <2>5, <2>6, <2>7, <2>8 DEF TypeOK, Entry, Wares
<1> QED
  BY <1>2, <1>6, <1>7, <1>8, <1>9, <1>10, <1>11, <1>12 DEF SchedInv

\* What an actor that is at `where` with a message adds to its weight.
Carries(a, where) ==
  IF a = App THEN IF where = "idle" THEN 0 ELSE 1
  ELSE IF where \in {"idle", "settling"} THEN 0 ELSE IF where = "backing" THEN 2 ELSE 1

\* A sum whose parts change.
LEMMA Sums ==
  ASSUME NEW st \in Int, NEW qu \in Int, NEW t \in Int, NEW h \in Int, NEW b \in Int, NEW k \in Int,
         NEW hh \in Int, NEW bb \in Int, NEW kk \in Int, NEW s \in Int, NEW p \in Int, NEW c \in Int,
         NEW y \in Int, NEW z \in Int, hh + bb + kk = h + b + k + y - z
  PROVE  ((st + s) + (qu + p) + hh) + (t + c) + bb + kk = ((st + qu + h) + t + b + k) + s + p + c + y - z
  OBVIOUS

\* What the actor's own message weighs after its step.
LEMMA OwnWeight ==
  ASSUME TypeOK, Working, NEW a \in Actors, NEW j \in Messages, j = job[a], NEW w, Acts(a, j, w),
         NEW s \in 0..1, (s = 0 /\ rung' = rung) \/ (s = 1 /\ \E r \in Rungs : Enters(j, r)),
         NEW p \in 0..2, \/ p = 0 /\ due' = due
                         \/ p = 1 /\ (due' = Append(due, j) \/ due' = <<j>> \o due)
                         \/ p = 2 /\ due' = Append(<<j>> \o due, j),
         NEW c \in 0..1, times'[j] = times[j] + c
  PROVE  /\ Weight(j) \in Int /\ Carries(a, w) \in 0..2 /\ Carries(a, pc[a]) \in 0..2
         /\ Weight(j)' = Weight(j) + s + p + c + Carries(a, w) - Carries(a, pc[a])
         /\ s + p > 0 => Owed(j)' > 0
         /\ a # App /\ w \in {"retrying", "backing"} => Owed(j)' > 0
         /\ a # App /\ pc[a] = "settling" /\ Owed(j) > 0 => Owed(j)' > 0
<1>0. /\ rung \in [Rungs -> Seq(Entry)] /\ due \in Seq(Wares)
      /\ DOMAIN job = Actors /\ DOMAIN pc = Actors /\ App \in Actors
      /\ None \notin Messages
  BY Types
<1>1. Stock(j)' = Stock(j) + s
  <2>1. CASE s = 0 /\ rung' = rung
    <3>1. Stock(j) \in Nat
      BY Numbers
    <3> QED
      BY <2>1, <3>1 DEF Stock
  <2>2. ASSUME NEW r \in Rungs, Enters(j, r), s = 1 PROVE Stock(j)' = Stock(j) + s
    <3>1. Stock(j)' = Stock(j) + 1
      BY <1>0, <2>2, OneMore
    <3> QED
      BY <2>2, <3>1
  <2> QED
    BY <2>1, <2>2
<1>2. Queued(j)' = Queued(j) + p
  <2>0. j \in Wares
    BY DEF Wares
  <2>1. /\ Queued(j) \in Nat
        /\ due' = due => Queued(j)' = Queued(j)
        /\ due' = Append(due, j) => Queued(j)' = Queued(j) + 1
        /\ due' = <<j>> \o due => Queued(j)' = Queued(j) + 1
        /\ due' = Append(<<j>> \o due, j) => Queued(j)' = Queued(j) + 2
    BY <1>0, <2>0, DueChange
  <2> QED
    BY <2>1
<1>3. \A b \in Actors \ {a} : job'[b] = job[b] /\ pc'[b] = pc[b]
  BY <1>0 DEF Acts
<1>4. /\ pc'[a] = w /\ (job'[a] = j <=> w # "idle") /\ job[a] = j
      /\ w \in {"idle", "retrying", "backing", "settling"} /\ (a = App => w \in {"idle", "retrying"})
  BY <1>0 DEF Acts
<1>5. /\ pc[a] \in {"routing", "retrying", "backing", "settling"}
      /\ a = App => pc[a] \in {"routing", "retrying"}
  BY <1>0 DEF TypeOK, Working
<1>6. a \in Schedulers <=> a # App
  BY SchedulerAssumption DEF Actors
<1>7. /\ HeldOf(j) \in Nat /\ BacksOf(j) \in Nat /\ Asked(j) \in 0..1
      /\ HeldOf(j)' =
           HeldOf(j)
             + (IF a \in Schedulers /\ job'[a] = j /\ pc'[a] # "settling" THEN 1 ELSE 0)
             - (IF a \in Schedulers /\ job[a] = j /\ pc[a] # "settling" THEN 1 ELSE 0)
      /\ BacksOf(j)' =
           BacksOf(j)
             + (IF a \in Schedulers /\ job'[a] = j /\ pc'[a] = "backing" THEN 1 ELSE 0)
             - (IF a \in Schedulers /\ job[a] = j /\ pc[a] = "backing" THEN 1 ELSE 0)
      /\ Asked(j)' = IF a = App THEN (IF job'[a] = j THEN 1 ELSE 0) ELSE Asked(j)
  BY <1>3, HandsChange
<1>8. /\ HeldOf(j)' =
           HeldOf(j) + (IF a # App /\ w \in {"retrying", "backing"} THEN 1 ELSE 0)
                     - (IF a # App /\ pc[a] # "settling" THEN 1 ELSE 0)
      /\ BacksOf(j)' =
           BacksOf(j) + (IF a # App /\ w = "backing" THEN 1 ELSE 0)
                      - (IF a # App /\ pc[a] = "backing" THEN 1 ELSE 0)
      /\ Asked(j)' = IF a = App THEN (IF w # "idle" THEN 1 ELSE 0) ELSE Asked(j)
  BY <1>4, <1>6, <1>7
<1>9. a = App => Asked(j) = 1
  BY DEF Asked
<1>10. /\ Carries(a, w) = IF a = App THEN (IF w # "idle" THEN 1 ELSE 0)
                          ELSE (IF w \in {"retrying", "backing"} THEN 1 ELSE 0) + (IF w = "backing" THEN 1 ELSE 0)
       /\ Carries(a, pc[a]) = IF a = App THEN 1
                              ELSE (IF pc[a] # "settling" THEN 1 ELSE 0) + (IF pc[a] = "backing" THEN 1 ELSE 0)
  BY <1>4, <1>5 DEF Carries
<1>11. /\ HeldOf(j)' + BacksOf(j)' + Asked(j)'
            = HeldOf(j) + BacksOf(j) + Asked(j) + Carries(a, w) - Carries(a, pc[a])
       /\ Carries(a, w) \in 0..2 /\ Carries(a, pc[a]) \in 0..2
  <2>1. HeldOf(j) \in Int /\ BacksOf(j) \in Int /\ Asked(j) \in Int
    BY <1>7
  <2>2. CASE a = App
    BY <1>8, <1>9, <1>10, <2>1, <2>2
  <2>3. CASE a # App
    <3>1. PICK x \in 0..1 : x = IF w \in {"retrying", "backing"} THEN 1 ELSE 0
      OBVIOUS
    <3>2. PICK y \in 0..1 : y = IF w = "backing" THEN 1 ELSE 0
      OBVIOUS
    <3>3. PICK u \in 0..1 : u = IF pc[a] # "settling" THEN 1 ELSE 0
      OBVIOUS
    <3>4. PICK v \in 0..1 : v = IF pc[a] = "backing" THEN 1 ELSE 0
      OBVIOUS
    <3>5. HeldOf(j)' = HeldOf(j) + x - u /\ BacksOf(j)' = BacksOf(j) + y - v /\ Asked(j)' = Asked(j)
      BY <1>8, <2>3, <3>1, <3>2, <3>3, <3>4
    <3>6. Carries(a, w) = x + y /\ Carries(a, pc[a]) = u + v
      BY <1>10, <2>3, <3>1, <3>2, <3>3, <3>4
    <3>8. HeldOf(j)' + BacksOf(j)' + Asked(j)' = (HeldOf(j) + x - u) + (BacksOf(j) + y - v) + Asked(j)
      BY <3>5
    <3>9. PICK h \in Int : h = HeldOf(j)
      BY <2>1
    <3>10. PICK b \in Int : b = BacksOf(j)
      BY <2>1
    <3>11. PICK k \in Int : k = Asked(j)
      BY <2>1
    <3>12. (h + x - u) + (b + y - v) + k = h + b + k + (x + y) - (u + v) /\ x + y \in 0..2 /\ u + v \in 0..2
      OBVIOUS
    <3> QED
      BY <3>6, <3>8, <3>9, <3>10, <3>11, <3>12
  <2> QED
    BY <2>2, <2>3
<1>12. /\ Stock(j) \in Nat /\ Queued(j) \in Nat /\ times[j] \in Nat
       /\ Owed(j) = Stock(j) + Queued(j) + HeldOf(j)
       /\ Weight(j) = Owed(j) + times[j] + BacksOf(j) + Asked(j)
  BY Numbers DEF Weight
<1>13. /\ Owed(j)' = Stock(j)' + Queued(j)' + HeldOf(j)'
       /\ Weight(j)' = Owed(j)' + times'[j] + BacksOf(j)' + Asked(j)'
  BY NextOwed
<1>14. HeldOf(j)' \in Nat /\ BacksOf(j)' \in Nat /\ Asked(j)' \in Nat
  <2>1. Held(j)' \in SUBSET Schedulers /\ Backs(j)' \in SUBSET Schedulers /\ IsFiniteSet(Schedulers)
    BY SchedulerAssumption DEF Held, Backs
  <2> QED
    BY <2>1, FS_Subset, FS_CardinalityType DEF HeldOf, BacksOf, Asked
<1>15. Weight(j) \in Int /\ Weight(j)' = Weight(j) + s + p + c + Carries(a, w) - Carries(a, pc[a])
  <2>1. s \in Int /\ p \in Int /\ c \in Int /\ Carries(a, w) \in Int /\ Carries(a, pc[a]) \in Int
    BY <1>11
  <2>2. PICK y : y = Carries(a, w)
    OBVIOUS
  <2>3. PICK z : z = Carries(a, pc[a])
    OBVIOUS
  <2>4. HeldOf(j)' + BacksOf(j)' + Asked(j)' = HeldOf(j) + BacksOf(j) + Asked(j) + y - z /\ y \in Int /\ z \in Int
    BY <1>11, <2>1, <2>2, <2>3
  <2>5. HeldOf(j) \in Nat /\ BacksOf(j) \in Nat /\ Asked(j) \in Nat
    BY <1>7
  <2>6. Weight(j) \in Int /\ Weight(j)' = Weight(j) + s + p + c + y - z
    <3>1. PICK h : h = HeldOf(j)
      OBVIOUS
    <3>2. PICK b : b = BacksOf(j)
      OBVIOUS
    <3>3. PICK k : k = Asked(j)
      OBVIOUS
    <3>4. PICK hh : hh = HeldOf(j)'
      OBVIOUS
    <3>5. PICK bb : bb = BacksOf(j)'
      OBVIOUS
    <3>6. PICK kk : kk = Asked(j)'
      OBVIOUS
    <3>7. PICK st : st = Stock(j)
      OBVIOUS
    <3>8. PICK qu : qu = Queued(j)
      OBVIOUS
    <3>9. PICK t : t = times[j]
      OBVIOUS
    <3>10. /\ h \in Int /\ b \in Int /\ k \in Int /\ hh \in Int /\ bb \in Int /\ kk \in Int
           /\ st \in Int /\ qu \in Int /\ t \in Int /\ hh + bb + kk = h + b + k + y - z
      BY <1>12, <1>14, <2>4, <2>5, <3>1, <3>2, <3>3, <3>4, <3>5, <3>6, <3>7, <3>8, <3>9
    <3>11. Weight(j) = (st + qu + h) + t + b + k
      BY <1>12, <3>1, <3>2, <3>3, <3>7, <3>8, <3>9
    <3>12. Weight(j)' = ((st + s) + (qu + p) + hh) + (t + c) + bb + kk
      BY <1>1, <1>2, <1>13, <3>4, <3>5, <3>6, <3>7, <3>8, <3>9
    <3>13. ((st + s) + (qu + p) + hh) + (t + c) + bb + kk = ((st + qu + h) + t + b + k) + s + p + c + y - z
      <4>1. /\ st \in Int /\ qu \in Int /\ t \in Int /\ h \in Int /\ b \in Int /\ k \in Int
            /\ hh \in Int /\ bb \in Int /\ kk \in Int /\ s \in Int /\ p \in Int /\ c \in Int
            /\ y \in Int /\ z \in Int /\ hh + bb + kk = h + b + k + y - z
        BY <2>1, <2>4, <3>10
      <4> QED
        BY <4>1, Sums, SMTT(30)
    <3> QED
      BY <3>10, <3>11, <3>12, <3>13
  <2> QED
    BY <2>2, <2>3, <2>6
<1>19. s \in Nat /\ p \in Nat /\ HeldOf(j) \in Nat
  BY <1>7
<1>16. s + p > 0 => Owed(j)' > 0
  BY <1>1, <1>2, <1>12, <1>13, <1>14, <1>19
<1>17. a # App /\ w \in {"retrying", "backing"} => Owed(j)' > 0
  <2> SUFFICES ASSUME a # App, w \in {"retrying", "backing"} PROVE Owed(j)' > 0
    OBVIOUS
  <2>1. Held(j)' \in SUBSET Schedulers /\ IsFiniteSet(Schedulers) /\ a \in Held(j)'
    BY <1>4, <1>6, SchedulerAssumption DEF Held
  <2>2. HeldOf(j)' # 0
    BY <2>1, FS_Subset, FS_EmptySet DEF HeldOf
  <2> QED
    <3>1. PICK h : h = HeldOf(j)'
      OBVIOUS
    <3>2. h \in Nat /\ h # 0
      BY <2>2, <1>14, <3>1
    <3>3. Owed(j)' = Stock(j) + s + (Queued(j) + p) + h
      BY <1>1, <1>2, <1>13, <3>1
    <3> QED
      BY <1>12, <1>19, <3>2, <3>3
<1>18. a # App /\ pc[a] = "settling" /\ Owed(j) > 0 => Owed(j)' > 0
  <2> SUFFICES ASSUME a # App, pc[a] = "settling", Owed(j) > 0 PROVE Owed(j)' > 0
    OBVIOUS
  <2>1. HeldOf(j)' >= HeldOf(j)
    BY <1>8, <1>19
  <2> QED
    BY <1>1, <1>2, <1>12, <1>13, <1>14, <1>19, <2>1
<1> QED
  BY <1>11, <1>15, <1>16, <1>17, <1>18

\* A step of an actor keeps the invariant if its message weighs no more than its
\* faults account for and none that after() returned for is lost.
LEMMA OwnStep ==
  ASSUME SchedInv, NEW a \in Actors, NEW j \in Messages, j = job[a], NEW w, Acts(a, j, w),
         NEW s \in 0..1, (s = 0 /\ rung' = rung) \/ (s = 1 /\ \E r \in Rungs : Enters(j, r)),
         NEW p \in 0..2, \/ p = 0 /\ due' = due
                         \/ p = 1 /\ (due' = Append(due, j) \/ due' = <<j>> \o due)
                         \/ p = 2 /\ due' = Append(<<j>> \o due, j),
         NEW c \in 0..1, times'[j] = times[j] + c,
         NEW d \in Int, d = s + p + c + Carries(a, w) - Carries(a, pc[a]),
         d <= 0 \/ (d <= 2 /\ faults' = faults + 1),
         d = 0 \/ j \in disturbed',
         j \in promised' =>
           \/ s + p + c > 0
           \/ a # App /\ (w \in {"retrying", "backing"} \/ (j \in promised /\ pc[a] = "settling"))
  PROVE  SchedInv'
<1>0. TypeOK /\ Working /\ None \notin Messages /\ faults \in Nat /\ times[j] \in Nat
  BY Types DEF SchedInv
<1>1. /\ Weight(j) \in Int /\ Carries(a, w) \in 0..2 /\ Carries(a, pc[a]) \in 0..2
      /\ Weight(j)' = Weight(j) + s + p + c + Carries(a, w) - Carries(a, pc[a])
      /\ s + p > 0 => Owed(j)' > 0
      /\ a # App /\ w \in {"retrying", "backing"} => Owed(j)' > 0
      /\ a # App /\ pc[a] = "settling" /\ Owed(j) > 0 => Owed(j)' > 0
  BY <1>0, OwnWeight
<1>2. Weight(j)' = Weight(j) + d
  <2>1. PICK y : y = Carries(a, w)
    OBVIOUS
  <2>2. PICK z : z = Carries(a, pc[a])
    OBVIOUS
  <2>3. PICK v : v = Weight(j)
    OBVIOUS
  <2>4. v \in Int /\ y \in Int /\ z \in Int /\ s \in Int /\ p \in Int /\ c \in Int
    BY <1>1, <2>1, <2>2, <2>3
  <2>5. Weight(j)' = v + s + p + c + y - z /\ d = s + p + c + y - z
    BY <1>1, <2>1, <2>2, <2>3
  <2> QED
    BY <2>3, <2>4, <2>5
<1>3. left[j] # None
  BY DEF SchedInv, Unscheduled, InHand
<1>4. Weight(j) <= 1 + 2 * faults /\ (j \notin disturbed => Weight(j) = 1)
  BY <1>3 DEF SchedInv, Weighed
<1>5. disturbed \subseteq disturbed' /\ (faults' = faults \/ faults' = faults + 1)
  BY DEF Acts
<1>6. Weight(j)' <= 1 + 2 * faults'
  <2>1. Weight(j) \in Int /\ faults' \in Nat
    <3>1. faults' \in Nat
      BY <1>0, <1>5
    <3> QED
      BY <1>1, <3>1
  <2> QED
    BY <1>0, <1>2, <1>4, <1>5, <2>1
<1>7. j \notin disturbed' => Weight(j)' = 1
  BY <1>2, <1>4, <1>5
<1>8. j \in promised' /\ times'[j] = 0 => Owed(j)' > 0
  <2> SUFFICES ASSUME j \in promised', times'[j] = 0 PROVE Owed(j)' > 0
    OBVIOUS
  <2>1. c = 0 /\ times[j] = 0
    BY <1>0
  <2>2. CASE s + p + c > 0
    BY <1>1, <2>1, <2>2
  <2>3. CASE a # App /\ w \in {"retrying", "backing"}
    BY <1>1, <2>3
  <2>4. CASE a # App /\ j \in promised /\ pc[a] = "settling"
    <3>1. Owed(j) > 0
      BY <2>1, <2>4 DEF SchedInv, Kept
    <3> QED
      BY <1>1, <2>4, <3>1
  <2> QED
    BY <2>2, <2>3, <2>4
<1>9. j # None
  BY <1>0
<1> QED
  BY <1>6, <1>7, <1>8, <1>9, ActorStep

-----------------------------------------------------------------------------
(* The actors' steps, one by one *)

\* What the invariant says of an actor with a message.
LEMMA AtWork ==
  ASSUME SchedInv, NEW a \in Actors, NEW j \in Messages, j = job[a]
  PROVE  /\ left[j] \in Int /\ times[j] \in Nat /\ times \in [Messages -> 0..2 * MaxFaults + 1]
         /\ disturbed \subseteq Messages /\ Foreign \cap Messages = {}
         /\ pc[a] \in {"routing", "retrying", "backing", "settling"}
         /\ pc[a] \in {"retrying", "backing"} => j \in disturbed
         /\ a = App => pc[a] \in {"routing", "retrying"} /\ j \notin promised
         /\ \A where : Carries(a, where) =
              IF a = App THEN IF where = "idle" THEN 0 ELSE 1
              ELSE IF where \in {"idle", "settling"} THEN 0 ELSE IF where = "backing" THEN 2 ELSE 1
<1>1. TypeOK /\ Working /\ None \notin Messages
  BY Types DEF SchedInv
<1>2. left[j] # None
  BY DEF SchedInv, Unscheduled, InHand
<1>3. left[j] \in Int /\ times[j] \in Nat
  BY <1>1, <1>2, Types
<1>4. /\ pc[a] \in {"routing", "retrying", "backing", "settling"}
      /\ pc[a] \in {"retrying", "backing"} => j \in disturbed
      /\ a = App => pc[a] \in {"routing", "retrying"} /\ j \notin promised
  BY <1>1 DEF TypeOK, Working
<1> QED
  BY <1>1, <1>3, <1>4, SchedulerAssumption DEF TypeOK, Carries

\* Where a message hops to: it does not overshoot, unless something went wrong with it.
LEMMA HopTarget ==
  ASSUME SchedInv, NEW a \in Actors, Hopping(a)
  PROVE  /\ job[a] \in Messages /\ pc[a] \in {"routing", "retrying"} /\ NextRung(a) \in Rungs
         /\ job[a] \notin disturbed => NextRung(a) <= left[job[a]]
<1>1. pc[a] = "retrying" => job[a] \in disturbed /\ disturbed \subseteq Messages
  BY DEF SchedInv, Working, TypeOK
<1>2. job[a] \in Messages /\ pc[a] \in {"routing", "retrying"}
  BY <1>1 DEF Hopping
<1>3. PICK j \in Messages : j = job[a]
  BY <1>2
<1>4. left[j] \in Int
  BY <1>3, AtWork
<1>5. CASE pc[a] = "retrying"
  BY <1>1, <1>2, <1>5, SchedulerAssumption DEF NextRung
<1>6. CASE pc[a] = "routing"
  <2>1. ~IsDue(j)
    BY <1>3, <1>6 DEF Hopping
  <2>2. RungFor(j) \in Rungs /\ RungFor(j) <= left[j]
    BY <1>4, <2>1, FittingRung
  <2> QED
    BY <1>2, <1>3, <1>6, <2>2 DEF NextRung
<1> QED
  BY <1>2, <1>5, <1>6

\* A message is delivered.
LEMMA DeliversKeeps ==
  ASSUME SchedInv, NEW a \in Actors, Delivers(a)
  PROVE  SchedInv'
<1>1. PICK j \in Messages : j = job[a]
  BY DEF Delivers
<1>2. PICK w : w = IF a = App THEN "idle" ELSE "settling"
  OBVIOUS
<1>3. /\ left[j] \in Int /\ times[j] \in Nat /\ times \in [Messages -> 0..2 * MaxFaults + 1]
      /\ Foreign \cap Messages = {}
      /\ \A where : Carries(a, where) =
           IF a = App THEN IF where = "idle" THEN 0 ELSE 1
           ELSE IF where \in {"idle", "settling"} THEN 0 ELSE IF where = "backing" THEN 2 ELSE 1
  BY <1>1, AtWork
<1>4. /\ pc[a] = "routing" /\ IsDue(j)
      /\ times' = [times EXCEPT ![j] = @ + 1]
      /\ got' = [got EXCEPT ![j] = IF @ = None THEN left[j] ELSE @]
      /\ left' = left /\ rung' = rung /\ due' = due /\ bound' = bound
      /\ disturbed' = disturbed /\ slack' = slack /\ faults' = faults
  BY <1>1 DEF Delivers, Arrives, broker
<1>5. /\ pc' = [pc EXCEPT ![a] = w]
      /\ job' = [job EXCEPT ![a] = IF w = "idle" THEN None ELSE j]
      /\ promised' = promised \/ (a = App /\ w = "idle" /\ promised' = promised \cup {j})
  <2>1. job \in [Actors -> Messages \cup Foreign \cup {None}]
    BY DEF SchedInv, TypeOK
  <2>2. CASE a = App
    BY <1>1, <1>2, <2>2 DEF Delivers, Moved, Becomes
  <2>3. CASE a # App
    BY <1>1, <1>2, <2>1, <2>3 DEF Delivers, Moved, Becomes
  <2> QED
    BY <2>2, <2>3
<1>6. Acts(a, j, w)
  BY <1>1, <1>2, <1>3, <1>4, <1>5 DEF Acts
<1>7. times'[j] = times[j] + 1
  BY <1>3, <1>4
<1>8. Carries(a, w) = 0 /\ Carries(a, pc[a]) = 1
  BY <1>2, <1>3, <1>4
<1>9. 0 = 0 + 0 + 1 + Carries(a, w) - Carries(a, pc[a]) /\ 0 + 0 + 1 > 0 /\ 0 <= 0
  BY <1>8
<1>10. 0 \in 0..1 /\ 0 \in 0..2 /\ 1 \in 0..1 /\ 0 \in Int
  OBVIOUS
<1> QED
  BY <1>1, <1>4, <1>6, <1>7, <1>9, <1>10, OwnStep

\* It is not, or nobody hears that it was.
LEMMA DeliverFailsKeeps ==
  ASSUME SchedInv, NEW a \in Actors, DeliverFails(a)
  PROVE  SchedInv'
<1>1. PICK j \in Messages : j = job[a]
  BY DEF DeliverFails
<1>2. PICK w : w = "retrying"
  OBVIOUS
<1>3. /\ left[j] \in Int /\ times[j] \in Nat /\ times \in [Messages -> 0..2 * MaxFaults + 1]
      /\ Foreign \cap Messages = {} /\ (a = App => j \notin promised)
      /\ \A where : Carries(a, where) =
           IF a = App THEN IF where = "idle" THEN 0 ELSE 1
           ELSE IF where \in {"idle", "settling"} THEN 0 ELSE IF where = "backing" THEN 2 ELSE 1
  BY <1>1, AtWork
<1>4. /\ pc[a] = "routing" /\ IsDue(j)
      /\ left' = left /\ rung' = rung /\ due' = due /\ bound' = bound
      /\ disturbed' = disturbed \cup {j} /\ slack' = slack /\ promised' = promised
  BY <1>1 DEF DeliverFails, Fault, broker
<1>5. /\ pc' = [pc EXCEPT ![a] = w]
      /\ job' = [job EXCEPT ![a] = IF w = "idle" THEN None ELSE j]
  <2>1. job \in [Actors -> Messages \cup Foreign \cup {None}]
    BY DEF SchedInv, TypeOK
  <2> QED
    BY <1>1, <1>2, <2>1 DEF DeliverFails, Becomes
<1>6. Carries(a, w) = 1 /\ Carries(a, pc[a]) = 1
  BY <1>2, <1>3, <1>4
<1>7. a # App => w \in {"retrying", "backing"}
  BY <1>2
<1>8. CASE got' = got /\ times' = times /\ (faults' = faults \/ (faults < MaxFaults /\ faults' = faults + 1))
  <2>1. Acts(a, j, w)
    BY <1>1, <1>2, <1>3, <1>4, <1>5, <1>8 DEF Acts
  <2>2. times'[j] = times[j] + 0
    BY <1>3, <1>8
  <2>3. 0 = 0 + 0 + 0 + Carries(a, w) - Carries(a, pc[a]) /\ 0 <= 0
    BY <1>6
  <2>4. 0 \in 0..1 /\ 0 \in 0..2 /\ 0 \in Int
    OBVIOUS
  <2>5. /\ (0 = 0 /\ rung' = rung) /\ (0 = 0 /\ due' = due)
        /\ j \in promised' => a # App /\ w \in {"retrying", "backing"}
    BY <1>3, <1>4, <1>7
  <2> QED
    BY <1>1, <2>1, <2>2, <2>3, <2>4, <2>5, OwnStep
<1>9. CASE /\ faults < MaxFaults /\ faults' = faults + 1
           /\ times' = [times EXCEPT ![j] = @ + 1]
           /\ got' = [got EXCEPT ![j] = IF @ = None THEN left[j] ELSE @]
  <2>1. Acts(a, j, w)
    BY <1>1, <1>2, <1>3, <1>4, <1>5, <1>9 DEF Acts
  <2>2. times'[j] = times[j] + 1
    BY <1>3, <1>9
  <2>3. 1 = 0 + 0 + 1 + Carries(a, w) - Carries(a, pc[a]) /\ 1 <= 2 /\ 0 + 0 + 1 > 0
    BY <1>6
  <2>4. 0 \in 0..1 /\ 0 \in 0..2 /\ 1 \in 0..1 /\ 1 \in Int /\ j \in disturbed'
    BY <1>4
  <2> QED
    BY <1>1, <1>4, <1>9, <2>1, <2>2, <2>3, <2>4, OwnStep
<1> QED
  BY <1>1, <1>8, <1>9 DEF DeliverFails, Fault, Arrives

\* A message goes into its next rung.
LEMMA HopsKeeps ==
  ASSUME SchedInv, NEW a \in Actors, Hops(a)
  PROVE  SchedInv'
<1>0. Hopping(a) /\ Enters(job[a], NextRung(a))
  BY DEF Hops
<1>1. PICK j \in Messages : j = job[a]
  BY <1>0, HopTarget
<1>2. PICK w : w = IF a = App THEN "idle" ELSE "settling"
  OBVIOUS
<1>3. /\ left[j] \in Int /\ times[j] \in Nat
      /\ Foreign \cap Messages = {}
      /\ \A where : Carries(a, where) =
           IF a = App THEN IF where = "idle" THEN 0 ELSE 1
           ELSE IF where \in {"idle", "settling"} THEN 0 ELSE IF where = "backing" THEN 2 ELSE 1
  BY <1>1, AtWork
<1>4. PICK k \in Rungs : k = NextRung(a)
  BY <1>0, HopTarget
<1>5. /\ pc[a] \in {"routing", "retrying"} /\ Enters(j, k) /\ (j \notin disturbed => k <= left[j])
      /\ left' = left /\ due' = due /\ bound' = bound /\ got' = got /\ times' = times
      /\ disturbed' = disturbed /\ slack' = slack /\ faults' = faults
  BY <1>0, <1>1, <1>4, HopTarget DEF Hops
<1>6. /\ pc' = [pc EXCEPT ![a] = w]
      /\ job' = [job EXCEPT ![a] = IF w = "idle" THEN None ELSE j]
      /\ promised' = promised \/ (a = App /\ w = "idle" /\ promised' = promised \cup {j})
  <2>1. job \in [Actors -> Messages \cup Foreign \cup {None}]
    BY DEF SchedInv, TypeOK
  <2>2. CASE a = App
    BY <1>1, <1>2, <2>2 DEF Hops, Moved, Becomes
  <2>3. CASE a # App
    BY <1>1, <1>2, <2>1, <2>3 DEF Hops, Moved, Becomes
  <2> QED
    BY <2>2, <2>3
<1>7. Acts(a, j, w)
  BY <1>1, <1>2, <1>3, <1>4, <1>5, <1>6 DEF Acts
<1>8. times'[j] = times[j] + 0
  BY <1>3, <1>5
<1>9. Carries(a, w) = 0 /\ Carries(a, pc[a]) = 1
  BY <1>2, <1>3, <1>5
<1>10. 0 = 1 + 0 + 0 + Carries(a, w) - Carries(a, pc[a]) /\ 0 <= 0 /\ 1 + 0 + 0 > 0
  BY <1>9
<1>11. 1 \in 0..1 /\ 0 \in 0..1 /\ 0 \in 0..2 /\ 0 \in Int /\ (\E r \in Rungs : Enters(j, r))
  BY <1>4, <1>5
<1> QED
  BY <1>1, <1>5, <1>7, <1>8, <1>10, <1>11, OwnStep

\* It does not, or nobody hears that it did.
LEMMA HopFailsKeeps ==
  ASSUME SchedInv, NEW a \in Actors, HopFails(a)
  PROVE  SchedInv'
<1>0. Hopping(a)
  BY DEF HopFails
<1>1. PICK j \in Messages : j = job[a]
  BY <1>0, HopTarget
<1>2. PICK w : w = IF a = App THEN "idle" ELSE "backing"
  OBVIOUS
<1>3. /\ left[j] \in Int /\ times[j] \in Nat
      /\ Foreign \cap Messages = {} /\ (a = App => j \notin promised)
      /\ \A where : Carries(a, where) =
           IF a = App THEN IF where = "idle" THEN 0 ELSE 1
           ELSE IF where \in {"idle", "settling"} THEN 0 ELSE IF where = "backing" THEN 2 ELSE 1
  BY <1>1, AtWork
<1>4. PICK k \in Rungs : k = NextRung(a)
  BY <1>0, HopTarget
<1>5. /\ pc[a] \in {"routing", "retrying"}
      /\ left' = left /\ due' = due /\ bound' = bound /\ got' = got /\ times' = times
      /\ promised' = promised
      /\ disturbed' = disturbed \cup {j} /\ slack' = slack /\ faults < MaxFaults /\ faults' = faults + 1
  BY <1>0, <1>1, HopTarget DEF HopFails, Fault, history
<1>6. /\ pc' = [pc EXCEPT ![a] = w]
      /\ job' = [job EXCEPT ![a] = IF w = "idle" THEN None ELSE j]
  <2>1. job \in [Actors -> Messages \cup Foreign \cup {None}]
    BY DEF SchedInv, TypeOK
  <2>2. CASE a = App
    BY <1>1, <1>2, <2>2 DEF HopFails, Becomes
  <2>3. CASE a # App
    BY <1>1, <1>2, <2>1, <2>3 DEF HopFails, Becomes
  <2> QED
    BY <2>2, <2>3
<1>7. /\ a # App => Carries(a, w) = 2 /\ w \in {"retrying", "backing"}
      /\ a = App => Carries(a, w) = 0
      /\ Carries(a, pc[a]) = 1
  BY <1>2, <1>3, <1>5
<1>8. times'[j] = times[j] + 0 /\ 0 \in 0..1 /\ 0 \in 0..2 /\ 1 \in 0..1 /\ j \in disturbed'
  BY <1>3, <1>5
<1>9. CASE rung' = rung
  <2>1. Acts(a, j, w)
    BY <1>1, <1>2, <1>3, <1>5, <1>6, <1>9 DEF Acts
  <2>2. PICK d : d = 0 + 0 + 0 + Carries(a, w) - Carries(a, pc[a])
    OBVIOUS
  <2>3. d \in Int /\ d <= 2
    BY <1>7, <2>2
  <2> QED
    BY <1>1, <1>3, <1>5, <1>7, <1>8, <1>9, <2>1, <2>2, <2>3, OwnStep
<1>10. CASE Enters(j, k)
  <2>1. Acts(a, j, w)
    BY <1>1, <1>2, <1>3, <1>4, <1>5, <1>6, <1>10 DEF Acts
  <2>2. PICK d : d = 1 + 0 + 0 + Carries(a, w) - Carries(a, pc[a])
    OBVIOUS
  <2>3. d \in Int /\ d <= 2 /\ (\E r \in Rungs : Enters(j, r))
    BY <1>7, <1>10, <2>2
  <2> QED
    BY <1>1, <1>3, <1>5, <1>7, <1>8, <2>1, <2>2, <2>3, OwnStep
<1> QED
  BY <1>1, <1>4, <1>9, <1>10 DEF HopFails

\* A scheduler hands back what is not its own.
LEMMA RejectsKeeps ==
  ASSUME SchedInv, NEW a \in Schedulers, Rejects(a)
  PROVE  SchedInv'
<1>1. PICK j \in Foreign : j = job[a]
  BY DEF Rejects
<1>2. PICK w : w = "idle"
  OBVIOUS
<1>3. a \in Actors /\ a # App /\ j \notin Messages /\ j # None
  BY <1>1, SchedulerAssumption DEF Actors
<1>4. Acts(a, j, w)
  BY <1>1, <1>2, <1>3 DEF Rejects, Becomes, history, Acts
<1> QED
  BY <1>1, <1>3, <1>4, ActorStep

\* A scheduler at `where` has a message in hand.
LEMMA SchedulerHas ==
  ASSUME SchedInv, NEW a \in Schedulers,
         pc[a] \in {"backing", "settling"} \/ (pc[a] # "idle" /\ job[a] \in Messages)
  PROVE  a \in Actors /\ a # App /\ job[a] \in Messages
<1>1. a \in Actors /\ a # App
  BY SchedulerAssumption DEF Actors
<1>2. job[a] \in Messages \cup Foreign \cup {None}
  BY <1>1 DEF SchedInv, TypeOK
<1> QED
  BY <1>1, <1>2 DEF SchedInv, Working

\* It puts a message back.
LEMMA PutsBackKeeps ==
  ASSUME SchedInv, NEW a \in Schedulers, PutsBack(a)
  PROVE  SchedInv'
<1>0. a \in Actors /\ a # App /\ job[a] \in Messages
  BY SchedulerHas DEF PutsBack
<1>1. PICK j \in Messages : j = job[a]
  BY <1>0
<1>2. PICK w : w = "settling"
  OBVIOUS
<1>3. /\ left[j] \in Int /\ times[j] \in Nat
      /\ Foreign \cap Messages = {} /\ (pc[a] \in {"retrying", "backing"} => j \in disturbed)
      /\ \A where : Carries(a, where) =
           IF a = App THEN IF where = "idle" THEN 0 ELSE 1
           ELSE IF where \in {"idle", "settling"} THEN 0 ELSE IF where = "backing" THEN 2 ELSE 1
  BY <1>0, <1>1, AtWork
<1>4. /\ pc[a] = "backing" /\ due' = Append(due, j)
      /\ left' = left /\ rung' = rung /\ bound' = bound /\ got' = got /\ times' = times
      /\ promised' = promised /\ disturbed' = disturbed /\ slack' = slack /\ faults' = faults
  BY <1>1 DEF PutsBack, history
<1>5. /\ pc' = [pc EXCEPT ![a] = w]
      /\ job' = [job EXCEPT ![a] = IF w = "idle" THEN None ELSE j]
  <2>1. job \in [Actors -> Messages \cup Foreign \cup {None}]
    BY DEF SchedInv, TypeOK
  <2> QED
    BY <1>0, <1>1, <1>2, <2>1 DEF PutsBack, Becomes
<1>6. Acts(a, j, w)
  BY <1>0, <1>1, <1>2, <1>3, <1>4, <1>5 DEF Acts
<1>7. Carries(a, w) = 0 /\ Carries(a, pc[a]) = 2
  BY <1>0, <1>2, <1>3, <1>4
<1>8. times'[j] = times[j] + 0 /\ 0 \in 0..1 /\ 1 \in 0..2 /\ j \in disturbed'
  BY <1>3, <1>4
<1>9. PICK d : d = 0 + 1 + 0 + Carries(a, w) - Carries(a, pc[a])
  OBVIOUS
<1>10. d \in Int /\ d <= 0 /\ 0 + 1 + 0 > 0
  BY <1>7, <1>9
<1> QED
  BY <1>0, <1>1, <1>4, <1>6, <1>8, <1>9, <1>10, OwnStep

\* It fails to, and hands the delivery back.
LEMMA PutBackFailsKeeps ==
  ASSUME SchedInv, NEW a \in Schedulers, PutBackFails(a)
  PROVE  SchedInv'
<1>0. a \in Actors /\ a # App /\ job[a] \in Messages
  BY SchedulerHas DEF PutBackFails
<1>1. PICK j \in Messages : j = job[a]
  BY <1>0
<1>2. PICK w : w = "idle"
  OBVIOUS
<1>3. /\ left[j] \in Int /\ times[j] \in Nat
      /\ Foreign \cap Messages = {} /\ (pc[a] \in {"retrying", "backing"} => j \in disturbed)
      /\ \A where : Carries(a, where) =
           IF a = App THEN IF where = "idle" THEN 0 ELSE 1
           ELSE IF where \in {"idle", "settling"} THEN 0 ELSE IF where = "backing" THEN 2 ELSE 1
  BY <1>0, <1>1, AtWork
<1>4. /\ pc[a] = "backing" /\ (due' = <<j>> \o due \/ due' = Append(<<j>> \o due, j))
      /\ left' = left /\ rung' = rung /\ bound' = bound /\ got' = got /\ times' = times
      /\ promised' = promised /\ disturbed' = disturbed /\ slack' = slack /\ faults' = faults
  BY <1>1 DEF PutBackFails, history
<1>5. /\ pc' = [pc EXCEPT ![a] = w]
      /\ job' = [job EXCEPT ![a] = IF w = "idle" THEN None ELSE j]
  <2>1. job \in [Actors -> Messages \cup Foreign \cup {None}]
    BY DEF SchedInv, TypeOK
  <2> QED
    BY <1>0, <1>1, <1>2, <2>1 DEF PutBackFails, Becomes
<1>6. Acts(a, j, w)
  BY <1>0, <1>1, <1>2, <1>3, <1>4, <1>5 DEF Acts
<1>7. Carries(a, w) = 0 /\ Carries(a, pc[a]) = 2
  BY <1>0, <1>2, <1>3, <1>4
<1>8. times'[j] = times[j] + 0 /\ 0 \in 0..1 /\ 1 \in 0..2 /\ 2 \in 0..2 /\ j \in disturbed'
  BY <1>3, <1>4
<1>9. CASE due' = <<j>> \o due
  <2>1. PICK d : d = 0 + 1 + 0 + Carries(a, w) - Carries(a, pc[a])
    OBVIOUS
  <2>2. d \in Int /\ d <= 0 /\ 0 + 1 + 0 > 0
    BY <1>7, <2>1
  <2> QED
    BY <1>0, <1>1, <1>4, <1>6, <1>8, <1>9, <2>1, <2>2, OwnStep
<1>10. CASE due' = Append(<<j>> \o due, j)
  <2>1. PICK d : d = 0 + 2 + 0 + Carries(a, w) - Carries(a, pc[a])
    OBVIOUS
  <2>2. d \in Int /\ d <= 0 /\ 0 + 2 + 0 > 0
    BY <1>7, <2>1
  <2> QED
    BY <1>0, <1>1, <1>4, <1>6, <1>8, <1>10, <2>1, <2>2, OwnStep
<1> QED
  BY <1>4, <1>9, <1>10

\* It acknowledges a delivery that went somewhere.
LEMMA SettlesKeeps ==
  ASSUME SchedInv, NEW a \in Schedulers, Settles(a)
  PROVE  SchedInv'
<1>0. a \in Actors /\ a # App /\ job[a] \in Messages
  BY SchedulerHas DEF Settles
<1>1. PICK j \in Messages : j = job[a]
  BY <1>0
<1>2. PICK w : w = "idle"
  OBVIOUS
<1>3. /\ left[j] \in Int /\ times[j] \in Nat /\ Foreign \cap Messages = {}
      /\ \A where : Carries(a, where) =
           IF a = App THEN IF where = "idle" THEN 0 ELSE 1
           ELSE IF where \in {"idle", "settling"} THEN 0 ELSE IF where = "backing" THEN 2 ELSE 1
  BY <1>0, <1>1, AtWork
<1>4. /\ pc[a] = "settling" /\ due' = due
      /\ left' = left /\ rung' = rung /\ bound' = bound /\ got' = got /\ times' = times
      /\ promised' = promised /\ disturbed' = disturbed /\ slack' = slack /\ faults' = faults
  BY <1>1 DEF Settles, history, broker
<1>5. /\ pc' = [pc EXCEPT ![a] = w]
      /\ job' = [job EXCEPT ![a] = IF w = "idle" THEN None ELSE j]
  <2>1. job \in [Actors -> Messages \cup Foreign \cup {None}]
    BY DEF SchedInv, TypeOK
  <2> QED
    BY <1>0, <1>1, <1>2, <2>1 DEF Settles, Becomes
<1>6. Acts(a, j, w)
  BY <1>0, <1>1, <1>2, <1>3, <1>4, <1>5 DEF Acts
<1>7. Carries(a, w) = 0 /\ Carries(a, pc[a]) = 0
  BY <1>0, <1>2, <1>3, <1>4
<1>8. times'[j] = times[j] + 0 /\ 0 \in 0..1 /\ 0 \in 0..2 /\ 0 \in Int
  BY <1>3, <1>4
<1>9. 0 = 0 + 0 + 0 + Carries(a, w) - Carries(a, pc[a]) /\ 0 <= 0
  BY <1>7
<1>10. j \in promised' => j \in promised
  BY <1>4
<1> QED
  BY <1>0, <1>1, <1>4, <1>6, <1>8, <1>9, <1>10, OwnStep

\* It goes, and the broker hands the delivery out again.
LEMMA CrashesKeeps ==
  ASSUME SchedInv, NEW a \in Schedulers, Crashes(a)
  PROVE  SchedInv'
<1>0. a \in Actors /\ a # App /\ job[a] \in Messages
  BY SchedulerHas DEF Crashes
<1>1. PICK j \in Messages : j = job[a]
  BY <1>0
<1>2. PICK w : w = "idle"
  OBVIOUS
<1>3. /\ left[j] \in Int /\ times[j] \in Nat /\ Foreign \cap Messages = {}
      /\ pc[a] \in {"routing", "retrying", "backing", "settling"}
      /\ \A where : Carries(a, where) =
           IF a = App THEN IF where = "idle" THEN 0 ELSE 1
           ELSE IF where \in {"idle", "settling"} THEN 0 ELSE IF where = "backing" THEN 2 ELSE 1
  BY <1>0, <1>1, AtWork
<1>4. /\ due' = <<j>> \o due
      /\ left' = left /\ rung' = rung /\ bound' = bound /\ got' = got /\ times' = times
      /\ promised' = promised /\ disturbed' = disturbed \cup {j} /\ slack' = slack
      /\ faults < MaxFaults /\ faults' = faults + 1
  BY <1>1 DEF Crashes, history, Fault
<1>5. /\ pc' = [pc EXCEPT ![a] = w]
      /\ job' = [job EXCEPT ![a] = IF w = "idle" THEN None ELSE j]
  <2>1. job \in [Actors -> Messages \cup Foreign \cup {None}]
    BY DEF SchedInv, TypeOK
  <2> QED
    BY <1>0, <1>1, <1>2, <2>1 DEF Crashes, Becomes
<1>6. Acts(a, j, w)
  BY <1>0, <1>1, <1>2, <1>3, <1>4, <1>5 DEF Acts
<1>7. Carries(a, w) = 0 /\ Carries(a, pc[a]) \in 0..2
  BY <1>0, <1>2, <1>3
<1>8. times'[j] = times[j] + 0 /\ 0 \in 0..1 /\ 1 \in 0..2 /\ j \in disturbed'
  BY <1>3, <1>4
<1>9. PICK d : d = 0 + 1 + 0 + Carries(a, w) - Carries(a, pc[a])
  OBVIOUS
<1>10. d \in Int /\ d <= 2 /\ 0 + 1 + 0 > 0
  BY <1>7, <1>9
<1> QED
  BY <1>0, <1>1, <1>4, <1>6, <1>8, <1>9, <1>10, OwnStep

-----------------------------------------------------------------------------
(* The broker's steps, the clock, and what brings an actor its message *)

\* Binding a queue to the target, or nothing at all.
LEMMA BindsKeeps ==
  ASSUME SchedInv, bound' \in BOOLEAN,
         UNCHANGED <<left, rung, due, job, pc, history, disturbed, slack, faults>>
  PROVE  SchedInv'
<1>1. /\ left' = left /\ rung' = rung /\ due' = due /\ job' = job /\ pc' = pc
      /\ got' = got /\ times' = times /\ promised' = promised
      /\ disturbed' = disturbed /\ slack' = slack /\ faults' = faults
  BY DEF history
<1>2. TypeOK'
  BY <1>1 DEF SchedInv, TypeOK
<1>3. Sorted' /\ Working' /\ OnTime'
  BY <1>1 DEF SchedInv, Sorted, Working, OnTime
<1>4. Unscheduled'
  BY <1>1 DEF SchedInv, Unscheduled, InHand
<1>5. \A m \in Messages : Owed(m)' = Owed(m) /\ Weight(m)' = Weight(m)
  BY <1>1 DEF Owed, InRung, Weight, BacksOf, Backs, Asked
<1>6. Ladder'
  <2>1. \A m \in Messages : Queued(m)' = Queued(m) /\ InHand(m)' = InHand(m)
    BY <1>1 DEF Queued, InHand
  <2> QED
    BY <1>1, <2>1 DEF SchedInv, Ladder
<1>7. Kept'
  BY <1>1, <1>5 DEF SchedInv, Kept, TypeOK
<1>8. Weighed'
  BY <1>1, <1>5 DEF SchedInv, Weighed
<1> QED
  BY <1>2, <1>3, <1>4, <1>6, <1>7, <1>8 DEF SchedInv

\* The hands of all stay as they are.
LEMMA HandsStay ==
  ASSUME job' = job, pc' = pc
  PROVE  \A m \in Messages :
           /\ HeldOf(m)' = HeldOf(m) /\ BacksOf(m)' = BacksOf(m)
           /\ Asked(m)' = Asked(m) /\ (InHand(m)' <=> InHand(m))
  BY DEF HeldOf, Held, BacksOf, Backs, Asked, InHand

\* The head of a rung goes to the control queue.
LEMMA ExpiresKeeps ==
  ASSUME SchedInv, NEW r \in Rungs, Expires(r)
  PROVE  SchedInv'
<1>0. TypeOK /\ rung \in [Rungs -> Seq(Entry)] /\ due \in Seq(Wares) /\ slack \in Nat
  BY Types DEF SchedInv
<1>1. /\ rung[r] # <<>> /\ Head(rung[r]).ttl = 0
      /\ rung' = [rung EXCEPT ![r] = Tail(@)]
      /\ left' = left /\ job' = job /\ pc' = pc /\ bound' = bound
      /\ got' = got /\ times' = times /\ promised' = promised
      /\ disturbed' = disturbed /\ slack' = slack /\ faults' = faults
  BY DEF Expires, history
<1>2. PICK j : j = Head(rung[r]).msg
  OBVIOUS
<1>3. due' = Append(due, j)
  BY <1>2 DEF Expires
<1>4. /\ rung' \in [Rungs -> Seq(Entry)]
      /\ j \in Messages /\ 1 \in DOMAIN rung[r] /\ rung[r][1] = Head(rung[r])
      /\ \A m \in Messages : Stock(m) \in Nat /\ Stock(m)' = Stock(m) - (IF m = j THEN 1 ELSE 0)
      /\ \A q \in Rungs \ {r} : rung'[q] = rung[q]
      /\ \A i \in DOMAIN rung'[r] : i \in Nat /\ i + 1 \in DOMAIN rung[r] /\ rung'[r][i] = rung[r][i + 1]
  BY <1>0, <1>1, <1>2, RungLoses
<1>5. /\ due' \in Seq(Wares)
      /\ \A m \in Messages : Queued(m) \in Nat /\ Queued(m)' = Queued(m) + (IF m = j THEN 1 ELSE 0)
  <2>1. j \in Wares
    BY <1>4 DEF Wares
  <2> QED
    BY <1>0, <1>3, <2>1, DueChange
<1>6. \A m \in Messages :
        /\ HeldOf(m)' = HeldOf(m) /\ BacksOf(m)' = BacksOf(m)
        /\ Asked(m)' = Asked(m) /\ (InHand(m)' <=> InHand(m))
  BY <1>1, HandsStay
<1>7. ASSUME NEW m \in Messages PROVE Owed(m)' = Owed(m) /\ Weight(m)' = Weight(m)
  <2>1. /\ Owed(m) = Stock(m) + Queued(m) + HeldOf(m) /\ HeldOf(m) \in Nat
        /\ Owed(m)' = Stock(m)' + Queued(m)' + HeldOf(m)'
        /\ Weight(m)' = Owed(m)' + times'[m] + BacksOf(m)' + Asked(m)'
    BY <1>0, Numbers, NextOwed
  <2>2. PICK x : x = IF m = j THEN 1 ELSE 0
    OBVIOUS
  <2>3. x \in Int /\ Stock(m) \in Nat /\ Queued(m) \in Nat /\ Stock(m)' = Stock(m) - x /\ Queued(m)' = Queued(m) + x
    BY <1>4, <1>5, <2>2
  <2>4. Owed(m)' = Owed(m)
    BY <1>6, <2>1, <2>3
  <2> QED
    BY <1>1, <1>6, <2>1, <2>4 DEF Weight
<1>8. TypeOK'
  BY <1>0, <1>1, <1>4, <1>5 DEF TypeOK, Entry, Wares
<1>9. Sorted'
  <2> SUFFICES ASSUME NEW q \in Rungs
               PROVE  /\ \A i \in DOMAIN rung'[q] : rung'[q][i].ttl <= q
                      /\ \A i, k \in DOMAIN rung'[q] : i <= k => rung'[q][i].ttl <= rung'[q][k].ttl
    BY DEF Sorted
  <2>1. /\ \A i \in DOMAIN rung[q] : rung[q][i].ttl <= q
        /\ \A i, k \in DOMAIN rung[q] : i <= k => rung[q][i].ttl <= rung[q][k].ttl
    BY DEF SchedInv, Sorted
  <2>2. CASE q # r
    BY <1>4, <2>1, <2>2
  <2>3. CASE q = r
    <3>1. ASSUME NEW i \in DOMAIN rung'[r], NEW k \in DOMAIN rung'[r], i <= k
          PROVE  rung'[r][i].ttl <= rung'[r][k].ttl
      <4>1. i + 1 \in DOMAIN rung[r] /\ k + 1 \in DOMAIN rung[r] /\ i + 1 <= k + 1
        BY <1>4, <3>1
      <4> QED
        BY <1>4, <2>1, <2>3, <4>1
    <3> QED
      BY <1>4, <2>1, <2>3, <3>1
  <2> QED
    BY <2>2, <2>3
<1>10. Ladder'
  <2> SUFFICES ASSUME NEW m \in Messages, m \notin disturbed, left[m] # None
               PROVE  /\ \A q \in Rungs : \A i \in DOMAIN rung'[q] :
                           rung'[q][i].msg = m => left[m] - rung'[q][i].ttl >= -slack
                      /\ Queued(m)' > 0 \/ InHand(m)' => left[m] >= -slack
    BY <1>1 DEF Ladder
  <2>1. /\ \A q \in Rungs : \A i \in DOMAIN rung[q] :
             rung[q][i].msg = m => left[m] - rung[q][i].ttl >= -slack
        /\ Queued(m) > 0 \/ InHand(m) => left[m] >= -slack
    BY DEF SchedInv, Ladder
  <2>2. m = j => left[m] >= -slack
    <3>1. left[m] \in Int
      BY <1>0, Types
    <3>2. m = j => left[m] - 0 >= -slack
      BY <1>1, <1>2, <1>4, <2>1
    <3> QED
      BY <3>1, <3>2
  <2>3. \A q \in Rungs : \A i \in DOMAIN rung'[q] :
          rung'[q][i].msg = m => left[m] - rung'[q][i].ttl >= -slack
    <3> SUFFICES ASSUME NEW q \in Rungs, NEW i \in DOMAIN rung'[q], rung'[q][i].msg = m
                 PROVE  left[m] - rung'[q][i].ttl >= -slack
      OBVIOUS
    <3>1. CASE q # r
      <4>1. rung'[q] = rung[q]
        BY <1>4, <3>1
      <4> QED
        BY <2>1, <4>1
    <3>2. CASE q = r
      <4>1. PICK k \in DOMAIN rung[r] : rung'[r][i] = rung[r][k]
        BY <1>4, <3>2
      <4> QED
        BY <2>1, <3>2, <4>1
    <3> QED
      BY <3>1, <3>2
  <2>4. m # j => Queued(m)' = Queued(m)
    BY <1>5
  <2> QED
    BY <1>6, <2>1, <2>2, <2>3, <2>4
<1>11. Unscheduled'
  BY <1>1, <1>6 DEF SchedInv, Unscheduled
<1>12. Working' /\ OnTime'
  BY <1>1 DEF SchedInv, Working, OnTime
<1>13. Kept'
  BY <1>0, <1>1, <1>7 DEF SchedInv, Kept, TypeOK
<1>14. Weighed'
  BY <1>1, <1>7 DEF SchedInv, Weighed
<1> QED
  BY <1>8, <1>9, <1>10, <1>11, <1>12, <1>13, <1>14 DEF SchedInv

\* Time passes in every rung, and moves nothing.
LEMMA TickRungs ==
  ASSUME TypeOK, Tick
  PROVE  /\ rung' \in [Rungs -> Seq(Entry)]
         /\ \A r \in Rungs : DOMAIN rung'[r] = DOMAIN rung[r]
         /\ \A r \in Rungs : \A i \in DOMAIN rung[r] :
              /\ rung[r][i].ttl \in Nat /\ rung'[r][i].msg = rung[r][i].msg
              /\ rung'[r][i].ttl = Max({rung[r][i].ttl - 1, 0}) /\ rung'[r][i].ttl \in Nat
              /\ rung'[r][i].ttl >= rung[r][i].ttl - 1
              /\ rung[r][i].ttl > 0 => rung'[r][i].ttl = rung[r][i].ttl - 1
              /\ rung[r][i].ttl = 0 => rung'[r][i].ttl = 0
         /\ \A m \in Messages : Stock(m)' = Stock(m)
<1>0. rung \in [Rungs -> Seq(Entry)]
  BY Types
<1>1. rung' = [r \in Rungs |-> [i \in DOMAIN rung[r] |-> [rung[r][i] EXCEPT !.ttl = Max({@ - 1, 0})]]]
  BY DEF Tick
<1>2. ASSUME NEW r \in Rungs
      PROVE  /\ rung'[r] = [i \in DOMAIN rung[r] |-> [rung[r][i] EXCEPT !.ttl = Max({@ - 1, 0})]]
             /\ rung[r] \in Seq(Entry) /\ DOMAIN rung'[r] = DOMAIN rung[r]
  BY <1>0, <1>1
<1>3. ASSUME NEW r \in Rungs, NEW i \in DOMAIN rung[r]
      PROVE  /\ rung'[r][i] \in Entry
             /\ rung[r][i].ttl \in Nat /\ rung'[r][i].msg = rung[r][i].msg
             /\ rung'[r][i].ttl = Max({rung[r][i].ttl - 1, 0}) /\ rung'[r][i].ttl \in Nat
             /\ rung'[r][i].ttl >= rung[r][i].ttl - 1
             /\ rung[r][i].ttl > 0 => rung'[r][i].ttl = rung[r][i].ttl - 1
             /\ rung[r][i].ttl = 0 => rung'[r][i].ttl = 0
  <2>0. PICK s \in Seq(Entry) : s = rung[r]
    BY <1>2
  <2>1. PICK e \in Entry : e = rung[r][i]
    BY <2>0
  <2>2. PICK x : x = Max({e.ttl - 1, 0})
    OBVIOUS
  <2>3. rung'[r][i] = [e EXCEPT !.ttl = x]
    <3>1. rung'[r][i] = [rung[r][i] EXCEPT !.ttl = Max({@ - 1, 0})]
      BY <1>2
    <3> QED
      BY <2>1, <2>2, <3>1
  <2>4. e.ttl \in Nat /\ e.ttl - 1 \in Int
    BY DEF Entry
  <2>5. x \in {e.ttl - 1, 0} /\ x >= e.ttl - 1 /\ x >= 0
    <3>1. PICK y \in Int : y = e.ttl - 1
      BY <2>4
    <3>2. PICK z \in Int : z = 0
      OBVIOUS
    <3>3. Max({y, z}) \in {y, z} /\ Max({y, z}) >= y /\ Max({y, z}) >= z
      BY MaxOfTwo
    <3>4. x = Max({y, z})
      BY <2>2, <3>1, <3>2
    <3> QED
      BY <3>1, <3>2, <3>3, <3>4
  <2>6. x \in Nat /\ (e.ttl > 0 => x = e.ttl - 1) /\ (e.ttl = 0 => x = 0)
    BY <2>4, <2>5
  <2>7. rung'[r][i] \in Entry /\ rung'[r][i].msg = e.msg /\ rung'[r][i].ttl = x
    BY <2>3, <2>6 DEF Entry
  <2> QED
    BY <2>1, <2>2, <2>4, <2>5, <2>6, <2>7
<1>4. rung' \in [Rungs -> Seq(Entry)]
  <2>1. ASSUME NEW r \in Rungs PROVE rung'[r] \in Seq(Entry)
    <3>1. PICK s \in Seq(Entry) : s = rung[r]
      BY <1>2
    <3>2. DOMAIN s = 1..Len(s) /\ Len(s) \in Nat
      OBVIOUS
    <3>4. DOMAIN rung'[r] = 1..Len(s)
      <4>1. DOMAIN rung'[r] = DOMAIN rung[r]
        BY <1>2
      <4> QED
        BY <3>1, <3>2, <4>1
    <3>5. \A i \in 1..Len(s) : rung'[r][i] \in Entry
      <4>1. \A i \in DOMAIN rung[r] : rung'[r][i] \in Entry
        BY <1>3
      <4> QED
        BY <3>1, <3>2, <4>1
    <3>3. rung'[r] = [i \in 1..Len(s) |-> rung'[r][i]]
      <4>1. rung'[r] = [i \in DOMAIN rung'[r] |-> rung'[r][i]]
        BY <1>2
      <4> QED
        BY <3>4, <4>1
    <3> QED
      BY <3>2, <3>3, <3>5
  <2> QED
    BY <1>1, <2>1
<1>5. ASSUME NEW m \in Messages PROVE Stock(m)' = Stock(m)
  <2>1. \A r \in Rungs : InRung(rung'[r], m) = InRung(rung[r], m)
    BY <1>2, <1>3 DEF InRung
  <2>2. {{r} \X InRung(rung'[r], m) : r \in Rungs} = {{r} \X InRung(rung[r], m) : r \in Rungs}
    BY <2>1
  <2> QED
    BY <2>2 DEF Stock, Stored
<1> QED
  BY <1>2, <1>3, <1>4, <1>5

\* And every message is due sooner.
LEMMA TickLeft ==
  ASSUME TypeOK, Tick, NEW m \in Messages
  PROVE  /\ left'[m] \in (Latest..MaxDelay) \cup {None}
         /\ left'[m] = None <=> left[m] = None
         /\ left[m] # None => left[m] \in Int /\ left'[m] \in Int /\ left'[m] >= left[m] - 1
<1>1. None \notin Int /\ MaxDelay \in Nat /\ Latest \in Int /\ Latest <= MaxDelay
  BY SchedulerAssumption DEF Latest
<1>2. left'[m] = IF left[m] = None THEN None ELSE Max({left[m] - 1, Latest})
  BY DEF Tick
<1>3. left[m] \in (Latest..MaxDelay) \cup {None}
  BY DEF TypeOK
<1>4. CASE left[m] = None
  BY <1>1, <1>2, <1>4
<1>5. CASE left[m] # None
  <2>1. PICK y : y = left[m]
    OBVIOUS
  <2>2. PICK x : x = Max({y - 1, Latest})
    OBVIOUS
  <2>3. y \in Latest..MaxDelay /\ left'[m] = x /\ y - 1 \in Int
    BY <1>1, <1>2, <1>3, <1>5, <2>1, <2>2
  <2>4. x \in {y - 1, Latest} /\ x >= y - 1 /\ x >= Latest
    BY <1>1, <2>2, <2>3, MaxOfTwo
  <2>5. x \in Latest..MaxDelay /\ x \in Int /\ x # None
    BY <1>1, <2>3, <2>4
  <2> QED
    BY <1>1, <1>5, <2>1, <2>3, <2>4, <2>5
<1> QED
  BY <1>4, <1>5

\* A rung with an entry whose stay is over has something to give away, as nothing
\* before it stays longer; so has the control queue, and whoever holds a message.
LEMMA WhatIsReady ==
  ASSUME SchedInv, NEW m \in Messages,
         \/ \E r \in Rungs : \E i \in DOMAIN rung[r] : rung[r][i].ttl = 0
         \/ Queued(m) > 0
         \/ InHand(m)
  PROVE  Ready
<1>0. TypeOK /\ rung \in [Rungs -> Seq(Entry)] /\ due \in Seq(Wares)
  BY Types DEF SchedInv
<1>1. ASSUME NEW r \in Rungs, NEW i \in DOMAIN rung[r], rung[r][i].ttl = 0 PROVE Ready
  <2>1. PICK s \in Seq(Entry) : s = rung[r]
    BY <1>0
  <2>2. i \in 1..Len(s) /\ Len(s) \in Nat /\ s # <<>>
    BY <1>1, <2>1
  <2>3. Head(s) \in Entry /\ 1 \in DOMAIN s /\ s[1] = Head(s)
    BY <2>2, TailPlaces
  <2>4. s[1].ttl <= s[i].ttl
    BY <2>1, <2>2, <2>3 DEF SchedInv, Sorted
  <2>5. Head(s).ttl = 0
    BY <1>1, <2>1, <2>3, <2>4 DEF Entry
  <2> QED
    BY <2>1, <2>2, <2>5 DEF Ready
<1>2. CASE Queued(m) > 0
  <2>1. CountOf(due, {m}) \in Nat /\ (CountOf(due, {m}) = 0 <=> \A i \in DOMAIN due : due[i] \notin {m})
    BY <1>0, CountIs
  <2>2. PICK i \in DOMAIN due : due[i] = m
    BY <1>2, <2>1 DEF Queued
  <2>3. m \in Range(due)
    BY <2>2 DEF Range
  <2> QED
    BY <2>3 DEF Ready
<1>3. CASE InHand(m)
  BY <1>3 DEF InHand, Ready
<1> QED
  BY <1>1, <1>2, <1>3

\* The clock.
LEMMA TickKeeps ==
  ASSUME SchedInv, Tick
  PROVE  SchedInv'
<1>0. TypeOK /\ rung \in [Rungs -> Seq(Entry)] /\ due \in Seq(Wares) /\ slack \in Nat /\ MaxSlack \in Nat
  BY Types, SchedulerAssumption DEF SchedInv
<1>1. /\ due' = due /\ job' = job /\ pc' = pc /\ bound' = bound
      /\ got' = got /\ times' = times /\ promised' = promised
      /\ disturbed' = disturbed /\ faults' = faults
      /\ slack' = slack \/ (slack < MaxSlack /\ slack' = slack + 1)
      /\ Ready => slack' = slack + 1
  BY DEF Tick, history
<1>2. /\ rung' \in [Rungs -> Seq(Entry)]
      /\ \A r \in Rungs : DOMAIN rung'[r] = DOMAIN rung[r]
      /\ \A r \in Rungs : \A i \in DOMAIN rung[r] :
           /\ rung[r][i].ttl \in Nat /\ rung'[r][i].msg = rung[r][i].msg
           /\ rung'[r][i].ttl \in Nat
           /\ rung'[r][i].ttl >= rung[r][i].ttl - 1
           /\ rung[r][i].ttl > 0 => rung'[r][i].ttl = rung[r][i].ttl - 1
           /\ rung[r][i].ttl = 0 => rung'[r][i].ttl = 0
      /\ \A m \in Messages : Stock(m)' = Stock(m)
  BY <1>0, TickRungs
<1>3. \A m \in Messages :
        /\ left'[m] \in (Latest..MaxDelay) \cup {None}
        /\ left'[m] = None <=> left[m] = None
        /\ left[m] # None => left[m] \in Int /\ left'[m] \in Int /\ left'[m] >= left[m] - 1
  BY <1>0, TickLeft
<1>4. \A m \in Messages :
        /\ HeldOf(m)' = HeldOf(m) /\ BacksOf(m)' = BacksOf(m)
        /\ Asked(m)' = Asked(m) /\ (InHand(m)' <=> InHand(m)) /\ Queued(m)' = Queued(m)
  BY <1>1, HandsStay DEF Queued
<1>5. ASSUME NEW m \in Messages PROVE Owed(m)' = Owed(m) /\ Weight(m)' = Weight(m)
  <2>1. /\ Owed(m) = Stock(m) + Queued(m) + HeldOf(m)
        /\ Owed(m)' = Stock(m)' + Queued(m)' + HeldOf(m)'
        /\ Weight(m)' = Owed(m)' + times'[m] + BacksOf(m)' + Asked(m)'
    BY <1>0, Numbers, NextOwed
  <2> QED
    BY <1>1, <1>2, <1>4, <2>1 DEF Weight
<1>6. TypeOK'
  <2>1. slack' \in 0..MaxSlack
    BY <1>0, <1>1 DEF TypeOK
  <2>2. left' \in [Messages -> (Latest..MaxDelay) \cup {None}]
    <3>1. left' = [m \in Messages |-> left'[m]]
      BY DEF Tick
    <3> QED
      BY <1>3, <3>1
  <2> QED
    BY <1>0, <1>1, <1>2, <2>1, <2>2 DEF TypeOK, Entry
<1>7. Sorted'
  <2> SUFFICES ASSUME NEW r \in Rungs
               PROVE  /\ \A i \in DOMAIN rung'[r] : rung'[r][i].ttl <= r
                      /\ \A i, k \in DOMAIN rung'[r] : i <= k => rung'[r][i].ttl <= rung'[r][k].ttl
    BY DEF Sorted
  <2>1. r \in Nat /\ DOMAIN rung'[r] = DOMAIN rung[r]
    BY <1>2, SchedulerAssumption
  <2>2. ASSUME NEW i \in DOMAIN rung[r] PROVE rung'[r][i].ttl <= r
    <3>1. rung[r][i].ttl <= r /\ rung[r][i].ttl \in Nat
      BY <1>2 DEF SchedInv, Sorted
    <3>2. /\ rung[r][i].ttl > 0 => rung'[r][i].ttl = rung[r][i].ttl - 1
          /\ rung[r][i].ttl = 0 => rung'[r][i].ttl = 0
      BY <1>2
    <3> QED
      BY <2>1, <3>1, <3>2
  <2>3. ASSUME NEW i \in DOMAIN rung[r], NEW k \in DOMAIN rung[r], i <= k
        PROVE  rung'[r][i].ttl <= rung'[r][k].ttl
    <3>1. rung[r][i].ttl <= rung[r][k].ttl /\ rung[r][i].ttl \in Nat /\ rung[r][k].ttl \in Nat
      BY <1>2, <2>3 DEF SchedInv, Sorted
    <3>2. /\ rung[r][i].ttl > 0 => rung'[r][i].ttl = rung[r][i].ttl - 1
          /\ rung[r][i].ttl = 0 => rung'[r][i].ttl = 0
          /\ rung[r][k].ttl > 0 => rung'[r][k].ttl = rung[r][k].ttl - 1
          /\ rung[r][k].ttl = 0 => rung'[r][k].ttl = 0
      BY <1>2
    <3> QED
      BY <3>1, <3>2
  <2> QED
    BY <2>1, <2>2, <2>3
<1>8. Ladder'
  <2> SUFFICES ASSUME NEW m \in Messages, m \notin disturbed, left[m] # None
               PROVE  /\ \A r \in Rungs : \A i \in DOMAIN rung'[r] :
                           rung'[r][i].msg = m => left'[m] - rung'[r][i].ttl >= -slack'
                      /\ Queued(m)' > 0 \/ InHand(m)' => left'[m] >= -slack'
    BY <1>1, <1>3 DEF Ladder
  <2>1. /\ \A r \in Rungs : \A i \in DOMAIN rung[r] :
             rung[r][i].msg = m => left[m] - rung[r][i].ttl >= -slack
        /\ Queued(m) > 0 \/ InHand(m) => left[m] >= -slack
    BY DEF SchedInv, Ladder
  <2>2. left[m] \in Int /\ left'[m] \in Int /\ left'[m] >= left[m] - 1 /\ slack' \in Nat /\ slack' >= slack
    BY <1>0, <1>1, <1>3
  <2>3. ASSUME NEW r \in Rungs, NEW i \in DOMAIN rung[r], rung[r][i].msg = m
        PROVE  left'[m] - rung'[r][i].ttl >= -slack'
    <3>1. PICK t : t = rung[r][i].ttl
      OBVIOUS
    <3>2. PICK u : u = rung'[r][i].ttl
      OBVIOUS
    <3>3. t \in Nat /\ u \in Nat /\ (t > 0 => u = t - 1) /\ (t = 0 => u = 0)
      BY <1>2, <3>1, <3>2
    <3>4. left[m] - t >= -slack
      BY <2>1, <2>3, <3>1
    <3>7. PICK y \in Int : y = left[m]
      BY <2>2
    <3>8. PICK z \in Int : z = left'[m]
      BY <2>2
    <3>9. PICK k \in Nat : k = slack
      BY <1>0
    <3>10. PICK l \in Nat : l = slack'
      BY <2>2
    <3>11. z >= y - 1 /\ l >= k /\ y - t >= -k
      BY <2>2, <3>4, <3>7, <3>8, <3>9, <3>10
    <3>12. t = 0 => l = k + 1
      BY <1>1, <3>1, <3>9, <3>10, WhatIsReady
    <3>13. z - u >= -l
      <4>1. CASE t > 0
        BY <3>3, <3>11, <4>1
      <4>2. CASE t = 0
        BY <3>3, <3>11, <3>12, <4>2
      <4> QED
        BY <3>3, <4>1, <4>2
    <3> QED
      BY <3>2, <3>8, <3>10, <3>13
  <2>4. Queued(m) > 0 \/ InHand(m) => left'[m] >= -slack'
    <3> SUFFICES ASSUME Queued(m) > 0 \/ InHand(m) PROVE left'[m] >= -slack'
      OBVIOUS
    <3>1. Ready
      BY WhatIsReady
    <3> QED
      BY <1>0, <1>1, <2>1, <2>2, <3>1
  <2> QED
    BY <1>2, <1>4, <2>3, <2>4
<1>9. Unscheduled'
  BY <1>1, <1>3, <1>4 DEF SchedInv, Unscheduled
<1>10. Working'
  BY <1>1 DEF SchedInv, Working
<1>11. OnTime'
  <2> SUFFICES ASSUME NEW m \in Messages, got[m] # None
               PROVE  got[m] < Smallest /\ (m \notin disturbed => got[m] >= -slack')
    BY <1>1 DEF OnTime
  <2>1. got[m] < Smallest /\ (m \notin disturbed => got[m] >= -slack)
    BY DEF SchedInv, OnTime
  <2>2. got[m] \in Latest..MaxDelay /\ Latest \in Int
    BY <1>0 DEF TypeOK, Latest
  <2> QED
    BY <1>0, <1>1, <2>1, <2>2
<1>12. Kept'
  BY <1>0, <1>1, <1>5 DEF SchedInv, Kept, TypeOK
<1>13. Weighed'
  BY <1>1, <1>3, <1>5 DEF SchedInv, Weighed
<1> QED
  BY <1>6, <1>7, <1>8, <1>9, <1>10, <1>11, <1>12, <1>13 DEF SchedInv

\* A weight is a number.
LEMMA WeightIsInt ==
  ASSUME TypeOK, NEW m \in Messages
  PROVE  Weight(m) \in Int
<1>1. /\ Stock(m) \in Nat /\ Queued(m) \in Nat /\ HeldOf(m) \in Nat
      /\ BacksOf(m) \in Nat /\ Asked(m) \in Nat /\ times[m] \in Nat
      /\ Owed(m) = Stock(m) + Queued(m) + HeldOf(m)
  BY Numbers
<1>2. Owed(m) \in Nat
  BY <1>1
<1> QED
  BY <1>1, <1>2 DEF Weight

\* What nobody scheduled weighs nothing.
LEMMA NothingThere ==
  ASSUME SchedInv, NEW m \in Messages, left[m] = None
  PROVE  /\ m \notin disturbed /\ m \notin promised /\ ~InHand(m) /\ got[m] = None
         /\ Stock(m) = 0 /\ Queued(m) = 0 /\ Owed(m) = 0 /\ Weight(m) = 0
<1>1. m \notin disturbed /\ m \notin promised /\ ~InHand(m) /\ got[m] = None
  BY DEF SchedInv, Unscheduled
<1>2. Weight(m) = 0
  BY <1>1 DEF SchedInv, Weighed
<1>3. /\ Stock(m) \in Nat /\ Queued(m) \in Nat /\ HeldOf(m) \in Nat
      /\ BacksOf(m) \in Nat /\ Asked(m) \in 0..1 /\ times[m] \in Nat
      /\ Owed(m) = Stock(m) + Queued(m) + HeldOf(m)
  BY Numbers DEF SchedInv
<1>4. Owed(m) + times[m] + BacksOf(m) + Asked(m) = 0
  BY <1>2 DEF Weight
<1> QED
  BY <1>1, <1>2, <1>3, <1>4

\* The application calls after() or at().
LEMMA SchedulesKeeps ==
  ASSUME SchedInv, NEW j \in Messages, NEW d \in 0..MaxDelay, Schedules(j, d)
  PROVE  SchedInv'
<1>0. /\ TypeOK /\ rung \in [Rungs -> Seq(Entry)] /\ due \in Seq(Wares) /\ slack \in Nat
      /\ DOMAIN job = Actors /\ DOMAIN pc = Actors /\ App \in Actors
      /\ None \notin Messages /\ None \notin Int
  BY Types DEF SchedInv
<1>1. /\ left[j] = None /\ pc[App] = "idle"
      /\ left' = [left EXCEPT ![j] = d]
      /\ job' = [job EXCEPT ![App] = j] /\ pc' = [pc EXCEPT ![App] = "routing"]
      /\ rung' = rung /\ due' = due /\ bound' = bound
      /\ got' = got /\ times' = times /\ promised' = promised
      /\ disturbed' = disturbed /\ slack' = slack /\ faults' = faults
  BY DEF Schedules, broker, history
<1>2. /\ j \notin disturbed /\ j \notin promised /\ ~InHand(j) /\ got[j] = None
      /\ Stock(j) = 0 /\ Queued(j) = 0 /\ Owed(j) = 0 /\ Weight(j) = 0
  BY <1>1, NothingThere
<1>3. d \in Nat /\ d # None /\ MaxDelay \in Nat /\ Latest \in Int /\ Latest <= 0
  BY <1>0, SchedulerAssumption DEF Latest
<1>4. /\ left'[j] = d /\ \A m \in Messages \ {j} : left'[m] = left[m]
      /\ left' \in [Messages -> (Latest..MaxDelay) \cup {None}]
  BY <1>0, <1>1, <1>3 DEF TypeOK
<1>5. \A b \in Actors \ {App} : job'[b] = job[b] /\ pc'[b] = pc[b]
  BY <1>0, <1>1
<1>6. job'[App] = j /\ pc'[App] = "routing" /\ job[App] = None
  BY <1>0, <1>1 DEF SchedInv, Working
<1>7. ASSUME NEW m \in Messages
      PROVE  /\ Stock(m)' = Stock(m) /\ Queued(m)' = Queued(m)
             /\ Owed(m)' = Owed(m) /\ Weight(m)' = Weight(m) + (IF m = j THEN 1 ELSE 0)
             /\ m # j => (InHand(m)' => InHand(m))
  <2>1. Stock(m)' = Stock(m) /\ Queued(m)' = Queued(m)
    BY <1>1 DEF Stock, Queued
  <2>2. App \notin Schedulers
    BY SchedulerAssumption
  <2>3. /\ HeldOf(m) \in Nat /\ BacksOf(m) \in Nat
        /\ HeldOf(m)' =
             HeldOf(m)
               + (IF App \in Schedulers /\ job'[App] = m /\ pc'[App] # "settling" THEN 1 ELSE 0)
               - (IF App \in Schedulers /\ job[App] = m /\ pc[App] # "settling" THEN 1 ELSE 0)
        /\ BacksOf(m)' =
             BacksOf(m)
               + (IF App \in Schedulers /\ job'[App] = m /\ pc'[App] = "backing" THEN 1 ELSE 0)
               - (IF App \in Schedulers /\ job[App] = m /\ pc[App] = "backing" THEN 1 ELSE 0)
        /\ Asked(m)' = IF App = App THEN (IF job'[App] = m THEN 1 ELSE 0) ELSE Asked(m)
    BY <1>0, <1>5, HandsChange
  <2>4. HeldOf(m)' = HeldOf(m) /\ BacksOf(m)' = BacksOf(m)
    BY <2>2, <2>3
  <2>5. Asked(m) = 0 /\ Asked(m)' = IF m = j THEN 1 ELSE 0
    BY <1>0, <1>6, <2>3 DEF Asked
  <2>6. /\ Owed(m) = Stock(m) + Queued(m) + HeldOf(m) /\ Stock(m) \in Nat /\ Queued(m) \in Nat
        /\ times[m] \in Nat
        /\ Owed(m)' = Stock(m)' + Queued(m)' + HeldOf(m)'
        /\ Weight(m)' = Owed(m)' + times'[m] + BacksOf(m)' + Asked(m)'
    BY <1>0, Numbers, NextOwed
  <2>7. Owed(m)' = Owed(m) /\ Owed(m) \in Nat
    BY <2>1, <2>3, <2>4, <2>6
  <2>8. Weight(m)' = Weight(m) + (IF m = j THEN 1 ELSE 0)
    <3>1. Weight(m) = Owed(m) + times[m] + BacksOf(m) + 0
      BY <2>5 DEF Weight
    <3>2. Weight(m)' = Owed(m) + times[m] + BacksOf(m) + Asked(m)'
      BY <1>1, <2>4, <2>6, <2>7
    <3> QED
      BY <2>3, <2>5, <2>6, <2>7, <3>1, <3>2
  <2>9. m # j => (InHand(m)' => InHand(m))
    BY <1>5, <1>6 DEF InHand
  <2> QED
    BY <2>1, <2>7, <2>8, <2>9
<1>8. TypeOK'
  BY <1>0, <1>1, <1>4 DEF TypeOK, Entry
<1>9. Sorted' /\ OnTime'
  BY <1>1 DEF SchedInv, Sorted, OnTime
<1>10. Unscheduled'
  BY <1>1, <1>3, <1>4, <1>7 DEF SchedInv, Unscheduled
<1>11. Working'
  <2>1. ASSUME NEW b \in Actors
        PROVE  /\ pc'[b] = "idle" <=> job'[b] = None
               /\ pc'[b] \in {"retrying", "backing"} => job'[b] \in disturbed'
               /\ job'[b] \in Foreign => pc'[b] = "routing"
    <3>1. CASE b = App
      BY <1>0, <1>6, <3>1
    <3>2. CASE b # App
      <4>1. job'[b] = job[b] /\ pc'[b] = pc[b]
        BY <1>5, <3>2
      <4> QED
        BY <1>1, <4>1 DEF SchedInv, Working
    <3> QED
      BY <3>1, <3>2
  <2>2. j \notin Foreign
    BY SchedulerAssumption
  <2> QED
    BY <1>1, <1>2, <1>6, <2>1, <2>2 DEF Working
<1>12. Ladder'
  <2> SUFFICES ASSUME NEW m \in Messages, m \notin disturbed, left'[m] # None
               PROVE  /\ \A r \in Rungs : \A i \in DOMAIN rung[r] :
                           rung[r][i].msg = m => left'[m] - rung[r][i].ttl >= -slack
                      /\ Queued(m)' > 0 \/ InHand(m)' => left'[m] >= -slack
    BY <1>1 DEF Ladder
  <2>1. CASE m = j
    <3>1. \A r \in Rungs : \A i \in DOMAIN rung[r] : rung[r][i].msg # m
      <4> SUFFICES ASSUME NEW r \in Rungs, NEW i \in DOMAIN rung[r], rung[r][i].msg = m PROVE FALSE
        OBVIOUS
      <4>1. Stock(m) > 0
        BY <1>0, EntryCounts
      <4> QED
        BY <1>2, <2>1, <4>1
    <3>2. left'[m] >= -slack
      BY <1>0, <1>3, <1>4, <2>1
    <3> QED
      BY <3>1, <3>2
  <2>2. CASE m # j
    <3>1. left'[m] = left[m]
      BY <1>4, <2>2
    <3>2. /\ \A r \in Rungs : \A i \in DOMAIN rung[r] :
             rung[r][i].msg = m => left[m] - rung[r][i].ttl >= -slack
          /\ Queued(m) > 0 \/ InHand(m) => left[m] >= -slack
      BY <3>1 DEF SchedInv, Ladder
    <3> QED
      BY <1>7, <2>2, <3>1, <3>2
  <2> QED
    BY <2>1, <2>2
<1>13. Kept'
  BY <1>0, <1>1, <1>7 DEF SchedInv, Kept, TypeOK
<1>14. Weighed'
  <2> SUFFICES ASSUME NEW m \in Messages
               PROVE  /\ Weight(m)' <= 1 + 2 * faults
                      /\ m \notin disturbed => Weight(m)' = IF left'[m] = None THEN 0 ELSE 1
    BY <1>1 DEF Weighed
  <2>1. CASE m = j
    <3>1. Weight(m)' = 1 /\ faults \in Nat
      BY <1>0, <1>2, <1>7, <2>1, Types
    <3> QED
      BY <1>3, <1>4, <2>1, <3>1
  <2>2. CASE m # j
    <3>1. Weight(m) \in Int
      BY <1>0, WeightIsInt
    <3>2. Weight(m)' = Weight(m) /\ left'[m] = left[m]
      BY <1>4, <1>7, <2>2, <3>1
    <3> QED
      BY <3>2 DEF SchedInv, Weighed
  <2> QED
    BY <2>1, <2>2
<1> QED
  BY <1>8, <1>9, <1>10, <1>11, <1>12, <1>13, <1>14 DEF SchedInv

\* A scheduler is handed what is on the control queue.
LEMMA TakesKeeps ==
  ASSUME SchedInv, NEW a \in Schedulers, NEW n \in DOMAIN due, Takes(a, n)
  PROVE  SchedInv'
<1>0. /\ TypeOK /\ rung \in [Rungs -> Seq(Entry)] /\ due \in Seq(Wares) /\ slack \in Nat
      /\ DOMAIN job = Actors /\ DOMAIN pc = Actors /\ App \in Actors
      /\ None \notin Messages /\ None \notin Foreign
  BY Types DEF SchedInv
<1>1. PICK j : j = due[n]
  OBVIOUS
<1>2. /\ pc[a] = "idle"
      /\ job' = [job EXCEPT ![a] = j] /\ pc' = [pc EXCEPT ![a] = "routing"]
      /\ due' = RemoveAt(due, n)
      /\ left' = left /\ rung' = rung /\ bound' = bound
      /\ got' = got /\ times' = times /\ promised' = promised
      /\ disturbed' = disturbed /\ slack' = slack /\ faults' = faults
  BY <1>1 DEF Takes, history
<1>3. /\ due' \in Seq(Wares) /\ j \in Wares /\ j # None
      /\ \A A : CountOf(due', A) = CountOf(due, A) - (IF j \in A THEN 1 ELSE 0)
  <2>1. PICK s \in Seq(Wares) : s = due
    BY <1>0
  <2>2. n \in DOMAIN s
    BY <2>1
  <2>3. /\ RemoveAt(s, n) \in Seq(Wares) /\ s[n] \in Wares
        /\ \A A : CountOf(RemoveAt(s, n), A) = CountOf(s, A) - (IF s[n] \in A THEN 1 ELSE 0)
    BY <2>2, TakenOut
  <2>4. j \in Wares
    BY <1>1, <2>1, <2>3
  <2>5. j # None
    BY <1>0, <2>4 DEF Wares
  <2> QED
    BY <1>1, <1>2, <2>1, <2>3, <2>4, <2>5
<1>4. a \in Actors /\ a # App /\ a \in Schedulers
  BY SchedulerAssumption DEF Actors
<1>5. \A b \in Actors \ {a} : job'[b] = job[b] /\ pc'[b] = pc[b]
  BY <1>0, <1>2
<1>6. job'[a] = j /\ pc'[a] = "routing" /\ job[a] = None
  BY <1>0, <1>2, <1>4 DEF SchedInv, Working
<1>7. ASSUME NEW m \in Messages
      PROVE  /\ Owed(m)' = Owed(m) /\ Weight(m)' = Weight(m)
             /\ Queued(m)' > 0 => Queued(m) > 0
             /\ InHand(m)' => InHand(m) \/ Queued(m) > 0
             /\ m = j => Queued(m) > 0
  <2>1. PICK x : x = IF m = j THEN 1 ELSE 0
    OBVIOUS
  <2>2. Stock(m)' = Stock(m)
    BY <1>2 DEF Stock
  <2>3. Queued(m)' = Queued(m) - x /\ x \in 0..1
    <3>1. j \in {m} <=> m = j
      OBVIOUS
    <3>2. CountOf(due', {m}) = CountOf(due, {m}) - (IF j \in {m} THEN 1 ELSE 0)
      BY <1>3
    <3> QED
      BY <2>1, <3>1, <3>2 DEF Queued
  <2>4. m # None
    BY <1>0
  <2>5. /\ HeldOf(m) \in Nat /\ BacksOf(m) \in Nat
        /\ HeldOf(m)' =
             HeldOf(m)
               + (IF a \in Schedulers /\ job'[a] = m /\ pc'[a] # "settling" THEN 1 ELSE 0)
               - (IF a \in Schedulers /\ job[a] = m /\ pc[a] # "settling" THEN 1 ELSE 0)
        /\ BacksOf(m)' =
             BacksOf(m)
               + (IF a \in Schedulers /\ job'[a] = m /\ pc'[a] = "backing" THEN 1 ELSE 0)
               - (IF a \in Schedulers /\ job[a] = m /\ pc[a] = "backing" THEN 1 ELSE 0)
        /\ Asked(m)' = IF a = App THEN (IF job'[a] = m THEN 1 ELSE 0) ELSE Asked(m)
    BY <1>4, <1>5, HandsChange
  <2>6. HeldOf(m)' = HeldOf(m) + x /\ BacksOf(m)' = BacksOf(m) /\ Asked(m)' = Asked(m)
    BY <1>4, <1>6, <2>1, <2>4, <2>5
  <2>7. /\ Owed(m) = Stock(m) + Queued(m) + HeldOf(m) /\ Stock(m) \in Nat /\ Queued(m) \in Nat
        /\ Owed(m)' = Stock(m)' + Queued(m)' + HeldOf(m)'
        /\ Weight(m)' = Owed(m)' + times'[m] + BacksOf(m)' + Asked(m)'
    BY <1>0, Numbers, NextOwed
  <2>8. Owed(m)' = Owed(m)
    BY <2>2, <2>3, <2>5, <2>6, <2>7
  <2>9. Weight(m)' = Weight(m)
    BY <1>2, <2>6, <2>7, <2>8 DEF Weight
  <2>10. Queued(m)' \in Nat
    BY <1>3, CountIs DEF Queued
  <2>11. m = j => Queued(m) > 0
    BY <2>1, <2>3, <2>7, <2>10
  <2>12. Queued(m)' > 0 => Queued(m) > 0
    BY <2>3, <2>7
  <2>13. InHand(m)' => InHand(m) \/ m = j
    BY <1>5, <1>6 DEF InHand
  <2> QED
    BY <2>8, <2>9, <2>11, <2>12, <2>13
<1>8. TypeOK'
  <2>1. job' \in [Actors -> Messages \cup Foreign \cup {None}]
    BY <1>0, <1>2, <1>3 DEF TypeOK, Wares
  <2> QED
    BY <1>0, <1>2, <1>3, <2>1 DEF TypeOK, Wares
<1>9. Sorted' /\ OnTime'
  BY <1>2 DEF SchedInv, Sorted, OnTime
<1>10. Unscheduled'
  <2> SUFFICES ASSUME NEW m \in Messages, left[m] = None
               PROVE  ~InHand(m)' /\ got[m] = None /\ m \notin promised \cup disturbed
    BY <1>2 DEF Unscheduled
  <2>1. /\ m \notin disturbed /\ m \notin promised /\ ~InHand(m) /\ got[m] = None
        /\ Queued(m) = 0
    BY NothingThere
  <2> QED
    BY <1>7, <2>1
<1>11. Working'
  <2>1. ASSUME NEW b \in Actors
        PROVE  /\ pc'[b] = "idle" <=> job'[b] = None
               /\ pc'[b] \in {"retrying", "backing"} => job'[b] \in disturbed'
               /\ job'[b] \in Foreign => pc'[b] = "routing"
    <3>1. CASE b = a
      BY <1>3, <1>6, <3>1
    <3>2. CASE b # a
      <4>1. job'[b] = job[b] /\ pc'[b] = pc[b]
        BY <1>5, <3>2
      <4> QED
        BY <1>2, <4>1 DEF SchedInv, Working
    <3> QED
      BY <3>1, <3>2
  <2>2. job'[App] = job[App] /\ pc'[App] = pc[App]
    BY <1>0, <1>4, <1>5
  <2> QED
    BY <1>2, <2>1, <2>2 DEF SchedInv, Working
<1>12. Ladder'
  <2> SUFFICES ASSUME NEW m \in Messages, m \notin disturbed, left[m] # None
               PROVE  /\ \A r \in Rungs : \A i \in DOMAIN rung[r] :
                           rung[r][i].msg = m => left[m] - rung[r][i].ttl >= -slack
                      /\ Queued(m)' > 0 \/ InHand(m)' => left[m] >= -slack
    BY <1>2 DEF Ladder
  <2>1. /\ \A r \in Rungs : \A i \in DOMAIN rung[r] :
             rung[r][i].msg = m => left[m] - rung[r][i].ttl >= -slack
        /\ Queued(m) > 0 \/ InHand(m) => left[m] >= -slack
    BY DEF SchedInv, Ladder
  <2> QED
    BY <1>7, <2>1
<1>13. Kept'
  BY <1>0, <1>2, <1>7 DEF SchedInv, Kept, TypeOK
<1>14. Weighed'
  BY <1>2, <1>7 DEF SchedInv, Weighed
<1> QED
  BY <1>8, <1>9, <1>10, <1>11, <1>12, <1>13, <1>14 DEF SchedInv

-----------------------------------------------------------------------------
(* The theorems *)

\* The foreign messages as a sequence.
LEMMA ForeignSequence == SetToSeq(Foreign) \in Seq(Foreign)
<1> DEFINE n == Cardinality(Foreign)
<1>1. n \in Nat /\ ExistsBijection(1..n, Foreign)
  BY SchedulerAssumption, FS_CardinalityType
<1>2. \E f \in [1..n -> Foreign] : IsInjective(f)
  BY <1>1 DEF ExistsBijection, Bijection, Injection
<1>3. SetToSeq(Foreign) = CHOOSE f \in [1..n -> Foreign] : IsInjective(f)
  BY DEF SetToSeq
<1>4. SetToSeq(Foreign) \in [1..n -> Foreign]
  <2> HIDE DEF n
  <2> QED
    BY <1>2, <1>3
<1> QED
  BY <1>1, <1>4

\* The invariant holds initially.
LEMMA InitHolds == Init => SchedInv
<1> SUFFICES ASSUME Init PROVE SchedInv
  OBVIOUS
<1>0. /\ None \notin Messages /\ None \notin Foreign /\ Messages \cap Foreign = {} /\ IsFiniteSet(Schedulers)
      /\ MaxSlack \in Nat /\ MaxFaults \in Nat /\ MaxDelay \in Nat /\ App \in Actors
  BY SchedulerAssumption DEF Actors
<1>1. /\ left = [m \in Messages |-> None] /\ rung = [r \in Rungs |-> <<>>]
      /\ job = [a \in Actors |-> None] /\ pc = [a \in Actors |-> "idle"]
      /\ bound \in BOOLEAN
      /\ got = [m \in Messages |-> None] /\ times = [m \in Messages |-> 0]
      /\ promised = {} /\ disturbed = {} /\ slack = 0 /\ faults = 0
  BY DEF Init
<1>2. due \in Seq(Foreign)
  BY ForeignSequence DEF Init
<1>3. TypeOK
  <2>1. due \in Seq(Messages \cup Foreign)
    BY <1>2
  <2>2. rung \in [Rungs -> Seq([msg : Messages, ttl : Nat])]
    BY <1>1
  <2>3. 0 \in 0..2 * MaxFaults + 1 /\ 0 \in 0..MaxSlack /\ 0 \in 0..MaxFaults
    BY <1>0
  <2>4. times \in [Messages -> 0..2 * MaxFaults + 1]
    BY <1>1, <2>3
  <2> QED
    BY <1>0, <1>1, <2>1, <2>2, <2>3, <2>4 DEF TypeOK
<1>4. \A r \in Rungs : DOMAIN rung[r] = {}
  BY <1>1
<1>5. Sorted
  BY <1>4 DEF Sorted
<1>6. \A m \in Messages : ~InHand(m)
  BY <1>0, <1>1 DEF InHand
<1>7. Unscheduled
  BY <1>1, <1>6 DEF Unscheduled
<1>8. Working
  BY <1>0, <1>1 DEF Working
<1>9. Ladder
  BY <1>1 DEF Ladder
<1>10. OnTime /\ Kept
  BY <1>1 DEF OnTime, Kept
<1>11. ASSUME NEW m \in Messages PROVE Weight(m) = 0
  <2>1. Stock(m) = 0
    <3>1. {{r} \X InRung(rung[r], m) : r \in Rungs} \subseteq {{}}
      BY <1>4 DEF InRung
    <3>2. UNION {{r} \X InRung(rung[r], m) : r \in Rungs} = {}
      BY <3>1
    <3> QED
      BY <3>2, FS_EmptySet DEF Stock, Stored
  <2>2. Queued(m) = 0
    <3>1. \A i \in DOMAIN due : due[i] \notin {m}
      BY <1>0, <1>2
    <3> QED
      BY <1>2, <3>1, CountIs DEF Queued
  <2>3. HeldOf(m) = 0 /\ BacksOf(m) = 0
    <3>1. Held(m) = {} /\ Backs(m) = {}
      BY <1>0, <1>1 DEF Held, Backs, Actors
    <3> QED
      BY <3>1, FS_EmptySet DEF HeldOf, BacksOf
  <2>4. Asked(m) = 0 /\ times[m] = 0
    BY <1>0, <1>1 DEF Asked
  <2>5. Owed(m) = 0
    <3>1. Owed(m) = Stock(m) + Queued(m) + HeldOf(m)
      BY <1>3, Numbers
    <3> QED
      BY <2>1, <2>2, <2>3, <3>1
  <2> QED
    BY <2>3, <2>4, <2>5 DEF Weight
<1>12. Weighed
  BY <1>1, <1>11 DEF Weighed
<1> QED
  BY <1>3, <1>5, <1>7, <1>8, <1>9, <1>10, <1>12 DEF SchedInv

\* Whatever an actor does keeps it.
LEMMA MovesKeeps ==
  ASSUME SchedInv, NEW a \in Actors, Moves(a)
  PROVE  SchedInv'
<1>1. CASE Delivers(a)
  BY <1>1, DeliversKeeps
<1>2. CASE DeliverFails(a)
  BY <1>2, DeliverFailsKeeps
<1>3. CASE Hops(a)
  BY <1>3, HopsKeeps
<1>4. CASE HopFails(a)
  BY <1>4, HopFailsKeeps
<1> QED
  BY <1>1, <1>2, <1>3, <1>4 DEF Moves

\* Every step keeps it.
LEMMA StepKeeps == SchedInv /\ [Next]_vars => SchedInv'
<1> SUFFICES ASSUME SchedInv, [Next]_vars PROVE SchedInv'
  OBVIOUS
<1>1. ASSUME NEW r \in Rungs, Expires(r) PROVE SchedInv'
  BY <1>1, ExpiresKeeps
<1>2. CASE Binds
  <2>1. /\ bound' \in BOOLEAN
        /\ UNCHANGED <<left, rung, due, job, pc, history, disturbed, slack, faults>>
    BY <1>2 DEF Binds
  <2> QED
    BY <2>1, BindsKeeps
<1>3. CASE Tick
  BY <1>3, TickKeeps
<1>4. ASSUME NEW m \in Messages, NEW d \in 0..MaxDelay, Schedules(m, d) PROVE SchedInv'
  BY <1>4, SchedulesKeeps
<1>5. CASE Moves(App)
  <2>1. App \in Actors
    BY DEF Actors
  <2> QED
    BY <1>5, <2>1, MovesKeeps
<1>6. ASSUME NEW s \in Schedulers, Runs(s) PROVE SchedInv'
  <2>0. s \in Actors
    BY DEF Actors
  <2>1. CASE Moves(s)
    BY <2>0, <2>1, MovesKeeps
  <2>2. CASE Rejects(s)
    BY <2>2, RejectsKeeps
  <2>3. CASE PutsBack(s)
    BY <2>3, PutsBackKeeps
  <2>4. CASE PutBackFails(s)
    BY <2>4, PutBackFailsKeeps
  <2>5. CASE Settles(s)
    BY <2>5, SettlesKeeps
  <2> QED
    BY <1>6, <2>1, <2>2, <2>3, <2>4, <2>5 DEF Runs
<1>7. ASSUME NEW s \in Schedulers, Crashes(s) PROVE SchedInv'
  BY <1>7, CrashesKeeps
<1>8. ASSUME NEW s \in Schedulers, NEW i \in DOMAIN due, Takes(s, i) PROVE SchedInv'
  BY <1>8, TakesKeeps
<1>9. CASE UNCHANGED vars
  <2>1. /\ bound' \in BOOLEAN
        /\ UNCHANGED <<left, rung, due, job, pc, history, disturbed, slack, faults>>
    BY <1>9 DEF vars, broker, SchedInv, TypeOK
  <2> QED
    BY <2>1, BindsKeeps
<1> QED
  BY <1>1, <1>2, <1>3, <1>4, <1>5, <1>6, <1>7, <1>8, <1>9 DEF Next

\* The inductive invariant, whatever the messages, the schedulers and the rungs:
\* what scheduler.py promises is kept because every move stores the message in its
\* next place before the delivery of the one before it is settled.
THEOREM SchedulerInvariant == Spec => []SchedInv
<1>1. Init => SchedInv
  BY InitHolds
<1>2. SchedInv /\ [Next]_vars => SchedInv'
  BY StepKeeps
<1> QED
  BY <1>1, <1>2, PTL DEF Spec

\* What at() returned for is owed until it arrives, and is in one place only unless
\* something went wrong with it.
LEMMA OwedOrSent == SchedInv => KeptUntilSent
<1> SUFFICES ASSUME SchedInv PROVE KeptUntilSent
  OBVIOUS
<1>1. TypeOK /\ promised \subseteq Messages
  BY DEF SchedInv, TypeOK
<1>2. ASSUME NEW m \in promised \ disturbed PROVE Owed(m) + times[m] = 1
  <2>1. m \in Messages /\ left[m] # None
    BY <1>1 DEF SchedInv, Unscheduled
  <2>2. Weight(m) = 1
    BY <2>1 DEF SchedInv, Weighed
  <2>3. Backs(m) = {}
    <3>1. \A s \in Schedulers : s \in Actors
      BY DEF Actors
    <3> QED
      BY <3>1 DEF Backs, SchedInv, Working
  <2>4. BacksOf(m) = 0
    BY <2>3, FS_EmptySet DEF BacksOf
  <2>5. Asked(m) = 0
    BY DEF Asked, SchedInv, Working
  <2>6. /\ Stock(m) \in Nat /\ Queued(m) \in Nat /\ HeldOf(m) \in Nat /\ times[m] \in Nat
        /\ Owed(m) = Stock(m) + Queued(m) + HeldOf(m)
    BY <1>1, <2>1, Numbers
  <2>7. Owed(m) \in Nat
    BY <2>6
  <2> QED
    BY <2>2, <2>4, <2>5, <2>6, <2>7 DEF Weight
<1> QED
  BY <1>1, <1>2 DEF KeptUntilSent, SchedInv, Kept

\* What after() and at() returned for is kept until it arrives, through refused hops,
\* crashes and a target nobody has bound, and arrives once if nothing went wrong.
THEOREM SchedKeptUntilSent == Spec => []KeptUntilSent
BY SchedulerInvariant, OwedOrSent, PTL

\* No message arrives a whole smallest rung early, and none is late by more than what
\* the broker and the schedulers took: the ladder does not overshoot.
THEOREM SchedOnTime == Spec => []OnTime
<1>1. SchedInv => OnTime
  BY DEF SchedInv
<1> QED
  BY <1>1, SchedulerInvariant, PTL

=============================================================================
