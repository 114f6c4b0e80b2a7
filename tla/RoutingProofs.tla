---------------------------- MODULE RoutingProofs ----------------------------
(***************************************************************************)
(* What routing slips promise of a run, and what the headers it travels by *)
(* carry.  Sound says where the copies of a run may be and what the slip of*)
(* each says; Balanced weighs, for every stop, how often its work was done *)
(* for a run and how many copies of the run still have it ahead against    *)
(* what went wrong.  Every step keeps both.  The last section is Envelope: *)
(* what a service reads is what the one before it wrote.                   *)
(***************************************************************************)
EXTENDS RoutingSlip, Envelope, FiniteSetTheorems, TLAPS

-----------------------------------------------------------------------------
(* Counting copies *)

\* The places of a run's copies in a sequence are finitely many.
LEMMA CountIs ==
  ASSUME NEW s \in Seq(Copy), NEW r
  PROVE  IsFiniteSet(InLine(s, r)) /\ CountOf(s, r) \in Nat /\ InLine(s, r) \subseteq 1..Len(s)
<1>1. InLine(s, r) \subseteq 1..Len(s) /\ Len(s) \in Nat
  BY DEF InLine
<1>2. IsFiniteSet(1..Len(s))
  BY <1>1, FS_Interval
<1>3. IsFiniteSet(InLine(s, r))
  BY <1>1, <1>2, FS_Subset
<1> QED
  BY <1>1, <1>3, FS_CardinalityType DEF CountOf

\* Those of two sequences add up.
LEMMA CountConcat ==
  ASSUME NEW s \in Seq(Copy), NEW t \in Seq(Copy), NEW r
  PROVE  s \o t \in Seq(Copy) /\ CountOf(s \o t, r) = CountOf(s, r) + CountOf(t, r)
<1> DEFINE A == InLine(s, r)
           B == InLine(t, r)
           C == {n + Len(s) : n \in B}
           f == [n \in B |-> n + Len(s)]
<1>1. /\ IsFiniteSet(A) /\ A \subseteq 1..Len(s) /\ Cardinality(A) \in Nat
      /\ IsFiniteSet(B) /\ B \subseteq 1..Len(t) /\ Cardinality(B) \in Nat
  BY CountIs DEF CountOf
<1>2. Len(s) \in Nat /\ Len(t) \in Nat
  OBVIOUS
<1>3. IsFiniteSet(C) /\ Cardinality(C) = Cardinality(B)
  <2>1. f \in Bijection(B, C)
    <3>1. f \in [B -> C] /\ \A y \in C : \E n \in B : f[n] = y
      OBVIOUS
    <3>2. \A m, n \in B : f[m] = f[n] => m = n
      BY <1>1, <1>2
    <3> HIDE DEF f, C
    <3> QED
      BY <3>1, <3>2 DEF Bijection, Injection, Surjection, IsInjective
  <2>2. ExistsBijection(B, C)
    BY <2>1 DEF ExistsBijection
  <2> QED
    BY <1>1, <2>2, FS_Bijection
<1>4. InLine(s \o t, r) = A \cup C
  <2>1. /\ DOMAIN (s \o t) = 1..(Len(s) + Len(t))
        /\ \A n \in 1..Len(s) : (s \o t)[n] = s[n]
        /\ \A n \in 1..Len(t) : (s \o t)[n + Len(s)] = t[n]
        /\ DOMAIN s = 1..Len(s) /\ DOMAIN t = 1..Len(t)
    OBVIOUS
  <2>2. \A n \in 1..(Len(s) + Len(t)) : n \in 1..Len(s) \/ n - Len(s) \in 1..Len(t)
    BY <1>2
  <2>3. ASSUME NEW n \in InLine(s \o t, r) PROVE n \in A \cup C
    <3>1. CASE n \in 1..Len(s)
      BY <2>1, <3>1 DEF InLine
    <3>2. CASE n - Len(s) \in 1..Len(t)
      <4>1. n \in Int /\ (n - Len(s)) + Len(s) = n
        BY <1>2, <2>1 DEF InLine
      <4>2. n - Len(s) \in B
        BY <2>1, <3>2, <4>1 DEF InLine
      <4> QED
        BY <4>1, <4>2
    <3> QED
      BY <2>1, <2>2, <3>1, <3>2 DEF InLine
  <2>4. A \subseteq InLine(s \o t, r)
    BY <1>2, <2>1 DEF InLine
  <2>5. C \subseteq InLine(s \o t, r)
    BY <1>2, <2>1 DEF InLine
  <2> QED
    BY <2>3, <2>4, <2>5
<1>5. A \cap C = {}
  BY <1>1, <1>2
<1>6. Cardinality(A \cup C) = Cardinality(A) + Cardinality(C) - Cardinality(A \cap C)
  BY <1>1, <1>3, FS_Union
<1>7. Cardinality({}) = 0
  BY FS_EmptySet
<1>8. s \o t \in Seq(Copy)
  OBVIOUS
<1>9. Cardinality(A \cup C) = Cardinality(A) + Cardinality(B)
  <2>1. Cardinality(A \cap C) = 0
    BY <1>5, <1>7
  <2> HIDE DEF A, B, C
  <2> QED
    BY <1>1, <1>3, <1>6, <2>1
<1> QED
  BY <1>4, <1>8, <1>9 DEF CountOf

\* An empty sequence has none, a sequence of one has that one.
LEMMA CountOne ==
  ASSUME NEW c \in Copy, NEW r
  PROVE  /\ <<>> \in Seq(Copy) /\ CountOf(<<>>, r) = 0
         /\ <<c>> \in Seq(Copy) /\ CountOf(<<c>>, r) = IF c.run = r THEN 1 ELSE 0
<1>1. InLine(<<>>, r) = {}
  BY DEF InLine
<1>2. InLine(<<c>>, r) = IF c.run = r THEN {1} ELSE {}
  BY DEF InLine
<1>3. <<>> \in Seq(Copy) /\ <<c>> \in Seq(Copy)
  OBVIOUS
<1>4. Cardinality({}) = 0 /\ Cardinality({1}) = 1
  BY FS_EmptySet, FS_Singleton
<1> QED
  BY <1>1, <1>2, <1>3, <1>4 DEF CountOf

\* What goes on at the end, and what comes off at the head.
LEMMA CountEnds ==
  ASSUME NEW s \in Seq(Copy), NEW r
  PROVE  /\ \A c \in Copy : /\ Append(s, c) \in Seq(Copy)
                            /\ CountOf(Append(s, c), r) = CountOf(s, r) + (IF c.run = r THEN 1 ELSE 0)
         /\ s # <<>> => /\ Head(s) \in Copy /\ Tail(s) \in Seq(Copy)
                        /\ CountOf(Tail(s), r) = CountOf(s, r) - (IF Head(s).run = r THEN 1 ELSE 0)
<1>1. ASSUME NEW c \in Copy
      PROVE  /\ Append(s, c) \in Seq(Copy)
             /\ CountOf(Append(s, c), r) = CountOf(s, r) + (IF c.run = r THEN 1 ELSE 0)
  <2>1. Append(s, c) = s \o <<c>>
    OBVIOUS
  <2>2. <<c>> \in Seq(Copy) /\ CountOf(<<c>>, r) = IF c.run = r THEN 1 ELSE 0
    BY CountOne
  <2>3. s \o <<c>> \in Seq(Copy) /\ CountOf(s \o <<c>>, r) = CountOf(s, r) + CountOf(<<c>>, r)
    BY <2>2, CountConcat
  <2> QED
    BY <2>1, <2>2, <2>3
<1>2. ASSUME s # <<>>
      PROVE  /\ Head(s) \in Copy /\ Tail(s) \in Seq(Copy)
             /\ CountOf(Tail(s), r) = CountOf(s, r) - (IF Head(s).run = r THEN 1 ELSE 0)
  <2>1. Head(s) \in Copy /\ Tail(s) \in Seq(Copy) /\ s = <<Head(s)>> \o Tail(s)
    BY <1>2
  <2> DEFINE h == Head(s)
             t == Tail(s)
  <2>2. <<h>> \in Seq(Copy) /\ CountOf(<<h>>, r) = IF h.run = r THEN 1 ELSE 0
    BY <2>1, CountOne
  <2>3. CountOf(t, r) \in Nat
    BY <2>1, CountIs
  <2>4. s = <<h>> \o t /\ t \in Seq(Copy)
    BY <2>1
  <2> HIDE DEF h, t
  <2>5. CountOf(s, r) = CountOf(<<h>>, r) + CountOf(t, r)
    <3> DEFINE u == <<h>>
    <3>1. u \in Seq(Copy) /\ t \in Seq(Copy) /\ s = u \o t
      BY <2>2, <2>4
    <3> HIDE DEF u
    <3>2. CountOf(u \o t, r) = CountOf(u, r) + CountOf(t, r)
      BY <3>1, CountConcat
    <3>3. CountOf(s, r) = CountOf(u, r) + CountOf(t, r)
      BY <3>1, <3>2
    <3> QED
      BY <3>3 DEF u
  <2>6. CountOf(<<h>>, r) = IF h.run = r THEN 1 ELSE 0
    BY <2>2
  <2>7. CountOf(t, r) = CountOf(s, r) - (IF h.run = r THEN 1 ELSE 0)
    BY <2>3, <2>5, <2>6
  <2> QED
    BY <2>1, <2>7 DEF h, t
<1> QED
  BY <1>1, <1>2

\* How many copies of a run lie at some of the stops.
Lie(q, r, S) == Cardinality(UNION {{i} \X InLine(q[i], r) : i \in S})

\* They are those at one of the stops and those at the others.
LEMMA LieSplit ==
  ASSUME NEW q \in [Stops -> Seq(Copy)], NEW r, NEW S \in SUBSET Stops, NEW j \in S
  PROVE  /\ Lie(q, r, S) \in Nat /\ Lie(q, r, S \ {j}) \in Nat
         /\ Lie(q, r, S) = Lie(q, r, S \ {j}) + CountOf(q[j], r)
<1> DEFINE U(T) == UNION {{i} \X InLine(q[i], r) : i \in T}
<1>1. IsFiniteSet(Stops)
  <2>1. 1 \in Int /\ LastStop \in Int
    BY RoutingSlipAssumption
  <2> QED
    BY <2>1, FS_Interval DEF Stops
<1>2. ASSUME NEW T \in SUBSET Stops PROVE IsFiniteSet(U(T)) /\ Cardinality(U(T)) \in Nat
  <2> DEFINE F == {{i} \X InLine(q[i], r) : i \in T}
             f == [i \in T |-> {i} \X InLine(q[i], r)]
  <2>1. IsFiniteSet(T)
    BY <1>1, FS_Subset
  <2>2. f \in Surjection(T, F)
    BY DEF Surjection
  <2>3. IsFiniteSet(F)
    BY <2>1, <2>2, FS_Surjection
  <2>4. \A i \in T : IsFiniteSet({i} \X InLine(q[i], r))
    BY CountIs, FS_Singleton, FS_Product
  <2>5. IsFiniteSet(UNION F)
    BY <2>3, <2>4, FS_UNION
  <2> QED
    BY <2>5, FS_CardinalityType
<1>3. U(S) = U(S \ {j}) \cup ({j} \X InLine(q[j], r))
  OBVIOUS
<1>4. U(S \ {j}) \cap ({j} \X InLine(q[j], r)) = {}
  OBVIOUS
<1>5. /\ IsFiniteSet({j} \X InLine(q[j], r))
      /\ Cardinality({j} \X InLine(q[j], r)) = CountOf(q[j], r)
  <2>1. IsFiniteSet({j}) /\ Cardinality({j}) = 1
    BY FS_Singleton
  <2>2. IsFiniteSet(InLine(q[j], r)) /\ CountOf(q[j], r) \in Nat
    BY CountIs
  <2>3. /\ IsFiniteSet({j} \X InLine(q[j], r))
        /\ Cardinality({j} \X InLine(q[j], r)) = Cardinality({j}) * CountOf(q[j], r)
    BY <2>1, <2>2, FS_Product DEF CountOf
  <2> QED
    BY <2>1, <2>2, <2>3
<1>6. S \in SUBSET Stops /\ S \ {j} \in SUBSET Stops
  OBVIOUS
<1>7. Cardinality({}) = 0
  BY FS_EmptySet
<1>8. /\ IsFiniteSet(U(S)) /\ Cardinality(U(S)) \in Nat
      /\ IsFiniteSet(U(S \ {j})) /\ Cardinality(U(S \ {j})) \in Nat
  BY <1>2, <1>6
<1> HIDE DEF U
<1>9. Cardinality(U(S)) = Cardinality(U(S \ {j})) + CountOf(q[j], r) - 0
  BY <1>3, <1>4, <1>5, <1>7, <1>8, FS_Union
<1>10. CountOf(q[j], r) \in Nat
  BY CountIs
<1> QED
  BY <1>8, <1>9, <1>10 DEF U, Lie

-----------------------------------------------------------------------------
(* What there is of a run up to a stop *)

\* The queues, dead letters, deliveries and the replay, as one value.
State ==
  [q : [Stops -> Seq(Copy)], d : [Stops -> Seq(Copy)],
   h : [Stops -> Copy \cup {NoCopy}],
   c : [Stops -> {"idle", "working", "hopping", "settling"}],
   p : [at : Stops \cup {None}, to : {"queue", "own"}, moved : 0..Limit,
        held : Copy \cup {NoCopy}, acking : BOOLEAN, declined : Seq(Copy)]]

Now == [q |-> queue, d |-> dead, h |-> hand, c |-> pc, p |-> pass]

UpTo(k) == {x \in Stops : x <= k}

\* A delivery still has the work of stop k before it: not where that was just done.
Bears(st, r, k, x) ==
  st.h[x].run = r /\ (st.c[x] = "working" \/ (st.c[x] = "hopping" /\ x # k))

InPass(st, r) ==
  CountOf(st.p.declined, r) + (IF st.p.held.run = r /\ ~st.p.acking THEN 1 ELSE 0)

\* The copies of a run, of those up to stop k, whose work at k is still to be done; of
\* all of them for k past the last stop.
Ahead(st, r, k) ==
  Lie(st.q, r, UpTo(k)) + Lie(st.d, r, UpTo(k)) + Cardinality({x \in UpTo(k) : Bears(st, r, k, x)})
    + (IF st.p.at \in UpTo(k) THEN InPass(st, r) ELSE 0)

\* Those at one stop.
Here(st, r, k, x) ==
  CountOf(st.q[x], r) + CountOf(st.d[x], r) + (IF Bears(st, r, k, x) THEN 1 ELSE 0)
    + (IF st.p.at = x THEN InPass(st, r) ELSE 0)

Places == 1..(LastStop + 1)

\* Two finite sets that differ in one element at most.
LEMMA OneElement ==
  ASSUME NEW S, NEW T, NEW x, IsFiniteSet(S), S \ {x} = T \ {x}
  PROVE  /\ IsFiniteSet(T) /\ Cardinality(S) \in Nat /\ Cardinality(T) \in Nat
         /\ Cardinality(T) = Cardinality(S) + (IF x \in T THEN 1 ELSE 0) - (IF x \in S THEN 1 ELSE 0)
<1>1. /\ IsFiniteSet(S \ {x})
      /\ Cardinality(S \ {x}) = IF x \in S THEN Cardinality(S) - 1 ELSE Cardinality(S)
  BY FS_RemoveElement
<1>2. IsFiniteSet(T)
  <2>1. IsFiniteSet((T \ {x}) \cup {x})
    BY <1>1, FS_AddElement
  <2> QED
    BY <2>1, FS_Subset
<1>3. Cardinality(T \ {x}) = IF x \in T THEN Cardinality(T) - 1 ELSE Cardinality(T)
  BY <1>2, FS_RemoveElement
<1>4. Cardinality(S) \in Nat /\ Cardinality(T) \in Nat
  BY <1>2, FS_CardinalityType
<1> QED
  BY <1>1, <1>2, <1>3, <1>4

\* Queues that differ at one stop at most.
Files == [Stops -> Seq(Copy)]

SameBut(q, p, x) == \A y \in Stops \ {x} : p[y] = q[y]

\* A change at one stop changes what lies up to any later place by as much, and nothing
\* before it.
LEMMA LieChange ==
  ASSUME NEW q \in Files, NEW p \in Files, NEW x \in Stops, SameBut(q, p, x),
         NEW r, NEW k \in Places
  PROVE  /\ Lie(q, r, UpTo(k)) \in Nat /\ Lie(p, r, UpTo(k)) \in Nat
         /\ x <= k => Lie(p, r, UpTo(k)) = Lie(q, r, UpTo(k)) + CountOf(p[x], r) - CountOf(q[x], r)
         /\ ~(x <= k) => Lie(p, r, UpTo(k)) = Lie(q, r, UpTo(k))
<1>1. Lie(p, r, UpTo(k) \ {x}) = Lie(q, r, UpTo(k) \ {x})
  <2>1. \A i \in UpTo(k) \ {x} : p[i] = q[i]
    BY DEF UpTo, SameBut
  <2>2. {{i} \X InLine(q[i], r) : i \in UpTo(k) \ {x}} = {{i} \X InLine(p[i], r) : i \in UpTo(k) \ {x}}
    BY <2>1
  <2> QED
    BY <2>2 DEF Lie
<1>2. CountOf(p[x], r) \in Nat /\ CountOf(q[x], r) \in Nat
  BY CountIs DEF Files
<1>3. UpTo(k) \in SUBSET Stops /\ (x \in UpTo(k) <=> x <= k)
  BY DEF UpTo
<1>4. CASE x <= k
  <2>1. /\ Lie(q, r, UpTo(k)) \in Nat /\ Lie(q, r, UpTo(k) \ {x}) \in Nat
        /\ Lie(q, r, UpTo(k)) = Lie(q, r, UpTo(k) \ {x}) + CountOf(q[x], r)
    BY <1>3, <1>4, LieSplit DEF Files
  <2>2. /\ Lie(p, r, UpTo(k)) \in Nat
        /\ Lie(p, r, UpTo(k)) = Lie(p, r, UpTo(k) \ {x}) + CountOf(p[x], r)
    BY <1>3, <1>4, LieSplit DEF Files
  <2> QED
    BY <1>1, <1>2, <1>4, <2>1, <2>2
<1>5. CASE ~(x <= k)
  <2>1. UpTo(k) \ {x} = UpTo(k)
    BY <1>3, <1>5
  <2>2. 1 \in UpTo(k)
    BY RoutingSlipAssumption DEF UpTo, Stops, Places
  <2>3. Lie(q, r, UpTo(k)) \in Nat
    BY <1>3, <2>2, LieSplit DEF Files
  <2>4. Lie(p, r, UpTo(k)) = Lie(q, r, UpTo(k))
    BY ONLY <1>1, <2>1, Zenon
  <2> QED
    BY <1>5, <2>3, <2>4
<1> QED
  BY <1>4, <1>5

\* What there is of a run is a number.
LEMMA HereNat ==
  ASSUME NEW st \in State, NEW r, NEW k \in Places, NEW x \in Stops
  PROVE  /\ Here(st, r, k, x) \in Nat /\ InPass(st, r) \in Nat
         /\ CountOf(st.q[x], r) \in Nat /\ CountOf(st.d[x], r) \in Nat
<1>1. st.q[x] \in Seq(Copy) /\ st.d[x] \in Seq(Copy) /\ st.p.declined \in Seq(Copy)
  BY DEF State
<1>2. CountOf(st.q[x], r) \in Nat /\ CountOf(st.d[x], r) \in Nat /\ CountOf(st.p.declined, r) \in Nat
  BY <1>1, CountIs
<1>3. InPass(st, r) \in Nat
  BY <1>2 DEF InPass
<1> QED
  BY <1>2, <1>3 DEF Here

\* A step at one stop changes what there is of a run by what it changes there.
LEMMA AheadChange ==
  ASSUME NEW st \in State, NEW to \in State, NEW x \in Stops,
         \A y \in Stops \ {x} : /\ to.q[y] = st.q[y] /\ to.d[y] = st.d[y]
                                /\ to.h[y] = st.h[y] /\ to.c[y] = st.c[y],
         to.p = st.p \/ (st.p.at \in {x, None} /\ to.p.at \in {x, None}),
         NEW r, NEW k \in Places
  PROVE  /\ Ahead(st, r, k) \in Nat /\ Ahead(to, r, k) \in Nat
         /\ Ahead(to, r, k) = Ahead(st, r, k)
              + (IF x <= k THEN Here(to, r, k, x) - Here(st, r, k, x) ELSE 0)
<1> DEFINE B(s) == {y \in UpTo(k) : Bears(s, r, k, y)}
           P(s) == IF s.p.at \in UpTo(k) THEN InPass(s, r) ELSE 0
           b(s) == IF Bears(s, r, k, x) THEN 1 ELSE 0
           w(s) == IF s.p.at = x THEN InPass(s, r) ELSE 0
<1>1. x \in UpTo(k) <=> x <= k
  BY DEF UpTo
<1>2. /\ Lie(st.q, r, UpTo(k)) \in Nat /\ Lie(to.q, r, UpTo(k)) \in Nat
      /\ Lie(to.q, r, UpTo(k)) = Lie(st.q, r, UpTo(k))
              + (IF x <= k THEN CountOf(to.q[x], r) - CountOf(st.q[x], r) ELSE 0)
  <2> DEFINE a == st.q
             z == to.q
  <2>1. a \in Files /\ z \in Files
    BY DEF State, Files
  <2>2. SameBut(a, z, x)
    BY DEF SameBut
  <2> HIDE DEF a, z
  <2>3. /\ Lie(a, r, UpTo(k)) \in Nat /\ Lie(z, r, UpTo(k)) \in Nat
        /\ x <= k => Lie(z, r, UpTo(k)) = Lie(a, r, UpTo(k)) + CountOf(z[x], r) - CountOf(a[x], r)
        /\ ~(x <= k) => Lie(z, r, UpTo(k)) = Lie(a, r, UpTo(k))
    BY <2>1, <2>2, LieChange
  <2> QED
    BY <2>3 DEF a, z
<1>3. /\ Lie(st.d, r, UpTo(k)) \in Nat /\ Lie(to.d, r, UpTo(k)) \in Nat
      /\ Lie(to.d, r, UpTo(k)) = Lie(st.d, r, UpTo(k))
              + (IF x <= k THEN CountOf(to.d[x], r) - CountOf(st.d[x], r) ELSE 0)
  <2> DEFINE a == st.d
             z == to.d
  <2>1. a \in Files /\ z \in Files
    BY DEF State, Files
  <2>2. SameBut(a, z, x)
    BY DEF SameBut
  <2> HIDE DEF a, z
  <2>3. /\ Lie(a, r, UpTo(k)) \in Nat /\ Lie(z, r, UpTo(k)) \in Nat
        /\ x <= k => Lie(z, r, UpTo(k)) = Lie(a, r, UpTo(k)) + CountOf(z[x], r) - CountOf(a[x], r)
        /\ ~(x <= k) => Lie(z, r, UpTo(k)) = Lie(a, r, UpTo(k))
    BY <2>1, <2>2, LieChange
  <2> QED
    BY <2>3 DEF a, z
<1>4. /\ Cardinality(B(st)) \in Nat /\ Cardinality(B(to)) \in Nat
      /\ Cardinality(B(to)) = Cardinality(B(st)) + (IF x <= k THEN b(to) - b(st) ELSE 0)
  <2>1. IsFiniteSet(Stops)
    <3>1. 1 \in Int /\ LastStop \in Int
      BY RoutingSlipAssumption
    <3> QED
      BY <3>1, FS_Interval DEF Stops
  <2>2. IsFiniteSet(B(st))
    <3>1. B(st) \in SUBSET Stops
      BY DEF UpTo
    <3> QED
      BY <2>1, <3>1, FS_Subset
  <2>3. B(st) \ {x} = B(to) \ {x}
    BY DEF UpTo, Bears
  <2>4. /\ Cardinality(B(st)) \in Nat /\ Cardinality(B(to)) \in Nat
        /\ Cardinality(B(to)) = Cardinality(B(st)) + (IF x \in B(to) THEN 1 ELSE 0)
                                  - (IF x \in B(st) THEN 1 ELSE 0)
    <3> HIDE DEF B
    <3> QED
      BY <2>2, <2>3, OneElement
  <2>5. /\ x \in B(to) <=> x <= k /\ Bears(to, r, k, x)
        /\ x \in B(st) <=> x <= k /\ Bears(st, r, k, x)
    BY <1>1
  <2> HIDE DEF B
  <2> QED
    BY <2>4, <2>5
<1>5. P(st) \in Nat /\ P(to) \in Nat /\ P(to) = P(st) + (IF x <= k THEN w(to) - w(st) ELSE 0)
  <2>1. InPass(st, r) \in Nat /\ InPass(to, r) \in Nat
    BY HereNat
  <2>2. None \notin UpTo(k) /\ x # None
    BY RoutingSlipAssumption DEF UpTo
  <2>3. CASE to.p = st.p
    <3>1. InPass(to, r) = InPass(st, r) /\ to.p.at = st.p.at
      BY <2>3 DEF InPass
    <3> QED
      BY <2>1, <3>1
  <2>4. CASE st.p.at \in {x, None} /\ to.p.at \in {x, None}
    BY <1>1, <2>1, <2>2, <2>4
  <2> QED
    BY <2>3, <2>4
<1>6. /\ CountOf(st.q[x], r) \in Nat /\ CountOf(st.d[x], r) \in Nat
      /\ CountOf(to.q[x], r) \in Nat /\ CountOf(to.d[x], r) \in Nat
      /\ b(st) \in Nat /\ b(to) \in Nat /\ w(st) \in Nat /\ w(to) \in Nat
  BY HereNat
<1>7. /\ Ahead(st, r, k) = Lie(st.q, r, UpTo(k)) + Lie(st.d, r, UpTo(k)) + Cardinality(B(st)) + P(st)
      /\ Ahead(to, r, k) = Lie(to.q, r, UpTo(k)) + Lie(to.d, r, UpTo(k)) + Cardinality(B(to)) + P(to)
      /\ Here(st, r, k, x) = CountOf(st.q[x], r) + CountOf(st.d[x], r) + b(st) + w(st)
      /\ Here(to, r, k, x) = CountOf(to.q[x], r) + CountOf(to.d[x], r) + b(to) + w(to)
  BY DEF Ahead, Here
<1> HIDE DEF B, P, b, w
<1> QED
  BY <1>2, <1>3, <1>4, <1>5, <1>6, <1>7

-----------------------------------------------------------------------------
(* Where the copies of a run are *)

\* A copy at stop i is of a run that was asked for, its slip says that the stops before
\* are done and can be written on in the form it has, and it came there from where the
\* run began or from the stop before, whose work is done.
Mine(i, c) ==
  /\ c \in Copy /\ c.run \in asked
  /\ IF c.form = "none" THEN setup.route[c.run].form = "none" ELSE c.done = i - 1
  /\ c.form = "names" /\ setup.form = "kept" => setup.route[c.run].nameable
  /\ i = setup.route[c.run].at \/ (i > 1 /\ ~Stuck(c.run) /\ done[c.run][i - 1] > 0)

Fine(i, s) == s \in Seq(Copy) /\ \A n \in 1..Len(s) : Mine(i, s[n])

Copies ==
  /\ \A i \in Stops : Fine(i, queue[i]) /\ Fine(i, dead[i])
  /\ \A i \in Stops : pc[i] # "idle" => Mine(i, hand[i])
  /\ Fine(pass.at, pass.declined)
  /\ pass.held # NoCopy => Mine(pass.at, pass.held)

\* A stop whose consumer is closed has nothing in hand, and one that is about to hop has
\* done its work on a run that can go on.
AtWork ==
  \A i \in Stops :
    /\ pc[i] = "idle" <=> hand[i] = NoCopy
    /\ pc[i] # "idle" => i \in up
    /\ pc[i] = "hopping" => /\ Readable(hand[i]) /\ i < LastStop
                            /\ ~Stuck(hand[i].run) /\ done[hand[i].run][i] > 0

Passing ==
  /\ pass.at = None => pass = NoPass
  /\ pass.acking => pass.held # NoCopy
  /\ pass.held # NoCopy => pass.moved < Limit

Living ==
  /\ life = "starting" => \E n \in 0..(LastStop - 1) : up = 1..n
  /\ life = "closed" => up = {}

Unasked ==
  \A r \in Runs \ asked : counted[r] = 0 /\ \A i \in Stops : done[r][i] = 0

Sound == TypeOK /\ Copies /\ AtWork /\ Passing /\ Living /\ Unasked

\* The same of a copy after a step, which changes no setup.
MineNow(i, c) ==
  /\ c \in Copy /\ c.run \in asked'
  /\ IF c.form = "none" THEN setup.route[c.run].form = "none" ELSE c.done = i - 1
  /\ c.form = "names" /\ setup.form = "kept" => setup.route[c.run].nameable
  /\ i = setup.route[c.run].at \/ (i > 1 /\ ~Stuck(c.run) /\ done'[c.run][i - 1] > 0)

FineNow(i, s) == s \in Seq(Copy) /\ \A n \in 1..Len(s) : MineNow(i, s[n])

\* What is counted grows until it reaches the bound on the history.
LEMMA MoreIs ==
  ASSUME NEW n \in 0..MaxCount
  PROVE  /\ More(n) \in 0..MaxCount /\ More(n) > 0 /\ n <= More(n)
         /\ More(n) = IF n < MaxCount THEN n + 1 ELSE MaxCount
<1> DEFINE m == IF n < MaxCount THEN n + 1 ELSE MaxCount
<1>1. MaxCount \in Nat \ {0}
  BY RoutingSlipAssumption
<1>2. m \in {n + 1, MaxCount} /\ \A y \in {n + 1, MaxCount} : m <= y
  BY <1>1
<1>3. \A x \in {n + 1, MaxCount} : (\A y \in {n + 1, MaxCount} : x <= y) => x = m
  BY <1>1, <1>2
<1> HIDE DEF m
<1>4. Min({n + 1, MaxCount}) = m
  BY <1>2, <1>3 DEF Min
<1> QED
  BY <1>1, <1>4 DEF More, m

\* A copy is not none.
LEMMA CopyIs ==
  ASSUME NEW c \in Copy
  PROVE  c # NoCopy /\ c.run \in Runs /\ c.run # None /\ c.attempt \in 1..MaxAttempts
         /\ c.done \in 0..LastStop /\ c.form \in Forms \cup {"none"}
BY RoutingSlipAssumption DEF Copy, NoCopy

\* A step keeps the setup and takes back no work and no asking.
LEMMA Grows ==
  ASSUME TypeOK, Copies, [Next]_vars
  PROVE  /\ setup' = setup /\ asked \subseteq asked'
         /\ \A r \in Runs, i \in Stops : done[r][i] <= done'[r][i]
         /\ done' \in [Runs -> [Stops -> 0..MaxCount]]
<1>1. ASSUME NEW i \in Stops, Works(i)
      PROVE  /\ \A r \in Runs, j \in Stops : done[r][j] <= done'[r][j]
             /\ done' \in [Runs -> [Stops -> 0..MaxCount]]
  <2>1. hand[i].run \in Runs
    BY <1>1, CopyIs DEF Works, Copies, Mine
  <2>2. done[hand[i].run][i] \in 0..MaxCount
    BY <2>1 DEF TypeOK
  <2>3. More(done[hand[i].run][i]) \in 0..MaxCount /\ done[hand[i].run][i] <= More(done[hand[i].run][i])
    BY <2>2, MoreIs
  <2> DEFINE h == hand[i].run
             m == More(done[h][i])
  <2>4. /\ done' = [done EXCEPT ![h][i] = m] /\ done \in [Runs -> [Stops -> 0..MaxCount]]
        /\ h \in Runs /\ m \in 0..MaxCount /\ done[h][i] <= m
    BY <1>1, <2>1, <2>3 DEF Works, TypeOK
  <2>5. LastStop \in Nat /\ MaxCount \in Nat
    BY RoutingSlipAssumption
  <2> HIDE DEF h, m
  <2>6. done' \in [Runs -> [Stops -> 0..MaxCount]]
    BY <2>4
  <2>7. ASSUME NEW r \in Runs, NEW j \in Stops PROVE done[r][j] <= done'[r][j]
    <3>1. done[r][j] \in 0..MaxCount
      BY <2>4
    <3>2. CASE r = h /\ j = i
      BY <2>4, <3>2
    <3>3. CASE ~(r = h /\ j = i)
      BY <2>4, <2>5, <3>1, <3>3
    <3> QED
      BY <3>2, <3>3
  <2> QED
    BY <2>6, <2>7
<1>2. /\ setup' = setup /\ asked \subseteq asked'
      /\ UNCHANGED done \/ \E i \in Stops : Works(i)
  BY DEF Next, vars, Starts, Posts, StartRefused, StartFails, StepStarts, BuildFails, Closes,
     GroupCloses, Takes, Travels, Refuses, StepFails, EndsEarly, StepDone, Hops, HopFails, Settles,
     Crashes, Replays, Passes, Pulls, Publishes, Acks, Ends, RunsOut, HandsBack, PassFails,
     Works, Sent, pipe, broker, stops, replays, history
<1>3. ASSUME UNCHANGED done
      PROVE  /\ \A r \in Runs, j \in Stops : done[r][j] <= done'[r][j]
             /\ done' \in [Runs -> [Stops -> 0..MaxCount]]
  BY <1>3 DEF TypeOK
<1> QED
  BY <1>1, <1>2, <1>3

\* A copy where it should be stays one: runs asked for and work done are never undone.
LEMMA MineStays ==
  ASSUME TypeOK, Copies, [Next]_vars
  PROVE  /\ \A i \in Stops : \A c : Mine(i, c) => MineNow(i, c)
         /\ \A i \in Stops : \A s : Fine(i, s) => FineNow(i, s)
<1>1. ASSUME NEW i \in Stops, NEW c, Mine(i, c) PROVE MineNow(i, c)
  <2>1. c.run \in Runs
    BY <1>1, CopyIs DEF Mine
  <2>2. i > 1 => i - 1 \in Stops
    BY RoutingSlipAssumption DEF Stops
  <2>3. \A j \in Stops : /\ done[c.run][j] <= done'[c.run][j]
                         /\ done[c.run][j] \in 0..MaxCount /\ done'[c.run][j] \in 0..MaxCount
    <3>1. \A r \in Runs, j \in Stops : done[r][j] <= done'[r][j]
      BY Grows
    <3>2. done' \in [Runs -> [Stops -> 0..MaxCount]] /\ done \in [Runs -> [Stops -> 0..MaxCount]]
      BY Grows DEF TypeOK
    <3> QED
      BY <2>1, <3>1, <3>2
  <2>4. MaxCount \in Nat
    BY RoutingSlipAssumption
  <2>5. i > 1 /\ done[c.run][i - 1] > 0 => done'[c.run][i - 1] > 0
    BY <2>2, <2>3, <2>4
  <2> QED
    BY <1>1, <2>5, Grows DEF Mine, MineNow
<1> QED
  BY <1>1 DEF Fine, FineNow

\* Sequences of such copies put together, and taken apart.
LEMMA FineParts ==
  ASSUME NEW i
  PROVE  /\ FineNow(i, <<>>)
         /\ \A c : MineNow(i, c) => FineNow(i, <<c>>)
         /\ \A s, t : FineNow(i, s) /\ FineNow(i, t) => FineNow(i, s \o t)
         /\ \A s, c : FineNow(i, s) /\ MineNow(i, c) => FineNow(i, Append(s, c))
         /\ \A s : FineNow(i, s) /\ s # <<>> => MineNow(i, Head(s)) /\ FineNow(i, Tail(s))
<1>1. FineNow(i, <<>>)
  BY DEF FineNow
<1>2. ASSUME NEW c, MineNow(i, c) PROVE FineNow(i, <<c>>)
  <2>1. c \in Copy
    BY <1>2 DEF MineNow
  <2> QED
    BY <1>2, <2>1 DEF FineNow
<1>3. ASSUME NEW s, NEW t, FineNow(i, s), FineNow(i, t) PROVE FineNow(i, s \o t)
  <2>1. s \in Seq(Copy) /\ t \in Seq(Copy)
    BY <1>3 DEF FineNow
  <2>2. /\ s \o t \in Seq(Copy) /\ Len(s \o t) = Len(s) + Len(t) /\ Len(s) \in Nat /\ Len(t) \in Nat
        /\ \A n \in 1..Len(s) : (s \o t)[n] = s[n]
        /\ \A n \in (Len(s) + 1)..(Len(s) + Len(t)) : (s \o t)[n] = t[n - Len(s)]
    BY <2>1
  <2>3. ASSUME NEW n \in 1..Len(s \o t) PROVE MineNow(i, (s \o t)[n])
    <3>1. CASE n \in 1..Len(s)
      BY <1>3, <2>2, <3>1 DEF FineNow
    <3>2. CASE ~(n \in 1..Len(s))
      <4>1. n \in (Len(s) + 1)..(Len(s) + Len(t)) /\ n - Len(s) \in 1..Len(t)
        BY <2>2, <3>2
      <4> QED
        BY <1>3, <2>2, <4>1 DEF FineNow
    <3> QED
      BY <3>1, <3>2
  <2> QED
    BY <2>2, <2>3 DEF FineNow
<1>4. ASSUME NEW s, NEW c, FineNow(i, s), MineNow(i, c) PROVE FineNow(i, Append(s, c))
  <2>1. Append(s, c) = s \o <<c>>
    BY <1>4 DEF FineNow, MineNow
  <2> QED
    BY <1>2, <1>3, <1>4, <2>1
<1>5. ASSUME NEW s, FineNow(i, s), s # <<>> PROVE MineNow(i, Head(s)) /\ FineNow(i, Tail(s))
  <2>1. s \in Seq(Copy) /\ Len(s) \in Nat /\ Len(s) # 0
    BY <1>5 DEF FineNow
  <2>2. Head(s) = s[1] /\ 1 \in 1..Len(s)
    BY <2>1
  <2>3. /\ Tail(s) \in Seq(Copy) /\ Len(Tail(s)) = Len(s) - 1
        /\ \A n \in 1..(Len(s) - 1) : Tail(s)[n] = s[n + 1]
    BY <1>5, <2>1
  <2>4. \A n \in 1..(Len(s) - 1) : n + 1 \in 1..Len(s)
    BY <2>1
  <2> QED
    BY <1>5, <2>2, <2>3, <2>4 DEF FineNow
<1> QED
  BY <1>1, <1>2, <1>3, <1>4, <1>5

\* What it takes of a step for its copies to be where they should.
LEMMA CopiesNow ==
  ASSUME setup' = setup,
         \A j \in Stops : FineNow(j, queue'[j]) /\ FineNow(j, dead'[j]),
         \A j \in Stops : pc'[j] # "idle" => MineNow(j, hand'[j]),
         FineNow(pass'.at, pass'.declined),
         pass'.held # NoCopy => MineNow(pass'.at, pass'.held)
  PROVE  Copies'
<1>1. \A r : Stuck(r)' = Stuck(r)
  BY DEF Stuck, Writable
<1>2. \A i, c : MineNow(i, c) => /\ c \in Copy /\ c.run \in asked'
                                 /\ IF c.form = "none" THEN setup'.route[c.run].form = "none" ELSE c.done = i - 1
                                 /\ c.form = "names" /\ setup'.form = "kept" => setup'.route[c.run].nameable
                                 /\ \/ i = setup'.route[c.run].at
                                    \/ i > 1 /\ ~Stuck(c.run)' /\ done'[c.run][i - 1] > 0
  BY <1>1 DEF MineNow
<1> QED
  BY <1>2 DEF Copies, Fine, Mine, FineNow

\* A step of the consumer at one stop, which may add copies there and at the next.
LEMMA SoundAtStop ==
  ASSUME Sound, [Next]_vars, NEW i \in Stops, NEW x, NEW y,
         UNCHANGED <<setup, life, up, pass, passes, asked, started>>,
         queue' \in Files, dead' \in Files,
         \A j \in Stops : FineNow(j, queue'[j]) /\ FineNow(j, dead'[j]),
         hand' = [hand EXCEPT ![i] = x], pc' = [pc EXCEPT ![i] = y],
         \/ x = NoCopy /\ y = "idle"
         \/ MineNow(i, x) /\ i \in up /\ y \in {"working", "hopping", "settling"},
         y = "hopping" => Readable(x) /\ i < LastStop /\ ~Stuck(x.run) /\ done'[x.run][i] > 0,
         counted' \in [Runs -> 0..MaxCount], excuses' \in [Runs -> 0..MaxCount],
         faults' \in 0..MaxFaults,
         \A r \in Runs \ asked : counted'[r] = counted[r] /\ done'[r] = done[r]
  PROVE  Sound'
<1>1. /\ \A j \in Stops : \A c : Mine(j, c) => MineNow(j, c)
      /\ \A j \in Stops : \A s : Fine(j, s) => FineNow(j, s)
  BY MineStays DEF Sound
<1>2. /\ setup' = setup /\ done' \in [Runs -> [Stops -> 0..MaxCount]]
      /\ \A r \in Runs, j \in Stops : done[r][j] <= done'[r][j]
  BY Grows DEF Sound
<1>3. /\ hand'[i] = x /\ pc'[i] = y
      /\ \A j \in Stops \ {i} : hand'[j] = hand[j] /\ pc'[j] = pc[j]
  BY DEF Sound, TypeOK
<1>4. TypeOK'
  <2>1. x \in Copy \cup {NoCopy} /\ y \in {"idle", "working", "hopping", "settling"}
    BY DEF MineNow
  <2> QED
    BY <1>2, <2>1 DEF Sound, TypeOK, Files
<1>5. Copies'
  <2>1. \A j \in Stops : pc'[j] # "idle" => MineNow(j, hand'[j])
    BY <1>1, <1>3 DEF Sound, Copies
  <2>2. FineNow(pass'.at, pass'.declined) /\ (pass'.held # NoCopy => MineNow(pass'.at, pass'.held))
    <3>1. CASE pass.at \in Stops
      BY <1>1, <3>1 DEF Sound, Copies
    <3>2. CASE pass.at = None
      <4>1. pass = NoPass
        BY <3>2 DEF Sound, Passing
      <4> QED
        BY <4>1, FineParts DEF NoPass
    <3> QED
      BY <3>1, <3>2 DEF Sound, TypeOK
  <2> QED
    BY <2>1, <2>2, CopiesNow
<1>6. AtWork'
  <2> SUFFICES ASSUME NEW j \in Stops
               PROVE  /\ pc'[j] = "idle" <=> hand'[j] = NoCopy
                      /\ pc'[j] # "idle" => j \in up'
                      /\ pc'[j] = "hopping" => /\ Readable(hand'[j]) /\ j < LastStop
                                               /\ ~Stuck(hand'[j].run) /\ done'[hand'[j].run][j] > 0
    BY <1>2 DEF AtWork, Readable, Stuck, Writable
  <2>1. CASE j = i
    <3>1. MineNow(i, x) => x # NoCopy
      BY CopyIs DEF MineNow
    <3> QED
      BY <1>3, <2>1, <3>1
  <2>2. CASE j # i
    <3>1. pc[j] = "hopping" => done'[hand[j].run][j] > 0
      <4>1. pc[j] = "hopping" => hand[j].run \in Runs /\ done[hand[j].run][j] > 0
        BY CopyIs DEF Sound, AtWork, Copies, Mine
      <4>2. \A r \in Runs : done[r][j] \in Nat /\ done'[r][j] \in Nat
        BY <1>2, RoutingSlipAssumption DEF Sound, TypeOK
      <4> QED
        BY <1>2, <4>1, <4>2
    <3>2. /\ pc[j] = "idle" <=> hand[j] = NoCopy
          /\ pc[j] # "idle" => j \in up
          /\ pc[j] = "hopping" => Readable(hand[j]) /\ j < LastStop /\ ~Stuck(hand[j].run)
      BY DEF Sound, AtWork
    <3> QED
      BY <1>3, <2>2, <3>1, <3>2
  <2> QED
    BY <2>1, <2>2
<1>7. Passing' /\ Living'
  BY DEF Sound, Passing, Living
<1>8. Unasked'
  BY DEF Sound, Unasked
<1> QED
  BY <1>4, <1>5, <1>6, <1>7, <1>8 DEF Sound

\* A step that leaves the deliveries in hand alone.
LEMMA SoundAside ==
  ASSUME Sound, [Next]_vars, UNCHANGED <<setup, life, up, hand, pc, done, counted>>,
         queue' \in Files, dead' \in Files,
         \A j \in Stops : FineNow(j, queue'[j]) /\ FineNow(j, dead'[j]),
         pass' \in [at : Stops \cup {None}, to : {"queue", "own"}, moved : 0..Limit,
                    held : Copy \cup {NoCopy}, acking : BOOLEAN, declined : Seq(Copy)],
         passes' \in 0..MaxPasses,
         pass'.at = None => pass' = NoPass, pass'.acking => pass'.held # NoCopy,
         pass'.held # NoCopy => pass'.moved < Limit,
         pass'.at \in Stops => FineNow(pass'.at, pass'.declined),
         pass'.at \in Stops /\ pass'.held # NoCopy => MineNow(pass'.at, pass'.held),
         started' \subseteq asked', asked' \subseteq Runs,
         excuses' \in [Runs -> 0..MaxCount], faults' \in 0..MaxFaults
  PROVE  Sound'
<1>1. /\ \A j \in Stops : \A c : Mine(j, c) => MineNow(j, c)
      /\ \A j \in Stops : \A s : Fine(j, s) => FineNow(j, s)
  BY MineStays DEF Sound
<1>2. setup' = setup /\ asked \subseteq asked'
  BY Grows DEF Sound
<1>3. TypeOK'
  BY DEF Sound, TypeOK, Files
<1>4. Copies'
  <2>1. \A j \in Stops : pc'[j] # "idle" => MineNow(j, hand'[j])
    BY <1>1 DEF Sound, Copies
  <2>2. FineNow(pass'.at, pass'.declined) /\ (pass'.held # NoCopy => MineNow(pass'.at, pass'.held))
    <3>1. CASE pass'.at \in Stops
      BY <3>1
    <3>2. CASE pass'.at = None
      <4>1. pass'.declined = <<>> /\ pass'.held = NoCopy
        BY <3>2 DEF NoPass
      <4> QED
        BY <4>1, FineParts
    <3> QED
      BY <3>1, <3>2
  <2> QED
    BY <1>2, <2>1, <2>2, CopiesNow
<1>5. AtWork'
  BY <1>2 DEF Sound, AtWork, Readable, Stuck, Writable
<1>6. Passing' /\ Living' /\ Unasked'
  BY <1>2 DEF Sound, Passing, Living, Unasked
<1> QED
  BY <1>3, <1>4, <1>5, <1>6 DEF Sound

\* What a consumer has in hand.
LEMMA InHand ==
  ASSUME Sound, [Next]_vars, NEW i \in Stops, pc[i] # "idle"
  PROVE  /\ hand[i] \in Copy /\ hand[i].run \in Runs /\ hand[i].run \in asked
         /\ Mine(i, hand[i]) /\ MineNow(i, hand[i]) /\ i \in up
BY MineStays, CopyIs DEF Sound, Copies, Mine, AtWork

\* The slip at stop i has the stops before it done, and can be written on unless the run
\* is stuck.
LEMMA SlipIs ==
  ASSUME Sound, NEW i \in Stops, Mine(i, hand[i]), Readable(hand[i])
  PROVE  /\ Onwards(i) = i + 1 /\ (Finished(Advanced(i)) <=> i = LastStop)
         /\ WrittenAs(Advanced(i)).done = i
         /\ WrittenAs(Advanced(i)).form \in Forms
         /\ setup.form = "kept" /\ WrittenAs(Advanced(i)).form = "names" =>
              setup.route[hand[i].run].nameable
         /\ Writable(hand[i].run, WrittenAs(Advanced(i)).form) <=> ~Stuck(hand[i].run)
<1> DEFINE c == hand[i]
           r == hand[i].run
           s == SlipOf(i, hand[i])
<1>1. c \in Copy /\ r \in Runs /\ c.form \in Forms \cup {"none"} /\ i \in Int
  BY CopyIs DEF Mine, Stops
<1>2. setup \in Setup /\ setup.form \in Forms \cup {"kept"} /\ setup.route[r] \in Route
  BY <1>1, RoutingSlipAssumption DEF Sound, TypeOK, Setup
<1>3. c.form = "none" => setup.pipeline /\ setup.form = "kept" /\ setup.route[r].nameable
  BY <1>1, RoutingSlipAssumption DEF Mine, Readable, Sound, TypeOK
<1>4. /\ s = [done |-> i - 1, form |-> s.form] /\ s.form \in Forms
      /\ setup.form = "kept" /\ s.form = "names" => setup.route[r].nameable
  <2>1. CASE c.form = "none"
    BY <1>3, <2>1 DEF SlipOf, Unslipped, Forms
  <2>2. CASE c.form # "none"
    BY <1>1, <2>2 DEF SlipOf, Mine
  <2> QED
    BY <2>1, <2>2
<1>5. Advanced(i) = [done |-> i, form |-> s.form]
  <2>1. (i - 1) + 1 = i
    BY <1>1
  <2> QED
    BY <1>4, <2>1 DEF Advanced, Advance
<1> HIDE DEF s
<1>6. WrittenAs(Advanced(i)) = [done |-> i, form |-> IF setup.form = "kept" THEN s.form ELSE setup.form]
  BY <1>5 DEF WrittenAs
<1>7. Writable(r, WrittenAs(Advanced(i)).form) <=> ~Stuck(r)
  BY <1>2, <1>4, <1>6 DEF Writable, Stuck, Forms
<1>8. Onwards(i) = i + 1 /\ (Finished(Advanced(i)) <=> i = LastStop)
  BY <1>5 DEF Onwards, NextOf, Finished
<1> QED
  BY <1>2, <1>4, <1>6, <1>7, <1>8

\* The message a consumer sends on belongs at the next stop.
LEMMA OutgoingIs ==
  ASSUME Sound, [Next]_vars, NEW i \in Stops, pc[i] = "hopping"
  PROVE  /\ Onwards(i) = i + 1 /\ i + 1 \in Stops /\ i < LastStop /\ ~Stuck(hand[i].run)
         /\ Outgoing(i) \in Copy /\ Outgoing(i).run = hand[i].run /\ MineNow(i + 1, Outgoing(i))
<1> DEFINE r == hand[i].run
           w == WrittenAs(Advanced(i))
<1>1. /\ hand[i] \in Copy /\ r \in Runs /\ r \in asked /\ Mine(i, hand[i])
      /\ Readable(hand[i]) /\ i < LastStop /\ ~Stuck(r) /\ done[r][i] > 0
  BY InHand DEF Sound, AtWork
<1>2. /\ Onwards(i) = i + 1 /\ w.done = i /\ w.form \in Forms
      /\ setup.form = "kept" /\ w.form = "names" => setup.route[r].nameable
  BY <1>1, SlipIs
<1>3. i \in Int /\ 1 <= i /\ i + 1 \in Stops /\ i + 1 > 1 /\ (i + 1) - 1 = i /\ i \in 0..LastStop /\ 1 \in 1..MaxAttempts
  BY <1>1, RoutingSlipAssumption DEF Stops
<1> HIDE DEF w
<1>4. Outgoing(i) = [run |-> r, attempt |-> 1, done |-> i, form |-> w.form]
  <2> DEFINE a == [First(r) EXCEPT !.done = w.done]
             F == setup.route[r].form
  <2>1. First(r) = [run |-> r, attempt |-> 1, done |-> 0, form |-> F]
    BY DEF First
  <2> HIDE DEF F
  <2>2. a = [run |-> r, attempt |-> 1, done |-> w.done, form |-> F]
    BY <2>1
  <2>3. Outgoing(i) = [a EXCEPT !.form = w.form]
    BY DEF Outgoing, Onto, w
  <2> HIDE DEF a, r
  <2>4. Outgoing(i) = [run |-> r, attempt |-> 1, done |-> w.done, form |-> w.form]
    BY <2>2, <2>3
  <2> QED
    BY <1>2, <2>4 DEF w
<1>5. Outgoing(i) \in Copy
  BY <1>1, <1>2, <1>3, <1>4 DEF Copy
<1>6. done'[r][i] > 0
  <2>1. done[r][i] <= done'[r][i] /\ done[r][i] \in Nat /\ done'[r][i] \in Nat
    <3>1. \A q \in Runs, j \in Stops : done[q][j] <= done'[q][j]
      BY Grows DEF Sound
    <3>2. done' \in [Runs -> [Stops -> 0..MaxCount]] /\ done \in [Runs -> [Stops -> 0..MaxCount]]
      BY Grows DEF Sound, TypeOK
    <3> QED
      BY <1>1, <3>1, <3>2
  <2> QED
    BY <1>1, <2>1
<1>7. asked \subseteq asked' /\ w.form # "none"
  BY <1>2, Grows DEF Sound, Forms
<1> HIDE DEF r
<1>8. MineNow(i + 1, Outgoing(i))
  BY <1>1, <1>2, <1>3, <1>4, <1>5, <1>6, <1>7 DEF MineNow
<1> QED
  BY <1>1, <1>2, <1>3, <1>4, <1>5, <1>8 DEF r

\* What a stop puts back, and what a replay returns, belongs where it came from.
LEMMA AgainIs ==
  ASSUME NEW i, NEW c, MineNow(i, c)
  PROVE  /\ c.attempt < MaxAttempts => MineNow(i, Further(c)) /\ Further(c).run = c.run /\ Further(c) \in Copy
         /\ MineNow(i, Fresh(c)) /\ Fresh(c).run = c.run /\ Fresh(c) \in Copy
<1>1. c \in Copy
  BY DEF MineNow
<1>2. c.attempt < MaxAttempts => Further(c) \in Copy
  BY <1>1, RoutingSlipAssumption DEF Further, Copy
<1>3. Fresh(c) \in Copy
  BY <1>1, RoutingSlipAssumption DEF Fresh, Copy
<1>4. Further(c).run = c.run /\ Further(c).done = c.done /\ Further(c).form = c.form
  BY <1>1 DEF Further, Copy
<1>5. Fresh(c).run = c.run /\ Fresh(c).done = c.done /\ Fresh(c).form = c.form
  BY <1>1 DEF Fresh, Copy
<1> QED
  BY <1>2, <1>3, <1>4, <1>5 DEF MineNow

\* Queues and dead letters of which one is exchanged for another fine one.
LEMMA FilesNow ==
  ASSUME Sound, [Next]_vars
  PROVE  /\ queue \in Files /\ dead \in Files
         /\ \A j \in Stops : FineNow(j, queue[j]) /\ FineNow(j, dead[j])
         /\ \A q \in Files, i \in Stops : \A s :
              (\A j \in Stops : FineNow(j, q[j])) /\ FineNow(i, s) =>
                /\ [q EXCEPT ![i] = s] \in Files
                /\ \A j \in Stops : FineNow(j, [q EXCEPT ![i] = s][j])
<1>1. queue \in Files /\ dead \in Files /\ \A j \in Stops : FineNow(j, queue[j]) /\ FineNow(j, dead[j])
  BY MineStays DEF Sound, TypeOK, Copies, Files
<1>2. ASSUME NEW q \in Files, NEW i \in Stops, NEW s, \A j \in Stops : FineNow(j, q[j]), FineNow(i, s)
      PROVE  /\ [q EXCEPT ![i] = s] \in Files
             /\ \A j \in Stops : FineNow(j, [q EXCEPT ![i] = s][j])
  <2>1. s \in Seq(Copy)
    BY <1>2 DEF FineNow
  <2> QED
    BY <1>2, <2>1 DEF Files
<1> QED
  BY <1>1, <1>2

-----------------------------------------------------------------------------
(* Every step leaves the copies where they should be *)

\* A consumer that is done with its delivery, having put a copy where it belongs or not.
LEMMA SoundIdle ==
  ASSUME Sound, [Next]_vars, NEW i \in Stops, pc[i] # "idle", Idle(i),
         UNCHANGED <<setup, life, up, pass, passes, asked, started, counted>>,
         queue' \in Files, dead' \in Files,
         \A j \in Stops : FineNow(j, queue'[j]) /\ FineNow(j, dead'[j]),
         \A r \in Runs \ asked : done'[r] = done[r],
         excuses' \in [Runs -> 0..MaxCount], faults' \in 0..MaxFaults
  PROVE  Sound'
<1>1. hand' = [hand EXCEPT ![i] = NoCopy] /\ pc' = [pc EXCEPT ![i] = "idle"]
  BY DEF Idle
<1>2. counted' \in [Runs -> 0..MaxCount] /\ \A r \in Runs \ asked : counted'[r] = counted[r]
  BY DEF Sound, TypeOK
<1> DEFINE x == NoCopy
           y == "idle"
<1>3. x = NoCopy /\ y = "idle" /\ hand' = [hand EXCEPT ![i] = x] /\ pc' = [pc EXCEPT ![i] = y]
  BY <1>1
<1>4. y = "hopping" => Readable(x) /\ i < LastStop /\ ~Stuck(x.run) /\ done'[x.run][i] > 0
  OBVIOUS
<1> HIDE DEF x, y
<1> QED
  BY <1>2, <1>3, <1>4, SoundAtStop

\* A consumer takes a copy that lay in its own queue.
LEMMA SoundTakes ==
  ASSUME Sound, [Next]_vars, NEW i \in Stops, Takes(i)
  PROVE  Sound'
<1>1. FineNow(i, queue[i]) /\ queue[i] # <<>>
  BY FilesNow DEF Takes
<1> DEFINE x == Head(queue[i])
           y == "working"
           s == Tail(queue[i])
<1>2. MineNow(i, x) /\ FineNow(i, s)
  BY <1>1, FineParts
<1>3. /\ hand' = [hand EXCEPT ![i] = x] /\ pc' = [pc EXCEPT ![i] = y]
      /\ queue' = [queue EXCEPT ![i] = s] /\ dead' = dead /\ i \in up
      /\ UNCHANGED <<setup, life, up, pass, passes, asked, started, done, counted, excuses, faults>>
  BY DEF Takes, pipe, replays, history
<1>4. /\ queue' \in Files /\ dead' \in Files
      /\ \A j \in Stops : FineNow(j, queue'[j]) /\ FineNow(j, dead'[j])
  BY <1>2, <1>3, FilesNow
<1>5. y = "working"
  OBVIOUS
<1>6. /\ counted' \in [Runs -> 0..MaxCount] /\ excuses' \in [Runs -> 0..MaxCount]
      /\ faults' \in 0..MaxFaults
      /\ \A r \in Runs \ asked : counted'[r] = counted[r] /\ done'[r] = done[r]
  BY <1>3 DEF Sound, TypeOK
<1> HIDE DEF x, y, s
<1>7. UNCHANGED <<setup, life, up, pass, passes, asked, started>>
  BY <1>3
<1> QED
  BY <1>2, <1>3, <1>4, <1>5, <1>6, <1>7, SoundAtStop

\* reject() and retry().
LEMMA VerdictsFine ==
  ASSUME Sound, [Next]_vars, NEW i \in Stops, pc[i] # "idle", Rejected(i) \/ Retried(i)
  PROVE  /\ queue' \in Files /\ dead' \in Files /\ Idle(i)
         /\ \A j \in Stops : FineNow(j, queue'[j]) /\ FineNow(j, dead'[j])
<1>1. MineNow(i, hand[i])
  BY InHand
<1>2. CASE Rejected(i)
  <2>1. FineNow(i, Append(dead[i], hand[i]))
    BY <1>1, FilesNow, FineParts
  <2>2. dead' = [dead EXCEPT ![i] = Append(dead[i], hand[i])] /\ queue' = queue /\ Idle(i)
    BY <1>2 DEF Rejected
  <2> QED
    BY <2>1, <2>2, FilesNow
<1>3. CASE Retried(i) /\ hand[i].attempt < MaxAttempts
  <2>1. FineNow(i, Append(queue[i], Further(hand[i])))
    BY <1>1, <1>3, FilesNow, FineParts, AgainIs
  <2>2. queue' = [queue EXCEPT ![i] = Append(queue[i], Further(hand[i]))] /\ dead' = dead /\ Idle(i)
    BY <1>3 DEF Retried, Enters
  <2> QED
    BY <2>1, <2>2, FilesNow
<1> QED
  BY <1>2, <1>3 DEF Retried

\* A copy refused or failed goes back to the queue or to the dead letters of its own stop.
LEMMA SoundVerdicts ==
  ASSUME Sound, [Next]_vars, NEW i \in Stops, Refuses(i) \/ StepFails(i)
  PROVE  Sound'
<1>1. /\ pc[i] # "idle" /\ (Rejected(i) \/ Retried(i))
      /\ UNCHANGED <<setup, life, up, pass, passes, asked, started, done, counted, excuses, faults>>
  BY DEF Refuses, StepFails, pipe, replays, history, Undisturbed
<1>2. excuses' \in [Runs -> 0..MaxCount] /\ faults' \in 0..MaxFaults
  BY <1>1 DEF Sound, TypeOK
<1>3. /\ queue' \in Files /\ dead' \in Files /\ Idle(i)
      /\ \A j \in Stops : FineNow(j, queue'[j]) /\ FineNow(j, dead'[j])
  BY <1>1, VerdictsFine
<1>4. pc[i] # "idle" /\ UNCHANGED <<setup, life, up, pass, passes, asked, started, counted>>
      /\ \A r \in Runs \ asked : done'[r] = done[r]
  BY <1>1
<1> QED
  BY <1>2, <1>3, <1>4, SoundIdle

\* A step that only goes on with the delivery in hand.
LEMMA SoundAt ==
  ASSUME Sound, [Next]_vars, NEW i \in Stops, pc[i] # "idle", NEW y, At(i, y),
         y \in {"hopping", "settling"},
         y = "hopping" => /\ Readable(hand[i]) /\ i < LastStop /\ ~Stuck(hand[i].run)
                          /\ done'[hand[i].run][i] > 0,
         UNCHANGED <<setup, life, up, pass, passes, asked, started, excuses, faults>>,
         queue' \in Files, dead' \in Files,
         \A j \in Stops : FineNow(j, queue'[j]) /\ FineNow(j, dead'[j]),
         counted' \in [Runs -> 0..MaxCount],
         \A r \in Runs \ asked : counted'[r] = counted[r] /\ done'[r] = done[r]
  PROVE  Sound'
<1>1. hand[i] \in Copy /\ MineNow(i, hand[i]) /\ i \in up
  BY InHand
<1> DEFINE x == hand[i]
<1>2. hand' = [hand EXCEPT ![i] = x] /\ pc' = [pc EXCEPT ![i] = y]
  BY DEF At, Sound, TypeOK
<1>3. MineNow(i, x) /\ i \in up /\ y \in {"working", "hopping", "settling"}
  BY <1>1
<1>4. y = "hopping" => Readable(x) /\ i < LastStop /\ ~Stuck(x.run) /\ done'[x.run][i] > 0
  OBVIOUS
<1>5. excuses' \in [Runs -> 0..MaxCount] /\ faults' \in 0..MaxFaults
  BY DEF Sound, TypeOK
<1> HIDE DEF x
<1> QED
  BY <1>2, <1>3, <1>4, <1>5, SoundAtStop

\* What Counts and Works do to the history.
LEMMA HistoryIs ==
  ASSUME Sound, NEW r \in asked
  PROVE  /\ Counts(r) => /\ counted' \in [Runs -> 0..MaxCount] /\ counted'[r] = More(counted[r])
                         /\ \A q \in Runs \ {r} : counted'[q] = counted[q]
         /\ Excuse(r) => /\ excuses' \in [Runs -> 0..MaxCount] /\ excuses'[r] = More(excuses[r])
                         /\ \A q \in Runs \ {r} : excuses'[q] = excuses[q]
         /\ \A i \in Stops : done' = [done EXCEPT ![r][i] = More(@)] =>
              /\ done'[r][i] = More(done[r][i]) /\ done'[r][i] > 0
              /\ \A j \in Stops \ {i} : done'[r][j] = done[r][j]
              /\ \A q \in Runs \ {r} : done'[q] = done[q]
<1>1. r \in Runs /\ counted[r] \in 0..MaxCount /\ excuses[r] \in 0..MaxCount
      /\ \A i \in Stops : done[r][i] \in 0..MaxCount
  BY DEF Sound, TypeOK
<1>2. /\ More(counted[r]) \in 0..MaxCount /\ More(excuses[r]) \in 0..MaxCount
      /\ \A i \in Stops : More(done[r][i]) > 0
  BY <1>1, MoreIs
<1> HIDE DEF More
<1>3. Counts(r) => /\ counted' \in [Runs -> 0..MaxCount] /\ counted'[r] = More(counted[r])
                   /\ \A q \in Runs \ {r} : counted'[q] = counted[q]
  BY <1>1, <1>2 DEF Counts, Sound, TypeOK
<1>4. Excuse(r) => /\ excuses' \in [Runs -> 0..MaxCount] /\ excuses'[r] = More(excuses[r])
                   /\ \A q \in Runs \ {r} : excuses'[q] = excuses[q]
  BY <1>1, <1>2 DEF Excuse, Sound, TypeOK
<1>5. ASSUME NEW i \in Stops, done' = [done EXCEPT ![r][i] = More(@)]
      PROVE  /\ done'[r][i] = More(done[r][i]) /\ done'[r][i] > 0
             /\ \A j \in Stops \ {i} : done'[r][j] = done[r][j]
             /\ \A q \in Runs \ {r} : done'[q] = done[q]
  BY <1>1, <1>2, <1>5 DEF Sound, TypeOK
<1> QED
  BY <1>3, <1>4, <1>5

\* A step that ends the run only counts it.
LEMMA SoundEndsEarly ==
  ASSUME Sound, [Next]_vars, NEW i \in Stops, EndsEarly(i)
  PROVE  Sound'
<1>1. /\ pc[i] # "idle" /\ Counts(hand[i].run) /\ At(i, "settling")
      /\ UNCHANGED <<setup, life, up, queue, dead, pass, passes, asked, started, done, excuses, faults>>
  BY DEF EndsEarly, pipe, broker, replays, Undisturbed
<1>2. hand[i].run \in asked
  BY <1>1, InHand
<1>3. counted' \in [Runs -> 0..MaxCount] /\ \A q \in Runs \ {hand[i].run} : counted'[q] = counted[q]
  BY <1>1, <1>2, HistoryIs
<1>4. /\ queue' \in Files /\ dead' \in Files
      /\ \A j \in Stops : FineNow(j, queue'[j]) /\ FineNow(j, dead'[j])
  BY <1>1, FilesNow
<1> DEFINE y == "settling"
<1>5. At(i, y) /\ y = "settling"
  BY <1>1
<1> HIDE DEF y
<1>6. /\ UNCHANGED <<setup, life, up, pass, passes, asked, started, excuses, faults>>
      /\ \A r \in Runs \ asked : counted'[r] = counted[r] /\ done'[r] = done[r]
  BY <1>1, <1>2, <1>3
<1> QED
  BY <1>1, <1>3, <1>4, <1>5, <1>6, SoundAt

\* The work is done where the copy is, before the copy goes on.
LEMMA SoundStepDone ==
  ASSUME Sound, [Next]_vars, NEW i \in Stops, StepDone(i)
  PROVE  Sound'
<1> DEFINE r == hand[i].run
<1>1. /\ pc[i] # "idle" /\ Readable(hand[i])
      /\ done' = [done EXCEPT ![r][i] = More(@)]
      /\ UNCHANGED <<setup, life, up, pass, passes, asked, started, excuses, faults>>
  BY DEF StepDone, Works, pipe, replays, Undisturbed
<1>2. r \in asked /\ Mine(i, hand[i])
  BY <1>1, InHand
<1>3. done'[r][i] > 0 /\ \A q \in Runs \ asked : done'[q] = done[q]
  BY <1>1, <1>2, HistoryIs
<1>4. CASE Finished(Advanced(i)) /\ Counts(r) /\ At(i, "settling") /\ UNCHANGED broker
  <2>1. counted' \in [Runs -> 0..MaxCount] /\ \A q \in Runs \ asked : counted'[q] = counted[q]
    BY <1>2, <1>4, HistoryIs
  <2>2. /\ queue' \in Files /\ dead' \in Files
        /\ \A j \in Stops : FineNow(j, queue'[j]) /\ FineNow(j, dead'[j])
    BY <1>4, FilesNow DEF broker
  <2> DEFINE y == "settling"
  <2>3. At(i, y) /\ y = "settling"
    BY <1>4
  <2> HIDE DEF y
  <2> QED
    BY <1>1, <1>3, <2>1, <2>2, <2>3, SoundAt
<1>5. CASE Rejected(i) /\ UNCHANGED counted
  <2>1. /\ queue' \in Files /\ dead' \in Files /\ Idle(i)
        /\ \A j \in Stops : FineNow(j, queue'[j]) /\ FineNow(j, dead'[j])
    BY <1>1, <1>5, VerdictsFine
  <2>2. excuses' \in [Runs -> 0..MaxCount] /\ faults' \in 0..MaxFaults
    BY <1>1 DEF Sound, TypeOK
  <2>3. UNCHANGED <<setup, life, up, pass, passes, asked, started, counted>>
    BY <1>1, <1>5
  <2> QED
    BY <1>1, <1>3, <2>1, <2>2, <2>3, SoundIdle
<1>6. CASE /\ ~Finished(Advanced(i)) /\ Writable(r, WrittenAs(Advanced(i)).form)
           /\ At(i, "hopping") /\ UNCHANGED <<counted, broker>>
  <2>1. counted' \in [Runs -> 0..MaxCount] /\ \A q \in Runs \ asked : counted'[q] = counted[q]
    BY <1>6 DEF Sound, TypeOK
  <2>2. /\ queue' \in Files /\ dead' \in Files
        /\ \A j \in Stops : FineNow(j, queue'[j]) /\ FineNow(j, dead'[j])
    BY <1>6, FilesNow DEF broker
  <2>3. i # LastStop /\ ~Stuck(r)
    BY <1>1, <1>2, <1>6, SlipIs
  <2>4. i < LastStop
    BY <2>3, RoutingSlipAssumption DEF Stops
  <2> DEFINE y == "hopping"
  <2>5. At(i, y) /\ y = "hopping"
    BY <1>6
  <2> HIDE DEF y
  <2> QED
    BY <1>1, <1>3, <2>1, <2>2, <2>3, <2>4, <2>5, SoundAt
<1> QED
  BY <1>4, <1>5, <1>6 DEF StepDone

\* The copy published is one for the next stop, whose predecessor has done its work.
LEMMA SoundHops ==
  ASSUME Sound, [Next]_vars, NEW i \in Stops, Hops(i)
  PROVE  Sound'
<1>1. /\ pc[i] = "hopping" /\ Enters(Onwards(i), Outgoing(i)) /\ At(i, "settling")
      /\ UNCHANGED <<setup, life, up, dead, pass, passes, asked, started, done, counted, excuses, faults>>
  BY DEF Hops, pipe, replays, history
<1>2. Onwards(i) = i + 1 /\ i + 1 \in Stops /\ MineNow(i + 1, Outgoing(i))
  BY <1>1, OutgoingIs
<1>3. /\ queue' \in Files /\ dead' \in Files
      /\ \A j \in Stops : FineNow(j, queue'[j]) /\ FineNow(j, dead'[j])
  <2>1. FineNow(i + 1, Append(queue[i + 1], Outgoing(i)))
    BY <1>2, FilesNow, FineParts
  <2>2. queue' = [queue EXCEPT ![i + 1] = Append(queue[i + 1], Outgoing(i))] /\ dead' = dead
    BY <1>1, <1>2 DEF Enters
  <2> QED
    BY <1>2, <2>1, <2>2, FilesNow
<1>4. counted' \in [Runs -> 0..MaxCount]
  BY <1>1 DEF Sound, TypeOK
<1> DEFINE y == "settling"
<1>5. At(i, y) /\ y = "settling" /\ pc[i] # "idle"
  BY <1>1
<1> HIDE DEF y
<1>6. /\ UNCHANGED <<setup, life, up, pass, passes, asked, started, excuses, faults>>
      /\ \A r \in Runs \ asked : counted'[r] = counted[r] /\ done'[r] = done[r]
  BY <1>1
<1> QED
  BY <1>3, <1>4, <1>5, <1>6, SoundAt

\* A fault is counted for a run that was asked for.
LEMMA FaultIs ==
  ASSUME Sound, NEW r \in Runs, Fault(r) \/ (Excuse(r) /\ UNCHANGED faults)
  PROVE  /\ excuses' \in [Runs -> 0..MaxCount] /\ faults' \in 0..MaxFaults
         /\ excuses'[r] = More(excuses[r]) /\ \A q \in Runs \ {r} : excuses'[q] = excuses[q]
<1>1. excuses' = [excuses EXCEPT ![r] = More(excuses[r])]
  BY DEF Fault, Excuse
<1>2. More(excuses[r]) \in 0..MaxCount
  BY MoreIs DEF Sound, TypeOK
<1> HIDE DEF More
<1>3. faults' \in 0..MaxFaults
  BY RoutingSlipAssumption DEF Fault, Sound, TypeOK
<1> QED
  BY <1>1, <1>2, <1>3 DEF Sound, TypeOK

\* What HopFails leaves in the queues and dead letters.
LEMMA HopFailsIs ==
  ASSUME Sound, [Next]_vars, NEW i \in Stops, HopFails(i)
  PROVE  /\ pc[i] = "hopping" /\ Onwards(i) = i + 1 /\ i + 1 \in Stops
         /\ Fault(hand[i].run) \/ (Excuse(hand[i].run) /\ UNCHANGED faults)
         /\ Idle(i) /\ UNCHANGED <<setup, life, up, pass, passes, asked, started, done, counted>>
         /\ \E t \in {<<>>, <<Outgoing(i)>>} :
              \/ /\ hand[i].attempt < MaxAttempts /\ dead' = dead
                 /\ queue' = [[queue EXCEPT ![i] = @ \o <<Further(hand[i])>>] EXCEPT ![i + 1] = @ \o t]
              \/ /\ dead' = [dead EXCEPT ![i] = Append(@, hand[i])]
                 /\ queue' = [queue EXCEPT ![i + 1] = @ \o t]
<1> DEFINE again == hand[i].attempt < MaxAttempts
           there == Bound(hand[i].run, Onwards(i))
           a == IF again THEN <<Further(hand[i])>> ELSE <<>>
<1>1. /\ pc[i] = "hopping" /\ Idle(i)
      /\ UNCHANGED <<setup, life, up, pass, passes, asked, started, done, counted>>
      /\ dead' = IF again THEN dead ELSE [dead EXCEPT ![i] = Append(@, hand[i])]
      /\ Fault(hand[i].run) \/ (Excuse(hand[i].run) /\ UNCHANGED faults)
  BY DEF HopFails, pipe, replays, history
<1>2. Onwards(i) = i + 1 /\ i + 1 \in Stops /\ i # i + 1
  <2>1. i # i + 1
    BY DEF Stops
  <2> QED
    BY <1>1, <2>1, OutgoingIs
<1>3. PICK arrived \in BOOLEAN :
        queue' = [j \in Stops |->
                   queue[j] \o (IF j = i /\ again THEN <<Further(hand[i])>> ELSE <<>>)
                            \o (IF j = Onwards(i) /\ arrived THEN <<Outgoing(i)>> ELSE <<>>)]
  <2>1. \E arrived \in IF there THEN BOOLEAN ELSE {FALSE} :
          queue' = [j \in Stops |->
                     queue[j] \o (IF j = i /\ again THEN <<Further(hand[i])>> ELSE <<>>)
                              \o (IF j = Onwards(i) /\ arrived THEN <<Outgoing(i)>> ELSE <<>>)]
    BY DEF HopFails
  <2> QED
    BY <2>1
<1> DEFINE t == IF arrived THEN <<Outgoing(i)>> ELSE <<>>
<1>4. \A j \in Stops : queue[j] \in Seq(Copy)
  BY DEF Sound, TypeOK
<1>5. hand[i] \in Copy /\ MineNow(i, hand[i]) /\ Outgoing(i) \in Copy
  BY <1>1, InHand, OutgoingIs
<1>6. a \in Seq(Copy) /\ t \in Seq(Copy)
  <2>1. again => Further(hand[i]) \in Copy
    BY <1>5, AgainIs
  <2> QED
    BY <1>5, <2>1
<1>7. queue' = [j \in Stops |-> IF j = i THEN queue[j] \o a ELSE IF j = i + 1 THEN queue[j] \o t ELSE queue[j]]
  <2>1. \A s \in Seq(Copy) : s \o <<>> = s
    OBVIOUS
  <2>2. ASSUME NEW j \in Stops
        PROVE  queue'[j] = IF j = i THEN queue[j] \o a ELSE IF j = i + 1 THEN queue[j] \o t ELSE queue[j]
    <3>1. queue'[j] = queue[j] \o (IF j = i /\ again THEN <<Further(hand[i])>> ELSE <<>>)
                            \o (IF j = i + 1 /\ arrived THEN <<Outgoing(i)>> ELSE <<>>)
      BY <1>2, <1>3
    <3>2. CASE j = i
      <4>1. queue'[j] = (queue[j] \o a) \o <<>>
        BY <1>2, <3>1, <3>2
      <4>2. queue[j] \o a \in Seq(Copy)
        BY <1>4, <1>6
      <4> HIDE DEF a
      <4> QED
        BY <2>1, <3>2, <4>1, <4>2
    <3>3. CASE j = i + 1
      <4>1. queue'[j] = (queue[j] \o <<>>) \o t
        BY <1>2, <3>1, <3>3
      <4>2. queue[j] \o <<>> = queue[j]
        BY <1>4, <2>1
      <4> HIDE DEF t
      <4> QED
        BY <1>2, <3>3, <4>1, <4>2
    <3>4. CASE j # i /\ j # i + 1
      <4>1. queue'[j] = (queue[j] \o <<>>) \o <<>>
        BY <3>1, <3>4
      <4> QED
        BY <1>4, <2>1, <3>4, <4>1
    <3> QED
      BY <3>2, <3>3, <3>4
  <2> QED
    BY <1>3, <2>2
<1>8. t \in {<<>>, <<Outgoing(i)>>}
  OBVIOUS
<1>9. queue \in [Stops -> Seq(Copy)]
  BY DEF Sound, TypeOK
<1> HIDE DEF t
<1>10. CASE again
  <2>1. queue' = [[queue EXCEPT ![i] = @ \o <<Further(hand[i])>>] EXCEPT ![i + 1] = @ \o t]
    BY <1>2, <1>7, <1>9, <1>10
  <2> QED
    BY <1>1, <1>2, <1>8, <1>10, <2>1
<1>11. CASE ~again
  <2>1. queue[i] \o a = queue[i]
    BY <1>4, <1>11
  <2>2. queue' = [queue EXCEPT ![i + 1] = @ \o t]
    BY <1>2, <1>7, <1>9, <2>1
  <2> QED
    BY <1>1, <1>2, <1>8, <1>11, <2>2
<1> QED
  BY <1>10, <1>11

\* A publish that fails leaves the delivery to its own stop and may still have arrived
\* at the next.
LEMMA SoundHopFails ==
  ASSUME Sound, [Next]_vars, NEW i \in Stops, HopFails(i)
  PROVE  Sound'
<1>1. /\ pc[i] = "hopping" /\ Onwards(i) = i + 1 /\ i + 1 \in Stops
      /\ Fault(hand[i].run) \/ (Excuse(hand[i].run) /\ UNCHANGED faults)
      /\ Idle(i) /\ UNCHANGED <<setup, life, up, pass, passes, asked, started, done, counted>>
  BY HopFailsIs
<1>2. hand[i].run \in Runs /\ MineNow(i, hand[i])
  BY <1>1, InHand
<1>3. MineNow(i + 1, Outgoing(i))
  BY <1>1, OutgoingIs
<1>4. PICK t \in {<<>>, <<Outgoing(i)>>} :
        \/ /\ hand[i].attempt < MaxAttempts /\ dead' = dead
           /\ queue' = [[queue EXCEPT ![i] = @ \o <<Further(hand[i])>>] EXCEPT ![i + 1] = @ \o t]
        \/ /\ dead' = [dead EXCEPT ![i] = Append(@, hand[i])]
           /\ queue' = [queue EXCEPT ![i + 1] = @ \o t]
  BY HopFailsIs
<1>5. FineNow(i + 1, t)
  BY <1>3, FineParts
<1>6. /\ queue \in Files /\ dead \in Files
      /\ \A j \in Stops : FineNow(j, queue[j]) /\ FineNow(j, dead[j])
      /\ \A q \in Files, k \in Stops : \A s :
           (\A j \in Stops : FineNow(j, q[j])) /\ FineNow(k, s) =>
             /\ [q EXCEPT ![k] = s] \in Files
             /\ \A j \in Stops : FineNow(j, [q EXCEPT ![k] = s][j])
  BY FilesNow
<1>7. /\ queue' \in Files /\ dead' \in Files
      /\ \A j \in Stops : FineNow(j, queue'[j]) /\ FineNow(j, dead'[j])
  <2>1. CASE /\ hand[i].attempt < MaxAttempts /\ dead' = dead
             /\ queue' = [[queue EXCEPT ![i] = @ \o <<Further(hand[i])>>] EXCEPT ![i + 1] = @ \o t]
    <3> DEFINE q == [queue EXCEPT ![i] = queue[i] \o <<Further(hand[i])>>]
    <3>1. FineNow(i, queue[i] \o <<Further(hand[i])>>)
      BY <1>2, <1>6, <2>1, AgainIs, FineParts
    <3>2. q \in Files /\ \A j \in Stops : FineNow(j, q[j])
      BY <1>6, <3>1
    <3>3. queue' = [q EXCEPT ![i + 1] = q[i + 1] \o t]
      BY <2>1
    <3> HIDE DEF q
    <3>4. FineNow(i + 1, q[i + 1] \o t)
      BY <1>1, <1>5, <3>2, FineParts
    <3>5. dead' = dead
      BY <2>1
    <3> DEFINE k == i + 1
               s == q[i + 1] \o t
    <3>6. k \in Stops /\ FineNow(k, s) /\ queue' = [q EXCEPT ![k] = s]
      BY <1>1, <3>3, <3>4
    <3> HIDE DEF k, s
    <3>7. /\ [q EXCEPT ![k] = s] \in Files
          /\ \A j \in Stops : FineNow(j, [q EXCEPT ![k] = s][j])
      BY ONLY <1>6, <3>2, <3>6
    <3>8. queue' \in Files /\ \A j \in Stops : FineNow(j, queue'[j])
      BY ONLY <3>6, <3>7
    <3>9. dead' \in Files /\ \A j \in Stops : FineNow(j, dead'[j])
      BY ONLY <1>6, <3>5
    <3> QED
      BY <3>8, <3>9
  <2>2. CASE /\ dead' = [dead EXCEPT ![i] = Append(@, hand[i])]
             /\ queue' = [queue EXCEPT ![i + 1] = @ \o t]
    <3>1. FineNow(i, Append(dead[i], hand[i])) /\ FineNow(i + 1, queue[i + 1] \o t)
      BY <1>1, <1>2, <1>5, <1>6, FineParts
    <3>2. dead' = [dead EXCEPT ![i] = Append(dead[i], hand[i])] /\ queue' = [queue EXCEPT ![i + 1] = queue[i + 1] \o t]
      BY <2>2
    <3> QED
      BY <1>1, <1>6, <3>1, <3>2
  <2> QED
    BY <1>4, <2>1, <2>2
<1>8. excuses' \in [Runs -> 0..MaxCount] /\ faults' \in 0..MaxFaults
  BY <1>1, <1>2, FaultIs
<1>9. /\ UNCHANGED <<setup, life, up, pass, passes, asked, started, counted>> /\ pc[i] # "idle"
      /\ \A r \in Runs \ asked : done'[r] = done[r]
  BY <1>1
<1>10. Idle(i)
  BY <1>1
<1> QED
  BY <1>7, <1>8, <1>9, <1>10, SoundIdle

\* A delivery that is settled, or given back by a crash, is no longer in hand.
LEMMA SoundLets ==
  ASSUME Sound, [Next]_vars, NEW i \in Stops, Settles(i) \/ Crashes(i)
  PROVE  Sound'
<1>1. /\ pc[i] # "idle" /\ Idle(i) /\ dead' = dead
      /\ UNCHANGED <<setup, life, up, pass, passes, asked, started, counted>>
      /\ \A r \in Runs \ asked : done'[r] = done[r]
  BY DEF Settles, Crashes, pipe, broker, replays, history
<1>2. hand[i].run \in Runs /\ MineNow(i, hand[i])
  BY <1>1, InHand
<1>3. excuses' \in [Runs -> 0..MaxCount] /\ faults' \in 0..MaxFaults
  <2>1. CASE Settles(i)
    BY <2>1 DEF Settles, Sound, TypeOK
  <2>2. CASE Crashes(i)
    <3>1. Fault(hand[i].run)
      BY <2>2 DEF Crashes
    <3> QED
      BY <1>2, <3>1, FaultIs
  <2> QED
    BY <2>1, <2>2
<1>4. /\ queue' \in Files /\ dead' \in Files
      /\ \A j \in Stops : FineNow(j, queue'[j]) /\ FineNow(j, dead'[j])
  <2>1. CASE Settles(i)
    BY <1>1, <2>1, FilesNow DEF Settles, broker
  <2>2. CASE Crashes(i)
    <3>1. queue' = [queue EXCEPT ![i] = <<hand[i]>> \o queue[i]]
      BY <2>2 DEF Crashes
    <3>2. FineNow(i, <<hand[i]>>)
      BY <1>2, FineParts
    <3>3. FineNow(i, <<hand[i]>> \o queue[i])
      BY <3>2, FilesNow, FineParts
    <3> QED
      BY <1>1, <3>1, <3>3, FilesNow
  <2> QED
    BY <2>1, <2>2
<1> QED
  BY <1>1, <1>3, <1>4, SoundIdle

\* A run sent, or not, with or without an error.
LEMMA SoundSends ==
  ASSUME Sound, [Next]_vars, NEW r \in Runs,
         Starts(r) \/ Posts(r) \/ StartRefused(r) \/ StartFails(r)
  PROVE  Sound'
<1>1. /\ asked' = asked \cup {r} /\ started' \subseteq asked' /\ asked' \subseteq Runs /\ dead' = dead
      /\ UNCHANGED <<setup, life, up, hand, pc, done, counted, pass, passes>>
  BY DEF Starts, Posts, StartRefused, StartFails, Sent, pipe, broker, stops, replays, Sound, TypeOK
<1>2. excuses' \in [Runs -> 0..MaxCount] /\ faults' \in 0..MaxFaults
  <2>1. CASE StartFails(r)
    BY <2>1, FaultIs DEF StartFails
  <2>2. CASE ~StartFails(r)
    BY <2>2 DEF Starts, Posts, StartRefused, Sound, TypeOK
  <2> QED
    BY <2>1, <2>2
<1> DEFINE at == setup.route[r].at
           c == First(r)
<1>3. queue' = queue \/ (queue' = [queue EXCEPT ![at] = Append(queue[at], c)] /\ at \in Stops /\ MineNow(at, c))
  <2>1. /\ setup.form \in Forms \cup {"kept"} /\ setup.route[r] \in Route
        /\ setup.route[r].form # "none" => at = 1
    BY RoutingSlipAssumption DEF Sound, TypeOK, Setup
  <2>2. at \in Stops /\ setup.route[r].form \in Forms \cup {"none"}
    BY <2>1 DEF Route
  <2>3. c = [run |-> r, attempt |-> 1, done |-> 0, form |-> setup.route[r].form] /\ c \in Copy
    BY <2>2, RoutingSlipAssumption DEF First, Copy
  <2>4. Writable(r, setup.route[r].form) \/ setup.route[r].form = "none" => MineNow(at, c)
    BY <1>1, <2>1, <2>2, <2>3 DEF MineNow, Writable
  <2> HIDE DEF c, at
  <2>5. \/ queue' = queue
        \/ /\ queue' = [queue EXCEPT ![at] = Append(queue[at], c)]
           /\ Writable(r, setup.route[r].form) \/ setup.route[r].form = "none"
    <3>1. CASE Starts(r)
      BY <2>1, <3>1 DEF Starts, Enters, c
    <3>2. CASE Posts(r)
      BY <3>2 DEF Posts, Enters, c, at
    <3>3. CASE StartRefused(r)
      BY <3>3 DEF StartRefused, broker
    <3>4. CASE StartFails(r)
      BY <2>1, <3>4 DEF StartFails, Enters, c
    <3> QED
      BY <3>1, <3>2, <3>3, <3>4
  <2> QED
    BY <2>2, <2>4, <2>5
<1> HIDE DEF c, at
<1>4. /\ queue' \in Files /\ dead' \in Files
      /\ \A j \in Stops : FineNow(j, queue'[j]) /\ FineNow(j, dead'[j])
  <2>1. CASE queue' = queue
    BY <1>1, <2>1, FilesNow
  <2>2. CASE queue' = [queue EXCEPT ![at] = Append(queue[at], c)] /\ at \in Stops /\ MineNow(at, c)
    <3>1. FineNow(at, Append(queue[at], c))
      BY <2>2, FilesNow, FineParts
    <3> QED
      BY <1>1, <2>2, <3>1, FilesNow
  <2> QED
    BY <1>3, <2>1, <2>2
<1>5. /\ pass' \in [at : Stops \cup {None}, to : {"queue", "own"}, moved : 0..Limit,
                    held : Copy \cup {NoCopy}, acking : BOOLEAN, declined : Seq(Copy)]
      /\ passes' \in 0..MaxPasses
      /\ pass'.at = None => pass' = NoPass
      /\ pass'.acking => pass'.held # NoCopy
      /\ pass'.held # NoCopy => pass'.moved < Limit
  BY <1>1 DEF Sound, TypeOK, Passing
<1>6. /\ pass'.at \in Stops => FineNow(pass'.at, pass'.declined)
      /\ pass'.at \in Stops /\ pass'.held # NoCopy => MineNow(pass'.at, pass'.held)
  <2>1. /\ \A j \in Stops : \A d : Mine(j, d) => MineNow(j, d)
        /\ \A j \in Stops : \A s : Fine(j, s) => FineNow(j, s)
    BY MineStays DEF Sound
  <2> QED
    BY <1>1, <2>1 DEF Sound, Copies
<1> QED
  BY <1>1, <1>2, <1>4, <1>5, <1>6, SoundAside

\* What a replay holds.
LEMMA Held ==
  ASSUME Sound, [Next]_vars, pass.at # None
  PROVE  /\ pass.at \in Stops /\ FineNow(pass.at, pass.declined)
         /\ pass.held \in Copy \cup {NoCopy} /\ pass.declined \in Seq(Copy)
         /\ pass.held # NoCopy => MineNow(pass.at, pass.held) /\ pass.held \in Copy /\ pass.held.run \in Runs
         /\ FineNow(pass.at, Unsettled)
<1>1. /\ \A j \in Stops : \A d : Mine(j, d) => MineNow(j, d)
      /\ \A j \in Stops : \A s : Fine(j, s) => FineNow(j, s)
  BY MineStays DEF Sound
<1>2. pass.at \in Stops /\ pass.held \in Copy \cup {NoCopy} /\ pass.declined \in Seq(Copy)
  BY DEF Sound, TypeOK
<1>3. FineNow(pass.at, pass.declined) /\ (pass.held # NoCopy => MineNow(pass.at, pass.held))
  BY <1>1, <1>2 DEF Sound, Copies
<1>4. FineNow(pass.at, Unsettled)
  <2>1. FineNow(pass.at, IF pass.held = NoCopy THEN <<>> ELSE <<pass.held>>)
    BY <1>3, FineParts
  <2> QED
    BY <1>3, <2>1, FineParts DEF Unsettled
<1> QED
  BY <1>2, <1>3, <1>4, CopyIs

\* What a pass may be.
Pass == [at : Stops \cup {None}, to : {"queue", "own"}, moved : 0..Limit,
         held : Copy \cup {NoCopy}, acking : BOOLEAN, declined : Seq(Copy)]

\* A step of the replay, which leaves the runs' history alone.
LEMMA SoundPass ==
  ASSUME Sound, [Next]_vars,
         UNCHANGED <<setup, life, up, hand, pc, asked, started, done, counted>>,
         queue' \in Files, dead' \in Files,
         \A j \in Stops : FineNow(j, queue'[j]) /\ FineNow(j, dead'[j]),
         pass' \in Pass, passes' \in 0..MaxPasses,
         \/ pass' = NoPass
         \/ /\ pass'.at \in Stops /\ FineNow(pass'.at, pass'.declined)
            /\ pass'.held # NoCopy => MineNow(pass'.at, pass'.held)
            /\ pass'.acking => pass'.held # NoCopy
            /\ pass'.held # NoCopy => pass'.moved < Limit,
         excuses' \in [Runs -> 0..MaxCount], faults' \in 0..MaxFaults
  PROVE  Sound'
<1>1. None \notin Stops
  BY RoutingSlipAssumption
<1>2. /\ pass'.at = None => pass' = NoPass
      /\ pass'.acking => pass'.held # NoCopy
      /\ pass'.held # NoCopy => pass'.moved < Limit
      /\ pass'.at \in Stops => FineNow(pass'.at, pass'.declined)
      /\ pass'.at \in Stops /\ pass'.held # NoCopy => MineNow(pass'.at, pass'.held)
  <2>1. CASE pass' = NoPass
    BY <1>1, <2>1 DEF NoPass
  <2>2. CASE pass' # NoPass
    BY <1>1, <2>2
  <2> QED
    BY <2>1, <2>2
<1>3. started' \subseteq asked' /\ asked' \subseteq Runs
  BY DEF Sound, TypeOK
<1> QED
  BY <1>2, <1>3, SoundAside DEF Pass

\* A replay begins with nothing in hand.
LEMMA SoundReplays ==
  ASSUME Sound, [Next]_vars, NEW i \in Stops, NEW to \in {"queue", "own"}, Replays(i, to)
  PROVE  Sound'
<1>1. /\ UNCHANGED <<setup, life, up, hand, pc, asked, started, done, counted, queue, dead, excuses, faults>>
      /\ passes' = passes + 1 /\ passes < MaxPasses
      /\ pass' = [at |-> i, to |-> to, moved |-> 0, held |-> NoCopy, acking |-> FALSE, declined |-> <<>>]
  BY DEF Replays, NoPass, pipe, broker, stops, history
<1>2. pass' \in Pass
  BY <1>1, RoutingSlipAssumption DEF Pass
<1>3. passes' \in 0..MaxPasses /\ excuses' \in [Runs -> 0..MaxCount] /\ faults' \in 0..MaxFaults
  BY <1>1, RoutingSlipAssumption DEF Sound, TypeOK
<1>4. /\ queue' \in Files /\ dead' \in Files
      /\ \A j \in Stops : FineNow(j, queue'[j]) /\ FineNow(j, dead'[j])
  BY <1>1, FilesNow
<1>5. /\ pass'.at \in Stops /\ FineNow(pass'.at, pass'.declined)
      /\ pass'.held # NoCopy => MineNow(pass'.at, pass'.held)
      /\ pass'.acking => pass'.held # NoCopy
      /\ pass'.held # NoCopy => pass'.moved < Limit
  BY <1>1, FineParts
<1>6. UNCHANGED <<setup, life, up, hand, pc, asked, started, done, counted>>
  BY <1>1
<1> QED
  BY <1>2, <1>3, <1>4, <1>5, <1>6, SoundPass

\* It reads a dead letter of the stop it was called for, within its limit.
LEMMA SoundPulls ==
  ASSUME Sound, [Next]_vars, Pulls
  PROVE  Sound'
<1> DEFINE c == Head(dead[pass.at])
           t == Tail(dead[pass.at])
<1>1. /\ UNCHANGED <<setup, life, up, hand, pc, asked, started, done, counted, queue, passes, excuses, faults>>
      /\ pass.at # None /\ pass.held = NoCopy /\ dead[pass.at] # <<>> /\ pass.moved < Limit
      /\ dead' = [dead EXCEPT ![pass.at] = t]
      /\ pass' = [pass EXCEPT !.declined = Append(@, c)] \/ pass' = [pass EXCEPT !.held = c]
  BY DEF Pulls, Reading, pipe, stops, history
<1>2. /\ pass.at \in Stops /\ FineNow(pass.at, pass.declined)
      /\ pass.acking = FALSE /\ pass \in Pass
  BY <1>1, Held DEF Sound, TypeOK, Passing, Pass
<1>3. MineNow(pass.at, c) /\ FineNow(pass.at, t) /\ c \in Copy
  <2>1. FineNow(pass.at, dead[pass.at])
    BY <1>2, FilesNow
  <2>2. MineNow(pass.at, c) /\ FineNow(pass.at, t)
    BY <1>1, <2>1, FineParts
  <2> QED
    BY <2>2 DEF MineNow
<1> HIDE DEF c, t
<1>4. FineNow(pass.at, Append(pass.declined, c)) /\ Append(pass.declined, c) \in Seq(Copy)
  BY <1>2, <1>3, FineParts DEF FineNow
<1>5. /\ queue' \in Files /\ dead' \in Files
      /\ \A j \in Stops : FineNow(j, queue'[j]) /\ FineNow(j, dead'[j])
  BY <1>1, <1>2, <1>3, FilesNow
<1>6. /\ pass' \in Pass /\ pass'.at \in Stops /\ FineNow(pass'.at, pass'.declined)
      /\ pass'.held # NoCopy => MineNow(pass'.at, pass'.held)
      /\ pass'.acking => pass'.held # NoCopy
      /\ pass'.held # NoCopy => pass'.moved < Limit
  <2>1. CASE pass' = [pass EXCEPT !.declined = Append(@, c)]
    BY <1>1, <1>2, <1>4, <2>1 DEF Pass
  <2>2. CASE pass' = [pass EXCEPT !.held = c]
    BY <1>1, <1>2, <1>3, <2>2 DEF Pass
  <2> QED
    BY <1>1, <2>1, <2>2
<1>7. passes' \in 0..MaxPasses /\ excuses' \in [Runs -> 0..MaxCount] /\ faults' \in 0..MaxFaults
  BY <1>1 DEF Sound, TypeOK
<1>8. UNCHANGED <<setup, life, up, hand, pc, asked, started, done, counted>>
  BY <1>1
<1> QED
  BY <1>5, <1>6, <1>7, <1>8, SoundPass

\* It puts the copy back on the queue it came from, with its attempts anew.
LEMMA SoundPublishes ==
  ASSUME Sound, [Next]_vars, Publishes
  PROVE  Sound'
<1>1. /\ UNCHANGED <<setup, life, up, hand, pc, asked, started, done, counted, passes, excuses, faults>>
      /\ pass.held # NoCopy /\ Returns(pass.held)
      /\ pass' = [pass EXCEPT !.acking = TRUE]
  BY DEF Publishes, pipe, stops, history
<1>2. pass.at # None
  BY <1>1 DEF Sound, Passing, NoPass
<1>3. /\ pass.at \in Stops /\ FineNow(pass.at, pass.declined) /\ pass \in Pass
      /\ MineNow(pass.at, pass.held) /\ MineNow(pass.at, Fresh(pass.held))
  BY <1>1, <1>2, Held, AgainIs DEF Sound, TypeOK, Pass
<1>4. /\ queue' \in Files /\ dead' \in Files
      /\ \A j \in Stops : FineNow(j, queue'[j]) /\ FineNow(j, dead'[j])
  <2>1. /\ FineNow(pass.at, Append(queue[pass.at], Fresh(pass.held)))
        /\ FineNow(pass.at, Append(dead[pass.at], Fresh(pass.held)))
    BY <1>3, FilesNow, FineParts
  <2>2. \/ queue' = [queue EXCEPT ![pass.at] = Append(queue[pass.at], Fresh(pass.held))] /\ dead' = dead
        \/ dead' = [dead EXCEPT ![pass.at] = Append(dead[pass.at], Fresh(pass.held))] /\ queue' = queue
    BY <1>1 DEF Returns, Enters
  <2> DEFINE a == pass.at
             s == Append(queue[pass.at], Fresh(pass.held))
             t == Append(dead[pass.at], Fresh(pass.held))
  <2>3. /\ a \in Stops /\ FineNow(a, s) /\ FineNow(a, t)
        /\ \/ queue' = [queue EXCEPT ![a] = s] /\ dead' = dead
           \/ dead' = [dead EXCEPT ![a] = t] /\ queue' = queue
    BY <1>3, <2>1, <2>2
  <2> HIDE DEF a, s, t
  <2>4. CASE queue' = [queue EXCEPT ![a] = s] /\ dead' = dead
    BY <2>3, <2>4, FilesNow
  <2>5. CASE dead' = [dead EXCEPT ![a] = t] /\ queue' = queue
    BY <2>3, <2>5, FilesNow
  <2> QED
    BY <2>3, <2>4, <2>5
<1>5. /\ pass' \in Pass /\ pass'.at = pass.at /\ pass'.declined = pass.declined
      /\ pass'.held = pass.held /\ pass'.moved = pass.moved /\ pass.moved < Limit
  BY <1>1, <1>3 DEF Pass, Sound, Passing
<1>6. passes' \in 0..MaxPasses /\ excuses' \in [Runs -> 0..MaxCount] /\ faults' \in 0..MaxFaults
  BY <1>1 DEF Sound, TypeOK
<1>7. UNCHANGED <<setup, life, up, hand, pc, asked, started, done, counted>>
  BY <1>1
<1>8. /\ pass'.at \in Stops /\ FineNow(pass'.at, pass'.declined)
      /\ pass'.held # NoCopy => MineNow(pass'.at, pass'.held)
      /\ pass'.acking => pass'.held # NoCopy
      /\ pass'.held # NoCopy => pass'.moved < Limit
  BY <1>1, <1>3, <1>5
<1> QED
  BY <1>4, <1>5, <1>6, <1>7, <1>8, SoundPass

\* It settles what it has published and counts it as moved.
LEMMA SoundAcks ==
  ASSUME Sound, [Next]_vars, Acks
  PROVE  Sound'
<1>1. /\ UNCHANGED <<setup, life, up, hand, pc, asked, started, done, counted, queue, dead, passes, excuses, faults>>
      /\ pass.acking /\ pass' = [pass EXCEPT !.held = NoCopy, !.acking = FALSE, !.moved = @ + 1]
  BY DEF Acks, pipe, broker, stops, history
<1>2. pass.at # None
  BY <1>1 DEF Sound, Passing, NoPass
<1>3. pass.at \in Stops /\ FineNow(pass.at, pass.declined) /\ pass \in Pass
  BY <1>2, Held DEF Sound, TypeOK, Pass
<1>4. pass.moved < Limit /\ pass.moved \in 0..Limit
  BY <1>1 DEF Sound, Passing, TypeOK
<1>5. /\ pass' \in Pass /\ pass'.at = pass.at /\ pass'.declined = pass.declined
      /\ pass'.held = NoCopy /\ pass'.acking = FALSE
  <2>1. pass' = [at |-> pass.at, to |-> pass.to, moved |-> pass.moved + 1, held |-> NoCopy,
                 acking |-> FALSE, declined |-> pass.declined]
    BY <1>1, <1>3 DEF Pass
  <2>2. pass.moved + 1 \in 0..Limit
    BY <1>4, RoutingSlipAssumption
  <2> HIDE DEF NoCopy
  <2> QED
    BY <1>3, <2>1, <2>2 DEF Pass
<1>6. passes' \in 0..MaxPasses /\ excuses' \in [Runs -> 0..MaxCount] /\ faults' \in 0..MaxFaults
  BY <1>1 DEF Sound, TypeOK
<1>7. UNCHANGED <<setup, life, up, hand, pc, asked, started, done, counted>>
  BY <1>1
<1>8. /\ pass'.at \in Stops /\ FineNow(pass'.at, pass'.declined)
      /\ pass'.held # NoCopy => MineNow(pass'.at, pass'.held)
      /\ pass'.acking => pass'.held # NoCopy
      /\ pass'.held # NoCopy => pass'.moved < Limit
  BY <1>3, <1>5
<1>9. /\ queue' \in Files /\ dead' \in Files
      /\ \A j \in Stops : FineNow(j, queue'[j]) /\ FineNow(j, dead'[j])
  BY <1>1, FilesNow
<1> QED
  BY <1>5, <1>6, <1>7, <1>8, <1>9, SoundPass

\* However a replay ends, what it held and declined is a dead letter again.
LEMMA SoundEnds ==
  ASSUME Sound, [Next]_vars, Ends \/ RunsOut \/ PassFails
  PROVE  Sound'
<1>1. /\ UNCHANGED <<setup, life, up, hand, pc, asked, started, done, counted, passes>>
      /\ pass.at # None /\ pass' = NoPass
  <2>1. UNCHANGED <<pipe, stops, passes, history>> /\ pass' = NoPass /\ (pass.at # None \/ pass.held # NoCopy)
    BY DEF Ends, RunsOut, HandsBack, PassFails, Reading
  <2>2. pass.at # None
    BY <2>1 DEF Sound, Passing, NoPass
  <2> QED
    BY <2>1, <2>2 DEF pipe, stops, history
<1> DEFINE a == pass.at
           u == Unsettled
<1>2. /\ a \in Stops /\ FineNow(a, u)
      /\ pass.held # NoCopy => MineNow(a, pass.held) /\ pass.held.run \in Runs
  BY <1>1, Held
<1>3. \E s, t : /\ FineNow(a, s) /\ FineNow(a, t)
                /\ dead' = [dead EXCEPT ![a] = s] /\ queue' = [queue EXCEPT ![a] = t]
  <2>1. FineNow(a, dead[a]) /\ FineNow(a, queue[a]) /\ queue \in Files
    BY <1>2, FilesNow
  <2>2. CASE Ends \/ RunsOut
    <3>1. dead' = [dead EXCEPT ![a] = u \o dead[a]] /\ queue' = queue
      BY <2>2 DEF Ends, RunsOut, HandsBack
    <3>2. queue = [queue EXCEPT ![a] = queue[a]]
      BY <2>1 DEF Files
    <3>3. FineNow(a, u \o dead[a])
      BY <1>2, <2>1, FineParts
    <3> HIDE DEF a, u
    <3> QED
      BY <2>1, <3>1, <3>2, <3>3
  <2>3. CASE PassFails
    <3>1. PICK arrived \in BOOLEAN :
            LET copy(to) == IF arrived /\ pass.to = to THEN <<Fresh(pass.held)>> ELSE <<>>
            IN /\ dead' = [dead EXCEPT ![a] = (u \o @) \o copy("own")]
               /\ queue' = [queue EXCEPT ![a] = @ \o copy("queue")]
      BY <2>3 DEF PassFails
    <3> DEFINE copy(to) == IF arrived /\ pass.to = to THEN <<Fresh(pass.held)>> ELSE <<>>
               s == (u \o dead[a]) \o copy("own")
               t == queue[a] \o copy("queue")
    <3>2. dead' = [dead EXCEPT ![a] = s] /\ queue' = [queue EXCEPT ![a] = t]
      BY <3>1
    <3>3. pass.held # NoCopy
      BY <2>3 DEF PassFails
    <3>4. FineNow(a, copy("own")) /\ FineNow(a, copy("queue"))
      BY <1>2, <3>3, AgainIs, FineParts
    <3> HIDE DEF copy
    <3>5. FineNow(a, s) /\ FineNow(a, t)
      BY <1>2, <2>1, <3>4, FineParts
    <3> HIDE DEF s, t, a
    <3> QED
      BY <3>2, <3>5
  <2> QED
    BY <2>2, <2>3
<1>4. /\ queue' \in Files /\ dead' \in Files
      /\ \A j \in Stops : FineNow(j, queue'[j]) /\ FineNow(j, dead'[j])
  <2>1. PICK s, t : /\ FineNow(a, s) /\ FineNow(a, t)
                    /\ dead' = [dead EXCEPT ![a] = s] /\ queue' = [queue EXCEPT ![a] = t]
    BY <1>3
  <2> HIDE DEF a
  <2> QED
    BY <1>2, <2>1, FilesNow
<1>5. passes' \in 0..MaxPasses
  BY <1>1 DEF Sound, TypeOK
<1>6. excuses' \in [Runs -> 0..MaxCount] /\ faults' \in 0..MaxFaults
  <2>1. CASE Ends \/ RunsOut
    BY <2>1 DEF Ends, RunsOut, HandsBack, Sound, TypeOK
  <2>2. CASE PassFails
    <3>1. Fault(pass.held.run) /\ pass.held # NoCopy
      BY <2>2 DEF PassFails
    <3> QED
      BY <1>2, <3>1, FaultIs
  <2> QED
    BY <2>1, <2>2
<1>7. pass' \in Pass
  BY <1>1, RoutingSlipAssumption DEF NoPass, Pass
<1>8. UNCHANGED <<setup, life, up, hand, pc, asked, started, done, counted>> /\ pass' = NoPass
  BY <1>1
<1> QED
  BY <1>4, <1>5, <1>6, <1>7, <1>8, SoundPass

\* A step of the pipeline's own.
LEMMA SoundLife ==
  ASSUME Sound, [Next]_vars,
         UNCHANGED <<setup, queue, dead, hand, pc, pass, passes, asked, started, done, counted, excuses, faults>>,
         up' \subseteq Stops, life' \in {"starting", "open", "closing", "closed"},
         \A i \in Stops : pc[i] # "idle" => i \in up',
         life' = "starting" => \E n \in 0..(LastStop - 1) : up' = 1..n,
         life' = "closed" => up' = {}
  PROVE  Sound'
<1>1. TypeOK'
  BY DEF Sound, TypeOK
<1>2. Copies'
  <2>1. /\ \A j \in Stops : FineNow(j, queue[j]) /\ FineNow(j, dead[j])
        /\ \A j \in Stops : pc[j] # "idle" => MineNow(j, hand[j])
        /\ FineNow(pass.at, pass.declined)
        /\ pass.held # NoCopy => MineNow(pass.at, pass.held)
    <3>1. \A i, c : Mine(i, c) => MineNow(i, c)
      BY DEF Mine, MineNow
    <3>2. \A i, s : Fine(i, s) => FineNow(i, s)
      BY <3>1 DEF Fine, FineNow
    <3> QED
      BY <3>1, <3>2 DEF Sound, Copies
  <2> QED
    BY <2>1, CopiesNow
<1>3. AtWork'
  BY DEF Sound, AtWork, Readable, Stuck, Writable
<1>4. Passing' /\ Living' /\ Unasked'
  BY DEF Sound, Passing, Living, Unasked
<1> QED
  BY <1>1, <1>2, <1>3, <1>4 DEF Sound

\* The pipeline is built stop by stop; nothing is in hand at a stop not built.
LEMMA SoundBuilds ==
  ASSUME Sound, [Next]_vars, StepStarts \/ BuildFails \/ Closes
  PROVE  Sound'
<1>1. UNCHANGED <<setup, queue, dead, hand, pc, pass, passes, asked, started, done, counted, excuses, faults>>
  BY DEF StepStarts, BuildFails, Closes, broker, stops, replays, history
<1>2. up \subseteq Stops /\ \A i \in Stops : pc[i] # "idle" => i \in up
  BY DEF Sound, TypeOK, AtWork
<1>3. CASE StepStarts
  <2>1. PICK n \in 0..(LastStop - 1) : up = 1..n
    BY <1>3 DEF StepStarts, Sound, Living
  <2>2. n \in Int /\ n + 1 \in Stops /\ LastStop \in Nat
    BY RoutingSlipAssumption DEF Stops
  <2>3. Cardinality(up) = n
    <3>1. 1 \in Int /\ Cardinality(1..n) = IF 1 > n THEN 0 ELSE n - 1 + 1
      BY <2>2, FS_Interval
    <3> QED
      BY <2>1, <2>2, <3>1
  <2>4. up' = 1..(n + 1) /\ life' = IF n + 1 = LastStop THEN "open" ELSE "starting"
    <3>1. up' = up \cup {n + 1} /\ life' = IF n + 1 = LastStop THEN "open" ELSE "starting"
      BY <1>3, <2>3 DEF StepStarts
    <3>2. (1..n) \cup {n + 1} = 1..(n + 1)
      BY <2>2
    <3> QED
      BY <2>1, <3>1, <3>2
  <2>5. up' \subseteq Stops /\ \A i \in Stops : pc[i] # "idle" => i \in up'
    BY <1>2, <2>1, <2>2, <2>4 DEF Stops
  <2>6. /\ life' \in {"starting", "open", "closing", "closed"} /\ life' # "closed"
        /\ life' = "starting" => n + 1 \in 0..(LastStop - 1)
    BY <2>2, <2>4 DEF Stops
  <2> QED
    BY <1>1, <2>4, <2>5, <2>6, SoundLife
<1>4. CASE BuildFails \/ Closes
  <2>1. /\ up' = up /\ life' \in {"closing", "closed"}
        /\ life' = "closed" => up' = {}
    BY <1>4 DEF BuildFails, Closes
  <2> QED
    BY <1>1, <1>2, <2>1, SoundLife
<1> QED
  BY <1>3, <1>4

\* A stop closes when it has nothing in hand.
LEMMA SoundCloses ==
  ASSUME Sound, [Next]_vars, NEW i \in Stops, GroupCloses(i)
  PROVE  Sound'
<1>1. /\ UNCHANGED <<setup, queue, dead, hand, pc, pass, passes, asked, started, done, counted, excuses, faults>>
      /\ up' = up \ {i} /\ pc[i] = "idle" /\ life = "closing"
      /\ life' = IF up = {i} THEN "closed" ELSE life
  BY DEF GroupCloses, BeingClosed, broker, stops, replays, history
<1>2. up \subseteq Stops /\ \A j \in Stops : pc[j] # "idle" => j \in up
  BY DEF Sound, TypeOK, AtWork
<1>3. /\ up' \subseteq Stops /\ life' \in {"closing", "closed"}
      /\ \A j \in Stops : pc[j] # "idle" => j \in up'
      /\ life' = "closed" => up' = {}
  BY <1>1, <1>2
<1> QED
  BY <1>1, <1>3, SoundLife

\* Nothing changes.
LEMMA SoundStays ==
  ASSUME Sound, UNCHANGED vars
  PROVE  Sound'
<1>1. UNCHANGED <<setup, life, up, queue, dead, hand, pc, pass, passes, asked, started, done, counted, excuses, faults>>
  BY DEF vars, pipe, broker, stops, replays, history
<1>2. /\ up' \subseteq Stops /\ life' \in {"starting", "open", "closing", "closed"}
      /\ \A i \in Stops : pc[i] # "idle" => i \in up'
      /\ life' = "starting" => \E n \in 0..(LastStop - 1) : up' = 1..n
      /\ life' = "closed" => up' = {}
  BY <1>1 DEF Sound, TypeOK, AtWork, Living
<1> QED
  BY <1>1, <1>2, SoundLife, Zenon

\* It is so before anything is published.
LEMMA InitSound ==
  ASSUME Init
  PROVE  Sound
<1>1. TypeOK
  <2>1. life \in {"starting", "open", "closing", "closed"} /\ up \subseteq Stops
    BY DEF Init
  <2>2. pass \in Pass
    BY RoutingSlipAssumption DEF Init, NoPass, Pass
  <2> QED
    BY <2>1, <2>2, RoutingSlipAssumption DEF Init, TypeOK, Pass
<1>2. \A i : Fine(i, <<>>)
  BY DEF Fine
<1>3. Copies
  BY <1>2 DEF Init, Copies, NoPass
<1>4. AtWork /\ Passing /\ Unasked
  BY DEF Init, AtWork, Passing, Unasked, NoPass
<1>5. Living
  <2>1. 0 \in 0..(LastStop - 1) /\ 1..0 = {}
    BY RoutingSlipAssumption
  <2> QED
    BY <2>1 DEF Init, Living
<1> QED
  BY <1>1, <1>3, <1>4, <1>5 DEF Sound

\* The copies of every run are where they should be, at any time.
LEMMA SoundHolds ==
  Spec => []Sound
<1>1. Init => Sound
  BY InitSound
<1>2. Sound /\ [Next]_vars => Sound'
  <2> SUFFICES ASSUME Sound, [Next]_vars PROVE Sound'
    OBVIOUS
  <2>1. ASSUME NEW r \in Runs, Starts(r) \/ Posts(r) \/ StartRefused(r) \/ StartFails(r) PROVE Sound'
    BY <2>1, SoundSends
  <2>2. CASE StepStarts \/ BuildFails \/ Closes
    BY <2>2, SoundBuilds
  <2>3. ASSUME NEW i \in Stops, GroupCloses(i) PROVE Sound'
    BY <2>3, SoundCloses
  <2>4. ASSUME NEW i \in Stops, Takes(i) \/ Travels(i) \/ Crashes(i) PROVE Sound'
    <3>1. CASE Takes(i)
      BY <3>1, SoundTakes
    <3>2. CASE Refuses(i) \/ StepFails(i)
      BY <3>2, SoundVerdicts
    <3>3. CASE EndsEarly(i)
      BY <3>3, SoundEndsEarly
    <3>4. CASE StepDone(i)
      BY <3>4, SoundStepDone
    <3>5. CASE Hops(i)
      BY <3>5, SoundHops
    <3>6. CASE HopFails(i)
      BY <3>6, SoundHopFails
    <3>7. CASE Settles(i) \/ Crashes(i)
      BY <3>7, SoundLets
    <3> QED
      BY <2>4, <3>1, <3>2, <3>3, <3>4, <3>5, <3>6, <3>7 DEF Travels
  <2>5. ASSUME NEW i \in Stops, NEW to \in {"queue", "own"}, Replays(i, to) PROVE Sound'
    BY <2>5, SoundReplays
  <2>6. CASE Passes \/ RunsOut
    BY <2>6, SoundPulls, SoundPublishes, SoundAcks, SoundEnds DEF Passes
  <2>7. CASE UNCHANGED vars
    BY <2>7, SoundStays
  <2> QED
    BY <2>1, <2>2, <2>3, <2>4, <2>5, <2>6, <2>7 DEF Next
<1> QED
  BY <1>1, <1>2, PTL DEF Spec
-----------------------------------------------------------------------------
(* What is ahead of a run, and what was done for it *)

NowNext == [q |-> queue', d |-> dead', h |-> hand', c |-> pc', p |-> pass']

\* What is counted over is of the type it is counted by.
LEMMA StateIs ==
  (Sound => Now \in State) /\ (Sound' => NowNext \in State)
<1>1. ASSUME Sound PROVE Now \in State
  <2>1. /\ queue \in [Stops -> Seq(Copy)] /\ dead \in [Stops -> Seq(Copy)]
        /\ hand \in [Stops -> Copy \cup {NoCopy}]
        /\ pc \in [Stops -> {"idle", "working", "hopping", "settling"}]
        /\ pass \in [at : Stops \cup {None}, to : {"queue", "own"}, moved : 0..Limit,
                     held : Copy \cup {NoCopy}, acking : BOOLEAN, declined : Seq(Copy)]
    BY <1>1 DEF Sound, TypeOK
  <2> QED
    BY <2>1 DEF Now, State
<1>2. ASSUME Sound' PROVE NowNext \in State
  <2>1. /\ queue' \in [Stops -> Seq(Copy)] /\ dead' \in [Stops -> Seq(Copy)]
        /\ hand' \in [Stops -> Copy \cup {NoCopy}]
        /\ pc' \in [Stops -> {"idle", "working", "hopping", "settling"}]
        /\ pass' \in [at : Stops \cup {None}, to : {"queue", "own"}, moved : 0..Limit,
                     held : Copy \cup {NoCopy}, acking : BOOLEAN, declined : Seq(Copy)]
    BY <1>2 DEF Sound, TypeOK
  <2> QED
    BY <2>1 DEF NowNext, State
<1> QED
  BY <1>1, <1>2

One(b) == IF b THEN 1 ELSE 0

\* A step of the consumer at one stop.
LEMMA AtStop ==
  ASSUME NEW st \in State, NEW to \in State, NEW x \in Stops, to.p = st.p,
         \A y \in Stops \ {x} : /\ to.q[y] = st.q[y] /\ to.d[y] = st.d[y]
                                /\ to.h[y] = st.h[y] /\ to.c[y] = st.c[y],
         NEW r, NEW k \in Places
  PROVE  /\ Ahead(st, r, k) \in Nat /\ Ahead(to, r, k) \in Nat
         /\ CountOf(st.q[x], r) \in Nat /\ CountOf(to.q[x], r) \in Nat
         /\ CountOf(st.d[x], r) \in Nat /\ CountOf(to.d[x], r) \in Nat
         /\ x <= k => Ahead(to, r, k) = Ahead(st, r, k)
                        + (CountOf(to.q[x], r) - CountOf(st.q[x], r))
                        + (CountOf(to.d[x], r) - CountOf(st.d[x], r))
                        + (One(Bears(to, r, k, x)) - One(Bears(st, r, k, x)))
         /\ ~(x <= k) => Ahead(to, r, k) = Ahead(st, r, k)
<1>1. /\ Ahead(st, r, k) \in Nat /\ Ahead(to, r, k) \in Nat
      /\ Ahead(to, r, k) = Ahead(st, r, k)
              + (IF x <= k THEN Here(to, r, k, x) - Here(st, r, k, x) ELSE 0)
  BY AheadChange
<1>2. /\ CountOf(st.q[x], r) \in Nat /\ CountOf(to.q[x], r) \in Nat
      /\ CountOf(st.d[x], r) \in Nat /\ CountOf(to.d[x], r) \in Nat
      /\ InPass(st, r) \in Nat /\ InPass(to, r) = InPass(st, r)
  BY HereNat DEF InPass
<1>3. /\ Here(st, r, k, x) = CountOf(st.q[x], r) + CountOf(st.d[x], r) + One(Bears(st, r, k, x))
              + (IF st.p.at = x THEN InPass(st, r) ELSE 0)
      /\ Here(to, r, k, x) = CountOf(to.q[x], r) + CountOf(to.d[x], r) + One(Bears(to, r, k, x))
              + (IF st.p.at = x THEN InPass(st, r) ELSE 0)
  BY <1>2 DEF Here, One
<1>4. One(Bears(st, r, k, x)) \in Nat /\ One(Bears(to, r, k, x)) \in Nat
  BY DEF One
<1> QED
  BY <1>1, <1>2, <1>3, <1>4

\* A step of the replay.
LEMMA AtPass ==
  ASSUME NEW st \in State, NEW to \in State, NEW x \in Stops,
         st.p.at \in {x, None}, st.p.at = None => st.p = NoPass,
         to.p.at \in {x, None}, to.p.at = None => to.p = NoPass,
         SameBut(st.q, to.q, x), SameBut(st.d, to.d, x),
         to.h = st.h, to.c = st.c,
         NEW r \in Runs, NEW k \in Places
  PROVE  /\ Ahead(st, r, k) \in Nat /\ Ahead(to, r, k) \in Nat
         /\ CountOf(st.q[x], r) \in Nat /\ CountOf(to.q[x], r) \in Nat
         /\ CountOf(st.d[x], r) \in Nat /\ CountOf(to.d[x], r) \in Nat
         /\ InPass(st, r) \in Nat /\ InPass(to, r) \in Nat
         /\ x <= k => Ahead(to, r, k) = Ahead(st, r, k)
                        + (CountOf(to.q[x], r) - CountOf(st.q[x], r))
                        + (CountOf(to.d[x], r) - CountOf(st.d[x], r))
                        + (InPass(to, r) - InPass(st, r))
         /\ ~(x <= k) => Ahead(to, r, k) = Ahead(st, r, k)
<1>1. /\ Ahead(st, r, k) \in Nat /\ Ahead(to, r, k) \in Nat
      /\ Ahead(to, r, k) = Ahead(st, r, k)
              + (IF x <= k THEN Here(to, r, k, x) - Here(st, r, k, x) ELSE 0)
  <2>1. \A y \in Stops \ {x} : /\ to.q[y] = st.q[y] /\ to.d[y] = st.d[y]
                               /\ to.h[y] = st.h[y] /\ to.c[y] = st.c[y]
    BY DEF SameBut
  <2>2. to.p = st.p \/ (st.p.at \in {x, None} /\ to.p.at \in {x, None})
    OBVIOUS
  <2> QED
    BY <2>1, <2>2, AheadChange
<1>2. /\ CountOf(st.q[x], r) \in Nat /\ CountOf(to.q[x], r) \in Nat
      /\ CountOf(st.d[x], r) \in Nat /\ CountOf(to.d[x], r) \in Nat
      /\ InPass(st, r) \in Nat /\ InPass(to, r) \in Nat
  BY HereNat
<1>3. \A s : s.p = NoPass => InPass(s, r) = 0
  <2> SUFFICES ASSUME NEW s, s.p = NoPass PROVE InPass(s, r) = 0
    OBVIOUS
  <2>1. s.p.declined = <<>> /\ s.p.held.run = None
    BY DEF NoPass, NoCopy
  <2>2. CountOf(<<>>, r) = 0
    <3>1. InLine(<<>>, r) = {}
      BY DEF InLine
    <3> QED
      BY <3>1, FS_EmptySet DEF CountOf
  <2>3. r # None
    BY RoutingSlipAssumption
  <2> QED
    BY <2>1, <2>2, <2>3 DEF InPass
<1>4. x # None /\ (Bears(to, r, k, x) <=> Bears(st, r, k, x))
  BY RoutingSlipAssumption DEF Bears
<1>5. /\ Here(st, r, k, x) = CountOf(st.q[x], r) + CountOf(st.d[x], r) + One(Bears(st, r, k, x)) + InPass(st, r)
      /\ Here(to, r, k, x) = CountOf(to.q[x], r) + CountOf(to.d[x], r) + One(Bears(st, r, k, x)) + InPass(to, r)
  BY <1>2, <1>3, <1>4 DEF Here, One
<1>6. One(Bears(st, r, k, x)) \in Nat
  BY DEF One
<1> QED
  BY <1>1, <1>2, <1>5, <1>6

\* How often the work of stop k was done, or the run was counted.
Times(r, k) == IF k = LastStop + 1 THEN counted[r] ELSE done[r][k]

Due(r, k) == Ahead(Now, r, k)

Earned(r, k) == excuses[r] = MaxCount \/ Times(r, k) + Due(r, k) <= 1 + excuses[r]

\* What was done for a run and what is ahead of it are one, and one more at most for each
\* thing that went wrong.
Balanced ==
  \A r \in Runs :
    /\ r \in started => Due(r, LastStop + 1) + counted[r] > 0
    /\ \A k \in Places : k = LastStop + 1 \/ ~Stuck(r) => Earned(r, k)

TimesNext(r, k) == IF k = LastStop + 1 THEN counted'[r] ELSE done'[r][k]

DueNext(r, k) == Ahead(NowNext, r, k)

Even(r, k) ==
  /\ excuses'[r] = excuses[r]
  /\ TimesNext(r, k) + DueNext(r, k) <= Times(r, k) + Due(r, k)

Excused(r, k) ==
  /\ excuses'[r] = More(excuses[r])
  /\ TimesNext(r, k) = Times(r, k) /\ DueNext(r, k) <= Due(r, k) + 1

\* A step that does not put a run in the wrong.
Squares(r) ==
  /\ \A k \in Places : k = LastStop + 1 \/ ~Stuck(r) => Even(r, k) \/ Excused(r, k)
  /\ \/ counted'[r] > 0
     \/ counted'[r] = counted[r] /\ DueNext(r, LastStop + 1) >= Due(r, LastStop + 1)
     \/ r \notin started'

\* A step that sets a run off, or fails to.
Begins(r) ==
  /\ \A k \in Places : TimesNext(r, k) = 0 /\ DueNext(r, k) <= 1
  /\ r \in started' => DueNext(r, LastStop + 1) > 0

\* What a step leaves ahead, and done, is the same counted of the next state.
LEMMA NextIs ==
  ASSUME NEW r, NEW k
  PROVE  Due(r, k)' = DueNext(r, k) /\ Times(r, k)' = TimesNext(r, k)
BY DEF Due, DueNext, Times, TimesNext, Now, NowNext

\* All that is compared is a number.
LEMMA Numbers ==
  ASSUME Sound, Sound', NEW r \in Runs, NEW k \in Places
  PROVE  /\ Times(r, k) \in 0..MaxCount /\ TimesNext(r, k) \in 0..MaxCount
         /\ Due(r, k) \in Nat /\ DueNext(r, k) \in Nat
         /\ excuses[r] \in 0..MaxCount /\ excuses'[r] \in 0..MaxCount
<1>1. Now \in State /\ NowNext \in State
  BY StateIs
<1>2. 1 \in Stops /\ (k = LastStop + 1 \/ k \in Stops)
  BY RoutingSlipAssumption DEF Places, Stops
<1>3. Due(r, k) \in Nat /\ DueNext(r, k) \in Nat
  <2>1. ASSUME NEW st \in State PROVE Ahead(st, r, k) \in Nat
    BY <1>2, AtStop
  <2> QED
    BY <1>1, <2>1 DEF Due, DueNext
<1>4. Times(r, k) \in 0..MaxCount
  BY <1>2 DEF Times, Sound, TypeOK
<1>5. TimesNext(r, k) \in 0..MaxCount
  BY <1>2 DEF TimesNext, Sound, TypeOK
<1> QED
  BY <1>3, <1>4, <1>5 DEF Sound, TypeOK

\* A step keeps the balance if each run is begun by it or comes out square.
LEMMA BalanceKept ==
  ASSUME Sound, Sound', Balanced, setup' = setup,
         \A r \in Runs : Begins(r) \/ (Squares(r) /\ (r \in started' => r \in started))
  PROVE  Balanced'
<1> SUFFICES ASSUME NEW r \in Runs
             PROVE  /\ r \in started' => Due(r, LastStop + 1)' + counted'[r] > 0
                    /\ \A k \in Places : k = LastStop + 1 \/ ~Stuck(r) => Earned(r, k)'
  BY DEF Balanced, Stuck, Writable
<1>1. LastStop + 1 \in Places /\ MaxCount \in Nat /\ counted'[r] \in Nat /\ counted[r] \in Nat
  BY RoutingSlipAssumption DEF Places, Sound, TypeOK
<1>2. Due(r, LastStop + 1) \in Nat /\ DueNext(r, LastStop + 1) \in Nat
  BY <1>1, Numbers
<1>3. r \in started' => Due(r, LastStop + 1)' + counted'[r] > 0
  BY <1>1, <1>2, NextIs DEF Squares, Balanced, Begins
<1>4. ASSUME NEW k \in Places, k = LastStop + 1 \/ ~Stuck(r) PROVE Earned(r, k)'
  <2>1. /\ Times(r, k) \in Nat /\ TimesNext(r, k) \in Nat /\ Due(r, k) \in Nat /\ DueNext(r, k) \in Nat
        /\ excuses[r] \in 0..MaxCount
    BY <1>1, Numbers
  <2>2. CASE Begins(r)
    <3>1. excuses'[r] \in Nat /\ TimesNext(r, k) = 0 /\ DueNext(r, k) <= 1
      BY <1>1, <2>2, Numbers DEF Begins
    <3> QED
      BY <2>1, <3>1, NextIs DEF Earned
  <2>3. CASE Squares(r)
    <3>1. Earned(r, k) /\ (Even(r, k) \/ Excused(r, k))
      BY <1>4, <2>3 DEF Balanced, Squares
    <3>2. More(excuses[r]) = IF excuses[r] < MaxCount THEN excuses[r] + 1 ELSE MaxCount
      BY <2>1, MoreIs
    <3>3. excuses'[r] = MaxCount \/ TimesNext(r, k) + DueNext(r, k) <= 1 + excuses'[r]
      BY <1>1, <2>1, <3>1, <3>2 DEF Earned, Even, Excused
    <3> QED
      BY <3>3, NextIs DEF Earned
  <2> QED
    BY <2>2, <2>3
<1> QED
  BY <1>3, <1>4

\* A step that does no work for a run.
LEMMA SquareOf ==
  ASSUME Sound, Sound', NEW r \in Runs, counted'[r] = counted[r], done'[r] = done[r],
         \/ /\ excuses'[r] = excuses[r]
            /\ \A k \in Places : DueNext(r, k) = Due(r, k)
         \/ /\ excuses'[r] = More(excuses[r])
            /\ \A k \in Places : Due(r, k) <= DueNext(r, k) /\ DueNext(r, k) <= Due(r, k) + 1
  PROVE  Squares(r)
<1>1. LastStop + 1 \in Places
  BY RoutingSlipAssumption DEF Places
<1>2. \A k \in Places : TimesNext(r, k) = Times(r, k)
  BY DEF TimesNext, Times
<1>3. ASSUME NEW k \in Places PROVE Even(r, k) \/ Excused(r, k)
  <2>1. Times(r, k) \in Nat /\ Due(r, k) \in Nat /\ DueNext(r, k) \in Nat
    BY Numbers, RoutingSlipAssumption
  <2> QED
    BY <1>2, <2>1 DEF Even, Excused
<1>4. DueNext(r, LastStop + 1) >= Due(r, LastStop + 1)
  <2>1. Due(r, LastStop + 1) \in Nat /\ DueNext(r, LastStop + 1) \in Nat
    BY <1>1, Numbers
  <2> QED
    BY <1>1, <2>1
<1> QED
  BY <1>3, <1>4 DEF Squares

\* A delivery still has the work of stop k before it, and after a step.
Bearing(r, k, x) ==
  hand[x].run = r /\ (pc[x] = "working" \/ (pc[x] = "hopping" /\ x # k))

BearingNext(r, k, x) ==
  hand'[x].run = r /\ (pc'[x] = "working" \/ (pc'[x] = "hopping" /\ x # k))

\* What a step at one stop makes of what is ahead.
LEMMA DueAtStop ==
  ASSUME Sound, Sound', NEW i \in Stops, pass' = pass,
         SameBut(queue, queue', i), SameBut(dead, dead', i),
         SameBut(hand, hand', i), SameBut(pc, pc', i),
         NEW r \in Runs, NEW k \in Places
  PROVE  /\ Due(r, k) \in Nat /\ DueNext(r, k) \in Nat
         /\ CountOf(queue[i], r) \in Nat /\ CountOf(queue'[i], r) \in Nat
         /\ CountOf(dead[i], r) \in Nat /\ CountOf(dead'[i], r) \in Nat
         /\ i <= k => DueNext(r, k) = Due(r, k)
                        + (CountOf(queue'[i], r) - CountOf(queue[i], r))
                        + (CountOf(dead'[i], r) - CountOf(dead[i], r))
                        + (One(BearingNext(r, k, i)) - One(Bearing(r, k, i)))
         /\ ~(i <= k) => DueNext(r, k) = Due(r, k)
<1> DEFINE st == Now
           to == NowNext
<1>1. st \in State /\ to \in State
  BY StateIs
<1>2. /\ st.q = queue /\ st.d = dead /\ st.h = hand /\ st.c = pc /\ st.p = pass
      /\ to.q = queue' /\ to.d = dead' /\ to.h = hand' /\ to.c = pc' /\ to.p = pass'
  BY DEF Now, NowNext
<1>3. \A y \in Stops \ {i} : /\ to.q[y] = st.q[y] /\ to.d[y] = st.d[y]
                             /\ to.h[y] = st.h[y] /\ to.c[y] = st.c[y]
  BY <1>2 DEF SameBut
<1>4. /\ Bears(st, r, k, i) <=> Bearing(r, k, i)
      /\ Bears(to, r, k, i) <=> BearingNext(r, k, i)
  BY <1>2 DEF Bears, Bearing, BearingNext
<1>5. to.p = st.p
  BY <1>2
<1> HIDE DEF st, to
<1>6. /\ Ahead(st, r, k) \in Nat /\ Ahead(to, r, k) \in Nat
      /\ CountOf(st.q[i], r) \in Nat /\ CountOf(to.q[i], r) \in Nat
      /\ CountOf(st.d[i], r) \in Nat /\ CountOf(to.d[i], r) \in Nat
      /\ i <= k => Ahead(to, r, k) = Ahead(st, r, k)
                        + (CountOf(to.q[i], r) - CountOf(st.q[i], r))
                        + (CountOf(to.d[i], r) - CountOf(st.d[i], r))
                        + (One(Bears(to, r, k, i)) - One(Bears(st, r, k, i)))
      /\ ~(i <= k) => Ahead(to, r, k) = Ahead(st, r, k)
  BY <1>1, <1>3, <1>5, AtStop
<1>7. Due(r, k) = Ahead(st, r, k) /\ DueNext(r, k) = Ahead(to, r, k)
  BY DEF Due, DueNext, st, to
<1>8. One(Bears(st, r, k, i)) = One(Bearing(r, k, i)) /\ One(Bears(to, r, k, i)) = One(BearingNext(r, k, i))
  BY <1>4 DEF One
<1> QED
  BY <1>2, <1>6, <1>7, <1>8

\* A consumer is given a message.
LEMMA SquareTakes ==
  ASSUME Sound, Sound', [Next]_vars, NEW i \in Stops, Takes(i), NEW r \in Runs
  PROVE  Squares(r)
<1> DEFINE c == Head(queue[i])
<1>1. /\ queue' = [queue EXCEPT ![i] = Tail(queue[i])] /\ dead' = dead
      /\ hand' = [hand EXCEPT ![i] = c] /\ pc' = [pc EXCEPT ![i] = "working"]
      /\ pc[i] = "idle" /\ queue[i] # <<>>
      /\ UNCHANGED <<pass, started, done, counted, excuses>>
  BY DEF Takes, pipe, replays, history
<1>2. /\ SameBut(queue, queue', i) /\ SameBut(dead, dead', i)
      /\ SameBut(hand, hand', i) /\ SameBut(pc, pc', i)
      /\ queue'[i] = Tail(queue[i]) /\ hand'[i] = c /\ pc'[i] = "working" /\ pass' = pass
  BY <1>1 DEF SameBut, Sound, TypeOK
<1>3. queue[i] \in Seq(Copy)
  BY DEF Sound, TypeOK
<1>4. CountOf(queue'[i], r) = CountOf(queue[i], r) - One(c.run = r)
  BY <1>1, <1>2, <1>3, CountEnds DEF One
<1> HIDE DEF c
<1>5. ASSUME NEW k \in Places PROVE DueNext(r, k) = Due(r, k) /\ Due(r, k) \in Nat
  <2>1. ~Bearing(r, k, i) /\ (BearingNext(r, k, i) <=> c.run = r)
    BY <1>1, <1>2 DEF Bearing, BearingNext
  <2>2. One(Bearing(r, k, i)) = 0 /\ One(BearingNext(r, k, i)) = One(c.run = r) /\ One(c.run = r) \in Nat
    BY <2>1 DEF One
  <2>3. /\ Due(r, k) \in Nat /\ DueNext(r, k) \in Nat
        /\ CountOf(queue[i], r) \in Nat /\ CountOf(queue'[i], r) \in Nat
        /\ CountOf(dead[i], r) \in Nat /\ CountOf(dead'[i], r) \in Nat
        /\ i <= k => DueNext(r, k) = Due(r, k)
                       + (CountOf(queue'[i], r) - CountOf(queue[i], r))
                       + (CountOf(dead'[i], r) - CountOf(dead[i], r))
                       + (One(BearingNext(r, k, i)) - One(Bearing(r, k, i)))
        /\ ~(i <= k) => DueNext(r, k) = Due(r, k)
    BY <1>2, DueAtStop
  <2>4. dead'[i] = dead[i]
    BY <1>1
  <2> QED
    BY <1>4, <2>2, <2>3, <2>4
<1> QED
  BY <1>1, <1>5, SquareOf

\* A consumer that is done with its delivery: what went into the queue and the dead
\* letters is ahead again, unless the delivery's own work was ahead.
LEMMA DueIdle ==
  ASSUME Sound, Sound', NEW i \in Stops, pass' = pass, Idle(i),
         SameBut(queue, queue', i), SameBut(dead, dead', i),
         NEW r \in Runs, NEW n \in Nat,
         CountOf(queue'[i], r) + CountOf(dead'[i], r) = CountOf(queue[i], r) + CountOf(dead[i], r) + n,
         NEW k \in Places
  PROVE  /\ Due(r, k) \in Nat /\ DueNext(r, k) \in Nat
         /\ i <= k => DueNext(r, k) = Due(r, k) + n - One(Bearing(r, k, i))
         /\ ~(i <= k) => DueNext(r, k) = Due(r, k)
<1>1. SameBut(hand, hand', i) /\ SameBut(pc, pc', i) /\ pc'[i] = "idle"
  BY DEF Idle, SameBut, Sound, TypeOK
<1>2. /\ Due(r, k) \in Nat /\ DueNext(r, k) \in Nat
      /\ CountOf(queue[i], r) \in Nat /\ CountOf(queue'[i], r) \in Nat
      /\ CountOf(dead[i], r) \in Nat /\ CountOf(dead'[i], r) \in Nat
      /\ i <= k => DueNext(r, k) = Due(r, k)
                     + (CountOf(queue'[i], r) - CountOf(queue[i], r))
                     + (CountOf(dead'[i], r) - CountOf(dead[i], r))
                     + (One(BearingNext(r, k, i)) - One(Bearing(r, k, i)))
      /\ ~(i <= k) => DueNext(r, k) = Due(r, k)
  BY <1>1, DueAtStop
<1>3. One(BearingNext(r, k, i)) = 0 /\ One(Bearing(r, k, i)) \in Nat
  BY <1>1 DEF One, BearingNext
<1> QED
  BY <1>2, <1>3

\* reject() and retry() leave one copy.
LEMMA VerdictIs ==
  ASSUME Sound, [Next]_vars, NEW i \in Stops, pc[i] # "idle", Rejected(i) \/ Retried(i), NEW r \in Runs
  PROVE  /\ Idle(i) /\ SameBut(queue, queue', i) /\ SameBut(dead, dead', i)
         /\ One(hand[i].run = r) \in Nat
         /\ CountOf(queue'[i], r) + CountOf(dead'[i], r)
              = CountOf(queue[i], r) + CountOf(dead[i], r) + One(hand[i].run = r)
<1>1. /\ hand[i] \in Copy /\ MineNow(i, hand[i])
      /\ queue \in [Stops -> Seq(Copy)] /\ dead \in [Stops -> Seq(Copy)]
  BY InHand DEF Sound, TypeOK
<1>2. /\ CountOf(queue[i], r) \in Nat /\ CountOf(dead[i], r) \in Nat /\ One(hand[i].run = r) \in Nat
  BY <1>1, CountIs DEF One
<1>3. CASE Rejected(i)
  <2>1. dead' = [dead EXCEPT ![i] = Append(dead[i], hand[i])] /\ queue' = queue /\ Idle(i)
    BY <1>3 DEF Rejected
  <2>2. CountOf(Append(dead[i], hand[i]), r) = CountOf(dead[i], r) + One(hand[i].run = r)
    BY <1>1, CountEnds DEF One
  <2>3. dead'[i] = Append(dead[i], hand[i]) /\ queue'[i] = queue[i]
    BY <1>1, <2>1
  <2> QED
    BY <1>1, <1>2, <2>1, <2>2, <2>3 DEF SameBut
<1>4. CASE Retried(i) /\ hand[i].attempt < MaxAttempts
  <2> DEFINE c == Further(hand[i])
  <2>1. queue' = [queue EXCEPT ![i] = Append(queue[i], c)] /\ dead' = dead /\ Idle(i)
    BY <1>4 DEF Retried, Enters
  <2>2. c \in Copy /\ c.run = hand[i].run
    BY <1>1, <1>4, AgainIs
  <2> HIDE DEF c
  <2>3. CountOf(Append(queue[i], c), r) = CountOf(queue[i], r) + One(hand[i].run = r)
    BY <1>1, <2>2, CountEnds DEF One
  <2>4. queue'[i] = Append(queue[i], c) /\ dead'[i] = dead[i]
    BY <1>1, <2>1
  <2> QED
    BY <1>1, <1>2, <2>1, <2>3, <2>4 DEF SameBut
<1> QED
  BY <1>3, <1>4 DEF Retried

\* A copy refused or failed stays ahead of the same work.
LEMMA SquareVerdicts ==
  ASSUME Sound, Sound', [Next]_vars, NEW i \in Stops, Refuses(i) \/ StepFails(i), NEW r \in Runs
  PROVE  Squares(r)
<1>1. /\ pc[i] = "working" /\ (Rejected(i) \/ Retried(i))
      /\ UNCHANGED <<pass, started, done, counted, excuses>>
  BY DEF Refuses, StepFails, pipe, replays, history, Undisturbed
<1>2. /\ Idle(i) /\ SameBut(queue, queue', i) /\ SameBut(dead, dead', i)
      /\ One(hand[i].run = r) \in Nat
      /\ CountOf(queue'[i], r) + CountOf(dead'[i], r)
           = CountOf(queue[i], r) + CountOf(dead[i], r) + One(hand[i].run = r)
  BY <1>1, VerdictIs
<1>3. ASSUME NEW k \in Places PROVE DueNext(r, k) = Due(r, k)
  <2>1. /\ Due(r, k) \in Nat /\ DueNext(r, k) \in Nat
        /\ i <= k => DueNext(r, k) = Due(r, k) + One(hand[i].run = r) - One(Bearing(r, k, i))
        /\ ~(i <= k) => DueNext(r, k) = Due(r, k)
    BY <1>1, <1>2, DueIdle
  <2>2. One(hand[i].run = r) = One(Bearing(r, k, i))
    BY <1>1 DEF One, Bearing
  <2> QED
    BY <1>2, <2>1, <2>2
<1> QED
  BY <1>1, <1>3, SquareOf

\* accept().
LEMMA SquareSettles ==
  ASSUME Sound, Sound', NEW i \in Stops, Settles(i), NEW r \in Runs
  PROVE  Squares(r)
<1>1. /\ pc[i] = "settling" /\ Idle(i) /\ queue' = queue /\ dead' = dead
      /\ UNCHANGED <<pass, started, done, counted, excuses>>
  BY DEF Settles, pipe, broker, replays, history
<1> DEFINE n == 0
<1>2. /\ SameBut(queue, queue', i) /\ SameBut(dead, dead', i) /\ n \in Nat
      /\ CountOf(queue'[i], r) + CountOf(dead'[i], r) = CountOf(queue[i], r) + CountOf(dead[i], r) + n
  <2>1. CountOf(queue[i], r) \in Nat /\ CountOf(dead[i], r) \in Nat
    BY CountIs DEF Sound, TypeOK
  <2> QED
    BY <1>1, <2>1 DEF SameBut
<1>3. ASSUME NEW k \in Places PROVE DueNext(r, k) = Due(r, k)
  <2> HIDE DEF n
  <2>1. /\ Due(r, k) \in Nat /\ DueNext(r, k) \in Nat
        /\ i <= k => DueNext(r, k) = Due(r, k) + n - One(Bearing(r, k, i))
        /\ ~(i <= k) => DueNext(r, k) = Due(r, k)
    BY <1>1, <1>2, DueIdle
  <2>2. One(Bearing(r, k, i)) = 0 /\ n = 0
    BY <1>1 DEF One, Bearing, n
  <2> QED
    BY <2>1, <2>2
<1> QED
  BY <1>1, <1>3, SquareOf

\* A crash puts the delivery back, at the cost of one excuse.
LEMMA SquareCrashes ==
  ASSUME Sound, Sound', [Next]_vars, NEW i \in Stops, Crashes(i), NEW r \in Runs
  PROVE  Squares(r)
<1>1. /\ pc[i] # "idle" /\ Idle(i) /\ queue' = [queue EXCEPT ![i] = <<hand[i]>> \o queue[i]] /\ dead' = dead
      /\ Fault(hand[i].run) /\ UNCHANGED <<pass, started, done, counted>>
  BY DEF Crashes, pipe, replays, history
<1>2. /\ hand[i] \in Copy /\ hand[i].run \in Runs
      /\ queue \in [Stops -> Seq(Copy)] /\ dead \in [Stops -> Seq(Copy)]
  BY <1>1, InHand DEF Sound, TypeOK
<1> DEFINE n == One(hand[i].run = r)
<1>3. /\ SameBut(queue, queue', i) /\ SameBut(dead, dead', i) /\ n \in Nat
      /\ CountOf(queue'[i], r) + CountOf(dead'[i], r) = CountOf(queue[i], r) + CountOf(dead[i], r) + n
  <2>1. CountOf(queue[i], r) \in Nat /\ CountOf(dead[i], r) \in Nat /\ n \in Nat
    BY <1>2, CountIs DEF One
  <2>2. <<hand[i]>> \in Seq(Copy) /\ CountOf(<<hand[i]>>, r) = n
    BY <1>2, CountOne DEF One
  <2>3. CountOf(<<hand[i]>> \o queue[i], r) = CountOf(<<hand[i]>>, r) + CountOf(queue[i], r)
    BY <1>2, <2>2, CountConcat
  <2>4. queue'[i] = <<hand[i]>> \o queue[i]
    BY <1>1, <1>2
  <2> HIDE DEF n
  <2> QED
    BY <1>1, <2>1, <2>2, <2>3, <2>4 DEF SameBut
<1>4. ASSUME NEW k \in Places
      PROVE  IF hand[i].run = r THEN Due(r, k) <= DueNext(r, k) /\ DueNext(r, k) <= Due(r, k) + 1
                                ELSE DueNext(r, k) = Due(r, k)
  <2> HIDE DEF n
  <2>1. /\ Due(r, k) \in Nat /\ DueNext(r, k) \in Nat
        /\ i <= k => DueNext(r, k) = Due(r, k) + n - One(Bearing(r, k, i))
        /\ ~(i <= k) => DueNext(r, k) = Due(r, k)
    BY <1>1, <1>3, DueIdle
  <2>2. CASE hand[i].run = r
    <3>1. n = 1 /\ One(Bearing(r, k, i)) \in {0, 1}
      BY <2>2 DEF n, One
    <3> QED
      BY <2>1, <2>2, <3>1
  <2>3. CASE hand[i].run # r
    <3>1. n = 0 /\ One(Bearing(r, k, i)) = 0
      BY <2>3 DEF n, One, Bearing
    <3> QED
      BY <2>1, <2>3, <3>1
  <2> QED
    BY <2>2, <2>3
<1>5. excuses'[r] = IF hand[i].run = r THEN More(excuses[r]) ELSE excuses[r]
  BY <1>1, <1>2, FaultIs
<1> QED
  BY <1>1, <1>4, <1>5, SquareOf

\* A step that goes on with the delivery, at a stop whose queue it leaves alone.
LEMMA DueGoesOn ==
  ASSUME Sound, Sound', NEW i \in Stops, NEW y, At(i, y), UNCHANGED <<queue, dead, pass>>,
         NEW r \in Runs, NEW k \in Places
  PROVE  /\ Due(r, k) \in Nat /\ DueNext(r, k) \in Nat
         /\ i <= k => DueNext(r, k) = Due(r, k)
              + One(hand[i].run = r /\ (y = "working" \/ (y = "hopping" /\ i # k))) - One(Bearing(r, k, i))
         /\ ~(i <= k) => DueNext(r, k) = Due(r, k)
<1>1. /\ SameBut(hand, hand', i) /\ SameBut(pc, pc', i) /\ pc'[i] = y /\ hand'[i] = hand[i]
      /\ SameBut(queue, queue', i) /\ SameBut(dead, dead', i) /\ queue'[i] = queue[i] /\ dead'[i] = dead[i]
      /\ pass' = pass
  BY DEF At, SameBut, Sound, TypeOK
<1>2. /\ Due(r, k) \in Nat /\ DueNext(r, k) \in Nat
      /\ CountOf(queue[i], r) \in Nat /\ CountOf(queue'[i], r) \in Nat
      /\ CountOf(dead[i], r) \in Nat /\ CountOf(dead'[i], r) \in Nat
      /\ i <= k => DueNext(r, k) = Due(r, k)
                     + (CountOf(queue'[i], r) - CountOf(queue[i], r))
                     + (CountOf(dead'[i], r) - CountOf(dead[i], r))
                     + (One(BearingNext(r, k, i)) - One(Bearing(r, k, i)))
      /\ ~(i <= k) => DueNext(r, k) = Due(r, k)
  BY <1>1, DueAtStop
<1>3. /\ One(BearingNext(r, k, i)) = One(hand[i].run = r /\ (y = "working" \/ (y = "hopping" /\ i # k)))
      /\ One(BearingNext(r, k, i)) \in Nat /\ One(Bearing(r, k, i)) \in Nat
  BY <1>1 DEF One, BearingNext
<1>4. CountOf(queue'[i], r) = CountOf(queue[i], r) /\ CountOf(dead'[i], r) = CountOf(dead[i], r)
  BY <1>1
<1> QED
  BY <1>2, <1>3, <1>4

\* A run is over before its last stop.
LEMMA SquareEndsEarly ==
  ASSUME Sound, Sound', [Next]_vars, NEW i \in Stops, EndsEarly(i), NEW r \in Runs
  PROVE  Squares(r)
<1> DEFINE y == "settling"
<1>1. /\ pc[i] = "working" /\ Counts(hand[i].run) /\ At(i, y) /\ y = "settling"
      /\ UNCHANGED <<queue, dead, pass, started, done, excuses>>
  BY DEF EndsEarly, pipe, broker, replays, Undisturbed
<1> HIDE DEF y
<1>2. hand[i].run \in asked /\ hand[i].run \in Runs
  BY <1>1, InHand
<1>3. /\ counted'[hand[i].run] = More(counted[hand[i].run])
      /\ \A q \in Runs \ {hand[i].run} : counted'[q] = counted[q]
  BY <1>1, <1>2, HistoryIs
<1>4. ASSUME NEW k \in Places
      PROVE  /\ Due(r, k) \in Nat /\ DueNext(r, k) \in Nat
             /\ i <= k => DueNext(r, k) = Due(r, k) - One(hand[i].run = r)
             /\ ~(i <= k) => DueNext(r, k) = Due(r, k)
  <2>1. /\ Due(r, k) \in Nat /\ DueNext(r, k) \in Nat
        /\ i <= k => DueNext(r, k) = Due(r, k)
             + One(hand[i].run = r /\ (y = "working" \/ (y = "hopping" /\ i # k))) - One(Bearing(r, k, i))
        /\ ~(i <= k) => DueNext(r, k) = Due(r, k)
    BY <1>1, DueGoesOn
  <2>2. /\ One(hand[i].run = r /\ (y = "working" \/ (y = "hopping" /\ i # k))) = 0
        /\ One(Bearing(r, k, i)) = One(hand[i].run = r) /\ One(hand[i].run = r) \in Nat
    BY <1>1 DEF One, Bearing
  <2> QED
    BY <2>1, <2>2
<1>5. CASE hand[i].run # r
  <2>1. One(hand[i].run = r) = 0
    BY <1>5 DEF One
  <2>2. \A k \in Places : DueNext(r, k) = Due(r, k)
    BY <1>4, <2>1
  <2>3. counted'[r] = counted[r] /\ done'[r] = done[r] /\ excuses'[r] = excuses[r]
    BY <1>1, <1>3, <1>5
  <2> QED
    BY <2>2, <2>3, SquareOf
<1>6. CASE hand[i].run = r
  <2>1. One(hand[i].run = r) = 1
    BY <1>6 DEF One
  <2>2. counted'[r] > 0 /\ counted'[r] <= counted[r] + 1 /\ counted[r] \in Nat /\ counted'[r] \in Nat
    <3>1. counted[r] \in 0..MaxCount /\ MaxCount \in Nat
      BY RoutingSlipAssumption DEF Sound, TypeOK
    <3> QED
      BY <1>3, <1>6, <3>1, MoreIs
  <2>3. ASSUME NEW k \in Places PROVE Even(r, k)
    <3>1. i <= LastStop + 1 /\ excuses'[r] = excuses[r]
      BY <1>1, RoutingSlipAssumption DEF Stops
    <3>2. CASE k = LastStop + 1
      BY <1>4, <2>1, <2>2, <3>1, <3>2 DEF Even, Times, TimesNext
    <3>3. CASE k # LastStop + 1
      <4>1. TimesNext(r, k) = Times(r, k) /\ Times(r, k) \in Nat
        BY <1>1, <3>3, Numbers, RoutingSlipAssumption DEF Times, TimesNext
      <4> QED
        BY <1>4, <2>1, <3>1, <4>1 DEF Even
    <3> QED
      BY <3>2, <3>3
  <2> QED
    BY <2>2, <2>3 DEF Squares
<1> QED
  BY <1>5, <1>6

\* A step's work is done.
LEMMA SquareStepDone ==
  ASSUME Sound, Sound', [Next]_vars, NEW i \in Stops, StepDone(i), NEW r \in Runs
  PROVE  Squares(r)
<1> DEFINE h == hand[i].run
<1>1. /\ pc[i] = "working" /\ Readable(hand[i])
      /\ done' = [done EXCEPT ![h][i] = More(@)] /\ UNCHANGED <<pass, started, excuses>>
  BY DEF StepDone, Works, pipe, replays, Undisturbed
<1>2. h \in asked /\ h \in Runs /\ Mine(i, hand[i])
  BY <1>1, InHand
<1>3. /\ done'[h][i] = More(done[h][i]) /\ \A j \in Stops \ {i} : done'[h][j] = done[h][j]
      /\ \A q \in Runs \ {h} : done'[q] = done[q]
  BY <1>1, <1>2, HistoryIs
<1>4. /\ MaxCount \in Nat /\ LastStop \in Nat /\ LastStop + 1 \in Places /\ i # LastStop + 1
      /\ i <= LastStop + 1 /\ i \in Int
  BY RoutingSlipAssumption DEF Places, Stops
<1>5. /\ h = r => done'[r][i] <= done[r][i] + 1 /\ done[r][i] \in Nat /\ done'[r][i] \in Nat
      /\ h # r => done'[r] = done[r]
  <2>1. done[h][i] \in 0..MaxCount
    <3>1. done \in [Runs -> [Stops -> 0..MaxCount]]
      BY DEF Sound, TypeOK
    <3> HIDE DEF h
    <3> QED
      BY <1>2, <3>1
  <2> QED
    BY <1>3, <1>4, <2>1, MoreIs
<1>6. CASE Finished(Advanced(i)) /\ Counts(h) /\ At(i, "settling") /\ UNCHANGED broker
  <2> DEFINE y == "settling"
  <2>1. At(i, y) /\ y = "settling" /\ UNCHANGED <<queue, dead, pass>>
    BY <1>1, <1>6 DEF broker
  <2> HIDE DEF y
  <2>2. counted'[h] = More(counted[h]) /\ \A q \in Runs \ {h} : counted'[q] = counted[q]
    BY <1>2, <1>6, HistoryIs
  <2>3. ASSUME NEW k \in Places
        PROVE  /\ Due(r, k) \in Nat /\ DueNext(r, k) \in Nat
               /\ i <= k => DueNext(r, k) = Due(r, k) - One(h = r)
               /\ ~(i <= k) => DueNext(r, k) = Due(r, k)
    <3>1. /\ Due(r, k) \in Nat /\ DueNext(r, k) \in Nat
          /\ i <= k => DueNext(r, k) = Due(r, k)
               + One(hand[i].run = r /\ (y = "working" \/ (y = "hopping" /\ i # k))) - One(Bearing(r, k, i))
          /\ ~(i <= k) => DueNext(r, k) = Due(r, k)
      BY <2>1, DueGoesOn
    <3>2. /\ One(hand[i].run = r /\ (y = "working" \/ (y = "hopping" /\ i # k))) = 0
          /\ One(Bearing(r, k, i)) = One(h = r) /\ One(h = r) \in Nat
      BY <1>1, <2>1 DEF One, Bearing
    <3> QED
      BY <3>1, <3>2
  <2>4. CASE h # r
    <3>1. One(h = r) = 0
      BY <2>4 DEF One
    <3>2. \A k \in Places : DueNext(r, k) = Due(r, k)
      BY <2>3, <3>1
    <3>3. counted'[r] = counted[r] /\ done'[r] = done[r] /\ excuses'[r] = excuses[r]
      BY <1>1, <1>5, <2>2, <2>4
    <3> QED
      BY <3>2, <3>3, SquareOf
  <2>5. CASE h = r
    <3>1. One(h = r) = 1
      BY <2>5 DEF One
    <3>2. counted'[r] > 0 /\ counted'[r] <= counted[r] + 1 /\ counted[r] \in Nat /\ counted'[r] \in Nat
      <4>1. counted[r] \in 0..MaxCount
        BY DEF Sound, TypeOK
      <4> QED
        BY <1>4, <2>2, <2>5, <4>1, MoreIs
    <3>3. ASSUME NEW k \in Places PROVE Even(r, k)
      <4>1. excuses'[r] = excuses[r]
        BY <1>1
      <4>2. CASE k = LastStop + 1
        BY <1>4, <2>3, <3>1, <3>2, <4>1, <4>2 DEF Even, Times, TimesNext
      <4>3. CASE k = i
        BY <1>4, <1>5, <2>3, <2>5, <3>1, <4>1, <4>3 DEF Even, Times, TimesNext
      <4>4. CASE k # LastStop + 1 /\ k # i
        <5>1. TimesNext(r, k) = Times(r, k) /\ Times(r, k) \in Nat
          <6>1. k \in Stops \ {i}
            BY <1>4, <4>4 DEF Places, Stops
          <6>2. TimesNext(r, k) = Times(r, k)
            BY <1>3, <2>5, <4>4, <6>1 DEF Times, TimesNext
          <6> QED
            BY <1>4, <6>2, Numbers
        <5> QED
          BY <2>3, <3>1, <4>1, <5>1 DEF Even
      <4> QED
        BY <4>2, <4>3, <4>4
    <3> QED
      BY <3>2, <3>3 DEF Squares
  <2> QED
    BY <2>4, <2>5
<1>7. CASE ~Finished(Advanced(i)) /\ ~Writable(h, WrittenAs(Advanced(i)).form) /\ Rejected(i) /\ UNCHANGED counted
  <2>1. Stuck(h)
    BY <1>1, <1>2, <1>7, SlipIs
  <2>2. /\ Idle(i) /\ SameBut(queue, queue', i) /\ SameBut(dead, dead', i)
        /\ One(h = r) \in Nat
        /\ CountOf(queue'[i], r) + CountOf(dead'[i], r) = CountOf(queue[i], r) + CountOf(dead[i], r) + One(h = r)
    BY <1>1, <1>7, VerdictIs
  <2>3. ASSUME NEW k \in Places PROVE DueNext(r, k) = Due(r, k) /\ Due(r, k) \in Nat
    <3>1. /\ Due(r, k) \in Nat /\ DueNext(r, k) \in Nat
          /\ i <= k => DueNext(r, k) = Due(r, k) + One(h = r) - One(Bearing(r, k, i))
          /\ ~(i <= k) => DueNext(r, k) = Due(r, k)
      BY <1>1, <2>2, DueIdle
    <3>2. One(h = r) = One(Bearing(r, k, i))
      BY <1>1 DEF One, Bearing
    <3> QED
      BY <2>2, <3>1, <3>2
  <2>4. counted'[r] = counted[r] /\ excuses'[r] = excuses[r] /\ counted[r] \in Nat
    BY <1>1, <1>4, <1>7 DEF Sound, TypeOK
  <2>5. CASE h # r
    BY <1>5, <2>3, <2>4, <2>5, SquareOf
  <2>6. CASE h = r
    <3>1. Even(r, LastStop + 1)
      BY <1>4, <2>3, <2>4 DEF Even, Times, TimesNext
    <3>2. DueNext(r, LastStop + 1) >= Due(r, LastStop + 1)
      BY <1>4, <2>3
    <3> QED
      BY <2>1, <2>4, <2>6, <3>1, <3>2 DEF Squares
  <2> QED
    BY <2>5, <2>6
<1>8. CASE ~Finished(Advanced(i)) /\ At(i, "hopping") /\ UNCHANGED <<counted, broker>>
  <2> DEFINE y == "hopping"
  <2>1. At(i, y) /\ y = "hopping" /\ UNCHANGED <<queue, dead, pass>>
    BY <1>1, <1>8 DEF broker
  <2> HIDE DEF y
  <2>2. counted'[r] = counted[r] /\ excuses'[r] = excuses[r] /\ counted[r] \in Nat
    BY <1>1, <1>4, <1>8 DEF Sound, TypeOK
  <2>3. ASSUME NEW k \in Places
        PROVE  /\ Due(r, k) \in Nat /\ DueNext(r, k) \in Nat
               /\ k # i => DueNext(r, k) = Due(r, k)
               /\ k = i => DueNext(r, k) = Due(r, k) - One(h = r)
    <3>1. /\ Due(r, k) \in Nat /\ DueNext(r, k) \in Nat
          /\ i <= k => DueNext(r, k) = Due(r, k)
               + One(hand[i].run = r /\ (y = "working" \/ (y = "hopping" /\ i # k))) - One(Bearing(r, k, i))
          /\ ~(i <= k) => DueNext(r, k) = Due(r, k)
      BY <2>1, DueGoesOn
    <3>2. /\ One(hand[i].run = r /\ (y = "working" \/ (y = "hopping" /\ i # k))) = IF i # k THEN One(h = r) ELSE 0
          /\ One(Bearing(r, k, i)) = One(h = r) /\ One(h = r) \in Nat
      BY <1>1, <2>1 DEF One, Bearing
    <3> QED
      BY <1>4, <3>1, <3>2
  <2>4. CASE h # r
    <3>1. One(h = r) = 0
      BY <2>4 DEF One
    <3>2. \A k \in Places : DueNext(r, k) = Due(r, k)
      BY <2>3, <3>1
    <3> QED
      BY <1>5, <2>2, <2>4, <3>2, SquareOf
  <2>5. CASE h = r
    <3>1. One(h = r) = 1
      BY <2>5 DEF One
    <3>2. ASSUME NEW k \in Places PROVE Even(r, k)
      <4>1. CASE k = i
        BY <1>4, <1>5, <2>2, <2>3, <2>5, <3>1, <4>1 DEF Even, Times, TimesNext
      <4>2. CASE k # i
        <5>1. TimesNext(r, k) = Times(r, k) /\ Times(r, k) \in Nat
          <6>1. k = LastStop + 1 \/ k \in Stops \ {i}
            BY <1>4, <4>2 DEF Places, Stops
          <6>2. TimesNext(r, k) = Times(r, k)
            BY <1>3, <1>4, <2>2, <2>5, <6>1 DEF Times, TimesNext
          <6> QED
            BY <1>4, <6>2, Numbers
        <5> QED
          BY <2>2, <2>3, <4>2, <5>1 DEF Even
      <4> QED
        BY <4>1, <4>2
    <3>3. DueNext(r, LastStop + 1) >= Due(r, LastStop + 1)
      BY <1>4, <2>3
    <3> QED
      BY <2>2, <3>2, <3>3 DEF Squares
  <2> QED
    BY <2>4, <2>5
<1> QED
  BY <1>6, <1>7, <1>8 DEF StepDone

\* A step at one stop that may also add to the next one's queue.
LEMMA DueAtTwo ==
  ASSUME Sound, Sound', NEW i \in Stops, i + 1 \in Stops, pass' = pass,
         \A y \in Stops \ {i, i + 1} : queue'[y] = queue[y],
         SameBut(dead, dead', i), SameBut(hand, hand', i), SameBut(pc, pc', i),
         NEW r \in Runs, NEW k \in Places
  PROVE  /\ Due(r, k) \in Nat /\ DueNext(r, k) \in Nat
         /\ CountOf(queue[i], r) \in Nat /\ CountOf(queue'[i], r) \in Nat
         /\ CountOf(dead[i], r) \in Nat /\ CountOf(dead'[i], r) \in Nat
         /\ CountOf(queue[i + 1], r) \in Nat /\ CountOf(queue'[i + 1], r) \in Nat
         /\ DueNext(r, k) = Due(r, k)
              + (IF i + 1 <= k THEN CountOf(queue'[i + 1], r) - CountOf(queue[i + 1], r) ELSE 0)
              + (IF i <= k THEN (CountOf(queue'[i], r) - CountOf(queue[i], r))
                              + (CountOf(dead'[i], r) - CountOf(dead[i], r))
                              + (One(BearingNext(r, k, i)) - One(Bearing(r, k, i)))
                           ELSE 0)
<1> DEFINE st == Now
           to == NowNext
           x == i + 1
           q == [queue EXCEPT ![x] = queue'[x]]
           mid == [q |-> q, d |-> dead, h |-> hand, c |-> pc, p |-> pass]
<1>1. /\ st.q = queue /\ st.d = dead /\ st.h = hand /\ st.c = pc /\ st.p = pass
      /\ to.q = queue' /\ to.d = dead' /\ to.h = hand' /\ to.c = pc' /\ to.p = pass'
      /\ mid.q = q /\ mid.d = dead /\ mid.h = hand /\ mid.c = pc /\ mid.p = pass
  BY DEF Now, NowNext
<1>2. st \in State /\ to \in State
  BY StateIs
<1>3. x \in Stops /\ x # i /\ queue' \in [Stops -> Seq(Copy)] /\ queue \in [Stops -> Seq(Copy)]
  BY DEF Stops, Sound, TypeOK
<1> HIDE DEF x
<1>4. /\ q \in [Stops -> Seq(Copy)] /\ q[x] = queue'[x] /\ q[i] = queue[i]
      /\ \A y \in Stops \ {x} : q[y] = queue[y]
      /\ \A y \in Stops \ {i} : queue'[y] = q[y]
  <2>1. \A y \in Stops \ {i, x} : queue'[y] = queue[y]
    BY DEF x
  <2> QED
    BY <1>3, <2>1
<1> HIDE DEF q
<1>5. mid \in State
  BY <1>2, <1>4 DEF State, Now
<1>6. \A y \in Stops \ {x} : /\ mid.q[y] = st.q[y] /\ mid.d[y] = st.d[y]
                             /\ mid.h[y] = st.h[y] /\ mid.c[y] = st.c[y]
  BY <1>1, <1>4
<1>14. \A y \in Stops \ {i} : /\ to.q[y] = mid.q[y] /\ to.d[y] = mid.d[y]
                              /\ to.h[y] = mid.h[y] /\ to.c[y] = mid.c[y]
  BY <1>1, <1>4 DEF SameBut
<1>15. mid.p = st.p /\ to.p = mid.p
  BY <1>1
<1>7. /\ Bears(mid, r, k, x) <=> Bears(st, r, k, x)
      /\ Bears(mid, r, k, i) <=> Bearing(r, k, i)
      /\ Bears(to, r, k, i) <=> BearingNext(r, k, i)
  BY <1>1 DEF Bears, Bearing, BearingNext
<1>8. mid.q[x] = queue'[x] /\ mid.d[x] = st.d[x] /\ mid.q[i] = queue[i] /\ mid.d[i] = dead[i]
      /\ st.q[x] = queue[x] /\ to.q[i] = queue'[i] /\ to.d[i] = dead'[i]
  BY <1>1, <1>4
<1> HIDE DEF st, to, mid
<1>9. /\ Ahead(st, r, k) \in Nat /\ Ahead(mid, r, k) \in Nat
      /\ CountOf(st.q[x], r) \in Nat /\ CountOf(mid.q[x], r) \in Nat
      /\ CountOf(st.d[x], r) \in Nat /\ CountOf(mid.d[x], r) \in Nat
      /\ x <= k => Ahead(mid, r, k) = Ahead(st, r, k)
                        + (CountOf(mid.q[x], r) - CountOf(st.q[x], r))
                        + (CountOf(mid.d[x], r) - CountOf(st.d[x], r))
                        + (One(Bears(mid, r, k, x)) - One(Bears(st, r, k, x)))
      /\ ~(x <= k) => Ahead(mid, r, k) = Ahead(st, r, k)
  <2>1. st \in State /\ x \in Stops /\ mid.p = st.p
    BY <1>2, <1>3, <1>15
  <2> QED
    BY ONLY <1>5, <1>6, <2>1, k \in Places, AtStop
<1>10. /\ Ahead(mid, r, k) \in Nat /\ Ahead(to, r, k) \in Nat
       /\ CountOf(mid.q[i], r) \in Nat /\ CountOf(to.q[i], r) \in Nat
       /\ CountOf(mid.d[i], r) \in Nat /\ CountOf(to.d[i], r) \in Nat
       /\ i <= k => Ahead(to, r, k) = Ahead(mid, r, k)
                        + (CountOf(to.q[i], r) - CountOf(mid.q[i], r))
                        + (CountOf(to.d[i], r) - CountOf(mid.d[i], r))
                        + (One(Bears(to, r, k, i)) - One(Bears(mid, r, k, i)))
       /\ ~(i <= k) => Ahead(to, r, k) = Ahead(mid, r, k)
  <2>1. to \in State /\ to.p = mid.p
    BY <1>2, <1>15
  <2> QED
    BY ONLY <1>5, <1>14, <2>1, i \in Stops, k \in Places, AtStop
<1>11. Due(r, k) = Ahead(st, r, k) /\ DueNext(r, k) = Ahead(to, r, k)
  BY DEF Due, DueNext, st, to
<1>12. /\ One(Bears(mid, r, k, x)) = One(Bears(st, r, k, x)) /\ One(Bears(st, r, k, x)) \in Nat
       /\ One(Bears(mid, r, k, i)) = One(Bearing(r, k, i)) /\ One(Bearing(r, k, i)) \in Nat
       /\ One(Bears(to, r, k, i)) = One(BearingNext(r, k, i)) /\ One(BearingNext(r, k, i)) \in Nat
  BY <1>7 DEF One
<1>13. DueNext(r, k) = Due(r, k)
              + (IF x <= k THEN CountOf(queue'[x], r) - CountOf(queue[x], r) ELSE 0)
              + (IF i <= k THEN (CountOf(queue'[i], r) - CountOf(queue[i], r))
                              + (CountOf(dead'[i], r) - CountOf(dead[i], r))
                              + (One(BearingNext(r, k, i)) - One(Bearing(r, k, i)))
                           ELSE 0)
  BY <1>8, <1>9, <1>10, <1>11, <1>12
<1> QED
  BY <1>8, <1>9, <1>10, <1>11, <1>13 DEF x

\* The next stop has the message before this one lets go of it.
LEMMA SquareHops ==
  ASSUME Sound, Sound', [Next]_vars, NEW i \in Stops, Hops(i), NEW r \in Runs
  PROVE  Squares(r)
<1>1. /\ pc[i] = "hopping" /\ Enters(Onwards(i), Outgoing(i)) /\ At(i, "settling")
      /\ UNCHANGED <<dead, pass, started, done, counted, excuses>>
  BY DEF Hops, pipe, replays, history
<1>2. /\ Onwards(i) = i + 1 /\ i + 1 \in Stops
      /\ Outgoing(i) \in Copy /\ Outgoing(i).run = hand[i].run
  BY <1>1, OutgoingIs
<1> DEFINE x == i + 1
           c == Outgoing(i)
<1>3. /\ queue' = [queue EXCEPT ![x] = Append(queue[x], c)] /\ x \in Stops /\ x # i
      /\ c \in Copy /\ c.run = hand[i].run /\ queue \in [Stops -> Seq(Copy)]
  BY <1>1, <1>2 DEF Enters, Stops, Sound, TypeOK
<1> HIDE DEF c
<1>4. /\ \A y \in Stops \ {i, x} : queue'[y] = queue[y]
      /\ queue'[i] = queue[i] /\ queue'[x] = Append(queue[x], c)
      /\ SameBut(dead, dead', i) /\ SameBut(hand, hand', i) /\ SameBut(pc, pc', i)
      /\ hand'[i] = hand[i] /\ pc'[i] = "settling" /\ dead'[i] = dead[i] /\ pass' = pass
  BY <1>1, <1>3 DEF At, SameBut, Sound, TypeOK
<1>5. CountOf(queue'[x], r) = CountOf(queue[x], r) + One(hand[i].run = r)
  BY <1>3, <1>4, CountEnds DEF One
<1>6. ASSUME NEW k \in Places PROVE DueNext(r, k) = Due(r, k)
  <2>1. /\ Due(r, k) \in Nat /\ DueNext(r, k) \in Nat
        /\ CountOf(queue[i], r) \in Nat /\ CountOf(queue'[i], r) \in Nat
        /\ CountOf(dead[i], r) \in Nat /\ CountOf(dead'[i], r) \in Nat
        /\ CountOf(queue[i + 1], r) \in Nat /\ CountOf(queue'[i + 1], r) \in Nat
        /\ DueNext(r, k) = Due(r, k)
              + (IF i + 1 <= k THEN CountOf(queue'[i + 1], r) - CountOf(queue[i + 1], r) ELSE 0)
              + (IF i <= k THEN (CountOf(queue'[i], r) - CountOf(queue[i], r))
                              + (CountOf(dead'[i], r) - CountOf(dead[i], r))
                              + (One(BearingNext(r, k, i)) - One(Bearing(r, k, i)))
                           ELSE 0)
    BY <1>3, <1>4, DueAtTwo
  <2>2. /\ One(BearingNext(r, k, i)) = 0 /\ One(hand[i].run = r) \in Nat
        /\ One(Bearing(r, k, i)) = IF i # k THEN One(hand[i].run = r) ELSE 0
    BY <1>1, <1>4 DEF One, Bearing, BearingNext
  <2>3. queue'[i] = queue[i] /\ dead'[i] = dead[i] /\ i \in Int /\ k \in Int
    BY <1>4, RoutingSlipAssumption DEF Stops, Places
  <2>4. i + 1 <= k <=> i <= k /\ i # k
    BY <2>3
  <2> QED
    BY <1>5, <2>1, <2>2, <2>3, <2>4
<1> QED
  BY <1>1, <1>6, SquareOf

\* A hop that fails leaves the delivery's copy here, and perhaps one at the next stop.
LEMMA SquareHopFails ==
  ASSUME Sound, Sound', [Next]_vars, NEW i \in Stops, HopFails(i), NEW r \in Runs
  PROVE  Squares(r)
<1>1. /\ pc[i] = "hopping" /\ i + 1 \in Stops
      /\ Fault(hand[i].run) \/ (Excuse(hand[i].run) /\ UNCHANGED faults)
      /\ Idle(i) /\ UNCHANGED <<pass, started, done, counted>>
  BY HopFailsIs
<1>2. PICK t \in {<<>>, <<Outgoing(i)>>} :
        \/ /\ hand[i].attempt < MaxAttempts /\ dead' = dead
           /\ queue' = [[queue EXCEPT ![i] = @ \o <<Further(hand[i])>>] EXCEPT ![i + 1] = @ \o t]
        \/ /\ dead' = [dead EXCEPT ![i] = Append(@, hand[i])]
           /\ queue' = [queue EXCEPT ![i + 1] = @ \o t]
  BY HopFailsIs
<1>3. /\ hand[i] \in Copy /\ hand[i].run \in Runs /\ MineNow(i, hand[i])
      /\ queue \in [Stops -> Seq(Copy)] /\ dead \in [Stops -> Seq(Copy)]
      /\ Outgoing(i) \in Copy /\ Outgoing(i).run = hand[i].run
  BY <1>1, InHand, OutgoingIs DEF Sound, TypeOK
<1> DEFINE n == One(hand[i].run = r)
           x == i + 1
<1>4. /\ t \in Seq(Copy) /\ CountOf(t, r) \in {0, n} /\ n \in {0, 1}
      /\ CountOf(queue[i], r) \in Nat /\ CountOf(dead[i], r) \in Nat /\ CountOf(queue[x], r) \in Nat
      /\ CountOf(queue[x] \o t, r) = CountOf(queue[x], r) + CountOf(t, r)
  <2>1. t \in Seq(Copy) /\ CountOf(t, r) \in {0, n}
    BY <1>3, CountOne DEF One
  <2>2. n \in {0, 1}
    BY DEF One
  <2> HIDE DEF n
  <2> QED
    BY <1>1, <1>3, <2>1, <2>2, CountIs, CountConcat
<1>5. x # i /\ x \in Stops
  BY <1>1 DEF Stops
<1> HIDE DEF n
<1>6. /\ \A y \in Stops \ {i, x} : queue'[y] = queue[y]
      /\ SameBut(dead, dead', i) /\ queue'[x] = queue[x] \o t
      /\ CountOf(queue'[i], r) + CountOf(dead'[i], r) = CountOf(queue[i], r) + CountOf(dead[i], r) + n
  <2>1. CASE /\ hand[i].attempt < MaxAttempts /\ dead' = dead
             /\ queue' = [[queue EXCEPT ![i] = @ \o <<Further(hand[i])>>] EXCEPT ![i + 1] = @ \o t]
    <3> DEFINE c == Further(hand[i])
               s == queue[i] \o <<c>>
               u == queue[x] \o t
               p == [queue EXCEPT ![i] = s]
    <3>1. c \in Copy /\ c.run = hand[i].run
      BY <1>3, <2>1, AgainIs
    <3>2. <<c>> \in Seq(Copy) /\ CountOf(<<c>>, r) = n
      BY <3>1, CountOne DEF One, n
    <3>3. CountOf(s, r) = CountOf(queue[i], r) + n
      <4> DEFINE a == queue[i]
                 b == <<c>>
      <4>1. a \in Seq(Copy) /\ b \in Seq(Copy) /\ CountOf(b, r) = n
        BY <1>3, <3>2
      <4> HIDE DEF a, b
      <4>2. CountOf(a \o b, r) = CountOf(a, r) + CountOf(b, r)
        BY <4>1, CountConcat
      <4> QED
        BY <4>1, <4>2 DEF a, b
    <3>4. p[x] = queue[x]
      BY <1>5
    <3>5. queue' = [p EXCEPT ![x] = p[x] \o t]
      BY <2>1
    <3>6. queue' = [p EXCEPT ![x] = u]
      BY <3>4, <3>5
    <3> HIDE DEF c, s, u, x
    <3>7. queue'[i] = s /\ queue'[x] = u /\ \A y \in Stops \ {i, x} : queue'[y] = queue[y]
      <4>1. p[i] = s /\ DOMAIN p = Stops /\ \A y \in Stops \ {i} : p[y] = queue[y]
        BY <1>3
      <4> HIDE DEF p
      <4> QED
        BY <1>5, <3>6, <4>1
    <3>8. SameBut(dead, dead', i) /\ dead'[i] = dead[i]
      BY <2>1 DEF SameBut
    <3> QED
      BY <1>4, <3>3, <3>7, <3>8 DEF u
  <2>2. CASE /\ dead' = [dead EXCEPT ![i] = Append(@, hand[i])]
             /\ queue' = [queue EXCEPT ![i + 1] = @ \o t]
    <3>1. CountOf(Append(dead[i], hand[i]), r) = CountOf(dead[i], r) + n
      BY <1>3, CountEnds DEF One, n
    <3>2. dead'[i] = Append(dead[i], hand[i]) /\ SameBut(dead, dead', i)
      BY <1>3, <2>2 DEF SameBut
    <3>3. queue'[i] = queue[i] /\ queue'[x] = queue[x] \o t /\ \A y \in Stops \ {i, x} : queue'[y] = queue[y]
      BY <1>3, <1>5, <2>2
    <3> HIDE DEF x
    <3> QED
      BY <1>4, <3>1, <3>2, <3>3
  <2> QED
    BY <1>2, <2>1, <2>2
<1>7. /\ SameBut(hand, hand', i) /\ SameBut(pc, pc', i) /\ pc'[i] = "idle" /\ pass' = pass
  BY <1>1 DEF Idle, SameBut, Sound, TypeOK
<1>8. ASSUME NEW k \in Places
      PROVE  IF hand[i].run = r THEN Due(r, k) <= DueNext(r, k) /\ DueNext(r, k) <= Due(r, k) + 1
                                ELSE DueNext(r, k) = Due(r, k)
  <2>1. /\ Due(r, k) \in Nat /\ DueNext(r, k) \in Nat
        /\ CountOf(queue[i], r) \in Nat /\ CountOf(queue'[i], r) \in Nat
        /\ CountOf(dead[i], r) \in Nat /\ CountOf(dead'[i], r) \in Nat
        /\ CountOf(queue[i + 1], r) \in Nat /\ CountOf(queue'[i + 1], r) \in Nat
        /\ DueNext(r, k) = Due(r, k)
              + (IF i + 1 <= k THEN CountOf(queue'[i + 1], r) - CountOf(queue[i + 1], r) ELSE 0)
              + (IF i <= k THEN (CountOf(queue'[i], r) - CountOf(queue[i], r))
                              + (CountOf(dead'[i], r) - CountOf(dead[i], r))
                              + (One(BearingNext(r, k, i)) - One(Bearing(r, k, i)))
                           ELSE 0)
    <3>1. \A y \in Stops \ {i, i + 1} : queue'[y] = queue[y]
      BY <1>6
    <3>2. SameBut(dead, dead', i) /\ SameBut(hand, hand', i) /\ SameBut(pc, pc', i) /\ pass' = pass /\ i + 1 \in Stops
      BY <1>1, <1>6, <1>7
    <3> QED
      BY <3>1, <3>2, DueAtTwo
  <2>2. /\ One(BearingNext(r, k, i)) = 0
        /\ One(Bearing(r, k, i)) = IF i # k THEN n ELSE 0
    BY <1>1, <1>7 DEF One, Bearing, BearingNext, n
  <2>3. i \in Int /\ k \in Int
    BY RoutingSlipAssumption DEF Stops, Places
  <2>4. i + 1 <= k <=> i <= k /\ i # k
    BY <2>3
  <2>5. CountOf(queue'[i + 1], r) - CountOf(queue[i + 1], r) \in {0, n}
    <3> DEFINE a == CountOf(queue[x], r)
               b == CountOf(queue'[x], r)
               h == CountOf(t, r)
    <3>1. b = a + h
      BY <1>4, <1>6
    <3>2. a \in Nat /\ h \in {0, n} /\ n \in {0, 1}
      BY <1>4
    <3> HIDE DEF a, b, h
    <3>3. b - a \in {0, n}
      BY <3>1, <3>2
    <3> QED
      BY <3>3 DEF a, b
  <2>6. n = IF hand[i].run = r THEN 1 ELSE 0
    BY DEF n, One
  <2>7. i <= k => (CountOf(queue'[i], r) - CountOf(queue[i], r)) + (CountOf(dead'[i], r) - CountOf(dead[i], r)) = n
    <3> DEFINE a == CountOf(queue[i], r)
               b == CountOf(queue'[i], r)
               e == CountOf(dead[i], r)
               f == CountOf(dead'[i], r)
    <3>1. b + f = a + e + n
      BY <1>6
    <3>2. a \in Nat /\ b \in Nat /\ e \in Nat /\ f \in Nat /\ n \in {0, 1}
      BY <1>4, <2>1
    <3> HIDE DEF a, b, e, f
    <3>3. (b - a) + (f - e) = n
      BY <3>1, <3>2
    <3> QED
      BY <3>3 DEF a, b, e, f
  <2>8. DueNext(r, k) = Due(r, k)
              + (IF i + 1 <= k THEN CountOf(queue'[i + 1], r) - CountOf(queue[i + 1], r) ELSE 0)
              + (IF i <= k THEN n - (IF i # k THEN n ELSE 0) ELSE 0)
    <3> DEFINE b == CountOf(queue'[i + 1], r) - CountOf(queue[i + 1], r)
               f == (CountOf(queue'[i], r) - CountOf(queue[i], r)) + (CountOf(dead'[i], r) - CountOf(dead[i], r))
               m == One(BearingNext(r, k, i))
               o == One(Bearing(r, k, i))
    <3>1. DueNext(r, k) = Due(r, k) + (IF i + 1 <= k THEN b ELSE 0) + (IF i <= k THEN f + (m - o) ELSE 0)
      BY <2>1
    <3>2. /\ m = 0 /\ o = (IF i # k THEN n ELSE 0) /\ n \in {0, 1}
          /\ i <= k => f = n
      BY <1>4, <2>2, <2>7
    <3>3. CASE i <= k
      <4>1. f + (m - o) = n - (IF i # k THEN n ELSE 0)
        <5> HIDE DEF f, m, o
        <5> QED
          BY <3>2, <3>3
      <4> HIDE DEF b, f, m, o
      <4> QED
        BY <3>1, <3>3, <4>1 DEF b
    <3>4. CASE ~(i <= k)
      <4> HIDE DEF f, m, o
      <4> QED
        BY <3>1, <3>4
    <3> QED
      BY <3>3, <3>4
  <2>9. Due(r, k) \in Nat /\ DueNext(r, k) \in Nat
    BY <2>1
  <2> DEFINE d == CountOf(queue'[i + 1], r) - CountOf(queue[i + 1], r)
  <2>10. d \in {0, n} /\ n \in {0, 1} /\ DueNext(r, k) = Due(r, k)
              + (IF i + 1 <= k THEN d ELSE 0) + (IF i <= k THEN n - (IF i # k THEN n ELSE 0) ELSE 0)
    BY <1>4, <2>5, <2>8
  <2> HIDE DEF d
  <2> QED
    BY <2>4, <2>6, <2>9, <2>10
<1>9. excuses'[r] = IF hand[i].run = r THEN More(excuses[r]) ELSE excuses[r]
  BY <1>1, <1>3, FaultIs
<1> QED
  BY <1>1, <1>8, <1>9, SquareOf

\* Nothing is there of a run that was not asked for.
LEMMA NothingYet ==
  ASSUME Sound, NEW r \in Runs, r \notin asked, NEW k \in Places
  PROVE  Due(r, k) = 0
<1>1. ASSUME NEW i, NEW s, Fine(i, s) PROVE InLine(s, r) = {} /\ CountOf(s, r) = 0
  <2>1. s \in Seq(Copy) /\ \A n \in 1..Len(s) : s[n].run \in asked
    BY <1>1 DEF Fine, Mine
  <2>2. InLine(s, r) = {}
    BY <2>1 DEF InLine
  <2> QED
    BY <2>2, FS_EmptySet DEF CountOf
<1>2. Lie(queue, r, UpTo(k)) = 0 /\ Lie(dead, r, UpTo(k)) = 0
  <2>1. \A i \in UpTo(k) : InLine(queue[i], r) = {} /\ InLine(dead[i], r) = {}
    BY <1>1 DEF Sound, Copies, UpTo
  <2>2. UNION {{i} \X InLine(queue[i], r) : i \in UpTo(k)} = {}
    BY <2>1
  <2>3. UNION {{i} \X InLine(dead[i], r) : i \in UpTo(k)} = {}
    BY <2>1
  <2> QED
    BY <2>2, <2>3, FS_EmptySet DEF Lie
<1>3. Cardinality({x \in UpTo(k) : Bears(Now, r, k, x)}) = 0
  <2>1. ASSUME NEW x \in UpTo(k) PROVE ~Bears(Now, r, k, x)
    <3>1. pc[x] # "idle" => hand[x].run \in asked
      BY DEF Sound, Copies, Mine, UpTo
    <3> QED
      BY <3>1 DEF Bears, Now
  <2>2. {x \in UpTo(k) : Bears(Now, r, k, x)} = {}
    BY <2>1
  <2> QED
    BY <2>2, FS_EmptySet
<1>4. InPass(Now, r) = 0
  <2>1. CountOf(pass.declined, r) = 0
    BY <1>1 DEF Sound, Copies
  <2>2. pass.held.run # r
    <3>1. CASE pass.held = NoCopy
      BY <3>1, RoutingSlipAssumption DEF NoCopy
    <3>2. CASE pass.held # NoCopy
      BY <3>2 DEF Sound, Copies, Mine
    <3> QED
      BY <3>1, <3>2
  <2> QED
    BY <2>1, <2>2 DEF InPass, Now
<1>5. Now.q = queue /\ Now.d = dead
  BY DEF Now
<1> QED
  BY <1>2, <1>3, <1>4, <1>5 DEF Due, Ahead

\* start(), and a message put straight onto a queue: one copy, or none.
LEMMA SquareSends ==
  ASSUME Sound, Sound', NEW r \in Runs,
         Starts(r) \/ Posts(r) \/ StartRefused(r) \/ StartFails(r)
  PROVE  /\ Begins(r)
         /\ \A q \in Runs \ {r} : Squares(q) /\ (q \in started' => q \in started)
<1> DEFINE i == IF setup.route[r].form = "none" THEN setup.route[r].at ELSE 1
           c == First(r)
<1>1. /\ r \notin asked /\ dead' = dead /\ UNCHANGED <<hand, pc, pass, done, counted>>
      /\ \/ queue' = queue
         \/ queue' = [queue EXCEPT ![i] = Append(queue[i], c)]
      /\ started' = started \/ (/\ started' = started \cup {r}
                                /\ queue' = [queue EXCEPT ![i] = Append(queue[i], c)])
  <2>1. CASE Starts(r)
    BY <2>1 DEF Starts, Sent, Enters, stops, replays
  <2>2. CASE Posts(r)
    BY <2>2 DEF Posts, Sent, Enters, stops, replays
  <2>3. CASE StartRefused(r)
    BY <2>3 DEF StartRefused, broker, stops, replays
  <2>4. CASE StartFails(r)
    BY <2>4 DEF StartFails, Enters, stops, replays
  <2> QED
    BY <2>1, <2>2, <2>3, <2>4
<1>2. /\ i \in Stops /\ queue \in [Stops -> Seq(Copy)] /\ dead \in [Stops -> Seq(Copy)]
      /\ c \in Copy /\ c.run = r
  <2>1. setup.route[r] \in Route
    BY RoutingSlipAssumption DEF Sound, TypeOK, Setup
  <2>2. i \in Stops /\ setup.route[r].form \in Forms \cup {"none"}
    BY <2>1, RoutingSlipAssumption DEF Route, Stops
  <2>3. c = [run |-> r, attempt |-> 1, done |-> 0, form |-> setup.route[r].form]
    BY DEF First
  <2>4. c \in Copy /\ c.run = r
    BY <2>2, <2>3, RoutingSlipAssumption DEF Copy
  <2> QED
    BY <2>2, <2>4 DEF Sound, TypeOK
<1> HIDE DEF i, c
<1>3. /\ SameBut(queue, queue', i) /\ SameBut(dead, dead', i)
      /\ SameBut(hand, hand', i) /\ SameBut(pc, pc', i) /\ pass' = pass
  BY <1>1, <1>2 DEF SameBut
<1>4. ASSUME NEW q \in Runs, NEW k \in Places
      PROVE  /\ Due(q, k) \in Nat
             /\ \/ DueNext(q, k) = Due(q, k) /\ queue' = queue
                \/ DueNext(q, k) = Due(q, k) + (IF i <= k THEN One(q = r) ELSE 0)
  <2>1. /\ Due(q, k) \in Nat /\ DueNext(q, k) \in Nat
        /\ CountOf(queue[i], q) \in Nat /\ CountOf(queue'[i], q) \in Nat
        /\ CountOf(dead[i], q) \in Nat /\ CountOf(dead'[i], q) \in Nat
        /\ i <= k => DueNext(q, k) = Due(q, k)
                       + (CountOf(queue'[i], q) - CountOf(queue[i], q))
                       + (CountOf(dead'[i], q) - CountOf(dead[i], q))
                       + (One(BearingNext(q, k, i)) - One(Bearing(q, k, i)))
        /\ ~(i <= k) => DueNext(q, k) = Due(q, k)
    BY <1>2, <1>3, DueAtStop
  <2>2. /\ One(BearingNext(q, k, i)) = One(Bearing(q, k, i)) /\ One(Bearing(q, k, i)) \in Nat
        /\ One(q = r) \in Nat
    BY <1>1 DEF One, Bearing, BearingNext
  <2>3. dead'[i] = dead[i]
    BY <1>1
  <2>4. \/ queue' = queue
        \/ CountOf(queue'[i], q) = CountOf(queue[i], q) + One(q = r)
    <3>1. CASE queue' = queue
      BY <3>1
    <3>2. CASE queue' = [queue EXCEPT ![i] = Append(queue[i], c)]
      <4>1. queue'[i] = Append(queue[i], c)
        BY <1>2, <3>2
      <4> QED
        BY <1>2, <4>1, CountEnds DEF One
    <3> QED
      BY <1>1, <3>1, <3>2
  <2> QED
    BY <2>1, <2>2, <2>3, <2>4
<1>5. Begins(r)
  <2>1. ASSUME NEW k \in Places PROVE TimesNext(r, k) = 0 /\ DueNext(r, k) <= 1
    <3>1. k = LastStop + 1 \/ k \in Stops
      BY RoutingSlipAssumption DEF Places, Stops
    <3>2. TimesNext(r, k) = 0
      BY <1>1, <3>1 DEF TimesNext, Sound, Unasked
    <3>3. Due(r, k) = 0 /\ One(r = r) = 1
      BY <1>1, NothingYet DEF One
    <3> QED
      BY <1>4, <3>2, <3>3
  <2>2. r \in started' => DueNext(r, LastStop + 1) > 0
    <3> SUFFICES ASSUME r \in started' PROVE DueNext(r, LastStop + 1) > 0
      OBVIOUS
    <3>1. LastStop + 1 \in Places /\ i <= LastStop + 1
      BY <1>2, RoutingSlipAssumption DEF Places, Stops
    <3>2. queue' = [queue EXCEPT ![i] = Append(queue[i], c)]
      BY <1>1 DEF Sound, TypeOK
    <3>3. queue' # queue
      <4>1. queue'[i] = Append(queue[i], c) /\ queue[i] \in Seq(Copy)
        BY <1>2, <3>2
      <4>2. Len(queue'[i]) # Len(queue[i])
        BY <1>2, <4>1
      <4> QED
        BY <4>2
    <3>4. Due(r, LastStop + 1) = 0 /\ One(r = r) = 1
      BY <1>1, <3>1, NothingYet DEF One
    <3> QED
      BY <1>4, <3>1, <3>3, <3>4
  <2> QED
    BY <2>1, <2>2 DEF Begins
<1>6. ASSUME NEW q \in Runs \ {r} PROVE Squares(q) /\ (q \in started' => q \in started)
  <2>1. \A k \in Places : DueNext(q, k) = Due(q, k)
    <3>1. One(q = r) = 0
      BY DEF One
    <3> QED
      BY <1>4, <3>1
  <2>2. excuses'[q] = excuses[q]
    <3>1. CASE StartFails(r)
      BY <3>1, FaultIs DEF StartFails
    <3>2. CASE ~StartFails(r)
      BY <3>2 DEF Starts, Posts, StartRefused
    <3> QED
      BY <3>1, <3>2
  <2>3. counted'[q] = counted[q] /\ done'[q] = done[q] /\ (q \in started' => q \in started)
    BY <1>1
  <2> QED
    BY <2>1, <2>2, <2>3, SquareOf
<1> QED
  BY <1>5, <1>6

\* A step that moves no message.
LEMMA SquareStill ==
  ASSUME Sound, Sound', UNCHANGED <<queue, dead, hand, pc, pass, done, counted, excuses>>, NEW r \in Runs
  PROVE  Squares(r)
<1>1. NowNext = Now
  BY DEF NowNext, Now
<1>2. \A k \in Places : DueNext(r, k) = Due(r, k)
  BY <1>1 DEF DueNext, Due
<1> QED
  BY <1>2, SquareOf

\* What a replay holds of a run.
HeldOf(r) == CountOf(pass.declined, r) + One(pass.held.run = r /\ ~pass.acking)

HeldOfNext(r) == CountOf(pass'.declined, r) + One(pass'.held.run = r /\ ~pass'.acking)

\* What a step of the replay makes of what is ahead.
LEMMA DueAtPass ==
  ASSUME Sound, Sound', NEW x \in Stops, pass.at \in {x, None}, pass'.at \in {x, None},
         SameBut(queue, queue', x), SameBut(dead, dead', x), UNCHANGED <<hand, pc>>,
         NEW r \in Runs, NEW k \in Places
  PROVE  /\ Due(r, k) \in Nat /\ DueNext(r, k) \in Nat
         /\ CountOf(queue[x], r) \in Nat /\ CountOf(queue'[x], r) \in Nat
         /\ CountOf(dead[x], r) \in Nat /\ CountOf(dead'[x], r) \in Nat
         /\ HeldOf(r) \in Nat /\ HeldOfNext(r) \in Nat
         /\ x <= k => DueNext(r, k) = Due(r, k)
                        + (CountOf(queue'[x], r) - CountOf(queue[x], r))
                        + (CountOf(dead'[x], r) - CountOf(dead[x], r))
                        + (HeldOfNext(r) - HeldOf(r))
         /\ ~(x <= k) => DueNext(r, k) = Due(r, k)
<1> DEFINE st == Now
           to == NowNext
<1>1. st \in State /\ to \in State
  BY StateIs
<1>2. /\ st.q = queue /\ st.d = dead /\ st.h = hand /\ st.c = pc /\ st.p = pass
      /\ to.q = queue' /\ to.d = dead' /\ to.h = hand' /\ to.c = pc' /\ to.p = pass'
  BY DEF Now, NowNext
<1>3. /\ st.p.at \in {x, None} /\ (st.p.at = None => st.p = NoPass)
      /\ to.p.at \in {x, None} /\ (to.p.at = None => to.p = NoPass)
      /\ to.h = st.h /\ to.c = st.c
  BY <1>2 DEF Sound, Passing
<1>4. SameBut(st.q, to.q, x) /\ SameBut(st.d, to.d, x)
  BY <1>2
<1>5. InPass(st, r) = HeldOf(r) /\ InPass(to, r) = HeldOfNext(r)
  BY <1>2 DEF InPass, HeldOf, HeldOfNext, One
<1> HIDE DEF st, to
<1>6. /\ Ahead(st, r, k) \in Nat /\ Ahead(to, r, k) \in Nat
      /\ CountOf(st.q[x], r) \in Nat /\ CountOf(to.q[x], r) \in Nat
      /\ CountOf(st.d[x], r) \in Nat /\ CountOf(to.d[x], r) \in Nat
      /\ InPass(st, r) \in Nat /\ InPass(to, r) \in Nat
      /\ x <= k => Ahead(to, r, k) = Ahead(st, r, k)
                        + (CountOf(to.q[x], r) - CountOf(st.q[x], r))
                        + (CountOf(to.d[x], r) - CountOf(st.d[x], r))
                        + (InPass(to, r) - InPass(st, r))
      /\ ~(x <= k) => Ahead(to, r, k) = Ahead(st, r, k)
  BY ONLY <1>1, <1>3, <1>4, x \in Stops, r \in Runs, k \in Places, AtPass
<1>7. Due(r, k) = Ahead(st, r, k) /\ DueNext(r, k) = Ahead(to, r, k)
  BY DEF Due, DueNext, st, to
<1> QED
  BY <1>2, <1>5, <1>6, <1>7

\* One that leaves as many copies of a run as there were.
LEMMA SquarePass ==
  ASSUME Sound, Sound', NEW x \in Stops, pass.at \in {x, None}, pass'.at \in {x, None},
         SameBut(queue, queue', x), SameBut(dead, dead', x), UNCHANGED <<hand, pc, done, counted, excuses>>,
         NEW r \in Runs,
         CountOf(queue'[x], r) + CountOf(dead'[x], r) + HeldOfNext(r)
           = CountOf(queue[x], r) + CountOf(dead[x], r) + HeldOf(r)
  PROVE  Squares(r)
<1>1. ASSUME NEW k \in Places PROVE DueNext(r, k) = Due(r, k)
  <2>1. /\ Due(r, k) \in Nat /\ DueNext(r, k) \in Nat
        /\ CountOf(queue[x], r) \in Nat /\ CountOf(queue'[x], r) \in Nat
        /\ CountOf(dead[x], r) \in Nat /\ CountOf(dead'[x], r) \in Nat
        /\ HeldOf(r) \in Nat /\ HeldOfNext(r) \in Nat
        /\ x <= k => DueNext(r, k) = Due(r, k)
                       + (CountOf(queue'[x], r) - CountOf(queue[x], r))
                       + (CountOf(dead'[x], r) - CountOf(dead[x], r))
                       + (HeldOfNext(r) - HeldOf(r))
        /\ ~(x <= k) => DueNext(r, k) = Due(r, k)
    BY DueAtPass
  <2> QED
    BY <2>1
<1> QED
  BY <1>1, SquareOf

\* What it holds while it is under way, and when there is none.
LEMMA HeldIs ==
  ASSUME Sound, NEW r \in Runs
  PROVE  /\ CountOf(<<>>, r) = 0 /\ NoCopy.run # r
         /\ pass = NoPass => HeldOf(r) = 0
         /\ pass' = NoPass => HeldOfNext(r) = 0
         /\ CountOf(pass.declined, r) \in Nat /\ pass.declined \in Seq(Copy)
         /\ One(pass.held.run = r) \in {0, 1}
<1>1. CountOf(<<>>, r) = 0
  <2>1. InLine(<<>>, r) = {}
    BY DEF InLine
  <2> QED
    BY <2>1, FS_EmptySet DEF CountOf
<1>2. NoCopy.run # r
  BY RoutingSlipAssumption DEF NoCopy
<1>3. CountOf(pass.declined, r) \in Nat /\ pass.declined \in Seq(Copy)
  BY CountIs DEF Sound, TypeOK
<1>4. pass = NoPass => HeldOf(r) = 0
  BY <1>1, <1>2 DEF HeldOf, NoPass, One
<1>5. pass' = NoPass => HeldOfNext(r) = 0
  BY <1>1, <1>2 DEF HeldOfNext, NoPass, One
<1> QED
  BY <1>1, <1>2, <1>3, <1>4, <1>5 DEF One

\* A replay that begins moves nothing.
LEMMA SquareReplays ==
  ASSUME Sound, Sound', NEW i \in Stops, NEW to \in {"queue", "own"}, Replays(i, to), NEW r \in Runs
  PROVE  Squares(r)
<1>1. /\ pass = NoPass /\ UNCHANGED <<queue, dead, hand, pc, done, counted, excuses>>
      /\ pass' = [at |-> i, to |-> to, moved |-> 0, held |-> NoCopy, acking |-> FALSE, declined |-> <<>>]
  BY DEF Replays, NoPass, pipe, broker, stops, history
<1>2. pass.at \in {i, None} /\ pass'.at \in {i, None}
  BY <1>1 DEF NoPass
<1>3. SameBut(queue, queue', i) /\ SameBut(dead, dead', i)
  BY <1>1 DEF SameBut
<1>4. HeldOf(r) = 0 /\ HeldOfNext(r) = 0
  BY <1>1, HeldIs DEF HeldOfNext, One
<1>5. CountOf(queue'[i], r) + CountOf(dead'[i], r) + HeldOfNext(r)
           = CountOf(queue[i], r) + CountOf(dead[i], r) + HeldOf(r)
  BY <1>1, <1>4
<1> QED
  BY <1>1, <1>2, <1>3, <1>5, SquarePass

\* A replay that is under way.
LEMMA AtWhich ==
  ASSUME Sound, pass.at # None
  PROVE  /\ pass.at \in Stops /\ pass \in Pass
         /\ queue \in [Stops -> Seq(Copy)] /\ dead \in [Stops -> Seq(Copy)]
         /\ pass.acking => pass.held # NoCopy
         /\ pass.held # NoCopy => pass.held \in Copy
BY DEF Sound, TypeOK, Passing, Pass

\* A dead letter that is read is in the hand of the replay instead.
LEMMA SquarePulls ==
  ASSUME Sound, Sound', Pulls, NEW r \in Runs
  PROVE  Squares(r)
<1> DEFINE x == pass.at
           c == Head(dead[x])
<1>1. /\ UNCHANGED <<queue, hand, pc, done, counted, excuses>>
      /\ x # None /\ pass.held = NoCopy /\ dead[x] # <<>>
      /\ dead' = [dead EXCEPT ![x] = Tail(dead[x])]
      /\ pass' = [pass EXCEPT !.declined = Append(@, c)] \/ pass' = [pass EXCEPT !.held = c]
  BY DEF Pulls, Reading, pipe, stops, history
<1>2. /\ x \in Stops /\ pass \in Pass /\ dead \in [Stops -> Seq(Copy)] /\ pass.acking = FALSE
      /\ queue \in [Stops -> Seq(Copy)]
  <2>1. /\ x \in Stops /\ pass \in Pass /\ dead \in [Stops -> Seq(Copy)] /\ queue \in [Stops -> Seq(Copy)]
        /\ pass.acking => pass.held # NoCopy
    BY <1>1, AtWhich
  <2> QED
    BY <1>1, <2>1 DEF Pass
<1>3. /\ c \in Copy /\ CountOf(Tail(dead[x]), r) = CountOf(dead[x], r) - One(c.run = r)
      /\ CountOf(dead[x], r) \in Nat /\ CountOf(queue[x], r) \in Nat /\ One(c.run = r) \in Nat
  BY <1>1, <1>2, CountEnds, CountIs DEF One
<1>4. CountOf(Append(pass.declined, c), r) = CountOf(pass.declined, r) + One(c.run = r)
  BY <1>3, HeldIs, CountEnds DEF One
<1> HIDE DEF c
<1>5. HeldOf(r) = CountOf(pass.declined, r) /\ HeldOf(r) \in Nat
  BY <1>1, HeldIs DEF HeldOf, One
<1>6. HeldOfNext(r) = HeldOf(r) + One(c.run = r) /\ pass'.at = x
  <2>1. CASE pass' = [pass EXCEPT !.declined = Append(@, c)]
    <3>1. /\ pass'.declined = Append(pass.declined, c) /\ pass'.held = NoCopy /\ pass'.at = x
      BY <1>1, <1>2, <2>1 DEF Pass
    <3>2. One(pass'.held.run = r /\ ~pass'.acking) = 0
      BY <3>1, HeldIs DEF One
    <3> QED
      BY <1>3, <1>4, <1>5, <3>1, <3>2 DEF HeldOfNext
  <2>2. CASE pass' = [pass EXCEPT !.held = c]
    <3>1. /\ pass'.declined = pass.declined /\ pass'.held = c /\ pass'.acking = FALSE /\ pass'.at = x
      BY <1>2, <2>2 DEF Pass
    <3>2. One(pass'.held.run = r /\ ~pass'.acking) = One(c.run = r)
      BY <3>1 DEF One
    <3> QED
      BY <1>5, <3>1, <3>2 DEF HeldOfNext
  <2> QED
    BY <1>1, <2>1, <2>2
<1>7. SameBut(queue, queue', x) /\ SameBut(dead, dead', x) /\ dead'[x] = Tail(dead[x]) /\ queue'[x] = queue[x]
  BY <1>1, <1>2 DEF SameBut
<1>8. CountOf(queue'[x], r) + CountOf(dead'[x], r) + HeldOfNext(r)
        = CountOf(queue[x], r) + CountOf(dead[x], r) + HeldOf(r)
  BY <1>3, <1>5, <1>6, <1>7
<1>9. pass.at \in {x, None} /\ pass'.at \in {x, None}
  BY <1>6
<1> HIDE DEF x
<1> QED
  BY <1>1, <1>2, <1>7, <1>8, <1>9, SquarePass

\* A copy put back is of the same run.
LEMMA FreshIs ==
  ASSUME NEW c \in Copy
  PROVE  Fresh(c) \in Copy /\ Fresh(c).run = c.run
<1>1. 1 \in 1..MaxAttempts
  BY RoutingSlipAssumption
<1> QED
  BY <1>1 DEF Fresh, Copy

\* A copy put back is on the queue, and the one held no longer counts.
LEMMA SquarePublishes ==
  ASSUME Sound, Sound', Publishes, NEW r \in Runs
  PROVE  Squares(r)
<1> DEFINE x == pass.at
           c == Fresh(pass.held)
<1>1. /\ UNCHANGED <<hand, pc, done, counted, excuses>>
      /\ pass.held # NoCopy /\ pass.acking = FALSE /\ Returns(pass.held)
      /\ pass' = [pass EXCEPT !.acking = TRUE]
  BY DEF Publishes, pipe, stops, history, Sound, TypeOK
<1>2. x # None
  BY <1>1 DEF Sound, Passing, NoPass
<1>3. /\ x \in Stops /\ pass \in Pass /\ queue \in [Stops -> Seq(Copy)] /\ dead \in [Stops -> Seq(Copy)]
      /\ pass.held \in Copy
  BY <1>1, <1>2, AtWhich
<1>4. c \in Copy /\ c.run = pass.held.run
  BY <1>3, FreshIs
<1>5. /\ CountOf(Append(queue[x], c), r) = CountOf(queue[x], r) + One(pass.held.run = r)
      /\ CountOf(Append(dead[x], c), r) = CountOf(dead[x], r) + One(pass.held.run = r)
      /\ CountOf(dead[x], r) \in Nat /\ CountOf(queue[x], r) \in Nat /\ One(pass.held.run = r) \in Nat
  BY <1>3, <1>4, CountEnds, CountIs DEF One
<1>6. /\ SameBut(queue, queue', x) /\ SameBut(dead, dead', x)
      /\ CountOf(queue'[x], r) + CountOf(dead'[x], r)
           = CountOf(queue[x], r) + CountOf(dead[x], r) + One(pass.held.run = r)
  <2>1. CASE queue' = [queue EXCEPT ![x] = Append(queue[x], c)] /\ dead' = dead
    <3>1. queue'[x] = Append(queue[x], c) /\ dead'[x] = dead[x]
      BY <1>3, <2>1
    <3> HIDE DEF c
    <3> QED
      BY <1>3, <1>5, <2>1, <3>1 DEF SameBut
  <2>2. CASE dead' = [dead EXCEPT ![x] = Append(dead[x], c)] /\ queue' = queue
    <3>1. dead'[x] = Append(dead[x], c) /\ queue'[x] = queue[x]
      BY <1>3, <2>2
    <3> HIDE DEF c
    <3> QED
      BY <1>3, <1>5, <2>2, <3>1 DEF SameBut
  <2> QED
    BY <1>1, <2>1, <2>2 DEF Returns, Enters
<1>7. /\ HeldOf(r) = CountOf(pass.declined, r) + One(pass.held.run = r)
      /\ HeldOfNext(r) = CountOf(pass.declined, r) /\ pass'.at = x
  <2>1. /\ pass'.declined = pass.declined /\ pass'.acking = TRUE /\ pass'.at = x
    BY <1>1, <1>3 DEF Pass
  <2>2. /\ One(pass.held.run = r /\ ~pass.acking) = One(pass.held.run = r)
        /\ One(pass'.held.run = r /\ ~pass'.acking) = 0
    BY <1>1, <2>1 DEF One
  <2> QED
    BY <2>1, <2>2, HeldIs DEF HeldOf, HeldOfNext
<1>8. CountOf(queue'[x], r) + CountOf(dead'[x], r) + HeldOfNext(r)
        = CountOf(queue[x], r) + CountOf(dead[x], r) + HeldOf(r)
  <2>1. CountOf(queue'[x], r) + CountOf(dead'[x], r) + HeldOfNext(r)
          = (CountOf(queue[x], r) + CountOf(dead[x], r) + One(pass.held.run = r)) + CountOf(pass.declined, r)
    BY <1>6, <1>7
  <2>2. CountOf(pass.declined, r) \in Nat
    BY HeldIs
  <2> QED
    BY <1>5, <1>7, <2>1, <2>2
<1>9. pass.at \in {x, None} /\ pass'.at \in {x, None}
  BY <1>7
<1> HIDE DEF x
<1> QED
  BY <1>1, <1>3, <1>6, <1>8, <1>9, SquarePass

\* An acknowledgement takes away one that no longer counted.
LEMMA SquareAcks ==
  ASSUME Sound, Sound', Acks, NEW r \in Runs
  PROVE  Squares(r)
<1> DEFINE x == pass.at
<1>1. /\ UNCHANGED <<queue, dead, hand, pc, done, counted, excuses>>
      /\ pass.acking = TRUE /\ pass' = [pass EXCEPT !.held = NoCopy, !.acking = FALSE, !.moved = @ + 1]
  BY DEF Acks, pipe, broker, stops, history, Sound, TypeOK
<1>2. x # None
  BY <1>1 DEF Sound, Passing, NoPass
<1>3. x \in Stops /\ pass \in Pass
  BY <1>2, AtWhich
<1>4. pass'.at = x /\ pass'.held = NoCopy /\ pass'.declined = pass.declined
  <2> HIDE DEF NoCopy
  <2> QED
    BY <1>1, <1>3 DEF Pass
<1>5. HeldOfNext(r) = HeldOf(r)
  <2>1. One(pass.held.run = r /\ ~pass.acking) = 0 /\ One(pass'.held.run = r /\ ~pass'.acking) = 0
    BY <1>1, <1>4, HeldIs DEF One
  <2> QED
    BY <1>4, <2>1 DEF HeldOf, HeldOfNext
<1>6. /\ SameBut(queue, queue', x) /\ SameBut(dead, dead', x) /\ pass.at \in {x, None} /\ pass'.at \in {x, None}
      /\ CountOf(queue'[x], r) + CountOf(dead'[x], r) + HeldOfNext(r)
           = CountOf(queue[x], r) + CountOf(dead[x], r) + HeldOf(r)
  BY <1>1, <1>4, <1>5 DEF SameBut
<1> HIDE DEF x
<1> QED
  BY <1>1, <1>3, <1>6, SquarePass

\* What goes back to the dead letters when a pass is over.
LEMMA UnsettledIs ==
  ASSUME Sound, pass.at # None, NEW r \in Runs
  PROVE  /\ Unsettled \in Seq(Copy)
         /\ CountOf(Unsettled, r) = CountOf(pass.declined, r) + One(pass.held.run = r)
<1> DEFINE h == IF pass.held = NoCopy THEN <<>> ELSE <<pass.held>>
           s == pass.declined
<1>1. s \in Seq(Copy) /\ (pass.held # NoCopy => pass.held \in Copy)
  BY AtWhich, HeldIs
<1>2. h \in Seq(Copy) /\ CountOf(h, r) = One(pass.held.run = r)
  <2>1. CASE pass.held = NoCopy
    BY <2>1, HeldIs DEF One
  <2>2. CASE pass.held # NoCopy
    BY <1>1, <2>2, CountOne DEF One
  <2> QED
    BY <2>1, <2>2
<1> HIDE DEF h, s
<1>3. s \o h \in Seq(Copy) /\ CountOf(s \o h, r) = CountOf(s, r) + CountOf(h, r)
  BY <1>1, <1>2, CountConcat
<1>4. Unsettled = s \o h
  BY DEF Unsettled, s, h
<1> QED
  BY <1>2, <1>3, <1>4 DEF s

\* At the limit, drained or out of time: what was declined goes back.
LEMMA SquareEnds ==
  ASSUME Sound, Sound', Ends \/ RunsOut, NEW r \in Runs
  PROVE  Squares(r)
<1> DEFINE x == pass.at
           u == Unsettled
<1>1. /\ UNCHANGED <<queue, hand, pc, done, counted, excuses>> /\ x # None /\ pass.held = NoCopy
      /\ dead' = [dead EXCEPT ![x] = u \o dead[x]] /\ pass' = NoPass
  BY DEF Ends, RunsOut, HandsBack, Reading, pipe, stops, history
<1>2. /\ x \in Stops /\ queue \in [Stops -> Seq(Copy)] /\ dead \in [Stops -> Seq(Copy)]
      /\ u \in Seq(Copy) /\ CountOf(u, r) = CountOf(pass.declined, r) + One(pass.held.run = r)
  BY <1>1, AtWhich, UnsettledIs
<1>3. /\ One(pass.held.run = r) = 0 /\ HeldOf(r) = CountOf(pass.declined, r) /\ HeldOfNext(r) = 0
      /\ CountOf(pass.declined, r) \in Nat
  BY <1>1, HeldIs DEF One, HeldOf
<1> HIDE DEF u, x
<1>4. dead'[x] = u \o dead[x] /\ CountOf(u \o dead[x], r) = CountOf(u, r) + CountOf(dead[x], r)
      /\ CountOf(dead[x], r) \in Nat /\ CountOf(queue[x], r) \in Nat
  BY <1>1, <1>2, CountConcat, CountIs
<1>5. CountOf(queue'[x], r) + CountOf(dead'[x], r) + HeldOfNext(r)
        = CountOf(queue[x], r) + CountOf(dead[x], r) + HeldOf(r)
  BY <1>1, <1>2, <1>3, <1>4
<1>6. SameBut(queue, queue', x) /\ SameBut(dead, dead', x)
  BY <1>1, <1>2 DEF SameBut
<1>7. pass.at \in {x, None} /\ pass'.at \in {x, None}
  BY <1>1 DEF x, NoPass
<1> QED
  BY <1>1, <1>2, <1>5, <1>6, <1>7, SquarePass

\* A pass that fails leaves one copy more at most, at the cost of one excuse.
LEMMA SquarePassFails ==
  ASSUME Sound, Sound', PassFails, NEW r \in Runs
  PROVE  Squares(r)
<1> DEFINE x == pass.at
           u == Unsettled
           n == One(pass.held.run = r)
<1>1. /\ UNCHANGED <<hand, pc, done, counted>> /\ pass.held # NoCopy /\ Fault(pass.held.run) /\ pass' = NoPass
  BY DEF PassFails, pipe, stops, history
<1>2. x # None
  BY <1>1 DEF Sound, Passing, NoPass
<1>3. /\ x \in Stops /\ queue \in [Stops -> Seq(Copy)] /\ dead \in [Stops -> Seq(Copy)] /\ pass \in Pass
      /\ u \in Seq(Copy) /\ CountOf(u, r) = CountOf(pass.declined, r) + n
      /\ pass.held \in Copy /\ pass.held.run \in Runs
  BY <1>1, <1>2, AtWhich, UnsettledIs, CopyIs
<1>4. PICK arrived \in IF pass.acking THEN {FALSE} ELSE BOOLEAN :
        LET copy(to) == IF arrived /\ pass.to = to THEN <<Fresh(pass.held)>> ELSE <<>>
        IN /\ dead' = [dead EXCEPT ![x] = (u \o @) \o copy("own")]
           /\ queue' = [queue EXCEPT ![x] = @ \o copy("queue")]
  BY DEF PassFails
<1> DEFINE a == IF arrived /\ pass.to = "own" THEN <<Fresh(pass.held)>> ELSE <<>>
           b == IF arrived /\ pass.to = "queue" THEN <<Fresh(pass.held)>> ELSE <<>>
           d == dead[x]
           q == queue[x]
<1>5. /\ a \in Seq(Copy) /\ b \in Seq(Copy) /\ n \in {0, 1}
      /\ CountOf(a, r) \in Nat /\ CountOf(b, r) \in Nat
      /\ CountOf(a, r) + CountOf(b, r) \in IF pass.acking THEN {0} ELSE {0, n}
  <2> DEFINE c == Fresh(pass.held)
  <2>1. c \in Copy /\ c.run = pass.held.run
    BY <1>3, FreshIs
  <2> HIDE DEF c
  <2>2. <<c>> \in Seq(Copy) /\ CountOf(<<c>>, r) = n /\ <<>> \in Seq(Copy) /\ CountOf(<<>>, r) = 0 /\ n \in {0, 1}
    BY <2>1, CountOne DEF One
  <2>3. a \in {<<>>, <<c>>} /\ b \in {<<>>, <<c>>} /\ (a = <<>> \/ b = <<>>) /\ (pass.acking => a = <<>> /\ b = <<>>)
    BY DEF c
  <2> DEFINE e == <<>>
             o == <<c>>
  <2>4. /\ e \in Seq(Copy) /\ o \in Seq(Copy) /\ CountOf(e, r) = 0 /\ CountOf(o, r) = n
        /\ a \in {e, o} /\ b \in {e, o} /\ (a = e \/ b = e) /\ (pass.acking => a = e /\ b = e)
    BY <2>2, <2>3
  <2> HIDE DEF a, b, n, e, o
  <2>5. /\ CountOf(a, r) \in {0, n} /\ CountOf(b, r) \in {0, n}
        /\ CountOf(a, r) = 0 \/ CountOf(b, r) = 0
        /\ pass.acking => CountOf(a, r) = 0 /\ CountOf(b, r) = 0
    BY <2>4
  <2>6. a \in Seq(Copy) /\ b \in Seq(Copy) /\ n \in {0, 1}
    BY <2>2, <2>4
  <2> QED
    BY <2>5, <2>6
<1>6. dead' = [dead EXCEPT ![x] = (u \o d) \o a] /\ queue' = [queue EXCEPT ![x] = q \o b]
  BY <1>4
<1>7. d \in Seq(Copy) /\ q \in Seq(Copy)
  BY <1>3
<1>8. /\ HeldOf(r) = CountOf(pass.declined, r) + (IF pass.acking THEN 0 ELSE n)
      /\ HeldOfNext(r) = 0 /\ CountOf(pass.declined, r) \in Nat /\ pass.acking \in BOOLEAN
  BY <1>1, <1>3, HeldIs DEF HeldOf, One, Pass
<1> HIDE DEF u, n, a, b, d, q, x
<1>9. dead'[x] = (u \o d) \o a /\ queue'[x] = q \o b /\ SameBut(queue, queue', x) /\ SameBut(dead, dead', x)
  BY <1>3, <1>6 DEF SameBut
<1>10. /\ CountOf(dead'[x], r) = (CountOf(u, r) + CountOf(d, r)) + CountOf(a, r)
       /\ CountOf(queue'[x], r) = CountOf(q, r) + CountOf(b, r)
       /\ CountOf(d, r) \in Nat /\ CountOf(q, r) \in Nat
  <2>1. u \o d \in Seq(Copy) /\ CountOf(u \o d, r) = CountOf(u, r) + CountOf(d, r)
    BY <1>3, <1>7, CountConcat
  <2>2. CountOf((u \o d) \o a, r) = CountOf(u \o d, r) + CountOf(a, r)
    BY <1>5, <2>1, CountConcat
  <2>3. CountOf(q \o b, r) = CountOf(q, r) + CountOf(b, r)
    BY <1>5, <1>7, CountConcat
  <2> QED
    BY <1>7, <1>9, <2>1, <2>2, <2>3, CountIs
<1>11. ASSUME NEW k \in Places
       PROVE  IF pass.held.run = r THEN Due(r, k) <= DueNext(r, k) /\ DueNext(r, k) <= Due(r, k) + 1
                                   ELSE DueNext(r, k) = Due(r, k)
  <2>1. pass.at \in {x, None} /\ pass'.at \in {x, None}
    BY <1>1 DEF x, NoPass
  <2>2. /\ Due(r, k) \in Nat /\ DueNext(r, k) \in Nat
        /\ x <= k => DueNext(r, k) = Due(r, k)
                       + (CountOf(queue'[x], r) - CountOf(q, r))
                       + (CountOf(dead'[x], r) - CountOf(d, r))
                       + (HeldOfNext(r) - HeldOf(r))
        /\ ~(x <= k) => DueNext(r, k) = Due(r, k)
    BY <1>1, <1>3, <1>9, <2>1, DueAtPass DEF q, d
  <2>3. n = IF pass.held.run = r THEN 1 ELSE 0
    BY DEF n, One
  <2>4. x <= k => DueNext(r, k) = Due(r, k) + (CountOf(a, r) + CountOf(b, r)) + (IF pass.acking THEN n ELSE 0)
    <3>1. CountOf(queue'[x], r) - CountOf(q, r) = CountOf(b, r)
      BY <1>5, <1>10
    <3>2. CountOf(dead'[x], r) - CountOf(d, r) = (CountOf(pass.declined, r) + n) + CountOf(a, r)
      BY <1>3, <1>5, <1>8, <1>10
    <3>3. HeldOfNext(r) - HeldOf(r) = 0 - (CountOf(pass.declined, r) + (IF pass.acking THEN 0 ELSE n))
      BY <1>8
    <3>4. x <= k => DueNext(r, k) = Due(r, k) + CountOf(b, r)
                       + ((CountOf(pass.declined, r) + n) + CountOf(a, r))
                       + (0 - (CountOf(pass.declined, r) + (IF pass.acking THEN 0 ELSE n)))
      BY <2>2, <3>1, <3>2, <3>3
    <3> QED
      BY <1>5, <1>8, <2>2, <3>4
  <2> DEFINE m == CountOf(a, r) + CountOf(b, r)
  <2>5. m \in (IF pass.acking THEN {0} ELSE {0, n})
    BY <1>5
  <2> HIDE DEF m
  <2>6. x <= k => DueNext(r, k) = Due(r, k) + m + (IF pass.acking THEN n ELSE 0)
    BY <2>4 DEF m
  <2> QED
    BY <2>2, <2>3, <2>5, <2>6
<1>12. excuses'[r] = IF pass.held.run = r THEN More(excuses[r]) ELSE excuses[r]
  BY <1>1, <1>3, FaultIs
<1> QED
  BY <1>1, <1>11, <1>12, SquareOf

-----------------------------------------------------------------------------
(* The theorems *)

\* Every step keeps the balance.
LEMMA BalanceNext ==
  ASSUME Sound, Sound', Balanced, [Next]_vars
  PROVE  Balanced'
<1>1. setup' = setup
  BY Grows DEF Sound
<1>2. ASSUME \A r \in Runs : Squares(r), started' = started PROVE Balanced'
  BY <1>1, <1>2, BalanceKept
<1>3. ASSUME NEW r \in Runs, Starts(r) \/ Posts(r) \/ StartRefused(r) \/ StartFails(r) PROVE Balanced'
  <2>1. Begins(r) /\ \A q \in Runs \ {r} : Squares(q) /\ (q \in started' => q \in started)
    BY <1>3, SquareSends
  <2> QED
    BY <1>1, <2>1, BalanceKept
<1>4. CASE StepStarts \/ BuildFails \/ Closes \/ \E i \in Stops : GroupCloses(i)
  <2>1. UNCHANGED <<queue, dead, hand, pc, pass, done, counted, excuses>> /\ started' = started
    BY <1>4 DEF StepStarts, BuildFails, Closes, GroupCloses, broker, stops, replays, history
  <2> QED
    BY <1>2, <2>1, SquareStill
<1>5. ASSUME NEW i \in Stops, Takes(i) \/ Travels(i) \/ Crashes(i) PROVE Balanced'
  <2>1. started' = started
    BY <1>5 DEF Takes, Travels, Refuses, StepFails, EndsEarly, StepDone, Works, Hops, HopFails, Settles,
       Crashes, history
  <2>2. ASSUME NEW r \in Runs PROVE Squares(r)
    <3>1. CASE Takes(i)
      BY <3>1, SquareTakes
    <3>2. CASE Refuses(i) \/ StepFails(i)
      BY <3>2, SquareVerdicts
    <3>3. CASE EndsEarly(i)
      BY <3>3, SquareEndsEarly
    <3>4. CASE StepDone(i)
      BY <3>4, SquareStepDone
    <3>5. CASE Hops(i)
      BY <3>5, SquareHops
    <3>6. CASE HopFails(i)
      BY <3>6, SquareHopFails
    <3>7. CASE Settles(i)
      BY <3>7, SquareSettles
    <3>8. CASE Crashes(i)
      BY <3>8, SquareCrashes
    <3> QED
      BY <1>5, <3>1, <3>2, <3>3, <3>4, <3>5, <3>6, <3>7, <3>8 DEF Travels
  <2> QED
    BY <1>2, <2>1, <2>2
<1>6. ASSUME NEW i \in Stops, NEW to \in {"queue", "own"}, Replays(i, to) PROVE Balanced'
  <2>1. started' = started
    BY <1>6 DEF Replays, history
  <2> QED
    BY <1>2, <1>6, <2>1, SquareReplays
<1>7. CASE Passes \/ RunsOut
  <2>1. started' = started
    BY <1>7 DEF Passes, Pulls, Publishes, Acks, Ends, RunsOut, HandsBack, PassFails, history
  <2>2. ASSUME NEW r \in Runs PROVE Squares(r)
    BY <1>7, SquarePulls, SquarePublishes, SquareAcks, SquareEnds, SquarePassFails DEF Passes
  <2> QED
    BY <1>2, <2>1, <2>2
<1>8. CASE UNCHANGED vars
  <2>1. UNCHANGED <<queue, dead, hand, pc, pass, done, counted, excuses>> /\ started' = started
    BY <1>8 DEF vars, broker, stops, replays, history
  <2> QED
    BY <1>2, <2>1, SquareStill
<1> QED
  BY <1>3, <1>4, <1>5, <1>6, <1>7, <1>8 DEF Next

\* What was done for a run and what is ahead of it stay within what went wrong, at any time.
LEMMA BalanceHolds ==
  Spec => []Balanced
<1>1. Init => Balanced
  <2> SUFFICES ASSUME Init PROVE Balanced
    OBVIOUS
  <2>1. Sound
    BY InitSound
  <2>2. ASSUME NEW r \in Runs, NEW k \in Places PROVE Earned(r, k)
    <3>1. Due(r, k) = 0
      BY <2>1, NothingYet DEF Init
    <3>2. k = LastStop + 1 \/ k \in Stops
      BY RoutingSlipAssumption DEF Places, Stops
    <3>3. Times(r, k) = 0 /\ excuses[r] = 0
      BY <3>2 DEF Init, Times
    <3> QED
      BY <3>1, <3>3 DEF Earned
  <2> QED
    BY <2>2 DEF Balanced, Init
<1>2. Sound /\ Sound' /\ Balanced /\ [Next]_vars => Balanced'
  BY BalanceNext
<1> QED
  BY <1>1, <1>2, SoundHolds, PTL DEF Spec

\* What is ahead past the last stop is what the run is owed.
LEMMA OwedIs ==
  ASSUME Sound, NEW r \in Runs
  PROVE  Owed(r) = Due(r, LastStop + 1) /\ Owed(r) \in Nat
<1> DEFINE k == LastStop + 1
<1>1. UpTo(k) = Stops /\ k \in Places /\ k \notin Stops /\ None \notin Stops
  BY RoutingSlipAssumption DEF UpTo, Stops, Places
<1>2. /\ Now.q = queue /\ Now.d = dead /\ Now.h = hand /\ Now.c = pc /\ Now.p = pass
  BY DEF Now
<1> HIDE DEF k
<1>3. Lie(queue, r, UpTo(k)) = Cardinality(Lying(queue, r)) /\ Lie(dead, r, UpTo(k)) = Cardinality(Lying(dead, r))
  BY <1>1 DEF Lie, Lying
<1>4. {x \in UpTo(k) : Bears(Now, r, k, x)} = {i \in Stops : hand[i].run = r /\ pc[i] # "settling"}
  <2>1. ASSUME NEW i \in Stops PROVE Bears(Now, r, k, i) <=> hand[i].run = r /\ pc[i] # "settling"
    <3>1. pc[i] = "idle" => hand[i].run # r
      BY RoutingSlipAssumption DEF Sound, AtWork, NoCopy
    <3>2. pc[i] \in {"idle", "working", "hopping", "settling"}
      BY DEF Sound, TypeOK
    <3> QED
      BY <1>1, <1>2, <3>1, <3>2 DEF Bears
  <2> QED
    BY <1>1, <2>1
<1>5. (IF pass.at \in UpTo(k) THEN InPass(Now, r) ELSE 0)
        = CountOf(pass.declined, r) + (IF pass.held.run = r /\ ~pass.acking THEN 1 ELSE 0)
  <2>1. InPass(Now, r) = CountOf(pass.declined, r) + (IF pass.held.run = r /\ ~pass.acking THEN 1 ELSE 0)
    BY <1>2 DEF InPass
  <2>2. CASE pass.at \in Stops
    BY <1>1, <2>1, <2>2
  <2>3. CASE pass.at = None
    <3>1. pass = NoPass
      BY <2>3 DEF Sound, Passing
    <3>2. CountOf(pass.declined, r) + (IF pass.held.run = r /\ ~pass.acking THEN 1 ELSE 0) = 0
      BY <3>1, HeldIs DEF HeldOf, One
    <3> QED
      BY <1>1, <2>3, <3>2
  <2> QED
    BY <2>2, <2>3 DEF Sound, TypeOK
<1>6. Due(r, k) = Owed(r) /\ Owed(r) \in Nat
  <2> DEFINE a == IF pass.at \in UpTo(k) THEN InPass(Now, r) ELSE 0
             b == CountOf(pass.declined, r) + (IF pass.held.run = r /\ ~pass.acking THEN 1 ELSE 0)
  <2>1. Due(r, k) = Cardinality(Lying(queue, r)) + Cardinality(Lying(dead, r))
                      + Cardinality({i \in Stops : hand[i].run = r /\ pc[i] # "settling"}) + a
    BY <1>2, <1>3, <1>4 DEF Due, Ahead
  <2>2. a = b
    BY <1>5
  <2> DEFINE l == Cardinality(Lying(queue, r))
             d == Cardinality(Lying(dead, r))
             h == Cardinality({i \in Stops : hand[i].run = r /\ pc[i] # "settling"})
             c == CountOf(pass.declined, r)
             e == IF pass.held.run = r /\ ~pass.acking THEN 1 ELSE 0
  <2>3. l \in Nat /\ d \in Nat
    <3>1. Stops \in SUBSET Stops /\ 1 \in Stops
      BY RoutingSlipAssumption DEF Stops
    <3>2. queue \in [Stops -> Seq(Copy)] /\ dead \in [Stops -> Seq(Copy)]
      BY DEF Sound, TypeOK
    <3>3. Lie(queue, r, Stops) \in Nat /\ Lie(dead, r, Stops) \in Nat
      BY <3>1, <3>2, LieSplit
    <3> QED
      BY <1>1, <1>3, <3>3
  <2>4. h \in Nat
    <3>1. 1 \in Int /\ LastStop \in Int
      BY RoutingSlipAssumption
    <3>2. IsFiniteSet(Stops)
      BY <3>1, FS_Interval DEF Stops
    <3>3. {i \in Stops : hand[i].run = r /\ pc[i] # "settling"} \subseteq Stops
      OBVIOUS
    <3>4. IsFiniteSet({i \in Stops : hand[i].run = r /\ pc[i] # "settling"})
      BY <3>2, <3>3, FS_Subset
    <3> QED
      BY <3>4, FS_CardinalityType
  <2>5. c \in Nat /\ e \in Nat
    BY HeldIs
  <2>6. Due(r, k) = l + d + h + a /\ a = c + e
    BY <2>1, <2>2
  <2>7. Owed(r) = l + d + h + c + e
    BY DEF Owed
  <2> HIDE DEF a, b, l, d, h, c, e
  <2> QED
    BY <2>3, <2>4, <2>5, <2>6, <2>7
<1> QED
  BY <1>6 DEF k

\* A run that was sent is kept until it is counted, and has one copy while nothing goes
\* wrong for it: whatever the stops, the setups, the runs and the bounds are.
THEOREM RunsAreKept ==
  Spec => []RunKept
<1>1. Sound /\ Balanced => RunKept
  <2> SUFFICES ASSUME Sound, Balanced PROVE RunKept
    OBVIOUS
  <2>1. ASSUME NEW r \in started
        PROVE  /\ Owed(r) + counted[r] > 0
               /\ excuses[r] = 0 => Owed(r) + counted[r] = 1
    <3>1. r \in Runs /\ counted[r] \in 0..MaxCount /\ excuses[r] \in 0..MaxCount /\ MaxCount \in Nat \ {0}
      BY RoutingSlipAssumption DEF Sound, TypeOK
    <3>2. Owed(r) = Due(r, LastStop + 1) /\ Owed(r) \in Nat
      BY <3>1, OwedIs
    <3>3. Due(r, LastStop + 1) + counted[r] > 0
      BY <3>1 DEF Balanced
    <3>4. excuses[r] = MaxCount \/ counted[r] + Due(r, LastStop + 1) <= 1 + excuses[r]
      <4>1. LastStop + 1 \in Places
        BY RoutingSlipAssumption DEF Places
      <4> QED
        BY <3>1, <4>1 DEF Balanced, Earned, Times
    <3> QED
      BY <3>1, <3>2, <3>3, <3>4
  <2>2. life = "closed" => up = {} /\ \A i \in Stops : pc[i] = "idle"
    BY DEF Sound, Living, AtWork
  <2> QED
    BY <2>1, <2>2 DEF RunKept, Sound
<1> QED
  BY <1>1, SoundHolds, BalanceHolds, PTL

\* Work done at a stop was done at the one before, or began there.
InOrder ==
  \A r \in Runs, i \in Stops : done[r][i] > 0 =>
    i = setup.route[r].at \/ (i > 1 /\ ~Stuck(r) /\ done[r][i - 1] > 0)

\* No stop is done before the one it follows.
LEMMA InOrderNext ==
  ASSUME Sound, InOrder, [Next]_vars
  PROVE  InOrder'
<1> SUFFICES ASSUME NEW r \in Runs, NEW i \in Stops, done'[r][i] > 0
             PROVE  i = setup.route[r].at \/ (i > 1 /\ ~Stuck(r) /\ done'[r][i - 1] > 0)
  BY Grows DEF Sound, InOrder, Stuck, Writable
<1>1. /\ \A j \in Stops : done[r][j] <= done'[r][j] /\ done[r][j] \in Nat /\ done'[r][j] \in Nat
      /\ i > 1 => i - 1 \in Stops
  <2>1. /\ \A q \in Runs, j \in Stops : done[q][j] <= done'[q][j]
        /\ done' \in [Runs -> [Stops -> 0..MaxCount]] /\ done \in [Runs -> [Stops -> 0..MaxCount]]
    BY Grows DEF Sound, TypeOK
  <2> QED
    BY <2>1, RoutingSlipAssumption DEF Stops
<1>2. i = setup.route[r].at \/ (i > 1 /\ ~Stuck(r) /\ done[r][i - 1] > 0)
  <2>1. CASE done[r][i] > 0
    BY <2>1 DEF InOrder
  <2>2. CASE ~(done[r][i] > 0)
    <3>1. done' # done
      BY <2>2
    <3>2. PICK j \in Stops : Works(j)
      BY <3>1 DEF Next, vars, Starts, Posts, StartRefused, StartFails, StepStarts, BuildFails, Closes,
         GroupCloses, Takes, Travels, Refuses, StepFails, EndsEarly, StepDone, Hops, HopFails, Settles,
         Crashes, Replays, Passes, Pulls, Publishes, Acks, Ends, RunsOut, HandsBack, PassFails, history
    <3>3. /\ pc[j] # "idle" /\ done' = [done EXCEPT ![hand[j].run][j] = More(@)]
      BY <3>2 DEF Works
    <3>4. hand[j].run \in Runs /\ Mine(j, hand[j])
      BY <3>3, InHand
    <3>5. hand[j].run = r /\ j = i
      <4> HIDE DEF More
      <4> QED
        BY <2>2, <3>3, <3>4 DEF Sound, TypeOK
    <3> QED
      BY <3>4, <3>5 DEF Mine
  <2> QED
    BY <2>1, <2>2
<1>3. i > 1 /\ done[r][i - 1] > 0 => done'[r][i - 1] > 0
  BY <1>1
<1> QED
  BY <1>2, <1>3

\* Work is done in order, and repeated only for what went wrong after it was done:
\* whatever the stops, the setups, the runs and the bounds are.
THEOREM RepeatsAreEarned ==
  Spec => []RepeatsEarned
<1>1. Init => InOrder
  BY DEF Init, InOrder
<1>2. Sound /\ InOrder /\ [Next]_vars => InOrder'
  BY InOrderNext
<1>3. Sound /\ Balanced /\ InOrder => RepeatsEarned
  <2> SUFFICES ASSUME Sound, Balanced, InOrder, NEW r \in Runs, ~Stuck(r)
               PROVE  counted[r] <= 1 + excuses[r] /\ \A i \in Stops : done[r][i] <= 1 + excuses[r]
    BY DEF RepeatsEarned, InOrder
  <2>1. ASSUME NEW k \in Places PROVE Times(r, k) <= 1 + excuses[r]
    <3>1. Times(r, k) \in 0..MaxCount /\ Due(r, k) \in Nat /\ excuses[r] \in 0..MaxCount /\ MaxCount \in Nat
      <4>1. Now \in State /\ 1 \in Stops /\ (k = LastStop + 1 \/ k \in Stops)
        BY StateIs, RoutingSlipAssumption DEF Stops, Places
      <4>2. Due(r, k) \in Nat
        BY <4>1, AtStop DEF Due
      <4> QED
        BY <4>1, <4>2, RoutingSlipAssumption DEF Times, Sound, TypeOK
    <3>2. Earned(r, k)
      BY DEF Balanced
    <3> QED
      BY <3>1, <3>2 DEF Earned
  <2>2. LastStop + 1 \in Places /\ \A i \in Stops : i \in Places /\ i # LastStop + 1
    BY RoutingSlipAssumption DEF Places, Stops
  <2> QED
    BY <2>1, <2>2 DEF Times
<1> QED
  BY <1>1, <1>2, <1>3, SoundHolds, BalanceHolds, PTL DEF Spec

-----------------------------------------------------------------------------
(* Envelopes: field by field, to_headers writes a field under its own name *)
(* and nothing else there, so from_headers finds it; a field that is not   *)
(* written is one whose default it has.                                    *)

\* Names of the library, of other libraries and of the application are apart.
LEMMA NamesApart ==
  /\ \A n \in RESERVED : n \notin Foreign /\ is_reserved(n)
  /\ \A n \in Foreign : is_reserved(n)
  /\ \A n \in AppNames : ~is_reserved(n) /\ n \notin RESERVED
BY EnvelopeAssumption DEF is_reserved

\* What a proper envelope has at each name of its table.
LEMMA WrittenTable ==
  ASSUME NEW e, Proper(e), NEW key
  PROVE  LET raw == to_headers(e, key)
         IN /\ DOMAIN raw = DOMAIN e.extensions \cup Written(e) \cup DOMAIN e.headers
            /\ \A n \in DOMAIN e.headers : raw[n] = e.headers[n]
            /\ \A n \in Written(e) : raw[n] = FieldValue(e, n, key)
            /\ \A n \in DOMAIN e.extensions : raw[n] = e.extensions[n]
<1> DEFINE raw == to_headers(e, key)
<1>1. /\ DOMAIN e.headers \subseteq AppNames
      /\ DOMAIN e.extensions \subseteq Foreign
  BY DEF Proper
<1>2. Written(e) \subseteq RESERVED
  BY DEF Written, Always, IfAny, RouteFields, RESERVED, TextFields, NumberFields
<1>3. DOMAIN e.extensions \ RESERVED = DOMAIN e.extensions
  BY <1>1, EnvelopeAssumption
<1>4. DOMAIN raw = DOMAIN e.extensions \cup Written(e) \cup DOMAIN e.headers
  BY <1>3 DEF to_headers
<1>5. \A n \in DOMAIN raw :
        raw[n] = IF n \in DOMAIN e.headers THEN e.headers[n]
                 ELSE IF n \in Written(e) THEN FieldValue(e, n, key)
                 ELSE e.extensions[n]
  BY DEF to_headers
<1>6. QED
  BY <1>1, <1>2, <1>4, <1>5, EnvelopeAssumption

\* An envelope with its type filled in differs in nothing else, and stays proper.
LEMMA TypedIsProper ==
  ASSUME NEW e, Proper(e), NEW key
  PROVE  /\ Proper(Typed(e, key))
         /\ Typed(e, key).texts["type"] = TextOf(e, "type", key)
         /\ Typed(e, key).texts["type"] # Empty
         /\ \A f \in TextFields \ {"type"} : Typed(e, key).texts[f] = e.texts[f]
         /\ Typed(e, key) = Fields(Typed(e, key).texts, e.numbers, e.headers, e.extensions)
         /\ e.texts["type"] # Empty => Typed(e, key) = e
<1> DEFINE x == Typed(e, key)
<1>1. /\ x.texts = [e.texts EXCEPT !["type"] = TextOf(e, "type", key)]
      /\ x.numbers = e.numbers /\ x.headers = e.headers /\ x.extensions = e.extensions
      /\ x = Fields(x.texts, x.numbers, x.headers, x.extensions)
  BY DEF Typed, Proper, Fields
<1>2. e.texts = [f \in TextFields |-> e.texts[f]]
  BY DEF Proper
<1>3. TextOf(e, "type", key) # Empty
  BY EnvelopeAssumption DEF TextOf, Or
<1>4. /\ x.texts = [f \in TextFields |-> x.texts[f]]
      /\ x.texts["type"] = TextOf(e, "type", key)
      /\ \A f \in TextFields \ {"type"} : x.texts[f] = e.texts[f]
  BY <1>1, <1>2 DEF TextFields
<1>5. \A f \in {"id", "correlation", "route", "route_id"} : x.texts[f] = e.texts[f]
  BY <1>4 DEF TextFields
<1>6. Proper(x)
  BY <1>1, <1>4, <1>5 DEF Proper
<1>7. e.texts["type"] # Empty => x = e
  <2>1. e.texts["type"] # Empty => x.texts = e.texts
    BY <1>1, <1>2 DEF TextOf, Or
  <2>2. e = Fields(e.texts, e.numbers, e.headers, e.extensions)
    BY DEF Proper
  <2>3. QED
    BY <1>1, <2>1, <2>2
<1>8. QED
  BY <1>1, <1>3, <1>4, <1>6, <1>7

\* A text field is read as it was, written or not, but for a type left open.
LEMMA TextComesBack ==
  ASSUME NEW e, Proper(e), NEW key, NEW f \in TextFields
  PROVE  TextIn(to_headers(e, key), f) = Typed(e, key).texts[f]
<1> DEFINE raw == to_headers(e, key)
<1>1. /\ DOMAIN raw = DOMAIN e.extensions \cup Written(e) \cup DOMAIN e.headers
      /\ \A n \in Written(e) : raw[n] = FieldValue(e, n, key)
  BY WrittenTable
<1>2. f \notin DOMAIN e.extensions /\ f \notin DOMAIN e.headers
  BY EnvelopeAssumption DEF Proper, RESERVED
<1>3. f \notin NumberFields
  BY DEF TextFields, NumberFields
<1>4. CASE f \in Written(e)
  <2>1. raw[f] = OfText(TextOf(e, f, key))
    BY <1>1, <1>3, <1>4 DEF FieldValue
  <2>2. TextOf(e, f, key) = Typed(e, key).texts[f]
    <3>1. f # "type" => TextOf(e, f, key) = e.texts[f]
      BY DEF TextOf, Or, Proper
    <3>2. QED
      BY <3>1, TypedIsProper
  <2>3. TextIn(raw, f) = raw[f].text
    BY <1>1, <1>4, <2>1 DEF TextIn, OfText
  <2>4. QED
    BY <2>1, <2>2, <2>3 DEF OfText
<1>5. CASE f \notin Written(e)
  <2>1. TextIn(raw, f) = Empty
    BY <1>1, <1>2, <1>5 DEF TextIn
  <2>2. f \notin Always
    BY <1>5 DEF Written
  <2>3. f \in IfAny => e.texts[f] = Empty
    BY <1>5 DEF Written
  <2>4. f \in {"route", "route_id"} => e.texts[f] = Empty
    BY <1>5 DEF Written, RouteFields, Proper
  <2>5. f # "type" /\ e.texts[f] = Empty
    BY <2>2, <2>3, <2>4 DEF Always, IfAny, TextFields
  <2>6. QED
    BY <2>1, <2>5, TypedIsProper
<1>6. QED
  BY <1>4, <1>5

\* And so is a number.
LEMMA NumberComesBack ==
  ASSUME NEW e, Proper(e), NEW key, NEW f \in NumberFields, NEW now
  PROVE  NumberIn(to_headers(e, key), f, Fallback(f, now)) = e.numbers[f]
<1> DEFINE raw == to_headers(e, key)
<1>1. /\ DOMAIN raw = DOMAIN e.extensions \cup Written(e) \cup DOMAIN e.headers
      /\ \A n \in Written(e) : raw[n] = FieldValue(e, n, key)
  BY WrittenTable
<1>2. f \notin DOMAIN e.extensions /\ f \notin DOMAIN e.headers
  BY EnvelopeAssumption DEF Proper, RESERVED
<1>3. CASE f \in Written(e)
  <2>1. raw[f] = OfNumber(e.numbers[f])
    BY <1>1, <1>3 DEF FieldValue
  <2>2. QED
    BY <1>1, <1>3, <2>1 DEF NumberIn, OfNumber
<1>4. CASE f \notin Written(e)
  <2>1. f = "route_position"
    BY <1>4 DEF Written, Always, NumberFields
  <2>2. e.texts["route"] = Empty
    BY <1>4, <2>1 DEF Written, RouteFields
  <2>3. e.numbers[f] = 0
    BY <2>1, <2>2 DEF Proper
  <2>4. NumberIn(raw, f, Fallback(f, now)) = Fallback(f, now)
    BY <1>1, <1>2, <1>4 DEF NumberIn
  <2>5. QED
    BY <2>1, <2>3, <2>4 DEF Fallback
<1>5. QED
  BY <1>3, <1>4
-----------------------------------------------------------------------------

\* What has a floor and is above it stays, and so does a correlation.
LEMMA MadeProper ==
  ASSUME NEW e, Proper(e)
  PROVE  Made(e) = e
<1>1. [e.texts EXCEPT !["correlation"] = Or(@, e.texts["id"])] = e.texts
  <2>1. Or(e.texts["correlation"], e.texts["id"]) = e.texts["correlation"]
    BY DEF Proper, Or
  <2>2. [e.texts EXCEPT !["correlation"] = e.texts["correlation"]] = e.texts
    BY DEF Proper
  <2>3. QED
    BY <2>1, <2>2
<1>2. [f \in NumberFields |-> Floor(f, e.numbers[f])] = e.numbers
  BY DEF Proper
<1>3. QED
  BY <1>1, <1>2 DEF Made, Proper

\* Whoever reads the headers of an envelope has the envelope, whole: every field,
\* the application's headers and those carried on, whatever the delivery's routing
\* key, message_id and time are; and one that was given no type has the type that the
\* routing key it was published under gave it (to_headers, from_headers).
THEOREM EnvelopeComesBack ==
  ASSUME NEW e, Proper(e), NEW key, NEW from
  PROVE  ReadsBack(e, key, from)
<1> DEFINE raw == to_headers(e, key)
<1>1. /\ DOMAIN raw = DOMAIN e.extensions \cup Written(e) \cup DOMAIN e.headers
      /\ \A n \in DOMAIN e.headers : raw[n] = e.headers[n]
      /\ \A n \in DOMAIN e.extensions : raw[n] = e.extensions[n]
  BY WrittenTable
<1>2. Legible(raw, from.now)
  <2>1. NumberIn(raw, "first_seen", Fallback("first_seen", from.now)) = e.numbers["first_seen"]
    BY NumberComesBack DEF NumberFields
  <2>2. QED
    BY <2>1 DEF Legible, Fallback, Proper
<1> DEFINE x == Typed(e, key)
<1>3. [f \in TextFields |-> TextRead(raw, f, from)] = x.texts
  <2>1. ASSUME NEW f \in TextFields
        PROVE  TextRead(raw, f, from) = x.texts[f]
    <3>1. TextIn(raw, f) = x.texts[f] /\ TextIn(raw, "id") = x.texts["id"]
      BY TextComesBack DEF TextFields
    <3>2. x.texts["id"] # Empty /\ x.texts["type"] # Empty /\ x.texts["correlation"] # Empty
      <4>1. Proper(x) /\ x.texts["type"] # Empty
        BY TypedIsProper
      <4> HIDE DEF x
      <4>2. QED
        BY <4>1 DEF Proper
    <3> HIDE DEF raw, x
    <3>3. QED
      BY <3>1, <3>2 DEF TextRead, Identifier, Or
  <2>2. x.texts = [f \in TextFields |-> x.texts[f]]
    <3>1. Proper(x)
      BY TypedIsProper
    <3> HIDE DEF x
    <3>2. QED
      BY <3>1 DEF Proper
  <2> HIDE DEF raw, x
  <2>3. QED
    BY <2>1, <2>2
<1>4. [f \in NumberFields |-> NumberIn(raw, f, Fallback(f, from.now))] = e.numbers
  BY NumberComesBack DEF Proper
<1>5. Written(e) \subseteq RESERVED
  BY DEF Written, Always, IfAny, RouteFields, RESERVED, TextFields, NumberFields
<1>6. DOMAIN e.headers \subseteq AppNames /\ DOMAIN e.extensions \subseteq Foreign
  BY DEF Proper
<1>7. [n \in {m \in DOMAIN raw : ~is_reserved(m)} |-> raw[n]] = e.headers
  <2>1. {m \in DOMAIN raw : ~is_reserved(m)} = DOMAIN e.headers
    BY <1>1, <1>5, <1>6, NamesApart
  <2>2. QED
    BY <1>1, <2>1 DEF Proper
<1>8. [n \in {m \in DOMAIN raw : is_reserved(m)} \ RESERVED |-> raw[n]] = e.extensions
  <2>1. {m \in DOMAIN raw : is_reserved(m)} \ RESERVED = DOMAIN e.extensions
    BY <1>1, <1>5, <1>6, NamesApart
  <2>2. QED
    BY <1>1, <2>1 DEF Proper
<1>9. from_headers(raw, from) = Made(Fields(x.texts, e.numbers, e.headers, e.extensions))
  BY <1>3, <1>4, <1>7, <1>8 DEF from_headers
<1>10. Made(x) = x /\ x = Fields(x.texts, e.numbers, e.headers, e.extensions)
  BY TypedIsProper, MadeProper
<1>11. QED
  BY <1>2, <1>9, <1>10 DEF ReadsBack

\* An envelope stays proper when its attempt becomes another.
LEMMA AnotherAttempt ==
  ASSUME NEW e, Proper(e), NEW n \in Int, n >= 1
  PROVE  Proper(Attempt(e, n))
<1> DEFINE x == Attempt(e, n)
<1>1. /\ x.texts = e.texts /\ x.headers = e.headers /\ x.extensions = e.extensions
      /\ x.numbers = [e.numbers EXCEPT !["attempt"] = n]
      /\ x = Fields(x.texts, x.numbers, x.headers, x.extensions)
  BY DEF Attempt, Proper, Fields
<1>2. e.numbers = [f \in NumberFields |-> e.numbers[f]]
  BY DEF Proper
<1>3. x.numbers = [f \in NumberFields |-> x.numbers[f]]
  BY <1>1, <1>2
<1>4. x.numbers["attempt"] = n
  BY <1>1, <1>2 DEF NumberFields
<1>5. \A f \in NumberFields \ {"attempt"} : x.numbers[f] = e.numbers[f]
  BY <1>1, <1>2
<1>6. \A f \in NumberFields : x.numbers[f] \in Int /\ Floor(f, x.numbers[f]) = x.numbers[f]
  BY <1>4, <1>5 DEF Proper, Floor
<1>7. x.numbers["first_seen"] = e.numbers["first_seen"]
  BY <1>5 DEF NumberFields
<1>8. x.numbers["route_position"] = e.numbers["route_position"]
  BY <1>5 DEF NumberFields
<1>9. QED
  BY <1>1, <1>3, <1>6, <1>7, <1>8 DEF Proper

\* A retry, a dead letter and a replay that starts over arrive as they were meant:
\* the same envelope but for the attempt, or the error, and a type left open
\* (_retry_again, _set_aside, replay).
THEOREM HopsComeBack ==
  ASSUME NEW e, Proper(e), NEW reason, NEW key, NEW from
  PROVE  /\ ReadsBack(Again(e), key, from)
         /\ ReadsBack(SetAside(e, reason), key, from)
         /\ ReadsBack(Restarted(e), key, from)
<1>1. Proper(Again(e))
  <2>1. e.numbers["attempt"] \in Int /\ e.numbers["attempt"] >= 1
    BY DEF Proper, NumberFields, Floor
  <2>2. QED
    BY <2>1, AnotherAttempt DEF Again
<1>2. ASSUME NEW why
      PROVE  Proper(SetAside(e, why))
  BY DEF Proper, SetAside, Fields, TextFields, NumberFields, Floor
<1>3. Proper(Restarted(e))
  <2>1. Proper(SetAside(e, Empty))
    BY <1>2
  <2>2. QED
    BY <2>1, AnotherAttempt DEF Restarted
<1>4. QED
  BY <1>1, <1>2, <1>3, EnvelopeComesBack

-----------------------------------------------------------------------------

\* Whatever headers arrive, what is read is proper, but for what is left of a route.
LEMMA ReadIsProper ==
  ASSUME NEW raw, IsTable(raw),
         NEW from, from.now \in Int, from.fresh # Empty, Legible(raw, from.now)
  PROVE  /\ Proper(Unrouted(from_headers(raw, from)))
         /\ Unrouted(from_headers(raw, from)).texts["type"] # Empty
<1> DEFINE e == from_headers(raw, from)
           texts == [f \in TextFields |-> TextRead(raw, f, from)]
           numbers == [f \in NumberFields |-> NumberIn(raw, f, Fallback(f, from.now))]
           headers == [n \in {m \in DOMAIN raw : ~is_reserved(m)} |-> raw[n]]
           carried == [n \in {m \in DOMAIN raw : is_reserved(m)} \ RESERVED |-> raw[n]]
<1>1. e = Made(Fields(texts, numbers, headers, carried))
  BY DEF from_headers
<1>2. /\ e.headers = headers /\ e.extensions = carried
      /\ e.texts = [texts EXCEPT !["correlation"] = Or(texts["correlation"], texts["id"])]
      /\ e.numbers = [f \in NumberFields |-> Floor(f, numbers[f])]
      /\ e = Fields(e.texts, e.numbers, e.headers, e.extensions)
  BY <1>1 DEF Made, Fields
<1>3. DOMAIN headers \subseteq AppNames
  BY DEF is_reserved
<1>4. DOMAIN carried \subseteq Foreign
  BY DEF IsTable, is_reserved
<1>5. texts["id"] # Empty /\ texts["type"] # Empty /\ texts["correlation"] # Empty
  BY EnvelopeAssumption DEF TextRead, Identifier, Or, TextFields
<1>6. \A f \in NumberFields : numbers[f] \in Int
  BY EnvelopeAssumption DEF IsTable, NumberIn, Fallback
<1>7. numbers["first_seen"] \in Instants
  BY DEF Legible, Fallback, NumberFields
<1>8. \A f \in NumberFields :
        e.numbers[f] \in Int /\ Floor(f, e.numbers[f]) = e.numbers[f]
  BY <1>2, <1>6 DEF Floor
<1>9. e.numbers["first_seen"] \in Instants
  BY <1>2, <1>7 DEF Floor, NumberFields
<1>10. \A f \in {"id", "type", "correlation"} : e.texts[f] # Empty
  BY <1>2, <1>5 DEF Or, TextFields
<1>11. e.texts = [f \in TextFields |-> e.texts[f]]
  BY <1>2
<1>12. e.numbers = [f \in NumberFields |-> e.numbers[f]]
  BY <1>2
<1>13. CASE e.texts["route"] # Empty
  BY <1>13, <1>2, <1>3, <1>4, <1>8, <1>9, <1>10, <1>11, <1>12 DEF Unrouted, Proper
<1>14. CASE e.texts["route"] = Empty
  <2> DEFINE u == Unrouted(e)
  <2>1. /\ u.headers = headers /\ u.extensions = carried
        /\ u.texts = [e.texts EXCEPT !["route_id"] = Empty]
        /\ u.numbers = [e.numbers EXCEPT !["route_position"] = 0]
        /\ u = Fields(u.texts, u.numbers, u.headers, u.extensions)
    BY <1>14, <1>2 DEF Unrouted, Fields
  <2>2. /\ u.texts = [f \in TextFields |-> u.texts[f]]
        /\ u.texts["route"] = Empty /\ u.texts["route_id"] = Empty
        /\ \A f \in {"id", "type", "correlation"} : u.texts[f] # Empty
    BY <2>1, <1>10, <1>11, <1>14 DEF TextFields
  <2>3. /\ u.numbers = [f \in NumberFields |-> u.numbers[f]]
        /\ u.numbers["route_position"] = 0
        /\ u.numbers["first_seen"] \in Instants
        /\ \A f \in NumberFields : u.numbers[f] \in Int /\ Floor(f, u.numbers[f]) = u.numbers[f]
    BY <2>1, <1>8, <1>9, <1>12 DEF NumberFields, Floor
  <2>4. QED
    BY <2>1, <2>2, <2>3, <1>3, <1>4 DEF Proper
<1>15. QED
  BY <1>13, <1>14

\* Nothing is written of a position or a run that has no route.
LEMMA UnroutedWritten ==
  ASSUME NEW e, e = Fields(e.texts, e.numbers, e.headers, e.extensions),
         e.texts = [f \in TextFields |-> e.texts[f]],
         e.numbers = [f \in NumberFields |-> e.numbers[f]], NEW key
  PROVE  to_headers(Unrouted(e), key) = to_headers(e, key)
<1> DEFINE u == Unrouted(e)
<1>1. CASE e.texts["route"] # Empty
  BY <1>1 DEF Unrouted
<1>2. CASE e.texts["route"] = Empty
  <2>1. /\ u.headers = e.headers /\ u.extensions = e.extensions
        /\ u.texts = [e.texts EXCEPT !["route_id"] = Empty]
        /\ u.numbers = [e.numbers EXCEPT !["route_position"] = 0]
    BY <1>2 DEF Unrouted, Fields
  <2>2. \A f \in TextFields \ {"route_id"} : u.texts[f] = e.texts[f]
    BY <2>1
  <2>3. \A f \in NumberFields \ {"route_position"} : u.numbers[f] = e.numbers[f]
    BY <2>1
  <2>4. Written(u) = Written(e)
    <3>1. RouteFields(u) = {} /\ RouteFields(e) = {}
      BY <1>2, <2>2 DEF RouteFields, TextFields
    <3>2. \A f \in IfAny : u.texts[f] = e.texts[f]
      BY <2>2 DEF IfAny, TextFields
    <3>3. QED
      BY <3>1, <3>2 DEF Written
  <2>5. Written(e) \subseteq Always \cup IfAny
    BY <1>2 DEF Written, RouteFields
  <2>6. ASSUME NEW n \in Written(e)
        PROVE  FieldValue(u, n, key) = FieldValue(e, n, key)
    <3>1. CASE n \in NumberFields
      BY <3>1, <2>3, <2>5 DEF FieldValue, Always, IfAny
    <3>2. CASE n \notin NumberFields
      <4>1. n \in TextFields \ {"route_id"}
        BY <3>2, <2>5 DEF Always, IfAny, TextFields, NumberFields
      <4>2. TextOf(u, n, key) = TextOf(e, n, key)
        BY <4>1, <2>2 DEF TextOf, TextFields
      <4>3. QED
        BY <3>2, <4>2 DEF FieldValue
    <3>3. QED
      BY <3>1, <3>2
  <2>7. QED
    BY <2>1, <2>4, <2>6 DEF to_headers
<1>3. QED
  BY <1>1, <1>2

\* A service that reads a message, from any library, and publishes it further says
\* the same of it, and never what its constructor would refuse: the next reader has
\* the envelope this one had, but for what was left of a route that is missing.
THEOREM MessageGoesOn ==
  ASSUME NEW raw, IsTable(raw), NEW key, NEW later,
         NEW from, from.now \in Int, from.fresh # Empty, Legible(raw, from.now)
  PROVE  GoesOn(raw, key, from, later)
<1> DEFINE e == from_headers(raw, from)
<1>1. Proper(Unrouted(e)) /\ Unrouted(e).texts["type"] # Empty
  BY ReadIsProper
<1>2. /\ e = Fields(e.texts, e.numbers, e.headers, e.extensions)
      /\ e.texts = [f \in TextFields |-> e.texts[f]]
      /\ e.numbers = [f \in NumberFields |-> e.numbers[f]]
      /\ \A n \in DOMAIN e.headers : ~is_reserved(n)
  <2> DEFINE s == [f \in TextFields |-> TextRead(raw, f, from)]
             m == [f \in NumberFields |-> NumberIn(raw, f, Fallback(f, from.now))]
             h == [n \in {x \in DOMAIN raw : ~is_reserved(x)} |-> raw[n]]
             o == [n \in {x \in DOMAIN raw : is_reserved(x)} \ RESERVED |-> raw[n]]
  <2>1. e = Made(Fields(s, m, h, o))
    BY DEF from_headers
  <2>2. s = [f \in TextFields |-> s[f]] /\ \A n \in DOMAIN h : ~is_reserved(n)
    OBVIOUS
  <2> HIDE DEF e, s, m, h, o
  <2>3. /\ e.texts = [s EXCEPT !["correlation"] = Or(@, s["id"])]
        /\ e.numbers = [f \in NumberFields |-> Floor(f, m[f])]
        /\ e.headers = h /\ e.extensions = o
        /\ e = Fields(e.texts, e.numbers, e.headers, e.extensions)
    BY <2>1 DEF Made, Fields
  <2>4. QED
    BY <2>2, <2>3
<1>3. to_headers(Unrouted(e), key) = to_headers(e, key)
  BY <1>2, UnroutedWritten
<1>4. from_headers(to_headers(Unrouted(e), key), later) = Unrouted(e)
  BY <1>1, EnvelopeComesBack, TypedIsProper DEF ReadsBack
<1>5. QED
  BY <1>2, <1>3, <1>4 DEF GoesOn, Admitted

\* A header that no field of this library holds, another library's or the
\* application's, is on what is published as it was on what arrived (extensions).
THEOREM StrangersCarriedOn ==
  ASSUME NEW raw, IsTable(raw), NEW key, NEW from
  PROVE  CarriesOn(raw, key, from)
<1> DEFINE e == from_headers(raw, from)
           written == to_headers(e, key)
<1>1. /\ e.headers = [n \in {m \in DOMAIN raw : ~is_reserved(m)} |-> raw[n]]
      /\ e.extensions = [n \in {m \in DOMAIN raw : is_reserved(m)} \ RESERVED |-> raw[n]]
  BY DEF from_headers, Made, Fields
<1>2. Written(e) \subseteq RESERVED
  BY DEF Written, Always, IfAny, RouteFields, RESERVED, TextFields, NumberFields
<1>3. DOMAIN written = (DOMAIN e.extensions \ RESERVED) \cup Written(e) \cup DOMAIN e.headers
  BY DEF to_headers
<1>4. \A n \in DOMAIN written :
        written[n] = IF n \in DOMAIN e.headers THEN e.headers[n]
                     ELSE IF n \in Written(e) THEN FieldValue(e, n, key)
                     ELSE e.extensions[n]
  BY DEF to_headers
<1>5. ASSUME NEW n \in DOMAIN raw \ RESERVED
      PROVE  n \in DOMAIN written /\ written[n] = raw[n]
  <2>1. CASE is_reserved(n)
    BY <2>1, <1>1, <1>2, <1>3, <1>4
  <2>2. CASE ~is_reserved(n)
    BY <2>2, <1>1, <1>3, <1>4
  <2>3. QED
    BY <2>1, <2>2
<1>6. QED
  BY <1>5 DEF CarriesOn
=============================================================================
