--------------------------- MODULE HandlersProofs ---------------------------
(***************************************************************************)
(* Proofs about what goes round the handlers of a consumer, for any        *)
(* messages, keys, tasks, deadlines and sagas.  The order in which tasks   *)
(* come to their messages is proved from places in sequences: who is ahead *)
(* of whom in a queue, a buffer and a lock's line.                         *)
(***************************************************************************)
EXTENDS Handlers, FiniteSetTheorems, SequenceTheorems, TLAPS

-----------------------------------------------------------------------------
(* The inductive invariant *)

\* A task has a message unless it is idle.
Working ==
  \A t \in Tasks : pc[t] = "idle" <=> job[t] = NoJob

\* How far a saga is says what stands.
Sagas ==
  \A t \in Tasks : ~threaded =>
    /\ pc[t] # "queued"
    /\ pc[t] = "waiting" => step[t] = 1 /\ stands[t] = {} /\ failed[t] = {}
    /\ pc[t] = "acting" =>
         step[t] \in Steps /\ stands[t] = 1..step[t] - 1 /\ failed[t] = {}
    /\ pc[t] = "undoing" => /\ failed[t] \subseteq stands[t] \cap Compensable
                            /\ failed[t] \cap 1..step[t] = {}

Refs(k) == {t \in Tasks : ref[t] # None /\ Key(t) = k}

\* The holders of a key are the tasks with its lock, and a key has one while it has any.
Counted ==
  \A k \in Keys : holders[k] = Cardinality(Refs(k)) /\ (lock[k] # None <=> Refs(k) # {})

\* Who has a lock has that of its key, and no two keys have one.
Named ==
  /\ \A t \in Tasks : ref[t] # None => Key(t) \in Keys /\ ref[t] = lock[Key(t)]
  /\ \A j, k \in Keys : lock[j] = lock[k] /\ lock[j] # None => j = k

\* A lock's line is of those who have it, each once.
Lined ==
  \A l \in Locks :
    /\ \A i \in DOMAIN line[l] : ref[line[l][i]] = l
    /\ \A t \in Tasks : ref[t] = l => \E i \in DOMAIN line[l] : line[l][i] = t
    /\ \A i, j \in DOMAIN line[l] : line[l][i] = line[l][j] => i = j

\* Who waits, or runs a body, has the lock of its key, and a body only at the head.
Owned ==
  \A t \in Tasks :
    /\ ref[t] # None <=> pc[t] = "waiting" \/ (Busy(t) /\ Key(t) # NoKey)
    /\ pc[t] = "waiting" => Key(t) # NoKey
    /\ ref[t] # None /\ Busy(t) => line[ref[t]][1] = t

LockInv == Counted /\ Named /\ Lined /\ Owned

Touched == began \cup cut

\* A body that was started, or a verdict, is of a message that began or was cut off.
Started ==
  \A t \in Tasks :
    pc[t] \in {"acting", "undoing"} \cup Verdicts => job[t].msg \in Touched

InBuffer(m, c) == \E i \in DOMAIN buffer[c] : buffer[c][i].msg = m
InQueue(m) == \E i \in DOMAIN queue : queue[i].msg = m
InHand(m) == \E t \in Tasks : job[t].msg = m

\* What was never delivered is in the queue, and nowhere else.
Waits ==
  \A m \in Messages : first[m] = None =>
    /\ m \notin Touched /\ InQueue(m) /\ ~InHand(m)
    /\ \A c \in Members : ~InBuffer(m, c)

\* It is there in the order it was published in, and so it is delivered.
InOrder ==
  \A i, j \in DOMAIN queue :
    i < j /\ first[queue[i].msg] = None /\ first[queue[j].msg] = None
      => queue[i].msg < queue[j].msg
Delivered == \A a, b \in Messages : a < b /\ first[b] # None => first[a] # None

Undelivered == Waits /\ InOrder /\ Delivered

\* Nothing happened to a message since it was put in a consumer's buffer.
OnlyIn(b, c) ==
  /\ b \notin Touched /\ ~InHand(b) /\ ~InQueue(b)
  /\ \A d \in Members \ {c} : ~InBuffer(b, d)

\* A message is buffered before all that came after it.
Buffered(a) ==
  LET c == first[a] IN
  \E i \in DOMAIN buffer[c] :
    /\ buffer[c][i].msg = a
    /\ \A b \in Messages : a < b /\ first[b] = c =>
         OnlyIn(b, c) /\ \A j \in DOMAIN buffer[c] : buffer[c][j].msg = b => i < j

Behind(t, u) ==
  ref[t] = ref[u] /\ \E i, j \in DOMAIN line[ref[t]] :
    i < j /\ line[ref[t]][i] = t /\ line[ref[t]][j] = u

\* A task has it, ahead of all of its key that came after it.
Ahead(a) ==
  \E t \in Tasks :
    /\ job[t].msg = a /\ pc[t] \in {"waiting", "queued"}
    /\ \A b \in Messages : a < b /\ KeyOf[a] = KeyOf[b] /\ first[b] = first[a] =>
         /\ b \notin began
         /\ \A u \in Tasks : job[u].msg = b /\ ref[u] # None => Behind(t, u)

Ordered ==
  \A a \in Messages \ Touched :
    first[a] # None /\ KeyOf[a] # NoKey => Buffered(a) \/ Ahead(a)

HandlersInv ==
  /\ Admissible /\ TypeOK
  /\ Working /\ Sagas /\ SagaUndone
  /\ LockInv
  /\ Started /\ Undelivered /\ Ordered

-----------------------------------------------------------------------------
(* Lemmas *)

\* Of any two sequences, one after the other.
LEMMA Concatenated ==
  ASSUME NEW S
  PROVE  \A p, q \in Seq(S) :
           /\ p \o q \in Seq(S) /\ Len(p \o q) = Len(p) + Len(q)
           /\ \A i \in 1..Len(p) + Len(q) : (p \o q)[i] = IF i <= Len(p) THEN p[i] ELSE q[i - Len(p)]
  BY ConcatProperties

\* Taking the one place of an element out of a sequence leaves the others in order.
LEMMA RemovesOne ==
  ASSUME NEW S, NEW s \in Seq(S), NEW k \in DOMAIN s,
         \A i, j \in DOMAIN s : s[i] = s[j] => i = j
  PROVE  LET r == RemoveFirst(s, s[k]) IN
           /\ r \in Seq(S) /\ DOMAIN s = 1..Len(s) /\ DOMAIN r = 1..Len(s) - 1
           /\ Len(s) \in Nat /\ \A i \in DOMAIN r : r[i] = IF i < k THEN s[i] ELSE s[i + 1]
<1>1. k \in 1..Len(s) /\ Len(s) \in Nat /\ DOMAIN s = 1..Len(s)
  OBVIOUS
<1> DEFINE I == {i \in 1..Len(s) : s[i] = s[k]}
<1>2. I = {k}
  BY <1>1
<1>3. Min({k}) = k
  BY <1>1 DEF Min
<1>4. SelectInSeq(s, LAMBDA v : v = s[k]) = k
  BY <1>2, <1>3 DEF SelectInSeq
<1>5. RemoveFirst(s, s[k]) = RemoveAt(s, k)
  BY <1>1, <1>4 DEF RemoveFirst
<1> DEFINE A == SubSeq(s, 1, k - 1)
           B == SubSeq(s, k + 1, Len(s))
<1>6. A \in Seq(S) /\ Len(A) = k - 1 /\ \A i \in 1..k - 1 : A[i] = s[i]
  BY <1>1
<1>7. B \in Seq(S) /\ Len(B) = Len(s) - k /\ \A i \in 1..Len(s) - k : B[i] = s[k + i]
  <2>1. k + 1 \in Int /\ Len(s) \in Int /\ \A i \in k + 1..Len(s) : s[i] \in S
    BY <1>1
  <2>2. /\ B \in Seq(S) /\ Len(B) = IF k + 1 <= Len(s) THEN Len(s) - (k + 1) + 1 ELSE 0
        /\ \A i \in 1..Len(s) - (k + 1) + 1 : B[i] = s[k + 1 + i - 1]
    <3> DEFINE m == k + 1
               n == Len(s)
    <3>1. m \in Int /\ n \in Int /\ \A i \in m..n : s[i] \in S
      BY <2>1
    <3> HIDE DEF m, n
    <3>2. /\ SubSeq(s, m, n) \in Seq(S)
          /\ Len(SubSeq(s, m, n)) = IF m <= n THEN n - m + 1 ELSE 0
          /\ \A i \in 1..n - m + 1 : SubSeq(s, m, n)[i] = s[m + i - 1]
      BY <3>1, SubSeqProperties, SMTT(30)
    <3> QED
      BY <3>2, Zenon DEF m, n
  <2>3. /\ Len(s) - (k + 1) + 1 = Len(s) - k
        /\ \A i \in 1..Len(s) - k : k + 1 + i - 1 = k + i
    BY <1>1
  <2>4. Len(B) = Len(s) - k
    <3> HIDE DEF B
    <3> QED
      BY <1>1, <2>2
  <2> HIDE DEF B
  <2> QED
    BY <2>2, <2>3, <2>4
<1> DEFINE r == A \o B
<1> HIDE DEF A, B
<1>8. /\ r \in Seq(S) /\ Len(r) = Len(s) - 1
      /\ \A i \in 1..Len(s) - 1 : r[i] = IF i < k THEN s[i] ELSE s[i + 1]
  <2>1. /\ r \in Seq(S) /\ Len(r) = Len(A) + Len(B)
        /\ \A i \in 1..Len(A) + Len(B) : r[i] = IF i <= Len(A) THEN A[i] ELSE B[i - Len(A)]
    <3>1. A \in Seq(S) /\ B \in Seq(S)
      BY <1>6, <1>7
    <3> QED
      BY <3>1, Concatenated
  <2> HIDE DEF r
  <2>2. Len(A) + Len(B) = Len(s) - 1
    BY <1>1, <1>6, <1>7
  <2>3. ASSUME NEW i \in 1..Len(s) - 1 PROVE r[i] = IF i < k THEN s[i] ELSE s[i + 1]
    <3>1. CASE i < k
      <4>1. i \in 1..k - 1 /\ i <= Len(A)
        BY <1>1, <3>1, <1>6
      <4>2. i \in 1..Len(A) + Len(B)
        BY <2>2
      <4>3. r[i] = A[i]
        <5>1. r[i] = IF i <= Len(A) THEN A[i] ELSE B[i - Len(A)]
          BY <2>1, <4>2, Zenon
        <5> QED
          BY <4>1, <5>1, Zenon
      <4>4. A[i] = s[i]
        BY <1>6, <4>1, Zenon
      <4> QED
        BY <3>1, <4>3, <4>4, Zenon
    <3>2. CASE ~(i < k)
      <4>1. i - (k - 1) \in 1..Len(s) - k /\ k + (i - (k - 1)) = i + 1 /\ ~(i <= Len(A))
        BY <1>1, <3>2, <1>6
      <4>2. r[i] = B[i - (k - 1)]
        BY <4>1, <2>1, <2>2, <1>6
      <4> QED
        BY <3>2, <4>1, <4>2, <1>7
    <3> QED
      BY <3>1, <3>2
  <2> QED
    BY <2>1, <2>2, <2>3
<1>9. RemoveFirst(s, s[k]) = r
  BY <1>5 DEF RemoveAt, A, B
<1> HIDE DEF r, I
<1>10. Len(s) - 1 \in Nat /\ DOMAIN r = 1..Len(s) - 1
  BY <1>1, <1>8
<1> QED
  BY <1>1, <1>8, <1>9, <1>10

\* What a task that is not idle has.
LEMMA HasJob ==
  ASSUME TypeOK, Working, Admissible, NEW t \in Tasks, pc[t] # "idle"
  PROVE  /\ job[t] \in Copy /\ job[t].msg \in Messages
         /\ job[t] = [msg |-> job[t].msg, attempt |-> job[t].attempt]
         /\ job[t].attempt \in 1..MaxAttempts
BY DEF TypeOK, Working, Copy

\* Idle tasks have no message.
LEMMA IdleHasNone ==
  ASSUME Working, Admissible, NEW t \in Tasks, NEW m \in Messages, job[t].msg = m
  PROVE  pc[t] # "idle"
BY DEF Working, NoJob, Admissible

LockTypes ==
  /\ lock \in [Keys -> Locks \cup {None}] /\ holders \in [Keys -> 0..Cardinality(Tasks)]
  /\ line \in [Locks -> Seq(Tasks)] /\ ref \in [Tasks -> Locks \cup {None}]

\* There are finitely many tasks.
LEMMA SomeTasks ==
  ASSUME Admissible, NEW R \in SUBSET Tasks
  PROVE  /\ IsFiniteSet(R) /\ Cardinality(R) \in Nat /\ Cardinality(Tasks) \in Nat
         /\ Cardinality(R) <= Cardinality(Tasks) /\ (R = {} <=> Cardinality(R) = 0)
BY FS_Subset, FS_CardinalityType, FS_EmptySet DEF Admissible

\* A task that has no lock finds one that nobody refers to.
LEMMA FreshLock ==
  ASSUME Admissible, LockTypes, LockInv, NEW t \in Tasks, ref[t] = None
  PROVE  LET f == CHOOSE f \in Locks : Fresh(f) IN
           /\ f \in Locks /\ line[f] = <<>> /\ \A k \in Keys : lock[k] # f
           /\ \A u \in Tasks : ref[u] # f
<1> DEFINE Others == Tasks \ {t}
           Taken == {ref[u] : u \in Others}
<1>1. IsFiniteSet(Others) /\ Cardinality(Others) = Cardinality(Tasks) - 1 /\ IsFiniteSet(Tasks)
  BY FS_RemoveElement DEF Admissible
<1>2. IsFiniteSet(Taken) /\ Cardinality(Taken) <= Cardinality(Others)
  <2> DEFINE g == [u \in Others |-> ref[u]]
  <2>1. g \in Surjection(Others, Taken)
    BY DEF Surjection
  <2> HIDE DEF g, Taken, Others
  <2> QED
    BY <1>1, <2>1, FS_Surjection
<1>3. ~(Tasks \subseteq Taken)
  <2> HIDE DEF Taken, Others
  <2> QED
    BY <1>1, <1>2, SomeTasks, FS_Subset, FS_CardinalityType
<1>4. PICK l \in Tasks : l \notin Taken
  BY <1>3
<1>5. \A u \in Tasks : ref[u] # l
  BY <1>4 DEF Admissible
<1>6. Fresh(l)
  <2>1. line[l] = <<>>
    BY <1>5 DEF LockTypes, LockInv, Lined, Locks
  <2>2. ASSUME NEW k \in Keys, lock[k] = l PROVE FALSE
    <3>1. l # None
      BY DEF Admissible
    <3>2. PICK u \in Tasks : ref[u] # None /\ Key(u) = k
      BY <2>2, <3>1 DEF LockInv, Counted, Refs
    <3>3. ref[u] = lock[k]
      BY <3>2 DEF LockInv, Named
    <3> QED
      BY <3>3, <2>2, <1>5
  <2> QED
    BY <2>1, <2>2 DEF Fresh
<1> DEFINE f == CHOOSE f \in Locks : Fresh(f)
<1>7. f \in Locks /\ Fresh(f)
  BY <1>6 DEF Locks
<1> HIDE DEF f
<1>8. ASSUME NEW u \in Tasks, ref[u] = f PROVE FALSE
  <2>1. PICK i \in DOMAIN line[f] : line[f][i] = u
    BY <1>7, <1>8 DEF LockInv, Lined
  <2> QED
    BY <2>1, <1>7 DEF Fresh
<1> QED
  BY <1>7, <1>8 DEF Fresh, f

\* What a step changes of the others' place.
OthersStay(t) ==
  \A u \in Tasks \ {t} : job'[u] = job[u] /\ pc'[u] = pc[u]

\* The order of the others in their lines.
BehindStays(t) ==
  \A u, v \in Tasks \ {t} :
    ref[u] # None /\ Behind(u, v) => Behind(u, v)'

\* A task without a lock may change its message, and what it does short of running a
\* body or waiting for a key.
LEMMA NoLock ==
  ASSUME Admissible, LockTypes, LockInv, NEW t \in Tasks, ref[t] = None,
         UNCHANGED <<lock, holders, line, ref>>, OthersStay(t),
         pc'[t] # "waiting", Busy(t)' => Key(t)' = NoKey
  PROVE  LockTypes' /\ LockInv' /\ BehindStays(t)
<1>1. LockTypes'
  BY DEF LockTypes
<1>2. \A k \in Keys : Refs(k)' = Refs(k)
  BY DEF OthersStay, Refs, Key
<1>3. Counted'
  BY <1>2 DEF LockInv, Counted
<1>4. Named'
  BY DEF LockInv, Named, OthersStay, Key
<1>5. Lined'
  BY DEF LockInv, Lined
<1>6. Owned'
  BY DEF LockInv, Owned, OthersStay, Key, Busy
<1>7. BehindStays(t)
  BY DEF BehindStays, Behind
<1> QED
  BY <1>1, <1>3, <1>4, <1>5, <1>6, <1>7 DEF LockInv

\* A task leaves the line of its key, whatever place it has in it.
LEMMA LeavesLine ==
  ASSUME Admissible, LockTypes, LockInv, NEW t \in Tasks, ref[t] # None, Unlocks(t),
         OthersStay(t), pc'[t] # "waiting", ~Busy(t)'
  PROVE  LockTypes' /\ LockInv' /\ BehindStays(t)
<1>0. PICK k \in Keys, l \in Locks : k = Key(t) /\ l = ref[t]
  BY DEF LockTypes, LockInv, Named
<1> DEFINE q == line[l]
           r == line'[l]
<1>1. l \in Locks /\ k \in Keys /\ lock[k] = l /\ l # None /\ k = Key(t) /\ l = ref[t]
  BY <1>0 DEF LockTypes, LockInv, Named
<1>2. /\ line' = [line EXCEPT ![l] = RemoveFirst(@, t)] /\ ref' = [ref EXCEPT ![t] = None]
      /\ holders' = [holders EXCEPT ![k] = @ - 1]
      /\ lock' = [lock EXCEPT ![k] = IF holders[k] = 1 THEN None ELSE @]
  BY <1>0 DEF Unlocks, LetGo
<1>3. PICK p \in DOMAIN q : q[p] = t
  BY <1>1 DEF LockInv, Lined
<1>4. q \in Seq(Tasks) /\ \A i, j \in DOMAIN q : q[i] = q[j] => i = j
  BY <1>1 DEF LockTypes, LockInv, Lined
<1>5. r = RemoveFirst(q, q[p])
  BY <1>1, <1>2, <1>3 DEF LockTypes
<1>6. /\ r \in Seq(Tasks) /\ DOMAIN q = 1..Len(q) /\ DOMAIN r = 1..Len(q) - 1
      /\ Len(q) \in Nat /\ \A i \in DOMAIN r : r[i] = IF i < p THEN q[i] ELSE q[i + 1]
  <2> HIDE DEF q, r
  <2> QED
    BY <1>3, <1>4, <1>5, RemovesOne, SMTT(30)
<1>7. \A u \in Tasks \ {t} : ref'[u] = ref[u]
  BY <1>2 DEF LockTypes
<1>8. ref'[t] = None
  BY <1>2 DEF LockTypes
<1>9. \A j \in Keys : Refs(j)' = Refs(j) \ {t}
  BY <1>7, <1>8 DEF OthersStay, Refs, Key
<1>10. t \in Refs(k) /\ \A j \in Keys \ {k} : t \notin Refs(j)
  BY <1>1 DEF Refs
<1>11. \A j \in Keys : Refs(j) \subseteq Tasks
  BY DEF Refs
<1>12. /\ holders[k] = Cardinality(Refs(k)) /\ Cardinality(Refs(k)') = holders[k] - 1
       /\ holders[k] - 1 \in 0..Cardinality(Tasks) /\ (holders[k] = 1 <=> Refs(k)' = {})
  <2>1. holders[k] = Cardinality(Refs(k)) /\ IsFiniteSet(Refs(k))
    BY <1>1, <1>11, SomeTasks DEF LockInv, Counted
  <2>2. Cardinality(Refs(k) \ {t}) = Cardinality(Refs(k)) - 1
    BY <2>1, <1>10, FS_RemoveElement
  <2>3. Refs(k)' = Refs(k) \ {t} /\ Refs(k)' \subseteq Tasks
    BY <1>1, <1>9, <1>11
  <2>4. /\ Cardinality(Refs(k)') \in Nat /\ (Refs(k)' = {} <=> Cardinality(Refs(k)') = 0)
        /\ Cardinality(Refs(k)') <= Cardinality(Tasks) /\ Cardinality(Tasks) \in Nat
        /\ Cardinality(Refs(k)) \in Nat
    BY <2>3, SomeTasks, <1>1, <1>11
  <2> QED
    BY <2>1, <2>2, <2>3, <2>4
<1> HIDE DEF q, r
<1>13. LockTypes'
  <2>1. line' \in [Locks -> Seq(Tasks)]
    BY <1>1, <1>2, <1>6 DEF LockTypes, r
  <2>2. ref' \in [Tasks -> Locks \cup {None}] /\ lock' \in [Keys -> Locks \cup {None}]
    BY <1>2 DEF LockTypes
  <2>3. holders' \in [Keys -> 0..Cardinality(Tasks)]
    BY <1>1, <1>2, <1>12 DEF LockTypes
  <2> QED
    BY <2>1, <2>2, <2>3 DEF LockTypes
<1>14. Counted'
  <2> SUFFICES ASSUME NEW j \in Keys
               PROVE  /\ holders'[j] = Cardinality(Refs(j)')
                      /\ lock'[j] # None <=> Refs(j)' # {}
    BY DEF Counted
  <2>1. CASE j = k
    BY <2>1, <1>1, <1>2, <1>12 DEF LockTypes
  <2>2. CASE j # k
    <3>1. Refs(j)' = Refs(j) /\ holders'[j] = holders[j] /\ lock'[j] = lock[j]
      <4>1. Refs(j)' = Refs(j)
        BY <2>2, <1>9, <1>10
      <4>2. holders'[j] = holders[j] /\ lock'[j] = lock[j]
        BY <2>2, <1>1, <1>2 DEF LockTypes
      <4> QED
        BY <4>1, <4>2
    <3> QED
      BY <3>1 DEF LockInv, Counted
  <2> QED
    BY <2>1, <2>2
<1>15. Named'
  <2>1. ASSUME NEW u \in Tasks, ref'[u] # None PROVE Key(u)' \in Keys /\ ref'[u] = lock'[Key(u)']
    <3>1. u # t /\ ref'[u] = ref[u] /\ Key(u)' = Key(u)
      BY <2>1, <1>7, <1>8 DEF OthersStay, Key
    <3>2. Key(u) \in Keys /\ ref[u] = lock[Key(u)]
      BY <2>1, <3>1 DEF LockInv, Named
    <3>3. CASE Key(u) = k
      <4>1. u \in Refs(k)'
        BY <2>1, <3>1, <3>3 DEF Refs
      <4> QED
        BY <4>1, <1>12, <1>1, <1>2, <3>1, <3>2, <3>3 DEF LockTypes
    <3>4. CASE Key(u) # k
      BY <3>4, <3>1, <3>2, <1>1, <1>2 DEF LockTypes
    <3> QED
      BY <3>3, <3>4
  <2>2. \A j \in Keys : lock'[j] # None => lock'[j] = lock[j]
    BY <1>2 DEF LockTypes
  <2>3. \A i, j \in Keys : lock'[i] = lock'[j] /\ lock'[i] # None => i = j
    BY <2>2 DEF LockInv, Named
  <2> QED
    BY <2>1, <2>3 DEF Named
<1>16. Lined'
  <2> SUFFICES ASSUME NEW m \in Locks
               PROVE  /\ \A i \in DOMAIN line'[m] : ref'[line'[m][i]] = m
                      /\ \A u \in Tasks : ref'[u] = m =>
                           \E i \in DOMAIN line'[m] : line'[m][i] = u
                      /\ \A i, j \in DOMAIN line'[m] : line'[m][i] = line'[m][j] => i = j
    BY DEF Lined
  <2>1. CASE m # l
    <3>1. line'[m] = line[m]
      BY <2>1, <1>1, <1>2 DEF LockTypes
    <3>2. \A i \in DOMAIN line[m] : line[m][i] \in Tasks
      BY DEF LockTypes
    <3>3. \A i \in DOMAIN line[m] : line[m][i] # t
      BY <2>1, <1>1 DEF LockInv, Lined
    <3>4. \A u \in Tasks : ref'[u] = m => ref[u] = m
      BY <1>7, <1>8, <1>1 DEF Admissible, Locks
    <3> QED
      BY <3>1, <3>2, <3>3, <3>4, <1>7 DEF LockInv, Lined
  <2>2. CASE m = l
    <3>1. \A i \in DOMAIN q : q[i] \in Tasks /\ ref[q[i]] = l
      BY <1>1, <1>4 DEF LockInv, Lined, q
    <3>2. \A i \in DOMAIN r : \E j \in DOMAIN q : j # p /\ r[i] = q[j]
      <4> TAKE i \in DOMAIN r
      <4>1. i \in DOMAIN q /\ i + 1 \in DOMAIN q
        BY <1>6
      <4> QED
        BY <4>1, <1>6
    <3>3. \A i \in DOMAIN r : r[i] # t /\ r[i] \in Tasks /\ ref[r[i]] = l
      BY <3>1, <3>2, <1>3, <1>4
    <3>4. ASSUME NEW u \in Tasks, ref'[u] = l PROVE \E i \in DOMAIN r : r[i] = u
      <4>1. u # t /\ ref[u] = l
        BY <3>4, <1>7, <1>8, <1>1
      <4>2. PICK i \in DOMAIN q : q[i] = u
        BY <4>1, <1>1 DEF LockInv, Lined, q
      <4>3. i # p
        BY <4>1, <4>2, <1>3
      <4>4. CASE i < p
        BY <4>2, <4>4, <1>3, <1>6
      <4>5. CASE p < i
        <5>1. i - 1 \in DOMAIN r /\ r[i - 1] = q[i]
          BY <4>5, <1>3, <1>6
        <5> QED
          BY <5>1, <4>2
      <4> QED
        BY <4>3, <4>4, <4>5, <1>6
    <3>5. ASSUME NEW i \in DOMAIN r, NEW j \in DOMAIN r, r[i] = r[j] PROVE i = j
      <4>1. \A g \in DOMAIN r : g \in Nat /\ g \in DOMAIN q /\ g + 1 \in DOMAIN q
        BY <1>6
      <4>2. p \in Nat
        BY <1>3, <1>6
      <4> QED
        BY <3>5, <4>1, <4>2, <1>4, <1>6
    <3> QED
      BY <2>2, <3>3, <3>4, <3>5, <1>7 DEF r
  <2> QED
    BY <2>1, <2>2
<1>17. Owned'
  <2> SUFFICES ASSUME NEW u \in Tasks
               PROVE  /\ ref'[u] # None <=> pc'[u] = "waiting" \/ (Busy(u)' /\ Key(u)' # NoKey)
                      /\ pc'[u] = "waiting" => Key(u)' # NoKey
                      /\ ref'[u] # None /\ Busy(u)' => line'[ref'[u]][1] = u
    BY DEF Owned
  <2>1. CASE u = t
    BY <2>1, <1>8
  <2>2. CASE u # t
    <3>1. ref'[u] = ref[u] /\ pc'[u] = pc[u] /\ Key(u)' = Key(u) /\ (Busy(u)' <=> Busy(u))
      BY <2>2, <1>7 DEF OthersStay, Key, Busy
    <3>2. /\ ref[u] # None <=> pc[u] = "waiting" \/ (Busy(u) /\ Key(u) # NoKey)
          /\ pc[u] = "waiting" => Key(u) # NoKey
          /\ ref[u] # None /\ Busy(u) => line[ref[u]][1] = u
      BY DEF LockInv, Owned
    <3>3. ASSUME ref[u] # None, Busy(u) PROVE line'[ref[u]][1] = u
      <4>1. CASE ref[u] = l
        <5>1. q[1] = u /\ 1 # p
          BY <4>1, <3>2, <3>3, <2>2, <1>3 DEF q
        <5>2. \E i \in DOMAIN q : q[i] = u
          BY <4>1, <1>1 DEF LockInv, Lined, q
        <5>3. 1 \in DOMAIN r /\ 1 < p
          BY <5>1, <5>2, <1>3, <1>6
        <5> QED
          BY <4>1, <5>1, <5>3, <1>6 DEF r
      <4>2. CASE ref[u] # l
        <5>1. line'[ref[u]] = line[ref[u]]
          BY <4>2, <3>3, <1>1, <1>2 DEF LockTypes
        <5> QED
          BY <5>1, <3>2, <3>3
      <4> QED
        BY <4>1, <4>2
    <3> QED
      BY <3>1, <3>2, <3>3
  <2> QED
    BY <2>1, <2>2
<1>18. BehindStays(t)
  <2> SUFFICES ASSUME NEW u \in Tasks \ {t}, NEW v \in Tasks \ {t}, ref[u] # None, Behind(u, v)
               PROVE  Behind(u, v)'
    BY DEF BehindStays
  <2>1. ref'[u] = ref[u] /\ ref'[v] = ref[v] /\ ref[u] = ref[v]
    BY <1>7 DEF Behind
  <2>2. CASE ref[u] = l
    <3>1. PICK i, j \in DOMAIN q : i < j /\ q[i] = u /\ q[j] = v
      BY <2>2 DEF Behind, q
    <3>2. i # p /\ j # p
      BY <3>1, <1>3
    <3> DEFINE now(g) == IF g < p THEN g ELSE g - 1
    <3>3. /\ now(i) \in DOMAIN r /\ now(j) \in DOMAIN r /\ now(i) < now(j)
          /\ r[now(i)] = q[i] /\ r[now(j)] = q[j]
      BY <3>1, <3>2, <1>3, <1>6
    <3> HIDE DEF now
    <3> QED
      BY <2>1, <2>2, <3>1, <3>3 DEF Behind, r
  <2>3. CASE ref[u] # l
    <3>1. line'[ref[u]] = line[ref[u]]
      BY <2>3, <1>1, <1>2 DEF LockTypes
    <3> QED
      BY <2>1, <3>1 DEF Behind
  <2> QED
    BY <2>2, <2>3
<1> QED
  BY <1>13, <1>14, <1>15, <1>16, <1>17, <1>18 DEF LockInv

\* Unlocking, whether the task has a lock or not.
LEMMA Unlocking ==
  ASSUME Admissible, LockTypes, LockInv, NEW t \in Tasks, Unlocks(t),
         OthersStay(t), pc'[t] # "waiting", ~Busy(t)'
  PROVE  LockTypes' /\ LockInv' /\ BehindStays(t)
<1>1. CASE ref[t] = None
  <2>1. UNCHANGED <<lock, holders, line, ref>>
    BY <1>1 DEF Unlocks, locks
  <2> QED
    BY <1>1, <2>1, NoLock
<1>2. CASE ref[t] # None
  BY <1>2, LeavesLine
<1> QED
  BY <1>1, <1>2

\* A task with a new message gets in the line of its key, at its end.
LEMMA JoinsLine ==
  ASSUME Admissible, LockTypes, LockInv, NEW t \in Tasks, ref[t] = None, OthersStay(t),
         NEW k \in Keys, k = Key(t)', k # NoKey, NEW l \in Locks,
         IF lock[k] = None THEN l = CHOOSE f \in Locks : Fresh(f) ELSE l = lock[k],
         lock' = [lock EXCEPT ![k] = l],
         holders' = [holders EXCEPT ![k] = Held(k)],
         line' = [line EXCEPT ![l] = Append(@, t)],
         ref' = [ref EXCEPT ![t] = l],
         IF line[l] = <<>> THEN Busy(t)' ELSE pc'[t] = "waiting"
  PROVE  /\ LockTypes' /\ LockInv' /\ BehindStays(t)
         /\ ref'[t] = l
         /\ \A u \in Tasks : ref[u] # None /\ Key(u) = k => line[l] # <<>> /\ Behind(u, t)'
<1> DEFINE q == line[l]
           r == line'[l]
<1>1. l # None /\ q \in Seq(Tasks)
  BY DEF LockTypes, Admissible, Locks
<1>2. r = Append(q, t)
  BY DEF LockTypes
<1>3. /\ r \in Seq(Tasks) /\ Len(q) \in Nat /\ DOMAIN q = 1..Len(q)
      /\ DOMAIN r = 1..Len(q) + 1 /\ r[Len(q) + 1] = t /\ \A i \in DOMAIN q : r[i] = q[i]
  <2> HIDE DEF q, r
  <2> QED
    BY <1>1, <1>2
<1>4. \A u \in Tasks \ {t} : ref'[u] = ref[u]
  BY DEF LockTypes
<1>5. ref'[t] = l
  BY DEF LockTypes
<1>6. \A m \in Locks \ {l} : line'[m] = line[m]
  BY DEF LockTypes
<1>7. /\ lock'[k] = l /\ holders'[k] = holders[k] + 1
      /\ \A j \in Keys \ {k} : lock'[j] = lock[j] /\ holders'[j] = holders[j]
  BY DEF LockTypes, Held
<1>8. Refs(k)' = Refs(k) \cup {t} /\ t \notin Refs(k)
  BY <1>4, <1>5, <1>1 DEF OthersStay, Refs, Key
<1>9. \A j \in Keys \ {k} : Refs(j)' = Refs(j)
  BY <1>4, <1>5 DEF OthersStay, Refs, Key
<1>10. \A j \in Keys : lock[j] = l => j = k
  <2>1. CASE lock[k] = None
    BY <2>1, FreshLock
  <2>2. CASE lock[k] # None
    BY <2>2 DEF LockInv, Named
  <2> QED
    BY <2>1, <2>2
<1>11. \A u \in Tasks : ref[u] = l => Key(u) = k
  BY <1>1, <1>10 DEF LockInv, Named
<1>12. \A u \in Tasks : ref[u] # None /\ Key(u) = k => ref[u] = l
  BY <1>1 DEF LockInv, Named
<1>13. Cardinality(Refs(k)') = holders[k] + 1 /\ holders[k] + 1 \in 0..Cardinality(Tasks)
  <2>1. Refs(k) \subseteq Tasks /\ Refs(k)' \subseteq Tasks
    BY <1>8 DEF Refs
  <2>2. holders[k] = Cardinality(Refs(k)) /\ IsFiniteSet(Refs(k))
    BY <2>1, SomeTasks DEF LockInv, Counted
  <2>3. Cardinality(Refs(k) \cup {t}) = Cardinality(Refs(k)) + 1
    BY <2>2, <1>8, FS_AddElement
  <2>4. /\ Cardinality(Refs(k)') \in Nat /\ Cardinality(Refs(k)) \in Nat
        /\ Cardinality(Refs(k)') <= Cardinality(Tasks) /\ Cardinality(Tasks) \in Nat
    BY <2>1, SomeTasks
  <2> QED
    BY <2>2, <2>3, <2>4, <1>8
<1> HIDE DEF q, r
<1>14. LockTypes'
  <2>1. line' \in [Locks -> Seq(Tasks)]
    BY <1>3 DEF LockTypes, r
  <2>2. ref' \in [Tasks -> Locks \cup {None}] /\ lock' \in [Keys -> Locks \cup {None}]
    BY DEF LockTypes
  <2>3. holders' \in [Keys -> 0..Cardinality(Tasks)]
    BY <1>13 DEF LockTypes, Held
  <2> QED
    BY <2>1, <2>2, <2>3 DEF LockTypes
<1>15. Counted'
  <2> SUFFICES ASSUME NEW j \in Keys
               PROVE  /\ holders'[j] = Cardinality(Refs(j)')
                      /\ lock'[j] # None <=> Refs(j)' # {}
    BY DEF Counted
  <2>1. CASE j = k
    BY <2>1, <1>1, <1>7, <1>8, <1>13
  <2>2. CASE j # k
    <3>1. Refs(j)' = Refs(j)
      BY <2>2, <1>9
    <3>2. holders'[j] = holders[j] /\ lock'[j] = lock[j]
      BY <2>2, <1>7
    <3> QED
      BY <3>1, <3>2 DEF LockInv, Counted
  <2> QED
    BY <2>1, <2>2
<1>16. Named'
  <2>1. ASSUME NEW u \in Tasks, ref'[u] # None PROVE Key(u)' \in Keys /\ ref'[u] = lock'[Key(u)']
    <3>1. CASE u = t
      BY <3>1, <1>5, <1>7
    <3>2. CASE u # t
      <4>1. ref'[u] = ref[u] /\ Key(u)' = Key(u)
        BY <3>2, <1>4 DEF OthersStay, Key
      <4>2. Key(u) \in Keys /\ ref[u] = lock[Key(u)]
        BY <4>1, <2>1 DEF LockInv, Named
      <4>3. Key(u) = k => ref[u] = l
        BY <4>1, <2>1, <1>12
      <4> QED
        BY <4>1, <4>2, <4>3, <1>7
    <3> QED
      BY <3>1, <3>2
  <2>2. \A i, j \in Keys : lock'[i] = lock'[j] /\ lock'[i] # None => i = j
    BY <1>7, <1>10 DEF LockInv, Named
  <2> QED
    BY <2>1, <2>2 DEF Named
<1>17. Lined'
  <2> SUFFICES ASSUME NEW m \in Locks
               PROVE  /\ \A i \in DOMAIN line'[m] : ref'[line'[m][i]] = m
                      /\ \A u \in Tasks : ref'[u] = m =>
                           \E i \in DOMAIN line'[m] : line'[m][i] = u
                      /\ \A i, j \in DOMAIN line'[m] : line'[m][i] = line'[m][j] => i = j
    BY DEF Lined
  <2>0. \A i \in DOMAIN line[m] : line[m][i] \in Tasks /\ line[m][i] # t /\ ref[line[m][i]] = m
    BY DEF LockTypes, LockInv, Lined, Admissible, Locks
  <2>1. CASE m # l
    <3>1. line'[m] = line[m]
      BY <2>1, <1>6
    <3>2. \A u \in Tasks : ref'[u] = m => ref[u] = m
      BY <2>1, <1>4, <1>5
    <3> QED
      <4>0. PICK w : w = line[m] /\ w = line'[m]
        BY <3>1
      <4>1. \A i \in DOMAIN w : ref'[w[i]] = m
        BY <2>0, <1>4, <4>0
      <4>2. /\ \A u \in Tasks : ref[u] = m => \E i \in DOMAIN w : w[i] = u
            /\ \A i, j \in DOMAIN w : w[i] = w[j] => i = j
        <5>1. /\ \A u \in Tasks : ref[u] = m => \E i \in DOMAIN line[m] : line[m][i] = u
              /\ \A i, j \in DOMAIN line[m] : line[m][i] = line[m][j] => i = j
          BY DEF LockInv, Lined
        <5> QED
          BY <4>0, <5>1
      <4>3. \A u \in Tasks : ref'[u] = m => \E i \in DOMAIN w : w[i] = u
        BY <3>2, <4>2
      <4> QED
        BY <4>0, <4>1, <4>2, <4>3
  <2>2. CASE m = l
    <3>1. \A i \in DOMAIN q : q[i] \in Tasks /\ q[i] # t /\ ref[q[i]] = l
      BY <2>0, <2>2 DEF q
    <3>2. \A i \in DOMAIN r : i = Len(q) + 1 \/ i \in DOMAIN q
      BY <1>3
    <3>3. \A i \in DOMAIN r : ref'[r[i]] = l
      BY <3>1, <3>2, <1>3, <1>4, <1>5
    <3>4. \A u \in Tasks : ref'[u] = l => \E i \in DOMAIN r : r[i] = u
      <4>1. Len(q) + 1 \in DOMAIN r /\ \A i \in DOMAIN q : i \in DOMAIN r
        BY <1>3
      <4>2. \A u \in Tasks : ref[u] = l => \E i \in DOMAIN q : q[i] = u
        BY DEF LockInv, Lined, q
      <4> QED
        BY <4>1, <4>2, <1>3, <1>4
    <3>5. \A i, j \in DOMAIN q : q[i] = q[j] => i = j
      BY DEF LockInv, Lined, q
    <3>6. \A i, j \in DOMAIN r : r[i] = r[j] => i = j
      BY <3>1, <3>2, <3>5, <1>3
    <3> QED
      BY <2>2, <3>3, <3>4, <3>6 DEF r
  <2> QED
    BY <2>1, <2>2
<1>18. Owned'
  <2> SUFFICES ASSUME NEW u \in Tasks
               PROVE  /\ ref'[u] # None <=> pc'[u] = "waiting" \/ (Busy(u)' /\ Key(u)' # NoKey)
                      /\ pc'[u] = "waiting" => Key(u)' # NoKey
                      /\ ref'[u] # None /\ Busy(u)' => line'[ref'[u]][1] = u
    BY DEF Owned
  <2>1. CASE u = t
    <3>1. pc'[t] = "waiting" \/ Busy(t)'
      OBVIOUS
    <3>2. ASSUME Busy(t)' PROVE r[1] = t
      <4>1. q = <<>>
        BY <3>2 DEF Busy, q
      <4> QED
        BY <4>1, <1>2
    <3> QED
      BY <2>1, <3>1, <3>2, <1>1, <1>5 DEF r
  <2>2. CASE u # t
    <3>1. ref'[u] = ref[u] /\ pc'[u] = pc[u] /\ Key(u)' = Key(u) /\ (Busy(u)' <=> Busy(u))
      BY <2>2, <1>4 DEF OthersStay, Key, Busy
    <3>2. /\ ref[u] # None <=> pc[u] = "waiting" \/ (Busy(u) /\ Key(u) # NoKey)
          /\ pc[u] = "waiting" => Key(u) # NoKey
          /\ ref[u] # None /\ Busy(u) => line[ref[u]][1] = u
      BY DEF LockInv, Owned
    <3>3. ASSUME ref[u] # None, Busy(u) PROVE line'[ref[u]][1] = u
      <4>1. ref[u] \in Locks
        BY <3>3 DEF LockTypes
      <4>2. CASE ref[u] = l
        <5>1. q[1] = u /\ \E i \in DOMAIN q : q[i] = u
          BY <4>2, <3>2, <3>3 DEF LockInv, Lined, q
        <5>2. 1 \in DOMAIN q
          BY <5>1, <1>3
        <5> QED
          BY <4>2, <5>1, <5>2, <1>3 DEF r
      <4>3. CASE ref[u] # l
        BY <4>1, <4>3, <1>6, <3>2, <3>3
      <4> QED
        BY <4>2, <4>3
    <3> QED
      BY <3>1, <3>2, <3>3
  <2> QED
    BY <2>1, <2>2
<1>19. BehindStays(t)
  <2> SUFFICES ASSUME NEW u \in Tasks \ {t}, NEW v \in Tasks \ {t}, ref[u] # None, Behind(u, v)
               PROVE  Behind(u, v)'
    BY DEF BehindStays
  <2>1. ref'[u] = ref[u] /\ ref'[v] = ref[v] /\ ref[u] = ref[v] /\ ref[u] \in Locks
    BY <1>4 DEF Behind, LockTypes
  <2>2. CASE ref[u] = l
    <3>1. PICK i, j \in DOMAIN q : i < j /\ q[i] = u /\ q[j] = v
      BY <2>2 DEF Behind, q
    <3>2. i \in DOMAIN r /\ j \in DOMAIN r /\ r[i] = u /\ r[j] = v
      BY <3>1, <1>3
    <3> QED
      BY <2>1, <2>2, <3>1, <3>2 DEF Behind, r
  <2>3. CASE ref[u] # l
    <3>1. line'[ref[u]] = line[ref[u]]
      BY <2>1, <2>3, <1>6
    <3> QED
      BY <2>1, <3>1 DEF Behind
  <2> QED
    BY <2>2, <2>3
<1>20. ASSUME NEW u \in Tasks, ref[u] # None, Key(u) = k PROVE line[l] # <<>> /\ Behind(u, t)'
  <2>1. ref[u] = l /\ u # t
    BY <1>12, <1>20
  <2>2. PICK i \in DOMAIN q : q[i] = u
    BY <2>1 DEF LockInv, Lined, q
  <2>3. i \in DOMAIN r /\ Len(q) + 1 \in DOMAIN r /\ i < Len(q) + 1 /\ r[i] = u
    BY <2>2, <1>3
  <2>4. line[l] # <<>>
    BY <2>2 DEF q
  <2>5. ref'[u] = l
    BY <2>1, <1>4
  <2> QED
    BY <2>3, <2>4, <2>5, <1>3, <1>5 DEF Behind, r
<1> QED
  BY <1>5, <1>14, <1>15, <1>16, <1>17, <1>18, <1>19, <1>20 DEF LockInv


-----------------------------------------------------------------------------
(* The groups of steps *)

\* A task goes on with its message.
Moves(t) == Granted(t) \/ Boards(t) \/ Body(t) \/ Deadline(t)

\* Nothing happens to a message or a task.
Rests == UNCHANGED <<config, source, tasks, locks, sagas, history>>

\* A step is one of these.
LEMMA StepKinds ==
  ASSUME [Next]_vars
  PROVE  \/ \E t \in Tasks : Takes(t) \/ Moves(t) \/ Settles(t) \/ CutsOff(t)
         \/ \E c \in Members : Delivers(c) \/ Stops(c)
         \/ Rests /\ zombies' = zombies /\ UNCHANGED control
         \/ Rests /\ zombies' = zombies
              /\ \/ \E c \in Members : StartsMember(c) \/ Drained(c)
                 \/ Closes
         \/ Rests /\ UNCHANGED control /\ \E i \in DOMAIN zombies : zombies' = RemoveAt(zombies, i)
<1>1. CASE \E t \in Tasks : \/ Takes(t) \/ Granted(t) \/ Boards(t) \/ Body(t)
                            \/ Deadline(t) \/ Settles(t) \/ CutsOff(t)
  BY <1>1 DEF Moves
<1>2. ASSUME NEW i \in DOMAIN zombies, ZombieEnds(i)
      PROVE  Rests /\ UNCHANGED control /\ zombies' = RemoveAt(zombies, i)
  BY <1>2 DEF ZombieEnds, Rests
<1>3. ASSUME NEW c \in Members, StartsMember(c) \/ Drained(c)
      PROVE  Rests /\ zombies' = zombies
  BY <1>3 DEF StartsMember, Drained, Rests, control
<1>4. CASE Closes
  BY <1>4 DEF Closes, Rests, control
<1>5. CASE UNCHANGED vars
  BY <1>5 DEF vars, Rests
<1> QED
  BY <1>1, <1>2, <1>3, <1>4, <1>5 DEF Next

\* What a task that goes on leaves alone.
LEMMA MovesFacts ==
  ASSUME TypeOK, NEW t \in Tasks, Moves(t)
  PROVE  /\ UNCHANGED <<member, limit, threaded, queue, buffer, job, first, handled, dead, state, group>>
         /\ pc[t] \in {"waiting", "queued", "acting", "undoing"}
         /\ \E p \in {"queued", "acting", "undoing"} \cup Verdicts : pc' = [pc EXCEPT ![t] = p]
         /\ OthersStay(t)
         /\ began \subseteq began' /\ began' \subseteq began \cup {job[t].msg}
         /\ cut \subseteq cut' /\ cut' \subseteq cut \cup {job[t].msg}
<1> USE DEF config, source, tasks, locks, control, sagas, history, OthersStay, Verdicts
<1>0. pc = [pc EXCEPT ![t] = pc[t]]
  BY DEF TypeOK
<1>1. CASE Granted(t)
  BY <1>1 DEF Granted, Opens, TypeOK
<1>2. CASE Boards(t)
  BY <1>2 DEF Boards, TypeOK
<1>3. CASE Returns(t)
  BY <1>3 DEF Returns, Answers, TypeOK
<1>4. CASE Acts(t)
  BY <1>0, <1>4 DEF Acts, Answers, TypeOK
<1>5. CASE ActFails(t)
  BY <1>5 DEF ActFails, TypeOK
<1>6. CASE Undoes(t)
  BY <1>0, <1>6 DEF Undoes, TypeOK
<1>7. CASE Undone(t)
  BY <1>7 DEF Undone, Answers, TypeOK
<1>8. CASE Deadline(t)
  BY <1>8 DEF Deadline, Answers, Busy, TypeOK
<1> QED
  BY <1>1, <1>2, <1>3, <1>4, <1>5, <1>6, <1>7, <1>8 DEF Moves, Body


-----------------------------------------------------------------------------
(* The locks *)

\* The shape a behaviour has.
LEMMA ShapeTypes ==
  ASSUME Admissible, TypeOK
  PROVE  /\ member \in [Tasks -> Members] /\ threaded \in BOOLEAN
         /\ limit \in {"none", "outer", "inner"}
<1> DEFINE s == [member |-> member, limit |-> limit, threaded |-> threaded]
<1>1. s \in [member : [Tasks -> Members], limit : {"none", "outer", "inner"}, threaded : BOOLEAN]
  BY DEF TypeOK, Admissible
<1>2. s.member = member /\ s.limit = limit /\ s.threaded = threaded
  OBVIOUS
<1> HIDE DEF s
<1>3. /\ s.member \in [Tasks -> Members] /\ s.limit \in {"none", "outer", "inner"}
      /\ s.threaded \in BOOLEAN
  BY <1>1
<1> QED
  BY <1>2, <1>3

\* The types of the locks are some of all the types.
LEMMA TypesOfLocks ==
  ASSUME TypeOK
  PROVE  LockTypes
BY DEF TypeOK, LockTypes

\* What a task that takes a message does to the locks.
LEMMA TakesLocks ==
  ASSUME Admissible, TypeOK, LockInv, Working, NEW t \in Tasks, Takes(t)
  PROVE  /\ LockTypes' /\ LockInv' /\ BehindStays(t) /\ OthersStay(t)
         /\ pc[t] = "idle" /\ ref[t] = None /\ pc'[t] \in {"waiting", "queued", "acting"}
         /\ (pc'[t] = "waiting" => KeyOf[job'[t].msg] # NoKey)
         /\ KeyOf[job'[t].msg] # NoKey =>
              /\ ref'[t] # None
              /\ \A u \in Tasks : ref[u] # None /\ Key(u) = KeyOf[job'[t].msg] =>
                   pc'[t] = "waiting" /\ Behind(u, t)'
<1> DEFINE c == Head(buffer[member[t]])
           k == KeyOf[c.msg]
<1>0. buffer[member[t]] # <<>> /\ buffer[member[t]] \in Seq(Copy) /\ member[t] \in Members
  BY ShapeTypes DEF Takes, TypeOK
<1>1. c \in Copy
  BY <1>0
<1>2. c.msg \in Messages /\ (k = NoKey \/ k \in Keys)
  BY <1>1 DEF Copy, Keys
<1> HIDE DEF c
<1>3. /\ job' = [job EXCEPT ![t] = c] /\ pc[t] = "idle"
      /\ \/ k = NoKey /\ pc' = [pc EXCEPT ![t] = Opens(t)] /\ UNCHANGED locks
         \/ k # NoKey /\ \E l \in Locks :
              /\ IF lock[k] = None THEN l = CHOOSE f \in Locks : Fresh(f) ELSE l = lock[k]
              /\ lock' = [lock EXCEPT ![k] = l]
              /\ holders' = [holders EXCEPT ![k] = Held(k)]
              /\ line' = [line EXCEPT ![l] = Append(@, t)]
              /\ ref' = [ref EXCEPT ![t] = l]
              /\ pc' = [pc EXCEPT ![t] = IF line[l] = <<>> THEN Opens(t) ELSE "waiting"]
  BY DEF Takes, c
<1>4. OthersStay(t) /\ job'[t] = c /\ Key(t)' = k /\ LockTypes
  BY <1>3, TypesOfLocks DEF OthersStay, TypeOK, Key
<1>5. ref[t] = None
  BY <1>3 DEF LockInv, Owned, Busy
<1>6. Opens(t) \in {"queued", "acting"}
  BY DEF Opens
<1>7. CASE k = NoKey
  <2>1. UNCHANGED <<lock, holders, line, ref>> /\ pc'[t] = Opens(t)
    BY <1>3, <1>7 DEF locks, TypeOK
  <2>2. LockTypes' /\ LockInv' /\ BehindStays(t)
    BY <2>1, <1>4, <1>5, <1>6, <1>7, NoLock
  <2> QED
    BY <2>1, <2>2, <1>3, <1>4, <1>5, <1>6, <1>7
<1>8. CASE k # NoKey
  <2>1. PICK l \in Locks :
              /\ IF lock[k] = None THEN l = CHOOSE f \in Locks : Fresh(f) ELSE l = lock[k]
              /\ lock' = [lock EXCEPT ![k] = l]
              /\ holders' = [holders EXCEPT ![k] = Held(k)]
              /\ line' = [line EXCEPT ![l] = Append(@, t)]
              /\ ref' = [ref EXCEPT ![t] = l]
              /\ pc' = [pc EXCEPT ![t] = IF line[l] = <<>> THEN Opens(t) ELSE "waiting"]
    BY <1>3, <1>8
  <2>2. pc'[t] = IF line[l] = <<>> THEN Opens(t) ELSE "waiting"
    BY <2>1 DEF TypeOK
  <2>3. IF line[l] = <<>> THEN Busy(t)' ELSE pc'[t] = "waiting"
    BY <2>2, <1>6 DEF Busy
  <2>4. k \in Keys
    BY <1>2, <1>8
  <2> HIDE DEF k
  <2>5. PICK j \in Keys : j = k
    BY <2>4
  <2>6. /\ LockTypes' /\ LockInv' /\ BehindStays(t) /\ ref'[t] = l
        /\ \A u \in Tasks : ref[u] # None /\ Key(u) = k => line[l] # <<>> /\ Behind(u, t)'
    BY <2>1, <2>3, <2>5, <1>4, <1>5, <1>8, JoinsLine
  <2>7. l # None
    BY DEF Admissible, Locks
  <2> QED
    BY <2>2, <2>6, <2>7, <1>3, <1>4, <1>5, <1>6, <1>8 DEF k
<1> QED
  BY <1>7, <1>8

\* Moving on within a body, or into it from the head of the line.
LEMMA MovesLocks ==
  ASSUME Admissible, TypeOK, LockInv, NEW t \in Tasks, Moves(t)
  PROVE  /\ LockTypes' /\ LockInv' /\ BehindStays(t)
         /\ UNCHANGED <<line, ref>> \/ ref'[t] = None
<1>0. LockTypes /\ OthersStay(t) /\ UNCHANGED job
  BY TypesOfLocks, MovesFacts
<1> DEFINE Then == /\ LockTypes' /\ LockInv' /\ BehindStays(t)
                   /\ UNCHANGED <<line, ref>> \/ ref'[t] = None
           Stays == /\ UNCHANGED <<lock, holders, line, ref>>
                    /\ pc'[t] # "waiting"
                    /\ Busy(t)' /\ (Busy(t) \/ (pc[t] = "waiting" /\ Head(line[ref[t]]) = t))
<1>1. ASSUME Unlocks(t), pc'[t] \in Verdicts PROVE Then
  <2>1. LockTypes' /\ LockInv' /\ BehindStays(t)
    BY <1>0, <1>1, Unlocking DEF Busy, Verdicts
  <2>2. UNCHANGED <<line, ref>> \/ ref'[t] = None
    BY <1>1 DEF Unlocks, TypeOK, locks
  <2> QED
    BY <2>1, <2>2
<1>2. ASSUME Stays PROVE Then
  <2>1. LockTypes' /\ BehindStays(t)
    BY <1>0, <1>2 DEF LockTypes, BehindStays, Behind
  <2>2. Counted' /\ Named' /\ Lined'
    <3>1. \A k \in Keys : Refs(k)' = Refs(k)
      BY <1>0, <1>2 DEF Refs, Key
    <3>2. Counted'
      BY <3>1, <1>2 DEF LockInv, Counted
    <3>3. Named'
      BY <1>0, <1>2 DEF LockInv, Named, Key
    <3>4. Lined'
      BY <1>2 DEF LockInv, Lined
    <3> QED
      BY <3>2, <3>3, <3>4
  <2>3. Owned'
    <3>1. \A u \in Tasks \ {t} : (Busy(u)' <=> Busy(u)) /\ pc'[u] = pc[u]
      BY <1>0 DEF OthersStay, Busy
    <3>2. \A u \in Tasks : Key(u)' = Key(u)
      BY <1>0 DEF Key
    <3>3. pc[t] = "waiting" => ref[t] # None /\ line[ref[t]][1] = t
      <4>1. pc[t] = "waiting" => ref[t] # None /\ ref[t] \in Locks /\ ~Busy(t)
        BY DEF LockInv, Owned, TypeOK, Busy
      <4>2. \A l \in Locks : line[l] \in Seq(Tasks) /\ (line[l] # <<>> => Head(line[l]) = line[l][1])
        BY DEF TypeOK
      <4>3. pc[t] = "waiting" => line[ref[t]] # <<>>
        BY <4>1 DEF LockInv, Lined
      <4> QED
        BY <4>1, <4>2, <4>3, <1>2
    <3>4. /\ ref'[t] # None <=> pc'[t] = "waiting" \/ (Busy(t)' /\ Key(t)' # NoKey)
          /\ ref'[t] # None /\ Busy(t)' => line'[ref'[t]][1] = t
      BY <3>2, <3>3, <1>2 DEF LockInv, Owned
    <3> QED
      BY <3>1, <3>2, <3>4, <1>2 DEF LockInv, Owned
  <2> QED
    BY <2>1, <2>2, <2>3, <1>2 DEF LockInv
<1> HIDE DEF Then
<1> SUFFICES Then
  BY DEF Then
<1> USE DEF locks, Busy
<1>3. CASE Granted(t)
  BY <1>2, <1>3 DEF Granted, Opens, TypeOK
<1>4. CASE Boards(t)
  BY <1>2, <1>4 DEF Boards, TypeOK
<1>5. CASE Returns(t)
  BY <1>1, <1>5 DEF Returns, Answers, TypeOK, Verdicts
<1>6. CASE Acts(t)
  BY <1>1, <1>2, <1>6 DEF Acts, Answers, TypeOK, Verdicts
<1>7. CASE ActFails(t)
  BY <1>2, <1>7 DEF ActFails, TypeOK
<1>8. CASE Undoes(t)
  BY <1>2, <1>8 DEF Undoes, TypeOK
<1>9. CASE Undone(t)
  BY <1>1, <1>9 DEF Undone, Answers, TypeOK, Verdicts
<1>10. CASE Deadline(t)
  BY <1>1, <1>10 DEF Deadline, Answers, TypeOK, Verdicts
<1> QED
  BY <1>3, <1>4, <1>5, <1>6, <1>7, <1>8, <1>9, <1>10 DEF Moves, Body

\* The lock of a key is that of who has it and who waits for it, whatever happens.
LEMMA LockStep ==
  ASSUME Admissible, TypeOK, LockInv, Working, [Next]_vars
  PROVE  LockTypes' /\ LockInv'
<1>0. LockTypes
  BY TypesOfLocks
<1>1. ASSUME NEW t \in Tasks, Settles(t) PROVE LockTypes' /\ LockInv'
  <2>1. ref[t] = None
    BY <1>1 DEF Settles, LockInv, Owned, Busy, Verdicts
  <2>2. UNCHANGED <<lock, holders, line, ref>> /\ OthersStay(t) /\ pc'[t] = "idle"
    BY <1>1 DEF Settles, locks, OthersStay, TypeOK
  <2> QED
    BY <2>1, <2>2, <1>0, NoLock DEF Busy
<1>2. ASSUME NEW t \in Tasks, CutsOff(t) PROVE LockTypes' /\ LockInv'
  <2>1. Unlocks(t) /\ OthersStay(t) /\ pc'[t] = "idle"
    BY <1>2 DEF CutsOff, OthersStay, TypeOK
  <2> QED
    BY <2>1, <1>0, Unlocking DEF Busy
<1>3. ASSUME UNCHANGED <<job, pc, lock, holders, line, ref>> PROVE LockTypes' /\ LockInv'
  <2>1. LockTypes'
    BY <1>0, <1>3 DEF LockTypes
  <2>2. \A k \in Keys : Refs(k)' = Refs(k)
    BY <1>3 DEF Refs, Key
  <2>3. Counted' /\ Lined'
    BY <1>3, <2>2 DEF LockInv, Counted, Lined
  <2>4. Named' /\ Owned'
    BY <1>3 DEF LockInv, Named, Owned, Key, Busy
  <2> QED
    BY <2>1, <2>3, <2>4 DEF LockInv
<1>4. ASSUME NEW c \in Members, Delivers(c) \/ Stops(c) PROVE LockTypes' /\ LockInv'
  BY <1>3, <1>4 DEF Delivers, Stops, tasks, locks
<1>5. ASSUME Rests PROVE LockTypes' /\ LockInv'
  BY <1>3, <1>5 DEF Rests, tasks, locks
<1> QED
  BY <1>1, <1>2, <1>4, <1>5, StepKinds, TakesLocks, MovesLocks


-----------------------------------------------------------------------------
(* Types, and how far the sagas are *)

\* A sequence with one place left out.
LEMMA RemoveAtType ==
  ASSUME NEW S, NEW s \in Seq(S), NEW i \in DOMAIN s
  PROVE  RemoveAt(s, i) \in Seq(S)
<1>1. i \in 1..Len(s) /\ Len(s) \in Nat
  OBVIOUS
<1>2. SubSeq(s, 1, i - 1) \in Seq(S)
  BY <1>1
<1>3. SubSeq(s, i + 1, Len(s)) \in Seq(S)
  <2>1. i + 1 \in Int /\ Len(s) \in Int /\ \A j \in i + 1..Len(s) : s[j] \in S
    BY <1>1
  <2> QED
    BY <2>1, SubSeqProperties, SMTT(30)
<1> QED
  BY <1>2, <1>3, ConcatProperties, Zenon DEF RemoveAt

\* What is left running is of a message.
LEMMA AbandonsType ==
  ASSUME Admissible, TypeOK, Working, NEW t \in Tasks, Abandons(t)
  PROVE  zombies' \in Seq(Messages)
<1>1. CASE threaded /\ pc[t] = "acting"
  <2>1. job[t].msg \in Messages /\ zombies \in Seq(Messages)
    BY <1>1, HasJob DEF TypeOK
  <2> QED
    BY <1>1, <2>1 DEF Abandons
<1>2. CASE ~(threaded /\ pc[t] = "acting")
  BY <1>2 DEF Abandons, TypeOK
<1> QED
  BY <1>1, <1>2

\* Messages are numbered.
LEMMA MessagesAreNumbers ==
  ASSUME Admissible
  PROVE  Messages \subseteq Nat
<1>1. IsFiniteSet(Messages) /\ Messages = 1..Cardinality(Messages)
  BY DEF Admissible
<1>2. Cardinality(Messages) \in Nat
  BY <1>1, FS_CardinalityType
<1> QED
  BY <1>1, <1>2

\* A message is tried once more.
LEMMA NextTry ==
  ASSUME TypeOK, Working, Admissible, NEW t \in Tasks, pc[t] # "idle",
         job[t].attempt < MaxAttempts
  PROVE  LET more == [job[t] EXCEPT !.attempt = @ + 1]
         IN more \in Copy /\ more.msg = job[t].msg
<1> DEFINE c == job[t]
           more == [c EXCEPT !.attempt = @ + 1]
<1>1. c \in Copy /\ c.msg \in Messages /\ c.attempt \in 1..MaxAttempts /\ MaxAttempts \in Nat
      /\ c = [msg |-> c.msg, attempt |-> c.attempt] /\ c.attempt < MaxAttempts
  BY HasJob DEF Admissible
<1> HIDE DEF c
<1>2. more = [msg |-> c.msg, attempt |-> c.attempt + 1]
  BY <1>1
<1>3. more \in Copy /\ more.msg = c.msg
  BY <1>1, <1>2 DEF Copy
<1> QED
  BY <1>3 DEF c

\* The types that are not about the locks, a group at a time.
ShapeType == [member |-> member, limit |-> limit, threaded |-> threaded] \in Shapes
SourceTypes == queue \in Seq(Copy) /\ buffer \in [Members -> Seq(Copy)]
TaskTypes ==
  /\ job \in [Tasks -> Copy \cup {NoJob}]
  /\ pc \in [Tasks -> {"idle", "waiting", "queued", "acting", "undoing"} \cup Verdicts]
  /\ step \in [Tasks -> 0..SagaLength]
  /\ stands \in [Tasks -> SUBSET Steps] /\ failed \in [Tasks -> SUBSET Steps]
  /\ zombies \in Seq(Messages)
ControlTypes ==
  /\ state \in [Members -> {"new", "on", "stopping", "off"}]
  /\ group \in {"starting", "up", "closing"}
PastTypes ==
  /\ handled \subseteq Messages /\ dead \subseteq Messages
  /\ began \subseteq Messages /\ cut \subseteq Messages
  /\ first \in [Messages -> Members \cup {None}]

\* Together they are the types.
LEMMA TypesTogether ==
  TypeOK <=> ShapeType /\ SourceTypes /\ TaskTypes /\ LockTypes /\ ControlTypes /\ PastTypes
BY DEF TypeOK, ShapeType, SourceTypes, TaskTypes, LockTypes, ControlTypes, PastTypes

\* Types of what a task that goes on changes, and how far its saga is.
LEMMA MovesTypes ==
  ASSUME Admissible, TypeOK, Working, Sagas, SagaUndone, NEW t \in Tasks, Moves(t)
  PROVE  ShapeType' /\ SourceTypes' /\ TaskTypes' /\ ControlTypes' /\ PastTypes'
<1>1. /\ UNCHANGED <<member, limit, threaded, queue, buffer, job, first, handled, dead, state, group>>
      /\ \E p \in {"queued", "acting", "undoing"} \cup Verdicts : pc' = [pc EXCEPT ![t] = p]
      /\ began' \subseteq began \cup {job[t].msg} /\ cut' \subseteq cut \cup {job[t].msg}
      /\ pc[t] # "idle"
  BY MovesFacts
<1>2. ShapeType' /\ SourceTypes' /\ ControlTypes'
  BY <1>1, TypesTogether DEF ShapeType, SourceTypes, ControlTypes
<1>3. PastTypes'
  BY <1>1, HasJob, TypesTogether DEF PastTypes
<1>4. job' \in [Tasks -> Copy \cup {NoJob}]
      /\ pc' \in [Tasks -> {"idle", "waiting", "queued", "acting", "undoing"} \cup Verdicts]
  BY <1>1 DEF TypeOK
<1>5. zombies' \in Seq(Messages)
  <2>1. CASE Deadline(t)
    BY <2>1, AbandonsType DEF Deadline
  <2>2. CASE ~Deadline(t)
    <3>1. zombies' = zombies
      BY <2>2 DEF Moves, Body, Granted, Boards, Returns, Acts, ActFails, Undoes, Undone
    <3> QED
      BY <3>1 DEF TypeOK
  <2> QED
    BY <2>1, <2>2
<1>6. /\ step' \in [Tasks -> 0..SagaLength]
      /\ stands' \in [Tasks -> SUBSET Steps] /\ failed' \in [Tasks -> SUBSET Steps]
  <2> DEFINE Typed == /\ step' \in [Tasks -> 0..SagaLength]
                      /\ stands' \in [Tasks -> SUBSET Steps] /\ failed' \in [Tasks -> SUBSET Steps]
  <2>0. SagaLength \in Nat \ {0} /\ Steps = 1..SagaLength /\ step[t] \in 0..SagaLength
    BY DEF Admissible, Steps, TypeOK
  <2>1. ASSUME UNCHANGED <<step, stands, failed>> PROVE Typed
    BY <2>1 DEF TypeOK
  <2>2. CASE Acts(t)
    <3>1. step[t] \in Steps /\ stands' = [stands EXCEPT ![t] = @ \cup {step[t]}] /\ failed' = failed
      BY <2>2 DEF Acts, Sagas
    <3>2. \/ step' = step
          \/ step[t] + 1 \in 0..SagaLength /\ step' = [step EXCEPT ![t] = @ + 1]
      BY <2>0, <2>2, <3>1 DEF Acts
    <3> QED
      BY <3>1, <3>2 DEF TypeOK
  <2>3. CASE ActFails(t)
    <3>1. step[t] - 1 \in 0..SagaLength
      BY <2>0, <2>3 DEF ActFails, Sagas
    <3> QED
      BY <2>3, <3>1 DEF ActFails, TypeOK, sagas
  <2>4. CASE Undoes(t)
    <3>1. step[t] - 1 \in 0..SagaLength /\ step[t] \in Steps
      BY <2>0, <2>4 DEF Undoes
    <3>2. step' \in [Tasks -> 0..SagaLength]
      BY <2>4, <3>1 DEF Undoes, TypeOK
    <3>3. /\ stands' = stands \/ stands' = [stands EXCEPT ![t] = @ \ {step[t]}]
          /\ failed' = failed \/ failed' = [failed EXCEPT ![t] = @ \cup {step[t]}]
      BY <2>4 DEF Undoes
    <3>4. /\ stands \in [Tasks -> SUBSET Steps] /\ failed \in [Tasks -> SUBSET Steps]
          /\ stands[t] \ {step[t]} \in SUBSET Steps /\ failed[t] \cup {step[t]} \in SUBSET Steps
      BY <3>1 DEF TypeOK
    <3>5. stands' \in [Tasks -> SUBSET Steps] /\ failed' \in [Tasks -> SUBSET Steps]
      <4> HIDE DEF TypeOK
      <4>1. stands' \in [Tasks -> SUBSET Steps]
        BY <3>3, <3>4
      <4>2. failed' \in [Tasks -> SUBSET Steps]
        BY <3>3, <3>4
      <4> QED
        BY <4>1, <4>2
    <3> QED
      BY <3>2, <3>5
  <2>5. CASE Granted(t) \/ Boards(t) \/ Returns(t) \/ Undone(t) \/ Deadline(t)
    BY <2>1, <2>5 DEF Granted, Boards, Returns, Undone, Deadline, sagas
  <2> QED
    BY <2>2, <2>3, <2>4, <2>5 DEF Moves, Body
<1> QED
  BY <1>2, <1>3, <1>4, <1>5, <1>6 DEF TaskTypes

\* Types of what the other steps change.
LEMMA OtherTypes ==
  ASSUME Admissible, TypeOK, Working, [Next]_vars,
         ~(\E t \in Tasks : Moves(t))
  PROVE  ShapeType' /\ SourceTypes' /\ TaskTypes' /\ ControlTypes' /\ PastTypes'
<1> USE TypesTogether
<1>1. ASSUME NEW t \in Tasks, Takes(t)
      PROVE  ShapeType' /\ SourceTypes' /\ TaskTypes' /\ ControlTypes' /\ PastTypes'
  <2> DEFINE q == buffer[member[t]]
             c == Head(q)
  <2>1. q \in Seq(Copy) /\ q # <<>>
    BY <1>1, ShapeTypes DEF Takes, TypeOK
  <2>2. c \in Copy /\ Tail(q) \in Seq(Copy)
    BY <2>1
  <2>3. c.msg \in Messages
    BY <2>2 DEF Copy
  <2>4. /\ job' = [job EXCEPT ![t] = c] /\ buffer' = [buffer EXCEPT ![member[t]] = Tail(q)]
        /\ (\E p \in {"queued", "acting", "waiting"} : pc' = [pc EXCEPT ![t] = p])
        /\ began' \subseteq began \cup {c.msg}
        /\ UNCHANGED <<member, limit, threaded, queue, zombies, state, group, handled, dead, cut, first>>
    BY <1>1 DEF Takes, Opens, config, control
  <2>5. /\ step' = [step EXCEPT ![t] = 1]
        /\ stands' = [stands EXCEPT ![t] = {}] /\ failed' = [failed EXCEPT ![t] = {}]
    BY <1>1 DEF Takes, StartsSaga
  <2> HIDE DEF c, q
  <2>6. ShapeType' /\ ControlTypes' /\ PastTypes'
    BY <2>3, <2>4 DEF ShapeType, ControlTypes, PastTypes
  <2>7. SourceTypes'
    BY <2>2, <2>4 DEF SourceTypes
  <2>8. 1 \in 0..SagaLength
    BY DEF Admissible
  <2>9. job' \in [Tasks -> Copy \cup {NoJob}]
    BY <2>2, <2>4 DEF TaskTypes
  <2>10. pc' \in [Tasks -> {"idle", "waiting", "queued", "acting", "undoing"} \cup Verdicts]
    BY <2>4 DEF TaskTypes
  <2>11. /\ step' \in [Tasks -> 0..SagaLength] /\ zombies' \in Seq(Messages)
         /\ stands' \in [Tasks -> SUBSET Steps] /\ failed' \in [Tasks -> SUBSET Steps]
    BY <2>4, <2>5, <2>8 DEF TaskTypes
  <2> QED
    BY <2>6, <2>7, <2>9, <2>10, <2>11 DEF TaskTypes
<1>2. ASSUME NEW t \in Tasks, pc[t] # "idle",
             pc' = [pc EXCEPT ![t] = "idle"], job' = [job EXCEPT ![t] = NoJob],
             stands' = [stands EXCEPT ![t] = {}], failed' = [failed EXCEPT ![t] = {}],
             step' = [step EXCEPT ![t] = 0], zombies' \in Seq(Messages)
      PROVE  TaskTypes'
  <2>1. 0 \in 0..SagaLength
    BY DEF Admissible
  <2>2. job' \in [Tasks -> Copy \cup {NoJob}]
    BY <1>2 DEF TaskTypes
  <2>3. pc' \in [Tasks -> {"idle", "waiting", "queued", "acting", "undoing"} \cup Verdicts]
    BY <1>2 DEF TaskTypes
  <2>4. /\ step' \in [Tasks -> 0..SagaLength]
        /\ stands' \in [Tasks -> SUBSET Steps] /\ failed' \in [Tasks -> SUBSET Steps]
    BY <1>2, <2>1 DEF TaskTypes
  <2> QED
    BY <1>2, <2>2, <2>3, <2>4 DEF TaskTypes
<1>3. ASSUME NEW t \in Tasks, Settles(t)
      PROVE  ShapeType' /\ SourceTypes' /\ TaskTypes' /\ ControlTypes' /\ PastTypes'
  <2> DEFINE c == job[t]
             more == [c EXCEPT !.attempt = @ + 1]
  <2>0. pc[t] # "idle"
    BY <1>3 DEF Settles, Verdicts
  <2>1. c \in Copy /\ c.msg \in Messages /\ c.attempt \in 1..MaxAttempts /\ MaxAttempts \in Nat
        /\ c = [msg |-> c.msg, attempt |-> c.attempt]
    BY <2>0, HasJob DEF Admissible
  <2>2. c.attempt < MaxAttempts => more \in Copy
    BY <2>0, NextTry
  <2>3. TaskTypes'
    <3>1. zombies' = zombies
      BY <1>3 DEF Settles
    <3> QED
      BY <1>2, <1>3, <2>0, <3>1 DEF Settles, TaskTypes
  <2>4. queue' = queue \/ (c.attempt < MaxAttempts /\ queue' = Append(queue, more))
    BY <1>3 DEF Settles
  <2>5. UNCHANGED <<member, limit, threaded, buffer, state, group, began, cut, first>>
    BY <1>3 DEF Settles, config, control
  <2>6. handled' \subseteq handled \cup {c.msg} /\ dead' \subseteq dead \cup {c.msg}
    BY <1>3 DEF Settles
  <2> HIDE DEF c, more
  <2>7. SourceTypes'
    BY <2>2, <2>4, <2>5 DEF SourceTypes
  <2>8. ShapeType' /\ ControlTypes' /\ PastTypes'
    BY <2>1, <2>5, <2>6 DEF ShapeType, ControlTypes, PastTypes
  <2> QED
    BY <2>3, <2>7, <2>8
<1>4. ASSUME NEW t \in Tasks, CutsOff(t)
      PROVE  ShapeType' /\ SourceTypes' /\ TaskTypes' /\ ControlTypes' /\ PastTypes'
  <2>0. pc[t] # "idle" /\ Abandons(t)
    BY <1>4 DEF CutsOff
  <2>1. job[t] \in Copy /\ job[t].msg \in Messages
    BY <2>0, HasJob
  <2>2. TaskTypes'
    BY <1>2, <1>4, <2>0, AbandonsType DEF CutsOff
  <2>3. /\ queue' = <<job[t]>> \o queue /\ cut' = cut \cup {job[t].msg}
        /\ UNCHANGED <<member, limit, threaded, buffer, state, group, handled, dead, began, first>>
    BY <1>4 DEF CutsOff, config, control
  <2>4. SourceTypes'
    <3>1. <<job[t]>> \in Seq(Copy)
      BY <2>1
    <3> QED
      BY <2>3, <3>1, ConcatProperties DEF SourceTypes
  <2>5. ShapeType' /\ ControlTypes' /\ PastTypes'
    BY <2>1, <2>3 DEF ShapeType, ControlTypes, PastTypes
  <2> QED
    BY <2>2, <2>4, <2>5
<1>5. ASSUME UNCHANGED tasks, UNCHANGED sagas, zombies' \in Seq(Messages) PROVE TaskTypes'
  BY <1>5 DEF tasks, sagas, TaskTypes
<1>6. ASSUME NEW c \in Members, Delivers(c)
      PROVE  ShapeType' /\ SourceTypes' /\ TaskTypes' /\ ControlTypes' /\ PastTypes'
  <2> DEFINE h == Head(queue)
  <2>1. queue \in Seq(Copy) /\ queue # <<>> /\ buffer[c] \in Seq(Copy)
    BY <1>6 DEF Delivers, TypeOK
  <2>2. h \in Copy /\ Tail(queue) \in Seq(Copy)
    BY <2>1
  <2>3. h.msg \in Messages
    BY <2>2 DEF Copy
  <2>4. /\ buffer' = [buffer EXCEPT ![c] = Append(@, h)] /\ queue' = Tail(queue)
        /\ first' = [first EXCEPT ![h.msg] = IF @ = None THEN c ELSE @]
        /\ UNCHANGED <<member, limit, threaded, zombies, state, group, handled, dead, began, cut>>
        /\ UNCHANGED tasks /\ UNCHANGED sagas
    BY <1>6 DEF Delivers, config, control
  <2> HIDE DEF h
  <2>5. Append(buffer[c], h) \in Seq(Copy)
    BY <2>1, <2>2
  <2>6. SourceTypes'
    BY <2>2, <2>4, <2>5 DEF SourceTypes
  <2>7. first' \in [Messages -> Members \cup {None}]
    BY <2>4 DEF PastTypes
  <2>8. ShapeType' /\ ControlTypes' /\ PastTypes'
    BY <2>4, <2>7 DEF ShapeType, ControlTypes, PastTypes
  <2>9. TaskTypes'
    BY <1>5, <2>4 DEF TaskTypes
  <2> QED
    BY <2>6, <2>8, <2>9
<1>7. ASSUME NEW c \in Members, Stops(c)
      PROVE  ShapeType' /\ SourceTypes' /\ TaskTypes' /\ ControlTypes' /\ PastTypes'
  <2>1. /\ queue' = buffer[c] \o queue /\ buffer' = [buffer EXCEPT ![c] = <<>>]
        /\ cut' = cut \cup {buffer[c][i].msg : i \in DOMAIN buffer[c]}
        /\ state' = [state EXCEPT ![c] = "stopping"]
        /\ UNCHANGED <<member, limit, threaded, zombies, group, handled, dead, began, first>>
        /\ UNCHANGED tasks /\ UNCHANGED sagas
    BY <1>7 DEF Stops, config, control
  <2>2. buffer[c] \in Seq(Copy) /\ queue \in Seq(Copy) /\ <<>> \in Seq(Copy)
    BY DEF TypeOK
  <2>3. buffer[c] \o queue \in Seq(Copy)
    BY <2>2, ConcatProperties
  <2>4. SourceTypes'
    BY <2>1, <2>2, <2>3 DEF SourceTypes
  <2>5. \A i \in DOMAIN buffer[c] : buffer[c][i].msg \in Messages
    <3>1. \A i \in DOMAIN buffer[c] : buffer[c][i] \in Copy
      BY <2>2
    <3> QED
      BY <3>1 DEF Copy
  <2>6. ShapeType' /\ ControlTypes' /\ PastTypes'
    BY <2>1, <2>5 DEF ShapeType, ControlTypes, PastTypes
  <2>7. TaskTypes'
    BY <1>5, <2>1 DEF TaskTypes
  <2> QED
    BY <2>4, <2>6, <2>7
<1>8. ASSUME Rests, ControlTypes', zombies' \in Seq(Messages)
      PROVE  ShapeType' /\ SourceTypes' /\ TaskTypes' /\ ControlTypes' /\ PastTypes'
  <2>1. TaskTypes'
    BY <1>5, <1>8 DEF Rests
  <2>2. ShapeType' /\ SourceTypes' /\ PastTypes'
    BY <1>8 DEF Rests, config, source, history, ShapeType, SourceTypes, PastTypes
  <2> QED
    BY <1>8, <2>1, <2>2
<1>9. ASSUME NEW c \in Members, StartsMember(c) \/ Drained(c) PROVE ControlTypes'
  BY <1>9 DEF StartsMember, Drained, ControlTypes
<1>10. Closes => ControlTypes'
  BY DEF Closes, ControlTypes
<1>11. UNCHANGED control => ControlTypes'
  BY DEF control, ControlTypes
<1>12. zombies' = zombies => zombies' \in Seq(Messages)
  BY DEF TypeOK
<1>13. \A i \in DOMAIN zombies : zombies' = RemoveAt(zombies, i) => zombies' \in Seq(Messages)
  BY RemoveAtType DEF TypeOK
<1> QED
  BY <1>1, <1>3, <1>4, <1>6, <1>7, <1>8, <1>9, <1>10, <1>11, <1>12, <1>13, StepKinds


\* What the sagas say of one task.
SagaOf(t) ==
  ~threaded =>
    /\ pc[t] # "queued"
    /\ pc[t] = "waiting" => step[t] = 1 /\ stands[t] = {} /\ failed[t] = {}
    /\ pc[t] = "acting" =>
         step[t] \in Steps /\ stands[t] = 1..step[t] - 1 /\ failed[t] = {}
    /\ pc[t] = "undoing" => /\ 1..step[t] \subseteq stands[t]
                            /\ stands[t] \cap Compensable \subseteq 1..step[t] \cup failed[t]
                            /\ failed[t] \subseteq stands[t] \cap Compensable
                            /\ failed[t] \cap 1..step[t] = {}
    /\ pc[t] = "accept" => stands[t] = Steps
    /\ pc[t] = "retry" => stands[t] \cap Compensable = {}
    /\ pc[t] = "reject" => stands[t] \cap Compensable = failed[t] /\ failed[t] # {}

\* A saga goes from its steps to undoing them, the last first.
LEMMA SagaStep ==
  ASSUME Admissible, TypeOK, Working, Sagas, SagaUndone, [Next]_vars
  PROVE  Sagas' /\ SagaUndone'
<1>0. \A t \in Tasks : SagaOf(t)
  BY DEF Sagas, SagaUndone, SagaOf
<1> SUFFICES \A t \in Tasks : SagaOf(t)'
  BY DEF Sagas, SagaUndone, SagaOf
<1> DEFINE Others(t) == \A u \in Tasks \ {t} : /\ pc'[u] = pc[u] /\ step'[u] = step[u]
                                              /\ stands'[u] = stands[u] /\ failed'[u] = failed[u]
<1>1. ASSUME NEW t \in Tasks, Others(t), threaded' = threaded, SagaOf(t)'
      PROVE  \A u \in Tasks : SagaOf(u)'
  BY <1>0, <1>1 DEF SagaOf
<1>2. SagaLength \in Nat \ {0} /\ Steps = 1..SagaLength /\ Compensable \subseteq Steps
      /\ (\A t \in Tasks : step[t] \in 0..SagaLength) /\ 1 \in Steps /\ 1..1 - 1 = {}
  BY DEF Admissible, Steps, TypeOK
<1>3. ASSUME NEW t \in Tasks, Takes(t) PROVE \A u \in Tasks : SagaOf(u)'
  <2>1. /\ \E p \in {"acting", "waiting"} \cup {Opens(t)} : pc' = [pc EXCEPT ![t] = p]
        /\ step' = [step EXCEPT ![t] = 1]
        /\ stands' = [stands EXCEPT ![t] = {}] /\ failed' = [failed EXCEPT ![t] = {}]
        /\ threaded' = threaded
    BY <1>3 DEF Takes, StartsSaga, config
  <2>2. Others(t)
    BY <2>1 DEF TypeOK
  <2>3. step'[t] = 1 /\ stands'[t] = {} /\ failed'[t] = {} /\ (~threaded => pc'[t] \in {"acting", "waiting"})
    BY <2>1 DEF TypeOK, Opens
  <2>4. SagaOf(t)'
    BY <2>1, <2>3, <1>2 DEF SagaOf
  <2> QED
    BY <2>1, <2>2, <2>4, <1>1
<1>4. ASSUME NEW t \in Tasks, Moves(t) PROVE \A u \in Tasks : SagaOf(u)'
  <2>0. threaded' = threaded
    BY <1>4, MovesFacts
  <2>1. Others(t)
    <3>1. \A u \in Tasks \ {t} : pc'[u] = pc[u]
      BY <1>4, MovesFacts DEF OthersStay
    <3>2. \A u \in Tasks \ {t} : step'[u] = step[u] /\ stands'[u] = stands[u] /\ failed'[u] = failed[u]
      BY <1>4 DEF Moves, Body, Granted, Boards, Returns, Acts, ActFails, Undoes, Undone,
                  Deadline, sagas, TypeOK
    <3> QED
      BY <3>1, <3>2
  <2>2. ASSUME ~threaded PROVE SagaOf(t)'
    <3>0. SagaOf(t) /\ ~threaded'
      BY <1>0, <2>0, <2>2
    <3>1. CASE Granted(t)
      <4>1. pc[t] = "waiting" /\ pc'[t] = "acting" /\ UNCHANGED <<step, stands, failed>>
        BY <2>2, <3>1 DEF Granted, Opens, sagas, TypeOK
      <4> QED
        <5>1. step'[t] = 1 /\ stands'[t] = {} /\ failed'[t] = {}
          BY <2>2, <3>0, <4>1 DEF SagaOf
        <5> QED
          BY <4>1, <5>1, <1>2 DEF SagaOf
    <3>2. CASE Boards(t)
      BY <2>2, <3>0, <3>2 DEF Boards, SagaOf
    <3>3. CASE Returns(t)
      BY <2>2, <3>3 DEF Returns
    <3>4. CASE Acts(t)
      <4>1. /\ pc[t] = "acting" /\ stands'[t] = stands[t] \cup {step[t]} /\ failed'[t] = failed[t]
            /\ \/ step[t] = SagaLength /\ pc'[t] = "accept"
               \/ step[t] # SagaLength /\ pc'[t] = "acting" /\ step'[t] = step[t] + 1
        BY <3>4 DEF Acts, Answers, TypeOK
      <4>2. step[t] \in Steps /\ stands[t] = 1..step[t] - 1 /\ failed[t] = {}
        BY <2>2, <3>0, <4>1 DEF SagaOf
      <4>3. stands'[t] = 1..step[t]
        BY <4>1, <4>2, <1>2
      <4>4. CASE step[t] = SagaLength
        BY <4>1, <4>3, <4>4, <1>2 DEF SagaOf
      <4>5. CASE step[t] # SagaLength
        <5>1. step[t] + 1 \in Steps /\ (step[t] + 1) - 1 = step[t]
          BY <4>2, <4>5, <1>2
        <5> QED
          BY <4>1, <4>2, <4>3, <4>5, <5>1 DEF SagaOf
      <4> QED
        BY <4>4, <4>5
    <3>5. CASE ActFails(t)
      <4>1. /\ pc[t] = "acting" /\ pc'[t] = "undoing" /\ step'[t] = step[t] - 1
            /\ stands'[t] = stands[t] /\ failed'[t] = failed[t]
        BY <3>5 DEF ActFails, sagas, TypeOK
      <4>2. stands[t] = 1..step[t] - 1 /\ failed[t] = {}
        BY <2>2, <3>0, <4>1 DEF SagaOf
      <4> QED
        BY <4>1, <4>2 DEF SagaOf
    <3>6. CASE Undoes(t)
      <4> DEFINE n == step[t]
      <4>1. /\ pc[t] = "undoing" /\ pc'[t] = "undoing" /\ n > 0 /\ step'[t] = n - 1
            /\ \/ n \in Compensable /\ stands'[t] = stands[t] \ {n} /\ failed'[t] = failed[t]
               \/ n \in Compensable /\ failed'[t] = failed[t] \cup {n} /\ stands'[t] = stands[t]
               \/ n \notin Compensable /\ stands'[t] = stands[t] /\ failed'[t] = failed[t]
        BY <3>6 DEF Undoes, TypeOK
      <4>2. /\ 1..n \subseteq stands[t] /\ failed[t] \cap 1..n = {}
            /\ stands[t] \cap Compensable \subseteq 1..n \cup failed[t]
            /\ failed[t] \subseteq stands[t] \cap Compensable
        BY <2>2, <3>0, <4>1 DEF SagaOf
      <4>3. n \in 1..n /\ n \notin 1..n - 1 /\ 1..n = (1..n - 1) \cup {n}
        BY <4>1, <1>2
      <4> HIDE DEF n
      <4>4. n \in stands[t] /\ n \notin failed[t] /\ 1..n - 1 \subseteq stands[t]
            /\ failed[t] \cap 1..n - 1 = {}
        BY <4>2, <4>3
      <4>5. /\ 1..n - 1 \subseteq stands'[t] /\ failed'[t] \cap 1..n - 1 = {}
            /\ stands'[t] \cap Compensable \subseteq (1..n - 1) \cup failed'[t]
            /\ failed'[t] \subseteq stands'[t] \cap Compensable
        <5> DEFINE U == 1..n - 1
        <5>0. n \notin U /\ 1..n = U \cup {n} /\ U \subseteq stands[t] /\ failed[t] \cap U = {}
          BY <4>3, <4>4
        <5> HIDE DEF U
        <5> QED
          <6>1. CASE n \in Compensable /\ stands'[t] = stands[t] \ {n} /\ failed'[t] = failed[t]
            BY <4>2, <4>4, <5>0, <6>1 DEF U
          <6>2. CASE n \in Compensable /\ failed'[t] = failed[t] \cup {n} /\ stands'[t] = stands[t]
            BY <4>2, <4>4, <5>0, <6>2 DEF U
          <6>3. CASE n \notin Compensable /\ stands'[t] = stands[t] /\ failed'[t] = failed[t]
            BY <4>2, <4>4, <5>0, <6>3 DEF U
          <6> QED
            BY <4>1, <6>1, <6>2, <6>3
      <4> QED
        BY <4>1, <4>5 DEF SagaOf
    <3>7. CASE Undone(t)
      <4>1. /\ pc[t] = "undoing" /\ step[t] = 0 /\ stands' = stands /\ failed' = failed
            /\ pc'[t] = IF failed[t] = {} THEN "retry" ELSE "reject"
        BY <3>7 DEF Undone, Answers, sagas, TypeOK
      <4>2. stands[t] \cap Compensable \subseteq failed[t] /\ failed[t] \subseteq stands[t] \cap Compensable
        BY <2>2, <3>0, <4>1 DEF SagaOf
      <4> QED
        BY <4>1, <4>2 DEF SagaOf
    <3>8. CASE Deadline(t)
      <4>1. pc'[t] = "late"
        BY <3>8 DEF Deadline, Answers, TypeOK
      <4> QED
        BY <4>1 DEF SagaOf
    <3> QED
      BY <1>4, <3>1, <3>2, <3>3, <3>4, <3>5, <3>6, <3>7, <3>8 DEF Moves, Body
  <2>3. SagaOf(t)'
    BY <2>0, <2>2 DEF SagaOf
  <2> QED
    BY <2>0, <2>1, <2>3, <1>1
<1>5. ASSUME NEW t \in Tasks, Settles(t) \/ CutsOff(t) PROVE \A u \in Tasks : SagaOf(u)'
  <2>1. /\ pc' = [pc EXCEPT ![t] = "idle"] /\ step' = [step EXCEPT ![t] = 0]
        /\ stands' = [stands EXCEPT ![t] = {}] /\ failed' = [failed EXCEPT ![t] = {}]
        /\ threaded' = threaded
    BY <1>5 DEF Settles, CutsOff, config
  <2>2. Others(t) /\ pc'[t] = "idle"
    BY <2>1 DEF TypeOK
  <2>3. SagaOf(t)'
    BY <2>2 DEF SagaOf
  <2> QED
    BY <2>1, <2>2, <2>3, <1>1
<1>6. ASSUME UNCHANGED <<threaded, pc, step, stands, failed>> PROVE \A u \in Tasks : SagaOf(u)'
  BY <1>0, <1>6 DEF SagaOf
<1>7. ASSUME NEW c \in Members, Delivers(c) \/ Stops(c) PROVE \A u \in Tasks : SagaOf(u)'
  BY <1>6, <1>7 DEF Delivers, Stops, config, tasks, sagas
<1>8. ASSUME Rests PROVE \A u \in Tasks : SagaOf(u)'
  BY <1>6, <1>8 DEF Rests, config, tasks, sagas
<1> QED
  BY <1>3, <1>4, <1>5, <1>7, <1>8, StepKinds


-----------------------------------------------------------------------------
(* Where the messages are *)

\* A task is idle when it has no message.
LEMMA WorkingStep ==
  ASSUME Admissible, TypeOK, Working, [Next]_vars
  PROVE  Working'
<1>0. \A c \in Copy : c # NoJob
  BY DEF Copy, NoJob, Admissible
<1>1. ASSUME NEW t \in Tasks, Takes(t) PROVE Working'
  <2> DEFINE q == buffer[member[t]]
             c == Head(q)
  <2>1. q \in Seq(Copy) /\ q # <<>>
    BY <1>1, ShapeTypes DEF Takes, TypeOK
  <2>2. c \in Copy
    BY <2>1
  <2>3. job' = [job EXCEPT ![t] = c] /\ \E p \in {"queued", "acting", "waiting"} : pc' = [pc EXCEPT ![t] = p]
    BY <1>1 DEF Takes, Opens
  <2> HIDE DEF c
  <2> QED
    BY <1>0, <2>2, <2>3 DEF Working, TypeOK
<1>2. ASSUME NEW t \in Tasks, Moves(t) PROVE Working'
  BY <1>2, MovesFacts DEF Working, TypeOK, Verdicts
<1>3. ASSUME NEW t \in Tasks, Settles(t) \/ CutsOff(t) PROVE Working'
  BY <1>3 DEF Settles, CutsOff, Working, TypeOK
<1>4. ASSUME UNCHANGED tasks PROVE Working'
  BY <1>4 DEF tasks, Working
<1> QED
  BY <1>1, <1>2, <1>3, <1>4, StepKinds DEF Rests, Delivers, Stops

\* A body runs, or has ended, of a message that began or was cut off.
LEMMA StartedStep ==
  ASSUME Admissible, TypeOK, Working, Started, [Next]_vars
  PROVE  Started' /\ Touched \subseteq Touched'
<1>1. ASSUME NEW t \in Tasks, Takes(t) PROVE Started' /\ Touched \subseteq Touched'
  <2> DEFINE c == Head(buffer[member[t]])
  <2>1. /\ job' = [job EXCEPT ![t] = c] /\ (\E p \in {"queued", "acting", "waiting"} : pc' = [pc EXCEPT ![t] = p])
        /\ began' = (IF pc'[t] = "acting" THEN began \cup {c.msg} ELSE began) /\ cut' = cut
    BY <1>1 DEF Takes, Opens
  <2> HIDE DEF c
  <2> QED
    BY <2>1 DEF Started, Touched, TypeOK, Verdicts
<1>2. ASSUME NEW t \in Tasks, Moves(t) PROVE Started' /\ Touched \subseteq Touched'
  <2>1. job' = job /\ OthersStay(t) /\ Touched \subseteq Touched'
    BY <1>2, MovesFacts DEF Touched
  <2>2. pc'[t] \in {"acting", "undoing"} \cup Verdicts => job[t].msg \in Touched'
    <3>1. CASE Granted(t)
      BY <3>1 DEF Granted, Opens, TypeOK, Touched, Verdicts
    <3>2. CASE Boards(t)
      BY <3>2 DEF Boards, TypeOK, Touched
    <3>3. CASE Body(t)
      <4>1. pc[t] \in {"acting", "undoing"}
        BY <3>3 DEF Body, Returns, Acts, ActFails, Undoes, Undone
      <4> QED
        BY <2>1, <4>1 DEF Started
    <3>4. CASE Deadline(t)
      BY <3>4 DEF Deadline, Touched
    <3> QED
      BY <1>2, <3>1, <3>2, <3>3, <3>4 DEF Moves
  <2> QED
    BY <2>1, <2>2 DEF Started, OthersStay
<1>3. ASSUME NEW t \in Tasks, Settles(t) \/ CutsOff(t) PROVE Started' /\ Touched \subseteq Touched'
  <2>1. pc' = [pc EXCEPT ![t] = "idle"] /\ job' = [job EXCEPT ![t] = NoJob] /\ Touched \subseteq Touched'
    BY <1>3 DEF Settles, CutsOff, Touched
  <2> QED
    BY <2>1 DEF Started, TypeOK, Verdicts
<1>4. ASSUME UNCHANGED tasks, Touched \subseteq Touched' PROVE Started' /\ Touched \subseteq Touched'
  BY <1>4 DEF tasks, Started
<1>5. ASSUME NEW c \in Members, Delivers(c) \/ Stops(c) PROVE UNCHANGED tasks /\ Touched \subseteq Touched'
  BY <1>5 DEF Delivers, Stops, Touched
<1>6. ASSUME Rests PROVE UNCHANGED tasks /\ Touched \subseteq Touched'
  BY <1>6 DEF Rests, Touched, history
<1> QED
  BY <1>1, <1>2, <1>3, <1>4, <1>5, <1>6, StepKinds


\* The places of a sequence put before another.
LEMMA JoinedPlaces ==
  ASSUME NEW S, NEW s \in Seq(S), NEW q \in Seq(S)
  PROVE  /\ s \o q \in Seq(S) /\ Len(s) \in Nat
         /\ \A i \in DOMAIN s : i \in Nat /\ i <= Len(s) /\ i \in DOMAIN (s \o q) /\ (s \o q)[i] = s[i]
         /\ \A i \in DOMAIN q : i \in Nat /\ i + Len(s) \in DOMAIN (s \o q) /\ (s \o q)[i + Len(s)] = q[i]
         /\ \A i \in DOMAIN (s \o q) : i \in Nat /\ (i \in DOMAIN s \/ i - Len(s) \in DOMAIN q)
<1> DEFINE r == s \o q
<1>1. /\ r \in Seq(S) /\ Len(r) = Len(s) + Len(q)
      /\ \A i \in 1..Len(s) + Len(q) : r[i] = IF i <= Len(s) THEN s[i] ELSE q[i - Len(s)]
  BY ConcatProperties, Zenon
<1> HIDE DEF r
<1>2. Len(s) \in Nat /\ Len(q) \in Nat /\ DOMAIN s = 1..Len(s) /\ DOMAIN q = 1..Len(q)
  OBVIOUS
<1>3. DOMAIN r = 1..Len(s) + Len(q)
  BY <1>1, <1>2
<1>4. \A i \in DOMAIN s : i \in Nat /\ i <= Len(s) /\ i \in DOMAIN r /\ r[i] = s[i]
  BY <1>1, <1>2, <1>3
<1>5. ASSUME NEW i \in DOMAIN q PROVE i \in Nat /\ i + Len(s) \in DOMAIN r /\ r[i + Len(s)] = q[i]
  <2>1. i \in Nat /\ i + Len(s) \in 1..Len(s) + Len(q) /\ ~(i + Len(s) <= Len(s)) /\ i + Len(s) - Len(s) = i
    BY <1>2
  <2> QED
    BY <2>1, <1>1, <1>3
<1>6. \A i \in DOMAIN r : i \in Nat /\ (i \in DOMAIN s \/ i - Len(s) \in DOMAIN q)
  BY <1>2, <1>3
<1> QED
  BY <1>1, <1>2, <1>4, <1>5, <1>6 DEF r

\* The places of a sequence without its head.
LEMMA TailPlaces ==
  ASSUME NEW S, NEW s \in Seq(S), s # <<>>
  PROVE  /\ Tail(s) \in Seq(S) /\ Head(s) \in S /\ 1 \in DOMAIN s /\ s[1] = Head(s)
         /\ \A i \in DOMAIN Tail(s) : i \in Nat /\ 1 < i + 1 /\ i + 1 \in DOMAIN s /\ Tail(s)[i] = s[i + 1]
         /\ \A i \in DOMAIN s : i \in Nat /\ 1 <= i /\
              (i = 1 \/ (i - 1 \in DOMAIN Tail(s) /\ Tail(s)[i - 1] = s[i]))
<1>1. /\ Tail(s) \in Seq(S) /\ Head(s) \in S /\ s[1] = Head(s) /\ Len(Tail(s)) = Len(s) - 1
      /\ \A i \in 1..Len(s) - 1 : Tail(s)[i] = s[i + 1]
  BY HeadTailProperties
<1>2. Len(s) \in Nat \ {0} /\ DOMAIN s = 1..Len(s)
  OBVIOUS
<1>3. DOMAIN Tail(s) = 1..Len(s) - 1
  BY <1>1, <1>2
<1>4. ASSUME NEW i \in DOMAIN s, i # 1 PROVE i - 1 \in DOMAIN Tail(s) /\ Tail(s)[i - 1] = s[i]
  <2>1. i - 1 \in 1..Len(s) - 1 /\ (i - 1) + 1 = i
    BY <1>2, <1>4
  <2> QED
    BY <2>1, <1>1, <1>3
<1>5. ASSUME NEW i \in DOMAIN Tail(s)
      PROVE  i \in Nat /\ 1 < i + 1 /\ i + 1 \in DOMAIN s /\ Tail(s)[i] = s[i + 1]
  BY <1>1, <1>2, <1>3
<1> QED
  BY <1>1, <1>2, <1>4, <1>5

\* The places of a sequence with one more.
LEMMA AppendPlaces ==
  ASSUME NEW S, NEW s \in Seq(S), NEW x \in S
  PROVE  /\ Append(s, x) \in Seq(S) /\ Len(s) \in Nat
         /\ Len(s) + 1 \in DOMAIN Append(s, x) /\ Append(s, x)[Len(s) + 1] = x
         /\ \A i \in DOMAIN s : i \in Nat /\ i < Len(s) + 1 /\ i \in DOMAIN Append(s, x) /\ Append(s, x)[i] = s[i]
         /\ \A i \in DOMAIN Append(s, x) : i \in Nat /\ (i = Len(s) + 1 \/ i \in DOMAIN s)
<1>1. /\ Append(s, x) \in Seq(S) /\ Len(Append(s, x)) = Len(s) + 1
      /\ \A i \in 1..Len(s) : Append(s, x)[i] = s[i]
      /\ Append(s, x)[Len(s) + 1] = x
  BY AppendProperties
<1>2. Len(s) \in Nat /\ DOMAIN s = 1..Len(s)
  OBVIOUS
<1>3. DOMAIN Append(s, x) = 1..Len(s) + 1
  BY <1>1, <1>2
<1> QED
  BY <1>1, <1>2, <1>3

\* What was delivered before goes back to the queue before or behind the rest.
LEMMA QueueGrows ==
  ASSUME TypeOK, InOrder, NEW s \in Seq(Copy), \A i \in DOMAIN s : first[s[i].msg] # None,
         first' = first, queue' = s \o queue \/ queue' = queue \o s
  PROVE  /\ InOrder' /\ \A m \in Messages : InQueue(m) => InQueue(m)'
         /\ \A m \in Messages : InQueue(m)' => InQueue(m) \/ \E i \in DOMAIN s : s[i].msg = m
<1>0. queue \in Seq(Copy)
  BY DEF TypeOK
<1>3. \A m \in Messages : InQueue(m)' => InQueue(m) \/ \E i \in DOMAIN s : s[i].msg = m
  <2>0. \A r, q \in Seq(Copy) :
          /\ r \o q \in Seq(Copy) /\ Len(r) \in Nat
          /\ \A i \in DOMAIN r : i \in Nat /\ i <= Len(r) /\ i \in DOMAIN (r \o q) /\ (r \o q)[i] = r[i]
          /\ \A i \in DOMAIN q : i \in Nat /\ i + Len(r) \in DOMAIN (r \o q) /\ (r \o q)[i + Len(r)] = q[i]
          /\ \A i \in DOMAIN (r \o q) : i \in Nat /\ (i \in DOMAIN r \/ i - Len(r) \in DOMAIN q)
    BY JoinedPlaces
  <2> SUFFICES ASSUME NEW r \in Seq(Copy), NEW q \in Seq(Copy), queue' = r \o q, NEW i \in DOMAIN queue'
               PROVE  \/ \E j \in DOMAIN r : queue'[i] = r[j]
                      \/ \E j \in DOMAIN q : queue'[i] = q[j]
    <3>1. \A i \in DOMAIN queue' : \/ \E j \in DOMAIN queue : queue'[i] = queue[j]
                                  \/ \E j \in DOMAIN s : queue'[i] = s[j]
      BY <1>0
    <3> QED
      BY <3>1 DEF InQueue
  <2>5. /\ Len(r) \in Nat
        /\ \A j \in DOMAIN r : (r \o q)[j] = r[j]
        /\ \A j \in DOMAIN q : (r \o q)[j + Len(r)] = q[j]
        /\ \A j \in DOMAIN (r \o q) : j \in Nat /\ (j \in DOMAIN r \/ j - Len(r) \in DOMAIN q)
    BY <2>0, ZenonT(30)
  <2> DEFINE w == r \o q
  <2>6. w = queue' /\ i \in DOMAIN w
    OBVIOUS
  <2> HIDE DEF w
  <2>1. i \in Nat /\ (i \in DOMAIN r \/ i - Len(r) \in DOMAIN q) /\ Len(r) \in Nat
    BY <2>5, <2>6 DEF w
  <2>2. i \in DOMAIN r => queue'[i] = r[i]
    BY <2>5, <2>6 DEF w
  <2>3. i - Len(r) \in DOMAIN q => queue'[i - Len(r) + Len(r)] = q[i - Len(r)]
    BY <2>5, <2>6 DEF w
  <2>4. i - Len(r) + Len(r) = i
    BY <2>1
  <2> QED
    BY <2>1, <2>2, <2>3, <2>4
<1>1. ASSUME queue' = s \o queue PROVE InOrder' /\ \A m \in Messages : InQueue(m) => InQueue(m)'
  <2>1. \A i \in DOMAIN queue' : first[queue'[i].msg] = None =>
          i \in Nat /\ Len(s) \in Nat /\ i - Len(s) \in DOMAIN queue /\ queue'[i] = queue[i - Len(s)]
    <3> SUFFICES ASSUME NEW i \in DOMAIN (s \o queue), first[(s \o queue)[i].msg] = None
                 PROVE  i \in Nat /\ Len(s) \in Nat /\ i - Len(s) \in DOMAIN queue
                        /\ (s \o queue)[i] = queue[i - Len(s)]
      BY <1>1
    <3>1. i \notin DOMAIN s
      BY <1>0, JoinedPlaces
    <3>2. i \in Nat /\ Len(s) \in Nat /\ i - Len(s) \in DOMAIN queue
      BY <1>0, <3>1, JoinedPlaces
    <3>3. (s \o queue)[i - Len(s) + Len(s)] = queue[i - Len(s)]
      BY <1>0, <3>2, JoinedPlaces
    <3>4. i - Len(s) + Len(s) = i
      BY <3>2
    <3> QED
      BY <3>2, <3>3, <3>4
  <2>2. ASSUME NEW i \in DOMAIN queue', NEW j \in DOMAIN queue', i < j,
               first[queue'[i].msg] = None, first[queue'[j].msg] = None
        PROVE  queue'[i].msg < queue'[j].msg
    <3>1. i - Len(s) < j - Len(s)
      BY <2>1, <2>2
    <3> QED
      BY <2>1, <2>2, <3>1 DEF InOrder
  <2>3. \A m \in Messages : InQueue(m) => InQueue(m)'
    BY <1>0, <1>1, JoinedPlaces DEF InQueue
  <2> QED
    BY <2>2, <2>3 DEF InOrder
<1>2. ASSUME queue' = queue \o s PROVE InOrder' /\ \A m \in Messages : InQueue(m) => InQueue(m)'
  <2>1. \A i \in DOMAIN queue' : first[queue'[i].msg] = None => i \in DOMAIN queue /\ queue'[i] = queue[i]
    <3> SUFFICES ASSUME NEW i \in DOMAIN (queue \o s), first[(queue \o s)[i].msg] = None
                 PROVE  i \in DOMAIN queue /\ (queue \o s)[i] = queue[i]
      BY <1>2
    <3>1. ASSUME i - Len(queue) \in DOMAIN s PROVE FALSE
      <4>1. (queue \o s)[i - Len(queue) + Len(queue)] = s[i - Len(queue)]
        BY <1>0, <3>1, JoinedPlaces
      <4>2. i \in Nat /\ Len(queue) \in Nat
        BY <1>0, JoinedPlaces
      <4>3. i - Len(queue) + Len(queue) = i
        BY <4>2
      <4> QED
        BY <3>1, <4>1, <4>3
    <3> QED
      BY <1>0, <3>1, JoinedPlaces
  <2>2. InOrder'
    BY <2>1 DEF InOrder
  <2>3. \A m \in Messages : InQueue(m) => InQueue(m)'
    BY <1>0, <1>2, JoinedPlaces DEF InQueue
  <2> QED
    BY <2>2, <2>3
<1> QED
  BY <1>1, <1>2, <1>3


\* What was never delivered stays in the queue, in order, until it is.
LEMMA UndeliveredStep ==
  ASSUME Admissible, TypeOK, Working, Undelivered, [Next]_vars
  PROVE  Undelivered'
<1> USE DEF Undelivered
<1>1. ASSUME queue' = queue, first' = first PROVE InOrder' /\ Delivered'
  BY <1>1 DEF InOrder, Delivered
<1>2. ASSUME NEW t \in Tasks, Takes(t) PROVE Undelivered'
  <2> DEFINE q == buffer[member[t]]
             c == Head(q)
  <2>1. q \in Seq(Copy) /\ q # <<>> /\ member[t] \in Members
    BY <1>2, ShapeTypes DEF Takes, TypeOK
  <2>2. c \in Copy /\ 1 \in DOMAIN q /\ q[1] = c
    BY <2>1, TailPlaces
  <2>3. \A m \in Messages : first[m] = None => c.msg # m
    BY <2>1, <2>2 DEF Waits, InBuffer
  <2>4. /\ job' = [job EXCEPT ![t] = c] /\ buffer' = [buffer EXCEPT ![member[t]] = Tail(q)]
        /\ began' \subseteq began \cup {c.msg} /\ UNCHANGED <<queue, cut, first>>
    BY <1>2 DEF Takes
  <2>5. \A i \in DOMAIN Tail(q) : \E j \in DOMAIN q : Tail(q)[i] = q[j]
    BY <2>1, TailPlaces
  <2> HIDE DEF c
  <2>6. \A m \in Messages, d \in Members : InBuffer(m, d)' => InBuffer(m, d)
    <3> SUFFICES ASSUME NEW m \in Messages, NEW d \in Members, NEW i \in DOMAIN buffer'[d],
                        buffer'[d][i].msg = m
                 PROVE  InBuffer(m, d)
      BY DEF InBuffer
    <3>1. CASE d = member[t]
      <4>1. buffer'[d] = Tail(q)
        BY <2>1, <2>4, <3>1 DEF TypeOK
      <4> QED
        BY <4>1, <2>5, <3>1 DEF InBuffer
    <3>2. CASE d # member[t]
      <4>1. buffer'[d] = buffer[d]
        BY <2>1, <2>4, <3>2 DEF TypeOK
      <4> QED
        BY <4>1 DEF InBuffer
    <3> QED
      BY <3>1, <3>2
  <2>7. \A m \in Messages : InHand(m)' => InHand(m) \/ c.msg = m
    BY <2>4 DEF InHand, TypeOK
  <2>8. Waits'
    <3> SUFFICES ASSUME NEW m \in Messages, first[m] = None
                 PROVE  /\ m \notin Touched' /\ InQueue(m)' /\ ~InHand(m)'
                        /\ \A d \in Members : ~InBuffer(m, d)'
      BY <2>4 DEF Waits
    <3>1. m \notin Touched /\ InQueue(m) /\ ~InHand(m) /\ \A d \in Members : ~InBuffer(m, d)
      BY DEF Waits
    <3> QED
      BY <3>1, <2>3, <2>4, <2>6, <2>7 DEF Touched, InQueue
  <2> QED
    BY <1>1, <2>4, <2>8
<1>3. ASSUME NEW t \in Tasks, Moves(t) PROVE Undelivered'
  <2>1. /\ UNCHANGED <<queue, buffer, job, first>> /\ Touched' \subseteq Touched \cup {job[t].msg}
    BY <1>3, MovesFacts DEF Touched
  <2>2. Waits'
    BY <2>1 DEF Waits, InQueue, InHand, InBuffer
  <2> QED
    BY <1>1, <2>1, <2>2
<1>4. ASSUME NEW t \in Tasks, NEW s \in Seq(Copy), \A i \in DOMAIN s : s[i].msg = job[t].msg,
             first' = first, buffer' = buffer, job' = [job EXCEPT ![t] = NoJob],
             queue' = s \o queue \/ queue' = queue \o s,
             Touched' \subseteq Touched \cup {job[t].msg}
      PROVE  Undelivered'
  <2>1. \A m \in Messages : first[m] = None => job[t].msg # m
    BY DEF Waits, InHand
  <2>2. \A i \in DOMAIN s : first[s[i].msg] # None
    <3>1. \A i \in DOMAIN s : s[i] \in Copy
      OBVIOUS
    <3>2. \A i \in DOMAIN s : s[i].msg \in Messages
      BY <3>1 DEF Copy
    <3> QED
      BY <1>4, <2>1, <3>2
  <2>3. InOrder' /\ \A m \in Messages : InQueue(m) => InQueue(m)'
    BY <1>4, <2>2, QueueGrows
  <2>4. \A m \in Messages : InHand(m)' => InHand(m)
    <3>1. \A m \in Messages : NoJob.msg # m
      BY DEF NoJob, Admissible
    <3> QED
      BY <1>4, <3>1 DEF InHand, TypeOK
  <2>5. Waits'
    <3> SUFFICES ASSUME NEW m \in Messages, first[m] = None
                 PROVE  /\ m \notin Touched' /\ InQueue(m)' /\ ~InHand(m)'
                        /\ \A d \in Members : ~InBuffer(m, d)'
      BY <1>4 DEF Waits
    <3>1. m \notin Touched /\ InQueue(m) /\ ~InHand(m) /\ \A d \in Members : ~InBuffer(m, d)
      BY DEF Waits
    <3>2. \A d \in Members : ~InBuffer(m, d)'
      BY <3>1, <1>4 DEF InBuffer
    <3> QED
      BY <3>1, <3>2, <2>1, <2>3, <2>4, <1>4
  <2>6. Delivered'
    BY <1>4 DEF Delivered
  <2> QED
    BY <2>3, <2>5, <2>6
<1>5. ASSUME NEW t \in Tasks, Settles(t) PROVE Undelivered'
  <2> DEFINE more == [job[t] EXCEPT !.attempt = @ + 1]
  <2>0. pc[t] # "idle" /\ queue \in Seq(Copy)
    BY <1>5 DEF Settles, Verdicts, TypeOK
  <2>1. /\ first' = first /\ buffer' = buffer /\ job' = [job EXCEPT ![t] = NoJob]
        /\ Touched' \subseteq Touched \cup {job[t].msg}
    BY <1>5 DEF Settles, Touched
  <2>2. queue' = queue \/ (job[t].attempt < MaxAttempts /\ queue' = Append(queue, more))
    BY <1>5 DEF Settles
  <2>3. CASE queue' = queue
    <3>1. <<>> \in Seq(Copy) /\ queue' = queue \o <<>> /\ DOMAIN <<>> = {}
      BY <2>0, <2>3
    <3> QED
      BY <2>1, <3>1, <1>4
  <2>4. CASE job[t].attempt < MaxAttempts /\ queue' = Append(queue, more)
    <3>1. more.msg = job[t].msg /\ more \in Copy
      BY <2>0, <2>4, NextTry
    <3> HIDE DEF more
    <3>2. <<more>> \in Seq(Copy) /\ queue' = queue \o <<more>>
      BY <2>0, <2>4, <3>1, AppendIsConcat
    <3>3. \A i \in DOMAIN <<more>> : <<more>>[i].msg = job[t].msg
      BY <3>1
    <3> QED
      BY <2>1, <3>2, <3>3, <1>4
  <2> QED
    BY <2>2, <2>3, <2>4
<1>6. ASSUME NEW t \in Tasks, CutsOff(t) PROVE Undelivered'
  <2>0. job[t] \in Copy
    BY <1>6, HasJob DEF CutsOff
  <2>1. /\ first' = first /\ buffer' = buffer /\ job' = [job EXCEPT ![t] = NoJob]
        /\ Touched' \subseteq Touched \cup {job[t].msg}
        /\ queue' = <<job[t]>> \o queue
    BY <1>6 DEF CutsOff, Touched
  <2>2. <<job[t]>> \in Seq(Copy) /\ \A i \in DOMAIN <<job[t]>> : <<job[t]>>[i].msg = job[t].msg
    BY <2>0
  <2> QED
    BY <2>1, <2>2, <1>4
<1>7. ASSUME NEW c \in Members, Delivers(c) PROVE Undelivered'
  <2> DEFINE h == Head(queue)
  <2>1. queue \in Seq(Copy) /\ queue # <<>> /\ buffer[c] \in Seq(Copy)
    BY <1>7 DEF Delivers, TypeOK
  <2>2. h \in Copy /\ queue[1] = h /\ 1 \in DOMAIN queue /\ h.msg \in Messages
    <3>1. h \in Copy /\ queue[1] = h /\ 1 \in DOMAIN queue
      BY <2>1, TailPlaces
    <3> QED
      BY <3>1 DEF Copy
  <2>3. /\ buffer' = [buffer EXCEPT ![c] = Append(@, h)] /\ queue' = Tail(queue)
        /\ first' = [first EXCEPT ![h.msg] = IF @ = None THEN c ELSE @]
        /\ UNCHANGED <<began, cut, job>>
    BY <1>7 DEF Delivers, tasks
  <2> HIDE DEF h
  <2>4. c # None
    BY DEF Admissible
  <2>5. \A m \in Messages : first'[m] = None => m # h.msg /\ first[m] = None
    BY <2>2, <2>3, <2>4 DEF TypeOK
  <2>6. \A m \in Messages : m # h.msg /\ InQueue(m) =>
          InQueue(m)' /\ \E i \in DOMAIN queue : i \in Nat /\ 1 < i /\ queue[i].msg = m
    <3> SUFFICES ASSUME NEW m \in Messages, m # h.msg, NEW i \in DOMAIN queue, queue[i].msg = m
                 PROVE  InQueue(m)' /\ i \in Nat /\ 1 < i
      BY DEF InQueue
    <3>1. i \in Nat /\ 1 <= i /\ i # 1 /\ i - 1 \in DOMAIN Tail(queue) /\ Tail(queue)[i - 1] = queue[i]
      BY <2>1, <2>2, TailPlaces
    <3> QED
      BY <3>1, <2>3 DEF InQueue
  <2>7. Waits'
    <3> SUFFICES ASSUME NEW m \in Messages, first'[m] = None
                 PROVE  /\ m \notin Touched' /\ InQueue(m)' /\ ~InHand(m)'
                        /\ \A d \in Members : ~InBuffer(m, d)'
      BY DEF Waits
    <3>1. m # h.msg /\ m \notin Touched /\ InQueue(m) /\ ~InHand(m) /\ \A d \in Members : ~InBuffer(m, d)
      BY <2>5 DEF Waits
    <3>2. \A d \in Members : ~InBuffer(m, d)'
      <4> TAKE d \in Members
      <4>1. CASE d # c
        BY <4>1, <3>1, <2>3 DEF TypeOK, InBuffer
      <4>2. CASE d = c
        <5>1. buffer'[c] = Append(buffer[c], h)
          BY <2>3 DEF TypeOK
        <5>2. \A i \in DOMAIN Append(buffer[c], h) : \/ Append(buffer[c], h)[i] = h
                                                     \/ \E j \in DOMAIN buffer[c] : Append(buffer[c], h)[i] = buffer[c][j]
          BY <2>1, <2>2, AppendPlaces
        <5> QED
          BY <4>2, <5>1, <5>2, <3>1 DEF InBuffer
      <4> QED
        BY <4>1, <4>2
    <3> QED
      BY <3>1, <3>2, <2>3, <2>6 DEF Touched, InHand
  <2>8. InOrder'
    <3> SUFFICES ASSUME NEW i \in DOMAIN Tail(queue), NEW j \in DOMAIN Tail(queue), i < j,
                        first'[Tail(queue)[i].msg] = None, first'[Tail(queue)[j].msg] = None
                 PROVE  Tail(queue)[i].msg < Tail(queue)[j].msg
      BY <2>3 DEF InOrder
    <3>1. /\ i \in Nat /\ i + 1 \in DOMAIN queue /\ Tail(queue)[i] = queue[i + 1]
          /\ j \in Nat /\ j + 1 \in DOMAIN queue /\ Tail(queue)[j] = queue[j + 1]
      BY <2>1, TailPlaces
    <3>2. queue[i + 1] \in Copy /\ queue[j + 1] \in Copy
      BY <2>1, <3>1
    <3>3. queue[i + 1].msg \in Messages /\ queue[j + 1].msg \in Messages /\ i + 1 < j + 1
      BY <3>1, <3>2 DEF Copy
    <3> QED
      BY <3>1, <3>3, <2>5 DEF InOrder
  <2>9. Delivered'
    <3> SUFFICES ASSUME NEW a \in Messages, NEW b \in Messages, a < b, first'[b] # None, first'[a] = None
                 PROVE  FALSE
      BY DEF Delivered
    <3>1. a # h.msg /\ first[a] = None
      BY <2>5
    <3>2. first[b] = None
      BY <3>1 DEF Delivered
    <3>3. b = h.msg
      BY <3>2, <2>2, <2>3 DEF TypeOK
    <3>4. InQueue(a)
      BY <3>1 DEF Waits
    <3>5. PICK i \in DOMAIN queue : i \in Nat /\ 1 < i /\ queue[i].msg = a
      BY <3>1, <3>4, <2>6
    <3>6. b < a
      BY <2>2, <3>1, <3>2, <3>3, <3>5 DEF InOrder
    <3>7. a \in Nat /\ b \in Nat
      BY MessagesAreNumbers
    <3> QED
      BY <3>6, <3>7
  <2> QED
    BY <2>7, <2>8, <2>9
<1>8. ASSUME NEW c \in Members, Stops(c) PROVE Undelivered'
  <2>1. /\ queue' = buffer[c] \o queue /\ buffer' = [buffer EXCEPT ![c] = <<>>]
        /\ cut' = cut \cup {buffer[c][i].msg : i \in DOMAIN buffer[c]}
        /\ UNCHANGED <<began, first, job>>
    BY <1>8 DEF Stops, tasks
  <2>2. buffer[c] \in Seq(Copy)
    BY DEF TypeOK
  <2>3. \A i \in DOMAIN buffer[c] : first[buffer[c][i].msg] # None
    <3>1. \A i \in DOMAIN buffer[c] : buffer[c][i] \in Copy
      BY <2>2
    <3>2. \A i \in DOMAIN buffer[c] : buffer[c][i].msg \in Messages
      BY <3>1 DEF Copy
    <3> QED
      BY <3>2 DEF Waits, InBuffer
  <2>4. InOrder' /\ \A m \in Messages : InQueue(m) => InQueue(m)'
    BY <2>1, <2>2, <2>3, QueueGrows
  <2>5. Waits'
    <3> SUFFICES ASSUME NEW m \in Messages, first[m] = None
                 PROVE  /\ m \notin Touched' /\ InQueue(m)' /\ ~InHand(m)'
                        /\ \A d \in Members : ~InBuffer(m, d)'
      BY <2>1 DEF Waits
    <3>1. m \notin Touched /\ InQueue(m) /\ ~InHand(m) /\ \A d \in Members : ~InBuffer(m, d)
      BY DEF Waits
    <3>2. \A d \in Members : ~InBuffer(m, d)'
      <4> TAKE d \in Members
      <4>1. buffer'[d] = buffer[d] \/ buffer'[d] = <<>>
        BY <2>1 DEF TypeOK
      <4> QED
        BY <4>1, <3>1 DEF InBuffer
    <3> QED
      BY <3>1, <3>2, <2>1, <2>3, <2>4 DEF Touched, InHand
  <2>6. Delivered'
    BY <2>1 DEF Delivered
  <2> QED
    BY <2>4, <2>5, <2>6
<1>9. ASSUME UNCHANGED <<queue, buffer, job, first, began, cut>> PROVE Undelivered'
  <2>1. Waits'
    BY <1>9 DEF Waits, Touched, InQueue, InHand, InBuffer
  <2> QED
    BY <1>1, <1>9, <2>1
<1>10. ASSUME Rests PROVE Undelivered'
  BY <1>9, <1>10 DEF Rests, source, tasks, history
<1> QED
  BY <1>2, <1>3, <1>5, <1>6, <1>7, <1>8, <1>10, StepKinds


-----------------------------------------------------------------------------
(* The order of a key *)

Later(a, b) == a < b /\ KeyOf[a] = KeyOf[b] /\ first[b] = first[a]

\* A message stays buffered before those after it that stay where they are.
LEMMA BufferedStays ==
  ASSUME NEW a \in Messages, Buffered(a), NEW c, first[a] = c, first'[a] = c,
         buffer'[c] = buffer[c],
         \A b \in Messages : a < b /\ first'[b] = c =>
           first[b] = c /\ (OnlyIn(b, c) => OnlyIn(b, c)')
  PROVE  Buffered(a)'
<1>1. PICK i \in DOMAIN buffer[c] :
        /\ buffer[c][i].msg = a
        /\ \A b \in Messages : a < b /\ first[b] = c =>
             OnlyIn(b, c) /\ \A j \in DOMAIN buffer[c] : buffer[c][j].msg = b => i < j
  BY DEF Buffered
<1>2. \A b \in Messages : a < b /\ first'[b] = c => first[b] = c /\ (OnlyIn(b, c) => OnlyIn(b, c)')
  OBVIOUS
<1>3. \A b \in Messages : a < b /\ first'[b] = c =>
             OnlyIn(b, c)' /\ \A j \in DOMAIN buffer[c] : buffer[c][j].msg = b => i < j
  BY <1>1, <1>2
<1>4. c = first'[a] /\ buffer'[c] = buffer[c]
  OBVIOUS
<1> HIDE DEF OnlyIn
<1> QED
  BY <1>1, <1>3, <1>4 DEF Buffered

\* A task stays ahead of all that came after its message, if what another one does
\* starts none of them and puts none of them before it.
LEMMA AheadStays ==
  ASSUME Admissible, TypeOK, LockInv, LockInv', NEW a \in Messages, KeyOf[a] # NoKey,
         NEW t \in Tasks, job[t].msg = a, pc[t] \in {"waiting", "queued"},
         \A b \in Messages : Later(a, b) =>
           /\ b \notin began
           /\ \A u \in Tasks : job[u].msg = b /\ ref[u] # None => Behind(t, u),
         NEW s \in Tasks, s # t, OthersStay(s), BehindStays(s), first' = first,
         \A b \in Messages : Later(a, b) =>
           b \notin began' /\ (job'[s].msg = b /\ ref'[s] # None => Behind(t, s)')
  PROVE  Ahead(a)'
<1>1. job'[t] = job[t] /\ pc'[t] = pc[t]
  BY DEF OthersStay
<1>2. ref[t] # None
  BY DEF LockInv, Owned, Busy, Key
<1>3. ASSUME NEW u \in Tasks, u # s, ref'[u] # None PROVE ref[u] # None /\ job'[u] = job[u]
  BY <1>3 DEF OthersStay, LockInv, Owned, Busy, Key
<1>4. ASSUME NEW b \in Messages, Later(a, b), NEW u \in Tasks, job'[u].msg = b, ref'[u] # None
      PROVE  Behind(t, u)'
  <2>1. CASE u = s
    BY <1>4, <2>1
  <2>2. CASE u # s
    <3>1. Behind(t, u)
      BY <1>3, <1>4, <2>2
    <3> QED
      BY <1>2, <2>2, <3>1 DEF BehindStays
  <2> QED
    BY <2>1, <2>2
<1>5. \A b \in Messages : (a < b /\ KeyOf[a] = KeyOf[b] /\ first'[b] = first'[a]) => Later(a, b)
  BY DEF Later
<1>6. \A b \in Messages : a < b /\ KeyOf[a] = KeyOf[b] /\ first'[b] = first'[a] =>
         /\ b \notin began'
         /\ \A u \in Tasks : job'[u].msg = b /\ ref'[u] # None => Behind(t, u)'
  BY <1>4, <1>5
<1> HIDE DEF Behind, Later
<1> QED
  BY <1>1, <1>6 DEF Ahead

\* Who is behind another is not at the head of the line.
LEMMA BehindNotHead ==
  ASSUME LockTypes, LockInv, NEW t \in Tasks, NEW u \in Tasks, Behind(t, u), ref[t] # None
  PROVE  line[ref[u]][1] # u
<1>1. PICK l \in Locks : l = ref[t] /\ l = ref[u]
  BY DEF Behind, LockTypes
<1>2. PICK i, j \in DOMAIN line[l] : i < j /\ line[l][i] = t /\ line[l][j] = u
  BY <1>1 DEF Behind
<1>3. i \in Nat /\ j \in Nat /\ 1 <= i /\ 1 \in DOMAIN line[l]
  BY <1>2 DEF LockTypes
<1>4. line[l][1] = u => j = 1
  BY <1>2, <1>3 DEF LockInv, Lined
<1> QED
  BY <1>1, <1>2, <1>3, <1>4


\* The order of a key through the steps of a task that goes on.
LEMMA MovesOrdered ==
  ASSUME Admissible, TypeOK, Working, Working', LockInv, Started, Started', Ordered,
         NEW s \in Tasks, Moves(s)
  PROVE  Ordered'
<1>0. /\ UNCHANGED <<queue, buffer, job, first>> /\ pc[s] \in {"waiting", "queued", "acting", "undoing"}
      /\ OthersStay(s) /\ pc'[s] \in {"queued", "acting", "undoing"} \cup Verdicts
      /\ Touched \subseteq Touched' /\ Touched' \subseteq Touched \cup {job[s].msg}
      /\ began' \subseteq began \cup {job[s].msg}
  BY MovesFacts DEF Touched, TypeOK
<1>1. LockTypes /\ LockInv' /\ BehindStays(s) /\ (UNCHANGED <<line, ref>> \/ ref'[s] = None)
  BY MovesLocks, TypesOfLocks
<1>2. SUFFICES ASSUME NEW a \in Messages \ Touched', first'[a] # None, KeyOf[a] # NoKey
               PROVE  Buffered(a)' \/ Ahead(a)'
  BY DEF Ordered
<1>3. Buffered(a) \/ Ahead(a)
  BY <1>0, <1>2 DEF Ordered
<1>4. CASE Buffered(a)
  <2>0. PICK c : c = first[a]
    OBVIOUS
  <2>1. ASSUME NEW b \in Messages, OnlyIn(b, c) PROVE OnlyIn(b, c)'
    <3>1. job[s].msg # b
      BY <2>1 DEF OnlyIn, InHand
    <3> QED
      BY <2>1, <3>1, <1>0 DEF OnlyIn, InHand, InQueue, InBuffer
  <2>2. Buffered(a)'
    <3> HIDE DEF OnlyIn
    <3> QED
      BY <1>0, <1>4, <2>0, <2>1, BufferedStays
  <2> QED
    BY <2>2
<1>5. CASE Ahead(a)
  <2>1. PICK t \in Tasks :
          /\ job[t].msg = a /\ pc[t] \in {"waiting", "queued"}
          /\ \A b \in Messages : Later(a, b) =>
               /\ b \notin began
               /\ \A u \in Tasks : job[u].msg = b /\ ref[u] # None => Behind(t, u)
    BY <1>5 DEF Ahead, Later
  <2>2. ref[t] # None
    BY <2>1, <1>2 DEF LockInv, Owned, Busy, Key
  <2>3. CASE s = t
    <3>1. pc'[t] = "queued"
      BY <1>0, <1>2, <2>1, <2>3 DEF Started
    <3>2. Granted(t) /\ threaded
      BY <2>1, <2>3, <3>1 DEF Moves, Body, Granted, Opens, Boards, Returns, Acts, ActFails,
           Undoes, Undone, Deadline, Answers, TypeOK
    <3>3. UNCHANGED <<line, ref, began>>
      BY <3>2 DEF Granted, locks
    <3>4. \A u \in Tasks : Behind(t, u)' <=> Behind(t, u)
      BY <3>3 DEF Behind
    <3>5. \A b \in Messages : (a < b /\ KeyOf[a] = KeyOf[b] /\ first'[b] = first'[a]) => Later(a, b)
      BY <1>0 DEF Later
    <3> HIDE DEF Behind, Later
    <3>6. \A b \in Messages : a < b /\ KeyOf[a] = KeyOf[b] /\ first'[b] = first'[a] =>
             /\ b \notin began'
             /\ \A u \in Tasks : job'[u].msg = b /\ ref'[u] # None => Behind(t, u)'
      BY <1>0, <2>1, <3>3, <3>4, <3>5
    <3>7. job'[t].msg = a
      BY <1>0, <2>1
    <3> QED
      BY <3>1, <3>6, <3>7 DEF Ahead
  <2>4. CASE s # t
    <3>1. ASSUME NEW b \in Messages, Later(a, b)
          PROVE  b \notin began' /\ (job'[s].msg = b /\ ref'[s] # None => Behind(t, s)')
      <4>1. b \notin began /\ (job[s].msg = b /\ ref[s] # None => Behind(t, s))
        BY <2>1, <3>1
      <4>2. ASSUME b \in began' PROVE FALSE
        <5>1. job[s].msg = b /\ Key(s) # NoKey
          BY <4>1, <4>2, <1>0, <1>2, <3>1 DEF Later, Key
        <5>2. ref[s] # None
          BY <5>1, <1>0, <1>1 DEF LockInv, Owned, Busy, Verdicts, LockTypes
        <5>3. Granted(s) \/ Boards(s)
          BY <4>1, <4>2 DEF Moves, Body, Returns, Acts, ActFails, Undoes, Undone, Deadline, history
        <5>4. line[ref[s]][1] = s
          <6>1. CASE Granted(s)
            <7>1. ref[s] \in Locks /\ line[ref[s]] \in Seq(Tasks)
              BY <5>2 DEF TypeOK
            <7>2. line[ref[s]] # <<>>
              BY <5>2, <7>1 DEF LockInv, Lined
            <7>3. Head(line[ref[s]]) = line[ref[s]][1]
              BY <7>1, <7>2
            <7> QED
              BY <6>1, <7>3 DEF Granted
          <6>2. CASE Boards(s)
            BY <6>2, <5>2 DEF Boards, LockInv, Owned, Busy
          <6> QED
            BY <5>3, <6>1, <6>2
        <5> QED
          BY <4>1, <5>1, <5>2, <5>4, <2>2, <1>1, BehindNotHead
      <4>3. ASSUME job'[s].msg = b, ref'[s] # None PROVE Behind(t, s)'
        <5>1. UNCHANGED <<line, ref>> /\ Behind(t, s)
          BY <1>0, <1>1, <4>1, <4>3
        <5> QED
          BY <5>1 DEF Behind
      <4> QED
        BY <4>2, <4>3
    <3>2. first' = first
      BY <1>0
    <3> HIDE DEF Later, Behind
    <3>3. Ahead(a)'
      BY <1>0, <1>1, <1>2, <2>1, <2>4, <3>1, <3>2, AheadStays
    <3> QED
      BY <3>3
  <2> QED
    BY <2>3, <2>4
<1> QED
  BY <1>3, <1>4, <1>5


\* The order of a key when a task takes a message.
LEMMA TakesOrdered ==
  ASSUME Admissible, TypeOK, Working, Working', LockInv, Started, Started', Ordered,
         NEW s \in Tasks, Takes(s)
  PROVE  Ordered'
<1>13. PICK d \in Members : d = member[s]
  BY ShapeTypes DEF Takes
<1> DEFINE q == buffer[d]
           h == Head(q)
<1>0. /\ q \in Seq(Copy) /\ q # <<>> /\ d \in Members
      /\ job' = [job EXCEPT ![s] = h] /\ buffer' = [buffer EXCEPT ![d] = Tail(q)]
      /\ UNCHANGED <<queue, first, cut>>
      /\ began' = IF pc'[s] = "acting" THEN began \cup {h.msg} ELSE began
  BY <1>13 DEF Takes, TypeOK
<1>1. /\ LockTypes' /\ LockInv' /\ BehindStays(s) /\ OthersStay(s)
      /\ pc[s] = "idle" /\ pc'[s] \in {"waiting", "queued", "acting"}
      /\ KeyOf[job'[s].msg] # NoKey =>
           \A u \in Tasks : ref[u] # None /\ Key(u) = KeyOf[job'[s].msg] =>
             pc'[s] = "waiting" /\ Behind(u, s)'
  BY TakesLocks
<1>2. 1 \in DOMAIN q /\ q[1] = h /\ h \in Copy
  BY <1>0, TailPlaces
<1>3. job'[s].msg = h.msg /\ buffer'[d] = Tail(q) /\ \A c \in Members \ {d} : buffer'[c] = buffer[c]
  BY <1>0 DEF TypeOK
<1>4. \A i \in DOMAIN Tail(q) : i \in Nat /\ i + 1 \in DOMAIN q /\ Tail(q)[i] = q[i + 1]
  BY <1>0, TailPlaces
<1>5. \A i \in DOMAIN q : i \in Nat /\ 1 <= i /\ (i = 1 \/ (i - 1 \in DOMAIN Tail(q) /\ Tail(q)[i - 1] = q[i]))
  BY <1>0, TailPlaces
<1> HIDE DEF h
<1>6. ASSUME NEW b \in Messages, NEW c \in Members, OnlyIn(b, c), h.msg # b PROVE OnlyIn(b, c)'
  <2>1. b \notin Touched' /\ ~InQueue(b)'
    BY <1>0, <1>6 DEF OnlyIn, Touched, InQueue
  <2>2. ~InHand(b)'
    BY <1>1, <1>3, <1>6 DEF OnlyIn, InHand, OthersStay
  <2>3. ASSUME NEW e \in Members \ {c}, NEW i \in DOMAIN buffer'[e], buffer'[e][i].msg = b PROVE FALSE
    <3>1. ~InBuffer(b, e)
      BY <1>6 DEF OnlyIn
    <3>2. CASE e = d
      BY <2>3, <3>1, <3>2, <1>3, <1>4 DEF InBuffer
    <3>3. CASE e # d
      BY <2>3, <3>1, <3>3, <1>3 DEF InBuffer
    <3> QED
      BY <3>2, <3>3
  <2> QED
    BY <2>1, <2>2, <2>3 DEF OnlyIn, InBuffer
<1>7. SUFFICES ASSUME NEW a \in Messages \ Touched', first'[a] # None, KeyOf[a] # NoKey
               PROVE  Buffered(a)' \/ Ahead(a)'
  BY DEF Ordered
<1>8. a \notin Touched /\ first[a] # None /\ first[a] \in Members
  BY <1>0, <1>7 DEF Touched, TypeOK
<1>9. Buffered(a) \/ Ahead(a)
  BY <1>7, <1>8 DEF Ordered
<1>10. CASE Buffered(a) /\ first[a] # d
  <2>0. PICK c \in Members \ {d} : c = first[a]
    BY <1>8, <1>10
  <2>1. ASSUME NEW b \in Messages, OnlyIn(b, c) PROVE OnlyIn(b, c)'
    <3>1. h.msg # b
      BY <2>1, <1>0, <1>2 DEF OnlyIn, InBuffer
    <3> QED
      BY <2>1, <3>1, <1>6
  <2>2. buffer'[c] = buffer[c] /\ first' = first
    BY <1>0, <1>3
  <2> HIDE DEF OnlyIn
  <2>3. Buffered(a)'
    BY <1>10, <2>0, <2>1, <2>2, BufferedStays
  <2> QED
    BY <2>3
<1>11. CASE Buffered(a) /\ first[a] = d
  <2>1. PICK i \in DOMAIN q :
          /\ q[i].msg = a
          /\ \A b \in Messages : a < b /\ first[b] = d =>
               OnlyIn(b, d) /\ \A j \in DOMAIN q : q[j].msg = b => i < j
    BY <1>11 DEF Buffered
  <2>2. CASE i = 1
    <3>1. job'[s].msg = a
      BY <2>1, <2>2, <1>2, <1>3
    <3>2. pc'[s] \in {"waiting", "queued"}
      BY <3>1, <1>1, <1>7 DEF Started
    <3>3. ASSUME NEW b \in Messages, a < b, first'[b] = first'[a] PROVE b \notin began' /\ ~InHand(b)'
      <4>1. OnlyIn(b, d) /\ b # a
        BY <3>3, <1>0, <1>11, <2>1, MessagesAreNumbers
      <4>2. h.msg # b
        BY <4>1, <3>1, <1>3
      <4>3. OnlyIn(b, d)'
        BY <4>1, <4>2, <1>0, <1>6
      <4> QED
        BY <4>3 DEF OnlyIn, Touched
    <3>4. Ahead(a)'
      BY <3>1, <3>2, <3>3 DEF Ahead, InHand
    <3> QED
      BY <3>4
  <2>3. CASE i # 1
    <3>1. i - 1 \in DOMAIN Tail(q) /\ Tail(q)[i - 1].msg = a /\ i \in Nat
      BY <2>1, <2>3, <1>5
    <3>2. ASSUME NEW b \in Messages, a < b, first'[b] = d
          PROVE  OnlyIn(b, d)' /\ \A j \in DOMAIN Tail(q) : Tail(q)[j].msg = b => i - 1 < j
      <4>1. OnlyIn(b, d) /\ \A j \in DOMAIN q : q[j].msg = b => i < j
        BY <3>2, <1>0, <2>1
      <4>2. h.msg # b
        BY <4>1, <3>1, <1>2, <1>5
      <4>3. OnlyIn(b, d)'
        BY <4>1, <4>2, <1>0, <1>6
      <4>4. ASSUME NEW j \in DOMAIN Tail(q), Tail(q)[j].msg = b PROVE i - 1 < j
        <5>1. j \in Nat /\ i < j + 1
          BY <4>1, <4>4, <1>4
        <5> QED
          BY <5>1, <3>1
      <4> QED
        BY <4>3, <4>4
    <3>3. first'[a] = d
      BY <1>0, <1>11
    <3>5. buffer'[d] = Tail(q)
      BY <1>3
    <3> HIDE DEF OnlyIn, q
    <3>4. Buffered(a)'
      BY <3>1, <3>2, <3>3, <3>5 DEF Buffered
    <3> QED
      BY <3>4
  <2> QED
    BY <2>2, <2>3
<1>12. CASE Ahead(a)
  <2>1. PICK t \in Tasks :
          /\ job[t].msg = a /\ pc[t] \in {"waiting", "queued"}
          /\ \A b \in Messages : Later(a, b) =>
               /\ b \notin began
               /\ \A u \in Tasks : job[u].msg = b /\ ref[u] # None => Behind(t, u)
    BY <1>12 DEF Ahead, Later
  <2>2. ref[t] # None /\ Key(t) = KeyOf[a] /\ s # t
    BY <2>1, <1>1, <1>7 DEF LockInv, Owned, Busy, Key
  <2>3. ASSUME NEW b \in Messages, Later(a, b)
        PROVE  b \notin began' /\ (job'[s].msg = b /\ ref'[s] # None => Behind(t, s)')
    <3>1. b \notin began /\ KeyOf[b] = KeyOf[a]
      BY <2>1, <2>3 DEF Later
    <3>2. job'[s].msg = b => pc'[s] = "waiting" /\ Behind(t, s)'
      BY <3>1, <2>2, <1>1, <1>7
    <3> QED
      BY <3>1, <3>2, <1>0, <1>3
  <2>4. first' = first
    BY <1>0
  <2> HIDE DEF Later, Behind
  <2>5. Ahead(a)'
    BY <1>1, <1>7, <2>1, <2>2, <2>3, <2>4, AheadStays
  <2> QED
    BY <2>5
<1> QED
  BY <1>9, <1>10, <1>11, <1>12

\* The order of a key when a task ends with a message, or is cut off.
LEMMA EndsOrdered ==
  ASSUME Admissible, TypeOK, Working, LockInv, LockInv', Started, Undelivered, Ordered,
         NEW s \in Tasks, Settles(s) \/ CutsOff(s), BehindStays(s)
  PROVE  Ordered'
<1>0. /\ UNCHANGED <<buffer, first, began>> /\ cut \subseteq cut' /\ cut' \subseteq cut \cup {job[s].msg}
      /\ job' = [job EXCEPT ![s] = NoJob] /\ pc' = [pc EXCEPT ![s] = "idle"]
      /\ pc[s] # "idle"
  BY DEF Settles, CutsOff, Verdicts
<1>1. OthersStay(s) /\ pc'[s] = "idle" /\ job'[s] = NoJob
  BY <1>0 DEF OthersStay, TypeOK
<1>2. job[s] \in Copy /\ job[s].msg \in Messages
  BY <1>0, HasJob
<1>3. first[job[s].msg] # None
  BY <1>2 DEF Undelivered, Waits, InHand
<1>4. \A m \in Messages : InQueue(m)' => InQueue(m) \/ job[s].msg = m
  <2>1. CASE queue' = queue
    BY <2>1 DEF InQueue
  <2>2. ASSUME NEW x \in Copy, x.msg = job[s].msg,
               queue' = <<x>> \o queue \/ queue' = queue \o <<x>>
        PROVE  <1>4
    <3>1. <<x>> \in Seq(Copy) /\ \A i \in DOMAIN <<x>> : <<x>>[i].msg = job[s].msg
      BY <2>2
    <3>2. \A m \in Messages : InQueue(m)' => InQueue(m) \/ \E i \in DOMAIN <<x>> : <<x>>[i].msg = m
      BY <1>0, <1>3, <2>2, <3>1, QueueGrows DEF Undelivered
    <3> QED
      BY <3>1, <3>2
  <2>3. CASE CutsOff(s)
    BY <1>2, <2>2, <2>3 DEF CutsOff
  <2>4. CASE Settles(s) /\ queue' # queue
    <3> DEFINE more == [job[s] EXCEPT !.attempt = @ + 1]
    <3>1. job[s].attempt < MaxAttempts /\ queue' = Append(queue, more)
      BY <2>4 DEF Settles
    <3>2. more \in Copy /\ more.msg = job[s].msg
      BY <3>1, <1>0, NextTry
    <3> HIDE DEF more
    <3>3. queue' = queue \o <<more>>
      BY <3>1, <3>2, AppendIsConcat DEF TypeOK
    <3> QED
      BY <2>2, <3>2, <3>3
  <2> QED
    BY <2>1, <2>3, <2>4
<1>5. ASSUME NEW b \in Messages, NEW c \in Members, OnlyIn(b, c) PROVE OnlyIn(b, c)'
  <2>1. job[s].msg # b /\ NoJob.msg # b
    BY <1>5 DEF OnlyIn, InHand, NoJob, Admissible
  <2>2. ~InHand(b)'
    BY <1>1, <1>5, <2>1 DEF OnlyIn, InHand, OthersStay
  <2> QED
    BY <1>0, <1>4, <1>5, <2>1, <2>2 DEF OnlyIn, Touched, InBuffer
<1>6. SUFFICES ASSUME NEW a \in Messages \ Touched', first'[a] # None, KeyOf[a] # NoKey
               PROVE  Buffered(a)' \/ Ahead(a)'
  BY DEF Ordered
<1>7. a \notin Touched /\ first[a] # None /\ first[a] \in Members
  BY <1>0, <1>6 DEF Touched, TypeOK
<1>8. Buffered(a) \/ Ahead(a)
  BY <1>6, <1>7 DEF Ordered
<1>9. CASE Buffered(a)
  <2>0. PICK c \in Members : c = first[a]
    BY <1>7
  <2> HIDE DEF OnlyIn
  <2>1. Buffered(a)'
    BY <1>0, <1>5, <1>9, <2>0, BufferedStays
  <2> QED
    BY <2>1
<1>10. CASE Ahead(a)
  <2>1. PICK t \in Tasks :
          /\ job[t].msg = a /\ pc[t] \in {"waiting", "queued"}
          /\ \A b \in Messages : Later(a, b) =>
               /\ b \notin began
               /\ \A u \in Tasks : job[u].msg = b /\ ref[u] # None => Behind(t, u)
    BY <1>10 DEF Ahead, Later
  <2>2. s # t
    BY <2>1, <1>6 DEF Settles, CutsOff, Verdicts, Touched
  <2>3. \A b \in Messages : job'[s].msg # b
    BY <1>1 DEF NoJob, Admissible
  <2>4. first' = first /\ \A b \in Messages : Later(a, b) => b \notin began'
    BY <1>0, <2>1
  <2> HIDE DEF Later, Behind
  <2>5. Ahead(a)'
    BY <1>1, <1>6, <2>1, <2>2, <2>3, <2>4, AheadStays
  <2> QED
    BY <2>5
<1> QED
  BY <1>8, <1>9, <1>10


\* The order of a key when nothing happens to a task: whoever has a message has it.
LEMMA StillAhead ==
  ASSUME TypeOK, Working, NEW a \in Messages, Ahead(a), first'[a] = first[a],
         UNCHANGED <<job, pc, line, ref>>,
         \A b \in Messages : a < b /\ first'[b] = first[a] =>
            first[b] = first[a] \/ ~InHand(b),
         \A b \in Messages : b \in began' => b \in began /\ first'[b] = first[b]
  PROVE  Ahead(a)'
<1>1. PICK t \in Tasks :
          /\ job[t].msg = a /\ pc[t] \in {"waiting", "queued"}
          /\ \A b \in Messages : Later(a, b) =>
               /\ b \notin began
               /\ \A u \in Tasks : job[u].msg = b /\ ref[u] # None => Behind(t, u)
  BY DEF Ahead, Later
<1>2. \A u \in Tasks : Behind(t, u)' <=> Behind(t, u)
  BY DEF Behind
<1>3. ASSUME NEW b \in Messages, a < b, KeyOf[a] = KeyOf[b], first'[b] = first'[a]
      PROVE  /\ b \notin began'
             /\ \A u \in Tasks : job'[u].msg = b /\ ref'[u] # None => Behind(t, u)'
  <2>1. b \notin began'
    BY <1>1, <1>3 DEF Later
  <2>2. CASE InHand(b)
    <3>1. Later(a, b)
      BY <1>3, <2>2 DEF Later
    <3> HIDE DEF Later, Behind
    <3> QED
      BY <1>1, <1>2, <2>1, <3>1
  <2>3. CASE ~InHand(b)
    BY <2>1, <2>3 DEF InHand
  <2> QED
    BY <2>2, <2>3
<1> HIDE DEF Behind
<1> QED
  BY <1>1, <1>3 DEF Ahead

\* The order of a key when a message is delivered.
LEMMA DeliversOrdered ==
  ASSUME Admissible, TypeOK, Working, Started, Undelivered, Ordered,
         NEW d \in Members, Delivers(d)
  PROVE  Ordered'
<1> DEFINE h == Head(queue)
           q == buffer[d]
<1>0. queue \in Seq(Copy) /\ queue # <<>> /\ q \in Seq(Copy) /\ d # None
  BY DEF Delivers, TypeOK, Admissible
<1>1. h \in Copy /\ queue[1] = h /\ 1 \in DOMAIN queue
  BY <1>0, TailPlaces
<1>2. h.msg \in Messages
  BY <1>1 DEF Copy
<1>3. /\ buffer' = [buffer EXCEPT ![d] = Append(@, h)] /\ queue' = Tail(queue)
      /\ first' = [first EXCEPT ![h.msg] = IF @ = None THEN d ELSE @]
      /\ UNCHANGED <<began, cut, job, pc, line, ref>>
  BY DEF Delivers, tasks, locks
<1> HIDE DEF h
<1>4. /\ \A c \in Members \ {d} : buffer'[c] = buffer[c]
      /\ buffer'[d] = Append(q, h)
      /\ \A m \in Messages : first'[m] = IF m = h.msg /\ first[m] = None THEN d ELSE first[m]
  BY <1>3 DEF TypeOK
<1>5. /\ Len(q) \in Nat /\ Len(q) + 1 \in DOMAIN Append(q, h) /\ Append(q, h)[Len(q) + 1] = h
      /\ \A i \in DOMAIN q : i \in Nat /\ i < Len(q) + 1 /\ i \in DOMAIN Append(q, h) /\ Append(q, h)[i] = q[i]
      /\ \A i \in DOMAIN Append(q, h) : i \in Nat /\ (i = Len(q) + 1 \/ i \in DOMAIN q)
  BY <1>0, <1>1, AppendPlaces
<1>6. \A i \in DOMAIN Tail(queue) : i \in Nat /\ 1 < i + 1 /\ i + 1 \in DOMAIN queue /\ Tail(queue)[i] = queue[i + 1]
  BY <1>0, TailPlaces
<1>7. ASSUME NEW b \in Messages, NEW c \in Members, OnlyIn(b, c) PROVE OnlyIn(b, c)' /\ h.msg # b
  <2>1. h.msg # b
    BY <1>1, <1>7 DEF OnlyIn, InQueue
  <2>2. ~InQueue(b)'
    BY <1>3, <1>6, <1>7 DEF OnlyIn, InQueue
  <2>3. \A e \in Members \ {c} : ~InBuffer(b, e)'
    <3> SUFFICES ASSUME NEW e \in Members \ {c}, NEW i \in DOMAIN buffer'[e], buffer'[e][i].msg = b PROVE FALSE
      BY DEF InBuffer
    <3>1. ~InBuffer(b, e)
      BY <1>7 DEF OnlyIn
    <3>2. CASE e = d
      BY <2>1, <3>1, <3>2, <1>4, <1>5 DEF InBuffer
    <3>3. CASE e # d
      BY <3>1, <3>3, <1>4 DEF InBuffer
    <3> QED
      BY <3>2, <3>3
  <2> QED
    BY <1>3, <1>7, <2>1, <2>2, <2>3 DEF OnlyIn, Touched, InHand
<1>13. PICK x \in Messages : x = h.msg
  BY <1>2
<1>8. ASSUME first[x] = None PROVE OnlyIn(x, d)' /\ \A i \in DOMAIN q : q[i].msg # x
  <2>1. /\ x \notin Touched /\ ~InHand(x)
        /\ \A c \in Members : ~InBuffer(x, c)
    BY <1>8 DEF Undelivered, Waits
  <2>2. ASSUME NEW i \in DOMAIN Tail(queue), Tail(queue)[i].msg = x PROVE FALSE
    <3>1. i \in Nat /\ 1 < i + 1 /\ i + 1 \in DOMAIN queue /\ queue[i + 1].msg = x
      BY <1>6, <2>2
    <3>2. queue[1].msg < queue[i + 1].msg
      BY <1>1, <1>8, <1>13, <3>1 DEF Undelivered, InOrder
    <3> QED
      BY <1>1, <1>13, <3>1, <3>2, MessagesAreNumbers
  <2>3. ~InQueue(x)'
    BY <1>3, <2>2 DEF InQueue
  <2>4. \A e \in Members \ {d} : ~InBuffer(x, e)'
    BY <1>4, <2>1 DEF InBuffer
  <2>5. x \notin Touched' /\ ~InHand(x)'
    BY <1>3, <2>1 DEF Touched, InHand
  <2>6. \A i \in DOMAIN q : q[i].msg # x
    BY <2>1 DEF InBuffer
  <2> QED
    BY <2>3, <2>4, <2>5, <2>6 DEF OnlyIn
<1>9. SUFFICES ASSUME NEW a \in Messages \ Touched', first'[a] # None, KeyOf[a] # NoKey
             PROVE  Buffered(a)' \/ Ahead(a)'
  BY DEF Ordered
<1>10. CASE first[a] = None
  <2>1. a = x /\ first'[a] = d
    BY <1>4, <1>9, <1>10, <1>13
  <2>2. ASSUME NEW b \in Messages, a < b, first'[b] = d PROVE FALSE
    <3>1. b # x /\ first[b] # None
      BY <1>0, <1>4, <1>13, <2>1, <2>2, MessagesAreNumbers
    <3> QED
      BY <1>10, <2>2, <3>1 DEF Undelivered, Delivered
  <2>3. Len(q) + 1 \in DOMAIN buffer'[d] /\ buffer'[d][Len(q) + 1].msg = a
    BY <1>4, <1>5, <1>13, <2>1
  <2>4. Buffered(a)'
    BY <2>1, <2>2, <2>3 DEF Buffered
  <2> QED
    BY <2>4
<1>11. CASE first[a] # None
  <2>1. first'[a] = first[a] /\ first[a] \in Members /\ a \notin Touched
    BY <1>3, <1>4, <1>11 DEF Touched, TypeOK
  <2>2. Buffered(a) \/ Ahead(a)
    BY <1>9, <1>11, <2>1 DEF Ordered
  <2>3. CASE Buffered(a) /\ first[a] # d
    <3>1. PICK c \in Members \ {d} : c = first[a]
      BY <2>1, <2>3
    <3>2. buffer'[c] = buffer[c]
      BY <1>4
    <3>3. \A b \in Messages : first'[b] = c => first[b] = c
      BY <1>4
    <3>4. \A b \in Messages : OnlyIn(b, c) => OnlyIn(b, c)'
      BY <1>7
    <3>5. PICK i \in DOMAIN buffer[c] :
            /\ buffer[c][i].msg = a
            /\ \A b \in Messages : a < b /\ first[b] = c =>
                 OnlyIn(b, c) /\ \A j \in DOMAIN buffer[c] : buffer[c][j].msg = b => i < j
      BY <2>3, <3>1 DEF Buffered
    <3>6. first'[a] = c
      BY <2>1, <3>1
    <3> HIDE DEF OnlyIn, q
    <3>7. Buffered(a)'
      BY <3>2, <3>3, <3>4, <3>5, <3>6 DEF Buffered
    <3> QED
      BY <3>7
  <2>4. CASE Buffered(a) /\ first[a] = d
    <3>1. PICK i \in DOMAIN q :
            /\ q[i].msg = a
            /\ \A b \in Messages : a < b /\ first[b] = d =>
                 OnlyIn(b, d) /\ \A j \in DOMAIN q : q[j].msg = b => i < j
      BY <2>4 DEF Buffered
    <3>2. i \in DOMAIN buffer'[d] /\ buffer'[d][i].msg = a /\ i < Len(q) + 1
      BY <3>1, <1>4, <1>5
    <3>3. ASSUME NEW b \in Messages, a < b, first'[b] = d
          PROVE  OnlyIn(b, d)' /\ \A j \in DOMAIN buffer'[d] : buffer'[d][j].msg = b => i < j
      <4>1. CASE first[b] = d
        <5>1. OnlyIn(b, d) /\ \A j \in DOMAIN q : q[j].msg = b => i < j
          BY <3>1, <3>3, <4>1
        <5>2. OnlyIn(b, d)' /\ h.msg # b
          BY <5>1, <1>7
        <5>3. \A j \in DOMAIN buffer'[d] : buffer'[d][j].msg = b => i < j
          BY <5>1, <5>2, <1>4, <1>5
        <5> QED
          BY <5>2, <5>3
      <4>2. CASE first[b] # d
        <5>1. b = x /\ first[x] = None
          BY <1>4, <1>13, <3>3, <4>2
        <5>2. OnlyIn(b, d)' /\ \A j \in DOMAIN q : q[j].msg # b
          BY <5>1, <1>8
        <5>3. \A j \in DOMAIN buffer'[d] : buffer'[d][j].msg = b => i < j
          BY <5>2, <1>4, <1>5, <3>2
        <5> QED
          BY <5>2, <5>3
      <4> QED
        BY <4>1, <4>2
    <3>4. first'[a] = d
      BY <2>1, <2>4
    <3> HIDE DEF OnlyIn, q
    <3>5. Buffered(a)'
      BY <3>2, <3>3, <3>4 DEF Buffered
    <3> QED
      BY <3>5
  <2>5. CASE Ahead(a)
    <3>1. ASSUME NEW b \in Messages, a < b, first'[b] = first[a]
          PROVE  first[b] = first[a] \/ ~InHand(b)
      BY <1>4, <3>1 DEF Undelivered, Waits
    <3>2. ASSUME NEW b \in Messages, b \in began' PROVE b \in began /\ first'[b] = first[b]
      BY <1>3, <1>4, <3>2 DEF Undelivered, Waits, Touched
    <3>3. UNCHANGED <<job, pc, line, ref>>
      BY <1>3
    <3> HIDE DEF InHand, Ahead
    <3>4. Ahead(a)'
      BY <2>1, <2>5, <3>1, <3>2, <3>3, StillAhead
    <3> QED
      BY <3>4
  <2> QED
    BY <2>2, <2>3, <2>4, <2>5
<1> QED
  BY <1>10, <1>11

\* The order of a key when a consumer gives back what it has not started.
LEMMA StopsOrdered ==
  ASSUME Admissible, TypeOK, Working, Started, Undelivered, Ordered,
         NEW d \in Members, Stops(d)
  PROVE  Ordered'
<1>1. /\ queue' = buffer[d] \o queue /\ buffer' = [buffer EXCEPT ![d] = <<>>]
      /\ cut' = cut \cup {buffer[d][i].msg : i \in DOMAIN buffer[d]}
      /\ UNCHANGED <<began, first, job, pc, line, ref>>
  BY DEF Stops, tasks, locks
<1>2. buffer[d] \in Seq(Copy)
  BY DEF TypeOK
<1>3. \A i \in DOMAIN buffer[d] : first[buffer[d][i].msg] # None
  <2>1. \A i \in DOMAIN buffer[d] : buffer[d][i] \in Copy
    BY <1>2
  <2>2. \A i \in DOMAIN buffer[d] : buffer[d][i].msg \in Messages
    BY <2>1 DEF Copy
  <2> QED
    BY <2>2 DEF Undelivered, Waits, InBuffer
<1>4. \A m \in Messages : InQueue(m)' => InQueue(m) \/ InBuffer(m, d)
  <2>1. \A m \in Messages : InQueue(m)' => InQueue(m) \/ \E i \in DOMAIN buffer[d] : buffer[d][i].msg = m
    BY <1>1, <1>2, <1>3, QueueGrows DEF Undelivered
  <2> QED
    BY <2>1 DEF InBuffer
<1>5. \A c \in Members \ {d} : buffer'[c] = buffer[c]
  BY <1>1 DEF TypeOK
<1>6. ASSUME NEW m \in Messages, NEW c \in Members, InBuffer(m, c)' PROVE InBuffer(m, c)
  <2>1. c # d
    BY <1>1, <1>6 DEF InBuffer, TypeOK
  <2> QED
    BY <1>5, <1>6, <2>1 DEF InBuffer
<1>7. ASSUME NEW b \in Messages, NEW c \in Members \ {d}, OnlyIn(b, c) PROVE OnlyIn(b, c)'
  <2>1. ~InBuffer(b, d)
    BY <1>7 DEF OnlyIn
  <2>2. b \notin Touched' /\ ~InHand(b)'
    BY <1>1, <1>7, <2>1 DEF OnlyIn, Touched, InHand, InBuffer
  <2>3. ~InQueue(b)'
    BY <1>4, <1>7, <2>1 DEF OnlyIn
  <2>4. \A e \in Members \ {c} : ~InBuffer(b, e)'
    BY <1>6, <1>7 DEF OnlyIn
  <2> QED
    BY <2>2, <2>3, <2>4 DEF OnlyIn
<1>8. SUFFICES ASSUME NEW a \in Messages \ Touched', first'[a] # None, KeyOf[a] # NoKey
               PROVE  Buffered(a)' \/ Ahead(a)'
  BY DEF Ordered
<1>9. a \notin Touched /\ first[a] # None /\ first[a] \in Members
  BY <1>1, <1>8 DEF Touched, TypeOK
<1>10. CASE Buffered(a)
  <2>1. PICK c \in Members : c = first[a]
    BY <1>9
  <2>2. c # d
    BY <1>1, <1>8, <1>10, <2>1 DEF Buffered, Touched
  <2>3. buffer'[c] = buffer[c] /\ first' = first
    BY <1>1, <1>5, <2>2
  <2>4. \A b \in Messages : OnlyIn(b, c) => OnlyIn(b, c)'
    BY <1>7, <2>2
  <2> HIDE DEF OnlyIn
  <2>5. Buffered(a)'
    BY <1>10, <2>1, <2>3, <2>4, BufferedStays
  <2> QED
    BY <2>5
<1>11. CASE Ahead(a)
  <2>1. first' = first /\ began' = began /\ UNCHANGED <<job, pc, line, ref>>
    BY <1>1
  <2> HIDE DEF InHand, Ahead
  <2>2. Ahead(a)'
    BY <1>11, <2>1, StillAhead
  <2> QED
    BY <2>2
<1> QED
  BY <1>8, <1>9, <1>10, <1>11 DEF Ordered

\* The order of a key through a step.
LEMMA OrderedStep ==
  ASSUME HandlersInv, [Next]_vars, Working', LockInv', Started'
  PROVE  Ordered'
<1> USE DEF HandlersInv
<1>0. LockTypes
  BY TypesOfLocks
<1>1. ASSUME NEW t \in Tasks, Settles(t) PROVE Ordered'
  <2>1. ref[t] = None
    BY <1>1 DEF Settles, LockInv, Owned, Busy, Verdicts
  <2>2. UNCHANGED <<lock, holders, line, ref>> /\ OthersStay(t) /\ pc'[t] = "idle"
    BY <1>1 DEF Settles, locks, OthersStay, TypeOK
  <2>3. BehindStays(t)
    BY <2>1, <2>2, <1>0, NoLock DEF Busy
  <2> QED
    BY <1>1, <2>3, EndsOrdered
<1>2. ASSUME NEW t \in Tasks, CutsOff(t) PROVE Ordered'
  <2>1. Unlocks(t) /\ OthersStay(t) /\ pc'[t] = "idle"
    BY <1>2 DEF CutsOff, OthersStay, TypeOK
  <2>2. BehindStays(t)
    BY <2>1, <1>0, Unlocking DEF Busy
  <2> QED
    BY <1>2, <2>2, EndsOrdered
<1>3. ASSUME NEW t \in Tasks, Takes(t) PROVE Ordered'
  BY <1>3, TakesOrdered
<1>4. ASSUME NEW t \in Tasks, Moves(t) PROVE Ordered'
  BY <1>4, MovesOrdered
<1>5. ASSUME NEW c \in Members, Delivers(c) PROVE Ordered'
  BY <1>5, DeliversOrdered
<1>6. ASSUME NEW c \in Members, Stops(c) PROVE Ordered'
  BY <1>6, StopsOrdered
<1>7. ASSUME Rests PROVE Ordered'
  <2>1. UNCHANGED <<queue, buffer, job, pc, line, ref, began, cut, first>>
    BY <1>7 DEF Rests, source, tasks, locks, history
  <2> QED
    BY <2>1 DEF Ordered, Buffered, Ahead, OnlyIn, Behind, Touched, InHand, InQueue, InBuffer
<1> QED
  BY <1>1, <1>2, <1>3, <1>4, <1>5, <1>6, <1>7, StepKinds

-----------------------------------------------------------------------------
(* The invariant *)

\* Before anything is delivered every message is in the queue, in its order.
LEMMA InitInv ==
  ASSUME HandlersAssumption, Init
  PROVE  HandlersInv
<1>0. Admissible
  BY HandlersAssumption DEF HandlersAssumption
<1>1. PICK n \in Nat : n = Cardinality(Messages) /\ Messages = 1..n
  BY <1>0, FS_CardinalityType DEF Admissible
<1>2. queue \in Seq(Copy) /\ DOMAIN queue = 1..n /\ \A i \in 1..n : queue[i].msg = i
  <2>1. queue = [m \in 1..n |-> [msg |-> m, attempt |-> 1]]
    BY <1>1 DEF Init
  <2>2. \A m \in 1..n : [msg |-> m, attempt |-> 1] \in Copy
    <3>1. 1 \in 1..MaxAttempts
      BY <1>0 DEF Admissible
    <3> QED
      BY <1>1, <3>1 DEF Copy
  <2> QED
    BY <2>1, <2>2
<1>3. ShapeType
  <2>1. PICK shape \in Shapes :
          member = shape.member /\ limit = shape.limit /\ threaded = shape.threaded
    BY DEF Init
  <2>2. shape \in [member : [Tasks -> Members], limit : {"none", "outer", "inner"}, threaded : BOOLEAN]
    BY <1>0 DEF Admissible
  <2>3. shape = [member |-> shape.member, limit |-> shape.limit, threaded |-> shape.threaded]
    BY <2>2
  <2> QED
    BY <2>1, <2>3 DEF ShapeType
<1>4. SourceTypes
  BY <1>2 DEF Init, SourceTypes
<1>5. TaskTypes
  <2>1. 0 \in 0..SagaLength
    BY <1>0 DEF Admissible
  <2> QED
    BY <2>1 DEF Init, TaskTypes
<1>6. LockTypes
  <2>1. 0 \in 0..Cardinality(Tasks)
    BY <1>0, SomeTasks
  <2> QED
    BY <2>1 DEF Init, LockTypes
<1>7. ControlTypes /\ PastTypes
  BY DEF Init, ControlTypes, PastTypes
<1>8. TypeOK
  BY <1>3, <1>4, <1>5, <1>6, <1>7, TypesTogether
<1>9. Working /\ Sagas /\ SagaUndone /\ Started
  BY DEF Init, Working, Sagas, SagaUndone, Started, Verdicts
<1>10. LockInv
  <2>1. \A k \in Keys : Refs(k) = {}
    BY DEF Init, Refs
  <2>2. Counted
    BY <2>1, FS_EmptySet DEF Init, Counted
  <2>3. Named /\ Owned
    BY DEF Init, Named, Owned, Busy
  <2>4. Lined
    <3>1. \A l \in Locks : line[l] = <<>> /\ DOMAIN line[l] = {}
      BY DEF Init
    <3>2. \A t \in Tasks, l \in Locks : ref[t] # l
      BY <1>0 DEF Init, Admissible, Locks
    <3> QED
      BY <3>1, <3>2 DEF Lined
  <2> QED
    BY <2>2, <2>3, <2>4 DEF LockInv
<1>11. Waits
  <2>1. \A m \in Messages : InQueue(m)
    BY <1>1, <1>2 DEF InQueue
  <2>2. \A m \in Messages : ~InHand(m) /\ m \notin Touched /\ \A c \in Members : ~InBuffer(m, c)
    BY <1>0 DEF Init, InHand, NoJob, Admissible, Touched, InBuffer
  <2> QED
    BY <2>1, <2>2 DEF Waits
<1>12. InOrder /\ Delivered
  BY <1>2 DEF Init, InOrder, Delivered
<1>13. Ordered
  BY DEF Init, Ordered
<1> QED
  BY <1>0, <1>8, <1>9, <1>10, <1>11, <1>12, <1>13 DEF HandlersInv, Undelivered

\* A step keeps all of it.
LEMMA StepInv ==
  ASSUME HandlersInv, [Next]_vars
  PROVE  HandlersInv'
<1> USE DEF HandlersInv
<1>1. Admissible' /\ Working' /\ Started' /\ Undelivered' /\ Sagas' /\ SagaUndone'
  BY WorkingStep, StartedStep, UndeliveredStep, SagaStep DEF Admissible, Members, Steps
<1>2. LockTypes' /\ LockInv'
  BY LockStep
<1>3. ShapeType' /\ SourceTypes' /\ TaskTypes' /\ ControlTypes' /\ PastTypes'
  BY MovesTypes, OtherTypes
<1>4. TypeOK'
  BY <1>2, <1>3 DEF TypeOK, ShapeType, SourceTypes, TaskTypes, LockTypes, ControlTypes, PastTypes
<1>5. Ordered'
  BY <1>1, <1>2, OrderedStep
<1> QED
  BY <1>1, <1>2, <1>4, <1>5

\* What the invariant says of two messages of a key.
LEMMA InvOneOfAKey ==
  ASSUME HandlersInv
  PROVE  OneOfAKey
<1> USE DEF HandlersInv
<1>1. ASSUME NEW t \in Tasks, NEW u \in Tasks, t # u, Busy(t), Busy(u), Key(t) = Key(u), Key(t) # NoKey
      PROVE  FALSE
  <2>1. ref[t] # None /\ ref[u] # None
    BY <1>1 DEF LockInv, Owned
  <2>2. ref[t] = ref[u]
    BY <1>1, <2>1 DEF LockInv, Named
  <2> QED
    BY <1>1, <2>1, <2>2 DEF LockInv, Owned
<1>2. \A k \in Keys : lock[k] # None <=> \E t \in Tasks : ref[t] # None /\ Key(t) = k
  BY DEF LockInv, Counted, Refs
<1>3. ASSUME NEW a \in Messages, NEW b \in Messages, a < b, KeyOf[a] = KeyOf[b], KeyOf[a] # NoKey,
             first[a] = first[b], b \in began, a \notin began \cup cut
      PROVE  FALSE
  <2>1. first[b] # None
    BY <1>3 DEF Undelivered, Waits, Touched
  <2>2. Buffered(a) \/ Ahead(a)
    BY <1>3, <2>1 DEF Ordered, Touched
  <2>3. CASE Buffered(a)
    BY <1>3, <2>3 DEF Buffered, OnlyIn, Touched
  <2>4. CASE Ahead(a)
    BY <1>3, <2>4 DEF Ahead
  <2> QED
    BY <2>2, <2>3, <2>4
<1> QED
  BY <1>1, <1>2, <1>3 DEF OneOfAKey

\* Every behaviour of the handlers has the invariant.
THEOREM HandlersInvariant == Spec => []HandlersInv
<1>1. Init => HandlersInv
  BY InitInv, HandlersAssumption
<1>2. HandlersInv /\ [Next]_vars => HandlersInv'
  BY StepInv
<1> QED
  BY <1>1, <1>2, PTL DEF Spec

\* Two messages of one key are never handled at once, and begin in the order they came,
\* however with_ordering's locks are forgotten and made again under deadlines and closes.
THEOREM KeysTakeTurns == Spec => []OneOfAKey
<1>1. HandlersInv => OneOfAKey
  BY InvOneOfAKey
<1> QED
  BY <1>1, HandlersInvariant, PTL

\* A saga that failed has undone what it had done, from its last step back, and reports
\* what it could not undo.  One that a deadline cancelled undoes nothing, and is not meant.
THEOREM SagasAreUndone == Spec => []SagaUndone
<1>1. HandlersInv => SagaUndone
  BY DEF HandlersInv
<1> QED
  BY <1>1, HandlersInvariant, PTL

=============================================================================
