---------------------------- MODULE OutboxProofs ----------------------------
(***************************************************************************)
(* Proofs about the outbox, for every set of records and of sweepers, every*)
(* batch size, limit of attempts and bound on faults; and about the reader *)
(* of a stream, for every log, set of workers, prefetch and bound on lost  *)
(* connections and on what retention takes.                                *)
(***************************************************************************)
EXTENDS Outbox, Stream, FiniteSetTheorems, SequenceTheorems, WellFoundedInduction, TLAPS

-----------------------------------------------------------------------------
(* The inductive invariant *)

Readers(r) == {s \in Sweepers : r \in batch[s]}

\* A record is counted at most once more by each sweep that has it in hand.
Counted ==
  \A r \in Records :
    rows[r] + Cardinality(Readers(r)) <= MaxAttempts + Cardinality(Sweepers) - 1

\* What is in the table, or in the hands of a sweep, was committed.
FromCommitted ==
  /\ \A r \in Records : InTable(r) => tx[r] = "committed"
  /\ \A s \in Sweepers : \A r \in batch[s] : tx[r] = "committed"

\* A record about to be marked was taken by the broker.
Marking == \A s \in Sweepers : pc[s] = "mark" => copies[Current(s)] > 0

\* A sweep has gone past no record of its batch that the broker did not take.
Behind == \A s \in Sweepers : \A r \in read[s] \ batch[s] : copies[r] > 0

\* A record nothing happened to is in the hands of one sweep at most; once it was
\* taken, it is out of the table or about to be removed from it by that sweep.
OneSender ==
  \A r \in Records \ disturbed :
    /\ \A s, t \in Sweepers : r \in batch[s] /\ r \in batch[t] => s = t
    /\ copies[r] > 0 =>
         /\ copies[r] = 1
         /\ \A s \in Sweepers : r \in batch[s] => pc[s] = "mark" /\ r = Current(s)
         /\ InTable(r) => \E s \in Sweepers : r \in batch[s]

OutboxInv ==
  /\ TypeOK /\ Counted /\ FromCommitted /\ Marking /\ Behind /\ OneSender
  /\ NothingLost /\ NothingInvented

-----------------------------------------------------------------------------
(* Lemmas *)

\* A finite set of numbers has a least element, and Min is one: the least of the
\* sets of its elements up to one of them is a singleton.
LEMMA LeastNumber ==
  ASSUME NEW S \in SUBSET Nat, IsFiniteSet(S), S # {}
  PROVE  Min(S) \in S /\ \A y \in S : Min(S) <= y
<1> DEFINE UpTo(x) == {y \in S : y <= x}
           Parts == {UpTo(x) : x \in S}
<1>1. Parts \subseteq SUBSET S /\ Parts # {}
  OBVIOUS
<1>2. PICK p \in Parts : \A q \in Parts : ~(<<q, p>> \in StrictSubsetOrdering(S))
  <2> HIDE DEF Parts
  <2>1. IsWellFoundedOn(StrictSubsetOrdering(S), SUBSET S)
    BY FS_StrictSubsetOrderingWellFounded, FS_FiniteSubsetsOfFinite
  <2> QED
    BY <1>1, <2>1, WFMin
<1>3. PICK x \in S : p = UpTo(x)
  OBVIOUS
<1>4. \A y \in S : x <= y
  <2> SUFFICES ASSUME NEW y \in S, ~(x <= y) PROVE FALSE
    OBVIOUS
  <2>1. x \in Nat /\ y \in Nat /\ y <= x /\ x <= x
    OBVIOUS
  <2>2. x \in UpTo(x) /\ x \notin UpTo(y)
    BY <2>1
  <2>3. UpTo(y) \subseteq UpTo(x)
    <3> SUFFICES ASSUME NEW z \in S, z <= y PROVE z <= x
      OBVIOUS
    <3>1. z \in Nat
      OBVIOUS
    <3> QED
      BY <2>1, <3>1
  <2>4. <<UpTo(y), p>> \in StrictSubsetOrdering(S)
    BY <2>2, <2>3, <1>3 DEF StrictSubsetOrdering
  <2> QED
    BY <2>4, <1>2
<1> QED
  BY <1>4 DEF Min

\* A sweep that is under way is at the oldest record it has left.
LEMMA CurrentInBatch ==
  ASSUME TypeOK, NEW s \in Sweepers, Busy(s)
  PROVE  /\ Current(s) \in batch[s] /\ Current(s) \in Records
         /\ \A r \in batch[s] : Current(s) <= r
<1>1. batch[s] \in SUBSET Nat /\ batch[s] # {} /\ batch[s] \subseteq Records
  BY OutboxAssumption DEF TypeOK
<1>2. IsFiniteSet(batch[s])
  BY <1>1, OutboxAssumption, FS_Subset
<1> QED
  BY <1>1, <1>2, LeastNumber DEF Current

\* There are finitely many sweepers.
LEMMA SomeSweepers ==
  ASSUME NEW R \in SUBSET Sweepers
  PROVE  /\ IsFiniteSet(R)
         /\ Cardinality(R) \in Nat /\ Cardinality(Sweepers) \in Nat
         /\ Cardinality(R) <= Cardinality(Sweepers)
BY OutboxAssumption, FS_Subset, FS_CardinalityType

\* What a step may do to a record's attempts: leave them, reset them, or count one
\* for a sweep that lets go of the record.
LEMMA CountStep ==
  ASSUME TypeOK, Counted, NEW r \in Records, rows'[r] \in Int,
         \/ rows'[r] <= rows[r] /\ Readers(r)' \subseteq Readers(r)
         \/ rows'[r] < MaxAttempts
         \/ /\ rows'[r] = rows[r] + 1
            /\ \E s \in Readers(r) : Readers(r)' \subseteq Readers(r) \ {s}
  PROVE  rows'[r] + Cardinality(Readers(r)') <= MaxAttempts + Cardinality(Sweepers) - 1
<1> DEFINE n == Cardinality(Readers(r))
           m == Cardinality(Readers(r)')
           N == Cardinality(Sweepers)
<1>1. /\ IsFiniteSet(Readers(r)) /\ IsFiniteSet(Readers(r)')
      /\ n \in Nat /\ m \in Nat /\ N \in Nat /\ m <= N
  <2>1. Readers(r) \in SUBSET Sweepers /\ Readers(r)' \in SUBSET Sweepers
    BY DEF Readers
  <2> QED
    BY <2>1, SomeSweepers
<1>2. rows[r] \in Int /\ MaxAttempts \in Int /\ rows[r] + n <= MaxAttempts + N - 1
  BY <1>1, OutboxAssumption DEF TypeOK, Absent, Counted
<1> SUFFICES rows'[r] + m <= MaxAttempts + N - 1
  OBVIOUS
<1>3. CASE rows'[r] <= rows[r] /\ Readers(r)' \subseteq Readers(r)
  <2>1. m <= n
    BY <1>1, <1>3, FS_Subset
  <2> HIDE DEF n, m, N
  <2> QED
    BY <1>1, <1>2, <1>3, <2>1
<1>4. CASE rows'[r] < MaxAttempts
  <2> HIDE DEF n, m, N
  <2> QED
    BY <1>1, <1>2, <1>4
<1>5. ASSUME rows'[r] = rows[r] + 1,
             NEW s \in Readers(r), Readers(r)' \subseteq Readers(r) \ {s}
      PROVE  rows'[r] + m <= MaxAttempts + N - 1
  <2>1. IsFiniteSet(Readers(r) \ {s}) /\ Cardinality(Readers(r) \ {s}) = n - 1
    BY <1>1, FS_RemoveElement
  <2>2. m <= n - 1
    BY <1>5, <2>1, FS_Subset
  <2> HIDE DEF n, m, N
  <2> QED
    BY <1>1, <1>2, <1>5, <2>2
<1> QED
  BY <1>3, <1>4, <1>5

-----------------------------------------------------------------------------
(* Types *)

\* Initially nothing is in the table and nobody sweeps.
LEMMA OutboxInit == Init => OutboxInv
<1> SUFFICES ASSUME Init PROVE OutboxInv
  OBVIOUS
<1>1. Cardinality(Sweepers) \in Nat /\ MaxAttempts \in Nat \ {0}
      /\ MaxFaults \in Nat /\ MaxStarts \in Nat
  BY SomeSweepers, OutboxAssumption
<1>2. \A r \in Records : Readers(r) = {}
  BY DEF Init, Readers
<1>3. Counted
  BY <1>1, <1>2, FS_EmptySet DEF Counted, Init, Absent
<1>4. TypeOK
  BY <1>1 DEF Init, TypeOK, Busy, Absent
<1> QED
  BY <1>3, <1>4 DEF Init, OutboxInv, FromCommitted, Marking, Behind, OneSender,
     NothingLost, NothingInvented, InTable, Absent

\* The end of a sweep, or of its work on one record, is well formed.
LEMMA GoesOnTyped ==
  ASSUME TypeOK, NEW s \in Sweepers, Busy(s), GoesOn(s) \/ Ends(s)
  PROVE  /\ pc' \in [Sweepers -> {"idle", "publish", "mark", "fail"}]
         /\ pc'[s] \in {"idle", "publish"}
         /\ batch' \in [Sweepers -> SUBSET Records]
         /\ read' \in [Sweepers -> SUBSET Records]
         /\ \A t \in Sweepers :
              batch'[t] \subseteq read'[t] /\ (pc'[t] # "idle" <=> batch'[t] # {})
         /\ batch'[s] \subseteq batch[s] \ {Current(s)}
         /\ \A t \in Sweepers \ {s} :
              batch'[t] = batch[t] /\ read'[t] = read[t] /\ pc'[t] = pc[t]
         /\ read'[s] # {} => /\ read'[s] = read[s]
                             /\ batch'[s] = batch[s] \ {Current(s)}
<1>1. CASE Ends(s)
  BY <1>1 DEF TypeOK, Ends, Busy
<1>2. CASE GoesOn(s) /\ ~Ends(s)
  BY <1>2 DEF TypeOK, GoesOn, Busy
<1> QED
  BY <1>1, <1>2

\* Attempts stay in range when each record is counted as it should be.
LEMMA RowsInRange ==
  ASSUME TypeOK, Counted,
         rows' \in [Records -> Int], \A r \in Records : rows'[r] >= Absent,
         \A r \in Records :
           \/ rows'[r] <= rows[r] /\ Readers(r)' \subseteq Readers(r)
           \/ rows'[r] < MaxAttempts
           \/ /\ rows'[r] = rows[r] + 1
              /\ \E s \in Readers(r) : Readers(r)' \subseteq Readers(r) \ {s}
  PROVE  /\ rows' \in [Records -> Absent .. MaxAttempts + Cardinality(Sweepers) - 1]
         /\ Counted'
<1>1. Counted'
  BY CountStep DEF Counted
<1>2. ASSUME NEW r \in Records
      PROVE  rows'[r] \in Absent .. MaxAttempts + Cardinality(Sweepers) - 1
  <2>1. Readers(r)' \in SUBSET Sweepers
    BY DEF Readers
  <2>2. Cardinality(Readers(r)') \in Nat /\ Cardinality(Sweepers) \in Nat
    BY <2>1, SomeSweepers
  <2>3. rows'[r] + Cardinality(Readers(r)') <= MaxAttempts + Cardinality(Sweepers) - 1
    BY <1>1 DEF Counted
  <2>4. MaxAttempts \in Nat
    BY OutboxAssumption
  <2> QED
    BY <2>2, <2>3, <2>4 DEF Absent
<1> QED
  BY <1>1, <1>2

\* Every step keeps the types.  A record is counted past the limit only by sweeps
\* that had it in hand when it was retired.
LEMMA TypingStep ==
  ASSUME TypeOK, Counted, Next
  PROVE  TypeOK' /\ Counted'
<1>1. /\ rows \in [Records -> Int] /\ \A r \in Records : rows[r] >= Absent
      /\ MaxAttempts \in Nat \ {0} /\ Absent \in Int /\ Absent < 0
      /\ MaxFaults \in Nat /\ MaxStarts \in Nat
      /\ faults \in 0..MaxFaults /\ starts \in 0..MaxStarts
  <2>1. Cardinality(Sweepers) \in Nat
    BY SomeSweepers
  <2> QED
    BY <2>1, OutboxAssumption DEF TypeOK, Absent
<1>2. ASSUME UNCHANGED rows, \A s \in Sweepers : batch'[s] \subseteq batch[s]
      PROVE  rows' \in [Records -> Absent .. MaxAttempts + Cardinality(Sweepers) - 1]
             /\ Counted'
  <2>1. \A r \in Records : Readers(r)' \subseteq Readers(r)
    BY <1>2 DEF Readers
  <2> QED
    BY <1>1, <1>2, <2>1, RowsInRange
<1>3. ASSUME NEW r \in Records, UNCHANGED batch,
             rows' = [rows EXCEPT ![r] = IF InTable(r) THEN @ ELSE 0]
      PROVE  rows' \in [Records -> Absent .. MaxAttempts + Cardinality(Sweepers) - 1]
             /\ Counted'
  <2>1. \A q \in Records : Readers(q)' = Readers(q)
    BY <1>3 DEF Readers
  <2>2. \A q \in Records : rows'[q] <= rows[q] \/ rows'[q] < MaxAttempts
    BY <1>1, <1>3
  <2>3. rows' \in [Records -> Int] /\ \A q \in Records : rows'[q] >= Absent
    BY <1>1, <1>3
  <2> QED
    BY <2>1, <2>2, <2>3, RowsInRange
<1>4. ASSUME NEW r \in Records, Add(r) \/ Commit(r) \/ Rollback(r) \/ AddAgain(r)
      PROVE  TypeOK' /\ Counted'
  <2>1. UNCHANGED sweepVars /\ UNCHANGED <<phase, up, copies, starts>>
    BY <1>4 DEF Add, Commit, Rollback, AddAgain, Fault, boundVars
  <2>2. rows' \in [Records -> Absent .. MaxAttempts + Cardinality(Sweepers) - 1] /\ Counted'
    <3>1. CASE UNCHANGED rows
      BY <3>1, <2>1, <1>2 DEF sweepVars
    <3>2. CASE rows' = [rows EXCEPT ![r] = IF InTable(r) THEN @ ELSE 0]
      BY <3>2, <2>1, <1>3 DEF sweepVars
    <3> QED
      BY <3>1, <3>2, <1>4 DEF Add, Commit, Rollback, AddAgain
  <2>3. /\ tx' \in [Records -> {"none", "open", "committed", "rolled_back"}]
        /\ disturbed' \subseteq Records /\ faults' \in 0..MaxFaults
    BY <1>1, <1>4 DEF TypeOK, Add, Commit, Rollback, AddAgain, Fault, boundVars
  <2> QED
    BY <2>1, <2>2, <2>3 DEF TypeOK, sweepVars, Busy
<1>5. ASSUME NEW s \in Sweepers, Begin(s)
      PROVE  TypeOK' /\ Counted'
  <2>1. Oldest \subseteq Records /\ \A r \in Oldest : rows[r] < MaxAttempts
    BY <1>1 DEF Oldest, Waiting, Retired
  <2>2. \A r \in Records : r \in Oldest \/ Readers(r)' \subseteq Readers(r)
    BY <1>5 DEF Begin, Readers, TypeOK
  <2>3. rows' \in [Records -> Absent .. MaxAttempts + Cardinality(Sweepers) - 1] /\ Counted'
    BY <1>1, <1>5, <2>1, <2>2, RowsInRange DEF Begin
  <2> QED
    BY <1>5, <2>1, <2>3 DEF TypeOK, Begin, Busy, boundVars
<1>6. ASSUME NEW s \in Sweepers,
             Publishes(s) \/ PublishFails(s) \/ PublishUnsure(s)
      PROVE  TypeOK' /\ Counted'
  <2>1. Busy(s) /\ Current(s) \in Records
    BY <1>6, CurrentInBatch DEF Publishes, PublishFails, PublishUnsure, Busy
  <2>2. rows' \in [Records -> Absent .. MaxAttempts + Cardinality(Sweepers) - 1] /\ Counted'
    BY <1>2, <1>6 DEF Publishes, PublishFails, PublishUnsure, Published
  <2>3. /\ pc' \in [Sweepers -> {"idle", "publish", "mark", "fail"}]
        /\ \A t \in Sweepers : Busy(t)' <=> Busy(t)
    BY <1>6, <2>1 DEF TypeOK, Publishes, PublishFails, PublishUnsure, Published, Busy
  <2>4. copies' \in [Records -> 0..2]
    BY <1>6, <2>1 DEF TypeOK, Publishes, PublishFails, PublishUnsure, Taken
  <2>5. disturbed' \subseteq Records /\ faults' \in 0..MaxFaults /\ starts' = starts
    BY <1>1, <1>6, <2>1 DEF TypeOK, Publishes, PublishFails, PublishUnsure, Fault, boundVars
  <2> QED
    BY <1>6, <2>2, <2>3, <2>4, <2>5
    DEF TypeOK, Publishes, PublishFails, PublishUnsure, Published
<1>7. ASSUME NEW s \in Sweepers, CountFailure(s) \/ Mark(s) \/ StoreRaises(s)
      PROVE  TypeOK' /\ Counted'
  <2>1. /\ Busy(s) /\ Current(s) \in Records /\ Current(s) \in batch[s]
        /\ GoesOn(s) \/ Ends(s)
    BY <1>7, CurrentInBatch DEF CountFailure, Mark, StoreRaises, Busy
  <2>2. /\ \A t \in Sweepers : batch'[t] \subseteq batch[t]
        /\ Current(s) \notin batch'[s]
    BY <2>1, GoesOnTyped
  <2>3. \A r \in Records : Readers(r)' \subseteq Readers(r)
    BY <2>2 DEF Readers
  <2> PICK c \in Records : c = Current(s)
    BY <2>1
  <2>4. s \in Readers(c) /\ s \notin Readers(c)'
    BY <2>1, <2>2 DEF Readers
  <2>5. rows' \in [Records -> Absent .. MaxAttempts + Cardinality(Sweepers) - 1] /\ Counted'
    <3>1. CASE CountFailure(s)
      <4>1. \A r \in Records \ {c} : rows'[r] = rows[r]
        BY <1>1, <3>1 DEF CountFailure
      <4>2. rows'[c] = rows[c] \/ rows'[c] = rows[c] + 1
        BY <1>1, <2>1, <3>1 DEF CountFailure, InTable
      <4>3. rows' \in [Records -> Int] /\ \A r \in Records : rows'[r] >= Absent
        BY <1>1, <2>1, <3>1 DEF CountFailure
      <4>4. Readers(c)' \subseteq Readers(c) \ {s}
        BY <2>3, <2>4
      <4>5. \A r \in Records : rows'[r] <= rows[r] \/ (rows'[r] = rows[r] + 1 /\ r = c)
        BY <1>1, <4>1, <4>2
      <4> QED
        BY <2>3, <2>4, <4>3, <4>4, <4>5, RowsInRange
    <3>2. CASE Mark(s)
      <4>1. rows' \in [Records -> Int] /\ \A r \in Records : rows'[r] >= Absent
        BY <1>1, <2>1, <3>2 DEF Mark
      <4>2. \A r \in Records : rows'[r] <= rows[r]
        BY <1>1, <2>1, <3>2 DEF Mark
      <4> QED
        BY <2>3, <4>1, <4>2, RowsInRange
    <3>3. CASE StoreRaises(s)
      BY <1>2, <2>2, <3>3 DEF StoreRaises
    <3> QED
      BY <1>7, <3>1, <3>2, <3>3
  <2>6. disturbed' \subseteq Records /\ faults' \in 0..MaxFaults /\ starts' = starts
    BY <1>1, <1>7, <2>1 DEF TypeOK, CountFailure, Mark, StoreRaises, Fault, boundVars
  <2>7. UNCHANGED <<tx, phase, up, copies>>
    BY <1>7 DEF CountFailure, Mark, StoreRaises
  <2> QED
    BY <2>1, <2>5, <2>6, <2>7, GoesOnTyped DEF TypeOK, Busy
<1>8. CASE Start \/ Close \/ Stopped \/ BrokerLost \/ BrokerBack
  <2>1. UNCHANGED <<tx, rows, sweepVars, copies, disturbed>>
    BY <1>8 DEF Start, Close, Stopped, BrokerLost, BrokerBack
  <2>2. rows' \in [Records -> Absent .. MaxAttempts + Cardinality(Sweepers) - 1] /\ Counted'
    BY <1>2, <2>1 DEF sweepVars
  <2>3. faults' \in 0..MaxFaults /\ starts' \in 0..MaxStarts
    BY <1>1, <1>8 DEF Start, Close, Stopped, BrokerLost, BrokerBack, Fault, boundVars
  <2>4. /\ phase' \in {"off", "on", "stopping"} /\ up' \in BOOLEAN
    BY <1>8 DEF TypeOK, Start, Close, Stopped, BrokerLost, BrokerBack
  <2> QED
    BY <2>1, <2>2, <2>3, <2>4 DEF TypeOK, sweepVars, Busy
<1>9. CASE Crash
  <2>1. \A s \in Sweepers : pc[s] = "mark" => Current(s) \in Records
    BY CurrentInBatch DEF Busy
  <2>2. disturbed' \subseteq Records
    BY <1>9, <2>1 DEF Crash, TypeOK
  <2>3. \A s \in Sweepers : batch'[s] \subseteq batch[s]
    BY <1>9 DEF Crash
  <2>4. rows' \in [Records -> Absent .. MaxAttempts + Cardinality(Sweepers) - 1] /\ Counted'
    BY <1>2, <1>9, <2>3 DEF Crash
  <2> QED
    BY <1>1, <1>9, <2>2, <2>4 DEF TypeOK, Crash, Fault, Busy
<1> QED
  BY <1>4, <1>5, <1>6, <1>7, <1>8, <1>9 DEF Next, Sweep

-----------------------------------------------------------------------------
(* What a step changes *)

\* Copies are made of the record a sweep is at, while it publishes.
LEMMA CopyStep ==
  ASSUME TypeOK, Next, NEW r \in Records, copies'[r] # copies[r]
  PROVE  \E s \in Sweepers :
           /\ pc[s] = "publish" /\ r = Current(s) /\ r \in batch[s]
           /\ Publishes(s) \/ PublishUnsure(s)
           /\ UNCHANGED <<tx, rows, batch, read>>
           /\ copies' = [copies EXCEPT ![r] = IF @ = 2 THEN 2 ELSE @ + 1]
<1>1. PICK s \in Sweepers : Publishes(s) \/ PublishUnsure(s)
  BY DEF Next, Sweep, Add, Commit, Rollback, AddAgain, Begin, PublishFails, CountFailure,
     Mark, StoreRaises, Start, Close, Stopped, BrokerLost, BrokerBack, Crash
<1>2. pc[s] = "publish" /\ Current(s) \in batch[s]
  BY <1>1, CurrentInBatch DEF Publishes, PublishUnsure, Busy
<1>3. copies' = [copies EXCEPT ![Current(s)] = IF @ = 2 THEN 2 ELSE @ + 1]
  BY <1>1 DEF Publishes, PublishUnsure, Taken
<1>4. r = Current(s)
  BY <1>3 DEF TypeOK
<1> QED
  BY <1>1, <1>2, <1>3, <1>4 DEF Publishes, PublishUnsure, Published

\* The broker takes no copy back.
LEMMA CopiesGrow ==
  ASSUME TypeOK, Next, NEW r \in Records
  PROVE  copies[r] > 0 => copies'[r] > 0
<1>1. CASE copies'[r] # copies[r]
  <2>1. copies' = [copies EXCEPT ![r] = IF @ = 2 THEN 2 ELSE @ + 1]
    BY <1>1, CopyStep
  <2> QED
    BY <2>1 DEF TypeOK
<1> QED
  BY <1>1

\* What was committed stays committed.
LEMMA CommittedStays ==
  ASSUME TypeOK, Next, NEW r \in Records, tx[r] = "committed"
  PROVE  tx'[r] = "committed"
BY DEF Next, Sweep, Add, Commit, Rollback, AddAgain, Begin, Publishes, PublishFails,
   PublishUnsure, Published, CountFailure, Mark, StoreRaises, Start, Close, Stopped,
   BrokerLost, BrokerBack, Crash, TypeOK

\* A record comes to the table by its transaction, which commits or has committed,
\* and leaves it when a sweep marks it.
LEMMA TableStep ==
  ASSUME TypeOK, Next, NEW r \in Records
  PROVE  /\ InTable(r)' /\ ~InTable(r) => Commit(r) \/ AddAgain(r)
         /\ ~InTable(r)' /\ InTable(r) =>
              \E s \in Sweepers : Mark(s) /\ pc[s] = "mark" /\ r = Current(s)
<1>1. rows \in [Records -> Int] /\ \A q \in Records : rows[q] >= Absent
  BY SomeSweepers, OutboxAssumption DEF TypeOK, Absent
<1>2. CASE UNCHANGED rows
  BY <1>2 DEF InTable
<1>3. ASSUME NEW q \in Records, Commit(q) \/ AddAgain(q)
      PROVE  rows' = [rows EXCEPT ![q] = IF InTable(q) THEN @ ELSE 0]
  BY <1>3 DEF Commit, AddAgain
<1>4. ASSUME NEW s \in Sweepers, CountFailure(s)
      PROVE  InTable(r)' <=> InTable(r)
  BY <1>1, <1>4 DEF CountFailure, InTable, Absent
<1>5. ASSUME NEW s \in Sweepers, Mark(s)
      PROVE  /\ InTable(r)' => InTable(r)
             /\ ~InTable(r)' /\ InTable(r) => r = Current(s)
  BY <1>1, <1>5 DEF Mark, InTable
<1>6. \/ UNCHANGED rows
      \/ \E q \in Records : Commit(q) \/ AddAgain(q)
      \/ \E s \in Sweepers : CountFailure(s) \/ Mark(s)
  BY DEF Next, Sweep, Add, Rollback, Begin, Publishes, PublishFails, PublishUnsure,
     Published, StoreRaises, Start, Close, Stopped, BrokerLost, BrokerBack, Crash
<1>7. ASSUME NEW q \in Records, Commit(q) \/ AddAgain(q)
      PROVE  /\ InTable(r) => InTable(r)'
             /\ InTable(r)' /\ ~InTable(r) => r = q
  BY <1>1, <1>3, <1>7 DEF InTable, Absent
<1> QED
  BY <1>2, <1>4, <1>5, <1>6, <1>7 DEF Mark

\* A sweep's batch changes when it begins, ends, or has marked a record.
LEMMA BatchStep ==
  ASSUME TypeOK, Next, NEW s \in Sweepers
  PROVE  \/ batch'[s] = batch[s] /\ read'[s] = read[s]
         \/ Begin(s)
         \/ batch'[s] = {} /\ read'[s] = {}
         \/ /\ Mark(s) /\ pc[s] = "mark" /\ pc'[s] = "publish" /\ read'[s] = read[s]
            /\ batch'[s] = batch[s] \ {Current(s)}
<1>1. CASE UNCHANGED <<batch, read>>
  BY <1>1
<1>2. ASSUME NEW t \in Sweepers, Begin(t), t # s
      PROVE  batch'[s] = batch[s] /\ read'[s] = read[s]
  BY <1>2 DEF Begin, TypeOK
<1>3. ASSUME NEW t \in Sweepers, CountFailure(t) \/ StoreRaises(t)
      PROVE  \/ batch'[s] = batch[s] /\ read'[s] = read[s]
             \/ batch'[s] = {} /\ read'[s] = {}
  BY <1>3 DEF CountFailure, StoreRaises, Ends, TypeOK
<1>4. ASSUME NEW t \in Sweepers, Mark(t), t # s
      PROVE  batch'[s] = batch[s] /\ read'[s] = read[s]
  BY <1>4 DEF Mark, GoesOn, Ends, TypeOK
<1>5. ASSUME Mark(s)
      PROVE  \/ batch'[s] = {} /\ read'[s] = {}
             \/ /\ pc[s] = "mark" /\ pc'[s] = "publish" /\ read'[s] = read[s]
                /\ batch'[s] = batch[s] \ {Current(s)}
  BY <1>5 DEF Mark, GoesOn, Ends, TypeOK
<1>6. CASE Crash
  BY <1>6 DEF Crash
<1>7. \/ UNCHANGED <<batch, read>> \/ Crash
      \/ \E t \in Sweepers : Begin(t) \/ CountFailure(t) \/ StoreRaises(t) \/ Mark(t)
  BY DEF Next, Sweep, Add, Commit, Rollback, AddAgain, Publishes, PublishFails,
     PublishUnsure, Published, Start, Close, Stopped, BrokerLost, BrokerBack, sweepVars
<1> QED
  BY <1>1, <1>2, <1>3, <1>4, <1>5, <1>6, <1>7

\* A sweep comes to mark a record by a publish that was confirmed.
LEMMA ComesToMark ==
  ASSUME TypeOK, Next, NEW s \in Sweepers, pc'[s] = "mark"
  PROVE  /\ batch'[s] = batch[s] /\ Current(s)' = Current(s)
         /\ pc[s] = "mark" \/ Publishes(s)
<1>1. \/ UNCHANGED <<pc, batch>>
      \/ \E t \in Sweepers :
           \/ Begin(t) \/ Publishes(t) \/ PublishFails(t) \/ PublishUnsure(t)
           \/ CountFailure(t) \/ StoreRaises(t) \/ Mark(t)
  BY DEF Next, Sweep, Add, Commit, Rollback, AddAgain, Start, Close, Stopped,
     BrokerLost, BrokerBack, sweepVars, Crash
<1>2. ASSUME NEW t \in Sweepers, CountFailure(t) \/ StoreRaises(t) \/ Mark(t)
      PROVE  t # s /\ pc'[s] = pc[s] /\ batch'[s] = batch[s]
  <2>1. Busy(t) /\ (GoesOn(t) \/ Ends(t))
    BY <1>2 DEF CountFailure, StoreRaises, Mark, Busy
  <2> QED
    BY <2>1, GoesOnTyped
<1>3. ASSUME NEW t \in Sweepers, Begin(t)
      PROVE  t # s /\ pc'[s] = pc[s] /\ batch'[s] = batch[s]
  BY <1>3 DEF Begin, TypeOK
<1>4. ASSUME NEW t \in Sweepers, Publishes(t) \/ PublishFails(t) \/ PublishUnsure(t)
      PROVE  batch'[s] = batch[s] /\ (pc'[s] = pc[s] \/ (t = s /\ Publishes(s)))
  BY <1>4 DEF Publishes, PublishFails, PublishUnsure, Published, TypeOK
<1>5. batch'[s] = batch[s] /\ (pc[s] = "mark" \/ Publishes(s))
  BY <1>1, <1>2, <1>3, <1>4
<1> QED
  BY <1>5 DEF Current

\* A sweep that is to mark a record stays there, marks it, or is cut short, which
\* excuses a second copy.
LEMMA LeavesMark ==
  ASSUME TypeOK, Next, NEW s \in Sweepers, pc[s] = "mark"
  PROVE  \/ pc'[s] = "mark" /\ batch'[s] = batch[s] /\ Current(s)' = Current(s)
         \/ Mark(s)
         \/ Current(s) \in disturbed'
<1>1. \/ UNCHANGED <<pc, batch>>
      \/ Crash
      \/ \E t \in Sweepers :
           \/ Begin(t) \/ Publishes(t) \/ PublishFails(t) \/ PublishUnsure(t)
           \/ CountFailure(t) \/ StoreRaises(t) \/ Mark(t)
  BY DEF Next, Sweep, Add, Commit, Rollback, AddAgain, Start, Close, Stopped,
     BrokerLost, BrokerBack, sweepVars
<1>2. ASSUME NEW t \in Sweepers, CountFailure(t) \/ StoreRaises(t) \/ Mark(t), t # s
      PROVE  pc'[s] = pc[s] /\ batch'[s] = batch[s]
  <2>1. Busy(t) /\ (GoesOn(t) \/ Ends(t))
    BY <1>2 DEF CountFailure, StoreRaises, Mark, Busy
  <2> QED
    BY <1>2, <2>1, GoesOnTyped
<1>3. ASSUME CountFailure(s) \/ StoreRaises(s) PROVE Current(s) \in disturbed'
  BY <1>3 DEF CountFailure, StoreRaises
<1>4. ASSUME NEW t \in Sweepers,
             Begin(t) \/ Publishes(t) \/ PublishFails(t) \/ PublishUnsure(t)
      PROVE  pc'[s] = pc[s] /\ batch'[s] = batch[s]
  BY <1>4 DEF Begin, Busy, Publishes, PublishFails, PublishUnsure, Published, TypeOK
<1>5. CASE Crash
  BY <1>5 DEF Crash
<1>6. \/ pc'[s] = pc[s] /\ batch'[s] = batch[s]
      \/ Mark(s) \/ Current(s) \in disturbed'
  BY <1>1, <1>2, <1>3, <1>4, <1>5
<1> QED
  BY <1>6 DEF Current

-----------------------------------------------------------------------------
(* The parts of the invariant *)

\* Only committed records come to the table; sweeps take them from there, and only
\* they publish.
LEMMA SourceStep ==
  ASSUME TypeOK, FromCommitted, NothingInvented, Next
  PROVE  FromCommitted' /\ NothingInvented'
<1>1. ASSUME NEW r \in Records, InTable(r)'
      PROVE  tx'[r] = "committed"
  <2>1. CASE InTable(r)
    BY <2>1, CommittedStays DEF FromCommitted
  <2>2. CASE Commit(r)
    BY <2>2 DEF Commit, TypeOK
  <2>3. CASE AddAgain(r)
    BY <2>3 DEF AddAgain
  <2> QED
    BY <1>1, <2>1, <2>2, <2>3, TableStep
<1>2. ASSUME NEW s \in Sweepers, NEW r \in batch'[s]
      PROVE  tx'[r] = "committed"
  <2>1. CASE r \in batch[s]
    BY <2>1, CommittedStays DEF FromCommitted, TypeOK
  <2>2. CASE Begin(s)
    <3>1. r \in Records /\ InTable(r)
      BY <2>2 DEF Begin, Oldest, Waiting, TypeOK
    <3> QED
      BY <3>1, CommittedStays DEF FromCommitted
  <2> QED
    BY <2>1, <2>2, BatchStep
<1>3. ASSUME NEW r \in Records, copies'[r] > 0
      PROVE  tx'[r] = "committed"
  <2>1. CASE copies[r] > 0
    BY <2>1, CommittedStays DEF NothingInvented
  <2>2. CASE copies'[r] # copies[r]
    <3>1. PICK s \in Sweepers : r \in batch[s]
      BY <2>2, CopyStep
    <3> QED
      BY <3>1, CommittedStays DEF FromCommitted
  <2> QED
    BY <1>3, <2>1, <2>2
<1> QED
  BY <1>1, <1>2, <1>3 DEF FromCommitted, NothingInvented

\* What a sweep leaves behind it, and what it is about to mark, the broker has.
LEMMA MarkingStep ==
  ASSUME TypeOK, Marking, Behind, Next
  PROVE  Marking' /\ Behind'
<1>1. ASSUME NEW s \in Sweepers, pc'[s] = "mark"
      PROVE  copies'[Current(s)'] > 0
  <2>1. Current(s)' = Current(s) /\ (pc[s] = "mark" \/ Publishes(s))
    BY <1>1, ComesToMark
  <2>2. CASE pc[s] = "mark"
    <3>1. copies[Current(s)] > 0 /\ Current(s) \in Records
      BY <2>2, CurrentInBatch DEF Marking, Busy
    <3> QED
      BY <2>1, <3>1, CopiesGrow
  <2>3. CASE Publishes(s)
    <3>1. Current(s) \in Records
      BY <2>3, CurrentInBatch DEF Publishes, Busy
    <3>2. copies'[Current(s)] > 0
      BY <2>3, <3>1 DEF Publishes, Taken, TypeOK
    <3> QED
      BY <2>1, <3>2
  <2> QED
    BY <2>1, <2>2, <2>3
<1>2. ASSUME NEW s \in Sweepers, NEW r \in read'[s] \ batch'[s]
      PROVE  copies'[r] > 0
  <2>1. CASE r \in read[s] \ batch[s]
    <3>1. r \in Records /\ copies[r] > 0
      BY <2>1 DEF TypeOK, Behind
    <3> QED
      BY <3>1, CopiesGrow
  <2>2. CASE pc[s] = "mark" /\ r = Current(s)
    <3>1. r \in Records /\ copies[r] > 0
      BY <2>2, CurrentInBatch DEF Marking, Busy
    <3> QED
      BY <3>1, CopiesGrow
  <2>3. ~Begin(s)
    BY <1>2 DEF Begin, TypeOK
  <2> QED
    BY <1>2, <2>1, <2>2, <2>3, BatchStep
<1> QED
  BY <1>1, <1>2 DEF Marking, Behind

\* A record leaves the table only once the broker has it.
LEMMA LossStep ==
  ASSUME TypeOK, Marking, NothingLost, Next
  PROVE  NothingLost'
<1> SUFFICES ASSUME NEW r \in Records, tx'[r] = "committed"
             PROVE  InTable(r)' \/ copies'[r] > 0
  BY DEF NothingLost
<1>1. CASE tx[r] = "committed" /\ copies[r] > 0
  BY <1>1, CopiesGrow
<1>2. CASE tx[r] = "committed" /\ InTable(r)
  <2>1. CASE ~InTable(r)'
    <3>1. copies[r] > 0
      BY <1>2, <2>1, TableStep DEF Marking
    <3> QED
      BY <3>1, CopiesGrow
  <2> QED
    BY <2>1
<1>3. CASE tx[r] # "committed"
  <2>1. Commit(r)
    BY <1>3 DEF Next, Sweep, Add, Commit, Rollback, AddAgain, Begin, Publishes,
       PublishFails, PublishUnsure, Published, CountFailure, Mark, StoreRaises, Start,
       Close, Stopped, BrokerLost, BrokerBack, Crash, TypeOK
  <2>2. rows' = [rows EXCEPT ![r] = IF InTable(r) THEN @ ELSE 0]
    BY <2>1 DEF Commit
  <2> QED
    BY <2>2 DEF TypeOK, InTable, Absent
<1> QED
  BY <1>1, <1>2, <1>3 DEF NothingLost

\* The list of excuses only grows.
LEMMA DisturbedGrows == ASSUME TypeOK, Next PROVE disturbed \subseteq disturbed'
BY DEF Next, Sweep, Add, Commit, Rollback, AddAgain, Begin, Publishes, PublishFails,
   PublishUnsure, CountFailure, Mark, StoreRaises, Start, Close, Stopped,
   BrokerLost, BrokerBack, Crash

\* A record that was taken, and that nothing happened to, is published by nobody.
LEMMA SenderStep ==
  ASSUME TypeOK, NothingInvented, OneSender, Next
  PROVE  OneSender'
<1> SUFFICES ASSUME NEW r \in Records, r \notin disturbed'
             PROVE  /\ \A s, t \in Sweepers : r \in batch'[s] /\ r \in batch'[t] => s = t
                    /\ copies'[r] > 0 =>
                         /\ copies'[r] = 1
                         /\ \A s \in Sweepers :
                              r \in batch'[s] => pc'[s] = "mark" /\ r = Current(s)'
                         /\ InTable(r)' => \E s \in Sweepers : r \in batch'[s]
  BY DEF OneSender
<1>1. r \notin disturbed
  BY DisturbedGrows
<1>2. \A s \in Sweepers : r \in batch'[s] => r \in batch[s] \/ (Begin(s) /\ r \in Oldest)
  <2> SUFFICES ASSUME NEW s \in Sweepers, r \in batch'[s], r \notin batch[s]
               PROVE  Begin(s) /\ r \in Oldest
    OBVIOUS
  <2>1. Begin(s)
    BY BatchStep
  <2> QED
    BY <2>1 DEF Begin, TypeOK
<1>3. ASSUME NEW s \in Sweepers, Begin(s), r \in Oldest, NEW t \in Sweepers, r \in batch[t]
      PROVE  FALSE
  <2>1. t # s
    BY <1>3 DEF Begin, TypeOK
  <2>2. r \in Oldest \cap UNION {batch[u] : u \in Sweepers \ {s}}
    BY <1>3, <2>1
  <2> QED
    BY <1>3, <2>2 DEF Begin
<1>4. ASSUME NEW s \in Sweepers, NEW t \in Sweepers, r \in batch'[s], r \in batch'[t]
      PROVE  s = t
  <2>1. CASE r \in batch[s] /\ r \in batch[t]
    BY <1>1, <2>1 DEF OneSender
  <2>2. ASSUME s # t, Begin(s), r \in Oldest PROVE FALSE
    BY <1>3, <1>4, <2>2 DEF Begin, TypeOK
  <2>3. ASSUME s # t, Begin(t), r \in Oldest PROVE FALSE
    BY <1>3, <1>4, <2>3 DEF Begin, TypeOK
  <2> QED
    BY <1>2, <1>4, <2>1, <2>2, <2>3
<1>5. ASSUME copies'[r] # copies[r]
      PROVE  /\ copies'[r] = 1
             /\ \A s \in Sweepers :
                  r \in batch'[s] => pc'[s] = "mark" /\ r = Current(s)'
             /\ \E s \in Sweepers : r \in batch'[s]
  <2>1. PICK s \in Sweepers :
           /\ pc[s] = "publish" /\ r = Current(s) /\ r \in batch[s]
           /\ Publishes(s) \/ PublishUnsure(s)
           /\ UNCHANGED <<tx, rows, batch, read>>
           /\ copies' = [copies EXCEPT ![r] = IF @ = 2 THEN 2 ELSE @ + 1]
    BY <1>5, CopyStep
  <2>2. Publishes(s)
    BY <2>1 DEF PublishUnsure
  <2>3. copies[r] = 0
    BY <1>1, <2>1 DEF OneSender, TypeOK
  <2>4. pc'[s] = "mark" /\ r = Current(s)'
    BY <2>1, <2>2 DEF Publishes, Published, Current, TypeOK
  <2>5. copies'[r] = 1
    BY <2>1, <2>3 DEF TypeOK
  <2> QED
    BY <1>4, <2>1, <2>4, <2>5
<1>6. ASSUME copies'[r] = copies[r], copies[r] > 0
      PROVE  /\ copies'[r] = 1
             /\ \A s \in Sweepers :
                  r \in batch'[s] => pc'[s] = "mark" /\ r = Current(s)'
             /\ InTable(r)' => \E s \in Sweepers : r \in batch'[s]
  <2>1. /\ copies[r] = 1
        /\ \A s \in Sweepers : r \in batch[s] => pc[s] = "mark" /\ r = Current(s)
        /\ InTable(r) => \E s \in Sweepers : r \in batch[s]
    BY <1>1, <1>6 DEF OneSender
  <2>2. ASSUME NEW s \in Sweepers, r \in batch[s], ~Mark(s)
        PROVE  pc'[s] = "mark" /\ r = Current(s)' /\ r \in batch'[s]
    BY <2>1, <2>2, LeavesMark
  <2>3. ASSUME NEW s \in Sweepers, r \in batch[s], Mark(s)
        PROVE  r \notin batch'[s] /\ ~InTable(r)'
    <3>1. Busy(s) /\ GoesOn(s) /\ r = Current(s)
      BY <2>1, <2>3 DEF Busy, Mark
    <3>2. batch'[s] \subseteq batch[s] \ {Current(s)}
      BY <3>1, GoesOnTyped
    <3>3. rows' = [rows EXCEPT ![r] = Absent]
      BY <2>3, <3>1 DEF Mark
    <3>4. rows'[r] = Absent
      BY <3>3 DEF TypeOK
    <3> QED
      BY <3>1, <3>2, <3>4 DEF InTable
  <2>4. ASSUME NEW s \in Sweepers, r \in batch'[s]
        PROVE  pc'[s] = "mark" /\ r = Current(s)'
    <3>1. ASSUME Begin(s), r \in Oldest PROVE FALSE
      <4>1. InTable(r)
        BY <3>1 DEF Oldest, Waiting
      <4> QED
        BY <1>3, <2>1, <3>1, <4>1
    <3>2. r \in batch[s]
      BY <1>2, <2>4, <3>1
    <3> QED
      BY <2>2, <2>3, <2>4, <3>2
  <2>5. ASSUME InTable(r)' PROVE \E s \in Sweepers : r \in batch'[s]
    <3>1. CASE InTable(r)
      BY <2>1, <2>2, <2>3, <2>5, <3>1
    <3>2. CASE Commit(r)
      BY <1>6, <3>2 DEF Commit, NothingInvented
    <3>3. CASE AddAgain(r)
      BY <3>3 DEF AddAgain
    <3> QED
      BY <2>5, <3>1, <3>2, <3>3, TableStep
  <2> QED
    BY <1>6, <2>1, <2>4, <2>5
<1> QED
  BY <1>4, <1>5, <1>6

-----------------------------------------------------------------------------
(* The theorems *)

\* A step that changes nothing keeps the invariant, and so does every other.
LEMMA OutboxStep == OutboxInv /\ [Next]_vars => OutboxInv'
<1>1. CASE UNCHANGED vars
  BY <1>1 DEF OutboxInv, TypeOK, Counted, Readers, FromCommitted, Marking, Behind, OneSender,
     NothingLost, NothingInvented, InTable, Busy, Current, vars, sweepVars, boundVars
<1>2. CASE Next
  BY <1>2, TypingStep, SourceStep, MarkingStep, LossStep, SenderStep DEF OutboxInv
<1> QED
  BY <1>1, <1>2

\* The inductive invariant holds in every state.
THEOREM OutboxInvariant == Spec => []OutboxInv
BY OutboxInit, OutboxStep, PTL DEF Spec

\* Every variable keeps its type; in particular a record's attempts pass the limit
\* by less than the number of sweepers (record_failure of several sweeps at once).
THEOREM OutboxTyping == Spec => []TypeOK
BY OutboxInvariant, PTL DEF OutboxInv

\* A committed record stays in the table until the broker has it.
THEOREM CommittedIsSent == Spec => []NothingLost
BY OutboxInvariant, PTL DEF OutboxInv

\* What goes out was committed.
THEOREM SentIsCommitted == Spec => []NothingInvented
BY OutboxInvariant, PTL DEF OutboxInv

\* A second copy has one of the excuses the documentation gives.
THEOREM SecondCopyExcused == Spec => []TwiceOnlyIfDisturbed
<1>1. OutboxInv => TwiceOnlyIfDisturbed
  BY DEF OutboxInv, OneSender, TwiceOnlyIfDisturbed
<1> QED
  BY <1>1, OutboxInvariant, PTL

\* Records first go out in the order in which they were written, as far as the
\* sweep that publishes them has read them.
THEOREM InWrittenOrder == Spec => WrittenOrder
<1> DEFINE Ordered ==
      \A q \in Records :
        copies[q] = 0 /\ copies'[q] = 1 =>
          \A r \in Waiting : r < q /\ copies[r] = 0 =>
            \E s \in Sweepers : q \in batch[s] /\ r \notin read[s]
<1>1. OutboxInv /\ [Next]_vars => [Ordered]_vars
  <2> SUFFICES ASSUME OutboxInv, Next PROVE Ordered
    OBVIOUS
  <2> SUFFICES ASSUME NEW q \in Records, copies[q] = 0, copies'[q] = 1,
                      NEW r \in Waiting, r < q, copies[r] = 0
               PROVE  \E s \in Sweepers : q \in batch[s] /\ r \notin read[s]
    OBVIOUS
  <2>1. PICK s \in Sweepers : pc[s] = "publish" /\ q = Current(s) /\ q \in batch[s]
    BY CopyStep DEF OutboxInv
  <2>2. \A p \in batch[s] : q <= p
    BY <2>1, CurrentInBatch DEF OutboxInv, Busy
  <2>3. r \in Nat /\ q \in Nat
    BY OutboxAssumption DEF Waiting
  <2>4. r \notin batch[s]
    BY <2>2, <2>3
  <2>5. r \notin read[s] \ batch[s]
    BY DEF OutboxInv, Behind
  <2> QED
    BY <2>1, <2>4, <2>5
<1> QED
  BY <1>1, OutboxInvariant, PTL DEF Spec, WrittenOrder

-----------------------------------------------------------------------------
(* The reader of a stream: its inductive invariant *)

\* The deliveries with the reader, in its queue or in a worker's hands.
Flying == {d \in Delivery : (\E i \in DOMAIN work : work[i] = d) \/ (\E w \in Workers : hand[w] = d)}
Sent(o) == {d \in Flying : d.off = o}
Carried(o) == \E d \in Flying : d.off = o
Known(o) == o \in seen \/ Carried(o)
Waits(o) == pending[o] > 0
Alone == Cardinality(crew) = 1

\* Earlier sent: on an earlier channel, or of the same an earlier entry.
Before(d, e) == d.gen < e.gen \/ (d.gen = e.gen /\ d.off < e.off)

\* A worker has a delivery unless it is idle, and only the crew works.
Hands ==
  /\ \A w \in Workers : /\ hand[w] = None <=> doing[w] = "idle"
                        /\ w \notin crew => doing[w] = "idle"
  /\ stage # "open" => work = <<>>

\* What is queued is in the order it was sent in, behind what the workers have.
InSendingOrder ==
  /\ \A i, j \in DOMAIN work : i < j => Before(work[i], work[j])
  /\ \A w \in Workers : hand[w] # None =>
       /\ \A i \in DOMAIN work : Before(hand[w], work[i])
       /\ \A v \in Workers \ {w} : hand[v] # hand[w]

\* The subscription is past all it has sent, what retention took, and where it began.
Channel ==
  /\ \A d \in Flying : d.gen < gen \/ (d.gen = gen /\ live /\ d.off < next)
  /\ head <= next /\ begun <= next
  /\ arg = FromFirst => begun <= head
  /\ settled # -1 => begun <= settled
  /\ \A o \in Offsets : Waits(o) \/ o \in seen => begun <= o

\* The position counts every delivery with the reader; and others only when one
\* escaped, or went back at close.
CountsSent ==
  \A o \in Offsets :
    /\ Cardinality(Sent(o)) <= pending[o]
    /\ stage = "open" /\ escaped = {} => Cardinality(Sent(o)) = pending[o]

\* The position is the oldest entry that waits, or the one after the newest settled.
Placed ==
  /\ \A o \in Offsets : Waits(o) => arg \in Offsets /\ Waits(arg) /\ arg <= o
  /\ (\A o \in Offsets : ~Waits(o)) =>
       IF settled = -1 THEN arg \in Nat => arg = begun ELSE arg = settled + 1

\* What a handler was given waits, or was settled; while the reader goes on it is
\* in somebody's hands or has an outcome.
Given ==
  /\ \A o \in seen : Waits(o) \/ o <= settled
  /\ done \cup passed \cup escaped \subseteq seen
  /\ \A w \in Workers : hand[w] # None => hand[w].off \in seen
  /\ stoppedAt = None <=> ~halted
  /\ halted => stoppedAt \in seen
  /\ ~halted => \A o \in seen : \/ o \in done \cup passed \cup escaped
                                \/ \E w \in Workers : hand[w] # None /\ hand[w].off = o

\* An entry below one that waits, or one settled, waits or has its outcome.
Dealt(o) == o \in done \cup passed \/ Missed(o)
NoGap ==
  ~halted => \A o \in Offsets :
    begun <= o /\ ~Waits(o) /\ (o <= settled \/ \E h \in Offsets : Waits(h) /\ o < h) => Dealt(o)

\* What the subscription is past though nothing from there on was sent is gone.
PastIsGone ==
  \A o \in Offsets :
    begun <= o /\ o < next /\ settled < o /\ (\A h \in Offsets : Waits(h) => h < o) => o < head

\* One worker is given the entries in order, but for those that are gone.
InTurn ==
  Alone /\ ~halted =>
    /\ \A d \in Flying : \A o \in Offsets : begun <= o /\ o < d.off =>
         o \in seen \/ o < head \/ \E e \in Flying : Before(e, d) /\ e.off = o
    /\ \A x \in seen : \A o \in Offsets : begun <= o /\ o < x => o \in seen \/ o < head
    /\ stage = "open" => \A o \in Offsets : begun <= o /\ o < next => Known(o) \/ o < head

\* Where one worker stopped, it has dealt with what came before, and rests.
StoppedInTurn ==
  Alone /\ halted =>
    /\ \A o \in Offsets : begun <= o /\ o < stoppedAt => Dealt(o) \/ o \in escaped
    /\ \A w \in Workers : doing[w] = "idle"

\* What a worker has been given when it is given d, and would be given again.
UpTo(e, d) == e = d \/ Before(e, d)
AgainAt(d) ==
  {o \in Offsets : /\ o \in seen \/ \E e \in Flying : UpTo(e, d) /\ e.off = o
                   /\ next <= o \/ \E e \in Flying : UpTo(d, e) /\ e.off <= o}
SentAgain == {o \in Offsets : Known(o) /\ next <= o}
FromPosition == {o \in Offsets : Known(o) /\ arg <= o /\ head <= o}
GivenAgain == {o \in seen : arg <= o \/ (stage = "open" /\ next <= o)}

\* These are no more than the prefetch, as the channel has one between the position
\* and the next.
WithinPrefetch ==
  Alone /\ escaped = {} =>
    /\ Cardinality(GivenAgain) <= Prefetch
    /\ stage = "open" /\ ~halted =>
         /\ \A d \in Flying : Cardinality(AgainAt(d)) <= Prefetch
         /\ Cardinality(SentAgain) <= Prefetch
         /\ Cardinality(FromPosition) <= Prefetch
         /\ live => \A o \in Offsets :
              begun <= o /\ arg <= o /\ head <= o /\ o < next => o \in out

StreamInv ==
  /\ StreamTypeOK /\ Hands /\ InSendingOrder /\ Channel /\ CountsSent /\ Placed /\ Given
  /\ NoGap /\ PastIsGone /\ InTurn /\ StoppedInTurn /\ WithinPrefetch

-----------------------------------------------------------------------------
(* Its steps, seen from the deliveries *)

\* What the types say of numbers.
LEMMA StreamTypes ==
  ASSUME StreamTypeOK
  PROVE  /\ Last \in Nat /\ MaxDrops \in Nat /\ MaxDiscards \in Nat /\ Prefetch \in Nat /\ Prefetch > 0
         /\ None \notin Delivery
         /\ arg \in Int /\ settled \in Int /\ next \in Nat /\ head \in Nat /\ begun \in Nat
         /\ log \in Nat /\ gen \in Nat
         /\ \A o \in Offsets : o \in Nat /\ o <= Last /\ pending[o] \in Nat
         /\ \A d \in Delivery : d.off \in Offsets /\ d.off \in Nat /\ d.gen \in Nat /\ d # None
         /\ work \in Seq(Delivery) /\ DOMAIN hand = Workers /\ DOMAIN doing = Workers
         /\ IsFiniteSet(Workers) /\ IsFiniteSet(crew) /\ crew \subseteq Workers
<1>1. IsFiniteSet(crew)
  BY StreamAssumption, FS_Subset DEF StreamTypeOK
<1> QED
  BY <1>1, StreamAssumption DEF StreamTypeOK, Offsets, Delivery, Starts, FromFirst, FromNext

\* A reader with one worker has that one.
LEMMA OneWorker ==
  ASSUME StreamTypeOK, Alone
  PROVE  \E v \in Workers : crew = {v}
<1>1. IsFiniteSet(crew) /\ crew \subseteq Workers
  BY StreamTypes
<1>2. \E v : crew = {v}
  BY <1>1, FS_Singleton DEF Alone
<1> QED
  BY <1>1, <1>2

\* What flies, by its places.
LEMMA FlyingIs ==
  ASSUME StreamTypeOK
  PROVE  /\ \A i \in DOMAIN work : work[i] \in Flying
         /\ \A w \in Workers : hand[w] # None => hand[w] \in Flying
         /\ \A d \in Flying : /\ d \in Delivery
                              /\ (\E i \in DOMAIN work : work[i] = d) \/ \E w \in Workers : hand[w] = d
BY DEF StreamTypeOK, Flying

\* Before is an order.
LEMMA BeforeIs ==
  ASSUME NEW d \in Delivery, NEW e \in Delivery
  PROVE  /\ ~Before(d, d) /\ (Before(d, e) => ~Before(e, d) /\ d # e)
         /\ \A f \in Delivery : Before(d, e) /\ Before(e, f) => Before(d, f)
<1>1. \A x \in Delivery : x.off \in Int /\ x.gen \in Int
  BY StreamAssumption DEF Delivery, Offsets
<1> QED
  BY <1>1 DEF Before

\* The head of the queue, and what is behind it.
LEMMA HeadOfWork ==
  ASSUME StreamTypeOK, InSendingOrder, work # <<>>
  PROVE  /\ Head(work) \in Flying /\ Head(work) \in Delivery
         /\ \E i \in DOMAIN work : work[i] = Head(work)
         /\ \A i \in DOMAIN work : work[i] = Head(work) \/ \E j \in DOMAIN Tail(work) : Tail(work)[j] = work[i]
         /\ \A j \in DOMAIN Tail(work) :
              /\ j \in Nat /\ j + 1 \in DOMAIN work /\ Tail(work)[j] = work[j + 1]
              /\ Before(Head(work), Tail(work)[j])
         /\ Tail(work) \in Seq(Delivery)
<1>1. PICK s \in Seq(Delivery) : s = work
  BY StreamTypes
<1>2. PICK t : t = Tail(s)
  OBVIOUS
<1>3. PICK h : h = Head(s)
  OBVIOUS
<1>4. s # <<>>
  BY <1>1
<1>5. /\ t \in Seq(Delivery) /\ h \in Delivery /\ h = s[1] /\ 1 \in DOMAIN s
      /\ DOMAIN s = 1..Len(s) /\ Len(s) \in Nat /\ DOMAIN t = 1..Len(s) - 1
      /\ \A j \in DOMAIN t : t[j] = s[j + 1]
  <2>1. Len(s) \in Nat /\ Len(s) # 0 /\ DOMAIN s = 1..Len(s)
    BY <1>4, EmptySeq, LenProperties
  <2>2. t \in Seq(Delivery) /\ Len(t) = Len(s) - 1 /\ \A j \in 1..Len(t) : t[j] = s[j + 1]
    BY <1>2, <1>4, HeadTailProperties
  <2>3. h = s[1] /\ h \in Delivery
    BY <1>3, <1>4, HeadTailProperties
  <2> QED
    BY <2>1, <2>2, <2>3
<1>6. ASSUME NEW j \in DOMAIN t
      PROVE  j \in Nat /\ j + 1 \in DOMAIN s /\ t[j] = s[j + 1] /\ Before(h, t[j])
  <2>1. j \in Nat /\ j + 1 \in DOMAIN s /\ t[j] = s[j + 1] /\ 1 < j + 1
    BY <1>5
  <2> QED
    BY <1>1, <1>5, <2>1 DEF InSendingOrder
<1>7. ASSUME NEW i \in DOMAIN s PROVE s[i] = h \/ \E j \in DOMAIN t : t[j] = s[i]
  <2>1. CASE i = 1
    BY <1>5, <2>1
  <2>2. CASE i # 1
    <3>1. i - 1 \in DOMAIN t /\ (i - 1) + 1 = i
      BY <1>5, <2>2
    <3> QED
      BY <1>5, <3>1
  <2> QED
    BY <2>1, <2>2
<1>8. h \in Flying
  BY <1>1, <1>5, FlyingIs
<1> QED
  BY <1>1, <1>2, <1>3, <1>5, <1>6, <1>7, <1>8

\* The position after a delivery or a settlement.
LEMMA MovesTo ==
  ASSUME StreamTypeOK, NEW p \in [Offsets -> Int], NEW s \in Int, Move(p, s)
  PROVE  /\ \A o \in Offsets : p[o] > 0 => arg' \in Offsets /\ p[arg'] > 0 /\ arg' <= o
         /\ (\A o \in Offsets : ~(p[o] > 0)) => arg' = s + 1
<1>1. PICK S : S = Held(p)
  OBVIOUS
<1>2. S \in SUBSET Nat /\ IsFiniteSet(S) /\ \A o \in Offsets : o \in S <=> p[o] > 0
  <2>1. IsFiniteSet(Offsets) /\ S \subseteq Offsets
    BY <1>1, StreamTypes, FS_Interval DEF Offsets, Held
  <2> QED
    BY <1>1, <2>1, StreamTypes, FS_Subset DEF Held
<1>3. S # {} => arg' \in S /\ \A y \in S : arg' <= y
  <2> SUFFICES ASSUME S # {} PROVE arg' \in S /\ \A y \in S : arg' <= y
    OBVIOUS
  <2>1. Min(S) \in S /\ \A y \in S : Min(S) <= y
    BY <1>2, LeastNumber
  <2>2. arg' = Min(S)
    BY <1>1 DEF Move
  <2> QED
    BY <2>1, <2>2
<1>4. S = {} => arg' = s + 1
  BY <1>1 DEF Move
<1>5. \A o \in S : o \in Offsets
  BY <1>1 DEF Held
<1> QED
  BY <1>2, <1>3, <1>4, <1>5

\* The first of what flies.
First(d) == \A e \in Flying : UpTo(d, e)

\* A step that leaves the deliveries where they are.
Rests ==
  /\ UNCHANGED <<crew, position, work, hand, head, next, begun, seen, done, passed, escaped, stoppedAt, halted>>
  /\ stage' = stage \/ (stage # "open" /\ stage' = "closed")
  /\ \/ gen' = gen /\ live' = live /\ out' = out
     \/ gen' = gen + 1 /\ live' = FALSE

\* One in which the subscription sends d.
Sends(d) ==
  /\ d = [off |-> next, gen |-> gen] /\ d \in Delivery
  /\ live /\ stage = "open" /\ next < log /\ Cardinality(out) < Prefetch
  /\ Delivered(next) /\ next' = next + 1 /\ out' = out \cup {next}
  /\ UNCHANGED <<crew, log, head, live, gen, stage, halted, begun, seen, done, passed, escaped, stoppedAt>>
  /\ Flying' = Flying \cup {d} /\ d \notin Flying /\ \A e \in Flying : Before(e, d)

\* One in which a worker begins to handle d.
Picks(d) ==
  /\ d \in Flying /\ ~halted /\ stage = "open"
  /\ seen' = seen \cup {d.off} /\ Flying' = Flying
  /\ UNCHANGED <<crew, position, log, head, live, gen, next, out, stage, halted, begun, done, passed, escaped, stoppedAt>>
  /\ Alone => First(d)

\* One in which d is settled.
LetsGo(d) ==
  /\ d \in Flying /\ Settle(d) /\ Flying' = Flying \ {d}
  /\ UNCHANGED <<crew, log, head, live, gen, next, stage, begun, seen, escaped>>
  /\ done \subseteq done' /\ passed \subseteq passed' /\ (halted => halted')
  /\ ~halted' => d.off \in done' \cup passed'
  /\ Alone => First(d)

\* One in which d is no more, and nobody is told.
Loses(d) ==
  /\ d \in Flying /\ Flying' = Flying \ {d}
  /\ escaped' = escaped \cup {d.off}
  /\ UNCHANGED <<crew, position, log, head, live, gen, next, out, stage, halted, begun, seen, done, passed, stoppedAt>>

\* One in which the queue goes back.
GoesBack ==
  /\ stage = "open" /\ stage' = "closing"
  /\ Flying' \subseteq Flying /\ (Alone => \A d \in Flying' : First(d))
  /\ UNCHANGED <<crew, position, log, head, live, gen, next, out, halted, begun, seen, done, passed, escaped, stoppedAt>>

\* A delivery that leaves its worker leaves the others as they are.
LEMMA HandEmpties ==
  ASSUME StreamTypeOK, InSendingOrder, Hands, NEW w \in Workers, doing[w] # "idle", Frees(w), work' = work
  PROVE  /\ hand[w] \in Flying /\ Flying' = Flying \ {hand[w]}
         /\ InSendingOrder'
         /\ \A v \in Workers : hand'[v] = None <=> doing'[v] = "idle"
         /\ \A v \in Workers : doing[v] = "idle" => doing'[v] = "idle"
         /\ \A v \in Workers : hand'[v] # None => hand'[v] = hand[v] /\ v # w
         /\ \A v \in Workers \ {w} : hand'[v] = hand[v]
         /\ doing'[w] = "idle"
<1>0. /\ DOMAIN hand = Workers /\ DOMAIN doing = Workers /\ None \notin Delivery
      /\ hand[w] # None /\ hand[w] \in Flying
  BY StreamTypes, FlyingIs DEF Hands
<1>1. /\ hand'[w] = None /\ doing'[w] = "idle"
      /\ \A v \in Workers \ {w} : hand'[v] = hand[v] /\ doing'[v] = doing[v]
  BY <1>0 DEF Frees
<1>2. Flying' = Flying \ {hand[w]}
  <2>1. \A i \in DOMAIN work : work[i] # hand[w]
    BY <1>0, StreamTypes, FlyingIs, BeforeIs DEF InSendingOrder
  <2>2. \A v \in Workers \ {w} : hand[v] # hand[w]
    BY <1>0 DEF InSendingOrder
  <2> QED
    BY <1>0, <1>1, <2>1, <2>2 DEF Flying
<1>3. InSendingOrder'
  BY <1>1 DEF InSendingOrder
<1> QED
  BY <1>0, <1>1, <1>2, <1>3 DEF Hands

\* With one worker, what it has is the first.
LEMMA HandIsFirst ==
  ASSUME StreamTypeOK, InSendingOrder, Hands, NEW w \in Workers, hand[w] # None, Alone
  PROVE  First(hand[w])
<1>1. PICK v \in Workers : crew = {v}
  BY OneWorker
<1>2. w = v /\ \A u \in Workers : hand[u] # None => u = w
  BY <1>1 DEF Hands
<1>3. ASSUME NEW e \in Flying PROVE hand[w] = e \/ Before(hand[w], e)
  <2>1. e # None /\ ((\E i \in DOMAIN work : work[i] = e) \/ \E u \in Workers : hand[u] = e)
    BY FlyingIs, StreamTypes
  <2> QED
    BY <1>2, <2>1 DEF InSendingOrder
<1> QED
  BY <1>3 DEF First, UpTo

\* A worker takes up the first of the queue.
LEMMA TakesUp ==
  ASSUME StreamTypeOK, InSendingOrder, Hands, NEW w \in Workers, Take(w), ~halted
  PROVE  Picks(Head(work)) /\ Hands' /\ InSendingOrder' /\ hand'[w] = Head(work)
         /\ \A v \in Workers \ {w} : hand'[v] = hand[v]
<1>1. PICK h : h = Head(work)
  OBVIOUS
<1>2. PICK t : t = Tail(work)
  OBVIOUS
<1>3. /\ w \in crew /\ doing[w] = "idle" /\ work # <<>> /\ work' = t
      /\ hand' = [hand EXCEPT ![w] = h] /\ doing' = [doing EXCEPT ![w] = "handling"]
      /\ seen' = seen \cup {h.off}
      /\ UNCHANGED <<crew, position, log, head, live, gen, next, out, stage, halted, begun, done, passed, escaped, stoppedAt>>
  BY <1>1, <1>2 DEF Take, setup
<1>4. /\ h \in Flying /\ h \in Delivery
      /\ \E i \in DOMAIN work : work[i] = h
      /\ \A i \in DOMAIN work : work[i] = h \/ \E j \in DOMAIN t : t[j] = work[i]
      /\ \A j \in DOMAIN t : j \in Nat /\ j + 1 \in DOMAIN work /\ t[j] = work[j + 1] /\ Before(h, t[j])
  BY <1>1, <1>2, <1>3, HeadOfWork
<1>5. /\ DOMAIN hand = Workers /\ DOMAIN doing = Workers /\ None \notin Delivery /\ hand[w] = None
  BY <1>3, StreamTypes DEF Hands
<1>6. /\ hand'[w] = h /\ doing'[w] = "handling"
      /\ \A v \in Workers \ {w} : hand'[v] = hand[v] /\ doing'[v] = doing[v]
  BY <1>3, <1>5
<1>7. stage = "open"
  BY <1>3 DEF Hands
<1>8. Hands'
  BY <1>3, <1>4, <1>5, <1>6, <1>7 DEF Hands
<1>9. InSendingOrder'
  <2>1. ASSUME NEW i \in DOMAIN t, NEW j \in DOMAIN t, i < j PROVE Before(t[i], t[j])
    <3>1. i + 1 < j + 1
      BY <1>4, <2>1
    <3> QED
      BY <1>4, <3>1 DEF InSendingOrder
  <2>2. \A v \in Workers : hand'[v] # None => \A j \in DOMAIN t : Before(hand'[v], t[j])
    BY <1>4, <1>6 DEF InSendingOrder
  <2>3. \A v \in Workers \ {w} : hand[v] # None => hand[v] # h
    <3> SUFFICES ASSUME NEW v \in Workers \ {w}, hand[v] # None PROVE hand[v] # h
      OBVIOUS
    <3>1. Before(hand[v], h) /\ hand[v] \in Delivery
      BY <1>4, FlyingIs DEF InSendingOrder
    <3> QED
      BY <1>4, <3>1, BeforeIs
  <2>4. \A u, v \in Workers : u # v /\ hand'[u] # None => hand'[v] # hand'[u]
    BY <1>4, <1>5, <1>6, <2>3 DEF InSendingOrder
  <2> QED
    BY <1>3, <2>1, <2>2, <2>4 DEF InSendingOrder
<1>10. Flying' = Flying
  <2>1. ASSUME NEW d \in Delivery
        PROVE  ((\E i \in DOMAIN t : t[i] = d) \/ \E v \in Workers : hand'[v] = d)
               <=> ((\E i \in DOMAIN work : work[i] = d) \/ \E v \in Workers : hand[v] = d)
    <3>1. \A i \in DOMAIN t : \E j \in DOMAIN work : work[j] = t[i]
      BY <1>4
    <3>2. \A v \in Workers : hand'[v] = d => hand[v] = d \/ d = h
      BY <1>6
    <3>3. \A v \in Workers : hand[v] = d => hand'[v] = d
      BY <1>5, <1>6
    <3> QED
      BY <1>4, <1>6, <3>1, <3>2, <3>3
  <2> QED
    BY <1>3, <2>1 DEF Flying
<1>11. Alone => First(h)
  <2> SUFFICES ASSUME Alone, NEW e \in Flying PROVE h = e \/ Before(h, e)
    BY DEF First, UpTo
  <2>1. PICK v \in Workers : crew = {v}
    BY OneWorker
  <2>2. \A u \in Workers : hand[u] = None
    BY <1>3, <2>1 DEF Hands
  <2>3. \E i \in DOMAIN work : work[i] = e
    BY <1>5, <2>2, FlyingIs
  <2> QED
    BY <1>4, <2>3
<1> QED
  BY <1>1, <1>3, <1>4, <1>6, <1>7, <1>8, <1>9, <1>10, <1>11 DEF Picks

\* One that finds the reader halted gives it back.
LEMMA GivesBack ==
  ASSUME StreamTypeOK, InSendingOrder, Hands, NEW w \in Workers, Take(w), halted
  PROVE  LetsGo(Head(work)) /\ Hands' /\ InSendingOrder' /\ hand' = hand
         /\ UNCHANGED <<halted, doing, done, passed, stoppedAt>>
<1>1. PICK h : h = Head(work)
  OBVIOUS
<1>2. PICK t : t = Tail(work)
  OBVIOUS
<1>3. /\ w \in crew /\ doing[w] = "idle" /\ work # <<>> /\ work' = t /\ Settle(h)
      /\ hand' = hand /\ doing' = doing
      /\ UNCHANGED <<crew, log, head, live, gen, next, stage, halted, begun, seen, done, passed, escaped, stoppedAt>>
  BY <1>1, <1>2 DEF Take, setup
<1>4. /\ h \in Flying /\ h \in Delivery
      /\ \E i \in DOMAIN work : work[i] = h
      /\ \A i \in DOMAIN work : work[i] = h \/ \E j \in DOMAIN t : t[j] = work[i]
      /\ \A j \in DOMAIN t : j \in Nat /\ j + 1 \in DOMAIN work /\ t[j] = work[j + 1] /\ Before(h, t[j])
  BY <1>1, <1>2, <1>3, HeadOfWork
<1>5. None \notin Delivery
  BY StreamTypes
<1>8. Hands'
  BY <1>3 DEF Hands
<1>9. InSendingOrder'
  <2>1. ASSUME NEW i \in DOMAIN t, NEW j \in DOMAIN t, i < j PROVE Before(t[i], t[j])
    <3>1. i + 1 < j + 1
      BY <1>4, <2>1
    <3> QED
      BY <1>4, <3>1 DEF InSendingOrder
  <2>2. \A v \in Workers : hand[v] # None => \A j \in DOMAIN t : Before(hand[v], t[j])
    BY <1>4 DEF InSendingOrder
  <2>3. \A u \in Workers : hand[u] # None => \A v \in Workers \ {u} : hand[v] # hand[u]
    BY DEF InSendingOrder
  <2> QED
    BY <1>3, <2>1, <2>2, <2>3 DEF InSendingOrder
<1>10. Flying' = Flying \ {h}
  <2>1. \A j \in DOMAIN t : t[j] # h /\ \E i \in DOMAIN work : work[i] = t[j]
    <3>1. \A j \in DOMAIN t : t[j] \in Delivery
      BY <1>4, FlyingIs
    <3> QED
      BY <1>4, <3>1, BeforeIs
  <2>2. \A v \in Workers : hand[v] # h
    <3>1. \A v \in Workers : hand[v] # None => hand[v] \in Delivery /\ Before(hand[v], h)
      BY <1>4, FlyingIs DEF InSendingOrder
    <3> QED
      BY <1>4, <1>5, <3>1, BeforeIs
  <2> QED
    BY <1>3, <1>4, <2>1, <2>2 DEF Flying
<1>11. Alone => First(h)
  <2> SUFFICES ASSUME Alone, NEW e \in Flying PROVE h = e \/ Before(h, e)
    BY DEF First, UpTo
  <2>1. PICK v \in Workers : crew = {v}
    BY OneWorker
  <2>2. \A u \in Workers : hand[u] = None
    BY <1>3, <2>1 DEF Hands
  <2>3. \E i \in DOMAIN work : work[i] = e
    BY <1>5, <2>2, FlyingIs
  <2> QED
    BY <1>4, <2>3
<1> QED
  BY <1>1, <1>3, <1>4, <1>8, <1>9, <1>10, <1>11 DEF LetsGo

\* The steps of a worker that settle what it has.
Settling(w) == Accepts(w) \/ CopyTaken(w) \/ PutsBack(w) \/ Stops(w)

\* A worker settles what it has (connection.py, _carry_out).
LEMMA SettlesHand ==
  ASSUME StreamTypeOK, InSendingOrder, Hands, NEW w \in Workers, Settling(w)
  PROVE  /\ LetsGo(hand[w]) /\ hand[w] # None /\ Hands' /\ InSendingOrder'
         /\ work' = work /\ hand'[w] = None /\ \A v \in Workers \ {w} : hand'[v] = hand[v]
         /\ doing'[w] = "idle"
         /\ done' \cup passed' \subseteq done \cup passed \cup {hand[w].off}
         /\ \/ halted' = halted /\ stoppedAt' = stoppedAt /\ hand[w].off \in done' \cup passed'
            \/ /\ halted' = TRUE /\ doing[w] = "handling"
               /\ stoppedAt' = IF stoppedAt = None THEN hand[w].off ELSE stoppedAt
<1>1. doing[w] # "idle" /\ Frees(w) /\ work' = work
  BY DEF Settling, Accepts, CopyTaken, PutsBack, Stops
<1>2. /\ hand[w] \in Flying /\ Flying' = Flying \ {hand[w]} /\ InSendingOrder'
      /\ \A v \in Workers : hand'[v] = None <=> doing'[v] = "idle"
      /\ \A v \in Workers : doing[v] = "idle" => doing'[v] = "idle"
      /\ \A v \in Workers \ {w} : hand'[v] = hand[v]
      /\ doing'[w] = "idle"
  BY <1>1, HandEmpties
<1>3. hand[w] # None /\ hand'[w] = None
  BY <1>1, <1>2 DEF Hands
<1>4. /\ Settle(hand[w])
      /\ UNCHANGED <<crew, log, head, live, gen, next, stage, begun, seen, escaped>>
      /\ done \subseteq done' /\ passed \subseteq passed'
      /\ done' \cup passed' \subseteq done \cup passed \cup {hand[w].off}
      /\ \/ halted' = halted /\ stoppedAt' = stoppedAt /\ hand[w].off \in done' \cup passed'
         \/ /\ halted' = TRUE /\ doing[w] = "handling"
            /\ stoppedAt' = IF stoppedAt = None THEN hand[w].off ELSE stoppedAt
  BY DEF Settling, Accepts, CopyTaken, PutsBack, Stops, setup
<1>5. Alone => First(hand[w])
  BY <1>3, HandIsFirst
<1>6. Hands'
  BY <1>1, <1>2, <1>4 DEF Hands
<1> QED
  BY <1>1, <1>2, <1>3, <1>4, <1>5, <1>6 DEF LetsGo

\* A copy escapes.
LEMMA EscapesHand ==
  ASSUME StreamTypeOK, InSendingOrder, Hands, NEW w \in Workers, CopyEscapes(w)
  PROVE  /\ Loses(hand[w]) /\ hand[w] # None /\ Hands' /\ InSendingOrder'
         /\ hand'[w] = None /\ \A v \in Workers \ {w} : hand'[v] = hand[v]
         /\ \A v \in Workers : doing[v] = "idle" => doing'[v] = "idle"
<1>1. doing[w] # "idle" /\ Frees(w) /\ work' = work
  BY DEF CopyEscapes
<1>2. /\ hand[w] \in Flying /\ Flying' = Flying \ {hand[w]} /\ InSendingOrder'
      /\ \A v \in Workers : hand'[v] = None <=> doing'[v] = "idle"
      /\ \A v \in Workers : doing[v] = "idle" => doing'[v] = "idle"
      /\ \A v \in Workers \ {w} : hand'[v] = hand[v]
      /\ doing'[w] = "idle"
  BY <1>1, HandEmpties
<1>3. hand[w] # None /\ hand'[w] = None
  BY <1>1, <1>2 DEF Hands
<1>4. /\ escaped' = escaped \cup {hand[w].off}
      /\ UNCHANGED <<crew, position, log, head, live, gen, next, out, stage, halted, begun, seen, done, passed, stoppedAt>>
  BY DEF CopyEscapes, setup, broker
<1>5. Hands'
  BY <1>1, <1>2, <1>4 DEF Hands
<1> QED
  BY <1>2, <1>3, <1>4, <1>5 DEF Loses

\* The queue goes back.
LEMMA ClosingStep ==
  ASSUME StreamTypeOK, InSendingOrder, Hands, CloseReader
  PROVE  GoesBack /\ Hands' /\ InSendingOrder' /\ hand' = hand /\ doing' = doing
<1>1. /\ stage = "open" /\ stage' = "closing" /\ work' = <<>> /\ hand' = hand /\ doing' = doing
      /\ UNCHANGED <<crew, position, log, head, live, gen, next, out, halted, begun, seen, done, passed, escaped, stoppedAt>>
  BY DEF CloseReader, setup, broker, outcomes
<1>2. DOMAIN work' = {}
  BY <1>1
<1>3. Flying' \subseteq Flying /\ (Alone => \A d \in Flying' : First(d))
  <2>1. \A d \in Flying' : d \in Flying /\ \E w \in Workers : hand[w] = d /\ hand[w] # None
    BY <1>1, <1>2, StreamTypes DEF Flying
  <2> QED
    BY <2>1, HandIsFirst
<1>4. Hands'
  BY <1>1 DEF Hands
<1>5. InSendingOrder'
  BY <1>1, <1>2 DEF InSendingOrder
<1> QED
  BY <1>1, <1>3, <1>4, <1>5 DEF GoesBack

\* An entry is sent.
LEMMA SendingStep ==
  ASSUME StreamTypeOK, InSendingOrder, Hands, Channel, Deliver
  PROVE  \E d \in Delivery : Sends(d) /\ Hands' /\ InSendingOrder' /\ hand' = hand /\ doing' = doing
<1>1. PICK d : d = [off |-> next, gen |-> gen]
  OBVIOUS
<1>2. /\ live /\ stage = "open" /\ next < log /\ Cardinality(out) < Prefetch
      /\ Delivered(next) /\ next' = next + 1 /\ out' = out \cup {next}
      /\ work' = Append(work, d) /\ hand' = hand /\ doing' = doing
      /\ UNCHANGED <<crew, log, head, live, gen, stage, halted, begun, seen, done, passed, escaped, stoppedAt>>
  BY <1>1 DEF Deliver, setup, outcomes
<1>3. d \in Delivery /\ d.off = next /\ d.gen = gen
  <2>1. next \in Nat /\ log \in Nat /\ Last \in Nat /\ log <= Last + 1
    BY StreamTypes DEF StreamTypeOK
  <2>2. next \in Offsets
    BY <1>2, <2>1 DEF Offsets
  <2> QED
    BY <1>1, <2>2 DEF Delivery, StreamTypeOK
<1>4. PICK s \in Seq(Delivery) : s = work
  BY StreamTypes
<1>5. PICK t : t = Append(s, d)
  OBVIOUS
<1>6. /\ Len(s) \in Nat /\ DOMAIN s = 1..Len(s) /\ DOMAIN t = 1..Len(s) + 1
      /\ t[Len(s) + 1] = d /\ \A i \in 1..Len(s) : t[i] = s[i]
  <2>1. t \in Seq(Delivery) /\ Len(t) = Len(s) + 1 /\ (\A i \in 1..Len(s) : t[i] = s[i]) /\ t[Len(s) + 1] = d
    BY <1>3, <1>5, AppendProperties
  <2> QED
    BY <2>1, LenProperties
<1>7. \A e \in Flying : Before(e, d) /\ e # d
  <2>1. \A e \in Flying : e.gen < gen \/ (e.gen = gen /\ e.off < next)
    BY DEF Channel
  <2>2. \A e \in Flying : Before(e, d) /\ e \in Delivery
    BY <1>3, <2>1, FlyingIs DEF Before
  <2> QED
    BY <1>3, <2>2, BeforeIs
<1>8. Flying' = Flying \cup {d}
  <2>1. \A e \in Delivery : (\E i \in DOMAIN t : t[i] = e) <=> e = d \/ \E i \in DOMAIN s : s[i] = e
    <3>1. \A i \in DOMAIN t : t[i] = d \/ (i \in DOMAIN s /\ t[i] = s[i])
      BY <1>6
    <3>2. \A i \in DOMAIN s : i \in DOMAIN t /\ t[i] = s[i]
      BY <1>6
    <3>3. Len(s) + 1 \in DOMAIN t
      BY <1>6
    <3> QED
      BY <1>6, <3>1, <3>2, <3>3
  <2> QED
    BY <1>2, <1>3, <1>4, <1>5, <2>1 DEF Flying
<1>9. Hands'
  BY <1>2 DEF Hands
<1>10. InSendingOrder'
  <2>1. \A i \in DOMAIN s : s[i] \in Flying
    BY <1>4, FlyingIs
  <2>2. ASSUME NEW i \in DOMAIN t, NEW j \in DOMAIN t, i < j PROVE Before(t[i], t[j])
    <3>1. i \in DOMAIN s /\ t[i] = s[i]
      BY <1>6, <2>2
    <3>2. CASE j \in DOMAIN s
      BY <1>4, <1>6, <2>2, <3>1, <3>2 DEF InSendingOrder
    <3>3. CASE j = Len(s) + 1
      BY <1>6, <1>7, <2>1, <3>1, <3>3
    <3> QED
      BY <1>6, <3>2, <3>3
  <2>3. ASSUME NEW w \in Workers, hand[w] # None, NEW i \in DOMAIN t PROVE Before(hand[w], t[i])
    <3>1. CASE i \in DOMAIN s
      BY <1>4, <1>6, <2>3, <3>1 DEF InSendingOrder
    <3>2. CASE i = Len(s) + 1
      BY <1>6, <1>7, <2>3, <3>2, FlyingIs
    <3> QED
      BY <1>6, <3>1, <3>2
  <2>4. \A u \in Workers : hand[u] # None => \A v \in Workers \ {u} : hand[v] # hand[u]
    BY DEF InSendingOrder
  <2> QED
    BY <1>2, <1>4, <1>5, <2>2, <2>3, <2>4 DEF InSendingOrder
<1> QED
  BY <1>1, <1>2, <1>3, <1>7, <1>8, <1>9, <1>10 DEF Sends

\* The steps that move no delivery.
RestingAction == Appends \/ Drop \/ Closed \/ \E w \in Workers : WantsCopy(w) \/ CopyRefused(w)

\* They leave the deliveries where they are.
LEMMA RestingStep ==
  ASSUME StreamTypeOK, InSendingOrder, Hands, RestingAction \/ UNCHANGED streamVars
  PROVE  /\ Rests /\ Hands' /\ InSendingOrder' /\ hand' = hand /\ Flying' = Flying
         /\ \A w \in Workers : doing[w] = "idle" <=> doing'[w] = "idle"
<1>1. /\ UNCHANGED <<crew, position, work, hand, head, next, begun, seen, done, passed, escaped, stoppedAt, halted>>
      /\ stage' = stage \/ (stage # "open" /\ stage' = "closed")
      /\ \/ gen' = gen /\ live' = live /\ out' = out
         \/ gen' = gen + 1 /\ live' = FALSE
      /\ doing' = doing \/ \E w \in Workers : doing[w] # "idle" /\
                             (doing' = [doing EXCEPT ![w] = "copying"] \/ doing' = [doing EXCEPT ![w] = "refused"])
  <2>1. CASE Appends
    BY <2>1 DEF Appends, setup, worker, outcomes
  <2>2. CASE Drop
    BY <2>2 DEF Drop, setup, worker, outcomes
  <2>3. CASE Closed
    BY <2>3 DEF Closed, setup, worker, outcomes, broker
  <2>4. CASE \E w \in Workers : WantsCopy(w) \/ CopyRefused(w)
    BY <2>4 DEF WantsCopy, CopyRefused, setup, outcomes, broker
  <2>5. CASE UNCHANGED streamVars
    BY <2>5 DEF streamVars, setup, worker, outcomes, broker
  <2> QED
    BY <2>1, <2>2, <2>3, <2>4, <2>5 DEF RestingAction
<1>2. \A w \in Workers : doing[w] = "idle" <=> doing'[w] = "idle"
  BY <1>1, StreamTypes
<1>3. Flying' = Flying
  BY <1>1 DEF Flying
<1>4. Hands' /\ InSendingOrder'
  BY <1>1, <1>2 DEF Hands, InSendingOrder
<1> QED
  BY <1>1, <1>2, <1>3, <1>4 DEF Rests

\* The greater of two.
LEMMA GreaterOf ==
  ASSUME NEW a \in Int, NEW b \in Int
  PROVE  Max({a, b}) \in {a, b} /\ Max({a, b}) >= a /\ Max({a, b}) >= b
<1>1. \E x \in {a, b} : \A y \in {a, b} : x >= y
  BY DEF Max
<1> QED
  BY <1>1 DEF Max

\* What is settled last.
LEMMA SettlesTo ==
  ASSUME StreamTypeOK, NEW d \in Delivery, Settle(d)
  PROVE  /\ settled' \in Offsets /\ settled' >= settled /\ settled' >= d.off
         /\ settled' = settled \/ settled' = d.off
         /\ pending' = [pending EXCEPT ![d.off] = @ - 1]
         /\ pending'[d.off] = pending[d.off] - 1
         /\ \A o \in Offsets : o # d.off => pending'[o] = pending[o]
         /\ Move(pending', settled')
         /\ out' = IF d.gen = gen THEN out \ {d.off} ELSE out
<1>1. d.off \in Offsets /\ settled \in Int /\ d.off \in Int /\ DOMAIN pending = Offsets /\ d.off >= 0
  BY StreamTypes DEF StreamTypeOK
<1>2. PICK s : s = Max({settled, d.off})
  OBVIOUS
<1>3. s \in {settled, d.off} /\ s >= settled /\ s >= d.off
  BY <1>1, <1>2, GreaterOf
<1>4. /\ settled' = s /\ pending' = [pending EXCEPT ![d.off] = @ - 1] /\ Move(pending', s)
      /\ out' = IF d.gen = gen THEN out \ {d.off} ELSE out
  BY <1>2 DEF Settle
<1>5. s \in Offsets
  BY <1>1, <1>3 DEF StreamTypeOK
<1> QED
  BY <1>1, <1>3, <1>4, <1>5

\* One in which retention takes an entry.
Cuts ==
  /\ head' = head + 1 /\ head' <= log - 1 /\ head' <= MaxDiscards /\ next' >= next /\ next' >= head'
  /\ next' = next \/ next' = head'
  /\ UNCHANGED <<crew, position, work, hand, doing, log, live, gen, out, stage, halted, begun, seen, done, passed, escaped, stoppedAt>>

\* One in which the subscription begins again.
Resumes ==
  /\ ~live /\ live' /\ stage = "open"
  /\ arg = FromFirst => next' = head /\ begun' = begun
  /\ arg = FromNext => next' = log /\ begun' = log
  /\ arg \in Nat => (next' = arg \/ next' = head) /\ next' >= arg /\ next' >= head /\ begun' = begun
  /\ UNCHANGED <<crew, position, work, hand, doing, log, head, gen, out, stage, halted, seen, done, passed, escaped, stoppedAt>>

\* Retention takes an entry.
LEMMA CuttingStep ==
  ASSUME StreamTypeOK, InSendingOrder, Hands, Discards
  PROVE  Cuts /\ Hands' /\ InSendingOrder' /\ Flying' = Flying
<1>1. /\ head < MaxDiscards /\ head + 1 < log /\ head' = head + 1 /\ next' = Max({next, head'})
      /\ UNCHANGED <<crew, position, work, hand, doing, log, live, gen, out, stage, halted, begun, seen, done, passed, escaped, stoppedAt>>
  BY DEF Discards, setup, worker, outcomes
<1>2. head \in Nat /\ log \in Nat /\ next \in Nat /\ MaxDiscards \in Nat
  BY StreamTypes
<1>3. PICK h \in Nat : h = head'
  BY <1>1, <1>2
<1>4. Max({next, h}) \in {next, h} /\ Max({next, h}) >= next /\ Max({next, h}) >= h
  BY <1>2, GreaterOf
<1>5. Hands' /\ InSendingOrder' /\ Flying' = Flying
  BY <1>1 DEF Hands, InSendingOrder, Flying
<1> QED
  BY <1>1, <1>2, <1>3, <1>4, <1>5 DEF Cuts

\* The subscription begins again.
LEMMA ResumingStep ==
  ASSUME StreamTypeOK, InSendingOrder, Hands, Reconnect
  PROVE  Resumes /\ Hands' /\ InSendingOrder' /\ Flying' = Flying
<1>1. /\ ~live /\ live' /\ stage = "open" /\ next' = Resolve(arg)
      /\ begun' = IF arg = FromNext THEN log ELSE begun
      /\ UNCHANGED <<crew, position, work, hand, doing, log, head, gen, out, stage, halted, seen, done, passed, escaped, stoppedAt>>
  BY DEF Reconnect, setup, worker
<1>2. arg = FromFirst => next' = head /\ begun' = begun
  BY <1>1 DEF Resolve, FromFirst, FromNext
<1>3. arg = FromNext => next' = log /\ begun' = log
  BY <1>1 DEF Resolve, FromFirst, FromNext
<1>4. arg \in Nat => (next' = arg \/ next' = head) /\ next' >= arg /\ next' >= head /\ begun' = begun
  <2> SUFFICES ASSUME arg \in Nat PROVE (next' = arg \/ next' = head) /\ next' >= arg /\ next' >= head /\ begun' = begun
    OBVIOUS
  <2>1. arg # FromFirst /\ arg # FromNext
    BY DEF FromFirst, FromNext
  <2>2. next' = Max({arg, head}) /\ begun' = begun
    BY <1>1, <2>1 DEF Resolve
  <2>3. head \in Int /\ arg \in Int
    BY StreamTypes
  <2> QED
    BY <2>2, <2>3, GreaterOf
<1>5. Hands' /\ InSendingOrder' /\ Flying' = Flying
  BY <1>1 DEF Hands, InSendingOrder, Flying
<1> QED
  BY <1>1, <1>2, <1>3, <1>4, <1>5 DEF Resumes

\* One in which a delivery leaves the reader settled: it goes back unhandled, or its
\* worker is done with it.
Settles(d) ==
  /\ LetsGo(d)
  /\ \A v \in Workers : doing[v] = "idle" => doing'[v] = "idle"
  /\ \/ halted /\ UNCHANGED <<hand, done, passed, halted, stoppedAt>>
     \/ \E w \in Workers :
          /\ hand[w] = d /\ hand'[w] = None /\ doing'[w] = "idle"
          /\ \A v \in Workers \ {w} : hand'[v] = hand[v]
          /\ done' \cup passed' \subseteq done \cup passed \cup {d.off}
          /\ \/ halted' = halted /\ stoppedAt' = stoppedAt /\ d.off \in done' \cup passed'
             \/ halted' /\ doing[w] = "handling" /\ stoppedAt' = IF stoppedAt = None THEN d.off ELSE stoppedAt

\* One in which a worker is left without what it had.
Empties(d) ==
  /\ Loses(d)
  /\ \A v \in Workers : doing[v] = "idle" => doing'[v] = "idle"
  /\ \E w \in Workers : hand[w] = d /\ hand'[w] = None /\ \A v \in Workers \ {w} : hand'[v] = hand[v]

\* Every step is of one of these kinds.
StaysIdle == hand' = hand /\ Flying' = Flying /\ \A w \in Workers : doing[w] = "idle" => doing'[w] = "idle"
Kinds ==
  \/ Rests /\ StaysIdle
  \/ Cuts /\ StaysIdle
  \/ Resumes /\ StaysIdle
  \/ \E d \in Delivery : Sends(d) /\ hand' = hand /\ doing' = doing
  \/ \E d \in Delivery : Picks(d) /\ \E w \in Workers : hand'[w] = d /\ hand[w] = None /\ \A v \in Workers \ {w} : hand'[v] = hand[v]
  \/ \E d \in Delivery : Settles(d)
  \/ \E d \in Delivery : Empties(d)
  \/ GoesBack /\ hand' = hand /\ doing' = doing

\* So it is with every step.
LEMMA StreamSteps ==
  ASSUME StreamTypeOK, InSendingOrder, Hands, Channel, [StreamNext]_streamVars
  PROVE  Kinds /\ Hands' /\ InSendingOrder'
<1>1. CASE RestingAction \/ UNCHANGED streamVars
  BY <1>1, RestingStep DEF Kinds, StaysIdle
<1>2. CASE Discards
  BY <1>2, CuttingStep DEF Kinds, StaysIdle, Cuts
<1>3. CASE Reconnect
  BY <1>3, ResumingStep DEF Kinds, StaysIdle, Resumes
<1>4. CASE Deliver
  BY <1>4, SendingStep DEF Kinds
<1>5. CASE CloseReader
  BY <1>5, ClosingStep DEF Kinds
<1>6. ASSUME NEW w \in Workers, Take(w) PROVE Kinds /\ Hands' /\ InSendingOrder'
  <2>1. PICK h : h = Head(work)
    OBVIOUS
  <2>2. h \in Delivery
    <3>1. work # <<>>
      BY <1>6 DEF Take
    <3> QED
      BY <2>1, <3>1, HeadOfWork
  <2>3. CASE halted
    <3>1. Settles(h) /\ Hands' /\ InSendingOrder'
      BY <1>6, <2>1, <2>3, GivesBack DEF Settles
    <3> QED
      BY <2>2, <3>1 DEF Kinds
  <2>4. CASE ~halted
    <3>1. hand[w] = None
      BY <1>6 DEF Take, Hands
    <3>2. /\ Picks(h) /\ Hands' /\ InSendingOrder' /\ hand'[w] = h
          /\ \A v \in Workers \ {w} : hand'[v] = hand[v]
      BY <1>6, <2>1, <2>4, TakesUp
    <3> QED
      BY <2>2, <3>1, <3>2 DEF Kinds
  <2> QED
    BY <2>3, <2>4
<1>7. ASSUME NEW w \in Workers, Settling(w) PROVE Kinds /\ Hands' /\ InSendingOrder'
  <2>1. PICK d : d = hand[w]
    OBVIOUS
  <2>2. /\ LetsGo(d) /\ d # None /\ Hands' /\ InSendingOrder'
        /\ work' = work /\ hand'[w] = None /\ \A v \in Workers \ {w} : hand'[v] = hand[v]
        /\ doing'[w] = "idle"
        /\ done' \cup passed' \subseteq done \cup passed \cup {d.off}
        /\ \/ halted' = halted /\ stoppedAt' = stoppedAt /\ d.off \in done' \cup passed'
           \/ /\ halted' = TRUE /\ doing[w] = "handling"
              /\ stoppedAt' = IF stoppedAt = None THEN d.off ELSE stoppedAt
    BY <1>7, <2>1, SettlesHand
  <2>3. \A v \in Workers : doing[v] = "idle" => doing'[v] = "idle"
    BY <2>2 DEF Hands
  <2>4. d \in Delivery
    BY <2>1, <2>2, StreamTypes DEF StreamTypeOK
  <2>5. Settles(d)
    BY <2>1, <2>2, <2>3 DEF Settles
  <2> QED
    BY <2>2, <2>4, <2>5 DEF Kinds
<1>8. ASSUME NEW w \in Workers, CopyEscapes(w) PROVE Kinds /\ Hands' /\ InSendingOrder'
  <2>1. PICK d : d = hand[w]
    OBVIOUS
  <2>2. /\ Loses(d) /\ d # None /\ Hands' /\ InSendingOrder'
        /\ hand'[w] = None /\ \A v \in Workers \ {w} : hand'[v] = hand[v]
        /\ \A v \in Workers : doing[v] = "idle" => doing'[v] = "idle"
    BY <1>8, <2>1, EscapesHand
  <2>3. d \in Delivery
    BY <2>1, <2>2, StreamTypes DEF StreamTypeOK
  <2> QED
    BY <2>1, <2>2, <2>3 DEF Kinds, Empties
<1> QED
  BY <1>1, <1>2, <1>3, <1>4, <1>5, <1>6, <1>7, <1>8 DEF StreamNext, Works, RestingAction, Settling

\* Deliveries are finitely many.
LEMMA SentIsFinite ==
  ASSUME StreamTypeOK
  PROVE  IsFiniteSet(Delivery) /\ IsFiniteSet(Flying) /\ \A o : IsFiniteSet(Sent(o))
<1>1. PICK G : G = 0..MaxDrops
  OBVIOUS
<1>2. IsFiniteSet(Offsets) /\ IsFiniteSet(G)
  BY <1>1, StreamTypes, FS_Interval DEF Offsets
<1>3. IsFiniteSet(Offsets \X G)
  BY <1>2, FS_Product
<1>4. PICK f : f = [d \in Delivery |-> <<d.off, d.gen>>]
  OBVIOUS
<1>5. f \in Injection(Delivery, Offsets \X G)
  <2>1. f \in [Delivery -> Offsets \X G]
    BY <1>1, <1>4 DEF Delivery
  <2>2. ASSUME NEW a \in Delivery, NEW b \in Delivery, f[a] = f[b] PROVE a = b
    <3>1. a.off = b.off /\ a.gen = b.gen
      BY <1>4, <2>2
    <3> QED
      BY <3>1 DEF Delivery
  <2> QED
    BY <2>1, <2>2 DEF Injection, IsInjective
<1>6. IsFiniteSet(Delivery)
  BY <1>3, <1>5, FS_Injection
<1>7. Flying \subseteq Delivery /\ \A o : Sent(o) \subseteq Delivery
  BY DEF Flying, Sent
<1> QED
  BY <1>6, <1>7, FS_Subset

\* And what they say of the position.
LEMMA PositionTypes ==
  ASSUME StreamTypeOK
  PROVE  /\ head <= log /\ settled >= -1 /\ (settled # -1 => settled \in Offsets)
         /\ arg = FromFirst \/ arg = FromNext \/ arg \in Nat
<1>1. Last \in Nat /\ \A o \in Offsets : o \in Nat
  BY StreamTypes
<1> QED
  BY <1>1 DEF StreamTypeOK, Starts

\* A delivery with the reader waits.
LEMMA SentWaits ==
  ASSUME StreamTypeOK, CountsSent, NEW d \in Flying
  PROVE  d.off \in Offsets /\ pending[d.off] \in Nat /\ pending[d.off] >= 1
<1>1. d \in Delivery /\ d.off \in Offsets /\ pending[d.off] \in Nat
  BY FlyingIs, StreamTypes
<1>2. Cardinality(Sent(d.off)) <= pending[d.off] /\ d \in Sent(d.off)
  BY <1>1 DEF CountsSent, Sent
<1>3. IsFiniteSet(Sent(d.off))
  BY SentIsFinite
<1>4. Cardinality(Sent(d.off)) \in Nat /\ Cardinality(Sent(d.off)) # 0
  BY <1>2, <1>3, FS_CardinalityType, FS_EmptySet
<1> QED
  BY <1>1, <1>2, <1>4

\* The position stays within its type when what was sent is settled.
LEMMA SettlesWithin ==
  ASSUME StreamTypeOK, CountsSent, NEW d \in Flying, Settle(d)
  PROVE  /\ pending' \in [Offsets -> Nat] /\ settled' \in Offsets
         /\ arg' \in Starts \cup {Last + 1} /\ out' \subseteq Offsets
<1>1. d \in Delivery /\ d.off \in Offsets /\ pending[d.off] \in Nat /\ pending[d.off] >= 1
  BY SentWaits, FlyingIs
<1>2. /\ settled' \in Offsets /\ pending' = [pending EXCEPT ![d.off] = @ - 1]
      /\ Move(pending', settled') /\ out' = IF d.gen = gen THEN out \ {d.off} ELSE out
  BY <1>1, SettlesTo
<1>3. pending' \in [Offsets -> Nat]
  <2>1. pending[d.off] - 1 \in Nat
    BY <1>1
  <2> QED
    BY <1>2, <2>1 DEF StreamTypeOK
<1>4. PICK p \in [Offsets -> Nat], s \in Offsets : p = pending' /\ s = settled'
  BY <1>2, <1>3
<1>5. p \in [Offsets -> Int] /\ s \in Int /\ Move(p, s)
  BY <1>2, <1>4, StreamTypes
<1>6. arg' \in Offsets \/ arg' = s + 1
  BY <1>5, MovesTo
<1>7. s + 1 \in Offsets \cup {Last + 1}
  <2>1. Last \in Nat /\ s \in Nat /\ s <= Last
    BY StreamTypes
  <2>2. CASE s = Last
    BY <2>2
  <2>3. CASE s < Last
    BY <2>1, <2>3 DEF Offsets
  <2> QED
    BY <2>1, <2>2, <2>3
<1> QED
  BY <1>2, <1>3, <1>6, <1>7, <1>4 DEF StreamTypeOK, Starts

\* And when an entry is sent.
LEMMA SendsWithin ==
  ASSUME StreamTypeOK, NEW d, Sends(d)
  PROVE  /\ pending' \in [Offsets -> Nat] /\ settled' = settled
         /\ next \in Offsets /\ next' \in 0..Last + 1 /\ out' \subseteq Offsets
         /\ arg' \in Offsets /\ pending'[arg'] > 0
         /\ \A o \in Offsets : pending'[o] > 0 => arg' <= o
         /\ pending'[next] = pending[next] + 1
         /\ \A o \in Offsets : o # next => pending'[o] = pending[o]
<1>1. /\ d = [off |-> next, gen |-> gen] /\ d \in Delivery /\ next < log /\ Delivered(next)
      /\ next' = next + 1 /\ out' = out \cup {next}
  BY DEF Sends
<1>2. next \in Offsets
  BY <1>1, StreamTypes
<1>3. next' \in 0..Last + 1
  BY <1>1, <1>2, StreamTypes DEF Offsets
<1>4. PICK p : p = [pending EXCEPT ![next] = @ + 1]
  OBVIOUS
<1>5. /\ p \in [Offsets -> Nat] /\ p[next] = pending[next] + 1 /\ pending[next] \in Nat
      /\ \A o \in Offsets : o # next => p[o] = pending[o]
  <2>1. pending \in [Offsets -> Nat]
    BY DEF StreamTypeOK
  <2>2. pending[next] \in Nat
    BY <1>2, <2>1
  <2>3. pending[next] + 1 \in Nat
    BY <2>2
  <2> QED
    BY <1>2, <1>4, <2>1, <2>2, <2>3
<1>6. pending' = p /\ Move(p, settled) /\ settled' = settled
  BY <1>1, <1>4 DEF Delivered
<1>7. p \in [Offsets -> Int] /\ settled \in Int /\ p[next] > 0
  BY <1>5, StreamTypes
<1>8. \A o \in Offsets : p[o] > 0 => arg' \in Offsets /\ p[arg'] > 0 /\ arg' <= o
  BY <1>6, <1>7, MovesTo
<1> QED
  BY <1>1, <1>2, <1>3, <1>5, <1>6, <1>7, <1>8 DEF StreamTypeOK

\* The types are kept.
LEMMA StreamTypesKept ==
  ASSUME StreamTypeOK, InSendingOrder, Hands, Channel, CountsSent, Given, [StreamNext]_streamVars
  PROVE  StreamTypeOK'
<1>1. CASE Appends
  <2>1. log + 1 \in 0..Last + 1 /\ head <= log + 1
    BY <1>1, StreamTypes DEF Appends, StreamTypeOK
  <2> QED
    BY <1>1, <2>1 DEF Appends, StreamTypeOK, setup, position, worker, outcomes
<1>2. CASE Discards
  <2>1. Cuts
    BY <1>2, CuttingStep
  <2>2. head + 1 \in 0..MaxDiscards /\ head + 1 <= log /\ head + 1 \in 0..Last + 1
    BY <2>1, StreamTypes DEF Cuts, StreamTypeOK
  <2>3. head' \in 0..MaxDiscards /\ head' <= log /\ next' \in 0..Last + 1
    BY <2>1, <2>2 DEF Cuts, StreamTypeOK
  <2> QED
    BY <1>2, <2>3 DEF Discards, StreamTypeOK, setup, position, worker, outcomes
<1>3. CASE Deliver
  <2>1. PICK d \in Delivery : Sends(d)
    BY <1>3, SendingStep
  <2>2. /\ pending' \in [Offsets -> Nat] /\ settled' = settled
        /\ next' \in 0..Last + 1 /\ out' \subseteq Offsets /\ arg' \in Offsets
    BY <2>1, SendsWithin
  <2>3. d = [off |-> next, gen |-> gen]
    BY <2>1 DEF Sends
  <2>4. work' \in Seq(Delivery)
    BY <1>3, <2>1, <2>3, AppendProperties DEF Deliver, StreamTypeOK
  <2> QED
    BY <1>3, <2>2, <2>4 DEF Deliver, StreamTypeOK, Starts, setup, outcomes
<1>4. CASE Drop
  <2>1. gen + 1 \in 0..MaxDrops
    BY <1>4, StreamTypes DEF Drop, StreamTypeOK
  <2> QED
    BY <1>4, <2>1 DEF Drop, StreamTypeOK, setup, position, worker, outcomes
<1>5. CASE Reconnect
  <2>1. Resumes
    BY <1>5, ResumingStep
  <2>2. head \in 0..Last + 1 /\ log \in 0..Last + 1 /\ (arg \in Nat => arg \in 0..Last + 1)
    <3>1. head \in Nat /\ Last \in Nat
      BY StreamTypes
    <3> QED
      BY <3>1 DEF StreamTypeOK, Starts, Offsets, FromFirst, FromNext
  <2>3. arg = FromFirst \/ arg = FromNext \/ arg \in Nat
    BY StreamTypes DEF StreamTypeOK, Starts, Offsets
  <2>4. next' \in 0..Last + 1 /\ begun' \in 0..Last + 1
    BY <2>1, <2>2, <2>3 DEF Resumes, StreamTypeOK
  <2> QED
    BY <1>5, <2>4 DEF Reconnect, StreamTypeOK, setup, position, worker
<1>6. ASSUME NEW w \in Workers, Take(w) PROVE StreamTypeOK'
  <2>0. work # <<>>
    BY <1>6 DEF Take
  <2>1. PICK h : h = Head(work)
    OBVIOUS
  <2>2. h \in Flying /\ h \in Delivery /\ h.off \in Offsets /\ Tail(work) \in Seq(Delivery)
    BY <2>0, <2>1, HeadOfWork, StreamTypes
  <2>3. CASE halted
    <3>1. Settle(h)
      BY <1>6, <2>1, <2>3 DEF Take
    <3>2. /\ pending' \in [Offsets -> Nat] /\ settled' \in Offsets
          /\ arg' \in Starts \cup {Last + 1} /\ out' \subseteq Offsets
      BY <2>2, <3>1, SettlesWithin
    <3> QED
      BY <1>6, <2>2, <2>3, <3>2 DEF Take, StreamTypeOK, setup
  <2>4. CASE ~halted
    BY <1>6, <2>1, <2>2, <2>4 DEF Take, StreamTypeOK, setup, position
  <2> QED
    BY <2>3, <2>4
<1>7. ASSUME NEW w \in Workers, Settling(w) PROVE StreamTypeOK'
  <2>1. PICK d : d = hand[w]
    OBVIOUS
  <2>2. LetsGo(d) /\ d # None
    BY <1>7, <2>1, SettlesHand
  <2>3. d \in Flying /\ Settle(d) /\ d \in Delivery /\ d.off \in Offsets
    BY <2>2, FlyingIs, StreamTypes DEF LetsGo
  <2>4. /\ pending' \in [Offsets -> Nat] /\ settled' \in Offsets
        /\ arg' \in Starts \cup {Last + 1} /\ out' \subseteq Offsets
    BY <2>3, SettlesWithin
  <2>5. /\ hand' \in [Workers -> Delivery \cup {None}] /\ work' = work
        /\ doing' \in [Workers -> {"idle", "handling", "copying", "refused"}]
        /\ done' \subseteq Offsets /\ passed' \subseteq Offsets
        /\ halted' \in BOOLEAN /\ stoppedAt' \in Offsets \cup {None}
    BY <1>7, <2>1, <2>3 DEF Settling, Accepts, CopyTaken, PutsBack, Stops, Frees, StreamTypeOK
  <2>6. UNCHANGED <<setup, log, head, live, gen, next, stage, begun, seen, escaped>>
    BY <1>7 DEF Settling, Accepts, CopyTaken, PutsBack, Stops
  <2> QED
    BY <2>4, <2>5, <2>6 DEF StreamTypeOK, setup
<1>8. ASSUME NEW w \in Workers, CopyEscapes(w) PROVE StreamTypeOK'
  <2>1. hand[w] # None /\ hand[w].off \in Offsets
    BY <1>8, EscapesHand, StreamTypes DEF StreamTypeOK
  <2> QED
    BY <1>8, <2>1 DEF CopyEscapes, Frees, StreamTypeOK, setup, position, broker
<1>9. ASSUME NEW w \in Workers, WantsCopy(w) \/ CopyRefused(w) PROVE StreamTypeOK'
  BY <1>9 DEF WantsCopy, CopyRefused, StreamTypeOK, setup, position, broker, outcomes
<1>10. CASE CloseReader
  BY <1>10 DEF CloseReader, StreamTypeOK, setup, position, broker, outcomes
<1>11. CASE Closed
  BY <1>11 DEF Closed, StreamTypeOK, setup, position, broker, worker, outcomes
<1>12. CASE UNCHANGED streamVars
  BY <1>12 DEF StreamTypeOK, streamVars, setup, position, broker, worker, outcomes
<1> QED
  BY <1>1, <1>2, <1>3, <1>4, <1>5, <1>6, <1>7, <1>8, <1>9, <1>10, <1>11, <1>12 DEF StreamNext, Works, Settling

\* What the subscription has sent and is past.
LEMMA ChannelKept ==
  ASSUME StreamTypeOK, Channel, CountsSent, Placed, Given, Kinds
  PROVE  Channel'
<1>0. /\ arg \in Int /\ settled \in Int /\ next \in Nat /\ head \in Nat /\ begun \in Nat
      /\ log \in Nat /\ gen \in Nat /\ head <= log /\ settled >= -1
      /\ arg = FromFirst \/ arg = FromNext \/ arg \in Nat
      /\ \A o \in Offsets : o \in Nat /\ pending[o] \in Nat
      /\ \A d \in Flying : d \in Delivery /\ d.off \in Offsets /\ d.off \in Nat /\ d.gen \in Nat /\ pending[d.off] >= 1
  <2>1. \A d \in Flying : d \in Delivery /\ d.off \in Offsets /\ pending[d.off] >= 1
    BY FlyingIs, SentWaits
  <2> QED
    BY <2>1, StreamTypes, PositionTypes
<1>1. CASE Rests /\ StaysIdle
  BY <1>0, <1>1 DEF Channel, Rests, StaysIdle, position, Waits
<1>2. CASE Cuts /\ StaysIdle
  BY <1>0, <1>2 DEF Channel, Cuts, StaysIdle, position, Waits
<1>3. CASE Resumes /\ StaysIdle
  <2>1. \A d \in Flying : d.gen < gen
    BY <1>3 DEF Channel, Resumes
  <2>2. head <= next' /\ begun' <= next' /\ (arg = FromFirst => begun' <= head)
    <3>1. CASE arg = FromFirst
      BY <1>0, <1>3, <3>1 DEF Channel, Resumes, FromFirst, FromNext
    <3>2. CASE arg = FromNext
      BY <1>0, <1>3, <3>2 DEF Channel, Resumes, FromFirst, FromNext
    <3>3. CASE arg \in Nat
      <4>1. begun <= arg
        <5>1. CASE \E o \in Offsets : Waits(o)
          BY <1>0, <5>1 DEF Placed, Channel
        <5>2. CASE \A o \in Offsets : ~Waits(o)
          BY <1>0, <3>3, <5>2 DEF Placed, Channel
        <5> QED
          BY <5>1, <5>2
      <4>2. next' >= arg /\ next' >= head /\ begun' = begun /\ (next' = arg \/ next' = head)
        BY <1>3, <3>3 DEF Resumes
      <4>3. arg # FromFirst
        BY <3>3 DEF FromFirst
      <4> QED
        BY <1>0, <4>1, <4>2, <4>3
    <3> QED
      BY <1>0, <3>1, <3>2, <3>3
  <2>3. begun' = begun \/ ((\A o \in Offsets : ~Waits(o)) /\ settled = -1 /\ \A o \in Offsets : o \notin seen)
    <3>1. arg = FromFirst \/ arg \in Nat => begun' = begun
      BY <1>3 DEF Resumes
    <3>2. CASE arg = FromNext
      <4>1. arg \notin Offsets /\ arg # settled + 1
        BY <1>0, <3>2 DEF FromNext
      <4>2. (\A o \in Offsets : ~Waits(o)) /\ settled = -1
        BY <4>1 DEF Placed
      <4>3. \A o \in Offsets : o \notin seen
        BY <1>0, <4>2 DEF Given
      <4> QED
        BY <4>2, <4>3
    <3> QED
      BY <1>0, <3>1, <3>2
  <2>4. /\ live' /\ gen' = gen /\ arg' = arg /\ head' = head /\ settled' = settled /\ pending' = pending
        /\ seen' = seen /\ Flying' = Flying
    BY <1>3 DEF Resumes, StaysIdle, position
  <2> QED
    BY <1>0, <2>1, <2>2, <2>3, <2>4 DEF Channel, Waits
<1>4. ASSUME NEW d \in Delivery, Sends(d), hand' = hand, doing' = doing PROVE Channel'
  <2>1. /\ settled' = settled /\ arg' \in Nat /\ \A o \in Offsets : o # next => pending'[o] = pending[o]
    BY <1>4, SendsWithin, StreamTypes
  <2>2. /\ d.off = next /\ d.gen = gen /\ live /\ next' = next + 1 /\ Flying' = Flying \cup {d}
        /\ UNCHANGED <<gen, live, head, begun, seen>>
    BY <1>4 DEF Sends
  <2>3. arg' # FromFirst
    BY <2>1 DEF FromFirst
  <2> QED
    BY <1>0, <2>1, <2>2, <2>3 DEF Channel, Waits
<1>5. ASSUME NEW d \in Delivery, Picks(d) PROVE Channel'
  <2>1. /\ d \in Flying /\ seen' = seen \cup {d.off} /\ Flying' = Flying
        /\ UNCHANGED <<gen, live, head, next, begun, arg, settled, pending>>
    BY <1>5 DEF Picks, position
  <2> QED
    BY <1>0, <2>1 DEF Channel, Waits
<1>6. ASSUME NEW d \in Delivery, Settles(d) PROVE Channel'
  <2>1. /\ d \in Flying /\ Settle(d) /\ Flying' = Flying \ {d}
        /\ UNCHANGED <<gen, live, head, next, begun, seen>>
    BY <1>6 DEF Settles, LetsGo
  <2>2. /\ settled' = settled \/ settled' = d.off
        /\ settled' \in Offsets /\ settled' >= d.off
        /\ \A o \in Offsets : pending'[o] > 0 => pending[o] > 0
    BY <1>0, <2>1, SettlesTo
  <2>3. arg' # FromFirst
    <3>1. pending' \in [Offsets -> Nat] /\ settled' \in Offsets
      BY <2>1, SettlesWithin
    <3>2. Move(pending', settled')
      BY <2>1, SettlesTo
    <3>3. PICK p \in [Offsets -> Nat], s \in Offsets : p = pending' /\ s = settled'
      BY <3>1
    <3>4. arg' \in Offsets \/ arg' = s + 1
      <4>1. p \in [Offsets -> Int] /\ s \in Int /\ Move(p, s)
        BY <3>2, <3>3, <1>0
      <4> QED
        BY <4>1, MovesTo
    <3> QED
      BY <1>0, <3>3, <3>4 DEF FromFirst
  <2>4. begun <= d.off
    BY <1>0, <2>1 DEF Channel, Waits
  <2> QED
    BY <1>0, <2>1, <2>2, <2>3, <2>4 DEF Channel, Waits
<1>7. ASSUME NEW d \in Delivery, Empties(d) PROVE Channel'
  <2>1. Flying' = Flying \ {d} /\ UNCHANGED <<gen, live, head, next, begun, arg, settled, pending, seen>>
    BY <1>7 DEF Empties, Loses, position
  <2> QED
    BY <2>1 DEF Channel, Waits
<1>8. CASE GoesBack
  <2>1. Flying' \subseteq Flying /\ UNCHANGED <<gen, live, head, next, begun, arg, settled, pending, seen>>
    BY <1>8 DEF GoesBack, position
  <2> QED
    BY <2>1 DEF Channel, Waits
<1> QED
  BY <1>1, <1>2, <1>3, <1>4, <1>5, <1>6, <1>7, <1>8 DEF Kinds

\* The position counts what is with the reader.
LEMMA CountsSentKept ==
  ASSUME StreamTypeOK, CountsSent, Kinds
  PROVE  CountsSent'
<1>0. /\ \A o \in Offsets : o \in Nat /\ pending[o] \in Nat
      /\ \A o : IsFiniteSet(Sent(o)) /\ Cardinality(Sent(o)) \in Nat
      /\ \A d \in Flying : d \in Delivery /\ d.off \in Offsets /\ pending[d.off] >= 1
  BY StreamTypes, FlyingIs, SentWaits, SentIsFinite, FS_CardinalityType
<1>1. ASSUME Flying' = Flying, pending' = pending, stage' = "open" => stage = "open", escaped' = escaped
      PROVE  CountsSent'
  <2>1. \A o : Sent(o)' = Sent(o)
    BY <1>1 DEF Sent
  <2> QED
    BY <1>1, <2>1 DEF CountsSent
<1>2. ASSUME Flying' \subseteq Flying, pending' = pending, escaped' # {} \/ stage' # "open"
      PROVE  CountsSent'
  <2> SUFFICES ASSUME NEW o \in Offsets PROVE Cardinality(Sent(o)') <= pending'[o]
    BY <1>2 DEF CountsSent
  <2>1. Sent(o)' \in SUBSET Sent(o)
    BY <1>2 DEF Sent
  <2>2. PICK T \in SUBSET Sent(o) : T = Sent(o)'
    BY <2>1
  <2>3. Cardinality(T) <= Cardinality(Sent(o)) /\ Cardinality(T) \in Nat
    BY <1>0, FS_Subset, FS_CardinalityType
  <2> QED
    BY <1>0, <1>2, <2>2, <2>3 DEF CountsSent
<1>3. ASSUME NEW d \in Delivery, Sends(d) PROVE CountsSent'
  <2>1. /\ next \in Offsets /\ pending'[next] = pending[next] + 1
        /\ \A o \in Offsets : o # next => pending'[o] = pending[o]
    BY <1>3, SendsWithin
  <2>2. d.off = next /\ Flying' = Flying \cup {d} /\ d \notin Flying /\ UNCHANGED <<stage, escaped>>
    BY <1>3 DEF Sends
  <2>3. ASSUME NEW o \in Offsets, o # next PROVE Sent(o)' = Sent(o)
    BY <2>2, <2>3 DEF Sent
  <2>4. PICK S : S = Sent(next)
    OBVIOUS
  <2>5. PICK n \in Offsets : n = next
    BY <2>1
  <2>6. Sent(n)' = S \cup {d} /\ d \notin S
    BY <2>2, <2>4, <2>5 DEF Sent
  <2>7. Cardinality(S \cup {d}) = Cardinality(S) + 1
    BY <1>0, <2>4, <2>6, FS_AddElement
  <2>8. /\ Cardinality(Sent(n)') = Cardinality(S) + 1 /\ pending'[n] = pending[n] + 1
        /\ Cardinality(S) \in Nat /\ pending[n] \in Nat
        /\ Cardinality(S) <= pending[n] /\ (stage = "open" /\ escaped = {} => Cardinality(S) = pending[n])
    BY <1>0, <2>1, <2>4, <2>5, <2>6, <2>7 DEF CountsSent
  <2>9. ASSUME NEW o \in Offsets, o # n
        PROVE  /\ Cardinality(Sent(o)') <= pending'[o]
               /\ stage = "open" /\ escaped = {} => Cardinality(Sent(o)') = pending'[o]
    BY <2>1, <2>3, <2>5, <2>9 DEF CountsSent
  <2> QED
    BY <2>2, <2>8, <2>9 DEF CountsSent
<1>4. ASSUME NEW d \in Delivery, LetsGo(d) PROVE CountsSent'
  <2>1. d \in Flying /\ Settle(d) /\ Flying' = Flying \ {d} /\ UNCHANGED <<stage, escaped>>
    BY <1>4 DEF LetsGo
  <2>2. PICK n \in Offsets : n = d.off
    BY <1>0, <2>1
  <2>3. pending'[n] = pending[n] - 1 /\ \A o \in Offsets : o # n => pending'[o] = pending[o]
    BY <2>1, <2>2, SettlesTo
  <2>4. ASSUME NEW o \in Offsets, o # n PROVE Sent(o)' = Sent(o)
    BY <2>1, <2>2, <2>4 DEF Sent
  <2>5. PICK S : S = Sent(n)
    OBVIOUS
  <2>6. Sent(n)' = S \ {d} /\ d \in S
    BY <2>1, <2>2, <2>5 DEF Sent
  <2>7. Cardinality(S \ {d}) = Cardinality(S) - 1
    BY <1>0, <2>5, <2>6, FS_RemoveElement
  <2>8. /\ Cardinality(Sent(n)') = Cardinality(S) - 1 /\ pending'[n] = pending[n] - 1
        /\ Cardinality(S) \in Nat /\ pending[n] \in Nat
        /\ Cardinality(S) <= pending[n] /\ (stage = "open" /\ escaped = {} => Cardinality(S) = pending[n])
    BY <1>0, <2>3, <2>5, <2>6, <2>7 DEF CountsSent
  <2>9. ASSUME NEW o \in Offsets, o # n
        PROVE  /\ Cardinality(Sent(o)') <= pending'[o]
               /\ stage = "open" /\ escaped = {} => Cardinality(Sent(o)') = pending'[o]
    BY <2>3, <2>4, <2>9 DEF CountsSent
  <2> QED
    BY <2>1, <2>8, <2>9 DEF CountsSent
<1>5. CASE (Rests \/ Cuts \/ Resumes) /\ StaysIdle
  <2>1. Flying' = Flying /\ pending' = pending /\ escaped' = escaped /\ (stage' = "open" => stage = "open")
    BY <1>5 DEF Rests, Cuts, Resumes, StaysIdle, position
  <2> QED
    BY <1>1, <2>1
<1>6. ASSUME NEW d \in Delivery, Picks(d) PROVE CountsSent'
  <2>1. Flying' = Flying /\ pending' = pending /\ escaped' = escaped /\ stage' = stage
    BY <1>6 DEF Picks, position
  <2> QED
    BY <1>1, <2>1
<1>7. ASSUME NEW d \in Delivery, Empties(d) PROVE CountsSent'
  <2>1. Flying' \subseteq Flying /\ pending' = pending /\ escaped' # {}
    BY <1>7 DEF Empties, Loses, position
  <2> QED
    BY <1>2, <2>1
<1>8. CASE GoesBack
  <2>1. Flying' \subseteq Flying /\ pending' = pending /\ stage' # "open"
    BY <1>8 DEF GoesBack, position
  <2> QED
    BY <1>2, <2>1
<1> QED
  BY <1>3, <1>4, <1>5, <1>6, <1>7, <1>8 DEF Kinds, Settles

\* The position once d is settled.
LEMMA PlacedAfter ==
  ASSUME StreamTypeOK, CountsSent, NEW d \in Flying, Settle(d)
  PROVE  /\ \A o \in Offsets : Waits(o)' => arg' \in Offsets /\ Waits(arg)' /\ arg' <= o
         /\ (\A o \in Offsets : ~Waits(o)') => arg' = settled' + 1
         /\ arg' \in Nat /\ settled' \in Offsets /\ settled' \in Nat /\ settled' >= settled /\ settled' >= d.off
         /\ settled' = settled \/ settled' = d.off
         /\ \A o \in Offsets : Waits(o)' => Waits(o)
         /\ \A o \in Offsets : Waits(o) => Waits(o)' \/ o = d.off
<1>1. d \in Delivery /\ pending' \in [Offsets -> Nat] /\ settled' \in Offsets
  BY FlyingIs, SettlesWithin
<1>2. /\ Move(pending', settled') /\ settled' >= settled /\ settled' >= d.off
      /\ settled' = settled \/ settled' = d.off
      /\ pending'[d.off] = pending[d.off] - 1
      /\ \A o \in Offsets : o # d.off => pending'[o] = pending[o]
  BY <1>1, SettlesTo
<1>3. PICK p \in [Offsets -> Nat], s \in Offsets : p = pending' /\ s = settled'
  BY <1>1
<1>4. /\ \A o \in Offsets : p[o] > 0 => arg' \in Offsets /\ p[arg'] > 0 /\ arg' <= o
      /\ (\A o \in Offsets : ~(p[o] > 0)) => arg' = s + 1
  <2>1. p \in [Offsets -> Int] /\ s \in Int /\ Move(p, s)
    BY <1>2, <1>3, StreamTypes
  <2> QED
    BY <2>1, MovesTo
<1>5. s \in Nat /\ arg' \in Nat
  BY <1>4, StreamTypes
<1>6. /\ \A o \in Offsets : pending'[o] > 0 => pending[o] > 0
      /\ \A o \in Offsets : pending[o] > 0 => pending'[o] > 0 \/ o = d.off
  <2>1. \A o \in Offsets : pending[o] \in Nat
    BY StreamTypes
  <2>2. d.off \in Offsets
    BY <1>1, StreamTypes
  <2> QED
    BY <1>2, <2>1, <2>2
<1>7. /\ \A o \in Offsets : pending'[o] > 0 => arg' \in Offsets /\ pending'[arg'] > 0 /\ arg' <= o
      /\ (\A o \in Offsets : ~(pending'[o] > 0)) => arg' = settled' + 1
  BY <1>3, <1>4
<1> QED
  BY <1>1, <1>2, <1>3, <1>5, <1>6, <1>7 DEF Waits

\* The position is where it should be.
LEMMA PlacedKept ==
  ASSUME StreamTypeOK, CountsSent, Placed, Kinds
  PROVE  Placed'
<1>1. ASSUME UNCHANGED <<pending, settled, arg, begun>> PROVE Placed'
  BY <1>1 DEF Placed, Waits
<1>2. CASE (Rests \/ Cuts) /\ StaysIdle
  BY <1>1, <1>2 DEF Rests, Cuts, position
<1>3. CASE Resumes
  <2>1. UNCHANGED <<pending, settled, arg>> /\ (arg = FromNext \/ begun' = begun)
    BY <1>3, PositionTypes DEF Resumes, position
  <2>2. arg = FromNext => arg \notin Nat
    BY DEF FromNext
  <2> QED
    BY <2>1, <2>2 DEF Placed, Waits
<1>4. ASSUME NEW d \in Delivery, Sends(d) PROVE Placed'
  <2>1. /\ next \in Offsets /\ pending'[next] = pending[next] + 1 /\ pending[next] \in Nat
        /\ arg' \in Offsets /\ pending'[arg'] > 0
        /\ \A o \in Offsets : pending'[o] > 0 => arg' <= o
    BY <1>4, SendsWithin, StreamTypes
  <2>2. pending'[next] > 0
    BY <2>1
  <2> QED
    BY <2>1, <2>2 DEF Placed, Waits
<1>5. ASSUME NEW d \in Delivery, Settles(d) PROVE Placed'
  <2>1. d \in Flying /\ Settle(d)
    BY <1>5 DEF Settles, LetsGo
  <2>2. /\ \A o \in Offsets : Waits(o)' => arg' \in Offsets /\ Waits(arg)' /\ arg' <= o
        /\ (\A o \in Offsets : ~Waits(o)') => arg' = settled' + 1
        /\ settled' \in Nat
    BY <2>1, PlacedAfter
  <2>3. settled' # -1
    BY <2>2
  <2> QED
    BY <2>2, <2>3 DEF Placed
<1>6. CASE (\E d \in Delivery : Picks(d) \/ Empties(d)) \/ GoesBack
  BY <1>1, <1>6 DEF Picks, Empties, Loses, GoesBack, position
<1> QED
  BY <1>2, <1>3, <1>4, <1>5, <1>6 DEF Kinds

\* What was given waits or was settled, and has somebody or an outcome.
LEMMA GivenKept ==
  ASSUME StreamTypeOK, CountsSent, Given, Kinds
  PROVE  Given'
<1>0. /\ \A d \in Delivery : d # None /\ d.off \in Offsets
      /\ seen \subseteq Offsets
      /\ \A o \in Offsets : o \in Nat
      /\ settled \in Int
  BY StreamTypes DEF StreamTypeOK
<1>1. ASSUME UNCHANGED <<pending, settled, hand, seen, done, passed, escaped, halted, stoppedAt>> PROVE Given'
  BY <1>1 DEF Given, Waits
<1>2. CASE (Rests \/ Cuts \/ Resumes) /\ StaysIdle
  BY <1>1, <1>2 DEF Rests, Cuts, Resumes, StaysIdle, position
<1>3. CASE GoesBack /\ hand' = hand
  BY <1>1, <1>3 DEF GoesBack, position
<1>4. ASSUME NEW d \in Delivery, Sends(d), hand' = hand PROVE Given'
  <2>1. /\ settled' = settled /\ \A o \in Offsets : Waits(o) => Waits(o)'
    <3>1. /\ settled' = settled /\ next \in Offsets /\ pending'[next] = pending[next] + 1 /\ pending[next] \in Nat
          /\ \A o \in Offsets : o # next => pending'[o] = pending[o]
      BY <1>4, SendsWithin, StreamTypes
    <3> QED
      BY <3>1 DEF Waits
  <2>2. UNCHANGED <<hand, seen, done, passed, escaped, halted, stoppedAt>>
    BY <1>4 DEF Sends
  <2> QED
    BY <1>0, <2>1, <2>2 DEF Given
<1>5. ASSUME NEW d \in Delivery, Picks(d), NEW w \in Workers, hand'[w] = d, hand[w] = None,
             \A v \in Workers \ {w} : hand'[v] = hand[v]
      PROVE  Given'
  <2>1. /\ ~halted /\ seen' = seen \cup {d.off}
        /\ UNCHANGED <<pending, settled, done, passed, escaped, halted, stoppedAt>>
    BY <1>5 DEF Picks, position
  <2>2. Waits(d.off)
    BY <1>5, SentWaits DEF Picks, Waits
  <2>3. \A o \in seen' : Waits(o)' \/ o <= settled'
    BY <2>1, <2>2 DEF Given, Waits
  <2>4. \A v \in Workers : hand[v] # None => hand'[v] = hand[v]
    BY <1>5
  <2>5. \A o \in seen' : o \in done \cup passed \cup escaped \/ \E v \in Workers : hand'[v] # None /\ hand'[v].off = o
    BY <1>0, <1>5, <2>1, <2>4 DEF Given
  <2>6. \A v \in Workers : hand'[v] # None => hand'[v].off \in seen'
    BY <1>5, <2>1 DEF Given
  <2> QED
    BY <2>1, <2>3, <2>5, <2>6 DEF Given
<1>6. ASSUME NEW d \in Delivery, Settles(d) PROVE Given'
  <2>1. d \in Flying /\ Settle(d) /\ LetsGo(d) /\ UNCHANGED <<seen, escaped>>
    BY <1>6 DEF Settles, LetsGo
  <2>2. \A o \in seen' : Waits(o)' \/ o <= settled'
    <3>1. /\ settled' \in Nat /\ settled' >= settled /\ settled' >= d.off
          /\ \A o \in Offsets : Waits(o) => Waits(o)' \/ o = d.off
      BY <2>1, PlacedAfter
    <3> QED
      BY <1>0, <2>1, <3>1 DEF Given
  <2>3. CASE halted /\ UNCHANGED <<hand, done, passed, halted, stoppedAt>>
    BY <2>1, <2>2, <2>3 DEF Given
  <2>4. ASSUME NEW w \in Workers, hand[w] = d, hand'[w] = None,
               \A v \in Workers \ {w} : hand'[v] = hand[v],
               done' \cup passed' \subseteq done \cup passed \cup {d.off},
               \/ halted' = halted /\ stoppedAt' = stoppedAt /\ d.off \in done' \cup passed'
               \/ halted' /\ stoppedAt' = IF stoppedAt = None THEN d.off ELSE stoppedAt
        PROVE  Given'
    <3>1. d.off \in seen /\ done' \cup passed' \cup escaped' \subseteq seen'
      BY <1>0, <2>1, <2>4 DEF Given
    <3>2. \A v \in Workers : hand'[v] # None => hand'[v] = hand[v]
      BY <2>4
    <3>3. \A v \in Workers : hand[v] # None => hand'[v] = hand[v] \/ hand[v] = d
      BY <2>4
    <3>4. ~halted' => \A o \in seen' : \/ o \in done' \cup passed' \cup escaped'
                                       \/ \E v \in Workers : hand'[v] # None /\ hand'[v].off = o
      <4> SUFFICES ASSUME ~halted', NEW o \in seen
                   PROVE  \/ o \in done' \cup passed' \cup escaped'
                          \/ \E v \in Workers : hand'[v] # None /\ hand'[v].off = o
        BY <2>1
      <4>1. done \subseteq done' /\ passed \subseteq passed' /\ ~halted /\ d.off \in done' \cup passed'
        BY <2>1 DEF LetsGo
      <4>2. CASE o \in done \cup passed \cup escaped
        BY <2>1, <4>1, <4>2
      <4>3. CASE \E v \in Workers : hand[v] # None /\ hand[v].off = o
        BY <3>3, <4>1, <4>3
      <4> QED
        BY <4>1, <4>2, <4>3 DEF Given
    <3>5. (stoppedAt' = None <=> ~halted') /\ (halted' => stoppedAt' \in seen')
      <4>1. d.off # None
        BY <1>0, StreamAssumption
      <4> QED
        BY <2>1, <2>4, <3>1, <4>1 DEF Given
    <3>6. \A v \in Workers : hand'[v] # None => hand'[v].off \in seen'
      BY <2>1, <3>2 DEF Given
    <3> QED
      BY <2>2, <3>1, <3>4, <3>5, <3>6 DEF Given
  <2> QED
    BY <1>6, <2>3, <2>4 DEF Settles
<1>7. ASSUME NEW d \in Delivery, Empties(d) PROVE Given'
  <2>1. escaped' = escaped \cup {d.off} /\ UNCHANGED <<pending, settled, halted, seen, done, passed, stoppedAt>>
    BY <1>7 DEF Empties, Loses, position
  <2>2. PICK w \in Workers : hand[w] = d /\ hand'[w] = None /\ \A v \in Workers \ {w} : hand'[v] = hand[v]
    BY <1>7 DEF Empties
  <2>3. d.off \in seen
    BY <1>0, <2>2 DEF Given
  <2>4. /\ \A v \in Workers : hand'[v] # None => hand'[v] = hand[v]
        /\ \A v \in Workers : hand[v] # None => hand'[v] = hand[v] \/ hand[v] = d
    BY <2>2
  <2>5. ~halted' => \A o \in seen' : \/ o \in done' \cup passed' \cup escaped'
                                     \/ \E v \in Workers : hand'[v] # None /\ hand'[v].off = o
    BY <2>1, <2>4 DEF Given
  <2>6. \A o \in seen' : Waits(o)' \/ o <= settled'
    BY <2>1 DEF Given, Waits
  <2>7. \A v \in Workers : hand'[v] # None => hand'[v].off \in seen'
    BY <2>1, <2>4 DEF Given
  <2> QED
    BY <2>1, <2>3, <2>5, <2>6, <2>7 DEF Given
<1> QED
  BY <1>2, <1>3, <1>4, <1>5, <1>6, <1>7 DEF Kinds

\* Where a subscription begins again: past nothing that waits and is left, or with
\* everything before it.
LEMMA ResumesFrom ==
  ASSUME StreamTypeOK, CountsSent, Placed, Given, Resumes
  PROVE  /\ \/ begun' = begun
            \/ begun' = next' /\ (\A o \in Offsets : ~Waits(o)) /\ settled = -1 /\ seen = {} /\ Flying = {}
         /\ \A o \in Offsets : begun' <= o /\ o < next' => o < head \/ (arg \in Nat /\ o < arg)
         /\ \A o \in Offsets : arg <= o /\ head <= o /\ begun' <= o => next' <= o
         /\ arg \in Nat => next' >= arg
<1>0. /\ arg \in Int /\ settled \in Int /\ head \in Nat /\ begun \in Nat /\ log \in Nat /\ head <= log
      /\ \A o \in Offsets : o \in Nat
      /\ arg = FromFirst \/ arg = FromNext \/ arg \in Nat
      /\ seen \subseteq Offsets /\ settled >= -1
  BY StreamTypes, PositionTypes DEF StreamTypeOK
<1>1. CASE arg = FromFirst
  BY <1>0, <1>1 DEF Resumes, FromFirst, FromNext
<1>2. CASE arg = FromNext
  <2>1. arg \notin Offsets /\ arg # settled + 1 /\ arg \notin Nat
    BY <1>0, <1>2 DEF FromNext
  <2>2. (\A o \in Offsets : ~Waits(o)) /\ settled = -1
    BY <2>1 DEF Placed
  <2>3. seen = {}
    BY <1>0, <2>2 DEF Given
  <2>4. Flying = {}
    BY <2>2, SentWaits DEF Waits
  <2>5. next' = log /\ begun' = log
    BY <1>2 DEF Resumes
  <2> QED
    BY <1>0, <2>1, <2>2, <2>3, <2>4, <2>5
<1>3. CASE arg \in Nat
  <2>1. (next' = arg \/ next' = head) /\ next' >= arg /\ next' >= head /\ begun' = begun
    BY <1>3 DEF Resumes
  <2> QED
    BY <1>0, <1>3, <2>1
<1> QED
  BY <1>0, <1>1, <1>2, <1>3

\* Nothing is lost below what waits or was settled.
LEMMA NoGapKept ==
  ASSUME StreamTypeOK, Channel, CountsSent, Placed, Given, NoGap, PastIsGone, Kinds
  PROVE  NoGap'
<1>0. /\ settled \in Int /\ next \in Nat /\ head \in Nat
      /\ \A o \in Offsets : o \in Nat /\ pending[o] \in Nat
      /\ \A d \in Delivery : d.off \in Offsets
  BY StreamTypes
<1>1. ASSUME UNCHANGED <<pending, settled, seen, done, passed, halted>>, head' \in Nat, head' >= head,
             begun' = begun \/ ((\A o \in Offsets : ~Waits(o)) /\ settled = -1)
      PROVE  NoGap'
  <2> SUFFICES ASSUME ~halted, NEW o \in Offsets, begun' <= o, ~Waits(o),
                      o <= settled \/ \E h \in Offsets : Waits(h) /\ o < h
               PROVE  Dealt(o)'
    BY <1>1 DEF NoGap, Waits
  <2>1. ~((\A x \in Offsets : ~Waits(x)) /\ settled = -1)
    BY <1>0
  <2>2. Dealt(o)
    BY <1>1, <2>1 DEF NoGap
  <2> QED
    BY <1>0, <1>1, <2>2 DEF Dealt, Missed
<1>2. CASE (Rests \/ GoesBack \/ Cuts) /\ StaysIdle
  <2>1. head' \in Nat /\ head' >= head
    BY <1>0, <1>2 DEF Rests, GoesBack, Cuts
  <2> QED
    BY <1>1, <1>2, <2>1 DEF Rests, GoesBack, Cuts, position
<1>3. CASE Resumes
  BY <1>0, <1>1, <1>3, ResumesFrom DEF Resumes, position
<1>4. CASE GoesBack \/ \E d \in Delivery : Empties(d)
  BY <1>0, <1>1, <1>4 DEF GoesBack, Empties, Loses, position
<1>5. ASSUME NEW d \in Delivery, Sends(d) PROVE NoGap'
  <2>1. /\ settled' = settled /\ \A o \in Offsets : Waits(o)' => Waits(o) \/ o = next
        /\ \A o \in Offsets : Waits(o) => Waits(o)'
    <3>1. /\ settled' = settled /\ next \in Offsets /\ pending'[next] = pending[next] + 1 /\ pending[next] \in Nat
          /\ \A o \in Offsets : o # next => pending'[o] = pending[o]
      BY <1>5, SendsWithin, StreamTypes
    <3> QED
      BY <3>1 DEF Waits
  <2>2. UNCHANGED <<head, seen, done, passed, halted, begun>>
    BY <1>5 DEF Sends
  <2> SUFFICES ASSUME ~halted, NEW o \in Offsets, begun <= o, ~Waits(o)', ~Waits(o),
                      o <= settled \/ \E h \in Offsets : Waits(h)' /\ o < h
               PROVE  Dealt(o)
    BY <2>1, <2>2 DEF NoGap, Dealt, Missed
  <2>3. CASE o <= settled \/ \E h \in Offsets : Waits(h) /\ o < h
    BY <2>3 DEF NoGap
  <2>4. CASE ~(o <= settled) /\ \A h \in Offsets : Waits(h) => ~(o < h)
    <3>1. o < next /\ settled < o /\ \A h \in Offsets : Waits(h) => h < o
      BY <1>0, <2>1, <2>4
    <3>2. o < head
      BY <3>1 DEF PastIsGone
    <3>3. o \notin seen
      BY <2>4 DEF Given
    <3> QED
      BY <3>2, <3>3 DEF Dealt, Missed
  <2> QED
    BY <2>3, <2>4
<1>6. ASSUME NEW d \in Delivery, Picks(d) PROVE NoGap'
  <2>1. /\ d \in Flying /\ seen' = seen \cup {d.off}
        /\ UNCHANGED <<pending, settled, head, done, passed, halted, begun>>
    BY <1>6 DEF Picks, position
  <2>2. Waits(d.off)
    BY <2>1, SentWaits DEF Waits
  <2> SUFFICES ASSUME ~halted, NEW o \in Offsets, begun <= o, ~Waits(o),
                      o <= settled \/ \E h \in Offsets : Waits(h) /\ o < h
               PROVE  Dealt(o)'
    BY <2>1 DEF NoGap, Waits
  <2>3. Dealt(o) /\ o # d.off
    BY <2>2 DEF NoGap
  <2> QED
    BY <2>1, <2>3 DEF Dealt, Missed
<1>7. ASSUME NEW d \in Delivery, Settles(d) PROVE NoGap'
  <2>1. /\ d \in Flying /\ Settle(d) /\ LetsGo(d) /\ UNCHANGED <<head, begun, seen>>
        /\ done \subseteq done' /\ passed \subseteq passed' /\ (halted => halted')
        /\ ~halted' => d.off \in done' \cup passed'
    BY <1>7 DEF Settles, LetsGo
  <2>2. /\ settled' = settled \/ settled' = d.off
        /\ \A o \in Offsets : Waits(o)' => Waits(o)
        /\ \A o \in Offsets : Waits(o) => Waits(o)' \/ o = d.off
    BY <2>1, PlacedAfter
  <2>3. Waits(d.off)
    BY <2>1, SentWaits DEF Waits
  <2> SUFFICES ASSUME ~halted', NEW o \in Offsets, begun <= o, ~Waits(o)',
                      o <= settled' \/ \E h \in Offsets : Waits(h)' /\ o < h
               PROVE  Dealt(o)'
    BY <2>1 DEF NoGap
  <2>4. CASE o = d.off
    BY <2>1, <2>4 DEF Dealt
  <2>5. CASE o # d.off
    <3>1. ~Waits(o) /\ (o <= settled \/ \E h \in Offsets : Waits(h) /\ o < h)
      BY <1>0, <2>2, <2>3, <2>5
    <3>2. Dealt(o)
      BY <2>1, <3>1 DEF NoGap
    <3> QED
      BY <2>1, <3>2 DEF Dealt, Missed
  <2> QED
    BY <2>4, <2>5
<1> QED
  BY <1>2, <1>3, <1>4, <1>5, <1>6, <1>7 DEF Kinds

\* What the subscription is past and never sent is gone.
LEMMA PastIsGoneKept ==
  ASSUME StreamTypeOK, StreamTypeOK', Channel, CountsSent, Placed, Given, PastIsGone, Kinds
  PROVE  PastIsGone'
<1>0. /\ settled \in Int /\ next \in Nat /\ head \in Nat /\ arg \in Int /\ begun \in Nat
      /\ \A o \in Offsets : o \in Nat /\ pending[o] \in Nat
      /\ \A d \in Delivery : d.off \in Offsets
  BY StreamTypes
<1>1. ASSUME UNCHANGED <<pending, settled, head, next, begun>> PROVE PastIsGone'
  BY <1>1 DEF PastIsGone, Waits
<1>2. CASE Rests \/ GoesBack \/ \E d \in Delivery : Picks(d) \/ Empties(d)
  BY <1>1, <1>2 DEF Rests, GoesBack, Picks, Empties, Loses, position
<1>3. CASE Cuts
  BY <1>0, <1>3 DEF PastIsGone, Waits, Cuts, position
<1>4. CASE Resumes
  <2>1. UNCHANGED <<pending, settled, head>>
    BY <1>4 DEF Resumes, position
  <2> SUFFICES ASSUME NEW o \in Offsets, begun' <= o, o < next', settled < o, \A h \in Offsets : Waits(h) => h < o
               PROVE  o < head
    BY <2>1 DEF PastIsGone, Waits
  <2>2. begun' = begun /\ (o < head \/ (arg \in Nat /\ o < arg))
    <3>1. begun' # next'
      <4>1. begun' \in Nat /\ next' \in Nat
        BY StreamTypes DEF StreamTypeOK
      <4> QED
        BY <1>0, <4>1
    <3> QED
      BY <1>4, <3>1, ResumesFrom
  <2>3. CASE arg \in Nat /\ o < arg
    <3>1. CASE \E h \in Offsets : Waits(h)
      <4>1. arg \in Offsets /\ Waits(arg)
        BY <3>1 DEF Placed
      <4> QED
        BY <1>0, <2>3, <4>1
    <3>2. CASE \A h \in Offsets : ~Waits(h)
      BY <1>0, <2>2, <2>3, <3>2 DEF Placed
    <3> QED
      BY <3>1, <3>2
  <2> QED
    BY <2>2, <2>3
<1>5. ASSUME NEW d \in Delivery, Sends(d) PROVE PastIsGone'
  <2>1. pending'[next] > 0 /\ next \in Offsets
    <3>1. next \in Offsets /\ pending'[next] = pending[next] + 1 /\ pending[next] \in Nat
      BY <1>5, SendsWithin, StreamTypes
    <3> QED
      BY <3>1
  <2>2. next' = next + 1
    BY <1>5 DEF Sends
  <2> SUFFICES ASSUME NEW o \in Offsets, o < next + 1, \A h \in Offsets : Waits(h)' => h < o
               PROVE  FALSE
    BY <2>2 DEF PastIsGone
  <2>3. next < o
    BY <2>1 DEF Waits
  <2> QED
    BY <1>0, <2>3
<1>6. ASSUME NEW d \in Delivery, Settles(d) PROVE PastIsGone'
  <2>1. d \in Flying /\ Settle(d) /\ UNCHANGED <<head, begun, next>>
    BY <1>6 DEF Settles, LetsGo
  <2>2. /\ settled' \in Nat /\ settled' >= settled /\ settled' >= d.off
        /\ \A o \in Offsets : Waits(o) => Waits(o)' \/ o = d.off
    BY <2>1, PlacedAfter
  <2> SUFFICES ASSUME NEW o \in Offsets, begun <= o, o < next, settled' < o, \A h \in Offsets : Waits(h)' => h < o
               PROVE  o < head
    BY <2>1 DEF PastIsGone
  <2>3. settled < o /\ \A h \in Offsets : Waits(h) => h < o
    BY <1>0, <2>2
  <2> QED
    BY <2>3 DEF PastIsGone
<1> QED
  BY <1>2, <1>3, <1>4, <1>5, <1>6 DEF Kinds

\* What is below the position is dealt with.
LEMMA BelowPosition ==
  ASSUME StreamTypeOK, Placed, NoGap, ~halted, NEW o \in Offsets, begun <= o, arg \in Nat, o < arg
  PROVE  Dealt(o)
<1>0. settled \in Int /\ begun \in Nat /\ o \in Nat
  BY StreamTypes
<1>1. CASE \E h \in Offsets : Waits(h)
  <2>1. arg \in Offsets /\ Waits(arg) /\ ~Waits(o)
    BY <1>0, <1>1 DEF Placed
  <2> QED
    BY <2>1 DEF NoGap
<1>2. CASE \A h \in Offsets : ~Waits(h)
  BY <1>0, <1>2 DEF Placed, NoGap
<1> QED
  BY <1>1, <1>2

\* What a worker gives up a handler was given.
LEMMA GivesUpGiven ==
  ASSUME StreamTypeOK, Given, NEW d \in Delivery, Empties(d) \/ (Settles(d) /\ ~halted)
  PROVE  d.off \in seen
<1>1. \E w \in Workers : hand[w] = d
  BY DEF Empties, Settles
<1> QED
  BY <1>1, StreamTypes DEF Given

\* One worker is given the entries in order.
LEMMA InTurnKept ==
  ASSUME StreamTypeOK, Placed, CountsSent, Given, NoGap, InTurn, Kinds
  PROVE  InTurn'
<1>0. /\ next \in Nat /\ head \in Nat /\ arg \in Int /\ begun \in Nat
      /\ \A o \in Offsets : o \in Nat
      /\ \A d \in Delivery : d.off \in Offsets
      /\ \A d \in Flying : d \in Delivery
      /\ seen \subseteq Offsets
  BY StreamTypes, FlyingIs DEF StreamTypeOK
<1>1. CASE Rests /\ StaysIdle
  <2>1. /\ UNCHANGED <<crew, halted, begun, seen, head, next>> /\ Flying' = Flying
        /\ stage' = "open" => stage = "open"
    BY <1>1 DEF Rests, StaysIdle
  <2> QED
    BY <2>1 DEF InTurn, Alone, Known, Carried
<1>2. CASE Cuts /\ StaysIdle
  <2>1. /\ UNCHANGED <<crew, halted, begun, seen, stage>> /\ Flying' = Flying
        /\ head' \in Nat /\ head' >= head /\ (next' = next \/ next' = head')
    BY <1>0, <1>2 DEF Cuts, StaysIdle
  <2>2. \A o \in Offsets : o < head => o < head'
    BY <1>0, <2>1
  <2>3. \A o \in Offsets : o < next' => o < next \/ o < head'
    BY <2>1
  <2> QED
    BY <2>1, <2>2, <2>3 DEF InTurn, Alone, Known, Carried
<1>3. CASE Resumes /\ StaysIdle
  <2>1. UNCHANGED <<crew, halted, head, seen, stage>> /\ Flying' = Flying
    BY <1>3 DEF Resumes, StaysIdle
  <2>2. begun' = begun \/ (seen = {} /\ Flying = {} /\ begun' = next')
    BY <1>3, ResumesFrom
  <2>3. \A o \in Offsets : begun' <= o /\ o < next' => o < head \/ (arg \in Nat /\ o < arg)
    BY <1>3, ResumesFrom
  <2>4. ASSUME ~halted, begun' = begun, NEW o \in Offsets, begun' <= o, o < next' PROVE Known(o) \/ o < head
    <3>1. CASE o < head
      BY <3>1
    <3>2. CASE arg \in Nat /\ o < arg
      <4>1. Dealt(o)
        BY <2>4, <3>2, BelowPosition
      <4> QED
        BY <4>1 DEF Dealt, Missed, Known, Given
    <3> QED
      BY <2>3, <2>4, <3>1, <3>2
  <2>5. CASE begun' = begun
    BY <2>1, <2>4, <2>5 DEF InTurn, Alone, Known, Carried
  <2>6. CASE seen = {} /\ Flying = {} /\ begun' = next'
    <3>1. next' \in Nat
      BY <1>0, <1>3, PositionTypes, StreamTypes DEF Resumes
    <3>2. \A o \in Offsets : ~(begun' <= o /\ o < next')
      BY <1>0, <2>6, <3>1
    <3> QED
      BY <2>1, <2>6, <3>2 DEF InTurn
  <2> QED
    BY <2>2, <2>5, <2>6
<1>4. ASSUME NEW d \in Delivery, Sends(d) PROVE InTurn'
  <2>1. /\ d.off = next /\ next' = next + 1 /\ Flying' = Flying \cup {d} /\ stage = "open"
        /\ \A e \in Flying : Before(e, d)
        /\ UNCHANGED <<crew, head, stage, halted, begun, seen>>
    BY <1>4 DEF Sends
  <2> SUFFICES ASSUME Alone, ~halted PROVE InTurn'
    BY <2>1 DEF InTurn, Alone
  <2>2. ASSUME NEW o \in Offsets, begun <= o, o < next
        PROVE  o \in seen \/ o < head \/ \E e \in Flying : Before(e, d) /\ e.off = o
    BY <2>1, <2>2 DEF InTurn, Known, Carried
  <2>3. ASSUME NEW x \in Flying', NEW o \in Offsets, begun <= o, o < x.off
        PROVE  o \in seen \/ o < head \/ \E e \in Flying' : Before(e, x) /\ e.off = o
    <3>1. CASE x = d
      BY <2>1, <2>2, <2>3, <3>1
    <3>2. CASE x \in Flying
      BY <2>1, <2>3, <3>2 DEF InTurn
    <3> QED
      BY <2>1, <3>1, <3>2
  <2>4. ASSUME NEW o \in Offsets, begun <= o, o < next + 1
        PROVE  o \in seen \/ o < head \/ \E e \in Flying' : e.off = o
    <3>1. CASE o = next
      BY <2>1, <3>1
    <3>2. CASE o < next
      BY <2>1, <2>2, <2>4, <3>2
    <3> QED
      BY <1>0, <2>4, <3>1, <3>2
  <2> QED
    BY <2>1, <2>3, <2>4 DEF InTurn, Known, Carried
<1>5. ASSUME NEW d \in Delivery, Picks(d) PROVE InTurn'
  <2>1. /\ d \in Flying /\ seen' = seen \cup {d.off} /\ Flying' = Flying /\ (Alone => First(d))
        /\ UNCHANGED <<crew, head, stage, halted, begun, next>>
    BY <1>5 DEF Picks
  <2> SUFFICES ASSUME Alone, ~halted PROVE InTurn'
    BY <2>1 DEF InTurn, Alone
  <2>2. ASSUME NEW o \in Offsets, begun <= o, o < d.off PROVE o \in seen \/ o < head
    <3>1. \A e \in Flying : ~Before(e, d)
      BY <1>0, <2>1, BeforeIs DEF First, UpTo
    <3> QED
      BY <2>1, <2>2, <3>1 DEF InTurn
  <2> QED
    BY <2>1, <2>2 DEF InTurn, Known, Carried
<1>6. ASSUME NEW d \in Delivery, Empties(d) \/ (Settles(d) /\ ~halted) PROVE InTurn'
  <2>1. /\ Flying' = Flying \ {d}
        /\ UNCHANGED <<crew, head, stage, begun, next, seen>> /\ (halted => halted')
    BY <1>6 DEF Empties, Loses, Settles, LetsGo
  <2>2. d.off \in seen
    BY <1>6, GivesUpGiven
  <2> SUFFICES ASSUME Alone, ~halted PROVE InTurn'
    BY <2>1 DEF InTurn, Alone
  <2>3. ASSUME NEW x \in Flying', NEW o \in Offsets, begun <= o, o < x.off
        PROVE  o \in seen \/ o < head \/ \E e \in Flying' : Before(e, x) /\ e.off = o
    BY <2>1, <2>2, <2>3 DEF InTurn
  <2>4. ASSUME stage = "open", NEW o \in Offsets, begun <= o, o < next
        PROVE  o \in seen \/ o < head \/ \E e \in Flying' : e.off = o
    BY <2>1, <2>2, <2>4 DEF InTurn, Known, Carried
  <2> QED
    BY <2>1, <2>3, <2>4 DEF InTurn, Known, Carried
<1>7. ASSUME NEW d \in Delivery, Settles(d), halted PROVE InTurn'
  BY <1>7 DEF Settles, LetsGo, InTurn
<1>8. CASE GoesBack
  <2>1. /\ Flying' \subseteq Flying /\ stage' # "open" /\ (Alone => \A d \in Flying' : First(d))
        /\ UNCHANGED <<crew, head, halted, begun, next, seen>>
    BY <1>8 DEF GoesBack
  <2> SUFFICES ASSUME Alone, ~halted PROVE InTurn'
    BY <2>1 DEF InTurn, Alone
  <2>2. ASSUME NEW x \in Flying', NEW o \in Offsets, begun <= o, o < x.off PROVE o \in seen \/ o < head
    <3>1. \A e \in Flying : ~Before(e, x)
      BY <1>0, <2>1, BeforeIs DEF First, UpTo
    <3> QED
      BY <2>1, <2>2, <3>1 DEF InTurn
  <2> QED
    BY <2>1, <2>2 DEF InTurn
<1> QED
  BY <1>1, <1>2, <1>3, <1>4, <1>5, <1>6, <1>7, <1>8 DEF Kinds

\* And where it stopped it stays.
LEMMA StoppedKept ==
  ASSUME StreamTypeOK, Hands, Placed, CountsSent, Given, InTurn, StoppedInTurn, Kinds
  PROVE  StoppedInTurn'
<1>0. /\ head \in Nat /\ begun \in Nat
      /\ \A o \in Offsets : o \in Nat
      /\ \A d \in Delivery : d.off \in Offsets /\ d # None
      /\ seen \subseteq Offsets
  BY StreamTypes DEF StreamTypeOK
<1>1. ASSUME UNCHANGED <<crew, halted, stoppedAt, seen, done, passed, escaped>>, halted => begun' = begun,
             head' \in Nat, head' >= head, \A w \in Workers : doing[w] = "idle" => doing'[w] = "idle"
      PROVE  StoppedInTurn'
  <2> SUFFICES ASSUME Alone, halted PROVE StoppedInTurn'
    BY <1>1 DEF StoppedInTurn, Alone
  <2>1. \A o \in Offsets : Dealt(o) => Dealt(o)'
    BY <1>0, <1>1 DEF Dealt, Missed
  <2> QED
    BY <1>1, <2>1 DEF StoppedInTurn
<1>2. CASE (Rests \/ Cuts) /\ StaysIdle
  <2>1. head' \in Nat /\ head' >= head
    BY <1>0, <1>2 DEF Rests, Cuts
  <2> QED
    BY <1>1, <1>2, <2>1 DEF Rests, Cuts, StaysIdle
<1>3. CASE Resumes /\ StaysIdle
  <2>1. halted => begun' = begun
    <3>1. begun' = begun \/ seen = {}
      BY <1>3, ResumesFrom
    <3> QED
      BY <3>1 DEF Given
  <2> QED
    BY <1>0, <1>1, <1>3, <2>1 DEF Resumes, StaysIdle
<1>4. CASE \/ \E d \in Delivery : Sends(d) /\ doing' = doing
           \/ GoesBack /\ doing' = doing
  BY <1>0, <1>1, <1>4 DEF Sends, GoesBack
<1>5. ASSUME NEW d \in Delivery, Picks(d) PROVE StoppedInTurn'
  BY <1>5 DEF Picks, StoppedInTurn
<1>6. ASSUME NEW d \in Delivery, Empties(d) PROVE StoppedInTurn'
  <2>1. PICK w \in Workers : hand[w] = d
    BY <1>6 DEF Empties
  <2>2. doing[w] # "idle" /\ halted' = halted /\ crew' = crew
    BY <1>0, <1>6, <2>1 DEF Hands, Empties, Loses
  <2> QED
    BY <2>2 DEF StoppedInTurn, Alone
<1>7. ASSUME NEW d \in Delivery, Settles(d) PROVE StoppedInTurn'
  <2>1. /\ UNCHANGED <<crew, head, begun, seen, escaped>> /\ done \subseteq done' /\ passed \subseteq passed'
        /\ halted => halted'
        /\ \A v \in Workers : doing[v] = "idle" => doing'[v] = "idle"
    BY <1>7 DEF Settles, LetsGo
  <2> SUFFICES ASSUME Alone, halted' PROVE StoppedInTurn'
    BY <2>1 DEF StoppedInTurn, Alone
  <2>2. CASE halted /\ UNCHANGED <<hand, done, passed, halted, stoppedAt>>
    BY <1>0, <1>1, <2>1, <2>2
  <2>3. ASSUME NEW w \in Workers, hand[w] = d, hand'[w] = None, doing'[w] = "idle",
               \/ halted' = halted /\ stoppedAt' = stoppedAt
               \/ halted' /\ stoppedAt' = IF stoppedAt = None THEN d.off ELSE stoppedAt
        PROVE  StoppedInTurn'
    <3>1. doing[w] # "idle" /\ w \in crew
      BY <1>0, <2>3 DEF Hands
    <3>2. ~halted /\ stoppedAt' = d.off
      BY <2>3, <3>1 DEF StoppedInTurn, Given
    <3>3. crew = {w}
      BY <3>1, OneWorker
    <3>4. \A v \in Workers : doing'[v] = "idle"
      BY <2>1, <2>3, <3>3 DEF Hands
    <3>5. d.off \in seen
      BY <1>0, <2>3 DEF Given
    <3>6. \A v \in Workers : hand[v] # None => v = w
      BY <3>3 DEF Hands
    <3>7. ASSUME NEW o \in Offsets, begun <= o, o < d.off PROVE Dealt(o)' \/ o \in escaped
      <4>1. CASE o \in seen
        <5>1. o # d.off
          BY <1>0, <3>7
        <5>2. o \in done \cup passed \cup escaped
          BY <2>3, <3>2, <3>6, <4>1, <5>1 DEF Given
        <5> QED
          BY <2>1, <5>2 DEF Dealt
      <4>2. CASE o \notin seen
        <5>1. o < head
          BY <3>2, <3>5, <3>7, <4>2 DEF InTurn
        <5> QED
          BY <2>1, <4>2, <5>1 DEF Dealt, Missed
      <4> QED
        BY <4>1, <4>2
    <3> QED
      BY <2>1, <3>2, <3>4, <3>7 DEF StoppedInTurn
  <2> QED
    BY <1>7, <2>2, <2>3 DEF Settles
<1> QED
  BY <1>2, <1>3, <1>4, <1>5, <1>6, <1>7 DEF Kinds

\* Fewer than few are few.
LEMMA FewOf ==
  ASSUME StreamTypeOK, NEW S \in SUBSET Offsets, NEW T \in SUBSET S, Cardinality(S) <= Prefetch
  PROVE  Cardinality(T) <= Prefetch
<1>1. IsFiniteSet(Offsets)
  BY StreamTypes, FS_Interval DEF Offsets
<1>2. IsFiniteSet(S) /\ IsFiniteSet(T)
  BY <1>1, FS_Subset
<1>3. Cardinality(S) \in Nat /\ Cardinality(T) \in Nat /\ Cardinality(T) <= Cardinality(S)
  BY <1>2, FS_Subset, FS_CardinalityType
<1> QED
  BY <1>3, StreamTypes

\* Nothing is known above the next entry when that is not.
LEMMA NothingAbove ==
  ASSUME StreamTypeOK, Channel, InTurn, Alone, ~halted, next \in Offsets, ~Known(next),
         NEW o \in Offsets, Known(o)
  PROVE  o < next
<1>0. next \in Nat /\ o \in Nat /\ head \in Nat /\ begun \in Nat /\ begun <= next /\ head <= next
  BY StreamTypes DEF Channel
<1> SUFFICES ASSUME next < o PROVE FALSE
  <2>1. o # next
    OBVIOUS
  <2> QED
    BY <1>0, <2>1
<1>1. next \notin seen /\ ~(next < head) /\ \A e \in Flying : e.off # next
  BY <1>0 DEF Known, Carried
<1>2. CASE o \in seen
  BY <1>0, <1>1, <1>2 DEF InTurn
<1>3. CASE Carried(o)
  BY <1>0, <1>1, <1>3 DEF InTurn, Carried
<1> QED
  BY <1>2, <1>3 DEF Known

\* What is sent again from the next entry on, with that entry.
LEMMA SentAgainWithNext ==
  ASSUME StreamTypeOK, Channel, InTurn, Alone, ~halted, next \in Offsets, Cardinality(SentAgain) <= Prefetch,
         NEW T \in SUBSET Offsets, \A o \in T : next <= o /\ (o = next \/ Known(o))
  PROVE  Cardinality(T) <= Prefetch
<1>1. CASE Known(next)
  <2>1. T \subseteq SentAgain /\ SentAgain \subseteq Offsets
    BY <1>1 DEF SentAgain
  <2> QED
    BY <2>1, FewOf
<1>2. CASE ~Known(next)
  <2>1. T \subseteq {next}
    <3> SUFFICES ASSUME NEW o \in T, o # next PROVE FALSE
      OBVIOUS
    <3>1. Known(o) /\ next <= o /\ o < next
      BY <1>2, NothingAbove
    <3> QED
      BY <3>1, StreamTypes
  <2>2. Cardinality({next}) = 1 /\ {next} \in SUBSET Offsets /\ 1 <= Prefetch
    <3>1. \A x : Cardinality({x}) = 1
      BY FS_Singleton
    <3>2. 1 <= Prefetch
      BY StreamTypes
    <3> QED
      BY <3>1, <3>2
  <2> QED
    BY <2>1, <2>2, FewOf
<1> QED
  BY <1>1, <1>2

\* The position once an entry is sent: that entry, or one that waits and not before it was.
LEMMA PositionSends ==
  ASSUME StreamTypeOK, Channel, Placed, NEW d \in Delivery, Sends(d)
  PROVE  /\ arg' \in Offsets /\ arg' \in Nat /\ arg' <= next
         /\ arg' = next \/ (pending[arg'] > 0 /\ arg <= arg' /\ begun <= arg')
<1>0. /\ next \in Offsets /\ next \in Nat
      /\ \A o \in Offsets : o \in Nat /\ pending[o] \in Nat
  BY StreamTypes, SendsWithin
<1>2. PICK a \in Offsets : a = arg'
  BY SendsWithin
<1>3. a \in Nat /\ a <= next /\ (a = next \/ (pending[a] > 0 /\ arg <= a /\ begun <= a))
  <2>1. pending'[a] > 0 /\ a <= next
    <3>1. /\ pending'[arg'] > 0 /\ pending'[next] = pending[next] + 1
          /\ \A o \in Offsets : pending'[o] > 0 => arg' <= o
      BY SendsWithin
    <3>2. pending[next] \in Nat
      BY <1>0
    <3>3. pending'[next] > 0
      BY <3>1, <3>2
    <3> QED
      BY <1>0, <1>2, <3>1, <3>3
  <2>2. CASE a # next
    <3>1. Waits(a)
      BY <1>2, <2>1, <2>2, SendsWithin DEF Waits
    <3> QED
      BY <1>0, <2>1, <3>1 DEF Placed, Channel, Waits
  <2> QED
    BY <1>0, <2>1, <2>2
<1> QED
  BY <1>2, <1>3

\* And what would be given again then is what would have been.
LEMMA PrefetchGiven ==
  ASSUME StreamTypeOK, Channel, Placed, NEW d \in Delivery, Sends(d)
  PROVE  GivenAgain' \subseteq GivenAgain
<1>0. /\ next \in Nat /\ arg \in Int /\ seen \subseteq Offsets /\ \A o \in Offsets : o \in Nat
  BY StreamTypes DEF StreamTypeOK
<1>1. next' = next + 1 /\ UNCHANGED <<stage, seen>> /\ stage = "open"
  BY DEF Sends
<1>2. PICK a \in Nat : a = arg'
  BY PositionSends
<1>3. a = next \/ arg <= a
  BY <1>2, PositionSends
<1> SUFFICES ASSUME NEW o \in seen, a <= o \/ next + 1 <= o PROVE arg <= o \/ next <= o
  BY <1>1, <1>2 DEF GivenAgain
<1>4. o \in Nat
  BY <1>0
<1> QED
  BY <1>0, <1>3, <1>4

\* A delivery leaves no more to be given again.
LEMMA PrefetchSends ==
  ASSUME StreamTypeOK, Channel, Placed, InTurn, WithinPrefetch, Alone, ~halted, escaped = {},
         NEW d \in Delivery, Sends(d)
  PROVE  WithinPrefetch'
<1>0. /\ next \in Offsets /\ next \in Nat /\ head \in Nat /\ begun \in Nat /\ arg \in Int
      /\ \A o \in Offsets : o \in Nat /\ pending[o] \in Nat
      /\ seen \subseteq Offsets /\ out \subseteq Offsets
      /\ \A e \in Flying : e \in Delivery /\ e.off \in Offsets
  BY StreamTypes, FlyingIs, SendsWithin DEF StreamTypeOK
<1>1. /\ d.off = next /\ next' = next + 1 /\ Flying' = Flying \cup {d} /\ stage = "open" /\ live
      /\ out' = out \cup {next} /\ Cardinality(out) < Prefetch
      /\ (\A e \in Flying : Before(e, d))
      /\ UNCHANGED <<head, stage, halted, begun, seen, escaped, crew>>
  BY DEF Sends
<1>2. PICK a \in Offsets : a = arg'
  BY SendsWithin
<1>3. a \in Nat /\ a <= next /\ (a = next \/ (Waits(a) /\ arg <= a /\ begun <= a))
  BY <1>0, <1>2, PositionSends DEF Waits
<1>4. /\ Cardinality(GivenAgain) <= Prefetch /\ (\A e \in Flying : Cardinality(AgainAt(e)) <= Prefetch)
      /\ Cardinality(SentAgain) <= Prefetch /\ Cardinality(FromPosition) <= Prefetch
      /\ \A o \in Offsets : begun <= o /\ arg <= o /\ head <= o /\ o < next => o \in out
  BY <1>1 DEF WithinPrefetch
<1>5. \A o : Known(o)' <=> Known(o) \/ o = next
  BY <1>1 DEF Known, Carried
<1>6. Cardinality(GivenAgain') <= Prefetch
  <2>1. PICK T : T = GivenAgain'
    OBVIOUS
  <2>2. T \subseteq GivenAgain
    BY <2>1, PrefetchGiven
  <2>3. GivenAgain \subseteq Offsets
    BY <1>0 DEF GivenAgain
  <2> QED
    BY <1>4, <2>1, <2>2, <2>3, FewOf
<1>7. Cardinality(SentAgain') <= Prefetch
  <2>1. PICK T : T = SentAgain'
    OBVIOUS
  <2>2. T \subseteq SentAgain
    <3> SUFFICES ASSUME NEW o \in Offsets, Known(o) \/ o = next, next + 1 <= o PROVE Known(o) /\ next <= o
      BY <1>1, <1>5, <2>1 DEF SentAgain
    <3> QED
      BY <1>0
  <2>3. SentAgain \subseteq Offsets
    BY DEF SentAgain
  <2> QED
    BY <1>4, <2>1, <2>2, <2>3, FewOf
<1>8. Cardinality(FromPosition') <= Prefetch
  <2>1. PICK T : T = FromPosition'
    OBVIOUS
  <2>2. \A o \in T : o \in Offsets /\ o \in Nat /\ (Known(o) \/ o = next) /\ a <= o /\ head <= o
    BY <1>0, <1>1, <1>2, <1>5, <2>1 DEF FromPosition
  <2>3. CASE a = next
    BY <1>0, <1>4, <2>1, <2>2, <2>3, SentAgainWithNext
  <2>4. CASE a # next /\ Known(next)
    <3>1. T \subseteq FromPosition
      <4> SUFFICES ASSUME NEW o \in T PROVE Known(o) /\ arg <= o /\ head <= o /\ o \in Offsets
        BY DEF FromPosition
      <4>1. arg <= a
        BY <1>3, <2>4
      <4>2. arg <= o
        BY <1>0, <1>3, <2>2, <4>1
      <4> QED
        BY <2>2, <2>4, <4>2
    <3>2. FromPosition \subseteq Offsets
      BY DEF FromPosition
    <3> QED
      BY <1>4, <2>1, <3>1, <3>2, FewOf
  <2>5. CASE a # next /\ ~Known(next)
    <3>1. T \subseteq out \cup {next}
      <4> SUFFICES ASSUME NEW o \in T, o # next PROVE o \in out
        OBVIOUS
      <4>1. o < next
        BY <1>0, <2>2, <2>5, NothingAbove
      <4>2. arg <= a /\ begun <= a
        BY <1>3, <2>5
      <4>3. arg <= o /\ begun <= o
        BY <1>0, <1>3, <2>2, <4>2
      <4> QED
        BY <1>4, <2>2, <4>1, <4>3
    <3>2. IsFiniteSet(out) /\ IsFiniteSet(Offsets)
      <4>1. IsFiniteSet(Offsets)
        BY StreamTypes, FS_Interval DEF Offsets
      <4> QED
        BY <1>0, <4>1, FS_Subset
    <3>3. Cardinality(out \cup {next}) <= Cardinality(out) + 1 /\ Cardinality(out) \in Nat
      <4>1. Cardinality(out) \in Nat
        BY <3>2, FS_CardinalityType
      <4>2. Cardinality(out \cup {next}) = IF next \in out THEN Cardinality(out) ELSE Cardinality(out) + 1
        BY <3>2, FS_AddElement
      <4> QED
        BY <4>1, <4>2
    <3>4. IsFiniteSet(out \cup {next}) /\ out \cup {next} \in SUBSET Offsets
      BY <1>0, <3>2, FS_AddElement
    <3>5. Cardinality(out \cup {next}) \in Nat
      BY <3>4, FS_CardinalityType
    <3>6. Cardinality(out \cup {next}) <= Prefetch
      <4>1. PICK n \in Nat : n = Cardinality(out)
        BY <3>3
      <4>2. PICK c \in Nat : c = Cardinality(out \cup {next})
        BY <3>5
      <4>3. c <= n + 1 /\ n < Prefetch /\ Prefetch \in Nat
        BY <1>1, <3>3, <4>1, <4>2, StreamTypes
      <4>4. c <= Prefetch
        BY <4>3
      <4> QED
        BY <4>2, <4>4
    <3> QED
      BY <2>1, <3>1, <3>4, <3>6, FewOf
  <2> QED
    BY <2>3, <2>4, <2>5
<1>9. ASSUME NEW e \in Flying' PROVE Cardinality(AgainAt(e)') <= Prefetch
  <2>1. PICK T : T = AgainAt(e)'
    OBVIOUS
  <2>2. \A o \in T : /\ o \in Offsets
                     /\ o \in seen \/ \E x \in Flying \cup {d} : UpTo(x, e) /\ x.off = o
                     /\ next + 1 <= o \/ \E x \in Flying \cup {d} : UpTo(e, x) /\ x.off <= o
    BY <1>1, <2>1 DEF AgainAt, UpTo, Before
  <2>3. CASE e = d
    <3>1. \A x \in Flying : ~UpTo(d, x)
      BY <1>0, <1>1, BeforeIs DEF UpTo
    <3>2. ASSUME NEW o \in T PROVE next <= o /\ (o = next \/ Known(o))
      <4>0. o \in Nat /\ (next + 1 <= o \/ d.off <= o)
        BY <1>0, <2>2, <2>3, <3>1
      <4>1. next <= o
        BY <1>0, <1>1, <4>0
      <4>2. o = next \/ Known(o)
        BY <1>1, <2>2 DEF Known, Carried
      <4> QED
        BY <4>1, <4>2
    <3>3. T \in SUBSET Offsets
      BY <2>2
    <3> QED
      BY <1>0, <1>4, <2>1, <3>2, <3>3, SentAgainWithNext
  <2>4. CASE e \in Flying
    <3>1. ~UpTo(d, e) /\ e \in Delivery
      BY <1>0, <1>1, <2>4, BeforeIs DEF UpTo
    <3>2. ASSUME NEW o \in T PROVE o \in AgainAt(e)
      <4>1. o \in seen \/ \E x \in Flying : UpTo(x, e) /\ x.off = o
        BY <2>2, <3>1
      <4>2. next <= o \/ \E x \in Flying : UpTo(e, x) /\ x.off <= o
        <5>0. o \in Nat
          BY <1>0, <2>2
        <5>1. next + 1 <= o => next <= o
          BY <1>0, <5>0
        <5>2. d.off = next
          BY <1>1
        <5> QED
          BY <2>2, <5>1, <5>2
      <4> QED
        BY <2>2, <4>1, <4>2 DEF AgainAt
    <3>3. AgainAt(e) \subseteq Offsets
      BY DEF AgainAt
    <3> QED
      BY <1>4, <2>1, <2>4, <3>2, <3>3, FewOf
  <2> QED
    BY <1>1, <2>3, <2>4
<1>10. ASSUME NEW o \in Offsets, begun <= o, a <= o, head <= o, o < next + 1 PROVE o \in out \cup {next}
  <2>1. CASE o = next
    BY <2>1
  <2>2. CASE o < next
    BY <1>0, <1>3, <1>4, <1>10, <2>2
  <2> QED
    BY <1>0, <1>10, <2>1, <2>2
<1> QED
  BY <1>1, <1>2, <1>6, <1>7, <1>8, <1>9, <1>10 DEF WithinPrefetch

\* Where nothing escaped from an open reader, what waits is with it.
LEMMA WaitsSent ==
  ASSUME StreamTypeOK, CountsSent, stage = "open", escaped = {}, NEW o \in Offsets, Waits(o)
  PROVE  \E e \in Flying : e.off = o
<1>1. Cardinality(Sent(o)) = pending[o] /\ pending[o] \in Nat
  BY StreamTypes DEF CountsSent
<1>2. Sent(o) # {}
  BY <1>1, FS_EmptySet DEF Waits
<1> QED
  BY <1>2 DEF Sent

\* A position that moves on leaves no more to be given again.
LEMMA PrefetchEnds ==
  ASSUME StreamTypeOK, StreamTypeOK', Channel, CountsSent, CountsSent', Placed, WithinPrefetch, Alone, escaped = {},
         NEW d \in Delivery, Settles(d)
  PROVE  WithinPrefetch'
<1>0. /\ next \in Nat /\ head \in Nat /\ begun \in Nat /\ arg \in Int
      /\ \A o \in Offsets : o \in Nat
      /\ seen \subseteq Offsets
      /\ \A e \in Flying : e \in Delivery /\ e.off \in Offsets /\ e.off \in Nat /\ e.gen \in Nat
      /\ gen \in Nat
  BY StreamTypes, FlyingIs DEF StreamTypeOK
<1>1. /\ d \in Flying /\ Settle(d) /\ Flying' = Flying \ {d} /\ First(d)
      /\ UNCHANGED <<head, live, gen, next, stage, begun, seen, escaped, crew>> /\ (halted => halted')
  BY DEF Settles, LetsGo
<1>2. /\ \A o \in Offsets : Waits(o)' => arg' \in Offsets /\ Waits(arg)' /\ arg' <= o
      /\ (\A o \in Offsets : ~Waits(o)') => arg' = settled' + 1
      /\ arg' \in Nat /\ settled' \in Nat /\ settled' >= d.off
      /\ \A o \in Offsets : Waits(o)' => Waits(o)
  BY <1>1, PlacedAfter
<1>3. PICK a \in Nat : a = arg'
  BY <1>2
<1>4. (a \in Offsets /\ pending'[a] > 0) \/ (a > d.off /\ \A o \in Offsets : ~Waits(o)')
  <2>1. CASE \E o \in Offsets : Waits(o)'
    BY <1>2, <1>3, <2>1 DEF Waits
  <2>2. CASE \A o \in Offsets : ~Waits(o)'
    <3>1. PICK s \in Nat : s = settled'
      BY <1>2
    <3>2. a = s + 1 /\ d.off <= s /\ d.off \in Nat
      BY <1>0, <1>1, <1>2, <1>3, <2>2, <3>1
    <3>3. a > d.off
      BY <3>2
    <3> QED
      BY <2>2, <3>3
  <2> QED
    BY <2>1, <2>2
<1>5. arg <= a
  <2>1. CASE a \in Offsets /\ pending'[a] > 0
    <3>1. Waits(a)
      BY <1>2, <2>1 DEF Waits
    <3> QED
      BY <2>1, <3>1 DEF Placed
  <2>2. CASE a > d.off
    <3>1. Waits(d.off) /\ d.off \in Offsets
      BY <1>1, SentWaits DEF Waits
    <3>2. arg <= d.off
      BY <3>1 DEF Placed
    <3> QED
      BY <1>0, <1>1, <2>2, <3>2
  <2> QED
    BY <1>4, <2>1, <2>2
<1>6. \A o \in Offsets : a <= o => arg <= o
  BY <1>0, <1>5
<1>7. \A o : Known(o)' => Known(o)
  BY <1>1 DEF Known, Carried
<1>8. Cardinality(GivenAgain') <= Prefetch
  <2>1. GivenAgain' \subseteq GivenAgain /\ GivenAgain \subseteq Offsets
    BY <1>0, <1>1, <1>3, <1>6 DEF GivenAgain
  <2>2. PICK T : T = GivenAgain'
    OBVIOUS
  <2> QED
    BY <2>1, <2>2, FewOf DEF WithinPrefetch
<1> SUFFICES ASSUME stage = "open", ~halted, ~halted'
             PROVE  /\ \A e \in Flying' : Cardinality(AgainAt(e)') <= Prefetch
                    /\ Cardinality(SentAgain') <= Prefetch
                    /\ Cardinality(FromPosition') <= Prefetch
                    /\ live => \A o \in Offsets :
                         begun <= o /\ a <= o /\ head <= o /\ o < next => o \in out'
  BY <1>1, <1>3, <1>8 DEF WithinPrefetch
<1>9. Cardinality(SentAgain') <= Prefetch
  <2>1. SentAgain' \subseteq SentAgain /\ SentAgain \subseteq Offsets
    BY <1>1, <1>7 DEF SentAgain
  <2>2. PICK T : T = SentAgain'
    OBVIOUS
  <2> QED
    BY <2>1, <2>2, FewOf DEF WithinPrefetch
<1>10. Cardinality(FromPosition') <= Prefetch
  <2>1. FromPosition' \subseteq FromPosition /\ FromPosition \subseteq Offsets
    BY <1>1, <1>3, <1>6, <1>7 DEF FromPosition
  <2>2. PICK T : T = FromPosition'
    OBVIOUS
  <2> QED
    BY <2>1, <2>2, FewOf DEF WithinPrefetch
<1>11. ASSUME NEW e \in Flying' PROVE Cardinality(AgainAt(e)') <= Prefetch
  <2>1. AgainAt(e)' \subseteq AgainAt(e) /\ AgainAt(e) \subseteq Offsets
    BY <1>1 DEF AgainAt, UpTo, Before
  <2>2. PICK T : T = AgainAt(e)'
    OBVIOUS
  <2>3. e \in Flying
    BY <1>1
  <2> QED
    BY <2>1, <2>2, <2>3, FewOf DEF WithinPrefetch
<1>12. ASSUME live, NEW o \in Offsets, begun <= o, a <= o, head <= o, o < next PROVE o \in out'
  <2>1. o \in out
    BY <1>6, <1>12 DEF WithinPrefetch
  <2>2. d.gen = gen => o # d.off
    <3> SUFFICES ASSUME d.gen = gen PROVE d.off < a
      BY <1>0, <1>1, <1>12
    <3>1. CASE a \in Offsets /\ pending'[a] > 0
      <4>1. Cardinality(Sent(a)') = pending'[a]
        BY <1>1, <3>1 DEF CountsSent
      <4>2. \E e \in Flying' : e.off = a
        <5>1. PICK S : S = Sent(a)'
          OBVIOUS
        <5>2. S # {}
          BY <3>1, <4>1, <5>1, FS_EmptySet
        <5> QED
          BY <5>1, <5>2 DEF Sent
      <4>3. PICK e \in Flying : e # d /\ e.off = a
        BY <1>1, <4>2
      <4>4. Before(d, e)
        BY <1>1, <4>3 DEF First, UpTo
      <4>5. e.gen <= gen
        BY <1>0, <4>3 DEF Channel
      <4> QED
        BY <1>0, <1>1, <4>3, <4>4, <4>5 DEF Before
    <3> QED
      BY <1>4, <3>1
  <2>3. out' = IF d.gen = gen THEN out \ {d.off} ELSE out
    BY <1>1 DEF Settle
  <2> QED
    BY <2>1, <2>2, <2>3
<1> QED
  BY <1>9, <1>10, <1>11, <1>12

\* No more than the prefetch is given again.
LEMMA WithinPrefetchKept ==
  ASSUME StreamTypeOK, StreamTypeOK', Channel, CountsSent, CountsSent', Placed, Given, NoGap, InTurn, StoppedInTurn,
         WithinPrefetch, Hands, Kinds
  PROVE  WithinPrefetch'
<1>0. /\ next \in Nat /\ head \in Nat /\ begun \in Nat /\ arg \in Int
      /\ \A o \in Offsets : o \in Nat
      /\ seen \subseteq Offsets
      /\ \A e \in Flying : e \in Delivery /\ e.off \in Offsets /\ e.off \in Nat
      /\ next' \in Nat /\ head' \in Nat
  <2>1. next' \in 0..Last + 1 /\ head' \in 0..MaxDiscards /\ seen \subseteq Offsets
    BY DEF StreamTypeOK
  <2>2. next' \in Nat /\ head' \in Nat
    BY <2>1, StreamTypes
  <2>3. \A e \in Flying : e \in Delivery
    BY FlyingIs
  <2> QED
    BY <2>1, <2>2, <2>3, StreamTypes
<1>1. CASE Rests /\ StaysIdle
  <2>1. /\ UNCHANGED <<crew, halted, begun, seen, head, next, arg, escaped>> /\ Flying' = Flying
        /\ stage' = "open" => stage = "open"
        /\ live' => live /\ out' = out
    BY <1>1 DEF Rests, StaysIdle, position
  <2>2. SentAgain' = SentAgain /\ FromPosition' = FromPosition /\ \A d : AgainAt(d)' = AgainAt(d)
    BY <2>1 DEF SentAgain, FromPosition, AgainAt, Known, Carried, UpTo, Before
  <2>3. GivenAgain' \subseteq GivenAgain /\ GivenAgain \subseteq Offsets
    BY <1>0, <2>1 DEF GivenAgain
  <2>4. PICK T : T = GivenAgain'
    OBVIOUS
  <2>5. Alone /\ escaped = {} => Cardinality(T) <= Prefetch
    BY <2>3, <2>4, FewOf DEF WithinPrefetch
  <2> QED
    BY <2>1, <2>2, <2>4, <2>5 DEF WithinPrefetch, Alone
<1>2. CASE Cuts /\ StaysIdle
  <2>1. /\ UNCHANGED <<crew, halted, begun, seen, arg, escaped, stage, live, out>> /\ Flying' = Flying
        /\ head' >= head /\ next' >= next /\ (next' = next \/ next' = head')
    BY <1>0, <1>2 DEF Cuts, StaysIdle, position
  <2>2. \A o \in Offsets : (next' <= o => next <= o) /\ (head' <= o => head <= o) /\ (head' <= o /\ o < next' => o < next)
    BY <1>0, <2>1
  <2>3. /\ GivenAgain' \subseteq GivenAgain /\ SentAgain' \subseteq SentAgain /\ FromPosition' \subseteq FromPosition
        /\ \A d : AgainAt(d)' \subseteq AgainAt(d)
    BY <1>0, <2>1, <2>2 DEF GivenAgain, SentAgain, FromPosition, AgainAt, Known, Carried, UpTo, Before
  <2>4. /\ GivenAgain \subseteq Offsets /\ SentAgain \subseteq Offsets /\ FromPosition \subseteq Offsets
        /\ \A d : AgainAt(d) \subseteq Offsets
    BY <1>0 DEF GivenAgain, SentAgain, FromPosition, AgainAt
  <2> SUFFICES ASSUME Alone, escaped = {} PROVE WithinPrefetch'
    BY <2>1 DEF WithinPrefetch, Alone
  <2>5. Cardinality(GivenAgain') <= Prefetch
    <3>1. PICK T : T = GivenAgain'
      OBVIOUS
    <3> QED
      BY <2>3, <2>4, <3>1, FewOf DEF WithinPrefetch
  <2> SUFFICES ASSUME stage = "open", ~halted
               PROVE  /\ \A d \in Flying : Cardinality(AgainAt(d)') <= Prefetch
                      /\ Cardinality(SentAgain') <= Prefetch
                      /\ Cardinality(FromPosition') <= Prefetch
                      /\ live => \A o \in Offsets :
                           begun <= o /\ arg <= o /\ head' <= o /\ o < next' => o \in out
    BY <2>1, <2>5 DEF WithinPrefetch
  <2>6. ASSUME NEW d \in Flying PROVE Cardinality(AgainAt(d)') <= Prefetch
    <3>1. PICK T : T = AgainAt(d)'
      OBVIOUS
    <3> QED
      BY <2>3, <2>4, <3>1, FewOf DEF WithinPrefetch
  <2>7. Cardinality(SentAgain') <= Prefetch
    <3>1. PICK T : T = SentAgain'
      OBVIOUS
    <3> QED
      BY <2>3, <2>4, <3>1, FewOf DEF WithinPrefetch
  <2>8. Cardinality(FromPosition') <= Prefetch
    <3>1. PICK T : T = FromPosition'
      OBVIOUS
    <3> QED
      BY <2>3, <2>4, <3>1, FewOf DEF WithinPrefetch
  <2> QED
    BY <2>2, <2>6, <2>7, <2>8 DEF WithinPrefetch
<1>3. CASE Resumes /\ StaysIdle
  <2>1. /\ UNCHANGED <<crew, halted, seen, arg, escaped, stage, head>> /\ Flying' = Flying /\ stage = "open"
        /\ head <= next'
    BY <1>0, <1>3, PositionTypes DEF Resumes, StaysIdle, position
  <2>2. /\ \A o \in Offsets : arg <= o /\ head <= o /\ begun' <= o => next' <= o
        /\ arg \in Nat => next' >= arg
    BY <1>3, ResumesFrom
  <2>3. \A o \in Offsets : next' <= o => arg <= o /\ head <= o
    <3>1. arg \in Nat \/ arg <= 0
      BY <1>0
    <3> QED
      BY <1>0, <2>1, <2>2, <3>1
  <2>4. \A o : Known(o)' <=> Known(o)
    BY <2>1 DEF Known, Carried
  <2>5. /\ GivenAgain' \subseteq GivenAgain /\ FromPosition' \subseteq FromPosition /\ SentAgain' \subseteq FromPosition
        /\ GivenAgain \subseteq Offsets /\ FromPosition \subseteq Offsets
    BY <1>0, <2>1, <2>3, <2>4 DEF GivenAgain, FromPosition, SentAgain
  <2> SUFFICES ASSUME Alone, escaped = {} PROVE WithinPrefetch'
    BY <2>1 DEF WithinPrefetch, Alone
  <2>6. Cardinality(GivenAgain') <= Prefetch
    <3>1. PICK T : T = GivenAgain'
      OBVIOUS
    <3> QED
      BY <2>5, <3>1, FewOf DEF WithinPrefetch
  <2> SUFFICES ASSUME ~halted
               PROVE  /\ \A d \in Flying : Cardinality(AgainAt(d)') <= Prefetch
                      /\ Cardinality(SentAgain') <= Prefetch
                      /\ Cardinality(FromPosition') <= Prefetch
    BY <1>0, <2>1, <2>2, <2>6 DEF WithinPrefetch
  <2>7. Cardinality(FromPosition) <= Prefetch /\ \A d \in Flying : Cardinality(AgainAt(d)) <= Prefetch
    BY <2>1 DEF WithinPrefetch
  <2>8. Cardinality(SentAgain') <= Prefetch
    <3>1. PICK T : T = SentAgain'
      OBVIOUS
    <3> QED
      BY <2>5, <2>7, <3>1, FewOf
  <2>9. Cardinality(FromPosition') <= Prefetch
    <3>1. PICK T : T = FromPosition'
      OBVIOUS
    <3> QED
      BY <2>5, <2>7, <3>1, FewOf
  <2>10. ASSUME NEW d \in Flying PROVE Cardinality(AgainAt(d)') <= Prefetch
    <3>1. PICK T : T = AgainAt(d)'
      OBVIOUS
    <3>2. \A o \in T : /\ o \in Offsets
                       /\ o \in seen \/ \E e \in Flying : UpTo(e, d) /\ e.off = o
                       /\ next' <= o \/ \E e \in Flying : UpTo(d, e) /\ e.off <= o
      BY <2>1, <3>1 DEF AgainAt, UpTo, Before
    <3>3. CASE \E e \in Flying : UpTo(d, e) /\ e.off <= next'
      <4>1. PICK e \in Flying : UpTo(d, e) /\ e.off <= next'
        BY <3>3
      <4>2. ASSUME NEW o \in T PROVE o \in AgainAt(d)
        <5>1. o \in Nat /\ (next' <= o => e.off <= o)
          BY <1>0, <3>2, <4>1
        <5> QED
          BY <3>2, <4>1, <5>1 DEF AgainAt
      <4>3. AgainAt(d) \subseteq Offsets
        BY DEF AgainAt
      <4> QED
        BY <2>7, <3>1, <4>2, <4>3, FewOf
    <3>4. CASE \A e \in Flying : UpTo(d, e) => ~(e.off <= next')
      <4>1. ASSUME NEW o \in T PROVE o \in FromPosition
        <5>1. next' <= o
          <6>1. o \in Nat /\ \A e \in Flying : UpTo(d, e) => next' < e.off
            BY <1>0, <3>2, <3>4
          <6> QED
            BY <1>0, <3>2, <6>1
        <5>2. Known(o)
          BY <3>2 DEF Known, Carried
        <5> QED
          BY <2>3, <3>2, <5>1, <5>2 DEF FromPosition
      <4> QED
        BY <2>5, <2>7, <3>1, <4>1, FewOf
    <3> QED
      BY <3>3, <3>4
  <2> QED
    BY <2>8, <2>9, <2>10
<1>4. ASSUME NEW d \in Delivery, Sends(d) PROVE WithinPrefetch'
  <2>1. UNCHANGED <<crew, halted, escaped, seen, stage>> /\ stage = "open"
    BY <1>4 DEF Sends
  <2> SUFFICES ASSUME Alone, escaped = {} PROVE WithinPrefetch'
    BY <2>1 DEF WithinPrefetch, Alone
  <2>2. CASE ~halted
    BY <1>4, <2>2, PrefetchSends
  <2>3. CASE halted
    <3>1. GivenAgain' \subseteq GivenAgain
      BY <1>4, PrefetchGiven
    <3>2. PICK T : T = GivenAgain'
      OBVIOUS
    <3>3. GivenAgain \subseteq Offsets
      BY <1>0 DEF GivenAgain
    <3>4. Cardinality(T) <= Prefetch
      BY <3>1, <3>2, <3>3, FewOf DEF WithinPrefetch
    <3> QED
      BY <2>1, <2>3, <3>2, <3>4 DEF WithinPrefetch
  <2> QED
    BY <2>2, <2>3
<1>5. ASSUME NEW d \in Delivery, Picks(d) PROVE WithinPrefetch'
  <2>1. /\ d \in Flying /\ ~halted /\ stage = "open" /\ seen' = seen \cup {d.off} /\ Flying' = Flying
        /\ UNCHANGED <<crew, halted, begun, head, next, arg, escaped, stage, live, out>> /\ (Alone => First(d))
    BY <1>5 DEF Picks, position
  <2> SUFFICES ASSUME Alone, escaped = {} PROVE WithinPrefetch'
    BY <2>1 DEF WithinPrefetch, Alone
  <2>2. \A o : Known(o)' <=> Known(o)
    BY <2>1 DEF Known, Carried
  <2>3. SentAgain' = SentAgain /\ FromPosition' = FromPosition
    BY <2>1, <2>2 DEF SentAgain, FromPosition
  <2>4. \A e \in Flying : AgainAt(e)' = AgainAt(e)
    <3> SUFFICES ASSUME NEW e \in Flying PROVE AgainAt(e)' = AgainAt(e)
      OBVIOUS
    <3>1. UpTo(d, e)
      BY <2>1 DEF First
    <3> QED
      BY <2>1, <3>1 DEF AgainAt, UpTo, Before
  <2>5. Cardinality(GivenAgain') <= Prefetch
    <3>1. PICK T : T = GivenAgain'
      OBVIOUS
    <3>2. \E e \in Flying : e.off = arg
      <4>1. Waits(d.off) /\ d.off \in Offsets
        BY <2>1, SentWaits DEF Waits
      <4>2. arg \in Offsets /\ Waits(arg)
        BY <4>1 DEF Placed
      <4> QED
        BY <2>1, <4>2, WaitsSent
    <3>3. \A e \in Flying : UpTo(d, e)
      BY <2>1 DEF First
    <3>4. T \subseteq AgainAt(d)
      <4> SUFFICES ASSUME NEW o \in T PROVE o \in AgainAt(d)
        OBVIOUS
      <4>1. (o \in seen \/ o = d.off) /\ (arg <= o \/ next <= o) /\ o \in Offsets
        BY <1>0, <2>1, <3>1 DEF GivenAgain
      <4>2. UpTo(d, d)
        BY DEF UpTo
      <4> QED
        BY <2>1, <3>2, <3>3, <4>1, <4>2 DEF AgainAt
    <3>5. AgainAt(d) \subseteq Offsets /\ Cardinality(AgainAt(d)) <= Prefetch
      BY <2>1 DEF AgainAt, WithinPrefetch
    <3> QED
      BY <3>1, <3>4, <3>5, FewOf
  <2> QED
    BY <2>1, <2>3, <2>4, <2>5 DEF WithinPrefetch
<1>6. ASSUME NEW d \in Delivery, Settles(d) PROVE WithinPrefetch'
  <2>1. UNCHANGED <<crew, escaped>>
    BY <1>6 DEF Settles, LetsGo
  <2> SUFFICES ASSUME Alone, escaped = {} PROVE WithinPrefetch'
    BY <2>1 DEF WithinPrefetch, Alone
  <2> QED
    BY <1>6, PrefetchEnds
<1>7. ASSUME NEW d \in Delivery, Empties(d) PROVE WithinPrefetch'
  BY <1>7 DEF Empties, Loses, WithinPrefetch
<1>8. CASE GoesBack
  <2>1. UNCHANGED <<crew, seen, arg, next, escaped>> /\ stage' # "open"
    BY <1>8 DEF GoesBack, position
  <2>2. GivenAgain' \subseteq GivenAgain /\ GivenAgain \subseteq Offsets
    BY <1>0, <2>1 DEF GivenAgain
  <2>3. PICK T : T = GivenAgain'
    OBVIOUS
  <2>4. Alone /\ escaped = {} => Cardinality(T) <= Prefetch
    BY <2>2, <2>3, FewOf DEF WithinPrefetch
  <2> QED
    BY <2>1, <2>3, <2>4 DEF WithinPrefetch, Alone
<1> QED
  BY <1>1, <1>2, <1>3, <1>4, <1>5, <1>6, <1>7, <1>8 DEF Kinds

\* A reader begins with nothing.
LEMMA StreamBegins ==
  ASSUME StreamInit
  PROVE  StreamInv
<1>0. Last \in Nat /\ MaxDrops \in Nat /\ MaxDiscards \in Nat /\ Prefetch \in Nat /\ Prefetch > 0
      /\ Workers # {} /\ None \notin Delivery
  BY StreamAssumption
<1>1. /\ onFailure \in {"stop", "dead_letter"} /\ log \in 0..1 /\ head = 0 /\ arg \in Starts
      /\ pending = [o \in Offsets |-> 0] /\ settled = -1
      /\ live = TRUE /\ gen = 0 /\ next = Resolve(arg) /\ out = {}
      /\ work = <<>> /\ hand = [w \in Workers |-> None] /\ doing = [w \in Workers |-> "idle"]
      /\ stage = "open" /\ halted = FALSE /\ begun = Resolve(arg)
      /\ seen = {} /\ done = {} /\ passed = {} /\ escaped = {} /\ stoppedAt = None
  BY DEF StreamInit
<1>2. crew \subseteq Workers
  <2>1. (CHOOSE w \in Workers : TRUE) \in Workers
    BY <1>0
  <2> QED
    BY <2>1 DEF StreamInit
<1>3. /\ next \in 0..Last + 1 /\ begun = next
      /\ arg = FromFirst => next = 0
      /\ arg \in Nat => next = arg
  <2>1. CASE arg = FromFirst
    <3>1. next = 0
      BY <1>1, <2>1 DEF Resolve, FromFirst, FromNext
    <3> QED
      BY <1>0, <1>1, <2>1, <3>1 DEF FromFirst
  <2>2. CASE arg = FromNext
    <3>1. next = log
      BY <1>1, <2>2 DEF Resolve, FromFirst, FromNext
    <3> QED
      BY <1>0, <1>1, <2>2, <3>1 DEF FromFirst, FromNext
  <2>3. CASE arg \in Offsets
    <3>1. arg \in Nat /\ arg <= Last
      BY <1>0, <2>3 DEF Offsets
    <3>2. arg # FromFirst /\ arg # FromNext
      BY <3>1 DEF FromFirst, FromNext
    <3>3. next = Max({arg, 0})
      BY <1>1, <3>2 DEF Resolve
    <3>4. next = arg
      <4>1. PICK m : m = Max({arg, 0})
        OBVIOUS
      <4>2. m \in {arg, 0} /\ m >= arg /\ m >= 0
        BY <3>1, <4>1, GreaterOf
      <4> QED
        BY <3>1, <3>3, <4>1, <4>2
    <3> QED
      BY <1>0, <1>1, <3>1, <3>2, <3>4
  <2> QED
    BY <1>1, <2>1, <2>2, <2>3 DEF Starts
<1>4. DOMAIN work = {} /\ work \in Seq(Delivery)
  BY <1>1
<1>5. Flying = {}
  BY <1>0, <1>1, <1>4 DEF Flying
<1>6. StreamTypeOK
  <2>1. log \in 0..Last + 1 /\ head \in 0..MaxDiscards /\ head <= log /\ gen \in 0..MaxDrops
    BY <1>0, <1>1
  <2>2. pending \in [Offsets -> Nat]
    BY <1>1
  <2>3. hand \in [Workers -> Delivery \cup {None}] /\ doing \in [Workers -> {"idle", "handling", "copying", "refused"}]
    BY <1>1
  <2> QED
    BY <1>1, <1>2, <1>3, <1>4, <2>1, <2>2, <2>3 DEF StreamTypeOK
<1>7. \A o \in Offsets : ~Waits(o) /\ pending[o] = 0
  BY <1>1 DEF Waits
<1>8. Hands /\ InSendingOrder
  BY <1>1, <1>4 DEF Hands, InSendingOrder
<1>9. next \in Nat /\ begun = next /\ head <= next
  BY <1>0, <1>1, <1>3
<1>10. Channel /\ Placed /\ Given
  <2>1. arg = FromFirst => begun <= head
    BY <1>1, <1>3
  <2>2. Channel
    BY <1>1, <1>5, <1>7, <1>9, <2>1 DEF Channel
  <2>3. Placed
    BY <1>1, <1>3, <1>7 DEF Placed
  <2>4. Given
    BY <1>1 DEF Given
  <2> QED
    BY <2>2, <2>3, <2>4
<1>11. CountsSent
  <2>1. \A o : Sent(o) = {}
    BY <1>5 DEF Sent
  <2>2. Cardinality({}) = 0
    BY FS_EmptySet
  <2> QED
    BY <1>7, <2>1, <2>2 DEF CountsSent
<1>12. \A o \in Offsets : o \in Nat /\ ~(begun <= o /\ o < next)
  <2>1. \A o \in Offsets : o \in Nat
    BY <1>6, StreamTypes
  <2> QED
    BY <1>9, <2>1
<1>13. NoGap /\ PastIsGone /\ InTurn /\ StoppedInTurn
  <2>1. \A o \in Offsets : ~(o <= settled)
    BY <1>1, <1>12
  <2> QED
    BY <1>1, <1>5, <1>7, <1>12, <2>1 DEF NoGap, PastIsGone, InTurn, StoppedInTurn
<1>14. WithinPrefetch
  <2>1. GivenAgain = {} /\ SentAgain = {} /\ FromPosition = {}
    BY <1>1, <1>5 DEF GivenAgain, SentAgain, FromPosition, Known, Carried
  <2>2. Cardinality({}) = 0 /\ 0 <= Prefetch
    <3>1. Cardinality({}) = 0
      BY FS_EmptySet
    <3>2. 0 <= Prefetch
      BY <1>0
    <3> QED
      BY <3>1, <3>2
  <2> QED
    BY <1>5, <1>12, <2>1, <2>2 DEF WithinPrefetch
<1> QED
  BY <1>6, <1>8, <1>10, <1>11, <1>13, <1>14 DEF StreamInv

\* Every step keeps the invariant.
LEMMA StreamInvKept ==
  ASSUME StreamInv, [StreamNext]_streamVars
  PROVE  StreamInv'
<1>1. Kinds /\ Hands' /\ InSendingOrder'
  BY StreamSteps DEF StreamInv
<1>2. StreamTypeOK'
  BY StreamTypesKept DEF StreamInv
<1>3. Channel'
  BY <1>1, ChannelKept DEF StreamInv
<1>4. CountsSent'
  BY <1>1, CountsSentKept DEF StreamInv
<1>5. Placed'
  BY <1>1, PlacedKept DEF StreamInv
<1>6. Given'
  BY <1>1, GivenKept DEF StreamInv
<1>7. NoGap'
  BY <1>1, NoGapKept DEF StreamInv
<1>8. PastIsGone'
  BY <1>1, <1>2, PastIsGoneKept DEF StreamInv
<1>9. InTurn'
  BY <1>1, InTurnKept DEF StreamInv
<1>10. StoppedInTurn'
  BY <1>1, StoppedKept DEF StreamInv
<1>11. WithinPrefetch'
  BY <1>1, <1>2, <1>4, WithinPrefetchKept DEF StreamInv
<1> QED
  BY <1>1, <1>2, <1>3, <1>4, <1>5, <1>6, <1>7, <1>8, <1>9, <1>10, <1>11 DEF StreamInv

\* And with it nothing is skipped.
LEMMA StreamInvSkipsNothing ==
  ASSUME StreamInv
  PROVE  NothingSkipped
<1>0. /\ StreamTypeOK /\ Last \in Nat /\ begun \in Nat /\ arg \in Int
      /\ \A o \in Offsets : o \in Nat
      /\ seen \subseteq Offsets
      /\ arg = FromFirst \/ arg = FromNext \/ arg \in Nat
  <2>1. StreamTypeOK
    BY DEF StreamInv
  <2>2. seen \subseteq Offsets
    BY <2>1 DEF StreamTypeOK
  <2> QED
    BY <2>1, <2>2, StreamTypes, PositionTypes
<1>1. LeavesNothing
  <2> SUFFICES ASSUME ~halted, NEW o \in begun..Last, LeftBehind(o)
               PROVE  o \in done \cup passed \/ Missed(o)
    BY DEF LeavesNothing
  <2>1. o \in Offsets /\ begun <= o
    BY <1>0 DEF Offsets
  <2>2. Dealt(o)
    BY <2>1, BelowPosition DEF LeftBehind, StreamInv
  <2> QED
    BY <2>2 DEF Dealt
<1>2. StopsThere
  <2> SUFFICES ASSUME stoppedAt # None, Alone
               PROVE  /\ \A o \in begun..stoppedAt - 1 : o \in done \cup passed \cup escaped \/ Missed(o)
                      /\ \A w \in crew : doing[w] # "handling"
    BY DEF StopsThere, Alone
  <2>1. halted /\ stoppedAt \in Offsets
    BY <1>0 DEF StreamInv, Given
  <2>2. \A w \in Workers : doing[w] = "idle"
    BY <2>1 DEF StreamInv, StoppedInTurn
  <2>3. ASSUME NEW o \in begun..stoppedAt - 1 PROVE o \in done \cup passed \cup escaped \/ Missed(o)
    <3>1. stoppedAt \in Nat /\ stoppedAt <= Last
      BY <1>0, <2>1, StreamTypes
    <3>2. o \in Nat /\ begun <= o /\ o < stoppedAt /\ o <= Last
      BY <1>0, <3>1
    <3>3. o \in Offsets
      BY <1>0, <3>2 DEF Offsets
    <3>4. Dealt(o) \/ o \in escaped
      BY <2>1, <3>2, <3>3 DEF StreamInv, StoppedInTurn
    <3> QED
      BY <3>4 DEF Dealt
  <2>4. crew \subseteq Workers
    BY <1>0, StreamTypes
  <2> QED
    BY <2>2, <2>3, <2>4
<1>3. FewAgain
  <2> SUFFICES ASSUME Alone, escaped = {} PROVE Cardinality({o \in seen : ~LeftBehind(o)}) <= Prefetch
    BY DEF FewAgain, Alone
  <2>1. PICK T : T = {o \in seen : ~LeftBehind(o)}
    OBVIOUS
  <2>2. \A o \in seen : ~LeftBehind(o) => arg <= o
    <3>1. arg \in Nat \/ arg <= 0
      BY <1>0 DEF FromFirst, FromNext
    <3> QED
      BY <1>0, <3>1 DEF LeftBehind
  <2>3. T \subseteq GivenAgain /\ GivenAgain \subseteq Offsets
    BY <1>0, <2>1, <2>2 DEF GivenAgain
  <2>4. Cardinality(GivenAgain) <= Prefetch
    BY DEF StreamInv, WithinPrefetch
  <2> QED
    BY <1>0, <2>1, <2>3, <2>4, FewOf
<1> QED
  BY <1>0, <1>1, <1>2, <1>3 DEF NothingSkipped

\* A reader of a stream (streams.py, rabbitmq.py _StreamPosition) that goes on leaves
\* nothing behind but what has its outcome or what retention took; one that stops at an
\* entry has dealt with all before it, where one worker reads; and after a lost
\* connection that one is given no more entries again than the prefetch.
THEOREM StreamSkipsNothing ==
  StreamSpec => []NothingSkipped
<1>1. StreamInit => StreamInv
  BY StreamBegins
<1>2. StreamInv /\ [StreamNext]_streamVars => StreamInv'
  BY StreamInvKept
<1>3. StreamInv => NothingSkipped
  BY StreamInvSkipsNothing
<1> QED
  BY <1>1, <1>2, <1>3, PTL DEF StreamSpec
=============================================================================
