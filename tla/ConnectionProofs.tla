-------------------------- MODULE ConnectionProofs --------------------------
(***************************************************************************)
(* Proofs about a connection: about publish_raw and its callers, for every *)
(* set of publishes, every batch, every limit on outstanding publishes and *)
(* every bound on alarms, lost connections and health checks; and about    *)
(* closing it and its consumers, for any consumers, any concurrency, and   *)
(* with or without the late start.                                         *)
(***************************************************************************)
EXTENDS Sending, Connection, FiniteSetTheorems, TLAPS

-----------------------------------------------------------------------------
(* Publishing: the inductive invariant *)

\* The publishes inside the transport.
Started == {p \in Publishes : pc[p] \in {"sending", "written"}}

Types ==
  /\ pc \in [Publishes -> Pcs]
  /\ outcome \in [Publishes -> Outcomes]
  /\ reply \in [Publishes -> Answers \cup {"none"}]
  /\ wire \subseteq Publishes
  /\ stored \subseteq Publishes
  /\ alarm \in BOOLEAN
  /\ blocked \in {"yes", "no", "unknown"}
  /\ alarms \in 0..MaxAlarms
  /\ drops \in 0..MaxDrops

\* The line has tasks that wait, each once, and nobody is in it while a permit is free.
Lined ==
  /\ line \in Seq(Publishes)
  /\ \A i \in DOMAIN line : pc[line[i]] = "waiting"
  /\ \A i, j \in DOMAIN line : line[i] = line[j] => i = j
  /\ permits > 0 => line = <<>>

\* Every permit is free or held, and the publishes in the transport are counted.
Counted ==
  /\ permits \in Nat
  /\ permits + Cardinality(Holders) = MaxOutstanding
  /\ inFlight = Cardinality(Started)

\* What the caller will be told rests on what the broker did: nothing is on the
\* wire before it is written, the broker has what it confirmed, and it is rid of
\* what it declined.
Answered ==
  /\ wire \cap stored = {}
  /\ \A p \in Publishes :
       /\ pc[p] \in {"new", "waiting", "granted", "sending"} => p \notin wire \cup stored
       /\ outcome[p] # "none" => pc[p] = "over"
       /\ reply[p] # "none" => pc[p] = "written"
       /\ reply[p] = "confirmed" => p \in stored
       /\ reply[p] = "declined" => p \notin wire \cup stored

PublishingInv == Types /\ Lined /\ Counted /\ Answered /\ ToldTheTruth

\* A round trip that failed leaves the state of the connection unknown until the
\* check has ended.
ProbeInv == probe = "failed" => blocked = "unknown"

SendingInv == PublishingInv /\ BatchTold /\ ProbeInv

-----------------------------------------------------------------------------
(* The line *)

\* Taking one element out leaves the others, in their order.
LEMMA OneLess ==
  ASSUME NEW S, NEW s \in Seq(S), NEW i \in DOMAIN s
  PROVE  /\ RemoveAt(s, i) \in Seq(S)
         /\ DOMAIN RemoveAt(s, i) = 1..(Len(s) - 1)
         /\ \A j \in DOMAIN RemoveAt(s, i) :
              RemoveAt(s, i)[j] = s[IF j < i THEN j ELSE j + 1]
<1> DEFINE front == SubSeq(s, 1, i - 1)
           back == SubSeq(s, i + 1, Len(s))
<1>1. i \in 1..Len(s) /\ Len(s) \in Nat
  OBVIOUS
<1>2. front \in Seq(S) /\ Len(front) = i - 1 /\ \A j \in 1..(i - 1) : front[j] = s[j]
  BY <1>1
<1>3. back \in Seq(S) /\ Len(back) = Len(s) - i /\ \A j \in 1..(Len(s) - i) : back[j] = s[i + j]
  BY <1>1
<1>4. RemoveAt(s, i) = front \o back
  BY DEF RemoveAt
<1> HIDE DEF front, back
<1>5. front \o back \in Seq(S)
  BY <1>2, <1>3
<1>6. Len(front \o back) = Len(s) - 1
  BY <1>1, <1>2, <1>3
<1>7. ASSUME NEW j \in 1..(Len(s) - 1)
      PROVE  (front \o back)[j] = s[IF j < i THEN j ELSE j + 1]
  <2>1. CASE j < i
    BY <1>1, <1>2, <1>3, <2>1
  <2>2. CASE ~(j < i)
    <3>1. (front \o back)[j] = back[j - (i - 1)]
      <4>1. j \in Nat /\ Len(front) < j /\ j <= Len(front) + Len(back)
        BY <1>1, <1>2, <1>3, <2>2
      <4>2. front \in Seq(S) /\ back \in Seq(S)
        BY <1>2, <1>3
      <4>3. (front \o back)[j] = back[j - Len(front)]
        BY <4>1, <4>2
      <4> QED
        BY <1>2, <4>3
    <3>2. j - (i - 1) \in 1..(Len(s) - i) /\ i + (j - (i - 1)) = j + 1
      BY <1>1, <2>2
    <3> QED
      BY <1>3, <2>2, <3>1, <3>2
  <2> QED
    BY <2>1, <2>2
<1>8. DOMAIN RemoveAt(s, i) = 1..(Len(s) - 1)
  BY <1>4, <1>5, <1>6
<1> QED
  BY <1>4, <1>5, <1>7, <1>8

\* What is left of a line of distinct waiting tasks is one.
LEMMA LeavingTheLine ==
  ASSUME Lined, NEW i \in DOMAIN line
  PROVE  /\ RemoveAt(line, i) \in Seq(Publishes)
         /\ \A j \in DOMAIN RemoveAt(line, i) :
              pc[RemoveAt(line, i)[j]] = "waiting" /\ RemoveAt(line, i)[j] # line[i]
         /\ \A j, k \in DOMAIN RemoveAt(line, i) :
              RemoveAt(line, i)[j] = RemoveAt(line, i)[k] => j = k
<1> DEFINE rest == RemoveAt(line, i)
           From(j) == IF j < i THEN j ELSE j + 1
<1>1. /\ line \in Seq(Publishes)
      /\ \A j \in DOMAIN line : pc[line[j]] = "waiting"
      /\ \A j, k \in DOMAIN line : line[j] = line[k] => j = k
  BY DEF Lined
<1>2. /\ rest \in Seq(Publishes) /\ DOMAIN rest = 1..(Len(line) - 1)
      /\ \A j \in DOMAIN rest : rest[j] = line[From(j)]
  BY <1>1, OneLess
<1>3. \A j \in 1..(Len(line) - 1) : From(j) \in DOMAIN line /\ From(j) # i
  BY <1>1
<1>4. \A j, k \in 1..(Len(line) - 1) : From(j) = From(k) => j = k
  BY <1>1
<1> HIDE DEF rest, From
<1>5. \A j \in DOMAIN rest : pc[rest[j]] = "waiting" /\ rest[j] # line[i]
  BY <1>1, <1>2, <1>3
<1>6. \A j, k \in DOMAIN rest : rest[j] = rest[k] => j = k
  BY <1>1, <1>2, <1>3, <1>4
<1> QED
  BY <1>2, <1>5, <1>6 DEF rest
-----------------------------------------------------------------------------
(* The permits *)

\* The sets that are counted are finite.
LEMMA FiniteParts ==
  /\ IsFiniteSet(Holders) /\ IsFiniteSet(Started) /\ Started \subseteq Holders
  /\ Cardinality(Holders) \in Nat /\ Cardinality(Started) \in Nat
  /\ Cardinality(Started) <= Cardinality(Holders)
<1>1. Holders \in SUBSET Publishes /\ Started \in SUBSET Holders
  BY DEF Holders, Started
<1>2. IsFiniteSet(Holders)
  BY <1>1, PublishingAssumption, FS_Subset
<1>3. IsFiniteSet(Started) /\ Cardinality(Started) <= Cardinality(Holders)
  BY <1>1, <1>2, FS_Subset
<1> QED
  BY <1>1, <1>2, <1>3, FS_CardinalityType

\* A task that ends frees its permit, or hands it to the longest waiting: no other
\* task moves, and none that has ended does.
LEMMA PermitPassedOn ==
  ASSUME Types, Lined, Counted, NEW p \in Publishes,
         pc[p] \in {"granted", "sending", "written"}, GivesBack(p)
  PROVE  /\ pc' \in [Publishes -> Pcs] /\ pc'[p] = "over"
         /\ \A q \in Publishes \ {p} :
              \/ pc'[q] = pc[q]
              \/ pc[q] = "waiting" /\ pc'[q] = "granted"
         /\ Lined'
         /\ permits' \in Nat /\ permits' + Cardinality(Holders') = MaxOutstanding
         /\ Started' = Started \ {p}
<1>1. pc \in [Publishes -> Pcs] /\ line \in Seq(Publishes)
  BY DEF Types, Lined
<1>2. permits \in Nat /\ permits + Cardinality(Holders) = MaxOutstanding
  BY DEF Counted
<1>3. p \in Holders
  BY DEF Holders
<1>4. IsFiniteSet(Holders \ {p}) /\ Cardinality(Holders \ {p}) = Cardinality(Holders) - 1
  BY <1>3, FiniteParts, FS_RemoveElement
<1>5. CASE line = <<>>
  <2>1. pc' = [pc EXCEPT ![p] = "over"] /\ permits' = permits + 1 /\ line' = line
    BY <1>5 DEF GivesBack, Goes
  <2>2. Holders' = Holders \ {p} /\ Started' = Started \ {p}
    BY <1>1, <2>1 DEF Holders, Started
  <2>3. Lined'
    BY <1>1, <1>5, <2>1 DEF Lined
  <2>4. permits' \in Nat /\ permits' + Cardinality(Holders') = MaxOutstanding
    BY <1>2, <1>4, <2>1, <2>2, FiniteParts
  <2> QED
    BY <1>1, <2>1, <2>2, <2>3, <2>4 DEF Pcs
<1>6. CASE line # <<>>
  <2> DEFINE first == line[1]
  <2>1. /\ 1 \in DOMAIN line /\ Head(line) = first /\ first \in Publishes
        /\ Tail(line) \in Seq(Publishes)
        /\ DOMAIN Tail(line) = 1..(Len(line) - 1) /\ Len(line) \in Nat
        /\ DOMAIN line = 1..Len(line)
        /\ \A i \in 1..(Len(line) - 1) : Tail(line)[i] = line[i + 1]
    BY <1>1, <1>6
  <2>2. pc[first] = "waiting" /\ first # p /\ first \notin Holders
    BY <2>1 DEF Lined, Holders
  <2>3. /\ pc' = [pc EXCEPT ![p] = "over", ![first] = "granted"]
        /\ line' = Tail(line) /\ permits' = permits
    BY <1>6, <2>1 DEF GivesBack
  <2> HIDE DEF first
  <2>4. /\ pc'[p] = "over" /\ pc'[first] = "granted"
        /\ \A q \in Publishes \ {p, first} : pc'[q] = pc[q]
        /\ pc' \in [Publishes -> Pcs]
    BY <1>1, <2>1, <2>2, <2>3 DEF Pcs
  <2>5. Holders' = (Holders \ {p}) \cup {first} /\ Started' = Started \ {p}
    BY <1>1, <2>1, <2>2, <2>4 DEF Holders, Started
  <2>6. Cardinality(Holders') = Cardinality(Holders \ {p}) + 1
    BY <1>4, <2>2, <2>5, FS_AddElement
  <2>7. permits' \in Nat /\ permits' + Cardinality(Holders') = MaxOutstanding
    BY <1>2, <1>4, <2>3, <2>6, FiniteParts
  <2>8. \A i \in DOMAIN line' : line'[i] = line[i + 1] /\ i + 1 \in DOMAIN line /\ i + 1 # 1
    BY <2>1, <2>3
  <2>9. \A i \in DOMAIN line' :
          /\ line[i + 1] \in Publishes /\ pc[line[i + 1]] = "waiting"
          /\ line[i + 1] # first /\ line[i + 1] # p
    BY <1>1, <2>1, <2>8 DEF Lined, first
  <2>10. Lined'
    <3>1. \A i \in DOMAIN line' : pc'[line'[i]] = "waiting"
      BY <2>4, <2>8, <2>9
    <3>2. \A i, j \in DOMAIN line' : line'[i] = line'[j] => i = j
      <4>1. \A i \in DOMAIN line' : i \in Nat
        BY <2>1, <2>3
      <4>2. \A i, j \in DOMAIN line : line[i] = line[j] => i = j
        BY DEF Lined
      <4>3. ASSUME NEW i \in DOMAIN line', NEW j \in DOMAIN line', line'[i] = line'[j]
            PROVE  i = j
        <5>1. i + 1 = j + 1
          BY <2>8, <4>2, <4>3
        <5> QED
          BY <4>1, <5>1
      <4> QED
        BY <4>3
    <3>3. ~(permits' > 0)
      BY <1>6, <2>3 DEF Lined
    <3> QED
      BY <2>1, <2>3, <3>1, <3>2, <3>3 DEF Lined
  <2> QED
    BY <2>2, <2>4, <2>5, <2>7, <2>10
<1> QED
  BY <1>5, <1>6
-----------------------------------------------------------------------------
(* The steps of a task *)

Task(p) == Runs(p) \/ TimesOut(p) \/ Interrupted(p) \/ NeverStarts(p)

\* A publish leaves the transport with its answer, or for want of one.
Leaves(p) == ReadsReply(p) \/ GivesUp(p)

\* Every step of a task is of one of these kinds.
LEMMA TaskKinds ==
  ASSUME NEW p \in Publishes, Task(p)
  PROVE  \/ Pauses(p) \/ NeverStarts(p) \/ Asks(p) \/ Begins(p) \/ Writes(p)
         \/ Leaves(p)
         \/ \E why \in {"refused", "unsure"} : StopsWaiting(p, why) \/ DeclinesGrant(p, why)
BY DEF Task, Runs, TimesOut, Interrupted, Leaves

\* The line and the count of permits survive every step of a task.
LEMMA TaskPermits ==
  ASSUME Types, Lined, Counted, NEW p \in Publishes, Task(p)
  PROVE  Lined' /\ Counted'
<1>1. pc \in [Publishes -> Pcs] /\ line \in Seq(Publishes)
  BY DEF Types, Lined
<1>2. permits \in Nat /\ permits + Cardinality(Holders) = MaxOutstanding
      /\ inFlight = Cardinality(Started)
  BY DEF Counted
<1>3. \A i \in DOMAIN line : line[i] \in Publishes /\ pc[line[i]] = "waiting"
  BY <1>1 DEF Lined
<1>4. CASE Pauses(p) \/ NeverStarts(p)
  <2>1. /\ pc[p] = "new" /\ pc' = [pc EXCEPT ![p] = "over"]
        /\ permits' = permits /\ line' = line /\ inFlight' = inFlight
    BY <1>4 DEF Pauses, NeverStarts, Goes, permitVars
  <2>2. Holders' = Holders /\ Started' = Started
    BY <1>1, <2>1 DEF Holders, Started
  <2>3. Lined'
    BY <1>1, <1>3, <2>1 DEF Lined
  <2> QED
    BY <2>1, <2>2, <2>3 DEF Counted
<1>5. CASE Asks(p) /\ permits > 0 /\ line = <<>>
  <2>1. /\ pc[p] = "new" /\ pc' = [pc EXCEPT ![p] = "granted"]
        /\ permits' = permits - 1 /\ line' = line /\ inFlight' = inFlight
    BY <1>5 DEF Asks, Goes
  <2>2. Holders' = Holders \cup {p} /\ p \notin Holders /\ Started' = Started
    BY <1>1, <2>1 DEF Holders, Started
  <2>3. Cardinality(Holders') = Cardinality(Holders) + 1
    BY <2>2, FiniteParts, FS_AddElement
  <2>4. Lined'
    BY <1>1, <1>5, <2>1 DEF Lined
  <2>5. permits' \in Nat /\ permits' + Cardinality(Holders') = MaxOutstanding
    BY <1>2, <1>5, <2>1, <2>3, FiniteParts
  <2> QED
    BY <1>2, <2>1, <2>2, <2>4, <2>5 DEF Counted
<1>6. CASE Asks(p) /\ ~(permits > 0 /\ line = <<>>)
  <2>1. /\ pc[p] = "new" /\ pc' = [pc EXCEPT ![p] = "waiting"]
        /\ permits' = permits /\ line' = Append(line, p) /\ inFlight' = inFlight
    BY <1>6 DEF Asks, Goes
  <2>2. Holders' = Holders /\ Started' = Started
    BY <1>1, <2>1 DEF Holders, Started
  <2>3. \A i \in DOMAIN line : line[i] # p
    BY <1>3, <2>1
  <2>4. /\ line' \in Seq(Publishes) /\ Len(line) \in Nat /\ DOMAIN line = 1..Len(line)
        /\ DOMAIN line' = 1..(Len(line) + 1) /\ line'[Len(line) + 1] = p
        /\ \A i \in DOMAIN line : line'[i] = line[i]
    BY <1>1, <2>1
  <2>5. \A i \in DOMAIN line' : i \in DOMAIN line \/ i = Len(line) + 1
    BY <2>4
  <2>6. \A i \in DOMAIN line' : pc'[line'[i]] = "waiting"
    BY <1>1, <1>3, <2>1, <2>3, <2>4, <2>5
  <2>7. \A i, j \in DOMAIN line : line[i] = line[j] => i = j
    BY DEF Lined
  <2>8. \A i, j \in DOMAIN line' : line'[i] = line'[j] => i = j
    BY <2>3, <2>4, <2>5, <2>7
  <2>9. ~(permits' > 0)
    BY <1>6, <2>1 DEF Lined
  <2>10. Lined'
    BY <2>4, <2>6, <2>8, <2>9 DEF Lined
  <2> QED
    BY <2>1, <2>2, <2>10 DEF Counted
<1>7. ASSUME NEW why, StopsWaiting(p, why) PROVE Lined' /\ Counted'
  <2>1. PICK i \in DOMAIN line : line[i] = p /\ line' = RemoveAt(line, i)
    BY <1>7 DEF StopsWaiting
  <2>2. /\ pc[p] = "waiting" /\ pc' = [pc EXCEPT ![p] = "over"]
        /\ permits' = permits /\ inFlight' = inFlight
    BY <1>7 DEF StopsWaiting, Goes
  <2>3. Holders' = Holders /\ Started' = Started
    BY <1>1, <2>2 DEF Holders, Started
  <2>4. /\ line' \in Seq(Publishes)
        /\ \A j \in DOMAIN line' : pc[line'[j]] = "waiting" /\ line'[j] # p
        /\ \A j, k \in DOMAIN line' : line'[j] = line'[k] => j = k
    BY <2>1, LeavingTheLine
  <2>5. \A j \in DOMAIN line' : line'[j] \in Publishes
    BY <2>4
  <2>6. \A j \in DOMAIN line' : pc'[line'[j]] = "waiting"
    BY <1>1, <2>2, <2>4, <2>5
  <2>7. line # <<>>
    BY <1>1, <2>1
  <2>8. ~(permits' > 0)
    BY <2>2, <2>7 DEF Lined
  <2> QED
    BY <2>2, <2>3, <2>4, <2>6, <2>8 DEF Lined, Counted
<1>8. ASSUME NEW why, DeclinesGrant(p, why) PROVE Lined' /\ Counted'
  <2>1. pc[p] = "granted" /\ GivesBack(p) /\ inFlight' = inFlight
    BY <1>8 DEF DeclinesGrant
  <2>2. Started \ {p} = Started
    BY <2>1 DEF Started
  <2> QED
    BY <1>2, <2>1, <2>2, PermitPassedOn DEF Counted
<1>9. CASE Begins(p)
  <2>1. /\ pc[p] = "granted" /\ pc' = [pc EXCEPT ![p] = "sending"]
        /\ permits' = permits /\ line' = line /\ inFlight' = inFlight + 1
    BY <1>9 DEF Begins, Goes
  <2>2. Holders' = Holders /\ Started' = Started \cup {p} /\ p \notin Started
    BY <1>1, <2>1 DEF Holders, Started
  <2>3. Cardinality(Started') = Cardinality(Started) + 1
    BY <2>2, FiniteParts, FS_AddElement
  <2>4. Lined'
    BY <1>1, <1>3, <2>1 DEF Lined
  <2> QED
    BY <1>2, <2>1, <2>2, <2>3, <2>4 DEF Counted
<1>10. CASE Writes(p)
  <2>1. /\ pc[p] = "sending" /\ pc' = [pc EXCEPT ![p] = "written"]
        /\ permits' = permits /\ line' = line /\ inFlight' = inFlight
    BY <1>10 DEF Writes, Goes, permitVars
  <2>2. Holders' = Holders /\ Started' = Started
    BY <1>1, <2>1 DEF Holders, Started
  <2>3. Lined'
    BY <1>1, <1>3, <2>1 DEF Lined
  <2> QED
    BY <2>1, <2>2, <2>3 DEF Counted
<1>11. CASE Leaves(p)
  <2>1. pc[p] \in {"sending", "written"} /\ GivesBack(p) /\ inFlight' = inFlight - 1
    BY <1>11 DEF Leaves, ReadsReply, GivesUp
  <2>2. p \in Started
    BY <2>1 DEF Started
  <2>3. Cardinality(Started \ {p}) = Cardinality(Started) - 1
    BY <2>2, FiniteParts, FS_RemoveElement
  <2> QED
    BY <1>2, <2>1, <2>3, PermitPassedOn DEF Counted
<1> QED
  BY <1>4, <1>5, <1>6, <1>7, <1>8, <1>9, <1>10, <1>11, TaskKinds

\* What a step of a task does to the others, and to what the broker sees.
LEMMA TaskEffects ==
  ASSUME Types, Lined, Counted, NEW p \in Publishes, Task(p)
  PROVE  /\ pc[p] # "over"
         /\ pc' \in [Publishes -> Pcs]
         /\ \A q \in Publishes \ {p} :
              /\ outcome'[q] = outcome[q] /\ reply'[q] = reply[q]
              /\ \/ pc'[q] = pc[q]
                 \/ pc[q] = "waiting" /\ pc'[q] = "granted"
         /\ UNCHANGED <<stored, alarm, blocked, alarms, drops>>
         /\ \/ wire' = wire
            \/ pc[p] = "sending" /\ pc'[p] = "written" /\ wire' = wire \cup {p}
<1>1. /\ pc \in [Publishes -> Pcs] /\ outcome \in [Publishes -> Outcomes]
      /\ reply \in [Publishes -> Answers \cup {"none"}]
  BY DEF Types
<1>2. CASE Pauses(p) \/ NeverStarts(p) \/ Asks(p) \/ Begins(p) \/ Writes(p)
            \/ \E why \in {"refused", "unsure"} : StopsWaiting(p, why)
  <2>1. \E to \in Pcs : pc' = [pc EXCEPT ![p] = to]
    BY <1>2 DEF Pauses, NeverStarts, Asks, Begins, Writes, StopsWaiting, Goes, Pcs
  <2>2. outcome' = outcome \/ \E what : outcome' = [outcome EXCEPT ![p] = what]
    BY <1>2 DEF Pauses, NeverStarts, Asks, Begins, Writes, StopsWaiting, Tells
  <2>3. pc[p] # "over" /\ reply' = reply
        /\ UNCHANGED <<stored, alarm, blocked, alarms, drops>>
    BY <1>2 DEF Pauses, NeverStarts, Asks, Begins, Writes, StopsWaiting, brokerVars
  <2>4. \/ wire' = wire
        \/ pc[p] = "sending" /\ pc' = [pc EXCEPT ![p] = "written"] /\ wire' = wire \cup {p}
    BY <1>2 DEF Pauses, NeverStarts, Asks, Begins, Writes, StopsWaiting, brokerVars, Goes
  <2> QED
    BY <1>1, <2>1, <2>2, <2>3, <2>4
<1>3. CASE Leaves(p) \/ \E why \in {"refused", "unsure"} : DeclinesGrant(p, why)
  <2>1. /\ pc[p] \in {"granted", "sending", "written"} /\ GivesBack(p)
        /\ \E what : outcome' = [outcome EXCEPT ![p] = what]
        /\ reply' = reply \/ reply' = [reply EXCEPT ![p] = "none"]
        /\ UNCHANGED <<wire, stored, alarm, blocked, alarms, drops>>
    BY <1>3 DEF Leaves, ReadsReply, GivesUp, DeclinesGrant, Tells, brokerVars
  <2>2. /\ pc' \in [Publishes -> Pcs]
        /\ \A q \in Publishes \ {p} :
             \/ pc'[q] = pc[q]
             \/ pc[q] = "waiting" /\ pc'[q] = "granted"
    BY <2>1, PermitPassedOn
  <2> QED
    BY <1>1, <2>1, <2>2
<1> QED
  BY <1>2, <1>3, TaskKinds
\* What a step of a task tells its own caller, and why it may.
LEMMA TaskTells ==
  ASSUME Types, Lined, Counted, Answered, NEW p \in Publishes, Task(p)
  PROVE  /\ outcome'[p] \in Outcomes /\ reply'[p] \in {reply[p], "none"}
         /\ pc'[p] \in {"new", "waiting", "granted", "sending"} =>
              pc[p] \in {"new", "waiting", "granted", "sending"} /\ wire' = wire
         /\ outcome'[p] # "none" => pc'[p] = "over"
         /\ reply'[p] # "none" => pc[p] = "written" /\ pc'[p] = "written"
         /\ pc'[p] = "over" => wire' = wire
         /\ \/ outcome'[p] \in {"none", "unsure"}
            \/ outcome'[p] = "refused" /\ pc[p] \in {"new", "waiting", "granted"}
            \/ outcome'[p] = reply[p] /\ reply[p] # "none"
<1>1. /\ pc \in [Publishes -> Pcs] /\ outcome \in [Publishes -> Outcomes]
      /\ reply \in [Publishes -> Answers \cup {"none"}]
  BY DEF Types
<1>2. /\ pc[p] # "over" => outcome[p] = "none"
      /\ reply[p] # "none" => pc[p] = "written"
  BY DEF Answered
<1>3. CASE \/ Pauses(p) \/ NeverStarts(p)
           \/ \E why \in {"refused", "unsure"} : StopsWaiting(p, why)
  <2>1. /\ pc[p] \in {"new", "waiting"} /\ pc' = [pc EXCEPT ![p] = "over"]
        /\ \E what \in {"refused", "unsure"} : outcome' = [outcome EXCEPT ![p] = what]
        /\ reply' = reply /\ wire' = wire
    BY <1>3 DEF Pauses, NeverStarts, StopsWaiting, Goes, Tells, brokerVars
  <2> QED
    BY <1>1, <1>2, <2>1 DEF Outcomes
<1>4. CASE Asks(p) \/ Begins(p) \/ Writes(p)
  <2>1. /\ pc[p] \in {"new", "granted", "sending"}
        /\ \E to \in {"granted", "waiting", "sending", "written"} :
             pc' = [pc EXCEPT ![p] = to] /\ (to # "written" => wire' = wire)
        /\ outcome' = outcome /\ reply' = reply
    BY <1>4 DEF Asks, Begins, Writes, Goes, brokerVars
  <2> QED
    BY <1>1, <1>2, <2>1 DEF Outcomes
<1>5. ASSUME NEW why \in {"refused", "unsure"}, DeclinesGrant(p, why)
      PROVE  /\ pc[p] = "granted" /\ pc'[p] = "over"
             /\ outcome' = [outcome EXCEPT ![p] = why] /\ reply' = reply /\ wire' = wire
  <2>1. pc[p] = "granted" /\ GivesBack(p)
    BY <1>5 DEF DeclinesGrant
  <2> QED
    BY <1>5, <2>1, PermitPassedOn DEF DeclinesGrant, Tells, brokerVars
<1>6. CASE Leaves(p)
  <2>1. /\ pc[p] \in {"sending", "written"} /\ GivesBack(p)
        /\ reply' = [reply EXCEPT ![p] = "none"] /\ wire' = wire
        /\ \/ outcome' = [outcome EXCEPT ![p] = "unsure"]
           \/ outcome' = [outcome EXCEPT ![p] = reply[p]] /\ reply[p] # "none"
    BY <1>6 DEF Leaves, ReadsReply, GivesUp, Tells, brokerVars
  <2>2. pc'[p] = "over"
    BY <2>1, PermitPassedOn
  <2>3. reply[p] \in Outcomes
    BY <1>1 DEF Outcomes
  <2> QED
    BY <1>1, <1>2, <2>1, <2>2, <2>3 DEF Outcomes
<1> QED
  BY <1>1, <1>2, <1>3, <1>4, <1>5, <1>6, TaskKinds DEF Outcomes

\* A step of a task keeps the invariant of publish_raw.
LEMMA TaskKeeps ==
  ASSUME PublishingInv, NEW p \in Publishes, Task(p)
  PROVE  PublishingInv'
<1>1. Types /\ Lined /\ Counted /\ Answered /\ ToldTheTruth
  BY DEF PublishingInv
<1>2. Lined' /\ Counted'
  BY <1>1, TaskPermits
<1>3. /\ pc' \in [Publishes -> Pcs]
      /\ \A q \in Publishes \ {p} :
           /\ outcome'[q] = outcome[q] /\ reply'[q] = reply[q]
           /\ \/ pc'[q] = pc[q]
              \/ pc[q] = "waiting" /\ pc'[q] = "granted"
      /\ UNCHANGED <<stored, alarm, blocked, alarms, drops>>
      /\ \/ wire' = wire
         \/ pc[p] = "sending" /\ pc'[p] = "written" /\ wire' = wire \cup {p}
  BY <1>1, TaskEffects
<1>4. /\ outcome'[p] \in Outcomes /\ reply'[p] \in {reply[p], "none"}
      /\ pc'[p] \in {"new", "waiting", "granted", "sending"} =>
           pc[p] \in {"new", "waiting", "granted", "sending"} /\ wire' = wire
      /\ outcome'[p] # "none" => pc'[p] = "over"
      /\ reply'[p] # "none" => pc[p] = "written" /\ pc'[p] = "written"
      /\ pc'[p] = "over" => wire' = wire
      /\ \/ outcome'[p] \in {"none", "unsure"}
         \/ outcome'[p] = "refused" /\ pc[p] \in {"new", "waiting", "granted"}
         \/ outcome'[p] = reply[p] /\ reply[p] # "none"
  BY <1>1, TaskTells
<1>5. Types'
  <2>1. /\ outcome \in [Publishes -> Outcomes]
        /\ reply \in [Publishes -> Answers \cup {"none"}]
    BY <1>1 DEF Types
  <2>2. /\ \E what : outcome' = [outcome EXCEPT ![p] = what] \/ outcome' = outcome
        /\ reply' = reply \/ reply' = [reply EXCEPT ![p] = "none"]
    <3>1. CASE Leaves(p)
      BY <3>1 DEF Leaves, ReadsReply, GivesUp, Tells
    <3>2. CASE ~Leaves(p)
      BY <3>2, TaskKinds DEF Pauses, NeverStarts, Asks, Begins, Writes, StopsWaiting,
         DeclinesGrant, Tells
    <3> QED
      BY <3>1, <3>2
  <2>3. /\ outcome' \in [Publishes -> Outcomes]
        /\ reply' \in [Publishes -> Answers \cup {"none"}]
    BY <1>4, <2>1, <2>2
  <2> QED
    BY <1>1, <1>3, <2>3 DEF Types
<1>6. /\ wire \cap stored = {}
      /\ \A q \in Publishes :
           /\ pc[q] \in {"new", "waiting", "granted", "sending"} => q \notin wire \cup stored
           /\ outcome[q] # "none" => pc[q] = "over"
           /\ reply[q] # "none" => pc[q] = "written"
           /\ reply[q] = "confirmed" => q \in stored
           /\ reply[q] = "declined" => q \notin wire \cup stored
           /\ outcome[q] = "refused" => q \notin wire \cup stored
           /\ outcome[q] = "confirmed" => q \in stored
           /\ outcome[q] = "declined" => q \notin wire \cup stored
  BY <1>1 DEF Answered, ToldTheTruth
<1>7. wire' \cap stored' = {}
  BY <1>3, <1>6
<1>8. ASSUME NEW q \in Publishes \ {p}
      PROVE  /\ pc'[q] \in {"new", "waiting", "granted", "sending"} => q \notin wire' \cup stored'
             /\ outcome'[q] # "none" => pc'[q] = "over"
             /\ reply'[q] # "none" => pc'[q] = "written"
             /\ reply'[q] = "confirmed" => q \in stored'
             /\ reply'[q] = "declined" => q \notin wire' \cup stored'
             /\ outcome'[q] = "refused" => q \notin wire' \cup stored'
             /\ outcome'[q] = "confirmed" => q \in stored'
             /\ outcome'[q] = "declined" => q \notin wire' \cup stored'
  BY <1>3, <1>6
<1>9. /\ pc'[p] \in {"new", "waiting", "granted", "sending"} => p \notin wire' \cup stored'
      /\ reply'[p] = "confirmed" => p \in stored'
      /\ reply'[p] = "declined" => p \notin wire' \cup stored'
      /\ outcome'[p] = "refused" => p \notin wire' \cup stored'
      /\ outcome'[p] = "confirmed" => p \in stored'
      /\ outcome'[p] = "declined" => p \notin wire' \cup stored'
  <2>1. \/ pc[p] = "sending" /\ pc'[p] = "written"
        \/ wire' = wire /\ stored' = stored
    BY <1>3
  <2>2. CASE pc[p] = "sending" /\ pc'[p] = "written"
    BY <1>4, <1>6, <2>2
  <2>3. CASE wire' = wire /\ stored' = stored
    <3>1. reply'[p] # "none" => reply'[p] = reply[p]
      BY <1>4
    <3>2. outcome'[p] \in {"confirmed", "declined"} => outcome'[p] = reply[p]
      BY <1>4
    <3>3. reply[p] # "refused"
      BY <1>1 DEF Types, Answers
    <3>4. outcome'[p] = "refused" => pc[p] \in {"new", "waiting", "granted", "sending"}
      BY <1>4, <3>3
    <3> QED
      BY <1>4, <1>6, <2>3, <3>1, <3>2, <3>4
  <2> QED
    BY <2>1, <2>2, <2>3
<1>10. Answered' /\ ToldTheTruth'
  BY <1>4, <1>7, <1>8, <1>9 DEF Answered, ToldTheTruth
<1> QED
  BY <1>2, <1>5, <1>10 DEF PublishingInv

-----------------------------------------------------------------------------
(* The steps of the broker and of the connection *)

Around ==
  \/ \E p \in Publishes, what \in Answers : BrokerAnswers(p, what)
  \/ Alarm \/ Blocked \/ AlarmClears \/ Reconnected
  \/ \E taken \in SUBSET wire : Drops(taken)

\* They move no task and no permit, and what they take from the wire is settled.
LEMMA AroundKeeps ==
  ASSUME PublishingInv, Around
  PROVE  PublishingInv'
<1>1. Types /\ Lined /\ Counted /\ Answered /\ ToldTheTruth
  BY DEF PublishingInv
<1>2. /\ pc' = pc /\ outcome' = outcome
      /\ permits' = permits /\ line' = line /\ inFlight' = inFlight
  BY DEF Around, BrokerAnswers, Alarm, Blocked, AlarmClears, Reconnected, Drops, taskVars,
     permitVars
<1>3. Holders' = Holders /\ Started' = Started
  BY <1>2 DEF Holders, Started
<1>4. Lined'
  BY <1>1, <1>2 DEF Lined
<1>5. Counted'
  BY <1>1, <1>2, <1>3 DEF Counted
<1>6. CASE \E p \in Publishes, what \in Answers : BrokerAnswers(p, what)
  <2>1. PICK p \in Publishes, what \in Answers : BrokerAnswers(p, what)
    BY <1>6
  <2>2. /\ p \in wire /\ wire' = wire \ {p}
        /\ stored' = IF what = "confirmed" THEN stored \cup {p} ELSE stored
        /\ reply' = IF pc[p] = "written" THEN [reply EXCEPT ![p] = what] ELSE reply
        /\ UNCHANGED <<alarm, blocked, alarms, drops>>
    BY <2>1 DEF BrokerAnswers
  <2>3. Types'
    BY <1>1, <1>2, <2>2 DEF Types
  <2>4. reply \in [Publishes -> Answers \cup {"none"}]
    BY <1>1 DEF Types
  <2>5. \A q \in Publishes \ {p} : reply'[q] = reply[q]
    BY <2>2, <2>4
  <2>6. p \notin stored /\ outcome[p] \notin {"refused", "confirmed", "declined"}
    BY <1>1, <2>2 DEF Answered, ToldTheTruth
  <2>7. Answered'
    BY <1>1, <1>2, <2>2, <2>4, <2>5, <2>6 DEF Answered, Answers
  <2>8. ToldTheTruth'
    BY <1>1, <1>2, <2>2, <2>6 DEF ToldTheTruth
  <2> QED
    BY <1>4, <1>5, <2>3, <2>7, <2>8 DEF PublishingInv
<1>7. CASE Alarm \/ Blocked \/ AlarmClears \/ Reconnected
  <2>1. UNCHANGED <<reply, wire, stored, drops>>
    BY <1>7 DEF Alarm, Blocked, AlarmClears, Reconnected, taskVars
  <2>2. alarm' \in BOOLEAN /\ blocked' \in {"yes", "no", "unknown"}
    BY <1>1, <1>7 DEF Alarm, Blocked, AlarmClears, Reconnected, Types
  <2>3. \/ alarms' = alarms
        \/ alarms < MaxAlarms /\ alarms' = alarms + 1
    BY <1>7 DEF Alarm, Blocked, AlarmClears, Reconnected
  <2>4. alarms \in 0..MaxAlarms
    BY <1>1 DEF Types
  <2>5. alarms' \in 0..MaxAlarms
    BY <2>3, <2>4, PublishingAssumption
  <2> QED
    BY <1>1, <1>2, <1>4, <1>5, <2>1, <2>2, <2>5
    DEF PublishingInv, Types, Answered, ToldTheTruth
<1>8. CASE \E taken \in SUBSET wire : Drops(taken)
  <2>1. PICK taken \in SUBSET wire : Drops(taken)
    BY <1>8
  <2>2. /\ drops < MaxDrops /\ drops' = drops + 1 /\ reply' = reply
        /\ stored' = stored \cup taken /\ wire' = {} /\ blocked' = "unknown"
        /\ alarm' = alarm /\ alarms' = alarms
    BY <2>1 DEF Drops, taskVars
  <2>3. Types'
    BY <1>1, <1>2, <2>2, PublishingAssumption DEF Types
  <2>4. Answered'
    BY <1>1, <1>2, <2>2 DEF Answered
  <2>5. ToldTheTruth'
    BY <1>1, <1>2, <2>2 DEF ToldTheTruth
  <2> QED
    BY <1>4, <1>5, <2>3, <2>4, <2>5 DEF PublishingInv
<1> QED
  BY <1>6, <1>7, <1>8 DEF Around
-----------------------------------------------------------------------------
(* The batch *)

\* The two kinds of results of a batch add up to it.
LEMMA BatchCounts ==
  /\ Cardinality(Confirmed) + Cardinality(Batch \ Confirmed) = Cardinality(Batch)
  /\ Cardinality(Confirmed) \in 0..Cardinality(Batch)
  /\ Cardinality(Batch \ Confirmed) \in 0..Cardinality(Batch)
<1>1. IsFiniteSet(Batch) /\ Confirmed \in SUBSET Batch
  BY PublishingAssumption, SendingAssumption, FS_Subset DEF Confirmed
<1>2. IsFiniteSet(Confirmed) /\ IsFiniteSet(Batch \ Confirmed)
  BY <1>1, FS_Subset
<1>3. Cardinality(Batch \ Confirmed) = Cardinality(Batch) - Cardinality(Batch \cap Confirmed)
  BY <1>1, <1>2, FS_Difference
<1>4. Batch \cap Confirmed = Confirmed
  BY <1>1
<1>5. /\ Cardinality(Batch) \in Nat /\ Cardinality(Confirmed) \in Nat
      /\ Cardinality(Batch \ Confirmed) \in Nat
  BY <1>1, <1>2, FS_CardinalityType
<1>6. Cardinality(Batch \ Confirmed) = Cardinality(Batch) - Cardinality(Confirmed)
  BY <1>3, <1>4
<1> QED
  BY <1>5, <1>6

\* A batch that has ended is told no different by what the other tasks do: its own
\* have all ended, and one that has ended takes no step.
LEMMA BatchStays ==
  ASSUME PublishingInv, PublishingInv', BatchTold, UNCHANGED <<batchVars, healthVars, link>>,
         \/ Around
         \/ \E p \in Publishes : Task(p)
  PROVE  BatchTold'
<1>1. Types /\ Lined /\ Counted /\ ToldTheTruth'
  BY DEF PublishingInv
<1>2. SendingTypeOK'
  BY DEF BatchTold, SendingTypeOK, batchVars, healthVars
<1>3. ASSUME batch \in {"told", "cancelled"}
      PROVE  \A q \in Batch : pc'[q] = "over" /\ outcome'[q] = outcome[q]
  <2>1. \A q \in Batch : pc[q] = "over"
    BY <1>3 DEF BatchTold, Over
  <2>2. CASE Around
    BY <2>1, <2>2 DEF Around, BrokerAnswers, Alarm, Blocked, AlarmClears, Reconnected, Drops,
       taskVars
  <2>3. ASSUME NEW p \in Publishes, Task(p)
        PROVE  \A q \in Batch : pc'[q] = "over" /\ outcome'[q] = outcome[q]
    <3>1. /\ pc[p] # "over"
          /\ \A q \in Publishes \ {p} :
               /\ outcome'[q] = outcome[q]
               /\ \/ pc'[q] = pc[q]
                  \/ pc[q] = "waiting" /\ pc'[q] = "granted"
      BY <1>1, <2>3, TaskEffects
    <3>2. \A q \in Batch : q \in Publishes \ {p}
      BY <2>1, <3>1, SendingAssumption
    <3> QED
      BY <2>1, <3>1, <3>2
  <2> QED
    BY <2>2, <2>3
<1>4. batch \in {"told", "cancelled"} => Over' = Batch /\ Confirmed' = Confirmed
  BY <1>3 DEF Over, Confirmed
<1>5. Confirmed' \subseteq stored'
  BY <1>1, SendingAssumption DEF ToldTheTruth, Confirmed
<1>6. batch' = batch /\ report' = report
  BY DEF batchVars
<1> QED
  BY <1>2, <1>4, <1>5, <1>6 DEF BatchTold

\* send_all counts when all of its tasks have ended.
LEMMA BatchEndsTold ==
  ASSUME PublishingInv, BatchTold, BatchEnds
  PROVE  BatchTold'
<1>1. /\ Over = Batch /\ batch \in {"running", "cancelling"}
      /\ batch' = IF batch = "running" THEN "told" ELSE "cancelled"
      /\ report' = IF batch = "running"
                   THEN [confirmed |-> Cardinality(Confirmed),
                         failed |-> Cardinality(Batch \ Confirmed)]
                   ELSE report
      /\ UNCHANGED <<vars, healthVars, link>>
  BY DEF BatchEnds
<1>2. Over' = Over /\ Confirmed' = Confirmed /\ stored' = stored
  BY <1>1 DEF Over, Confirmed, vars, taskVars, brokerVars
<1>3. Confirmed \subseteq stored
  BY SendingAssumption DEF PublishingInv, ToldTheTruth, Confirmed
<1>4. report' \in [confirmed : 0..Cardinality(Batch), failed : 0..Cardinality(Batch)]
  BY <1>1, BatchCounts DEF BatchTold, SendingTypeOK
<1>5. SendingTypeOK'
  BY <1>1, <1>4 DEF BatchTold, SendingTypeOK, healthVars
<1>6. batch' = "told" => /\ report'.confirmed = Cardinality(Confirmed)
                         /\ report'.failed = Cardinality(Batch \ Confirmed)
  BY <1>1
<1> QED
  BY <1>1, <1>2, <1>3, <1>5, <1>6, BatchCounts DEF BatchTold

-----------------------------------------------------------------------------
(* The whole *)

\* Initially nothing has been sent.
LEMMA SendingInvInit == SendingInit => SendingInv
<1> SUFFICES ASSUME SendingInit PROVE SendingInv
  OBVIOUS
<1>1. /\ pc = [p \in Publishes |-> "new"] /\ outcome = [p \in Publishes |-> "none"]
      /\ reply = [p \in Publishes |-> "none"] /\ permits = MaxOutstanding /\ line = <<>>
      /\ inFlight = 0 /\ wire = {} /\ stored = {} /\ alarm = FALSE
      /\ blocked \in {"no", "unknown"} /\ alarms = 0 /\ drops = 0
  BY DEF SendingInit, Init
<1>2. Types
  <2>1. 0 \in 0..MaxAlarms /\ 0 \in 0..MaxDrops
    BY PublishingAssumption
  <2> QED
    BY <1>1, <2>1 DEF Types, Pcs, Outcomes
<1>3. Holders = {} /\ Started = {}
  BY <1>1 DEF Holders, Started
<1>4. Counted
  BY <1>1, <1>3, PublishingAssumption, FS_EmptySet DEF Counted
<1>5. Lined /\ Answered /\ ToldTheTruth
  BY <1>1 DEF Lined, Answered, ToldTheTruth
<1>6. /\ batch = "running" /\ report = NoReport /\ check = "none" /\ probe = "none"
      /\ saw = FALSE /\ checks = 0 /\ link = "open"
  BY DEF SendingInit
<1>7. report \in [confirmed : 0..Cardinality(Batch), failed : 0..Cardinality(Batch)]
  <2>1. 0 \in 0..Cardinality(Batch)
    BY BatchCounts
  <2> QED
    BY <1>6, <2>1 DEF NoReport
<1>8. SendingTypeOK
  <2>1. 0 \in 0..MaxChecks
    BY SendingAssumption
  <2> QED
    BY <1>6, <1>7, <2>1 DEF SendingTypeOK
<1> QED
  BY <1>2, <1>4, <1>5, <1>6, <1>8 DEF SendingInv, PublishingInv, BatchTold, ProbeInv

\* The steps of the health check, which touch nothing else.
Health == Checks \/ ProbeAnswered \/ ProbeEnds \/ ProbeTimesOut \/ CheckCancelled

\* Every step keeps the invariant.
LEMMA SendingInvStep == SendingInv /\ [SendingNext]_allVars => SendingInv'
<1> SUFFICES ASSUME SendingInv, [SendingNext]_allVars PROVE SendingInv'
  OBVIOUS
<1>1. PublishingInv /\ BatchTold /\ ProbeInv
  BY DEF SendingInv
<1>2. ASSUME UNCHANGED vars PROVE PublishingInv'
  <2>1. UNCHANGED <<pc, outcome, reply, permits, line, inFlight, wire, stored, alarm, blocked,
                    alarms, drops>>
    BY <1>2 DEF vars, taskVars, permitVars, brokerVars
  <2>2. Holders' = Holders /\ Started' = Started
    BY <2>1 DEF Holders, Started
  <2> QED
    BY <1>1, <2>1, <2>2 DEF PublishingInv, Types, Lined, Counted, Answered, ToldTheTruth
<1>3. ASSUME NEW p \in Publishes, Sends(p) PROVE SendingInv'
  <2>1. Task(p) /\ UNCHANGED <<batchVars, healthVars, link>>
    BY <1>3 DEF Sends, GoesOn, Task
  <2>2. PublishingInv'
    BY <1>1, <2>1, TaskKeeps
  <2>3. BatchTold'
    BY <1>1, <2>1, <2>2, BatchStays
  <2>4. blocked' = blocked
    BY <1>1, <2>1, TaskEffects DEF PublishingInv
  <2> QED
    BY <1>1, <2>1, <2>2, <2>3, <2>4 DEF SendingInv, ProbeInv, healthVars
<1>4. CASE Broker
  <2>1. Around /\ UNCHANGED <<batchVars, healthVars, link>>
    BY <1>4 DEF Broker, Around
  <2>2. PublishingInv'
    BY <1>1, <2>1, AroundKeeps
  <2>3. BatchTold'
    BY <1>1, <2>1, <2>2, BatchStays
  <2>4. probe' = probe /\ (probe = "failed" /\ blocked = "unknown" => blocked' = "unknown")
    BY <1>4, <2>1 DEF Broker, BrokerAnswers, Alarm, Blocked, AlarmClears, healthVars
  <2> QED
    BY <1>1, <2>2, <2>3, <2>4 DEF SendingInv, ProbeInv
<1>5. CASE Disconnects \/ ReleasesTransport
  <2>1. /\ Around /\ blocked' = "unknown" /\ probe' \in {probe, "asked", "failed"}
        /\ link' \in {link, "released"} /\ UNCHANGED <<batchVars, check, saw, checks>>
    BY <1>5 DEF Disconnects, ReleasesTransport, ProbeStranded, Around, Drops
  <2>2. PublishingInv'
    BY <1>1, <2>1, AroundKeeps
  <2>3. SendingTypeOK'
    BY <1>1, <2>1 DEF BatchTold, SendingTypeOK, batchVars
  <2>4. /\ Over' = Over /\ Confirmed' = Confirmed /\ stored \subseteq stored'
        /\ batch' = batch /\ report' = report
    BY <1>5 DEF Disconnects, ReleasesTransport, Drops, Over, Confirmed, taskVars, batchVars
  <2>5. BatchTold'
    BY <1>1, <2>3, <2>4 DEF BatchTold
  <2> QED
    BY <2>1, <2>2, <2>5 DEF SendingInv, ProbeInv
<1>6. CASE BatchCancelled
  <2>1. UNCHANGED vars /\ UNCHANGED <<report, healthVars, link>> /\ batch' = "cancelling"
    BY <1>6 DEF BatchCancelled
  <2>2. BatchTold'
    BY <1>1, <2>1 DEF BatchTold, SendingTypeOK, healthVars
  <2>3. ProbeInv'
    BY <1>1, <2>1 DEF ProbeInv, healthVars, vars, brokerVars
  <2> QED
    BY <1>2, <2>1, <2>2, <2>3 DEF SendingInv
<1>7. CASE BatchEnds
  <2>1. UNCHANGED vars /\ UNCHANGED healthVars
    BY <1>7 DEF BatchEnds
  <2>2. BatchTold'
    BY <1>1, <1>7, BatchEndsTold
  <2>3. ProbeInv'
    BY <1>1, <2>1 DEF ProbeInv, healthVars, vars, brokerVars
  <2> QED
    BY <1>2, <2>1, <2>2, <2>3 DEF SendingInv
<1>8. CASE Health
  <2>1. UNCHANGED vars /\ UNCHANGED batchVars /\ link' = link
    BY <1>8 DEF Health, Checks, ProbeAnswered, ProbeEnds, ProbeTimesOut, CheckCancelled
  <2>2. /\ saw' \in BOOLEAN /\ check' \in {"none", "probing"} \cup Verdicts
        /\ probe' \in {"none", "asked", "answered"} \/ probe' = probe
    BY <1>1, <1>8 DEF Health, Checks, ProbeAnswered, ProbeEnds, ProbeTimesOut, CheckCancelled,
       Ends, BlockedReport, Verdicts, BatchTold, SendingTypeOK
  <2>3. \/ checks' = checks
        \/ checks < MaxChecks /\ checks' = checks + 1
    BY <1>8 DEF Health, Checks, ProbeAnswered, ProbeEnds, ProbeTimesOut, CheckCancelled
  <2>4. checks' \in 0..MaxChecks
    BY <1>1, <2>3, SendingAssumption DEF BatchTold, SendingTypeOK
  <2>5. SendingTypeOK'
    BY <1>1, <2>1, <2>2, <2>4 DEF BatchTold, SendingTypeOK, batchVars
  <2>6. /\ Over' = Over /\ Confirmed' = Confirmed /\ stored' = stored /\ blocked' = blocked
        /\ batch' = batch /\ report' = report
    BY <2>1 DEF Over, Confirmed, vars, taskVars, brokerVars, batchVars
  <2>7. BatchTold'
    BY <1>1, <2>5, <2>6 DEF BatchTold
  <2>8. ProbeInv'
    BY <1>1, <2>2, <2>6 DEF ProbeInv
  <2> QED
    BY <1>2, <2>1, <2>7, <2>8 DEF SendingInv
<1>9. CASE UNCHANGED allVars
  <2>1. UNCHANGED vars /\ UNCHANGED <<batchVars, healthVars, link>>
    BY <1>9 DEF allVars
  <2>2. /\ Over' = Over /\ Confirmed' = Confirmed /\ stored' = stored /\ blocked' = blocked
        /\ batch' = batch /\ report' = report /\ probe' = probe
    BY <2>1 DEF Over, Confirmed, vars, taskVars, brokerVars, batchVars, healthVars
  <2>3. BatchTold'
    BY <1>1, <2>1, <2>2 DEF BatchTold, SendingTypeOK, batchVars, healthVars
  <2> QED
    BY <1>1, <1>2, <2>1, <2>2, <2>3 DEF SendingInv, ProbeInv
<1>10. CASE BeginsClosing
  <2>1. UNCHANGED <<vars, batchVars, healthVars>> /\ link' = "closing"
    BY <1>10 DEF BeginsClosing
  <2>2. /\ Over' = Over /\ Confirmed' = Confirmed /\ stored' = stored /\ blocked' = blocked
        /\ batch' = batch /\ report' = report /\ probe' = probe
    BY <2>1 DEF Over, Confirmed, vars, taskVars, brokerVars, batchVars, healthVars
  <2>3. BatchTold'
    BY <1>1, <2>1, <2>2 DEF BatchTold, SendingTypeOK, batchVars, healthVars
  <2> QED
    BY <1>1, <1>2, <2>1, <2>2, <2>3 DEF SendingInv, ProbeInv
<1> QED
  BY <1>3, <1>4, <1>5, <1>6, <1>7, <1>8, <1>9, <1>10 DEF SendingNext, Health

\* The inductive invariant holds in every state.
THEOREM SendingInvariant == SendingSpec => []SendingInv
BY SendingInvInit, SendingInvStep, PTL DEF SendingSpec

\* Whatever is cancelled, timed out, declined or refused, the free permits and the
\* held ones are max_outstanding_publishes, and nobody waits while one is free.
THEOREM PermitsAreConserved == SendingSpec => []PermitsConserved
<1>1. SendingInv => PermitsConserved
  <2> SUFFICES ASSUME SendingInv PROVE PermitsConserved
    OBVIOUS
  <2>1. Types /\ Lined /\ Counted
    BY DEF SendingInv, PublishingInv
  <2>2. /\ permits \in Nat /\ permits + Cardinality(Holders) = MaxOutstanding
        /\ inFlight = Cardinality(Started)
    BY <2>1 DEF Counted
  <2>3. permits \in 0..MaxOutstanding /\ inFlight \in 0..MaxOutstanding
    BY <2>2, FiniteParts, PublishingAssumption
  <2>4. TypeOK
    BY <2>1, <2>3 DEF Types, Lined, TypeOK
  <2> QED
    BY <2>1, <2>2, <2>4 DEF PermitsConserved, Lined, Started
<1> QED
  BY <1>1, SendingInvariant, PTL

\* What publish_raw tells its caller is true of the broker, now and later.
THEOREM CallersToldTheTruth == SendingSpec => []ToldTheTruth
<1>1. SendingInv => ToldTheTruth
  BY DEF SendingInv, PublishingInv
<1> QED
  BY <1>1, SendingInvariant, PTL

\* send_all tells its caller about all of its batch, and only once all has ended.
THEOREM BatchesAreTold == SendingSpec => []BatchTold
<1>1. SendingInv => BatchTold
  BY DEF SendingInv
<1> QED
  BY <1>1, SendingInvariant, PTL

\* What health() says rests on what could be known when it said it: down is never the
\* answer of a probe whose connection is known to be blocked, one that began to close
\* under it included.
THEOREM HealthIsTruthful == SendingSpec => HealthTellsTheTruth
<1> DEFINE Step == check' # check /\ check' \in Verdicts =>
                     /\ check' = "down" /\ KnownBlocked =>
                          link # "open" /\ check # "probing"
                     /\ saw' => check' \in {"degraded", "down"}
<1>1. ASSUME SendingInv, SendingNext PROVE Step
  <2>1. CASE Checks
    BY <2>1 DEF Checks, Ends, BlockedReport, Verdicts
  <2>2. CASE ProbeEnds
    <3>1. probe = "failed" => ~KnownBlocked
      BY <1>1 DEF SendingInv, ProbeInv, KnownBlocked
    <3> QED
      BY <2>2, <3>1 DEF ProbeEnds, Ends
  <2>3. CASE ProbeTimesOut
    BY <2>3 DEF ProbeTimesOut, Ends, BlockedReport
  <2>4. CASE CheckCancelled
    BY <2>4 DEF CheckCancelled, Ends, Verdicts
  <2>5. CASE ~(Checks \/ ProbeEnds \/ ProbeTimesOut \/ CheckCancelled)
    BY <1>1, <2>5 DEF SendingNext, Sends, BatchCancelled, BatchEnds, ProbeAnswered, Broker,
       Disconnects, BeginsClosing, ReleasesTransport, GoesOn, healthVars
  <2> QED
    BY <2>1, <2>2, <2>3, <2>4, <2>5
<1>2. SendingInv /\ [SendingNext]_allVars => [Step]_allVars
  BY <1>1
<1> QED
  BY <1>2, SendingInvariant, PTL DEF SendingSpec, HealthTellsTheTruth

-----------------------------------------------------------------------------
(* Closing: the inductive invariant *)

\* One task at a time closes a consumer, and only one that is marked closed.
OneCloser ==
  \A c \in Consumers :
    /\ \A v, w \in Callers : call[c][v] \in Closing /\ call[c][w] \in Closing => v = w
    /\ \A w \in Callers : call[c][w] \in Closing => c \in shut

\* A consumer that consume() has not begun with, or not brought to the broker.
Starting ==
  \A c \in Consumers :
    /\ stage[c] \in {"absent", "declaring", "subscribing"} => running[c] = 0
    /\ stage[c] = "absent" =>
         /\ c \notin workers \cup tracked \cup shut
         /\ \A w \in Callers : call[c][w] = "no"
    /\ stage[c] \in {"declaring", "subscribing"} => c \in tracked \cup shut
    /\ running[c] > 0 => c \in workers
    /\ c \in workers => c \in tracked \cup late

\* What has been closed is quiet.
Quiet ==
  \A c \in shut \ late :
    (\A w \in Callers : call[c][w] \notin Closing) =>
      running[c] = 0 /\ c \notin workers /\ c \notin tracked /\ stage[c] # "live"

\* The connection that closes has called close on all it has tracked.
Called ==
  conn # "open" =>
    \A c \in (workers \cup tracked) \ late : call[c]["conn"] # "no"

\* When the connection's call is over, so is the closing, unless the application
\* does it.
CallOver ==
  ~cancelled =>
    \A c \in Consumers :
      call[c]["conn"] = "done" => c \in shut /\ call[c]["halt"] \notin Closing

\* Only a later call waits for the halting task.
Waited == \A c \in Consumers : \A w \in Callers : call[c][w] = "awaiting" => c \in shut

\* Before it closes the connection calls close on nothing.
Uncalled == conn = "open" => \A c \in Consumers : call[c]["conn"] = "no"

ClosingInv ==
  /\ ConnTypeOK /\ OneCloser /\ Starting /\ Quiet /\ Called /\ CallOver /\ Waited /\ Uncalled

-----------------------------------------------------------------------------
(* Calls of close *)

\* A step of one call moves no other.
LEMMA OneCallMoves ==
  ASSUME ConnTypeOK, NEW c \in Consumers, NEW w \in Callers, NEW to \in CallStates, Becomes(c, w, to)
  PROVE  /\ call' \in [Consumers -> [Callers -> CallStates]]
         /\ call'[c][w] = to
         /\ \A v \in Callers \ {w} : call'[c][v] = call[c][v]
         /\ \A d \in Consumers \ {c} : call'[d] = call[d]
<1>1. call \in [Consumers -> [Callers -> CallStates]]
  BY DEF ConnTypeOK
<1>2. call' = [call EXCEPT ![c] = [call[c] EXCEPT ![w] = to]]
  BY DEF Becomes
<1>3. [call[c] EXCEPT ![w] = to] \in [Callers -> CallStates]
  BY <1>1
<1> QED
  BY <1>1, <1>2, <1>3

\* So it is with a call that returns.
LEMMA OneCallReturns ==
  ASSUME ConnTypeOK, NEW c \in Consumers, NEW w \in Callers, NEW what \in Results,
         Returns(c, w, what)
  PROVE  /\ result' \in [Consumers -> [Callers -> Results]]
         /\ call' \in [Consumers -> [Callers -> CallStates]]
         /\ call'[c][w] = "done"
         /\ \A v \in Callers \ {w} : call'[c][v] = call[c][v]
         /\ \A d \in Consumers \ {c} : call'[d] = call[d]
<1>1. result \in [Consumers -> [Callers -> Results]]
  BY DEF ConnTypeOK
<1>2. result' = [result EXCEPT ![c] = [result[c] EXCEPT ![w] = what]]
  BY DEF Returns
<1>3. [result[c] EXCEPT ![w] = what] \in [Callers -> Results]
  BY <1>1
<1>4. result' \in [Consumers -> [Callers -> Results]]
  BY <1>1, <1>2, <1>3
<1>5. Becomes(c, w, "done") /\ "done" \in CallStates
  BY DEF Returns, CallStates
<1> QED
  BY <1>4, <1>5, OneCallMoves

\* Cleaning up leaves of a set of consumers nothing that runs.
LEMMA CleanedUp ==
  ASSUME ConnTypeOK, NEW cs \in SUBSET Consumers, CleansUp(cs)
  PROVE  /\ stage' \in [Consumers -> Stages] /\ workers' \subseteq Consumers
         /\ tracked' \subseteq Consumers /\ running' \in [Consumers -> 0..Concurrency]
         /\ \A c \in cs : /\ running'[c] = 0 /\ c \notin workers' /\ c \notin tracked'
                          /\ stage'[c] # "live" /\ stage'[c] \in {stage[c], "gone"}
                          /\ stage[c] = "absent" => stage'[c] = "absent"
         /\ \A c \in Consumers \ cs :
              /\ running'[c] = running[c] /\ stage'[c] = stage[c]
              /\ c \in workers' <=> c \in workers
              /\ c \in tracked' <=> c \in tracked
<1>1. /\ stage \in [Consumers -> Stages] /\ workers \subseteq Consumers
      /\ tracked \subseteq Consumers /\ running \in [Consumers -> 0..Concurrency]
  BY DEF ConnTypeOK
<1>2. 0 \in 0..Concurrency
  BY ConnectionAssumption
<1>3. running' \in [Consumers -> 0..Concurrency]
  BY <1>1, <1>2 DEF CleansUp
<1>4. stage' \in [Consumers -> Stages]
  BY <1>1 DEF CleansUp, Stages
<1>5. ASSUME NEW c \in Consumers
      PROVE  /\ running'[c] = IF c \in cs THEN 0 ELSE running[c]
             /\ stage'[c] = IF c \in cs /\ stage[c] \in {"live", "stopped"}
                            THEN "gone" ELSE stage[c]
  BY DEF CleansUp
<1>6. workers' = workers \ cs /\ tracked' = tracked \ cs
  BY DEF CleansUp
<1> QED
  BY <1>1, <1>3, <1>4, <1>5, <1>6

-----------------------------------------------------------------------------
(* Starting and running *)

\* consume() and the workers of a consumer.
Running(c) ==
  \/ Consume(c) \/ CreateWorkers(c) \/ Subscribe(c) \/ StartFails(c)
  \/ Handle(c) \/ Finish(c)

\* They move no call of close, and what they start of a closed consumer is late.
LEMMA RunningStep ==
  ASSUME ClosingInv, NEW c \in Consumers, Running(c)
  PROVE  ClosingInv'
<1>1. /\ stage \in [Consumers -> Stages] /\ workers \subseteq Consumers
      /\ tracked \subseteq Consumers /\ shut \subseteq Consumers
      /\ running \in [Consumers -> 0..Concurrency] /\ late \subseteq Consumers
      /\ Concurrency \in Nat \ {0}
  BY ConnectionAssumption DEF ClosingInv, ConnTypeOK
<1>2. UNCHANGED <<shut, call, result, conn, cancelled, transport, interrupted>>
  BY DEF Running, Consume, CreateWorkers, Subscribe, StartGoesOn, StartFails, Handle, Finish,
     closeVars, connVars
<1>3. OneCloser' /\ CallOver' /\ Waited' /\ Uncalled'
  BY <1>2 DEF ClosingInv, OneCloser, CallOver, Waited, Uncalled
<1>4. CASE Consume(c)
  <2>1. /\ conn = "open" /\ stage[c] = "absent" /\ stage' = [stage EXCEPT ![c] = "declaring"]
        /\ tracked' = tracked \cup {c} /\ UNCHANGED <<workers, running, late>>
    BY <1>4 DEF Consume
  <2>2. ConnTypeOK'
    BY <1>1, <1>2, <2>1 DEF ClosingInv, ConnTypeOK, Stages
  <2>3. Starting'
    BY <1>1, <1>2, <2>1 DEF ClosingInv, Starting
  <2>4. c \notin shut
    BY <2>1 DEF ClosingInv, Starting
  <2>5. Quiet'
    BY <1>1, <1>2, <2>1, <2>4 DEF ClosingInv, Quiet
  <2>6. Called'
    BY <1>2, <2>1 DEF Called
  <2> QED
    BY <1>3, <2>2, <2>3, <2>5, <2>6 DEF ClosingInv
<1>5. CASE CreateWorkers(c) \/ Subscribe(c)
  <2>1. /\ stage[c] \in {"declaring", "subscribing"}
        /\ \/ stage' = [stage EXCEPT ![c] = "subscribing"]
           \/ stage' = [stage EXCEPT ![c] = "live"]
        /\ workers' \in {workers, workers \cup {c}}
        /\ late' = IF c \in shut THEN late \cup {c} ELSE late
        /\ UNCHANGED <<tracked, running>>
    BY <1>5 DEF CreateWorkers, Subscribe, StartGoesOn
  <2>2. ConnTypeOK'
    BY <1>1, <1>2, <2>1 DEF ClosingInv, ConnTypeOK, Stages
  <2>3. c \in tracked \/ c \in late'
    BY <2>1 DEF ClosingInv, Starting
  <2>4. Starting'
    BY <1>1, <1>2, <2>1, <2>3 DEF ClosingInv, Starting
  <2>5. Quiet'
    BY <1>1, <1>2, <2>1 DEF ClosingInv, Quiet
  <2>6. Called'
    BY <1>2, <2>1, <2>3 DEF ClosingInv, Called
  <2> QED
    BY <1>3, <2>2, <2>4, <2>5, <2>6 DEF ClosingInv
<1>6. CASE StartFails(c)
  <2>1. /\ stage[c] \in {"declaring", "subscribing"} /\ stage' = [stage EXCEPT ![c] = "gone"]
        /\ workers' = workers \ {c} /\ tracked' = tracked \ {c} /\ UNCHANGED <<running, late>>
    BY <1>6 DEF StartFails
  <2>2. ConnTypeOK'
    BY <1>1, <1>2, <2>1 DEF ClosingInv, ConnTypeOK, Stages
  <2>3. running[c] = 0
    BY <2>1 DEF ClosingInv, Starting
  <2>4. Starting'
    BY <1>1, <1>2, <2>1, <2>3 DEF ClosingInv, Starting
  <2>5. Quiet'
    BY <1>1, <1>2, <2>1, <2>3 DEF ClosingInv, Quiet
  <2>6. Called'
    BY <1>2, <2>1 DEF ClosingInv, Called
  <2> QED
    BY <1>3, <2>2, <2>4, <2>5, <2>6 DEF ClosingInv
<1>7. CASE Handle(c) \/ Finish(c)
  <2>1. \/ /\ stage[c] \in {"live", "stopped"} /\ c \in workers /\ running[c] < Concurrency
           /\ running' = [running EXCEPT ![c] = @ + 1]
        \/ running[c] > 0 /\ running' = [running EXCEPT ![c] = @ - 1]
    BY <1>7 DEF Handle, Finish
  <2>2. UNCHANGED <<stage, workers, tracked, late>>
    BY <1>7 DEF Handle, Finish, startVars
  <2>3. running[c] \in 0..Concurrency
    BY <1>1
  <2>4. running' \in [Consumers -> 0..Concurrency]
    BY <1>1, <2>1, <2>3
  <2>5. ConnTypeOK'
    BY <1>2, <2>2, <2>4 DEF ClosingInv, ConnTypeOK
  <2>6. /\ c \in workers /\ stage[c] \notin {"absent", "declaring", "subscribing"}
        /\ \A d \in Consumers \ {c} : running'[d] = running[d]
    BY <1>1, <2>1 DEF ClosingInv, Starting
  <2>7. Starting'
    BY <1>2, <2>2, <2>6 DEF ClosingInv, Starting
  <2>8. Quiet'
    BY <1>1, <1>2, <2>2, <2>6 DEF ClosingInv, Quiet
  <2>9. Called'
    BY <1>2, <2>2 DEF ClosingInv, Called
  <2> QED
    BY <1>3, <2>5, <2>7, <2>8, <2>9 DEF ClosingInv
<1> QED
  BY <1>4, <1>5, <1>6, <1>7 DEF Running
-----------------------------------------------------------------------------
(* Consumer.close *)

\* Somebody calls close.
LEMMA CallStep ==
  ASSUME ClosingInv, NEW c \in Consumers, Halt(c) \/ AppCloses(c)
  PROVE  ClosingInv'
<1>1. ConnTypeOK /\ running \in [Consumers -> 0..Concurrency] /\ Concurrency \in Nat \ {0}
  BY ConnectionAssumption DEF ClosingInv, ConnTypeOK
<1>2. PICK w \in {"app", "halt"} : call[c][w] = "no" /\ Becomes(c, w, "called")
  BY DEF Halt, AppCloses, Becomes
<1>3. /\ call' \in [Consumers -> [Callers -> CallStates]] /\ call'[c][w] = "called"
      /\ \A v \in Callers \ {w} : call'[c][v] = call[c][v]
      /\ \A d \in Consumers \ {c} : call'[d] = call[d]
  BY <1>1, <1>2, OneCallMoves DEF Callers, CallStates
<1>4. /\ stage[c] \notin {"absent"}
      /\ \/ running' = running
         \/ running[c] > 0 /\ running' = [running EXCEPT ![c] = @ - 1]
      /\ UNCHANGED <<stage, workers, tracked, shut, result, conn, cancelled, transport,
                     interrupted, late>>
  BY DEF Halt, AppCloses, startVars, connVars, ClosingInv, Starting
<1>5. /\ running' \in [Consumers -> 0..Concurrency]
      /\ \A d \in Consumers : running[d] = 0 => running'[d] = 0
      /\ \A d \in Consumers : running'[d] > 0 => running[d] > 0
  <2>1. running[c] \in 0..Concurrency
    BY <1>1
  <2> QED
    BY <1>1, <1>4, <2>1
<1>6. ConnTypeOK'
  BY <1>1, <1>3, <1>4, <1>5 DEF ConnTypeOK
<1>7. \A d \in Consumers : \A v \in Callers : call'[d][v] \in Closing <=> call[d][v] \in Closing
  BY <1>2, <1>3 DEF Closing
<1>8. OneCloser'
  BY <1>4, <1>7 DEF ClosingInv, OneCloser
<1>9. Starting'
  BY <1>3, <1>4, <1>5 DEF ClosingInv, Starting
<1>10. Quiet'
  BY <1>1, <1>4, <1>5, <1>7 DEF ClosingInv, Quiet, ConnTypeOK
<1>11. Called' /\ CallOver'
  <2>1. "conn" \in Callers /\ "halt" \in Callers /\ w # "conn"
    BY DEF Callers
  <2>2. \A d \in Consumers : call'[d]["conn"] = call[d]["conn"]
    BY <1>3, <2>1
  <2> QED
    BY <1>1, <1>4, <1>7, <2>1, <2>2 DEF ClosingInv, Called, CallOver, ConnTypeOK
<1>12. Waited' /\ Uncalled'
  BY <1>2, <1>3, <1>4 DEF ClosingInv, Waited, Uncalled, Callers, Closing
<1> QED
  BY <1>6, <1>8, <1>9, <1>10, <1>11, <1>12 DEF ClosingInv

\* The first to enter closes; the others do not, and wait for nothing of their own.
LEMMA EnterStep ==
  ASSUME ClosingInv, NEW c \in Consumers, NEW w \in Callers, Enter(c, w)
  PROVE  ClosingInv'
<1>1. /\ ConnTypeOK /\ shut \subseteq Consumers
      /\ workers \subseteq Consumers /\ tracked \subseteq Consumers
  BY DEF ClosingInv, ConnTypeOK
<1>2. /\ call[c][w] = "called" /\ shut' = shut \cup {c}
      /\ UNCHANGED <<stage, workers, tracked, running, conn, cancelled, transport, interrupted,
                     late>>
  BY DEF Enter, startVars, connVars
<1>3. PICK to \in {"stopping", "draining", "awaiting", "done"} :
        /\ to \in {"stopping", "draining"} <=> c \notin shut
        /\ to = "done" => call[c]["halt"] = "no" \/ w = "halt"
        /\ \/ Becomes(c, w, to) /\ result' = result
           \/ to = "done" /\ Returns(c, w, "finished")
  BY DEF Enter
<1>4. /\ call' \in [Consumers -> [Callers -> CallStates]] /\ call'[c][w] = to
      /\ \A v \in Callers \ {w} : call'[c][v] = call[c][v]
      /\ \A d \in Consumers \ {c} : call'[d] = call[d]
      /\ result' \in [Consumers -> [Callers -> Results]]
  <2>1. to \in CallStates /\ "finished" \in Results
    BY DEF CallStates, Results
  <2>2. CASE Becomes(c, w, to) /\ result' = result
    BY <1>1, <2>1, <2>2, OneCallMoves DEF ConnTypeOK
  <2>3. CASE to = "done" /\ Returns(c, w, "finished")
    BY <1>1, <2>1, <2>3, OneCallReturns
  <2> QED
    BY <1>3, <2>2, <2>3
<1>5. ConnTypeOK'
  BY <1>1, <1>2, <1>4 DEF ConnTypeOK
<1>6. c \notin shut => \A v \in Callers : call[c][v] \notin Closing
  BY DEF ClosingInv, OneCloser
<1>7. OneCloser'
  <2>1. ASSUME NEW u \in Callers, NEW v \in Callers,
               call'[c][u] \in Closing, call'[c][v] \in Closing
        PROVE  u = v
    <3>1. CASE c \notin shut
      BY <1>4, <1>6, <2>1, <3>1
    <3>2. CASE c \in shut
      <4>1. to \notin Closing
        BY <1>3, <3>2 DEF Closing
      <4>2. u # w /\ v # w
        BY <1>4, <2>1, <4>1
      <4> QED
        BY <1>4, <2>1, <4>2 DEF ClosingInv, OneCloser
    <3> QED
      BY <3>1, <3>2
  <2> QED
    BY <1>2, <1>4, <2>1 DEF ClosingInv, OneCloser
<1>8. stage[c] # "absent"
  BY <1>2 DEF ClosingInv, Starting
<1>9. Starting'
  BY <1>2, <1>4, <1>8 DEF ClosingInv, Starting
<1>10. Quiet'
  <2>1. ASSUME NEW d \in shut' \ late', \A v \in Callers : call'[d][v] \notin Closing
        PROVE  d \in shut /\ \A v \in Callers : call[d][v] \notin Closing
    <3>1. CASE d = c
      <4>1. to \notin Closing /\ c \in shut
        BY <1>3, <1>4, <2>1, <3>1 DEF Closing
      <4>2. call[c][w] \notin Closing
        BY <1>2 DEF Closing
      <4> QED
        BY <1>4, <2>1, <3>1, <4>1, <4>2
    <3>2. CASE d # c
      BY <1>1, <1>2, <1>4, <2>1, <3>2
    <3> QED
      BY <3>1, <3>2
  <2> QED
    BY <1>2, <2>1 DEF ClosingInv, Quiet
<1>11. Called'
  <2>1. \A d \in Consumers : call[d]["conn"] # "no" => call'[d]["conn"] # "no"
    BY <1>3, <1>4 DEF Callers
  <2> QED
    BY <1>1, <1>2, <2>1 DEF ClosingInv, Called
<1>12. CallOver'
  <2>1. ASSUME ~cancelled, NEW d \in Consumers, call'[d]["conn"] = "done"
        PROVE  d \in shut' /\ call'[d]["halt"] \notin Closing
    <3>1. CASE d # c
      BY <1>2, <1>4, <2>1, <3>1 DEF ClosingInv, CallOver
    <3>2. CASE d = c /\ call[c]["conn"] = "done"
      <4>1. c \in shut /\ call[c]["halt"] \notin Closing
        BY <2>1, <3>2 DEF ClosingInv, CallOver
      <4>2. to \notin Closing
        BY <1>3, <4>1 DEF Closing
      <4> QED
        BY <1>2, <1>4, <3>2, <4>1, <4>2 DEF Callers
    <3>3. CASE d = c /\ call[c]["conn"] # "done"
      <4>1. w = "conn" /\ to = "done"
        BY <1>4, <2>1, <3>3 DEF Callers
      <4>2. call[c]["halt"] = "no"
        BY <1>3, <4>1
      <4> QED
        BY <1>2, <1>4, <3>3, <4>1, <4>2 DEF Callers, Closing
    <3> QED
      BY <3>1, <3>2, <3>3
  <2> QED
    BY <1>2, <2>1 DEF CallOver
<1>13. Waited' /\ Uncalled'
  BY <1>2, <1>3, <1>4 DEF ClosingInv, Waited, Uncalled, Callers, Closing
<1> QED
  BY <1>5, <1>7, <1>9, <1>10, <1>11, <1>12, <1>13 DEF ClosingInv

\* The one that closes goes on.
LEMMA GoesOnStep ==
  ASSUME ClosingInv, NEW c \in Consumers, NEW w \in Callers,
         StopAcknowledged(c, w) \/ PutSentinels(c, w)
  PROVE  ClosingInv'
<1>1. ConnTypeOK /\ shut \subseteq Consumers /\ stage \in [Consumers -> Stages]
      /\ workers \subseteq Consumers /\ tracked \subseteq Consumers
  BY DEF ClosingInv, ConnTypeOK
<1>2. PICK to \in {"draining", "waiting"} : Becomes(c, w, to)
  BY DEF StopAcknowledged, PutSentinels
<1>3. /\ call[c][w] \in Closing
      /\ stage' = stage \/ stage' = [stage EXCEPT ![c] = "stopped"]
      /\ UNCHANGED <<workers, tracked, running, shut, result, conn, cancelled, transport,
                     interrupted, late>>
  BY DEF StopAcknowledged, PutSentinels, startVars, connVars, Closing
<1>4. /\ call' \in [Consumers -> [Callers -> CallStates]] /\ call'[c][w] = to
      /\ \A v \in Callers \ {w} : call'[c][v] = call[c][v]
      /\ \A d \in Consumers \ {c} : call'[d] = call[d]
  BY <1>1, <1>2, OneCallMoves DEF CallStates
<1>5. ConnTypeOK'
  BY <1>1, <1>3, <1>4 DEF ConnTypeOK, Stages
<1>6. \A d \in Consumers : \A v \in Callers : call'[d][v] \in Closing <=> call[d][v] \in Closing
  BY <1>3, <1>4 DEF Closing
<1>7. OneCloser'
  BY <1>3, <1>6 DEF ClosingInv, OneCloser
<1>8. /\ stage[c] # "absent"
      /\ \A d \in Consumers :
           \/ stage'[d] = stage[d]
           \/ d = c /\ stage'[d] = "stopped"
  BY <1>1, <1>3 DEF ClosingInv, Starting, Closing
<1>9. Starting'
  BY <1>3, <1>4, <1>8 DEF ClosingInv, Starting
<1>10. Quiet'
  BY <1>1, <1>3, <1>6, <1>8 DEF ClosingInv, Quiet
<1>11. /\ \A d \in Consumers : call[d]["conn"] # "no" => call'[d]["conn"] # "no"
       /\ \A d \in Consumers : call'[d]["conn"] = "done" => call[d]["conn"] = "done"
  BY <1>4 DEF Callers
<1>12. Called' /\ CallOver'
  BY <1>1, <1>3, <1>6, <1>11 DEF ClosingInv, Called, CallOver, Callers
<1>13. Waited' /\ Uncalled'
  BY <1>2, <1>3, <1>4 DEF ClosingInv, Waited, Uncalled, Callers, Closing
<1> QED
  BY <1>5, <1>7, <1>9, <1>10, <1>12, <1>13 DEF ClosingInv
\* Every way the one that closes ends by is through the finally clause.
LEMMA EndsStep ==
  ASSUME ClosingInv, NEW c \in Consumers, NEW w \in Callers,
         CloseFails(c, w) \/ Drained(c, w) \/ DrainTimesOut(c, w)
  PROVE  ClosingInv'
<1>1. ConnTypeOK /\ shut \subseteq Consumers /\ workers \subseteq Consumers
      /\ tracked \subseteq Consumers
  BY DEF ClosingInv, ConnTypeOK
<1>2. PICK what \in Results : Returns(c, w, what)
  BY DEF CloseFails, Drained, DrainTimesOut, Results
<1>3. /\ call[c][w] \in Closing /\ CleansUp({c})
      /\ UNCHANGED <<shut, conn, cancelled, transport, interrupted, late>>
  BY DEF CloseFails, Drained, DrainTimesOut, connVars, Closing
<1>4. /\ result' \in [Consumers -> [Callers -> Results]]
      /\ call' \in [Consumers -> [Callers -> CallStates]] /\ call'[c][w] = "done"
      /\ \A v \in Callers \ {w} : call'[c][v] = call[c][v]
      /\ \A d \in Consumers \ {c} : call'[d] = call[d]
  BY <1>1, <1>2, OneCallReturns
<1>5. /\ stage' \in [Consumers -> Stages] /\ workers' \subseteq Consumers
      /\ tracked' \subseteq Consumers /\ running' \in [Consumers -> 0..Concurrency]
      /\ running'[c] = 0 /\ c \notin workers' /\ c \notin tracked'
      /\ stage'[c] # "live" /\ stage'[c] \in {stage[c], "gone"}
      /\ stage[c] = "absent" => stage'[c] = "absent"
      /\ \A d \in Consumers \ {c} :
           /\ running'[d] = running[d] /\ stage'[d] = stage[d]
           /\ d \in workers' <=> d \in workers
           /\ d \in tracked' <=> d \in tracked
  BY <1>1, <1>3, CleanedUp
<1>6. ConnTypeOK'
  BY <1>1, <1>3, <1>4, <1>5 DEF ConnTypeOK
<1>7. /\ \A d \in Consumers : \A v \in Callers : call'[d][v] \in Closing => call[d][v] \in Closing
      /\ \A v \in Callers : call'[c][v] \notin Closing
      /\ c \in shut /\ stage[c] # "absent"
  BY <1>3, <1>4 DEF ClosingInv, OneCloser, Starting, Closing
<1>8. OneCloser'
  BY <1>3, <1>7 DEF ClosingInv, OneCloser
<1>9. Starting'
  <2> SUFFICES ASSUME NEW d \in Consumers
               PROVE  /\ stage'[d] \in {"absent", "declaring", "subscribing"} => running'[d] = 0
                      /\ stage'[d] = "absent" =>
                           /\ d \notin workers' \cup tracked' \cup shut'
                           /\ \A v \in Callers : call'[d][v] = "no"
                      /\ stage'[d] \in {"declaring", "subscribing"} => d \in tracked' \cup shut'
                      /\ running'[d] > 0 => d \in workers'
                      /\ d \in workers' => d \in tracked' \cup late'
    BY DEF Starting
  <2>1. CASE d = c
    BY <1>3, <1>5, <1>7, <2>1
  <2>2. CASE d # c
    BY <1>3, <1>4, <1>5, <2>2 DEF ClosingInv, Starting
  <2> QED
    BY <2>1, <2>2
<1>10. Quiet'
  <2>1. ASSUME NEW d \in shut' \ late', \A v \in Callers : call'[d][v] \notin Closing, d # c
        PROVE  \A v \in Callers : call[d][v] \notin Closing
    BY <1>1, <1>3, <1>4, <2>1
  <2> QED
    BY <1>1, <1>3, <1>5, <2>1 DEF ClosingInv, Quiet
<1>11. Called'
  <2>1. \A d \in Consumers : call[d]["conn"] # "no" => call'[d]["conn"] # "no"
    BY <1>4 DEF Callers
  <2> QED
    BY <1>1, <1>3, <1>5, <2>1 DEF ClosingInv, Called
<1>12. CallOver'
  <2>1. ASSUME ~cancelled, NEW d \in Consumers, call'[d]["conn"] = "done"
        PROVE  d \in shut /\ call'[d]["halt"] \notin Closing
    <3>1. CASE d = c
      BY <1>7, <3>1 DEF Callers
    <3>2. CASE d # c
      BY <1>4, <2>1, <3>2 DEF ClosingInv, CallOver
    <3> QED
      BY <3>1, <3>2
  <2> QED
    BY <1>3, <2>1 DEF CallOver
<1>13. Waited' /\ Uncalled'
  BY <1>3, <1>4 DEF ClosingInv, Waited, Uncalled, Callers, Closing
<1> QED
  BY <1>6, <1>8, <1>9, <1>10, <1>11, <1>12, <1>13 DEF ClosingInv

\* One that waited for the halting task returns what that came to.
LEMMA HaltReturnedStep ==
  ASSUME ClosingInv, NEW c \in Consumers, NEW w \in Callers, HaltReturned(c, w)
  PROVE  ClosingInv'
<1>1. ConnTypeOK /\ workers \subseteq Consumers /\ tracked \subseteq Consumers
      /\ result \in [Consumers -> [Callers -> Results]] /\ shut \subseteq Consumers
  BY DEF ClosingInv, ConnTypeOK
<1>2. /\ call[c][w] = "awaiting" /\ call[c]["halt"] = "done"
      /\ Returns(c, w, result[c]["halt"]) /\ result[c]["halt"] \in Results
      /\ UNCHANGED <<stage, workers, tracked, running, shut, conn, cancelled, transport,
                     interrupted, late>>
  BY <1>1 DEF HaltReturned, startVars, connVars, Callers
<1>3. /\ result' \in [Consumers -> [Callers -> Results]]
      /\ call' \in [Consumers -> [Callers -> CallStates]] /\ call'[c][w] = "done"
      /\ \A v \in Callers \ {w} : call'[c][v] = call[c][v]
      /\ \A d \in Consumers \ {c} : call'[d] = call[d]
  BY <1>1, <1>2, OneCallReturns
<1>4. \A d \in Consumers : \A v \in Callers : call'[d][v] \in Closing <=> call[d][v] \in Closing
  BY <1>2, <1>3 DEF Closing
<1>5. ConnTypeOK'
  BY <1>1, <1>2, <1>3 DEF ConnTypeOK
<1>6. OneCloser'
  BY <1>2, <1>4 DEF ClosingInv, OneCloser
<1>7. Starting'
  BY <1>2, <1>3 DEF ClosingInv, Starting
<1>8. Quiet'
  BY <1>1, <1>2, <1>4 DEF ClosingInv, Quiet
<1>9. Called'
  <2>1. \A d \in Consumers : call[d]["conn"] # "no" => call'[d]["conn"] # "no"
    BY <1>3 DEF Callers
  <2> QED
    BY <1>1, <1>2, <2>1 DEF ClosingInv, Called
<1>10. CallOver'
  <2>1. c \in shut
    BY <1>2 DEF ClosingInv, Waited
  <2>2. call'[c]["halt"] \notin Closing
    BY <1>2, <1>4 DEF Closing, Callers
  <2> QED
    BY <1>2, <1>3, <1>4, <2>1, <2>2 DEF ClosingInv, CallOver, Callers
<1>11. Waited' /\ Uncalled'
  BY <1>2, <1>3 DEF ClosingInv, Waited, Uncalled, Callers, Closing
<1> QED
  BY <1>5, <1>6, <1>7, <1>8, <1>9, <1>10, <1>11 DEF ClosingInv

-----------------------------------------------------------------------------
(* Connection.close *)

\* It calls close on all it has tracked, starting ones included.
LEMMA ConnClosesStep ==
  ASSUME ClosingInv, ConnCloses
  PROVE  ClosingInv'
<1>1. ConnTypeOK /\ workers \subseteq Consumers /\ tracked \subseteq Consumers
      /\ call \in [Consumers -> [Callers -> CallStates]] /\ shut \subseteq Consumers
  BY DEF ClosingInv, ConnTypeOK
<1>2. /\ conn = "open" /\ conn' = "gathering"
      /\ call' = [c \in Consumers |->
                   IF c \in tracked THEN [call[c] EXCEPT !["conn"] = "called"] ELSE call[c]]
      /\ UNCHANGED <<stage, workers, tracked, running, shut, result, cancelled, transport,
                     interrupted, late>>
  BY DEF ConnCloses, startVars
<1>3. "conn" \in Callers /\ "called" \in CallStates
  BY DEF Callers, CallStates
<1>4. ASSUME NEW c \in Consumers
      PROVE  /\ call'[c] \in [Callers -> CallStates]
             /\ \A w \in Callers \ {"conn"} : call'[c][w] = call[c][w]
             /\ c \in tracked => call'[c]["conn"] = "called"
             /\ c \notin tracked => call'[c] = call[c]
  BY <1>1, <1>2, <1>3
<1>5. call' \in [Consumers -> [Callers -> CallStates]]
  BY <1>2, <1>4
<1>6. ConnTypeOK'
  BY <1>1, <1>2, <1>5 DEF ConnTypeOK
<1>7. \A c \in Consumers : call[c]["conn"] = "no"
  BY <1>2 DEF ClosingInv, Uncalled
<1>8. \A c \in Consumers : \A w \in Callers : call'[c][w] \in Closing <=> call[c][w] \in Closing
  BY <1>4, <1>7 DEF Closing
<1>9. OneCloser'
  BY <1>2, <1>8 DEF ClosingInv, OneCloser
<1>10. Starting'
  BY <1>2, <1>4 DEF ClosingInv, Starting
<1>11. Quiet'
  BY <1>1, <1>2, <1>8 DEF ClosingInv, Quiet
<1>12. Called'
  BY <1>1, <1>2, <1>4 DEF ClosingInv, Called, Starting
<1>13. CallOver'
  BY <1>4, <1>7 DEF CallOver
<1>14. Waited' /\ Uncalled'
  BY <1>2, <1>4 DEF ClosingInv, Waited, Uncalled
<1> QED
  BY <1>6, <1>9, <1>10, <1>11, <1>12, <1>13, <1>14 DEF ClosingInv

\* What cancelling it strikes ends through the same finally clause.
LEMMA ConnCancelledStep ==
  ASSUME ClosingInv, ConnCancelled
  PROVE  ClosingInv'
<1> DEFINE cs == {c \in Consumers : \E w \in Callers : Struck(c, w) /\ call[c][w] \in Closing}
<1>1. /\ ConnTypeOK /\ shut \subseteq Consumers /\ workers \subseteq Consumers
      /\ call \in [Consumers -> [Callers -> CallStates]] /\ tracked \subseteq Consumers
      /\ result \in [Consumers -> [Callers -> Results]]
  BY DEF ClosingInv, ConnTypeOK
<1>2. /\ conn = "gathering" /\ cancelled' = TRUE /\ CleansUp(cs)
      /\ call' = [c \in Consumers |->
                   [w \in Callers |-> IF Struck(c, w) THEN "done" ELSE call[c][w]]]
      /\ result' = [c \in Consumers |->
                     [w \in Callers |-> IF Struck(c, w) THEN "raised" ELSE result[c][w]]]
      /\ UNCHANGED <<shut, conn, transport, interrupted, late>>
  BY DEF ConnCancelled
<1>3. /\ stage' \in [Consumers -> Stages] /\ workers' \subseteq Consumers
      /\ tracked' \subseteq Consumers /\ running' \in [Consumers -> 0..Concurrency]
      /\ \A c \in cs : /\ running'[c] = 0 /\ c \notin workers' /\ c \notin tracked'
                       /\ stage'[c] # "live" /\ stage'[c] \in {stage[c], "gone"}
                       /\ stage[c] = "absent" => stage'[c] = "absent"
      /\ \A c \in Consumers \ cs :
           /\ running'[c] = running[c] /\ stage'[c] = stage[c]
           /\ c \in workers' <=> c \in workers
           /\ c \in tracked' <=> c \in tracked
  BY <1>1, <1>2, CleanedUp
<1>4. \A c \in Consumers : \A w \in Callers :
        call'[c][w] = IF Struck(c, w) THEN "done" ELSE call[c][w]
  BY <1>2
<1>5. call' \in [Consumers -> [Callers -> CallStates]]
      /\ result' \in [Consumers -> [Callers -> Results]]
  BY <1>1, <1>2 DEF CallStates, Results
<1>6. ConnTypeOK'
  BY <1>1, <1>2, <1>3, <1>5 DEF ConnTypeOK
<1>7. /\ \A c \in Consumers : \A w \in Callers : call'[c][w] \in Closing => call[c][w] \in Closing
      /\ \A c \in Consumers \ cs : \A w \in Callers :
           call[c][w] \in Closing => call'[c][w] \in Closing
      /\ \A c \in Consumers : \A w \in Callers : call[c][w] = "no" <=> call'[c][w] = "no"
      /\ \A c \in Consumers : \A w \in Callers :
           call'[c][w] = "awaiting" => call[c][w] = "awaiting"
  BY <1>4 DEF Closing, Struck, Unfinished
<1>8. cs \subseteq shut
  BY DEF ClosingInv, OneCloser
<1> HIDE DEF cs
<1>9. OneCloser'
  BY <1>2, <1>7 DEF ClosingInv, OneCloser
<1>10. Starting'
  <2>1. ASSUME NEW c \in Consumers
        PROVE  /\ stage'[c] \in {"absent", "declaring", "subscribing"} => running'[c] = 0
               /\ stage'[c] = "absent" =>
                    /\ c \notin workers' \cup tracked' \cup shut'
                    /\ \A w \in Callers : call'[c][w] = "no"
               /\ stage'[c] \in {"declaring", "subscribing"} => c \in tracked' \cup shut'
               /\ running'[c] > 0 => c \in workers'
               /\ c \in workers' => c \in tracked' \cup late'
    <3>1. CASE c \in cs
      <4>1. c \in shut /\ stage[c] # "absent"
        BY <1>8, <3>1 DEF ClosingInv, Starting
      <4> QED
        BY <1>2, <1>3, <3>1, <4>1
    <3>2. CASE c \notin cs
      BY <1>2, <1>3, <1>7, <3>2 DEF ClosingInv, Starting
    <3> QED
      BY <3>1, <3>2
  <2> QED
    BY <2>1 DEF Starting
<1>11. Quiet'
  <2>1. ASSUME NEW c \in shut' \ late', \A w \in Callers : call'[c][w] \notin Closing
        PROVE  running'[c] = 0 /\ c \notin workers' /\ c \notin tracked' /\ stage'[c] # "live"
    <3>1. CASE c \in cs
      BY <1>3, <3>1
    <3>2. CASE c \notin cs
      <4>1. c \in Consumers \ cs /\ \A w \in Callers : call[c][w] \notin Closing
        BY <1>1, <1>2, <1>7, <2>1, <3>2
      <4>2. running[c] = 0 /\ c \notin workers /\ c \notin tracked /\ stage[c] # "live"
        BY <1>2, <2>1, <4>1 DEF ClosingInv, Quiet
      <4> QED
        BY <1>3, <4>1, <4>2
    <3> QED
      BY <3>1, <3>2
  <2> QED
    BY <2>1 DEF Quiet
<1>12. Called'
  <2>1. workers' \subseteq workers /\ tracked' \subseteq tracked
    BY <1>2 DEF CleansUp
  <2> QED
    BY <1>1, <1>2, <1>7, <2>1 DEF ClosingInv, Called, Callers
<1>13. CallOver'
  BY <1>2 DEF CallOver
<1>14. Waited' /\ Uncalled'
  BY <1>2, <1>7 DEF ClosingInv, Waited, Uncalled
<1> QED
  BY <1>6, <1>9, <1>10, <1>11, <1>12, <1>13, <1>14 DEF ClosingInv

\* Releasing the transport closes nothing else.
LEMMA ConnReleasesStep ==
  ASSUME ClosingInv, ConnReleases
  PROVE  ClosingInv'
<1>1. /\ conn = "gathering" /\ conn' \in {"raised", "cut", "finished"}
      /\ transport' = FALSE /\ interrupted' \subseteq Consumers
      /\ UNCHANGED <<stage, workers, tracked, running, shut, call, result, cancelled, late>>
  BY DEF ConnReleases, Verdict, startVars, closeVars
<1>2. ConnTypeOK'
  BY <1>1 DEF ClosingInv, ConnTypeOK, Results
<1> QED
  BY <1>1, <1>2
  DEF ClosingInv, OneCloser, Starting, Quiet, Called, CallOver, Waited, Uncalled

-----------------------------------------------------------------------------
(* Closing: the whole *)

\* Initially nothing consumes.
LEMMA ClosingInit == ConnInit => ClosingInv
<1> SUFFICES ASSUME ConnInit PROVE ClosingInv
  OBVIOUS
<1>1. 0 \in 0..Concurrency
  BY ConnectionAssumption
<1>2. ConnTypeOK
  BY <1>1 DEF ConnInit, ConnTypeOK, Stages, CallStates, Results
<1>3. OneCloser /\ Starting /\ Quiet
  BY DEF ConnInit, OneCloser, Starting, Quiet, Closing
<1>4. Called /\ CallOver /\ Waited /\ Uncalled
  BY DEF ConnInit, Called, CallOver, Waited, Uncalled, Callers
<1> QED
  BY <1>2, <1>3, <1>4 DEF ClosingInv

\* Every step keeps the invariant.
LEMMA ClosingStep == ClosingInv /\ [ConnNext]_connectionVars => ClosingInv'
<1> SUFFICES ASSUME ClosingInv, [ConnNext]_connectionVars PROVE ClosingInv'
  OBVIOUS
<1>1. CASE \E c \in Consumers : Running(c)
  BY <1>1, RunningStep
<1>2. CASE \E c \in Consumers : Halt(c) \/ AppCloses(c)
  BY <1>2, CallStep
<1>3. ASSUME NEW c \in Consumers, NEW w \in Callers, ConsumerClose(c, w) \/ CloseFails(c, w)
      PROVE  ClosingInv'
  BY <1>3, EnterStep, GoesOnStep, EndsStep, HaltReturnedStep DEF ConsumerClose
<1>4. CASE ConnCloses \/ ConnCancelled \/ ConnReleases
  BY <1>4, ConnClosesStep, ConnCancelledStep, ConnReleasesStep
<1>5. CASE UNCHANGED connectionVars
  <2>1. UNCHANGED <<stage, workers, tracked, running, shut, call, result, conn, cancelled,
                    transport, interrupted, late>>
    BY <1>5 DEF connectionVars, startVars, closeVars, connVars
  <2> QED
    BY <2>1
    DEF ClosingInv, ConnTypeOK, OneCloser, Starting, Quiet, Called, CallOver, Waited, Uncalled
<1> QED
  BY <1>1, <1>2, <1>3, <1>4, <1>5 DEF ConnNext, Running

\* Through consume(), Consumer.close and Connection.close the inductive invariant holds.
THEOREM ClosingInvariant == ConnSpec => []ClosingInv
BY ClosingInit, ClosingStep, PTL DEF ConnSpec

\* However many tasks are in Consumer.close, one drains it, and what it leaves is quiet.
THEOREM ClosedConsumersAreQuiet == ConnSpec => []ClosedIsQuiet
<1>1. ClosingInv => ClosedIsQuiet
  BY DEF ClosingInv, OneCloser, Quiet, ClosedIsQuiet
<1> QED
  BY <1>1, ClosingInvariant, PTL

\* The transport goes after the handlers, but for those of a consumer the application
\* was closing, of one that was starting, and where close was cancelled.
THEOREM TransportGoesLast == ConnSpec => TransportLast
<1> DEFINE Step == transport /\ ~transport' =>
                     \A c \in Consumers : running[c] > 0 =>
                       call[c]["app"] \in Closing \/ c \in late \/ cancelled
<1>1. ASSUME ClosingInv, ConnNext PROVE Step
  <2>1. CASE ConnReleases
    <3>1. ASSUME NEW c \in Consumers, running[c] > 0, c \notin late, ~cancelled
          PROVE  call[c]["app"] \in Closing
      <4>1. call[c]["conn"] # "no"
        BY <1>1, <2>1, <3>1 DEF ConnReleases, ClosingInv, Called, Starting
      <4>2. call[c]["conn"] = "done"
        BY <2>1, <4>1 DEF ConnReleases, Unfinished
      <4>3. c \in shut /\ call[c]["halt"] \notin Closing
        BY <1>1, <3>1, <4>2 DEF ClosingInv, CallOver
      <4>4. \E w \in Callers : call[c][w] \in Closing
        BY <1>1, <3>1, <4>3 DEF ClosingInv, Quiet
      <4> QED
        BY <4>2, <4>3, <4>4 DEF Callers, Closing
    <3> QED
      BY <3>1
  <2>2. CASE ~ConnReleases
    <3>1. transport' = transport
      <4>1. ASSUME NEW c \in Consumers,
                   \/ Consume(c) \/ CreateWorkers(c) \/ Subscribe(c) \/ StartFails(c)
                   \/ Handle(c) \/ Finish(c) \/ Halt(c) \/ AppCloses(c)
            PROVE  transport' = transport
        BY <4>1 DEF Consume, CreateWorkers, Subscribe, StartGoesOn, StartFails, Handle, Finish,
           Halt, AppCloses, connVars
      <4>2. ASSUME NEW c \in Consumers, NEW w \in Callers, ConsumerClose(c, w)
            PROVE  transport' = transport
        BY <4>2 DEF ConsumerClose, Enter, StopAcknowledged, PutSentinels, Drained, DrainTimesOut,
           HaltReturned, connVars
      <4>3. ASSUME NEW c \in Consumers, NEW w \in Callers, CloseFails(c, w)
            PROVE  transport' = transport
        BY <4>3 DEF CloseFails, connVars
      <4>4. ConnCloses \/ ConnCancelled => transport' = transport
        BY DEF ConnCloses, ConnCancelled, connVars
      <4> QED
        BY <1>1, <2>2, <4>1, <4>2, <4>3, <4>4 DEF ConnNext
    <3> QED
      BY <3>1
  <2> QED
    BY <2>1, <2>2
<1>2. ClosingInv /\ [ConnNext]_connectionVars => [Step]_connectionVars
  BY <1>1
<1> QED
  BY <1>2, ClosingInvariant, PTL DEF ConnSpec, TransportLast

=============================================================================
