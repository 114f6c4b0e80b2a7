-------------------------- MODULE IdempotencyProofs --------------------------
(***************************************************************************)
(* Proofs about handling a message once, for every set of workers,         *)
(* messages and keys, and every choice of the two windows, of the limit of *)
(* attempts and of the bounds.                                             *)
(***************************************************************************)
EXTENDS Idempotency, TLAPS

-----------------------------------------------------------------------------
(* The inductive invariants *)

\* A worker that is not idle has a message.  The broker waits for one answer for
\* each message that is out, and dead-letters a message at the last attempt.
Linking ==
  /\ \A w \in Workers : pc[w] # "idle" => job[w] \in Messages
  /\ \A w \in Workers : linked[w] => pc[w] # "idle" /\ where[job[w]] = "out"
  /\ \A v, w \in Workers : linked[v] /\ linked[w] /\ job[v] = job[w] => v = w
  /\ \A m \in Messages : where[m] \in {"ready", "out"} => attempts[m] < MaxAttempts

\* What says that a message was handled is said of one that was.
Accepting ==
  /\ \A k \in Keys : rows[k].state = "CONFIRMED" => handled[k] > 0
  /\ \A w \in Workers :
       /\ pc[w] \in {"confirm", "record"} => handled[Key(w)] > 0
       /\ pc[w] = "answer" /\ answer[w] = "accept" => handled[Key(w)] > 0
       /\ pc[w] = "forget" => answer[w] # "accept"

Inv == TypeOK /\ Linking /\ Accepting /\ NothingLost

\* A claim that has not run out is in the table for as long as it lasts, under its
\* holder's name unless somebody else has confirmed the key.
Leased(w) == pc[w] \in Holding /\ lease[w] > 0

Covered ==
  kind = "sql" =>
    \A w \in Workers : Leased(w) =>
      /\ Exists(Key(w)) /\ rows[Key(w)].left >= lease[w]
      /\ rows[Key(w)].state = "CONFIRMED" \/ rows[Key(w)].by = NodeOf[w]

\* No two claims of a key last at the same time.
Alone ==
  kind = "sql" =>
    \A v, w \in Workers : Leased(v) /\ Leased(w) /\ Key(v) = Key(w) => v = w

LeaseInv == Inv /\ Covered /\ Alone

-----------------------------------------------------------------------------
(* Lemmas *)

\* The windows: a claim made by a clock that is MaxStall late still lasts, and a
\* confirmation made by such a clock outlasts every claim.
LEMMA Windows ==
  /\ ClaimTimeout \in Nat /\ MaxStall \in Nat /\ Retention \in Nat /\ MaxFaults \in Nat
  /\ MaxAttempts \in Nat \ {0}
  /\ ClaimTimeout > MaxStall /\ Retention >= ClaimTimeout + MaxStall
  /\ Lefts = -MaxStall..Retention
BY IdempotencyAssumption DEF Lefts

\* What a worker writes into the table is a row.
LEMMA RowsWritten ==
  ASSUME TypeOK, NEW w \in Workers
  PROVE  /\ Claimed(w) \in Row /\ Confirmed(w) \in Row /\ NoRow \notin Row
         /\ Claimed(w).left = ClaimTimeout - age[w]
         /\ ClaimTimeout - age[w] \in 1..ClaimTimeout
         /\ Confirmed(w).left >= ClaimTimeout
<1>1. age[w] \in 0..MaxStall /\ NodeOf[w] \in Nodes
  BY IdempotencyAssumption DEF TypeOK
<1>2. /\ ClaimTimeout - age[w] \in -MaxStall..Retention
      /\ ClaimTimeout - age[w] \in 1..ClaimTimeout
      /\ Retention - age[w] \in -MaxStall..Retention
      /\ Retention - age[w] >= ClaimTimeout
  BY <1>1, Windows
<1> QED
  BY <1>1, <1>2, Windows DEF Row, Claimed, Confirmed, NoRow

\* A busy worker's key is a key.
LEMMA BusyKey ==
  ASSUME Linking, NEW w \in Workers, pc[w] # "idle"
  PROVE  job[w] \in Messages /\ job[w] # NoMessage /\ Key(w) \in Keys
BY IdempotencyAssumption DEF Linking, Key

\* A message that is being dealt with has an attempt left.
LEMMA AttemptLeft ==
  ASSUME TypeOK, Linking, NEW m \in Messages, where[m] \in {"ready", "out"}
  PROVE  attempts[m] + 1 \in 0..MaxAttempts
         /\ (~(attempts[m] + 1 >= MaxAttempts) => attempts[m] + 1 < MaxAttempts)
<1>1. attempts[m] \in 0..MaxAttempts /\ attempts[m] < MaxAttempts
  BY DEF TypeOK, Linking
<1> QED
  BY <1>1, Windows

-----------------------------------------------------------------------------
(* Types *)

\* Initially no key is claimed and every message waits.
LEMMA InvInit == Init => LeaseInv
<1> SUFFICES ASSUME Init PROVE LeaseInv
  OBVIOUS
<1>1. TypeOK
  BY Windows DEF Init, TypeOK, Pcs, InStore, Holding, Answers
<1>2. Linking /\ Accepting /\ NothingLost
  BY Windows DEF Init, Linking, Accepting, NothingLost, NoRow
<1> QED
  BY <1>1, <1>2 DEF Init, LeaseInv, Inv, Covered, Alone, Leased, Holding

\* Every call of the store keeps the types.
LEMMA TypingStore ==
  ASSUME TypeOK, Linking, NEW w \in Workers,
         \/ ClaimInsert(w) \/ ClaimTakeOver(w) \/ ClaimSelect(w) \/ ClaimMemory(w)
         \/ ClaimRaises(w)
         \/ ConfirmUpdate(w) \/ ConfirmInsert(w) \/ ConfirmMemory(w) \/ ConfirmRaises(w)
         \/ Forget(w) \/ ForgetRaises(w)
  PROVE  TypeOK'
<1>1. pc[w] # "idle" /\ pc[w] \in InStore \cup Holding
  BY DEF ClaimInsert, ClaimTakeOver, ClaimSelect, ClaimMemory, ClaimRaises, ConfirmUpdate,
     ConfirmInsert, ConfirmMemory, ConfirmRaises, Forget, ForgetRaises, InStore, Holding
<1>2. Key(w) \in Keys
  BY <1>1, BusyKey
<1>3. Claimed(w) \in Row /\ Confirmed(w) \in Row /\ ClaimTimeout - age[w] \in 0..ClaimTimeout
  BY RowsWritten
<1>4. rows' \in [Keys -> Row \cup {NoRow}]
  <2>1. CASE ClaimMemory(w)
    BY <1>2, <1>3, <2>1 DEF ClaimMemory, TypeOK
  <2>2. CASE ConfirmMemory(w)
    BY <1>2, <2>2 DEF ConfirmMemory, TypeOK, Sets, Exists, Row
  <2>3. CASE UNCHANGED rows \/ \E r \in Row \cup {NoRow} : Sets(Key(w), r)
    BY <1>2, <2>3 DEF Sets, TypeOK
  <2> QED
    BY <1>3, <2>1, <2>2, <2>3 DEF ClaimInsert, ClaimTakeOver, ClaimSelect, ClaimRaises,
       ConfirmUpdate, ConfirmInsert, ConfirmRaises, Forget, ForgetRaises, Granted
<1>5. pc' \in [Workers -> Pcs] /\ answer' \in [Workers -> Answers]
  BY DEF ClaimInsert, ClaimTakeOver, ClaimSelect, ClaimMemory, ClaimRaises, ConfirmUpdate,
     ConfirmInsert, ConfirmMemory, ConfirmRaises, Forget, ForgetRaises, Granted, Goes,
     Returns, TypeOK, Pcs, InStore, Holding, Answers
<1>6. age' \in [Workers -> 0..MaxStall] /\ lease' \in [Workers -> 0..ClaimTimeout]
  <2>1. 0 \in 0..MaxStall /\ 0 \in 0..ClaimTimeout
    BY Windows
  <2>2. UNCHANGED age \/ Leaves(w)
    BY DEF ClaimInsert, ClaimTakeOver, ClaimSelect, ClaimMemory, ClaimRaises, ConfirmUpdate,
       ConfirmInsert, ConfirmMemory, ConfirmRaises, Forget, ForgetRaises, Granted
  <2>3. \/ UNCHANGED lease \/ LetsGo(w)
        \/ lease' = [lease EXCEPT ![w] = ClaimTimeout - age[w]]
    BY DEF ClaimInsert, ClaimTakeOver, ClaimSelect, ClaimMemory, ClaimRaises, ConfirmUpdate,
       ConfirmInsert, ConfirmMemory, ConfirmRaises, Forget, ForgetRaises, Granted
  <2> QED
    BY <1>3, <2>1, <2>2, <2>3 DEF Leaves, LetsGo, TypeOK
<1>7. faults' \in 0..MaxFaults
  BY Windows DEF ClaimInsert, ClaimTakeOver, ClaimSelect, ClaimMemory, ClaimRaises,
     ConfirmUpdate, ConfirmInsert, ConfirmMemory, ConfirmRaises, Forget, ForgetRaises,
     Fault, TypeOK
<1>8. lapsed' \subseteq Keys
  BY <1>2 DEF ClaimInsert, ClaimTakeOver, ClaimSelect, ClaimMemory, ClaimRaises,
     ConfirmUpdate, ConfirmInsert, ConfirmMemory, ConfirmRaises, Forget, ForgetRaises,
     ghostVars, TypeOK
<1>9. UNCHANGED <<kind, job, linked, where, attempts, handled>>
  BY DEF ClaimInsert, ClaimTakeOver, ClaimSelect, ClaimMemory, ClaimRaises, ConfirmUpdate,
     ConfirmInsert, ConfirmMemory, ConfirmRaises, Forget, ForgetRaises, ghostVars, queueVars
<1> QED
  BY <1>4, <1>5, <1>6, <1>7, <1>8, <1>9 DEF TypeOK

\* So does every step of a handler, the consumer, the broker, a process or time.
LEMMA TypingRest ==
  ASSUME TypeOK, Linking, Next,
         \/ \E w \in Workers :
              \/ \E m \in Messages : Deliver(w, m)
              \/ HandlerAccepts(w)
              \/ \E a \in Answers : HandlerFails(w, a)
              \/ Answer(w) \/ LinkLost(w)
         \/ \E n \in Nodes : Crash(n)
         \/ Purge \/ Tick
  PROVE  TypeOK'
<1>1. ASSUME NEW w \in Workers, NEW m \in Messages, Deliver(w, m) PROVE TypeOK'
  BY <1>1 DEF Deliver, Goes, TypeOK, Pcs, InStore, ghostVars
<1>2. ASSUME NEW w \in Workers,
             HandlerAccepts(w) \/ \E a \in Answers : HandlerFails(w, a)
      PROVE  TypeOK'
  <2>1. pc[w] # "idle"
    BY <1>2 DEF HandlerAccepts, HandlerFails
  <2>2. Key(w) \in Keys
    BY <2>1, BusyKey
  <2>3. handled' \in [Keys -> 0..2]
    BY <1>2, <2>2 DEF HandlerAccepts, HandlerFails, TypeOK, ghostVars
  <2>4. pc' \in [Workers -> Pcs] /\ answer' \in [Workers -> Answers]
    BY <1>2 DEF HandlerAccepts, HandlerFails, TypeOK, Goes, Pcs, InStore, Holding, Answers
  <2> QED
    BY <1>2, <2>3, <2>4 DEF HandlerAccepts, HandlerFails, TypeOK, queueVars, ghostVars
<1>3. ASSUME NEW w \in Workers, Answer(w) PROVE TypeOK'
  <2>1. CASE linked[w]
    <3>1. job[w] \in Messages /\ where[job[w]] = "out"
      BY <1>3, <2>1, BusyKey DEF Answer, Linking
    <3>2. attempts[job[w]] + 1 \in 0..MaxAttempts
      BY <3>1, AttemptLeft
    <3>3. attempts' \in [Messages -> 0..MaxAttempts]
      BY <1>3, <2>1, <3>1, <3>2 DEF Answer, Settled, TypeOK
    <3>4. where' \in [Messages -> {"ready", "out", "done", "dead"}]
      BY <1>3, <2>1, <3>1 DEF Answer, Settled, TypeOK, Answers
    <3> QED
      BY <1>3, <3>3, <3>4 DEF Answer, Goes, TypeOK, Pcs, Answers, ghostVars
  <2>2. CASE ~linked[w]
    BY <1>3, <2>2 DEF Answer, Goes, TypeOK, Pcs, Answers, queueVars, ghostVars
  <2> QED
    BY <2>1, <2>2
<1>4. ASSUME NEW w \in Workers, LinkLost(w) PROVE TypeOK'
  <2>1. job[w] \in Messages
    BY <1>4 DEF LinkLost, Linking
  <2>2. faults' \in 0..MaxFaults
    BY <1>4, Windows DEF LinkLost, Fault, TypeOK
  <2> QED
    BY <1>4, <2>1, <2>2 DEF LinkLost, TypeOK, ghostVars
<1>5. ASSUME NEW n \in Nodes, Crash(n) PROVE TypeOK'
  <2>1. faults' \in 0..MaxFaults
    BY <1>5, Windows DEF Crash, Fault, TypeOK
  <2>2. rows' \in [Keys -> Row \cup {NoRow}]
    BY <1>5 DEF Crash, TypeOK, Row, NoRow
  <2>3. lapsed' \subseteq Keys
    <3>1. \A w \in Workers : pc[w] # "idle" => Key(w) \in Keys
      BY BusyKey
    <3> QED
      BY <1>5, <3>1 DEF Crash, TypeOK
  <2>4. age' \in [Workers -> 0..MaxStall] /\ lease' \in [Workers -> 0..ClaimTimeout]
    BY <1>5, Windows DEF Crash, TypeOK
  <2>5. /\ pc' \in [Workers -> Pcs] /\ job' \in [Workers -> Messages \cup {NoMessage}]
        /\ linked' \in [Workers -> BOOLEAN] /\ answer' \in [Workers -> Answers]
        /\ where' \in [Messages -> {"ready", "out", "done", "dead"}]
    BY <1>5 DEF Crash, TypeOK, Pcs, Answers
  <2> QED
    BY <1>5, <2>1, <2>2, <2>3, <2>4, <2>5 DEF Crash, TypeOK
<1>6. CASE Purge
  BY <1>6 DEF Purge, TypeOK, workerVars, queueVars, ghostVars
<1>7. CASE Tick
  <2>1. rows' \in [Keys -> Row \cup {NoRow}]
    <3>1. \A k \in Keys : rows[k] \in Row /\ rows[k].left > -MaxStall
                          => [rows[k] EXCEPT !.left = @ - 1] \in Row
      BY Windows DEF Row
    <3> QED
      BY <1>7, <3>1 DEF Tick, TypeOK, Exists
  <2>2. age' \in [Workers -> 0..MaxStall] /\ lease' \in [Workers -> 0..ClaimTimeout]
    BY <1>7, Windows DEF Tick, TypeOK
  <2> QED
    BY <1>7, <2>1, <2>2 DEF Tick, TypeOK, queueVars
<1> QED
  BY <1>1, <1>2, <1>3, <1>4, <1>5, <1>6, <1>7

-----------------------------------------------------------------------------
(* Messages and their answers *)

\* A worker's steps between a delivery and its answer.
Works(w) ==
  \/ ClaimInsert(w) \/ ClaimTakeOver(w) \/ ClaimSelect(w) \/ ClaimMemory(w)
  \/ HandlerAccepts(w) \/ \E a \in Answers : HandlerFails(w, a)
  \/ ConfirmUpdate(w) \/ ConfirmInsert(w) \/ ConfirmMemory(w)
  \/ Forget(w) \/ Raises(w)

\* They move that worker only, and keep its message.
LEMMA WorksMoves ==
  ASSUME TypeOK, NEW w \in Workers, Works(w)
  PROVE  /\ pc[w] # "idle" /\ pc'[w] # "idle"
         /\ UNCHANGED <<kind, job, linked, where, attempts>>
         /\ \A v \in Workers \ {w} :
              pc'[v] = pc[v] /\ answer'[v] = answer[v] /\ age'[v] = age[v]
              /\ lease'[v] = lease[v]
         /\ \A v \in Workers : Key(v)' = Key(v)
BY DEF Works, Raises, ClaimInsert, ClaimTakeOver, ClaimSelect, ClaimMemory, ClaimRaises,
   HandlerAccepts, HandlerFails, ConfirmUpdate, ConfirmInsert, ConfirmMemory,
   ConfirmRaises, Forget, ForgetRaises, Granted, Goes, Returns, Leaves, LetsGo,
   queueVars, TypeOK, Key

\* Every step is one of them or an action on its own.
LEMMA NextCases ==
  Next <=> \/ \E w \in Workers :
                \/ Works(w) \/ Answer(w) \/ LinkLost(w)
                \/ \E m \in Messages : Deliver(w, m)
           \/ \E n \in Nodes : Crash(n)
           \/ Purge \/ Tick
BY DEF Next, Step, Works

\* Every step keeps the types.
LEMMA TypingStep == ASSUME TypeOK, Linking, Next PROVE TypeOK'
<1>1. ASSUME NEW w \in Workers, Works(w) PROVE TypeOK'
  <2>1. CASE HandlerAccepts(w) \/ \E a \in Answers : HandlerFails(w, a)
    BY <2>1, TypingRest
  <2>2. CASE ~(HandlerAccepts(w) \/ \E a \in Answers : HandlerFails(w, a))
    BY <1>1, <2>2, TypingStore DEF Works, Raises
  <2> QED
    BY <2>1, <2>2
<1>2. ASSUME NEW w \in Workers,
             Answer(w) \/ LinkLost(w) \/ \E m \in Messages : Deliver(w, m)
      PROVE  TypeOK'
  BY <1>2, TypingRest
<1>3. CASE (\E n \in Nodes : Crash(n)) \/ Purge \/ Tick
  BY <1>3, TypingRest
<1> QED
  BY <1>1, <1>2, <1>3, NextCases

\* No message is answered for by two workers, or delivered without an attempt left.
LEMMA LinkingStep == ASSUME TypeOK, Linking, Next PROVE Linking'
<1>1. ASSUME NEW w \in Workers, Works(w) PROVE Linking'
  BY <1>1, WorksMoves DEF Linking
<1>2. ASSUME NEW w \in Workers, NEW m \in Messages, Deliver(w, m) PROVE Linking'
  BY <1>2 DEF Deliver, Goes, Linking, TypeOK
<1>3. ASSUME NEW w \in Workers, LinkLost(w) PROVE Linking'
  BY <1>3 DEF LinkLost, Linking, TypeOK
<1>4. ASSUME NEW w \in Workers, Answer(w), linked[w] PROVE Linking'
  <2>1. job[w] \in Messages /\ where[job[w]] = "out" /\ answer[w] \in Answers
    BY <1>4 DEF Linking, TypeOK
  <2>2. \A v \in Workers \ {w} : linked[v] => job[v] # job[w]
    BY <1>4 DEF Linking
  <2>3. \A m \in Messages \ {job[w]} : where'[m] = where[m] /\ attempts'[m] = attempts[m]
    BY <1>4 DEF Answer, Settled, TypeOK
  <2>4. where'[job[w]] \in {"ready", "out"} => attempts'[job[w]] < MaxAttempts
    <3>1. CASE answer[w] = "retry"
      <4>1. attempts[job[w]] + 1 >= MaxAttempts => where'[job[w]] = "dead"
        BY <1>4, <2>1, <3>1 DEF Answer, Settled, TypeOK
      <4>2. attempts'[job[w]] = attempts[job[w]] + 1
        BY <1>4, <2>1, <3>1 DEF Answer, Settled, TypeOK
      <4> QED
        BY <2>1, <4>1, <4>2, AttemptLeft
    <3>2. CASE answer[w] # "retry"
      <4>1. attempts' = attempts
        BY <1>4, <2>1, <3>2 DEF Answer, Settled, TypeOK
      <4> QED
        BY <2>1, <4>1 DEF Linking
    <3> QED
      BY <3>1, <3>2
  <2>5. /\ linked'[w] = FALSE /\ pc'[w] = "idle"
        /\ \A v \in Workers \ {w} :
             linked'[v] = linked[v] /\ pc'[v] = pc[v] /\ job'[v] = job[v]
    BY <1>4 DEF Answer, Goes, TypeOK
  <2> QED
    BY <2>1, <2>2, <2>3, <2>4, <2>5 DEF Linking
<1>5. ASSUME NEW w \in Workers, Answer(w), ~linked[w] PROVE Linking'
  BY <1>5 DEF Answer, Goes, Linking, TypeOK, queueVars
<1>6. ASSUME NEW n \in Nodes, Crash(n) PROVE Linking'
  <2> DEFINE dies == IF kind = "memory" THEN Workers ELSE {w \in Workers : NodeOf[w] = n}
  <2>1. /\ \A w \in dies : pc'[w] = "idle" /\ ~linked'[w]
        /\ \A w \in Workers \ dies :
             pc'[w] = pc[w] /\ job'[w] = job[w] /\ linked'[w] = linked[w]
        /\ \A m \in Messages :
             where'[m] = IF \E w \in dies : pc[w] # "idle" /\ linked[w] /\ job[w] = m
                         THEN "ready" ELSE where[m]
        /\ attempts' = attempts /\ dies \subseteq Workers
    BY <1>6 DEF Crash, TypeOK
  <2> HIDE DEF dies
  <2>2. \A m \in Messages : where'[m] \in {"ready", "out"} => where[m] \in {"ready", "out"}
    BY <2>1 DEF Linking
  <2>3. \A v \in Workers \ dies : linked[v] => where'[job[v]] = "out"
    BY <2>1 DEF Linking
  <2> QED
    BY <2>1, <2>2, <2>3 DEF Linking
<1>7. CASE Purge \/ Tick
  BY <1>7 DEF Purge, Tick, workerVars, queueVars, Linking
<1> QED
  BY <1>1, <1>2, <1>3, <1>4, <1>5, <1>6, <1>7, NextCases

-----------------------------------------------------------------------------
(* What was handled *)

\* A handler that accepted has accepted.
LEMMA HandledGrows ==
  ASSUME TypeOK, Linking, Next, NEW k \in Keys, handled[k] > 0
  PROVE  handled'[k] > 0
<1>1. CASE UNCHANGED handled
  BY <1>1
<1>2. ASSUME NEW w \in Workers, HandlerAccepts(w) PROVE handled'[k] > 0
  BY <1>2 DEF HandlerAccepts, TypeOK
<1>3. UNCHANGED handled \/ \E w \in Workers : HandlerAccepts(w)
  BY DEF Next, Step, Raises, Deliver, ClaimInsert, ClaimTakeOver, ClaimSelect, ClaimMemory,
     ClaimRaises, HandlerFails, ConfirmUpdate, ConfirmInsert, ConfirmMemory, ConfirmRaises,
     Forget, ForgetRaises, Answer, LinkLost, Crash, Purge, Tick, ghostVars
<1> QED
  BY <1>1, <1>2, <1>3

\* A row is confirmed by a worker whose handler accepted.
LEMMA ConfirmedBy ==
  ASSUME TypeOK, Linking, Next, NEW k \in Keys, rows'[k].state = "CONFIRMED"
  PROVE  \/ rows[k].state = "CONFIRMED"
         \/ \E w \in Workers : pc[w] \in {"confirm", "record"} /\ Key(w) = k
<1>1. ASSUME NEW w \in Workers, Works(w)
      PROVE  \/ rows[k].state = "CONFIRMED"
             \/ pc[w] \in {"confirm", "record"} /\ Key(w) = k
  <2>1. pc[w] # "idle" /\ Key(w) \in Keys
    BY <1>1, WorksMoves, BusyKey
  <2>2. CASE pc[w] \in {"confirm", "record"}
    <3>1. \/ UNCHANGED rows \/ \E r : Sets(Key(w), r)
      BY <1>1, <2>2 DEF Works, Raises, ClaimInsert, ClaimTakeOver, ClaimSelect, ClaimMemory,
         ClaimRaises, HandlerAccepts, HandlerFails, ConfirmUpdate, ConfirmInsert,
         ConfirmMemory, ConfirmRaises, Forget, ForgetRaises
    <3> QED
      BY <2>1, <2>2, <3>1 DEF Sets, TypeOK
  <2>3. CASE ClaimMemory(w)
    <3>1. \A q \in Keys : rows'[q] \in {rows[q], NoRow, Claimed(w)}
      BY <2>1, <2>3 DEF ClaimMemory, TypeOK
    <3> QED
      BY <3>1 DEF Claimed, NoRow
  <2>4. CASE pc[w] \notin {"confirm", "record"} /\ ~ClaimMemory(w)
    <3>1. UNCHANGED rows \/ Sets(Key(w), Claimed(w)) \/ Sets(Key(w), NoRow)
      BY <1>1, <2>4 DEF Works, Raises, ClaimInsert, ClaimTakeOver, ClaimSelect, ClaimRaises,
         HandlerAccepts, HandlerFails, ConfirmUpdate, ConfirmInsert, ConfirmMemory,
         ConfirmRaises, Forget, ForgetRaises, Granted
    <3> QED
      BY <2>1, <3>1 DEF Sets, TypeOK, Claimed, NoRow
  <2> QED
    BY <2>2, <2>3, <2>4
<1>2. ASSUME NEW w \in Workers,
             Answer(w) \/ LinkLost(w) \/ \E m \in Messages : Deliver(w, m)
      PROVE  rows[k].state = "CONFIRMED"
  BY <1>2 DEF Answer, LinkLost, Deliver
<1>3. ASSUME NEW n \in Nodes, Crash(n) PROVE rows[k].state = "CONFIRMED"
  BY <1>3 DEF Crash, NoRow, TypeOK, Row
<1>4. CASE Purge
  BY <1>4 DEF Purge, NoRow, TypeOK
<1>5. CASE Tick
  BY <1>5 DEF Tick, TypeOK, Row, NoRow
<1> QED
  BY <1>1, <1>2, <1>3, <1>4, <1>5, NextCases

\* Only what a handler accepted is said to be handled.
LEMMA AcceptingStep ==
  ASSUME TypeOK, Linking, Accepting, NothingLost, Next
  PROVE  Accepting' /\ NothingLost'
<1>1. ASSUME NEW k \in Keys, rows'[k].state = "CONFIRMED" PROVE handled'[k] > 0
  BY <1>1, ConfirmedBy, HandledGrows DEF Accepting
<1>2. ASSUME NEW v \in Workers
      PROVE  /\ pc'[v] \in {"confirm", "record"} => handled'[Key(v)'] > 0
             /\ pc'[v] = "answer" /\ answer'[v] = "accept" => handled'[Key(v)'] > 0
             /\ pc'[v] = "forget" => answer'[v] # "accept"
  <2>1. CASE /\ pc'[v] = pc[v] /\ answer'[v] = answer[v]
             /\ pc[v] # "idle" => Key(v)' = Key(v)
    <3>1. pc[v] # "idle" => Key(v) \in Keys
      BY BusyKey
    <3> QED
      BY <2>1, <3>1, HandledGrows DEF Accepting
  <2>2. CASE pc'[v] \in {"idle", "claim"}
    BY <2>2
  <2>3. CASE Works(v)
    <3>1. pc[v] # "idle" /\ Key(v)' = Key(v) /\ Key(v) \in Keys
      BY <2>3, WorksMoves, BusyKey
    <3>2. CASE HandlerAccepts(v)
      <4>1. pc'[v] = "confirm" /\ handled'[Key(v)] > 0
        BY <3>1, <3>2 DEF HandlerAccepts, Goes, TypeOK
      <4> QED
        BY <3>1, <4>1
    <3>3. CASE \E a \in Answers : HandlerFails(v, a)
      BY <3>3 DEF HandlerFails, Goes, TypeOK
    <3>4. CASE \/ ClaimInsert(v) \/ ClaimTakeOver(v) \/ ClaimSelect(v) \/ ClaimMemory(v)
               \/ ClaimRaises(v)
      <4>1. /\ pc'[v] \in {"running", "takeover", "select", "answer"}
            /\ pc'[v] = "answer" /\ answer'[v] = "accept" => rows[Key(v)].state = "CONFIRMED"
        BY <3>4 DEF ClaimInsert, ClaimTakeOver, ClaimSelect, ClaimMemory, ClaimRaises,
           Granted, Goes, Returns, TypeOK
      <4> QED
        BY <3>1, <4>1, HandledGrows DEF Accepting
    <3>5. CASE \/ ConfirmUpdate(v) \/ ConfirmInsert(v) \/ ConfirmMemory(v) \/ ConfirmRaises(v)
      <4>1. pc[v] \in {"confirm", "record"} /\ pc'[v] \in {"record", "answer"}
        BY <3>5 DEF ConfirmUpdate, ConfirmInsert, ConfirmMemory, ConfirmRaises, Goes, TypeOK
      <4> QED
        BY <3>1, <4>1, HandledGrows DEF Accepting
    <3>6. CASE Forget(v) \/ ForgetRaises(v)
      BY <3>6 DEF Forget, ForgetRaises, Goes, TypeOK, Accepting
    <3> QED
      BY <2>3, <3>2, <3>3, <3>4, <3>5, <3>6 DEF Works, Raises
  <2>4. ASSUME NEW w \in Workers, w # v, Works(w)
        PROVE  pc'[v] = pc[v] /\ answer'[v] = answer[v] /\ Key(v)' = Key(v)
    BY <2>4, WorksMoves
  <2>5. ASSUME NEW w \in Workers,
               Answer(w) \/ LinkLost(w) \/ \E m \in Messages : Deliver(w, m)
        PROVE  \/ pc'[v] \in {"idle", "claim"}
               \/ pc'[v] = pc[v] /\ answer'[v] = answer[v] /\ Key(v)' = Key(v)
    BY <2>5 DEF Answer, LinkLost, Deliver, Goes, TypeOK, Key
  <2>6. ASSUME NEW n \in Nodes, Crash(n)
        PROVE  \/ pc'[v] = "idle"
               \/ pc'[v] = pc[v] /\ answer'[v] = answer[v] /\ Key(v)' = Key(v)
    BY <2>6 DEF Crash, TypeOK, Key
  <2>7. CASE Purge \/ Tick
    BY <2>1, <2>7 DEF Purge, Tick, workerVars, Key
  <2> QED
    BY <2>1, <2>2, <2>3, <2>4, <2>5, <2>6, <2>7, NextCases
<1>3. ASSUME NEW m \in Messages, where'[m] = "done" PROVE handled'[KeyOf[m]] > 0
  <2>1. KeyOf[m] \in Keys
    BY IdempotencyAssumption
  <2>2. CASE where[m] = "done"
    BY <2>1, <2>2, HandledGrows DEF NothingLost
  <2>3. ASSUME NEW w \in Workers, Answer(w), where[m] # "done"
        PROVE  handled'[KeyOf[m]] > 0
    <3>1. job[w] = m /\ answer[w] = "accept" /\ pc[w] = "answer"
      BY <1>3, <2>3, BusyKey DEF Answer, Settled, TypeOK, queueVars, Answers
    <3> QED
      BY <2>1, <3>1, HandledGrows DEF Accepting, Key
  <2>4. ASSUME NEW w \in Workers, LinkLost(w) \/ \E q \in Messages : Deliver(w, q)
        PROVE  where[m] = "done"
    BY <1>3, <2>4 DEF LinkLost, Deliver, TypeOK
  <2>5. ASSUME NEW n \in Nodes, Crash(n) PROVE where[m] = "done"
    BY <1>3, <2>5 DEF Crash, TypeOK
  <2>6. CASE Purge \/ Tick
    BY <1>3, <2>2, <2>6 DEF Purge, Tick, queueVars
  <2> QED
    BY <1>3, <2>2, <2>3, <2>4, <2>5, <2>6, WorksMoves, NextCases
<1> QED
  BY <1>1, <1>2, <1>3 DEF Accepting, NothingLost

-----------------------------------------------------------------------------
(* Claims *)

\* What a step of a worker does to a row of the SQL store: it leaves it, claims it
\* when nobody's claim lasts, confirms it, or deletes a claim of its own process.
LEMMA RowStep ==
  ASSUME TypeOK, Linking, kind = "sql", NEW w \in Workers, Works(w), NEW k \in Keys
  PROVE  \/ rows'[k] = rows[k]
         \/ /\ k = Key(w) /\ rows'[k] = Claimed(w)
            /\ ~Exists(k) \/ RunOutFor(w, k)
         \/ k = Key(w) /\ rows'[k] = Confirmed(w)
         \/ /\ k = Key(w) /\ rows'[k] = NoRow
            /\ rows[k].state = "CLAIMED" /\ rows[k].by = NodeOf[w]
<1>1. pc[w] # "idle" /\ Key(w) \in Keys
  BY WorksMoves, BusyKey
<1>2. \/ UNCHANGED rows
      \/ Sets(Key(w), Claimed(w)) /\ (~Exists(Key(w)) \/ RunOutFor(w, Key(w)))
      \/ Sets(Key(w), Confirmed(w))
      \/ /\ Sets(Key(w), NoRow)
         /\ rows[Key(w)].state = "CLAIMED" /\ rows[Key(w)].by = NodeOf[w]
  BY DEF Works, Raises, ClaimInsert, ClaimTakeOver, ClaimSelect, ClaimMemory, ClaimRaises,
     HandlerAccepts, HandlerFails, ConfirmUpdate, ConfirmInsert, ConfirmMemory,
     ConfirmRaises, Forget, ForgetRaises, Forgets, Granted
<1> QED
  BY <1>1, <1>2 DEF Sets, TypeOK

\* A worker holds a claim that lasts because it was just granted one, or held it.
LEMMA LeaseStep ==
  ASSUME TypeOK, Linking, kind = "sql", NEW w \in Workers, Works(w), Leased(w)'
  PROVE  \/ /\ rows'[Key(w)] = Claimed(w) /\ lease'[w] = ClaimTimeout - age[w]
            /\ ~Exists(Key(w)) \/ RunOutFor(w, Key(w))
         \/ Leased(w) /\ UNCHANGED <<rows, lease>>
<1>1. pc[w] # "idle" /\ Key(w) \in Keys
  BY WorksMoves, BusyKey
<1>2. CASE ClaimInsert(w) \/ ClaimTakeOver(w)
  BY <1>1, <1>2 DEF ClaimInsert, ClaimTakeOver, Granted, Sets, Leased, Goes, Holding, TypeOK
<1>3. CASE ClaimSelect(w) \/ ClaimMemory(w) \/ ClaimRaises(w)
  BY <1>3 DEF ClaimSelect, ClaimMemory, ClaimRaises, Returns, Goes, Leased, Holding, TypeOK
<1>4. CASE HandlerAccepts(w) \/ \E a \in Answers : HandlerFails(w, a)
  BY <1>4 DEF HandlerAccepts, HandlerFails, Leased, Holding
<1>5. CASE ConfirmUpdate(w) \/ ConfirmInsert(w) \/ ConfirmMemory(w) \/ ConfirmRaises(w)
  BY <1>5 DEF ConfirmUpdate, ConfirmInsert, ConfirmMemory, ConfirmRaises, LetsGo, Leased,
     Holding, Goes, TypeOK
<1>6. CASE Forget(w) \/ ForgetRaises(w)
  BY <1>6 DEF Forget, ForgetRaises, LetsGo, Leased, Holding, Goes, TypeOK
<1> QED
  BY <1>2, <1>3, <1>4, <1>5, <1>6 DEF Works, Raises

\* A claim that lasts is not expired by any worker's clock.
LEMMA LastsForAll ==
  ASSUME TypeOK, Linking, Covered, kind = "sql", NEW v \in Workers, Leased(v), NEW w \in Workers
  PROVE  Exists(Key(v)) /\ ~RunOutFor(w, Key(v)) /\ Key(v) \in Keys
<1>1. pc[v] # "idle"
  BY DEF Leased, Holding
<1>2. Key(v) \in Keys
  BY <1>1, BusyKey
<1>3. Exists(Key(v)) /\ rows[Key(v)].left >= lease[v] /\ lease[v] > 0
  BY DEF Covered, Leased
<1>4. rows[Key(v)].left \in Int /\ lease[v] \in Int /\ age[w] \in Nat
  BY <1>2, <1>3, Windows DEF TypeOK, Exists, Row, Lefts
<1> QED
  BY <1>2, <1>3, <1>4 DEF RunOutFor

\* With every worker in a process of its own, a claim that lasts stays where it is.
LEMMA CoveredStep ==
  ASSUME TypeOK, Linking, Covered, Alone, Next,
         \A v, w \in Workers : NodeOf[v] = NodeOf[w] => v = w
  PROVE  Covered' /\ Alone'
<1> SUFFICES ASSUME kind = "sql" PROVE Covered' /\ Alone'
  <2>1. kind' = kind
    BY DEF Next, Step, Raises, Deliver, ClaimInsert, ClaimTakeOver, ClaimSelect,
       ClaimMemory, ClaimRaises, HandlerAccepts, HandlerFails, ConfirmUpdate, ConfirmInsert,
       ConfirmMemory, ConfirmRaises, Forget, ForgetRaises, Answer, LinkLost, Crash, Purge,
       Tick
  <2> QED
    BY <2>1 DEF Covered, Alone
<1>1. ASSUME NEW w \in Workers, Works(w) PROVE Covered' /\ Alone'
  <2>1. \A v \in Workers \ {w} :
          /\ Leased(v)' => Leased(v)
          /\ lease'[v] = lease[v]
    BY <1>1, WorksMoves DEF Leased
  <2>2. ASSUME NEW v \in Workers \ {w}, Leased(v)
        PROVE  /\ Exists(Key(v))' /\ rows'[Key(v)].left >= lease'[v]
               /\ rows'[Key(v)].state = "CONFIRMED" \/ rows'[Key(v)].by = NodeOf[v]
    <3>1. /\ Key(v) \in Keys /\ Exists(Key(v)) /\ ~RunOutFor(w, Key(v))
          /\ lease[v] \in 0..ClaimTimeout /\ Key(v)' = Key(v)
      BY <1>1, <2>2, LastsForAll, WorksMoves DEF TypeOK
    <3>2. CASE rows'[Key(v)] = rows[Key(v)]
      BY <2>1, <2>2, <3>1, <3>2 DEF Covered, Exists
    <3>3. CASE rows'[Key(v)] = Confirmed(w)
      <4>1. Confirmed(w).left >= ClaimTimeout /\ Confirmed(w).left \in Int
            /\ Confirmed(w) # NoRow
        BY RowsWritten, Windows DEF Row, Lefts
      <4>2. Confirmed(w).left >= lease[v]
        BY <3>1, <4>1, Windows
      <4>3. Confirmed(w).state = "CONFIRMED"
        BY DEF Confirmed
      <4> QED
        BY <2>1, <3>1, <3>3, <4>1, <4>2, <4>3 DEF Exists
    <3>4. ASSUME rows[Key(v)].state = "CLAIMED", rows[Key(v)].by = NodeOf[w] PROVE FALSE
      BY <2>2, <3>4 DEF Covered
    <3> QED
      BY <1>1, <3>1, <3>2, <3>3, <3>4, RowStep
  <2>3. ASSUME Leased(w)'
        PROVE  /\ Exists(Key(w))' /\ rows'[Key(w)].left >= lease'[w]
               /\ rows'[Key(w)].state = "CONFIRMED" \/ rows'[Key(w)].by = NodeOf[w]
               /\ \A v \in Workers \ {w} : ~(Leased(v) /\ Key(v) = Key(w))
    <3>1. Key(w)' = Key(w)
      BY <1>1, WorksMoves
    <3>2. CASE Leased(w) /\ UNCHANGED <<rows, lease>>
      BY <3>1, <3>2 DEF Covered, Alone, Exists
    <3>3. CASE /\ rows'[Key(w)] = Claimed(w) /\ lease'[w] = ClaimTimeout - age[w]
               /\ ~Exists(Key(w)) \/ RunOutFor(w, Key(w))
      <4>1. /\ Claimed(w) # NoRow /\ Claimed(w).left = lease'[w] /\ lease'[w] \in Int
            /\ Claimed(w).by = NodeOf[w]
        <5>1. Claimed(w) # NoRow /\ Claimed(w).by = NodeOf[w]
          BY DEF Claimed, NoRow
        <5>2. Claimed(w).left = ClaimTimeout - age[w] /\ ClaimTimeout - age[w] \in Int
          BY RowsWritten
        <5> QED
          BY <3>3, <5>1, <5>2
      <4>2. \A v \in Workers : ~(Leased(v) /\ Key(v) = Key(w))
        BY <3>3, LastsForAll
      <4> QED
        BY <3>1, <3>3, <4>1, <4>2 DEF Exists
    <3> QED
      BY <1>1, <2>3, <3>2, <3>3, LeaseStep
  <2>4. \A v \in Workers : Key(v)' = Key(v)
    BY <1>1, WorksMoves
  <2>5. Covered'
    BY <2>1, <2>2, <2>3, <2>4 DEF Covered
  <2>6. Alone'
    BY <2>1, <2>3, <2>4 DEF Alone
  <2> QED
    BY <2>5, <2>6
<1>2. ASSUME NEW w \in Workers,
             Answer(w) \/ LinkLost(w) \/ \E m \in Messages : Deliver(w, m)
      PROVE  Covered' /\ Alone'
  <2>1. UNCHANGED <<rows, lease>>
        /\ \A v \in Workers : Leased(v)' => Leased(v) /\ Key(v)' = Key(v)
    BY <1>2 DEF Answer, LinkLost, Deliver, Goes, Leased, Holding, Key, TypeOK
  <2> QED
    BY <2>1 DEF Covered, Alone, Exists
<1>3. ASSUME NEW n \in Nodes, Crash(n) PROVE Covered' /\ Alone'
  <2>1. \A v \in Workers :
          Leased(v)' => Leased(v) /\ lease'[v] = lease[v] /\ Key(v)' = Key(v) /\ NodeOf[v] # n
    BY <1>3 DEF Crash, Leased, Holding, Key, TypeOK
  <2>2. \A k \in Keys :
          /\ rows'[k].left = rows[k].left /\ rows'[k].state = rows[k].state
          /\ rows[k].by # n => rows'[k] = rows[k]
    BY <1>3 DEF Crash, TypeOK, Row, NoRow
  <2>3. \A v \in Workers : Leased(v) => Key(v) \in Keys
    BY LastsForAll
  <2>4. \A k \in Keys : Exists(k) => Exists(k)'
    BY <1>3, <2>2 DEF Exists, NoRow, TypeOK, Row
  <2> QED
    BY <2>1, <2>2, <2>3, <2>4 DEF Covered, Alone
<1>4. CASE Purge
  <2>1. UNCHANGED workerVars
    BY <1>4 DEF Purge
  <2>2. \A v \in Workers : /\ Leased(v)' <=> Leased(v)
                           /\ Key(v)' = Key(v) /\ lease'[v] = lease[v]
    BY <2>1 DEF workerVars, Leased, Key
  <2>3. ASSUME NEW v \in Workers, Leased(v)
        PROVE  rows'[Key(v)] = rows[Key(v)]
    <3>1. Key(v) \in Keys /\ Exists(Key(v))
      BY <2>3, LastsForAll
    <3>2. rows[Key(v)].left \in Int /\ lease[v] \in Int
      BY <3>1, Windows DEF TypeOK, Exists, Row, Lefts
    <3>3. ~(rows[Key(v)].left <= 0)
      BY <2>3, <3>2 DEF Covered, Leased
    <3> QED
      BY <1>4, <3>1, <3>3 DEF Purge
  <2> QED
    BY <2>2, <2>3 DEF Covered, Alone, Exists
<1>5. CASE Tick
  <2>1. \A v \in Workers : /\ pc'[v] = pc[v] /\ Key(v)' = Key(v)
                           /\ lease'[v] = IF lease[v] > 0 THEN lease[v] - 1 ELSE 0
    BY <1>5 DEF Tick, Key, TypeOK
  <2>2. \A v \in Workers : Leased(v)' => Leased(v)
    BY <2>1 DEF Leased
  <2>3. ASSUME NEW v \in Workers, Leased(v)
        PROVE  /\ Exists(Key(v))' /\ rows'[Key(v)].left >= lease'[v]
               /\ rows'[Key(v)].state = rows[Key(v)].state
               /\ rows'[Key(v)].by = rows[Key(v)].by
    <3>1. Key(v) \in Keys /\ Exists(Key(v)) /\ rows[Key(v)] \in Row
      BY <2>3, LastsForAll DEF TypeOK, Exists
    <3>2. /\ rows[Key(v)].left \in Int /\ lease[v] \in Int
          /\ rows[Key(v)].left >= lease[v] /\ lease[v] > 0
      BY <2>3, <3>1, Windows DEF TypeOK, Row, Lefts, Covered, Leased
    <3>3. rows[Key(v)].left > -MaxStall
      BY <3>2, Windows
    <3>4. rows'[Key(v)] = [rows[Key(v)] EXCEPT !.left = @ - 1]
      BY <1>5, <3>1, <3>3 DEF Tick
    <3>5. /\ rows'[Key(v)].left = rows[Key(v)].left - 1
          /\ rows'[Key(v)].state = rows[Key(v)].state
          /\ rows'[Key(v)].by = rows[Key(v)].by
          /\ rows'[Key(v)].state # "ABSENT"
      BY <3>1, <3>4 DEF Row
    <3>6. Exists(Key(v))'
      BY <2>1, <3>5 DEF Exists, NoRow
    <3> QED
      BY <2>1, <2>3, <3>2, <3>5, <3>6 DEF Leased
  <2> QED
    BY <2>1, <2>2, <2>3 DEF Covered, Alone
<1> QED
  BY <1>1, <1>2, <1>3, <1>4, <1>5, NextCases

-----------------------------------------------------------------------------
(* Once, unless something lapsed *)

\* A worker whose claim was of key k has it in hand.
Holds(k, w) == pc[w] \in Holding /\ Key(w) = k

\* While nothing has lapsed a key has one holder, its claim lasts and is the row
\* of the table; once it was handled its holder is about to confirm it, or it is
\* confirmed and that lasts.  Nobody then finds the row gone and has to record it.
Secure(k) ==
  /\ \A w \in Workers : Holds(k, w) =>
       /\ lease[w] > 0 /\ pc[w] # "record"
       /\ rows[k].state = "CLAIMED" /\ rows[k].left >= lease[w]
  /\ \A v, w \in Workers : Holds(k, v) /\ Holds(k, w) => v = w
  /\ handled[k] < 2
  /\ handled[k] > 0 =>
       \/ \E w \in Workers : Holds(k, w) /\ pc[w] = "confirm"
       \/ rows[k].state = "CONFIRMED" /\ rows[k].left > 0

Unlapsed == \A k \in Keys \ lapsed : Secure(k)

OnceInv == Inv /\ Unlapsed

\* What is left of a row is a number, and of an absent one nothing.
LEMMA LeftInt ==
  ASSUME TypeOK, NEW k \in Keys
  PROVE  rows[k].left \in Int /\ handled[k] \in 0..2 /\ (~Exists(k) => rows[k].left = 0)
<1>1. rows[k] \in Row \cup {NoRow} /\ handled[k] \in 0..2
  BY DEF TypeOK
<1>2. rows[k] \in Row => rows[k].left \in -MaxStall..Retention
  BY Windows DEF Row
<1> QED
  BY <1>1, <1>2, Windows DEF Exists, NoRow

\* A secure key that nobody can claim has a holder, or is confirmed for a while yet;
\* one that a worker finds free, or out of date, was not handled.
LEMMA FreeKey ==
  ASSUME TypeOK, NEW k \in Keys, Secure(k), NEW w \in Workers, ~Exists(k) \/ RunOutFor(w, k)
  PROVE  handled[k] = 0 /\ \A v \in Workers : ~Holds(k, v)
<1>1. rows[k].left \in Int /\ handled[k] \in 0..2 /\ age[w] \in Nat
      /\ \A v \in Workers : lease[v] \in Nat
  BY LeftInt, Windows DEF TypeOK
<1>2. ~(rows[k].left > 0)
  BY <1>1, LeftInt DEF RunOutFor
<1>3. \A v \in Workers : ~Holds(k, v)
  BY <1>1, <1>2 DEF Secure
<1> QED
  BY <1>1, <1>2, <1>3 DEF Secure

\* A key that was not handled and has no holder is secure.
LEMMA SecureFree ==
  ASSUME NEW k \in Keys, handled'[k] = 0, \A v \in Workers : ~Holds(k, v)'
  PROVE  Secure(k)'
BY DEF Secure

\* A key stays secure when nobody comes to hold it or stops to be about to confirm it,
\* and its row is left alone, except for one that ran out.
LEMMA SecureKept ==
  ASSUME TypeOK, NEW k \in Keys, Secure(k),
         \/ rows'[k].state = rows[k].state /\ rows'[k].left = rows[k].left
         \/ ~(rows[k].left > 0),
         handled'[k] = handled[k],
         \A v \in Workers : Holds(k, v)' => Holds(k, v) /\ lease'[v] = lease[v]
                                            /\ pc'[v] # "record",
         \A v \in Workers : Holds(k, v) /\ pc[v] = "confirm"
                              => Holds(k, v)' /\ pc'[v] = "confirm"
  PROVE  Secure(k)'
<1>1. rows[k].left \in Int /\ handled[k] \in 0..2 /\ \A v \in Workers : lease[v] \in Nat
  BY LeftInt, Windows DEF TypeOK
<1>2. (\E v \in Workers : Holds(k, v)) => rows[k].left > 0
  BY <1>1 DEF Secure
<1>3. \A v \in Workers : Holds(k, v)' =>
        /\ lease'[v] > 0 /\ pc'[v] # "record"
        /\ rows'[k].state = "CLAIMED" /\ rows'[k].left >= lease'[v]
  BY <1>2 DEF Secure
<1>4. \A v, w \in Workers : Holds(k, v)' /\ Holds(k, w)' => v = w
  BY DEF Secure
<1>5. handled'[k] > 0 =>
        \/ \E w \in Workers : Holds(k, w)' /\ pc'[w] = "confirm"
        \/ rows'[k].state = "CONFIRMED" /\ rows'[k].left > 0
  BY DEF Secure
<1>6. handled'[k] < 2
  BY DEF Secure
<1> QED
  BY <1>3, <1>4, <1>5, <1>6 DEF Secure

\* The holder of a secure key: it alone holds it, and before it has accepted the key
\* was not handled.
LEMMA OnlyHolder ==
  ASSUME TypeOK, NEW k \in Keys, Secure(k), NEW w \in Workers, Holds(k, w)
  PROVE  /\ Exists(k) /\ rows[k].state = "CLAIMED" /\ rows[k].left > 0
         /\ pc[w] \in {"running", "confirm", "forget"}
         /\ \A v \in Workers \ {w} : ~Holds(k, v)
         /\ pc[w] # "confirm" => handled[k] = 0
<1>1. rows[k].left \in Int /\ handled[k] \in 0..2 /\ lease[w] \in Nat
  BY LeftInt, Windows DEF TypeOK
<1>2. rows[k].state = "CLAIMED" /\ rows[k].left >= lease[w] /\ lease[w] > 0
      /\ pc[w] # "record"
  BY DEF Secure
<1>3. \A v \in Workers \ {w} : ~Holds(k, v)
  BY DEF Secure
<1>4. pc[w] # "confirm" => handled[k] = 0
  BY <1>1, <1>2, <1>3 DEF Secure
<1> QED
  BY <1>1, <1>2, <1>3, <1>4 DEF Exists, NoRow, Holds, Holding

\* What a call of the store or a handler's end does to a secure key of the worker.
LEMMA SecureWork ==
  ASSUME TypeOK, Linking, NEW w \in Workers, Works(w), NEW k \in Keys, k = Key(w),
         Secure(k), k \notin lapsed'
  PROVE  Secure(k)'
<1>1. /\ k \in Keys /\ k = Key(w) /\ Key(w)' = k
      /\ \A v \in Workers \ {w} : /\ Holds(k, v)' <=> Holds(k, v)
                                  /\ pc'[v] = pc[v] /\ lease'[v] = lease[v]
      /\ \A v \in Workers : Key(v)' = Key(v)
  BY WorksMoves, BusyKey DEF Holds
<1>2. /\ rows[k].left \in Int /\ handled[k] \in 0..2 /\ age[w] \in Nat
      /\ lease[w] \in Nat
  BY <1>1, LeftInt, Windows DEF TypeOK
<1>3. CASE /\ rows' = [rows EXCEPT ![k] = Claimed(w)]
           /\ ~Exists(k) \/ RunOutFor(w, k)
           /\ lease' = [lease EXCEPT ![w] = ClaimTimeout - age[w]]
           /\ pc' = [pc EXCEPT ![w] = "running"] /\ handled' = handled
  <2>1. handled[k] = 0 /\ \A v \in Workers : ~Holds(k, v)
    BY <1>1, <1>3, FreeKey
  <2>2. /\ rows'[k].state = "CLAIMED" /\ rows'[k].left = ClaimTimeout - age[w]
        /\ lease'[w] = ClaimTimeout - age[w] /\ pc'[w] = "running"
    BY <1>1, <1>3, RowsWritten DEF TypeOK, Claimed
  <2>3. \A v \in Workers : Holds(k, v)' => v = w
    BY <1>1, <2>1
  <2>4. ClaimTimeout - age[w] \in 1..ClaimTimeout
    BY RowsWritten
  <2>5. handled'[k] = 0
    BY <1>3, <2>1
  <2> QED
    BY <2>2, <2>3, <2>4, <2>5 DEF Secure
<1>4. CASE /\ pc'[w] \notin Holding /\ pc[w] \notin Holding /\ handled' = handled
           /\ ~Exists(k) \/ RunOutFor(w, k)
  <2>1. handled[k] = 0 /\ \A v \in Workers : ~Holds(k, v)
    BY <1>1, <1>4, FreeKey
  <2>2. \A v \in Workers : ~Holds(k, v)'
    BY <1>1, <1>4, <2>1 DEF Holds
  <2> QED
    BY <1>1, <1>4, <2>1, <2>2, SecureFree
<1>5. CASE /\ pc'[w] \notin Holding /\ pc[w] \notin Holding
           /\ handled' = handled /\ rows'[k] = rows[k]
  <2>1. ~Holds(k, w) /\ ~Holds(k, w)'
    BY <1>5 DEF Holds
  <2>2. \A v \in Workers : Holds(k, v)' => Holds(k, v) /\ lease'[v] = lease[v]
                                           /\ pc'[v] # "record"
    BY <1>1, <2>1 DEF Secure
  <2>3. \A v \in Workers : Holds(k, v) /\ pc[v] = "confirm" => Holds(k, v)' /\ pc'[v] = "confirm"
    BY <1>1, <2>1
  <2> QED
    BY <1>1, <1>5, <2>2, <2>3, SecureKept
<1>6. CASE HandlerAccepts(w)
  <2>1. Holds(k, w) /\ pc[w] = "running" /\ pc'[w] = "confirm" /\ Holds(k, w)'
    BY <1>1, <1>6 DEF HandlerAccepts, Holds, Holding, Goes, TypeOK
  <2>2. handled[k] = 0 /\ \A v \in Workers \ {w} : ~Holds(k, v)
    BY <1>1, <2>1, OnlyHolder
  <2>3. handled'[k] = 1 /\ UNCHANGED <<rows, lease>>
    BY <1>1, <1>6, <2>2 DEF HandlerAccepts, TypeOK
  <2> QED
    BY <1>1, <2>1, <2>2, <2>3 DEF Secure
<1>7. CASE \E a \in Answers : HandlerFails(w, a)
  <2>1. /\ Holds(k, w) /\ pc[w] = "running" /\ pc'[w] = "forget"
        /\ UNCHANGED <<rows, lease, handled>>
    BY <1>1, <1>7 DEF HandlerFails, Holds, Holding, Goes, TypeOK, ghostVars
  <2>2. \A v \in Workers : Holds(k, v)' => Holds(k, v) /\ lease'[v] = lease[v]
                                           /\ pc'[v] # "record"
    BY <1>1, <2>1 DEF Secure
  <2>3. \A v \in Workers : Holds(k, v) /\ pc[v] = "confirm" => Holds(k, v)' /\ pc'[v] = "confirm"
    BY <1>1, <2>1
  <2> QED
    BY <1>1, <2>1, <2>2, <2>3, SecureKept
<1>8. CASE ConfirmUpdate(w) \/ ConfirmMemory(w)
  <2>1. Holds(k, w)
    BY <1>8 DEF ConfirmUpdate, ConfirmMemory, Holds, Holding
  <2>2. Exists(k) /\ rows[k].left > 0 /\ \A v \in Workers \ {w} : ~Holds(k, v)
    BY <1>1, <2>1, OnlyHolder
  <2>3. pc'[w] = "answer" /\ handled'[k] = handled[k]
    BY <1>8, <2>2 DEF ConfirmUpdate, ConfirmMemory, Goes, TypeOK, ghostVars
  <2>4. rows'[k].state = "CONFIRMED" /\ rows'[k].left > 0
    <3>1. CASE ConfirmUpdate(w)
      <4>1. rows'[k] = Confirmed(w)
        BY <1>1, <2>2, <3>1 DEF ConfirmUpdate, Sets, TypeOK
      <4>2. Confirmed(w).left \in Int /\ Confirmed(w).left > 0
        BY RowsWritten, Windows DEF Row, Lefts
      <4> QED
        BY <4>1, <4>2 DEF Confirmed
    <3>2. CASE ConfirmMemory(w)
      <4>1. rows'[k] = [rows[k] EXCEPT !.state = "CONFIRMED"] /\ rows[k] \in Row
        BY <1>1, <2>2, <3>2 DEF ConfirmMemory, Sets, TypeOK, Exists
      <4> QED
        BY <2>2, <4>1 DEF Row
    <3> QED
      BY <1>8, <3>1, <3>2
  <2>5. \A v \in Workers : ~Holds(k, v)'
    BY <1>1, <2>2, <2>3 DEF Holds, Holding
  <2>6. handled'[k] < 2
    BY <2>3 DEF Secure
  <2> QED
    BY <2>4, <2>5, <2>6 DEF Secure
<1>9. CASE ConfirmInsert(w)
  <2>1. Holds(k, w) /\ pc[w] = "record"
    BY <1>9 DEF ConfirmInsert, Holds, Holding
  <2> QED
    BY <1>1, <2>1, OnlyHolder
<1>10. CASE ConfirmRaises(w)
  BY <1>10 DEF ConfirmRaises
<1>11. CASE Forget(w) \/ ForgetRaises(w)
  <2>1. Holds(k, w) /\ pc[w] = "forget"
    BY <1>11 DEF Forget, ForgetRaises, Holds, Holding
  <2>2. handled[k] = 0 /\ \A v \in Workers \ {w} : ~Holds(k, v)
    BY <1>1, <2>1, OnlyHolder
  <2>3. pc'[w] = "answer" /\ handled'[k] = handled[k]
    BY <1>11 DEF Forget, ForgetRaises, Goes, TypeOK, ghostVars
  <2>4. \A v \in Workers : ~Holds(k, v)'
    BY <1>1, <2>2, <2>3 DEF Holds, Holding
  <2> QED
    BY <1>1, <2>2, <2>3, <2>4, SecureFree
<1>12. CASE ClaimInsert(w) \/ ClaimTakeOver(w)
  <2>1. CASE Granted(w) /\ (~Exists(k) \/ RunOutFor(w, k))
    BY <1>1, <1>3, <1>12, <2>1 DEF ClaimInsert, ClaimTakeOver, Granted, Sets, Goes, ghostVars
  <2>2. CASE UNCHANGED rows /\ (Goes(w, "takeover") \/ Goes(w, "select"))
    BY <1>1, <1>5, <1>12, <2>2 DEF ClaimInsert, ClaimTakeOver, Goes, TypeOK, Holding, ghostVars
  <2> QED
    BY <1>12, <2>1, <2>2 DEF ClaimInsert, ClaimTakeOver
<1>13. CASE ClaimSelect(w)
  BY <1>5, <1>13 DEF ClaimSelect, Returns, Goes, TypeOK, Holding, ghostVars
<1>14. CASE ClaimRaises(w)
  <2>1. pc'[w] \notin Holding /\ pc[w] \notin Holding /\ handled' = handled
    BY <1>14 DEF ClaimRaises, Returns, Goes, TypeOK, Holding, ghostVars
  <2>2. rows' = rows \/ ~Exists(k) \/ RunOutFor(w, k)
    BY <1>14 DEF ClaimRaises
  <2> QED
    BY <1>4, <1>5, <2>1, <2>2
<1>15. CASE ClaimMemory(w)
  <2>1. kind = "memory" /\ pc[w] = "claim" /\ handled' = handled
    BY <1>15 DEF ClaimMemory, ghostVars
  <2> DEFINE swept == [q \in Keys |-> IF RunOutFor(w, q) THEN NoRow ELSE rows[q]]
  <2>2. swept[k] = NoRow <=> ~Exists(k) \/ RunOutFor(w, k)
    BY <1>1 DEF Exists
  <2>3. CASE swept[k] = NoRow
    <3>1. /\ rows' = [swept EXCEPT ![k] = Claimed(w)]
          /\ lease' = [lease EXCEPT ![w] = ClaimTimeout - age[w]] /\ Goes(w, "running")
      BY <1>15, <2>3 DEF ClaimMemory
    <3>2. handled[k] = 0 /\ \A v \in Workers : ~Holds(k, v)
      BY <1>1, <2>2, <2>3, FreeKey
    <3>3. /\ rows'[k].state = "CLAIMED" /\ rows'[k].left = ClaimTimeout - age[w]
          /\ lease'[w] = ClaimTimeout - age[w] /\ pc'[w] = "running"
          /\ ClaimTimeout - age[w] \in 1..ClaimTimeout
      BY <1>1, <3>1, RowsWritten DEF TypeOK, Claimed, Goes
    <3>4. \A v \in Workers : Holds(k, v)' => v = w
      BY <1>1, <3>2
    <3> QED
      BY <2>1, <3>2, <3>3, <3>4 DEF Secure
  <2>4. CASE swept[k] # NoRow
    <3>1. rows' = swept /\ pc'[w] = "answer"
      BY <1>15, <2>4 DEF ClaimMemory, Returns, Goes, TypeOK
    <3>2. rows'[k] = rows[k]
      BY <1>1, <2>2, <2>4, <3>1
    <3> QED
      BY <1>5, <2>1, <3>1, <3>2 DEF Holding
  <2> QED
    BY <2>3, <2>4
<1> QED
  BY <1>6, <1>7, <1>8, <1>9, <1>10, <1>11, <1>12, <1>13, <1>14, <1>15 DEF Works, Raises

\* What one worker does to another key: nothing, except that a claim in memory
\* drops a row that has run out.
LEMMA SecureElsewhere ==
  ASSUME TypeOK, Linking, NEW w \in Workers, Works(w), NEW k \in Keys, k # Key(w), Secure(k)
  PROVE  Secure(k)'
<1>1. /\ pc[w] # "idle" /\ Key(w) \in Keys
      /\ \A v \in Workers \ {w} : /\ Holds(k, v)' <=> Holds(k, v)
                                  /\ pc'[v] = pc[v] /\ lease'[v] = lease[v]
      /\ ~Holds(k, w) /\ ~Holds(k, w)'
  BY WorksMoves, BusyKey DEF Holds
<1>2. rows[k].left \in Int /\ age[w] \in Nat
  BY LeftInt, Windows DEF TypeOK
<1>3. rows'[k] = rows[k] \/ ~(rows[k].left > 0)
  <2>1. CASE ClaimMemory(w)
    <3>1. rows'[k] = IF RunOutFor(w, k) THEN NoRow ELSE rows[k]
      BY <1>1, <2>1 DEF ClaimMemory
    <3> QED
      BY <1>2, <3>1 DEF RunOutFor
  <2>2. CASE ~ClaimMemory(w)
    <3>1. UNCHANGED rows \/ \E r : Sets(Key(w), r)
      BY <2>2 DEF Works, Raises, ClaimInsert, ClaimTakeOver, ClaimSelect, ClaimRaises,
         HandlerAccepts, HandlerFails, ConfirmUpdate, ConfirmInsert, ConfirmMemory,
         ConfirmRaises, Forget, ForgetRaises, Granted
    <3> QED
      BY <1>1, <3>1 DEF Sets, TypeOK
  <2> QED
    BY <2>1, <2>2
<1>4. handled'[k] = handled[k]
  BY <1>1 DEF Works, Raises, ClaimInsert, ClaimTakeOver, ClaimSelect, ClaimMemory, ClaimRaises,
     HandlerAccepts, HandlerFails, ConfirmUpdate, ConfirmInsert, ConfirmMemory,
     ConfirmRaises, Forget, ForgetRaises, ghostVars, TypeOK
<1>5. \A v \in Workers : Holds(k, v)' => Holds(k, v) /\ lease'[v] = lease[v]
                                         /\ pc'[v] # "record"
  BY <1>1 DEF Secure
<1>6. \A v \in Workers : Holds(k, v) /\ pc[v] = "confirm" => Holds(k, v)' /\ pc'[v] = "confirm"
  BY <1>1
<1> QED
  BY <1>3, <1>4, <1>5, <1>6, SecureKept

\* Every step leaves a key secure, or lapses it.
LEMMA UnlapsedStep ==
  ASSUME TypeOK, Linking, Unlapsed, Next
  PROVE  Unlapsed'
<1>1. lapsed \subseteq lapsed'
  BY DEF Next, Step, Raises, Deliver, ClaimInsert, ClaimTakeOver, ClaimSelect, ClaimMemory,
     ClaimRaises, HandlerAccepts, HandlerFails, ConfirmUpdate, ConfirmInsert, ConfirmMemory,
     ConfirmRaises, Forget, ForgetRaises, Answer, LinkLost, Crash, Purge, Tick, ghostVars
<1> SUFFICES ASSUME NEW k \in Keys, k \notin lapsed', Secure(k) PROVE Secure(k)'
  BY <1>1 DEF Unlapsed
<1>2. /\ rows[k].left \in Int /\ handled[k] \in 0..2
      /\ \A v \in Workers : lease[v] \in Nat /\ age[v] \in Nat
  BY LeftInt, Windows DEF TypeOK
<1>3. ASSUME NEW w \in Workers, Works(w) PROVE Secure(k)'
  BY <1>3, SecureWork, SecureElsewhere
<1>4. ASSUME NEW w \in Workers,
             Answer(w) \/ LinkLost(w) \/ \E m \in Messages : Deliver(w, m)
      PROVE  Secure(k)'
  <2>1. UNCHANGED <<rows, lease, handled>>
    BY <1>4 DEF Answer, LinkLost, Deliver, ghostVars
  <2>2. \A v \in Workers : Holds(k, v)' <=> Holds(k, v)
    BY <1>4 DEF Answer, LinkLost, Deliver, Goes, Holds, Holding, Key, TypeOK
  <2>3. \A v \in Workers : Holds(k, v) => pc'[v] = pc[v]
    BY <1>4 DEF Answer, LinkLost, Deliver, Goes, Holds, Holding, TypeOK
  <2> QED
    BY <2>1, <2>2, <2>3, SecureKept DEF Secure
<1>5. ASSUME NEW n \in Nodes, Crash(n) PROVE Secure(k)'
  <2>1. kind # "memory"
    BY <1>5 DEF Crash
  <2>2. /\ handled' = handled
        /\ rows'[k].state = rows[k].state /\ rows'[k].left = rows[k].left
    BY <1>5, <2>1 DEF Crash, TypeOK, Row, NoRow
  <2>3. \A v \in Workers : \/ NodeOf[v] = n /\ pc'[v] = "idle"
                           \/ /\ NodeOf[v] # n /\ pc'[v] = pc[v] /\ lease'[v] = lease[v]
                              /\ Key(v)' = Key(v)
    BY <1>5, <2>1 DEF Crash, Key, TypeOK
  <2>4. \A v \in Workers : Holds(k, v)' => Holds(k, v) /\ lease'[v] = lease[v]
                                           /\ pc'[v] # "record"
    BY <2>3 DEF Holds, Holding, Secure
  <2>5. ASSUME NEW v \in Workers, Holds(k, v), pc[v] = "confirm"
        PROVE  Holds(k, v)' /\ pc'[v] = "confirm"
    <3>1. NodeOf[v] # n
      BY <1>5, <2>1, <2>5 DEF Crash, Holds
    <3> QED
      BY <2>3, <2>5, <3>1 DEF Holds
  <2> QED
    BY <2>2, <2>4, <2>5, SecureKept
<1>6. CASE Purge
  <2>1. /\ rows'[k] = rows[k] \/ ~(rows[k].left > 0)
        /\ UNCHANGED <<handled, lease, pc, job>>
    BY <1>2, <1>6 DEF Purge, workerVars, ghostVars
  <2>2. \A v \in Workers : Holds(k, v)' <=> Holds(k, v)
    BY <2>1 DEF Holds, Key
  <2> QED
    BY <2>1, <2>2, SecureKept DEF Secure
<1>7. CASE Tick
  <2>1. /\ ~Lapsing(k) /\ UNCHANGED <<pc, job, handled>>
        /\ \A v \in Workers : lease'[v] = IF lease[v] > 0 THEN lease[v] - 1 ELSE 0
        /\ rows'[k] = IF Exists(k) /\ rows[k].left > -MaxStall
                      THEN [rows[k] EXCEPT !.left = @ - 1] ELSE rows[k]
    BY <1>7 DEF Tick
  <2>2. \A v \in Workers : Holds(k, v)' <=> Holds(k, v)
    BY <2>1 DEF Holds, Key
  <2>3. ASSUME rows[k].left > 0
        PROVE  rows'[k].state = rows[k].state /\ rows'[k].left = rows[k].left - 1
    <3>1. Exists(k) /\ rows[k].left > -MaxStall
      BY <1>2, <2>3, LeftInt, Windows
    <3>2. rows[k] \in Row
      BY <3>1 DEF TypeOK, Exists
    <3> QED
      BY <2>1, <3>1, <3>2 DEF Row
  <2>4. ASSUME NEW v \in Workers, Holds(k, v)
        PROVE  /\ lease'[v] > 0 /\ pc'[v] # "record"
               /\ rows'[k].state = "CLAIMED" /\ rows'[k].left >= lease'[v]
    <3>1. /\ lease[v] > 0 /\ pc[v] # "record"
          /\ rows[k].state = "CLAIMED" /\ rows[k].left >= lease[v]
      BY <2>4 DEF Secure
    <3>2. lease[v] # 1
      BY <2>1, <2>4 DEF Lapsing, Holds
    <3> QED
      BY <1>2, <2>1, <2>3, <3>1, <3>2
  <2>5. ASSUME rows[k].state = "CONFIRMED", rows[k].left > 0
        PROVE  rows'[k].state = "CONFIRMED" /\ rows'[k].left > 0
    BY <1>2, <2>1, <2>3, <2>5 DEF Lapsing
  <2>6. handled'[k] > 0 => \/ \E w \in Workers : Holds(k, w)' /\ pc'[w] = "confirm"
                           \/ rows'[k].state = "CONFIRMED" /\ rows'[k].left > 0
    BY <2>1, <2>2, <2>5 DEF Secure
  <2>7. /\ \A v, w \in Workers : Holds(k, v)' /\ Holds(k, w)' => v = w
        /\ handled'[k] < 2
    BY <2>1, <2>2 DEF Secure
  <2> QED
    BY <2>2, <2>4, <2>6, <2>7 DEF Secure
<1> QED
  BY <1>3, <1>4, <1>5, <1>6, <1>7, NextCases

-----------------------------------------------------------------------------
(* The theorems *)

\* Every step keeps the invariants.
LEMMA InvStep == Inv /\ [Next]_vars => Inv'
<1>1. CASE UNCHANGED vars
  BY <1>1 DEF Inv, TypeOK, Linking, Accepting, NothingLost, Key, vars, workerVars, queueVars,
     ghostVars
<1>2. CASE Next
  BY <1>2, TypingStep, LinkingStep, AcceptingStep DEF Inv
<1> QED
  BY <1>1, <1>2

\* So they are with claims, when no two workers share a process.
LEMMA LeaseInvStep ==
  ASSUME \A v, w \in Workers : NodeOf[v] = NodeOf[w] => v = w
  PROVE  LeaseInv /\ [Next]_vars => LeaseInv'
<1>1. CASE UNCHANGED vars
  BY <1>1, InvStep DEF LeaseInv, Covered, Alone, Leased, Exists, Key, vars, workerVars
<1>2. CASE Next
  BY <1>2, InvStep, CoveredStep DEF LeaseInv, Inv
<1> QED
  BY <1>1, <1>2

\* The invariant of types, messages and answers holds in every state.
THEOREM IdempotencyInvariant == Spec => []Inv
<1>1. Init => Inv
  BY InvInit DEF LeaseInv
<1> QED
  BY <1>1, InvStep, PTL DEF Spec

\* Every variable keeps its type: a message has no more attempts than the limit.
THEOREM IdempotencyTyping == Spec => []TypeOK
BY IdempotencyInvariant, PTL DEF Inv

\* No message is accepted as a duplicate that no handler ever accepted.
THEOREM DuplicateWasHandled == Spec => []NothingLost
BY IdempotencyInvariant, PTL DEF Inv

\* With one worker in each process, of two handlers that run for one key at once one
\* has outlived its lease, however the statements of their calls interleave.
THEOREM OneHandler ==
  ASSUME \A v, w \in Workers : NodeOf[v] = NodeOf[w] => v = w
  PROVE  Spec => []Exclusive
<1>1. LeaseInv => Exclusive
  <2> SUFFICES ASSUME LeaseInv, kind = "sql", NEW v \in Workers, NEW w \in Workers,
                      v # w, pc[v] = "running", pc[w] = "running", Key(v) = Key(w)
               PROVE  lease[v] = 0 \/ lease[w] = 0
    BY DEF Exclusive
  <2>1. lease[v] \in 0..ClaimTimeout /\ lease[w] \in 0..ClaimTimeout
    BY DEF LeaseInv, Inv, TypeOK
  <2>2. ~(Leased(v) /\ Leased(w))
    BY DEF LeaseInv, Alone
  <2> QED
    BY <2>1, <2>2, Windows DEF Leased, Holding
<1> QED
  BY <1>1, InvInit, LeaseInvStep, PTL DEF Spec

\* A confirmation stands until its retention is over.
THEOREM ConfirmationKept == Spec => ConfirmationStands
<1> DEFINE Stands ==
      kind = "sql" =>
        \A k \in Keys : rows[k].state = "CONFIRMED" /\ rows[k].left > 0
                          => rows'[k].state = "CONFIRMED"
<1>1. Inv /\ [Next]_vars => [Stands]_vars
  <2> SUFFICES ASSUME Inv, Next, kind = "sql", NEW k \in Keys,
                      rows[k].state = "CONFIRMED", rows[k].left > 0
               PROVE  rows'[k].state = "CONFIRMED"
    OBVIOUS
  <2>1. /\ TypeOK /\ Linking /\ Exists(k) /\ rows[k] \in Row
        /\ rows[k].left \in Int
    BY Windows DEF Inv, TypeOK, Exists, NoRow, Row, Lefts
  <2>2. ASSUME NEW w \in Workers, Works(w) PROVE rows'[k].state = "CONFIRMED"
    <3>1. ~RunOutFor(w, k)
      <4>1. age[w] \in Nat
        BY <2>1, Windows DEF TypeOK
      <4> QED
        BY <2>1, <4>1 DEF RunOutFor
    <3>2. rows'[k] = rows[k] \/ rows'[k] = Confirmed(w)
      <4>1. rows[k].state # "CLAIMED" /\ Exists(k)
        BY <2>1
      <4> QED
        BY <2>1, <2>2, <3>1, <4>1, RowStep
    <3> QED
      BY <3>2 DEF Confirmed
  <2>3. ASSUME NEW w \in Workers,
               Answer(w) \/ LinkLost(w) \/ \E m \in Messages : Deliver(w, m)
        PROVE  rows'[k].state = "CONFIRMED"
    BY <2>3 DEF Answer, LinkLost, Deliver
  <2>4. ASSUME NEW n \in Nodes, Crash(n) PROVE rows'[k].state = "CONFIRMED"
    BY <2>1, <2>4 DEF Crash, Row
  <2>5. CASE Purge
    <3>1. ~(rows[k].left <= 0)
      BY <2>1
    <3> QED
      BY <2>5, <3>1 DEF Purge
  <2>6. CASE Tick
    BY <2>1, <2>6 DEF Tick, Row
  <2> QED
    BY <2>2, <2>3, <2>4, <2>5, <2>6, NextCases
<1> QED
  BY <1>1, IdempotencyInvariant, PTL DEF Spec, ConfirmationStands

\* A key is handled twice only after its claim ran out under a holder, its confirmation
\* failed or was never made, its retention ended or its memory was lost: for either
\* store, and wherever the workers run.
THEOREM WorkOnce == Spec => []TwiceOnlyIfLapsed
<1>1. Init => OnceInv
  <2>1. Init => Inv
    BY InvInit DEF LeaseInv
  <2>2. Init => Unlapsed
    BY DEF Init, Unlapsed, Secure, Holds, Holding
  <2> QED
    BY <2>1, <2>2 DEF OnceInv
<1>2. OnceInv /\ [Next]_vars => OnceInv'
  <2>1. ASSUME OnceInv, UNCHANGED vars PROVE Unlapsed'
    BY <2>1 DEF OnceInv, Unlapsed, Secure, Holds, Key, vars, workerVars, ghostVars
  <2>2. ASSUME OnceInv, Next PROVE Unlapsed'
    BY <2>2, UnlapsedStep DEF OnceInv, Inv
  <2> QED
    BY <2>1, <2>2, InvStep DEF OnceInv
<1>3. OnceInv => TwiceOnlyIfLapsed
  BY DEF OnceInv, Unlapsed, Secure, TwiceOnlyIfLapsed
<1> QED
  BY <1>1, <1>2, <1>3, PTL DEF Spec
=============================================================================
