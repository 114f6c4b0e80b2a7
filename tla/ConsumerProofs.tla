--------------------------- MODULE ConsumerProofs ---------------------------
(***************************************************************************)
(* Proofs about the consumer, the retry policy and the topology of where   *)
(* failures go.                                                            *)
(*                                                                         *)
(* The consumer, for every set of messages, copies and workers, every      *)
(* retry policy and every bound on faults: nothing is lost and every       *)
(* delivery settled once; the consumer implements the safety part of       *)
(* AtLeastOnce; the attempt header counts failures; undisturbed, a message *)
(* is in one place.                                                        *)
(*                                                                         *)
(* The topology, for every policy, number of services and mixture of       *)
(* settings.  The delays of a policy are recursive functions, over an      *)
(* unbounded number of attempts: what they compute is proved by induction  *)
(* on the attempt, as a least number that fails (LeastNumber,              *)
(* SetInduction), from the existence of what the recursion defines         *)
(* (Recursion).  A rung keeps time because whoever declared its name did so*)
(* for a delay of the same second, and services that agree on policy and   *)
(* durable never refuse each other because every queue on the broker is    *)
(* one that some plan declares: both are read off TopologyInv, which says  *)
(* where each service is in its plan and where each queue comes from.      *)
(***************************************************************************)
EXTENDS Consumer, Topology, FiniteSetTheorems, SequenceTheorems, WellFoundedInduction, TLAPS

USE DEF linkVars

-----------------------------------------------------------------------------
(* The decisions *)

\* next_wait gives a wait only below the last attempt, so the attempt it leads to
\* is one the policy allows.
LEMMA WaitIsAllowed ==
  ASSUME NEW n \in Attempts, NEW age, NextWait(Policy, n, age, 0) # GiveUp
  PROVE  n + 1 \in Attempts
<1>1. Policy.max_attempts \in Int
  BY ConsumerAssumption DEF Policies
<1>2. ~(n >= Policy.max_attempts)
  BY DEF NextWait, GivesUp
<1> QED
  BY <1>1, <1>2 DEF Attempts, LastAttempt

\* _decide and _carry_out together: a hop knows where to, and only a message the
\* handler accepted is acknowledged at once.
LEMMA PlanMade ==
  ASSUME NEW a \in AllAnswers, NEW n \in Attempts, NEW age
  PROVE  LET todo == CarryOut(Decide(a, n, age), n)
         IN /\ todo.pc \in {"hop", "acking", "nacking"}
            /\ todo.hop \in Hop \cup {None}
            /\ todo.pc = "hop" => todo.hop \in Hop
            /\ todo.pc = "acking" => a = "accept"
<1> DEFINE wait == NextWait(Policy, n, age, 0)
<1>1. \A q \in Queues, k \in Attempts :
        HopTo(q, k).pc = "hop" /\ HopTo(q, k).hop \in Hop
  BY DEF HopTo, Hop
<1>2. CASE a = "retry" /\ wait # GiveUp
  <2>1. n + 1 \in Attempts
    BY <1>2, WaitIsAllowed
  <2>2. Decide(a, n, age) = [outcome |-> "retried", wait |-> wait]
    BY <1>2 DEF Decide
  <2>3. CarryOut(Decide(a, n, age), n) =
          HopTo(IF wait.in_broker THEN "rung" ELSE "queue", n + 1)
    BY <2>2, <1>2 DEF CarryOut
  <2> QED
    BY <2>1, <2>3, <1>1 DEF Queues
<1>3. CASE a = "retry" /\ wait = GiveUp
  <2>1. CarryOut(Decide(a, n, age), n) = HopTo("dlq", n)
    BY <1>3 DEF Decide, CarryOut, Outcome
  <2> QED
    BY <2>1, <1>1 DEF Queues
<1>4. CASE a = "in_progress"
  <2>1. CarryOut(Decide(a, n, age), n) = HopTo("queue", n)
    BY <1>4 DEF Decide, CarryOut, GiveUp
  <2> QED
    BY <2>1, <1>1 DEF Queues
<1>5. CASE a \in {"park", "reject", "fatal", "not_an_ack"}
  <2>1. CarryOut(Decide(a, n, age), n) = HopTo(IF a = "park" THEN "parked" ELSE "dlq", n)
    BY <1>5 DEF Decide, CarryOut, Outcome, FinalOutcome
  <2> QED
    BY <2>1, <1>1 DEF Queues
<1>6. CASE a = "accept"
  BY <1>6 DEF Decide, CarryOut, Outcome, FinalOutcome, SettleBy
<1>7. CASE a = "stop"
  BY <1>7 DEF Decide, CarryOut, Outcome, FinalOutcome, SettleBy
<1> QED
  BY <1>2, <1>3, <1>4, <1>5, <1>6, <1>7 DEF AllAnswers

\* What a worker does with the broker's answer to its republish: it acknowledges
\* the original only on a confirm.
LEMMA AfterHopPlan ==
  ASSUME NEW h \in Hop, NEW r \in {"confirmed", "returned", "nacked"}
  PROVE  LET todo == AfterHop(h, r)
         IN /\ todo.pc \in {"hop", "acking", "nacking"}
            /\ todo.hop \in Hop \cup {None}
            /\ todo.pc = "hop" => todo.hop \in Hop
            /\ todo.pc = "acking" => r = "confirmed"
<1>1. CASE r = "returned" /\ h.to = "rung"
  BY <1>1 DEF AfterHop, HopTo, Hop, Queues
<1>2. CASE ~(r = "returned" /\ h.to = "rung")
  BY <1>2 DEF AfterHop, SettleBy
<1> QED
  BY <1>1, <1>2

-----------------------------------------------------------------------------
(* Type correctness *)

\* The first attempt is always allowed, and an identity not in use is well typed.
LEMMA Basics == 1 \in Attempts /\ Free \in Copy
<1>1. Policy.max_attempts \in Int
  BY ConsumerAssumption DEF Policies
<1>2. 0 \in Attempts /\ 1 \in Attempts
  BY <1>1 DEF Attempts, LastAttempt
<1> QED
  BY <1>2 DEF Free, Copy, Queues

\* A copy given another place is still a copy.
LEMMA CopyMoved ==
  ASSUME NEW c \in Copies, copy \in [Copies -> Copy]
  PROVE  /\ \A where \in {"stored", "unacked"} : [copy[c] EXCEPT !.at = where] \in Copy
         /\ [copy[c] EXCEPT !.to = "queue"] \in Copy
         /\ Requeued(c) \in Copy
BY DEF Copy, Queues, Requeued

\* A worker goes on to a well-formed todo: the types are kept.
LEMMA ProceedTyped ==
  ASSUME TypeOK, Holding, NEW w \in Workers, Busy(w), NEW todo, Proceed(w, todo),
         todo.pc \in {"hop", "acking", "nacking"},
         todo.hop \in Hop \cup {None},
         todo.pc = "hop" => todo.hop \in Hop
  PROVE  /\ pc' \in [Workers -> Pcs]
         /\ dlv' \in [Workers -> Delivery \cup {None}]
         /\ hop' \in [Workers -> Hop \cup {None}]
         /\ sent' \in [Workers -> Copies \cup {None}]
         /\ answer' \in [Workers -> {"confirmed", "returned", "nacked", None}]
         /\ \A v \in Workers :
              /\ Busy(v)' => dlv'[v] \in Delivery
              /\ pc'[v] \in {"hop", "sent"} => hop'[v] \in Hop
              /\ pc'[v] # "sent" => sent'[v] = None /\ answer'[v] = None
              /\ sent'[v] # None => answer'[v] = None
              /\ pc'[v] = "done" => pc[v] = "done"
              /\ pc[v] = "done" => pc'[v] = "done"
BY DEF TypeOK, Holding, Busy, Proceed, Pcs

\* The faults counted stay within their bound.
LEMMA FaultTyped ==
  ASSUME TypeOK, Fault \/ UNCHANGED faults
  PROVE  faults' \in 0..MaxFaults
BY ConsumerAssumption DEF TypeOK, Fault

\* Init establishes the types.
LEMMA TypingInit == Init => TypeOK /\ Holding
<1> SUFFICES ASSUME Init PROVE TypeOK /\ Holding
  OBVIOUS
<1>1. exists \subseteq Declarable
  BY DEF Init
<1>2. copy \in [Copies -> Copy] /\ \A c \in Copies : copy[c].at = "free"
  BY Basics DEF Init, Free
<1>3. faults \in 0..MaxFaults
  BY ConsumerAssumption DEF Init
<1>4. TypeOK
  BY <1>1, <1>2, <1>3 DEF Init, TypeOK, Phases, Pcs
<1> QED
  BY <1>2, <1>4 DEF Init, Holding, Busy

\* Every step of the broker, of an operator and of a producer keeps the types.
LEMMA TypingBroker ==
  ASSUME TypeOK, Holding,
         \/ \E m \in Msgs, c \in Copies : Publish(m, c)
         \/ \E c \in Copies : Deliver(c) \/ DeliverBehind(c) \/ BrokerStep(c) \/ BrokerNacks(c)
         \/ ApplyTopology
         \/ \E q \in {"rung", "dlq", "parked"} : RemoveQueue(q)
  PROVE  TypeOK' /\ Holding'
<1>1. ASSUME NEW m \in Msgs, NEW c \in Copies, Publish(m, c) PROVE TypeOK' /\ Holding'
  <2>1. [at |-> "stored", to |-> "queue", msg |-> m, attempt |-> 1] \in Copy
    BY Basics DEF Copy, Queues
  <2> QED
    BY <1>1, <2>1 DEF Publish, TypeOK, Holding, Busy, workerVars, ghostVars
<1>2. ASSUME NEW c \in Copies, Deliver(c) PROVE TypeOK' /\ Holding'
  <2>1. [id |-> c, gen |-> gen, msg |-> copy[c].msg, attempt |-> copy[c].attempt] \in Delivery
    BY <1>2 DEF Deliver, At, TypeOK, Holding, Copy, Delivery
  <2>2. [copy[c] EXCEPT !.at = "unacked"] \in Copy
    BY CopyMoved DEF TypeOK
  <2>3. TypeOK'
    BY <1>2, <2>1, <2>2 DEF Deliver, TypeOK, workerVars, ghostVars
  <2> QED
    BY <1>2, <2>3 DEF Deliver, At, TypeOK, Copy, Holding, Busy, workerVars
<1>9. ASSUME NEW c \in Copies, DeliverBehind(c) PROVE TypeOK' /\ Holding'
  <2>1. [copy[c] EXCEPT !.at = "unacked"] \in Copy
    BY CopyMoved DEF TypeOK
  <2>2. TypeOK'
    BY <1>9, <2>1 DEF DeliverBehind, TypeOK, workerVars, ghostVars
  <2> QED
    BY <1>9, <2>2 DEF DeliverBehind, At, TypeOK, Copy, Holding, Busy, workerVars
<1>3. ASSUME NEW c \in Copies, RungExpires(c) PROVE TypeOK' /\ Holding'
  <2>1. [copy[c] EXCEPT !.to = "queue"] \in Copy /\ Free \in Copy
    BY CopyMoved, Basics DEF TypeOK
  <2>2. TypeOK'
    BY <1>3, <2>1 DEF RungExpires, TypeOK, workerVars, ghostVars
  <2> QED
    BY <1>3, <2>2 DEF RungExpires, At, TypeOK, Copy, Free, Holding, Busy, workerVars
<1>4. ASSUME NEW c \in Copies, NEW what \in {"confirmed", "returned", "nacked"}, Reply(c, what)
      PROVE  /\ answer' \in [Workers -> {"confirmed", "returned", "nacked", None}]
             /\ sent' \in [Workers -> Copies \cup {None}]
             /\ \A v \in Workers :
                  /\ Busy(v)' => dlv'[v] \in Delivery
                  /\ pc'[v] \in {"hop", "sent"} => hop'[v] \in Hop
                  /\ pc'[v] # "sent" => sent'[v] = None /\ answer'[v] = None
                  /\ sent'[v] # None => answer'[v] = None
             /\ phase' \in {"off", "releasing"} => \A v \in Workers : pc'[v] = "done"
  BY <1>4, ConsumerAssumption DEF Reply, TypeOK, Holding, Busy
<1>5. ASSUME NEW c \in Copies, BrokerTakes(c) PROVE TypeOK' /\ Holding'
  <2>1. [copy[c] EXCEPT !.at = "stored"] \in Copy /\ Free \in Copy /\ copy[c].msg \in Msgs
    BY <1>5, CopyMoved, Basics DEF BrokerTakes, TypeOK, Holding
  <2>2. copy' \in [Copies -> Copy] /\ aside' \in [AsideQueues -> SUBSET Msgs]
    BY <1>5, <2>1 DEF BrokerTakes, TypeOK
  <2>3. \A x \in Copies : copy'[x].at # "free" => copy'[x].msg \in Msgs
    BY <1>5, <2>1 DEF BrokerTakes, TypeOK, Holding, Copy, Free
  <2>4. Reply(c, "confirmed") /\ UNCHANGED faults
    BY <1>5 DEF BrokerTakes
  <2> QED
    BY <2>2, <2>3, <2>4, <1>4 DEF Reply, TypeOK, Holding, ghostVars
<1>6. ASSUME NEW c \in Copies, NEW what \in {"returned", "nacked"}, Reply(c, what),
             copy' = [copy EXCEPT ![c] = Free], UNCHANGED aside, faults' \in 0..MaxFaults
      PROVE  TypeOK' /\ Holding'
  <2>1. copy' \in [Copies -> Copy]
    BY <1>6, Basics DEF TypeOK
  <2>2. \A x \in Copies : copy'[x].at # "free" => copy'[x].msg \in Msgs
    BY <1>6 DEF TypeOK, Holding, Free
  <2> QED
    BY <1>6, <2>1, <2>2, <1>4 DEF Reply, TypeOK, Holding, ghostVars
<1>7. ASSUME NEW c \in Copies, BrokerReturns(c) \/ BrokerNacks(c) PROVE TypeOK' /\ Holding'
  BY <1>6, <1>7, ConsumerAssumption DEF BrokerReturns, BrokerNacks, Fault, TypeOK
<1>8. ASSUME ApplyTopology \/ \E q \in {"rung", "dlq", "parked"} : RemoveQueue(q)
      PROVE TypeOK' /\ Holding'
  <2>1. faults' \in 0..MaxFaults
    BY <1>8, FaultTyped DEF ApplyTopology, RemoveQueue
  <2>2. exists' \subseteq Declarable
    BY <1>8 DEF ApplyTopology, RemoveQueue, TypeOK
  <2> QED
    BY <1>8, <2>1, <2>2
       DEF ApplyTopology, RemoveQueue, TypeOK, Holding, Busy, workerVars, ghostVars
<1> QED
  BY <1>1, <1>2, <1>3, <1>5, <1>7, <1>8, <1>9 DEF BrokerStep

\* A worker that lets its delivery go is idle and empty-handed.
LEMMA LetGoTyped ==
  ASSUME TypeOK, Holding, NEW w \in Workers, Busy(w), LetGo(w)
  PROVE  /\ pc' \in [Workers -> Pcs]
         /\ dlv' \in [Workers -> Delivery \cup {None}]
         /\ hop' \in [Workers -> Hop \cup {None}]
         /\ sent' \in [Workers -> Copies \cup {None}]
         /\ answer' \in [Workers -> {"confirmed", "returned", "nacked", None}]
         /\ \A v \in Workers :
              /\ Busy(v)' => dlv'[v] \in Delivery
              /\ pc'[v] \in {"hop", "sent"} => hop'[v] \in Hop
              /\ pc'[v] # "sent" => sent'[v] = None /\ answer'[v] = None
              /\ sent'[v] # None => answer'[v] = None
BY DEF TypeOK, Holding, Busy, LetGo, Pcs

\* Every step of a worker keeps the types.
LEMMA TypingWorker ==
  ASSUME TypeOK, Holding, SettledOnce, NEW w \in Workers, WorkerStep(w) \/ WorkerFault(w)
  PROVE  TypeOK' /\ Holding'
<1>0. Busy(w) => dlv[w] \in Delivery /\ phase \notin {"off", "releasing"}
  BY DEF Holding, Busy
<1>1. ASSUME NEW d \in work, Take(w, d) PROVE TypeOK' /\ Holding'
  <2>1. TypeOK'
    BY <1>1 DEF Take, TypeOK, Pcs, brokerVars, ghostVars
  <2> QED
    BY <1>1, <2>1 DEF Take, TypeOK, Holding, Busy, brokerVars
<1>2. CASE Unreadable(w)
  <2>1. Busy(w) /\ dlv[w] \in Delivery
    BY <1>0, <1>2 DEF Unreadable, Busy
  <2> DEFINE todo == HopTo("parked", dlv[w].attempt)
  <2>2. todo.pc = "hop" /\ todo.hop \in Hop
    BY <2>1 DEF HopTo, Hop, Delivery, Queues
  <2>3. Proceed(w, todo)
    BY <1>2 DEF Unreadable
  <2> HIDE DEF todo
  <2> QED
    BY <1>0, <1>2, <2>1, <2>2, <2>3, ProceedTyped
       DEF Unreadable, TypeOK, Holding, Delivery, brokerVars
<1>3. ASSUME NEW a \in Answers, NEW age \in Ages, HandlerAnswers(w, a, age)
      PROVE  TypeOK' /\ Holding'
  <2>1. Busy(w) /\ dlv[w] \in Delivery /\ dlv[w].attempt \in Attempts /\ dlv[w].msg \in Msgs
    BY <1>0, <1>3 DEF HandlerAnswers, Busy, Delivery
  <2> DEFINE todo == CarryOut(Decide(a, dlv[w].attempt, age), dlv[w].attempt)
  <2>2. /\ todo.pc \in {"hop", "acking", "nacking"}
        /\ todo.hop \in Hop \cup {None}
        /\ todo.pc = "hop" => todo.hop \in Hop
    BY <2>1, PlanMade, ConsumerAssumption
  <2>3. Proceed(w, todo)
    BY <1>3 DEF HandlerAnswers
  <2> HIDE DEF todo
  <2>4. faults' \in 0..MaxFaults /\ halted' \in BOOLEAN
    BY <1>3, ConsumerAssumption DEF HandlerAnswers, Fault, TypeOK
  <2>5. /\ handled' \subseteq Msgs /\ condemned' \subseteq Msgs /\ disturbed' \subseteq Msgs
        /\ failures' \in [Msgs -> Nat]
    BY <1>3, <2>1 DEF HandlerAnswers, Remember, TypeOK
  <2>6. UNCHANGED <<brokerVars, phase, work, linkVars>>
    BY <1>3 DEF HandlerAnswers
  <2> QED
    BY <1>0, <2>1, <2>2, <2>3, <2>4, <2>5, <2>6, ProceedTyped
       DEF TypeOK, Holding, brokerVars
<1>4. CASE HopRefused(w) \/ HopTimesOut(w) \/ HopAnswered(w)
  <2>1. Busy(w) /\ dlv[w] \in Delivery /\ hop[w] \in Hop /\ dlv[w].msg \in Msgs
    BY <1>0, <1>4 DEF HopRefused, HopTimesOut, HopAnswered, Busy, Holding, Delivery
  <2>2. PICK r \in {"confirmed", "returned", "nacked"} : Proceed(w, AfterHop(hop[w], r))
    BY <1>4 DEF HopRefused, HopTimesOut, HopAnswered, TypeOK
  <2> DEFINE todo == AfterHop(hop[w], r)
  <2>3. /\ todo.pc \in {"hop", "acking", "nacking"}
        /\ todo.hop \in Hop \cup {None}
        /\ todo.pc = "hop" => todo.hop \in Hop
    BY <2>1, AfterHopPlan
  <2>4. Proceed(w, todo)
    BY <2>2
  <2> HIDE DEF todo
  <2>5. faults' \in 0..MaxFaults /\ disturbed' \subseteq Msgs
    BY <1>4, <2>1, ConsumerAssumption
       DEF HopRefused, HopTimesOut, HopAnswered, Fault, TypeOK, ghostVars
  <2>6. UNCHANGED <<brokerVars, phase, halted, work, linkVars, handled, failures, condemned>>
    BY <1>4 DEF HopRefused, HopTimesOut, HopAnswered, ghostVars
  <2> QED
    BY <1>0, <2>1, <2>3, <2>4, <2>5, <2>6, ProceedTyped DEF TypeOK, Holding, brokerVars
<1>5. ASSUME NEW c \in Copies, HopSent(w, c) PROVE TypeOK' /\ Holding'
  <2>1. Busy(w) /\ dlv[w] \in Delivery /\ hop[w] \in Hop
    BY <1>0, <1>5 DEF HopSent, Busy, Holding
  <2>2. [at |-> "wire", to |-> hop[w].to, msg |-> dlv[w].msg, attempt |-> hop[w].attempt] \in Copy
    BY <2>1 DEF Copy, Delivery, Hop
  <2>3. TypeOK'
    BY <1>5, <2>2 DEF HopSent, TypeOK, Pcs, ghostVars
  <2> QED
    BY <1>5, <2>1, <2>3 DEF HopSent, TypeOK, Holding, Busy, Delivery, Fresh
<1>6. CASE HopEscapes(w)
  <2>1. Busy(w) /\ dlv[w].msg \in Msgs
    BY <1>0, <1>6 DEF HopEscapes, Busy, Delivery
  <2>2. LetGo(w) /\ faults' \in 0..MaxFaults
    BY <1>6, ConsumerAssumption DEF HopEscapes, Fault, TypeOK
  <2> QED
    BY <1>0, <1>6, <2>1, <2>2, LetGoTyped DEF HopEscapes, TypeOK, Holding, brokerVars
<1>7. CASE Ack(w) \/ Nack(w)
  <2>1. Busy(w) /\ dlv[w].id \in Copies /\ LetGo(w)
    BY <1>0, <1>7 DEF Ack, Nack, Busy, Delivery
  <2>2. Free \in Copy /\ Requeued(dlv[w].id) \in Copy
    BY <2>1, CopyMoved, Basics DEF TypeOK
  <2>3. copy' \in [Copies -> Copy]
    BY <1>7, <2>1, <2>2 DEF Ack, Nack, TypeOK
  <2>4. Live(dlv[w]) => copy[dlv[w].id].at = "unacked"
    BY <2>1 DEF SettledOnce
  <2>5. \A c \in Copies : copy'[c].at # "free" => copy'[c].msg \in Msgs
    <3>1. \A c \in Copies : \/ copy'[c] = copy[c] \/ copy'[c] = Free
                            \/ copy[c].at # "free" /\ copy'[c].msg = copy[c].msg
      BY <1>7, <2>1, <2>4 DEF TypeOK, Copy, Requeued, Ack, Nack
    <3> QED
      BY <3>1 DEF Holding, Free
  <2> QED
    BY <1>0, <1>7, <2>1, <2>3, <2>5, LetGoTyped DEF Ack, Nack, TypeOK, Holding, ghostVars
<1>8. CASE WorkerReturns(w)
  BY <1>8 DEF WorkerReturns, TypeOK, Holding, Busy, Pcs, brokerVars, ghostVars
<1> QED
  BY <1>1, <1>2, <1>3, <1>4, <1>5, <1>6, <1>7, <1>8 DEF WorkerStep, WorkerFault

\* What a lost connection does to the copies keeps their types.
LEMMA RequeuedTyped ==
  ASSUME TypeOK, Holding, NEW lost \in SUBSET OnTheWire
  PROVE  /\ AllRequeued \in [Copies -> Copy]
         /\ WireLost(lost) \in [Copies -> Copy]
         /\ \A c \in Copies : AllRequeued[c].at # "free" => AllRequeued[c].msg \in Msgs
         /\ \A c \in Copies : WireLost(lost)[c].at # "free" => WireLost(lost)[c].msg \in Msgs
<1>1. \A c \in Copies : Requeued(c) \in Copy
  BY CopyMoved DEF TypeOK
<1>2. AllRequeued \in [Copies -> Copy]
  BY <1>1 DEF AllRequeued, TypeOK
<1>3. \A c \in Copies : AllRequeued[c].at # "free" => AllRequeued[c].msg \in Msgs
  BY DEF AllRequeued, Requeued, TypeOK, Holding, Copy
<1>4. WireLost(lost) \in [Copies -> Copy]
  BY <1>2, Basics DEF WireLost
<1>5. \A c \in Copies : WireLost(lost)[c].at # "free" => WireLost(lost)[c].msg \in Msgs
  BY <1>3 DEF WireLost, Free
<1> QED
  BY <1>2, <1>3, <1>4, <1>5

\* subscription.close() gives back what is out, or leaves it as it is.
LEMMA GivenBack ==
  ASSUME TypeOK, Holding, Release
  PROVE  /\ copy' \in [Copies -> Copy]
         /\ \A x \in Copies : copy'[x] = copy[x] \/ copy'[x] = AllRequeued[x]
<1>1. AllRequeued \in [Copies -> Copy]
  BY RequeuedTyped
<1>2. copy' = OwnRequeued \/ copy' = copy
  BY DEF Release
<1> QED
  BY <1>1, <1>2 DEF OwnRequeued, TypeOK

\* Every step of _start and close, and every failure, keeps the types.
LEMMA TypingClose ==
  ASSUME TypeOK, Holding, SettledOnce,
         \/ Start \/ CloseBegins \/ Drain \/ AllReturned \/ CutOff \/ CloseRaises \/ Release \/ Reopens
         \/ \E done \in 0..4 : StartFails(done)
         \/ \E lost \in SUBSET OnTheWire : ConnectionLost(lost) \/ Crash(lost)
  PROVE  TypeOK' /\ Holding'
<1>0. ASSUME NEW done \in 0..4 PROVE Declared(done) \subseteq Declarable
  BY DEF Declared, DeclareOrder, Declarable
<1>1. CASE Start
  <2>1. Declared(4) \subseteq Declarable
    BY <1>0
  <2>2. exists' \subseteq Declarable
    BY <1>1, <2>1 DEF Start, TypeOK
  <2> QED
    BY <1>1, <2>2 DEF Start, TypeOK, Holding, Busy, Phases, Pcs, ghostVars
<1>2. ASSUME NEW done \in 0..4, StartFails(done) PROVE TypeOK' /\ Holding'
  BY <1>0, <1>2, ConsumerAssumption
     DEF StartFails, Fault, TypeOK, Holding, Busy, workerVars, ghostVars
<1>3. CASE CloseBegins \/ StopAcknowledged \/ PutSentinels \/ AllReturned \/ Reopens
  <2>1. faults' \in 0..MaxFaults
    BY <1>3, FaultTyped DEF CloseBegins, StopAcknowledged, PutSentinels, AllReturned, Reopens
  <2>2. /\ phase' \in Phases /\ open' \in BOOLEAN /\ subscribed' \in BOOLEAN
        /\ UNCHANGED <<brokerVars, halted, work, workerVars, gen, behind, stranded, ghostVars>>
    BY <1>3 DEF CloseBegins, StopAcknowledged, PutSentinels, AllReturned, Reopens, TypeOK, Phases
  <2>3. TypeOK'
    BY <2>1, <2>2 DEF TypeOK, brokerVars, workerVars, ghostVars
  <2>4. phase' \in {"off", "releasing"} => \A w \in Workers : pc[w] = "done"
    BY <1>3 DEF CloseBegins, StopAcknowledged, PutSentinels, AllReturned, Reopens, Holding
  <2> QED
    BY <2>2, <2>3, <2>4 DEF Holding, Busy, brokerVars, workerVars
<1>4. ASSUME NEW d \in work, DrainOne(d) PROVE TypeOK' /\ Holding'
  <2>1. d.id \in Copies /\ (Live(d) => copy[d.id].at = "unacked")
    BY DEF TypeOK, Delivery, SettledOnce
  <2>2. Requeued(d.id) \in Copy
    BY <2>1, CopyMoved DEF TypeOK
  <2>3. copy' \in [Copies -> Copy]
    BY <1>4, <2>2 DEF DrainOne, TypeOK
  <2>4. \A c \in Copies : copy'[c].at # "free" => copy'[c].msg \in Msgs
    BY <1>4, <2>1 DEF DrainOne, TypeOK, Holding, Copy, Requeued
  <2> QED
    BY <1>4, <2>3, <2>4 DEF DrainOne, TypeOK, Holding, Busy, workerVars, ghostVars
<1>5. InHand \subseteq Msgs
  BY DEF InHand, Holding
<1>6. CASE CutOff \/ CloseRaises
  <2>1. faults' \in 0..MaxFaults /\ CutShort
    BY <1>6, FaultTyped DEF CutOff, CloseRaises
  <2>2. /\ pc' \in [Workers -> Pcs] /\ dlv' \in [Workers -> Delivery \cup {None}]
        /\ hop' \in [Workers -> Hop \cup {None}] /\ sent' \in [Workers -> Copies \cup {None}]
        /\ answer' \in [Workers -> {"confirmed", "returned", "nacked", None}]
    BY <2>1 DEF CutShort, NoWorkers, Pcs
  <2>3. TypeOK'
    BY <1>5, <2>1, <2>2 DEF CutShort, TypeOK, Phases, brokerVars
  <2> QED
    BY <2>1, <2>3 DEF CutShort, NoWorkers, Holding, Busy, brokerVars
<1>7. CASE Release
  <2>1. /\ copy' \in [Copies -> Copy]
        /\ \A c \in Copies : copy'[c].at # "free" => copy'[c].msg \in Msgs
    BY <1>7, GivenBack, RequeuedTyped DEF Holding
  <2>2. behind' \in Nat
    BY <1>7 DEF Release, TypeOK
  <2> QED
    BY <1>7, <2>1, <2>2 DEF Release, TypeOK, Holding, Busy, Phases, workerVars, ghostVars
<1>8. ASSUME NEW lost \in SUBSET OnTheWire, ConnectionLost(lost) PROVE TypeOK' /\ Holding'
  <2>1. phase' \in Phases /\ (phase' \in {"off", "releasing"} => phase' = phase)
    BY <1>8 DEF ConnectionLost, TypeOK, Phases
  <2>2. faults' \in 0..MaxFaults
    BY <1>8, FaultTyped DEF ConnectionLost
  <2>3. /\ copy' \in [Copies -> Copy]
        /\ \A c \in Copies : copy'[c].at # "free" => copy'[c].msg \in Msgs
    BY <1>8, RequeuedTyped DEF ConnectionLost
  <2>4. TypeOK'
    <3>1. disturbed' \subseteq Msgs /\ open' \in BOOLEAN /\ stranded' \subseteq Copies
      BY <1>5, <1>8 DEF ConnectionLost, TypeOK
    <3>3. gen' \in Nat
      BY <1>8 DEF ConnectionLost, TypeOK
    <3>4. /\ sent' \in [Workers -> Copies \cup {None}]
          /\ answer' \in [Workers -> {"confirmed", "returned", "nacked", None}]
      BY <1>8 DEF ConnectionLost
    <3>2. UNCHANGED <<aside, exists, published, halted, work, pc, dlv, hop, subscribed, behind,
                      handled, failures, condemned>>
      BY <1>8 DEF ConnectionLost
    <3> QED
      BY <2>1, <2>2, <2>3, <3>1, <3>2, <3>3, <3>4 DEF TypeOK
  <2> QED
    BY <1>8, <2>1, <2>3, <2>4 DEF ConnectionLost, Holding, Busy
<1>9. ASSUME NEW lost \in SUBSET OnTheWire, Crash(lost) PROVE TypeOK' /\ Holding'
  <2>1. faults' \in 0..MaxFaults
    BY <1>9, FaultTyped DEF Crash
  <2>2. /\ copy' \in [Copies -> Copy]
        /\ \A c \in Copies : copy'[c].at # "free" => copy'[c].msg \in Msgs
    BY <1>9, RequeuedTyped DEF Crash
  <2>3. /\ pc' \in [Workers -> Pcs] /\ dlv' \in [Workers -> Delivery \cup {None}]
        /\ hop' \in [Workers -> Hop \cup {None}] /\ sent' \in [Workers -> Copies \cup {None}]
        /\ answer' \in [Workers -> {"confirmed", "returned", "nacked", None}]
    BY <1>9 DEF Crash, NoWorkers, Pcs
  <2>4. TypeOK'
    <3>1. /\ disturbed' \subseteq Msgs /\ phase' \in Phases /\ work' \subseteq Delivery
          /\ open' \in BOOLEAN /\ subscribed' \in BOOLEAN /\ behind' \in Nat
          /\ stranded' \subseteq Copies
      BY <1>5, <1>9 DEF Crash, TypeOK, Phases
    <3>2. UNCHANGED <<aside, exists, published, halted, gen, handled, failures, condemned>>
      BY <1>9 DEF Crash
    <3> QED
      BY <2>1, <2>2, <2>3, <3>1, <3>2 DEF TypeOK
  <2> QED
    BY <1>9, <2>2, <2>4 DEF Crash, NoWorkers, Holding, Busy
<1> QED
  BY <1>1, <1>2, <1>3, <1>4, <1>6, <1>7, <1>8, <1>9 DEF Drain

-----------------------------------------------------------------------------
(* Deliveries are settled once *)

\* What is in hand stays matched with what the broker has out, when nothing new
\* is taken in hand and the copies behind what is in hand are left alone.
LEMMA HandsUndisturbed ==
  ASSUME TypeOK, Holding, SettledOnce, Matching,
         gen' = gen,
         work' \subseteq work,
         \A w \in Workers : Busy(w)' => Busy(w) /\ dlv'[w] = dlv[w],
         \A d \in work' : Live(d) =>
           copy'[d.id].at = copy[d.id].at /\ copy'[d.id].msg = copy[d.id].msg,
         \A w \in Workers : Busy(w)' /\ Live(dlv[w]) =>
           copy'[dlv[w].id].at = copy[dlv[w].id].at /\ copy'[dlv[w].id].msg = copy[dlv[w].id].msg,
         \A w \in Workers : sent'[w] # None =>
           /\ sent[w] = sent'[w]
           /\ dlv'[w] = dlv[w]
           /\ copy'[sent[w]].at = copy[sent[w]].at
           /\ copy'[sent[w]].msg = copy[sent[w]].msg
  PROVE  SettledOnce' /\ Matching'
<1>1. \A d \in work' : Live(d)' = Live(d) /\ d \in work
  BY DEF Live
<1>2. \A w \in Workers : Busy(w)' => Busy(w) /\ dlv'[w] = dlv[w] /\ Live(dlv[w])' = Live(dlv[w])
  BY DEF Live
<1>3. SettledOnce'
  BY <1>1, <1>2 DEF SettledOnce
<1>4. Matching'
  BY <1>1, <1>2 DEF Matching
<1> QED
  BY <1>3, <1>4

\* With nothing in hand there is nothing to match.
LEMMA EmptyHands ==
  ASSUME TypeOK',
         \A d \in work' : ~Live(d)' /\ d.gen <= gen',
         \A w \in Workers : Busy(w)' => ~Live(dlv[w])' /\ dlv'[w].gen <= gen',
         \A w \in Workers : sent'[w] = None
  PROVE  SettledOnce' /\ Matching'
BY DEF SettledOnce, Matching

\* The copies behind what is in hand are out, those behind what is sent on the wire.
LEMMA InHandIsOut ==
  ASSUME TypeOK, Holding, SettledOnce, Matching
  PROVE  /\ \A d \in work : d.id \in Copies /\ (Live(d) => copy[d.id].at = "unacked")
         /\ \A w \in Workers : Busy(w) =>
              dlv[w].id \in Copies /\ (Live(dlv[w]) => copy[dlv[w].id].at = "unacked")
         /\ \A w \in Workers : sent[w] # None =>
              Busy(w) /\ sent[w] \in Copies /\ copy[sent[w]].at = "wire"
BY DEF TypeOK, Holding, SettledOnce, Matching, Delivery, Busy

\* The broker's and the producers' steps do not touch what is out.
LEMMA HandsBroker ==
  ASSUME TypeOK, Holding, SettledOnce, Matching,
         \/ \E m \in Msgs, c \in Copies : Publish(m, c)
         \/ \E c \in Copies : DeliverBehind(c) \/ BrokerStep(c) \/ BrokerNacks(c)
         \/ ApplyTopology
         \/ \E q \in {"rung", "dlq", "parked"} : RemoveQueue(q)
  PROVE  SettledOnce' /\ Matching'
<1>1. ASSUME NEW c \in Copies, copy[c].at # "unacked",
             \A x \in Copies \ {c} : copy'[x] = copy[x],
             \A w \in Workers : sent'[w] # None => sent'[w] = sent[w] /\ sent[w] # c,
             UNCHANGED <<gen, work, pc, dlv>>
      PROVE  SettledOnce' /\ Matching'
  BY <1>1, InHandIsOut, HandsUndisturbed DEF Busy
<1>2. ASSUME NEW m \in Msgs, NEW c \in Copies, Publish(m, c) PROVE SettledOnce' /\ Matching'
  <2>1. copy[c].at = "free" /\ \A x \in Copies \ {c} : copy'[x] = copy[x]
    BY <1>2 DEF Publish, Fresh, Free, TypeOK
  <2> QED
    BY <1>1, <1>2, <2>1, InHandIsOut DEF Publish, workerVars
<1>3. ASSUME NEW c \in Copies, RungExpires(c) PROVE SettledOnce' /\ Matching'
  <2>1. copy[c].at = "stored" /\ \A x \in Copies \ {c} : copy'[x] = copy[x]
    BY <1>3 DEF RungExpires, At, TypeOK
  <2> QED
    BY <1>1, <1>3, <2>1, InHandIsOut DEF RungExpires, workerVars
<1>6. ASSUME NEW c \in Copies, DeliverBehind(c) PROVE SettledOnce' /\ Matching'
  <2>1. copy[c].at = "stored" /\ \A x \in Copies \ {c} : copy'[x] = copy[x]
    BY <1>6 DEF DeliverBehind, At, TypeOK
  <2> QED
    BY <1>1, <1>6, <2>1, InHandIsOut DEF DeliverBehind, workerVars
<1>4. ASSUME NEW c \in Copies, BrokerTakes(c) \/ BrokerReturns(c) \/ BrokerNacks(c)
      PROVE  SettledOnce' /\ Matching'
  <2>1. copy[c].at = "wire" /\ \A x \in Copies \ {c} : copy'[x] = copy[x]
    BY <1>4 DEF BrokerTakes, BrokerReturns, BrokerNacks, TypeOK
  <2>2. PICK what : Reply(c, what)
    BY <1>4 DEF BrokerTakes, BrokerReturns, BrokerNacks
  <2>3. \A w \in Workers : sent'[w] # None => sent'[w] = sent[w] /\ sent[w] # c
    BY <2>2 DEF Reply
  <2> QED
    BY <1>1, <2>1, <2>2, <2>3 DEF Reply
<1>5. CASE ApplyTopology \/ \E q \in {"rung", "dlq", "parked"} : RemoveQueue(q)
  <2>1. UNCHANGED <<copy, gen, work, workerVars>>
    BY <1>5 DEF ApplyTopology, RemoveQueue
  <2> QED
    BY <2>1, HandsUndisturbed DEF workerVars, Busy
<1> QED
  BY <1>2, <1>3, <1>4, <1>5, <1>6 DEF BrokerStep

\* A copy is delivered only when it is on the queue, so it is not in hand already.
LEMMA HandsDeliver ==
  ASSUME TypeOK, Holding, SettledOnce, Matching, NEW c \in Copies, Deliver(c)
  PROVE  SettledOnce' /\ Matching'
<1> DEFINE new == [id |-> c, gen |-> gen, msg |-> copy[c].msg, attempt |-> copy[c].attempt]
<1>1. /\ copy[c].at = "stored"
      /\ copy' = [copy EXCEPT ![c].at = "unacked"]
      /\ work' = work \cup {new}
      /\ UNCHANGED <<pc, dlv, sent, gen>>
  BY DEF Deliver, At, workerVars
<1>2. /\ \A x \in Copies : copy'[x].msg = copy[x].msg
      /\ \A x \in Copies \ {c} : copy'[x].at = copy[x].at
      /\ copy'[c].at = "unacked"
  BY <1>1 DEF TypeOK, Copy
<1>3. \A d \in work : Live(d) => d.id # c
  BY <1>1, InHandIsOut
<1>4. \A w \in Workers : Busy(w) /\ Live(dlv[w]) => dlv[w].id # c
  BY <1>1, InHandIsOut
<1>5. \A w \in Workers : sent[w] # None => sent[w] # c
  BY <1>1, InHandIsOut
<1>6. new.id = c /\ new.gen = gen /\ new.msg = copy[c].msg /\ gen \in Nat
  BY DEF TypeOK
<1> HIDE DEF new
<1>7. SettledOnce'
  <2>1. \A d \in work' : Live(d)' => (d \in work /\ Live(d) /\ d.id # c) \/ d = new
    BY <1>1, <1>3 DEF Live
  <2>2. \A w \in Workers : Busy(w)' /\ Live(dlv[w])' =>
          Busy(w) /\ Live(dlv[w]) /\ dlv'[w] = dlv[w] /\ dlv[w].id # c
    BY <1>1, <1>4 DEF Live, Busy
  <2>3. \A d \in work' : Live(d)' => copy'[d.id].at = "unacked"
    <3>1. \A d \in work : Live(d) /\ d.id # c => copy'[d.id].at = "unacked"
      BY <1>2, InHandIsOut
    <3> QED
      BY <1>2, <1>6, <2>1, <3>1
  <2>4. \A w \in Workers : Busy(w)' /\ Live(dlv[w])' => copy'[dlv'[w].id].at = "unacked"
    <3>1. \A w \in Workers : Busy(w) /\ Live(dlv[w]) /\ dlv[w].id # c =>
            copy'[dlv[w].id].at = "unacked"
      BY <1>2, InHandIsOut
    <3> QED
      BY <2>2, <3>1
  <2>5. \A d, e \in work' : Live(d)' /\ Live(e)' /\ d.id = e.id => d = e
    BY <1>6, <2>1 DEF SettledOnce
  <2>6. \A v, w \in Workers :
          Busy(v)' /\ Live(dlv[v])' /\ Busy(w)' /\ Live(dlv[w])' /\ dlv'[v].id = dlv'[w].id => v = w
    BY <2>2 DEF SettledOnce
  <2>7. \A d \in work', w \in Workers :
          Live(d)' /\ Busy(w)' /\ Live(dlv[w])' => d.id # dlv'[w].id
    BY <1>6, <2>1, <2>2 DEF SettledOnce
  <2> QED
    BY <2>3, <2>4, <2>5, <2>6, <2>7 DEF SettledOnce
<1>8. Matching'
  BY <1>1, <1>2, <1>3, <1>4, <1>5, <1>6, InHandIsOut DEF Matching, Live, Busy
<1> QED
  BY <1>7, <1>8

\* A worker's step moves a delivery from hand to hand or settles it.
LEMMA HandsWorker ==
  ASSUME TypeOK, Holding, SettledOnce, Matching,
         NEW w \in Workers, WorkerStep(w) \/ WorkerFault(w)
  PROVE  SettledOnce' /\ Matching'
<1>1. ASSUME NEW d \in work, Take(w, d) PROVE SettledOnce' /\ Matching'
  <2>1. /\ ~Busy(w) /\ d \notin work' /\ work' \subseteq work
        /\ UNCHANGED <<copy, gen, sent>>
        /\ dlv'[w] = d /\ \A v \in Workers \ {w} : dlv'[v] = dlv[v] /\ pc'[v] = pc[v]
    BY <1>1 DEF Take, Busy, brokerVars, TypeOK
  <2>2. sent[w] = None
    BY <2>1, InHandIsOut
  <2>3. SettledOnce'
    BY <2>1 DEF SettledOnce, Live, Busy
  <2>4. Matching'
    BY <2>1, <2>2 DEF Matching, Live, Busy
  <2> QED
    BY <2>3, <2>4
<1>2. ASSUME Busy(w), NEW todo, Proceed(w, todo), UNCHANGED <<copy, work, gen>>
      PROVE  SettledOnce' /\ Matching'
  <2>1. \A v \in Workers : Busy(v)' => Busy(v)
    BY <1>2 DEF Proceed, Busy, TypeOK
  <2>2. \A v \in Workers : sent'[v] # None => sent'[v] = sent[v]
    BY <1>2 DEF Proceed, TypeOK
  <2> QED
    BY <1>2, <2>1, <2>2, HandsUndisturbed DEF Proceed
<1>3. CASE \/ Unreadable(w) \/ HopRefused(w) \/ HopTimesOut(w) \/ HopAnswered(w)
           \/ \E a \in Answers, age \in Ages : HandlerAnswers(w, a, age)
  <2>1. Busy(w) /\ UNCHANGED <<copy, work, gen>> /\ \E todo : Proceed(w, todo)
    BY <1>3 DEF Unreadable, HopRefused, HopTimesOut, HopAnswered, HandlerAnswers, Busy, brokerVars
  <2> QED
    BY <1>2, <2>1
<1>4. ASSUME NEW c \in Copies, HopSent(w, c) PROVE SettledOnce' /\ Matching'
  <2>1. /\ copy[c].at = "free" /\ \A x \in Copies \ {c} : copy'[x] = copy[x]
        /\ copy'[c].at = "wire" /\ copy'[c].msg = dlv[w].msg
        /\ UNCHANGED <<work, dlv, gen>>
    BY <1>4 DEF HopSent, Fresh, Free, TypeOK
  <2>2. \A v \in Workers : Busy(v)' = Busy(v)
    BY <1>4 DEF HopSent, Busy, TypeOK
  <2>3. sent'[w] = c /\ \A v \in Workers \ {w} : sent'[v] = sent[v]
    BY <1>4 DEF HopSent, TypeOK
  <2>4. SettledOnce'
    BY <2>1, <2>2, InHandIsOut DEF SettledOnce, Live
  <2>5. Matching'
    BY <2>1, <2>2, <2>3, InHandIsOut DEF Matching, Live
  <2> QED
    BY <2>4, <2>5
<1>5. CASE HopEscapes(w)
  <2>1. /\ UNCHANGED <<copy, gen, work>>
        /\ \A v \in Workers : Busy(v)' => Busy(v) /\ dlv'[v] = dlv[v]
        /\ \A v \in Workers : sent'[v] # None => sent'[v] = sent[v] /\ dlv'[v] = dlv[v]
    BY <1>5 DEF HopEscapes, LetGo, Busy, brokerVars, TypeOK
  <2> QED
    BY <2>1, HandsUndisturbed
<1>6. CASE Ack(w) \/ Nack(w)
  <2>1. /\ UNCHANGED <<gen, work>>
        /\ Busy(w) /\ ~Busy(w)'
        /\ \A v \in Workers : Busy(v)' => v # w /\ Busy(v) /\ dlv'[v] = dlv[v]
        /\ \A v \in Workers : sent'[v] # None => sent'[v] = sent[v] /\ dlv'[v] = dlv[v]
    BY <1>6 DEF Ack, Nack, LetGo, Busy, TypeOK
  <2>2. \A x \in Copies : copy'[x] = copy[x] \/ (Live(dlv[w]) /\ x = dlv[w].id)
    BY <1>6 DEF Ack, Nack, TypeOK
  <2>3. Live(dlv[w]) =>
          /\ copy[dlv[w].id].at = "unacked"
          /\ \A d \in work : Live(d) => d.id # dlv[w].id
          /\ \A v \in Workers \ {w} : Busy(v) /\ Live(dlv[v]) => dlv[v].id # dlv[w].id
    BY <2>1 DEF SettledOnce
  <2>4. \A d \in work' : Live(d) => copy'[d.id] = copy[d.id]
    BY <2>1, <2>2, <2>3, InHandIsOut
  <2>5. \A v \in Workers : Busy(v)' /\ Live(dlv[v]) => copy'[dlv[v].id] = copy[dlv[v].id]
    BY <2>1, <2>2, <2>3, InHandIsOut
  <2>6. \A v \in Workers : sent'[v] # None => copy'[sent[v]] = copy[sent[v]]
    BY <2>1, <2>2, <2>3, InHandIsOut
  <2> QED
    BY <2>1, <2>4, <2>5, <2>6, HandsUndisturbed
<1>7. CASE WorkerReturns(w)
  <2>1. /\ UNCHANGED <<copy, gen, work, dlv, sent>>
        /\ \A v \in Workers : Busy(v)' => Busy(v)
    BY <1>7 DEF WorkerReturns, Busy, brokerVars, TypeOK
  <2> QED
    BY <2>1, HandsUndisturbed
<1> QED
  BY <1>1, <1>3, <1>4, <1>5, <1>6, <1>7 DEF WorkerStep, WorkerFault

\* Start, close and failures take nothing in hand; a delivery of a channel that
\* has gone can no longer be settled.
LEMMA HandsClose ==
  ASSUME TypeOK, Holding, SettledOnce, Matching, TypeOK',
         \/ Start \/ CloseBegins \/ Drain \/ AllReturned \/ CutOff \/ CloseRaises \/ Release \/ Reopens
         \/ \E done \in 0..4 : StartFails(done)
         \/ \E lost \in SUBSET OnTheWire : ConnectionLost(lost) \/ Crash(lost)
  PROVE  SettledOnce' /\ Matching'
<1>1. CASE \/ Start \/ CloseBegins \/ StopAcknowledged \/ PutSentinels \/ AllReturned \/ Reopens
           \/ \E done \in 0..4 : StartFails(done)
  <2>1. /\ UNCHANGED <<copy, gen, work, dlv, sent>>
        /\ \A v \in Workers : Busy(v)' => Busy(v)
    BY <1>1 DEF Start, CloseBegins, StopAcknowledged, PutSentinels, AllReturned, Reopens, StartFails,
                Busy, brokerVars, workerVars
  <2> QED
    BY <2>1, HandsUndisturbed
<1>2. ASSUME NEW d \in work, DrainOne(d) PROVE SettledOnce' /\ Matching'
  <2>1. /\ work' = work \ {d} /\ UNCHANGED <<gen, pc, dlv, sent>>
        /\ \A x \in Copies : copy'[x] = copy[x] \/ (Live(d) /\ x = d.id)
    BY <1>2 DEF DrainOne, workerVars, TypeOK
  <2>2. Live(d) =>
          /\ copy[d.id].at = "unacked"
          /\ \A e \in work \ {d} : Live(e) => e.id # d.id
          /\ \A v \in Workers : Busy(v) /\ Live(dlv[v]) => dlv[v].id # d.id
    BY DEF SettledOnce
  <2>3. \A e \in work' : Live(e) => copy'[e.id] = copy[e.id]
    BY <2>1, <2>2, InHandIsOut
  <2>4. \A v \in Workers : Busy(v) /\ Live(dlv[v]) => copy'[dlv[v].id] = copy[dlv[v].id]
    BY <2>1, <2>2, InHandIsOut
  <2>5. \A v \in Workers : sent[v] # None => copy'[sent[v]] = copy[sent[v]]
    BY <2>1, <2>2, InHandIsOut
  <2> QED
    BY <2>1, <2>3, <2>4, <2>5, HandsUndisturbed DEF Busy
<1>3. CASE CutOff \/ CloseRaises
  <2>1. /\ UNCHANGED <<copy, gen, work>>
        /\ \A v \in Workers : ~Busy(v)' /\ sent'[v] = None
    BY <1>3 DEF CutOff, CloseRaises, CutShort, NoWorkers, Busy, brokerVars
  <2> QED
    BY <2>1, HandsUndisturbed
<1>4. CASE Release \/ \E lost \in SUBSET OnTheWire : Crash(lost)
  <2>1. work' = {} /\ \A v \in Workers : ~Busy(v)' /\ sent'[v] = None
    BY <1>4 DEF Release, Crash, NoWorkers, Busy, workerVars, Holding
  <2> QED
    BY <2>1, EmptyHands
<1>5. ASSUME NEW lost \in SUBSET OnTheWire, ConnectionLost(lost) PROVE SettledOnce' /\ Matching'
  <2>1. /\ gen' = gen + 1 /\ UNCHANGED <<work, pc, dlv>> /\ gen \in Nat
        /\ \A v \in Workers : sent'[v] = None
    BY <1>5 DEF ConnectionLost, TypeOK
  <2>2. \A d \in work : d.gen \in Nat /\ d.gen <= gen
    BY DEF Matching, TypeOK, Delivery
  <2>3. \A v \in Workers : Busy(v) => dlv[v].gen \in Nat /\ dlv[v].gen <= gen
    BY DEF Matching, Holding, Delivery
  <2> QED
    BY <2>1, <2>2, <2>3, EmptyHands DEF Live, Busy
<1> QED
  BY <1>1, <1>2, <1>3, <1>4, <1>5 DEF Drain

-----------------------------------------------------------------------------
(* A message on a rung has a way back *)

\* A step that moves nothing onto a rung, takes nothing up the wire and undeclares
\* no binding keeps RungBound.
LEMMA RungsUndisturbed ==
  ASSUME RungBound,
         \A c \in Copies : copy'[c].at = "unacked" => copy'[c].to = "queue",
         \A c \in Copies : At(c, "stored", "rung")' => At(c, "stored", "rung"),
         OnTheWire' \subseteq OnTheWire,
         phase' # "off" => phase # "off",
         "binding" \in exists => "binding" \in exists',
         "rung" \in exists' => "rung" \in exists
  PROVE  RungBound'
BY DEF RungBound

\* The declarations of _start come with the binding, unless they stop halfway.
LEMMA DeclaredParts ==
  /\ BrokerRungs(Policy) # {} => "binding" \in Declared(4)
  /\ BrokerRungs(Policy) = {} => \A done \in 0..4 : "rung" \notin Declared(done)
<1>1. DeclareOrder[4] = "binding" /\ 4 \in 1..4
  BY DEF DeclareOrder
<1> QED
  BY <1>1 DEF Declared

\* Every step leaves what is on a rung a way back.
LEMMA RungsKept ==
  ASSUME TypeOK, Holding, SettledOnce, Matching, RungBound, Next
  PROVE  RungBound'
<1>1. ASSUME NEW m \in Msgs, NEW c \in Copies, Publish(m, c) PROVE RungBound'
  <2>1. \A x \in Copies : copy'[x] = copy[x] \/ (copy'[x].at = "stored" /\ copy'[x].to = "queue")
    BY <1>1 DEF Publish, TypeOK
  <2> QED
    BY <1>1, <2>1, RungsUndisturbed DEF Publish, At, OnTheWire, RungBound
<1>2. ASSUME NEW c \in Copies, Deliver(c) PROVE RungBound'
  <2>1. \A x \in Copies : copy'[x] = copy[x] \/ (copy'[x].at = "unacked" /\ copy'[x].to = "queue")
    BY <1>2 DEF Deliver, At, TypeOK, Copy
  <2> QED
    BY <1>2, <2>1, RungsUndisturbed DEF Deliver, At, OnTheWire, RungBound
<1>17. ASSUME NEW c \in Copies, DeliverBehind(c) PROVE RungBound'
  <2>1. \A x \in Copies : copy'[x] = copy[x] \/ (copy'[x].at = "unacked" /\ copy'[x].to = "queue")
    BY <1>17 DEF DeliverBehind, At, TypeOK, Copy
  <2> QED
    BY <1>17, <2>1, RungsUndisturbed DEF DeliverBehind, At, OnTheWire, RungBound
<1>3. ASSUME NEW c \in Copies, RungExpires(c) PROVE RungBound'
  <2>1. \A x \in Copies : \/ copy'[x] = copy[x] \/ copy'[x] = Free
                          \/ copy'[x].at = "stored" /\ copy'[x].to = "queue"
    BY <1>3 DEF RungExpires, At, TypeOK, Copy
  <2> QED
    BY <1>3, <2>1, RungsUndisturbed DEF RungExpires, At, OnTheWire, RungBound, Free
<1>4. ASSUME NEW c \in Copies, BrokerTakes(c) PROVE RungBound'
  <2>1. /\ \A x \in Copies : \/ copy'[x] = copy[x] \/ copy'[x] = Free
                             \/ x = c /\ copy'[x].at = "stored" /\ copy'[x].to = copy[c].to
        /\ c \in OnTheWire /\ UNCHANGED <<exists, phase>>
        /\ copy[c].to = "rung" => "rung" \in exists
    BY <1>4 DEF BrokerTakes, Routable, Reply, OnTheWire, TypeOK, Copy
  <2>2. copy[c].to = "rung" => "binding" \in exists
    BY <2>1 DEF RungBound
  <2>3. OnTheWire' \subseteq OnTheWire
    BY <2>1 DEF OnTheWire, Free
  <2>4. \A x \in Copies : copy'[x].at = "unacked" => copy'[x].to = "queue"
    BY <2>1 DEF RungBound, Free
  <2>5. \A x \in Copies : At(x, "stored", "rung")' => "binding" \in exists'
    BY <2>1, <2>2 DEF RungBound, At, Free
  <2> QED
    BY <2>1, <2>3, <2>4, <2>5 DEF RungBound
<1>5. ASSUME NEW c \in Copies, BrokerReturns(c) \/ BrokerNacks(c) PROVE RungBound'
  <2>1. \A x \in Copies : copy'[x] = copy[x] \/ copy'[x] = Free
    BY <1>5 DEF BrokerReturns, BrokerNacks, TypeOK
  <2> QED
    BY <1>5, <2>1, RungsUndisturbed
       DEF BrokerReturns, BrokerNacks, Reply, At, OnTheWire, RungBound, Free
<1>6. CASE ApplyTopology \/ \E q \in {"rung", "dlq", "parked"} : RemoveQueue(q)
  <2>1. "binding" \in exists' \/ ("binding" \notin exists /\ exists' \subseteq exists)
    BY <1>6 DEF ApplyTopology, RemoveQueue, Declarable
  <2>2. UNCHANGED <<copy, phase>>
    BY <1>6 DEF ApplyTopology, RemoveQueue
  <2> QED
    BY <2>1, <2>2 DEF RungBound, At, OnTheWire
<1>7. ASSUME NEW w \in Workers, NEW c \in Copies, HopSent(w, c) PROVE RungBound'
  <2>1. \A x \in Copies : copy'[x] = copy[x] \/ copy'[x].at = "wire"
    BY <1>7 DEF HopSent, TypeOK
  <2>2. phase # "off" /\ UNCHANGED <<exists, phase>>
    BY <1>7 DEF HopSent, Holding
  <2> QED
    BY <2>1, <2>2 DEF RungBound, At
<1>8. ASSUME NEW w \in Workers, Ack(w) \/ Nack(w) PROVE RungBound'
  <2>1. Live(dlv[w]) => copy[dlv[w].id].at = "unacked" /\ dlv[w].id \in Copies
    BY <1>8, InHandIsOut DEF Ack, Nack, Busy
  <2>2. \A x \in Copies : \/ copy'[x] = copy[x] \/ copy'[x] = Free
                          \/ copy'[x].at = "stored" /\ copy'[x].to = "queue"
    BY <1>8, <2>1 DEF Ack, Nack, Requeued, TypeOK, Copy, RungBound
  <2> QED
    BY <1>8, <2>2, RungsUndisturbed DEF Ack, Nack, At, OnTheWire, RungBound, Free
<1>9. ASSUME NEW d \in work, DrainOne(d) PROVE RungBound'
  <2>1. Live(d) => copy[d.id].at = "unacked" /\ d.id \in Copies
    BY InHandIsOut
  <2>2. \A x \in Copies : copy'[x] = copy[x] \/ (copy'[x].at = "stored" /\ copy'[x].to = "queue")
    BY <1>9, <2>1 DEF DrainOne, Requeued, TypeOK, Copy, RungBound
  <2> QED
    BY <1>9, <2>2, RungsUndisturbed DEF DrainOne, At, OnTheWire, RungBound
<1>10. CASE Start
  <2>1. Declare /\ BrokerRungs(Policy) # {} => "binding" \in exists'
    BY <1>10, DeclaredParts DEF Start
  <2>2. "rung" \in exists' => "rung" \in exists \/ (Declare /\ BrokerRungs(Policy) # {})
    BY <1>10, DeclaredParts DEF Start
  <2>3. exists \subseteq exists' /\ UNCHANGED copy
    BY <1>10 DEF Start
  <2> QED
    BY <2>1, <2>2, <2>3 DEF RungBound, At
<1>11. ASSUME NEW done \in 0..4, StartFails(done) PROVE RungBound'
  <2>1. "rung" \in exists' => "rung" \in exists \/ (Declare /\ BrokerRungs(Policy) # {})
    BY <1>11, DeclaredParts DEF StartFails
  <2>2. exists \subseteq exists' /\ UNCHANGED <<copy, phase>>
    BY <1>11 DEF StartFails
  <2> QED
    BY <2>1, <2>2 DEF RungBound, At, OnTheWire
<1>12. ASSUME \A x \in Copies : \/ copy'[x] = copy[x] \/ copy'[x] = Free
                                \/ copy'[x] = AllRequeued[x],
              phase' # "off" => phase # "off", UNCHANGED exists
       PROVE  RungBound'
  <2>1. \A x \in Copies : \/ copy'[x] = copy[x]
                          \/ copy'[x] = Free
                          \/ copy'[x].at = "stored" /\ copy'[x].to = "queue"
    <3>1. \A x \in Copies : \/ AllRequeued[x] = copy[x]
                            \/ AllRequeued[x].at = "stored" /\ AllRequeued[x].to = "queue"
      BY DEF AllRequeued, Requeued, TypeOK, Copy, RungBound
    <3> QED
      BY <1>12, <3>1
  <2> QED
    BY <1>12, <2>1, RungsUndisturbed DEF At, OnTheWire, RungBound, Free
<1>13. CASE Release \/ \E lost \in SUBSET OnTheWire : ConnectionLost(lost) \/ Crash(lost)
  <2>1. UNCHANGED exists /\ (phase' # "off" => phase # "off")
    BY <1>13 DEF Release, ConnectionLost, Crash
  <2>2. CASE Release
    BY <1>12, <2>1, <2>2, GivenBack
  <2>3. ASSUME NEW lost \in SUBSET OnTheWire, ConnectionLost(lost) \/ Crash(lost) PROVE RungBound'
    BY <1>12, <2>1, <2>3 DEF ConnectionLost, Crash, WireLost
  <2> QED
    BY <1>13, <2>2, <2>3
<1>14. ASSUME UNCHANGED <<copy, exists>>, phase' # "off" => phase # "off" PROVE RungBound'
  BY <1>14, RungsUndisturbed DEF RungBound, At, OnTheWire
<1>15. CASE \/ CloseBegins \/ StopAcknowledged \/ PutSentinels \/ AllReturned
            \/ CutOff \/ CloseRaises \/ Reopens
  BY <1>14, <1>15
     DEF CloseBegins, StopAcknowledged, PutSentinels, AllReturned, CutOff, CloseRaises, CutShort,
         Reopens, brokerVars
<1>16. ASSUME NEW w \in Workers,
              \/ \E d \in work : Take(w, d)
              \/ Unreadable(w) \/ HopAnswered(w) \/ WorkerReturns(w) \/ WorkerFault(w)
              \/ \E a \in Answers, age \in Ages : HandlerAnswers(w, a, age)
       PROVE  RungBound'
  BY <1>14, <1>16
     DEF Take, Unreadable, HopAnswered, WorkerReturns, WorkerFault, HopRefused, HopTimesOut,
         HopEscapes, HandlerAnswers, brokerVars
<1> QED
  BY <1>1, <1>2, <1>3, <1>4, <1>5, <1>6, <1>7, <1>8, <1>9, <1>10, <1>11, <1>13, <1>15, <1>16, <1>17
     DEF Next, Ongoing, BrokerStep, Drain, WorkerStep

-----------------------------------------------------------------------------
(* No message is lost *)

\* It is enough that each copy a message rests on still stands, or that the
\* message no longer needs it.
LEMMA StillAccountedFor ==
  ASSUME NoLoss, published' = published,
         handled \subseteq handled',
         \A q \in AsideQueues : aside[q] \subseteq aside'[q],
         \A c \in Copies : Held(c) /\ ~Doomed(c) =>
           \/ Held(c)' /\ ~Doomed(c)' /\ copy'[c].msg = copy[c].msg
           \/ copy[c].msg \in handled'
           \/ \E q \in AsideQueues : copy[c].msg \in aside'[q]
           \/ \E x \in Copies : Held(x)' /\ ~Doomed(x)' /\ copy'[x].msg = copy[c].msg
  PROVE  NoLoss'
<1> SUFFICES ASSUME NEW m \in published
             PROVE  m \in handled' \/ SetAside(m)' \/ \E x \in Copies : x \in Remaining(m)'
  BY DEF NoLoss
<1>1. m \in handled \/ SetAside(m) \/ \E c \in Copies : c \in Remaining(m)
  BY DEF NoLoss, Remaining
<1>2. SetAside(m) => SetAside(m)'
  BY DEF SetAside
<1>3. ASSUME NEW c \in Copies, c \in Remaining(m)
      PROVE  m \in handled' \/ SetAside(m)' \/ \E x \in Copies : x \in Remaining(m)'
  <2>1. Held(c) /\ ~Doomed(c) /\ copy[c].msg = m
    BY <1>3 DEF Remaining
  <2>2. CASE \E x \in Copies : Held(x)' /\ ~Doomed(x)' /\ copy'[x].msg = m
    BY <2>2 DEF Remaining
  <2>3. CASE Held(c)' /\ ~Doomed(c)' /\ copy'[c].msg = copy[c].msg
    BY <2>1, <2>2, <2>3
  <2>4. (\E q \in AsideQueues : copy[c].msg \in aside'[q]) => SetAside(m)'
    BY <2>1 DEF SetAside
  <2> QED
    BY <2>1, <2>2, <2>3, <2>4
<1> QED
  BY <1>1, <1>2, <1>3

\* Only a copy that is out can be doomed.
LEMMA DoomedIsOut ==
  ASSUME TypeOK, Holding, SettledOnce, Matching, NEW c \in Copies, Doomed(c)
  PROVE  copy[c].at = "unacked"
BY InHandIsOut DEF Doomed, Busy

\* The workers' hands being as they were, nothing new is doomed.
LEMMA DoomUnchanged ==
  ASSUME UNCHANGED <<pc, dlv, answer, gen>>, NEW c \in Copies
  PROVE  Doomed(c)' = Doomed(c)
BY DEF Doomed, Live

\* Producers and operators lose nothing.
LEMMA NoLossBroker ==
  ASSUME TypeOK, Holding, SettledOnce, Matching, RungBound, NoLoss,
         \/ \E m \in Msgs, c \in Copies : Publish(m, c)
         \/ \E c \in Copies : Deliver(c) \/ DeliverBehind(c) \/ BrokerStep(c) \/ BrokerNacks(c)
         \/ ApplyTopology
         \/ \E q \in {"rung", "dlq", "parked"} : RemoveQueue(q)
  PROVE  NoLoss'
<1>1. ASSUME NEW m \in Msgs, NEW c \in Copies, Publish(m, c) PROVE NoLoss'
  <2>1. /\ copy[c].at = "free" /\ copy'[c].at = "stored" /\ copy'[c].msg = m
        /\ \A x \in Copies \ {c} : copy'[x] = copy[x]
        /\ published' = published \cup {m}
        /\ UNCHANGED <<pc, dlv, answer, gen, handled, aside>>
    BY <1>1 DEF Publish, Fresh, Free, TypeOK, workerVars, ghostVars
  <2>2. ~Doomed(c) /\ ~Held(c)
    BY <2>1, DoomedIsOut DEF Held
  <2>3. c \in Remaining(m)'
    BY <2>1, <2>2, DoomUnchanged DEF Remaining, Held
  <2>4. \A n : Remaining(n) \subseteq Remaining(n)'
    BY <2>1, <2>2, DoomUnchanged DEF Remaining, Held
  <2> QED
    BY <2>1, <2>3, <2>4 DEF NoLoss, SetAside
<1>2. ASSUME NEW c \in Copies, Deliver(c) PROVE NoLoss'
  <2>1. /\ \A x \in Copies : copy'[x].msg = copy[x].msg /\ (Held(x) => Held(x)')
        /\ UNCHANGED <<pc, dlv, answer, gen, handled, aside, published>>
    BY <1>2 DEF Deliver, At, Held, TypeOK, Copy, workerVars, ghostVars
  <2> QED
    BY <2>1, DoomUnchanged, StillAccountedFor
<1>7. ASSUME NEW c \in Copies, DeliverBehind(c) PROVE NoLoss'
  <2>1. /\ \A x \in Copies : copy'[x].msg = copy[x].msg /\ (Held(x) => Held(x)')
        /\ UNCHANGED <<pc, dlv, answer, gen, handled, aside, published>>
    BY <1>7 DEF DeliverBehind, At, Held, TypeOK, Copy, workerVars, ghostVars
  <2> QED
    BY <2>1, DoomUnchanged, StillAccountedFor
<1>3. ASSUME NEW c \in Copies, RungExpires(c) PROVE NoLoss'
  <2>1. "binding" \in exists
    BY <1>3 DEF RungExpires, RungBound
  <2>2. /\ \A x \in Copies : copy'[x].msg = copy[x].msg /\ (Held(x) => Held(x)')
        /\ UNCHANGED <<pc, dlv, answer, gen, handled, aside, published>>
    BY <1>3, <2>1 DEF RungExpires, At, Held, TypeOK, Copy, workerVars, ghostVars
  <2> QED
    BY <2>2, DoomUnchanged, StillAccountedFor
<1>4. ASSUME NEW c \in Copies, BrokerTakes(c) PROVE NoLoss'
  <2> DEFINE m == copy[c].msg
  <2>1. /\ copy[c].at = "wire" /\ \A x \in Copies \ {c} : copy'[x] = copy[x]
        /\ Reply(c, "confirmed")
        /\ UNCHANGED <<pc, dlv, gen, handled, published>>
        /\ \A q \in AsideQueues : aside[q] \subseteq aside'[q]
    BY <1>4 DEF BrokerTakes, Reply, TypeOK, ghostVars
  <2>2. (\E q \in AsideQueues : m \in aside'[q]) \/ (Held(c)' /\ copy'[c].msg = m)
    <3>1. CASE copy[c].to \in AsideQueues
      <4>1. aside' = [aside EXCEPT ![copy[c].to] = @ \cup {m}]
        BY <1>4, <3>1 DEF BrokerTakes
      <4>2. m \in aside'[copy[c].to]
        BY <3>1, <4>1 DEF TypeOK
      <4> QED
        BY <3>1, <4>2
    <3>2. CASE copy[c].to \notin AsideQueues
      BY <1>4, <3>2 DEF BrokerTakes, Held, TypeOK, Copy
    <3> QED
      BY <3>1, <3>2
  <2>3. ~Doomed(c)'
    BY <2>1, InHandIsOut DEF Doomed, Busy, Live
  <2>4. ASSUME NEW x \in Copies, Held(x), ~Doomed(x), Doomed(x)' PROVE copy[x].msg = m
    <3>1. PICK w \in Workers :
            /\ pc[w] = "acking" \/ (pc[w] = "sent" /\ answer'[w] = "confirmed")
            /\ dlv[w].id = x /\ Live(dlv[w])
      BY <2>1, <2>4 DEF Doomed, Live
    <3>2. pc[w] = "sent" /\ answer[w] # "confirmed"
      BY <3>1, <2>4 DEF Doomed
    <3>3. sent[w] = c
      BY <2>1, <3>1, <3>2 DEF Reply
    <3>4. dlv[w].msg = m /\ copy[x].msg = dlv[w].msg
      BY <3>1, <3>2, <3>3, ConsumerAssumption DEF Matching, Busy
    <3> QED
      BY <3>4
  <2>5. ASSUME NEW x \in Copies, Held(x), ~Doomed(x)
        PROVE  \/ Held(x)' /\ ~Doomed(x)' /\ copy'[x].msg = copy[x].msg
               \/ \E q \in AsideQueues : copy[x].msg \in aside'[q]
               \/ \E y \in Copies : Held(y)' /\ ~Doomed(y)' /\ copy'[y].msg = copy[x].msg
    <3>1. x # c /\ copy'[x] = copy[x] /\ Held(x)'
      BY <2>1, <2>5 DEF Held
    <3>2. CASE ~Doomed(x)'
      BY <3>1, <3>2
    <3>3. CASE Doomed(x)'
      <4>1. copy[x].msg = m
        BY <2>4, <2>5, <3>3
      <4> QED
        BY <2>2, <2>3, <4>1
    <3> QED
      BY <3>2, <3>3
  <2> QED
    BY <2>1, <2>5, StillAccountedFor
<1>5. ASSUME NEW c \in Copies, BrokerReturns(c) \/ BrokerNacks(c) PROVE NoLoss'
  <2>1. /\ copy[c].at = "wire" /\ \A x \in Copies \ {c} : copy'[x] = copy[x]
        /\ Reply(c, "returned") \/ Reply(c, "nacked")
        /\ UNCHANGED <<pc, dlv, gen, handled, published, aside>>
    BY <1>5 DEF BrokerReturns, BrokerNacks, Reply, TypeOK, ghostVars
  <2>2. \A w \in Workers : answer'[w] = "confirmed" => answer[w] = "confirmed"
    BY <2>1 DEF Reply
  <2>3. \A x \in Copies : Doomed(x)' => Doomed(x)
    BY <2>1, <2>2 DEF Doomed, Live
  <2>4. \A x \in Copies : Held(x) => copy'[x] = copy[x] /\ Held(x)'
    BY <2>1 DEF Held
  <2> QED
    BY <2>1, <2>3, <2>4, StillAccountedFor
<1>6. CASE ApplyTopology \/ \E q \in {"rung", "dlq", "parked"} : RemoveQueue(q)
  <2>1. UNCHANGED <<copy, aside, published, pc, dlv, answer, gen, handled>>
    BY <1>6 DEF ApplyTopology, RemoveQueue, workerVars, ghostVars
  <2> QED
    BY <2>1, DoomUnchanged, StillAccountedFor DEF Held
<1> QED
  BY <1>1, <1>2, <1>3, <1>4, <1>5, <1>6, <1>7 DEF BrokerStep

\* A worker acknowledges an original only after its copy was confirmed or its
\* message accepted.
LEMMA NoLossWorker ==
  ASSUME TypeOK, Holding, SettledOnce, Matching, NoLoss,
         NEW w \in Workers, WorkerStep(w) \/ WorkerFault(w)
  PROVE  NoLoss'
<1>1. ASSUME NEW d \in work, Take(w, d) PROVE NoLoss'
  <2>1. /\ UNCHANGED <<copy, aside, published, answer, gen, handled>>
        /\ pc'[w] \in {"nacking", "handling"}
        /\ \A v \in Workers \ {w} : pc'[v] = pc[v] /\ dlv'[v] = dlv[v]
    BY <1>1 DEF Take, TypeOK, brokerVars, ghostVars
  <2>2. \A x \in Copies : Doomed(x)' => Doomed(x)
    BY <2>1 DEF Doomed, Live
  <2> QED
    BY <2>1, <2>2, StillAccountedFor DEF Held
<1>2. ASSUME NEW todo, Proceed(w, todo), todo.pc \in {"hop", "acking", "nacking"}, Busy(w),
             UNCHANGED <<copy, aside, published, gen>>, handled \subseteq handled',
             todo.pc = "acking" =>
               dlv[w].msg \in handled' \/ (pc[w] = "sent" /\ answer[w] = "confirmed")
      PROVE  NoLoss'
  <2>1. ASSUME NEW x \in Copies, Doomed(x)', ~Doomed(x) PROVE copy[x].msg \in handled'
    <3>1. PICK v \in Workers :
            /\ pc'[v] = "acking" \/ (pc'[v] = "sent" /\ answer'[v] = "confirmed")
            /\ dlv[v].id = x /\ Live(dlv[v])
      BY <1>2, <2>1 DEF Doomed, Live, Proceed
    <3>2. v = w
      BY <1>2, <2>1, <3>1 DEF Doomed, Proceed, TypeOK
    <3>3. pc'[w] = todo.pc /\ todo.pc = "acking"
      BY <1>2, <3>1, <3>2 DEF Proceed, TypeOK
    <3>4. dlv[w].msg \in handled'
      BY <1>2, <2>1, <3>1, <3>2, <3>3 DEF Doomed
    <3> QED
      BY <1>2, <3>1, <3>2, <3>4 DEF Matching
  <2> QED
    BY <1>2, <2>1, StillAccountedFor DEF Held
<1>3. CASE Unreadable(w)
  <2> DEFINE todo == HopTo("parked", dlv[w].attempt)
  <2>1. Proceed(w, todo) /\ Busy(w) /\ UNCHANGED <<copy, aside, published, gen, handled>>
    BY <1>3 DEF Unreadable, Busy, brokerVars
  <2>2. todo.pc = "hop"
    BY DEF HopTo
  <2> QED
    BY <1>2, <2>1, <2>2
<1>4. ASSUME NEW a \in Answers, NEW age \in Ages, HandlerAnswers(w, a, age) PROVE NoLoss'
  <2> DEFINE todo == CarryOut(Decide(a, dlv[w].attempt, age), dlv[w].attempt)
  <2>1. /\ Proceed(w, todo) /\ Busy(w) /\ UNCHANGED <<copy, aside, published, gen>>
        /\ Remember(dlv[w].msg, a, age)
    BY <1>4 DEF HandlerAnswers, Busy, brokerVars
  <2>2. dlv[w].attempt \in Attempts
    BY <2>1 DEF Holding, Delivery
  <2>3. todo.pc \in {"hop", "acking", "nacking"} /\ (todo.pc = "acking" => a = "accept")
    BY <2>2, PlanMade, ConsumerAssumption
  <2> HIDE DEF todo
  <2>4. handled \subseteq handled' /\ (a = "accept" => dlv[w].msg \in handled')
    BY <2>1 DEF Remember
  <2> QED
    BY <1>2, <2>1, <2>3, <2>4
<1>5. ASSUME NEW r \in {"confirmed", "returned", "nacked"},
             Proceed(w, AfterHop(hop[w], r)), pc[w] \in {"hop", "sent"},
             r = "confirmed" => pc[w] = "sent" /\ answer[w] = "confirmed",
             UNCHANGED <<brokerVars, gen, handled>>
      PROVE  NoLoss'
  <2>1. hop[w] \in Hop /\ Busy(w)
    BY <1>5 DEF Holding, Busy
  <2> DEFINE todo == AfterHop(hop[w], r)
  <2>2. todo.pc \in {"hop", "acking", "nacking"} /\ (todo.pc = "acking" => r = "confirmed")
    BY <2>1, AfterHopPlan
  <2>3. Proceed(w, todo)
    BY <1>5
  <2> HIDE DEF todo
  <2> QED
    BY <1>2, <1>5, <2>1, <2>2, <2>3 DEF brokerVars
<1>6. CASE HopRefused(w) \/ HopTimesOut(w)
  BY <1>5, <1>6 DEF HopRefused, HopTimesOut, ghostVars
<1>7. CASE HopAnswered(w)
  <2>1. answer[w] \in {"confirmed", "returned", "nacked"}
    BY <1>7 DEF HopAnswered, TypeOK
  <2> QED
    BY <1>5, <1>7, <2>1 DEF HopAnswered, ghostVars
<1>8. ASSUME NEW c \in Copies, HopSent(w, c) PROVE NoLoss'
  <2>1. /\ copy[c].at = "free" /\ \A x \in Copies \ {c} : copy'[x] = copy[x]
        /\ UNCHANGED <<aside, published, dlv, answer, gen, handled>>
        /\ pc'[w] = "sent" /\ \A v \in Workers \ {w} : pc'[v] = pc[v]
        /\ answer[w] = None
    BY <1>8 DEF HopSent, Fresh, Free, TypeOK, Holding, ghostVars
  <2>2. None # "confirmed"
    BY ConsumerAssumption
  <2>3. \A x \in Copies : Doomed(x)' => Doomed(x)
    BY <2>1, <2>2 DEF Doomed, Live
  <2>4. \A x \in Copies : Held(x) => copy'[x] = copy[x] /\ Held(x)'
    BY <2>1 DEF Held
  <2> QED
    BY <2>1, <2>3, <2>4, StillAccountedFor
<1>9. ASSUME LetGo(w), UNCHANGED <<aside, published, gen, handled>>,
             \A x \in Copies : Held(x) /\ ~Doomed(x) => Held(x)' /\ copy'[x].msg = copy[x].msg
      PROVE  NoLoss'
  <2>1. \A x \in Copies : Doomed(x)' => Doomed(x)
    BY <1>9 DEF LetGo, Doomed, Live, TypeOK
  <2> QED
    BY <1>9, <2>1, StillAccountedFor
<1>10. CASE HopEscapes(w)
  BY <1>9, <1>10 DEF HopEscapes, Held, brokerVars
<1>11. CASE Ack(w)
  <2>1. Live(dlv[w]) => Doomed(dlv[w].id)
    BY <1>11 DEF Ack, Doomed
  <2>2. \A x \in Copies : copy'[x] = copy[x] \/ (Live(dlv[w]) /\ x = dlv[w].id)
    BY <1>11 DEF Ack, TypeOK
  <2>3. \A x \in Copies : Held(x) /\ ~Doomed(x) => Held(x)' /\ copy'[x].msg = copy[x].msg
    BY <2>1, <2>2 DEF Held
  <2> QED
    BY <1>9, <1>11, <2>3 DEF Ack, ghostVars
<1>12. CASE Nack(w)
  <2>1. \A x \in Copies : Held(x) => Held(x)' /\ copy'[x].msg = copy[x].msg
    BY <1>12 DEF Nack, Held, Requeued, TypeOK, Copy
  <2> QED
    BY <1>9, <1>12, <2>1 DEF Nack, ghostVars
<1>13. CASE WorkerReturns(w)
  <2>1. UNCHANGED <<copy, aside, published, dlv, answer, gen, handled>>
    BY <1>13 DEF WorkerReturns, brokerVars, ghostVars
  <2>2. \A x \in Copies : Doomed(x)' => Doomed(x)
    BY <1>13, <2>1 DEF WorkerReturns, Doomed, Live, TypeOK
  <2> QED
    BY <2>1, <2>2, StillAccountedFor DEF Held
<1> QED
  BY <1>1, <1>3, <1>4, <1>6, <1>7, <1>8, <1>10, <1>11, <1>12, <1>13 DEF WorkerStep, WorkerFault

\* A shutdown, a lost connection and a crash give back what was out and doom nothing.
LEMMA NoLossClose ==
  ASSUME TypeOK, Holding, SettledOnce, Matching, NoLoss,
         \/ Start \/ CloseBegins \/ Drain \/ AllReturned \/ CutOff \/ CloseRaises \/ Release \/ Reopens
         \/ \E done \in 0..4 : StartFails(done)
         \/ \E lost \in SUBSET OnTheWire : ConnectionLost(lost) \/ Crash(lost)
  PROVE  NoLoss'
<1>1. ASSUME UNCHANGED <<aside, published, handled>>,
             \A x \in Copies : Doomed(x)' => Doomed(x),
             \A x \in Copies : Held(x) => Held(x)' /\ copy'[x].msg = copy[x].msg
      PROVE  NoLoss'
  BY <1>1, StillAccountedFor
<1>2. CASE \/ Start \/ CloseBegins \/ StopAcknowledged \/ PutSentinels \/ AllReturned \/ Reopens
           \/ \E done \in 0..4 : StartFails(done)
  <2>1. UNCHANGED <<copy, aside, published, handled, dlv, answer, gen>>
    BY <1>2 DEF Start, CloseBegins, StopAcknowledged, PutSentinels, AllReturned, Reopens, StartFails,
                brokerVars, workerVars, ghostVars
  <2>2. pc' = pc \/ pc' = [v \in Workers |-> "idle"]
    BY <1>2 DEF Start, CloseBegins, StopAcknowledged, PutSentinels, AllReturned, Reopens, StartFails,
                workerVars
  <2>3. \A x \in Copies : Doomed(x)' => Doomed(x)
    BY <2>1, <2>2 DEF Doomed, Live
  <2> QED
    BY <1>1, <2>1, <2>3 DEF Held
<1>3. ASSUME NEW d \in work, DrainOne(d) PROVE NoLoss'
  <2>1. UNCHANGED <<aside, published, handled, pc, dlv, answer, gen>>
    BY <1>3 DEF DrainOne, workerVars, ghostVars
  <2>2. \A x \in Copies : Held(x) => Held(x)' /\ copy'[x].msg = copy[x].msg
    BY <1>3 DEF DrainOne, Held, Requeued, TypeOK, Copy
  <2> QED
    BY <1>1, <2>1, <2>2, DoomUnchanged
<1>4. CASE CutOff \/ CloseRaises
  <2>1. \A x \in Copies : ~Doomed(x)'
    BY <1>4 DEF CutOff, CloseRaises, CutShort, NoWorkers, Doomed
  <2> QED
    BY <1>1, <1>4, <2>1 DEF CutOff, CloseRaises, CutShort, Held, brokerVars
<1>5. ASSUME NEW lost \in SUBSET OnTheWire, copy' = WireLost(lost),
             UNCHANGED <<aside, published, handled>>,
             \A x \in Copies : ~Doomed(x)'
      PROVE  NoLoss'
  <2>1. \A x \in Copies : Held(x) => Held(x)' /\ copy'[x].msg = copy[x].msg
    BY <1>5 DEF AllRequeued, WireLost, OnTheWire, Held, Requeued, TypeOK, Copy
  <2> QED
    BY <1>1, <1>5, <2>1
<1>8. CASE Release
  <2>1. \A x \in Copies : ~Doomed(x)'
    BY <1>8 DEF Release, workerVars, Holding, Doomed
  <2>2. \A x \in Copies : Held(x) => Held(x)' /\ copy'[x].msg = copy[x].msg
    BY <1>8, GivenBack DEF AllRequeued, Held, Requeued, TypeOK, Copy
  <2> QED
    BY <1>1, <1>8, <2>1, <2>2 DEF Release, ghostVars
<1>6. ASSUME NEW lost \in SUBSET OnTheWire, Crash(lost) PROVE NoLoss'
  <2>1. \A x \in Copies : ~Doomed(x)'
    BY <1>6 DEF Crash, NoWorkers, Doomed
  <2> QED
    BY <1>5, <1>6, <2>1 DEF Crash
<1>7. ASSUME NEW lost \in SUBSET OnTheWire, ConnectionLost(lost) PROVE NoLoss'
  <2>1. \A v \in Workers : Busy(v) => dlv[v].gen \in Nat /\ dlv[v].gen <= gen
    BY DEF Matching, Holding, Delivery
  <2>2. \A x \in Copies : ~Doomed(x)'
    BY <1>7, <2>1 DEF ConnectionLost, Doomed, Live, Busy, TypeOK
  <2> QED
    BY <1>5, <1>7, <2>2 DEF ConnectionLost
<1> QED
  BY <1>2, <1>3, <1>4, <1>6, <1>7, <1>8 DEF Drain

-----------------------------------------------------------------------------
(* What subscriptions left behind have out *)

\* Nothing unacknowledged is given back or settled but what is in hand, and nothing
\* in hand is theirs.
LEMMA StillStranded ==
  ASSUME Stranding, stranded' = stranded, open' = open,
         \A c \in stranded : copy'[c].at = "unacked",
         \A c \in Copies : copy'[c].at = "unacked" => copy[c].at = "unacked" \/ open,
         \A d \in work' : Live(d)' => (d \in work /\ Live(d)) \/ d.id \notin stranded,
         \A w \in Workers : Busy(w)' /\ Live(dlv[w])' =>
           (Busy(w) /\ dlv'[w] = dlv[w] /\ Live(dlv[w])) \/ dlv'[w].id \notin stranded
  PROVE  Stranding'
BY DEF Stranding

\* Every step leaves what subscriptions left behind have out in nobody's hands.
LEMMA StrandingKept ==
  ASSUME TypeOK, Holding, SettledOnce, Matching, Stranding, Next
  PROVE  Stranding'
<1>1. ASSUME UNCHANGED <<stranded, open, gen>>, work' \subseteq work,
             \A w \in Workers : Busy(w)' => (Busy(w) /\ dlv'[w] = dlv[w]) \/ dlv'[w] \in work,
             \A c \in Copies : \/ copy'[c] = copy[c]
                               \/ copy'[c].at # "unacked" /\ c \notin stranded
      PROVE  Stranding'
  <2>1. \A c \in stranded : c \in Copies /\ copy[c].at = "unacked"
    BY DEF TypeOK, Stranding
  <2> QED
    BY <1>1, <2>1, StillStranded DEF Live, Stranding
<1>2. ASSUME NEW c \in Copies, copy[c].at # "unacked" PROVE c \notin stranded
  BY <1>2 DEF Stranding
<1>3. ASSUME NEW m \in Msgs, NEW c \in Copies, Publish(m, c) PROVE Stranding'
  <2>1. /\ copy[c].at = "free" /\ copy'[c].at = "stored"
        /\ \A x \in Copies \ {c} : copy'[x] = copy[x]
        /\ UNCHANGED <<stranded, open, gen, work, pc, dlv>>
    BY <1>3 DEF Publish, Fresh, Free, TypeOK, workerVars
  <2> QED
    BY <1>1, <1>2, <2>1 DEF Busy
<1>4. ASSUME NEW c \in Copies, Deliver(c) PROVE Stranding'
  <2> DEFINE new == [id |-> c, gen |-> gen, msg |-> copy[c].msg, attempt |-> copy[c].attempt]
  <2>1. /\ copy[c].at = "stored" /\ open
        /\ \A x \in Copies \ {c} : copy'[x] = copy[x]
        /\ work' = work \cup {new} /\ new.id = c
        /\ UNCHANGED <<stranded, open, gen, pc, dlv>>
    BY <1>4 DEF Deliver, At, TypeOK, workerVars
  <2> HIDE DEF new
  <2>2. c \notin stranded
    BY <1>2, <2>1
  <2>3. \A x \in stranded : copy'[x].at = "unacked"
    BY <2>1, <2>2 DEF TypeOK, Stranding
  <2> QED
    BY <2>1, <2>2, <2>3, StillStranded DEF Live, Busy
<1>5. ASSUME NEW c \in Copies, DeliverBehind(c) PROVE Stranding'
  <2>1. /\ copy[c].at = "stored" /\ open
        /\ \A x \in Copies \ {c} : copy'[x] = copy[x]
        /\ copy'[c].at = "unacked" /\ stranded' = stranded \cup {c}
        /\ UNCHANGED <<open, gen, work, pc, dlv>>
    BY <1>5 DEF DeliverBehind, At, TypeOK, Copy, workerVars
  <2>2. \A x \in stranded' : copy'[x].at = "unacked"
    BY <2>1 DEF TypeOK, Stranding
  <2>3. \A d \in work : Live(d) => d.id \notin stranded'
    BY <2>1, InHandIsOut DEF Stranding
  <2>4. \A w \in Workers : Busy(w) /\ Live(dlv[w]) => dlv[w].id \notin stranded'
    BY <2>1, InHandIsOut DEF Stranding
  <2> QED
    BY <2>1, <2>2, <2>3, <2>4 DEF Stranding, Live, Busy
<1>6. ASSUME NEW c \in Copies, BrokerStep(c) \/ BrokerNacks(c) PROVE Stranding'
  <2>1. /\ copy[c].at # "unacked" /\ copy'[c].at # "unacked"
        /\ \A x \in Copies \ {c} : copy'[x] = copy[x]
        /\ UNCHANGED <<stranded, open, gen, work, pc, dlv>>
    BY <1>6 DEF BrokerStep, BrokerTakes, BrokerReturns, RungExpires, BrokerNacks, Reply, At, Free,
                TypeOK, Copy, workerVars
  <2> QED
    BY <1>1, <1>2, <2>1 DEF Busy
<1>7. CASE \/ ApplyTopology \/ \E q \in {"rung", "dlq", "parked"} : RemoveQueue(q)
           \/ \E done \in 0..4 : StartFails(done)
           \/ CloseBegins \/ StopAcknowledged \/ PutSentinels \/ AllReturned
  <2>1. UNCHANGED <<copy, stranded, open, gen, work, pc, dlv>>
    BY <1>7 DEF ApplyTopology, RemoveQueue, StartFails, CloseBegins, StopAcknowledged,
                PutSentinels, AllReturned, brokerVars, workerVars
  <2> QED
    BY <1>1, <2>1 DEF Busy
<1>8. CASE Start \/ CutOff \/ CloseRaises
  <2>1. UNCHANGED <<copy, stranded, open, gen, work>> /\ \A w \in Workers : ~Busy(w)'
    BY <1>8 DEF Start, CutOff, CloseRaises, CutShort, NoWorkers, Busy, brokerVars
  <2> QED
    BY <1>1, <2>1
<1>9. CASE Reopens
  <2>1. UNCHANGED <<copy, stranded, gen, work, pc, dlv>> /\ open' = TRUE
    BY <1>9 DEF Reopens, brokerVars, workerVars
  <2> QED
    BY <2>1 DEF Stranding, Live, Busy
<1>10. CASE Release
  <2>1. /\ UNCHANGED <<stranded, open, gen>> /\ work' = {}
        /\ \A w \in Workers : ~Busy(w)'
        /\ copy' = OwnRequeued \/ copy' = copy
    BY <1>10 DEF Release, Holding, Busy, workerVars
  <2>2. \A c \in Copies : \/ copy'[c] = copy[c]
                          \/ copy'[c].at # "unacked" /\ c \notin stranded
    BY <2>1 DEF OwnRequeued, AllRequeued, Requeued, TypeOK, Copy
  <2> QED
    BY <1>1, <2>1, <2>2
<1>11. ASSUME NEW lost \in SUBSET OnTheWire, ConnectionLost(lost) \/ Crash(lost)
       PROVE  Stranding'
  <2>1. copy' = WireLost(lost) /\ stranded' = {}
    BY <1>11 DEF ConnectionLost, Crash
  <2>2. \A c \in Copies : copy'[c].at # "unacked"
    BY <2>1 DEF WireLost, AllRequeued, Requeued, Free, TypeOK, Copy
  <2> QED
    BY <2>1, <2>2 DEF Stranding
<1>12. ASSUME NEW w \in Workers, NEW c \in Copies, HopSent(w, c) PROVE Stranding'
  <2>1. /\ copy[c].at = "free" /\ copy'[c].at = "wire"
        /\ \A x \in Copies \ {c} : copy'[x] = copy[x]
        /\ UNCHANGED <<stranded, open, gen, work, dlv>>
        /\ \A v \in Workers : Busy(v)' => Busy(v)
    BY <1>12 DEF HopSent, Fresh, Free, Busy, TypeOK
  <2> QED
    BY <1>1, <1>2, <2>1
<1>13. ASSUME NEW w \in Workers, Ack(w) \/ Nack(w) PROVE Stranding'
  <2>1. /\ UNCHANGED <<stranded, open, gen, work>>
        /\ \A v \in Workers : Busy(v)' => Busy(v) /\ dlv'[v] = dlv[v]
        /\ Busy(w)
    BY <1>13 DEF Ack, Nack, LetGo, Busy, TypeOK
  <2>2. Live(dlv[w]) => dlv[w].id \in Copies /\ dlv[w].id \notin stranded
    BY <2>1, InHandIsOut DEF Stranding
  <2>3. \A c \in Copies : \/ copy'[c] = copy[c]
                          \/ copy'[c].at # "unacked" /\ c \notin stranded
    BY <1>13, <2>2 DEF Ack, Nack, Requeued, Free, TypeOK, Copy
  <2> QED
    BY <1>1, <2>1, <2>3
<1>14. ASSUME NEW d \in work, DrainOne(d) PROVE Stranding'
  <2>1. UNCHANGED <<stranded, open, gen, pc, dlv>> /\ work' \subseteq work
    BY <1>14 DEF DrainOne, workerVars
  <2>2. Live(d) => d.id \in Copies /\ d.id \notin stranded
    BY InHandIsOut DEF Stranding
  <2>3. \A c \in Copies : \/ copy'[c] = copy[c]
                          \/ copy'[c].at # "unacked" /\ c \notin stranded
    BY <1>14, <2>2 DEF DrainOne, Requeued, TypeOK, Copy
  <2> QED
    BY <1>1, <2>1, <2>3 DEF Busy
<1>15. ASSUME NEW w \in Workers,
              \/ \E d \in work : Take(w, d)
              \/ Unreadable(w) \/ HopAnswered(w) \/ WorkerReturns(w) \/ WorkerFault(w)
              \/ \E a \in Answers, age \in Ages : HandlerAnswers(w, a, age)
       PROVE  Stranding'
  <2>1. UNCHANGED <<copy, stranded, open, gen>> /\ work' \subseteq work
    BY <1>15 DEF Take, Unreadable, HopAnswered, WorkerReturns, WorkerFault, HopRefused,
                 HopTimesOut, HopEscapes, HandlerAnswers, brokerVars
  <2>2. \A v \in Workers : Busy(v)' => (Busy(v) /\ dlv'[v] = dlv[v]) \/ dlv'[v] \in work
    BY <1>15 DEF Take, Unreadable, HopAnswered, WorkerReturns, WorkerFault, HopRefused,
                 HopTimesOut, HopEscapes, HandlerAnswers, Proceed, LetGo, Busy, TypeOK
  <2> QED
    BY <1>1, <2>1, <2>2
<1> QED
  BY <1>3, <1>4, <1>5, <1>6, <1>7, <1>8, <1>9, <1>10, <1>11, <1>12, <1>13, <1>14, <1>15
     DEF Next, Ongoing, BrokerStep, Drain, WorkerStep

-----------------------------------------------------------------------------
(* The theorems *)

\* The inductive invariant holds at the start.
LEMMA InvariantInit == Init => NoLossInv
<1> SUFFICES ASSUME Init PROVE NoLossInv
  OBVIOUS
<1>1. TypeOK /\ Holding
  BY TypingInit
<1>2. work = {} /\ \A w \in Workers : ~Busy(w) /\ sent[w] = None
  BY DEF Init, Busy
<1>3. SettledOnce /\ Matching
  BY <1>2 DEF SettledOnce, Matching
<1>4. \A c \in Copies : copy[c].at = "free"
  BY DEF Init, Free
<1>5. RungBound
  BY <1>4, ConsumerAssumption DEF Init, RungBound, At, OnTheWire
<1>6. NoLoss
  BY DEF Init, NoLoss
<1>7. Stranding
  BY <1>2, ConsumerAssumption DEF Init, Stranding
<1> QED
  BY <1>1, <1>3, <1>5, <1>6, <1>7 DEF NoLossInv

\* Every step keeps the inductive invariant.
LEMMA InvariantStep == NoLossInv /\ [Next]_vars => NoLossInv'
<1> SUFFICES ASSUME NoLossInv, [Next]_vars PROVE NoLossInv'
  OBVIOUS
<1> USE DEF NoLossInv
<1>1. CASE UNCHANGED vars
  <2>1. UNCHANGED <<copy, aside, exists, published, phase, halted, work, pc, dlv, hop, sent,
                    answer, gen, open, subscribed, behind, stranded, faults, handled, failures,
                    condemned, disturbed>>
    BY <1>1 DEF vars, brokerVars, workerVars, ghostVars
  <2>2. TypeOK'
    BY <2>1 DEF TypeOK
  <2>3. Holding'
    BY <2>1 DEF Holding, Busy
  <2>4. SettledOnce' /\ Matching'
    BY <2>1, HandsUndisturbed DEF Busy
  <2>5. RungBound'
    BY <2>1 DEF RungBound, At, OnTheWire
  <2>6. NoLoss'
    BY <2>1, StillAccountedFor, DoomUnchanged DEF Held
  <2>7. Stranding'
    BY <2>1 DEF Stranding, Live, Busy
  <2> QED
    BY <2>2, <2>3, <2>4, <2>5, <2>6, <2>7
<1>2. CASE Next
  <2>1. RungBound' /\ Stranding'
    BY <1>2, RungsKept, StrandingKept
  <2>2. CASE \/ \E m \in Msgs, c \in Copies : Publish(m, c)
             \/ \E c \in Copies : Deliver(c) \/ DeliverBehind(c) \/ BrokerStep(c) \/ BrokerNacks(c)
             \/ ApplyTopology
             \/ \E q \in {"rung", "dlq", "parked"} : RemoveQueue(q)
    <3>1. TypeOK' /\ Holding'
      BY <2>2, TypingBroker
    <3>2. SettledOnce' /\ Matching'
      BY <2>2, HandsBroker, HandsDeliver
    <3>3. NoLoss'
      BY <2>2, NoLossBroker
    <3> QED
      BY <2>1, <3>1, <3>2, <3>3
  <2>3. ASSUME NEW w \in Workers, WorkerStep(w) \/ WorkerFault(w) PROVE NoLossInv'
    BY <2>1, <2>3, TypingWorker, HandsWorker, NoLossWorker
  <2>4. CASE \/ Start \/ CloseBegins \/ Drain \/ AllReturned \/ CutOff \/ CloseRaises \/ Release \/ Reopens
             \/ \E done \in 0..4 : StartFails(done)
             \/ \E lost \in SUBSET OnTheWire : ConnectionLost(lost) \/ Crash(lost)
    <3>1. TypeOK' /\ Holding'
      BY <2>4, TypingClose
    <3>2. SettledOnce' /\ Matching'
      BY <2>4, <3>1, HandsClose
    <3>3. NoLoss'
      BY <2>4, NoLossClose
    <3> QED
      BY <2>1, <3>1, <3>2, <3>3
  <2> QED
    BY <1>2, <2>2, <2>3, <2>4 DEF Next, Ongoing
<1> QED
  BY <1>1, <1>2

\* The inductive invariant holds throughout.
THEOREM Invariant == Spec => []NoLossInv
BY InvariantInit, InvariantStep, PTL DEF Spec

\* Every reachable state of the consumer and its broker is well typed: in
\* particular no copy carries an attempt past the policy's last one.
THEOREM Typing == Spec => []TypeOK
<1>1. NoLossInv => TypeOK
  BY DEF NoLossInv
<1> QED
  BY <1>1, Invariant, PTL

\* A published message is never lost, however publishes are refused, confirms are
\* late, connections drop, processes die and consumers are closed.
THEOREM NothingLost == Spec => []NoLoss
<1>1. NoLossInv => NoLoss
  BY DEF NoLossInv
<1> QED
  BY <1>1, Invariant, PTL

\* No delivery is settled twice on the channel it came on.
THEOREM SettlesOnce == Spec => []SettledOnce
<1>1. NoLossInv => SettledOnce
  BY DEF NoLossInv
<1> QED
  BY <1>1, Invariant, PTL

-----------------------------------------------------------------------------
(* Nothing is dealt with before it was published *)

KnownCopies == \A c \in Copies : copy[c].at # "free" => copy[c].msg \in published

KnownHands ==
  /\ \A d \in work : d.msg \in published
  /\ \A w \in Workers : Busy(w) => dlv[w].msg \in published

KnownEnds == handled \subseteq published /\ \A q \in AsideQueues : aside[q] \subseteq published

OnlyPublished == KnownCopies /\ KnownHands /\ KnownEnds

ContractInv == NoLossInv /\ OnlyPublished

\* A step that shows the consumer and the broker no new message keeps this.
LEMMA StillKnown ==
  ASSUME OnlyPublished, published' = published,
         \A c \in Copies : copy'[c].at # "free" =>
           copy'[c].msg \in published \/ (copy[c].at # "free" /\ copy'[c].msg = copy[c].msg),
         \A d \in work' : d \in work \/ d.msg \in published,
         \A w \in Workers : Busy(w)' => dlv'[w].msg \in published \/ (Busy(w) /\ dlv'[w] = dlv[w]),
         handled' \subseteq published,
         \A q \in AsideQueues : aside'[q] \subseteq published
  PROVE  OnlyPublished'
BY DEF OnlyPublished, KnownCopies, KnownHands, KnownEnds

\* The broker, producers and operators.
LEMMA KnownBroker ==
  ASSUME TypeOK, OnlyPublished,
         \/ \E m \in Msgs, c \in Copies : Publish(m, c)
         \/ \E c \in Copies : Deliver(c) \/ DeliverBehind(c) \/ BrokerStep(c) \/ BrokerNacks(c)
         \/ ApplyTopology
         \/ \E q \in {"rung", "dlq", "parked"} : RemoveQueue(q)
  PROVE  OnlyPublished'
<1> USE DEF OnlyPublished
<1>1. ASSUME NEW m \in Msgs, NEW c \in Copies, Publish(m, c) PROVE OnlyPublished'
  <2>1. /\ published' = published \cup {m} /\ copy'[c].msg = m
        /\ \A x \in Copies \ {c} : copy'[x] = copy[x]
        /\ UNCHANGED <<work, pc, dlv, handled, aside>>
    BY <1>1 DEF Publish, TypeOK, workerVars, ghostVars
  <2> QED
    BY <2>1 DEF KnownCopies, KnownHands, KnownEnds, Busy
<1>2. ASSUME NEW c \in Copies, Deliver(c) PROVE OnlyPublished'
  <2> DEFINE new == [id |-> c, gen |-> gen, msg |-> copy[c].msg, attempt |-> copy[c].attempt]
  <2>1. copy[c].at = "stored" /\ copy[c].msg \in published /\ new.msg = copy[c].msg
    BY <1>2 DEF Deliver, At, KnownCopies
  <2>2. /\ work' = work \cup {new}
        /\ UNCHANGED <<published, pc, dlv, handled, aside>>
    BY <1>2 DEF Deliver, workerVars, ghostVars
  <2>3. /\ \A x \in Copies \ {c} : copy'[x] = copy[x]
        /\ copy'[c].msg = copy[c].msg
    BY <1>2 DEF Deliver, TypeOK, Copy
  <2>4. \A d \in work' : d \in work \/ d.msg \in published
    BY <2>1, <2>2
  <2> HIDE DEF new
  <2> QED
    BY <2>1, <2>2, <2>3, <2>4, StillKnown DEF KnownEnds, Busy
<1>7. ASSUME NEW c \in Copies, DeliverBehind(c) PROVE OnlyPublished'
  <2>1. /\ copy[c].at = "stored" /\ copy'[c].msg = copy[c].msg
        /\ \A x \in Copies \ {c} : copy'[x] = copy[x]
        /\ UNCHANGED <<published, work, pc, dlv, handled, aside>>
    BY <1>7 DEF DeliverBehind, At, TypeOK, Copy, workerVars, ghostVars
  <2> QED
    BY <2>1, StillKnown DEF KnownEnds, Busy
<1>3. ASSUME NEW c \in Copies, RungExpires(c) PROVE OnlyPublished'
  <2>1. /\ copy[c].at = "stored"
        /\ \A x \in Copies \ {c} : copy'[x] = copy[x]
        /\ copy'[c] = Free \/ copy'[c].msg = copy[c].msg
        /\ UNCHANGED <<published, work, pc, dlv, handled, aside>>
    BY <1>3 DEF RungExpires, At, TypeOK, Copy, workerVars, ghostVars
  <2> QED
    BY <2>1, StillKnown DEF Free, KnownEnds, Busy
<1>4. ASSUME NEW c \in Copies, BrokerTakes(c) PROVE OnlyPublished'
  <2>1. /\ copy[c].at = "wire" /\ copy[c].msg \in published
        /\ UNCHANGED <<published, work, pc, dlv, handled>>
    BY <1>4 DEF BrokerTakes, Reply, KnownCopies, ghostVars
  <2>2. /\ \A x \in Copies \ {c} : copy'[x] = copy[x]
        /\ copy'[c] = Free \/ copy'[c].msg = copy[c].msg
    BY <1>4 DEF BrokerTakes, TypeOK, Copy
  <2>3. \A q \in AsideQueues : aside'[q] \subseteq aside[q] \cup {copy[c].msg}
    BY <1>4 DEF BrokerTakes, TypeOK
  <2> QED
    BY <2>1, <2>2, <2>3, StillKnown DEF Free, KnownEnds, Busy
<1>5. ASSUME NEW c \in Copies, BrokerReturns(c) \/ BrokerNacks(c) PROVE OnlyPublished'
  <2>1. /\ \A x \in Copies \ {c} : copy'[x] = copy[x]
        /\ copy'[c] = Free
        /\ UNCHANGED <<published, work, pc, dlv, handled, aside>>
    BY <1>5 DEF BrokerReturns, BrokerNacks, Reply, TypeOK, ghostVars
  <2> QED
    BY <2>1, StillKnown DEF Free, KnownEnds, Busy
<1>6. ASSUME ApplyTopology \/ \E q \in {"rung", "dlq", "parked"} : RemoveQueue(q)
      PROVE  OnlyPublished'
  <2>1. UNCHANGED <<copy, published, work, pc, dlv, handled, aside>>
    BY <1>6 DEF ApplyTopology, RemoveQueue, workerVars, ghostVars
  <2> QED
    BY <2>1, StillKnown DEF KnownEnds, Busy
<1> QED
  BY <1>1, <1>2, <1>3, <1>4, <1>5, <1>6, <1>7 DEF BrokerStep

\* What a worker takes, sends and accepts it was given.
LEMMA KnownWorker ==
  ASSUME TypeOK, Holding, SettledOnce, Matching, OnlyPublished,
         NEW w \in Workers, WorkerStep(w) \/ WorkerFault(w)
  PROVE  OnlyPublished'
<1> USE DEF OnlyPublished
<1>1. ASSUME NEW d \in work, Take(w, d) PROVE OnlyPublished'
  <2>1. /\ UNCHANGED <<copy, published, handled, aside>> /\ work' \subseteq work
        /\ dlv'[w] = d /\ \A v \in Workers \ {w} : dlv'[v] = dlv[v] /\ pc'[v] = pc[v]
    BY <1>1 DEF Take, TypeOK, brokerVars, ghostVars
  <2>2. d.msg \in published
    BY DEF KnownHands
  <2> QED
    BY <2>1, <2>2, StillKnown DEF KnownEnds, Busy
<1>2. ASSUME NEW a \in Answers, NEW age \in Ages, HandlerAnswers(w, a, age)
      PROVE  OnlyPublished'
  <2>1. /\ UNCHANGED <<copy, published, work, dlv, aside>> /\ Busy(w)
        /\ handled' \subseteq handled \cup {dlv[w].msg}
        /\ \A v \in Workers \ {w} : pc'[v] = pc[v]
    BY <1>2 DEF HandlerAnswers, Proceed, Remember, Busy, TypeOK, brokerVars
  <2>2. dlv[w].msg \in published
    BY <2>1 DEF KnownHands
  <2> QED
    BY <2>1, <2>2, StillKnown DEF KnownEnds, Busy
<1>3. ASSUME NEW c \in Copies, HopSent(w, c) PROVE OnlyPublished'
  <2>1. /\ UNCHANGED <<published, work, dlv, handled, aside>> /\ Busy(w)
        /\ \A v \in Workers \ {w} : pc'[v] = pc[v]
    BY <1>3 DEF HopSent, Busy, TypeOK, ghostVars
  <2>2. /\ copy'[c].msg = dlv[w].msg
        /\ \A x \in Copies \ {c} : copy'[x] = copy[x]
    BY <1>3 DEF HopSent, TypeOK
  <2>3. dlv[w].msg \in published
    BY <2>1 DEF KnownHands
  <2> QED
    BY <2>1, <2>2, <2>3, StillKnown DEF KnownEnds, Busy
<1>4. ASSUME Unreadable(w) \/ HopAnswered(w) \/ HopRefused(w) \/ HopTimesOut(w)
      PROVE  OnlyPublished'
  <2>1. /\ UNCHANGED <<copy, published, work, dlv, handled, aside>> /\ Busy(w)
        /\ \A v \in Workers \ {w} : pc'[v] = pc[v]
    BY <1>4 DEF Unreadable, HopAnswered, HopRefused, HopTimesOut, Proceed, Busy, TypeOK,
                brokerVars, ghostVars
  <2> QED
    BY <2>1, StillKnown DEF KnownEnds, Busy
<1>5. ASSUME Ack(w) \/ Nack(w) PROVE OnlyPublished'
  <2>1. /\ UNCHANGED <<published, work, handled, aside>> /\ Busy(w) /\ ~Busy(w)'
        /\ \A v \in Workers \ {w} : dlv'[v] = dlv[v] /\ pc'[v] = pc[v]
    BY <1>5 DEF Ack, Nack, LetGo, Busy, TypeOK, ghostVars
  <2>2. Live(dlv[w]) => dlv[w].id \in Copies /\ copy[dlv[w].id].at = "unacked"
    BY <2>1, InHandIsOut
  <2>3. \A x \in Copies : \/ copy'[x] = copy[x] \/ copy'[x] = Free
                          \/ copy[x].at = "unacked" /\ copy'[x].msg = copy[x].msg
    BY <1>5, <2>2 DEF Ack, Nack, Requeued, TypeOK, Copy
  <2> QED
    BY <2>1, <2>3, StillKnown DEF Free, KnownEnds, Busy
<1>6. ASSUME HopEscapes(w) \/ WorkerReturns(w) PROVE OnlyPublished'
  <2>1. /\ UNCHANGED <<copy, published, work, handled, aside>> /\ ~Busy(w)'
        /\ \A v \in Workers \ {w} : dlv'[v] = dlv[v] /\ pc'[v] = pc[v]
    BY <1>6 DEF HopEscapes, WorkerReturns, LetGo, Busy, TypeOK, brokerVars, ghostVars
  <2> QED
    BY <2>1, StillKnown DEF KnownEnds, Busy
<1> QED
  BY <1>1, <1>2, <1>3, <1>4, <1>5, <1>6 DEF WorkerStep, WorkerFault

\* Starting, closing, connections lost and crashes show nobody a message.
LEMMA KnownClose ==
  ASSUME TypeOK, Holding, SettledOnce, Matching, OnlyPublished,
         \/ Start \/ CloseBegins \/ Drain \/ AllReturned \/ CutOff \/ CloseRaises \/ Release \/ Reopens
         \/ \E done \in 0..4 : StartFails(done)
         \/ \E lost \in SUBSET OnTheWire : ConnectionLost(lost) \/ Crash(lost)
  PROVE  OnlyPublished'
<1> USE DEF OnlyPublished
<1>1. \A c \in Copies : AllRequeued[c].msg = copy[c].msg
                        /\ (AllRequeued[c].at # "free" => copy[c].at # "free")
  BY DEF AllRequeued, Requeued, TypeOK, Copy
<1>2. CASE CloseBegins \/ StopAcknowledged \/ PutSentinels \/ AllReturned \/ Reopens
           \/ \E done \in 0..4 : StartFails(done)
  <2>1. UNCHANGED <<copy, published, work, pc, dlv, handled, aside>>
    BY <1>2 DEF CloseBegins, StopAcknowledged, PutSentinels, AllReturned, Reopens, StartFails,
                brokerVars, workerVars, ghostVars
  <2> QED
    BY <2>1, StillKnown DEF KnownEnds, Busy
<1>3. CASE Start \/ CutOff \/ CloseRaises
  <2>1. /\ UNCHANGED <<copy, published, work, handled, aside>>
        /\ \A w \in Workers : ~Busy(w)'
    BY <1>3 DEF Start, CutOff, CloseRaises, CutShort, NoWorkers, Busy, brokerVars, ghostVars
  <2> QED
    BY <2>1, StillKnown DEF KnownEnds
<1>4. ASSUME NEW d \in work, DrainOne(d) PROVE OnlyPublished'
  <2>1. UNCHANGED <<published, pc, dlv, handled, aside>> /\ work' \subseteq work
    BY <1>4 DEF DrainOne, workerVars, ghostVars
  <2>2. Live(d) => d.id \in Copies /\ copy[d.id].at = "unacked"
    BY InHandIsOut
  <2>3. \A x \in Copies : \/ copy'[x] = copy[x]
                          \/ copy[x].at = "unacked" /\ copy'[x].msg = copy[x].msg
    BY <1>4, <2>2 DEF DrainOne, Requeued, TypeOK, Copy
  <2> QED
    BY <2>1, <2>3, StillKnown DEF KnownEnds, Busy
<1>5. CASE Release
  <2>1. UNCHANGED <<published, pc, dlv, handled, aside>> /\ work' = {}
    BY <1>5 DEF Release, workerVars, ghostVars
  <2>2. \A c \in Copies : copy'[c] = copy[c] \/ copy'[c] = AllRequeued[c]
    BY <1>5, GivenBack
  <2> QED
    BY <1>1, <2>1, <2>2, StillKnown DEF KnownEnds, Busy
<1>6. ASSUME NEW lost \in SUBSET OnTheWire, ConnectionLost(lost) \/ Crash(lost)
      PROVE  OnlyPublished'
  <2>1. /\ UNCHANGED <<published, handled, aside>> /\ work' \subseteq work
        /\ copy' = WireLost(lost)
        /\ (\A w \in Workers : ~Busy(w)') \/ UNCHANGED <<pc, dlv>>
    BY <1>6 DEF ConnectionLost, Crash, NoWorkers, Busy
  <2>2. \A c \in Copies : copy'[c] = Free \/ copy'[c] = AllRequeued[c]
    BY <2>1 DEF WireLost
  <2> QED
    BY <1>1, <2>1, <2>2, StillKnown DEF Free, KnownEnds, Busy
<1> QED
  BY <1>2, <1>3, <1>4, <1>5, <1>6 DEF Drain

\* The invariant holds through every step.
LEMMA ContractInvariant == Spec => []ContractInv
<1>1. Init => OnlyPublished
  BY DEF Init, Free, Busy, OnlyPublished, KnownCopies, KnownHands, KnownEnds
<1>2. NoLossInv /\ OnlyPublished /\ [Next]_vars => OnlyPublished'
  <2> SUFFICES ASSUME NoLossInv, OnlyPublished, [Next]_vars PROVE OnlyPublished'
    OBVIOUS
  <2>1. CASE UNCHANGED vars
    <3>1. UNCHANGED <<copy, published, work, pc, dlv, handled, aside>>
      BY <2>1 DEF vars, brokerVars, workerVars, ghostVars
    <3> QED
      BY <3>1, StillKnown DEF OnlyPublished, KnownEnds, Busy
  <2>2. CASE Next
    BY <2>2, KnownBroker, KnownWorker, KnownClose DEF NoLossInv, Next, Ongoing
  <2> QED
    BY <2>1, <2>2
<1> QED
  BY <1>1, <1>2, Invariant, PTL DEF Spec, ContractInv

-----------------------------------------------------------------------------
(* The refinement *)

\* As nothing is lost, what was published and is not settled is owed.
LEMMA FateIs ==
  ASSUME NoLoss, published \subseteq Msgs
  PROVE  Fate = [m \in Msgs |-> IF m \notin published THEN "unsent"
                                ELSE IF Settled(m) THEN "settled" ELSE "owed"]
BY DEF Fate, NoLoss, Settled

\* At most one message is published or settled by a step, and only when it may be.
LEMMA OneFateMoves ==
  ASSUME ContractInv, Next
  PROVE  \/ UNCHANGED <<published, handled, aside>>
         \/ \E m \in Msgs \ published :
              published' = published \cup {m} /\ UNCHANGED <<handled, aside>>
         \/ \E m \in published :
              /\ published' = published
              /\ \/ handled' = handled \cup {m} /\ aside' = aside
                 \/ /\ handled' = handled
                    /\ \E q \in AsideQueues : aside' = [aside EXCEPT ![q] = @ \cup {m}]
<1> USE DEF ContractInv, NoLossInv, OnlyPublished
<1>1. ASSUME NEW m \in Msgs, NEW c \in Copies, Publish(m, c)
      PROVE  /\ m \notin published /\ published' = published \cup {m}
             /\ UNCHANGED <<handled, aside>>
  BY <1>1 DEF Publish, ghostVars
<1>2. ASSUME NEW c \in Copies, BrokerTakes(c)
      PROVE  /\ copy[c].msg \in published /\ published' = published /\ handled' = handled
             /\ \/ aside' = aside
                \/ \E q \in AsideQueues : aside' = [aside EXCEPT ![q] = @ \cup {copy[c].msg}]
  BY <1>2 DEF BrokerTakes, Reply, KnownCopies, ghostVars
<1>3. ASSUME NEW w \in Workers, NEW a \in Answers, NEW age \in Ages, HandlerAnswers(w, a, age)
      PROVE  /\ dlv[w].msg \in published /\ published' = published /\ aside' = aside
             /\ handled' = handled \/ handled' = handled \cup {dlv[w].msg}
  BY <1>3 DEF HandlerAnswers, Remember, KnownHands, Busy, brokerVars
<1>4. ASSUME NEW c \in Copies,
             \/ Deliver(c) \/ DeliverBehind(c)
             \/ BrokerReturns(c) \/ RungExpires(c) \/ BrokerNacks(c)
      PROVE  UNCHANGED <<published, handled, aside>>
  BY <1>4 DEF Deliver, DeliverBehind, BrokerReturns, RungExpires, BrokerNacks, Reply, ghostVars
<1>5. ASSUME ApplyTopology \/ \E q \in {"rung", "dlq", "parked"} : RemoveQueue(q)
      PROVE  UNCHANGED <<published, handled, aside>>
  BY <1>5 DEF ApplyTopology, RemoveQueue, ghostVars
<1>6. ASSUME NEW w \in Workers,
             \/ \E d \in work : Take(w, d)
             \/ \E c \in Copies : HopSent(w, c)
             \/ Unreadable(w) \/ HopAnswered(w) \/ Ack(w) \/ Nack(w) \/ WorkerReturns(w)
             \/ WorkerFault(w)
      PROVE  UNCHANGED <<published, handled, aside>>
  BY <1>6 DEF Take, HopSent, Unreadable, HopAnswered, Ack, Nack, WorkerReturns, WorkerFault,
              HopRefused, HopTimesOut, HopEscapes, brokerVars, ghostVars
<1>7. ASSUME \/ Start \/ CloseBegins \/ Drain \/ AllReturned \/ CutOff \/ CloseRaises \/ Release \/ Reopens
             \/ \E done \in 0..4 : StartFails(done)
             \/ \E lost \in SUBSET OnTheWire : ConnectionLost(lost) \/ Crash(lost)
      PROVE  UNCHANGED <<published, handled, aside>>
  BY <1>7 DEF Start, CloseBegins, Drain, StopAcknowledged, DrainOne, PutSentinels, AllReturned,
              CutOff, CloseRaises, CutShort, Release, Reopens, StartFails, ConnectionLost, Crash,
              brokerVars, ghostVars
<1>8. CASE \E m \in Msgs, c \in Copies : Publish(m, c)
  BY <1>8, <1>1
<1>9. CASE \E c \in Copies : BrokerTakes(c)
  BY <1>9, <1>2
<1>10. CASE \E w \in Workers, a \in Answers, age \in Ages : HandlerAnswers(w, a, age)
  BY <1>10, <1>3
<1> QED
  BY <1>4, <1>5, <1>6, <1>7, <1>8, <1>9, <1>10 DEF Next, Ongoing, BrokerStep, WorkerStep

\* Every step of the consumer, the broker and their faults is one of the contract's.
LEMMA StepsToContract ==
  ASSUME ContractInv, ContractInv', [Next]_vars
  PROVE  [Contract!Next]_Fate
<1> DEFINE F == [m \in Msgs |-> IF m \notin published THEN "unsent"
                                ELSE IF Settled(m) THEN "settled" ELSE "owed"]
<1>1. Fate = F /\ Fate' = F'
  <2>1. Fate = F
    BY FateIs DEF ContractInv, NoLossInv, TypeOK
  <2>2. Fate' = F'
    BY DEF Fate, NoLoss, Settled, ContractInv, NoLossInv, TypeOK
  <2> QED
    BY <2>1, <2>2
<1>2. /\ aside \in [AsideQueues -> SUBSET Msgs] /\ published \subseteq Msgs
      /\ handled \subseteq published /\ \A q \in AsideQueues : aside[q] \subseteq published
  BY DEF ContractInv, NoLossInv, TypeOK, OnlyPublished, KnownEnds
<1>3. CASE UNCHANGED <<published, handled, aside>>
  <2>1. F' = F
    BY <1>3 DEF Settled, SetAside
  <2> QED
    BY <1>1, <2>1
<1>4. ASSUME NEW m \in Msgs \ published, published' = published \cup {m},
             UNCHANGED <<handled, aside>>
      PROVE  Contract!Send(m)
  <2>1. ~Settled(m) /\ \A n \in Msgs : Settled(n)' = Settled(n)
    BY <1>2, <1>4 DEF Settled, SetAside
  <2>2. F[m] = "unsent" /\ F' = [F EXCEPT ![m] = "owed"]
    BY <1>4, <2>1
  <2> QED
    BY <1>1, <2>2 DEF Contract!Send
<1>5. ASSUME NEW m \in published, published' = published,
             Settled(m)', \A n \in Msgs \ {m} : Settled(n)' = Settled(n)
      PROVE  Contract!Settle(m) \/ (Settled(m) /\ Fate' = Fate)
  <2>1. CASE Settled(m)
    <3>1. F' = F
      BY <1>5, <2>1
    <3> QED
      BY <1>1, <2>1, <3>1
  <2>2. CASE ~Settled(m)
    <3>1. F[m] = "owed" /\ F' = [F EXCEPT ![m] = "settled"]
      BY <1>2, <1>5, <2>2
    <3> QED
      BY <1>1, <3>1 DEF Contract!Settle
  <2> QED
    BY <2>1, <2>2
<1>6. ASSUME NEW m \in published, published' = published,
             handled' = handled \cup {m}, aside' = aside
      PROVE  [Contract!Next]_Fate
  <2>1. Settled(m)' /\ \A n \in Msgs \ {m} : Settled(n)' = Settled(n)
    BY <1>6 DEF Settled, SetAside
  <2> QED
    BY <1>2, <1>5, <1>6, <2>1 DEF Contract!Next
<1>7. ASSUME NEW m \in published, published' = published, handled' = handled,
             NEW q \in AsideQueues, aside' = [aside EXCEPT ![q] = @ \cup {m}]
      PROVE  [Contract!Next]_Fate
  <2>1. Settled(m)' /\ \A n \in Msgs \ {m} : Settled(n)' = Settled(n)
    BY <1>2, <1>7 DEF Settled, SetAside
  <2> QED
    BY <1>2, <1>5, <1>7, <2>1 DEF Contract!Next
<1>8. CASE Next
  BY <1>3, <1>4, <1>6, <1>7, <1>8, OneFateMoves DEF Contract!Next
<1>9. CASE UNCHANGED vars
  BY <1>3, <1>9 DEF vars, brokerVars, ghostVars
<1> QED
  BY <1>8, <1>9

\* The consumer implements the safety of AtLeastOnce: through refusals, timeouts,
\* crashes and restarts a published message is owed until a handler accepts it or
\* _set_aside has stored it, and stays settled from then on.
THEOREM ContractKept == Spec => Contract!Safety
<1>1. Init => Contract!Init
  BY DEF Init, Contract!Init, Fate
<1> QED
  BY <1>1, ContractInvariant, StepsToContract, PTL DEF Spec, Contract!Safety

-----------------------------------------------------------------------------
(* The attempt header counts failures *)

\* What rules a message out: an answer, its age, its body, or its last failure.
Ruled(m) == m \in condemned \/ failures[m] >= LastAttempt

Within(n, m) == n <= failures[m] + 1

CountedCopies ==
  \A c \in Copies : copy[c].at # "free" =>
    Within(copy[c].attempt, copy[c].msg) /\ (copy[c].to = "dlq" => Ruled(copy[c].msg))

CountedHands ==
  /\ \A d \in work : Within(d.attempt, d.msg)
  /\ \A w \in Workers : Busy(w) => Within(dlv[w].attempt, dlv[w].msg)
  /\ \A w \in Workers : pc[w] \in {"hop", "sent"} =>
       Within(hop[w].attempt, dlv[w].msg) /\ (hop[w].to = "dlq" => Ruled(dlv[w].msg))

\* Every attempt header the broker, the work queue, a worker or its next copy carries
\* is at most one more than the failures, and what goes to the dead-letter queue may.
Counted == CountedCopies /\ CountedHands /\ \A m \in aside["dlq"] : Ruled(m)

\* The same of the failures after a step.
RuledNow(m) == m \in condemned' \/ failures'[m] >= LastAttempt

WithinNow(n, m) == n <= failures'[m] + 1

\* Failures only grow, and a message ruled out stays so.
LEMMA FailuresGrow ==
  ASSUME TypeOK, Holding, [Next]_vars
  PROVE  \A m \in Msgs : /\ failures[m] \in Nat /\ failures'[m] \in Nat
                         /\ failures[m] <= failures'[m]
                         /\ Ruled(m) => RuledNow(m)
                         /\ \A n \in Nat : Within(n, m) => WithinNow(n, m)
<1>1. ASSUME NEW w \in Workers, NEW a \in Answers, NEW age \in Ages, HandlerAnswers(w, a, age)
      PROVE  /\ condemned \subseteq condemned'
             /\ \A m \in Msgs : failures'[m] = failures[m] \/ failures'[m] = failures[m] + 1
  BY <1>1 DEF HandlerAnswers, Remember, TypeOK
<1>2. \/ UNCHANGED failures /\ condemned \subseteq condemned'
      \/ \E w \in Workers, a \in Answers, age \in Ages : HandlerAnswers(w, a, age)
  BY DEF Next, Ongoing, Publish, Deliver, BrokerStep, BrokerTakes, BrokerReturns, BrokerNacks,
     RungExpires, Reply, ApplyTopology, RemoveQueue, WorkerStep, WorkerFault, Take, Unreadable,
     HopSent, HopAnswered, Ack, Nack, WorkerReturns, HopRefused, HopTimesOut, HopEscapes, Start,
     StartFails, Drain, StopAcknowledged, DrainOne, PutSentinels, ConnectionLost, Crash,
     DeliverBehind, CloseBegins, AllReturned, CutOff, CloseRaises, CutShort, Release, Reopens,
     ghostVars, vars
<1>3. /\ condemned \subseteq condemned'
      /\ \A m \in Msgs : failures'[m] = failures[m] \/ failures'[m] = failures[m] + 1
  BY <1>1, <1>2
<1>4. \A m \in Msgs : failures[m] \in Nat
  BY DEF TypeOK
<1>5. LastAttempt \in Int
  BY ConsumerAssumption DEF LastAttempt, Policies
<1> QED
  BY <1>3, <1>4, <1>5 DEF Ruled, Within, RuledNow, WithinNow

\* Whatever carries a header it carried before, or one that is counted, is counted.
LEMMA StillCounted ==
  ASSUME TypeOK, Holding, Counted, [Next]_vars,
         \A c \in Copies : copy'[c].at # "free" =>
           \/ /\ copy[c].at # "free" /\ copy'[c].msg = copy[c].msg
              /\ copy'[c].attempt = copy[c].attempt
              /\ copy'[c].to = "dlq" => copy[c].to = "dlq"
           \/ /\ copy'[c].msg \in Msgs /\ copy'[c].attempt \in Nat
              /\ Within(copy'[c].attempt, copy'[c].msg)
              /\ copy'[c].to = "dlq" => Ruled(copy'[c].msg),
         \A d \in work' : d \in work \/ (d.msg \in Msgs /\ d.attempt \in Nat /\ Within(d.attempt, d.msg)),
         \A w \in Workers : Busy(w)' =>
           (Busy(w) /\ dlv'[w] = dlv[w]) \/ (dlv'[w] \in Delivery /\ Within(dlv'[w].attempt, dlv'[w].msg)),
         \A w \in Workers : pc'[w] \in {"hop", "sent"} =>
           \/ pc[w] \in {"hop", "sent"} /\ hop'[w] = hop[w] /\ dlv'[w] = dlv[w]
           \/ /\ WithinNow(hop'[w].attempt, dlv'[w].msg)
              /\ hop'[w].to = "dlq" => RuledNow(dlv'[w].msg),
         \A m \in aside'["dlq"] : m \in aside["dlq"] \/ (m \in Msgs /\ Ruled(m))
  PROVE  Counted'
<1>1. \A m \in Msgs : /\ Ruled(m) => RuledNow(m)
                      /\ \A n \in Nat : Within(n, m) => WithinNow(n, m)
  BY FailuresGrow
<1>2. /\ \A c \in Copies : copy[c].at # "free" => copy[c].msg \in Msgs /\ copy[c].attempt \in Nat
      /\ \A d \in work : d.msg \in Msgs /\ d.attempt \in Nat
      /\ \A w \in Workers : Busy(w) => dlv[w].msg \in Msgs /\ dlv[w].attempt \in Nat
      /\ \A w \in Workers : pc[w] \in {"hop", "sent"} => Busy(w) /\ hop[w].attempt \in Nat
      /\ \A m \in aside["dlq"] : m \in Msgs
      /\ \A d \in Delivery : d.msg \in Msgs /\ d.attempt \in Nat
  BY DEF TypeOK, Holding, Delivery, Copy, Attempts, Hop, Busy, AsideQueues
<1>3. CountedCopies'
  <2> SUFFICES ASSUME NEW c \in Copies, copy'[c].at # "free"
               PROVE  /\ WithinNow(copy'[c].attempt, copy'[c].msg)
                      /\ copy'[c].to = "dlq" => RuledNow(copy'[c].msg)
    BY DEF CountedCopies, Within, Ruled, WithinNow, RuledNow
  <2>1. CASE /\ copy[c].at # "free" /\ copy'[c].msg = copy[c].msg
             /\ copy'[c].attempt = copy[c].attempt
             /\ copy'[c].to = "dlq" => copy[c].to = "dlq"
    <3>1. /\ Within(copy[c].attempt, copy[c].msg) /\ copy[c].msg \in Msgs /\ copy[c].attempt \in Nat
          /\ copy[c].to = "dlq" => Ruled(copy[c].msg)
      BY <1>2, <2>1 DEF Counted, CountedCopies
    <3> QED
      BY <1>1, <2>1, <3>1
  <2>2. CASE /\ copy'[c].msg \in Msgs /\ copy'[c].attempt \in Nat
             /\ Within(copy'[c].attempt, copy'[c].msg)
             /\ copy'[c].to = "dlq" => Ruled(copy'[c].msg)
    BY <1>1, <2>2
  <2> QED
    BY <2>1, <2>2
<1>4. \A d \in work' : WithinNow(d.attempt, d.msg)
  BY <1>1, <1>2 DEF Counted, CountedHands
<1>5. ASSUME NEW w \in Workers, Busy(w)' PROVE WithinNow(dlv'[w].attempt, dlv'[w].msg)
  <2>1. /\ dlv'[w].msg \in Msgs /\ dlv'[w].attempt \in Nat
        /\ Within(dlv'[w].attempt, dlv'[w].msg)
    BY <1>2, <1>5 DEF Counted, CountedHands
  <2> QED
    BY <1>1, <2>1
<1>6. ASSUME NEW w \in Workers, pc'[w] \in {"hop", "sent"}
      PROVE  /\ WithinNow(hop'[w].attempt, dlv'[w].msg)
             /\ hop'[w].to = "dlq" => RuledNow(dlv'[w].msg)
  <2>1. CASE pc[w] \in {"hop", "sent"} /\ hop'[w] = hop[w] /\ dlv'[w] = dlv[w]
    <3>1. /\ dlv[w].msg \in Msgs /\ hop[w].attempt \in Nat /\ Within(hop[w].attempt, dlv[w].msg)
          /\ hop[w].to = "dlq" => Ruled(dlv[w].msg)
      BY <1>2, <2>1 DEF Counted, CountedHands
    <3> QED
      BY <1>1, <2>1, <3>1
  <2> QED
    BY <1>6, <2>1
<1>7. \A m \in aside'["dlq"] : RuledNow(m)
  BY <1>1, <1>2 DEF Counted
<1>8. CountedHands'
  BY <1>4, <1>5, <1>6 DEF CountedHands, Within, Ruled, WithinNow, RuledNow
<1> QED
  BY <1>3, <1>7, <1>8 DEF Counted, Ruled, RuledNow

\* A todo names an attempt that the failures of the message allow once the answer is
\* remembered, and the dead-letter queue for one that is ruled out by then.
LEMMA PlanCounts ==
  ASSUME NEW a \in AllAnswers, NEW n \in Attempts, NEW age,
         CarryOut(Decide(a, n, age), n).pc = "hop"
  PROVE  LET h == CarryOut(Decide(a, n, age), n).hop
         IN /\ \/ h.attempt = n
               \/ a = "retry" /\ h.attempt = n + 1
            /\ h.to = "dlq" => \/ a \in {"reject", "fatal", "not_an_ack"}
                               \/ a = "retry" /\ (TooOld(Policy, age) \/ n >= Policy.max_attempts)
<1> DEFINE wait == NextWait(Policy, n, age, 0)
<1>1. CASE a = "retry" /\ wait # GiveUp
  BY <1>1 DEF Decide, CarryOut, HopTo
<1>2. CASE a = "retry" /\ wait = GiveUp
  <2>1. CarryOut(Decide(a, n, age), n) = HopTo("dlq", n)
    BY <1>2 DEF Decide, CarryOut, Outcome
  <2>2. TooOld(Policy, age) \/ n >= Policy.max_attempts
    <3>1. ASSUME ~GivesUp(Policy, n, age) PROVE FALSE
      <4> DEFINE delay == Unjittered(Policy, n)
      <4>1. \/ wait = [delay |-> delay, in_broker |-> TRUE]
            \/ ~WaitsInBroker(Policy, delay) /\ wait = [delay |-> Jittered(Policy, delay, 0), in_broker |-> FALSE]
        BY <3>1 DEF NextWait
      <4>2. DOMAIN wait = {"delay", "in_broker"}
        BY <4>1
      <4>3. DOMAIN wait = {"none"}
        BY <1>2 DEF GiveUp
      <4>4. {"none"} # {"delay", "in_broker"}
        OBVIOUS
      <4> QED
        BY <4>2, <4>3, <4>4
    <3> QED
      BY <3>1 DEF GivesUp
  <2> QED
    BY <1>2, <2>1, <2>2 DEF HopTo
<1>3. CASE a = "in_progress"
  BY <1>3 DEF Decide, CarryOut, HopTo, GiveUp
<1>4. CASE a \in {"park", "reject", "fatal", "not_an_ack"}
  <2>1. CarryOut(Decide(a, n, age), n) = HopTo(IF a = "park" THEN "parked" ELSE "dlq", n)
    BY <1>4 DEF Decide, CarryOut, Outcome, FinalOutcome
  <2> QED
    BY <1>4, <2>1 DEF HopTo
<1>5. CASE a = "accept" \/ a = "stop"
  BY <1>5 DEF Decide, CarryOut, Outcome, FinalOutcome, SettleBy
<1> QED
  BY <1>1, <1>2, <1>3, <1>4, <1>5 DEF AllAnswers


\* Producers send first attempts, and the broker carries what it was given.
LEMMA CountedBroker ==
  ASSUME TypeOK, Holding, Counted, Next,
         \/ \E m \in Msgs, c \in Copies : Publish(m, c)
         \/ \E c \in Copies : Deliver(c) \/ DeliverBehind(c) \/ BrokerStep(c) \/ BrokerNacks(c)
         \/ ApplyTopology
         \/ \E q \in {"rung", "dlq", "parked"} : RemoveQueue(q)
  PROVE  Counted'
<1>1. ASSUME NEW m \in Msgs, NEW c \in Copies, Publish(m, c) PROVE Counted'
  <2>1. /\ copy'[c].msg = m /\ copy'[c].attempt = 1 /\ copy'[c].to = "queue"
        /\ \A x \in Copies \ {c} : copy'[x] = copy[x]
        /\ UNCHANGED <<work, pc, dlv, hop, aside>>
    BY <1>1 DEF Publish, TypeOK, workerVars
  <2>2. Within(1, m)
    BY DEF Within, TypeOK
  <2> QED
    BY <2>1, <2>2, StillCounted DEF Busy
<1>2. ASSUME NEW c \in Copies, Deliver(c) PROVE Counted'
  <2> DEFINE new == [id |-> c, gen |-> gen, msg |-> copy[c].msg, attempt |-> copy[c].attempt]
  <2>1. /\ new.msg = copy[c].msg /\ new.attempt = copy[c].attempt
        /\ copy[c].msg \in Msgs /\ copy[c].attempt \in Nat
        /\ Within(copy[c].attempt, copy[c].msg)
    BY <1>2 DEF Deliver, At, Counted, CountedCopies, Holding, TypeOK, Copy, Attempts
  <2>2. work' = work \cup {new} /\ UNCHANGED <<pc, dlv, hop, aside>>
    BY <1>2 DEF Deliver, workerVars
  <2>3. \A x \in Copies : /\ copy'[x].at # "free" => copy[x].at # "free"
                          /\ copy'[x].msg = copy[x].msg /\ copy'[x].attempt = copy[x].attempt
                          /\ copy'[x].to = copy[x].to
    BY <1>2 DEF Deliver, At, TypeOK, Copy
  <2>4. \A d \in work' : d \in work \/ (d.msg \in Msgs /\ d.attempt \in Nat /\ Within(d.attempt, d.msg))
    BY <2>1, <2>2
  <2> HIDE DEF new
  <2> QED
    BY <2>2, <2>3, <2>4, StillCounted DEF Busy
<1>7. ASSUME NEW c \in Copies, DeliverBehind(c) PROVE Counted'
  <2>1. /\ \A x \in Copies : /\ copy'[x].at # "free" => copy[x].at # "free"
                             /\ copy'[x].msg = copy[x].msg /\ copy'[x].attempt = copy[x].attempt
                             /\ copy'[x].to = copy[x].to
        /\ UNCHANGED <<work, pc, dlv, hop, aside>>
    BY <1>7 DEF DeliverBehind, At, TypeOK, Copy, workerVars
  <2> QED
    BY <2>1, StillCounted DEF Busy
<1>3. ASSUME NEW c \in Copies, RungExpires(c) PROVE Counted'
  <2>1. /\ \A x \in Copies : copy'[x].at # "free" =>
             /\ copy[x].at # "free" /\ copy'[x].msg = copy[x].msg
             /\ copy'[x].attempt = copy[x].attempt /\ copy'[x].to \in {copy[x].to, "queue"}
        /\ UNCHANGED <<work, pc, dlv, hop, aside>>
    BY <1>3 DEF RungExpires, At, TypeOK, Copy, Free, workerVars
  <2> QED
    BY <2>1, StillCounted DEF Busy
<1>4. ASSUME NEW c \in Copies, BrokerTakes(c) PROVE Counted'
  <2>1. copy[c].at = "wire" /\ UNCHANGED <<work, pc, dlv, hop>>
    BY <1>4 DEF BrokerTakes, Reply
  <2>2. \A x \in Copies : copy'[x].at # "free" =>
             /\ copy[x].at # "free" /\ copy'[x].msg = copy[x].msg
             /\ copy'[x].attempt = copy[x].attempt /\ copy'[x].to = copy[x].to
    BY <1>4 DEF BrokerTakes, TypeOK, Copy, Free
  <2>3. copy[c].msg \in Msgs /\ (copy[c].to = "dlq" => Ruled(copy[c].msg))
    BY <2>1 DEF Counted, CountedCopies, Holding
  <2>4. \/ aside' = aside
        \/ copy[c].to \in AsideQueues /\ aside' = [aside EXCEPT ![copy[c].to] = @ \cup {copy[c].msg}]
    BY <1>4 DEF BrokerTakes
  <2>5. \A m \in aside'["dlq"] : m \in aside["dlq"] \/ (m \in Msgs /\ Ruled(m))
    BY <2>3, <2>4 DEF TypeOK, AsideQueues
  <2> QED
    BY <2>1, <2>2, <2>5, StillCounted DEF Busy
<1>5. ASSUME NEW c \in Copies, BrokerReturns(c) \/ BrokerNacks(c) PROVE Counted'
  <2>1. /\ \A x \in Copies : copy'[x].at # "free" => copy'[x] = copy[x]
        /\ UNCHANGED <<work, pc, dlv, hop, aside>>
    BY <1>5 DEF BrokerReturns, BrokerNacks, Reply, TypeOK, Free
  <2> QED
    BY <2>1, StillCounted DEF Busy
<1>6. ASSUME ApplyTopology \/ \E q \in {"rung", "dlq", "parked"} : RemoveQueue(q)
      PROVE  Counted'
  <2>1. UNCHANGED <<copy, work, pc, dlv, hop, aside>>
    BY <1>6 DEF ApplyTopology, RemoveQueue, workerVars
  <2> QED
    BY <2>1, StillCounted DEF Busy
<1> QED
  BY <1>1, <1>2, <1>3, <1>4, <1>5, <1>6, <1>7 DEF BrokerStep

\* An answer raises the header by the failure it is, or leaves it.
LEMMA CountedAnswer ==
  ASSUME TypeOK, Holding, Counted, Next,
         NEW w \in Workers, NEW a \in Answers, NEW age \in Ages, HandlerAnswers(w, a, age)
  PROVE  Counted'
<1> DEFINE m == dlv[w].msg  n == dlv[w].attempt
           todo == CarryOut(Decide(a, n, age), n)
<1>1. /\ UNCHANGED <<copy, work, dlv, aside>> /\ Busy(w) /\ Remember(m, a, age)
      /\ \A v \in Workers \ {w} : pc'[v] = pc[v] /\ hop'[v] = hop[v]
      /\ pc'[w] = todo.pc /\ hop'[w] = todo.hop
  BY DEF HandlerAnswers, Proceed, Busy, TypeOK, brokerVars
<1>2. /\ m \in Msgs /\ n \in Attempts /\ Within(n, m) /\ a \in AllAnswers
      /\ failures[m] \in Nat /\ failures \in [Msgs -> Nat]
  BY <1>1, ConsumerAssumption DEF Holding, Delivery, Counted, CountedHands, TypeOK
<1>3. Policy.max_attempts \in Int /\ LastAttempt \in Nat /\ n \in Nat /\ n <= LastAttempt
  BY <1>2, ConsumerAssumption DEF Policies, LastAttempt, Attempts
<1>4. a = "retry" => failures'[m] = IF failures[m] < LastAttempt THEN failures[m] + 1 ELSE failures[m]
  BY <1>1, <1>2 DEF Remember
<1>5. WithinNow(n, m)
  BY <1>2, <1>3, FailuresGrow
<1>6. a = "retry" => WithinNow(n + 1, m)
  BY <1>2, <1>3, <1>4 DEF Within, WithinNow
<1>7. a \in {"reject", "fatal", "not_an_ack"} \/ (a = "retry" /\ TooOld(Policy, age)) => RuledNow(m)
  BY <1>1 DEF Remember, RuledNow
<1>8. a = "retry" /\ n >= Policy.max_attempts => RuledNow(m)
  <2> HIDE DEF m, n
  <2> QED
    BY <1>2, <1>3, <1>4 DEF Within, RuledNow, LastAttempt
<1>9. pc'[w] \in {"hop", "sent"} =>
        WithinNow(hop'[w].attempt, m) /\ (hop'[w].to = "dlq" => RuledNow(m))
  <2> SUFFICES ASSUME pc'[w] \in {"hop", "sent"}
               PROVE  WithinNow(hop'[w].attempt, m) /\ (hop'[w].to = "dlq" => RuledNow(m))
    OBVIOUS
  <2>1. todo.pc = "hop"
    BY <1>1, <1>2, PlanMade
  <2>2. /\ todo.hop.attempt = n \/ (a = "retry" /\ todo.hop.attempt = n + 1)
        /\ todo.hop.to = "dlq" => \/ a \in {"reject", "fatal", "not_an_ack"}
                                  \/ a = "retry" /\ (TooOld(Policy, age) \/ n >= Policy.max_attempts)
    BY <1>2, <2>1, PlanCounts
  <2> HIDE DEF todo, n, m
  <2> QED
    BY <1>1, <1>5, <1>6, <1>7, <1>8, <2>2
<1> HIDE DEF todo
<1> QED
  BY <1>1, <1>9, StillCounted DEF Busy

\* A worker carries on what it took, and its next copy carries the hop's attempt.
LEMMA CountedWorker ==
  ASSUME TypeOK, Holding, SettledOnce, Matching, Counted, Next,
         NEW w \in Workers, WorkerStep(w) \/ WorkerFault(w)
  PROVE  Counted'
<1>1. ASSUME NEW d \in work, Take(w, d) PROVE Counted'
  <2>1. /\ UNCHANGED <<copy, hop, aside>> /\ work' \subseteq work
        /\ dlv'[w] = d /\ pc'[w] \in {"nacking", "handling"}
        /\ \A v \in Workers \ {w} : dlv'[v] = dlv[v] /\ pc'[v] = pc[v]
    BY <1>1 DEF Take, TypeOK, brokerVars
  <2>2. d \in Delivery /\ Within(d.attempt, d.msg)
    BY DEF TypeOK, Counted, CountedHands
  <2> QED
    BY <2>1, <2>2, StillCounted DEF Busy
<1>2. ASSUME NEW c \in Copies, HopSent(w, c) PROVE Counted'
  <2>1. /\ UNCHANGED <<work, dlv, hop, aside>> /\ pc[w] = "hop" /\ pc'[w] = "sent"
        /\ \A v \in Workers \ {w} : pc'[v] = pc[v]
        /\ copy'[c] = [at |-> "wire", to |-> hop[w].to, msg |-> dlv[w].msg, attempt |-> hop[w].attempt]
        /\ \A x \in Copies \ {c} : copy'[x] = copy[x]
    BY <1>2 DEF HopSent, TypeOK
  <2>2. /\ dlv[w].msg \in Msgs /\ hop[w].attempt \in Nat
        /\ Within(hop[w].attempt, dlv[w].msg) /\ (hop[w].to = "dlq" => Ruled(dlv[w].msg))
    BY <2>1 DEF Holding, Busy, Delivery, Hop, Attempts, Counted, CountedHands
  <2>3. \A v \in Workers : /\ pc'[v] \in {"hop", "sent"} => pc[v] \in {"hop", "sent"}
                           /\ Busy(v)' => Busy(v)
    BY <2>1 DEF Busy
  <2>4. \A x \in Copies : copy'[x].at # "free" =>
           \/ /\ copy[x].at # "free" /\ copy'[x].msg = copy[x].msg
              /\ copy'[x].attempt = copy[x].attempt
              /\ copy'[x].to = "dlq" => copy[x].to = "dlq"
           \/ /\ copy'[x].msg \in Msgs /\ copy'[x].attempt \in Nat
              /\ Within(copy'[x].attempt, copy'[x].msg)
              /\ copy'[x].to = "dlq" => Ruled(copy'[x].msg)
    BY <2>1, <2>2
  <2> QED
    BY <2>1, <2>3, <2>4, StillCounted
<1>3. ASSUME NEW todo, Proceed(w, todo), UNCHANGED <<copy, work, aside>>, Busy(w),
             todo.pc \in {"hop", "sent"} =>
               /\ WithinNow(todo.hop.attempt, dlv[w].msg)
               /\ todo.hop.to = "dlq" => RuledNow(dlv[w].msg)
      PROVE  Counted'
  <2>1. /\ dlv' = dlv /\ pc'[w] = todo.pc /\ hop'[w] = todo.hop
        /\ \A v \in Workers \ {w} : pc'[v] = pc[v] /\ hop'[v] = hop[v]
    BY <1>3 DEF Proceed, TypeOK
  <2> QED
    BY <1>3, <2>1, StillCounted DEF Busy
<1>4. CASE Unreadable(w)
  <2>1. /\ UNCHANGED <<copy, work, aside>> /\ Busy(w)
        /\ Proceed(w, HopTo("parked", dlv[w].attempt))
    BY <1>4 DEF Unreadable, Busy, brokerVars
  <2>2. dlv[w].msg \in Msgs /\ dlv[w].attempt \in Nat /\ Within(dlv[w].attempt, dlv[w].msg)
    BY <2>1 DEF Holding, Delivery, Attempts, Counted, CountedHands
  <2>3. WithinNow(dlv[w].attempt, dlv[w].msg)
    BY <2>2, FailuresGrow
  <2> QED
    BY <1>3, <2>1, <2>3 DEF HopTo
<1>5. CASE HopAnswered(w) \/ HopRefused(w) \/ HopTimesOut(w)
  <2>1. /\ UNCHANGED <<copy, work, aside>> /\ Busy(w) /\ pc[w] \in {"hop", "sent"}
        /\ \E r : Proceed(w, AfterHop(hop[w], r))
    BY <1>5 DEF HopAnswered, HopRefused, HopTimesOut, Busy, brokerVars
  <2>2. PICK r : Proceed(w, AfterHop(hop[w], r))
    BY <2>1
  <2>3. /\ dlv[w].msg \in Msgs /\ hop[w].attempt \in Nat /\ Within(hop[w].attempt, dlv[w].msg)
    BY <2>1 DEF Holding, Delivery, Hop, Attempts, Counted, CountedHands
  <2>4. WithinNow(hop[w].attempt, dlv[w].msg)
    BY <2>3, FailuresGrow
  <2>5. \/ AfterHop(hop[w], r).pc \in {"acking", "nacking"}
        \/ AfterHop(hop[w], r) = HopTo("queue", hop[w].attempt)
    BY DEF AfterHop, SettleBy
  <2>6. AfterHop(hop[w], r).pc \in {"hop", "sent"} =>
          /\ WithinNow(AfterHop(hop[w], r).hop.attempt, dlv[w].msg)
          /\ AfterHop(hop[w], r).hop.to = "dlq" => RuledNow(dlv[w].msg)
    BY <2>4, <2>5 DEF HopTo
  <2> QED
    BY <1>3, <2>1, <2>2, <2>6
<1>6. CASE Ack(w) \/ Nack(w)
  <2>1. /\ UNCHANGED <<work, aside>> /\ Busy(w) /\ pc'[w] = "idle"
        /\ \A v \in Workers \ {w} : dlv'[v] = dlv[v] /\ pc'[v] = pc[v] /\ hop'[v] = hop[v]
    BY <1>6 DEF Ack, Nack, LetGo, Busy, TypeOK
  <2>2. Live(dlv[w]) => dlv[w].id \in Copies /\ copy[dlv[w].id].at = "unacked"
    BY <2>1, InHandIsOut
  <2>3. \A x \in Copies : \/ copy'[x] = copy[x] \/ copy'[x] = Free
                          \/ /\ copy[x].at = "unacked" /\ copy'[x].msg = copy[x].msg
                             /\ copy'[x].attempt = copy[x].attempt /\ copy'[x].to = copy[x].to
    BY <1>6, <2>2 DEF Ack, Nack, Requeued, TypeOK, Copy
  <2>4. \A x \in Copies : copy'[x].at # "free" =>
             /\ copy[x].at # "free" /\ copy'[x].msg = copy[x].msg
             /\ copy'[x].attempt = copy[x].attempt /\ copy'[x].to = copy[x].to
    BY <2>3 DEF Free
  <2> QED
    BY <2>1, <2>4, StillCounted DEF Busy
<1>7. CASE HopEscapes(w) \/ WorkerReturns(w)
  <2>1. /\ UNCHANGED <<copy, work, aside>> /\ pc'[w] \in {"idle", "done"}
        /\ \A v \in Workers \ {w} : dlv'[v] = dlv[v] /\ pc'[v] = pc[v] /\ hop'[v] = hop[v]
    BY <1>7 DEF HopEscapes, WorkerReturns, LetGo, TypeOK, brokerVars
  <2> QED
    BY <2>1, StillCounted DEF Busy
<1> QED
  BY <1>1, <1>2, <1>4, <1>5, <1>6, <1>7, CountedAnswer DEF WorkerStep, WorkerFault

\* Starting, closing, lost connections and crashes move no header and no message.
LEMMA CountedClose ==
  ASSUME TypeOK, Holding, SettledOnce, Matching, Counted, Next,
         \/ Start \/ CloseBegins \/ Drain \/ AllReturned \/ CutOff \/ CloseRaises \/ Release \/ Reopens
         \/ \E done \in 0..4 : StartFails(done)
         \/ \E lost \in SUBSET OnTheWire : ConnectionLost(lost) \/ Crash(lost)
  PROVE  Counted'
<1> DEFINE Kept == \A x \in Copies : copy'[x].at # "free" =>
                     /\ copy[x].at # "free" /\ copy'[x].msg = copy[x].msg
                     /\ copy'[x].attempt = copy[x].attempt /\ copy'[x].to = copy[x].to
<1>1. \A c \in Copies :
        /\ AllRequeued[c].at # "free" => copy[c].at # "free"
        /\ AllRequeued[c].msg = copy[c].msg /\ AllRequeued[c].attempt = copy[c].attempt
        /\ AllRequeued[c].to = copy[c].to
  BY DEF AllRequeued, Requeued, TypeOK, Copy
<1>2. CASE CloseBegins \/ StopAcknowledged \/ PutSentinels \/ AllReturned \/ Reopens
           \/ \E done \in 0..4 : StartFails(done)
  <2>1. UNCHANGED <<copy, work, pc, dlv, hop, aside>>
    BY <1>2 DEF CloseBegins, StopAcknowledged, PutSentinels, AllReturned, Reopens, StartFails,
                brokerVars, workerVars
  <2> QED
    BY <2>1, StillCounted DEF Busy
<1>3. CASE Start \/ CutOff \/ CloseRaises
  <2>1. UNCHANGED <<copy, work, aside>> /\ \A w \in Workers : pc'[w] \in {"idle", "done"}
    BY <1>3 DEF Start, CutOff, CloseRaises, CutShort, NoWorkers, brokerVars
  <2> QED
    BY <2>1, StillCounted DEF Busy
<1>4. ASSUME NEW d \in work, DrainOne(d) PROVE Counted'
  <2>1. UNCHANGED <<pc, dlv, hop, aside>> /\ work' \subseteq work
    BY <1>4 DEF DrainOne, workerVars
  <2>2. Live(d) => d.id \in Copies /\ copy[d.id].at = "unacked"
    BY InHandIsOut
  <2>3. Kept
    BY <1>4, <2>2 DEF DrainOne, Requeued, TypeOK, Copy
  <2> QED
    BY <2>1, <2>3, StillCounted DEF Busy
<1>5. CASE Release
  <2>1. UNCHANGED <<pc, dlv, hop, aside>> /\ work' = {}
    BY <1>5 DEF Release, workerVars
  <2>2. Kept
    BY <1>1, <1>5, GivenBack
  <2> QED
    BY <2>1, <2>2, StillCounted DEF Busy
<1>6. ASSUME NEW lost \in SUBSET OnTheWire, ConnectionLost(lost) \/ Crash(lost)
      PROVE  Counted'
  <2>1. /\ UNCHANGED aside /\ work' \subseteq work
        /\ copy' = WireLost(lost)
        /\ (\A w \in Workers : pc'[w] = "done") \/ UNCHANGED <<pc, dlv, hop>>
    BY <1>6 DEF ConnectionLost, Crash, NoWorkers
  <2>2. \A c \in Copies : copy'[c] = Free \/ copy'[c] = AllRequeued[c]
    BY <2>1 DEF WireLost
  <2>3. Kept
    BY <1>1, <2>2 DEF Free
  <2> QED
    BY <2>1, <2>3, StillCounted DEF Busy
<1> QED
  BY <1>2, <1>3, <1>4, <1>5, <1>6 DEF Drain

\* The attempt header counts failures of the handler and nothing else, through
\* redeliveries, refused hops, put-backs and crashes, and no message starts an attempt
\* past the last; what is dead-lettered was ruled out or failed as often as allowed.
THEOREM AttemptsCounted == Spec => []AttemptsAreFailures
<1>1. Init => Counted
  BY DEF Init, Free, Busy, AsideQueues, Counted, CountedCopies, CountedHands
<1>2. NoLossInv /\ Counted /\ [Next]_vars => Counted'
  <2> SUFFICES ASSUME NoLossInv, Counted, [Next]_vars PROVE Counted'
    OBVIOUS
  <2>1. CASE UNCHANGED vars
    <3>1. UNCHANGED <<copy, work, pc, dlv, hop, aside>>
      BY <2>1 DEF vars, brokerVars, workerVars
    <3> QED
      BY <3>1, StillCounted DEF Busy, NoLossInv
  <2>2. CASE Next
    BY <2>2, CountedBroker, CountedWorker, CountedClose DEF NoLossInv, Next, Ongoing
  <2> QED
    BY <2>1, <2>2
<1>3. NoLossInv /\ Counted => AttemptsAreFailures
  <2> SUFFICES ASSUME NoLossInv, Counted PROVE AttemptsAreFailures
    OBVIOUS
  <2>1. \A c \in Copies : copy[c].attempt <= LastAttempt
    BY ConsumerAssumption DEF NoLossInv, TypeOK, Copy, Attempts, LastAttempt, Policies
  <2> QED
    BY <2>1 DEF AttemptsAreFailures, Counted, CountedCopies, Within, Ruled
<1> QED
  BY <1>1, <1>2, <1>3, Invariant, PTL DEF Spec


-----------------------------------------------------------------------------
(* Undisturbed, a message is in one place *)

\* What the workers are about to acknowledge.
Dooming(w) == pc[w] = "acking" \/ (pc[w] = "sent" /\ answer[w] = "confirmed")

\* One copy at most still stands for m, and none once m is settled, in one way.
Single(m) ==
  /\ \A c, x \in Remaining(m) : c = x
  /\ Remaining(m) # {} => ~Settled(m)
  /\ m \in handled => ~SetAside(m)
  /\ \A p, q \in AsideQueues : m \in aside[p] /\ m \in aside[q] => p = q

AllSingle == \A m \in published \ disturbed : Single(m)

\* What is under way of an undisturbed message can be settled: its copy on the wire
\* is awaited by the worker that will acknowledge the original.
Traced ==
  /\ \A c \in Copies : copy[c].at = "wire" /\ copy[c].msg \notin disturbed =>
       \E w \in Workers : sent[w] = c /\ Live(dlv[w])
  /\ \A d \in work : d.msg \notin disturbed => Live(d)
  /\ \A w \in Workers : Busy(w) /\ dlv[w].msg \notin disturbed => Live(dlv[w])

Once == AllSingle /\ Traced

\* The sets and conditions of Single after a step.
HeldNow(x) == copy'[x].at \in {"stored", "unacked"}
DoomedNow(x) ==
  \E w \in Workers :
    /\ pc'[w] = "acking" \/ (pc'[w] = "sent" /\ answer'[w] = "confirmed")
    /\ dlv'[w].id = x
    /\ dlv'[w].gen = gen'
RemainingNow(m) == {x \in Copies : copy'[x].msg = m /\ HeldNow(x) /\ ~DoomedNow(x)}
SetAsideNow(m) == \E q \in AsideQueues : m \in aside'[q]
SingleNow(m) ==
  /\ \A c, x \in RemainingNow(m) : c = x
  /\ RemainingNow(m) # {} => ~(m \in handled' \/ SetAsideNow(m))
  /\ m \in handled' => ~SetAsideNow(m)
  /\ \A p, q \in AsideQueues : m \in aside'[p] /\ m \in aside'[q] => p = q

LEMMA NowIs == AllSingle' <=> \A m \in published' \ disturbed' : SingleNow(m)
BY DEF AllSingle, Single, SingleNow, Remaining, RemainingNow, Held, HeldNow, Doomed, DoomedNow,
       Live, SetAside, SetAsideNow, Settled

\* A step that neither adds a copy of an undisturbed message nor settles it.
LEMMA StillSingle ==
  ASSUME AllSingle, UNCHANGED <<published, handled, aside>>, disturbed \subseteq disturbed',
         \A m \in published \ disturbed' : RemainingNow(m) \subseteq Remaining(m)
  PROVE  AllSingle'
<1>1. ASSUME NEW m \in published' \ disturbed' PROVE SingleNow(m)
  <2>1. Single(m) /\ RemainingNow(m) \subseteq Remaining(m) /\ SetAsideNow(m) = SetAside(m)
    BY <1>1 DEF AllSingle, SetAside, SetAsideNow
  <2> QED
    BY <2>1 DEF Single, SingleNow, Settled
<1> QED
  BY <1>1, NowIs

\* Nothing is added if what was doomed stays so, is gone, or is of a disturbed message.
LEMMA StillRemaining ==
  ASSUME TypeOK, Holding, SettledOnce, Matching, gen' = gen,
         \A x \in Copies : HeldNow(x) => Held(x) /\ copy'[x].msg = copy[x].msg,
         \A w \in Workers : Dooming(w) /\ Live(dlv[w]) =>
           \/ /\ pc'[w] = "acking" \/ (pc'[w] = "sent" /\ answer'[w] = "confirmed")
              /\ dlv'[w] = dlv[w]
           \/ dlv[w].msg \in disturbed'
           \/ ~HeldNow(dlv[w].id)
  PROVE  \A m \in published \ disturbed' : RemainingNow(m) \subseteq Remaining(m)
<1> SUFFICES ASSUME NEW m \in published \ disturbed', NEW x \in RemainingNow(m)
             PROVE  x \in Remaining(m)
  OBVIOUS
<1>1. x \in Copies /\ copy'[x].msg = m /\ HeldNow(x) /\ ~DoomedNow(x)
  BY DEF RemainingNow
<1>2. Held(x) /\ copy[x].msg = m
  BY <1>1
<1>3. ASSUME NEW w \in Workers, Dooming(w), dlv[w].id = x, Live(dlv[w]) PROVE FALSE
  <2>1. dlv[w].msg = m
    BY <1>2, <1>3 DEF Matching, Busy, Dooming
  <2>2. /\ pc'[w] = "acking" \/ (pc'[w] = "sent" /\ answer'[w] = "confirmed")
        /\ dlv'[w] = dlv[w]
    BY <1>1, <1>3, <2>1
  <2> QED
    BY <1>1, <1>3, <2>2 DEF DoomedNow, Live
<1>4. ~Doomed(x)
  BY <1>3 DEF Doomed, Dooming
<1> QED
  BY <1>1, <1>2, <1>4 DEF Remaining

\* What is under way stays so, is disturbed, or arrives.
LEMMA StillTraced ==
  ASSUME TypeOK, Holding, SettledOnce, Matching, Traced, gen' = gen, disturbed \subseteq disturbed',
         \A c \in Copies : copy'[c].at = "wire" =>
           copy[c].at = "wire" /\ copy'[c].msg = copy[c].msg,
         \A w \in Workers : sent[w] # None =>
           \/ sent'[w] = sent[w] /\ dlv'[w] = dlv[w]
           \/ dlv[w].msg \in disturbed'
           \/ copy'[sent[w]].at # "wire",
         work' \subseteq work,
         \A w \in Workers : Busy(w)' => (Busy(w) /\ dlv'[w] = dlv[w]) \/ dlv'[w] \in work
  PROVE  Traced'
<1>1. ASSUME NEW c \in Copies, copy'[c].at = "wire", copy'[c].msg \notin disturbed'
      PROVE  \E w \in Workers : sent'[w] = c /\ dlv'[w].gen = gen'
  <2>1. PICK w \in Workers : sent[w] = c /\ Live(dlv[w])
    BY <1>1 DEF Traced
  <2>2. c # None
    BY ConsumerAssumption
  <2>3. copy[c].msg = dlv[w].msg
    BY <2>1, <2>2 DEF Matching
  <2>4. sent'[w] = sent[w] /\ dlv'[w] = dlv[w]
    BY <1>1, <2>1, <2>2, <2>3
  <2> QED
    BY <2>1, <2>4 DEF Live
<1>2. \A d \in work' : d.msg \notin disturbed' => d.gen = gen'
  BY DEF Traced, Live
<1>3. \A w \in Workers : Busy(w)' /\ dlv'[w].msg \notin disturbed' => dlv'[w].gen = gen'
  BY DEF Traced, Live
<1> QED
  BY <1>1, <1>2, <1>3 DEF Traced, Live

\* Producers add the first copy of their message; the broker delivers and refuses.
LEMMA OnceBroker ==
  ASSUME ContractInv, Once,
         \/ \E m \in Msgs, c \in Copies : Publish(m, c)
         \/ \E c \in Copies : Deliver(c) \/ DeliverBehind(c)
         \/ \E c \in Copies : BrokerReturns(c) \/ RungExpires(c) \/ BrokerNacks(c)
         \/ ApplyTopology
         \/ \E q \in {"rung", "dlq", "parked"} : RemoveQueue(q)
  PROVE  Once'
<1> USE DEF ContractInv, NoLossInv, Once
<1>1. ASSUME NEW m \in Msgs, NEW c \in Copies, Publish(m, c) PROVE Once'
  <2>1. /\ m \notin published /\ published' = published \cup {m} /\ copy[c].at = "free"
        /\ copy'[c].msg = m /\ copy'[c].at = "stored"
        /\ \A x \in Copies \ {c} : copy'[x] = copy[x]
        /\ UNCHANGED <<work, pc, dlv, sent, answer, gen, phase, handled, aside, disturbed>>
    BY <1>1 DEF Publish, Fresh, Free, TypeOK, workerVars, ghostVars
  <2>2. /\ m \notin handled /\ ~SetAside(m)
        /\ \A x \in Copies : copy[x].at # "free" => copy[x].msg # m
    BY <2>1 DEF OnlyPublished, KnownCopies, KnownEnds, SetAside
  <2>3. \A x \in Copies : DoomedNow(x) <=> Doomed(x)
    BY <2>1 DEF DoomedNow, Doomed, Live
  <2>4. ASSUME NEW n \in published' \ disturbed' PROVE SingleNow(n)
    <3>1. CASE n = m
      <4>1. RemainingNow(m) \subseteq {c}
        BY <2>1, <2>2 DEF RemainingNow, HeldNow
      <4> QED
        BY <2>1, <2>2, <3>1, <4>1 DEF SingleNow, SetAsideNow, SetAside
    <3>2. CASE n # m
      <4>1. RemainingNow(n) \subseteq Remaining(n)
        BY <2>1, <2>3, <3>2 DEF RemainingNow, Remaining, HeldNow, Held
      <4>2. Single(n) /\ SetAsideNow(n) = SetAside(n)
        BY <2>1, <2>4, <3>2 DEF AllSingle, SetAside, SetAsideNow
      <4> QED
        BY <2>1, <4>1, <4>2 DEF Single, SingleNow, Settled
    <3> QED
      BY <3>1, <3>2
  <2>5. AllSingle'
    BY <2>4, NowIs
  <2>6. Traced'
    BY <2>1, StillTraced DEF Busy
  <2> QED
    BY <2>5, <2>6
<1>2. ASSUME UNCHANGED <<published, handled, aside, disturbed, gen, dlv, pc, phase>>,
             UNCHANGED <<sent, answer>> \/
               \E c \in Copies, r \in {"returned", "nacked"} :
                 Reply(c, r) /\ copy'[c].at = "free",
             \A x \in Copies : HeldNow(x) => Held(x) /\ copy'[x].msg = copy[x].msg,
             \A x \in Copies : copy'[x].at = "wire" => copy[x].at = "wire" /\ copy'[x].msg = copy[x].msg
      PROVE  AllSingle' /\ (work' \subseteq work => Traced')
  <2>1. \A w \in Workers : Dooming(w) => pc'[w] = "acking" \/ (pc'[w] = "sent" /\ answer'[w] = "confirmed")
    <3>1. \A w \in Workers : answer[w] = "confirmed" => sent[w] = None
      BY ConsumerAssumption DEF Holding
    <3>2. \A w \in Workers : answer[w] = "confirmed" => answer'[w] = "confirmed"
      BY <1>2, <3>1, ConsumerAssumption DEF Reply
    <3> QED
      BY <1>2, <3>2 DEF Dooming
  <2>2. \A m \in published \ disturbed' : RemainingNow(m) \subseteq Remaining(m)
    BY <1>2, <2>1, StillRemaining
  <2>3. AllSingle'
    BY <1>2, <2>2, StillSingle
  <2>4. \A w \in Workers : sent[w] # None =>
           sent'[w] = sent[w] \/ copy'[sent[w]].at # "wire"
    BY <1>2 DEF Reply, TypeOK
  <2>5. work' \subseteq work => Traced'
    BY <1>2, <2>4, StillTraced DEF Busy
  <2> QED
    BY <2>3, <2>5
<1>7. ASSUME NEW c \in Copies, DeliverBehind(c) PROVE Once'
  <2>1. /\ copy[c].at = "stored" /\ copy'[c].at = "unacked"
        /\ copy'[c].msg = copy[c].msg
        /\ \A x \in Copies \ {c} : copy'[x] = copy[x]
        /\ UNCHANGED <<published, work, pc, dlv, sent, answer, gen, phase, handled, aside, disturbed>>
    BY <1>7 DEF DeliverBehind, At, TypeOK, Copy, workerVars, ghostVars
  <2> QED
    BY <1>2, <2>1 DEF HeldNow, Held
<1>3. ASSUME NEW c \in Copies, Deliver(c) PROVE Once'
  <2> DEFINE new == [id |-> c, gen |-> gen, msg |-> copy[c].msg, attempt |-> copy[c].attempt]
  <2>1. /\ copy[c].at = "stored" /\ copy'[c].at = "unacked"
        /\ copy'[c].msg = copy[c].msg
        /\ \A x \in Copies \ {c} : copy'[x] = copy[x]
        /\ work' = work \cup {new} /\ new.gen = gen
        /\ UNCHANGED <<published, pc, dlv, sent, answer, gen, phase, handled, aside, disturbed>>
    BY <1>3 DEF Deliver, At, TypeOK, Copy, workerVars, ghostVars
  <2> HIDE DEF new
  <2>2. AllSingle'
    BY <1>2, <2>1 DEF HeldNow, Held
  <2>3. Traced'
    BY <2>1 DEF Traced, Live, Busy
  <2> QED
    BY <2>2, <2>3
<1>4. ASSUME NEW c \in Copies, RungExpires(c) PROVE Once'
  <2>1. /\ copy[c].at = "stored"
        /\ \A x \in Copies \ {c} : copy'[x] = copy[x]
        /\ copy'[c].at = "free" \/ (copy'[c].at = "stored" /\ copy'[c].msg = copy[c].msg)
        /\ UNCHANGED <<published, work, pc, dlv, sent, answer, gen, phase, handled, aside, disturbed>>
    BY <1>4 DEF RungExpires, At, Free, TypeOK, Copy, workerVars, ghostVars
  <2>2. AllSingle' /\ Traced'
    BY <1>2, <2>1 DEF HeldNow, Held
  <2> QED
    BY <2>2
<1>5. ASSUME NEW c \in Copies, BrokerReturns(c) \/ BrokerNacks(c) PROVE Once'
  <2>1. /\ \A x \in Copies \ {c} : copy'[x] = copy[x]
        /\ copy'[c].at = "free"
        /\ Reply(c, "returned") \/ Reply(c, "nacked")
        /\ UNCHANGED <<published, work, pc, dlv, gen, phase, handled, aside, disturbed>>
    BY <1>5 DEF BrokerReturns, BrokerNacks, Reply, Free, TypeOK, ghostVars
  <2>2. AllSingle' /\ Traced'
    BY <1>2, <2>1 DEF HeldNow, Held
  <2> QED
    BY <2>2
<1>6. ASSUME ApplyTopology \/ \E q \in {"rung", "dlq", "parked"} : RemoveQueue(q)
      PROVE  Once'
  <2>1. UNCHANGED <<copy, published, work, pc, dlv, sent, answer, gen, phase, handled, aside, disturbed>>
    BY <1>6 DEF ApplyTopology, RemoveQueue, workerVars, ghostVars
  <2>2. AllSingle' /\ Traced'
    BY <1>2, <2>1 DEF HeldNow, Held
  <2> QED
    BY <2>2
<1> QED
  BY <1>1, <1>3, <1>4, <1>5, <1>6, <1>7

\* What the broker takes over replaces the original, which its sender will acknowledge.
LEMMA OnceTaken ==
  ASSUME ContractInv, Once, NEW c \in Copies, BrokerTakes(c)
  PROVE  Once'
<1> USE DEF ContractInv, NoLossInv, Once
<1> DEFINE m == copy[c].msg
<1>1. /\ copy[c].at = "wire" /\ m \in published /\ Reply(c, "confirmed")
      /\ \A x \in Copies \ {c} : copy'[x] = copy[x]
      /\ copy'[c].at \in {"free", "stored"}
      /\ UNCHANGED <<published, work, pc, dlv, gen, phase, handled, disturbed>>
  BY DEF BrokerTakes, Reply, Free, TypeOK, Copy, OnlyPublished, KnownCopies, ghostVars
<1>2. \/ aside' = aside /\ copy'[c].msg = m
      \/ /\ copy'[c].at = "free"
         /\ \E q \in AsideQueues : aside' = [aside EXCEPT ![q] = @ \cup {m}]
  BY DEF BrokerTakes, Free, TypeOK, Copy
<1>3. \A w \in Workers : answer[w] = "confirmed" => sent[w] = None /\ answer'[w] = "confirmed"
  BY <1>1, ConsumerAssumption DEF Holding, Reply
<1>4. \A x \in Copies : Doomed(x) => DoomedNow(x)
  BY <1>1, <1>3 DEF Doomed, DoomedNow, Live
<1>5. ASSUME NEW n \in published \ disturbed, n # m PROVE SingleNow(n)
  <2>1. RemainingNow(n) \subseteq Remaining(n)
    <3> SUFFICES ASSUME NEW x \in RemainingNow(n) PROVE x \in Remaining(n)
      OBVIOUS
    <3>1. x \in Copies /\ copy'[x].msg = n /\ HeldNow(x) /\ ~DoomedNow(x)
      BY DEF RemainingNow
    <3>2. x # c
      BY <1>2, <1>5, <3>1 DEF HeldNow
    <3> QED
      BY <1>1, <1>4, <3>1, <3>2 DEF Remaining, HeldNow, Held
  <2>2. Single(n)
    BY DEF AllSingle
  <2>3. \A q \in AsideQueues : n \in aside'[q] <=> n \in aside[q]
    BY <1>2, <1>5 DEF TypeOK
  <2> QED
    BY <1>1, <2>1, <2>2, <2>3 DEF Single, SingleNow, Settled, SetAside, SetAsideNow
<1>6. ASSUME m \notin disturbed PROVE SingleNow(m)
  <2>1. PICK w \in Workers : sent[w] = c /\ Live(dlv[w])
    BY <1>1, <1>6 DEF Traced
  <2> DEFINE o == dlv[w].id
  <2>2. c # None
    BY ConsumerAssumption
  <2>3. Busy(w) /\ pc[w] = "sent" /\ answer[w] = None /\ dlv[w].msg = m
    BY <2>1, <2>2 DEF Holding, Matching, Busy
  <2>4. o \in Copies /\ copy[o].at = "unacked" /\ copy[o].msg = m
    BY <2>1, <2>3, InHandIsOut DEF Matching
  <2>5. ~Doomed(o)
    <3> SUFFICES ASSUME NEW v \in Workers, pc[v] = "acking" \/ (pc[v] = "sent" /\ answer[v] = "confirmed"),
                        dlv[v].id = o, Live(dlv[v])
                 PROVE  FALSE
      BY DEF Doomed
    <3>1. Busy(v)
      BY DEF Busy
    <3>2. v = w
      BY <2>1, <2>3, <3>1 DEF SettledOnce
    <3> QED
      BY <2>3, <3>2, ConsumerAssumption
  <2>6. Single(m) /\ o \in Remaining(m)
    BY <1>1, <1>6, <2>4, <2>5 DEF AllSingle, Remaining, Held
  <2>7. Remaining(m) = {o} /\ ~Settled(m)
    BY <2>6 DEF Single
  <2>8. DoomedNow(o)
    <3>1. answer'[w] = "confirmed" /\ pc'[w] = "sent" /\ dlv'[w] = dlv[w] /\ gen' = gen
      BY <1>1, <2>1, <2>3 DEF Reply
    <3> QED
      BY <2>1, <3>1 DEF DoomedNow, Live
  <2>9. RemainingNow(m) \subseteq IF copy'[c].at = "free" THEN {} ELSE {c}
    <3> SUFFICES ASSUME NEW x \in RemainingNow(m) PROVE x = c /\ copy'[c].at # "free"
      OBVIOUS
    <3>1. x \in Copies /\ copy'[x].msg = m /\ HeldNow(x) /\ ~DoomedNow(x)
      BY DEF RemainingNow
    <3>2. x # c => x \in Remaining(m)
      BY <1>1, <1>4, <3>1 DEF Remaining, HeldNow, Held
    <3> QED
      BY <2>7, <2>8, <3>1, <3>2 DEF HeldNow
  <2> HIDE DEF m, o
  <2>10. m \notin handled' /\ \A q \in AsideQueues : m \notin aside[q]
    BY <1>1, <2>7 DEF Settled, SetAside
  <2>11. CASE aside' = aside
    BY <2>9, <2>10, <2>11 DEF SingleNow, SetAsideNow
  <2>12. CASE /\ copy'[c].at = "free"
              /\ \E q \in AsideQueues : aside' = [aside EXCEPT ![q] = @ \cup {m}]
    <3>1. RemainingNow(m) = {}
      BY <2>9, <2>12
    <3>2. \A p, q \in AsideQueues : m \in aside'[p] /\ m \in aside'[q] => p = q
      BY <2>10, <2>12 DEF TypeOK
    <3> QED
      BY <2>10, <3>1, <3>2 DEF SingleNow
  <2> QED
    BY <1>2, <2>11, <2>12
<1>7. AllSingle'
  BY <1>1, <1>5, <1>6, NowIs
<1>8. Traced'
  <2>1. \A x \in Copies : copy'[x].at = "wire" => copy[x].at = "wire" /\ copy'[x].msg = copy[x].msg
    BY <1>1
  <2>2. \A w \in Workers : sent[w] # None => sent'[w] = sent[w] \/ copy'[sent[w]].at # "wire"
    BY <1>1 DEF Reply
  <2> QED
    BY <1>1, <2>1, <2>2, StillTraced DEF Busy
<1> QED
  BY <1>7, <1>8

\* An accepted message loses its copy as it is accepted; no other answer settles one.
LEMMA OnceAnswered ==
  ASSUME ContractInv, Once,
         NEW w \in Workers, NEW a \in Answers, NEW age \in Ages, HandlerAnswers(w, a, age)
  PROVE  Once'
<1> USE DEF ContractInv, NoLossInv, Once
<1> DEFINE m == dlv[w].msg  o == dlv[w].id
           todo == CarryOut(Decide(a, dlv[w].attempt, age), dlv[w].attempt)
<1>1. /\ UNCHANGED <<copy, aside, published, phase, work, gen, dlv, disturbed>>
      /\ pc[w] = "handling" /\ Busy(w) /\ pc'[w] = todo.pc
      /\ \A v \in Workers \ {w} : pc'[v] = pc[v] /\ sent'[v] = sent[v] /\ answer'[v] = answer[v]
      /\ sent[w] = None /\ sent'[w] = None
      /\ handled' = IF a = "accept" THEN handled \cup {m} ELSE handled
  BY DEF HandlerAnswers, Proceed, Remember, Busy, Holding, TypeOK, brokerVars
<1>2. dlv[w] \in Delivery /\ a \in AllAnswers
  BY <1>1, ConsumerAssumption DEF Holding
<1>3. /\ todo.pc \in {"hop", "acking", "nacking"}
      /\ todo.pc = "acking" <=> a = "accept"
  <2>1. /\ todo.pc \in {"hop", "acking", "nacking"}
        /\ todo.pc = "acking" => a = "accept"
    BY <1>2, PlanMade DEF Delivery
  <2>2. a = "accept" => todo.pc = "acking"
    BY DEF CarryOut, Decide, Outcome, FinalOutcome, SettleBy
  <2> QED
    BY <2>1, <2>2
<1> HIDE DEF todo
<1>4. \A x \in Copies : Doomed(x) => DoomedNow(x)
  BY <1>1 DEF Doomed, DoomedNow, Live
<1>5. \A n : RemainingNow(n) \subseteq Remaining(n)
  BY <1>1, <1>4 DEF RemainingNow, Remaining, HeldNow, Held
<1>6. AllSingle'
  <2>1. CASE a # "accept"
    BY <1>1, <1>5, <2>1, StillSingle
  <2>2. CASE a = "accept"
    <3>1. ASSUME NEW n \in published \ disturbed, n # m PROVE SingleNow(n)
      <4>1. Single(n) /\ RemainingNow(n) \subseteq Remaining(n)
        BY <1>5 DEF AllSingle
      <4> HIDE DEF m
      <4> QED
        BY <1>1, <3>1, <4>1 DEF Single, SingleNow, Settled, SetAside, SetAsideNow
    <3>2. ASSUME m \notin disturbed, m \in published PROVE SingleNow(m)
      <4>1. Live(dlv[w])
        BY <1>1, <3>2 DEF Traced
      <4>2. o \in Copies /\ copy[o].at = "unacked" /\ copy[o].msg = m
        BY <1>1, <4>1, InHandIsOut DEF Matching
      <4>3. ~Doomed(o)
        <5> SUFFICES ASSUME NEW v \in Workers, pc[v] = "acking" \/ (pc[v] = "sent" /\ answer[v] = "confirmed"),
                            dlv[v].id = o, Live(dlv[v])
                     PROVE  FALSE
          BY DEF Doomed
        <5>1. Busy(v)
          BY DEF Busy
        <5>2. v = w
          BY <1>1, <4>1, <5>1 DEF SettledOnce
        <5> QED
          BY <1>1, <5>2
      <4>4. Single(m) /\ o \in Remaining(m)
        BY <3>2, <4>2, <4>3 DEF AllSingle, Remaining, Held
      <4>5. Remaining(m) = {o} /\ ~Settled(m)
        BY <4>4 DEF Single
      <4>6. DoomedNow(o)
        BY <1>1, <1>3, <2>2, <4>1 DEF DoomedNow, Live
      <4>7. RemainingNow(m) = {}
        BY <1>5, <4>5, <4>6 DEF RemainingNow
      <4>8. ~SetAsideNow(m) /\ \A q \in AsideQueues : m \notin aside'[q]
        BY <1>1, <4>5 DEF Settled, SetAside, SetAsideNow
      <4> QED
        BY <4>7, <4>8 DEF SingleNow
    <3> QED
      BY <1>1, <3>1, <3>2, NowIs
  <2> QED
    BY <2>1, <2>2
<1>7. Traced'
  BY <1>1, StillTraced DEF Busy
<1> QED
  BY <1>6, <1>7

\* A worker keeps an undisturbed message in one place whatever it does with it.
LEMMA OnceWorker ==
  ASSUME ContractInv, Once, NEW w \in Workers, WorkerStep(w) \/ WorkerFault(w)
  PROVE  Once'
<1> USE DEF ContractInv, NoLossInv, Once
<1>1. ASSUME NEW d \in work, Take(w, d) PROVE Once'
  <2>1. /\ UNCHANGED <<copy, published, phase, sent, answer, gen, handled, aside, disturbed>>
        /\ work' \subseteq work /\ phase # "off"
        /\ pc[w] = "idle" /\ pc'[w] \in {"nacking", "handling"} /\ dlv'[w] = d
        /\ \A v \in Workers \ {w} : dlv'[v] = dlv[v] /\ pc'[v] = pc[v]
    BY <1>1 DEF Take, TypeOK, brokerVars, ghostVars
  <2>2. sent[w] = None
    BY <2>1 DEF Holding
  <2>3. \A v \in Workers : Dooming(v) => pc'[v] = pc[v] /\ answer'[v] = answer[v] /\ dlv'[v] = dlv[v]
    BY <2>1 DEF Dooming
  <2>4. AllSingle'
    <3>1. \A m \in published \ disturbed' : RemainingNow(m) \subseteq Remaining(m)
      BY <2>1, <2>3, StillRemaining DEF HeldNow, Held, Dooming
    <3> QED
      BY <2>1, <3>1, StillSingle
  <2>5. Traced'
    BY <2>1, <2>2, StillTraced DEF Busy
  <2> QED
    BY <2>4, <2>5
<1>2. ASSUME NEW c \in Copies, HopSent(w, c) PROVE Once'
  <2>1. /\ UNCHANGED <<published, phase, work, dlv, answer, gen, handled, aside, disturbed>>
        /\ pc[w] = "hop" /\ pc'[w] = "sent" /\ sent'[w] = c
        /\ \A v \in Workers \ {w} : pc'[v] = pc[v] /\ sent'[v] = sent[v]
        /\ copy'[c].at = "wire" /\ copy'[c].msg = dlv[w].msg
        /\ \A x \in Copies \ {c} : copy'[x] = copy[x]
    BY <1>2 DEF HopSent, TypeOK, ghostVars
  <2>2. sent[w] = None /\ Busy(w)
    BY <2>1 DEF Holding, Busy
  <2>3. AllSingle'
    <3>1. \A x \in Copies : HeldNow(x) => Held(x) /\ copy'[x].msg = copy[x].msg
      BY <2>1 DEF HeldNow, Held
    <3>2. \A v \in Workers : Dooming(v) => pc'[v] = pc[v]
      BY <2>1 DEF Dooming
    <3>3. \A m \in published \ disturbed' : RemainingNow(m) \subseteq Remaining(m)
      BY <2>1, <3>1, <3>2, StillRemaining DEF Dooming
    <3> QED
      BY <2>1, <3>3, StillSingle
  <2>4. Traced'
    <3>1. ASSUME NEW x \in Copies, copy'[x].at = "wire", copy'[x].msg \notin disturbed'
          PROVE  \E v \in Workers : sent'[v] = x /\ dlv'[v].gen = gen'
      <4>1. CASE x = c
        BY <2>1, <2>2, <3>1, <4>1 DEF Traced, Live
      <4>2. CASE x # c
        <5>1. PICK v \in Workers : sent[v] = x /\ Live(dlv[v])
          BY <2>1, <3>1, <4>2 DEF Traced
        <5>2. v # w
          BY <2>2, <5>1, ConsumerAssumption
        <5> QED
          BY <2>1, <5>1, <5>2 DEF Live
      <4> QED
        BY <4>1, <4>2
    <3>2. \A v \in Workers : Busy(v)' => Busy(v)
      BY <2>1, <2>2 DEF Busy
    <3> QED
      BY <2>1, <3>1, <3>2 DEF Traced, Live
  <2> QED
    BY <2>3, <2>4
<1>3. ASSUME UNCHANGED <<copy, published, phase, work, gen, handled, aside>>,
             disturbed \subseteq disturbed',
             sent[w] # None => dlv[w].msg \in disturbed',
             Dooming(w) => (pc'[w] = "acking" /\ dlv'[w] = dlv[w]) \/ dlv[w].msg \in disturbed',
             Busy(w)' => Busy(w) /\ dlv'[w] = dlv[w],
             \A v \in Workers \ {w} : pc'[v] = pc[v] /\ dlv'[v] = dlv[v]
                                      /\ sent'[v] = sent[v] /\ answer'[v] = answer[v]
      PROVE  Once'
  <2>1. \A v \in Workers : Dooming(v) =>
          \/ /\ pc'[v] = "acking" \/ (pc'[v] = "sent" /\ answer'[v] = "confirmed")
             /\ dlv'[v] = dlv[v]
          \/ dlv[v].msg \in disturbed'
    BY <1>3 DEF Dooming
  <2>2. \A m \in published \ disturbed' : RemainingNow(m) \subseteq Remaining(m)
    BY <1>3, <2>1, StillRemaining DEF HeldNow, Held
  <2>3. AllSingle'
    BY <1>3, <2>2, StillSingle
  <2>4. Traced'
    BY <1>3, StillTraced DEF Busy
  <2> QED
    BY <2>3, <2>4
<1>4. CASE Unreadable(w) \/ HopAnswered(w) \/ HopRefused(w) \/ HopTimesOut(w)
  <2>1. PICK todo : Proceed(w, todo)
    BY <1>4 DEF Unreadable, HopAnswered, HopRefused, HopTimesOut
  <2>2. /\ UNCHANGED <<copy, published, phase, work, gen, handled, aside>>
        /\ disturbed \subseteq disturbed'
    BY <1>4 DEF Unreadable, HopAnswered, HopRefused, HopTimesOut, brokerVars, ghostVars
  <2>3. /\ dlv' = dlv /\ Busy(w)
        /\ \A v \in Workers \ {w} : pc'[v] = pc[v] /\ sent'[v] = sent[v] /\ answer'[v] = answer[v]
    BY <1>4, <2>1 DEF Unreadable, HopAnswered, HopRefused, HopTimesOut, Proceed, TypeOK, Busy
  <2>4. sent[w] # None => dlv[w].msg \in disturbed'
    BY <1>4 DEF Unreadable, HopAnswered, HopRefused, HopTimesOut, Holding
  <2>5. Dooming(w) => pc'[w] = "acking" \/ dlv[w].msg \in disturbed'
    BY <1>4 DEF Unreadable, HopAnswered, HopRefused, HopTimesOut, Dooming, Proceed, AfterHop,
                SettleBy, TypeOK
  <2> QED
    BY <1>3, <2>2, <2>3, <2>4, <2>5
<1>5. CASE HopEscapes(w) \/ WorkerReturns(w)
  <2>1. /\ UNCHANGED <<copy, published, phase, work, gen, handled, aside>>
        /\ disturbed \subseteq disturbed' /\ ~Busy(w)'
        /\ \A v \in Workers \ {w} : pc'[v] = pc[v] /\ dlv'[v] = dlv[v]
                                    /\ sent'[v] = sent[v] /\ answer'[v] = answer[v]
    BY <1>5 DEF HopEscapes, WorkerReturns, LetGo, TypeOK, Busy, brokerVars, ghostVars
  <2>2. (sent[w] # None \/ Dooming(w)) => dlv[w].msg \in disturbed'
    BY <1>5 DEF HopEscapes, WorkerReturns, Holding, Dooming
  <2> QED
    BY <1>3, <2>1, <2>2
<1>6. CASE Ack(w) \/ Nack(w)
  <2>1. /\ UNCHANGED <<published, phase, work, gen, handled, aside, disturbed>>
        /\ Busy(w) /\ ~Busy(w)' /\ sent[w] = None
        /\ \A v \in Workers \ {w} : pc'[v] = pc[v] /\ dlv'[v] = dlv[v]
                                    /\ sent'[v] = sent[v] /\ answer'[v] = answer[v]
    BY <1>6 DEF Ack, Nack, LetGo, Busy, Holding, TypeOK, ghostVars
  <2>2. Live(dlv[w]) => dlv[w].id \in Copies /\ copy[dlv[w].id].at = "unacked"
    BY <2>1, InHandIsOut
  <2>3. \A x \in Copies : \/ copy'[x] = copy[x] \/ copy'[x] = Free
                          \/ /\ copy[x].at = "unacked" /\ copy'[x].msg = copy[x].msg
                             /\ copy'[x].at = "stored"
    BY <1>6, <2>2 DEF Ack, Nack, Requeued, TypeOK, Copy
  <2>4. Dooming(w) /\ Live(dlv[w]) => copy'[dlv[w].id] = Free
    BY <1>6, <2>2 DEF Ack, Nack, Dooming, TypeOK
  <2>5. AllSingle'
    <3>1. \A x \in Copies : HeldNow(x) => Held(x) /\ copy'[x].msg = copy[x].msg
      BY <2>3 DEF HeldNow, Held, Free
    <3>2. \A v \in Workers : Dooming(v) /\ Live(dlv[v]) =>
            \/ /\ pc'[v] = "acking" \/ (pc'[v] = "sent" /\ answer'[v] = "confirmed")
               /\ dlv'[v] = dlv[v]
            \/ ~HeldNow(dlv[v].id)
      <4>1. \A v \in Workers \ {w} : Dooming(v) =>
              /\ pc'[v] = "acking" \/ (pc'[v] = "sent" /\ answer'[v] = "confirmed")
              /\ dlv'[v] = dlv[v]
        BY <2>1 DEF Dooming
      <4> QED
        BY <2>4, <4>1 DEF HeldNow, Free
    <3>3. \A m \in published \ disturbed' : RemainingNow(m) \subseteq Remaining(m)
      BY <2>1, <3>1, <3>2, StillRemaining
    <3> QED
      BY <2>1, <3>3, StillSingle
  <2>6. Traced'
    <3>1. \A x \in Copies : copy'[x].at = "wire" => copy[x].at = "wire" /\ copy'[x].msg = copy[x].msg
      BY <2>3 DEF Free
    <3> QED
      BY <2>1, <3>1, StillTraced DEF Busy
  <2> QED
    BY <2>5, <2>6
<1> QED
  BY <1>1, <1>2, <1>4, <1>5, <1>6, OnceAnswered DEF WorkerStep, WorkerFault

\* Closing gives back what is in hand; what breaks disturbs all that was out.
LEMMA OnceClose ==
  ASSUME ContractInv, Once,
         \/ Start \/ CloseBegins \/ Drain \/ AllReturned \/ CutOff \/ CloseRaises \/ Release \/ Reopens
         \/ \E done \in 0..4 : StartFails(done)
         \/ \E lost \in SUBSET OnTheWire : ConnectionLost(lost) \/ Crash(lost)
  PROVE  Once'
<1> USE DEF ContractInv, NoLossInv, Once
<1>1. CASE CloseBegins \/ StopAcknowledged \/ PutSentinels \/ AllReturned \/ Reopens
           \/ \E done \in 0..4 : StartFails(done)
  <2>1. UNCHANGED <<copy, published, work, pc, dlv, sent, answer, gen, handled, aside, disturbed>>
    BY <1>1 DEF CloseBegins, StopAcknowledged, PutSentinels, AllReturned, Reopens, StartFails,
                brokerVars, workerVars, ghostVars
  <2>2. \A m \in published \ disturbed' : RemainingNow(m) \subseteq Remaining(m)
    BY <2>1, StillRemaining DEF HeldNow, Held, Dooming
  <2>3. AllSingle'
    BY <2>1, <2>2, StillSingle
  <2>4. Traced'
    BY <2>1, StillTraced DEF Busy
  <2> QED
    BY <2>3, <2>4
<1>2. CASE Start
  <2>1. /\ UNCHANGED <<copy, published, work, dlv, sent, answer, gen, handled, aside, disturbed>>
        /\ phase' = "running" /\ phase = "off"
        /\ \A w \in Workers : pc[w] = "done" /\ pc'[w] = "idle"
    BY <1>2 DEF Start, Holding, ghostVars
  <2>2. \A m \in published \ disturbed' : RemainingNow(m) \subseteq Remaining(m)
    BY <2>1, StillRemaining DEF HeldNow, Held, Dooming
  <2>3. AllSingle'
    BY <2>1, <2>2, StillSingle
  <2>4. Traced'
    BY <2>1, StillTraced DEF Busy
  <2> QED
    BY <2>3, <2>4
<1>3. \A c \in Copies : copy[c].at \in {"wire", "unacked"} => copy[c].msg \in InHand
  BY DEF InHand
<1>4. \A w \in Workers : Busy(w) /\ Live(dlv[w]) => dlv[w].msg \in InHand
  BY <1>3, InHandIsOut DEF Matching
<1>5. CASE CutOff \/ CloseRaises
  <2>1. /\ UNCHANGED <<copy, published, work, gen, handled, aside>>
        /\ disturbed' = disturbed \cup InHand
        /\ \A w \in Workers : pc'[w] = "done"
    BY <1>5 DEF CutOff, CloseRaises, CutShort, NoWorkers, brokerVars
  <2>2. \A w \in Workers : Dooming(w) /\ Live(dlv[w]) => dlv[w].msg \in disturbed'
    BY <1>4, <2>1 DEF Dooming, Busy
  <2>3. \A m \in published \ disturbed' : RemainingNow(m) \subseteq Remaining(m)
    BY <2>1, <2>2, StillRemaining DEF HeldNow, Held
  <2>4. AllSingle'
    BY <2>1, <2>3, StillSingle
  <2>5. Traced'
    BY <1>3, <2>1 DEF Traced, Live, Busy
  <2> QED
    BY <2>4, <2>5
<1>6. ASSUME NEW d \in work, DrainOne(d) PROVE Once'
  <2>1. /\ UNCHANGED <<published, phase, pc, dlv, sent, answer, gen, handled, aside, disturbed>>
        /\ work' \subseteq work
    BY <1>6 DEF DrainOne, workerVars, ghostVars
  <2>2. Live(d) => d.id \in Copies /\ copy[d.id].at = "unacked"
    BY InHandIsOut
  <2>3. \A x \in Copies : \/ copy'[x] = copy[x]
                          \/ /\ copy[x].at = "unacked" /\ copy'[x].msg = copy[x].msg
                             /\ copy'[x].at = "stored"
    BY <1>6, <2>2 DEF DrainOne, Requeued, TypeOK, Copy
  <2>4. \A x \in Copies : HeldNow(x) => Held(x) /\ copy'[x].msg = copy[x].msg
    BY <2>3 DEF HeldNow, Held
  <2>5. \A m \in published \ disturbed' : RemainingNow(m) \subseteq Remaining(m)
    BY <2>1, <2>4, StillRemaining DEF Dooming
  <2>6. AllSingle'
    BY <2>1, <2>5, StillSingle
  <2>7. Traced'
    <3>1. \A x \in Copies : copy'[x].at = "wire" => copy[x].at = "wire" /\ copy'[x].msg = copy[x].msg
      BY <2>3
    <3> QED
      BY <2>1, <3>1, StillTraced DEF Busy
  <2> QED
    BY <2>6, <2>7
<1>7. \A c \in Copies : /\ AllRequeued[c].msg = copy[c].msg
                        /\ AllRequeued[c].at = IF copy[c].at = "unacked" THEN "stored" ELSE copy[c].at
  BY DEF AllRequeued, Requeued, TypeOK, Copy
<1>8. CASE Release
  <2>1. /\ UNCHANGED <<published, pc, dlv, sent, answer, gen, handled, aside, disturbed>>
        /\ work' = {} /\ \A w \in Workers : pc[w] = "done"
    BY <1>8 DEF Release, Holding, workerVars, ghostVars
  <2>6. \A x \in Copies : copy'[x] = copy[x] \/ copy'[x] = AllRequeued[x]
    BY <1>8, GivenBack
  <2>2. \A x \in Copies : HeldNow(x) => Held(x) /\ copy'[x].msg = copy[x].msg
    BY <1>7, <2>6 DEF HeldNow, Held
  <2>3. \A m \in published \ disturbed' : RemainingNow(m) \subseteq Remaining(m)
    BY <2>1, <2>2, StillRemaining DEF Dooming
  <2>4. AllSingle'
    BY <2>1, <2>3, StillSingle
  <2>5. Traced'
    BY <1>7, <2>1, <2>6, StillTraced DEF Busy
  <2> QED
    BY <2>4, <2>5
<1>9. ASSUME NEW lost \in SUBSET OnTheWire, ConnectionLost(lost) \/ Crash(lost)
      PROVE  Once'
  <2>1. /\ UNCHANGED <<published, handled, aside>> /\ work' \subseteq work
        /\ copy' = WireLost(lost) /\ disturbed' = disturbed \cup InHand
    BY <1>9 DEF ConnectionLost, Crash
  <2>2. \A c \in Copies : \/ copy'[c].at = "free"
                          \/ /\ copy'[c].msg = copy[c].msg
                             /\ copy'[c].at = IF copy[c].at = "unacked" THEN "stored" ELSE copy[c].at
    BY <1>7, <2>1 DEF WireLost, Free
  <2>3. \A m \in published \ disturbed' : RemainingNow(m) \subseteq Remaining(m)
    <3> SUFFICES ASSUME NEW m \in published \ disturbed', NEW x \in RemainingNow(m)
                 PROVE  x \in Remaining(m)
      OBVIOUS
    <3>1. x \in Copies /\ copy'[x].msg = m /\ HeldNow(x)
      BY DEF RemainingNow
    <3>2. copy[x].msg = m /\ copy[x].at = "stored"
      BY <1>3, <2>1, <2>2, <3>1 DEF HeldNow, TypeOK, Copy
    <3>3. ~Doomed(x)
      BY <3>1, <3>2, DoomedIsOut
    <3> QED
      BY <3>1, <3>2, <3>3 DEF Remaining, Held
  <2>4. AllSingle'
    BY <2>1, <2>3, StillSingle
  <2>5. \A c \in Copies : copy'[c].at = "wire" => copy'[c].msg \in disturbed'
    BY <1>3, <2>1, <2>2
  <2>6. \A d \in work : d.msg \in disturbed'
    <3>1. \A d \in work : Live(d) => d.msg \in InHand
      BY <1>3, InHandIsOut DEF Matching
    <3> QED
      BY <2>1, <3>1 DEF Traced
  <2>7. \A w \in Workers : Busy(w) => dlv[w].msg \in disturbed'
    BY <1>4, <2>1 DEF Traced
  <2>8. \A w \in Workers : Busy(w)' => Busy(w) /\ dlv'[w] = dlv[w]
    BY <1>9 DEF ConnectionLost, Crash, NoWorkers, Busy
  <2>9. Traced'
    BY <2>1, <2>5, <2>6, <2>7, <2>8 DEF Traced
  <2> QED
    BY <2>4, <2>9
<1> QED
  BY <1>1, <1>2, <1>5, <1>6, <1>8, <1>9 DEF Drain

\* What a consumer that is off has let go of, and why subscriptions are left behind:
\* one that closed while its channel waited to be reopened has lost it since it began.
Released ==
  /\ phase = "off" => work = {} /\ Unsettled = {}
  /\ behind = 0 => stranded = {}
  /\ behind <= gen
  /\ phase # "off" /\ ~open => behind < gen
  /\ subscribed => phase # "off"

\* A consumer that stays off still holds nothing, and leaves nothing behind.
LEMMA StillReleased ==
  ASSUME TypeOK, Released, phase' = "off" => phase = "off" /\ work' \subseteq work,
         \A c \in Copies : copy'[c].at = "unacked" =>
           copy[c].at = "unacked" \/ phase' # "off" \/ c \in stranded',
         stranded' = stranded, behind' = behind, gen' = gen, open' = open,
         subscribed' => subscribed \/ phase' # "off",
         phase = "off" => phase' = "off" \/ open
  PROVE  Released'
BY DEF Released, Unsettled

\* Every step keeps what is said of consumers that are off.
LEMMA ReleasedKept ==
  ASSUME NoLossInv, Released, Next
  PROVE  Released'
<1> USE DEF NoLossInv
<1>1. ASSUME UNCHANGED <<phase, linkVars>>, work' \subseteq work,
             \A c \in Copies : copy'[c].at = "unacked" => copy[c].at = "unacked"
      PROVE  Released'
  BY <1>1, StillReleased
<1>2. ASSUME NEW m \in Msgs, NEW c \in Copies, Publish(m, c) PROVE Released'
  BY <1>1, <1>2 DEF Publish, TypeOK
<1>3. ASSUME NEW c \in Copies, Deliver(c) PROVE Released'
  <2>1. /\ phase # "off" /\ UNCHANGED <<phase, linkVars>>
    BY <1>3 DEF Deliver, Released
  <2> QED
    BY <2>1, StillReleased
<1>4. ASSUME NEW c \in Copies, DeliverBehind(c) PROVE Released'
  <2>1. /\ copy[c].at = "stored" /\ open /\ behind > 0
        /\ \A x \in Copies \ {c} : copy'[x] = copy[x]
        /\ stranded' = stranded \cup {c}
        /\ UNCHANGED <<phase, work, gen, open, subscribed, behind>>
    BY <1>4 DEF DeliverBehind, At, TypeOK
  <2>2. Unsettled' \subseteq Unsettled
    BY <2>1 DEF Unsettled
  <2>3. behind # 0
    BY <2>1 DEF TypeOK
  <2> QED
    BY <2>1, <2>2, <2>3 DEF Released
<1>5. ASSUME NEW c \in Copies, BrokerStep(c) \/ BrokerNacks(c) PROVE Released'
  <2>1. /\ UNCHANGED <<phase, linkVars, work>> /\ copy'[c].at # "unacked"
        /\ \A x \in Copies \ {c} : copy'[x] = copy[x]
    BY <1>5 DEF BrokerStep, BrokerTakes, BrokerReturns, RungExpires, BrokerNacks, Reply, At, Free,
                TypeOK, Copy
  <2> QED
    BY <1>1, <2>1
<1>6. CASE \/ ApplyTopology \/ \E q \in {"rung", "dlq", "parked"} : RemoveQueue(q)
           \/ \E done \in 0..4 : StartFails(done)
  BY <1>1, <1>6 DEF ApplyTopology, RemoveQueue, StartFails
<1>7. ASSUME NEW w \in Workers, NEW c \in Copies, HopSent(w, c) PROVE Released'
  <2>1. UNCHANGED <<phase, linkVars, work>> /\ \A x \in Copies : copy'[x] = copy[x] \/ copy'[x].at = "wire"
    BY <1>7 DEF HopSent, TypeOK
  <2> QED
    BY <1>1, <2>1
<1>8. ASSUME NEW w \in Workers, Ack(w) \/ Nack(w) PROVE Released'
  <2>1. Live(dlv[w]) => dlv[w].id \in Copies
    BY <1>8, InHandIsOut DEF Ack, Nack, Busy
  <2>2. \A x \in Copies : copy'[x] = copy[x] \/ copy'[x].at # "unacked"
    BY <1>8, <2>1 DEF Ack, Nack, Requeued, Free, TypeOK, Copy
  <2> QED
    BY <1>1, <1>8, <2>2 DEF Ack, Nack
<1>9. ASSUME NEW d \in work, DrainOne(d) PROVE Released'
  <2>1. \A x \in Copies : copy'[x] = copy[x] \/ copy'[x].at # "unacked"
    BY <1>9, InHandIsOut DEF DrainOne, Requeued, TypeOK, Copy
  <2> QED
    BY <1>1, <1>9, <2>1 DEF DrainOne
<1>10. ASSUME NEW w \in Workers,
              \/ \E d \in work : Take(w, d)
              \/ Unreadable(w) \/ HopAnswered(w) \/ WorkerReturns(w) \/ WorkerFault(w)
              \/ \E a \in Answers, age \in Ages : HandlerAnswers(w, a, age)
       PROVE  Released'
  <2>1. UNCHANGED <<copy, phase, linkVars>> /\ work' \subseteq work
    BY <1>10 DEF Take, Unreadable, HopAnswered, WorkerReturns, WorkerFault, HopRefused,
                 HopTimesOut, HopEscapes, HandlerAnswers, brokerVars
  <2> QED
    BY <1>1, <2>1
<1>11. CASE \/ Start \/ CloseBegins \/ StopAcknowledged \/ PutSentinels \/ AllReturned
            \/ CutOff \/ CloseRaises
  <2>1. /\ UNCHANGED <<copy, gen, open, behind, stranded, work>> /\ phase' # "off"
        /\ phase = "off" => open
    BY <1>11 DEF Start, CloseBegins, StopAcknowledged, PutSentinels, AllReturned, CutOff,
                 CloseRaises, CutShort, brokerVars
  <2> QED
    BY <2>1, StillReleased
<1>12. CASE Reopens
  <2>1. UNCHANGED <<copy, phase, work, gen, subscribed, behind, stranded>> /\ open' = TRUE
    BY <1>12 DEF Reopens, brokerVars
  <2> QED
    BY <2>1 DEF Released, Unsettled
<1>13. CASE Release
  <2>1. /\ phase = "releasing" /\ phase' = "off" /\ work' = {} /\ subscribed' = FALSE
        /\ UNCHANGED <<gen, open, stranded>>
    BY <1>13 DEF Release
  <2>2. CASE open
    <3>1. copy' = OwnRequeued /\ behind' = behind
      BY <1>13, <2>2 DEF Release
    <3>2. Unsettled' = {}
      BY <2>1, <3>1 DEF Unsettled, OwnRequeued, AllRequeued, Requeued, TypeOK, Copy
    <3> QED
      BY <2>1, <3>1, <3>2 DEF Released
  <2>3. CASE ~open
    <3>1. copy' = copy /\ behind' \in {behind, behind + 1} /\ behind \in Nat /\ gen \in Nat
      BY <1>13, <2>3 DEF Release, TypeOK
    <3>2. Unsettled' = {}
      BY <2>3, <3>1 DEF Unsettled, Stranding
    <3>3. behind < gen
      BY <2>1, <2>3 DEF Released
    <3>4. behind' <= gen
      BY <3>1, <3>3
    <3>5. behind' = 0 => stranded = {}
      BY <3>1 DEF Released
    <3> QED
      BY <2>1, <3>2, <3>4, <3>5 DEF Released
  <2> QED
    BY <2>2, <2>3
<1>14. ASSUME NEW lost \in SUBSET OnTheWire, ConnectionLost(lost) PROVE Released'
  <2>1. /\ gen' = gen + 1 /\ stranded' = {} /\ copy' = WireLost(lost)
        /\ phase' = "off" => phase = "off"
        /\ phase' # "off" <=> phase # "off"
        /\ UNCHANGED <<work, behind, subscribed>>
    BY <1>14 DEF ConnectionLost
  <2>2. Unsettled' = {}
    BY <2>1 DEF Unsettled, WireLost, AllRequeued, Requeued, Free, TypeOK, Copy
  <2>3. behind' <= gen' /\ behind' < gen'
    <3>1. behind <= gen /\ behind \in Nat /\ gen \in Nat
      BY DEF Released, TypeOK
    <3> QED
      BY <2>1, <3>1
  <2> QED
    BY <2>1, <2>2, <2>3 DEF Released
<1>15. ASSUME NEW lost \in SUBSET OnTheWire, Crash(lost) PROVE Released'
  <2>1. /\ stranded' = {} /\ behind' = 0 /\ gen' = gen /\ phase' = "off" /\ work' = {}
        /\ open' = TRUE /\ subscribed' = FALSE /\ copy' = WireLost(lost)
    BY <1>15 DEF Crash
  <2>2. Unsettled' = {}
    BY <2>1 DEF Unsettled, WireLost, AllRequeued, Requeued, Free, TypeOK, Copy
  <2>3. 0 <= gen
    BY DEF TypeOK
  <2> QED
    BY <2>1, <2>2, <2>3 DEF Released
<1> QED
  BY <1>2, <1>3, <1>4, <1>5, <1>6, <1>7, <1>8, <1>9, <1>10, <1>11, <1>12, <1>13, <1>14, <1>15
     DEF Next, Ongoing, BrokerStep, Drain, WorkerStep

\* One of the three is one: what is in one place is counted once.
LEMMA OnePlace ==
  ASSUME ContractInv, Once, Released
  PROVE  ExactlyOnceUndisturbed
<1> USE DEF ContractInv, NoLossInv, Once
<1>1. ASSUME NEW m \in published \ disturbed
      PROVE  Cardinality(Remaining(m)) + Cardinality({q \in AsideQueues : m \in aside[q]})
               + (IF m \in handled THEN 1 ELSE 0) = 1
  <2> DEFINE A == {q \in AsideQueues : m \in aside[q]}
  <2>1. Single(m) /\ (m \in handled \/ SetAside(m) \/ Remaining(m) # {})
    BY DEF AllSingle, NoLoss
  <2>2. /\ Cardinality({}) = 0
        /\ \A x : Cardinality({x}) = 1
    BY FS_EmptySet, FS_Singleton
  <2>3. ~SetAside(m) => A = {}
    BY DEF SetAside
  <2>4. CASE m \in handled
    <3>1. Remaining(m) = {} /\ A = {}
      BY <2>1, <2>3, <2>4 DEF Single, Settled
    <3> QED
      BY <2>2, <2>4, <3>1
  <2>5. CASE SetAside(m)
    <3>1. Remaining(m) = {} /\ m \notin handled
      BY <2>1, <2>5 DEF Single, Settled
    <3>2. PICK q \in AsideQueues : A = {q}
      BY <2>1, <2>5 DEF Single, SetAside
    <3>3. Cardinality(A) = 1 /\ Cardinality(Remaining(m)) = 0
      <4> HIDE DEF A
      <4> QED
        BY <2>2, <3>1, <3>2
    <3> QED
      BY <3>1, <3>3
  <2>6. CASE Remaining(m) # {}
    <3>1. m \notin handled /\ A = {}
      BY <2>1, <2>3, <2>6 DEF Single, Settled
    <3>2. PICK c : Remaining(m) = {c}
      BY <2>1, <2>6 DEF Single
    <3>3. Cardinality(A) = 0 /\ Cardinality(Remaining(m)) = 1
      <4> HIDE DEF A
      <4> QED
        BY <2>2, <3>1, <3>2
    <3> QED
      BY <3>1, <3>3
  <2> QED
    BY <2>1, <2>4, <2>5, <2>6
<1>2. phase = "off" => HoldsNothing
  BY DEF Released, HoldsNothing, Holding
<1>3. (behind = 0 => stranded = {}) /\ behind <= gen
  BY DEF Released
<1> QED
  BY <1>1, <1>2, <1>3 DEF ExactlyOnceUndisturbed

\* Unless a channel, a process or a publish broke with it in hand, a published message
\* is in exactly one place.  A consumer that is off holds nothing, save that a close
\* finding its channel waiting to be reopened leaves the subscription behind: what is
\* unacknowledged then is what those were given, one at most for each lost connection.
THEOREM InOnePlace == Spec => []ExactlyOnceUndisturbed
<1>1. Init => Once
  BY DEF Init, Once, AllSingle, Traced, Free, Busy
<1>2. ContractInv /\ Once /\ [Next]_vars => Once'
  <2> SUFFICES ASSUME ContractInv, Once, [Next]_vars PROVE Once'
    OBVIOUS
  <2>1. CASE UNCHANGED vars
    <3>1. UNCHANGED <<copy, published, phase, work, pc, dlv, sent, answer, gen, handled, aside, disturbed>>
      BY <2>1 DEF vars, brokerVars, workerVars, ghostVars
    <3>2. \A m \in published \ disturbed' : RemainingNow(m) \subseteq Remaining(m)
      BY <3>1 DEF RemainingNow, Remaining, HeldNow, Held, DoomedNow, Doomed, Live
    <3>3. AllSingle'
      BY <3>1, <3>2, StillSingle DEF Once
    <3>4. Traced'
      BY <3>1 DEF Once, Traced, Live, Busy
    <3> QED
      BY <3>3, <3>4 DEF Once
  <2>2. CASE Next
    BY <2>2, OnceBroker, OnceTaken, OnceWorker, OnceClose DEF Next, Ongoing, BrokerStep
  <2> QED
    BY <2>1, <2>2
<1>3. Init => Released
  BY DEF Init, Released, Unsettled, Free
<1>4. ContractInv /\ Released /\ [Next]_vars => Released'
  <2> SUFFICES ASSUME ContractInv, Released, [Next]_vars PROVE Released'
    OBVIOUS
  <2>1. CASE UNCHANGED vars
    BY <2>1 DEF vars, brokerVars, Released, Unsettled
  <2> QED
    BY <2>1, ReleasedKept DEF ContractInv
<1> QED
  BY <1>1, <1>2, <1>3, <1>4, ContractInvariant, OnePlace, PTL DEF Spec

-----------------------------------------------------------------------------
(* Induction *)

\* A set of numbers that is not empty has a least one.
LEMMA LeastNumber ==
  ASSUME NEW T, T \subseteq Nat, T # {}
  PROVE  \E x \in T : \A y \in T : x <= y
<1> DEFINE R == {ss \in Nat \X Nat : ss[1] < ss[2]}
<1>1. IsWellFoundedOn(R, Nat)
  BY NatLessThanWellFounded DEF OpToRel
<1>2. \E x \in T : \A y \in T : ~(<<y, x>> \in R)
  <2> HIDE DEF R
  <2> QED
    BY <1>1, WFMin
<1>3. PICK x \in T : \A y \in T : ~(<<y, x>> \in R)
  BY <1>2
<1>4. \A a, b \in Nat : a < b => <<a, b>> \in R
  OBVIOUS
<1> HIDE DEF R
<1>5. \A y \in T : ~(y < x)
  BY <1>3, <1>4
<1> QED
  BY <1>5

\* A set with 1 and the successor of every member holds every number from 1 on.
LEMMA SetInduction ==
  ASSUME NEW T, 1 \in T, \A n \in T : n + 1 \in T
  PROVE  \A n \in Nat \ {0} : n \in T
<1> SUFFICES ASSUME (Nat \ {0}) \ T # {} PROVE FALSE
  OBVIOUS
<1>1. PICK x \in (Nat \ {0}) \ T : \A y \in (Nat \ {0}) \ T : x <= y
  <2>1. (Nat \ {0}) \ T \subseteq Nat
    OBVIOUS
  <2> QED
    BY <2>1, LeastNumber
<1>2. x # 1 /\ x - 1 \in Nat \ {0}
  BY <1>1
<1>3. x - 1 \in T
  BY <1>1, <1>2
<1>4. (x - 1) + 1 \in T
  BY <1>3
<1> QED
  BY <1>1, <1>2, <1>4

\* g starts at d and F leads from each of its values to the next.
Follows(g, d, F, N) == g[1] = d /\ \A k \in 2..N : g[k] = F[g[k - 1]]

\* There is such a function, up to any number.
LEMMA Recursion ==
  ASSUME NEW S, NEW d \in S, NEW F \in [S -> S], NEW N \in Nat \ {0}
  PROVE  \E g \in [1..N -> S] : Follows(g, d, F, N)
<1> DEFINE Good(n, g) == g[1] = d /\ \A k \in 2..n : g[k] = F[g[k - 1]]
           T == {n \in Nat \ {0} : \E g \in [1..n -> S] : Good(n, g)}
<1>1. 1 \in T
  <2> DEFINE g == [k \in 1..1 |-> d]
  <2>1. g \in [1..1 -> S] /\ Good(1, g)
    OBVIOUS
  <2> HIDE DEF Good, g
  <2>2. \E h \in [1..1 -> S] : Good(1, h)
    BY <2>1
  <2> QED
    BY <2>2
<1>2. ASSUME NEW n \in T PROVE n + 1 \in T
  <2>1. n \in Nat \ {0}
    OBVIOUS
  <2>2. PICK g \in [1..n -> S] : Good(n, g)
    OBVIOUS
  <2> DEFINE h == [k \in 1..(n + 1) |-> IF k <= n THEN g[k] ELSE F[g[n]]]
  <2>3. g[n] \in S /\ F[g[n]] \in S
    BY <2>1
  <2>4. h \in [1..(n + 1) -> S]
    BY <2>1, <2>3
  <2>5. ASSUME NEW k \in 2..(n + 1) PROVE h[k] = F[h[k - 1]]
    <3>1. CASE k <= n
      <4>1. k \in 1..n /\ h[k] = g[k]
        BY <2>1, <3>1
      <4>2. k \in 2..n /\ h[k - 1] = g[k - 1]
        BY <2>1, <3>1
      <4> HIDE DEF h
      <4> QED
        BY <2>2, <4>1, <4>2
    <3>2. CASE ~(k <= n)
      <4>1. k = n + 1 /\ k # 1
        BY <2>1, <3>2
      <4>2. h[k] = F[g[n]] /\ h[n] = g[n]
        BY <2>1, <4>1
      <4>3. k - 1 = n
        BY <2>1, <4>1
      <4> HIDE DEF h
      <4> QED
        BY <4>1, <4>2, <4>3
    <3> QED
      BY <3>1, <3>2
  <2>6. h[1] = d
    BY <2>1, <2>2
  <2>7. Good(n + 1, h)
    <3> HIDE DEF h
    <3> QED
      BY <2>5, <2>6
  <2> HIDE DEF Good, h
  <2>8. \E f \in [1..(n + 1) -> S] : Good(n + 1, f)
    BY <2>4, <2>7
  <2>9. n + 1 \in Nat \ {0}
    BY <2>1
  <2> QED
    BY <2>8, <2>9
<1>3. N \in T
  <2> HIDE DEF T
  <2> QED
    BY <1>1, <1>2, SetInduction
<1> QED
  BY <1>3 DEF Follows

-----------------------------------------------------------------------------
(* The delays of a policy *)

\* A delay multiplied and rounded, as timedelta * float, is a delay.
LEMMA TimesNat ==
  ASSUME NEW a \in Nat, NEW n \in Nat, NEW b \in Nat \ {0}
  PROVE  Times(a, n, b) \in Nat
<1> DEFINE c == a * n
<1>1. c \in Nat
  OBVIOUS
<1>2. c \div b \in Nat
  <2> HIDE DEF c
  <2> QED
    BY <1>1
<1> QED
  BY <1>2 DEF Times

\* A delay grown by the multiplier is a delay.
LEMMA GrowNat ==
  ASSUME NEW p \in Policies, NEW x \in Nat
  PROVE  Grow(p, x) \in Nat
<1>1. p.multiplier.num \in Nat /\ p.multiplier.den \in Nat \ {0}
  BY DEF Policies
<1> QED
  BY <1>1, TimesNat DEF Grow

\* A delay capped is a delay, and within the cap.
LEMMA CappedNat ==
  ASSUME NEW p \in Policies, NEW x \in Nat
  PROVE  Capped(p, x) \in Nat /\ (p.max_delay > 0 => Capped(p, x) <= p.max_delay)
BY DEF Policies, Capped, OverCap

\* The delays schedule() grows, attempt by attempt.
LEMMA RawIs ==
  ASSUME NEW p \in Policies, p.max_attempts \in Nat \ {0}
  PROVE  \A n \in 1..p.max_attempts :
           /\ Raw(p)[n] \in Nat
           /\ Raw(p)[n] = IF n = 1 THEN p.initial_delay ELSE Grow(p, Raw(p)[n - 1])
<1> DEFINE F == [x \in Nat |-> Grow(p, x)]
<1>2. F \in [Nat -> Nat] /\ p.initial_delay \in Nat
  BY GrowNat DEF Policies
<1>3. PICK g \in [1..p.max_attempts -> Nat] :
        g[1] = p.initial_delay /\ \A k \in 2..p.max_attempts : g[k] = F[g[k - 1]]
  <2> DEFINE S == Nat  N == p.max_attempts  d == p.initial_delay
  <2>1. d \in S /\ F \in [S -> S] /\ N \in Nat \ {0}
    BY <1>2
  <2> HIDE DEF F, S, N, d
  <2>2. \E g \in [1..N -> S] : Follows(g, d, F, N)
    BY <2>1, Recursion
  <2> QED
    BY <2>2 DEF S, N, d, Follows
<1>4. g = [k \in 1..p.max_attempts |-> IF k = 1 THEN p.initial_delay ELSE Grow(p, g[k - 1])]
  <2>1. \A k \in 2..p.max_attempts : g[k] = Grow(p, g[k - 1])
    <3> TAKE k \in 2..p.max_attempts
    <3>1. g[k - 1] \in Nat
      OBVIOUS
    <3>2. F[g[k - 1]] = Grow(p, g[k - 1])
      BY <3>1
    <3> HIDE DEF F
    <3> QED
      BY <1>3, <3>2
  <2>2. \A k \in 1..p.max_attempts :
          g[k] = IF k = 1 THEN p.initial_delay ELSE Grow(p, g[k - 1])
    BY <1>3, <2>1
  <2>3. g = [k \in 1..p.max_attempts |-> g[k]]
    BY <1>3
  <2> QED
    BY <2>2, <2>3
<1>5. Raw(p) = [k \in 1..p.max_attempts |-> IF k = 1 THEN p.initial_delay ELSE Grow(p, Raw(p)[k - 1])]
  BY <1>4 DEF Raw
<1> DEFINE T == {n \in Nat \ {0} : n <= p.max_attempts => Raw(p)[n] \in Nat}
<1>6. 1 \in T
  BY <1>2, <1>5
<1>7. ASSUME NEW n \in T PROVE n + 1 \in T
  <2>1. n \in Nat \ {0} /\ (n <= p.max_attempts => Raw(p)[n] \in Nat)
    OBVIOUS
  <2> SUFFICES ASSUME n + 1 <= p.max_attempts PROVE Raw(p)[n + 1] \in Nat
    BY <2>1
  <2>2. Raw(p)[n] \in Nat
    BY <2>1
  <2>3. Raw(p)[n + 1] = Grow(p, Raw(p)[n])
    BY <1>5, <2>1
  <2> QED
    BY <2>2, <2>3, GrowNat
<1>8. \A n \in 1..p.max_attempts : n \in T
  <2> HIDE DEF T
  <2>1. \A n \in Nat \ {0} : n \in T
    BY <1>6, <1>7, SetInduction
  <2> QED
    BY <2>1
<1> QED
  BY <1>5, <1>8

\* One turn of _unjittered's loop.
LEMMA GrowOnceIs ==
  ASSUME NEW p \in Policies, NEW at \in [delay : Nat, broke : BOOLEAN]
  PROVE  GrowOnce(p, at) \in [delay : Nat, broke : BOOLEAN]
<1>1. at.delay \in Nat
  OBVIOUS
<1>2. Grow(p, at.delay) \in Nat
  BY <1>1, GrowNat
<1>3. Capped(p, Grow(p, at.delay)) \in Nat
  BY <1>2, CappedNat
<1> QED
  BY <1>3 DEF GrowOnce, OverCap

\* The loop of _unjittered, turn by turn.
LEMMA GrowingIs ==
  ASSUME NEW p \in Policies, NEW a \in Nat \ {0}
  PROVE  /\ \A n \in 1..a : Growing(p, a)[n] \in [delay : Nat, broke : BOOLEAN]
         /\ Growing(p, a)[1] = [delay |-> p.initial_delay, broke |-> FALSE]
         /\ \A n \in 2..a : Growing(p, a)[n] = GrowOnce(p, Growing(p, a)[n - 1])
<1> DEFINE S == [delay : Nat, broke : BOOLEAN]
           d == [delay |-> p.initial_delay, broke |-> FALSE]
           F == [x \in S |-> GrowOnce(p, x)]
<1>1. d \in S /\ F \in [S -> S]
  <2>1. p.initial_delay \in Nat
    BY DEF Policies
  <2>2. \A x \in S : GrowOnce(p, x) \in S
    BY GrowOnceIs
  <2> HIDE DEF S
  <2>3. F \in [S -> S]
    BY <2>2
  <2> QED
    BY <2>1, <2>3 DEF S
<1>2. PICK g \in [1..a -> S] : Follows(g, d, F, a)
  <2> HIDE DEF F, S, d
  <2> QED
    BY <1>1, Recursion
<1>3. g = [k \in 1..a |-> IF k = 1 THEN d ELSE GrowOnce(p, g[k - 1])]
  <2>1. \A k \in 2..a : g[k] = GrowOnce(p, g[k - 1])
    <3> TAKE k \in 2..a
    <3>1. g[k - 1] \in S
      <4> HIDE DEF S
      <4> QED
        OBVIOUS
    <3>2. F[g[k - 1]] = GrowOnce(p, g[k - 1])
      <4> HIDE DEF S
      <4> QED
        BY <3>1
    <3> HIDE DEF F
    <3> QED
      BY <1>2, <3>2 DEF Follows
  <2> HIDE DEF S, d, F
  <2>2. \A k \in 1..a : g[k] = IF k = 1 THEN d ELSE GrowOnce(p, g[k - 1])
    BY <1>2, <2>1 DEF Follows
  <2>3. g = [k \in 1..a |-> g[k]]
    BY <1>2
  <2> QED
    BY <2>2, <2>3
<1>4. Growing(p, a) = [k \in 1..a |-> IF k = 1 THEN d ELSE GrowOnce(p, Growing(p, a)[k - 1])]
  BY <1>3 DEF Growing
<1>5. /\ Growing(p, a)[1] = d
      /\ \A n \in 2..a : Growing(p, a)[n] = GrowOnce(p, Growing(p, a)[n - 1])
  <2> HIDE DEF d
  <2> QED
    BY <1>4
<1> DEFINE T == {n \in Nat \ {0} : n <= a => Growing(p, a)[n] \in S}
<1>6. 1 \in T
  <2> HIDE DEF S, d
  <2> QED
    BY <1>1, <1>5
<1>7. ASSUME NEW n \in T PROVE n + 1 \in T
  <2>1. n \in Nat \ {0} /\ (n <= a => Growing(p, a)[n] \in S)
    OBVIOUS
  <2> HIDE DEF S
  <2> SUFFICES ASSUME n + 1 <= a PROVE Growing(p, a)[n + 1] \in S
    BY <2>1
  <2>2. Growing(p, a)[n] \in S
    BY <2>1
  <2>3. n + 1 \in 2..a /\ (n + 1) - 1 = n
    BY <2>1
  <2>4. Growing(p, a)[n + 1] = GrowOnce(p, Growing(p, a)[n])
    BY <1>5, <2>3
  <2> QED
    BY <2>2, <2>4, GrowOnceIs DEF S
<1>8. \A n \in 1..a : n \in T
  <2> HIDE DEF T
  <2>1. \A n \in Nat \ {0} : n \in T
    BY <1>6, <1>7, SetInduction
  <2> QED
    BY <2>1
<1> QED
  BY <1>5, <1>8

\* What _unjittered returns is a delay, and within the cap.
LEMMA UnjitteredIs ==
  ASSUME NEW p \in Policies, NEW a \in Nat \ {0}
  PROVE  /\ Unjittered(p, a) \in Nat
         /\ p.max_delay > 0 => Unjittered(p, a) <= p.max_delay
<1>1. Growing(p, a)[a] \in [delay : Nat, broke : BOOLEAN]
  <2>1. a \in 1..a
    OBVIOUS
  <2> QED
    BY <2>1, GrowingIs
<1>2. Growing(p, a)[a].delay \in Nat
  BY <1>1
<1> QED
  BY <1>2, CappedNat DEF Unjittered

\* Capping a second time changes nothing.
LEMMA CappedTwice ==
  ASSUME NEW p \in Policies, NEW x \in Nat
  PROVE  Capped(p, Capped(p, x)) = Capped(p, x)
BY DEF Policies, Capped, OverCap

\* _unjittered, which stops growing at the first delay above the cap, and schedule(),
\* which grows without it and caps each delay on its own, agree: what a message waits
\* after an attempt is, jitter apart, a delay the schedule lists for that attempt or for
\* an earlier one.
THEOREM WaitsAreScheduled ==
  ASSUME NEW p \in Policies, p.max_attempts \in Nat \ {0}, NEW a \in 1..(p.max_attempts - 1)
  PROVE  \E k \in 1..a : Unjittered(p, a) = Schedule(p)[k]
<1> DEFINE G == Growing(p, a)  R == Raw(p)
           Kept(n) == IF G[n].broke THEN \E k \in 1..n : G[n].delay = Capped(p, R[k])
                      ELSE G[n].delay = R[n]
           T == {n \in Nat \ {0} : n <= a => Kept(n)}
<1>1. a \in Nat \ {0} /\ \A n \in 1..a : n \in 1..p.max_attempts
  OBVIOUS
<1>2. /\ \A n \in 1..a : G[n] \in [delay : Nat, broke : BOOLEAN]
      /\ G[1] = [delay |-> p.initial_delay, broke |-> FALSE]
      /\ \A n \in 2..a : G[n] = GrowOnce(p, G[n - 1])
  BY <1>1, GrowingIs
<1>3. \A n \in 1..p.max_attempts :
        R[n] \in Nat /\ R[n] = IF n = 1 THEN p.initial_delay ELSE Grow(p, R[n - 1])
  BY RawIs
<1> HIDE DEF G, R
<1>4. 1 \in T
  <2>1. G[1].broke = FALSE /\ G[1].delay = R[1]
    BY <1>1, <1>2, <1>3
  <2> QED
    BY <2>1
<1>5. ASSUME NEW n \in T PROVE n + 1 \in T
  <2>1. n \in Nat \ {0} /\ (n <= a => Kept(n))
    OBVIOUS
  <2> SUFFICES ASSUME n + 1 <= a PROVE Kept(n + 1)
    BY <2>1
  <2>2. n \in 1..a /\ n + 1 \in 2..a /\ (n + 1) - 1 = n /\ n + 1 # 1
    BY <2>1
  <2>3. Kept(n) /\ G[n + 1] = GrowOnce(p, G[n]) /\ R[n + 1] = Grow(p, R[n])
    BY <1>1, <1>2, <1>3, <2>1, <2>2
  <2>4. R[n] \in Nat /\ R[n + 1] \in Nat
    BY <1>1, <1>3, <2>2
  <2>5. CASE G[n].broke
    <3>1. G[n + 1] = G[n]
      BY <2>3, <2>5 DEF GrowOnce
    <3>2. PICK k \in 1..n : G[n].delay = Capped(p, R[k])
      BY <2>3, <2>5
    <3>3. k \in 1..(n + 1)
      BY <2>2, <3>2
    <3> QED
      BY <2>5, <3>1, <3>2, <3>3
  <2>6. CASE ~G[n].broke
    <3>1. G[n + 1] = [delay |-> Capped(p, R[n + 1]), broke |-> OverCap(p, R[n + 1])]
      BY <2>3, <2>6 DEF GrowOnce
    <3>2. n + 1 \in 1..(n + 1)
      BY <2>2
    <3> QED
      BY <3>1, <3>2 DEF Capped
  <2> QED
    BY <2>5, <2>6
<1>6. Kept(a)
  <2>1. a \in T
    <3> HIDE DEF T
    <3> QED
      BY <1>1, <1>4, <1>5, SetInduction
  <2> QED
    BY <1>1, <2>1
<1>7. PICK k \in 1..a : Unjittered(p, a) = Capped(p, R[k])
  <2>1. CASE G[a].broke
    <3>1. PICK k \in 1..a : G[a].delay = Capped(p, R[k])
      BY <1>6, <2>1
    <3>2. R[k] \in Nat
      BY <1>1, <1>3
    <3> QED
      BY <3>1, <3>2, CappedTwice DEF Unjittered, G
  <2>2. CASE ~G[a].broke
    <3>1. G[a].delay = R[a]
      BY <1>6, <2>2
    <3> QED
      BY <1>1, <3>1 DEF Unjittered, G
  <2> QED
    BY <2>1, <2>2
<1>8. k \in 1..(p.max_attempts - 1)
  BY <1>7
<1> QED
  BY <1>7, <1>8 DEF Schedule, R

\* Jitter leaves a delay a delay.
LEMMA JitteredNat ==
  ASSUME NEW p \in Policies, NEW x \in Nat, NEW draw \in -100..100
  PROVE  Jittered(p, x, draw) \in Nat
<1>1. p.jitter_factor \in 0..100
  BY DEF Policies
<1>2. p.jitter_factor > 0 => 10000 + draw * p.jitter_factor \in Nat
  <2>1. \A j \in 0..100 : \A r \in -100..100 : r * j >= -10000 /\ r * j \in Int
    OBVIOUS
  <2> QED
    BY <1>1, <2>1
<1> DEFINE m == 10000 + draw * p.jitter_factor
<1>3. m \in Nat => Times(x, m, 10000) \in Nat
  <2> HIDE DEF m
  <2> QED
    BY TimesNat
<1> QED
  BY <1>2, <1>3 DEF Jittered

\* A wait in the broker is not jittered, and is one the threshold lets into the broker.
LEMMA WaitAsked ==
  ASSUME NEW p \in Policies, NEW a \in Nat \ {0}, NEW age, NEW draw,
         ~GivesUp(p, a, age), NextWait(p, a, age, draw).in_broker
  PROVE  /\ NextWait(p, a, age, draw).delay = Unjittered(p, a)
         /\ WaitsInBroker(p, Unjittered(p, a))
BY DEF NextWait

\* Whatever wait in the broker next_wait returns, broker_rungs() lists its delay: there is
\* no attempt, age or draw for which a consumer needs a rung it never declared.
THEOREM BrokerWaitsHaveRungs ==
  ASSUME NEW p \in Policies, NEW a \in Nat \ {0}, NEW age, NEW draw,
         ~GivesUp(p, a, age), NextWait(p, a, age, draw).in_broker
  PROVE  \E k \in InBroker(p) : NextWait(p, a, age, draw).delay = Schedule(p)[k]
<1>1. p.max_attempts \in Int /\ a < p.max_attempts
  BY DEF GivesUp, Policies
<1>2. p.max_attempts \in Nat \ {0} /\ a \in 1..(p.max_attempts - 1)
  BY <1>1
<1>3. PICK k \in 1..a : Unjittered(p, a) = Schedule(p)[k]
  BY <1>2, WaitsAreScheduled
<1>4. k \in DOMAIN Schedule(p)
  BY <1>1, <1>2, <1>3 DEF Schedule
<1> QED
  BY <1>3, <1>4, WaitAsked DEF InBroker

\* A wait is a time, and one spent in the broker is no longer than the cap.
THEOREM WaitsAreBounded ==
  ASSUME NEW p \in Policies, NEW a \in Nat \ {0}, NEW age, NEW draw \in -100..100,
         ~GivesUp(p, a, age)
  PROVE  LET wait == NextWait(p, a, age, draw)
         IN /\ wait \in [delay : Nat, in_broker : BOOLEAN]
            /\ wait.in_broker /\ p.max_delay > 0 => wait.delay <= p.max_delay
<1>1. Unjittered(p, a) \in Nat
  BY UnjitteredIs
<1>2. Jittered(p, Unjittered(p, a), draw) \in Nat
  BY <1>1, JitteredNat
<1>3. NextWait(p, a, age, draw) \in [delay : Nat, in_broker : BOOLEAN]
  BY <1>1, <1>2 DEF NextWait
<1>4. NextWait(p, a, age, draw).in_broker => NextWait(p, a, age, draw).delay = Unjittered(p, a)
  BY WaitAsked
<1> QED
  BY <1>3, <1>4, UnjitteredIs

-----------------------------------------------------------------------------
(* The rungs of a policy *)

\* A finite set of numbers is listed in order by Nth, each of them once.
LEMMA NthIs ==
  ASSUME NEW S, IsFiniteSet(S), S \subseteq Nat
  PROVE  /\ Cardinality(S) \in Nat
         /\ \A i \in 1..Cardinality(S) : Nth(S, i) \in S
         /\ \A i, j \in 1..Cardinality(S) : Nth(S, i) = Nth(S, j) => i = j
         /\ \A n \in S : \E i \in 1..Cardinality(S) : Nth(S, i) = n
<1> DEFINE Below(n) == {k \in S : k <= n}
           rank == [n \in S |-> Cardinality(Below(n))]
           N == Cardinality(S)
<1>1. N \in Nat
  BY FS_CardinalityType
<1>2. ASSUME NEW n \in S PROVE rank[n] \in 1..N
  <2>1. Below(n) \subseteq S /\ Below(n) # {}
    OBVIOUS
  <2>2. IsFiniteSet(Below(n)) /\ Cardinality(Below(n)) <= N
    BY <2>1, FS_Subset
  <2>3. Cardinality(Below(n)) \in Nat /\ Cardinality(Below(n)) # 0
    BY <2>1, <2>2, FS_CardinalityType, FS_EmptySet
  <2> QED
    BY <1>1, <2>2, <2>3
<1>3. ASSUME NEW n \in S, NEW m \in S, n < m PROVE rank[n] # rank[m]
  <2>1. Below(n) \subseteq Below(m) /\ Below(n) # Below(m)
    <3>1. n \in Nat /\ m \in Nat /\ \A k \in S : k \in Nat
      OBVIOUS
    <3>2. \A k \in S : k <= n => k <= m
      BY <1>3, <3>1
    <3>3. m \in Below(m) /\ m \notin Below(n)
      BY <1>3, <3>1
    <3> QED
      BY <3>2, <3>3
  <2>2. IsFiniteSet(Below(m))
    BY FS_Subset
  <2> HIDE DEF Below
  <2>3. Cardinality(Below(n)) # Cardinality(Below(m))
    BY <2>1, <2>2, FS_Subset
  <2> QED
    BY <2>3
<1>4. \A n, m \in S : rank[n] = rank[m] => n = m
  <2> HIDE DEF rank
  <2> QED
    BY <1>3
<1>5. rank \in Injection(S, 1..N)
  <2>1. rank \in [S -> 1..N]
    <3>1. rank = [n \in S |-> rank[n]]
      OBVIOUS
    <3> HIDE DEF rank
    <3> QED
      BY <1>2, <3>1
  <2> HIDE DEF rank
  <2> QED
    BY <1>4, <2>1 DEF Injection, IsInjective
<1>6. rank \in Surjection(S, 1..N)
  <2>1. IsFiniteSet(1..N) /\ Cardinality(1..N) = N
    BY <1>1, FS_Interval
  <2> HIDE DEF rank
  <2> QED
    BY <1>5, <2>1, FS_Injection
<1>7. \A i \in 1..N : \E n \in S : Cardinality({k \in S : k <= n}) = i
  <2>1. \A i \in 1..N : \E n \in S : rank[n] = i
    <3> HIDE DEF rank
    <3> QED
      BY <1>6 DEF Surjection
  <2> QED
    BY <2>1
<1>8. \A i \in 1..N : Nth(S, i) \in S /\ Cardinality({k \in S : k <= Nth(S, i)}) = i
  BY <1>7 DEF Nth
<1>9. ASSUME NEW n \in S PROVE \E i \in 1..N : Nth(S, i) = n
  <2>1. rank[n] \in 1..N
    BY <1>2
  <2>2. Nth(S, rank[n]) \in S /\ rank[Nth(S, rank[n])] = rank[n]
    BY <1>8, <2>1
  <2> HIDE DEF rank
  <2>3. Nth(S, rank[n]) = n
    BY <1>4, <2>2
  <2> QED
    BY <2>1, <2>3
<1>10. \A i, j \in 1..N : Nth(S, i) = Nth(S, j) => i = j
  BY <1>8
<1> QED
  BY <1>1, <1>8, <1>9, <1>10


\* The delays of a schedule are times, and none is above the longest one if the
\* schedule can be asked for.
LEMMA ScheduleIs ==
  ASSUME NEW p \in Policies, NEW n \in DOMAIN Schedule(p)
  PROVE  /\ n \in Nat \ {0}
         /\ Schedule(p)[n] \in Nat
         /\ \A max \in Nat : ~ScheduleOverflows(p, max) /\ p.initial_delay <= max => Schedule(p)[n] <= max
<1>1. n \in 1..(p.max_attempts - 1) /\ p.max_attempts \in Int
  BY DEF Schedule, Policies
<1>2. p.max_attempts \in Nat \ {0} /\ n \in 1..p.max_attempts
  BY <1>1
<1>3. Raw(p)[n] \in Nat /\ (n = 1 => Raw(p)[n] = p.initial_delay)
  BY <1>2, RawIs
<1>4. Schedule(p)[n] = Capped(p, Raw(p)[n])
  BY <1>1 DEF Schedule
<1>5. Schedule(p)[n] \in Nat /\ Schedule(p)[n] <= Raw(p)[n]
  BY <1>3, <1>4, CappedNat DEF Capped, OverCap, Policies
<1>6. \A max \in Nat : ~ScheduleOverflows(p, max) /\ p.initial_delay <= max => Raw(p)[n] <= max
  <2>1. CASE n = 1
    BY <1>3, <2>1
  <2>2. CASE n # 1
    <3>1. n \in 2..p.max_attempts
      BY <1>2, <2>2
    <3> QED
      BY <1>3, <3>1 DEF ScheduleOverflows
  <2> QED
    BY <2>1, <2>2
<1>7. \A max \in Nat : ~ScheduleOverflows(p, max) /\ p.initial_delay <= max => Schedule(p)[n] <= max
  BY <1>3, <1>5, <1>6
<1> QED
  BY <1>1, <1>5, <1>7

\* The delays that rungs are declared for: each of one entry spent in the broker, for
\* every such entry one that shares its rung, and no two of one rung.
LEMMA RungDelaysAre ==
  ASSUME NEW p \in Policies, NEW byName \in BOOLEAN
  PROVE  LET D == RungDelays(p, byName)
         IN /\ D \in Seq(Nat)
            /\ \A i \in DOMAIN D : \E n \in InBroker(p) : D[i] = Schedule(p)[n]
            /\ \A n \in InBroker(p) : \E i \in DOMAIN D : SameRung(D[i], Schedule(p)[n], byName)
            /\ \A i, j \in DOMAIN D : SameRung(D[i], D[j], byName) => i = j
<1> DEFINE B == InBroker(p)  F == Firsts(p, byName)  D == RungDelays(p, byName)
           s == Schedule(p)
           Same(k, n) == SameRung(s[k], s[n], byName)
<1>1. \A n \in B : n \in DOMAIN s
  BY DEF InBroker
<1>2. \A n \in B : n \in Nat \ {0} /\ s[n] \in Nat
  BY <1>1, ScheduleIs
<1>3. IsFiniteSet(F) /\ F \subseteq B /\ F \subseteq Nat
  <2>1. F \subseteq B
    BY DEF Firsts
  <2>2. B \subseteq 1..(p.max_attempts - 1) /\ p.max_attempts - 1 \in Int
    BY DEF InBroker, Schedule, Policies
  <2>3. IsFiniteSet(1..(p.max_attempts - 1))
    BY <2>2, FS_Interval
  <2>4. IsFiniteSet(F)
    BY <2>1, <2>2, <2>3, FS_Subset
  <2> QED
    BY <1>2, <2>1, <2>4
<1> DEFINE N == Cardinality(F)
<1>4. /\ N \in Nat
      /\ \A i \in 1..N : Nth(F, i) \in F
      /\ \A i, j \in 1..N : Nth(F, i) = Nth(F, j) => i = j
      /\ \A n \in F : \E i \in 1..N : Nth(F, i) = n
  <2> HIDE DEF F
  <2> QED
    BY <1>3, NthIs
<1>5. D = [i \in 1..N |-> s[Nth(F, i)]]
  BY DEF RungDelays
<1>6. \A k, n, m : /\ Same(n, n)
                   /\ Same(k, n) => Same(n, k)
                   /\ Same(k, n) /\ Same(n, m) => Same(k, m)
  BY DEF SameRung
<1>7. \A n \in F : n \in B /\ \A k \in B : Same(k, n) => n <= k
  BY DEF Firsts
<1>8. \A n \in B : (\A k \in B : Same(k, n) => n <= k) => n \in F
  BY DEF Firsts
<1>9. ASSUME NEW n \in B PROVE \E k \in F : Same(k, n)
  <2> DEFINE Sharing == {k \in B : Same(k, n)}
  <2> HIDE DEF B, F, s, Same
  <2>1. n \in Sharing /\ Sharing \subseteq Nat /\ Sharing # {}
    BY <1>2, <1>6, <1>9
  <2>2. PICK k \in Sharing : \A m \in Sharing : k <= m
    BY <2>1, LeastNumber
  <2>3. \A m \in B : Same(m, k) => k <= m
    BY <1>6, <2>2
  <2> QED
    BY <1>8, <2>2, <2>3
<1> HIDE DEF B, F, N, D, s
<1>10. DOMAIN D = 1..N /\ \A i \in 1..N : D[i] = s[Nth(F, i)]
  BY <1>5
<1>11. D \in Seq(Nat)
  <2>1. \A i \in 1..N : s[Nth(F, i)] \in Nat
    BY <1>2, <1>3, <1>4
  <2>2. D \in [1..N -> Nat]
    BY <1>5, <2>1
  <2> QED
    BY <1>4, <2>2, SeqDef
<1>12. \A i \in DOMAIN D : \E n \in B : D[i] = s[n]
  BY <1>3, <1>4, <1>10
<1>13. \A n \in B : \E i \in DOMAIN D : SameRung(D[i], s[n], byName)
  BY <1>4, <1>9, <1>10
<1>14. \A i, j \in DOMAIN D : SameRung(D[i], D[j], byName) => i = j
  <2> SUFFICES ASSUME NEW i \in 1..N, NEW j \in 1..N, SameRung(D[i], D[j], byName) PROVE i = j
    BY <1>10
  <2>1. Same(Nth(F, i), Nth(F, j))
    BY <1>10
  <2>2. Nth(F, i) <= Nth(F, j) /\ Nth(F, j) <= Nth(F, i)
    <3> HIDE DEF Same
    <3> QED
      BY <1>4, <1>6, <1>7, <2>1
  <2>3. Nth(F, i) \in Nat /\ Nth(F, j) \in Nat
    BY <1>3, <1>4
  <2>4. Nth(F, i) = Nth(F, j)
    BY <2>2, <2>3
  <2> QED
    BY <1>4, <2>4
<1> QED
  BY <1>11, <1>12, <1>13, <1>14 DEF B, D, s


-----------------------------------------------------------------------------
(* Plans *)

QueueKinds == {"source", "dlq", "parked", "retry"}
QueueSettings == [durable : BOOLEAN, type : {"classic", "quorum"}, ttl : Int]
Step == [op : {"queue", "bind", "overflow"}, name : [kind : QueueKinds, seconds : Int], as : QueueSettings]

\* What a plan declares, in whatever order.
Steps(s) == {s[i] : i \in DOMAIN s}

LEMMA ConcatSteps ==
  ASSUME NEW a \in Seq(Step), NEW b \in Seq(Step)
  PROVE  a \o b \in Seq(Step) /\ Steps(a \o b) = Steps(a) \cup Steps(b)
<1>1. /\ a \o b \in Seq(Step) /\ Len(a \o b) = Len(a) + Len(b)
      /\ DOMAIN (a \o b) = 1..(Len(a) + Len(b)) /\ DOMAIN a = 1..Len(a) /\ DOMAIN b = 1..Len(b)
      /\ Len(a) \in Nat /\ Len(b) \in Nat
  OBVIOUS
<1>2. \A i \in 1..(Len(a) + Len(b)) : (a \o b)[i] = IF i <= Len(a) THEN a[i] ELSE b[i - Len(a)]
  OBVIOUS
<1>3. Steps(a \o b) \subseteq Steps(a) \cup Steps(b)
  <2> SUFFICES ASSUME NEW i \in 1..(Len(a) + Len(b)) PROVE (a \o b)[i] \in Steps(a) \cup Steps(b)
    BY <1>1 DEF Steps
  <2>1. CASE i <= Len(a)
    <3>1. i \in DOMAIN a /\ (a \o b)[i] = a[i]
      BY <1>1, <1>2, <2>1
    <3> QED
      BY <3>1 DEF Steps
  <2>2. CASE ~(i <= Len(a))
    <3>1. i - Len(a) \in DOMAIN b /\ (a \o b)[i] = b[i - Len(a)]
      BY <1>1, <1>2, <2>2
    <3> QED
      BY <3>1 DEF Steps
  <2> QED
    BY <2>1, <2>2
<1>4. Steps(a) \subseteq Steps(a \o b)
  <2> SUFFICES ASSUME NEW i \in 1..Len(a) PROVE a[i] \in Steps(a \o b)
    BY <1>1 DEF Steps
  <2>1. i \in DOMAIN (a \o b) /\ (a \o b)[i] = a[i]
    BY <1>1, <1>2
  <2> QED
    BY <2>1 DEF Steps
<1>5. Steps(b) \subseteq Steps(a \o b)
  <2> SUFFICES ASSUME NEW i \in 1..Len(b) PROVE b[i] \in Steps(a \o b)
    BY <1>1 DEF Steps
  <2>1. i + Len(a) \in DOMAIN (a \o b) /\ ~(i + Len(a) <= Len(a)) /\ (i + Len(a)) - Len(a) = i
    BY <1>1
  <2>2. (a \o b)[i + Len(a)] = b[i]
    BY <1>1, <1>2, <2>1
  <2> QED
    BY <2>1, <2>2 DEF Steps
<1> QED
  BY <1>1, <1>3, <1>4, <1>5

\* Whole seconds and whole milliseconds of a delay.
LEMMA DivIs ==
  ASSUME NEW d \in Nat, NEW b \in Nat \ {0}
  PROVE  /\ d \div b \in Nat /\ b * (d \div b) <= d /\ d < b * (d \div b) + b
         /\ d \div b <= d
<1>1. d \div b \in Int /\ b * (d \div b) <= d /\ d < b * (d \div b) + b
  OBVIOUS
<1> QED
  BY <1>1

\* The rungs of a list of delays, with the way back if there are any.
LEMMA RungSteps ==
  ASSUME NEW D \in Seq(Nat), NEW durable \in BOOLEAN
  PROVE  /\ RungsAndBack(D, durable) \in Seq(Step)
         /\ Steps(RungsAndBack(D, durable)) =
              {Rung(D[j], durable) : j \in DOMAIN D} \cup IF D = <<>> THEN {} ELSE {Bind}
<1> DEFINE R == Rungs(D, durable)  B == IF D = <<>> THEN <<>> ELSE <<Bind>>
<1>1. \A j \in DOMAIN D : Rung(D[j], durable) \in Step
  <2> TAKE j \in DOMAIN D
  <2>1. D[j] \in Nat /\ Second \in Nat \ {0} /\ Milli \in Nat \ {0}
    BY TopologyAssumption
  <2>2. D[j] \div Second \in Int /\ D[j] \div Milli \in Int
    BY <2>1, DivIs
  <2> QED
    BY <2>2 DEF Rung, Queue, RetryQueue, QueueSpec, Step, QueueKinds, QueueSettings
<1>2. R \in Seq(Step) /\ DOMAIN R = DOMAIN D /\ \A j \in DOMAIN D : R[j] = Rung(D[j], durable)
  <2>1. DOMAIN D = 1..Len(D) /\ Len(D) \in Nat
    OBVIOUS
  <2>2. R \in [1..Len(D) -> Step]
    BY <1>1, <2>1 DEF Rungs
  <2>3. DOMAIN R = DOMAIN D /\ \A j \in DOMAIN D : R[j] = Rung(D[j], durable)
    BY DEF Rungs
  <2> QED
    BY <2>1, <2>2, <2>3, SeqDef
<1>3. B \in Seq(Step) /\ Steps(B) = IF D = <<>> THEN {} ELSE {Bind}
  <2>1. Bind \in Step
    BY DEF Bind, Other, Source, QueueSpec, NoTtl, Step, QueueKinds, QueueSettings
  <2>2. Steps(<<>>) = {} /\ Steps(<<Bind>>) = {Bind}
    BY DEF Steps
  <2>3. <<Bind>> \in Seq(Step) /\ <<>> \in Seq(Step)
    <3> HIDE DEF Bind, Step
    <3> QED
      BY <2>1
  <2>4. CASE D = <<>>
    BY <2>2, <2>3, <2>4
  <2>5. CASE D # <<>>
    BY <2>2, <2>3, <2>5
  <2> QED
    BY <2>4, <2>5
<1>4. Steps(R) = {Rung(D[j], durable) : j \in DOMAIN D}
  <2> HIDE DEF R
  <2> QED
    BY <1>2 DEF Steps
<1> HIDE DEF R, B
<1>5. RungsAndBack(D, durable) = R \o B
  BY DEF RungsAndBack, R, B
<1> QED
  BY <1>2, <1>3, <1>4, <1>5, ConcatSteps

\* Two queues, and three, at the head of a plan.
LEMMA TwoSteps ==
  ASSUME NEW a \in Step, NEW b \in Step
  PROVE  <<a, b>> \in Seq(Step) /\ Steps(<<a, b>>) = {a, b}
<1>1. DOMAIN <<a, b>> = {1, 2}
  OBVIOUS
<1> QED
  BY <1>1 DEF Steps

\* Three of them.
LEMMA ThreeSteps ==
  ASSUME NEW a \in Step, NEW b \in Step, NEW c \in Step
  PROVE  <<a, b, c>> \in Seq(Step) /\ Steps(<<a, b, c>>) = {a, b, c}
<1>1. DOMAIN <<a, b, c>> = {1, 2, 3}
  OBVIOUS
<1> QED
  BY <1>1 DEF Steps

Delays(x) == RungDelays(x.policy, x.how = "start")

\* A setting and the policy in it.
LEMMA SettingIs ==
  ASSUME NEW x \in Settings
  PROVE  /\ x.policy \in Policies /\ x.policy.initial_delay <= MaxDelta
         /\ x.how \in {"apply", "start"} /\ x.durable \in BOOLEAN
         /\ Delays(x) \in Seq(Nat)
<1>1. x.policy \in Policies /\ (x.how = "start") \in BOOLEAN
  BY TopologyAssumption
<1>2. Delays(x) \in Seq(Nat)
  BY <1>1, RungDelaysAre DEF Delays
<1> QED
  BY <1>2, TopologyAssumption

\* What a service declares.
LEMMA PlanSteps ==
  ASSUME NEW x \in Settings
  PROVE  /\ Plan(x) \in Seq(Step)
         /\ x.how = "start" =>
              Steps(Plan(x)) =
                {Queue(DeadLetterQueue, TRUE, NoTtl), Queue(ParkedQueue, TRUE, NoTtl)}
                  \cup IF ScheduleOverflows(x.policy, MaxDelta) THEN {Overflow}
                       ELSE {Rung(Delays(x)[j], TRUE) : j \in DOMAIN Delays(x)}
                              \cup IF Delays(x) = <<>> THEN {} ELSE {Bind}
         /\ x.how = "apply" =>
              Steps(Plan(x)) =
                {Typed(Source, x.durable, QueueType(x)), Queue(DeadLetterQueue, x.durable, NoTtl),
                 Queue(ParkedQueue, x.durable, NoTtl)}
                  \cup {Rung(Delays(x)[j], x.durable) : j \in DOMAIN Delays(x)}
                  \cup IF Delays(x) = <<>> THEN {} ELSE {Bind}
<1> DEFINE D == Delays(x)
<1>1. D \in Seq(Nat) /\ x.durable \in BOOLEAN /\ x.how \in {"apply", "start"}
  BY SettingIs
<1>2. ASSUME NEW durable \in BOOLEAN
      PROVE  /\ Queue(DeadLetterQueue, durable, NoTtl) \in Step /\ Queue(ParkedQueue, durable, NoTtl) \in Step
             /\ Typed(Source, durable, QueueType(x)) \in Step /\ Overflow \in Step
             /\ RungsAndBack(D, durable) \in Seq(Step)
             /\ Steps(RungsAndBack(D, durable)) =
                  {Rung(D[j], durable) : j \in DOMAIN D} \cup IF D = <<>> THEN {} ELSE {Bind}
  <2>1. /\ Queue(DeadLetterQueue, durable, NoTtl) \in Step /\ Queue(ParkedQueue, durable, NoTtl) \in Step
        /\ Typed(Source, durable, QueueType(x)) \in Step /\ Overflow \in Step
    BY DEF Queue, Typed, Overflow, Other, DeadLetterQueue, ParkedQueue, Source, QueueSpec, QueueType,
           NoTtl, Step, QueueKinds, QueueSettings
  <2> HIDE DEF D
  <2> QED
    BY <1>1, <2>1, RungSteps
<1>3. <<Overflow>> \in Seq(Step) /\ Steps(<<Overflow>>) = {Overflow}
  <2>1. Overflow \in Step
    BY <1>2
  <2>2. Steps(<<Overflow>>) = {Overflow}
    BY DEF Steps
  <2> QED
    BY <2>1, <2>2
<1>4. CASE x.how = "start"
  <2> DEFINE a == Queue(DeadLetterQueue, TRUE, NoTtl)  b == Queue(ParkedQueue, TRUE, NoTtl)
             rest == IF ScheduleOverflows(x.policy, MaxDelta) THEN <<Overflow>> ELSE RungsAndBack(D, TRUE)
  <2>1. /\ <<a, b>> \in Seq(Step) /\ Steps(<<a, b>>) = {a, b} /\ rest \in Seq(Step)
    BY <1>2, <1>3, TwoSteps
  <2>2. Plan(x) = <<a, b>> \o rest
    BY <1>4 DEF Plan, StartPlan, FirstOfStart, Delays
  <2>3. Plan(x) \in Seq(Step) /\ Steps(Plan(x)) = {a, b} \cup Steps(rest)
    <3> HIDE DEF a, b, rest
    <3> QED
      BY <2>1, <2>2, ConcatSteps
  <2> QED
    BY <1>2, <1>3, <1>4, <2>3
<1>5. CASE x.how = "apply"
  <2> DEFINE a == Typed(Source, x.durable, QueueType(x))  b == Queue(DeadLetterQueue, x.durable, NoTtl)
             c == Queue(ParkedQueue, x.durable, NoTtl)  rest == RungsAndBack(D, x.durable)
  <2>1. /\ <<a, b, c>> \in Seq(Step) /\ Steps(<<a, b, c>>) = {a, b, c} /\ rest \in Seq(Step)
    <3>1. a \in Step /\ b \in Step /\ c \in Step /\ rest \in Seq(Step)
      BY <1>1, <1>2
    <3> HIDE DEF a, b, c, rest
    <3>2. <<a, b, c>> \in Seq(Step) /\ Steps(<<a, b, c>>) = {a, b, c}
      BY <3>1, ThreeSteps
    <3> QED
      BY <3>1, <3>2
  <2>2. Plan(x) = <<a, b, c>> \o rest
    BY <1>5 DEF Plan, ApplyPlan, Delays
  <2>3. Plan(x) \in Seq(Step) /\ Steps(Plan(x)) = {a, b, c} \cup Steps(rest)
    <3> HIDE DEF a, b, c, rest
    <3> QED
      BY <2>1, <2>2, ConcatSteps
  <2>4. Steps(rest) = {Rung(D[j], x.durable) : j \in DOMAIN D} \cup IF D = <<>> THEN {} ELSE {Bind}
    BY <1>1, <1>2
  <2> HIDE DEF a, b, c, rest, D
  <2>5. Steps(Plan(x)) = {a, b, c} \cup {Rung(D[j], x.durable) : j \in DOMAIN D} \cup IF D = <<>> THEN {} ELSE {Bind}
    BY <2>3, <2>4
  <2> QED
    BY <1>5, <2>3, <2>5 DEF a, b, c, D
<1> QED
  BY <1>1, <1>4, <1>5


\* Whether a service asks for durable queues: a consumer always does.
Durable(x) == x.how = "start" \/ x.durable

\* A topology that is not described, or not valid, is never declared.
CanDeclare(x) == x.how = "apply" => Describable(x) /\ Valid(Plan(x))

\* The queues of a plan.
LEMMA QueueSteps ==
  ASSUME NEW x \in Settings, CanDeclare(x), NEW d \in Steps(Plan(x)), d.op = "queue"
  PROVE  \/ x.how = "apply" /\ d = Typed(Source, x.durable, QueueType(x))
         \/ d = Queue(DeadLetterQueue, Durable(x), NoTtl)
         \/ d = Queue(ParkedQueue, Durable(x), NoTtl)
         \/ /\ ~ScheduleOverflows(x.policy, MaxDelta)
            /\ \E j \in DOMAIN Delays(x) : d = Rung(Delays(x)[j], Durable(x))
<1>1. x.how \in {"apply", "start"} /\ x.durable \in BOOLEAN
  BY SettingIs
<1>2. d # Bind /\ d # Overflow
  <2>1. Bind.op = "bind" /\ Overflow.op = "overflow"
    BY DEF Bind, Overflow, Other
  <2> QED
    BY <2>1
<1>3. CASE x.how = "start"
  <2>1. Durable(x) = TRUE
    BY <1>3 DEF Durable
  <2>2. d \in {Queue(DeadLetterQueue, TRUE, NoTtl), Queue(ParkedQueue, TRUE, NoTtl)}
                  \cup IF ScheduleOverflows(x.policy, MaxDelta) THEN {Overflow}
                       ELSE {Rung(Delays(x)[j], TRUE) : j \in DOMAIN Delays(x)}
                              \cup IF Delays(x) = <<>> THEN {} ELSE {Bind}
    BY <1>3, PlanSteps
  <2> QED
    BY <1>2, <2>1, <2>2
<1>4. CASE x.how = "apply"
  <2>1. Durable(x) = x.durable /\ ~ScheduleOverflows(x.policy, MaxDelta)
    BY <1>1, <1>4 DEF Durable, CanDeclare, Describable
  <2>2. d \in {Typed(Source, x.durable, QueueType(x)), Queue(DeadLetterQueue, x.durable, NoTtl),
               Queue(ParkedQueue, x.durable, NoTtl)}
                  \cup {Rung(Delays(x)[j], x.durable) : j \in DOMAIN Delays(x)}
                  \cup IF Delays(x) = <<>> THEN {} ELSE {Bind}
    BY <1>4, PlanSteps
  <2> QED
    BY <1>2, <1>4, <2>1, <2>2
<1> QED
  BY <1>1, <1>3, <1>4

\* A rung as a queue.
LEMMA RungIs ==
  ASSUME NEW v \in Nat, NEW durable \in BOOLEAN
  PROVE  /\ Rung(v, durable).op = "queue" /\ Rung(v, durable).name = RetryQueue(v)
         /\ Rung(v, durable).as = QueueSpec(durable, "classic", v \div Milli)
         /\ RetryQueue(v).kind = "retry" /\ RetryQueue(v) # Source
         /\ RetryQueue(v) # DeadLetterQueue /\ RetryQueue(v) # ParkedQueue
         /\ v \div Milli \in Nat /\ v \div Second \in Nat
         /\ \A w \in Nat : RetryQueue(v) = RetryQueue(w) => v \div Second = w \div Second
<1>1. v \div Milli \in Nat /\ v \div Second \in Nat
  BY DivIs, TopologyAssumption
<1>2. RetryQueue(v).kind = "retry" /\ \A w \in Nat : RetryQueue(v) = RetryQueue(w) => v \div Second = w \div Second
  <2>1. RetryQueue(v).kind = "retry" /\ RetryQueue(v).seconds = v \div Second
    BY DEF RetryQueue
  <2>2. \A w \in Nat : RetryQueue(w).seconds = w \div Second
    BY DEF RetryQueue
  <2> QED
    BY <2>1, <2>2
<1>3. Source.kind = "source" /\ DeadLetterQueue.kind = "dlq" /\ ParkedQueue.kind = "parked"
  BY DEF Source, DeadLetterQueue, ParkedQueue
<1>4. Rung(v, durable).op = "queue" /\ Rung(v, durable).name = RetryQueue(v)
      /\ Rung(v, durable).as = QueueSpec(durable, "classic", v \div Milli)
  BY DEF Rung, Queue
<1> QED
  BY <1>1, <1>2, <1>3, <1>4

\* Two steps of a valid plan that declare one queue are one step.
LEMMA ValidSteps ==
  ASSUME NEW P, Valid(P), NEW d \in Steps(P), NEW e \in Steps(P),
         d.op = "queue", e.op = "queue", d.name = e.name
  PROVE  d = e
BY DEF Valid, Steps

\* A delay of the schedule spent in the broker is a delay of every topology's rungs.
LEMMA DelaysAre ==
  ASSUME NEW x \in Settings
  PROVE  /\ \A j \in DOMAIN Delays(x) :
              Delays(x)[j] \in Nat /\ \E n \in InBroker(x.policy) : Delays(x)[j] = Schedule(x.policy)[n]
         /\ x.how = "apply" => \A n \in InBroker(x.policy) :
              \E j \in DOMAIN Delays(x) : Delays(x)[j] = Schedule(x.policy)[n]
         /\ x.how = "start" => \A n \in InBroker(x.policy) :
              \E j \in DOMAIN Delays(x) : RetryQueue(Delays(x)[j]) = RetryQueue(Schedule(x.policy)[n])
         /\ x.how = "start" => \A i, j \in DOMAIN Delays(x) :
              RetryQueue(Delays(x)[i]) = RetryQueue(Delays(x)[j]) => i = j
<1> DEFINE p == x.policy  byName == (x.how = "start")  D == RungDelays(p, byName)
<1>1. p \in Policies /\ byName \in BOOLEAN
  BY SettingIs
<1> HIDE DEF p, byName
<1>2. /\ D \in Seq(Nat)
      /\ \A i \in DOMAIN D : \E n \in InBroker(p) : D[i] = Schedule(p)[n]
      /\ \A n \in InBroker(p) : \E i \in DOMAIN D : SameRung(D[i], Schedule(p)[n], byName)
      /\ \A i, j \in DOMAIN D : SameRung(D[i], D[j], byName) => i = j
  BY <1>1, RungDelaysAre
<1>3. D = Delays(x)
  BY DEF Delays, p, byName
<1>4. \A i \in DOMAIN D : D[i] \in Nat
  BY <1>2
<1> HIDE DEF D
<1>5. x.how = "apply" => byName = FALSE
  BY DEF byName
<1>6. x.how = "start" => byName = TRUE
  BY DEF byName
<1> QED
  BY <1>2, <1>3, <1>4, <1>5, <1>6 DEF SameRung, p

\* Two services that agree on the policy, on durable and, if both apply a topology, on
\* the type of the consumed queue, agree on every queue both declare.
LEMMA Agreement ==
  ASSUME NEW x \in Settings, NEW y \in Settings, CanDeclare(x), CanDeclare(y),
         x.policy = y.policy, Durable(x) = Durable(y),
         x.how = "apply" /\ y.how = "apply" => QueueType(x) = QueueType(y),
         NEW d \in Steps(Plan(x)), NEW e \in Steps(Plan(y)),
         d.op = "queue", e.op = "queue", d.name = e.name
  PROVE  d.as = e.as
<1> DEFINE u == Durable(x)
<1>1. /\ x.how \in {"apply", "start"} /\ y.how \in {"apply", "start"}
      /\ x.durable \in BOOLEAN /\ y.durable \in BOOLEAN /\ u \in BOOLEAN
  BY SettingIs DEF Durable
<1>2. \A z \in Settings : \A j \in DOMAIN Delays(z) : Delays(z)[j] \in Nat
  BY DelaysAre
<1>3. /\ Typed(Source, x.durable, QueueType(x)).name = Source
      /\ Typed(Source, y.durable, QueueType(y)).name = Source
      /\ Queue(DeadLetterQueue, u, NoTtl).name = DeadLetterQueue
      /\ Queue(ParkedQueue, u, NoTtl).name = ParkedQueue
      /\ DeadLetterQueue # Source /\ ParkedQueue # Source /\ DeadLetterQueue # ParkedQueue
  BY DEF Typed, Queue, Source, DeadLetterQueue, ParkedQueue
<1>4. \A v \in Nat : /\ Rung(v, u).name = RetryQueue(v) /\ RetryQueue(v) # Source
                     /\ RetryQueue(v) # DeadLetterQueue /\ RetryQueue(v) # ParkedQueue
  BY <1>1, RungIs
<1>5. \/ x.how = "apply" /\ d = Typed(Source, x.durable, QueueType(x))
      \/ d = Queue(DeadLetterQueue, u, NoTtl)
      \/ d = Queue(ParkedQueue, u, NoTtl)
      \/ \E j \in DOMAIN Delays(x) : d = Rung(Delays(x)[j], u)
  BY QueueSteps
<1>6. \/ y.how = "apply" /\ e = Typed(Source, y.durable, QueueType(y))
      \/ e = Queue(DeadLetterQueue, u, NoTtl)
      \/ e = Queue(ParkedQueue, u, NoTtl)
      \/ \E j \in DOMAIN Delays(y) : e = Rung(Delays(y)[j], u)
  BY QueueSteps
<1>7. CASE d.name = Source
  <2>1. x.how = "apply" /\ d = Typed(Source, x.durable, QueueType(x))
    BY <1>2, <1>3, <1>4, <1>5, <1>7
  <2>2. y.how = "apply" /\ e = Typed(Source, y.durable, QueueType(y))
    BY <1>2, <1>3, <1>4, <1>6, <1>7
  <2>3. x.durable = y.durable
    BY <1>1, <2>1, <2>2 DEF Durable
  <2> QED
    BY <2>1, <2>2, <2>3
<1>8. CASE d.name = DeadLetterQueue
  <2>1. d = Queue(DeadLetterQueue, u, NoTtl)
    BY <1>2, <1>3, <1>4, <1>5, <1>8
  <2>2. e = Queue(DeadLetterQueue, u, NoTtl)
    BY <1>2, <1>3, <1>4, <1>6, <1>8
  <2> QED
    BY <2>1, <2>2
<1>9. CASE d.name = ParkedQueue
  <2>1. d = Queue(ParkedQueue, u, NoTtl)
    BY <1>2, <1>3, <1>4, <1>5, <1>9
  <2>2. e = Queue(ParkedQueue, u, NoTtl)
    BY <1>2, <1>3, <1>4, <1>6, <1>9
  <2> QED
    BY <2>1, <2>2
<1>10. CASE d.name # Source /\ d.name # DeadLetterQueue /\ d.name # ParkedQueue
  <2>1. PICK j \in DOMAIN Delays(x) : d = Rung(Delays(x)[j], u)
    BY <1>3, <1>5, <1>10
  <2>2. PICK k \in DOMAIN Delays(y) : e = Rung(Delays(y)[k], u)
    BY <1>3, <1>6, <1>10
  <2> DEFINE v == Delays(x)[j]  w == Delays(y)[k]
  <2>3. v \in Nat /\ w \in Nat /\ RetryQueue(v) = RetryQueue(w)
    BY <1>2, <1>4, <2>1, <2>2
  <2>4. SUFFICES v \div Milli = w \div Milli
    BY <1>1, <2>1, <2>2, <2>3, RungIs
  <2>5. CASE x.how = "start" /\ y.how = "start"
    <3>1. Delays(x) = Delays(y)
      BY <2>5 DEF Delays
    <3>2. j = k
      BY <2>3, <2>5, <3>1, DelaysAre
    <3> QED
      BY <3>1, <3>2
  <2>6. ASSUME NEW z \in Settings, CanDeclare(z), z.how = "apply", z.policy = x.policy
        PROVE  v \div Milli = w \div Milli
    <3>1. PICK n \in InBroker(z.policy) : v = Schedule(z.policy)[n]
      BY <2>6, DelaysAre
    <3>2. PICK m \in InBroker(z.policy) : w = Schedule(z.policy)[m]
      BY <2>6, DelaysAre
    <3>3. PICK i1 \in DOMAIN Delays(z) : Delays(z)[i1] = v
      BY <2>6, <3>1, DelaysAre
    <3>4. PICK i2 \in DOMAIN Delays(z) : Delays(z)[i2] = w
      BY <2>6, <3>2, DelaysAre
    <3> HIDE DEF v, w
    <3>5. z.durable \in BOOLEAN /\ Valid(Plan(z))
      BY <2>6, SettingIs DEF CanDeclare
    <3>6. Rung(v, z.durable) \in Steps(Plan(z)) /\ Rung(w, z.durable) \in Steps(Plan(z))
      <4>1. {Rung(Delays(z)[i], z.durable) : i \in DOMAIN Delays(z)} \subseteq Steps(Plan(z))
        BY <2>6, PlanSteps
      <4> QED
        BY <3>3, <3>4, <4>1
    <3>7. Rung(v, z.durable) = Rung(w, z.durable)
      BY <2>3, <3>5, <3>6, RungIs, ValidSteps
    <3>8. QueueSpec(z.durable, "classic", v \div Milli) = QueueSpec(z.durable, "classic", w \div Milli)
      BY <2>3, <3>5, <3>7, RungIs
    <3> QED
      BY <3>8 DEF QueueSpec
  <2> QED
    BY <1>1, <2>5, <2>6
<1> QED
  BY <1>7, <1>8, <1>9, <1>10


-----------------------------------------------------------------------------
(* The services *)

Begun(s) == state[s] \in {"declaring", "done", "refused"}

\* A service at work follows the plan of its setting, a described and valid one if it
\* applies a topology, and is somewhere in it.
Planned ==
  /\ setting \in [Services -> Settings]
  /\ state \in [Services -> {"off", "declaring", "done", "refused", "invalid", "raised"}]
  /\ plan \in [Services -> Seq(Step)]
  /\ next \in [Services -> Nat]
  /\ \A s \in Services : next[s] \in 1..(Len(plan[s]) + 1)
  /\ \A s \in Services : Begun(s) => plan[s] = Plan(setting[s]) /\ CanDeclare(setting[s])
  /\ bound \in BOOLEAN /\ failed \in 0..MaxFailures

\* A queue is there before anything is declared, or as a service may declare it.
Declares(x, name, as) ==
  CanDeclare(x) /\ \E d \in Steps(Plan(x)) : d.op = "queue" /\ d.name = name /\ d.as = as

DeclaredFrom ==
  \A name \in DOMAIN queues :
    \/ name = Source /\ queues[name] = QueueSpec(TRUE, "quorum", NoTtl)
    \/ \E t \in Services : Declares(setting[t], name, queues[name])

\* What a service has passed in its plan is there, and a service that is done has
\* passed it all.
Passed(d) ==
  /\ d.op = "queue" => d.name \in DOMAIN queues
  /\ d.op = "bind" => bound
  /\ d.op # "overflow"

SoFar ==
  \A s \in Services :
    /\ \A i \in 1..Len(plan[s]) : i < next[s] => Passed(plan[s][i])
    /\ state[s] = "done" => next[s] > Len(plan[s])

\* The declaration that was refused still is at odds with the queue.
Refused ==
  \A s \in Services : state[s] = "refused" =>
    next[s] <= Len(plan[s]) /\ Conflicts(plan[s][next[s]])

TopologyInv == Planned /\ DeclaredFrom /\ SoFar /\ Refused

\* A queue that is there stays as it is.
Grown ==
  /\ DOMAIN queues \subseteq DOMAIN queues'
  /\ \A name \in DOMAIN queues : queues'[name] = queues[name]
  /\ bound => bound'

\* One declaration that is not refused adds its queue, or the way back.
Makes(s, d) ==
  IF d.op = "bind" THEN bound' = TRUE /\ UNCHANGED queues
  ELSE /\ queues' = [name \in DOMAIN queues \cup {d.name} |->
                      IF name = d.name THEN d.as ELSE queues[name]]
       /\ UNCHANGED bound

\* What a step of the plan leaves behind.
LEMMA MakesIs ==
  ASSUME NEW s, NEW d \in Step, Makes(s, d), d.op \in {"queue", "bind"}, ~Conflicts(d)
  PROVE  /\ Grown
         /\ d.op = "queue" => d.name \in DOMAIN queues'
         /\ d.op = "bind" => bound'
         /\ \A name \in DOMAIN queues' :
              name \in DOMAIN queues \/ (d.op = "queue" /\ name = d.name /\ queues'[name] = d.as)
<1>1. CASE d.op = "bind"
  BY <1>1 DEF Makes, Grown
<1>2. CASE d.op = "queue"
  <2>1. /\ queues' = [name \in DOMAIN queues \cup {d.name} |->
                       IF name = d.name THEN d.as ELSE queues[name]]
        /\ UNCHANGED bound
    BY <1>2 DEF Makes
  <2>2. d.name \in DOMAIN queues => queues[d.name] = d.as
    BY <1>2 DEF Conflicts
  <2> QED
    BY <1>2, <2>1, <2>2 DEF Grown
<1> QED
  BY <1>1, <1>2

\* A service at the start.
LEMMA InvInit == TopologyInit => TopologyInv
<1> SUFFICES ASSUME TopologyInit PROVE TopologyInv
  OBVIOUS
<1>1. Planned
  <2>1. <<>> \in Seq(Step) /\ Len(<<>>) = 0
    OBVIOUS
  <2>2. \A s \in Services : plan[s] = <<>> /\ next[s] = 1 /\ state[s] = "off"
    BY DEF TopologyInit
  <2>3. \A s \in Services : next[s] \in 1..(Len(plan[s]) + 1) /\ ~Begun(s)
    BY <2>1, <2>2 DEF Begun
  <2>4. plan \in [Services -> Seq(Step)] /\ next \in [Services -> Nat]
    BY <2>1 DEF TopologyInit
  <2>5. failed \in 0..MaxFailures /\ bound \in BOOLEAN
    <3>1. MaxFailures \in Nat
      BY TopologyAssumption
    <3>2. failed = 0 /\ bound = FALSE
      BY DEF TopologyInit
    <3>3. failed \in 0..MaxFailures
      BY <3>1, <3>2
    <3> QED
      BY <3>2, <3>3
  <2>6. /\ setting \in [Services -> Settings]
        /\ state \in [Services -> {"off", "declaring", "done", "refused", "invalid", "raised"}]
    BY DEF TopologyInit
  <2> QED
    BY <2>3, <2>4, <2>5, <2>6 DEF Planned
<1>2. DeclaredFrom
  <2>1. \A name \in DOMAIN queues : name = Source /\ queues[name] = QueueSpec(TRUE, "quorum", NoTtl)
    <3>1. CASE queues = <<>>
      BY <3>1
    <3>2. CASE queues = [name \in {Source} |-> QueueSpec(TRUE, "quorum", NoTtl)]
      BY <3>2
    <3> QED
      BY <3>1, <3>2 DEF TopologyInit
  <2> QED
    BY <2>1 DEF DeclaredFrom
<1>3. SoFar
  BY DEF TopologyInit, SoFar
<1>4. Refused
  BY DEF TopologyInit, Refused
<1> QED
  BY <1>1, <1>2, <1>3, <1>4 DEF TopologyInv

\* What has been declared stays as it was declared, so nothing said of it changes.
LEMMA GrownKeeps ==
  ASSUME TopologyInv, Grown
  PROVE  /\ \A d : Passed(d) => Passed(d)'
         /\ \A d : Conflicts(d) => Conflicts(d)'
BY DEF Grown, Passed, Conflicts


\* Nothing declared and no setting changed.
LEMMA DeclaredStays ==
  ASSUME DeclaredFrom, queues' = queues, setting' = setting
  PROVE  DeclaredFrom'
<1>1. \A t, name, as : Declares(setting[t], name, as)' <=> Declares(setting[t], name, as)
  BY DEF Declares
<1> QED
  BY <1>1 DEF DeclaredFrom

\* A step that only moves services from one state to another, to a lawful one.
LEMMA OnlyStates ==
  ASSUME TopologyInv, NEW s \in Services, NEW to \in {"off", "raised", "done"},
         Begun(s) \/ state[s] = "off", state' = [state EXCEPT ![s] = to],
         to = "done" => Begun(s) /\ next[s] > Len(plan[s]),
         failed' \in 0..MaxFailures,
         UNCHANGED <<setting, queues, bound, plan, next>>
  PROVE  TopologyInv'
<1>1. state' \in [Services -> {"off", "declaring", "done", "refused", "invalid", "raised"}]
      /\ state'[s] = to /\ \A t \in Services \ {s} : state'[t] = state[t]
  BY DEF TopologyInv, Planned
<1>2. \A t \in Services : Begun(t)' => Begun(t)
  BY <1>1 DEF Begun
<1>3. Planned'
  BY <1>1, <1>2 DEF TopologyInv, Planned, CanDeclare
<1>4. DeclaredFrom'
  <2>1. DeclaredFrom
    BY DEF TopologyInv
  <2>2. queues' = queues /\ setting' = setting
    OBVIOUS
  <2> QED
    BY ONLY <2>1, <2>2, DeclaredStays
<1>5. SoFar'
  BY <1>1 DEF TopologyInv, SoFar, Passed
<1>6. Refused'
  BY <1>1 DEF TopologyInv, Refused, Conflicts
<1> QED
  BY <1>3, <1>4, <1>5, <1>6 DEF TopologyInv

\* What DeclareNext does in its two outcomes.
LEMMA InvDeclare ==
  ASSUME TopologyInv, NEW s \in Services, DeclareNext(s)
  PROVE  TopologyInv'
<1> DEFINE d == plan[s][next[s]]
<1>1. /\ state[s] = "declaring" /\ next[s] <= Len(plan[s]) /\ d.op \in {"queue", "bind"}
      /\ UNCHANGED <<setting, plan, failed>>
  BY DEF DeclareNext
<1>2. /\ plan[s] \in Seq(Step) /\ next[s] \in 1..Len(plan[s]) /\ Len(plan[s]) \in Nat
      /\ setting[s] \in Settings /\ DOMAIN plan[s] = 1..Len(plan[s])
  BY <1>1 DEF TopologyInv, Planned
<1>3. d \in Step /\ d \in Steps(plan[s])
  <2>1. \A P \in Seq(Step) : \A i \in 1..Len(P) : P[i] \in Step
    OBVIOUS
  <2> QED
    BY <1>2, <2>1 DEF Steps
<1>4. plan[s] = Plan(setting[s]) /\ CanDeclare(setting[s])
  BY <1>1 DEF TopologyInv, Planned, Begun
<1>5. CASE Conflicts(d) /\ state' = [state EXCEPT ![s] = "refused"] /\ UNCHANGED <<queues, bound, next>>
  <2>1. /\ state' \in [Services -> {"off", "declaring", "done", "refused", "invalid", "raised"}]
        /\ state'[s] = "refused" /\ \A t \in Services \ {s} : state'[t] = state[t]
    BY <1>5 DEF TopologyInv, Planned
  <2>2. \A t \in Services : Begun(t)' => Begun(t)
    BY <1>1, <2>1 DEF Begun
  <2>3. Planned'
    BY <1>1, <1>5, <2>1, <2>2 DEF TopologyInv, Planned, CanDeclare
  <2>4. DeclaredFrom'
    <3>1. DeclaredFrom
      BY DEF TopologyInv
    <3>2. queues' = queues /\ setting' = setting
      BY <1>1, <1>5
    <3> QED
      BY ONLY <3>1, <3>2, DeclaredStays
  <2>5. SoFar'
    BY <1>1, <1>5, <2>1 DEF TopologyInv, SoFar, Passed
  <2>6. Refused'
    BY <1>1, <1>5, <2>1 DEF TopologyInv, Refused, Conflicts
  <2> QED
    BY <2>3, <2>4, <2>5, <2>6 DEF TopologyInv
<1>6. CASE /\ ~Conflicts(d) /\ Makes(s, d) /\ next' = [next EXCEPT ![s] = @ + 1] /\ UNCHANGED state
  <2>1. /\ Grown
        /\ d.op = "queue" => d.name \in DOMAIN queues'
        /\ d.op = "bind" => bound'
        /\ \A name \in DOMAIN queues' :
             name \in DOMAIN queues \/ (d.op = "queue" /\ name = d.name /\ queues'[name] = d.as)
    BY <1>1, <1>3, <1>6, MakesIs
  <2>2. \A e : e = d => Passed(e)'
    BY <1>1, <2>1 DEF Passed
  <2>3. /\ next' \in [Services -> Nat] /\ next'[s] = next[s] + 1
        /\ \A t \in Services \ {s} : next'[t] = next[t]
    BY <1>2, <1>6 DEF TopologyInv, Planned
  <2>4. Planned'
    <3>1. bound' \in BOOLEAN
      BY <1>6 DEF Makes, TopologyInv, Planned
    <3>2. \A t \in Services : Begun(t)' => Begun(t)
      BY <1>6 DEF Begun
    <3>3. \A t \in Services : next'[t] \in 1..(Len(plan[t]) + 1)
      <4>1. next[s] + 1 \in 1..(Len(plan[s]) + 1)
        BY <1>2
      <4> QED
        BY <2>3, <4>1 DEF TopologyInv, Planned
    <3> QED
      BY <1>1, <1>6, <2>3, <3>1, <3>2, <3>3 DEF TopologyInv, Planned, CanDeclare
  <2>5. DeclaredFrom'
    <3> SUFFICES ASSUME NEW name \in DOMAIN queues'
                 PROVE  \/ name = Source /\ queues'[name] = QueueSpec(TRUE, "quorum", NoTtl)
                        \/ \E t \in Services : Declares(setting[t], name, queues'[name])
      BY <1>1 DEF DeclaredFrom, Declares
    <3>1. CASE name \in DOMAIN queues
      BY <2>1, <3>1 DEF Grown, TopologyInv, DeclaredFrom
    <3>2. CASE d.op = "queue" /\ name = d.name /\ queues'[name] = d.as
      BY <1>3, <1>4, <3>2 DEF Declares
    <3> QED
      BY <2>1, <3>1, <3>2
  <2>6. SoFar'
    <3>1. \A e : Passed(e) => Passed(e)'
      BY <2>1, GrownKeeps
    <3>2. ASSUME NEW t \in Services, NEW i \in 1..Len(plan[t]), i < next'[t] PROVE Passed(plan[t][i])'
      <4>1. CASE i < next[t]
        BY <3>1, <4>1, <1>1 DEF TopologyInv, SoFar, Passed
      <4>2. CASE ~(i < next[t])
        <5>1. t = s /\ i = next[s]
          BY <1>2, <2>3, <3>2, <4>2 DEF TopologyInv, Planned
        <5> QED
          BY <1>1, <2>2, <5>1 DEF Passed
      <4> QED
        BY <4>1, <4>2
    <3>3. \A t \in Services : state'[t] = "done" => next'[t] > Len(plan[t])
      <4>1. \A t \in Services : state[t] = "done" => t # s
        BY <1>1
      <4> QED
        BY <1>6, <2>3, <4>1 DEF TopologyInv, SoFar
    <3> QED
      BY <1>1, <3>2, <3>3 DEF SoFar, Passed
  <2>7. Refused'
    <3>1. \A e : Conflicts(e) => Conflicts(e)'
      BY <2>1, GrownKeeps
    <3>2. \A t \in Services : state[t] = "refused" => t # s
      BY <1>1
    <3> QED
      BY <1>1, <1>6, <2>3, <3>1, <3>2 DEF TopologyInv, Refused, Conflicts
  <2> QED
    BY <2>4, <2>5, <2>6, <2>7 DEF TopologyInv
<1> QED
  BY <1>5, <1>6 DEF DeclareNext, Makes


\* A service that begins has the plan of its setting before it.
LEMMA InvBegin ==
  ASSUME TopologyInv, NEW s \in Services, Begin(s)
  PROVE  TopologyInv'
<1> DEFINE P == Plan(setting[s])
<1>1. setting[s] \in Settings /\ P \in Seq(Step) /\ Len(P) \in Nat
  <2>1. setting[s] \in Settings
    BY DEF TopologyInv, Planned
  <2>2. P \in Seq(Step)
    BY <2>1, PlanSteps
  <2> HIDE DEF P
  <2> QED
    BY <2>1, <2>2
<1>2. plan' = [plan EXCEPT ![s] = P] /\ next' = [next EXCEPT ![s] = 1]
      /\ UNCHANGED <<setting, queues, bound, failed>>
  BY DEF Begin
<1>3. /\ plan' \in [Services -> Seq(Step)] /\ plan'[s] = P
      /\ \A t \in Services \ {s} : plan'[t] = plan[t]
      /\ next' \in [Services -> Nat] /\ next'[s] = 1
      /\ \A t \in Services \ {s} : next'[t] = next[t]
  <2> HIDE DEF P
  <2> QED
    BY <1>1, <1>2 DEF TopologyInv, Planned
<1>4. /\ state' = [state EXCEPT ![s] = IF Applies(s) /\ ~Valid(P) THEN "invalid" ELSE "declaring"]
      /\ Applies(s) => Describable(setting[s])
  BY <1>3 DEF Begin
<1>5. /\ state' \in [Services -> {"off", "declaring", "done", "refused", "invalid", "raised"}]
      /\ state'[s] \in {"declaring", "invalid"} /\ (state'[s] = "declaring" => CanDeclare(setting[s]))
      /\ \A t \in Services \ {s} : state'[t] = state[t]
  <2> HIDE DEF P
  <2>1. state \in [Services -> {"off", "declaring", "done", "refused", "invalid", "raised"}]
    BY DEF TopologyInv, Planned
  <2>2. state'[s] = "declaring" => CanDeclare(setting[s])
    BY <1>4, <2>1 DEF P, CanDeclare, Applies
  <2> QED
    BY <1>4, <2>1, <2>2
<1> HIDE DEF P
<1>6. Planned'
  <2>1. \A t \in Services : next'[t] \in 1..(Len(plan'[t]) + 1)
    <3> TAKE t \in Services
    <3>1. CASE t = s
      BY <1>1, <1>3, <3>1
    <3>2. CASE t # s
      BY <1>3, <3>2 DEF TopologyInv, Planned
    <3> QED
      BY <3>1, <3>2
  <2>2. \A t \in Services : Begun(t)' => plan'[t] = Plan(setting[t]) /\ CanDeclare(setting[t])
    <3>1. Begun(s)' => CanDeclare(setting[s])
      BY <1>5 DEF Begun
    <3>2. \A t \in Services \ {s} : Begun(t)' => Begun(t)
      BY <1>5 DEF Begun
    <3> QED
      BY <1>3, <3>1, <3>2 DEF P, TopologyInv, Planned
  <2>3. failed' \in 0..MaxFailures /\ bound' \in BOOLEAN /\ setting' = setting
    BY <1>2 DEF TopologyInv, Planned
  <2>4. setting' \in [Services -> Settings]
    BY <2>3 DEF TopologyInv, Planned
  <2>5. \A t \in Services : Begun(t)' => plan'[t] = Plan(setting'[t]) /\ CanDeclare(setting'[t])
    BY <2>2, <2>3
  <2> QED
    BY <1>3, <1>5, <2>1, <2>3, <2>4, <2>5 DEF Planned
<1>7. DeclaredFrom'
  <2>1. DeclaredFrom
    BY DEF TopologyInv
  <2>2. queues' = queues /\ setting' = setting
    BY <1>2 DEF TopologyInv, Planned
  <2> QED
    BY ONLY <2>1, <2>2, DeclaredStays
<1>8. SoFar'
  <2>1. \A e : Passed(e) => Passed(e)'
    BY <1>2 DEF Passed
  <2>2. ASSUME NEW t \in Services
        PROVE  (\A i \in 1..Len(plan[t]) : i < next[t] => Passed(plan[t][i]))'
    <3>1. CASE t = s
      <4>1. \A i \in 1..Len(plan'[t]) : ~(i < next'[t])
        BY <1>1, <1>3, <3>1
      <4> QED
        BY <4>1
    <3>2. CASE t # s
      <4>1. plan'[t] = plan[t] /\ next'[t] = next[t]
        BY <1>3, <3>2
      <4>2. \A i \in 1..Len(plan[t]) : i < next[t] => Passed(plan[t][i])
        BY DEF TopologyInv, SoFar
      <4>3. \A i \in 1..Len(plan[t]) : i < next[t] => \A e : e = plan[t][i] => Passed(e)'
        BY <2>1, <4>2
      <4> QED
        BY <4>1, <4>3 DEF Passed
    <3> QED
      BY <3>1, <3>2
  <2>3. \A t \in Services : state'[t] = "done" => next'[t] > Len(plan'[t])
    BY <1>3, <1>5 DEF TopologyInv, SoFar
  <2> QED
    BY <2>2, <2>3 DEF SoFar
<1>9. Refused'
  BY <1>2, <1>3, <1>5 DEF TopologyInv, Refused, Conflicts
<1> QED
  BY <1>6, <1>7, <1>8, <1>9 DEF TopologyInv

\* Every step of the system.
LEMMA InvNext == TopologyInv /\ [TopologyNext]_topologyVars => TopologyInv'
<1> SUFFICES ASSUME TopologyInv, [TopologyNext]_topologyVars PROVE TopologyInv'
  OBVIOUS
<1>1. failed \in 0..MaxFailures /\ MaxFailures \in Nat
  BY TopologyAssumption DEF TopologyInv, Planned
<1>2. ASSUME NEW s \in Services, Begin(s) PROVE TopologyInv'
  BY <1>2, InvBegin
<1>3. ASSUME NEW s \in Services, DescribeRaises(s) PROVE TopologyInv'
  BY <1>1, <1>3, OnlyStates DEF DescribeRaises
<1>4. ASSUME NEW s \in Services, DeclareNext(s) PROVE TopologyInv'
  BY <1>4, InvDeclare
<1>5. ASSUME NEW s \in Services, StartRaises(s) PROVE TopologyInv'
  BY <1>1, <1>5, OnlyStates DEF StartRaises, Begun
<1>6. ASSUME NEW s \in Services, SourceMissing(s) PROVE TopologyInv'
  BY <1>1, <1>6, OnlyStates DEF SourceMissing, Begun
<1>7. ASSUME NEW s \in Services, Interrupted(s) PROVE TopologyInv'
  <2>1. failed' \in 0..MaxFailures
    BY <1>1, <1>7 DEF Interrupted
  <2> QED
    BY <1>7, <2>1, OnlyStates DEF Interrupted, Begun
<1>8. ASSUME NEW s \in Services, Ready(s) PROVE TopologyInv'
  BY <1>1, <1>8, OnlyStates DEF Ready, Begun
<1>9. CASE UNCHANGED topologyVars
  <2>1. UNCHANGED <<setting, queues, bound, state, plan, next, failed>>
    BY <1>9 DEF topologyVars
  <2>2. Planned'
    BY <2>1 DEF TopologyInv, Planned, Begun
  <2>3. DeclaredFrom'
    BY <2>1, DeclaredStays DEF TopologyInv
  <2>4. SoFar'
    BY <2>1 DEF TopologyInv, SoFar, Passed
  <2>5. Refused'
    BY <2>1 DEF TopologyInv, Refused, Conflicts
  <2> QED
    BY <2>2, <2>3, <2>4, <2>5 DEF TopologyInv
<1> QED
  BY <1>2, <1>3, <1>4, <1>5, <1>6, <1>7, <1>8, <1>9 DEF TopologyNext

\* The inductive invariant holds throughout.
LEMMA InvHolds == TopologySpec => []TopologyInv
BY InvInit, InvNext, PTL DEF TopologySpec


-----------------------------------------------------------------------------
(* What the invariant gives *)

\* A queue on the broker, if a service may declare it: its settings are those of the
\* consumed queue, of a queue for what failed, or of a rung within the longest delay.
LEMMA DeclaredIs ==
  ASSUME NEW x \in Settings, NEW name, NEW as, Declares(x, name, as)
  PROVE  /\ as.durable \in BOOLEAN
         /\ as.type \in {"classic"} \cup (IF name = Source THEN {"quorum"} ELSE {})
         /\ as.ttl \in IF name.kind = "retry" THEN 0..MaxDelta ELSE {NoTtl}
         /\ name.kind = "retry" => \E v \in Nat : name = RetryQueue(v) /\ as.ttl = v \div Milli
<1>1. PICK d \in Steps(Plan(x)) : d.op = "queue" /\ d.name = name /\ d.as = as
  BY DEF Declares
<1>2. CanDeclare(x) /\ Durable(x) \in BOOLEAN /\ x.durable \in BOOLEAN /\ MaxDelta \in Nat
  BY SettingIs, TopologyAssumption DEF Declares, Durable
<1>3. CASE d = Typed(Source, x.durable, QueueType(x))
  BY <1>1, <1>2, <1>3 DEF Typed, QueueSpec, QueueType, Source
<1>4. CASE d = Queue(DeadLetterQueue, Durable(x), NoTtl)
  BY <1>1, <1>2, <1>4 DEF Queue, QueueSpec, DeadLetterQueue
<1>5. CASE d = Queue(ParkedQueue, Durable(x), NoTtl)
  BY <1>1, <1>2, <1>5 DEF Queue, QueueSpec, ParkedQueue
<1>6. CASE /\ ~ScheduleOverflows(x.policy, MaxDelta)
           /\ \E j \in DOMAIN Delays(x) : d = Rung(Delays(x)[j], Durable(x))
  <2>1. PICK j \in DOMAIN Delays(x) : d = Rung(Delays(x)[j], Durable(x))
    BY <1>6
  <2>2. PICK n \in InBroker(x.policy) : Delays(x)[j] = Schedule(x.policy)[n]
    BY DelaysAre
  <2>3. n \in DOMAIN Schedule(x.policy) /\ x.policy \in Policies /\ x.policy.initial_delay <= MaxDelta
    BY <2>2, SettingIs DEF InBroker
  <2> DEFINE v == Schedule(x.policy)[n]
  <2>4. v \in Nat /\ v <= MaxDelta
    BY <1>2, <1>6, <2>3, ScheduleIs
  <2> HIDE DEF v
  <2>5. d = Rung(v, Durable(x))
    BY <2>1, <2>2 DEF v
  <2>6. name = RetryQueue(v) /\ name.kind = "retry" /\ name # Source
        /\ as = QueueSpec(Durable(x), "classic", v \div Milli)
    <3> DEFINE u == Durable(x)
    <3>1. u \in BOOLEAN
      BY <1>2
    <3> HIDE DEF u
    <3>2. /\ Rung(v, u).name = RetryQueue(v) /\ Rung(v, u).as = QueueSpec(u, "classic", v \div Milli)
          /\ RetryQueue(v).kind = "retry" /\ RetryQueue(v) # Source
      BY <2>4, <3>1, RungIs
    <3>3. d = Rung(v, u)
      BY <2>5 DEF u
    <3>4. name = RetryQueue(v) /\ as = QueueSpec(u, "classic", v \div Milli)
      BY <1>1, <3>2, <3>3
    <3> QED
      BY <3>2, <3>4 DEF u
  <2>7. v \div Milli \in Nat /\ v \div Milli <= v
    BY <2>4, DivIs, TopologyAssumption
  <2>8. v \div Milli \in 0..MaxDelta
    BY <1>2, <2>4, <2>7
  <2>9. as.durable = Durable(x) /\ as.type = "classic" /\ as.ttl = v \div Milli
    BY <2>6 DEF QueueSpec
  <2> QED
    BY <1>2, <2>4, <2>6, <2>8, <2>9
<1> QED
  BY <1>1, <1>2, <1>3, <1>4, <1>5, <1>6, QueueSteps

\* What the invariant says of types.
LEMMA InvType == TopologyInv => TopologyTypeOK
<1> SUFFICES ASSUME TopologyInv PROVE TopologyTypeOK
  OBVIOUS
<1>1. ASSUME NEW name \in DOMAIN queues
      PROVE  /\ queues[name].durable \in BOOLEAN
             /\ queues[name].type \in {"classic"} \cup (IF name = Source THEN {"quorum"} ELSE {})
             /\ queues[name].ttl \in IF name.kind = "retry" THEN 0..MaxDelta ELSE {NoTtl}
  <2>1. CASE name = Source /\ queues[name] = QueueSpec(TRUE, "quorum", NoTtl)
    BY <2>1 DEF QueueSpec, Source
  <2>2. CASE \E t \in Services : Declares(setting[t], name, queues[name])
    <3>1. PICK t \in Services : Declares(setting[t], name, queues[name])
      BY <2>2
    <3>2. setting[t] \in Settings
      BY DEF TopologyInv, Planned
    <3> QED
      BY <3>1, <3>2, DeclaredIs
  <2> QED
    BY <2>1, <2>2 DEF TopologyInv, DeclaredFrom
<1> QED
  BY <1>1 DEF TopologyInv, Planned, TopologyTypeOK

\* Every variable has its type: each queue the settings a plan of the code may give it.
THEOREM TopologyTyping == TopologySpec => []TopologyTypeOK
BY InvHolds, InvType, PTL

\* Two delays of one name are less than a second apart, and so is the time a rung of
\* one of them keeps a message from the other.
LEMMA HeldIs ==
  ASSUME NEW v \in Nat, NEW w \in Nat, v \div Second = w \div Second
  PROVE  (v \div Milli) * Milli - w \in (1 - Second)..(Second - 1)
<1> DEFINE q == v \div Second  m == v \div Milli  c == Second \div Milli
<1>1. Second \in Nat \ {0} /\ Milli \in Nat \ {0} /\ Second % Milli = 0
  BY TopologyAssumption
<1>2. /\ q \in Nat /\ Second * q <= v /\ v < Second * q + Second
      /\ Second * q <= w /\ w < Second * q + Second
  BY <1>1, DivIs
<1>3. m \in Nat /\ Milli * m <= v /\ v < Milli * m + Milli
  BY <1>1, DivIs
<1>4. c \in Nat /\ Second = Milli * c
  <2>1. \A b \in Nat \ {0} : \A a \in Nat : a = b * (a \div b) + (a % b)
    OBVIOUS
  <2> QED
    BY <1>1, <2>1, DivIs
<1> HIDE DEF q, m, c
<1>5. c * q \in Nat /\ Second * q = Milli * (c * q)
  BY <1>1, <1>2, <1>4
<1>6. c * q <= m
  <2> DEFINE k == c * q
  <2>1. k \in Nat /\ Milli * k <= v
    BY <1>2, <1>5
  <2> HIDE DEF k
  <2>2. ASSUME m < k PROVE FALSE
    <3>1. m + 1 <= k
      BY <1>3, <2>1, <2>2
    <3>2. Milli * (m + 1) <= Milli * k
      BY <1>1, <1>3, <2>1, <3>1
    <3>3. Milli * (m + 1) = Milli * m + Milli
      BY <1>1, <1>3
    <3> QED
      BY <1>1, <1>3, <2>1, <3>2, <3>3
  <2> QED
    BY <1>3, <2>1, <2>2 DEF k
<1>7. Milli * (c * q) <= Milli * m /\ Milli * m \in Nat /\ m * Milli = Milli * m
  BY <1>1, <1>3, <1>5, <1>6
<1> DEFINE lo == Second * q  held == m * Milli
<1>8. lo \in Nat /\ held \in Nat /\ lo <= held /\ held <= v /\ v < lo + Second /\ lo <= w /\ w < lo + Second
  BY <1>1, <1>2, <1>3, <1>5, <1>7
<1> HIDE DEF lo, held
<1>9. held - w \in (1 - Second)..(Second - 1)
  BY <1>1, <1>8
<1> QED
  BY <1>9 DEF held, m


\* Why a rung keeps time: a consumer that is done has passed all of its plan, which has
\* a rung of the wait's name, and whoever declared that name did so for a delay within
\* the same second.
LEMMA InvTime == TopologyInv => RungsKeepTime
<1> SUFFICES ASSUME TopologyInv, NEW s \in Services, state[s] = "done", ~Applies(s),
                    NEW wait \in Waits(setting[s].policy), wait.in_broker
             PROVE  /\ bound /\ RetryQueue(wait.delay) \in DOMAIN queues
                    /\ queues[RetryQueue(wait.delay)].ttl * Milli - wait.delay \in (1 - Second)..(Second - 1)
  BY InvType DEF RungsKeepTime
<1> DEFINE x == setting[s]  p == x.policy
<1>1. x \in Settings /\ p \in Policies /\ x.how = "start"
  <2>1. x \in Settings
    BY DEF TopologyInv, Planned
  <2> QED
    BY <2>1, SettingIs DEF Applies
<1>2. plan[s] = Plan(x) /\ next[s] > Len(plan[s]) /\ plan[s] \in Seq(Step)
  BY DEF TopologyInv, Planned, Begun, SoFar
<1>3. \A d \in Steps(Plan(x)) : Passed(d)
  <2>1. DOMAIN plan[s] = 1..Len(plan[s])
    BY <1>2
  <2>2. \A i \in 1..Len(plan[s]) : i < next[s]
    BY <1>2 DEF TopologyInv, Planned
  <2> QED
    BY <1>2, <2>1, <2>2 DEF TopologyInv, SoFar, Steps
<1> HIDE DEF x, p
<1>4. ~ScheduleOverflows(p, MaxDelta)
  <2>1. Overflow.op = "overflow"
    BY DEF Overflow, Other
  <2>2. ScheduleOverflows(p, MaxDelta) => Overflow \in Steps(Plan(x))
    BY <1>1, PlanSteps DEF p
  <2> QED
    BY <1>3, <2>1, <2>2 DEF Passed
<1>5. Steps(Plan(x)) = {Queue(DeadLetterQueue, TRUE, NoTtl), Queue(ParkedQueue, TRUE, NoTtl)}
                         \cup ({Rung(Delays(x)[j], TRUE) : j \in DOMAIN Delays(x)}
                                 \cup IF Delays(x) = <<>> THEN {} ELSE {Bind})
  BY <1>1, <1>4, PlanSteps DEF p
<1>6. PICK n \in 1..(p.max_attempts - 1), draw \in {-100, 0, 100} : wait = NextWait(p, n, 0, draw)
  BY DEF Waits, p, x
<1>7. n \in Nat \ {0} /\ ~GivesUp(p, n, 0)
  BY <1>1, <1>6 DEF GivesUp, TooOld, Policies
<1>8. PICK k \in InBroker(p) : wait.delay = Schedule(p)[k]
  BY <1>1, <1>6, <1>7, BrokerWaitsHaveRungs
<1>9. PICK j \in DOMAIN Delays(x) : RetryQueue(Delays(x)[j]) = RetryQueue(wait.delay)
  BY <1>1, <1>8, DelaysAre DEF p
<1> DEFINE v == Delays(x)[j]  w == wait.delay
<1>10. v \in Nat /\ w \in Nat
  BY <1>1, <1>8, <1>9, ScheduleIs, DelaysAre DEF InBroker
<1>11. Rung(v, TRUE) \in Steps(Plan(x)) /\ Bind \in Steps(Plan(x))
  <2>1. Delays(x) # <<>>
    BY <1>9
  <2> QED
    BY <1>5, <1>9, <2>1
<1>12. bound
  BY <1>3, <1>11 DEF Passed, Bind, Other
<1>13. RetryQueue(w) \in DOMAIN queues
  <2> DEFINE d == Rung(v, TRUE)
  <2>1. d.op = "queue" /\ d.name = RetryQueue(w)
    BY <1>9 DEF Rung, Queue
  <2>2. d \in Steps(Plan(x))
    BY <1>11
  <2> HIDE DEF d
  <2>3. Passed(d)
    BY <1>3, <2>2
  <2> QED
    BY <2>1, <2>3 DEF Passed
<1> HIDE DEF v, w
<1>14. PICK t \in Services : Declares(setting[t], RetryQueue(w), queues[RetryQueue(w)])
  <2>1. RetryQueue(w) # Source
    BY <1>10, RungIs
  <2> QED
    BY <1>13, <2>1 DEF TopologyInv, DeclaredFrom
<1>15. setting[t] \in Settings /\ RetryQueue(w).kind = "retry"
  BY DEF TopologyInv, Planned, RetryQueue
<1>16. PICK u \in Nat : RetryQueue(w) = RetryQueue(u) /\ queues[RetryQueue(w)].ttl = u \div Milli
  BY <1>14, <1>15, DeclaredIs
<1>17. u \div Second = w \div Second
  BY <1>10, <1>16, RungIs
<1>18. queues[RetryQueue(w)].ttl * Milli - w \in (1 - Second)..(Second - 1)
  BY <1>10, <1>16, <1>17, HeldIs
<1> QED
  BY <1>12, <1>13, <1>18 DEF w

\* Wherever a consumer that has started sends a message to wait there is a queue of that
\* name, with a way back, and it keeps the message for the delay asked for, to the second.
THEOREM RungsKeep == TopologySpec => []RungsKeepTime
BY InvHolds, InvTime, PTL

\* Why services that agree do not refuse each other: the queue that is in the way is one
\* some plan declares, and plans that agree declare it alike.
LEMMA InvAgree == TopologyInv => AgreementIsEnough
<1> SUFFICES ASSUME TopologyInv, NEW s \in Services, state[s] = "refused",
                    ~(Applies(s) /\ QueueType(setting[s]) = "classic")
             PROVE  \E t \in Services \ {s} :
                      \/ setting[t].policy # setting[s].policy \/ ~setting[t].durable \/ ~setting[s].durable
                      \/ {s, t} \subseteq Applying /\ QueueType(setting[t]) # QueueType(setting[s])
  BY DEF AgreementIsEnough
<1> DEFINE x == setting[s]  d == plan[s][next[s]]
<1>1. x \in Settings /\ plan[s] = Plan(x) /\ CanDeclare(x)
  BY DEF TopologyInv, Planned, Begun
<1>2. d \in Steps(Plan(x)) /\ Conflicts(d)
  <2>1. next[s] \in 1..Len(plan[s]) /\ plan[s] \in Seq(Step)
    BY DEF TopologyInv, Planned, Refused
  <2>2. next[s] \in DOMAIN plan[s]
    BY <2>1
  <2> QED
    BY <1>1, <2>2 DEF TopologyInv, Refused, Steps
<1> HIDE DEF x, d
<1>3. d.op = "queue" /\ d.name \in DOMAIN queues /\ queues[d.name] # d.as
  BY <1>2 DEF Conflicts
<1>4. ~(d.name = Source /\ queues[d.name] = QueueSpec(TRUE, "quorum", NoTtl))
  <2> SUFFICES ASSUME d.name = Source, queues[d.name] = QueueSpec(TRUE, "quorum", NoTtl) PROVE FALSE
    OBVIOUS
  <2>1. Durable(x) \in BOOLEAN /\ x.durable \in BOOLEAN
    BY <1>1, SettingIs DEF Durable
  <2>2. /\ d # Queue(DeadLetterQueue, Durable(x), NoTtl) /\ d # Queue(ParkedQueue, Durable(x), NoTtl)
    <3>1. Queue(DeadLetterQueue, Durable(x), NoTtl).name # Source
      BY DEF Queue, DeadLetterQueue, Source
    <3>2. Queue(ParkedQueue, Durable(x), NoTtl).name # Source
      BY DEF Queue, ParkedQueue, Source
    <3> QED
      BY <3>1, <3>2
  <2>3. ~\E j \in DOMAIN Delays(x) : d = Rung(Delays(x)[j], Durable(x))
    BY <1>1, <2>1, DelaysAre, RungIs
  <2>4. x.how = "apply" /\ d = Typed(Source, x.durable, QueueType(x))
    BY <1>1, <1>2, <1>3, <2>2, <2>3, QueueSteps
  <2>5. QueueType(x) = "quorum" /\ x.durable = TRUE
    BY <2>1, <2>4 DEF Applies, x, QueueType
  <2>6. d.as = QueueSpec(x.durable, QueueType(x), NoTtl)
    BY <2>4 DEF Typed
  <2>7. d.as = QueueSpec(TRUE, "quorum", NoTtl)
    BY <2>5, <2>6
  <2> QED
    BY <1>3, <2>7
<1>5. PICK t \in Services : Declares(setting[t], d.name, queues[d.name])
  BY <1>3, <1>4 DEF TopologyInv, DeclaredFrom
<1> DEFINE y == setting[t]
<1>6. y \in Settings /\ CanDeclare(y)
  BY <1>5 DEF TopologyInv, Planned, Declares
<1>7. PICK e \in Steps(Plan(y)) : e.op = "queue" /\ e.name = d.name /\ e.as # d.as
  BY <1>3, <1>5 DEF Declares
<1> HIDE DEF y
<1>8. ~(/\ x.policy = y.policy /\ Durable(x) = Durable(y)
        /\ x.how = "apply" /\ y.how = "apply" => QueueType(x) = QueueType(y))
  BY <1>1, <1>2, <1>3, <1>6, <1>7, Agreement
<1>9. t # s
  BY <1>8 DEF x, y
<1>10. x.policy # y.policy \/ ~x.durable \/ ~y.durable
         \/ (x.how = "apply" /\ y.how = "apply" /\ QueueType(x) # QueueType(y))
  <2>1. x.durable \in BOOLEAN /\ y.durable \in BOOLEAN
    BY <1>1, <1>6, SettingIs
  <2> QED
    BY <1>8, <2>1 DEF Durable
<1>11. x.how = "apply" /\ y.how = "apply" => {s, t} \subseteq Applying
  BY DEF x, y, Applying, Applies
<1> QED
  BY <1>9, <1>10, <1>11 DEF x, y

\* A declaration is refused only where two services disagree on what both declare:
\* never after a failure halfway, and never a consumer's by a topology that agrees on
\* the policy and on durable.
THEOREM Agreed == TopologySpec => []AgreementIsEnough
BY InvHolds, InvAgree, PTL

=============================================================================
