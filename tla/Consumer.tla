------------------------------ MODULE Consumer ------------------------------
(***************************************************************************)
(* One consumer of one queue (connection.py, class Consumer) and the       *)
(* broker it talks to.                                                     *)
(*                                                                         *)
(* The broker keeps copies of messages: on the consumed queue, on the      *)
(* retry rung, on the dead-letter queue and on the parking lot.  The       *)
(* consumer has a work queue, `Workers` tasks that run _work_loop, and the *)
(* task that runs close().  A worker settles a delivery it does not accept *)
(* by publishing a copy somewhere (_republish) and acknowledging the       *)
(* original only once the broker has confirmed that copy; between the two  *)
(* the broker can refuse, return or lose the copy, the confirm can come    *)
(* too late, the connection can drop and the process can die.              *)
(*                                                                         *)
(* Order inside a queue is not modelled: no property depends on it.        *)
(***************************************************************************)
EXTENDS Integers, FiniteSets, RetryPolicy

CONSTANTS
  Msgs,       \* the messages producers send
  Garbled,    \* those whose body the codec cannot decode
  Copies,     \* identities of the copies the broker can hold at a time
  Workers,    \* the consumer's worker tasks
  Prefetch,   \* the broker's limit on unacknowledged deliveries
  Policy,     \* the consumer's retry policy
  Declare,    \* whether the consumer declares where failures go
  Answers,    \* what the handler may do with a message
  Escapes,    \* whether a publish can raise something other than PublishError
  MaxFaults,  \* bound on faults, refusals and shutdowns in a behaviour
  None        \* "no delivery", "no copy", "no answer"

\* "fatal" and "stop" are a handler raising FatalError and _StopReadingError,
\* "retry" is any other exception or Ack.retry, "not_an_ack" any other result.
AllAnswers ==
  {"accept", "reject", "park", "in_progress", "stop", "fatal", "retry", "not_an_ack"}

ASSUME ConsumerAssumption ==
  /\ IsFiniteSet(Copies)
  /\ Copies \subseteq Nat
  /\ Garbled \subseteq Msgs
  /\ Prefetch \in Nat
  /\ Policy \in Policies
  /\ Declare \in BOOLEAN
  /\ Answers \subseteq AllAnswers
  /\ Escapes \in BOOLEAN
  /\ MaxFaults \in Nat
  /\ None \notin Msgs
  /\ None \notin Copies
  /\ None \notin {"confirmed", "returned", "nacked"}

VARIABLES
  copy,       \* what the broker, or the wire to it, holds under each identity
  aside,      \* the messages on the dead-letter queue and on the parking lot
  exists,     \* which of the failure queues, and the rung's way back, are declared
  published,  \* the messages producers have sent
  phase,      \* how far the consumer is between _start and the end of close
  halted,     \* _halted
  work,       \* the deliveries in the asyncio.Queue _work
  pc,         \* where each worker is in _handle_one and _carry_out
  dlv,        \* the delivery each worker holds
  hop,        \* where a worker's republish goes, and with which attempt
  sent,       \* the copy a worker has sent and awaits the broker's answer for
  answer,     \* the broker's answer, once given
  gen,        \* which incarnation of the connection's channels is the latest
  open,       \* whether it is open, or still waits to be reopened
  subscribed, \* whether the subscription stands, and so comes back with the channel
  behind,     \* subscriptions of closed consumers that still come back with theirs
  stranded,   \* the copies delivered to those, which nobody reads
  faults,     \* how many faults, refusals and shutdowns there have been
  handled,    \* messages a handler accepted
  failures,   \* how often a handler failed each message, up to max_attempts
  condemned,  \* messages a handler, their age or their body ruled out for good
  disturbed   \* messages in the consumer's hands when something broke

brokerVars == <<copy, aside, exists, published>>
workerVars == <<pc, dlv, hop, sent, answer>>
linkVars   == <<gen, open, subscribed, behind, stranded>>
ghostVars  == <<handled, failures, condemned, disturbed>>
vars == <<brokerVars, phase, halted, work, workerVars, linkVars, faults, ghostVars>>

-----------------------------------------------------------------------------
(* Types *)

Queues == {"queue", "rung", "dlq", "parked"}

\* Nothing here takes a message off these two.
AsideQueues == {"dlq", "parked"}

\* The attempt header: 1 on a message nobody has failed, never past the policy's
\* last attempt.  0 stands for no header, in an identity not in use.
LastAttempt == IF Policy.max_attempts > 1 THEN Policy.max_attempts ELSE 1
Attempts == 0..LastAttempt

\* "wire": sent and not yet dealt with by the broker; `to` is where it is or goes.
Copy ==
  [at: {"free", "wire", "stored", "unacked"}, to: Queues, msg: Msgs \cup {None},
   attempt: Attempts]

Free == [at |-> "free", to |-> "queue", msg |-> None, attempt |-> 0]

Delivery == [id: Copies, gen: Nat, msg: Msgs, attempt: Attempts]

Hop == [to: Queues, attempt: Attempts]

\* The rung's dead-letter target works only through a binding of its own.
Declarable == {"dlq", "parked", "rung", "binding"}

\* "raised": the cancel that close() awaited has failed.
Phases == {"off", "running", "stopping", "raised", "draining", "waiting", "releasing"}

Pcs == {"idle", "handling", "hop", "sent", "acking", "nacking", "done"}

\* The type invariant of every variable.
TypeOK ==
  /\ copy \in [Copies -> Copy]
  /\ aside \in [AsideQueues -> SUBSET Msgs]
  /\ exists \subseteq Declarable
  /\ published \subseteq Msgs
  /\ phase \in Phases
  /\ halted \in BOOLEAN
  /\ work \subseteq Delivery
  /\ pc \in [Workers -> Pcs]
  /\ dlv \in [Workers -> Delivery \cup {None}]
  /\ hop \in [Workers -> Hop \cup {None}]
  /\ sent \in [Workers -> Copies \cup {None}]
  /\ answer \in [Workers -> {"confirmed", "returned", "nacked", None}]
  /\ gen \in Nat
  /\ open \in BOOLEAN
  /\ subscribed \in BOOLEAN
  /\ behind \in Nat
  /\ stranded \subseteq Copies
  /\ faults \in 0..MaxFaults
  /\ handled \subseteq Msgs
  /\ failures \in [Msgs -> Nat]
  /\ condemned \subseteq Msgs
  /\ disturbed \subseteq Msgs

-----------------------------------------------------------------------------
(* Helpers *)

\* The identity a new copy gets; which one is of no consequence.
Fresh(c) == copy[c] = Free /\ \A x \in Copies : copy[x] = Free => c <= x

At(c, where, queue) == copy[c].at = where /\ copy[c].to = queue

Held(c) == copy[c].at \in {"stored", "unacked"}

\* A delivery can be settled only on the channel it arrived on.
Live(d) == d.gen = gen

Busy(w) == pc[w] \notin {"idle", "done"}

\* Every queue can be the target of a publish except one that is not declared.
Routable(queue) == queue = "queue" \/ queue \in exists

Requeued(c) == [copy[c] EXCEPT !.at = "stored"]

\* What the broker does with everything unacknowledged on a channel that goes.
AllRequeued == [c \in Copies |-> IF copy[c].at = "unacked" THEN Requeued(c) ELSE copy[c]]

\* The messages whose delivery the consumer has not settled or may be re-sending.
InHand == {copy[c].msg : c \in {x \in Copies : copy[x].at \in {"wire", "unacked"}}}

Fault ==
  /\ faults < MaxFaults
  /\ faults' = faults + 1

-----------------------------------------------------------------------------
(* The consumer's decisions *)

Outcome(name) == [outcome |-> name, wait |-> GiveUp]

\* The answers that settle the matter without asking the retry policy.
FinalOutcome ==
  [accept |-> "acked", reject |-> "rejected", park |-> "parked", stop |-> "stopped",
   fatal |-> "dead_lettered", not_an_ack |-> "dead_lettered"]

\* _decide, with the wait next_wait chose.
Decide(a, attempt, age) ==
  LET wait == NextWait(Policy, attempt, age, 0)
  IN IF a = "retry"
     THEN IF wait = GiveUp THEN Outcome("dead_lettered")
                           ELSE [outcome |-> "retried", wait |-> wait]
     ELSE IF a = "in_progress"
     THEN [outcome |-> "in_progress", wait |-> [delay |-> 0, in_broker |-> FALSE]]
     ELSE Outcome(FinalOutcome[a])

\* What _carry_out does first: settle at once, or publish a copy somewhere.
SettleBy(step) == [pc |-> step, hop |-> None]
HopTo(queue, attempt) == [pc |-> "hop", hop |-> [to |-> queue, attempt |-> attempt]]

CarryOutSpendsAttempt(d, attempt) ==
  IF d.outcome = "acked" THEN SettleBy("acking")
  ELSE IF d.outcome = "stopped" THEN SettleBy("nacking")
  ELSE IF d.outcome = "parked" THEN HopTo("parked", attempt)
  ELSE IF d.wait = GiveUp THEN HopTo("dlq", attempt)
  ELSE HopTo(IF d.wait.in_broker THEN "rung" ELSE "queue", attempt + 1)

CarryOut(d, attempt) ==
  IF d.outcome = "acked" THEN SettleBy("acking")
  ELSE IF d.outcome = "stopped" THEN SettleBy("nacking")
  ELSE IF d.outcome = "parked" THEN HopTo("parked", attempt)
  ELSE IF d.wait = GiveUp THEN HopTo("dlq", attempt)
  ELSE IF d.outcome = "in_progress" THEN HopTo("queue", attempt)
  ELSE HopTo(IF d.wait.in_broker THEN "rung" ELSE "queue", attempt + 1)

AfterHopAcksRefused(h, result) == SettleBy("acking")
AfterHopRequeuesStored(h, result) == SettleBy("nacking")

\* A rung that is not there sends the retry to the consumer's own queue; every
\* other copy that was not stored gives the original back to the broker.
AfterHop(h, result) ==
  IF result = "confirmed" THEN SettleBy("acking")
  ELSE IF result = "returned" /\ h.to = "rung" THEN HopTo("queue", h.attempt)
  ELSE SettleBy("nacking")

-----------------------------------------------------------------------------
Init ==
  /\ copy = [c \in Copies |-> Free]
  /\ aside = [q \in AsideQueues |-> {}]
  /\ exists \in IF Declare THEN {{}}
                ELSE {e \in SUBSET Declarable : "rung" \in e => "binding" \in e}
  /\ published = {}
  /\ phase = "off"
  /\ halted = FALSE
  /\ work = {}
  /\ pc = [w \in Workers |-> "done"]
  /\ dlv = [w \in Workers |-> None]
  /\ hop = [w \in Workers |-> None]
  /\ sent = [w \in Workers |-> None]
  /\ answer = [w \in Workers |-> None]
  /\ gen = 0
  /\ open = TRUE
  /\ subscribed = FALSE
  /\ behind = 0
  /\ stranded = {}
  /\ faults = 0
  /\ handled = {}
  /\ failures = [m \in Msgs |-> 0]
  /\ condemned = {}
  /\ disturbed = {}

-----------------------------------------------------------------------------
(* The broker and the operators of its queues *)

\* A producer's message, confirmed, on its first attempt.
Publish(m, c) ==
  /\ m \notin published
  /\ Fresh(c)
  /\ copy' = [copy EXCEPT ![c] = [at |-> "stored", to |-> "queue", msg |-> m, attempt |-> 1]]
  /\ published' = published \cup {m}
  /\ UNCHANGED <<aside, exists, phase, halted, work, workerVars, linkVars, faults, ghostVars>>

\* What the consumer's own channel has out.
Unsettled == {x \in Copies : copy[x].at = "unacked"} \ stranded

\* The broker delivers and _deliver queues it for the workers.  The subscription
\* delivers until the broker has acknowledged its cancel, or its channel goes.
Deliver(c) ==
  /\ open
  /\ subscribed
  /\ At(c, "stored", "queue")
  /\ Prefetch = 0 \/ Cardinality(Unsettled) < Prefetch
  /\ copy' = [copy EXCEPT ![c].at = "unacked"]
  /\ work' = work \cup {[id |-> c, gen |-> gen, msg |-> copy[c].msg, attempt |-> copy[c].attempt]}
  /\ UNCHANGED <<aside, exists, published, phase, halted, workerVars, linkVars, faults, ghostVars>>

\* A subscription left behind delivers too, to a consumer that has no workers.
DeliverBehind(c) ==
  /\ open
  /\ behind > 0
  /\ At(c, "stored", "queue")
  /\ Prefetch = 0 \/ Cardinality(stranded) < behind * Prefetch
  /\ copy' = [copy EXCEPT ![c].at = "unacked"]
  /\ stranded' = stranded \cup {c}
  /\ UNCHANGED <<aside, exists, published, phase, halted, work, workerVars,
                 gen, open, subscribed, behind, faults, ghostVars>>

\* The rung's time is up: its dead-letter exchange brings the message home
\* through the binding, and drops it when there is none.
RungExpires(c) ==
  /\ At(c, "stored", "rung")
  /\ copy' = [copy EXCEPT ![c] = IF "binding" \in exists THEN [copy[c] EXCEPT !.to = "queue"]
                                                        ELSE Free]
  /\ UNCHANGED <<aside, exists, published, phase, halted, work, workerVars, linkVars, faults, ghostVars>>

\* The broker's answer to a publish reaches whoever still waits for it.
Reply(c, what) ==
  /\ answer' = [w \in Workers |-> IF sent[w] = c THEN what ELSE answer[w]]
  /\ sent' = [w \in Workers |-> IF sent[w] = c THEN None ELSE sent[w]]
  /\ UNCHANGED <<exists, published, phase, halted, work, pc, dlv, hop, linkVars, ghostVars>>

BrokerTakes(c) ==
  /\ copy[c].at = "wire"
  /\ Routable(copy[c].to)
  /\ IF copy[c].to \in AsideQueues
     THEN /\ aside' = [aside EXCEPT ![copy[c].to] = @ \cup {copy[c].msg}]
          /\ copy' = [copy EXCEPT ![c] = Free]
     ELSE /\ copy' = [copy EXCEPT ![c].at = "stored"]
          /\ UNCHANGED aside
  /\ Reply(c, "confirmed")
  /\ UNCHANGED faults

\* Basic.Return: mandatory, and no queue of that name.
BrokerReturns(c) ==
  /\ copy[c].at = "wire"
  /\ ~Routable(copy[c].to)
  /\ copy' = [copy EXCEPT ![c] = Free]
  /\ Reply(c, "returned")
  /\ UNCHANGED <<aside, faults>>

BrokerNacks(c) ==
  /\ Fault
  /\ copy[c].at = "wire"
  /\ copy' = [copy EXCEPT ![c] = Free]
  /\ Reply(c, "nacked")
  /\ UNCHANGED aside

\* An operator applies the topology, or deletes an empty queue.
ApplyTopology ==
  /\ exists # Declarable
  /\ exists' = Declarable
  /\ UNCHANGED <<copy, aside, published, phase, halted, work, workerVars, linkVars, faults, ghostVars>>

RemoveQueue(q) ==
  /\ Fault
  /\ q \in exists
  /\ IF q \in AsideQueues THEN aside[q] = {} ELSE \A c \in Copies : ~At(c, "stored", q)
  /\ exists' = exists \ {q}
  /\ UNCHANGED <<copy, aside, published, phase, halted, work, workerVars, linkVars, ghostVars>>

-----------------------------------------------------------------------------
(* A worker: _work_loop, _handle_one, _carry_out *)

\* The delivery leaves the worker's hands, settled or not.
LetGo(w) ==
  /\ pc' = [pc EXCEPT ![w] = "idle"]
  /\ dlv' = [dlv EXCEPT ![w] = None]
  /\ hop' = [hop EXCEPT ![w] = None]
  /\ sent' = [sent EXCEPT ![w] = None]
  /\ answer' = [answer EXCEPT ![w] = None]

\* The worker goes on to the step and the hop of `plan`.
Proceed(w, plan) ==
  /\ pc' = [pc EXCEPT ![w] = plan.pc]
  /\ hop' = [hop EXCEPT ![w] = plan.hop]
  /\ sent' = [sent EXCEPT ![w] = None]
  /\ answer' = [answer EXCEPT ![w] = None]
  /\ UNCHANGED dlv

\* After _halt a delivery is given back unhandled.
Take(w, d) ==
  /\ phase \in {"running", "stopping", "raised", "draining"}
  /\ pc[w] = "idle"
  /\ d \in work
  /\ work' = work \ {d}
  /\ pc' = [pc EXCEPT ![w] = IF halted THEN "nacking" ELSE "handling"]
  /\ dlv' = [dlv EXCEPT ![w] = d]
  /\ UNCHANGED <<brokerVars, phase, halted, hop, sent, answer, linkVars, faults, ghostVars>>

\* A body the codec refuses is parked without a handler having run.
Unreadable(w) ==
  /\ pc[w] = "handling"
  /\ dlv[w].msg \in Garbled
  /\ Proceed(w, HopTo("parked", dlv[w].attempt))
  /\ condemned' = condemned \cup {dlv[w].msg}
  /\ UNCHANGED <<brokerVars, phase, halted, work, linkVars, faults, handled, failures, disturbed>>

\* What the ghosts remember of a handler's answer.
Remember(m, a, age) ==
  /\ handled' = IF a = "accept" THEN handled \cup {m} ELSE handled
  /\ failures' = IF a = "retry" /\ failures[m] < LastAttempt
                 THEN [failures EXCEPT ![m] = @ + 1] ELSE failures
  /\ condemned' = IF \/ a \in {"reject", "park", "fatal", "not_an_ack"}
                     \/ a = "retry" /\ TooOld(Policy, age)
                  THEN condemned \cup {m} ELSE condemned
  /\ UNCHANGED disturbed

\* The handler answers; _decide says what happens and _carry_out begins it.
\* Answers that send the message round again without progress are bounded.
HandlerAnswers(w, a, age) ==
  LET d == dlv[w]
      plan == CarryOut(Decide(a, d.attempt, age), d.attempt)
  IN /\ pc[w] = "handling"
     /\ d.msg \notin Garbled
     /\ IF a \in {"in_progress", "stop"} THEN Fault ELSE UNCHANGED faults
     /\ Proceed(w, plan)
     /\ halted' = (halted \/ a = "stop")
     /\ Remember(d.msg, a, age)
     /\ UNCHANGED <<brokerVars, phase, work, linkVars>>

\* publish_raw raises PublishError with nothing sent: blocked, or no permit.
HopRefused(w) ==
  /\ Fault
  /\ pc[w] = "hop"
  /\ Proceed(w, AfterHop(hop[w], "nacked"))
  /\ UNCHANGED <<brokerVars, phase, halted, work, linkVars, ghostVars>>

\* A publish waits for its channel to be reopened.
HopSent(w, c) ==
  /\ pc[w] = "hop"
  /\ open
  /\ Fresh(c)
  /\ copy' = [copy EXCEPT ![c] = [at |-> "wire", to |-> hop[w].to,
                                 msg |-> dlv[w].msg, attempt |-> hop[w].attempt]]
  /\ pc' = [pc EXCEPT ![w] = "sent"]
  /\ sent' = [sent EXCEPT ![w] = c]
  /\ UNCHANGED <<aside, exists, published, phase, halted, work, dlv, hop, answer, linkVars, faults, ghostVars>>

HopAnswered(w) ==
  /\ pc[w] = "sent"
  /\ answer[w] # None
  /\ Proceed(w, AfterHop(hop[w], answer[w]))
  /\ UNCHANGED <<brokerVars, phase, halted, work, linkVars, faults, ghostVars>>

\* No answer within confirm_timeout: a PublishError, whatever became of the copy.
HopTimesOut(w) ==
  /\ Fault
  /\ pc[w] = "sent"
  /\ Proceed(w, AfterHop(hop[w], "nacked"))
  /\ disturbed' = disturbed \cup {dlv[w].msg}
  /\ UNCHANGED <<brokerVars, phase, halted, work, linkVars, handled, failures, condemned>>

\* Any other exception of the publish ends in _work_loop's except clause, which
\* leaves the delivery unsettled on a channel that stays open.
HopEscapes(w) ==
  /\ Escapes
  /\ Fault
  /\ pc[w] \in {"hop", "sent"}
  /\ LetGo(w)
  /\ disturbed' = disturbed \cup {dlv[w].msg}
  /\ UNCHANGED <<brokerVars, phase, halted, work, linkVars, handled, failures, condemned>>

NackAfterClosing(w) ==
  /\ halted => phase = "off"
  /\ pc[w] = "nacking"
  /\ copy' = IF Live(dlv[w]) THEN [copy EXCEPT ![dlv[w].id] = Requeued(dlv[w].id)] ELSE copy
  /\ LetGo(w)
  /\ UNCHANGED <<aside, exists, published, phase, halted, work, linkVars, faults, ghostVars>>

\* Settling a delivery of a channel that has gone changes nothing at the broker.
Ack(w) ==
  /\ pc[w] = "acking"
  /\ copy' = IF Live(dlv[w]) THEN [copy EXCEPT ![dlv[w].id] = Free] ELSE copy
  /\ LetGo(w)
  /\ UNCHANGED <<aside, exists, published, phase, halted, work, linkVars, faults, ghostVars>>

Nack(w) ==
  /\ pc[w] = "nacking"
  /\ copy' = IF Live(dlv[w]) THEN [copy EXCEPT ![dlv[w].id] = Requeued(dlv[w].id)] ELSE copy
  /\ LetGo(w)
  /\ UNCHANGED <<aside, exists, published, phase, halted, work, linkVars, faults, ghostVars>>

-----------------------------------------------------------------------------
(* _start, close and the failures around them *)

\* The order of declare_where_failures_go; the rungs only if the policy has some.
DeclareOrder == <<"dlq", "parked", "rung", "binding">>

DeclaredUnbound(done) == {DeclareOrder[i] : i \in 1..done} \ {"binding"}

Declared(done) ==
  {DeclareOrder[i] : i \in 1..done}
    \ IF BrokerRungs(Policy) = {} THEN {"rung", "binding"} ELSE {}

\* A new channel is opened for it once the connection is there.
Start ==
  /\ phase = "off"
  /\ open
  /\ exists' = IF Declare THEN exists \cup Declared(4) ELSE exists
  /\ phase' = "running"
  /\ subscribed' = TRUE
  /\ halted' = FALSE
  /\ pc' = [w \in Workers |-> "idle"]
  /\ UNCHANGED <<copy, aside, published, work, dlv, hop, sent, answer,
                 gen, open, behind, stranded, faults, ghostVars>>

\* A declaration or the subscription is refused: what was declared stays.
StartFails(done) ==
  /\ Fault
  /\ phase = "off"
  /\ exists' = IF Declare THEN exists \cup Declared(done) ELSE exists
  /\ UNCHANGED <<copy, aside, published, phase, halted, work, workerVars, linkVars, ghostVars>>

\* close() by the application, or by the task _halt created.  stop() cancels only on
\* a channel that is open; one that waits to be reopened it leaves as it is.
CloseBegins ==
  /\ phase = "running"
  /\ IF halted THEN UNCHANGED faults ELSE Fault
  /\ phase' = IF open THEN "stopping" ELSE "draining"
  /\ UNCHANGED <<brokerVars, halted, work, workerVars, linkVars, ghostVars>>

StopAcknowledged ==
  /\ phase = "stopping"
  /\ phase' = "draining"
  /\ subscribed' = FALSE
  /\ UNCHANGED <<brokerVars, halted, work, workerVars, gen, open, behind, stranded,
                 faults, ghostVars>>

DrainOneLeftQueued(d) ==
  /\ phase = "draining"
  /\ d \in work
  /\ copy' = IF Live(d) THEN [copy EXCEPT ![d.id] = Requeued(d.id)] ELSE copy
  /\ UNCHANGED <<aside, exists, published, phase, halted, work, workerVars, linkVars, faults, ghostVars>>

\* A delivery nobody has started is given back.
DrainOne(d) ==
  /\ phase = "draining"
  /\ d \in work
  /\ work' = work \ {d}
  /\ copy' = IF Live(d) THEN [copy EXCEPT ![d.id] = Requeued(d.id)] ELSE copy
  /\ UNCHANGED <<aside, exists, published, phase, halted, workerVars, linkVars, faults, ghostVars>>

PutSentinels ==
  /\ phase = "draining"
  /\ work = {}
  /\ phase' = "waiting"
  /\ UNCHANGED <<brokerVars, halted, work, workerVars, linkVars, faults, ghostVars>>

WorkerReturns(w) ==
  /\ phase = "waiting"
  /\ pc[w] = "idle"
  /\ pc' = [pc EXCEPT ![w] = "done"]
  /\ UNCHANGED <<brokerVars, phase, halted, work, dlv, hop, sent, answer, linkVars, faults, ghostVars>>

AllReturned ==
  /\ phase = "waiting"
  /\ \A w \in Workers : pc[w] = "done"
  /\ phase' = "releasing"
  /\ UNCHANGED <<brokerVars, halted, work, workerVars, linkVars, faults, ghostVars>>

\* Every worker task is gone: cancelled, or dead with its process.
NoWorkers ==
  /\ pc' = [w \in Workers |-> "done"]
  /\ dlv' = [w \in Workers |-> None]
  /\ hop' = [w \in Workers |-> None]
  /\ sent' = [w \in Workers |-> None]
  /\ answer' = [w \in Workers |-> None]

\* The finally clause of close: whatever its try has left running is cancelled.
CutShort ==
  /\ phase' = "releasing"
  /\ NoWorkers
  /\ disturbed' = disturbed \cup InHand
  /\ UNCHANGED <<brokerVars, halted, work, linkVars, handled, failures, condemned>>

\* The drain timeout passes, or the caller cancels close.
CutOff ==
  /\ Fault
  /\ \/ phase \in {"stopping", "draining"}
     \/ phase = "waiting" /\ \E w \in Workers : pc[w] # "done"
  /\ CutShort

\* The cancel raises, its channel having gone, or giving back a delivery of a
\* channel that has gone does.
CloseRaises ==
  /\ \/ phase = "raised"
     \/ phase = "draining" /\ \E d \in work : ~Live(d)
  /\ CutShort
  /\ UNCHANGED faults

\* The broker takes back what the consumer's own channel has out.
OwnRequeued == [c \in Copies |-> IF c \in stranded THEN copy[c] ELSE AllRequeued[c]]

ReleaseChannelLeftOpen ==
  /\ phase = "releasing"
  /\ phase' = "off"
  /\ work' = {}
  /\ subscribed' = FALSE
  /\ UNCHANGED <<brokerVars, halted, workerVars, gen, open, behind, stranded, faults, ghostVars>>

\* subscription.close() closes an open channel.  One that waits to be reopened it
\* leaves alone, so a subscription that was not cancelled is consumed again later.
Release ==
  /\ phase = "releasing"
  /\ phase' = "off"
  /\ work' = {}
  /\ subscribed' = FALSE
  /\ IF open
     THEN copy' = OwnRequeued /\ UNCHANGED behind
     ELSE behind' = (IF subscribed THEN behind + 1 ELSE behind) /\ UNCHANGED copy
  /\ UNCHANGED <<aside, exists, published, halted, workerVars, gen, open, stranded,
                 faults, ghostVars>>

\* What had been written to the socket may or may not reach the broker.
WireLost(lost) == [c \in Copies |-> IF c \in lost THEN Free ELSE AllRequeued[c]]

OnTheWire == {c \in Copies : copy[c].at = "wire"}

\* Deliveries and handlers of the old channel stay where they are, and an answer
\* still on its way never comes: that publish ends as one that failed, and so does
\* a cancel.  Until the channel is reopened its is_closed is true.
ConnectionLost(lost) ==
  /\ Fault
  /\ open
  /\ phase # "off" \/ behind > 0
  /\ copy' = WireLost(lost)
  /\ sent' = [w \in Workers |-> None]
  /\ answer' = [w \in Workers |-> IF pc[w] = "sent" THEN "nacked" ELSE None]
  /\ gen' = gen + 1
  /\ open' = FALSE
  /\ stranded' = {}
  /\ phase' = IF phase = "stopping" THEN "raised" ELSE phase
  /\ disturbed' = disturbed \cup InHand
  /\ UNCHANGED <<aside, exists, published, halted, work, pc, dlv, hop, subscribed, behind,
                 handled, failures, condemned>>

\* The robust connection opens its channels again and consumes again for every
\* subscription on them that nobody cancelled.
Reopens ==
  /\ ~open
  /\ open' = TRUE
  /\ UNCHANGED <<brokerVars, phase, halted, work, workerVars, gen, subscribed, behind,
                 stranded, faults, ghostVars>>

\* The process dies, or ends.
Crash(lost) ==
  /\ Fault
  /\ phase # "off" \/ behind > 0
  /\ copy' = WireLost(lost)
  /\ NoWorkers
  /\ work' = {}
  /\ phase' = "off"
  /\ open' = TRUE
  /\ subscribed' = FALSE
  /\ behind' = 0
  /\ stranded' = {}
  /\ disturbed' = disturbed \cup InHand
  /\ UNCHANGED <<aside, exists, published, halted, gen, handled, failures, condemned>>

-----------------------------------------------------------------------------
Ages == {0, Policy.max_message_age}

WorkerStep(w) ==
  \/ \E d \in work : Take(w, d)
  \/ Unreadable(w)
  \/ \E a \in Answers, age \in Ages : HandlerAnswers(w, a, age)
  \/ \E c \in Copies : HopSent(w, c)
  \/ HopAnswered(w)
  \/ Ack(w)
  \/ Nack(w)
  \/ WorkerReturns(w)

WorkerFault(w) == HopRefused(w) \/ HopTimesOut(w) \/ HopEscapes(w)

Drain ==
  \/ StopAcknowledged
  \/ \E d \in work : DrainOne(d)
  \/ PutSentinels

BrokerStep(c) == BrokerTakes(c) \/ BrokerReturns(c) \/ RungExpires(c)

\* Everything but the steps of close that its callers see.
Ongoing ==
  \/ \E m \in Msgs, c \in Copies : Publish(m, c)
  \/ \E c \in Copies : Deliver(c) \/ DeliverBehind(c) \/ BrokerStep(c) \/ BrokerNacks(c)
  \/ ApplyTopology
  \/ \E q \in {"rung", "dlq", "parked"} : RemoveQueue(q)
  \/ \E w \in Workers : WorkerStep(w) \/ WorkerFault(w)
  \/ Start
  \/ \E done \in 0..4 : StartFails(done)
  \/ Drain
  \/ \E lost \in SUBSET OnTheWire : ConnectionLost(lost) \/ Crash(lost)
  \/ Reopens

Next == Ongoing \/ CloseBegins \/ AllReturned \/ CutOff \/ CloseRaises \/ Release

Spec == Init /\ [][Next]_vars

\* The event loop runs every task that can run; handlers end; the broker deals
\* with what it is sent and, its queues being first in first out, delivers every
\* message in the end; the connection comes back; somebody keeps the consumer and its queues in place.
Fairness ==
  /\ \A c \in Copies : SF_vars(Deliver(c)) /\ WF_vars(BrokerStep(c))
  /\ \A w \in Workers : WF_vars(WorkerStep(w))
  /\ WF_vars(Start)
  /\ WF_vars(CloseBegins /\ halted)
  /\ WF_vars(Drain \/ AllReturned \/ CloseRaises \/ Release)
  /\ WF_vars(Reopens)
  /\ WF_vars(ApplyTopology)

FairSpec == Spec /\ Fairness

-----------------------------------------------------------------------------
(* What the consumer promises *)

\* Copies a worker is about to acknowledge, or will once it reads the broker's
\* answer: nothing may depend on them any more.
Doomed(c) ==
  \E w \in Workers :
    /\ \/ pc[w] = "acking"
       \/ pc[w] = "sent" /\ answer[w] = "confirmed"
    /\ dlv[w].id = c
    /\ Live(dlv[w])

SetAside(m) == \E q \in AsideQueues : m \in aside[q]

\* The copies that still stand for m.
Remaining(m) == {c \in Copies : copy[c].msg = m /\ Held(c) /\ ~Doomed(c)}

\* No message is lost: a published message was accepted by a handler, is on the
\* dead-letter queue or the parking lot, or the broker holds a copy of it that
\* nobody is about to acknowledge.  This is what publish-then-acknowledge in
\* _retry_again, _retry_in_broker, _put_back and _set_aside is for, through
\* refusals, timeouts, crashes and shutdowns.
NoLoss ==
  \A m \in published : m \in handled \/ SetAside(m) \/ Remaining(m) # {}

\* A delivery that can still be settled is in one pair of hands, a worker's or the
\* work queue's, and is unacknowledged at the broker: it is never settled twice,
\* which would close the channel under every other delivery.
SettledOnce ==
  LET inWork == {d \in work : Live(d)}
      busy == {w \in Workers : Busy(w) /\ Live(dlv[w])}
  IN /\ \A d \in inWork : copy[d.id].at = "unacked"
     /\ \A w \in busy : copy[dlv[w].id].at = "unacked"
     /\ \A d, e \in inWork : d.id = e.id => d = e
     /\ \A v, w \in busy : dlv[v].id = dlv[w].id => v = w
     /\ \A d \in inWork, w \in busy : d.id # dlv[w].id

\* The attempt header counts failures of the handler and nothing else: not a
\* redelivery, a refused hop, a message put back because another holds it; and no
\* message starts an attempt past the last.  One reaches the dead-letter queue
\* because a handler, its body or its age ruled it out, or because it was failed as
\* often as the policy allows.
AttemptsAreFailures ==
  /\ \A c \in Copies : copy[c].at # "free" =>
       copy[c].attempt <= failures[copy[c].msg] + 1 /\ copy[c].attempt <= LastAttempt
  /\ \A m \in aside["dlq"] : m \in condemned \/ failures[m] >= LastAttempt

\* No worker, no delivery, and nothing at the broker waiting for it to settle.
HoldsNothing ==
  /\ work = {}
  /\ \A w \in Workers : pc[w] = "done"
  /\ Unsettled = {}

\* Unless something broke while the consumer had it, a message is in exactly one
\* place: still to be dealt with, accepted, dead-lettered or parked.  A consumer
\* that is off is no such place: whatever it was doing when it was cut off, the
\* broker has back all it held, and hands it no more.  The exception is a close
\* that found its channel closed (rabbitmq.py, _Subscription.stop and close): the
\* subscription it leaves behind is given messages nobody reads.  There is never
\* more than one of those for each lost connection.
ExactlyOnceUndisturbed ==
  /\ \A m \in published \ disturbed :
       Cardinality(Remaining(m)) + Cardinality({q \in AsideQueues : m \in aside[q]})
         + (IF m \in handled THEN 1 ELSE 0) = 1
  /\ phase = "off" => HoldsNothing
  /\ behind = 0 => stranded = {}
  /\ behind <= gen

Settled(m) == m \in handled \/ SetAside(m)

Fate ==
  [m \in Msgs |-> IF m \notin published THEN "unsent"
                 ELSE IF Settled(m) THEN "settled"
                 ELSE IF Remaining(m) # {} THEN "owed" ELSE "lost"]

Contract == INSTANCE AtLeastOnce WITH fate <- Fate

\* The consumer implements AtLeastOnce: through refusals, timeouts, crashes and
\* restarts every published message stays owed until it is accepted,
\* dead-lettered or parked, and in the end it is.
Promise == Contract!Spec

\* close() ends, the one a handler asked for through _halt included: the task
\* it waits for is not the one it runs in.
CloseCompletes == (halted \/ phase \notin {"off", "running"}) ~> phase = "off"

-----------------------------------------------------------------------------
(* What makes NoLoss inductive *)

\* Identities in use hold messages; a worker past Take holds a delivery, and one
\* that is to publish knows where to; only a worker that has sent awaits an answer.
Holding ==
  /\ \A c \in Copies : copy[c].at # "free" => copy[c].msg \in Msgs
  /\ \A w \in Workers : Busy(w) => dlv[w] \in Delivery
  /\ \A w \in Workers : pc[w] \in {"hop", "sent"} => hop[w] \in Hop
  /\ \A w \in Workers : pc[w] # "sent" => sent[w] = None /\ answer[w] = None
  /\ \A w \in Workers : sent[w] # None => answer[w] = None
  /\ phase \in {"off", "releasing"} => \A w \in Workers : pc[w] = "done"

\* What is in hand is what the broker has out: the same message, not from a
\* channel still to come; and a copy on the wire is of its sender's message.
Matching ==
  /\ \A d \in work : d.gen <= gen /\ (Live(d) => copy[d.id].msg = d.msg)
  /\ \A w \in Workers : Busy(w) =>
       dlv[w].gen <= gen /\ (Live(dlv[w]) => copy[dlv[w].id].msg = dlv[w].msg)
  /\ \A w \in Workers : sent[w] # None =>
       copy[sent[w]].at = "wire" /\ copy[sent[w]].msg = dlv[w].msg

\* A message on a rung has a way back, and only the consumed queue delivers.
RungBound ==
  /\ \A c \in Copies : copy[c].at = "unacked" => copy[c].to = "queue"
  /\ \A c \in Copies : At(c, "stored", "rung") => "binding" \in exists
  /\ "rung" \in exists => "binding" \in exists \/ (Declare /\ BrokerRungs(Policy) # {})
  /\ (Declare /\ BrokerRungs(Policy) # {} /\ (phase # "off" \/ OnTheWire # {}))
       => "binding" \in exists

\* What a subscription left behind has out stays unacknowledged and is in nobody's
\* hands, and a channel that waits to be reopened has nothing out.
Stranding ==
  /\ \A c \in stranded : copy[c].at = "unacked"
  /\ \A d \in work : Live(d) => d.id \notin stranded
  /\ \A w \in Workers : Busy(w) /\ Live(dlv[w]) => dlv[w].id \notin stranded
  /\ ~open => \A c \in Copies : copy[c].at # "unacked"

NoLossInv == TypeOK /\ Holding /\ SettledOnce /\ Matching /\ RungBound /\ Stranding /\ NoLoss
=============================================================================
