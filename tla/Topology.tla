------------------------------ MODULE Topology ------------------------------
(***************************************************************************)
(* Where a queue's failures go: the dead-letter queue, the parking lot and *)
(* the retry rungs of one consumed queue, as declared by services that     *)
(* apply a Topology (topology.py, Topology.queue and apply) and by         *)
(* consumers that declare them when they start (declare_where_failures_go),*)
(* in any order, at the same time, and again after a failure halfway.      *)
(*                                                                         *)
(* A rung is named for its delay in whole seconds (naming.py), so two      *)
(* delays can share a name; the broker refuses to declare a queue again    *)
(* with other settings.  Exchanges are always declared alike and left out. *)
(***************************************************************************)
EXTENDS RetryPolicy, FiniteSets

CONSTANTS
  Services,      \* who declares
  Settings,      \* what each of them may have been configured with
  Second,        \* how many units of delay make a second
  Milli,         \* how many make a millisecond, the unit of x-message-ttl
  MaxDelta,      \* the longest timedelta
  MaxFailures    \* bound on declarations that fail for reasons of their own

\* A setting says how the service declares (a Topology applied, a consumer
\* started), its retry policy, and Topology.queue's durable and quorum.
ASSUME TopologyAssumption ==
  /\ \A x \in Settings : x.how \in {"apply", "start"} /\ x.durable \in BOOLEAN
  /\ \A x \in Settings : x.quorum \in {"default", "yes", "no"}
  /\ \A x \in Settings : x.policy \in Policies /\ x.policy.initial_delay <= MaxDelta
  /\ Second \in Nat \ {0}
  /\ Milli \in Nat \ {0}
  /\ Second % Milli = 0
  /\ MaxDelta \in Nat
  /\ MaxFailures \in Nat

VARIABLES
  setting,   \* what each service was configured with
  queues,    \* the settings of each queue on the broker
  bound,     \* whether the retry exchange routes back to the consumed queue
  state,     \* how far each service is
  plan,      \* what it has to declare
  next,      \* which declaration it makes next
  failed     \* how many declarations have failed for reasons of their own

topologyVars == <<setting, queues, bound, state, plan, next, failed>>

-----------------------------------------------------------------------------
(* Names and arguments *)

Source == [kind |-> "source", seconds |-> 0]
DeadLetterQueue == [kind |-> "dlq", seconds |-> 0]
ParkedQueue == [kind |-> "parked", seconds |-> 0]

RetryQueueCoarse(delay) == [kind |-> "retry", seconds |-> delay \div (60 * Second)]

\* retry_queue: _short renders whole seconds, one name for each number of them.
RetryQueue(delay) == [kind |-> "retry", seconds |-> delay \div Second]

NoTtl == -1
QueueSpec(durable, type, ttl) == [durable |-> durable, type |-> type, ttl |-> ttl]

\* One step of a plan.  Only the consumed queue is ever a quorum queue: the others
\* are classic whatever it is.
Typed(name, durable, type) == [op |-> "queue", name |-> name, as |-> QueueSpec(durable, type, NoTtl)]
Queue(name, durable, ttl) == [op |-> "queue", name |-> name, as |-> QueueSpec(durable, "classic", ttl)]
Other(op) == [op |-> op, name |-> Source, as |-> QueueSpec(TRUE, "classic", NoTtl)]
Bind == Other("bind")
Overflow == Other("overflow")

\* _queue_type: what belongs to one connection cannot be a quorum queue, and is
\* not made one unasked.
QueueType(x) == IF x.durable /\ x.quorum # "no" THEN "quorum" ELSE "classic"
Unmakeable(x) == x.quorum = "yes" /\ ~x.durable

\* rung_args: the time to live is the delay in whole milliseconds.
Rung(delay, durable) == Queue(RetryQueue(delay), durable, delay \div Milli)

-----------------------------------------------------------------------------
(* What is declared, in order *)

\* Two delays share a rung when they are equal, or when their queues' names are.
SameRung(d, e, byName) == IF byName THEN RetryQueue(d) = RetryQueue(e) ELSE d = e

\* The i-th least of a set of numbers.
Nth(S, i) == CHOOSE n \in S : Cardinality({k \in S : k <= n}) = i

\* The entries of the schedule that are spent in the broker, less the later ones
\* that share the rung of an earlier one.
Firsts(p, byName) ==
  {n \in InBroker(p) :
     \A k \in InBroker(p) : SameRung(Schedule(p)[k], Schedule(p)[n], byName) => n <= k}

RungDelays(p, byName) ==
  [i \in 1..Cardinality(Firsts(p, byName)) |-> Schedule(p)[Nth(Firsts(p, byName), i)]]

Rungs(delays, durable) == [i \in DOMAIN delays |-> Rung(delays[i], durable)]

RungsAndBack(delays, durable) ==
  Rungs(delays, durable) \o (IF delays = <<>> THEN <<>> ELSE <<Bind>>)

ApplyPlanTyped(x) ==
  <<Typed(Source, x.durable, QueueType(x)), Typed(DeadLetterQueue, x.durable, QueueType(x)),
    Typed(ParkedQueue, x.durable, QueueType(x))>>
     \o RungsAndBack(RungDelays(x.policy, FALSE), x.durable)

\* Topology.queue(name, dead_letter=True, retry=policy): queues, then bindings.
ApplyPlan(x) ==
  LET delays == RungDelays(x.policy, FALSE)
  IN <<Typed(Source, x.durable, QueueType(x)), Queue(DeadLetterQueue, x.durable, NoTtl),
       Queue(ParkedQueue, x.durable, NoTtl)>> \o RungsAndBack(delays, x.durable)

\* The queues that need no policy.
FirstOfStart == <<Queue(DeadLetterQueue, TRUE, NoTtl), Queue(ParkedQueue, TRUE, NoTtl)>>

StartPlanByDelay(x) == FirstOfStart \o RungsAndBack(RungDelays(x.policy, FALSE), TRUE)

StartPlanUnbound(x) == FirstOfStart \o Rungs(RungDelays(x.policy, TRUE), TRUE)

\* declare_where_failures_go: always durable, and the first delay owns a name.  It
\* asks for the rungs only after the first two queues.
StartPlan(x) ==
  FirstOfStart \o
    IF ScheduleOverflows(x.policy, MaxDelta) THEN <<Overflow>>
    ELSE RungsAndBack(RungDelays(x.policy, TRUE), TRUE)

Plan(x) == IF x.how = "apply" THEN ApplyPlan(x) ELSE StartPlan(x)

\* validate: no queue is declared twice.
Valid(steps) ==
  \A i, j \in DOMAIN steps :
    steps[i].op = "queue" /\ steps[j].op = "queue" /\ steps[i].name = steps[j].name => i = j

-----------------------------------------------------------------------------
(* The type invariant of every variable. *)
TopologyTypeOK ==
  /\ setting \in [Services -> Settings]
  /\ \A name \in DOMAIN queues :
       /\ queues[name].durable \in BOOLEAN
       /\ queues[name].type \in {"classic"} \cup (IF name = Source THEN {"quorum"} ELSE {})
       /\ queues[name].ttl \in IF name.kind = "retry" THEN 0..MaxDelta ELSE {NoTtl}
  /\ bound \in BOOLEAN
  /\ state \in [Services -> {"off", "declaring", "done", "refused", "invalid", "raised"}]
  /\ \A s \in Services : next[s] \in 1..(Len(plan[s]) + 1)
  /\ failed \in 0..MaxFailures

\* The consumed queue may be there already, as Topology.queue would declare it.
TopologyInit ==
  /\ setting \in [Services -> Settings]
  /\ queues \in {<<>>, [name \in {Source} |-> QueueSpec(TRUE, "quorum", NoTtl)]}
  /\ bound = FALSE
  /\ state = [s \in Services |-> "off"]
  /\ plan = [s \in Services |-> <<>>]
  /\ next = [s \in Services |-> 1]
  /\ failed = 0

Applies(s) == setting[s].how = "apply"

\* Topology.queue settles the queue's type and asks the policy for its rungs.
Describable(x) == ~Unmakeable(x) /\ ~ScheduleOverflows(x.policy, MaxDelta)

\* What was described is validated before anything is declared.
Begin(s) ==
  /\ state[s] = "off"
  /\ Applies(s) => Describable(setting[s])
  /\ plan' = [plan EXCEPT ![s] = Plan(setting[s])]
  /\ next' = [next EXCEPT ![s] = 1]
  /\ state' = [state EXCEPT ![s] =
                 IF Applies(s) /\ ~Valid(plan'[s]) THEN "invalid" ELSE "declaring"]
  /\ UNCHANGED <<setting, queues, bound, failed>>

DescribeRaises(s) ==
  /\ state[s] = "off"
  /\ Applies(s) /\ ~Describable(setting[s])
  /\ state' = [state EXCEPT ![s] = "raised"]
  /\ UNCHANGED <<setting, queues, bound, plan, next, failed>>

Conflicts(d) ==
  /\ d.op = "queue"
  /\ d.name \in DOMAIN queues
  /\ queues[d.name] # d.as

\* One declaration; the broker's refusal ends the service's start.
DeclareNext(s) ==
  LET d == plan[s][next[s]]
  IN /\ state[s] = "declaring"
     /\ next[s] <= Len(plan[s])
     /\ d.op = "queue" \/ (d.op = "bind" /\ Source \in DOMAIN queues)
     /\ \/ /\ Conflicts(d)
           /\ state' = [state EXCEPT ![s] = "refused"]
           /\ UNCHANGED <<queues, bound, next>>
        \/ /\ ~Conflicts(d)
           /\ IF d.op = "bind"
              THEN bound' = TRUE /\ UNCHANGED queues
              ELSE /\ queues' = [name \in DOMAIN queues \cup {d.name} |->
                                  IF name = d.name THEN d.as ELSE queues[name]]
                   /\ UNCHANGED bound
           /\ next' = [next EXCEPT ![s] = @ + 1]
           /\ UNCHANGED state
     /\ UNCHANGED <<setting, plan, failed>>

StartRaises(s) ==
  /\ state[s] = "declaring"
  /\ next[s] <= Len(plan[s])
  /\ plan[s][next[s]].op = "overflow"
  /\ state' = [state EXCEPT ![s] = "raised"]
  /\ UNCHANGED <<setting, queues, bound, plan, next, failed>>

\* Binding and subscribing ask the broker for the consumed queue, which a consumer
\* does not declare: without it the start fails, and may be tried again.
SourceMissing(s) ==
  /\ state[s] = "declaring"
  /\ Source \notin DOMAIN queues
  /\ next[s] <= Len(plan[s]) => plan[s][next[s]].op = "bind"
  /\ state' = [state EXCEPT ![s] = "off"]
  /\ UNCHANGED <<setting, queues, bound, plan, next, failed>>

\* Everything is declared and, for a consumer, it has subscribed.
Ready(s) ==
  /\ state[s] = "declaring"
  /\ next[s] > Len(plan[s])
  /\ Source \in DOMAIN queues
  /\ state' = [state EXCEPT ![s] = "done"]
  /\ UNCHANGED <<setting, queues, bound, plan, next, failed>>

\* The connection fails halfway; what was declared stays, and the service may be
\* started again.
Interrupted(s) ==
  /\ failed < MaxFailures
  /\ state[s] = "declaring"
  /\ state' = [state EXCEPT ![s] = "off"]
  /\ failed' = failed + 1
  /\ UNCHANGED <<setting, queues, bound, plan, next>>

TopologyNext ==
  \E s \in Services :
    \/ Begin(s) \/ DescribeRaises(s)
    \/ DeclareNext(s) \/ StartRaises(s) \/ SourceMissing(s) \/ Interrupted(s)
    \/ Ready(s)

TopologySpec == TopologyInit /\ [][TopologyNext]_topologyVars

-----------------------------------------------------------------------------
(* The waits a consumer with policy p may ask for. *)
Waits(p) ==
  {NextWait(p, n, 0, draw) : n \in 1..(p.max_attempts - 1), draw \in {-100, 0, 100}}

\* Wherever next_wait sends a message of a consumer that has started there is a
\* queue of that name, with a way back, and it holds the message for the delay
\* asked for, to the second: the jitter, the cap and the shared names never lead to
\* a rung nobody declared, or to one that keeps another time.
RungsKeepTime ==
  /\ TopologyTypeOK
  /\ \A s \in Services : state[s] = "done" /\ ~Applies(s) =>
       \A wait \in Waits(setting[s].policy) : wait.in_broker =>
         /\ bound /\ RetryQueue(wait.delay) \in DOMAIN queues
         /\ LET held == queues[RetryQueue(wait.delay)].ttl * Milli
            IN held - wait.delay \in (1 - Second)..(Second - 1)

Applying == {s \in Services : Applies(s)}

\* A declaration is refused only where two services disagree on what both declare:
\* on the consumed queue's type if both apply a topology, on the policy, on durable.
\* Halfway failures and restarts never make one refuse itself, and a consumer and
\* a topology agree whatever type of queue the topology makes.
AgreementIsEnough ==
  \A s \in Services : state[s] = "refused" =>
    \/ \E t \in Services \ {s} :
         \/ setting[t].policy # setting[s].policy \/ ~setting[t].durable \/ ~setting[s].durable
         \/ {s, t} \subseteq Applying /\ QueueType(setting[t]) # QueueType(setting[s])
    \/ Applies(s) /\ QueueType(setting[s]) = "classic"   \* the queue was there already

\* Not so: asking a policy for its schedule fails only if the policy's own waits do.
RaisesOnlyIfUsed ==
  \A s \in Services : state[s] = "raised" /\ ~Unmakeable(setting[s]) =>
    LET p == setting[s].policy
    IN \E n \in 1..(p.max_attempts - 1) : UnjitteredOverflows(p, n, MaxDelta)
=============================================================================
