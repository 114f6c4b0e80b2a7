----------------------------- MODULE Scheduler -----------------------------
(***************************************************************************)
(* Delivering a message later (scheduler.py): a ladder of queues, each with*)
(* a uniform time to live, that all dead-letter into acemq.schedule.due,   *)
(* from which a scheduler either delivers a message or puts it in the      *)
(* largest rung that does not overshoot.  Every move is a confirmed publish*)
(* and then an acknowledgement.                                            *)
(*                                                                         *)
(* Time is what is left of a message's delay and of its stay in a rung.    *)
(* slack counts the time that passed while something was ready to move:    *)
(* a slow broker, a busy scheduler, a publish on its way.                  *)
(***************************************************************************)
EXTENDS Integers, Sequences, FiniteSets, FiniteSetsExt, SequencesExt

CONSTANTS
  Messages,    \* what the application schedules
  Foreign,     \* messages without the headers, put into the control queue
  Schedulers,  \* the schedulers of the broker
  App,         \* the application's task in after() or at()
  Rungs,       \* SCHEDULE_RUNGS, in units of time
  RetryRung,   \* SCHEDULE_RETRY_RUNG
  Prefetch,    \* how many due messages a scheduler holds
  MaxDelay,    \* the longest delay
  MaxSlack,    \* bound on slack
  MaxFaults,   \* bound on lost, refused or unheard publishes and crashes
  None

ASSUME SchedulerAssumption ==
  /\ Rungs \subseteq Nat \ {0} /\ IsFiniteSet(Rungs) /\ RetryRung \in Rungs
  /\ Messages \cap Foreign = {} /\ IsFiniteSet(Foreign)
  /\ IsFiniteSet(Schedulers) /\ App \notin Schedulers
  /\ None \notin Messages \cup Foreign \cup Int
  /\ Prefetch \in Nat \ {0} /\ MaxDelay \in Nat /\ MaxSlack \in Nat /\ MaxFaults \in Nat

VARIABLES
  left,      \* how long until each message is due, None before it is scheduled
  rung,      \* the rung queues, with what is left of each message's stay
  due,       \* acemq.schedule.due
  job,       \* the message each actor is moving
  pc,        \* where it is with it
  bound,     \* whether anything is bound to the target
  got,       \* what was left of its delay when a message first arrived
  times,     \* how often it arrived
  promised,  \* messages whose after() returned
  disturbed, \* messages a fault has met
  slack, faults

broker  == <<rung, due, bound>>
history == <<got, times, promised>>
vars == <<left, broker, job, pc, history, disturbed, slack, faults>>

Actors   == Schedulers \cup {App}
Smallest == Min(Rungs)
Latest   == -(MaxSlack + 1)   \* lateness is counted up to here

\* The type invariant of every variable.
TypeOK ==
  /\ left \in [Messages -> (Latest..MaxDelay) \cup {None}]
  /\ rung \in [Rungs -> Seq([msg : Messages, ttl : Nat])]
  /\ due \in Seq(Messages \cup Foreign)
  /\ job \in [Actors -> Messages \cup Foreign \cup {None}]
  /\ pc \in [Actors -> {"idle", "routing", "retrying", "backing", "settling"}]
  /\ bound \in BOOLEAN
  /\ got \in [Messages -> (Latest..MaxDelay) \cup {None}]
  /\ times \in [Messages -> 0..2 * MaxFaults + 1]
  /\ promised \subseteq Messages /\ disturbed \subseteq Messages
  /\ slack \in 0..MaxSlack /\ faults \in 0..MaxFaults

Init ==
  /\ left = [m \in Messages |-> None]
  /\ rung = [r \in Rungs |-> <<>>]
  /\ due = SetToSeq(Foreign)
  /\ job = [a \in Actors |-> None] /\ pc = [a \in Actors |-> "idle"]
  /\ bound \in BOOLEAN
  /\ got = [m \in Messages |-> None] /\ times = [m \in Messages |-> 0]
  /\ promised = {} /\ disturbed = {}
  /\ slack = 0 /\ faults = 0

-----------------------------------------------------------------------------
(* The broker *)

OneRungQueue(r) == IF r \in Rungs THEN Max(Rungs) ELSE r

\* The queue of a rung: one for each time to live.
RungQueue(r) == r

\* A classic queue expires at its head only.
Expires(r) ==
  /\ rung[r] # <<>> /\ Head(rung[r]).ttl = 0
  /\ due' = Append(due, Head(rung[r]).msg)
  /\ rung' = [rung EXCEPT ![r] = Tail(@)]
  /\ UNCHANGED <<left, job, pc, bound, history, disturbed, slack, faults>>

Binds ==
  /\ ~bound
  /\ bound' = TRUE
  /\ UNCHANGED <<left, rung, due, job, pc, history, disturbed, slack, faults>>

\* Something could move without waiting for time to pass.
Ready ==
  \/ \E r \in Rungs : rung[r] # <<>> /\ Head(rung[r]).ttl = 0
  \/ Range(due) \cap Messages # {}
  \/ \E a \in Actors : job[a] \in Messages

Tick ==
  /\ IF Ready THEN slack < MaxSlack /\ slack' = slack + 1 ELSE UNCHANGED slack
  /\ left' = [m \in Messages |-> IF left[m] = None THEN None ELSE Max({left[m] - 1, Latest})]
  /\ rung' = [r \in Rungs |->
               [i \in DOMAIN rung[r] |-> [rung[r][i] EXCEPT !.ttl = Max({@ - 1, 0})]]]
  /\ UNCHANGED <<due, job, pc, bound, history, disturbed, faults>>

-----------------------------------------------------------------------------
(* What every move is made of *)

\* A publish is lost, refused, or stored without its sender hearing of it.
Fault(m) ==
  /\ faults < MaxFaults /\ faults' = faults + 1
  /\ disturbed' = disturbed \cup {m}

Undisturbed == UNCHANGED <<faults, disturbed>>

Becomes(a, where) ==
  /\ pc' = [pc EXCEPT ![a] = where]
  /\ job' = IF where = "idle" THEN [job EXCEPT ![a] = None] ELSE job

\* Moved: at() returns, a scheduler has the delivery to acknowledge.
Moved(a) ==
  IF a = App
  THEN Becomes(a, "idle") /\ promised' = promised \cup {job[a]}
  ELSE Becomes(a, "settling") /\ UNCHANGED promised

Arrives(m) ==
  /\ times' = [times EXCEPT ![m] = @ + 1]
  /\ got' = [got EXCEPT ![m] = IF @ = None THEN left[m] ELSE @]

Enters(m, r) ==
  rung' = [rung EXCEPT ![RungQueue(r)] = Append(@, [msg |-> m, ttl |-> r])]

-----------------------------------------------------------------------------
(* The application and the schedulers *)

\* after() and at(), with a delay of `d`.
Schedules(m, d) ==
  /\ left[m] = None /\ pc[App] = "idle"
  /\ left' = [left EXCEPT ![m] = d]
  /\ job' = [job EXCEPT ![App] = m] /\ pc' = [pc EXCEPT ![App] = "routing"]
  /\ UNCHANGED <<broker, history, disturbed, slack, faults>>

TakesHeadOnly(s, i) ==
  /\ pc[s] = "idle"
  /\ i \in DOMAIN due /\ i = 1
  /\ job' = [job EXCEPT ![s] = due[i]] /\ pc' = [pc EXCEPT ![s] = "routing"]
  /\ due' = RemoveAt(due, i)
  /\ UNCHANGED <<left, rung, bound, history, disturbed, slack, faults>>

\* One of the deliveries the scheduler's prefetch lets it hold.
Takes(s, i) ==
  /\ pc[s] = "idle"
  /\ i \in DOMAIN due /\ i <= Prefetch
  /\ job' = [job EXCEPT ![s] = due[i]] /\ pc' = [pc EXCEPT ![s] = "routing"]
  /\ due' = RemoveAt(due, i)
  /\ UNCHANGED <<left, rung, bound, history, disturbed, slack, faults>>

\* _forward rejects what is not the scheduler's: its dead-letter queue does not
\* exist, so the consumer hands it back.
Rejects(s) ==
  /\ pc[s] = "routing" /\ job[s] \in Foreign
  /\ due' = <<job[s]>> \o due
  /\ Becomes(s, "idle")
  /\ UNCHANGED <<left, rung, bound, history, disturbed, slack, faults>>

IsDue(m) == left[m] < Smallest

RungForOneMore(m) == Max({r \in Rungs : r <= left[m] + 1})

\* The largest rung that does not overshoot.
RungFor(m) == Max({r \in Rungs : r <= left[m]})

Delivers(a) ==
  /\ pc[a] = "routing" /\ job[a] \in Messages /\ IsDue(job[a])
  /\ bound
  /\ Arrives(job[a])
  /\ Moved(a)
  /\ UNCHANGED <<left, broker, disturbed, slack, faults>>

\* Nothing is bound, or the publish failed, the broker having it or not.
DeliverFails(a) ==
  /\ pc[a] = "routing" /\ job[a] \in Messages /\ IsDue(job[a])
  /\ \/ ~bound /\ disturbed' = disturbed \cup {job[a]} /\ UNCHANGED <<got, times, faults>>
     \/ bound /\ Fault(job[a]) /\ (Arrives(job[a]) \/ UNCHANGED <<got, times>>)
  /\ Becomes(a, "retrying")
  /\ UNCHANGED <<left, broker, promised, slack>>

\* The rung a message goes to next.
NextRung(a) == IF pc[a] = "retrying" THEN RetryRung ELSE RungFor(job[a])

Hopping(a) ==
  \/ pc[a] = "retrying"
  \/ pc[a] = "routing" /\ job[a] \in Messages /\ ~IsDue(job[a])

Hops(a) ==
  /\ Hopping(a)
  /\ Enters(job[a], NextRung(a))
  /\ Moved(a)
  /\ UNCHANGED <<left, due, bound, got, times, disturbed, slack, faults>>

HopFailsAndAcks(a) ==
  /\ Hopping(a)
  /\ Fault(job[a])
  /\ Enters(job[a], NextRung(a)) \/ UNCHANGED rung
  /\ Becomes(a, IF a = App THEN "idle" ELSE "settling")
  /\ UNCHANGED <<left, due, bound, history, slack>>

\* at() raises; a scheduler puts the message back on the control queue.
HopFails(a) ==
  /\ Hopping(a)
  /\ Fault(job[a])
  /\ Enters(job[a], NextRung(a)) \/ UNCHANGED rung
  /\ Becomes(a, IF a = App THEN "idle" ELSE "backing")
  /\ UNCHANGED <<left, due, bound, history, slack>>

\* in_progress(): a copy on the control queue, or the delivery handed back.
PutsBack(s) ==
  /\ pc[s] = "backing"
  /\ due' = Append(due, job[s])
  /\ Becomes(s, "settling")
  /\ UNCHANGED <<left, rung, bound, history, disturbed, slack, faults>>

\* It fails as the hop before it did, stored or not: the delivery is handed back.
PutBackFails(s) ==
  /\ pc[s] = "backing"
  /\ due' = <<job[s]>> \o due \/ due' = Append(<<job[s]>> \o due, job[s])
  /\ Becomes(s, "idle")
  /\ UNCHANGED <<left, rung, bound, history, disturbed, slack, faults>>

Settles(s) ==
  /\ pc[s] = "settling"
  /\ Becomes(s, "idle")
  /\ UNCHANGED <<left, broker, history, disturbed, slack, faults>>

\* The process or its channel goes: the broker hands the delivery out again.
Crashes(s) ==
  /\ pc[s] # "idle" /\ job[s] \in Messages
  /\ Fault(job[s])
  /\ due' = <<job[s]>> \o due
  /\ Becomes(s, "idle")
  /\ UNCHANGED <<left, rung, bound, history, slack>>

Moves(a) == Delivers(a) \/ DeliverFails(a) \/ Hops(a) \/ HopFails(a)

Runs(s) == Moves(s) \/ Rejects(s) \/ PutsBack(s) \/ PutBackFails(s) \/ Settles(s)

Next ==
  \/ \E r \in Rungs : Expires(r)
  \/ Binds \/ Tick
  \/ \E m \in Messages, d \in 0..MaxDelay : Schedules(m, d)
  \/ Moves(App)
  \/ \E s \in Schedulers : Runs(s) \/ Crashes(s) \/ \E i \in DOMAIN due : Takes(s, i)

Spec == Init /\ [][Next]_vars

TakesMessage(m) == \E s \in Schedulers, i \in DOMAIN due : due[i] = m /\ Takes(s, i)

\* Time passes, rungs expire, publishes end, a scheduler runs and handles in turn what its
\* prefetch gave it, and in the end something is bound to the target.
FairSpec ==
  /\ Spec
  /\ WF_vars(Tick) /\ WF_vars(Binds)
  /\ \A r \in Rungs : WF_vars(Expires(r))
  /\ WF_vars(Moves(App))
  /\ \A s \in Schedulers : WF_vars(Runs(s))
  /\ \A m \in Messages : SF_vars(TakesMessage(m))

-----------------------------------------------------------------------------
(* Properties *)

\* How many copies of a message the broker owes or has out, a delivery whose
\* successor is stored already left aside.
InRung(q, m) == {i \in DOMAIN q : q[i].msg = m}

Owed(m) ==
  Cardinality(UNION {{r} \X InRung(rung[r], m) : r \in Rungs})
    + Cardinality({i \in DOMAIN due : due[i] = m})
    + Cardinality({s \in Schedulers : job[s] = m /\ pc[s] # "settling"})

\* A message whose after() returned is kept until it arrives, through refused
\* hops, crashes and a target nobody has bound; and one nothing went wrong for is
\* in one place only and arrives once, one fault costing two more copies at most.
KeptUntilSent ==
  /\ TypeOK
  /\ \A m \in promised : times[m] = 0 => Owed(m) > 0
  /\ \A m \in promised \ disturbed : Owed(m) + times[m] = 1

\* No message arrives a whole smallest rung early, and one nothing went wrong for
\* is late by no more than the broker and the schedulers took: the ladder itself
\* never overshoots, and no message waits behind a longer one.
OnTime ==
  \A m \in Messages :
    got[m] # None => got[m] < Smallest /\ (m \notin disturbed => got[m] >= -slack)

\* Every scheduled message arrives once its target is bound, foreign messages in
\* the control queue notwithstanding.
EveryMessageArrives == \A m \in Messages : m \in promised ~> times[m] > 0
=============================================================================
