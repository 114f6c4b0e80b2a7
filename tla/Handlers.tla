------------------------------ MODULE Handlers ------------------------------
(***************************************************************************)
(* What goes round a handler and inside it, in one process: a group of     *)
(* consumers (consumergroup.py) whose tasks share one handler, ordered by  *)
(* key (ordered.py), with a deadline outside or inside the ordering        *)
(* (pipeline.py: with_timeout), which runs a saga (saga.py) on the event   *)
(* loop or blocks one of a pool's threads.                                 *)
(*                                                                         *)
(* A consumer of the synchronous API (sync.py) runs its handler on a thread*)
(* for each task, with no deadline before it; a deadline over threads is a *)
(* handler that hands its work to a pool of its own (with_timeout).        *)
(*                                                                         *)
(* A body on the event loop is cancelled where it awaits.  One on a thread *)
(* cannot be: it is left to itself, and keeps its thread.                  *)
(***************************************************************************)
EXTENDS Integers, Sequences, FiniteSets, FiniteSetsExt, SequencesExt

CONSTANTS
  Messages,    \* 1..n, in the order they were published
  KeyOf,       \* the partition key of each, NoKey for an empty one
  NoKey,
  Size,        \* how many consumers the group has
  Tasks,       \* their tasks
  Shapes,      \* how they may be spread over the consumers, and the handler wrapped
  Prefetch,    \* how many messages a consumer holds
  PoolSize,    \* how many threads there are for bodies
  SagaLength,  \* how many steps the saga has
  Compensable, \* those that have a compensation
  MaxAttempts, \* of the retry policy
  None

Members == 1..Size
Steps   == 1..SagaLength
Keys    == {KeyOf[m] : m \in Messages} \ {NoKey}

\* What the constants may be.
Admissible ==
  /\ IsFiniteSet(Tasks) /\ IsFiniteSet(Messages) /\ Messages = 1..Cardinality(Messages)
  /\ DOMAIN KeyOf = Messages
  /\ Size \in Nat \ {0}
  /\ Shapes \subseteq [member : [Tasks -> Members], limit : {"none", "outer", "inner"},
                       threaded : BOOLEAN]
  /\ Prefetch \in Nat \ {0} /\ PoolSize \in Nat /\ MaxAttempts \in Nat \ {0}
  /\ SagaLength \in Nat \ {0} /\ Compensable \subseteq Steps
  /\ None \notin Tasks \cup Messages \cup Members

ASSUME HandlersAssumption == Admissible

VARIABLES
  member,   \* the consumer each task belongs to
  limit,    \* the deadline: "none", "outer" of the ordering, or "inner"
  threaded, \* whether the body blocks a thread
  queue,    \* the queue: messages with their attempt
  buffer,   \* what each consumer was delivered and no task has taken
  job,      \* the message each task has
  pc,       \* where it is with it: "idle", "waiting" for its key, "queued" for a thread, "acting", "undoing", or its verdict
  step,     \* how far its saga is
  lock,     \* _locks: the lock of each key
  holders,  \* _holders
  line,     \* each lock's holder, and who waits behind it
  ref,      \* the lock each task holds or waits for
  zombies,  \* messages whose abandoned bodies still run on a thread
  state,    \* each consumer: "new", "on", "stopping", "off"
  group,    \* the group: "starting", "up", "closing"
  handled, dead,  \* messages acknowledged and dead-lettered
  began,    \* messages a body was started for
  cut,      \* messages a deadline or a close cut off
  first,    \* the consumer each message was first delivered to
  stands,   \* the steps whose effect stands, of the saga each task runs
  failed    \* the steps whose compensation failed in it

config  == <<member, limit, threaded>>
source  == <<queue, buffer>>
tasks   == <<job, pc, step>>
locks   == <<lock, holders, line, ref>>
control == <<state, group>>
sagas   == <<stands, failed>>
history == <<handled, dead, began, cut, first>>
vars    == <<config, source, tasks, locks, zombies, control, sagas, history>>

Locks == Tasks   \* no more lock objects than tasks that refer to them
Copy  == [msg : Messages, attempt : 1..MaxAttempts]
NoJob == [msg |-> None, attempt |-> 1]
Verdicts == {"accept", "retry", "reject", "late"}

Of(c) == {t \in Tasks : member[t] = c}

\* The type invariant of every variable.
TypeOK ==
  /\ [member |-> member, limit |-> limit, threaded |-> threaded] \in Shapes
  /\ queue \in Seq(Copy) /\ buffer \in [Members -> Seq(Copy)]
  /\ job \in [Tasks -> Copy \cup {NoJob}]
  /\ pc \in [Tasks -> {"idle", "waiting", "queued", "acting", "undoing"} \cup Verdicts]
  /\ step \in [Tasks -> 0..SagaLength]
  /\ lock \in [Keys -> Locks \cup {None}] /\ holders \in [Keys -> 0..Cardinality(Tasks)]
  /\ line \in [Locks -> Seq(Tasks)] /\ ref \in [Tasks -> Locks \cup {None}]
  /\ zombies \in Seq(Messages)
  /\ state \in [Members -> {"new", "on", "stopping", "off"}]
  /\ group \in {"starting", "up", "closing"}
  /\ handled \subseteq Messages /\ dead \subseteq Messages
  /\ began \subseteq Messages /\ cut \subseteq Messages
  /\ first \in [Messages -> Members \cup {None}]
  /\ stands \in [Tasks -> SUBSET Steps] /\ failed \in [Tasks -> SUBSET Steps]

Init ==
  /\ \E shape \in Shapes :
       member = shape.member /\ limit = shape.limit /\ threaded = shape.threaded
  /\ queue = [m \in Messages |-> [msg |-> m, attempt |-> 1]]
  /\ buffer = [c \in Members |-> <<>>]
  /\ job = [t \in Tasks |-> NoJob] /\ pc = [t \in Tasks |-> "idle"]
  /\ step = [t \in Tasks |-> 0]
  /\ lock = [k \in Keys |-> None] /\ holders = [k \in Keys |-> 0]
  /\ line = [l \in Locks |-> <<>>] /\ ref = [t \in Tasks |-> None]
  /\ zombies = <<>>
  /\ state = [c \in Members |-> IF Of(c) = {} THEN "off" ELSE "new"] /\ group = "starting"
  /\ handled = {} /\ dead = {} /\ began = {} /\ cut = {}
  /\ first = [m \in Messages |-> None]
  /\ stands = [t \in Tasks |-> {}] /\ failed = [t \in Tasks |-> {}]

Busy(t) == pc[t] \in {"queued", "acting", "undoing"}
Key(t) == KeyOf[job[t].msg]

-----------------------------------------------------------------------------
(* ordered(): _KeyedLocks *)

\* Counted before the wait, so that a key somebody waits for is not forgotten.
Held(k) == holders[k] + 1

LetGoAtOnce(k, t) ==
  /\ holders' = [holders EXCEPT ![k] = IF @ > 0 THEN @ - 1 ELSE 0]
  /\ lock' = [lock EXCEPT ![k] = None]

\* _let_go(): the lock is forgotten with its last holder.
LetGo(k, t) ==
  /\ holders' = [holders EXCEPT ![k] = @ - 1]
  /\ lock' = [lock EXCEPT ![k] = IF holders[k] = 1 THEN None ELSE @]

\* Leaves the lock's line, whether it held it or waited, or had no key.
Unlocks(t) ==
  IF ref[t] = None
  THEN UNCHANGED locks
  ELSE /\ line' = [line EXCEPT ![ref[t]] = RemoveFirst(@, t)]
       /\ ref' = [ref EXCEPT ![t] = None]
       /\ LetGo(Key(t), t)

\* A lock object nothing refers to.
Fresh(l) == line[l] = <<>> /\ \A k \in Keys : lock[k] # l

-----------------------------------------------------------------------------
(* The body *)

\* What a task's body does first: wait for a thread, or the saga's first step.
Opens(t) == IF threaded THEN "queued" ELSE "acting"

StartsSaga(t) ==
  /\ step' = [step EXCEPT ![t] = 1]
  /\ stands' = [stands EXCEPT ![t] = {}] /\ failed' = [failed EXCEPT ![t] = {}]

\* A task takes the next message and goes as far as the first wait.
Takes(t) ==
  /\ pc[t] = "idle" /\ state[member[t]] = "on" /\ buffer[member[t]] # <<>>
  /\ LET c == Head(buffer[member[t]])
         k == KeyOf[c.msg]
     IN /\ job' = [job EXCEPT ![t] = c]
        /\ buffer' = [buffer EXCEPT ![member[t]] = Tail(@)]
        /\ \/ k = NoKey /\ pc' = [pc EXCEPT ![t] = Opens(t)] /\ UNCHANGED locks
           \/ k # NoKey /\ \E l \in Locks :
                /\ IF lock[k] = None THEN l = CHOOSE f \in Locks : Fresh(f) ELSE l = lock[k]
                /\ lock' = [lock EXCEPT ![k] = l]
                /\ holders' = [holders EXCEPT ![k] = Held(k)]
                /\ line' = [line EXCEPT ![l] = Append(@, t)]
                /\ ref' = [ref EXCEPT ![t] = l]
                /\ pc' = [pc EXCEPT ![t] = IF line[l] = <<>> THEN Opens(t) ELSE "waiting"]
        /\ began' = IF pc'[t] = "acting" THEN began \cup {c.msg} ELSE began
  /\ StartsSaga(t)
  /\ UNCHANGED <<config, queue, zombies, control, handled, dead, cut, first>>

GrantedToAny(t) ==
  /\ pc[t] = "waiting"
  /\ pc' = [pc EXCEPT ![t] = Opens(t)]
  /\ began' = IF threaded THEN began ELSE began \cup {job[t].msg}
  /\ UNCHANGED <<config, source, job, step, locks, zombies, control, sagas, handled, dead, cut, first>>

\* The lock is this task's.
Granted(t) ==
  /\ pc[t] = "waiting" /\ Head(line[ref[t]]) = t
  /\ pc' = [pc EXCEPT ![t] = Opens(t)]
  /\ began' = IF threaded THEN began ELSE began \cup {job[t].msg}
  /\ UNCHANGED <<config, source, job, step, locks, zombies, control, sagas, handled, dead, cut, first>>

\* One of the pool's threads is free.
Boards(t) ==
  /\ pc[t] = "queued"
  /\ Cardinality({u \in Tasks : threaded /\ pc[u] = "acting"}) + Len(zombies) < PoolSize
  /\ pc' = [pc EXCEPT ![t] = "acting"]
  /\ began' = began \cup {job[t].msg}
  /\ UNCHANGED <<config, source, job, step, locks, zombies, control, sagas, handled, dead, cut, first>>

\* The handler has answered: the key is free again.
Answers(t, verdict) ==
  /\ pc' = [pc EXCEPT ![t] = verdict]
  /\ Unlocks(t)

\* A blocking body returns, or raises.
Returns(t) ==
  /\ threaded /\ pc[t] = "acting"
  /\ \E v \in {"accept", "retry"} : Answers(t, v)
  /\ UNCHANGED <<config, source, job, step, zombies, control, sagas, history>>

\* A step of the saga is done.
Acts(t) ==
  /\ ~threaded /\ pc[t] = "acting"
  /\ stands' = [stands EXCEPT ![t] = @ \cup {step[t]}]
  /\ IF step[t] = SagaLength
     THEN Answers(t, "accept") /\ UNCHANGED step
     ELSE step' = [step EXCEPT ![t] = @ + 1] /\ UNCHANGED <<pc, locks>>
  /\ UNCHANGED <<config, source, job, failed, zombies, control, history>>

\* A step fails: the ones before it are undone.
ActFails(t) ==
  /\ ~threaded /\ pc[t] = "acting"
  /\ pc' = [pc EXCEPT ![t] = "undoing"]
  /\ step' = [step EXCEPT ![t] = @ - 1]
  /\ UNCHANGED <<config, source, job, locks, zombies, control, sagas, history>>

UndoesUntilFailure(t) ==
  /\ ~threaded /\ pc[t] = "undoing" /\ step[t] > 0
  /\ LET s == step[t] IN
     \/ s \in Compensable /\ stands' = [stands EXCEPT ![t] = @ \ {s}] /\ UNCHANGED failed
        /\ step' = [step EXCEPT ![t] = @ - 1]
     \/ s \in Compensable /\ failed' = [failed EXCEPT ![t] = @ \cup {s}] /\ UNCHANGED stands
        /\ step' = [step EXCEPT ![t] = 0]
     \/ s \notin Compensable /\ UNCHANGED <<stands, failed>>
        /\ step' = [step EXCEPT ![t] = @ - 1]
  /\ UNCHANGED <<config, source, job, pc, locks, zombies, control, history>>

\* _compensate(), the most recent first; one that fails is kept for the result.
Undoes(t) ==
  /\ ~threaded /\ pc[t] = "undoing" /\ step[t] > 0
  /\ LET s == step[t] IN
     \/ s \in Compensable /\ stands' = [stands EXCEPT ![t] = @ \ {s}] /\ UNCHANGED failed
     \/ s \in Compensable /\ failed' = [failed EXCEPT ![t] = @ \cup {s}] /\ UNCHANGED stands
     \/ s \notin Compensable /\ UNCHANGED <<stands, failed>>
  /\ step' = [step EXCEPT ![t] = @ - 1]
  /\ UNCHANGED <<config, source, job, pc, locks, zombies, control, history>>

\* run() returns what was left; a handler asks for a retry when that is nothing.
Undone(t) ==
  /\ ~threaded /\ pc[t] = "undoing" /\ step[t] = 0
  /\ Answers(t, IF failed[t] = {} THEN "retry" ELSE "reject")
  /\ UNCHANGED <<config, source, job, step, sagas, zombies, control, history>>

-----------------------------------------------------------------------------
(* Deadlines and settlements *)

\* What a cancellation leaves behind: a thread that has begun goes on.
Abandons(t) ==
  zombies' = IF threaded /\ pc[t] = "acting" THEN Append(zombies, job[t].msg) ELSE zombies

DeadlineUnlocked(t) ==
  /\ Busy(t)
  /\ limit \in {"outer", "inner"}
  /\ pc' = [pc EXCEPT ![t] = "late"]
  /\ Abandons(t)
  /\ cut' = cut \cup {job[t].msg}
  /\ UNCHANGED <<config, source, job, step, locks, control, sagas, handled, dead, began, first>>

\* with_timeout(): whatever the body would have said, the message is retried.
Deadline(t) ==
  /\ \/ limit = "outer" /\ (pc[t] = "waiting" \/ Busy(t))
     \/ limit = "inner" /\ Busy(t)
  /\ Answers(t, "late")
  /\ Abandons(t)
  /\ cut' = cut \cup {job[t].msg}
  /\ UNCHANGED <<config, source, job, step, control, sagas, handled, dead, began, first>>

\* An abandoned body ends: there is nothing left for it to settle.
ZombieEnds(i) ==
  /\ zombies' = RemoveAt(zombies, i)
  /\ UNCHANGED <<config, source, tasks, locks, control, sagas, history>>

Settles(t) ==
  /\ pc[t] \in Verdicts
  /\ LET c == job[t]
         again == pc[t] \in {"retry", "late"} /\ c.attempt < MaxAttempts
     IN /\ queue' = IF again THEN Append(queue, [c EXCEPT !.attempt = @ + 1]) ELSE queue
        /\ handled' = IF pc[t] = "accept" THEN handled \cup {c.msg} ELSE handled
        /\ dead' = IF pc[t] # "accept" /\ ~again THEN dead \cup {c.msg} ELSE dead
  /\ pc' = [pc EXCEPT ![t] = "idle"] /\ job' = [job EXCEPT ![t] = NoJob]
  /\ stands' = [stands EXCEPT ![t] = {}] /\ failed' = [failed EXCEPT ![t] = {}]
  /\ step' = [step EXCEPT ![t] = 0]
  /\ UNCHANGED <<config, buffer, locks, zombies, control, began, cut, first>>

-----------------------------------------------------------------------------
(* The broker, and the group of consumers *)

Delivers(c) ==
  /\ state[c] = "on" /\ queue # <<>>
  /\ Len(buffer[c]) + Cardinality({t \in Of(c) : pc[t] # "idle"}) < Prefetch
  /\ buffer' = [buffer EXCEPT ![c] = Append(@, Head(queue))]
  /\ queue' = Tail(queue)
  /\ first' = [first EXCEPT ![Head(queue).msg] = IF @ = None THEN c ELSE @]
  /\ UNCHANGED <<config, tasks, locks, zombies, control, sagas, handled, dead, began, cut>>

\* start(): one consumer after the other.
StartsMember(c) ==
  /\ group = "starting" /\ state[c] = "new"
  /\ \A b \in 1..c - 1 : state[b] # "new"
  /\ state' = [state EXCEPT ![c] = "on"]
  /\ group' = IF \A b \in Members : state'[b] # "new" THEN "up" ELSE group
  /\ UNCHANGED <<config, source, tasks, locks, zombies, sagas, history>>

\* One fails to start, or the application closes the group: those running are closed.
Closes ==
  /\ group \in {"starting", "up"}
  /\ group' = "closing"
  /\ UNCHANGED <<config, source, tasks, locks, zombies, state, sagas, history>>

\* close() of the next consumer; what it had not started goes back.
Stops(c) ==
  /\ group = "closing" /\ state[c] = "on"
  /\ \A b \in 1..c - 1 : state[b] = "off"
  /\ state' = [state EXCEPT ![c] = "stopping"]
  /\ queue' = buffer[c] \o queue
  /\ cut' = cut \cup {buffer[c][i].msg : i \in DOMAIN buffer[c]}
  /\ buffer' = [buffer EXCEPT ![c] = <<>>]
  /\ UNCHANGED <<config, tasks, locks, zombies, group, sagas, handled, dead, began, first>>

DrainedWithThreads(c) ==
  /\ state[c] = "stopping" /\ \A t \in Of(c) : pc[t] = "idle"
  /\ zombies = <<>>
  /\ state' = [state EXCEPT ![c] = "off"]
  /\ UNCHANGED <<config, source, tasks, locks, zombies, group, sagas, history>>

\* Its tasks have finished.
Drained(c) ==
  /\ state[c] = "stopping" /\ \A t \in Of(c) : pc[t] = "idle"
  /\ state' = [state EXCEPT ![c] = "off"]
  /\ UNCHANGED <<config, source, tasks, locks, zombies, group, sagas, history>>

\* The drain's deadline cuts one off: its message is left for the broker.
CutsOff(t) ==
  /\ state[member[t]] = "stopping" /\ pc[t] # "idle"
  /\ Unlocks(t)
  /\ Abandons(t)
  /\ cut' = cut \cup {job[t].msg}
  /\ queue' = <<job[t]>> \o queue
  /\ pc' = [pc EXCEPT ![t] = "idle"] /\ job' = [job EXCEPT ![t] = NoJob]
  /\ stands' = [stands EXCEPT ![t] = {}] /\ failed' = [failed EXCEPT ![t] = {}]
  /\ step' = [step EXCEPT ![t] = 0]
  /\ UNCHANGED <<config, buffer, control, handled, dead, began, first>>

-----------------------------------------------------------------------------
Body(t) == Returns(t) \/ Acts(t) \/ ActFails(t) \/ Undoes(t) \/ Undone(t)

Next ==
  \/ \E t \in Tasks : \/ Takes(t) \/ Granted(t) \/ Boards(t) \/ Body(t)
                     \/ Deadline(t) \/ Settles(t) \/ CutsOff(t)
  \/ \E i \in DOMAIN zombies : ZombieEnds(i)
  \/ \E c \in Members : Delivers(c) \/ StartsMember(c) \/ Stops(c) \/ Drained(c)
  \/ Closes

Spec == Init /\ [][Next]_vars

\* Nothing is assumed of a body, nor of an abandoned one: it may hang.  The loop
\* runs its tasks, a deadline passes, and a close goes on.
FairSpec ==
  /\ Spec
  /\ \A t \in Tasks : /\ WF_vars(Takes(t)) /\ WF_vars(Granted(t))
                      /\ WF_vars(Deadline(t)) /\ WF_vars(Settles(t)) /\ WF_vars(CutsOff(t))
  /\ \A c \in Members : WF_vars(Delivers(c)) /\ WF_vars(Stops(c)) /\ WF_vars(Drained(c))

-----------------------------------------------------------------------------
(* Properties *)

\* Two messages of one key are never handled at once, however the locks are
\* forgotten and made again, and whoever is cut off while waiting or holding: but
\* for the threads a deadline or a close has given up on.  And one consumer's
\* messages of a key begin in the order they arrived, whatever its concurrency,
\* unless the earlier was cut off before it could.
OneOfAKey ==
  /\ TypeOK
  /\ \A t, u \in Tasks : t # u /\ Busy(t) /\ Busy(u) /\ Key(t) = Key(u) => Key(t) = NoKey
  /\ \A k \in Keys : lock[k] # None <=> \E t \in Tasks : ref[t] # None /\ Key(t) = k
  /\ \A a, b \in Messages :
       a < b /\ KeyOf[a] = KeyOf[b] /\ KeyOf[a] # NoKey /\ first[a] = first[b] /\ b \in began
         => a \in began \cup cut

\* A saga that fails is undone from its last step back, past compensations that
\* fail: it leaves only steps without a compensation and those it reports, so a
\* message its own saga sends round again finds the world as it was.
SagaUndone ==
  \A t \in Tasks : ~threaded =>
    /\ pc[t] = "undoing" => /\ 1..step[t] \subseteq stands[t]
                            /\ stands[t] \cap Compensable \subseteq 1..step[t] \cup failed[t]
    /\ pc[t] = "accept" => stands[t] = Steps
    /\ pc[t] = "retry" => stands[t] \cap Compensable = {}
    /\ pc[t] = "reject" => stands[t] \cap Compensable = failed[t] /\ failed[t] # {}

\* With a deadline every message is settled, though bodies hang and hold their
\* threads, as long as the group is not closed.
EveryMessageSettled ==
  limit # "none" =>
    \A m \in Messages : group = "up" ~> (m \in handled \cup dead \/ group # "up")

\* Closing ends, whatever the bodies do: every consumer is off and has given up or
\* given back what it held, also when the group never finished starting.
CloseReturns ==
  group = "closing" ~> \A c \in Members : state[c] \in {"new", "off"} /\ buffer[c] = <<>>

\* Not so: a message is dead-lettered only after a body was started for it.
DeadLettersWereTried == dead \subseteq began
=============================================================================
