# A verification development for acemq-python-amqp

TLA+ models of the messaging core of `src/src/acemq_amqp`, model-checked with
TLC, and proofs checked with TLAPS. The code is the reference: each definition
that stands for code is listed in `PROJECT.json` under `map`, with its file and
lines. File names below are relative to `src/src/acemq_amqp`.

## The system

`acemq-amqp` is an asyncio library over RabbitMQ. Everything runs on one event
loop, so what interleaves is tasks, at their awaits: the consumer's workers, the
tasks that close things, the tasks that publish, and the broker and network on
the other side of the socket.

| Component | State it keeps | Operations | What is hard |
|---|---|---|---|
| Retry policy (`retry.py`) | none | `next_wait`, `schedule`, `broker_rungs`, `waits_in_broker` | boundaries: last attempt, cap, threshold, overflow |
| Consumer (`connection.py`, `ack.py`) | work queue, workers, subscription, `_closed`, `_halted`, `_halting` | `_start`, `_deliver`, `_work_loop`, `_decide`, `_carry_out` and the hops, `_halt`, `close` | publish-then-acknowledge with refusals, late confirms, crashes, reconnections; closing while working |
| Connection (`connection.py`) | `_consumers`, `_closed`, transport | `consume`, `close` | several tasks close at once, cancellation, a consumer that is still starting |
| Publishing (`connection.py`, `rabbitmq.py`) | semaphore, count in flight, blocked state | `publish_raw`, `Transport.publish`, `Publisher.send`, `send_all` | permits on every path out, two timeouts, alarms, answers nobody waits for, a batch that is cancelled |
| Health (`connection.py`, `telemetry.py`) | none | `health`, `_probe_within` | a probe that never answers, a block notified while it waits |
| Topology (`topology.py`, `naming.py`) | none; the queues on the broker | `Topology.queue`, `validate`, `apply`, `declare_where_failures_go` | two code paths and several services must agree on names and arguments |
| Transport (`rabbitmq.py`, `transport.py`) | channels, stream position | `publish`, `consume`, `pull`, declarations | channels that reopen under held deliveries |
| Envelope (`envelope.py`, `headers.py`) | none | `to_headers`, `from_headers`, `with_` | headers of other libraries and versions, in any type |
| Outbox (`patterns/outbox.py`, `sql.py`) | records and their attempts | `add`, `sweep`, `record_failure`, `close` | crash between publish and mark; two relays |
| Idempotency (`patterns/idempotency.py`, `sql.py`) | claims with a lease | `claim`, `confirm`, `forget` | leases that expire under a running handler |
| Streams (`patterns/streams.py`, `rabbitmq.py`) | offset of the oldest unsettled entry | `read_stream`, `_StreamPosition` | recovery while old handlers still settle; retention |
| Request and reply (`patterns/requestreply.py`) | waiters by correlation | `ask`, `_receive`, `close`, `serve` | a reply racing the timeout and close |
| Scheduler (`patterns/scheduler.py`) | messages on rungs | `after`, `at`, `_forward`, `_hop`, `_deliver` | many hops, each a publish then an acknowledgement; time |
| Routing slip, pipeline (`patterns/routingslip.py`) | the message's slip; the pipeline's consumers | `start`, `follow_slip`, `Pipeline.start`, `close` | a step done whose next hop failed; two wire forms |
| Replay (`patterns/replay.py`) | messages held back | `replay` | half a pass failing; a replay that feeds its own queue |
| Ordered (`patterns/ordered.py`) | locks by key and their holders | `hold`, `with_ordering` | a lock forgotten too early |
| Saga, middleware (`patterns/saga.py`, `pipeline.py`) | completed steps | `run`, `_compensate`, `chain`, `with_timeout` | compensations that fail; deadlines over threads |
| Consumer group (`patterns/consumergroup.py`), `sync.py` | consumers; threads | `start`, `close`; handlers on threads | a start that fails halfway; threads nobody can stop |
| Claim check, schema, codecs, interceptors, telemetry, TLS | little | transformations and reporting | not protocols; left out |

The components meet in few places. Every publish of the library goes through
`publish_raw`. A consumer's hops are such publishes, to queues the topology
declares, named by the policy the consumer runs. `Connection.close` closes the
consumers and then the transport their settlements need. The patterns are
handlers and tasks on top of these.

What makes each part correct, in one line: the consumer never loses a published
message nor settles a delivery twice; close runs once, ends, and leaves nothing
behind; publishing conserves permits and tells the caller the truth; the
topology has a queue of the right delay wherever the policy sends a message; the
outbox publishes at least once and in order; a claim never makes an unhandled
message a duplicate; a stream reader resumes at the oldest unsettled entry; a
scheduled message arrives, and not early; every call of `ask` ends and every reply
is accounted for; a run on a slip goes on at least once; two messages of one key are
never handled at once; and an envelope survives every hop.

## Modules

| Module | Models | Run or proof module |
|---|---|---|
| `RetryPolicy` | `retry.py` as operators on a policy record | used by `Consumer`, `Topology` |
| `AtLeastOnce` | the abstract promise: a published message is owed until it is settled, and is settled in the end | refined by `Consumer` |
| `Consumer` | one consumer and the broker | `MCConsumer` |
| `ConsumerProofs` | theorems about `Consumer`, which implements the safety of `AtLeastOnce`, and about `RetryPolicy` and `Topology` | TLAPS |
| `Connection` | closing, by several tasks | its own run module |
| `ConnectionProofs` | theorems about `Connection`, and about `Sending` on `Publishing` | TLAPS |
| `Topology` | declaring where failures go | `MCTopology` |
| `Publishing` | `publish_raw` | through `Sending` |
| `Sending` | `Publisher.send`, `send_all` and `health` on `Publishing` | its own run module |
| `Idempotency` | `guarded` and the two stores | `MCIdempotency` |
| `IdempotencyProofs` | theorems about `Idempotency` | TLAPS |
| `Outbox` | the table, the relay and other sweeps | its own run module |
| `OutboxProofs` | theorems about `Outbox` and `Stream` | TLAPS |
| `Stream` | `read_stream` and `_StreamPosition` | its own run module |
| `Scheduler` | the ladder of rungs and the control consumer | its own run module |
| `SchedulerProofs` | theorems about `Scheduler` | TLAPS |
| `RequestReply` | a requester and a responder | its own run module |
| `RequestReplyProofs` | theorems about `RequestReply` | TLAPS |
| `RoutingSlip` | slips, pipelines and replays | `MCRouting` |
| `Handlers` | consumer group, ordering, deadline, saga, threads | `MCHandlers` |
| `HandlersProofs` | theorems about `Handlers` | TLAPS |
| `Envelope` | the object and its headers, as operators | `MCEnvelope`, which `MCRouting` extends |
| `RoutingProofs` | theorems about `RoutingSlip` and about `Envelope` | TLAPS |

### Consumer

`copy` is what the broker holds (or what is on the wire to it) under each
identity, `aside` what is on the dead-letter queue and the parking lot, `exists`
which failure queues are declared. `work` is the `asyncio.Queue`. `pc`, `dlv`,
`hop`, `sent`, `answer` say where each worker is: `handling` the handler runs;
`hop` it is about to publish a copy (`_republish`); `sent` it awaits the confirm;
`acking`/`nacking` it is about to settle the original. A worker's step between
two awaits is one action. `gen` is the incarnation of the channel: aio-pika's
robust connection reopens a channel and consumes again, and a delivery of an
older incarnation can no longer be settled (`Live`). Between `ConnectionLost` and
`Reopens` the channel is not `open`: publishes wait, and `_Subscription.stop` and
`close` leave it as it is. A consumer closed then keeps its subscription (`subscribed`),
which comes back with the channel and no workers behind it: `behind` counts those, and
`stranded` is what they were given, which nobody settles. A cancel cut off by the lost
connection raises (`raised`), and so may giving back a delivery of the old channel:
`CloseRaises` is the `finally` of `close` after either. `handled`, `failures`,
`condemned` and `disturbed` are history variables that no action reads.

`_decide` and `_carry_out` are the operators `Decide` and `CarryOut`, what
`_retry_in_broker`, `_retry_again`, `_put_back` and `_set_aside` do with the
outcome of their publish is `AfterHop`. The waits before a republish
(`asyncio.sleep`) have no action: a step may be taken any time later. Order in a
queue is not modelled. `Requeued` copies keep their attempt.

### Connection

For each consumer: how far `consume()` has got, whether it is in `_closed`, and
where each of three tasks (the application's, the one `_halt` created, the one
`Connection.close` gathers) is in `Consumer.close`. Handlers are a number.
`Struck` says which tasks a cancellation of `Connection.close` reaches.

### Topology

A service has a setting: its policy, whether its queue is durable and of which
type, and whether it consumes or applies a topology. Its declarations are a
sequence (`plan`) computed from it, and it makes them one at a time against the
broker's `queues`. Names of rungs are the delay in whole seconds, exactly as much as `_short` tells apart. Delays are
integers with `Second` units to the second and `Milli` to the millisecond.
`int(total_seconds() * 1000)` goes through a float; the millisecond this can
differ by is not modelled.

### Publishing

Tasks in `publish_raw`: `waiting` in the semaphore's line, `granted` a permit
and not yet running, `sending` before the write (the channel may have to be
reopened), `written`, `over`. The semaphore is asyncio's: the permit passes to
the longest waiting task, which runs later and may by then have timed out or been
cancelled (`DeclinesGrant`). Every publish is mandatory, as the library's hops
and its default publisher are.

### Sending

`send` is a task of `Publishing`; `send_all` (`batch`, `report`) waits for the tasks
of `Batch`, all of them, cancelled or not, and counts them. `health` is a probe
(`probe`) that shares the socket with the publishes: a broker that holds one of them
back does not read what comes after it. `saw` is whether a consumer was found to have
stopped reading, which the check knows before it asks. `link` is how far
`Connection.close` has got: a check asked from then on says "down" before it looks at
anything else, while publishes go on until the transport is released, which fails what
is on it like a lost connection.

### Idempotency

A worker is one run of `guarded` at a time, in a process (`NodeOf`). A call of
the SQL store is several statements (`ClaimInsert`, `ClaimTakeOver`,
`ClaimSelect`; `ConfirmUpdate`, `ConfirmInsert`): each is atomic and others run in
between, as under PostgreSQL's READ COMMITTED; SQLite, which serialises the whole
transaction, is a special case. The in-memory store is one step under its lock.
Both are in one module (`kind`), as `guarded` cannot tell them apart.

Deadlines count down: `left` is `expires_at` less the present time. A call reads
the clock once, before its first statement, so it may work with a time that is
out of date by `age`. The broker and the consumer around the handler are reduced
to a delivery, what they do with the answer, and a delivery taken back while its
handler runs (`LinkLost`). `lease` is what is left of a worker's own claim;
`handled` and `lapsed` are history.

### Outbox

`rows` is the table, with the attempts of each record; `tx` the transaction that
adds it. Records are numbered in the order of `(created_at, id)`. A sweep reads
its batch (`Begin`), then publishes and marks each record, or counts the failure
and stops. `relay` sweeps in the relay's task, the other sweepers are callers of
`sweep()`. The in-memory store is the case in which every `Add` is committed at
once. A second relay is a new object, as one that was closed cannot be started
again. `disturbed` lists the records a second copy of which the documentation
excuses. An operator who resets attempts is not modelled.

### Stream

The log is its length and the first entry retention has left. `arg` is the
`x-stream-offset` in the dictionary aio-pika subscribes with again, `pending` and
`settled` are `_StreamPosition`. Deliveries carry the incarnation of their channel;
those of a lost one stay with the workers and move the position when they are
settled, as in the code. `onFailure` is what a failing handler does (stop, or set
its entry aside). `begun` is the first entry the reader was to see: of a reader that
starts at the next entry it is fixed when the broker first subscribes it.

### Scheduler

`left` is how long until a message is due and goes on counting below zero; `rung`
holds, for each copy, what is left of its stay. Time passes for all at once (`Tick`),
and only while nothing is ready to move, unless `slack` pays for it: how late a
message may come is then a number. `RungFor` is the largest rung that does not
overshoot, `HopFails` what a refused, returned or unheard publish does.

### RequestReply

For each call where its task is, its future, and whether it is registered in
`_waiting`; the request and the reply are counts of copies. A publish whose confirm
does not come may have stored its message (`unheard`). Receiving a reply takes the
waiter off the table in the same step as it resolves it, as `_receive` has no await
between the two. Deadlines may come at any time. `close` awaits the consumer before it
fails the calls that wait, with no `finally`: when that raises or is cancelled
(`CloseCutOff`) the requester is "cut", its calls keep waiting, and `close` may be
called again.

### RoutingSlip

A copy has its run, its attempt, how many steps are done and the form of its slip.
Each stop is a queue, its dead letters and a consumer, which is what `Consumer` is
shown to be. `Travels` has the step's work, the publish to the next stop and the
acceptance. `pass` is a replay: messages pulled, moved one by one, or held back and
returned at its end. `excuses` counts what went wrong for a run, and pays for its
repeats. `PassFails` gives back everything a pass has unsettled. The code does so
when a publish fails; what a filter that raises or a cancellation leaves unacknowledged
comes back only when the connection goes, and the model does not show it meanwhile.

### Handlers

One process with several consumers whose tasks share one handler. A task takes a
message, waits for its key's lock (`line` is the lock's holder and who waits, in
order), runs a saga or blocks a thread, and settles. `limit` says on which side of
the ordering the deadline is. A body on a thread cannot be cancelled: it becomes a
zombie, which keeps its thread. The consumer around it is reduced to delivering and
to carrying out a verdict.

### Envelope

`to_headers` and `from_headers` as operators on an envelope and a table of headers.
Names are those of the fields; other names are foreign (`x-acemq-` ones without a
field) or the application's. Values are texts or numbers. `Numerals` says which texts
`int()` takes, `Instants` which moments a datetime can hold, `Shown` what `str()`
makes of a number: the theorems hold for any of them. The library makes its envelopes
without a type: `Typed` is what one is read as, with the routing key it was published
under for a type.

## Runs

| Run | Question |
|---|---|
| `consumer` | safety of the consumer: two workers, one message, three copies, two faults |
| `consumer_live` | it implements `AtLeastOnce`, and closes end: one worker, two messages (one unreadable), one fault |
| `connection` | closing two consumers from three tasks, concurrency 2 |
| `topology` | two services, six policies, queue types, durable or not, one interruption |
| `publishing` | a batch of two, another publish and a health check: one permit, one alarm, one lost connection or close |
| `idempotency` | two workers in two processes, two messages of one key, both stores |
| `outbox` | three records, one of which the broker refuses, a relay and another sweep |
| `stream` | one or two workers, three entries, any start and failure mode, one lost connection, one entry lost to retention |
| `scheduler` | two messages with any delay up to seven units, a foreign one, two rungs, one fault |
| `request_reply` | two calls and a request nobody can answer, two tries, one fault |
| `routing` | two runs over two stops in three setups, one replay, one fault; and `EnvelopesGoOn` |
| `handlers` | three messages, two tasks of one consumer or two, four shapes of handler |

All are expected to pass. Each property is broken by at least one mutant of the
code, listed in `PROJECT.json` under `mutants`: the operator that stands for a
plausible bug is defined just before the one it replaces. Each module with state has one type
invariant. It is a conjunct of a property the run checks, except for `Consumer`,
`Idempotency` and `Outbox`, whose runs leave it to the proofs (`Typing`,
`IdempotencyTyping`, `OutboxTyping`).

### Bounds

- `MaxFaults` bounds refusals, lost connections, crashes, timeouts, removed
  queues and answers that send a message round without progress (`in_progress`,
  `stop`). Two are enough for a fault during the recovery from another.
- `Copies` bounds the copies of all messages together; when all are in use a
  publish waits. One message with three has the original, a copy and a stale
  copy; the liveness run has four for two messages.
- `RungPolicy` has two attempts, the first wait on a rung, and an age limit: a
  message can be accepted, retried, exhausted and too old.
- One message suffices for the safety of the consumer, as no action relates two
  messages except through the prefetch limit and the workers; two workers hold
  two copies of it.
- `connection`: two consumers, so that one can hold up or escape the other's
  close; two handlers, so that finishing one is not finishing.
- `topology`: six policies chosen for doubling, cap with jitter, names shared by
  two delays, delays that shrink, overflow, and no waiting at all. In two of them the
  cap is at a boundary: at the threshold, and between two delays of the schedule.
- `publishing`: one permit and three tasks, so that one holds and two wait in
  line. `MaxAlarms`, `MaxDrops` bound the broker's alarms and lost connections.
- `idempotency`: a claim of two units, a call up to one unit late, a retention of
  three: a lease can run out under its handler, and a late call can find it
  expired too early or too late. One key, because keys do not touch each other
  except in the in-memory sweep. `MaxFaults` bounds calls that raise, deliveries
  taken back, and crashes. `IdempotencyAssumption` asks that the retention cover a
  claim and a late call; the constructor only asks that it be positive. With a
  shorter one, a slow holder confirms over a newer claim and the confirmation
  ends under that claim's handler: `Exclusive` would fail. The defaults, five
  minutes and a day, are far from it.
- `outbox`: three records and a batch of two, so that a batch leaves one behind and
  the refused record stands in the middle; two attempts, so that one failure is
  not yet the last; two starts, so that a relay is followed by another.
- `stream`: three entries and a prefetch of two, so that an entry is behind, one in
  hand and one to come when the connection goes.
- `scheduler`: rungs of two and four units and delays up to seven: a message goes
  through both rungs and has a remainder shorter than the smallest. `MaxSlack`
  lets time pass once while something is ready.
- `request_reply`: two calls, as a reply must not reach another's waiter; two tries, so
  that a failing reply has one more.
- `routing`: two stops are a hop and an end. The three setups are a pipeline with a
  next stop nothing is bound to and a message without a slip, and stops told to write
  the names of steps for slips that can and cannot be written so. `MaxCount` caps
  history; no run reaches it.
- `handlers`: two messages of one key and one of none, four steps of a saga two of
  which have compensations, one thread for two tasks. `MaxAttempts` two: a message
  fails once and goes round.
- `MCEnvelope`: every header missing, empty, a text, a number, out of bounds, in all
  combinations that matter to one another; under one assumption TLC evaluates.
- `consumer_live` has one fault, so no consumer there is closed while its channel waits
  to be reopened and no subscription is left behind: `Promise` is not claimed past
  that, since a stranded message is owed and never settled.
- Deadlock is not checked: every one of these systems really ends (a closed
  connection, all publishes over, all services started, all faults spent).

### Fairness

`Consumer`: the event loop runs every task that can run (weak fairness of each
worker's next step, of the steps of close) and a lost connection comes back. The broker answers what it is sent
and lets rungs expire (weak), and delivers a message that stays on the queue in
the end (strong, because the prefetch limit can disable a delivery again and
again; the broker's queue is first in first out). Somebody starts the consumer
again after a crash and applies the topology again after a queue was removed:
without either no message can be settled. Handlers end. No fault is fair.
`Connection`: the steps of close and of release; not the handlers, since the
drain timeout ends a drain. `Sending`: tasks and timers; nothing of the broker. `Idempotency`: each worker's steps, time, and deliveries (strong: a worker
may always be taken by another message). `Outbox`: the steps of a sweep that has
begun, the relay's next sweep while it runs, its end once asked, and the return
of the broker; `EveryRecordLeaves` is claimed only if a relay is left running.
`Stream`: deliveries, reconnection, handlers, and the close a halt has asked for.
`Scheduler`: time, the expiry of rungs, publishes, and in the end a binding to the
target; strong for taking a message, which a full prefetch disables again and again.
`RequestReply`: publishes end, ready tasks run, the responder works; nothing is
assumed of deadlines. `RoutingSlip`: stops take and finish what they are given,
pipelines finish starting and closing, passes go on; no replay has to begin.
`Handlers`: the loop's tasks, deadlines and closing; nothing of bodies, which may
hang.

### What the code does not keep

`PROJECT.json` lists under `findings` where the code and what its documents, comments
or docstrings say of it part. Each was met while a property was stated, and where a
property had to be stated around one, its comment says so. Seven are written down as
properties the code does not have (`Not so` in the comment): `CloseTellsTheTruth` in
`Connection`, `RaisesOnlyIfUsed` in `Topology`, `OnlyRefusedRetire` in `Outbox`,
`NextSkipsNothing` in `Stream`, `NeverBehind` in `RequestReply`,
`GoesBackWhereItCameFrom` in `RoutingSlip` and `DeadLettersWereTried` in `Handlers`.
Put into the configuration of the module's run, each has a counterexample.

The exceptions in the properties of the runs: `ClosedIsQuiet` leaves out consumers in
`late`, `TransportLast` the application's close, `AgreementIsEnough` queues that are
not durable, and the `idempotency` run has one worker in each process. `Exclusive` and
`ConfirmationStands` speak of the SQL store: the `forget` of the in-memory one removes
whatever is under the key, whose claim may be another worker's by then.
`NothingSkipped` counts from where a reader began, leaves out entries whose copy was
refused (`passed`), and bounds repeats only while no settlement failed;
`EveryReplyAccounted` leaves out replies whose publish failed though they were stored;
`RepeatsEarned` allows a run to be counted once more for each fault; `OneOfAKey`
speaks of order within one consumer; `SagaUndone` of sagas no deadline cancelled.
`ExactlyOnceUndisturbed` says of a consumer that is off that its own channel has nothing
out, and bounds the subscriptions left behind on channels that waited to be reopened;
`HealthTellsTheTruth` admits "down" of a blocked connection that was being closed when
it was asked; `CloseEndsCalls` leaves out a close that was cut off, until it is called
again; `RepeatsEarned` bounds no repeats of a run whose slip cannot be written on.

## Proofs

`ConsumerProofs` proves for every value of the constants that satisfies
`ConsumerAssumption` (any messages, workers, finite set of copies, policy,
prefetch, handler answers, bound on faults; declaring or not; with escaping
exceptions or without):

- `Typing`: `Spec => []TypeOK`. Its content is the attempt: no copy ever carries
  one past the policy's last.
- `NothingLost`: `Spec => []NoLoss`.
- `SettlesOnce`: `Spec => []SettledOnce`.
- `ContractKept`: `Spec => Contract!Safety`, the safety half of the refinement of
  `AtLeastOnce`.
- `AttemptsCounted`: `Spec => []AttemptsAreFailures`.
- `InOnePlace`: `Spec => []ExactlyOnceUndisturbed`.

The first three follow from one inductive invariant (`Invariant`),
`NoLossInv == TypeOK /\ Holding /\ SettledOnce /\ Matching /\ RungBound /\ Stranding /\ NoLoss`:

- `Holding`: a busy worker has a delivery, one about to publish a target, and only
  one that has sent awaits an answer. Without it a step could read `None`.
- `SettledOnce`: acknowledging one delivery must not remove the copy another
  worker still stands for.
- `Matching`: the delivery in hand and the broker's copy under its identity are
  of the same message, and a copy on the wire is of its sender's. Only so does
  confirming a copy account for the original that is then acknowledged.
- `RungBound`: a message on a rung has a binding to come home by; it is dropped
  otherwise. When the consumer declares (`Declare`), the binding comes after the
  rungs, and the invariant says nothing was sent to a rung in between.
- `Stranding`: what a subscription left behind was given is in nobody's hands, and a
  channel that waits to be reopened has nothing out. So no worker settles a stranded
  copy, and one that is stranded stays what remains of its message.
- `NoLoss`: every published message is handled, set aside, or `Remaining`: held
  by the broker in a copy nobody is about to acknowledge. `Doomed` is the key:
  the original is doomed from the moment its copy is confirmed, and from that
  very step on the copy is what remains.

The proof has one lemma for each group of actions (broker, worker, start and
close) and each group of conjuncts (types, hands, rungs, loss); `InvariantStep`
puts them together.

For `ContractKept`, `NoLoss` makes the refinement
mapping `Fate` a matter of what is published, handled and set aside (`FateIs`);
`OneFateMoves` shows that a step changes one of the three for one message; and
`OnlyPublished` (what is at the broker, in a worker's hands, handled or set aside was
published) is the invariant that makes a message start as "unsent".

`AttemptsCounted` needs `Counted`: every attempt header, at the broker, in the work
queue, in a worker's hands or in the copy it is about to publish, is at most one more
than the failures of its message, and what goes to the dead-letter queue was ruled out
or failed as often as allowed. It is inductive because a worker's verdict raises the
failures in the very step in which it chooses the next header.

`InOnePlace` needs `Once`, over messages that are not `disturbed`: `Single` (at most one
copy remains, none once the message is settled, and it is settled in one way) and
`Traced`. `Traced` is the strengthening: a copy on the wire has a worker that awaits it
and can still settle the original, so the moment the broker takes the copy the original
is doomed. Without it an original and its copy could both remain. `Released` is the other
half: a consumer that is off has nothing in hand and no subscription of its own, and one
that is closing while its channel waits has lost a connection for it, which is what a
subscription left behind is charged to.

`OutboxProofs` proves the safety of `Outbox` for any records, sweepers, batch,
limit of attempts and bounds: `CommittedIsSent` (`NothingLost`), `SentIsCommitted`
(`NothingInvented`), `SecondCopyExcused` (`TwiceOnlyIfDisturbed`), `InWrittenOrder`
(`WrittenOrder`) and `OutboxTyping`. The invariant is `OutboxInv`:

- `FromCommitted`: what is in the table or in a sweep's hands was committed.
- `Marking`, `Behind`: the record a sweep is about to mark, and those it has gone
  past, the broker has. The first gives `NothingLost` at `Mark`, the second the
  order.
- `OneSender`: a record nothing happened to is in the hands of one sweep at most,
  and once taken is out of the table or about to be removed by that very sweep. So
  no other sweep can read it, which is why closing a relay excuses nothing.
- `Counted`: a record's attempts and the sweeps that have it in hand are together
  below `MaxAttempts` plus the number of sweepers. This bounds how far simultaneous
  failures count past the limit.

`IdempotencyProofs` proves for any workers, messages, keys, windows that
`IdempotencyAssumption` admits, and bounds: `DuplicateWasHandled` (`NothingLost`),
`ConfirmationKept` (`ConfirmationStands`), `IdempotencyTyping`, and, assuming that
no two workers share a process, `OneHandler` (`Exclusive`). That assumption is
needed: with two workers in one process `Exclusive` fails, as `forget` knows only the
process.

- `Linking`: the broker waits for one answer for each message that is out, and
  none is delivered again after its last attempt. It bounds the attempts.
- `Accepting`: whatever says that a message was handled (a confirmed row, a worker
  about to confirm or to accept) is said of a key that was.
- `Covered`: a claim that has not run out is in the table for at least as long as
  it lasts, under its holder's name or confirmed by somebody else. A late clock
  makes a claim shorter for its holder and for the table alike, and a confirmation
  over it lasts long enough, because the retention covers a claim and a late call.
- `Alone`: no two claims of a key last at the same time, as nobody is granted one
  while `Covered` speaks of another.

`WorkOnce` (`TwiceOnlyIfLapsed`) holds for both stores and wherever the workers run. Its
invariant is `Unlapsed`: a key nothing happened to has one holder, whose claim lasts and
is the row of the table; once it was handled its holder is about to confirm it, or it is
confirmed and that lasts (`Secure`).

`ConsumerProofs` goes on with what the recursive functions of `RetryPolicy` compute, for
every policy, attempt, age and draw: `WaitsAreScheduled` (`_unjittered`, which stops
growing at the cap, gives a delay `schedule()` lists, which grows without it),
`BrokerWaitsHaveRungs` (whatever `next_wait` sends to the broker, `broker_rungs()`
lists) and `WaitsAreBounded`. Of `Topology`, for any services, settings and policies:
`RungsKeep` (`RungsKeepTime`), `Agreed` (`AgreementIsEnough`) and `TopologyTyping`.

- An induction is stated over a set of numbers (`SetInduction`, from `LeastNumber`), and
  `Recursion` unfolds a function defined on an interval. `UnjitteredIs` puts the two
  growths side by side: they agree up to the first delay above the cap, and from there
  on one is at the cap and stays, as its last delay is what the other shows when
  capped.
- A plan is looked at as the set of its declarations (`PlanSteps`). `Agreement` is the
  heart of `Agreed`: two plans that name one queue say the same of it. A consumer's
  rungs come in the policy's order and a topology's in the order of its schedule, but
  both name one rung for each name and for the same delay.
- `TopologyInv` says that a service at work follows the plan of its setting (`Planned`), that
  every queue is one some service would declare (`DeclaredFrom`), that what a service has
  passed is there (`SoFar`), and that what refused it still does (`Refused`).

`RoutingProofs` proves of `RoutingSlip`, for any runs, setups, number of stops, attempts,
replays and faults that `RoutingSlipAssumption` admits: `RunsAreKept` (`RunKept`) and
`RepeatsAreEarned` (`RepeatsEarned`). The assumption says two things of a setup: a pipeline
writes slips in the form they came in, and its steps can always be written by name, since
`_STEP_NAME` admits no comma; and a message put straight onto a step's queue is the only
one that may begin past the first stop. Both theorems relate what was done for a run to
how many copies of it there are, and that is no inductive fact about the numbers alone. The
invariant has two layers:

- `Sound` says where copies may be. At stop i lies a copy whose slip has i - 1 steps
  done, in a form that can be written on, of a run that was asked for and began there or
  had its work done at the stop before (`Copies`). A consumer that is about to hop has a
  readable slip, a stop after it and its work done (`AtWork`). What a replay holds is
  within its limit and from the dead letters it reads (`Passing`). One lemma per action.
- `Balanced` weighs for each run and each stop k how often the work of k was done
  (`Times`, for k past the last stop how often the run was counted) and how many copies
  still have it ahead (`Ahead`: in queues, dead letters, hands and the replay, up to k). While
  the history can count, `Times + Ahead <= 1 + excuses` (`Earned`), and a run that was
  started has one ahead of its end or was counted. A copy on its way from stop to stop
  takes nothing from the sum (`SquareHops`), work done moves one from `Ahead` to `Times`
  (`SquareStepDone`), and what leaves two copies of one has its excuse: a hop
  that fails after it arrived, a crash after the work, a replay that published and could
  not acknowledge (`SquareHopFails`, `SquareCrashes`, `SquarePassFails`).

`AheadChange` reduces all of this to the stop, or the two, that an action touches.
`OwedIs` then says that what `RunKept` counts is what is ahead of the run's end. The
history saturates at `MaxCount`: the theorems are about runs disturbed less often, for
any `MaxCount`.

Its last section proves of `Envelope`, for any names, texts, numbers and instants that
`EnvelopeAssumption` admits: `EnvelopeComesBack` (what is read of the headers of an
envelope, one without a type included, is that envelope with the type its publisher's
routing key gave it), `HopsComeBack` (the same of what a retry, a set-aside and
a restarting replay publish), `MessageGoesOn` (a service that reads a message of any
library and publishes it says the same of it, but for what is left of a missing
route), `StrangersCarriedOn` (headers without a field are kept). The argument is by
field: what `to_headers` writes under a name is that field and nothing else
(`WrittenTable`), so `from_headers` finds it, and a field that is not written is one
whose default it has (`TextComesBack`, `NumberComesBack`). Of an arbitrary table what
is read is proper (`ReadIsProper`), and the first case applies. `EnvelopesGoOn` is the
same over bounded tables for TLC.

`ConnectionProofs` proves of `Sending`, for any publishes, batch, permits and bounds, all
that its run checks but liveness: `PermitsAreConserved`, `CallersToldTheTruth`,
`BatchesAreTold` and `HealthIsTruthful`. The invariant is `SendingInv`:

- `Lined`: the tasks in line wait, each is there once, and the line is empty while a
  permit is free. A permit handed on so reaches a task that holds none and has not
  ended, and is counted once (`PermitPassedOn`).
- `Counted`: free permits and holders add up, and `inFlight` counts the publishes
  inside the transport.
- `Answered`: nothing unwritten is on the wire or at the broker, nothing is on the wire
  and taken, and an answer not yet read is true. It stays true until it is read,
  because the broker has no second say about a message.
- `ProbeInv`: between a round trip that failed and the end of its check the blocked
  state is unknown, so "down" hides no alarm that could be known. A close that begins
  under the probe changes nothing of that; what is asked after it is answered at once.

That a batch once told stays true (`BatchStays`) needs `Lined` again: the permit a
stranger hands on must not wake a task that has ended.

`RequestReplyProofs` proves of `RequestReply`, for any calls, requests of others, attempts
and faults: `RepliesAccounted` (`EveryReplyAccounted`) and `NobodyForgotten`
(`ToldOrOwed`). The invariant is `AskingInv`:

- `Table`: a call on the table is under way and its future is not set, so a reply is
  never given to one that has ended, nor twice.
- `CountedFirst`: the answers callers have or can still be given, and one about to go
  out, are together at most `answered`. The responder may take its count back after a
  publish that failed only because such an answer is counted as `unheard`.
- `OneCopy`: a request is on its queue once or in hand, with an attempt left. Without
  it a retry could take the attempts past the policy.
- `Owed`: a request that was heard of, answered or tried is `Somewhere`, and the
  responder accepts one only when its reply was taken.

`ConnectionProofs` proves of `Connection`, too, for any consumers and any concurrency, with or
without the late start: `ClosedConsumersAreQuiet` (`ClosedIsQuiet`) and
`TransportGoesLast` (`TransportLast`). The invariant is `ClosingInv`:

- `OneCloser`: of the calls of close on a consumer at most one drains it, and the
  consumer is marked closed meanwhile. The others wait for it or return.
- `Starting`: a handler runs only where a worker is, and a worker belongs to a consumer
  the connection knows, but for one that started late.
- `Quiet`: a closed consumer that no call is closing has nothing left.
- `Called`: a connection that is closing has called close on every consumer it knows. It
  is what the release of the transport rests on.
- `Over`: the connection's call on a consumer does not end while the halting task drains
  it, because it waits for that task. It does not wait for the application's call, which
  is the exception `TransportLast` names.

`HandlersProofs` proves of `Handlers`, for any messages, keys, consumers, tasks, shapes,
prefetch, threads, sagas and attempts: `KeysTakeTurns` (`OneOfAKey`) and
`SagasAreUndone` (`SagaUndone`). The invariant is `HandlersInv`. Its first half is about
the locks:

- `Counted`: the holders of a key are the tasks that have its lock, and the lock is in
  the table while there are any. `release` drops a lock nobody holds, and none that
  somebody does.
- `Named`, `Lined`: the lock of a task is the one of its key, and a lock's line has those
  who have it, each once. A cancelled waiter leaves the line from its middle
  (`LeavesLine`).
- `Owned`: a task has a lock if and only if it waits or runs a body, and a body is run at
  the head of the line. With `Named`, two bodies of one key would be two heads of one
  line.

The second half is about the order, and counts nobody out who was not touched (begun, or
cut off by a deadline or a stop): what was never delivered is in the queue in published
order (`Waits`, `InOrder`, `Delivered`); a delivered message nothing happened to is in its
consumer's buffer ahead of all that came after it (`Buffered`), or a task has it and is
`Ahead` in the line of every task with a later message of the key (`Ordered`). So no later
one can begin before it. `Sagas` ties the step a saga is at to the steps that stand and
the compensations that failed; `SagaUndone` is the case of a saga that ended. One that a
deadline cancelled undoes nothing, and neither the property nor the theorem speaks of it.

`SchedulerProofs` proves of `Scheduler`, for any messages, finite sets of schedulers and of
foreign messages, rungs, prefetch and bounds: `SchedKeptUntilSent` (`KeptUntilSent`) and
`SchedOnTime` (`OnTime`). The invariant is `SchedInv`:

- `Weighed`: a message weighs what the broker owes of it (in rungs, on the control queue,
  in the hands of schedulers), how often it arrived, and what a put-back or the
  application may still add. A fault adds two at most and no other step adds anything, so a
  message nothing happened to weighs one. `Kept` says that a promised message that has not
  arrived is owed.
- `Sorted`: in a rung the entries are in the order of what is left of their stay, as all
  stay equally long. Only so is an entry whose stay is over never behind one whose is
  not, which is what a queue's time to live needs.
- `Ladder`: a message nothing went wrong for leaves its rung before it is due, or late by
  no more than `slack`, and is late by no more wherever else it is. `slack` is the time
  that passed while something was ready to move and nobody had moved it.

The counts are of places in sequences (`CountConcat`, `TakenOut`) and of entries of all
rungs (`StoredChange`). `OwnStep` and `ActorStep` then reduce the step of a scheduler to
the one message it has, with one lemma for each action.

`StreamSkipsNothing`, in `OutboxProofs` too, proves `NothingSkipped` of `Stream` for any
log, set of workers, prefetch, number of lost connections and of discards. What matters of
a step is what becomes of a delivery, so `StreamSteps` first shows every step to be of one
of eight kinds (`Kinds`): an entry is sent, taken up, settled or lost by its worker, the
queue goes back, retention cuts, the subscription begins again, or all deliveries rest.
`Flying` is what the reader has, in its queue or in a hand. The invariant is `StreamInv`:

- `CountsSent`: `pending` counts what is flying, exactly while the reader is open and
  nothing escaped. So no count goes below zero, and what waits is with somebody.
- `Placed`: the position is the oldest entry that waits, or the one after the newest
  settled, or where the reader began.
- `NoGap`: an entry below one that waits, or not above the newest settled, waits or has
  its outcome. With `Placed` it is the first part of `NothingSkipped`. A delivery keeps it
  because of `PastIsGone`: what the subscription is past, with nothing from there on sent,
  retention took.
- `InSendingOrder`, `InTurn`: deliveries are in order of channel and offset, the hands
  before the queue, and one worker is given every entry below the one it has, but for
  those that are gone. So where it stops (`StoppedInTurn`), all before has its outcome.
- `WithinPrefetch`: no more than the prefetch would be given again. That is not inductive
  as it stands: a reconnection turns what is known from the position on
  (`FromPosition`) into what is sent again (`SentAgain`), a worker that takes up a delivery
  turns what would be again at it (`AgainAt`) into what was given, and a delivery adds
  to each only what the channel has out, as the entries between the position and the
  next are all out on the live channel.

Only model-checked is what the prover cannot do: the liveness properties and the fairness
of `Promise`.

## Not modelled

Order within a consumer's queue, but for `Scheduler`, `RoutingSlip` and `Handlers`,
which have queues; message bodies and codecs; interceptors, telemetry, tracing and
logging, which no decision reads; claim check and schema, which change a payload on
its way and keep nothing; exchanges an application declares itself, and
`Topology.plan`, which describes; TLS and certificates; of `sync.py` the calls that are
only forwarded to the loop; of `rabbitmq.py` connecting and the lock around its
channels. A claim made on the caller's own database connection and an operator who
resets an outbox record are left out of `Idempotency` and `Outbox`. Python exceptions
raised by the library's own bugs appear only as `HopEscapes`. The broker is modelled as
RabbitMQ behaves towards this code (confirm, return, nack, requeue on a closed
channel), and is marked external in the map.

## Plan

What would add most from here:

1. An abstract outbox and an abstract claim that `Outbox` and `Idempotency` implement,
   and `RoutingSlip` on top of `AtLeastOnce` instead of its own reduced consumer.
2. The transport's channels and the lock around them.
