----------------------------- MODULE Connection -----------------------------
(***************************************************************************)
(* Closing a connection and its consumers (connection.py, Connection.close,*)
(* Connection.consume and Consumer.close) when several tasks do so at      *)
(* once: the application, the task a handler's stop created (_halt), and   *)
(* the tasks Connection.close gathers.  What a consumer does with its      *)
(* deliveries is in Consumer; here it runs some number of handlers.        *)
(***************************************************************************)
EXTENDS Naturals

CONSTANTS
  Consumers,    \* the consumers of the connection
  Concurrency,  \* how many handlers each runs at once
  AppMayClose,  \* whether the application closes a consumer on its own
  LateStart     \* whether the connection may be closed while consume() runs

ASSUME ConnectionAssumption ==
  Concurrency \in Nat \ {0} /\ AppMayClose \in BOOLEAN /\ LateStart \in BOOLEAN

VARIABLES
  stage,        \* how far consume() has got with each consumer
  workers,      \* whether the consumer's worker tasks are alive
  tracked,      \* the connection's _consumers
  shut,         \* the consumers whose _closed is set
  running,      \* how many handlers each consumer is running
  call,         \* where each task is in Consumer.close
  result,       \* what that call came to
  conn,         \* where Connection.close is
  cancelled,    \* whether its caller cancelled it
  transport,    \* whether the transport is open
  interrupted,  \* consumers with a handler running when the transport closed
  late          \* consumers that went on starting after they were closed

startVars == <<stage, workers, tracked>>
closeVars == <<shut, call, result>>
connVars  == <<conn, cancelled, transport, interrupted>>
connectionVars == <<startVars, running, closeVars, connVars, late>>

\* The tasks that call Consumer.close.
Callers == {"app", "halt", "conn"}

Stages == {"absent", "declaring", "subscribing", "live", "stopped", "gone"}
CallStates == {"no", "called", "stopping", "draining", "waiting", "awaiting", "done"}

\* The call is the one that closes, and has not cleaned up yet.
Closing == {"stopping", "draining", "waiting"}
Results == {"none", "finished", "cut", "raised"}

\* The type invariant of every variable.
ConnTypeOK ==
  /\ stage \in [Consumers -> Stages]
  /\ workers \subseteq Consumers
  /\ tracked \subseteq Consumers
  /\ shut \subseteq Consumers
  /\ running \in [Consumers -> 0..Concurrency]
  /\ call \in [Consumers -> [Callers -> CallStates]]
  /\ result \in [Consumers -> [Callers -> Results]]
  /\ conn \in {"open", "gathering"} \cup Results
  /\ cancelled \in BOOLEAN
  /\ transport \in BOOLEAN
  /\ interrupted \subseteq Consumers
  /\ late \subseteq Consumers

ConnInit ==
  /\ stage = [c \in Consumers |-> "absent"]
  /\ workers = {}
  /\ tracked = {}
  /\ shut = {}
  /\ running = [c \in Consumers |-> 0]
  /\ call = [c \in Consumers |-> [w \in Callers |-> "no"]]
  /\ result = [c \in Consumers |-> [w \in Callers |-> "none"]]
  /\ conn = "open"
  /\ cancelled = FALSE
  /\ transport = TRUE
  /\ interrupted = {}
  /\ late = {}

-----------------------------------------------------------------------------
(* consume() and handlers *)

\* The consumer is tracked before it has started.
Consume(c) ==
  /\ conn = "open"
  /\ stage[c] = "absent"
  /\ stage' = [stage EXCEPT ![c] = "declaring"]
  /\ tracked' = tracked \cup {c}
  /\ UNCHANGED <<workers, running, closeVars, connVars, late>>

\* _start does not look at _closed again after an await.
StartGoesOn(c, from, to) ==
  /\ transport
  /\ stage[c] = from
  /\ stage' = [stage EXCEPT ![c] = to]
  /\ late' = IF c \in shut THEN late \cup {c} ELSE late
  /\ UNCHANGED <<tracked, running, closeVars, connVars>>

CreateWorkers(c) ==
  /\ StartGoesOn(c, "declaring", "subscribing")
  /\ workers' = workers \cup {c}

Subscribe(c) ==
  /\ StartGoesOn(c, "subscribing", "live")
  /\ UNCHANGED workers

\* The broker refuses, or the transport is closed.
StartFails(c) ==
  /\ stage[c] \in {"declaring", "subscribing"}
  /\ stage' = [stage EXCEPT ![c] = "gone"]
  /\ workers' = workers \ {c}
  /\ tracked' = tracked \ {c}
  /\ UNCHANGED <<running, closeVars, connVars, late>>

HandleUnqueued(c) ==
  /\ transport
  /\ stage[c] \in {"live", "stopped"}
  /\ c \in workers
  /\ call[c]["halt"] = "no"
  /\ \A w \in Callers : call[c][w] # "waiting"
  /\ running' = [running EXCEPT ![c] = @ + 1]
  /\ UNCHANGED <<startVars, closeVars, connVars, late>>

\* A worker takes a delivery: also one close has not given back yet, until the
\* sentinels are in the queue.  After _halt the consumer handles nothing more.
Handle(c) ==
  /\ transport
  /\ stage[c] \in {"live", "stopped"}
  /\ c \in workers
  /\ running[c] < Concurrency
  /\ call[c]["halt"] = "no"
  /\ \A w \in Callers : call[c][w] # "waiting"
  /\ running' = [running EXCEPT ![c] = @ + 1]
  /\ UNCHANGED <<startVars, closeVars, connVars, late>>

Finish(c) ==
  /\ running[c] > 0
  /\ running' = [running EXCEPT ![c] = @ - 1]
  /\ UNCHANGED <<startVars, closeVars, connVars, late>>

\* The handler stops its own consumer: _halt creates the task that closes it.
Halt(c) ==
  /\ running[c] > 0
  /\ call[c]["halt"] = "no"
  /\ running' = [running EXCEPT ![c] = @ - 1]
  /\ call' = [call EXCEPT ![c]["halt"] = "called"]
  /\ UNCHANGED <<startVars, shut, result, connVars, late>>

-----------------------------------------------------------------------------
(* Consumer.close *)

Becomes(c, w, to) == call' = [call EXCEPT ![c][w] = to]

Returns(c, w, what) ==
  /\ Becomes(c, w, "done")
  /\ result' = [result EXCEPT ![c][w] = what]

AppCloses(c) ==
  /\ AppMayClose
  /\ stage[c] = "live"
  /\ call[c]["app"] = "no"
  /\ Becomes(c, "app", "called")
  /\ UNCHANGED <<startVars, running, shut, result, connVars, late>>

\* The first call closes; a later one waits for the halting task, if there is one
\* and it is not that task itself, and otherwise returns True at once.
EnterAwaitsItself(c, w) ==
  /\ call[c][w] = "called"
  /\ shut' = shut \cup {c}
  /\ IF c \notin shut
     THEN Becomes(c, w, IF stage[c] = "live" THEN "stopping" ELSE "draining") /\ UNCHANGED result
     ELSE IF call[c]["halt"] # "no"
     THEN Becomes(c, w, "awaiting") /\ UNCHANGED result
     ELSE Returns(c, w, "finished")
  /\ UNCHANGED <<startVars, running, connVars, late>>

EnterTwice(c, w) ==
  /\ call[c][w] = "called"
  /\ shut' = shut \cup {c}
  /\ Becomes(c, w, IF stage[c] = "live" THEN "stopping" ELSE "draining")
  /\ UNCHANGED <<startVars, running, result, connVars, late>>

EnterNeverAwaits(c, w) ==
  /\ call[c][w] = "called"
  /\ shut' = shut \cup {c}
  /\ IF c \notin shut
     THEN Becomes(c, w, IF stage[c] = "live" THEN "stopping" ELSE "draining") /\ UNCHANGED result
     ELSE Returns(c, w, "finished")
  /\ UNCHANGED <<startVars, running, connVars, late>>

Enter(c, w) ==
  /\ call[c][w] = "called"
  /\ shut' = shut \cup {c}
  /\ IF c \notin shut
     THEN Becomes(c, w, IF stage[c] = "live" THEN "stopping" ELSE "draining") /\ UNCHANGED result
     ELSE IF call[c]["halt"] # "no" /\ w # "halt"
     THEN Becomes(c, w, "awaiting") /\ UNCHANGED result
     ELSE Returns(c, w, "finished")
  /\ UNCHANGED <<startVars, running, connVars, late>>

StopAcknowledged(c, w) ==
  /\ call[c][w] = "stopping"
  /\ Becomes(c, w, "draining")
  /\ stage' = [stage EXCEPT ![c] = "stopped"]
  /\ UNCHANGED <<workers, tracked, running, shut, result, connVars, late>>

\* What nobody had started has been given back; the workers get their sentinels.
PutSentinels(c, w) ==
  /\ call[c][w] = "draining"
  /\ Becomes(c, w, "waiting")
  /\ UNCHANGED <<startVars, running, shut, result, connVars, late>>

\* The finally clause: no worker is left, the channel of a subscription is closed
\* and the connection forgets the consumer.
CleansUp(cs) ==
  /\ workers' = workers \ cs
  /\ running' = [c \in Consumers |-> IF c \in cs THEN 0 ELSE running[c]]
  /\ stage' = [c \in Consumers |->
                IF c \in cs /\ stage[c] \in {"live", "stopped"} THEN "gone" ELSE stage[c]]
  /\ tracked' = tracked \ cs

\* Stopping, giving a delivery back, a dead worker or the channel fails the close.
CloseFails(c, w) ==
  /\ call[c][w] \in Closing
  /\ stage[c] \in {"live", "stopped"}
  /\ CleansUp({c})
  /\ Returns(c, w, "raised")
  /\ UNCHANGED <<shut, connVars, late>>

DrainedEarly(c, w) ==
  /\ call[c][w] = "waiting"
  /\ tracked' = tracked \ {c}
  /\ Returns(c, w, "finished")
  /\ UNCHANGED <<stage, workers, running, shut, connVars, late>>

Drained(c, w) ==
  /\ call[c][w] = "waiting"
  /\ running[c] = 0
  /\ CleansUp({c})
  /\ Returns(c, w, "finished")
  /\ UNCHANGED <<shut, connVars, late>>

\* The drain timeout passes: the handler is cancelled.
DrainTimesOut(c, w) ==
  /\ call[c][w] = "waiting"
  /\ running[c] > 0
  /\ CleansUp({c})
  /\ Returns(c, w, "cut")
  /\ UNCHANGED <<shut, connVars, late>>

HaltReturned(c, w) ==
  /\ call[c][w] = "awaiting"
  /\ call[c]["halt"] = "done"
  /\ Returns(c, w, result[c]["halt"])
  /\ UNCHANGED <<startVars, running, shut, connVars, late>>

-----------------------------------------------------------------------------
(* Connection.close *)

ConnCloses ==
  /\ conn = "open"
  /\ LateStart \/ \A c \in Consumers : stage[c] \notin {"declaring", "subscribing"}
  /\ conn' = "gathering"
  /\ call' = [c \in Consumers |->
               IF c \in tracked THEN [call[c] EXCEPT !["conn"] = "called"] ELSE call[c]]
  /\ UNCHANGED <<startVars, running, shut, result, cancelled, transport, interrupted, late>>

Unfinished(c, w) == call[c][w] \notin {"no", "done"}

\* Cancelling close cancels the tasks it gathered, and through one that awaits a
\* halting task that task too; one that had not begun never begins.
Struck(c, w) ==
  /\ Unfinished(c, w)
  /\ w = "conn" \/ (w = "halt" /\ call[c]["conn"] = "awaiting")

ConnCancelled ==
  /\ conn = "gathering"
  /\ ~cancelled
  /\ \E c \in Consumers : Unfinished(c, "conn")
  /\ cancelled' = TRUE
  /\ CleansUp({c \in Consumers :
                \E w \in Callers : Struck(c, w) /\ call[c][w] \in Closing})
  /\ call' = [c \in Consumers |-> [w \in Callers |-> IF Struck(c, w) THEN "done" ELSE call[c][w]]]
  /\ result' = [c \in Consumers |->
                 [w \in Callers |-> IF Struck(c, w) THEN "raised" ELSE result[c][w]]]
  /\ UNCHANGED <<shut, conn, transport, interrupted, late>>

\* What Connection.close comes to, once every consumer's close has.
Verdict ==
  LET got == {result[c]["conn"] : c \in Consumers}
  IN IF cancelled \/ "raised" \in got THEN "raised" ELSE IF "cut" \in got THEN "cut" ELSE "finished"

ConnReleases ==
  /\ conn = "gathering"
  /\ \A c \in Consumers : ~Unfinished(c, "conn")
  /\ transport' = FALSE
  /\ conn' = Verdict
  /\ interrupted' = {c \in Consumers : running[c] > 0}
  /\ UNCHANGED <<startVars, running, closeVars, cancelled, late>>

-----------------------------------------------------------------------------
ConsumerClose(c, w) ==
  \/ Enter(c, w)
  \/ StopAcknowledged(c, w)
  \/ PutSentinels(c, w)
  \/ Drained(c, w)
  \/ DrainTimesOut(c, w)
  \/ HaltReturned(c, w)

ConnNext ==
  \/ \E c \in Consumers :
       \/ Consume(c) \/ CreateWorkers(c) \/ Subscribe(c) \/ StartFails(c)
       \/ Handle(c) \/ Finish(c) \/ Halt(c) \/ AppCloses(c)
       \/ \E w \in Callers : ConsumerClose(c, w) \/ CloseFails(c, w)
  \/ ConnCloses
  \/ ConnCancelled
  \/ ConnReleases

ConnSpec == ConnInit /\ [][ConnNext]_connectionVars

\* The event loop runs every task that can run; a drain ends by its timeout if
\* by nothing else, so no fairness is asked of handlers.
Fairness ==
  /\ \A c \in Consumers, w \in Callers : WF_connectionVars(ConsumerClose(c, w))
  /\ WF_connectionVars(ConnReleases)

ConnFairSpec == ConnSpec /\ Fairness

-----------------------------------------------------------------------------
\* However many tasks close a consumer, one of them at a time drains it, the others
\* returning or waiting for the halting task; and when that is over, the consumer
\* runs no handler, has no worker and is forgotten by the connection, unless
\* consume() was still starting it.
ClosedIsQuiet ==
  /\ ConnTypeOK
  /\ \A c \in Consumers : \A v, w \in Callers :
       call[c][v] \in Closing /\ call[c][w] \in Closing => v = w
  /\ \A c \in shut \ late :
       (\A w \in Callers : call[c][w] \notin Closing) =>
         running[c] = 0 /\ c \notin workers /\ c \notin tracked /\ stage[c] # "live"

\* Connection.close releases the transport after the handlers, so that they can
\* settle: under a running handler only if the application was closing that
\* consumer, the consumer was still starting, or close itself was cancelled.
TransportLast ==
  [][transport /\ ~transport' =>
       \A c \in Consumers : running[c] > 0 =>
         call[c]["app"] \in Closing \/ c \in late \/ cancelled]_connectionVars

\* Every call of close ends, the one a handler's own consumer makes included, and
\* a connection that is being closed is released in the end.
CloseReturns ==
  /\ (\E c \in Consumers, w \in Callers : Unfinished(c, w)) ~>
       (\A c \in Consumers, w \in Callers : ~Unfinished(c, w))
  /\ conn = "gathering" ~> ~transport

\* Not so: close returns True only if every handler finished.
CloseTellsTheTruth == conn = "finished" => interrupted = {}
=============================================================================
