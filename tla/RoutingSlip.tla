---------------------------- MODULE RoutingSlip ----------------------------
(***************************************************************************)
(* Work that travels from stop to stop on the slip it carries              *)
(* (routingslip.py: start, follow_slip, pipelines), and the replay of what *)
(* a stop gave up on (replay.py).  A stop is a queue, its dead letters and *)
(* a consumer.  It does its work, publishes the message to the next stop   *)
(* and only then accepts the one it was given; a replay publishes a dead   *)
(* letter and only then acknowledges it.                                   *)
(*                                                                         *)
(* The consumer is what Consumer.tla promises: a retry is a copy one       *)
(* attempt further on, a message out of attempts or rejected is a dead     *)
(* letter, and both replace the delivery in one step.                      *)
(*                                                                         *)
(* The stops are the steps of a pipeline, which is built and closed, or    *)
(* consumers around follow_slip() that run throughout.                     *)
(***************************************************************************)
EXTENDS Integers, Sequences, FiniteSets, FiniteSetsExt, SequencesExt

CONSTANTS
  Runs,        \* messages that travel
  LastStop,    \* how many stops a slip has
  Setups,      \* what a behaviour may be about
  MaxAttempts, \* of every stop's retry policy
  Limit,       \* the most a replay moves
  MaxPasses,   \* bound on replays
  MaxFaults,   \* bound on crashes and on publishes lost, refused or unheard
  MaxCount,    \* how far the history counts
  None

Stops == 1..LastStop

\* The two forms of a slip: JSON with an exchange for each step, or the names of the
\* steps, which all share one exchange.
Forms == {"json", "names"}

\* The form a message is sent with, "none" for one put straight onto a step's queue;
\* that step; whether its steps can be written by name; and whether nothing is
\* bound to the last one.
Route == [form : Forms \cup {"none"}, at : Stops, nameable : BOOLEAN, lost : BOOLEAN]

\* Whether the stops are a pipeline, and the form they are told to write, "kept"
\* for the one that arrived.
Setup == [pipeline : BOOLEAN, form : Forms \cup {"kept"}, route : [Runs -> Route]]

\* A pipeline writes the form that arrived, and refuses a step's name that has a comma in
\* it; a run that its start() publishes begins at the first stop.
ASSUME RoutingSlipAssumption ==
  /\ Setups \subseteq Setup
  /\ LastStop \in Nat \ {0} /\ MaxAttempts \in Nat \ {0} /\ Limit \in Nat \ {0}
  /\ MaxPasses \in Nat /\ MaxFaults \in Nat /\ MaxCount \in Nat \ {0}
  /\ None \notin Stops \cup Runs
  /\ \A s \in Setups :
       /\ s.pipeline => s.form = "kept" /\ \A r \in Runs :
            s.route[r].form = "none" => s.route[r].nameable
       /\ \A r \in Runs : s.route[r].form # "none" => s.route[r].at = 1

\* A message with its slip: how many steps are done, and the form.
Copy   == [run : Runs, attempt : 1..MaxAttempts, done : 0..LastStop, form : Forms \cup {"none"}]
NoCopy == [run |-> None, attempt |-> 1, done |-> 0, form |-> "none"]

VARIABLES
  setup,    \* which of the setups this is
  life,     \* the pipeline: "starting", "open", "closing", "closed"
  up,       \* the stops whose consumers run
  queue,    \* each stop's queue
  dead,     \* each stop's dead letters
  hand,     \* the delivery each stop's consumer has
  pc,       \* where the consumer is with it
  pass,     \* the replay under way: the stop whose dead letters it reads, its arguments, what it holds
  passes,   \* how many replays there were
  asked,    \* runs start() was called for
  started,  \* runs whose start() returned
  done,     \* how often each run's work was done at each stop
  counted,  \* how often each run was counted as over
  excuses,  \* what went wrong for each run
  faults

broker  == <<queue, dead>>
pipe    == <<setup, life, up>>
stops   == <<hand, pc>>
replays == <<pass, passes>>
history == <<asked, started, done, counted>>
vars    == <<pipe, broker, stops, replays, history, excuses, faults>>

NoPass == [at |-> None, to |-> "queue", moved |-> 0, held |-> NoCopy, acking |-> FALSE,
           declined |-> <<>>]

\* The type invariant of every variable.
TypeOK ==
  /\ setup \in Setups /\ up \subseteq Stops
  /\ life \in {"starting", "open", "closing", "closed"}
  /\ queue \in [Stops -> Seq(Copy)] /\ dead \in [Stops -> Seq(Copy)]
  /\ hand \in [Stops -> Copy \cup {NoCopy}]
  /\ pc \in [Stops -> {"idle", "working", "hopping", "settling"}]
  /\ pass \in [at : Stops \cup {None}, to : {"queue", "own"}, moved : 0..Limit,
               held : Copy \cup {NoCopy}, acking : BOOLEAN, declined : Seq(Copy)]
  /\ passes \in 0..MaxPasses
  /\ started \subseteq asked /\ asked \subseteq Runs
  /\ done \in [Runs -> [Stops -> 0..MaxCount]] /\ counted \in [Runs -> 0..MaxCount]
  /\ excuses \in [Runs -> 0..MaxCount] /\ faults \in 0..MaxFaults

Init ==
  /\ setup \in Setups
  /\ life = IF setup.pipeline THEN "starting" ELSE "open"
  /\ up = IF setup.pipeline THEN {} ELSE Stops
  /\ queue = [i \in Stops |-> <<>>] /\ dead = [i \in Stops |-> <<>>]
  /\ hand = [i \in Stops |-> NoCopy] /\ pc = [i \in Stops |-> "idle"]
  /\ pass = NoPass /\ passes = 0
  /\ asked = {} /\ started = {}
  /\ done = [r \in Runs |-> [i \in Stops |-> 0]]
  /\ counted = [r \in Runs |-> 0]
  /\ excuses = [r \in Runs |-> 0] /\ faults = 0

-----------------------------------------------------------------------------
(* What can go wrong, and what a consumer does with a verdict *)

More(n) == Min({n + 1, MaxCount})

Excuse(r) == excuses' = [excuses EXCEPT ![r] = More(@)]

Fault(r) == faults < MaxFaults /\ faults' = faults + 1 /\ Excuse(r)

Undisturbed == UNCHANGED <<excuses, faults>>

Enters(i, c) == queue' = [queue EXCEPT ![i] = Append(@, c)]

First(r) == [run |-> r, attempt |-> 1, done |-> 0, form |-> setup.route[r].form]

Fresh(c) == [c EXCEPT !.attempt = 1]

Further(c) == [c EXCEPT !.attempt = @ + 1]

Idle(i) == hand' = [hand EXCEPT ![i] = NoCopy] /\ pc' = [pc EXCEPT ![i] = "idle"]

At(i, where) == pc' = [pc EXCEPT ![i] = where] /\ UNCHANGED hand

\* reject(): a dead letter.
Rejected(i) ==
  /\ dead' = [dead EXCEPT ![i] = Append(@, hand[i])]
  /\ Idle(i)
  /\ UNCHANGED queue

\* retry(): a further attempt, or a dead letter when there is none left.
Retried(i) ==
  IF hand[i].attempt < MaxAttempts
  THEN Enters(i, Further(hand[i])) /\ Idle(i) /\ UNCHANGED dead
  ELSE Rejected(i)

Counts(r) == counted' = [counted EXCEPT ![r] = More(@)]

-----------------------------------------------------------------------------
(* The slip *)

\* step_names(): one exchange, and one word for each step.
Writable(r, form) == form = "names" => setup.route[r].nameable

\* A pipeline takes a message without a slip to be at the step it came to.
Unslipped(i) == [done |-> i - 1, form |-> "names"]

\* What a message says about its way; outside a pipeline one without a slip says
\* nothing.
Readable(c) == c.form # "none" \/ setup.pipeline

SlipOf(i, c) == IF c.form = "none" THEN Unslipped(i) ELSE [done |-> c.done, form |-> c.form]

Advance(s) == [s EXCEPT !.done = @ + 1]

Finished(s) == s.done = LastStop

\* The form the next message is written in.
WrittenAs(s) == IF setup.form = "kept" THEN s ELSE [s EXCEPT !.form = setup.form]

\* The next message, with the slip written on it.
Onto(s, r) == [First(r) EXCEPT !.done = s.done, !.form = s.form]

\* The stop it goes to.
NextOf(s) == s.done + 1

Bound(r, i) == i = LastStop => ~setup.route[r].lost

-----------------------------------------------------------------------------
(* start(): the first hop *)

Sent(r) == asked' = asked \cup {r} /\ started' = started \cup {r}

Starts(r) ==
  /\ r \notin asked /\ setup.route[r].form # "none"
  /\ Writable(r, setup.route[r].form)
  /\ Sent(r)
  /\ Enters(1, First(r))
  /\ UNCHANGED <<pipe, dead, stops, replays, done, counted, excuses, faults>>

\* A message put straight onto a step's queue.
Posts(r) ==
  /\ r \notin asked /\ setup.route[r].form = "none"
  /\ Sent(r)
  /\ Enters(setup.route[r].at, First(r))
  /\ UNCHANGED <<pipe, dead, stops, replays, done, counted, excuses, faults>>

\* The form it was asked for cannot be written: it raises before it publishes.
StartRefused(r) ==
  /\ r \notin asked /\ ~Writable(r, setup.route[r].form)
  /\ asked' = asked \cup {r}
  /\ UNCHANGED <<pipe, broker, stops, replays, started, done, counted, excuses, faults>>

\* It raises; the broker has the message or has not.
StartFails(r) ==
  /\ r \notin asked /\ setup.route[r].form # "none"
  /\ Writable(r, setup.route[r].form)
  /\ asked' = asked \cup {r}
  /\ Fault(r)
  /\ Enters(1, First(r)) \/ UNCHANGED queue
  /\ UNCHANGED <<pipe, dead, stops, replays, started, done, counted>>

-----------------------------------------------------------------------------
(* PipelineBuilder.build and Pipeline.close *)

\* The next step's consumers are started; its queues were declared before the first.
StepStarts ==
  /\ life = "starting"
  /\ LET i == Cardinality(up) + 1
     IN up' = up \cup {i} /\ life' = IF i = LastStop THEN "open" ELSE life
  /\ UNCHANGED <<setup, broker, stops, replays, history, excuses, faults>>

\* They do not start: the ones that run are closed before the failure is raised.
BuildFails ==
  /\ life = "starting"
  /\ life' = IF up = {} THEN "closed" ELSE "closing"
  /\ UNCHANGED <<setup, up, broker, stops, replays, history, excuses, faults>>

Closes ==
  /\ life = "open" /\ setup.pipeline
  /\ life' = "closing"
  /\ UNCHANGED <<setup, up, broker, stops, replays, history, excuses, faults>>

\* One group after the other is closed, each waiting for its handlers.
BeingClosed(i) == life = "closing" /\ i = Min(up)

GroupClosesOrEnds(i) ==
  /\ BeingClosed(i) /\ pc[i] = "idle"
  /\ \/ up' = up \ {i} /\ life' = IF up = {i} THEN "closed" ELSE life
     \/ up' = up \ {i} /\ life' = "closed"
  /\ UNCHANGED <<setup, broker, stops, replays, history, excuses, faults>>

\* Also one that fails to close: the failure is kept, and raised after the others.
GroupCloses(i) ==
  /\ BeingClosed(i) /\ pc[i] = "idle"
  /\ up' = up \ {i}
  /\ life' = IF up = {i} THEN "closed" ELSE life
  /\ UNCHANGED <<setup, broker, stops, replays, history, excuses, faults>>

-----------------------------------------------------------------------------
(* follow_slip() at stop i *)

Takes(i) ==
  /\ i \in up /\ ~BeingClosed(i)
  /\ pc[i] = "idle" /\ queue[i] # <<>>
  /\ hand' = [hand EXCEPT ![i] = Head(queue[i])]
  /\ queue' = [queue EXCEPT ![i] = Tail(@)]
  /\ pc' = [pc EXCEPT ![i] = "working"]
  /\ UNCHANGED <<pipe, dead, replays, history, excuses, faults>>

\* No slip, one that cannot be read, or a step that raises FatalError.
Refuses(i) ==
  /\ pc[i] = "working"
  /\ Rejected(i)
  /\ UNCHANGED <<pipe, replays, history>>
  /\ Undisturbed

StepFails(i) ==
  /\ pc[i] = "working" /\ Readable(hand[i])
  /\ Retried(i)
  /\ UNCHANGED <<pipe, replays, history>>
  /\ Undisturbed

\* The slip with the step here on it.
Advanced(i) == Advance(SlipOf(i, hand[i]))

\* NOTHING before the last stop: the run ends early.
EndsEarly(i) ==
  /\ pc[i] = "working" /\ Readable(hand[i]) /\ ~Finished(Advanced(i))
  /\ Counts(hand[i].run)
  /\ At(i, "settling")
  /\ UNCHANGED <<pipe, broker, replays, asked, started, done>>
  /\ Undisturbed

\* The step's work is done.
Works(i) ==
  /\ pc[i] = "working" /\ Readable(hand[i])
  /\ done' = [done EXCEPT ![hand[i].run][i] = More(@)]
  /\ UNCHANGED <<pipe, replays, asked, started>>
  /\ Undisturbed

StepDoneCounted(i) ==
  /\ Works(i)
  /\ Counts(hand[i].run)
  /\ At(i, IF Finished(Advanced(i)) THEN "settling" ELSE "hopping")
  /\ UNCHANGED broker

\* The run is over after its last step, and rejected where its slip cannot be
\* written on.
StepDone(i) ==
  /\ Works(i)
  /\ LET r == hand[i].run
         writable == Writable(r, WrittenAs(Advanced(i)).form)
     IN \/ Finished(Advanced(i)) /\ Counts(r) /\ At(i, "settling") /\ UNCHANGED broker
        \/ ~Finished(Advanced(i)) /\ ~writable /\ Rejected(i) /\ UNCHANGED counted
        \/ /\ ~Finished(Advanced(i)) /\ writable
           /\ At(i, "hopping") /\ UNCHANGED <<counted, broker>>

\* The message that goes on, and where to.
Outgoing(i) == Onto(WrittenAs(Advanced(i)), hand[i].run)

Onwards(i) == NextOf(Advanced(i))

\* The mandatory publish is confirmed.
Hops(i) ==
  /\ pc[i] = "hopping" /\ Bound(hand[i].run, Onwards(i))
  /\ Enters(Onwards(i), Outgoing(i))
  /\ At(i, "settling")
  /\ UNCHANGED <<pipe, dead, replays, history, excuses, faults>>

\* The next stop is not there, or the publish failed, whether or not it arrived.
HopFails(i) ==
  /\ pc[i] = "hopping"
  /\ LET r == hand[i].run
         again == hand[i].attempt < MaxAttempts
         there == Bound(r, Onwards(i))
     IN /\ IF there THEN Fault(r) ELSE Excuse(r) /\ UNCHANGED faults
        /\ \E arrived \in IF there THEN BOOLEAN ELSE {FALSE} :
             queue' = [j \in Stops |->
               queue[j] \o (IF j = i /\ again THEN <<Further(hand[i])>> ELSE <<>>)
                        \o (IF j = Onwards(i) /\ arrived THEN <<Outgoing(i)>> ELSE <<>>)]
        /\ dead' = IF again THEN dead ELSE [dead EXCEPT ![i] = Append(@, hand[i])]
  /\ Idle(i)
  /\ UNCHANGED <<pipe, replays, history>>

\* accept()
Settles(i) ==
  /\ pc[i] = "settling"
  /\ Idle(i)
  /\ UNCHANGED <<pipe, broker, replays, history, excuses, faults>>

\* The consumer's process or channel goes with a delivery in hand.
Crashes(i) ==
  /\ pc[i] # "idle"
  /\ Fault(hand[i].run)
  /\ queue' = [queue EXCEPT ![i] = <<hand[i]>> \o @]
  /\ Idle(i)
  /\ UNCHANGED <<pipe, dead, replays, history>>

-----------------------------------------------------------------------------
(* replay() *)

\* With routing_key given as the stop's queue, or None: the key each dead letter
\* arrived under, which is the dead-letter queue's own name.
Replays(i, to) ==
  /\ pass = NoPass /\ passes < MaxPasses
  /\ passes' = passes + 1
  /\ pass' = [NoPass EXCEPT !.at = i, !.to = to]
  /\ UNCHANGED <<pipe, broker, stops, history, excuses, faults>>

Reading == pass.at # None /\ pass.held = NoCopy

\* pull() and the filter: what it declines is kept out of the way.
Pulls ==
  /\ Reading /\ pass.moved < Limit /\ dead[pass.at] # <<>>
  /\ LET c == Head(dead[pass.at])
     IN \/ pass' = [pass EXCEPT !.declined = Append(@, c)]
        \/ pass' = [pass EXCEPT !.held = c]
  /\ dead' = [dead EXCEPT ![pass.at] = Tail(@)]
  /\ UNCHANGED <<pipe, queue, stops, passes, history, excuses, faults>>

\* The copy goes out with a fresh set of attempts.
Returns(c) ==
  \/ pass.to = "queue" /\ Enters(pass.at, Fresh(c)) /\ UNCHANGED dead
  \/ /\ pass.to = "own" /\ UNCHANGED queue
     /\ dead' = [dead EXCEPT ![pass.at] = Append(@, Fresh(c))]

Publishes ==
  /\ pass.held # NoCopy /\ ~pass.acking
  /\ Returns(pass.held)
  /\ pass' = [pass EXCEPT !.acking = TRUE]
  /\ UNCHANGED <<pipe, stops, passes, history, excuses, faults>>

AcksUncounted ==
  /\ pass.acking
  /\ pass' = [pass EXCEPT !.held = NoCopy, !.acking = FALSE]
  /\ UNCHANGED <<pipe, broker, stops, passes, history, excuses, faults>>

Acks ==
  /\ pass.acking
  /\ pass' = [pass EXCEPT !.held = NoCopy, !.acking = FALSE, !.moved = @ + 1]
  /\ UNCHANGED <<pipe, broker, stops, passes, history, excuses, faults>>

\* What goes back to the head of the dead letters when the pass is over.
Unsettled ==
  pass.declined \o (IF pass.held = NoCopy THEN <<>> ELSE <<pass.held>>)

\* The pass is over: what the filter declined goes back.
HandsBack ==
  /\ dead' = [dead EXCEPT ![pass.at] = Unsettled \o @]
  /\ pass' = NoPass
  /\ UNCHANGED <<pipe, queue, stops, passes, history, excuses, faults>>

EndsForgetting ==
  /\ Reading
  /\ pass.moved = Limit \/ dead[pass.at] = <<>>
  /\ pass' = NoPass
  /\ UNCHANGED <<pipe, broker, stops, passes, history, excuses, faults>>

\* At the limit, or drained.
Ends ==
  /\ Reading
  /\ pass.moved = Limit \/ dead[pass.at] = <<>>
  /\ HandsBack

\* The deadline, when one was given, has passed.
RunsOut == Reading /\ HandsBack

\* The publish failed, whether or not it arrived, or the connection went before the
\* acknowledgement: everything unsettled goes back.  A filter that raises, or a pass
\* that is cancelled, leaves the message it has unacknowledged until the connection
\* goes, and only then is as here.
PassFails ==
  /\ pass.held # NoCopy
  /\ Fault(pass.held.run)
  /\ \E arrived \in IF pass.acking THEN {FALSE} ELSE BOOLEAN :
       LET copy(to) == IF arrived /\ pass.to = to THEN <<Fresh(pass.held)>> ELSE <<>>
       IN /\ dead' = [dead EXCEPT ![pass.at] = Unsettled \o @ \o copy("own")]
          /\ queue' = [queue EXCEPT ![pass.at] = @ \o copy("queue")]
  /\ pass' = NoPass
  /\ UNCHANGED <<pipe, stops, passes, history>>

-----------------------------------------------------------------------------
Travels(i) ==
  Refuses(i) \/ StepFails(i) \/ EndsEarly(i) \/ StepDone(i) \/ Hops(i) \/ HopFails(i) \/ Settles(i)

Passes == Pulls \/ Publishes \/ Acks \/ Ends \/ PassFails

Next ==
  \/ \E r \in Runs : Starts(r) \/ Posts(r) \/ StartRefused(r) \/ StartFails(r)
  \/ StepStarts \/ BuildFails \/ Closes
  \/ \E i \in Stops : GroupCloses(i)
  \/ \E i \in Stops : Takes(i) \/ Travels(i) \/ Crashes(i)
  \/ \E i \in Stops, to \in {"queue", "own"} : Replays(i, to)
  \/ Passes \/ RunsOut

Spec == Init /\ [][Next]_vars

\* A pipeline is built and closed, the consumers run, a step ends one way or another,
\* and so does a replay's pass.
FairSpec ==
  /\ Spec
  /\ WF_vars(StepStarts \/ \E i \in Stops : GroupCloses(i))
  /\ \A i \in Stops : WF_vars(Takes(i)) /\ WF_vars(Travels(i))
  /\ WF_vars(Passes)

-----------------------------------------------------------------------------
(* Properties *)

\* Where the copies of a run are in a queue, or among dead letters.
InLine(s, r) == {n \in DOMAIN s : s[n].run = r}

CountOf(s, r) == Cardinality(InLine(s, r))

\* The same at all stops.
Lying(q, r) == UNION {{i} \X InLine(q[i], r) : i \in Stops}

\* How many copies of a run there are, a delivery or a dead letter whose
\* successor is out, or whose run was counted, left aside.
Owed(r) ==
  Cardinality(Lying(queue, r)) + Cardinality(Lying(dead, r))
    + Cardinality({i \in Stops : hand[i].run = r /\ pc[i] # "settling"})
    + CountOf(pass.declined, r)
    + (IF pass.held.run = r /\ ~pass.acking THEN 1 ELSE 0)

\* A run that was sent is never lost: until it is counted as over there is a copy at
\* some stop, among some dead letters or held by a replay, whatever crashed, failed
\* to go out, was declined or was closed in between; and a run nothing went wrong
\* for has one copy, or was counted once.  A pipeline that was closed, or that was
\* never built, leaves no consumer behind.
RunKept ==
  /\ TypeOK
  /\ \A r \in started :
       /\ Owed(r) + counted[r] > 0
       /\ excuses[r] = 0 => Owed(r) + counted[r] = 1
  /\ life = "closed" => up = {} /\ \A i \in Stops : pc[i] = "idle"

\* A run whose slip cannot be written on by the stops.
Stuck(r) == ~Writable(r, setup.form)

\* Work is done stop by stop from where the run began, never past a slip that
\* cannot be written on, and a stop's work is repeated, or a run counted again, only
\* for something that went wrong after it was done: each crash, failed hop or failed
\* replay costs at most one repeat at every stop.  A run that is stuck goes no further
\* than the stop it began at, whose work every replay of its dead letter repeats.
RepeatsEarned ==
  \A r \in Runs :
    /\ \A i \in Stops : done[r][i] > 0 =>
         i = setup.route[r].at \/ (i > 1 /\ ~Stuck(r) /\ done[r][i - 1] > 0)
    /\ ~Stuck(r) => counted[r] <= 1 + excuses[r] /\ \A i \in Stops : done[r][i] <= 1 + excuses[r]

\* A run that was sent ends, or is among the dead letters or on its way back from
\* them, unless the pipeline was closed: a next stop nothing is bound to does not
\* keep it going for ever.  And a replay with a limit ends, whatever the consumers
\* keep giving up on and even when what it moves comes back to the queue it reads.
\* What a filter declines counts towards no limit: it is held, and there are finitely
\* many runs to decline.
EveryRunEnds ==
  /\ \A r \in Runs :
       r \in started ~> \/ counted[r] > 0 \/ life = "closed"
                        \/ \E i \in Stops : CountOf(dead[i], r) > 0
                        \/ pass.held.run = r \/ CountOf(pass.declined, r) > 0
  /\ pass.at # None ~> pass.at = None

\* What a replay moves goes back to the stop it came from.
GoesBackWhereItCameFrom ==
  [][Publishes => Len(queue'[pass.at]) > Len(queue[pass.at])]_vars
=============================================================================
