------------------------------- MODULE Sending -------------------------------
(***************************************************************************)
(* What callers make of publish_raw (connection.py): Publisher.send, a     *)
(* send_all that has a task for each of its payloads, and Connection.health*)
(* with its bounded probe, all on the connection of module Publishing,     *)
(* which may be closed under them.                                         *)
(***************************************************************************)
EXTENDS Publishing

CONSTANTS
  Batch,      \* the publishes of one send_all; the others are sends of their own
  MaxChecks   \* bound on health checks

ASSUME SendingAssumption == Batch \subseteq Publishes /\ MaxChecks \in Nat

VARIABLES
  batch,      \* the send_all: "running", "cancelling", and what it ended as
  report,     \* what its caller was told: how many were confirmed, how many not
  check,      \* the health check: "none", "probing", or its verdict
  probe,      \* its round trip
  saw,        \* whether it found a consumer that has stopped reading
  checks,
  link        \* the connection: "open", "closing", with its transport "released"

batchVars  == <<batch, report>>
healthVars == <<check, probe, saw, checks>>
allVars    == <<vars, batchVars, healthVars, link>>

NoReport == [confirmed |-> 0, failed |-> 0]

\* "blocked" is up, with the reason.
Verdicts == {"up", "blocked", "degraded", "down"}

\* The type invariant of the variables of this module.
SendingTypeOK ==
  /\ batch \in {"running", "cancelling", "told", "cancelled"}
  /\ report \in [confirmed : 0..Cardinality(Batch), failed : 0..Cardinality(Batch)]
  /\ saw \in BOOLEAN
  /\ check \in {"none", "probing"} \cup Verdicts
  /\ probe \in {"none", "asked", "answered", "failed"}
  /\ checks \in 0..MaxChecks
  /\ link \in {"open", "closing", "released"}

\* send_all has created a task for every payload before it awaits any.
SendingInit ==
  /\ Init
  /\ batch = "running" /\ report = NoReport
  /\ check = "none" /\ probe = "none" /\ saw = FALSE /\ checks = 0
  /\ link = "open"

-----------------------------------------------------------------------------
(* Publisher.send and send_all *)

\* The codec raises, or the task is cancelled before its first step: nothing was
\* handed to publish_raw.
NeverStarts(p) ==
  /\ pc[p] = "new"
  /\ Goes(p, "over")
  /\ Tells(p, "unsure")
  /\ UNCHANGED <<reply, permitVars, brokerVars>>

\* A publish is let through while the connection closes; a transport that has been
\* released writes nothing.
GoesOn(p) ==
  /\ Runs(p) \/ TimesOut(p)
  /\ link = "released" => wire' = wire
  /\ UNCHANGED <<batchVars, healthVars, link>>

\* What send() does between its call and its return: a message returned as
\* unroutable is raised like any other failure.
Sends(p) ==
  \/ GoesOn(p)
  \/ (Interrupted(p) \/ NeverStarts(p)) /\ UNCHANGED <<batchVars, healthVars, link>>

Confirmed == {p \in Batch : outcome[p] = "confirmed"}

Over == {p \in Batch : pc[p] = "over"}

\* Somebody cancels the caller: gather cancels every task that has not ended, and
\* waits for all of them as before.
BatchCancelled ==
  /\ batch = "running"
  /\ batch' = "cancelling"
  /\ UNCHANGED <<vars, report, healthVars, link>>

BatchEndsAtFirst ==
  /\ batch \in {"running", "cancelling"}
  /\ Over = Batch \/ Over \ Confirmed # {}
  /\ batch' = IF batch = "running" THEN "told" ELSE "cancelled"
  /\ report' = IF batch = "running"
               THEN [confirmed |-> Cardinality(Confirmed),
                     failed |-> Cardinality(Batch \ Confirmed)]
               ELSE report
  /\ UNCHANGED <<vars, healthVars, link>>

\* Every task has ended: the results, or the counts of both kinds.
BatchEnds ==
  /\ batch \in {"running", "cancelling"}
  /\ Over = Batch
  /\ batch' = IF batch = "running" THEN "told" ELSE "cancelled"
  /\ report' = IF batch = "running"
               THEN [confirmed |-> Cardinality(Confirmed),
                     failed |-> Cardinality(Batch \ Confirmed)]
               ELSE report
  /\ UNCHANGED <<vars, healthVars, link>>

-----------------------------------------------------------------------------
(* Connection.health *)

\* Connection.blocked: what the broker's notifications say, if they can be read.
KnownBlocked == blocked = "yes"

\* A blocked connection is up, unless a consumer has stopped reading.
BlockedReport(found) == IF found THEN "degraded" ELSE "blocked"

Ends(verdict) == check' = verdict /\ probe' = "none"

\* What can be said without asking the broker is said, of a connection being closed
\* before anything else; otherwise it is asked.  The workers of an open consumer may
\* be gone.
Checks ==
  /\ check # "probing" /\ checks < MaxChecks
  /\ checks' = checks + 1
  /\ saw' \in BOOLEAN
  /\ \/ link # "open" /\ Ends("down")
     \/ link = "open" /\ KnownBlocked /\ Ends(BlockedReport(saw'))
     \/ link = "open" /\ ~KnownBlocked /\ check' = "probing" /\ probe' = "asked"
  /\ UNCHANGED <<vars, batchVars, link>>

\* The broker reads a connection's socket until it has to hold a publish of it.
Held == alarm /\ wire # {}

ProbeAnswered ==
  /\ probe = "asked" /\ ~Held /\ link # "released"
  /\ probe' = "answered"
  /\ UNCHANGED <<vars, batchVars, check, saw, checks, link>>

\* The round trip came back, or the connection went under it.
ProbeEnds ==
  /\ check = "probing"
  /\ \/ probe = "answered" /\ Ends(IF saw THEN "degraded" ELSE "up")
     \/ probe = "failed" /\ Ends("down")
  /\ UNCHANGED <<vars, batchVars, saw, checks, link>>

ProbeTimesOutUnasked ==
  /\ check = "probing" /\ probe = "asked"
  /\ Ends("down")
  /\ UNCHANGED <<vars, batchVars, saw, checks, link>>

\* The probe is abandoned, and the blocked state asked again.
ProbeTimesOut ==
  /\ check = "probing" /\ probe = "asked"
  /\ Ends(IF KnownBlocked THEN BlockedReport(saw) ELSE "down")
  /\ UNCHANGED <<vars, batchVars, saw, checks, link>>

\* The caller gives the whole check up, and the probe with it.
CheckCancelled ==
  /\ check = "probing"
  /\ Ends("none")
  /\ UNCHANGED <<vars, batchVars, saw, checks, link>>

-----------------------------------------------------------------------------
(* The broker and the connection *)

\* A round trip on a connection that goes fails, or waits for the next one.
ProbeStranded == probe' \in IF probe = "asked" THEN {"asked", "failed"} ELSE {probe}

Disconnects ==
  /\ link # "released"
  /\ \E taken \in SUBSET wire : Drops(taken)
  /\ ProbeStranded
  /\ UNCHANGED <<batchVars, check, saw, checks, link>>

\* Connection.close is called: the consumers are closed first.
BeginsClosing ==
  /\ link = "open"
  /\ link' = "closing"
  /\ UNCHANGED <<vars, batchVars, healthVars>>

\* They have closed, or close was cut off: the transport goes, whatever is on it.  It
\* counts among the lost connections.
ReleasesTransport ==
  /\ link = "closing"
  /\ link' = "released"
  /\ \E taken \in SUBSET wire : Drops(taken)
  /\ ProbeStranded
  /\ UNCHANGED <<batchVars, check, saw, checks>>

\* Reconnecting takes round trips: a check that failed has ended by then.
Broker ==
  /\ link # "released"
  /\ \/ \E p \in Publishes, what \in Answers : BrokerAnswers(p, what)
     \/ Alarm \/ Blocked \/ AlarmClears
     \/ probe # "failed" /\ Reconnected
  /\ UNCHANGED <<batchVars, healthVars, link>>

-----------------------------------------------------------------------------
SendingNext ==
  \/ \E p \in Publishes : Sends(p)
  \/ BatchCancelled \/ BatchEnds
  \/ Checks \/ ProbeAnswered \/ ProbeEnds \/ ProbeTimesOut \/ CheckCancelled
  \/ Broker \/ Disconnects \/ BeginsClosing \/ ReleasesTransport

SendingSpec == SendingInit /\ [][SendingNext]_allVars

\* The event loop runs a task that can run, and the timers fire; nothing is asked
\* of the broker.
FairSpec ==
  /\ SendingSpec
  /\ \A p \in Publishes : WF_allVars(GoesOn(p))
  /\ WF_allVars(BatchEnds)
  /\ WF_allVars(ProbeEnds \/ ProbeTimesOut)

-----------------------------------------------------------------------------
(* Properties *)

\* send_all answers for all of its batch, also when it is cancelled: none of its
\* messages goes out or is given up after its caller was told, the counts add up,
\* and what it counts as confirmed the broker has.
BatchTold ==
  /\ SendingTypeOK
  /\ batch \in {"told", "cancelled"} => Over = Batch
  /\ batch = "told" => /\ report.confirmed + report.failed = Cardinality(Batch)
                       /\ report.confirmed = Cardinality(Confirmed)
                       /\ Confirmed \subseteq stored

\* A health check never calls a connection down that it could know is blocked, the
\* notification that came while the probe was waiting included, but for one that was
\* being closed when it was asked, of which it says so; a close that begins under the
\* probe does not turn the answer.  And a consumer that had stopped reading is not
\* passed over, blocked or not.
HealthTellsTheTruth ==
  [][check' # check /\ check' \in Verdicts =>
       /\ check' = "down" /\ KnownBlocked => link # "open" /\ check # "probing"
       /\ saw' => check' \in {"degraded", "down"}]_allVars

\* Every publish, every batch and every health check ends, whatever the broker
\* does, an alarm that never clears and a connection closed under them included.
EveryCallEnds ==
  []<>(/\ \A p \in Publishes : pc[p] = "over"
       /\ batch \in {"told", "cancelled"}
       /\ check # "probing")
=============================================================================
