----------------------------- MODULE Publishing -----------------------------
(***************************************************************************)
(* The one place every publish goes through (connection.py, publish_raw):  *)
(* the refusal while the broker blocks the connection, the semaphore that  *)
(* bounds outstanding publishes, the two waits bounded by confirm_timeout, *)
(* and what the caller is told.  A task may be cancelled at any await.     *)
(*                                                                         *)
(* The semaphore is asyncio's: it hands a permit to the longest waiting    *)
(* task, which runs later and may by then have timed out.                  *)
(***************************************************************************)
EXTENDS Integers, Sequences, FiniteSets, SequencesExt

CONSTANTS
  Publishes,       \* the publishes of a behaviour, each a task
  MaxOutstanding,  \* max_outstanding_publishes
  MaxAlarms,       \* bound on alarms of the broker
  MaxDrops         \* bound on lost connections

ASSUME PublishingAssumption ==
  /\ IsFiniteSet(Publishes)
  /\ MaxOutstanding \in Nat \ {0}
  /\ MaxAlarms \in Nat
  /\ MaxDrops \in Nat

VARIABLES
  pc,        \* where each publish is in publish_raw
  outcome,   \* what its caller was told
  permits,   \* the value of the semaphore _outstanding
  line,      \* the tasks waiting for it, longest first
  inFlight,  \* _in_flight_publishes
  reply,     \* the broker's answer, while its task has not seen it
  wire,      \* messages written that the broker has not dealt with
  stored,    \* messages the broker has taken
  alarm,     \* whether the broker has stopped reading the socket
  blocked,   \* what the transport's `blocked` reads
  alarms,    \* how many alarms there have been
  drops      \* how many lost connections

taskVars   == <<pc, outcome, reply>>
permitVars == <<permits, line, inFlight>>
brokerVars == <<wire, stored, alarm, blocked, alarms, drops>>
vars == <<taskVars, permitVars, brokerVars>>

Pcs == {"new", "waiting", "granted", "sending", "written", "over"}

\* "declined": returned as unroutable, or nacked.
Answers == {"confirmed", "declined"}

\* What a caller can conclude.  "refused" is PublishingPausedError and the timeout of
\* the wait for a slot, which say that nothing was sent; "unsure" is the timeout of
\* the wait for the confirm, a cancellation and an exception of the transport.
Outcomes == Answers \cup {"none", "refused", "unsure"}

\* The type invariant of every variable.
TypeOK ==
  /\ pc \in [Publishes -> Pcs]
  /\ outcome \in [Publishes -> Outcomes]
  /\ reply \in [Publishes -> Answers \cup {"none"}]
  /\ permits \in 0..MaxOutstanding
  /\ line \in Seq(Publishes)
  /\ inFlight \in 0..MaxOutstanding
  /\ wire \subseteq Publishes
  /\ stored \subseteq Publishes
  /\ alarm \in BOOLEAN
  /\ blocked \in {"yes", "no", "unknown"}
  /\ alarms \in 0..MaxAlarms
  /\ drops \in 0..MaxDrops

Init ==
  /\ pc = [p \in Publishes |-> "new"]
  /\ outcome = [p \in Publishes |-> "none"]
  /\ reply = [p \in Publishes |-> "none"]
  /\ permits = MaxOutstanding
  /\ line = <<>>
  /\ inFlight = 0
  /\ wire = {}
  /\ stored = {}
  /\ alarm = FALSE
  /\ blocked \in {"no", "unknown"}
  /\ alarms = 0
  /\ drops = 0

-----------------------------------------------------------------------------
(* Permits *)

\* The task goes to `to`; nobody's permit moves.
Goes(p, to) == pc' = [pc EXCEPT ![p] = to]

\* The task ends and its permit goes to the longest waiting, or back.
GivesBack(p) ==
  IF line = <<>>
  THEN /\ Goes(p, "over")
       /\ permits' = permits + 1
       /\ UNCHANGED line
  ELSE /\ pc' = [pc EXCEPT ![p] = "over", ![Head(line)] = "granted"]
       /\ line' = Tail(line)
       /\ UNCHANGED permits

Tells(p, what) == outcome' = [outcome EXCEPT ![p] = what]

-----------------------------------------------------------------------------
(* publish_raw *)

\* The refusal, before a permit or a byte is spent; "unknown" is not blocked.
Pauses(p) ==
  /\ pc[p] = "new"
  /\ blocked = "yes"
  /\ Goes(p, "over")
  /\ Tells(p, "refused")
  /\ UNCHANGED <<reply, permitVars, brokerVars>>

Asks(p) ==
  /\ pc[p] = "new"
  /\ blocked # "yes"
  /\ IF permits > 0 /\ line = <<>>
     THEN Goes(p, "granted") /\ permits' = permits - 1 /\ UNCHANGED line
     ELSE Goes(p, "waiting") /\ line' = Append(line, p) /\ UNCHANGED permits
  /\ UNCHANGED <<outcome, reply, inFlight, brokerVars>>

StopsWaiting(p, why) ==
  /\ pc[p] = "waiting"
  /\ why \in {"refused", "unsure"}
  /\ Goes(p, "over")
  /\ \E i \in DOMAIN line : line[i] = p /\ line' = RemoveAt(line, i)
  /\ Tells(p, why)
  /\ UNCHANGED <<reply, permits, inFlight, brokerVars>>

DeclinesGrantKeepingIt(p, why) ==
  /\ pc[p] = "granted"
  /\ why \in {"refused", "unsure"}
  /\ Goes(p, "over")
  /\ Tells(p, why)
  /\ UNCHANGED <<reply, permitVars, brokerVars>>

\* The timeout or the cancellation came first: the permit is passed on.
DeclinesGrant(p, why) ==
  /\ pc[p] = "granted"
  /\ why \in {"refused", "unsure"}
  /\ GivesBack(p)
  /\ Tells(p, why)
  /\ UNCHANGED <<reply, inFlight, brokerVars>>

Begins(p) ==
  /\ pc[p] = "granted"
  /\ Goes(p, "sending")
  /\ inFlight' = inFlight + 1
  /\ UNCHANGED <<outcome, reply, permits, line, brokerVars>>

\* Transport.publish has its channel and writes.
Writes(p) ==
  /\ pc[p] = "sending"
  /\ Goes(p, "written")
  /\ wire' = wire \cup {p}
  /\ UNCHANGED <<outcome, reply, permitVars, stored, alarm, blocked, alarms, drops>>

\* publish_raw goes on with the answer: a nack is raised, the others returned.
ReadsReply(p) ==
  /\ pc[p] = "written"
  /\ reply[p] # "none"
  /\ GivesBack(p)
  /\ inFlight' = inFlight - 1
  /\ Tells(p, reply[p])
  /\ reply' = [reply EXCEPT ![p] = "none"]
  /\ UNCHANGED brokerVars

GivesUpOnlyUnwritten(p) ==
  /\ pc[p] = "sending"
  /\ GivesBack(p)
  /\ inFlight' = inFlight - 1
  /\ Tells(p, "unsure")
  /\ reply' = [reply EXCEPT ![p] = "none"]
  /\ UNCHANGED brokerVars

GivesUpAsStalled(p) ==
  /\ pc[p] \in {"sending", "written"}
  /\ GivesBack(p)
  /\ inFlight' = inFlight - 1
  /\ Tells(p, "refused")
  /\ reply' = [reply EXCEPT ![p] = "none"]
  /\ UNCHANGED brokerVars

\* No confirm in time, the task cancelled, or the channel gone.  What was written
\* stays written.
GivesUp(p) ==
  /\ pc[p] \in {"sending", "written"}
  /\ GivesBack(p)
  /\ inFlight' = inFlight - 1
  /\ Tells(p, "unsure")
  /\ reply' = [reply EXCEPT ![p] = "none"]
  /\ UNCHANGED brokerVars

-----------------------------------------------------------------------------
(* The broker and the connection *)

\* A mandatory message, as every publish of this library is unless asked not to be:
\* one that reaches no queue is returned and not confirmed.
BrokerAnswers(p, what) ==
  /\ p \in wire
  /\ ~alarm
  /\ what \in Answers
  /\ wire' = wire \ {p}
  /\ stored' = IF what = "confirmed" THEN stored \cup {p} ELSE stored
  /\ reply' = IF pc[p] = "written" THEN [reply EXCEPT ![p] = what] ELSE reply
  /\ UNCHANGED <<pc, outcome, permitVars, alarm, blocked, alarms, drops>>

Alarm ==
  /\ ~alarm
  /\ alarms < MaxAlarms
  /\ alarm' = TRUE
  /\ alarms' = alarms + 1
  /\ UNCHANGED <<taskVars, permitVars, wire, stored, blocked, drops>>

\* The broker says so only to a connection that has published since.
Blocked ==
  /\ alarm
  /\ wire # {}
  /\ blocked = "no"
  /\ blocked' = "yes"
  /\ UNCHANGED <<taskVars, permitVars, wire, stored, alarm, alarms, drops>>

AlarmClears ==
  /\ alarm
  /\ alarm' = FALSE
  /\ blocked' = IF blocked = "yes" THEN "no" ELSE blocked
  /\ UNCHANGED <<taskVars, permitVars, wire, stored, alarms, drops>>

\* Of what was on the wire the broker has taken some; nobody is told which.
\* Between two connections the state cannot be read.
Drops(taken) ==
  /\ drops < MaxDrops
  /\ drops' = drops + 1
  /\ taken \subseteq wire
  /\ stored' = stored \cup taken
  /\ wire' = {}
  /\ blocked' = "unknown"
  /\ UNCHANGED <<taskVars, permitVars, alarm, alarms>>

Reconnected ==
  /\ blocked = "unknown"
  /\ blocked' = "no"
  /\ UNCHANGED <<taskVars, permitVars, wire, stored, alarm, alarms, drops>>

-----------------------------------------------------------------------------
Runs(p) == Pauses(p) \/ Asks(p) \/ Begins(p) \/ Writes(p) \/ ReadsReply(p)

\* The two timeouts of confirm_timeout; a publish under way may also be given up
\* for another reason.
TimesOut(p) == StopsWaiting(p, "refused") \/ DeclinesGrant(p, "refused") \/ GivesUp(p)

\* Cancelled while it waited.
Interrupted(p) == StopsWaiting(p, "unsure") \/ DeclinesGrant(p, "unsure")

Next ==
  \/ \E p \in Publishes :
       \/ Runs(p) \/ TimesOut(p) \/ Interrupted(p)
       \/ \E what \in Answers : BrokerAnswers(p, what)
  \/ Alarm \/ Blocked \/ AlarmClears
  \/ \E taken \in SUBSET wire : Drops(taken)
  \/ Reconnected

Spec == Init /\ [][Next]_vars

-----------------------------------------------------------------------------
\* The tasks that hold a permit.
Holders == {p \in Publishes : pc[p] \in {"granted", "sending", "written"}}

\* No permit is lost or made, whichever way a publish ends: "a permit lost on any
\* one of those is a connection that publishes a thousand more messages and then
\* stops for ever".  Nobody waits while a permit is free, and outstanding_publishes
\* counts the publishes inside the transport: it never reads high.
PermitsConserved ==
  /\ TypeOK
  /\ permits + Cardinality(Holders) = MaxOutstanding
  /\ permits > 0 => line = <<>>
  /\ inFlight = Cardinality({p \in Publishes : pc[p] \in {"sending", "written"}})

\* What the caller may do next rests on what it was told: a publish refused,
\* or timed out before its turn, put nothing on the wire and may be sent again, a
\* confirmed one is stored, and one returned or nacked is not.
ToldTheTruth ==
  \A p \in Publishes :
    /\ outcome[p] = "refused" => p \notin wire \cup stored
    /\ outcome[p] = "confirmed" => p \in stored
    /\ outcome[p] = "declined" => p \notin wire \cup stored
=============================================================================
