------------------------------- MODULE Outbox -------------------------------
(***************************************************************************)
(* The outbox (patterns/outbox.py, patterns/sql.py SqlOutboxStore):        *)
(* records written in the caller's transactions, and the relay that        *)
(* publishes what was committed, in order, and removes what was confirmed. *)
(* The application may call sweep() itself, beside the relay's task.       *)
(***************************************************************************)
EXTENDS Integers, FiniteSets, FiniteSetsExt

CONSTANTS
  Records,      \* numbers, in the order of (created_at, id)
  Refused,      \* those the broker never takes: refused, or bound to no queue
  Sweepers,     \* tasks that sweep
  Relay,        \* the one OutboxRelay.start creates
  Batch,        \* batch
  MaxAttempts,  \* max_attempts
  MaxFaults,    \* bound on crashes, outages, store errors, lost answers, repeated adds
  MaxStarts     \* bound on how many relays are started, one after the other

ASSUME OutboxAssumption ==
  /\ Records \subseteq Nat /\ IsFiniteSet(Records)
  /\ Refused \subseteq Records
  /\ IsFiniteSet(Sweepers) /\ Relay \in Sweepers
  /\ {Batch, MaxAttempts} \subseteq Nat \ {0}
  /\ {MaxFaults, MaxStarts} \subseteq Nat

VARIABLES
  tx,         \* the transaction that adds each record
  rows,       \* the table: the attempts of each record in it
  pc,         \* where each sweep is
  read,       \* what it read when it began
  batch,      \* what of that it has yet to publish
  phase,      \* the relay's task
  up,         \* whether the broker takes publishes
  copies,     \* how many copies of a record the broker took, up to two
  disturbed,  \* records a second copy of which is excused
  faults,
  starts

sweepVars  == <<pc, read, batch>>
boundVars  == <<faults, starts>>
vars == <<tx, rows, sweepVars, phase, up, copies, disturbed, boundVars>>

Absent == -1
InTable(r) == rows[r] # Absent
Retired(r) == rows[r] >= MaxAttempts
Waiting    == {r \in Records : InTable(r) /\ ~Retired(r)}

Busy(s) == pc[s] # "idle"

\* The record a sweep is at.
Current(s) == Min(batch[s])

\* The type invariant of every variable.  A record another sweep is failing may
\* be counted once more after it was retired.
TypeOK ==
  /\ tx \in [Records -> {"none", "open", "committed", "rolled_back"}]
  /\ rows \in [Records -> Absent .. MaxAttempts + Cardinality(Sweepers) - 1]
  /\ pc \in [Sweepers -> {"idle", "publish", "mark", "fail"}]
  /\ batch \in [Sweepers -> SUBSET Records]
  /\ read \in [Sweepers -> SUBSET Records]
  /\ \A s \in Sweepers : batch[s] \subseteq read[s] /\ (Busy(s) <=> batch[s] # {})
  /\ phase \in {"off", "on", "stopping"}
  /\ up \in BOOLEAN
  /\ copies \in [Records -> 0..2]
  /\ disturbed \subseteq Records
  /\ faults \in 0..MaxFaults
  /\ starts \in 0..MaxStarts

Init ==
  /\ tx = [r \in Records |-> "none"]
  /\ rows = [r \in Records |-> Absent]
  /\ pc = [s \in Sweepers |-> "idle"]
  /\ read = [s \in Sweepers |-> {}]
  /\ batch = [s \in Sweepers |-> {}]
  /\ phase = "off"
  /\ up = TRUE
  /\ copies = [r \in Records |-> 0]
  /\ disturbed = {}
  /\ faults = 0
  /\ starts = 0

Fault == faults < MaxFaults /\ faults' = faults + 1 /\ UNCHANGED starts

-----------------------------------------------------------------------------
(* The caller's transaction *)

\* record() and add() inside a transaction; records are stamped in order.  The
\* transaction of one that was rolled back may be tried again.
Add(r) ==
  /\ tx[r] \in {"none", "rolled_back"}
  /\ \A q \in Records : q < r => tx[q] # "none"
  /\ tx' = [tx EXCEPT ![r] = "open"]
  /\ UNCHANGED <<rows, sweepVars, phase, up, copies, disturbed, boundVars>>

\* The insert becomes durable exactly when the transaction does.
Commit(r) ==
  /\ tx[r] = "open"
  /\ tx' = [tx EXCEPT ![r] = "committed"]
  /\ rows' = [rows EXCEPT ![r] = IF InTable(r) THEN @ ELSE 0]
  /\ UNCHANGED <<sweepVars, phase, up, copies, disturbed, boundVars>>

Rollback(r) ==
  /\ tx[r] = "open"
  /\ tx' = [tx EXCEPT ![r] = "rolled_back"]
  /\ UNCHANGED <<rows, sweepVars, phase, up, copies, disturbed, boundVars>>

\* A caller that was not told of its commit adds the record once more: ON CONFLICT
\* DO NOTHING while the row is there, a new row once it was published.
AddAgain(r) ==
  /\ tx[r] = "committed"
  /\ Fault
  /\ rows' = [rows EXCEPT ![r] = IF InTable(r) THEN @ ELSE 0]
  /\ disturbed' = disturbed \cup {r}
  /\ UNCHANGED <<tx, sweepVars, phase, up, copies>>

-----------------------------------------------------------------------------
(* A sweep *)

\* The first Batch records that wait, oldest first.
Oldest == {r \in Waiting : Cardinality({q \in Waiting : q < r}) < Batch}

\* pending(batch).  The relay's task sweeps only while nobody has asked it to stop;
\* records read by two sweeps at once may go out twice.
Begin(s) ==
  /\ ~Busy(s)
  /\ s = Relay => phase = "on"
  /\ Oldest # {}
  /\ read' = [read EXCEPT ![s] = Oldest]
  /\ batch' = [batch EXCEPT ![s] = Oldest]
  /\ pc' = [pc EXCEPT ![s] = "publish"]
  /\ disturbed' = disturbed \cup (Oldest \cap UNION {batch[t] : t \in Sweepers \ {s}})
  /\ UNCHANGED <<tx, rows, phase, up, copies, boundVars>>

Ends(s) ==
  /\ pc' = [pc EXCEPT ![s] = "idle"]
  /\ read' = [read EXCEPT ![s] = {}]
  /\ batch' = [batch EXCEPT ![s] = {}]

\* The record is dealt with: on to the next.
GoesOn(s) ==
  LET left == batch[s] \ {Current(s)}
  IN IF left = {}
     THEN Ends(s)
     ELSE /\ batch' = [batch EXCEPT ![s] = left]
          /\ pc' = [pc EXCEPT ![s] = "publish"]
          /\ UNCHANGED read

Published(s, to) ==
  /\ pc' = [pc EXCEPT ![s] = to]
  /\ UNCHANGED <<tx, rows, read, batch, phase, up>>

Taken(r) == copies' = [copies EXCEPT ![r] = IF @ = 2 THEN 2 ELSE @ + 1]

TrustsConfirm(s) ==
  /\ pc[s] = "publish"
  /\ up
  /\ Published(s, "mark")
  /\ IF Current(s) \in Refused THEN UNCHANGED copies ELSE Taken(Current(s))
  /\ UNCHANGED <<disturbed, boundVars>>

\* Confirmed and routed.
Publishes(s) ==
  /\ pc[s] = "publish"
  /\ up /\ Current(s) \notin Refused
  /\ Published(s, "mark")
  /\ Taken(Current(s))
  /\ UNCHANGED <<disturbed, boundVars>>

\* Nacked, returned as unroutable, paused, or no broker to talk to.
PublishFails(s) ==
  /\ pc[s] = "publish"
  /\ ~up \/ Current(s) \in Refused
  /\ Published(s, "fail")
  /\ UNCHANGED <<copies, disturbed, boundVars>>

\* The confirm did not come in time: the message arrived all the same.
PublishUnsure(s) ==
  /\ pc[s] = "publish"
  /\ up /\ Current(s) \notin Refused
  /\ Fault
  /\ Published(s, "fail")
  /\ Taken(Current(s))
  /\ disturbed' = disturbed \cup {Current(s)}

FailsOnly(s) ==
  /\ pc[s] = "fail"
  /\ Ends(s)
  /\ UNCHANGED <<tx, rows, phase, up, copies, disturbed, boundVars>>

GoesPast(s) ==
  /\ pc[s] = "fail"
  /\ GoesOn(s)
  /\ rows' = [rows EXCEPT ![Current(s)] = IF InTable(Current(s)) THEN @ + 1 ELSE Absent]
  /\ UNCHANGED <<tx, phase, up, copies, disturbed, boundVars>>

\* record_failure, and the failure ends the sweep.
CountFailure(s) ==
  /\ pc[s] = "fail"
  /\ rows' = [rows EXCEPT ![Current(s)] = IF InTable(Current(s)) THEN @ + 1 ELSE Absent]
  /\ Ends(s)
  /\ UNCHANGED <<tx, phase, up, copies, disturbed, boundVars>>

\* mark_published.
Mark(s) ==
  /\ pc[s] = "mark"
  /\ rows' = [rows EXCEPT ![Current(s)] = Absent]
  /\ GoesOn(s)
  /\ UNCHANGED <<tx, phase, up, copies, disturbed, boundVars>>

\* The store raises, and the sweep with it: the record is as it was.
StoreRaises(s) ==
  /\ pc[s] \in {"mark", "fail"}
  /\ Fault
  /\ Ends(s)
  /\ disturbed' = IF pc[s] = "mark" THEN disturbed \cup {Current(s)} ELSE disturbed
  /\ UNCHANGED <<tx, rows, phase, up, copies>>

-----------------------------------------------------------------------------
(* The relay's task, the broker and the process *)

\* start(), of a relay not started before.
Start ==
  /\ phase = "off" /\ starts < MaxStarts
  /\ phase' = "on"
  /\ starts' = starts + 1
  /\ UNCHANGED <<tx, rows, sweepVars, up, copies, disturbed, faults>>

CloseCancels ==
  /\ phase = "on"
  /\ phase' = "stopping"
  /\ Ends(Relay)
  /\ UNCHANGED <<tx, rows, up, copies, disturbed, boundVars>>

\* close(): the sweep in progress is waited for.
Close ==
  /\ phase = "on"
  /\ phase' = "stopping"
  /\ UNCHANGED <<tx, rows, sweepVars, up, copies, disturbed, boundVars>>

\* The task finds itself asked to stop.
Stopped ==
  /\ phase = "stopping" /\ ~Busy(Relay)
  /\ phase' = "off"
  /\ UNCHANGED <<tx, rows, sweepVars, up, copies, disturbed, boundVars>>

BrokerLost ==
  /\ up
  /\ Fault
  /\ up' = FALSE
  /\ UNCHANGED <<tx, rows, sweepVars, phase, copies, disturbed>>

BrokerBack ==
  /\ ~up
  /\ up' = TRUE
  /\ UNCHANGED <<tx, rows, sweepVars, phase, copies, disturbed, boundVars>>

\* The process ends: what was not committed is rolled back.
Crash ==
  /\ Fault
  /\ tx' = [r \in Records |-> IF tx[r] = "open" THEN "rolled_back" ELSE tx[r]]
  /\ disturbed' = disturbed \cup {Current(s) : s \in {t \in Sweepers : pc[t] = "mark"}}
  /\ pc' = [s \in Sweepers |-> "idle"]
  /\ read' = [s \in Sweepers |-> {}]
  /\ batch' = [s \in Sweepers |-> {}]
  /\ phase' = "off"
  /\ UNCHANGED <<rows, up, copies>>

-----------------------------------------------------------------------------
\* What a sweep does without anything going wrong in the store.
Sweep(s) == Publishes(s) \/ PublishFails(s) \/ CountFailure(s) \/ Mark(s)

Next ==
  \/ \E r \in Records : Add(r) \/ Commit(r) \/ Rollback(r) \/ AddAgain(r)
  \/ \E s \in Sweepers : Begin(s) \/ Sweep(s) \/ PublishUnsure(s) \/ StoreRaises(s)
  \/ Start \/ Close \/ Stopped
  \/ BrokerLost \/ BrokerBack
  \/ Crash

Spec == Init /\ [][Next]_vars

\* Sweeps go on, the relay ticks, and a broker that was lost comes back.
FairSpec ==
  /\ Spec
  /\ \A s \in Sweepers : WF_vars(Sweep(s))
  /\ WF_vars(Begin(Relay))
  /\ WF_vars(Stopped)
  /\ WF_vars(BrokerBack)

-----------------------------------------------------------------------------
(* What the outbox promises *)

\* A committed record is in the table until the broker has taken it: no crash, no
\* confirm of a message that reached no queue and no failing store removes it
\* first (sweep, mark_published).
NothingLost ==
  \A r \in Records : tx[r] = "committed" => InTable(r) \/ copies[r] > 0

\* Nothing goes out of a transaction that was not committed (SqlOutboxStore.add).
NothingInvented ==
  \A r \in Records : copies[r] > 0 => tx[r] = "committed"

\* A second copy is sent only where the documentation says so: a crash or an error
\* between the publish and mark_published, a confirm that was not heard, two sweeps
\* at once, a record added again.  Closing a relay is not among them (close).
TwiceOnlyIfDisturbed ==
  \A r \in Records : copies[r] = 2 => r \in disturbed

\* A record goes out for the first time only when every older record its sweep read
\* has gone out, was retired, or never will go out by this sweep: nothing a sweep
\* was to publish earlier is still waiting (sweep stops at the first failure).  Of
\* sweeps at once that have the record in their batch it is one that kept the order.
WrittenOrder ==
  [][\A q \in Records :
       copies[q] = 0 /\ copies'[q] = 1 =>
         \A r \in Waiting : r < q /\ copies[r] = 0 =>
           \E s \in Sweepers : q \in batch[s] /\ r \notin read[s]]_vars

\* Whatever the broker does to a record, those behind it go out or are retired in
\* their turn, as long as a relay is left running (record_failure, pending).
EveryRecordLeaves ==
  <>[](phase = "on") =>
    \A r \in Records : tx[r] = "committed" ~> copies[r] > 0 \/ Retired(r)

\* Not so: only a record the broker would never take is retired, "the broker being down is
\* one of the things an outbox exists to survive" (_run).
OnlyRefusedRetire ==
  \A r \in Records : Retired(r) => r \in Refused
=============================================================================
