---------------------------- MODULE Idempotency ----------------------------
(***************************************************************************)
(* Handling a message once (patterns/idempotency.py) against the leases of *)
(* a shared table (patterns/sql.py, SqlIdempotencyStore) or the memory of  *)
(* one process (InMemoryIdempotencyStore).                                 *)
(*                                                                         *)
(* A worker is one run of `guarded` at a time.  Its calls of the SQL store *)
(* take several statements; each is atomic and other workers run between   *)
(* them.  A call reads the clock before its first statement, so what it    *)
(* writes and compares may be out of date by `age`.                        *)
(*                                                                         *)
(* Deadlines count down: `left` is expires_at less the present time.       *)
(***************************************************************************)
EXTENDS Integers, FiniteSets

CONSTANTS
  Workers,       \* the places a handler may run
  Nodes,         \* processes, one SqlIdempotencyStore each
  NodeOf,        \* the process of each worker
  NoNode,        \* claimed_by of a row that no living process claimed
  Messages,
  Keys,          \* what `key` may return
  KeyOf,         \* its value for each message
  NoMessage,     \* the job of an idle worker
  Kinds,         \* the stores to consider
  ClaimTimeout,  \* claim_timeout; the window of the in-memory store, too
  Retention,     \* retention
  MaxAttempts,   \* attempts before a message is dead-lettered
  MaxStall,      \* bound on how old the clock of a call in the store may be
  MaxFaults      \* bound on calls that raise, deliveries taken back and crashes

\* The constructor only asks that both windows be positive; as by default,
\* retention is the longer.  A shorter one would end a confirmation, made by a
\* holder that had been slow, under the handler of the claim it replaced.
ASSUME IdempotencyAssumption ==
  /\ NodeOf \in [Workers -> Nodes]
  /\ NoNode \notin Nodes
  /\ KeyOf \in [Messages -> Keys]
  /\ NoMessage \notin Messages
  /\ Kinds \subseteq {"sql", "memory"}
  /\ MaxStall \in Nat
  /\ ClaimTimeout \in Nat /\ ClaimTimeout > MaxStall
  /\ Retention \in Nat /\ Retention >= ClaimTimeout + MaxStall
  /\ MaxAttempts \in Nat \ {0}
  /\ MaxFaults \in Nat

VARIABLES
  kind,      \* which store is used
  rows,      \* the table, or the dictionary: at most one row for a key
  pc,        \* where each worker is in `guarded`
  job,       \* the message it was delivered
  linked,    \* whether the broker still waits for its answer
  answer,    \* what `guarded` is about to return
  age,       \* how long ago a call in the store read the clock
  lease,     \* what is left of the claim the worker was granted
  where,     \* each message, as the broker sees it
  attempts,  \* how often it was retried
  handled,   \* how often a handler accepted a message of the key, up to two
  lapsed,    \* keys for which something happened that excuses a second time
  faults     \* faults so far

workerVars == <<pc, job, linked, answer, age, lease>>
queueVars  == <<where, attempts>>
ghostVars  == <<handled, lapsed>>
vars == <<kind, rows, workerVars, queueVars, ghostVars, faults>>

InStore == {"claim", "takeover", "select", "confirm", "record"}
Holding == {"running", "confirm", "record", "forget"}
Pcs     == InStore \cup Holding \cup {"idle", "answer"}
Answers == {"accept", "in_progress", "retry", "reject"}

NoRow == [state |-> "ABSENT", by |-> NoNode, left |-> 0]

Lefts == -MaxStall .. IF ClaimTimeout > Retention THEN ClaimTimeout ELSE Retention

Row == [state : {"CLAIMED", "CONFIRMED"}, by : Nodes \cup {NoNode}, left : Lefts]

Key(w) == KeyOf[job[w]]

\* The type invariant of every variable.
TypeOK ==
  /\ kind \in Kinds
  /\ rows \in [Keys -> Row \cup {NoRow}]
  /\ pc \in [Workers -> Pcs]
  /\ job \in [Workers -> Messages \cup {NoMessage}]
  /\ linked \in [Workers -> BOOLEAN]
  /\ answer \in [Workers -> Answers]
  /\ age \in [Workers -> 0..MaxStall]
  /\ lease \in [Workers -> 0..ClaimTimeout]
  /\ where \in [Messages -> {"ready", "out", "done", "dead"}]
  /\ attempts \in [Messages -> 0..MaxAttempts]
  /\ handled \in [Keys -> 0..2]
  /\ lapsed \subseteq Keys
  /\ faults \in 0..MaxFaults

Init ==
  /\ kind \in Kinds
  /\ rows = [k \in Keys |-> NoRow]
  /\ pc = [w \in Workers |-> "idle"]
  /\ job = [w \in Workers |-> NoMessage]
  /\ linked = [w \in Workers |-> FALSE]
  /\ answer = [w \in Workers |-> "accept"]
  /\ age = [w \in Workers |-> 0]
  /\ lease = [w \in Workers |-> 0]
  /\ where = [m \in Messages |-> "ready"]
  /\ attempts = [m \in Messages |-> 0]
  /\ handled = [k \in Keys |-> 0]
  /\ lapsed = {}
  /\ faults = 0

-----------------------------------------------------------------------------
(* The table *)

Exists(k) == rows[k] # NoRow
Sets(k, r) == rows' = [rows EXCEPT ![k] = r]

Claimed(w) == [state |-> "CLAIMED", by |-> NodeOf[w], left |-> ClaimTimeout - age[w]]

\* expires_at <= now, by the clock the worker read.
RunOutFor(w, k) == rows[k].left <= -age[w]

\* The worker's own call read the clock now.
Goes(w, to) == pc' = [pc EXCEPT ![w] = to]
Leaves(w)   == age' = [age EXCEPT ![w] = 0]
LetsGo(w)   == lease' = [lease EXCEPT ![w] = 0]

Returns(w, a) == Goes(w, "answer") /\ answer' = [answer EXCEPT ![w] = a]

\* The claim is this worker's: its handler runs.
Granted(w) ==
  /\ Sets(Key(w), Claimed(w))
  /\ lease' = [lease EXCEPT ![w] = ClaimTimeout - age[w]]
  /\ Goes(w, "running")
  /\ Leaves(w)
  /\ UNCHANGED answer

-----------------------------------------------------------------------------
(* guarded: the claim *)

\* The consumer gives a worker a message; `guarded` calls claim.
Deliver(w, m) ==
  /\ pc[w] = "idle" /\ where[m] = "ready"
  /\ Goes(w, "claim")
  /\ job' = [job EXCEPT ![w] = m]
  /\ linked' = [linked EXCEPT ![w] = TRUE]
  /\ where' = [where EXCEPT ![m] = "out"]
  /\ UNCHANGED <<kind, rows, answer, age, lease, attempts, ghostVars, faults>>

\* INSERT ... ON CONFLICT DO NOTHING: the insert is the claim.
ClaimInsert(w) ==
  /\ kind = "sql" /\ pc[w] = "claim"
  /\ IF ~Exists(Key(w))
     THEN Granted(w)
     ELSE Goes(w, "takeover") /\ UNCHANGED <<rows, lease, age, answer>>
  /\ UNCHANGED <<kind, job, linked, queueVars, ghostVars, faults>>

TakeOverOfNothing(w) ==
  /\ kind = "sql" /\ pc[w] = "takeover"
  /\ Goes(w, "select") /\ UNCHANGED <<rows, lease, age, answer>>
  /\ UNCHANGED <<kind, job, linked, queueVars, ghostVars, faults>>

\* UPDATE ... WHERE expires_at <= now: a hold that has run out is taken over.
ClaimTakeOver(w) ==
  /\ kind = "sql" /\ pc[w] = "takeover"
  /\ IF Exists(Key(w)) /\ RunOutFor(w, Key(w))
     THEN Granted(w)
     ELSE Goes(w, "select") /\ UNCHANGED <<rows, lease, age, answer>>
  /\ UNCHANGED <<kind, job, linked, queueVars, ghostVars, faults>>

SelectAnyRow(w) ==
  /\ kind = "sql" /\ pc[w] = "select"
  /\ Returns(w, IF Exists(Key(w)) THEN "accept" ELSE "in_progress")
  /\ Leaves(w)
  /\ UNCHANGED <<kind, rows, job, linked, lease, queueVars, ghostVars, faults>>

\* SELECT state: done, or being done; no row is in progress, too.
ClaimSelect(w) ==
  /\ kind = "sql" /\ pc[w] = "select"
  /\ Returns(w, IF rows[Key(w)].state = "CONFIRMED" THEN "accept" ELSE "in_progress")
  /\ Leaves(w)
  /\ UNCHANGED <<kind, rows, job, linked, lease, queueVars, ghostVars, faults>>

\* The in-memory claim, under its lock: what has aged out is swept first.
ClaimMemory(w) ==
  /\ kind = "memory" /\ pc[w] = "claim"
  /\ LET swept == [k \in Keys |-> IF RunOutFor(w, k) THEN NoRow ELSE rows[k]]
         k == Key(w)
     IN IF swept[k] = NoRow
        THEN /\ rows' = [swept EXCEPT ![k] = Claimed(w)]
             /\ lease' = [lease EXCEPT ![w] = ClaimTimeout - age[w]]
             /\ Goes(w, "running")
             /\ UNCHANGED answer
        ELSE /\ rows' = swept
             /\ Returns(w, IF rows[k].state = "CONFIRMED" THEN "accept" ELSE "in_progress")
             /\ UNCHANGED lease
  /\ Leaves(w)
  /\ UNCHANGED <<kind, job, linked, queueVars, ghostVars, faults>>

Fault == faults < MaxFaults /\ faults' = faults + 1

\* The call raised: rolled back, or lost its commit's answer after the claim was
\* made.  Retrying is right; carrying on is not.
ClaimRaises(w) ==
  /\ kind = "sql" /\ pc[w] \in {"claim", "takeover", "select"}
  /\ Fault
  /\ \/ UNCHANGED rows
     \/ pc[w] = "claim" /\ ~Exists(Key(w)) /\ Sets(Key(w), Claimed(w))
     \/ /\ pc[w] = "takeover" /\ Exists(Key(w)) /\ RunOutFor(w, Key(w))
        /\ Sets(Key(w), Claimed(w))
  /\ Returns(w, "retry")
  /\ Leaves(w)
  /\ UNCHANGED <<kind, job, linked, lease, queueVars, ghostVars>>

-----------------------------------------------------------------------------
(* guarded: the handler, and what the store is told afterwards *)

AcceptsThenForgets(w) ==
  /\ pc[w] = "running"
  /\ Goes(w, "forget")
  /\ answer' = [answer EXCEPT ![w] = "accept"]
  /\ handled' = [handled EXCEPT ![Key(w)] = IF @ = 2 THEN 2 ELSE @ + 1]
  /\ UNCHANGED <<kind, rows, job, linked, age, lease, queueVars, lapsed, faults>>

\* The handler accepts: the work happened.
HandlerAccepts(w) ==
  /\ pc[w] = "running"
  /\ Goes(w, "confirm")
  /\ answer' = [answer EXCEPT ![w] = "accept"]
  /\ handled' = [handled EXCEPT ![Key(w)] = IF @ = 2 THEN 2 ELSE @ + 1]
  /\ UNCHANGED <<kind, rows, job, linked, age, lease, queueVars, lapsed, faults>>

\* It returns anything else or raises: the key is to be forgotten.
HandlerFails(w, a) ==
  /\ pc[w] = "running" /\ a \in {"retry", "reject"}
  /\ Goes(w, "forget")
  /\ answer' = [answer EXCEPT ![w] = a]
  /\ UNCHANGED <<kind, rows, job, linked, age, lease, queueVars, ghostVars, faults>>

Confirmed(w) == [state |-> "CONFIRMED", by |-> NoNode, left |-> Retention - age[w]]

\* UPDATE ... SET state = CONFIRMED, whoever holds the row.
ConfirmUpdate(w) ==
  /\ kind = "sql" /\ pc[w] = "confirm"
  /\ IF Exists(Key(w))
     THEN Sets(Key(w), Confirmed(w)) /\ Goes(w, "answer") /\ Leaves(w) /\ LetsGo(w)
     ELSE Goes(w, "record") /\ UNCHANGED <<rows, age, lease>>
  /\ UNCHANGED <<kind, job, linked, answer, queueVars, ghostVars, faults>>

\* No row was left to update: INSERT ... ON CONFLICT DO NOTHING.
ConfirmInsert(w) ==
  /\ kind = "sql" /\ pc[w] = "record"
  /\ IF Exists(Key(w)) THEN UNCHANGED rows ELSE Sets(Key(w), Confirmed(w))
  /\ Goes(w, "answer")
  /\ Leaves(w)
  /\ LetsGo(w)
  /\ UNCHANGED <<kind, job, linked, answer, queueVars, ghostVars, faults>>

\* In memory the key keeps the moment it was claimed.
ConfirmMemory(w) ==
  /\ kind = "memory" /\ pc[w] = "confirm"
  /\ LET k == Key(w)
     IN IF Exists(k) THEN Sets(k, [rows[k] EXCEPT !.state = "CONFIRMED"]) ELSE UNCHANGED rows
  /\ Goes(w, "answer")
  /\ Leaves(w)
  /\ LetsGo(w)
  /\ UNCHANGED <<kind, job, linked, answer, queueVars, ghostVars, faults>>

\* Logged, not raised; the commit may have been made all the same.
ConfirmRaises(w) ==
  /\ kind = "sql" /\ pc[w] \in {"confirm", "record"}
  /\ Fault
  /\ \/ UNCHANGED rows
     \/ Exists(Key(w)) = (pc[w] = "confirm") /\ Sets(Key(w), Confirmed(w))
  /\ Goes(w, "answer")
  /\ Leaves(w)
  /\ LetsGo(w)
  /\ lapsed' = lapsed \cup {Key(w)}
  /\ UNCHANGED <<kind, job, linked, answer, queueVars, handled>>

\* What `forget` deletes: in SQL a claim of this process, in memory the key.
ForgetsAnybodys(w) == kind = "memory" \/ rows[Key(w)].state = "CLAIMED"
ForgetsWhatever(w) == TRUE
Forgets(w) ==
  \/ kind = "memory"
  \/ rows[Key(w)].state = "CLAIMED" /\ rows[Key(w)].by = NodeOf[w]

Forget(w) ==
  /\ pc[w] = "forget"
  /\ IF Forgets(w) THEN Sets(Key(w), NoRow) ELSE UNCHANGED rows
  /\ Goes(w, "answer")
  /\ LetsGo(w)
  /\ UNCHANGED <<kind, job, linked, answer, age, queueVars, ghostVars, faults>>

\* Logged: the claim binds until it runs out.
ForgetRaises(w) ==
  /\ kind = "sql" /\ pc[w] = "forget"
  /\ Fault
  /\ Goes(w, "answer")
  /\ LetsGo(w)
  /\ UNCHANGED <<kind, rows, job, linked, answer, age, queueVars, ghostVars>>

-----------------------------------------------------------------------------
(* The consumer and the broker around it *)

\* The consumer settles as told: in_progress puts it back without an attempt.
Settled(m, a) ==
  LET last == attempts[m] + 1 >= MaxAttempts
  IN /\ where' = [where EXCEPT ![m] =
            CASE a = "accept"               -> "done"
              [] a = "reject"               -> "dead"
              [] a = "retry" /\ last        -> "dead"
              [] a = "retry" /\ ~last       -> "ready"
              [] a = "in_progress"          -> "ready"]
     /\ attempts' = [attempts EXCEPT ![m] = IF a = "retry" THEN @ + 1 ELSE @]

\* An answer for a delivery the broker has taken back settles nothing.
Answer(w) ==
  /\ pc[w] = "answer"
  /\ IF linked[w] THEN Settled(job[w], answer[w]) ELSE UNCHANGED queueVars
  /\ Goes(w, "idle")
  /\ job' = [job EXCEPT ![w] = NoMessage]
  /\ linked' = [linked EXCEPT ![w] = FALSE]
  /\ answer' = [answer EXCEPT ![w] = "accept"]
  /\ UNCHANGED <<kind, rows, age, lease, ghostVars, faults>>

\* The channel is lost under a running handler: the message is delivered again.
LinkLost(w) ==
  /\ linked[w]
  /\ Fault
  /\ linked' = [linked EXCEPT ![w] = FALSE]
  /\ where' = [where EXCEPT ![job[w]] = "ready"]
  /\ UNCHANGED <<kind, rows, pc, job, answer, age, lease, attempts, ghostVars>>

\* The process of a node ends, and starts again with another name; its memory
\* goes with it.
Crash(n) ==
  LET dies == IF kind = "memory" THEN Workers ELSE {w \in Workers : NodeOf[w] = n}
      busy == {w \in dies : pc[w] # "idle"}
  IN /\ Fault
     /\ pc' = [w \in Workers |-> IF w \in dies THEN "idle" ELSE pc[w]]
     /\ job' = [w \in Workers |-> IF w \in dies THEN NoMessage ELSE job[w]]
     /\ linked' = [w \in Workers |-> w \notin dies /\ linked[w]]
     /\ answer' = [w \in Workers |-> IF w \in dies THEN "accept" ELSE answer[w]]
     /\ age' = [w \in Workers |-> IF w \in dies THEN 0 ELSE age[w]]
     /\ lease' = [w \in Workers |-> IF w \in dies THEN 0 ELSE lease[w]]
     /\ where' = [m \in Messages |->
            IF \E w \in busy : linked[w] /\ job[w] = m THEN "ready" ELSE where[m]]
     /\ rows' = [k \in Keys |->
            IF kind = "memory" THEN NoRow
            ELSE IF rows[k].by = n THEN [rows[k] EXCEPT !.by = NoNode] ELSE rows[k]]
     /\ lapsed' = lapsed \cup
            IF kind = "memory" THEN Keys
            ELSE {Key(w) : w \in {v \in busy : pc[v] \in {"confirm", "record"}}}
     /\ UNCHANGED <<kind, attempts, handled>>

PurgeAll ==
  /\ kind = "sql"
  /\ rows' = [k \in Keys |-> NoRow]
  /\ UNCHANGED <<kind, workerVars, queueVars, ghostVars, faults>>

\* purge_expired: scheduled by the application, for any row that has run out.
Purge ==
  /\ kind = "sql"
  /\ rows' = [k \in Keys |-> IF rows[k].left <= 0 THEN NoRow ELSE rows[k]]
  /\ UNCHANGED <<kind, workerVars, queueVars, ghostVars, faults>>

\* A row or a claim that has this much left when time passes runs out.
Lapsing(k) ==
  \/ rows[k].state = "CONFIRMED" /\ rows[k].left = 1
  \/ \E w \in Workers : pc[w] \in Holding /\ Key(w) = k /\ lease[w] = 1

Tick ==
  /\ \A w \in Workers : pc[w] \in InStore => age[w] < MaxStall
  /\ rows' = [k \in Keys |->
        IF Exists(k) /\ rows[k].left > -MaxStall
        THEN [rows[k] EXCEPT !.left = @ - 1] ELSE rows[k]]
  /\ age' = [w \in Workers |-> IF pc[w] \in InStore THEN age[w] + 1 ELSE age[w]]
  /\ lease' = [w \in Workers |-> IF lease[w] > 0 THEN lease[w] - 1 ELSE 0]
  /\ lapsed' = lapsed \cup {k \in Keys : Lapsing(k)}
  /\ UNCHANGED <<kind, pc, job, linked, answer, queueVars, handled, faults>>

-----------------------------------------------------------------------------
\* A step of `guarded` that only waits for its turn.
Step(w) ==
  \/ ClaimInsert(w) \/ ClaimTakeOver(w) \/ ClaimSelect(w) \/ ClaimMemory(w)
  \/ HandlerAccepts(w) \/ \E a \in Answers : HandlerFails(w, a)
  \/ ConfirmUpdate(w) \/ ConfirmInsert(w) \/ ConfirmMemory(w)
  \/ Forget(w) \/ Answer(w)

Raises(w) == ClaimRaises(w) \/ ConfirmRaises(w) \/ ForgetRaises(w)

Next ==
  \/ \E w \in Workers :
       \/ \E m \in Messages : Deliver(w, m)
       \/ Step(w)
       \/ Raises(w)
       \/ LinkLost(w)
  \/ \E n \in Nodes : Crash(n)
  \/ Purge
  \/ Tick

Spec == Init /\ [][Next]_vars

\* Workers go on, time passes, and a queue does not pass a message over for ever.
FairSpec ==
  /\ Spec
  /\ WF_vars(Tick)
  /\ \A w \in Workers : WF_vars(Step(w))
  /\ \A m \in Messages : SF_vars(\E w \in Workers : Deliver(w, m))

-----------------------------------------------------------------------------
(* What the pattern promises *)

\* No message is accepted whose key no handler ever accepted: a claim whose
\* holder died or failed is not taken for a fact (_claim, ClaimSelect).
NothingLost ==
  \A m \in Messages : where[m] = "done" => handled[KeyOf[m]] > 0

\* The work of a key is done twice only after something the documentation owns up
\* to: a lease that ran out under its holder, a confirmation that failed or died
\* with its process, a retention that is over, a memory that was lost.
TwiceOnlyIfLapsed ==
  \A k \in Keys : handled[k] = 2 => k \in lapsed

\* Two handlers run for one key only when the lease of one of them has run out:
\* "two consumers handling the same message at the same moment must not both be
\* told they are first" (first_time, and what `forget` may delete).
Exclusive ==
  kind = "sql" =>
    \A v, w \in Workers :
      v # w /\ pc[v] = "running" /\ pc[w] = "running" /\ Key(v) = Key(w)
        => lease[v] = 0 \/ lease[w] = 0

\* A confirmation is not undone before its retention is over, whatever slow or
\* failed holders of the key do afterwards (forget, claim, purge_expired).
ConfirmationStands ==
  [][kind = "sql" =>
       \A k \in Keys : rows[k].state = "CONFIRMED" /\ rows[k].left > 0
                         => rows'[k].state = "CONFIRMED"]_vars

\* Every message is handled or dead-lettered in the end: a claim left behind by
\* a crash or a failed `forget` runs out, and what waits behind it goes on.
EverySettled ==
  \A m \in Messages : <>(where[m] \in {"done", "dead"})
=============================================================================
