------------------------------- MODULE Stream -------------------------------
(***************************************************************************)
(* A stream reader (streams.py, read_stream) and the position the transport*)
(* keeps for it (rabbitmq.py, _StreamPosition).  The broker starts a       *)
(* subscription where x-stream-offset says; a robust queue consumes again  *)
(* after a lost connection with the dict it was given first, in which the  *)
(* position moves as entries are delivered and settled.  Deliveries of the *)
(* lost channel stay with the workers and are settled too.                 *)
(*                                                                         *)
(* Retention discards the oldest entries, whether or not a reader wants    *)
(* them, and a subscription goes on at the first entry that is left.       *)
(***************************************************************************)
EXTENDS Integers, Sequences, FiniteSets, FiniteSetsExt

CONSTANTS
  Last,      \* bound on the log: offsets are 0..Last
  Workers,   \* the worker tasks a reader may have
  Prefetch,  \* how many entries the broker lets it hold
  MaxDrops,  \* bound on lost connections
  MaxDiscards, \* bound on entries retention takes
  None       \* no delivery, no offset

Offsets == 0..Last

Delivery == [off : Offsets, gen : 0..MaxDrops]

ASSUME StreamAssumption ==
  /\ Last \in Nat
  /\ IsFiniteSet(Workers) /\ Workers # {}
  /\ Prefetch \in Nat \ {0}   \* read_stream refuses 0
  /\ MaxDrops \in Nat /\ MaxDiscards \in Nat
  /\ None \notin Int \cup Workers \cup Delivery

VARIABLES
  onFailure,  \* what a failing handler does to this reader
  crew,       \* its worker tasks
  log,        \* how many entries the stream has had
  head,       \* the first it still has
  arg,        \* x-stream-offset in the recorded arguments
  pending,    \* _StreamPosition._pending
  settled,    \* _StreamPosition._settled
  live,       \* whether the subscription is up
  gen,        \* the channel it is or will be on
  next,       \* the entry the broker sends next
  out,        \* entries it has sent on this channel and not seen settled
  work,       \* the consumer's queue of deliveries
  hand,       \* the delivery of each worker
  doing,      \* what each worker is doing with it
  stage,      \* whether the reader is open, closing or closed
  halted,     \* Consumer._halted
  begun,      \* the first entry this reader was to see
  seen,       \* entries a handler was given
  done,       \* entries accepted, or copied beside the stream
  passed,     \* entries nacked though their copy was not taken
  escaped,    \* entries whose copy failed with an unforeseen exception
  stoppedAt   \* the entry the reader stopped at

position == <<arg, pending, settled>>
broker   == <<log, head, live, gen, next, out>>
worker   == <<work, hand, doing>>
outcomes == <<begun, seen, done, passed, escaped, stoppedAt>>
setup    == <<onFailure, crew>>
streamVars == <<setup, position, broker, worker, stage, halted, outcomes>>

\* StreamOffset.to_arg: a kind, which is no offset, or the exact offset.
FromFirst == -2
FromNext == -1
Starts == {FromFirst, FromNext} \cup Offsets

\* The type invariant of every variable.
StreamTypeOK ==
  /\ onFailure \in {"stop", "dead_letter"} /\ crew \subseteq Workers
  /\ log \in 0..Last + 1 /\ head \in 0..MaxDiscards /\ head <= log
  /\ arg \in Starts \cup {Last + 1}
  /\ pending \in [Offsets -> Nat] /\ settled \in Offsets \cup {-1}
  /\ live \in BOOLEAN /\ gen \in 0..MaxDrops
  /\ next \in 0..Last + 1 /\ out \subseteq Offsets
  /\ work \in Seq(Delivery) /\ hand \in [Workers -> Delivery \cup {None}]
  /\ doing \in [Workers -> {"idle", "handling", "copying", "refused"}]
  /\ stage \in {"open", "closing", "closed"} /\ halted \in BOOLEAN
  /\ begun \in 0..Last + 1
  /\ seen \subseteq Offsets /\ done \subseteq Offsets
  /\ passed \subseteq Offsets /\ escaped \subseteq Offsets
  /\ stoppedAt \in Offsets \cup {None}

\* Where the broker starts a subscription that asks for `a`.
Resolve(a) == CASE a = FromFirst -> head [] a = FromNext -> log [] OTHER -> Max({a, head})

\* read_stream with any offset, on a stream that may hold something already.
StreamInit ==
  /\ onFailure \in {"stop", "dead_letter"}
  /\ crew \in {{CHOOSE w \in Workers : TRUE}, Workers}
  /\ log \in 0..1 /\ head = 0
  /\ arg \in Starts
  /\ pending = [o \in Offsets |-> 0] /\ settled = -1
  /\ live = TRUE /\ gen = 0
  /\ next = Resolve(arg) /\ out = {}
  /\ work = <<>> /\ hand = [w \in Workers |-> None] /\ doing = [w \in Workers |-> "idle"]
  /\ stage = "open" /\ halted = FALSE
  /\ begun = Resolve(arg)
  /\ seen = {} /\ done = {} /\ passed = {} /\ escaped = {}
  /\ stoppedAt = None

-----------------------------------------------------------------------------
(* The position *)

Held(p) == {o \in Offsets : p[o] > 0}

MoveToSettled(p, s) == arg' = s + 1

\* The oldest entry delivered and not settled, or just after the newest settled.
Move(p, s) == arg' = IF Held(p) # {} THEN Min(Held(p)) ELSE s + 1

Delivered(o) ==
  LET p == [pending EXCEPT ![o] = @ + 1]
  IN  pending' = p /\ Move(p, settled) /\ UNCHANGED settled

SettleHeld(d) ==
  LET s == Max({settled, d.off})
  IN  /\ settled' = s
      /\ Move(pending, s)
      /\ out' = IF d.gen = gen THEN out \ {d.off} ELSE out
      /\ UNCHANGED pending

SettleUntold(d) ==
  LET p == [pending EXCEPT ![d.off] = @ - 1]
      s == Max({settled, d.off})
  IN  /\ pending' = p /\ settled' = s
      /\ Move(p, s)
      /\ UNCHANGED out

\* ack or nack of a delivery: the position first, then the broker, who grants
\* another entry.  On a lost channel the second half raises, and is logged.
Settle(d) ==
  LET p == [pending EXCEPT ![d.off] = @ - 1]
      s == Max({settled, d.off})
  IN  /\ pending' = p /\ settled' = s
      /\ Move(p, s)
      /\ out' = IF d.gen = gen THEN out \ {d.off} ELSE out

-----------------------------------------------------------------------------
(* The broker and the connection *)

Appends ==
  /\ log <= Last
  /\ log' = log + 1
  /\ UNCHANGED <<setup, position, head, live, gen, next, out, worker, stage, halted, outcomes>>

\* StreamRetention's limits, always with something left.
Discards ==
  /\ head < MaxDiscards /\ head + 1 < log
  /\ head' = head + 1
  /\ next' = Max({next, head'})
  /\ UNCHANGED <<setup, position, log, live, gen, out, worker, stage, halted, outcomes>>

Deliver ==
  /\ live /\ stage = "open"
  /\ next < log
  /\ Cardinality(out) < Prefetch
  /\ Delivered(next)
  /\ work' = Append(work, [off |-> next, gen |-> gen])
  /\ next' = next + 1
  /\ out' = out \cup {next}
  /\ UNCHANGED <<setup, log, head, live, gen, hand, doing, stage, halted, outcomes>>

Drop ==
  /\ live /\ stage = "open"
  /\ gen < MaxDrops
  /\ live' = FALSE /\ gen' = gen + 1
  /\ out' = {}
  /\ UNCHANGED <<setup, position, log, head, next, worker, stage, halted, outcomes>>

\* The robust queue consumes again with what the dict says by now: still "next"
\* if nothing was delivered, whatever was appended meanwhile.
Reconnect ==
  /\ ~live /\ stage = "open"
  /\ live' = TRUE
  /\ next' = Resolve(arg)
  /\ begun' = IF arg = FromNext THEN log ELSE begun
  /\ UNCHANGED <<setup, position, log, head, gen, out, worker, stage, halted,
                 seen, done, passed, escaped, stoppedAt>>

-----------------------------------------------------------------------------
(* A worker (connection.py, _handle_one, _carry_out, _set_aside) *)

\* Prefetched before the reader stopped: returned unhandled.
Take(w) ==
  /\ w \in crew /\ doing[w] = "idle" /\ work # <<>>
  /\ work' = Tail(work)
  /\ IF halted
     THEN /\ Settle(Head(work))
          /\ UNCHANGED <<hand, doing, seen>>
     ELSE /\ hand' = [hand EXCEPT ![w] = Head(work)]
          /\ doing' = [doing EXCEPT ![w] = "handling"]
          /\ seen' = seen \cup {Head(work).off}
          /\ UNCHANGED <<position, out>>
  /\ UNCHANGED <<setup, log, head, live, gen, next, stage, halted,
                 begun, done, passed, escaped, stoppedAt>>

Frees(w) ==
  /\ hand' = [hand EXCEPT ![w] = None]
  /\ doing' = [doing EXCEPT ![w] = "idle"]

Accepts(w) ==
  /\ doing[w] = "handling"
  /\ done' = done \cup {hand[w].off}
  /\ Settle(hand[w])
  /\ Frees(w)
  /\ UNCHANGED <<setup, log, head, live, gen, next, work, stage, halted,
                 begun, seen, passed, escaped, stoppedAt>>

\* park, reject, a body that will not decode, and, in dead-letter mode, a
\* failure or a request to retry: a copy goes beside the stream.
WantsCopy(w) ==
  /\ doing[w] = "handling"
  /\ doing' = [doing EXCEPT ![w] = "copying"]
  /\ UNCHANGED <<setup, position, broker, work, hand, stage, halted, outcomes>>

\* A failure or a request to retry where the reader is to stop (_refusing_retries).
Stops(w) ==
  /\ doing[w] = "handling"
  /\ onFailure = "stop"
  /\ halted' = TRUE
  /\ stoppedAt' = IF stoppedAt = None THEN hand[w].off ELSE stoppedAt
  /\ Settle(hand[w])
  /\ Frees(w)
  /\ UNCHANGED <<setup, log, head, live, gen, next, work, stage, begun, seen, done, passed, escaped>>

CopyTaken(w) ==
  /\ doing[w] = "copying"
  /\ done' = done \cup {hand[w].off}
  /\ Settle(hand[w])
  /\ Frees(w)
  /\ UNCHANGED <<setup, log, head, live, gen, next, work, stage, halted,
                 begun, seen, passed, escaped, stoppedAt>>

\* Nacked, returned, blocked or not confirmed in time: _set_aside sleeps first.
CopyRefused(w) ==
  /\ doing[w] = "copying"
  /\ doing' = [doing EXCEPT ![w] = "refused"]
  /\ UNCHANGED <<setup, position, broker, work, hand, stage, halted, outcomes>>

\* nack(True), which for a stream is a settlement like any other.
PutsBack(w) ==
  /\ doing[w] = "refused"
  /\ passed' = passed \cup {hand[w].off}
  /\ Settle(hand[w])
  /\ Frees(w)
  /\ UNCHANGED <<setup, log, head, live, gen, next, work, stage, halted,
                 begun, seen, done, escaped, stoppedAt>>

\* The copy was on a connection that went: no PublishError, so nothing settles.
CopyEscapes(w) ==
  /\ doing[w] = "copying" /\ hand[w].gen < gen
  /\ escaped' = escaped \cup {hand[w].off}
  /\ Frees(w)
  /\ UNCHANGED <<setup, position, broker, work, stage, halted,
                 begun, seen, done, passed, stoppedAt>>

-----------------------------------------------------------------------------
(* Closing *)

\* The application, or the task _halt created, closes the consumer: the
\* subscription stops and what is queued goes back.  The reader is over, so
\* where its position ends does not matter.
CloseReader ==
  /\ stage = "open"
  /\ stage' = "closing"
  /\ work' = <<>>
  /\ UNCHANGED <<setup, position, broker, hand, doing, halted, outcomes>>

Closed ==
  /\ stage = "closing"
  /\ \A w \in crew : doing[w] = "idle"
  /\ stage' = "closed"
  /\ UNCHANGED <<setup, position, broker, worker, halted, outcomes>>

\* One step of a worker.
Works(w) == \/ Take(w) \/ Accepts(w) \/ WantsCopy(w) \/ Stops(w)
            \/ CopyTaken(w) \/ CopyRefused(w) \/ PutsBack(w) \/ CopyEscapes(w)

StreamNext ==
  \/ Appends \/ Discards \/ Deliver \/ Drop \/ Reconnect
  \/ \E w \in Workers : Works(w)
  \/ CloseReader \/ Closed

StreamSpec == StreamInit /\ [][StreamNext]_streamVars

\* The broker delivers and comes back, handlers end, and a reader whose handler
\* stopped it is closed by the task _halt created.
StreamFairSpec ==
  /\ StreamSpec
  /\ WF_streamVars(Deliver) /\ WF_streamVars(Reconnect) /\ WF_streamVars(halted /\ CloseReader) /\ WF_streamVars(Closed)
  /\ \A w \in Workers : WF_streamVars(Works(w))

-----------------------------------------------------------------------------
(* Properties *)

\* An entry the reader will not be sent again after a lost connection.
LeftBehind(o) == arg \in Nat /\ o < arg

\* An entry retention took before a handler had it.
Missed(o) == o < head /\ o \notin seen

\* A reader that goes on, over any lost connections and with any number of
\* workers, leaves an entry behind only when it was accepted or has a copy
\* beside the stream, its copy was refused, or retention took it unread.
LeavesNothing ==
  ~halted => \A o \in begun..Last : LeftBehind(o) => o \in done \cup passed \/ Missed(o)

\* One that stops at an entry has, with one worker, dealt with all before it and
\* handles nothing after it.
StopsThere ==
  (stoppedAt # None /\ Cardinality(crew) = 1)
    => /\ \A o \in begun..stoppedAt - 1 : o \in done \cup passed \cup escaped \/ Missed(o)
       /\ \A w \in crew : doing[w] # "handling"

\* With one worker and no failed settlement a lost connection makes a handler
\* see no more entries again than the prefetch.
FewAgain ==
  (Cardinality(crew) = 1 /\ escaped = {})
    => Cardinality({o \in seen : ~LeftBehind(o)}) <= Prefetch

\* A reader skips nothing, and repeats little.
NothingSkipped == StreamTypeOK /\ LeavesNothing /\ StopsThere /\ FewAgain

\* While the reader is open, every entry from where it began that retention leaves
\* it is dealt with in the end, lost connections notwithstanding.
EveryEntryRead ==
  \A o \in Offsets :
    (begun <= o /\ o < log)
      ~> \/ o \in done \cup passed \/ o < head
         \/ o < begun \/ stage # "open" \/ halted

\* Not so: docs/streams.md says of a reconnection that a reader started at the next entry
\* "does not skip what was appended while it was away".
NextSkipsNothing == [][begun' = begun]_streamVars
=============================================================================
