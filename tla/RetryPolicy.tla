---------------------------- MODULE RetryPolicy ----------------------------
(***************************************************************************)
(* The retry policy of retry.py: after which attempt a message is given up *)
(* on, how long it waits before the next one, and whether it spends that   *)
(* wait in the consumer or on a rung queue of the broker.                  *)
(*                                                                         *)
(* Delays are whole units, as a Python timedelta is whole microseconds.    *)
(* The multiplier (a float) is a fraction num/den; jitter_factor is a      *)
(* percentage, and the random draw of next_wait is its parameter `draw`.   *)
(***************************************************************************)
EXTENDS Integers, Sequences

Policies ==
  [max_attempts: Int, initial_delay: Nat, multiplier: [num: Nat, den: Nat \ {0}],
   max_delay: Nat, jitter_factor: 0..100, max_message_age: Nat,
   broker_wait_threshold: Nat]

\* next_wait's None: there is no further attempt.
GiveUp == [none |-> TRUE]

-----------------------------------------------------------------------------

\* timedelta * float: the exact quotient, rounded half to even.
Times(delay, num, den) ==
  LET q == (delay * num) \div den
      r == (delay * num) % den
  IN IF 2 * r > den \/ (2 * r = den /\ q % 2 = 1) THEN q + 1 ELSE q

Grow(p, delay) == Times(delay, p.multiplier.num, p.multiplier.den)

OverCap(p, delay) == p.max_delay > 0 /\ delay > p.max_delay

Capped(p, delay) == IF OverCap(p, delay) THEN p.max_delay ELSE delay

\* The loop of _unjittered: it stops growing at the first delay above the cap.
GrowOnce(p, at) ==
  LET grown == Grow(p, at.delay)
  IN IF at.broke THEN at
     ELSE [delay |-> Capped(p, grown), broke |-> OverCap(p, grown)]

Growing(p, attempt) ==
  LET loop[n \in 1..attempt] ==
        IF n = 1 THEN [delay |-> p.initial_delay, broke |-> FALSE]
        ELSE GrowOnce(p, loop[n - 1])
  IN loop

Unjittered(p, attempt) == Capped(p, Growing(p, attempt)[attempt].delay)

\* The delays grown without the cap.
Raw(p) ==
  LET raw[n \in 1..p.max_attempts] ==
        IF n = 1 THEN p.initial_delay ELSE Grow(p, raw[n - 1])
  IN raw

\* schedule(): grown without the cap and each capped on its own.
Schedule(p) == [n \in 1..(p.max_attempts - 1) |-> Capped(p, Raw(p)[n])]

\* A timedelta above `max` is an OverflowError.  schedule() grows once more than it
\* lists and never stops at the cap; _unjittered stops at the first above it.
ScheduleOverflows(p, max) == \E n \in 2..p.max_attempts : Raw(p)[n] > max

UnjitteredOverflows(p, attempt, max) ==
  \E n \in 2..attempt : Raw(p)[n] > max /\ \A k \in 2..(n - 1) : ~OverCap(p, Raw(p)[k])

WaitsInBroker(p, delay) ==
  /\ p.broker_wait_threshold > 0
  /\ delay > 0
  /\ delay >= p.broker_wait_threshold

InBrokerAbove(p) ==
  {n \in DOMAIN Schedule(p) :
     p.broker_wait_threshold > 0 /\ Schedule(p)[n] > p.broker_wait_threshold}

\* The entries of the schedule that are spent in the broker, and broker_rungs(), whose
\* order only decides which queue is declared first.
InBroker(p) == {n \in DOMAIN Schedule(p) : WaitsInBroker(p, Schedule(p)[n])}

BrokerRungs(p) == {Schedule(p)[n] : n \in InBroker(p)}

\* Jitter moves the delay by up to jitter_factor either way; draw is in -100..100.
Jittered(p, delay, draw) ==
  IF p.jitter_factor > 0 /\ delay > 0
  THEN Times(delay, 10000 + draw * p.jitter_factor, 10000)
  ELSE delay

TooOld(p, age) == p.max_message_age > 0 /\ age >= p.max_message_age

GivesUpOneLate(p, attempt, age) == attempt > p.max_attempts \/ TooOld(p, age)
GivesUpOneEarly(p, attempt, age) == attempt + 1 >= p.max_attempts \/ TooOld(p, age)

GivesUp(p, attempt, age) == attempt >= p.max_attempts \/ TooOld(p, age)

NextWait(p, attempt, age, draw) ==
  LET delay == Unjittered(p, attempt)
  IN IF GivesUp(p, attempt, age) THEN GiveUp
     ELSE IF WaitsInBroker(p, delay) THEN [delay |-> delay, in_broker |-> TRUE]
     ELSE [delay |-> Jittered(p, delay, draw), in_broker |-> FALSE]
=============================================================================
