----------------------------- MODULE MCConsumer -----------------------------
(* Small instances of the consumer for TLC. *)
EXTENDS Consumer, TLC

\* Two attempts, the first wait long enough for a rung.
RungPolicy ==
  [max_attempts |-> 2, initial_delay |-> 4, multiplier |-> [num |-> 2, den |-> 1],
   max_delay |-> 0, jitter_factor |-> 0, max_message_age |-> 9, broker_wait_threshold |-> 4]

Interchangeable == Permutations(Workers)
=============================================================================
