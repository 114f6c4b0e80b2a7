----------------------------- MODULE MCTopology -----------------------------
(* Retry policies and settings for TLC: four units to the second, two to the *)
(* millisecond.                                                              *)
EXTENDS Topology

\* Doubling, the first wait below the threshold and the others on rungs.
Base ==
  [max_attempts |-> 4, initial_delay |-> 8, multiplier |-> [num |-> 2, den |-> 1],
   max_delay |-> 0, jitter_factor |-> 0, max_message_age |-> 0, broker_wait_threshold |-> 12]

\* Doubling; capped at the threshold and jittered; delays that share a name; delays that
\* shrink from above the cap; a cap far below where the schedule overflows; no waiting at
\* all.
MCPolicies ==
  {Base,
   [Base EXCEPT !.max_delay = 12, !.jitter_factor = 20],
   [Base EXCEPT !.multiplier = [num |-> 9, den |-> 8], !.initial_delay = 12],
   [Base EXCEPT !.multiplier = [num |-> 3, den |-> 4], !.initial_delay = 30, !.max_delay = 19],
   [Base EXCEPT !.initial_delay = 13, !.max_delay = 13, !.max_attempts = 5],
   [Base EXCEPT !.initial_delay = 0, !.broker_wait_threshold = 0]}

MCSettings ==
  [how: {"apply"}, policy: MCPolicies, durable: BOOLEAN, quorum: {"default"}]
    \cup [how: {"apply"}, policy: {Base}, durable: BOOLEAN, quorum: {"yes", "no"}]
    \cup [how: {"start"}, policy: MCPolicies, durable: {TRUE}, quorum: {"default"}]
=============================================================================
