---------------------------- MODULE AtLeastOnce ----------------------------
(***************************************************************************)
(* What a producer may rely on once its publish was confirmed: the message *)
(* is owed to the service until it is settled, that is, accepted by a      *)
(* handler, dead-lettered or parked; it is settled in the end, and nothing *)
(* undoes that.  How often it is handled on the way is not promised.       *)
(***************************************************************************)
CONSTANT Msgs

VARIABLE fate

Fates == {"unsent", "owed", "settled"}

Init == fate = [m \in Msgs |-> "unsent"]

Send(m) == fate[m] = "unsent" /\ fate' = [fate EXCEPT ![m] = "owed"]

Settle(m) == fate[m] = "owed" /\ fate' = [fate EXCEPT ![m] = "settled"]

Next == \E m \in Msgs : Send(m) \/ Settle(m)

Safety == Init /\ [][Next]_fate

Spec == Safety /\ \A m \in Msgs : WF_fate(Settle(m))
=============================================================================
