------------------------------ MODULE MCRouting ------------------------------
(* Two runs in each of three setups. *)
EXTENDS RoutingSlip, MCEnvelope

CONSTANTS r1, r2

\* A slip of JSON whose steps may be written by name.
Plain == [form |-> "json", at |-> 1, nameable |-> TRUE, lost |-> FALSE]

\* A pipeline: a slip that leads to where nothing is bound, and a message without
\* one.  Stops told to write names: steps on two exchanges, and a slip asked for in a
\* form it cannot have.
MCSetups ==
  { [pipeline |-> TRUE, form |-> "kept",
     route |-> r1 :> [Plain EXCEPT !.lost = TRUE] @@ r2 :> [Plain EXCEPT !.form = "none", !.at = 2]],
    [pipeline |-> FALSE, form |-> "names",
     route |-> r1 :> Plain @@ r2 :> [Plain EXCEPT !.nameable = FALSE]],
    [pipeline |-> FALSE, form |-> "names",
     route |-> r1 :> Plain @@ r2 :> [Plain EXCEPT !.form = "names", !.nameable = FALSE]] }
==============================================================================
