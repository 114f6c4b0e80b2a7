----------------------------- MODULE MCEnvelope -----------------------------
(* Headers for TLC: nine that may be missing, a text, an empty one, a number *)
(* or one out of bounds; read under one routing key, written under another.  *)
EXTENDS Envelope, TLC

MCForeign  == {"x-acemq-new"}
MCAppNames == {"tenant"}
MCNumerals == "2" :> 2
MCInstants == 0..5
MCShown(n) == ToString(n)

Missing == [OfText("") EXCEPT !.kind = "missing"]

\* A table for every choice of a value, or none, for each name.
Given ==
  [id: {Missing, OfText("a"), OfText("")},
   correlation: {Missing, OfText("c"), OfNumber(2)},
   first_seen: {Missing, OfNumber(3), OfNumber(9), OfText("2"), OfText("x")},
   attempt: {Missing, OfNumber(0), OfNumber(2), OfText("x")},
   route: {Missing, OfText("r"), OfText("")},
   route_id: {Missing, OfText("q")},
   route_position: {Missing, OfNumber(-1), OfNumber(1)},
   tenant: {Missing, OfText("")}]

Table(c, carried) ==
  LET all == ("x-acemq-new" :> carried) @@ c
  IN [n \in {m \in DOMAIN all : all[m] # Missing} |-> all[n]]

From(id, fresh, now) == [key |-> "q", message_id |-> id, fresh |-> fresh, now |-> now]

\* Over every table that can be read: what goes on is the same message, its attempt
\* counted once, and it carries what nobody here understood; one given no type is
\* read with the type its routing key gave it.
ASSUME EnvelopesGoOn ==
  \A c \in Given, carried \in {Missing, OfNumber(2)}, id \in {"", "m"}, key \in {"", "k"} :
    LET raw == Table(c, carried)
        from == From(id, "f", 1)
        later == From("n", "g", 4)
        e == Unrouted(from_headers(raw, from))
    IN Legible(raw, 1) =>
         /\ GoesOn(raw, key, from, later)
         /\ CarriesOn(raw, key, from)
         /\ Proper(e)
         /\ \A x \in {Again(e), SetAside(e, "why"), Restarted(e)} : ReadsBack(x, key, later)
         /\ ReadsBack([e EXCEPT !.texts = [@ EXCEPT !["type"] = ""]], key, later)
=============================================================================
