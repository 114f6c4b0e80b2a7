------------------------------ MODULE Envelope ------------------------------
(***************************************************************************)
(* What travels with a message besides the message, as an object and as    *)
(* headers on the wire (envelope.py, headers.py).  Every service a message *)
(* passes reads the headers of a delivery into an envelope, perhaps changes*)
(* it, and writes the headers of what it publishes from that: a retry, a   *)
(* dead letter, a replay, the next stop of a route.  Other libraries, and  *)
(* newer versions of this one, write headers it has no field for.          *)
(*                                                                         *)
(* A field and its header share a name here.  A value is a text or a       *)
(* number; bytes are the text they decode to, None is the empty text, and a*)
(* moment is its milliseconds: what it has beyond them stays behind.       *)
(***************************************************************************)
EXTENDS Integers

CONSTANTS
  Foreign,    \* x-acemq- names this library has no field for
  AppNames,   \* the application's own names
  Empty,      \* the empty text
  Default,    \* DEFAULT_TYPE
  Numerals,   \* the number each text that int() takes stands for
  Instants,   \* the milliseconds a datetime can hold
  Shown(_)    \* a number as str() writes it

TextFields ==
  {"id", "type", "correlation", "causation", "origin", "error", "claim", "route", "route_id"}
NumberFields == {"version", "attempt", "first_seen", "route_position"}
RESERVED == TextFields \cup NumberFields

ASSUME EnvelopeAssumption ==
  /\ Foreign \cap RESERVED = {} /\ AppNames \cap (RESERVED \cup Foreign) = {}
  /\ Default # Empty /\ Empty \notin DOMAIN Numerals
  /\ Instants \subseteq Int
  /\ \A t \in DOMAIN Numerals : Numerals[t] \in Int

is_reserved(name) == name \notin AppNames

OfText(t) == [kind |-> "text", text |-> t, number |-> 0]
OfNumber(n) == [kind |-> "number", text |-> Empty, number |-> n]

\* The first of two texts that says something: Python's `or`.
Or(t, u) == IF t # Empty THEN t ELSE u

-----------------------------------------------------------------------------
(* The object *)

\* An envelope has its fields, the application's headers, and what it carries on.
Fields(texts, numbers, headers, extensions) ==
  [texts |-> texts, numbers |-> numbers, headers |-> headers, extensions |-> extensions]

\* The least each number may be; the moment has none.
Floor(f, n) == IF f \in {"version", "attempt"} /\ n < 1 THEN 1
               ELSE IF f = "route_position" /\ n < 0 THEN 0 ELSE n

\* __post_init__.
Made(e) ==
  Fields([e.texts EXCEPT !["correlation"] = Or(@, e.texts["id"])],
         [f \in NumberFields |-> Floor(f, e.numbers[f])], e.headers, e.extensions)

\* A reserved name in the application's map is refused.
Admitted(e) == \A name \in DOMAIN e.headers : ~is_reserved(name)

\* What _retry_again, _set_aside and a restarting replay publish instead.
Attempt(e, n) == [e EXCEPT !.numbers = [e.numbers EXCEPT !["attempt"] = n]]

Again(e) == Attempt(e, e.numbers["attempt"] + 1)
SetAside(e, reason) == [e EXCEPT !.texts = [e.texts EXCEPT !["error"] = reason]]
Restarted(e) == Attempt(SetAside(e, Empty), 1)

-----------------------------------------------------------------------------
(* to_headers *)

Always == {"id", "type", "version", "correlation", "attempt", "first_seen"}
IfAny  == {"causation", "origin", "error", "claim"}

RouteFields(e) == IF e.texts["route"] = Empty THEN {}
            ELSE {"route", "route_position"}
                   \cup (IF e.texts["route_id"] = Empty THEN {} ELSE {"route_id"})

Written(e) == Always \cup {f \in IfAny : e.texts[f] # Empty} \cup RouteFields(e)

\* Type and correlation say something whatever the envelope says.
TextOf(e, f, key) ==
  IF f = "type" THEN Or(Or(e.texts[f], key), Default)
  ELSE IF f = "correlation" THEN Or(e.texts[f], e.texts["id"])
  ELSE e.texts[f]

FieldValue(e, f, key) ==
  IF f \in NumberFields THEN OfNumber(e.numbers[f]) ELSE OfText(TextOf(e, f, key))

\* A name that has a field is never overwritten by one that is carried on.
to_headers(e, key) ==
  [n \in (DOMAIN e.extensions \ RESERVED) \cup Written(e) \cup DOMAIN e.headers |->
     IF n \in DOMAIN e.headers THEN e.headers[n]
     ELSE IF n \in Written(e) THEN FieldValue(e, n, key)
     ELSE e.extensions[n]]

-----------------------------------------------------------------------------
(* from_headers *)

TextIn(raw, n) ==
  IF n \notin DOMAIN raw THEN Empty
  ELSE IF raw[n].kind = "text" THEN raw[n].text ELSE Shown(raw[n].number)

\* The header as a number, or the default when it is not one.
NumberIn(raw, n, fallback) ==
  IF n \notin DOMAIN raw THEN fallback
  ELSE IF raw[n].kind = "number" THEN raw[n].number
  ELSE IF raw[n].text \in DOMAIN Numerals THEN Numerals[raw[n].text]
  ELSE fallback

Fallback(f, now) ==
  IF f = "first_seen" THEN now ELSE IF f = "route_position" THEN 0 ELSE 1

\* The moment is the one field whose number can be beyond what it may be: then
\* from_headers raises.
Legible(raw, now) == NumberIn(raw, "first_seen", now) \in Instants

\* `from` is what else a delivery has: its routing key, its message_id, an id made
\* up for it, and the time.
Identifier(raw, from) == Or(Or(TextIn(raw, "id"), from.message_id), from.fresh)

TextRead(raw, f, from) ==
  IF f = "id" THEN Identifier(raw, from)
  ELSE IF f = "type" THEN Or(Or(TextIn(raw, f), from.key), Default)
  ELSE IF f = "correlation" THEN Or(TextIn(raw, f), Identifier(raw, from))
  ELSE TextIn(raw, f)

from_headers(raw, from) ==
  Made(Fields([f \in TextFields |-> TextRead(raw, f, from)],
              [f \in NumberFields |-> NumberIn(raw, f, Fallback(f, from.now))],
              [n \in {m \in DOMAIN raw : ~is_reserved(m)} |-> raw[n]],
              [n \in {m \in DOMAIN raw : is_reserved(m)} \ RESERVED |-> raw[n]]))

-----------------------------------------------------------------------------
(* Properties *)

\* An envelope as the library makes them: with an id, of any type or of none, with a
\* route or with no trace of one.
Proper(e) ==
  /\ e = Fields(e.texts, e.numbers, e.headers, e.extensions)
  /\ e.texts = [f \in TextFields |-> e.texts[f]]
  /\ e.numbers = [f \in NumberFields |-> e.numbers[f]]
  /\ e.headers = [n \in DOMAIN e.headers |-> e.headers[n]] /\ DOMAIN e.headers \subseteq AppNames
  /\ e.extensions = [n \in DOMAIN e.extensions |-> e.extensions[n]]
  /\ DOMAIN e.extensions \subseteq Foreign
  /\ \A f \in {"id", "correlation"} : e.texts[f] # Empty
  /\ \A f \in NumberFields : e.numbers[f] \in Int /\ Floor(f, e.numbers[f]) = e.numbers[f]
  /\ e.numbers["first_seen"] \in Instants
  /\ e.texts["route"] = Empty => e.texts["route_id"] = Empty /\ e.numbers["route_position"] = 0

\* Headers as they may arrive.
IsTable(raw) ==
  /\ DOMAIN raw \subseteq RESERVED \cup Foreign \cup AppNames
  /\ \A n \in DOMAIN raw : raw[n].number \in Int

\* What is left of an envelope whose headers had a run or a position and no route.
Unrouted(e) ==
  IF e.texts["route"] # Empty THEN e
  ELSE [e EXCEPT !.texts = [@ EXCEPT !["route_id"] = Empty],
                 !.numbers = [@ EXCEPT !["route_position"] = 0]]

\* An envelope that was given no type has the routing key it was written under for
\* one, and for want of that the default.
Typed(e, key) == [e EXCEPT !.texts = [@ EXCEPT !["type"] = TextOf(e, "type", key)]]

\* Whoever reads what was written, under whatever routing key, has the envelope
\* that was written, whole, its type the one its writer's routing key gave it.
ReadsBack(e, key, from) ==
  /\ Legible(to_headers(e, key), from.now)
  /\ from_headers(to_headers(e, key), from) = Typed(e, key)

\* What any service publishes after what it read says the same of the message.
GoesOn(raw, key, from, later) ==
  LET e == from_headers(raw, from)
  IN  /\ Admitted(e)
      /\ from_headers(to_headers(e, key), later) = Unrouted(e)

\* And has every header on it that the service does not understand, unchanged.
CarriesOn(raw, key, from) ==
  LET written == to_headers(from_headers(raw, from), key)
  IN \A n \in DOMAIN raw \ RESERVED : n \in DOMAIN written /\ written[n] = raw[n]
=============================================================================
