---------------------------- MODULE RequestReply ----------------------------
(***************************************************************************)
(* Asking over messages and waiting for the answer (requestreply.py): a    *)
(* Requester with its table of waiters, calls that time out, are cancelled *)
(* or outlive the requester, and a responder that replies before it        *)
(* settles.  Requests and replies are messages: each may be sent and not   *)
(* be heard of, be delivered again, or be lost with an exclusive queue.    *)
(***************************************************************************)
EXTENDS Integers, FiniteSets, FiniteSetsExt

CONSTANTS
  Calls,      \* the calls of ask(), each with its correlation identifier
  Mute,       \* requests published by others, that name nowhere to reply
  MaxTries,   \* attempts of the responder's retry policy
  MaxFaults,  \* bound on crashes, lost queues, failed publishes and cut-off closes
  None

ASSUME RequestAssumption ==
  /\ IsFiniteSet(Calls \cup Mute) /\ Calls \cap Mute = {}
  /\ MaxTries \in Nat \ {0} /\ MaxFaults \in Nat
  /\ None \notin Calls \cup Mute

VARIABLES
  ask,         \* where each call is
  outcome,     \* what its caller was told
  waiting,     \* Requester._waiting: the correlations registered
  waiter,      \* the future of each call
  requester,   \* the requester: "open", "closing", "closed", or "cut" off closing
  unmatched,   \* Requester._unmatched
  timedOut,    \* Requester._timed_out
  requests,    \* copies of each request on the queue
  tries,       \* how often each was answered by a retry
  dead,        \* requests dead-lettered
  replies,     \* copies of each reply on the reply queue
  hand,        \* the request the responder has
  pc,          \* what it does with it
  answered,    \* ResponderHandle._answered
  unanswerable,
  told,        \* requests a reply was published for
  unheard,     \* requests whose reply is there though its publish failed
  received,    \* how many replies the requester has taken
  faults

askVars  == <<ask, outcome, waiting, waiter, requester, unmatched, timedOut, received>>
workVars == <<hand, pc, answered, unanswerable>>
msgVars  == <<requests, tries, dead, replies, told, unheard>>
vars == <<askVars, workVars, msgVars, faults>>

Requests == Calls \cup Mute
Kinds == {"answer", "error"}

\* The type invariant of every variable.
TypeOK ==
  /\ ask \in [Calls -> {"new", "sending", "waiting", "over"}]
  /\ outcome \in [Calls -> {"none", "answered", "timed_out", "failed", "cancelled"}]
  /\ waiting \subseteq Calls
  /\ waiter \in [Calls -> {"pending", "closed"} \cup Kinds]
  /\ requester \in {"open", "closing", "closed", "cut"}
  /\ unmatched \in Nat /\ timedOut \in 0..Cardinality(Calls) /\ received \in Nat
  /\ requests \in [Requests -> Nat] /\ tries \in [Requests -> 0..MaxTries]
  /\ dead \subseteq Requests
  /\ replies \in [Calls \X Kinds -> Nat]
  /\ hand \in Requests \cup {None}
  /\ pc \in {"idle", "working", "replying", "excusing", "accepting", "rejecting", "retrying"}
  /\ answered \in Int /\ unanswerable \in Nat
  /\ told \subseteq Calls /\ unheard \subseteq Calls
  /\ faults \in 0..MaxFaults

Init ==
  /\ ask = [c \in Calls |-> "new"] /\ outcome = [c \in Calls |-> "none"]
  /\ waiting = {} /\ waiter = [c \in Calls |-> "pending"]
  /\ requester = "open" /\ unmatched = 0 /\ timedOut = 0 /\ received = 0
  /\ requests = [r \in Requests |-> IF r \in Mute THEN 1 ELSE 0]
  /\ tries = [r \in Requests |-> 0] /\ dead = {}
  /\ replies = [k \in Calls \X Kinds |-> 0]
  /\ hand = None /\ pc = "idle" /\ answered = 0 /\ unanswerable = 0
  /\ told = {} /\ unheard = {}
  /\ faults = 0

Fault == faults < MaxFaults /\ faults' = faults + 1

-----------------------------------------------------------------------------
(* ask() *)

\* Registered before the request goes out.
Asks(c) ==
  /\ ask[c] = "new"
  /\ ask' = [ask EXCEPT ![c] = "sending"]
  /\ waiting' = waiting \cup {c}
  /\ UNCHANGED <<outcome, waiter, requester, unmatched, timedOut, received,
                 workVars, msgVars, faults>>

\* The broker has the request before its sender hears so, or without it.
Arrives(c) ==
  /\ ask[c] = "sending" /\ requests[c] = 0 /\ hand # c
  /\ c \notin told \cup dead /\ tries[c] = 0
  /\ requests' = [requests EXCEPT ![c] = 1]
  /\ UNCHANGED <<askVars, workVars, tries, dead, replies, told, unheard, faults>>

Reached(c) == requests[c] > 0 \/ hand = c \/ c \in told \cup dead \/ tries[c] > 0

SendReturns(c) ==
  /\ ask[c] = "sending" /\ Reached(c)
  /\ ask' = [ask EXCEPT ![c] = "waiting"]
  /\ UNCHANGED <<outcome, waiting, waiter, requester, unmatched, timedOut, received,
                 workVars, msgVars, faults>>

\* Every path out of ask() takes the call off the table.
Ends(c, what) ==
  /\ ask' = [ask EXCEPT ![c] = "over"]
  /\ outcome' = [outcome EXCEPT ![c] = what]
  /\ waiting' = waiting \ {c}
  /\ timedOut' = IF what = "timed_out" THEN timedOut + 1 ELSE timedOut
  /\ UNCHANGED <<waiter, requester, unmatched, received, workVars, msgVars>>

\* Refused, returned, or not confirmed in time although it may have arrived.
SendFails(c) ==
  /\ ask[c] = "sending"
  /\ Fault
  /\ Ends(c, "failed")

Answered(c) ==
  /\ ask[c] = "waiting" /\ waiter[c] # "pending"
  /\ Ends(c, IF waiter[c] = "closed" THEN "timed_out" ELSE "answered")
  /\ UNCHANGED faults

\* The deadline, in the very turn a reply was set included.
Expires(c) ==
  /\ ask[c] = "waiting"
  /\ Ends(c, "timed_out")
  /\ UNCHANGED faults

Cancelled(c) ==
  /\ ask[c] \in {"sending", "waiting"}
  /\ Ends(c, "cancelled")
  /\ UNCHANGED faults

\* _receive: whatever comes is accepted.
ReceivesInto(c, k, registered) ==
  /\ requester = "open"
  /\ replies[<<c, k>>] > 0
  /\ replies' = [replies EXCEPT ![<<c, k>>] = @ - 1]
  /\ received' = received + 1
  /\ IF registered
     THEN /\ waiter' = [waiter EXCEPT ![c] = k]
          /\ waiting' = waiting \ {c}
          /\ UNCHANGED unmatched
     ELSE unmatched' = unmatched + 1 /\ UNCHANGED <<waiter, waiting>>
  /\ UNCHANGED <<ask, outcome, requester, timedOut, workVars,
                 requests, tries, dead, told, unheard, faults>>

ReceivesAnything(c, k) == ReceivesInto(c, k, ask[c] \in {"sending", "waiting"})

\* Handed to whoever waits, counted when nobody does.
Receives(c, k) == ReceivesInto(c, k, c \in waiting)

\* close(): the consumer first, and what it had queued goes back to the queue.  A
\* close that was cut off may be called again.
Closes ==
  /\ requester \in {"open", "cut"}
  /\ requester' = "closing"
  /\ UNCHANGED <<ask, outcome, waiting, waiter, unmatched, timedOut, received,
                 workVars, msgVars, faults>>

ClearsOnly ==
  /\ requester = "closing"
  /\ requester' = "closed"
  /\ waiting' = {}
  /\ UNCHANGED <<ask, outcome, waiter, unmatched, timedOut, received, workVars, msgVars, faults>>

\* Then every call still waiting is failed.
FailsWaiting ==
  /\ requester = "closing"
  /\ requester' = "closed"
  /\ waiter' = [c \in Calls |-> IF c \in waiting THEN "closed" ELSE waiter[c]]
  /\ waiting' = {}
  /\ UNCHANGED <<ask, outcome, unmatched, timedOut, received, workVars, msgVars, faults>>

\* Closing the consumer raises, as it may on a channel that is gone, or is cancelled:
\* the consumer has stopped, and the calls that wait keep waiting.
CloseCutOff ==
  /\ requester = "closing"
  /\ Fault
  /\ requester' = "cut"
  /\ UNCHANGED <<ask, outcome, waiting, waiter, unmatched, timedOut, received,
                 workVars, msgVars>>

-----------------------------------------------------------------------------
(* serve() *)

Takes(r) ==
  /\ pc = "idle" /\ requests[r] > 0
  /\ requests' = [requests EXCEPT ![r] = @ - 1]
  /\ hand' = r /\ pc' = "working"
  /\ UNCHANGED <<askVars, answered, unanswerable, tries, dead, replies, told, unheard, faults>>

\* No reply-to in either place: counted, and dead-lettered.
Refuses ==
  /\ pc = "working" /\ hand \in Mute
  /\ unanswerable' = unanswerable + 1
  /\ pc' = "rejecting"
  /\ UNCHANGED <<askVars, hand, answered, msgVars, faults>>

RespondsUncounted ==
  /\ pc = "working" /\ hand \in Calls
  /\ pc' \in {"replying", "excusing"}
  /\ UNCHANGED <<askVars, hand, answered, unanswerable, msgVars, faults>>

\* An answer is counted before its reply goes out.
Responds ==
  /\ pc = "working" /\ hand \in Calls
  /\ \/ pc' = "replying" /\ answered' = answered + 1
     \/ pc' = "excusing" /\ UNCHANGED answered
  /\ UNCHANGED <<askVars, hand, unanswerable, msgVars, faults>>

Kind == IF pc = "replying" THEN "answer" ELSE "error"

\* Not mandatory: a reply to a queue that is gone is confirmed all the same.
Replies ==
  /\ pc \in {"replying", "excusing"}
  /\ replies' = [replies EXCEPT ![<<hand, Kind>>] = @ + 1]
  /\ told' = told \cup {hand}
  /\ pc' = IF pc = "replying" THEN "accepting" ELSE "rejecting"
  /\ UNCHANGED <<askVars, hand, answered, unanswerable, requests, tries, dead, unheard, faults>>

ReplyFailsAccepted ==
  /\ pc \in {"replying", "excusing"}
  /\ Fault
  /\ answered' = IF pc = "replying" THEN answered - 1 ELSE answered
  /\ pc' = "accepting"
  /\ UNCHANGED <<askVars, hand, unanswerable, msgVars>>

\* The publish raised; the broker may have the reply all the same.
ReplyFails ==
  /\ pc \in {"replying", "excusing"}
  /\ Fault
  /\ answered' = IF pc = "replying" THEN answered - 1 ELSE answered
  /\ pc' = "retrying"
  /\ \/ UNCHANGED <<replies, unheard>>
     \/ /\ replies' = [replies EXCEPT ![<<hand, Kind>>] = @ + 1]
        /\ unheard' = unheard \cup {hand}
  /\ UNCHANGED <<askVars, hand, unanswerable, requests, tries, dead, told>>

\* The consumer settles: gone, dead-lettered, or back for another attempt.
Settles ==
  /\ pc \in {"accepting", "rejecting", "retrying"}
  /\ LET again == pc = "retrying" /\ tries[hand] + 1 < MaxTries
     IN  /\ requests' = IF again THEN [requests EXCEPT ![hand] = @ + 1] ELSE requests
         /\ tries' = IF pc = "retrying" THEN [tries EXCEPT ![hand] = @ + 1] ELSE tries
         /\ dead' = IF pc # "accepting" /\ ~again THEN dead \cup {hand} ELSE dead
  /\ hand' = None /\ pc' = "idle"
  /\ UNCHANGED <<askVars, answered, unanswerable, replies, told, unheard, faults>>

-----------------------------------------------------------------------------
(* Faults *)

\* The responder's worker is cut off, and the broker hands the request out again;
\* the counters stand.
ResponderCrashes ==
  /\ pc # "idle"
  /\ Fault
  /\ requests' = [requests EXCEPT ![hand] = @ + 1]
  /\ hand' = None /\ pc' = "idle"
  /\ UNCHANGED <<askVars, answered, unanswerable, tries, dead, replies, told, unheard>>

\* The requester's connection goes, and its exclusive queue with it.
ReplyQueueLost ==
  /\ requester = "open"
  /\ Fault
  /\ replies' = [k \in Calls \X Kinds |-> 0]
  /\ UNCHANGED <<askVars, workVars, requests, tries, dead, told, unheard>>

Works == (\E r \in Requests : Takes(r)) \/ Refuses \/ Responds \/ Replies \/ ReplyFails \/ Settles

Next ==
  \/ \E c \in Calls : \/ Asks(c) \/ Arrives(c) \/ SendReturns(c) \/ SendFails(c)
                      \/ Answered(c) \/ Expires(c) \/ Cancelled(c)
                      \/ \E k \in Kinds : Receives(c, k)
  \/ Closes \/ FailsWaiting \/ CloseCutOff
  \/ Works \/ ResponderCrashes \/ ReplyQueueLost

Spec == Init /\ [][Next]_vars

\* Publishes end, tasks that can run do, replies are taken and the responder
\* works.  Nothing is assumed of deadlines.
FairSpec ==
  /\ Spec
  /\ \A c \in Calls : /\ WF_vars(Arrives(c)) /\ WF_vars(SendReturns(c)) /\ WF_vars(Answered(c))
                      /\ \A k \in Kinds : WF_vars(Receives(c, k))
  /\ WF_vars(FailsWaiting) /\ WF_vars(Works)

-----------------------------------------------------------------------------
(* Properties *)

\* Every reply the requester takes is either given to the call that waits for
\* it or counted as unmatched, a reply that crosses its call's deadline
\* included; a call that ended leaves nothing on the table, and a call counts as
\* timed out exactly if its caller is told so.  The responder's answered counter is
\* never behind what callers can see, unless the publish of a reply failed though
\* the broker had it.
EveryReplyAccounted ==
  /\ TypeOK
  /\ received = unmatched + Cardinality({c \in Calls : waiter[c] \in Kinds})
  /\ \A c \in waiting : ask[c] # "over" /\ waiter[c] = "pending"
  /\ \A c \in Calls : outcome[c] = "answered" => waiter[c] \in Kinds
  /\ timedOut = Cardinality({c \in Calls : outcome[c] = "timed_out"})
  /\ Cardinality({c \in Calls \ unheard : waiter[c] = "answer"}) <= answered

\* A request that reached the responder is answered, dead-lettered, or still to
\* be answered: failing replies and crashes never leave a caller untold in
\* silence.
ToldOrOwed ==
  \A c \in Calls :
    (ask[c] = "waiting" \/ outcome[c] = "answered") =>
      c \in told \cup dead \cup unheard \/ requests[c] > 0 \/ hand = c

\* Not so: requestreply.py says of the counter "there is no interleaving in which the answer is visible and
\* the number is not".
NeverBehind == Cardinality({c \in Calls : waiter[c] = "answer"}) <= answered

\* Closing a requester ends every call it had taken on at once, one still being
\* sent included: none of them waits out its deadline, unless the close was itself
\* cut off, and then until it is closed again.
CloseEndsCalls ==
  \A c \in Calls :
    (c \in waiting /\ requester = "closing") ~> (ask[c] = "over" \/ requester = "cut")
=============================================================================
