------------------------- MODULE RequestReplyProofs -------------------------
(***************************************************************************)
(* Proofs about asking and answering for any calls, requests of others,    *)
(* attempts and faults.                                                    *)
(***************************************************************************)
EXTENDS RequestReply, FiniteSetTheorems, TLAPS

-----------------------------------------------------------------------------
(* The inductive invariant *)

\* A call on the table is under way and nobody has set its future; one that was
\* answered had a reply set.
Table ==
  \A c \in Calls :
    /\ ask[c] = "new" => waiter[c] = "pending"
    /\ ask[c] # "over" => outcome[c] = "none"
    /\ c \in waiting => ask[c] \in {"sending", "waiting"} /\ waiter[c] = "pending"
    /\ outcome[c] = "answered" => waiter[c] \in Kinds

Got == {c \in Calls : waiter[c] \in Kinds}
Late == {c \in Calls : outcome[c] = "timed_out"}

\* The calls whose answer is there to be seen, now or once it is taken.
Visible == {c \in Calls \ unheard : waiter[c] = "answer" \/ replies[<<c, "answer">>] > 0}

\* The responder counts before it publishes.
CountedFirst == Cardinality(Visible) + (IF pc = "replying" THEN 1 ELSE 0) <= answered

Totals ==
  /\ received = unmatched + Cardinality(Got)
  /\ timedOut = Cardinality(Late)
  /\ CountedFirst

\* There is one copy of a request, on the queue or in hand, with an attempt left.
OneCopy ==
  /\ pc = "idle" <=> hand = None
  /\ pc \in {"replying", "excusing", "accepting", "retrying"} => hand \in Calls
  /\ \A r \in Requests :
       /\ requests[r] \in {0, 1}
       /\ hand = r => requests[r] = 0
       /\ requests[r] > 0 \/ hand = r => tries[r] < MaxTries

\* Where a request that went out can be.
Somewhere(c) == c \in told \cup dead \cup unheard \/ requests[c] > 0 \/ hand = c

Owed ==
  /\ pc = "accepting" => hand \in told
  /\ \A c \in Calls :
       ask[c] = "waiting" \/ outcome[c] = "answered" \/ tries[c] > 0 => Somewhere(c)

AskingInv == TypeOK /\ Table /\ Totals /\ OneCopy /\ Owed

-----------------------------------------------------------------------------
(* The groups of steps *)

\* What a caller does, but for Arrives.
Caller(c) ==
  \/ Asks(c) \/ SendReturns(c) \/ SendFails(c) \/ Answered(c) \/ Expires(c) \/ Cancelled(c)

Requesting ==
  \/ \E c \in Calls : Caller(c) \/ Arrives(c) \/ \E k \in Kinds : Receives(c, k)
  \/ Closes \/ FailsWaiting \/ CloseCutOff

Responding == Works \/ ResponderCrashes

\* Every step is in one of them.
LEMMA StepKinds == Next => Requesting \/ Responding \/ ReplyQueueLost
BY DEF Next, Requesting, Responding, Caller

\* The sets that are counted are finite.
LEMMA Countable ==
  /\ IsFiniteSet(Calls)
  /\ IsFiniteSet(Got) /\ IsFiniteSet(Late) /\ IsFiniteSet(Visible)
  /\ Cardinality(Got) \in Nat /\ Cardinality(Late) \in Nat /\ Cardinality(Visible) \in Nat
  /\ Cardinality(Late) <= Cardinality(Calls) /\ Cardinality(Calls) \in Nat
<1>1. Calls \in SUBSET (Calls \cup Mute)
  OBVIOUS
<1>2. IsFiniteSet(Calls)
  BY <1>1, RequestAssumption, FS_Subset
<1>3. Got \in SUBSET Calls /\ Late \in SUBSET Calls /\ Visible \in SUBSET Calls
  BY DEF Got, Late, Visible
<1>4. /\ IsFiniteSet(Got) /\ IsFiniteSet(Late) /\ IsFiniteSet(Visible)
      /\ Cardinality(Late) <= Cardinality(Calls)
  BY <1>2, <1>3, FS_Subset
<1> QED
  BY <1>2, <1>4, FS_CardinalityType

-----------------------------------------------------------------------------
(* Types and copies *)

\* A request is on the queue once, and tried no more often than the policy says.
LEMMA CopiesStep ==
  ASSUME TypeOK, OneCopy, Next
  PROVE  /\ requests' \in [Requests -> Nat] /\ tries' \in [Requests -> 0..MaxTries]
         /\ OneCopy'
<1>1. /\ requests \in [Requests -> Nat] /\ tries \in [Requests -> 0..MaxTries]
      /\ hand \in Requests \cup {None} /\ MaxTries \in Nat \ {0}
      /\ Calls \subseteq Requests /\ Mute \subseteq Requests /\ None \notin Requests
  BY RequestAssumption DEF TypeOK, Requests
<1>2. CASE \E c \in Calls : Arrives(c)
  <2>1. PICK c \in Calls : Arrives(c)
    BY <1>2
  <2>2. /\ requests' = [requests EXCEPT ![c] = 1] /\ tries[c] = 0 /\ hand # c
        /\ pc' = pc /\ hand' = hand /\ tries' = tries
    BY <2>1 DEF Arrives, workVars
  <2> QED
    BY <1>1, <2>2 DEF OneCopy
<1>3. CASE \E r \in Requests : Takes(r)
  <2>1. PICK r \in Requests : Takes(r)
    BY <1>3
  <2>2. /\ pc = "idle" /\ requests[r] > 0 /\ requests' = [requests EXCEPT ![r] = @ - 1]
        /\ hand' = r /\ pc' = "working" /\ tries' = tries
    BY <2>1 DEF Takes
  <2>3. requests[r] = 1 /\ hand = None
    BY <1>1, <2>2 DEF OneCopy
  <2>4. requests' = [requests EXCEPT ![r] = 0]
    BY <2>2, <2>3
  <2> QED
    BY <1>1, <2>2, <2>3, <2>4 DEF OneCopy
<1>4. CASE Settles
  <2> DEFINE again == pc = "retrying" /\ tries[hand] + 1 < MaxTries
  <2>1. /\ pc \in {"accepting", "rejecting", "retrying"}
        /\ requests' = IF again THEN [requests EXCEPT ![hand] = @ + 1] ELSE requests
        /\ tries' = IF pc = "retrying" THEN [tries EXCEPT ![hand] = @ + 1] ELSE tries
        /\ hand' = None /\ pc' = "idle"
    BY <1>4 DEF Settles
  <2>2. hand \in Requests /\ requests[hand] = 0 /\ tries[hand] < MaxTries
    BY <1>1, <2>1 DEF OneCopy
  <2>3. tries[hand] + 1 \in 0..MaxTries /\ tries[hand] \in Nat
    BY <1>1, <2>2
  <2>4. requests' = IF again THEN [requests EXCEPT ![hand] = 1] ELSE requests
    BY <2>1, <2>2
  <2>5. requests' \in [Requests -> Nat] /\ tries' \in [Requests -> 0..MaxTries]
    BY <1>1, <2>1, <2>2, <2>3, <2>4
  <2>6. ASSUME NEW r \in Requests
        PROVE  requests'[r] \in {0, 1} /\ (requests'[r] > 0 => tries'[r] < MaxTries)
    <3>1. CASE r = hand
      BY <1>1, <2>1, <2>2, <2>3, <2>4, <3>1
    <3>2. CASE r # hand
      BY <1>1, <2>1, <2>2, <2>4, <3>2 DEF OneCopy
    <3> QED
      BY <3>1, <3>2
  <2> QED
    BY <1>1, <2>1, <2>5, <2>6 DEF OneCopy
<1>5. CASE ResponderCrashes
  <2>1. /\ pc # "idle" /\ requests' = [requests EXCEPT ![hand] = @ + 1]
        /\ hand' = None /\ pc' = "idle" /\ tries' = tries
    BY <1>5 DEF ResponderCrashes
  <2>2. hand \in Requests /\ requests[hand] = 0 /\ tries[hand] < MaxTries
    BY <1>1, <2>1 DEF OneCopy
  <2>3. requests' = [requests EXCEPT ![hand] = 1]
    BY <2>1, <2>2
  <2> QED
    BY <1>1, <2>1, <2>2, <2>3 DEF OneCopy
<1>6. CASE Refuses \/ Responds \/ Replies \/ ReplyFails
  <2>1. /\ hand' = hand /\ requests' = requests /\ tries' = tries /\ pc # "idle"
        /\ pc' \in {"rejecting", "replying", "excusing", "accepting", "retrying"}
        /\ pc' # "rejecting" => hand \in Calls
    BY <1>6 DEF Refuses, Responds, Replies, ReplyFails, msgVars, OneCopy
  <2> QED
    BY <1>1, <2>1 DEF OneCopy
<1>7. CASE \/ \E c \in Calls : Caller(c) \/ \E k \in Kinds : Receives(c, k)
           \/ Closes \/ FailsWaiting \/ CloseCutOff \/ ReplyQueueLost
  <2>1. UNCHANGED <<hand, pc, requests, tries>>
    BY <1>7 DEF Caller, Asks, SendReturns, SendFails, Answered, Expires, Cancelled, Ends,
       Receives, ReceivesInto, Closes, CloseCutOff, FailsWaiting, ReplyQueueLost, workVars, msgVars
  <2> QED
    BY <1>1, <2>1 DEF OneCopy
<1> QED
  BY <1>2, <1>3, <1>4, <1>5, <1>6, <1>7, StepKinds DEF Requesting, Responding, Works
\* The calls keep their types.
LEMMA CallsTyped ==
  ASSUME TypeOK, Next
  PROVE  /\ ask' \in [Calls -> {"new", "sending", "waiting", "over"}]
         /\ outcome' \in [Calls -> {"none", "answered", "timed_out", "failed", "cancelled"}]
         /\ waiting' \subseteq Calls
         /\ waiter' \in [Calls -> {"pending", "closed"} \cup Kinds]
         /\ requester' \in {"open", "closing", "closed", "cut"}
<1>1. /\ ask \in [Calls -> {"new", "sending", "waiting", "over"}]
      /\ outcome \in [Calls -> {"none", "answered", "timed_out", "failed", "cancelled"}]
      /\ waiting \subseteq Calls
      /\ waiter \in [Calls -> {"pending", "closed"} \cup Kinds]
      /\ requester \in {"open", "closing", "closed", "cut"}
  BY DEF TypeOK
<1>2. ASSUME NEW c \in Calls,
             \/ Caller(c) \/ Arrives(c)
             \/ \E k \in Kinds : Receives(c, k)
      PROVE  /\ \/ ask' = ask
                \/ \E a \in {"sending", "waiting", "over"} :
                     ask' = [ask EXCEPT ![c] = a]
             /\ \/ outcome' = outcome
                \/ \E o \in {"answered", "timed_out", "failed", "cancelled"} :
                     outcome' = [outcome EXCEPT ![c] = o]
             /\ waiting' \in {waiting, waiting \cup {c}, waiting \ {c}}
             /\ waiter' = waiter \/ \E k \in Kinds : waiter' = [waiter EXCEPT ![c] = k]
             /\ requester' = requester
  BY <1>2 DEF Caller, Asks, SendReturns, SendFails, Answered, Expires, Cancelled, Ends,
     Arrives, Receives, ReceivesInto, askVars
<1>3. CASE \E c \in Calls : \/ Caller(c) \/ Arrives(c)
                            \/ \E k \in Kinds : Receives(c, k)
  BY <1>1, <1>2, <1>3
<1>4. CASE Closes \/ FailsWaiting \/ CloseCutOff
  BY <1>1, <1>4 DEF Closes, CloseCutOff, FailsWaiting
<1>5. CASE Responding \/ ReplyQueueLost
  BY <1>1, <1>5 DEF Responding, Works, Takes, Refuses, Responds, Replies, ReplyFails, Settles,
     ResponderCrashes, ReplyQueueLost, askVars
<1> QED
  BY <1>3, <1>4, <1>5, StepKinds DEF Requesting

\* So do the replies and the responder.
LEMMA RepliesTyped ==
  ASSUME TypeOK, OneCopy, Next
  PROVE  /\ dead' \subseteq Requests /\ hand' \in Requests \cup {None}
         /\ pc' \in {"idle", "working", "replying", "excusing", "accepting", "rejecting",
                     "retrying"}
         /\ replies' \in [Calls \X Kinds -> Nat]
         /\ told' \subseteq Calls /\ unheard' \subseteq Calls
         /\ answered' \in Int /\ unanswerable' \in Nat
         /\ faults' \in 0..MaxFaults /\ unmatched' \in Nat /\ received' \in Nat
<1>1. /\ dead \subseteq Requests /\ hand \in Requests \cup {None}
      /\ pc \in {"idle", "working", "replying", "excusing", "accepting", "rejecting", "retrying"}
      /\ replies \in [Calls \X Kinds -> Nat]
      /\ told \subseteq Calls /\ unheard \subseteq Calls
  BY DEF TypeOK
<1>2. /\ answered \in Int /\ unanswerable \in Nat /\ faults \in 0..MaxFaults
      /\ unmatched \in Nat /\ received \in Nat /\ MaxFaults \in Nat
  BY RequestAssumption DEF TypeOK
<1>3. /\ answered' \in {answered, answered + 1, answered - 1}
      /\ unanswerable' \in {unanswerable, unanswerable + 1}
      /\ unmatched' \in {unmatched, unmatched + 1}
      /\ received' \in {received, received + 1}
      /\ faults' = faults \/ Fault
  BY StepKinds DEF Requesting, Responding, Works, Caller, Asks, SendReturns, SendFails, Answered,
     Expires, Cancelled, Ends, Arrives, Receives, ReceivesInto, Closes, CloseCutOff,
     FailsWaiting, Takes,
     Refuses, Responds, Replies, ReplyFails, Settles, ResponderCrashes, ReplyQueueLost, askVars,
     workVars
<1>4. /\ answered' \in Int /\ unanswerable' \in Nat
      /\ faults' \in 0..MaxFaults /\ unmatched' \in Nat /\ received' \in Nat
  BY <1>2, <1>3 DEF Fault
<1>5. CASE Requesting
  <2>1. /\ UNCHANGED <<dead, told, unheard>> /\ UNCHANGED <<hand, pc>>
        /\ \/ replies' = replies
           \/ \E c \in Calls, k \in Kinds :
                replies[<<c, k>>] > 0 /\ replies' = [replies EXCEPT ![<<c, k>>] = @ - 1]
    BY <1>5 DEF Requesting, Caller, Asks, SendReturns, SendFails, Answered, Expires, Cancelled,
       Ends, Arrives, Receives, ReceivesInto, Closes, CloseCutOff, FailsWaiting, workVars, msgVars
  <2>2. replies' \in [Calls \X Kinds -> Nat]
    <3>1. CASE replies' = replies
      BY <1>1, <3>1
    <3>2. ASSUME NEW c \in Calls, NEW k \in Kinds, replies[<<c, k>>] > 0,
                 replies' = [replies EXCEPT ![<<c, k>>] = @ - 1]
          PROVE  replies' \in [Calls \X Kinds -> Nat]
      <4>1. <<c, k>> \in Calls \X Kinds
        OBVIOUS
      <4>2. replies[<<c, k>>] - 1 \in Nat
        BY <1>1, <3>2, <4>1
      <4> QED
        BY <1>1, <3>2, <4>1, <4>2
    <3> QED
      BY <2>1, <3>1, <3>2
  <2> QED
    BY <1>1, <1>4, <2>1, <2>2
<1>6. CASE Responding
  <2>1. /\ hand' \in Requests \cup {None}
        /\ pc' \in {"idle", "working", "replying", "excusing", "accepting", "rejecting",
                    "retrying"}
    BY <1>1, <1>6 DEF Responding, Works, Takes, Refuses, Responds, Replies, ReplyFails, Settles,
       ResponderCrashes
  <2>2. CASE Replies \/ ReplyFails
    <3>1. hand \in Calls /\ Kind \in Kinds
      BY <2>2 DEF Replies, ReplyFails, OneCopy, Kind, Kinds
    <3>2. <<hand, Kind>> \in Calls \X Kinds /\ replies[<<hand, Kind>>] + 1 \in Nat
      BY <1>1, <3>1
    <3>3. \/ replies' = replies
          \/ replies' = [replies EXCEPT ![<<hand, Kind>>] = @ + 1]
      BY <2>2 DEF Replies, ReplyFails
    <3>4. /\ dead' = dead /\ told' \in {told, told \cup {hand}}
          /\ unheard' \in {unheard, unheard \cup {hand}}
      BY <2>2 DEF Replies, ReplyFails
    <3>5. replies' \in [Calls \X Kinds -> Nat]
      BY <1>1, <3>2, <3>3
    <3> QED
      BY <1>1, <1>4, <2>1, <3>1, <3>4, <3>5
  <2>3. CASE ~(Replies \/ ReplyFails)
    <3>1. /\ replies' = replies /\ told' = told /\ unheard' = unheard
          /\ \/ dead' = dead
             \/ pc \in {"accepting", "rejecting", "retrying"} /\ dead' = dead \cup {hand}
      BY <1>6, <2>3 DEF Responding, Works, Takes, Refuses, Responds, Settles, ResponderCrashes,
         msgVars
    <3>2. dead' \subseteq Requests
      BY <1>1, <3>1 DEF OneCopy
    <3> QED
      BY <1>1, <1>4, <2>1, <3>1, <3>2
  <2> QED
    BY <2>2, <2>3
<1>7. CASE ReplyQueueLost
  BY <1>1, <1>4, <1>7 DEF ReplyQueueLost, workVars
<1> QED
  BY <1>5, <1>6, <1>7, StepKinds
-----------------------------------------------------------------------------
(* The table of waiters *)

\* Whichever way a call ends, it leaves the table, and what came for it stays.
LEMMA TableStep ==
  ASSUME TypeOK, Table, Next
  PROVE  Table'
<1>1. /\ ask \in [Calls -> {"new", "sending", "waiting", "over"}]
      /\ outcome \in [Calls -> {"none", "answered", "timed_out", "failed", "cancelled"}]
      /\ waiting \subseteq Calls
      /\ waiter \in [Calls -> {"pending", "closed"} \cup Kinds]
  BY DEF TypeOK
<1>2. ASSUME NEW c \in Calls, Asks(c) \/ SendReturns(c) PROVE Table'
  <2>1. /\ \/ ask[c] = "new" /\ ask' = [ask EXCEPT ![c] = "sending"]
              /\ waiting' = waiting \cup {c}
           \/ ask[c] = "sending" /\ ask' = [ask EXCEPT ![c] = "waiting"] /\ waiting' = waiting
        /\ outcome' = outcome /\ waiter' = waiter
    BY <1>2 DEF Asks, SendReturns
  <2> QED
    BY <1>1, <2>1 DEF Table
<1>3. ASSUME NEW c \in Calls, SendFails(c) \/ Answered(c) \/ Expires(c) \/ Cancelled(c)
      PROVE  Table'
  <2>1. PICK what :
          /\ ask' = [ask EXCEPT ![c] = "over"] /\ outcome' = [outcome EXCEPT ![c] = what]
          /\ waiting' = waiting \ {c} /\ waiter' = waiter
          /\ what = "answered" => waiter[c] \notin {"pending", "closed"}
          /\ ask[c] # "new"
    BY <1>3 DEF SendFails, Answered, Expires, Cancelled, Ends
  <2>2. what = "answered" => waiter[c] \in Kinds
    BY <1>1, <2>1
  <2> QED
    BY <1>1, <2>1, <2>2 DEF Table
<1>4. ASSUME NEW c \in Calls, NEW k \in Kinds, Receives(c, k) PROVE Table'
  <2>1. /\ ask' = ask /\ outcome' = outcome
        /\ \/ c \in waiting /\ waiter' = [waiter EXCEPT ![c] = k] /\ waiting' = waiting \ {c}
           \/ waiter' = waiter /\ waiting' = waiting
    BY <1>4 DEF Receives, ReceivesInto
  <2> QED
    BY <1>1, <2>1 DEF Table
<1>5. CASE FailsWaiting
  <2>1. /\ ask' = ask /\ outcome' = outcome /\ waiting' = {}
        /\ waiter' = [c \in Calls |-> IF c \in waiting THEN "closed" ELSE waiter[c]]
    BY <1>5 DEF FailsWaiting
  <2> QED
    BY <1>1, <2>1 DEF Table
<1>6. CASE \/ \E c \in Calls : Arrives(c)
           \/ Closes \/ CloseCutOff \/ Responding \/ ReplyQueueLost
  <2>1. UNCHANGED <<ask, outcome, waiting, waiter>>
    BY <1>6 DEF Arrives, Closes, CloseCutOff, Responding, Works, Takes, Refuses, Responds, Replies,
       ReplyFails, Settles, ResponderCrashes, ReplyQueueLost, askVars
  <2> QED
    BY <2>1 DEF Table
<1> QED
  BY <1>2, <1>3, <1>4, <1>5, <1>6, StepKinds DEF Requesting, Caller

-----------------------------------------------------------------------------
(* The counters *)

\* A reply taken is given to one call, or counted as unmatched.
LEMMA ReceivedStep ==
  ASSUME TypeOK, Table, received = unmatched + Cardinality(Got), Next
  PROVE  received' = unmatched' + Cardinality(Got')
<1>1. /\ waiting \subseteq Calls /\ waiter \in [Calls -> {"pending", "closed"} \cup Kinds]
      /\ unmatched \in Nat
  BY DEF TypeOK
<1>2. ASSUME NEW c \in Calls, NEW k \in Kinds, Receives(c, k)
      PROVE  received' = unmatched' + Cardinality(Got')
  <2>1. CASE c \in waiting
    <3>1. waiter' = [waiter EXCEPT ![c] = k] /\ received' = received + 1 /\ unmatched' = unmatched
      BY <1>2, <2>1 DEF Receives, ReceivesInto
    <3>2. waiter[c] = "pending"
      BY <2>1 DEF Table
    <3>3. c \notin Got /\ Got' = Got \cup {c}
      BY <1>1, <3>1, <3>2 DEF Got, Kinds
    <3>4. Cardinality(Got') = Cardinality(Got) + 1
      BY <3>3, Countable, FS_AddElement
    <3> QED
      BY <1>1, <3>1, <3>4, Countable
  <2>2. CASE c \notin waiting
    <3>1. waiter' = waiter /\ received' = received + 1 /\ unmatched' = unmatched + 1
      BY <1>2, <2>2 DEF Receives, ReceivesInto
    <3>2. Got' = Got
      BY <3>1 DEF Got
    <3> QED
      BY <1>1, <3>1, <3>2, Countable
  <2> QED
    BY <2>1, <2>2
<1>3. CASE FailsWaiting
  <2>1. /\ waiter' = [c \in Calls |-> IF c \in waiting THEN "closed" ELSE waiter[c]]
        /\ received' = received /\ unmatched' = unmatched
    BY <1>3 DEF FailsWaiting
  <2>2. \A c \in waiting : waiter[c] = "pending"
    BY <1>1 DEF Table
  <2>3. Got' = Got
    BY <1>1, <2>1, <2>2 DEF Got, Kinds
  <2> QED
    BY <2>1, <2>3
<1>4. CASE \/ \E c \in Calls : Caller(c) \/ Arrives(c)
           \/ Closes \/ CloseCutOff \/ Responding \/ ReplyQueueLost
  <2>1. UNCHANGED <<waiter, received, unmatched>>
    BY <1>4 DEF Caller, Asks, SendReturns, SendFails, Answered, Expires, Cancelled, Ends, Arrives,
       Closes, CloseCutOff, Responding, Works, Takes, Refuses, Responds, Replies, ReplyFails,
       Settles,
       ResponderCrashes, ReplyQueueLost, askVars
  <2> QED
    BY <2>1 DEF Got
<1> QED
  BY <1>2, <1>3, <1>4, StepKinds DEF Requesting

\* A call counts as timed out when its caller is told so.
LEMMA TimedOutStep ==
  ASSUME TypeOK, Table, timedOut = Cardinality(Late), Next
  PROVE  timedOut' = Cardinality(Late')
<1>1. outcome \in [Calls -> {"none", "answered", "timed_out", "failed", "cancelled"}]
  BY DEF TypeOK
<1>2. ASSUME NEW c \in Calls, SendFails(c) \/ Answered(c) \/ Expires(c) \/ Cancelled(c)
      PROVE  timedOut' = Cardinality(Late')
  <2>1. PICK what :
          /\ outcome' = [outcome EXCEPT ![c] = what]
          /\ timedOut' = IF what = "timed_out" THEN timedOut + 1 ELSE timedOut
          /\ ask[c] \in {"sending", "waiting"}
    BY <1>2 DEF SendFails, Answered, Expires, Cancelled, Ends
  <2>2. outcome[c] = "none" /\ c \notin Late
    BY <2>1 DEF Table, Late
  <2>3. CASE what = "timed_out"
    <3>1. Late' = Late \cup {c}
      BY <1>1, <2>1, <2>3 DEF Late
    <3> QED
      BY <2>1, <2>2, <2>3, <3>1, Countable, FS_AddElement
  <2>4. CASE what # "timed_out"
    <3>1. Late' = Late
      BY <1>1, <2>1, <2>2, <2>4 DEF Late
    <3> QED
      BY <2>1, <2>4, <3>1
  <2> QED
    BY <2>3, <2>4
<1>3. CASE \/ \E c \in Calls : \/ Asks(c) \/ SendReturns(c) \/ Arrives(c)
                               \/ \E k \in Kinds : Receives(c, k)
           \/ Closes \/ FailsWaiting \/ CloseCutOff \/ Responding \/ ReplyQueueLost
  <2>1. outcome' = outcome /\ timedOut' = timedOut
    BY <1>3 DEF Asks, SendReturns, Arrives, Receives, ReceivesInto, Closes, CloseCutOff,
       FailsWaiting,
       Responding, Works, Takes, Refuses, Responds, Replies, ReplyFails, Settles,
       ResponderCrashes, ReplyQueueLost, askVars
  <2> QED
    BY <2>1 DEF Late
<1> QED
  BY <1>2, <1>3, StepKinds DEF Requesting, Caller
\* The counter of answers stays ahead: it grows before an answer is published and
\* is taken back only with one that counts no more.
LEMMA CountedStep ==
  ASSUME TypeOK, Table, OneCopy, CountedFirst, Next
  PROVE  CountedFirst'
<1>1. /\ waiter \in [Calls -> {"pending", "closed"} \cup Kinds]
      /\ replies \in [Calls \X Kinds -> Nat] /\ answered \in Int
      /\ Kinds = {"answer", "error"}
  BY DEF TypeOK, Kinds
<1>2. /\ IsFiniteSet(Visible) /\ Cardinality(Visible) \in Nat
      /\ \A x : IsFiniteSet(Visible \cup {x}) /\ Cardinality(Visible \cup {x}) \in Nat
                /\ Cardinality(Visible \cup {x}) <= Cardinality(Visible) + 1
  <2>1. IsFiniteSet(Visible) /\ Cardinality(Visible) \in Nat
    BY Countable
  <2>2. ASSUME NEW x
        PROVE  /\ IsFiniteSet(Visible \cup {x}) /\ Cardinality(Visible \cup {x}) \in Nat
               /\ Cardinality(Visible \cup {x}) <= Cardinality(Visible) + 1
    <3>1. /\ IsFiniteSet(Visible \cup {x})
          /\ \/ Cardinality(Visible \cup {x}) = Cardinality(Visible)
             \/ Cardinality(Visible \cup {x}) = Cardinality(Visible) + 1
      BY <2>1, FS_AddElement
    <3> QED
      BY <2>1, <3>1
  <2> QED
    BY <2>1, <2>2
<1>3. ASSUME Visible' \subseteq Visible
      PROVE  Cardinality(Visible') \in Nat /\ Cardinality(Visible') <= Cardinality(Visible)
  BY <1>2, <1>3, FS_Subset, FS_CardinalityType
<1>4. ASSUME NEW x, Visible' \subseteq Visible \cup {x}
      PROVE  Cardinality(Visible') \in Nat /\ Cardinality(Visible') <= Cardinality(Visible) + 1
  <2>1. /\ IsFiniteSet(Visible')
        /\ Cardinality(Visible') <= Cardinality(Visible \cup {x})
    BY <1>2, <1>4, FS_Subset
  <2>2. Cardinality(Visible') \in Nat
    BY <2>1, FS_CardinalityType
  <2>3. /\ Cardinality(Visible \cup {x}) \in Nat /\ Cardinality(Visible) \in Nat
        /\ Cardinality(Visible \cup {x}) <= Cardinality(Visible) + 1
    BY <1>2
  <2> QED
    BY <2>1, <2>2, <2>3
<1>5. CASE /\ Visible' \subseteq Visible /\ answered' = answered
           /\ pc' = "replying" => pc = "replying"
  <2>1. Cardinality(Visible') \in Nat /\ Cardinality(Visible') <= Cardinality(Visible)
    BY <1>3, <1>5
  <2> QED
    BY <1>1, <1>2, <1>5, <2>1 DEF CountedFirst
<1>6. ASSUME NEW c \in Calls, NEW k \in Kinds, Receives(c, k) PROVE CountedFirst'
  <2>1. /\ replies[<<c, k>>] > 0 /\ replies' = [replies EXCEPT ![<<c, k>>] = @ - 1]
        /\ waiter' = waiter \/ waiter' = [waiter EXCEPT ![c] = k]
        /\ unheard' = unheard /\ answered' = answered /\ pc' = pc
    BY <1>6 DEF Receives, ReceivesInto, workVars
  <2>2. ASSUME NEW q \in Calls, replies'[<<q, "answer">>] > 0
        PROVE  replies[<<q, "answer">>] > 0
    <3>1. <<q, "answer">> \in Calls \X Kinds /\ <<c, k>> \in Calls \X Kinds
      BY <1>1
    <3>2. CASE <<q, "answer">> = <<c, k>>
      BY <2>1, <3>2
    <3>3. CASE <<q, "answer">> # <<c, k>>
      BY <1>1, <2>1, <2>2, <3>1, <3>3
    <3> QED
      BY <3>2, <3>3
  <2>3. ASSUME NEW q \in Calls, waiter'[q] = "answer"
        PROVE  waiter[q] = "answer" \/ replies[<<q, "answer">>] > 0
    BY <1>1, <2>1, <2>3
  <2>4. Visible' \subseteq Visible
    BY <2>1, <2>2, <2>3 DEF Visible
  <2> QED
    BY <1>5, <2>1, <2>4
<1>7. CASE FailsWaiting
  <2>1. /\ waiter' = [c \in Calls |-> IF c \in waiting THEN "closed" ELSE waiter[c]]
        /\ replies' = replies /\ unheard' = unheard /\ answered' = answered /\ pc' = pc
    BY <1>7 DEF FailsWaiting, workVars, msgVars
  <2>2. Visible' \subseteq Visible
    BY <1>1, <2>1 DEF Visible
  <2> QED
    BY <1>5, <2>1, <2>2
<1>8. CASE Responds
  <2>1. /\ UNCHANGED <<waiter, replies, unheard>> /\ pc = "working"
        /\ \/ pc' = "replying" /\ answered' = answered + 1
           \/ pc' = "excusing" /\ answered' = answered
    BY <1>8 DEF Responds, askVars, msgVars
  <2>2. Visible' = Visible
    BY <2>1 DEF Visible
  <2> QED
    BY <1>1, <1>2, <2>1, <2>2 DEF CountedFirst
<1>9. CASE Replies
  <2>1. /\ hand \in Calls /\ waiter' = waiter /\ unheard' = unheard /\ answered' = answered
        /\ replies' = [replies EXCEPT ![<<hand, Kind>>] = @ + 1]
        /\ pc \in {"replying", "excusing"} /\ pc' # "replying"
    BY <1>9 DEF Replies, OneCopy, askVars
  <2>2. ASSUME NEW q \in Calls, q # hand \/ Kind # "answer"
        PROVE  replies'[<<q, "answer">>] = replies[<<q, "answer">>]
    BY <1>1, <2>1, <2>2
  <2>3. CASE pc = "replying"
    <3>1. Visible' \subseteq Visible \cup {hand}
      BY <2>1, <2>2 DEF Visible
    <3>2. Cardinality(Visible') \in Nat /\ Cardinality(Visible') <= Cardinality(Visible) + 1
      BY <1>4, <3>1
    <3> QED
      BY <1>1, <1>2, <2>1, <2>3, <3>2 DEF CountedFirst
  <2>4. CASE pc = "excusing"
    <3>1. Kind # "answer"
      BY <2>4 DEF Kind
    <3>2. Visible' \subseteq Visible
      BY <2>1, <2>2, <3>1 DEF Visible
    <3> QED
      BY <1>5, <2>1, <2>4, <3>2
  <2> QED
    BY <2>1, <2>3, <2>4
<1>10. CASE ReplyFails
  <2>1. /\ hand \in Calls /\ waiter' = waiter /\ pc' = "retrying"
        /\ answered' = IF pc = "replying" THEN answered - 1 ELSE answered
        /\ \/ replies' = replies /\ unheard' = unheard
           \/ /\ replies' = [replies EXCEPT ![<<hand, Kind>>] = @ + 1]
              /\ unheard' = unheard \cup {hand}
    BY <1>10 DEF ReplyFails, OneCopy, askVars
  <2>2. ASSUME NEW q \in Calls, q # hand
        PROVE  replies'[<<q, "answer">>] = replies[<<q, "answer">>]
    BY <1>1, <2>1, <2>2
  <2>3. Visible' \subseteq Visible
    BY <2>1, <2>2 DEF Visible
  <2>4. Cardinality(Visible') \in Nat /\ Cardinality(Visible') <= Cardinality(Visible)
    BY <1>3, <2>3
  <2> QED
    BY <1>1, <1>2, <2>1, <2>4 DEF CountedFirst
<1>11. CASE ReplyQueueLost
  <2>1. /\ replies' = [k \in Calls \X Kinds |-> 0]
        /\ UNCHANGED <<waiter, unheard, answered, pc>>
    BY <1>11 DEF ReplyQueueLost, askVars, workVars
  <2>2. \A q \in Calls : replies'[<<q, "answer">>] = 0
    BY <1>1, <2>1
  <2>3. Visible' \subseteq Visible
    BY <2>1, <2>2 DEF Visible
  <2> QED
    BY <1>5, <2>1, <2>3
<1>12. CASE \/ \E c \in Calls : Caller(c) \/ Arrives(c)
            \/ \E r \in Requests : Takes(r)
            \/ Closes \/ CloseCutOff \/ Refuses \/ Settles \/ ResponderCrashes
  <2>1. /\ UNCHANGED <<waiter, replies, unheard, answered>>
        /\ pc' = pc \/ pc' # "replying"
    BY <1>12 DEF Caller, Asks, SendReturns, SendFails, Answered, Expires, Cancelled, Ends,
       Arrives, Takes, Closes, CloseCutOff, Refuses, Settles, ResponderCrashes, askVars,
       workVars, msgVars
  <2>2. Visible' \subseteq Visible
    BY <2>1 DEF Visible
  <2> QED
    BY <1>5, <2>1, <2>2
<1> QED
  BY <1>6, <1>7, <1>8, <1>9, <1>10, <1>11, <1>12, StepKinds
  DEF Requesting, Responding, Works
-----------------------------------------------------------------------------
(* What is owed *)

\* A request that is somewhere is somewhere after any step, and the responder
\* accepts one only when its reply was taken.
LEMMA SomewhereStep ==
  ASSUME TypeOK, OneCopy, pc = "accepting" => hand \in told, Next
  PROVE  /\ \A c \in Calls : Somewhere(c) => Somewhere(c)'
         /\ pc' = "accepting" => hand' \in told'
<1>1. /\ requests \in [Requests -> Nat] /\ hand \in Requests \cup {None}
      /\ Calls \subseteq Requests
  BY DEF TypeOK, Requests
<1>2. CASE \E r \in Requests : Takes(r)
  <2>1. PICK r \in Requests : Takes(r)
    BY <1>2
  <2>2. /\ pc = "idle" /\ requests' = [requests EXCEPT ![r] = @ - 1] /\ hand' = r
        /\ pc' = "working" /\ UNCHANGED <<told, dead, unheard>>
    BY <2>1 DEF Takes
  <2>3. hand = None /\ None \notin Calls
    BY <2>2, RequestAssumption DEF OneCopy
  <2>4. \A c \in Calls \ {r} : requests'[c] = requests[c]
    BY <1>1, <2>2
  <2> QED
    BY <2>2, <2>3, <2>4 DEF Somewhere
<1>3. CASE Settles
  <2> DEFINE again == pc = "retrying" /\ tries[hand] + 1 < MaxTries
  <2>1. /\ pc \in {"accepting", "rejecting", "retrying"}
        /\ requests' = IF again THEN [requests EXCEPT ![hand] = @ + 1] ELSE requests
        /\ dead' = IF pc # "accepting" /\ ~again THEN dead \cup {hand} ELSE dead
        /\ hand' = None /\ pc' = "idle" /\ told' = told /\ unheard' = unheard
    BY <1>3 DEF Settles
  <2>2. hand \in Requests /\ (pc = "accepting" => hand \in told)
    BY <1>1, <2>1 DEF OneCopy
  <2>3. requests[hand] + 1 > 0
    BY <1>1, <2>2
  <2> HIDE DEF again
  <2>4. \A c \in Calls : c # hand => requests'[c] = requests[c]
    BY <1>1, <2>1, <2>2
  <2>5. again => requests'[hand] > 0
    BY <1>1, <2>1, <2>2, <2>3
  <2>6. again \/ hand \in told \cup dead'
    BY <2>1, <2>2
  <2> QED
    BY <2>1, <2>4, <2>5, <2>6 DEF Somewhere
<1>4. CASE ResponderCrashes
  <2>1. /\ pc # "idle" /\ requests' = [requests EXCEPT ![hand] = @ + 1]
        /\ pc' = "idle" /\ UNCHANGED <<told, dead, unheard>>
    BY <1>4 DEF ResponderCrashes
  <2>2. hand \in Requests
    BY <1>1, <2>1 DEF OneCopy
  <2>3. requests'[hand] > 0 /\ \A c \in Calls \ {hand} : requests'[c] = requests[c]
    BY <1>1, <2>1, <2>2
  <2> QED
    BY <2>1, <2>3 DEF Somewhere
<1>5. CASE Refuses \/ Responds \/ Replies \/ ReplyFails
  <2>1. /\ requests' = requests /\ hand' = hand /\ dead' = dead
        /\ told \subseteq told' /\ unheard \subseteq unheard'
        /\ pc' = "accepting" => hand \in told'
    BY <1>5 DEF Refuses, Responds, Replies, ReplyFails, msgVars
  <2> QED
    BY <2>1 DEF Somewhere
<1>6. CASE \E c \in Calls : Arrives(c)
  <2>1. PICK c \in Calls : Arrives(c)
    BY <1>6
  <2>2. /\ requests' = [requests EXCEPT ![c] = 1]
        /\ UNCHANGED <<hand, pc, told, dead, unheard>>
    BY <2>1 DEF Arrives, workVars
  <2>3. requests'[c] > 0 /\ \A q \in Calls \ {c} : requests'[q] = requests[q]
    BY <1>1, <2>2
  <2> QED
    BY <2>2, <2>3 DEF Somewhere
<1>7. CASE \/ \E c \in Calls : Caller(c) \/ \E k \in Kinds : Receives(c, k)
           \/ Closes \/ FailsWaiting \/ CloseCutOff \/ ReplyQueueLost
  <2>1. UNCHANGED <<requests, hand, pc, told, dead, unheard>>
    BY <1>7 DEF Caller, Asks, SendReturns, SendFails, Answered, Expires, Cancelled, Ends,
       Receives, ReceivesInto, Closes, CloseCutOff, FailsWaiting, ReplyQueueLost, workVars, msgVars
  <2> QED
    BY <2>1 DEF Somewhere
<1> QED
  BY <1>2, <1>3, <1>4, <1>5, <1>6, <1>7, StepKinds DEF Requesting, Responding, Works

\* Nothing is owed for a request the responder never had.
LEMMA OwedStep ==
  ASSUME TypeOK, Table, OneCopy, Owed, Next
  PROVE  Owed'
<1>1. /\ ask \in [Calls -> {"new", "sending", "waiting", "over"}]
      /\ outcome \in [Calls -> {"none", "answered", "timed_out", "failed", "cancelled"}]
      /\ tries \in [Requests -> 0..MaxTries] /\ Calls \subseteq Requests
  BY DEF TypeOK, Requests
<1>2. /\ \A c \in Calls : Somewhere(c) => Somewhere(c)'
      /\ pc' = "accepting" => hand' \in told'
  BY SomewhereStep DEF Owed
<1>3. ASSUME NEW c \in Calls, ask'[c] = "waiting" PROVE Somewhere(c)
  <2>1. CASE ask[c] = "waiting"
    BY <2>1 DEF Owed
  <2>2. CASE ask[c] # "waiting"
    <3>1. \E q \in Calls : SendReturns(q) /\ ask' = [ask EXCEPT ![q] = "waiting"]
      <4>1. ASSUME NEW q \in Calls,
                   Asks(q) \/ SendFails(q) \/ Answered(q) \/ Expires(q) \/ Cancelled(q)
            PROVE  FALSE
        BY <1>1, <1>3, <2>2, <4>1 DEF Asks, SendFails, Answered, Expires, Cancelled, Ends
      <4>2. CASE \/ \E q \in Calls : Arrives(q) \/ \E k \in Kinds : Receives(q, k)
                 \/ Closes \/ FailsWaiting \/ CloseCutOff \/ Responding \/ ReplyQueueLost
        BY <1>3, <2>2, <4>2 DEF Arrives, Receives, ReceivesInto, Closes, CloseCutOff, FailsWaiting,
           Responding, Works, Takes, Refuses, Responds, Replies, ReplyFails, Settles,
           ResponderCrashes, ReplyQueueLost, askVars
      <4> QED
        BY <4>1, <4>2, StepKinds DEF Requesting, Caller, SendReturns
    <3>2. SendReturns(c)
      BY <1>1, <1>3, <2>2, <3>1
    <3>3. requests[c] > 0 \/ hand = c \/ c \in told \cup dead \/ tries[c] > 0
      BY <3>2 DEF SendReturns, Reached
    <3> QED
      BY <3>3 DEF Owed, Somewhere
  <2> QED
    BY <2>1, <2>2
<1>4. ASSUME NEW c \in Calls, outcome'[c] = "answered" PROVE Somewhere(c)
  <2>1. CASE outcome[c] = "answered"
    BY <2>1 DEF Owed
  <2>2. CASE outcome[c] # "answered"
    <3>1. ask[c] = "waiting"
      <4>1. CASE \E q \in Calls : Answered(q)
        <5>1. PICK q \in Calls : Answered(q)
          BY <4>1
        <5>2. ask[q] = "waiting" /\ \E what : outcome' = [outcome EXCEPT ![q] = what]
          BY <5>1 DEF Answered, Ends
        <5>3. q = c
          BY <1>1, <1>4, <2>2, <5>2
        <5> QED
          BY <5>2, <5>3
      <4>2. CASE \E q \in Calls : SendFails(q) \/ Expires(q) \/ Cancelled(q)
        BY <1>1, <1>4, <2>2, <4>2 DEF SendFails, Expires, Cancelled, Ends
      <4>3. CASE \/ \E q \in Calls : \/ Asks(q) \/ SendReturns(q) \/ Arrives(q)
                                     \/ \E k \in Kinds : Receives(q, k)
                 \/ Closes \/ FailsWaiting \/ CloseCutOff \/ Responding \/ ReplyQueueLost
        BY <1>4, <2>2, <4>3 DEF Asks, SendReturns, Arrives, Receives, ReceivesInto, Closes,
           CloseCutOff,
           FailsWaiting, Responding, Works, Takes, Refuses, Responds, Replies, ReplyFails,
           Settles, ResponderCrashes, ReplyQueueLost, askVars
      <4> QED
        BY <4>1, <4>2, <4>3, StepKinds DEF Requesting, Caller
    <3> QED
      BY <3>1 DEF Owed
  <2> QED
    BY <2>1, <2>2
<1>5. ASSUME NEW c \in Calls, tries'[c] > 0 PROVE Somewhere(c)
  <2>1. CASE tries[c] > 0
    BY <2>1 DEF Owed
  <2>2. CASE ~(tries[c] > 0)
    <3>1. \/ tries' = tries
          \/ tries' = [tries EXCEPT ![hand] = @ + 1]
      BY StepKinds DEF Requesting, Responding, Works, Caller, Asks, SendReturns, SendFails,
         Answered, Expires, Cancelled, Ends, Arrives, Receives, ReceivesInto, Closes, CloseCutOff,
         FailsWaiting, Takes, Refuses, Responds, Replies, ReplyFails, Settles,
         ResponderCrashes, ReplyQueueLost, msgVars
    <3>2. hand = c
      BY <1>1, <1>5, <2>2, <3>1
    <3> QED
      BY <3>2 DEF Somewhere
  <2> QED
    BY <2>1, <2>2
<1>6. ASSUME NEW c \in Calls, ask'[c] = "waiting" \/ outcome'[c] = "answered" \/ tries'[c] > 0
      PROVE  Somewhere(c)'
  BY <1>2, <1>3, <1>4, <1>5, <1>6
<1> QED
  BY <1>2, <1>6 DEF Owed
-----------------------------------------------------------------------------
(* The whole *)

\* Initially nobody has asked.
LEMMA AskingInit == Init => AskingInv
<1> SUFFICES ASSUME Init PROVE AskingInv
  OBVIOUS
<1>1. /\ ask = [c \in Calls |-> "new"] /\ outcome = [c \in Calls |-> "none"]
      /\ waiting = {} /\ waiter = [c \in Calls |-> "pending"] /\ requester = "open"
      /\ unmatched = 0 /\ timedOut = 0 /\ received = 0
      /\ requests = [r \in Requests |-> IF r \in Mute THEN 1 ELSE 0]
      /\ tries = [r \in Requests |-> 0] /\ dead = {}
      /\ replies = [k \in Calls \X Kinds |-> 0]
      /\ hand = None /\ pc = "idle" /\ answered = 0 /\ unanswerable = 0
      /\ told = {} /\ unheard = {} /\ faults = 0
  BY DEF Init
<1>2. Got = {} /\ Late = {}
  BY <1>1 DEF Got, Late, Kinds
<1>3. Visible = {}
  <2>1. \A c \in Calls : <<c, "answer">> \in Calls \X Kinds
    BY DEF Kinds
  <2> QED
    BY <1>1, <2>1 DEF Visible
<1>4. Totals
  BY <1>1, <1>2, <1>3, FS_EmptySet DEF Totals, CountedFirst
<1>5. Table
  BY <1>1 DEF Table
<1>6. OneCopy
  BY <1>1, RequestAssumption DEF OneCopy, Requests
<1>7. Owed
  BY <1>1 DEF Owed, Requests
<1>8. 0 \in 0..MaxTries /\ 0 \in 0..MaxFaults /\ 0 \in 0..Cardinality(Calls)
  BY RequestAssumption, Countable
<1>9. TypeOK
  BY <1>1, <1>8 DEF TypeOK, Kinds
<1> QED
  BY <1>4, <1>5, <1>6, <1>7, <1>9 DEF AskingInv

\* Every step keeps the invariant.
LEMMA AskingStep == AskingInv /\ [Next]_vars => AskingInv'
<1> SUFFICES ASSUME AskingInv, [Next]_vars PROVE AskingInv'
  OBVIOUS
<1>1. TypeOK /\ Table /\ Totals /\ OneCopy /\ Owed
  BY DEF AskingInv
<1>2. CASE Next
  <2>1. Totals'
    BY <1>1, <1>2, ReceivedStep, TimedOutStep, CountedStep DEF Totals
  <2>2. timedOut' \in 0..Cardinality(Calls)
    <3>1. /\ Cardinality(Late') \in Nat /\ Cardinality(Late') <= Cardinality(Calls)
          /\ Cardinality(Calls) \in Nat
      <4>1. Late' \in SUBSET Calls
        BY DEF Late
      <4> QED
        BY <4>1, Countable, FS_Subset, FS_CardinalityType
    <3> QED
      BY <2>1, <3>1 DEF Totals
  <2>3. TypeOK'
    BY <1>1, <1>2, <2>2, CopiesStep, CallsTyped, RepliesTyped DEF TypeOK
  <2>4. Table' /\ OneCopy' /\ Owed'
    BY <1>1, <1>2, TableStep, CopiesStep, OwedStep
  <2> QED
    BY <2>1, <2>3, <2>4 DEF AskingInv
<1>3. CASE UNCHANGED vars
  <2>1. /\ UNCHANGED <<ask, outcome, waiting, waiter, requester, unmatched, timedOut, received>>
        /\ UNCHANGED <<hand, pc, answered, unanswerable>>
        /\ UNCHANGED <<requests, tries, dead, replies, told, unheard>>
        /\ faults' = faults
    BY <1>3 DEF vars, askVars, workVars, msgVars
  <2>2. Got' = Got /\ Late' = Late /\ Visible' = Visible
    BY <2>1 DEF Got, Late, Visible
  <2>3. Totals'
    BY <1>1, <2>1, <2>2 DEF Totals, CountedFirst
  <2>4. TypeOK' /\ Table'
    BY <1>1, <2>1 DEF TypeOK, Table
  <2>5. OneCopy' /\ Owed'
    BY <1>1, <2>1 DEF OneCopy, Owed, Somewhere
  <2> QED
    BY <2>3, <2>4, <2>5 DEF AskingInv
<1> QED
  BY <1>2, <1>3

\* The inductive invariant holds in every state.
THEOREM AskingInvariant == Spec => []AskingInv
BY AskingInit, AskingStep, PTL DEF Spec

\* Every reply taken is given to its call or counted, calls time out as often as
\* their callers are told, and the responder's count of answers is behind none a
\* caller can have, but for those whose publish failed though the broker had them.
THEOREM RepliesAccounted == Spec => []EveryReplyAccounted
<1>1. AskingInv => EveryReplyAccounted
  <2> SUFFICES ASSUME AskingInv PROVE EveryReplyAccounted
    OBVIOUS
  <2>1. TypeOK /\ Table /\ Totals
    BY DEF AskingInv
  <2> DEFINE Seen == {c \in Calls \ unheard : waiter[c] = "answer"}
  <2>2. Seen \in SUBSET Visible
    BY DEF Visible
  <2>3. Cardinality(Seen) \in Nat /\ Cardinality(Seen) <= Cardinality(Visible)
    BY <2>2, Countable, FS_Subset, FS_CardinalityType
  <2> HIDE DEF Seen
  <2>4. Cardinality(Seen) <= answered
    BY <2>1, <2>3, Countable DEF Totals, CountedFirst, TypeOK
  <2>5. \A c \in Calls : outcome[c] = "answered" => waiter[c] \in Kinds
    BY <2>1 DEF Table
  <2>6. \A c \in waiting : ask[c] # "over" /\ waiter[c] = "pending"
    BY <2>1 DEF Table, TypeOK
  <2> QED
    BY <2>1, <2>4, <2>5, <2>6 DEF EveryReplyAccounted, Totals, Got, Late, Seen
<1> QED
  BY <1>1, AskingInvariant, PTL

\* A request that reached the responder has its reply taken by the broker, is
\* dead-lettered, or is still on its queue or in hand.
THEOREM NobodyForgotten == Spec => []ToldOrOwed
<1>1. AskingInv => ToldOrOwed
  BY DEF AskingInv, Owed, Somewhere, ToldOrOwed
<1> QED
  BY <1>1, AskingInvariant, PTL
=============================================================================
