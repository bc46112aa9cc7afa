------------------------------ MODULE LongPolls ------------------------------
(***************************************************************************)
(* Long polls of the queue's and the observer's events: the ring of recent *)
(* envelopes, the requests that wait for one that follows their cursor,    *)
(* their timers (source/services/Ultravisor-LongPollManager.cjs and        *)
(* _handleLongPollRequest of source/web_server/Ultravisor-API-Server.cjs). *)
(*                                                                         *)
(* Envelopes are numbered as they are stamped; a number stands for an      *)
(* EventGUID, 0 for the empty cursor.  The ring and the events of an       *)
(* answer are in the order of the numbers, so they are sets of them.       *)
(* Summaries and control frames are not kept in the ring and wake nobody.  *)
(***************************************************************************)
EXTENDS Integers, Sequences, FiniteSets

CONSTANTS
  Pollers,
  None,
  Bucket,       \* poller -> the stream it polls, "queue" or "observer"
  Limit,        \* poller -> its limit parameter
  Cap,          \* _QueueEventBufferCap
  MaxWaiters,   \* _MaxConcurrentPollWaiters
  MaxEvents,    \* bound: envelopes
  MaxPolls      \* bound: requests of one poller

ASSUME PollersAssumption ==
  /\ Bucket \in [Pollers -> {"queue", "observer"}]
  /\ Limit \in [Pollers -> Nat \ {0}]
ASSUME BoundsAssumption ==
  Cap \in Nat \ {0} /\ MaxWaiters \in Nat /\ MaxEvents \in Nat /\ MaxPolls \in Nat

VARIABLES
  log,       \* the topic of every envelope stamped: "queue" or "observer"
  ring,      \* _QueueEventBuffer
  cursor,    \* the Cursor each poller was last given
  waiter,    \* each poller's waiter in its bucket, or None
  owed,      \* responses a poller's present request has still to be given
  answer,    \* the last answer a poller got: its cursor before, the events, after
  polls

vars == <<log, ring, cursor, waiter, owed, answer, polls>>

EventIDs == 1 .. MaxEvents
WaiterType == [since : 0 .. MaxEvents, timer : BOOLEAN]
AnswerType == [since : 0 .. MaxEvents, events : SUBSET EventIDs, cursor : 0 .. MaxEvents]

ASSUME NoneAssumption == None \notin WaiterType

Waiting == {p \in Pollers : waiter[p] # None}

TypeOK ==
  /\ log \in Seq({"queue", "observer"}) /\ Len(log) <= MaxEvents
  /\ ring \subseteq 1 .. Len(log) /\ Cardinality(ring) <= Cap
  /\ cursor \in [Pollers -> 0 .. Len(log)]
  /\ \A p \in Pollers : waiter[p] \in WaiterType \cup {None} /\ answer[p] \in AnswerType
  /\ owed \in [Pollers -> Int] /\ polls \in [Pollers -> 0 .. MaxPolls]
  /\ Cardinality(Waiting) <= MaxWaiters

Init ==
  /\ log = <<>> /\ ring = {}
  /\ cursor = [p \in Pollers |-> 0] /\ waiter = [p \in Pollers |-> None]
  /\ owed = [p \in Pollers |-> 0] /\ polls = [p \in Pollers |-> 0]
  /\ answer = [p \in Pollers |-> [since |-> 0, events |-> {}, cursor |-> 0]]

-----------------------------------------------------------------------------
First(n, events) == {e \in events : Cardinality({x \in events : x <= e}) <= n}

\* Is an envelope of this topic one of the poller's stream?  (fFilter)
Streams(p, topic) == Bucket[p] = "observer" => topic = "observer"

\* The part of the ring behind a cursor, all of it for the empty one.
After(since, r) == {e \in r : e > since}

Newest(events) == CHOOSE e \in events : \A x \in events : x <= e

\* Mutant: an answer moves the cursor to the newest envelope.
MutantAnswer(since, events) ==
  [since |-> since, events |-> events,
   cursor |-> IF events = {} THEN since ELSE Len(log)]

Answer(since, events) ==
  [since |-> since, events |-> events,
   cursor |-> IF events = {} THEN since ELSE Newest(events)]

\* The poller p is answered; the response may be lost with its connection.
Receives(p, a) ==
  \/ answer' = [answer EXCEPT ![p] = a] /\ cursor' = [cursor EXCEPT ![p] = a.cursor]
  \/ UNCHANGED <<answer, cursor>>

-----------------------------------------------------------------------------
\* The events a request finds in the ring (tmpAvailable).
Available(p) == {e \in After(cursor[p], ring) : Streams(p, log[e])}

\* A poller may poll when its last request is over, answered or not.
MayPoll(p) == waiter[p] = None /\ polls[p] < MaxPolls

InRing(since) == since = 0 \/ since \in ring

\* 410: the cursor is no longer in the ring, and the poller starts anew.
PollTooOld(p) ==
  /\ MayPoll(p) /\ ~InRing(cursor[p])
  /\ polls' = [polls EXCEPT ![p] = @ + 1] /\ owed' = [owed EXCEPT ![p] = 0]
  /\ cursor' = [cursor EXCEPT ![p] = 0]
  /\ UNCHANGED <<log, ring, waiter, answer>>

\* Events are there, or the poller does not want to wait.
PollAnswered(p) ==
  /\ MayPoll(p) /\ InRing(cursor[p])
  /\ polls' = [polls EXCEPT ![p] = @ + 1] /\ owed' = [owed EXCEPT ![p] = 0]
  /\ Receives(p, Answer(cursor[p], First(Limit[p], Available(p))))
  /\ UNCHANGED <<log, ring, waiter>>

\* Mutant: the cap is exceeded by one.
MutantMayRegister == Cardinality(Waiting) <= MaxWaiters

\* register of the manager; the response is 503 when it refuses.
MayRegister == Cardinality(Waiting) < MaxWaiters

\* Mutant: a poll without a cursor gets no timer.
MutantNewWaiter(p) == [since |-> cursor[p], timer |-> cursor[p] # 0]

NewWaiter(p) == [since |-> cursor[p], timer |-> TRUE]

\* Nothing is there: the request waits, with a timer.
PollWaits(p) ==
  /\ MayPoll(p) /\ InRing(cursor[p]) /\ Available(p) = {}
  /\ polls' = [polls EXCEPT ![p] = @ + 1]
  /\ IF MayRegister
     THEN /\ waiter' = [waiter EXCEPT ![p] = NewWaiter(p)]
          /\ owed' = [owed EXCEPT ![p] = 1]
     ELSE owed' = [owed EXCEPT ![p] = 0] /\ UNCHANGED waiter
  /\ UNCHANGED <<log, ring, cursor, answer>>

-----------------------------------------------------------------------------
\* The oldest envelope is dropped when there is one too many.
Trimmed(r) == IF Cardinality(r) > Cap THEN {e \in r : \E x \in r : x < e} ELSE r

\* What a waiter is handed: it must find its cursor in the ring, and takes the
\* first of what follows, before the filter is applied.
Slice(p, r) ==
  IF waiter[p].since \in r THEN First(Limit[p], After(waiter[p].since, r)) ELSE {}

\* Mutant: the waiters are drained before the envelope is kept.
MutantDrained(topic, r) == {p \in Waiting : Streams(p, topic) /\ Slice(p, ring) # {}}

\* The waiters that drainOnBroadcast settles, with the ring as it is now.
Drained(topic, r) == {p \in Waiting : Streams(p, topic) /\ Slice(p, r) # {}}

\* Mutant: a waiter whose events were all filtered out is forgotten.
MutantStillWaiting(p) == None

\* One that finds nothing of its stream in its slice registers again.  Its timer
\* was cleared when it was settled and nothing arms it anew.
StillWaiting(p) == [waiter[p] EXCEPT !.timer = FALSE]

\* _broadcastQueueTopic for an envelope that is kept: it is stamped, and the
\* waiters it satisfies are answered.
Broadcast(topic) ==
  /\ Len(log) < MaxEvents
  /\ log' = Append(log, topic)
  /\ ring' = Trimmed(ring \cup {Len(log')})
  /\ LET found == [p \in Waiting |-> {e \in Slice(p, ring') : Streams(p, log'[e])}]
         settled == Drained(topic, ring')
         answered == {p \in settled : found[p] # {}}
     IN /\ waiter' = [p \in Pollers |-> CASE p \in answered -> None
                                          [] p \in settled \ answered -> StillWaiting(p)
                                          [] OTHER -> waiter[p]]
        /\ owed' = [p \in Pollers |-> IF p \in answered THEN owed[p] - 1 ELSE owed[p]]
        /\ \E lost \in SUBSET answered :
             LET got == answered \ lost
                 a == [p \in got |-> Answer(waiter[p].since, found[p])]
             IN /\ answer' = [p \in Pollers |-> IF p \in got THEN a[p] ELSE answer[p]]
                /\ cursor' = [p \in Pollers |-> IF p \in got THEN a[p].cursor
                                                ELSE cursor[p]]
  /\ UNCHANGED polls

\* The timer of a waiter fires: it is cancelled and gets an empty answer.
PollTimesOut(p) ==
  /\ waiter[p] # None /\ waiter[p].timer
  /\ waiter' = [waiter EXCEPT ![p] = None]
  /\ owed' = [owed EXCEPT ![p] = @ - 1]
  /\ Receives(p, Answer(waiter[p].since, {}))
  /\ UNCHANGED <<log, ring, polls>>

\* The poller's connection closes: its waiter is cancelled.
Disconnect(p) ==
  /\ waiter[p] # None
  /\ waiter' = [waiter EXCEPT ![p] = None] /\ owed' = [owed EXCEPT ![p] = 0]
  /\ UNCHANGED <<log, ring, cursor, answer, polls>>

Next ==
  \/ \E topic \in {"queue", "observer"} : Broadcast(topic)
  \/ \E p \in Pollers : \/ PollTooOld(p) \/ PollAnswered(p) \/ PollWaits(p)
                        \/ PollTimesOut(p) \/ Disconnect(p)

\* Timers fire.
Spec == Init /\ [][Next]_vars /\ \A p \in Pollers : WF_vars(PollTimesOut(p))

-----------------------------------------------------------------------------
(***************************************************************************)
(* Properties.                                                             *)
(***************************************************************************)
\* Between the cursor a poller sent and the one it was given lies no envelope of
\* its stream that the answer left out.
AnswersAreGapless ==
  \A p \in Pollers :
    LET a == answer[p]
    IN a.since # 0 => a.events = {e \in a.since + 1 .. a.cursor : Streams(p, log[e])}

\* A waiter sleeps only while there is nothing for it: no envelope of its stream
\* is among those it would be handed.
NobodySleepsOnEvents ==
  \A p \in Waiting : \A e \in Slice(p, ring) : ~Streams(p, log[e])

\* A waiting request is owed exactly one response, whether an event, its timer or
\* the closing of its connection ends it ("Manager guarantees at-most-once across
\* (fSatisfy, fTimeout)"), and none is forgotten.
OneResponse == \A p \in Pollers : owed[p] = (IF waiter[p] = None THEN 0 ELSE 1)

\* A poll of the queue's events is answered some time, events or not.
QueuePollIsAnswered ==
  \A p \in Pollers : Bucket[p] = "queue" => waiter[p] # None ~> waiter[p] = None
=============================================================================
