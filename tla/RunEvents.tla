------------------------------ MODULE RunEvents ------------------------------
(***************************************************************************)
(* The event stream of one run (source/web_server/                         *)
(* Ultravisor-API-Server.cjs): the buffer of its recent events, the        *)
(* sockets subscribed to it, the replay a subscriber asks for with the     *)
(* last event it has, and the timer that drops the buffer after            *)
(* ExecutionComplete.  Of the run itself only what decides its events is   *)
(* kept: its status, and how many loops are over it, the suspended ones    *)
(* included.                                                               *)
(*                                                                         *)
(* Events are numbered as they are stamped; a number stands for an         *)
(* EventGUID.  TaskStart, TaskComplete and TaskError are one kind of       *)
(* event.  The frames around a replay tell a subscriber nothing it         *)
(* acts on and are left out; so is Seq, which nothing reads.               *)
(***************************************************************************)
EXTENDS Naturals, Sequences, FiniteSets, SequencesExt

CONSTANTS
  Clients,
  None,
  Unsubscribe,  \* the frame of that name
  Cap,          \* _ManifestEventBufferCapPerRun
  MaxEvents,    \* bound: events of the run
  MaxLoops,     \* bound: loops over the run at a time
  MaxTries,     \* bound: connections and further frames of a client
  MaxRestarts   \* bound: restarts of the process

ASSUME BoundsAssumption ==
  /\ Cap \in Nat \ {0} /\ MaxEvents \in Nat /\ MaxLoops \in Nat \ {0}
  /\ MaxTries \in [Clients -> Nat] /\ MaxRestarts \in Nat
ASSUME NamesAssumption ==
  None \notin Nat /\ Unsubscribe \notin Nat /\ None # Unsubscribe

VARIABLES
  status,        \* "Active": in progress, "Paused": Waiting, "Over": the others
  loops,         \* the loops over the run that have not come to their end
  emitted,       \* events stamped so far
  buffer,        \* _ManifestEventBuffers: the run's entry, or None
  timer,         \* _ManifestEventCleanupTimers has the run
  orphaned,      \* the run was over with a buffer and no timer, and no
                 \* ExecutionComplete has come since
  subscribers,   \* _WebSocketSubscriptions
  open,          \* the clients whose socket is open
  asked,         \* the frame a client has under way, or None
  wire,          \* frames under way to each client
  last,          \* the last event each client has, 0 for none
  tries, restarts

vars == <<status, loops, emitted, buffer, timer, orphaned, subscribers, open,
          asked, wire, last, tries, restarts>>
theRun   == <<status, loops, emitted>>
theEntry == <<buffer, timer, orphaned>>

EventIDs == 1 .. MaxEvents
Reset == 0       \* the frame execution.reset

TypeOK ==
  /\ status \in {"Active", "Paused", "Over"}
  /\ loops \in 0 .. MaxLoops /\ emitted \in 0 .. MaxEvents
  /\ \/ buffer = None
     \/ buffer \in Seq(EventIDs) /\ Len(buffer) \in 1 .. Cap
  /\ timer \in BOOLEAN /\ orphaned \in BOOLEAN
  /\ subscribers \subseteq open /\ open \subseteq Clients
  /\ asked \in [Clients -> {None, Unsubscribe} \cup (0 .. MaxEvents)]
  /\ wire \in [Clients -> Seq(EventIDs \cup {Reset})]
  /\ last \in [Clients -> 0 .. MaxEvents]
  /\ \A c \in Clients : tries[c] \in 0 .. MaxTries[c]
  /\ DOMAIN tries = Clients /\ restarts \in 0 .. MaxRestarts

Init ==
  /\ status = "Active" /\ loops = 1 /\ emitted = 0
  /\ buffer = None /\ timer = FALSE /\ orphaned = FALSE
  /\ subscribers = {} /\ open = {} /\ asked = [c \in Clients |-> None]
  /\ wire = [c \in Clients |-> <<>>] /\ last = [c \in Clients |-> 0]
  /\ tries = [c \in Clients |-> 0] /\ restarts = 0

-----------------------------------------------------------------------------
(***************************************************************************)
(* The run's events.                                                       *)
(***************************************************************************)
\* Mutant: the buffer is never trimmed.
MutantTrimmed(b) == b

\* The newest Cap events.
Trimmed(b) == IF Len(b) > Cap THEN SubSeq(b, Len(b) - Cap + 1, Len(b)) ELSE b

Kept == IF buffer = None THEN <<>> ELSE buffer

\* Mutant: a subscriber whose earlier frames are still under way is passed over.
MutantBroadcast(e) ==
  wire' = [c \in Clients |-> IF c \in subscribers /\ wire[c] = <<>>
                             THEN Append(wire[c], e) ELSE wire[c]]

Broadcast(e) ==
  wire' = [c \in Clients |-> IF c \in subscribers THEN Append(wire[c], e)
                             ELSE wire[c]]

\* _stampManifestEvent and the fan-out of _onExecutionEvent: the buffer is made
\* anew if it was dropped.
Emit ==
  /\ emitted < MaxEvents
  /\ emitted' = emitted + 1
  /\ buffer' = Trimmed(Append(Kept, emitted'))
  /\ Broadcast(emitted')

\* An event of a task: of a loop, or the TaskError of a report, which comes
\* whatever has become of the run.
TaskEvent ==
  /\ Emit
  /\ orphaned' = (orphaned \/ (status = "Over" /\ ~timer))
  /\ UNCHANGED <<status, loops, timer, subscribers, open, asked, last, tries,
                 restarts>>

\* Mutant: the timer is armed only while somebody watches.
MutantScheduleBufferCleanup == timer' = (timer \/ subscribers # {})

\* _scheduleManifestBufferCleanup: an armed timer is replaced.
ScheduleBufferCleanup == timer' = TRUE

\* finalizeExecution emits ExecutionComplete when the run ends and when it only
\* pauses: the timer is armed and the subscribers are dropped, both times.  It
\* is called at the end of a loop, and by a stall of a run that is not over.
ExecutionComplete ==
  /\ Emit
  /\ \/ /\ loops > 0 /\ loops' = loops - 1
        /\ status' \in {"Paused", "Over"}
     \/ /\ status # "Over" /\ status' = "Over"
        /\ UNCHANGED loops
  /\ ScheduleBufferCleanup
  /\ orphaned' = FALSE /\ subscribers' = {}
  /\ UNCHANGED <<open, asked, last, tries, restarts>>

\* abandonRun: the run is over, without an ExecutionComplete.
Abandon ==
  /\ status # "Over" /\ status' = "Over"
  /\ orphaned' = (orphaned \/ (buffer # None /\ ~timer))
  /\ UNCHANGED <<loops, emitted, buffer, timer, subscribers, open, asked, wire,
                 last, tries, restarts>>

\* retryFromCheckpoint: the run waits for the work it enqueues.
Retry ==
  /\ status = "Over" /\ status' = "Paused"
  /\ UNCHANGED <<loops, emitted, theEntry, subscribers, open, asked, wire, last,
                 tries, restarts>>

\* resumeOperation and forceErrorOnWaitingTask start a loop.
Resume ==
  /\ status = "Paused" /\ status' = "Active"
  /\ loops < MaxLoops /\ loops' = loops + 1
  /\ UNCHANGED <<emitted, theEntry, subscribers, open, asked, wire, last, tries,
                 restarts>>

\* The timer of _scheduleManifestBufferCleanup fires.
DropBuffer ==
  /\ timer
  /\ timer' = FALSE /\ buffer' = None
  /\ UNCHANGED <<theRun, orphaned, subscribers, open, asked, wire, last, tries,
                 restarts>>

-----------------------------------------------------------------------------
(***************************************************************************)
(* Subscriptions.                                                          *)
(***************************************************************************)
\* Mutant: a replay starts one event late.
MutantReplay(e) == {i \in 1 .. Len(Kept) : Kept[i] > e + 1}

\* The indices of the events after e (_findManifestEventIndex and the slice).
Replay(e) == {i \in 1 .. Len(Kept) : Kept[i] > e}

\* Subscribe: a subscriber that names its last event is sent what came after it,
\* or a reset if that event is not buffered.
HandleSubscribe(c) ==
  /\ asked[c] \in 0 .. MaxEvents
  /\ asked' = [asked EXCEPT ![c] = None]
  /\ subscribers' = subscribers \cup {c}
  /\ LET e == asked[c]
         later == [i \in 1 .. Cardinality(Replay(e)) |->
                     Kept[Len(Kept) - Cardinality(Replay(e)) + i]]
     IN wire' = [wire EXCEPT ![c] =
                   CASE e = 0 -> @
                     [] e # 0 /\ Contains(Kept, e) -> @ \o later
                     [] OTHER -> Append(@, Reset)]
  /\ UNCHANGED <<theRun, theEntry, open, last, tries, restarts>>

\* Unsubscribe.
HandleUnsubscribe(c) ==
  /\ asked[c] = Unsubscribe
  /\ asked' = [asked EXCEPT ![c] = None]
  /\ subscribers' = subscribers \ {c}
  /\ UNCHANGED <<theRun, theEntry, open, wire, last, tries, restarts>>

\* The close event of a socket (_unsubscribeClient); what was under way is lost.
Close(c) ==
  /\ c \in open
  /\ open' = open \ {c} /\ subscribers' = subscribers \ {c}
  /\ asked' = [asked EXCEPT ![c] = None] /\ wire' = [wire EXCEPT ![c] = <<>>]
  /\ UNCHANGED <<theRun, theEntry, last, tries, restarts>>

\* The process dies: the maps are empty in the next one, no loop works on the
\* run any more, and a run that was in progress is over or, when its manifest
\* was last written while it waited, paused.
Restart ==
  /\ restarts < MaxRestarts
  /\ restarts' = restarts + 1
  /\ status' \in IF status = "Active" THEN {"Paused", "Over"} ELSE {status}
  /\ loops' = 0 /\ buffer' = None /\ timer' = FALSE /\ orphaned' = FALSE
  /\ subscribers' = {} /\ open' = {}
  /\ asked' = [c \in Clients |-> None] /\ wire' = [c \in Clients |-> <<>>]
  /\ UNCHANGED <<emitted, last, tries>>

-----------------------------------------------------------------------------
(***************************************************************************)
(* A client, as the protocol's comments describe it: one socket per run it *)
(* watches, on which it subscribes with its last event, if it has one.     *)
(***************************************************************************)
Connect(c) ==
  /\ c \notin open /\ tries[c] < MaxTries[c]
  /\ open' = open \cup {c}
  /\ tries' = [tries EXCEPT ![c] = @ + 1]
  /\ asked' = [asked EXCEPT ![c] = last[c]]
  /\ UNCHANGED <<theRun, theEntry, subscribers, wire, last, restarts>>

\* It may unsubscribe, and subscribe again on the same socket with its last event.
Ask(c) ==
  /\ c \in open /\ asked[c] = None /\ tries[c] < MaxTries[c]
  /\ tries' = [tries EXCEPT ![c] = @ + 1]
  /\ \E a \in {Unsubscribe} \cup ({last[c]} \ {0}) :
       asked' = [asked EXCEPT ![c] = a]
  /\ UNCHANGED <<theRun, theEntry, subscribers, open, wire, last,
                 restarts>>

\* It drops what it has already, and its last event when it is told to.
Receive(c) ==
  /\ wire[c] # <<>>
  /\ wire' = [wire EXCEPT ![c] = Tail(@)]
  /\ LET e == Head(wire[c])
     IN last' = [last EXCEPT ![c] = IF e = Reset \/ e > @ THEN e ELSE @]
  /\ UNCHANGED <<theRun, theEntry, subscribers, open, asked, tries,
                 restarts>>

Next ==
  \/ TaskEvent \/ ExecutionComplete \/ Abandon \/ Retry \/ Resume
  \/ DropBuffer \/ Restart
  \/ \E c \in Clients : \/ Connect(c) \/ Ask(c) \/ Receive(c) \/ Close(c)
                        \/ HandleSubscribe(c) \/ HandleUnsubscribe(c)

\* The timer fires some time.
Spec == Init /\ [][Next]_vars /\ WF_vars(DropBuffer)

-----------------------------------------------------------------------------
(***************************************************************************)
(* Properties.                                                             *)
(***************************************************************************)
\* However it lost and renewed its subscription, a client that has an event is
\* next given the one after it, one it has already, or a reset: it is never led
\* over a gap without being told.
NoSilentGap ==
  \A c \in Clients :
    wire[c] # <<>> /\ last[c] # 0 => Head(wire[c]) <= last[c] + 1

\* A subscriber is not behind: the last frame sent to it is the last event of
\* the run, unless it was reset or holds nothing yet.
SubscriberIsUpToDate ==
  \A c \in subscribers :
    asked[c] = None =>
      (IF wire[c] = <<>> THEN last[c] ELSE Last(wire[c])) \in {Reset, emitted}

\* The events of a run that stays over do not stay in memory, unless the run
\* was abandoned with events buffered and no timer armed, or an event, of a late
\* report or of a loop it had left behind, came when the timer had fired: that
\* buffer waits for an ExecutionComplete, which may never come.
EndedRunIsDropped ==
  status = "Over" ~> (buffer = None \/ status # "Over" \/ orphaned)
=============================================================================
