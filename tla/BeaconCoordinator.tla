-------------------------- MODULE BeaconCoordinator --------------------------
(***************************************************************************)
(* The hub's work queue and its beacons                                    *)
(* (source/services/Ultravisor-Beacon-Coordinator.cjs), as one Node        *)
(* process runs it: every handler runs to completion, so a handler is one  *)
(* action, with the drain of the queue that many handlers end with.        *)
(*                                                                         *)
(* A work item is the number of its enqueueWorkItem call and a beacon the  *)
(* number of its registration: the order of the numbers is the insertion   *)
(* order Object.keys walks.  Clocks are left out.  A timer may fire        *)
(* whenever the code allows it; LastEventAt is "old" once the item has     *)
(* been silent for longer than the stall threshold.                        *)
(*                                                                         *)
(* executions, handOvers and notified are not in the program: what the     *)
(* beacons are running (or have run and not reported), how often each item *)
(* was handed to a beacon, and how often its requester was told its end.   *)
(***************************************************************************)
EXTENDS Naturals, FiniteSets

CONSTANTS
  Names,              \* beacon names
  Keys,               \* affinity keys: beacon names and session keys
  None,
  Transport,          \* name -> "ws" (push) or "http" (polling)
  Provides,           \* name -> capabilities its beacon registers
  MaxConcurrent,      \* name -> slots
  FleetDenies,        \* <<name, capability>> the fleet filter turns down
  Requests,           \* the work that may be asked for
  MaxItems,           \* bound: items enqueued
  MaxBeacons,         \* bound: registrations that create a record
  TimeoutCheckerRuns  \* whether startTimeoutChecker was called

Items     == 1 .. MaxItems
BeaconIDs == 1 .. MaxBeacons

\* What a caller asks for.  For is who waits: a paused operation (RunHash),
\* an open HTTP request (dispatchAndWait, dispatchAndStream), or no one.
RequestType ==
  [AffinityKey : Keys \cup {None}, RequireAffinityMatch : BOOLEAN,
   Capability : UNION {Provides[n] : n \in Names}, MaxAttempts : Nat \ {0},
   Priority : Nat, For : {"operation", "http", "nobody"}]

ASSUME BoundsAssumption == MaxItems \in Nat \ {0} /\ MaxBeacons \in Nat \ {0}
ASSUME NamesAssumption ==
  /\ Names \subseteq Keys
  /\ None \notin Keys \cup Names /\ None \notin Nat
  /\ Transport \in [Names -> {"ws", "http"}]
  /\ DOMAIN Provides = Names
  /\ MaxConcurrent \in [Names -> Nat \ {0}]
ASSUME RequestsAssumption == Requests \subseteq RequestType
ASSUME CheckerAssumption == TimeoutCheckerRuns \in BOOLEAN

VARIABLES
  beacons,            \* _Beacons: name and status of each registration
  channel,            \* _BeaconWebSockets: state of each beacon's socket
  currentWorkItems,   \* CurrentWorkItems: how often each item is listed
  workQueue,          \* _WorkQueue
  bindings,           \* _AffinityBindings: key -> beacon
  callbacks,          \* _DirectDispatchCallbacks, _StreamDispatchHandlers
  resuming,           \* items whose resumeOperation has not called back
  up,                 \* the process has not died of an uncaught exception
  executions,         \* <<beacon, item>> at work outside the hub
  handOvers,          \* times each item reached a beacon
  notified            \* times the requester of each item was told

vars == <<beacons, channel, currentWorkItems, workQueue, bindings, callbacks,
          resuming, up, executions, handOvers, notified>>

Live  == {"Online", "Busy"}
Final == {"Complete", "Error", "Timeout"}

Registered(b)   == beacons[b].Status \in Live \cup {"Offline"}
Known(b)        == b # None /\ Registered(b)
Named(n)        == {b \in BeaconIDs : Registered(b) /\ beacons[b].Name = n}
InQueue(w)      == workQueue[w].Status \notin {"New", "Gone"}
\* The entries of b's list: an item as often as it is listed.
Entries(slots, b) == UNION {{w} \X (1 .. slots[b][w]) : w \in Items}
Load(slots, b)  == Cardinality(Entries(slots, b))
Full(slots, b)  == Load(slots, b) >= MaxConcurrent[beacons[b].Name]
First(S)        == CHOOSE x \in S : \A y \in S : x <= y

\* Mutant: required affinity is only a preference.
MutantSatisfiesAffinity(r, n) == TRUE

\* _beaconSatisfiesAffinity
BeaconSatisfiesAffinity(r, n) ==
  r.RequireAffinityMatch /\ r.AffinityKey # None => r.AffinityKey = n

\* Mutant: the fleet filter is not asked.
MutantMayClaim(r, n) ==
  BeaconSatisfiesAffinity(r, n) /\ r.Capability \in Provides[n]

\* The beacon named n may claim r: affinity, capability, fleet filter.
MayClaim(r, n) ==
  /\ BeaconSatisfiesAffinity(r, n)
  /\ r.Capability \in Provides[n]
  /\ <<n, r.Capability>> \notin FleetDenies

BeaconRecord ==
  [Name : Names \cup {None}, Status : Live \cup {"Offline", "New", "Gone"}]

WorkItem ==
  [Request : Requests \cup {None},
   Status : {"New", "Pending", "Assigned", "Running", "Dispatched", "Canceled",
             "RetryScheduled", "Complete", "Error", "Stalled", "Gone"},
   AssignedBeaconID : BeaconIDs \cup {None}, AttemptNumber : Nat,
   DispatchedAt : BOOLEAN, LastEventAt : {"recent", "old"},
   Priority : Nat, CancelRequested : BOOLEAN]

TypeOK ==
  /\ beacons \in [BeaconIDs -> BeaconRecord]
  /\ \A b \in BeaconIDs : Registered(b) => beacons[b].Name \in Names
  /\ channel \in [BeaconIDs -> {"none", "open", "closing"}]
  /\ currentWorkItems \in [BeaconIDs -> [Items -> Nat]]
  /\ workQueue \in [Items -> WorkItem]
  /\ \A w \in Items :
       workQueue[w].Status # "New" => workQueue[w].Request \in Requests
  /\ bindings \in [Keys -> BeaconIDs \cup {None}]
  /\ callbacks \subseteq Items
  /\ resuming \subseteq Items
  /\ up \in BOOLEAN
  /\ executions \subseteq BeaconIDs \X Items
  /\ handOvers \in [Items -> Nat]
  /\ notified \in [Items -> Nat]

Init ==
  /\ beacons = [b \in BeaconIDs |-> [Name |-> None, Status |-> "New"]]
  /\ channel = [b \in BeaconIDs |-> "none"]
  /\ currentWorkItems = [b \in BeaconIDs |-> [w \in Items |-> 0]]
  /\ workQueue = [w \in Items |->
       [Request |-> None, Status |-> "New", AssignedBeaconID |-> None,
        AttemptNumber |-> 0, DispatchedAt |-> FALSE, LastEventAt |-> "old",
        Priority |-> 0, CancelRequested |-> FALSE]]
  /\ bindings = [k \in Keys |-> None]
  /\ callbacks = {} /\ resuming = {} /\ up = TRUE
  /\ executions = {}
  /\ handOvers = [w \in Items |-> 0]
  /\ notified = [w \in Items |-> 0]

-----------------------------------------------------------------------------
(***************************************************************************)
(* Pushing work.  A handler changes some state and then walks items in     *)
(* queue order, pushing those it can.  h is the state the walk starts      *)
(* from; push[w] is the beacon item w was pushed to, or None.              *)
(***************************************************************************)
Now == [beacons |-> beacons, slots |-> currentWorkItems, queue |-> workQueue,
        bindings |-> bindings, executions |-> executions]

Held(h)   == {w \in Items : h.queue[w].Status = "Assigned"}
Parked(h) == {w \in Items : /\ h.queue[w].Status = "Pending"
                            /\ h.queue[w].AssignedBeaconID = None}

RunningOn(h, b) == {w \in Items : /\ h.queue[w].AssignedBeaconID = b
                                  /\ h.queue[w].Status = "Running"}

\* Items of the walk pushed to b before w's turn.
PushedBefore(push, w, b) == {v \in DOMAIN push : v < w /\ push[v] = b}

\* Mutant: a push to the designated beacon is not gated on what it runs.
MutantHeldMayGo(h, push, w, b) == h.queue[w].AssignedBeaconID = b

\* _pushAssignedWorkItem: only the designated beacon, within what it runs.
HeldMayGo(h, push, w, b) ==
  /\ h.queue[w].AssignedBeaconID = b
  /\ Cardinality(RunningOn(h, b)) + Cardinality(PushedBefore(push, w, b))
       < MaxConcurrent[h.beacons[b].Name]

\* _tryPushToWebSocketBeacon: any beacon with a free slot that may claim it.
ParkedMayGo(h, push, w, b) ==
  /\ Load(h.slots, b) + Cardinality(PushedBefore(push, w, b) \cap Parked(h))
       < MaxConcurrent[h.beacons[b].Name]
  /\ MayClaim(h.queue[w].Request, h.beacons[b].Name)

\* The beacons item w is offered to if every push fails.
Offers(h, push, w) ==
  {b \in BeaconIDs : /\ h.beacons[b].Status \in Live
                     /\ IF w \in Held(h) THEN HeldMayGo(h, push, w, b)
                                         ELSE ParkedMayGo(h, push, w, b)}

\* A push succeeds only on an open socket: the first such offer takes the item.
IsWalk(h, push) ==
  \A w \in DOMAIN push :
    LET reachable == {b \in Offers(h, push, w) : channel[b] = "open"}
    IN  \/ push[w] = None /\ reachable = {}
        \/ push[w] \in reachable /\ \A b \in reachable : push[w] <= b

\* The beacons an unassigned item was really offered to, the taker included.
Tried(h, push, w) ==
  {b \in Offers(h, push, w) : push[w] = None \/ b <= push[w]}

AfterPush(h, push, w) ==
  LET item == h.queue[w]
  IN  IF w \notin DOMAIN push THEN item
      ELSE IF w \in Held(h)
        THEN [item EXCEPT !.Status = IF push[w] = None THEN @ ELSE "Running"]
      ELSE IF Tried(h, push, w) = {} THEN item
      ELSE [item EXCEPT
              !.Status = IF push[w] = None THEN "Pending" ELSE "Running",
              !.AssignedBeaconID = push[w],
              !.DispatchedAt = TRUE, !.LastEventAt = "recent"]

\* The binding is made before the push and stays when the push fails.
Founders(h, push, k) ==
  {w \in DOMAIN push \ Held(h) : /\ h.queue[w].Request.AffinityKey = k
                                 /\ Tried(h, push, w) # {}}

AfterBinding(h, push, k) ==
  IF h.bindings[k] = None /\ Founders(h, push, k) # {}
  THEN First(Tried(h, push, First(Founders(h, push, k))))
  ELSE h.bindings[k]

\* Walk the items of W from h; the items of gone leave the queue afterwards.
Walk(h, W, gone) ==
  \E push \in [W \cap (Held(h) \cup Parked(h)) -> BeaconIDs \cup {None}] :
    /\ IsWalk(h, push)
    /\ beacons' = h.beacons
    /\ currentWorkItems' = [b \in BeaconIDs |-> [w \in Items |->
         IF w \in DOMAIN push \ Held(h) /\ push[w] = b
         THEN h.slots[b][w] + 1 ELSE h.slots[b][w]]]
    /\ workQueue' = [w \in Items |->
         IF w \in gone THEN [h.queue[w] EXCEPT !.Status = "Gone"]
                       ELSE AfterPush(h, push, w)]
    /\ bindings' = [k \in Keys |-> AfterBinding(h, push, k)]
    /\ executions' = h.executions \cup
         {<<push[w], w>> : w \in {v \in DOMAIN push : push[v] # None}}
    /\ handOvers' = [w \in Items |->
         IF w \in DOMAIN push /\ push[w] # None
         THEN handOvers[w] + 1 ELSE handOvers[w]]

\* _removeWorkItemFromBeacon and the _dispatchPendingWorkItems it ends with.
RemoveFromBeacon(b, w, h, gone) ==
  \/ /\ ~Known(b)
     /\ Walk(h, {}, gone)
  \/ /\ Known(b)
     /\ LET slots == [h.slots EXCEPT ![b][w] = IF @ > 0 THEN @ - 1 ELSE 0]
            records == IF Full(slots, b) THEN h.beacons
                       ELSE [h.beacons EXCEPT ![b].Status = "Online"]
        IN  Walk([h EXCEPT !.slots = slots, !.beacons = records],
                 Items, gone)

-----------------------------------------------------------------------------
(***************************************************************************)
(* Beacons come, go and are heard of.                                      *)
(***************************************************************************)
\* registerBeacon, and the socket mapping of _completeBeaconWSRegister.  A
\* record of the same name is reclaimed; parked items are not walked.
RegisterBeacon(n) ==
  \E b \in BeaconIDs :
    /\ \/ b \in Named(n)
       \/ /\ Named(n) = {} /\ beacons[b].Status = "New"
          /\ \A c \in BeaconIDs : c < b => beacons[c].Status # "New"
    /\ beacons' = [beacons EXCEPT ![b] = [Name |-> n, Status |-> "Online"]]
    /\ channel' = [channel EXCEPT ![b] =
                     IF Transport[n] = "ws" THEN "open" ELSE "none"]
    /\ UNCHANGED <<currentWorkItems, workQueue, bindings, callbacks, resuming,
                   up, executions, handOvers, notified>>

\* Mutant: assigned work stays with the beacon that left.
MutantDeregisterBeacon(b) ==
  /\ Registered(b)
  /\ beacons' = [beacons EXCEPT ![b].Status = "Gone"]
  /\ channel' = [channel EXCEPT ![b] = "none"]
  /\ currentWorkItems' = [currentWorkItems EXCEPT ![b] = [w \in Items |-> 0]]
  /\ workQueue' = [w \in Items |->
       IF currentWorkItems[b][w] > 0 /\ workQueue[w].Status = "Running"
       THEN [workQueue[w] EXCEPT !.Status = "Pending", !.AssignedBeaconID = None]
       ELSE workQueue[w]]
  /\ UNCHANGED <<bindings, callbacks, resuming, up, executions, handOvers, notified>>

\* deregisterBeacon releases every assigned or running item on the list.
DeregisterBeacon(b) ==
  /\ Registered(b)
  /\ beacons' = [beacons EXCEPT ![b].Status = "Gone"]
  /\ channel' = [channel EXCEPT ![b] = "none"]
  /\ currentWorkItems' = [currentWorkItems EXCEPT ![b] = [w \in Items |-> 0]]
  /\ workQueue' = [w \in Items |->
       IF /\ currentWorkItems[b][w] > 0
          /\ workQueue[w].Status \in {"Assigned", "Running"}
       THEN [workQueue[w] EXCEPT !.Status = "Pending", !.AssignedBeaconID = None]
       ELSE workQueue[w]]
  /\ UNCHANGED <<bindings, callbacks, resuming, up, executions, handOvers, notified>>

\* The socket leaves the OPEN state before its close event is handled; the
\* close event (_cleanupBeaconWS) is then a DeregisterBeacon.
CloseSocket(b) ==
  /\ channel[b] = "open"
  /\ channel' = [channel EXCEPT ![b] = "closing"]
  /\ UNCHANGED <<beacons, currentWorkItems, workQueue, bindings, callbacks,
                 resuming, up, executions, handOvers, notified>>

SetBeaconStatus(b, s) ==
  /\ beacons' = [beacons EXCEPT ![b].Status = s]
  /\ UNCHANGED <<channel, currentWorkItems, workQueue, bindings, callbacks,
                 resuming, up, executions, handOvers, notified>>

Heartbeat(b) ==
  /\ Registered(b)
  /\ SetBeaconStatus(b, IF Full(currentWorkItems, b) THEN "Busy" ELSE "Online")

\* _checkTimeouts, heartbeat loop.
MissHeartbeat(b) ==
  /\ TimeoutCheckerRuns /\ beacons[b].Status \in Live
  /\ SetBeaconStatus(b, "Offline")

\* clearAffinityBinding, and the expiry loop of _checkTimeouts.
ClearAffinityBinding(k) ==
  /\ bindings[k] # None
  /\ bindings' = [bindings EXCEPT ![k] = None]
  /\ UNCHANGED <<beacons, channel, currentWorkItems, workQueue, callbacks,
                 resuming, up, executions, handOvers, notified>>

-----------------------------------------------------------------------------
(***************************************************************************)
(* Work comes in and is claimed.                                           *)
(***************************************************************************)
\* Where enqueueWorkItem routes r: to the beacon its AffinityKey names, else,
\* unless the match is required, to the registered beacon the key is bound to.
NameRouted(r) == r.AffinityKey \in Names /\ Named(r.AffinityKey) # {}

BoundTo(r) ==
  {b \in BeaconIDs : /\ r.AffinityKey # None /\ ~NameRouted(r)
                     /\ ~r.RequireAffinityMatch
                     /\ bindings[r.AffinityKey] = b /\ Registered(b)}

\* enqueueWorkItem, with the callback dispatchAndWait or dispatchAndStream
\* registers next.  expired: the TTL of the binding has run out.
EnqueueWorkItem(w, r, expired) ==
  /\ workQueue[w].Status = "New"
  /\ \A v \in Items : v < w => workQueue[v].Status # "New"
  /\ expired => BoundTo(r) # {}
  /\ LET routes == IF NameRouted(r) THEN Named(r.AffinityKey)
                   ELSE IF expired THEN {} ELSE BoundTo(r)
         target == IF routes = {} THEN None ELSE First(routes)
         item   == [Request |-> r, AssignedBeaconID |-> target,
                    Status |-> IF target = None THEN "Pending" ELSE "Assigned",
                    AttemptNumber |-> 0, DispatchedAt |-> FALSE,
                    LastEventAt |-> "recent", Priority |-> r.Priority,
                    CancelRequested |-> FALSE]
         slots  == IF target = None THEN currentWorkItems
                   ELSE [currentWorkItems EXCEPT ![target][w] = @ + 1]
         bound  == IF expired THEN [bindings EXCEPT ![r.AffinityKey] = None]
                   ELSE bindings
     IN  Walk([Now EXCEPT !.queue[w] = item, !.slots = slots,
                          !.bindings = bound],
              {w}, {})
  /\ callbacks' = IF r.For = "http" THEN callbacks \cup {w} ELSE callbacks
  /\ UNCHANGED <<channel, resuming, up, notified>>

\* Mutant: a status that is not in the vocabulary of the queue.
MutantHandToPoller(b, w) ==
  /\ LET item == [workQueue[w] EXCEPT !.Status = "Claimed",
                                      !.AssignedBeaconID = b]
     IN  workQueue' = [workQueue EXCEPT ![w] = item]
  /\ executions' = executions \cup {<<b, w>>}
  /\ handOvers' = [handOvers EXCEPT ![w] = @ + 1]
  /\ UNCHANGED <<beacons, channel, callbacks, resuming, up, notified>>

\* pollForWork hands item w to beacon b.
HandToPoller(b, w) ==
  /\ LET item == [workQueue[w] EXCEPT
                    !.Status = "Running", !.AssignedBeaconID = b,
                    !.AttemptNumber = @ + 1, !.DispatchedAt = TRUE,
                    !.LastEventAt = "recent"]
     IN  workQueue' = [workQueue EXCEPT ![w] = item]
  /\ executions' = executions \cup {<<b, w>>}
  /\ handOvers' = [handOvers EXCEPT ![w] = @ + 1]
  /\ UNCHANGED <<beacons, channel, callbacks, resuming, up, notified>>

AssignedTo(b) == {w \in Items : /\ workQueue[w].Status = "Assigned"
                                /\ workQueue[w].AssignedBeaconID = b}
ClaimableBy(b) ==
  {w \in Items : /\ workQueue[w].Status = "Pending"
                 /\ workQueue[w].AssignedBeaconID \in {None, b}
                 /\ MayClaim(workQueue[w].Request, beacons[b].Name)}

\* First pass: what affinity assigned to b.
PollAssigned(b) ==
  /\ Registered(b) /\ Transport[beacons[b].Name] = "http"
  /\ ~Full(currentWorkItems, b)
  /\ AssignedTo(b) # {}
  /\ HandToPoller(b, First(AssignedTo(b)))
  /\ UNCHANGED <<currentWorkItems, bindings>>

\* Second pass: the first pending item b may claim.
PollPending(b) ==
  /\ Registered(b) /\ Transport[beacons[b].Name] = "http"
  /\ ~Full(currentWorkItems, b)
  /\ AssignedTo(b) = {} /\ ClaimableBy(b) # {}
  /\ LET w   == First(ClaimableBy(b))
         key == workQueue[w].Request.AffinityKey
     IN  /\ HandToPoller(b, w)
         /\ currentWorkItems' = [currentWorkItems EXCEPT ![b][w] =
                                   IF @ = 0 THEN 1 ELSE @]
         /\ bindings' = IF key # None /\ bindings[key] = None
                        THEN [bindings EXCEPT ![key] = b] ELSE bindings

-----------------------------------------------------------------------------
(***************************************************************************)
(* Work ends.  A report names only the item; nothing ties it to the beacon *)
(* the item is assigned to now.                                            *)
(***************************************************************************)
\* How the requester hears of the outcome of w.  A paused operation is
\* resumed by the engine, which may call back at once, call back later, or
\* refuse (the run is gone or is not waiting): then the item stays queued.
Replies(w) ==
  IF w \in callbacks THEN {"answered"}
  ELSE IF workQueue[w].Request.For = "operation"
  THEN {"resumed", "resuming", "refused"} ELSE {"dropped"}

\* Leaves the queue within the handler.
GoneBy(w, reply) == IF reply \in {"answered", "resumed", "dropped"} THEN {w} ELSE {}

Reply(w, reply) ==
  /\ callbacks' = callbacks \ {w}
  /\ resuming' = IF reply = "resuming" THEN resuming \cup {w} ELSE resuming
  /\ notified' = IF reply \in {"answered", "resumed", "resuming"}
                 THEN [notified EXCEPT ![w] = @ + 1] ELSE notified

\* completeWorkItem and failWorkItem once no attempt is left.
Finish(w, status, reply, h) ==
  /\ RemoveFromBeacon(workQueue[w].AssignedBeaconID, w,
       [h EXCEPT !.queue[w] = [h.queue[w] EXCEPT !.Status = status,
                                                 !.LastEventAt = "recent"]],
       GoneBy(w, reply))
  /\ Reply(w, reply)
  /\ UNCHANGED channel

\* An attempt is left: AssignedBeaconID is cleared before it is read again to
\* free the slot, so the slot is not freed and the queue not walked.
RetryLeft(w) ==
  workQueue[w].AttemptNumber < workQueue[w].Request.MaxAttempts - 1

ScheduleRetry(w, h) ==
  LET item == [h.queue[w] EXCEPT !.Status = "RetryScheduled",
                                 !.AttemptNumber = @ + 1,
                                 !.AssignedBeaconID = None]
  IN  /\ RemoveFromBeacon(item.AssignedBeaconID, w,
                          [h EXCEPT !.queue[w] = item], {})
      /\ UNCHANGED <<channel, callbacks, resuming, notified>>

\* The report of beacon b on w is used up, whatever becomes of it.
Reported(b, w) == [Now EXCEPT !.executions = @ \ {<<b, w>>}]

\* Mutant: an item that is finished but still queued takes another report.
MutantAccepts(w) == InQueue(w)

\* completeWorkItem and failWorkItem refuse what they do not find or what is
\* already final.
Accepts(w) == InQueue(w) /\ workQueue[w].Status \notin Final

CompleteWorkItem(b, w) ==
  /\ <<b, w>> \in executions /\ Accepts(w)
  /\ \E reply \in Replies(w) : Finish(w, "Complete", reply, Reported(b, w))
  /\ UNCHANGED up

FailWorkItem(b, w) ==
  /\ <<b, w>> \in executions /\ Accepts(w)
  /\ \/ RetryLeft(w) /\ ScheduleRetry(w, Reported(b, w))
     \/ /\ ~RetryLeft(w)
        /\ \E reply \in Replies(w) : Finish(w, "Error", reply, Reported(b, w))
  /\ UNCHANGED up

\* A report that is lost, or is refused (not found, already finalized).
LoseReport(b, w) ==
  /\ <<b, w>> \in executions
  /\ executions' = executions \ {<<b, w>>}
  /\ UNCHANGED <<beacons, channel, currentWorkItems, workQueue, bindings,
                 callbacks, resuming, up, handOvers, notified>>

UpdateProgress(b, w) ==
  /\ <<b, w>> \in executions
  /\ workQueue[w].Status \in {"Running", "Assigned"}
  /\ workQueue' = [workQueue EXCEPT ![w].LastEventAt = "recent"]
  /\ UNCHANGED <<beacons, channel, currentWorkItems, bindings, callbacks,
                 resuming, up, executions, handOvers, notified>>

\* Time passes without an event on w.
FallSilent(w) ==
  /\ InQueue(w) /\ workQueue[w].LastEventAt = "recent"
  /\ workQueue' = [workQueue EXCEPT ![w].LastEventAt = "old"]
  /\ UNCHANGED <<beacons, channel, currentWorkItems, bindings, callbacks,
                 resuming, up, executions, handOvers, notified>>

\* resumeOperation calls back: the finished item leaves the queue.
OperationResumed(w) ==
  /\ w \in resuming
  /\ resuming' = resuming \ {w}
  /\ workQueue' = [workQueue EXCEPT ![w].Status = "Gone"]
  /\ UNCHANGED <<beacons, channel, currentWorkItems, bindings, callbacks, up,
                 executions, handOvers, notified>>

\* The timer of dispatchAndWait and dispatchAndStream.  The slot is freed and
\* the queue walked while w is still in it.
DirectDispatchTimeout(w) ==
  /\ w \in callbacks
  /\ callbacks' = callbacks \ {w}
  /\ notified' = [notified EXCEPT ![w] = @ + 1]
  /\ \/ InQueue(w) /\ RemoveFromBeacon(workQueue[w].AssignedBeaconID, w, Now, {w})
     \/ ~InQueue(w) /\ UNCHANGED <<beacons, currentWorkItems, workQueue,
                                   bindings, executions, handOvers>>
  /\ UNCHANGED <<channel, resuming, up>>

-----------------------------------------------------------------------------
(***************************************************************************)
(* _checkTimeouts.  Which items are late and which retries are due is up   *)
(* to their own clocks, so a tick that finds several is as many ticks that *)
(* find one, except that the retry loop of the same tick reads the status  *)
(* of every item the tick began with: if the first loop removed one, the   *)
(* TypeError is not caught and the process dies.                           *)
(***************************************************************************)
TimeOutWorkItem(w) ==
  /\ TimeoutCheckerRuns /\ workQueue[w].Status \in {"Running", "Assigned"}
  /\ \/ RetryLeft(w) /\ ScheduleRetry(w, Now) /\ UNCHANGED up
     \/ /\ ~RetryLeft(w)
        /\ \E reply \in Replies(w) :
             Finish(w, "Error", reply, Now) /\ up' = (GoneBy(w, reply) = {})

RequeueRetry(w) ==
  /\ TimeoutCheckerRuns /\ workQueue[w].Status = "RetryScheduled"
  /\ LET item == [workQueue[w] EXCEPT !.Status = "Pending"]
     IN  Walk([Now EXCEPT !.queue[w] = item], {w}, {})
  /\ UNCHANGED <<channel, callbacks, resuming, up, notified>>

-----------------------------------------------------------------------------
BeaconStep(b) ==
  \/ DeregisterBeacon(b) \/ CloseSocket(b) \/ Heartbeat(b) \/ MissHeartbeat(b)
  \/ PollAssigned(b) \/ PollPending(b)

ReportStep(b, w) ==
  \/ CompleteWorkItem(b, w) \/ FailWorkItem(b, w)
  \/ LoseReport(b, w) \/ UpdateProgress(b, w)

ItemStep(w) ==
  \/ \E r \in Requests, expired \in BOOLEAN : EnqueueWorkItem(w, r, expired)
  \/ TimeOutWorkItem(w) \/ RequeueRetry(w) \/ DirectDispatchTimeout(w)
  \/ OperationResumed(w) \/ FallSilent(w)

Next ==
  /\ up
  /\ \/ \E n \in Names : RegisterBeacon(n)
     \/ \E b \in BeaconIDs : BeaconStep(b)
     \/ \E k \in Keys : ClearAffinityBinding(k)
     \/ \E b \in BeaconIDs, w \in Items : ReportStep(b, w)
     \/ \E w \in Items : ItemStep(w)

Spec == Init /\ [][Next]_vars

-----------------------------------------------------------------------------
(***************************************************************************)
(* Properties.                                                             *)
(***************************************************************************)
\* An item a registered or a departed beacon is said to have is on the list
\* of a beacon that is registered: releases on deregistration, failed pushes
\* and re-pushes never leave an item with a beacon that is gone or that does
\* not count it against its slots.
HeldOnRegisteredBeacon ==
  \A w \in Items : workQueue[w].Status \in {"Assigned", "Running"} =>
    \E b \in BeaconIDs : /\ workQueue[w].AssignedBeaconID = b
                         /\ Registered(b) /\ currentWorkItems[b][w] > 0

\* Work that requires its named beacon is never assigned to, and never runs
\* on, another one: not by a stale binding, a push, a poll, a retry or a
\* release (_beaconSatisfiesAffinity, Ultravisor_AffinityStrict_tests.js).
StrictAffinity ==
  \A w \in Items, b \in BeaconIDs :
    /\ \/ workQueue[w].AssignedBeaconID = b
       \/ <<b, w>> \in executions
    /\ workQueue[w].Request.RequireAffinityMatch
    /\ workQueue[w].Request.AffinityKey # None
    => beacons[b].Name = workQueue[w].Request.AffinityKey

\* Work without an affinity key runs only where it may: the beacon has the
\* capability and the fleet filter does not turn it down for it.
UnroutedWorkIsFiltered ==
  \A e \in executions :
    LET r == workQueue[e[2]].Request
        n == beacons[e[1]].Name
    IN  r.AffinityKey = None => /\ r.Capability \in Provides[n]
                                /\ <<n, r.Capability>> \notin FleetDenies

\* No beacon is given more work to run at once than it said it can take; its
\* SDK drops the frames beyond that (comment of _pushAssignedWorkItem).
RunningWithinCapacity ==
  \A b \in BeaconIDs : Registered(b) =>
    Cardinality({w \in Items : /\ workQueue[w].AssignedBeaconID = b
                               /\ workQueue[w].Status \in {"Running", "Dispatched"}})
      <= MaxConcurrent[beacons[b].Name]

\* Reports, timers, retries and timeouts race for the end of an item.  An
\* HTTP requester has its callback exactly until it is answered; a paused
\* operation is resumed at most once, and its item does not leave the queue
\* without that; no one is told of work nobody waits for.
ToldOnce ==
  \A w \in Items : workQueue[w].Status # "New" =>
    LET waits == workQueue[w].Request.For
    IN  /\ waits = "http" => notified[w] = IF w \in callbacks THEN 0 ELSE 1
        /\ waits = "operation" =>
             /\ notified[w] <= 1
             /\ workQueue[w].Status = "Gone" => notified[w] = 1
        /\ waits = "nobody" => notified[w] = 0

\* Once an item is finished no late report, timer or release reopens it.
Settled(w) == workQueue[w].Status \in Final \cup {"Gone"}
FinalIsFinal ==
  [][\A w \in Items : Settled(w) =>
       workQueue'[w].Status \in {workQueue[w].Status, "Gone"}]_vars

\* The queue keeps the promise of WorkDispatch: whatever handlers, timers and
\* walks of the queue do to an item, it was asked for once, ends once, in the
\* step that tells its requester, and reaches no beacon after that.
Phase(w) == CASE workQueue[w].Status = "New" -> "new"
              [] Settled(w) -> "over"
              [] OTHER -> "open"

Promise == INSTANCE WorkDispatch WITH
  asked <- [w \in Items |-> workQueue[w].Request],
  phase <- [w \in Items |-> Phase(w)],
  told <- notified, reached <- handOvers

ImplementsWorkDispatch == Promise!Spec

\* "Remove from the beacon's active list so it can accept new work" (failWorkItem):
\* every slot of a beacon is taken by work it has.
SlotsHoldOwnWork ==
  \A b \in BeaconIDs, w \in Items :
    Registered(b) /\ currentWorkItems[b][w] > 0
      => workQueue[w].AssignedBeaconID = b
=============================================================================
