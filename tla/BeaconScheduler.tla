--------------------------- MODULE BeaconScheduler ---------------------------
(***************************************************************************)
(* The ticking scheduler and the queue controls of the hub                 *)
(* (source/services/Ultravisor-Beacon-Scheduler.cjs), composed with the    *)
(* coordinator whose queue and beacon records it writes to directly.       *)
(* HubNext is the process the CLI starts: it starts the scheduler's ticks  *)
(* and not the coordinator's timeout checker.                              *)
(***************************************************************************)
EXTENDS BeaconCoordinator

CONSTANT PriorityBound   \* bound: a reorder reaches 0 .. PriorityBound

ASSUME PriorityAssumption == PriorityBound \in Nat

\* _compareDispatchPriority on two items of the same status.
Before(v, w) ==
  \/ workQueue[v].Priority > workQueue[w].Priority
  \/ workQueue[v].Priority = workQueue[w].Priority /\ v < w

Pending == {w \in Items : workQueue[w].Status = "Pending"}
ToCancel == {w \in Pending : workQueue[w].CancelRequested}

\* Where _pickBeacon looks: the beacon the item has, else the one its key
\* names, else all.  RequireAffinityMatch and the fleet filter are not read.
Candidates(w) ==
  LET item == workQueue[w]
  IN  IF item.AssignedBeaconID # None
      THEN {b \in {item.AssignedBeaconID} : Registered(b)}
      ELSE IF NameRouted(item.Request) THEN Named(item.Request.AffinityKey)
      ELSE {b \in BeaconIDs : Registered(b)}

\* Mutant: the tick counts the load in queue order.
MutantLoadAt(pick, w, b) ==
  Load(currentWorkItems, b)
    + Cardinality({v \in DOMAIN pick : /\ v < w /\ pick[v] = b
                                       /\ currentWorkItems[b][v] = 0})

\* Load of b at the turn of w: an item b already lists takes no second slot.
LoadAt(pick, w, b) ==
  Load(currentWorkItems, b)
    + Cardinality({v \in DOMAIN pick : /\ Before(v, w) /\ pick[v] = b
                                       /\ currentWorkItems[b][v] = 0})

\* _beaconCanTake
Takers(pick, w) ==
  {b \in Candidates(w) :
     /\ beacons[b].Status = "Online"
     /\ workQueue[w].Request.Capability \in Provides[beacons[b].Name]
     /\ LoadAt(pick, w, b) < MaxConcurrent[beacons[b].Name]}

\* The tick takes items by priority and gives each to the least loaded taker.
IsPick(pick) ==
  \A w \in DOMAIN pick :
    \/ pick[w] = None /\ Takers(pick, w) = {}
    \/ /\ pick[w] \in Takers(pick, w)
       /\ \A b \in Takers(pick, w) :
            \/ LoadAt(pick, w, pick[w]) < LoadAt(pick, w, b)
            \/ LoadAt(pick, w, pick[w]) = LoadAt(pick, w, b) /\ pick[w] <= b

\* _dispatchTick and _dispatchItemToBeacon: an item is Dispatched whether or
\* not the push that follows reaches its beacon.
DispatchTick ==
  \E pick \in [Pending \ ToCancel -> BeaconIDs \cup {None}] :
    LET given  == {w \in DOMAIN pick : pick[w] # None}
        pushed == {w \in given : channel[pick[w]] = "open"}
    IN  /\ IsPick(pick)
        /\ workQueue' = [w \in Items |->
             IF w \in ToCancel
             THEN [workQueue[w] EXCEPT !.Status = "Canceled",
                                       !.LastEventAt = "recent"]
             ELSE IF w \in given
             THEN [workQueue[w] EXCEPT
                     !.Status = "Dispatched", !.AssignedBeaconID = pick[w],
                     !.AttemptNumber = @ + 1, !.DispatchedAt = TRUE,
                     !.LastEventAt = "recent"]
             ELSE workQueue[w]]
        /\ currentWorkItems' = [b \in BeaconIDs |-> [w \in Items |->
             IF w \in given /\ pick[w] = b /\ currentWorkItems[b][w] = 0
             THEN 1 ELSE currentWorkItems[b][w]]]
        /\ executions' = executions \cup {<<pick[w], w>> : w \in pushed}
        /\ handOvers' = [w \in Items |->
             IF w \in pushed THEN handOvers[w] + 1 ELSE handOvers[w]]
        /\ UNCHANGED <<beacons, channel, bindings, callbacks, resuming, up,
                       notified>>

ChangeItem(w, item) ==
  /\ workQueue' = [workQueue EXCEPT ![w] = item]
  /\ UNCHANGED <<beacons, channel, currentWorkItems, bindings, callbacks,
                 resuming, up, executions, handOvers, notified>>

\* Mutant: a status that is not in the vocabulary of the queue.
MutantCancelWaiting(w) ==
  /\ workQueue[w].Status \in {"Pending", "Assigned"}
  /\ ChangeItem(w, [workQueue[w] EXCEPT !.Status = "Cancelled"])

\* requestCancel (and _markCanceled): the slot of an assigned item is not
\* freed, its beacon, its requester and the journal are not told.
CancelWaiting(w) ==
  /\ workQueue[w].Status \in {"Pending", "Assigned"}
  /\ ChangeItem(w, [workQueue[w] EXCEPT !.Status = "Canceled",
                                        !.LastEventAt = "recent"])

CancelAtWork(w) ==
  /\ workQueue[w].Status \in {"Dispatched", "Running"}
  /\ ChangeItem(w, [workQueue[w] EXCEPT !.CancelRequested = TRUE])

\* Mutant: work of a failed push, pending again, is not looked at.
MutantStallWorkItem(w) ==
  /\ workQueue[w].Status \in {"Dispatched", "Running"}
  /\ workQueue[w].LastEventAt = "old"
  /\ RemoveFromBeacon(workQueue[w].AssignedBeaconID, w, Now, {w})
  /\ UNCHANGED <<channel, callbacks, resuming, up, notified>>

\* _maybeMarkStalled on w, and the stallWorkItem it calls: no retry, the run
\* of the item is finalized at once, an HTTP requester is left to its timer.
StallWorkItem(w) ==
  /\ \/ workQueue[w].Status \in {"Dispatched", "Running"}
     \/ workQueue[w].Status \in {"Pending", "Assigned"} /\ workQueue[w].DispatchedAt
  /\ workQueue[w].LastEventAt = "old"
  /\ RemoveFromBeacon(workQueue[w].AssignedBeaconID, w,
                      [Now EXCEPT !.queue[w] =
                         [workQueue[w] EXCEPT !.Status = "Stalled"]], {w})
  /\ notified' = IF workQueue[w].Request.For = "operation"
                 THEN [notified EXCEPT ![w] = @ + 1] ELSE notified
  /\ UNCHANGED <<channel, callbacks, resuming, up>>

-----------------------------------------------------------------------------
(***************************************************************************)
(* reorderWorkItem: the Upcoming items as the UI lists them, and the       *)
(* neighbour an item is moved past.                                        *)
(***************************************************************************)
Upcoming == {w \in Items :
               workQueue[w].Status \in {"Pending", "Assigned", "RetryScheduled"}}

\* _compareDispatchPriority: affinity-assigned items sort first.
ListedBefore(v, w) ==
  LET assigned(x) == workQueue[x].Status = "Assigned"
  IN  \/ assigned(v) /\ ~assigned(w)
      \/ (assigned(v) <=> assigned(w)) /\ Before(v, w)

\* v is the neighbour of w on the side it is moved to.
IsNeighbour(v, w, ahead) ==
  /\ v \in Upcoming
  /\ IF ahead THEN ListedBefore(v, w) ELSE ListedBefore(w, v)
  /\ \A x \in Upcoming :
       ~ IF ahead THEN ListedBefore(v, x) /\ ListedBefore(x, w)
                ELSE ListedBefore(w, x) /\ ListedBefore(x, v)

ReorderWorkItem(w, ahead) ==
  /\ w \in Upcoming
  /\ \E v \in Upcoming :
       /\ IsNeighbour(v, w, ahead)
       /\ IF ahead THEN workQueue[v].Priority < PriorityBound
                 ELSE workQueue[v].Priority > 0
       /\ ChangeItem(w, [workQueue[w] EXCEPT !.Priority =
            IF ahead THEN workQueue[v].Priority + 1 ELSE workQueue[v].Priority - 1])

-----------------------------------------------------------------------------
HubNext ==
  \/ Next
  \/ /\ up
     /\ \/ DispatchTick
        \/ \E w \in Items :
             \/ CancelWaiting(w) \/ CancelAtWork(w) \/ StallWorkItem(w)
             \/ \E ahead \in BOOLEAN : ReorderWorkItem(w, ahead)

HubSpec == Init /\ [][HubNext]_vars

\* What the hub's timers and the engine guarantee, and that a beacon at work
\* on an item reports an end or is never heard of again.
Fairness ==
  /\ \A w \in Items :
       /\ WF_vars(FallSilent(w)) /\ WF_vars(StallWorkItem(w))
       /\ WF_vars(DirectDispatchTimeout(w)) /\ WF_vars(OperationResumed(w))
  /\ \A b \in BeaconIDs, w \in Items : WF_vars(LoseReport(b, w))

FairHubSpec == HubSpec /\ Fairness

-----------------------------------------------------------------------------
(***************************************************************************)
(* Properties.                                                             *)
(***************************************************************************)
\* A tick never gives a beacon to an item while one that sorts before it,
\* and that the same beacon could have taken, stays behind.
NoPriorityInversion ==
  [][\A v, w \in Items :
       /\ v \in Pending \ ToCancel /\ w \in Pending
       /\ workQueue[v].Priority > workQueue[w].Priority
       /\ workQueue'[w].Status = "Dispatched" /\ workQueue'[v].Status = "Pending"
       => LET b == workQueue'[w].AssignedBeaconID
          IN  \/ b \notin Candidates(v)
              \/ workQueue[v].Request.Capability
                    \notin Provides[beacons[b].Name]]_vars

\* Whatever was handed out, or given to a beacon and not delivered, comes to
\* an end the queue can see: a report, a stall, a cancellation or a retry.
HandedOutIsSettled ==
  \A w \in Items : (InQueue(w) /\ workQueue[w].DispatchedAt) ~>
    (Settled(w) \/ workQueue[w].Status \in {"Canceled", "RetryScheduled"})
=============================================================================
