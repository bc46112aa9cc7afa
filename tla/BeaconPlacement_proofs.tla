----------------------- MODULE BeaconPlacement_proofs ------------------------
(***************************************************************************)
(* More theorems of BeaconCoordinator: where work runs and how much of it; *)
(* and theorems of BeaconScheduler, which writes to the same queue.        *)
(***************************************************************************)
EXTENDS BeaconScheduler, BeaconCoordinator_proofs

-----------------------------------------------------------------------------
(***************************************************************************)
(* Where work may run, who holds it, and how much: StrictAffinity,         *)
(* UnroutedWorkIsFiltered, HeldOnRegisteredBeacon and                      *)
(* RunningWithinCapacity of BeaconCoordinator.                             *)
(***************************************************************************)

\* A beacon number is not None.
LEMMA NoneIsNoBeacon == None \notin BeaconIDs
BY BoundsAreNat, NamesAssumption

-----------------------------------------------------------------------------
(***************************************************************************)
(* Neither StrictAffinity nor UnroutedWorkIsFiltered is inductive.  Both   *)
(* follow from Placed: an item is assigned to, or at work on, only a       *)
(* beacon that is or was registered under a name that may have it.  A      *)
(* beacon's number keeps its name for good once it registered, which is    *)
(* why a departed beacon matters too.                                      *)
(***************************************************************************)
\* A beacon named n may have r: the named one if r requires it, and one that
\* passes the filters if r names none.
Right(r, n) ==
  /\ r.RequireAffinityMatch /\ r.AffinityKey # None => n = r.AffinityKey
  /\ r.AffinityKey = None =>
       r.Capability \in Provides[n] /\ <<n, r.Capability>> \notin FleetDenies

At(queue, running, w, b) == queue[w].AssignedBeaconID = b \/ <<b, w>> \in running

PlacedIn(bs, queue, running) ==
  \A w \in Items, b \in BeaconIDs : At(queue, running, w, b) =>
    /\ bs[b].Status # "New" /\ queue[w].Status # "New"
    /\ Right(queue[w].Request, bs[b].Name)

Placed == PlacedIn(beacons, workQueue, executions)

\* A claim is right.
LEMMA ClaimIsRight == ASSUME NEW r, NEW n, MayClaim(r, n) PROVE Right(r, n)
BY DEF MayClaim, BeaconSatisfiesAffinity, Right

\* What a push does to the beacon of its item.
LEMMA AfterPushPlaces ==
  ASSUME NEW h, StateTyped(h), NEW w \in Items,
         NEW D \in SUBSET (Held(h) \cup Parked(h)), NEW push \in [D -> BeaconIDs \cup {None}]
  PROVE  /\ \/ AfterPush(h, push, w).AssignedBeaconID = h.queue[w].AssignedBeaconID
            \/ w \in D /\ AfterPush(h, push, w).AssignedBeaconID = push[w]
         /\ AfterPush(h, push, w).Request = h.queue[w].Request
         /\ h.queue[w].Status # "New" => AfterPush(h, push, w).Status # "New"
<1>1. h.queue[w] \in WorkItem
  BY DEF StateTyped, WalkTyped
<1>2. DOMAIN push = D
  OBVIOUS
<1>3. CASE w \notin D
  BY <1>2, <1>3 DEF AfterPush
<1>4. CASE w \in D /\ w \in Held(h)
  <2>1. AfterPush(h, push, w)
          = [h.queue[w] EXCEPT !.Status = IF push[w] = None THEN @ ELSE "Running"]
    BY <1>2, <1>4 DEF AfterPush
  <2>2. h.queue[w].Status = "Assigned"
    BY <1>4 DEF Held
  <2> QED  BY <1>1, <2>1, <2>2 DEF WorkItem
<1>5. CASE w \in D /\ w \notin Held(h)
  <2>1. \/ AfterPush(h, push, w) = h.queue[w]
        \/ AfterPush(h, push, w) =
             [h.queue[w] EXCEPT !.Status = IF push[w] = None THEN "Pending" ELSE "Running",
                                !.AssignedBeaconID = push[w],
                                !.DispatchedAt = TRUE, !.LastEventAt = "recent"]
    BY <1>2, <1>5 DEF AfterPush
  <2>2. CASE AfterPush(h, push, w) = h.queue[w]
    BY <2>2
  <2>3. CASE AfterPush(h, push, w) # h.queue[w]
    <3>1. /\ AfterPush(h, push, w).AssignedBeaconID = push[w]
          /\ AfterPush(h, push, w).Request = h.queue[w].Request
      BY <1>1, <2>1, <2>3 DEF WorkItem
    <3>2. AfterPush(h, push, w).Status \in {"Pending", "Running"}
      BY <1>1, <2>1, <2>3 DEF WorkItem
    <3> QED  BY <1>5, <3>1, <3>2
  <2> QED  BY <2>2, <2>3
<1> QED  BY <1>3, <1>4, <1>5

\* A walk of the queue places work right.
LEMMA WalkPlaces ==
  ASSUME NEW h, StateTyped(h), PlacedIn(h.beacons, h.queue, h.executions),
         NEW W, NEW gone, Walk(h, W, gone)
  PROVE  Placed'
<1> DEFINE D == W \cap (Held(h) \cup Parked(h))
<1>1. PICK push \in [D -> BeaconIDs \cup {None}] :
        /\ IsWalk(h, push)
        /\ beacons' = h.beacons
        /\ workQueue' = [w \in Items |->
             IF w \in gone THEN [h.queue[w] EXCEPT !.Status = "Gone"]
                           ELSE AfterPush(h, push, w)]
        /\ executions' = h.executions \cup
             {<<push[w], w>> : w \in {v \in DOMAIN push : push[v] # None}}
  BY DEF Walk
<1>2. D \in SUBSET (Held(h) \cup Parked(h)) /\ DOMAIN push = D
  OBVIOUS
<1> HIDE DEF D
<1>3. ASSUME NEW w \in D, push[w] # None
      PROVE  /\ w \in Items /\ push[w] \in BeaconIDs /\ h.beacons[push[w]].Status # "New"
             /\ Right(h.queue[w].Request, h.beacons[push[w]].Name)
             /\ h.queue[w].Status # "New"
  <2>1. push[w] \in Offers(h, push, w)
    BY <1>1, <1>2, <1>3 DEF IsWalk
  <2>2. /\ w \in Items /\ h.queue[w].Status \in {"Assigned", "Pending"}
        /\ push[w] \in BeaconIDs /\ h.beacons[push[w]].Status \in Live
    BY <1>2, <2>1 DEF Held, Parked, Offers
  <2>3. CASE w \in Held(h)
    <3>1. h.queue[w].AssignedBeaconID = push[w]
      BY <2>1, <2>3 DEF Offers, HeldMayGo
    <3> QED  BY <2>2, <3>1 DEF PlacedIn, At
  <2>4. CASE w \notin Held(h)
    <3>1. MayClaim(h.queue[w].Request, h.beacons[push[w]].Name)
      BY <2>1, <2>4 DEF Offers, ParkedMayGo
    <3> QED  BY <2>2, <3>1, ClaimIsRight DEF Live
  <2> QED  BY <2>3, <2>4
<1>4. SUFFICES ASSUME NEW w \in Items, NEW b \in BeaconIDs, At(workQueue', executions', w, b)
               PROVE  /\ beacons'[b].Status # "New" /\ workQueue'[w].Status # "New"
                      /\ Right(workQueue'[w].Request, beacons'[b].Name)
  BY DEF Placed, PlacedIn
<1>5. At(h.queue, h.executions, w, b) \/ (w \in D /\ push[w] = b)
  <2>1. CASE <<b, w>> \in executions'
    BY <1>1, <1>2, <2>1 DEF At
  <2>2. CASE workQueue'[w].AssignedBeaconID = b
    <3>1. CASE w \in gone
      <4>1. h.queue[w] \in WorkItem
        BY DEF StateTyped, WalkTyped
      <4>2. workQueue'[w] = [h.queue[w] EXCEPT !.Status = "Gone"]
        BY <1>1, <3>1
      <4> QED  BY <2>2, <4>1, <4>2 DEF WorkItem, At
    <3>2. CASE w \notin gone
      <4>1. workQueue'[w] = AfterPush(h, push, w)
        BY <1>1, <3>2
      <4> QED  BY <1>2, <2>2, <4>1, AfterPushPlaces DEF At
    <3> QED  BY <3>1, <3>2
  <2> QED  BY <1>4, <2>1, <2>2 DEF At
<1>6. /\ h.beacons[b].Status # "New" /\ h.queue[w].Status # "New"
      /\ Right(h.queue[w].Request, h.beacons[b].Name)
  BY <1>3, <1>5, NoneIsNoBeacon DEF PlacedIn
<1>7. workQueue'[w].Request = h.queue[w].Request /\ workQueue'[w].Status # "New"
  <2>1. CASE w \in gone
    <3>1. h.queue[w] \in WorkItem
      BY DEF StateTyped, WalkTyped
    <3>2. workQueue'[w] = [h.queue[w] EXCEPT !.Status = "Gone"]
      BY <1>1, <2>1
    <3> QED  BY <3>1, <3>2 DEF WorkItem
  <2>2. CASE w \notin gone
    <3>1. workQueue'[w] = AfterPush(h, push, w)
      BY <1>1, <2>2
    <3> QED  BY <1>2, <1>6, <3>1, AfterPushPlaces
  <2> QED  BY <2>1, <2>2
<1> QED  BY <1>1, <1>6, <1>7

\* _removeWorkItemFromBeacon places work right: it changes no name.
LEMMA RemovePlaces ==
  ASSUME NEW h, StateTyped(h), h.beacons = beacons,
         PlacedIn(h.beacons, h.queue, h.executions),
         NEW w \in Items, NEW b \in BeaconIDs \cup {None}, NEW gone,
         RemoveFromBeacon(b, w, h, gone)
  PROVE  Placed'
<1>1. CASE ~Known(b) /\ Walk(h, {}, gone)
  BY <1>1, WalkPlaces
<1>2. CASE Known(b)
  <2> DEFINE slots   == [h.slots EXCEPT ![b][w] = IF @ > 0 THEN @ - 1 ELSE 0]
             records == IF Full(slots, b) THEN h.beacons
                        ELSE [h.beacons EXCEPT ![b].Status = "Online"]
             h2      == [h EXCEPT !.slots = slots, !.beacons = records]
  <2>1. b \in BeaconIDs /\ Registered(b) /\ Walk(h2, Items, gone)
    BY <1>2 DEF RemoveFromBeacon, Known
  <2>2. slots \in [BeaconIDs -> [Items -> Nat]]
    BY <2>1 DEF StateTyped, WalkTyped
  <2>3. /\ records \in [BeaconIDs -> BeaconRecord]
        /\ \A c \in BeaconIDs :
             /\ records[c].Status \in Live \cup {"Offline"} => records[c].Name \in Names
             /\ records[c].Name = h.beacons[c].Name
             /\ records[c].Status = "New" => h.beacons[c].Status = "New"
    BY <2>1 DEF StateTyped, WalkTyped, BeaconRecord, Registered, Live
  <2> HIDE DEF slots, records
  <2>4. /\ DOMAIN h2 = DOMAIN h
        /\ h2.beacons = records /\ h2.slots = slots /\ h2.queue = h.queue
        /\ h2.bindings = h.bindings /\ h2.executions = h.executions
    BY DEF StateTyped
  <2>5. StateTyped(h2)
    BY <2>2, <2>3, <2>4 DEF StateTyped, WalkTyped
  <2>6. PlacedIn(h2.beacons, h2.queue, h2.executions)
    BY <2>3, <2>4 DEF PlacedIn
  <2> HIDE DEF h2
  <2> QED  BY <2>1, <2>5, <2>6, WalkPlaces
<1> QED  BY <1>1, <1>2 DEF RemoveFromBeacon

\* Changing an item without giving it another beacon or request.
LEMMA WithItemPlaced ==
  ASSUME NEW h, StateTyped(h), PlacedIn(h.beacons, h.queue, h.executions),
         NEW w \in Items, NEW item \in WorkItem,
         item.Status # "New", item.Request = h.queue[w].Request,
         item.AssignedBeaconID \in {h.queue[w].AssignedBeaconID, None}
  PROVE  LET h2 == [h EXCEPT !.queue[w] = item]
         IN  PlacedIn(h2.beacons, h2.queue, h2.executions)
<1> DEFINE h2 == [h EXCEPT !.queue[w] = item]
<1>1. /\ h2.beacons = h.beacons /\ h2.executions = h.executions
      /\ h2.queue = [h.queue EXCEPT ![w] = item]
  BY DEF StateTyped
<1>2. h2.queue[w] = item /\ \A v \in Items \ {w} : h2.queue[v] = h.queue[v]
  BY <1>1 DEF StateTyped, WalkTyped
<1> HIDE DEF h2
<1>3. PlacedIn(h2.beacons, h2.queue, h2.executions)
  BY <1>1, <1>2, NoneIsNoBeacon DEF PlacedIn, At
<1> QED  BY <1>3 DEF h2

-----------------------------------------------------------------------------
\* A step that gives no item a beacon it did not have, and no number a new name.
LEMMA NothingPlaced ==
  ASSUME TypeOK, Placed,
         \A b \in BeaconIDs : /\ beacons'[b].Name = beacons[b].Name
                              /\ beacons'[b].Status = "New" => beacons[b].Status = "New",
         \A w \in Items :
           /\ workQueue'[w].Request = workQueue[w].Request
           /\ workQueue'[w].AssignedBeaconID \in {workQueue[w].AssignedBeaconID, None}
           /\ workQueue'[w].Status = "New" => workQueue[w].Status = "New",
         executions' \subseteq executions
  PROVE  Placed'
BY NoneIsNoBeacon DEF Placed, PlacedIn, At

\* A step that changes one item, neither its beacon nor its request.
LEMMA ItemTouched ==
  ASSUME TypeOK, Placed, UNCHANGED <<beacons, executions>>, NEW w \in Items,
         \/ workQueue' = [workQueue EXCEPT ![w].LastEventAt = "recent"]
         \/ workQueue' = [workQueue EXCEPT ![w].LastEventAt = "old"]
         \/ workQueue' = [workQueue EXCEPT ![w].Status = "Gone"]
  PROVE  Placed'
<1>1. ASSUME NEW v \in Items
      PROVE  /\ workQueue'[v].Request = workQueue[v].Request
             /\ workQueue'[v].AssignedBeaconID = workQueue[v].AssignedBeaconID
             /\ workQueue'[v].Status = "New" => workQueue[v].Status = "New"
  <2>1. workQueue[v] \in WorkItem /\ workQueue \in [Items -> WorkItem]
    BY DEF TypeOK
  <2>2. CASE v # w
    BY <2>1, <2>2
  <2>3. CASE v = w
    <3>1. \/ workQueue'[v] = [workQueue[v] EXCEPT !.LastEventAt = "recent"]
          \/ workQueue'[v] = [workQueue[v] EXCEPT !.LastEventAt = "old"]
          \/ workQueue'[v] = [workQueue[v] EXCEPT !.Status = "Gone"]
      BY <2>1, <2>3
    <3> QED  BY <2>1, <3>1 DEF WorkItem
  <2> QED  BY <2>2, <2>3
<1> QED  BY <1>1, NothingPlaced

\* registerBeacon names a number for good.
LEMMA RegisterPlaces ==
  ASSUME TypeOK, Placed, NEW n \in Names, RegisterBeacon(n) PROVE Placed'
<1>1. PICK b \in BeaconIDs :
        /\ b \in Named(n) \/ beacons[b].Status = "New"
        /\ beacons' = [beacons EXCEPT ![b] = [Name |-> n, Status |-> "Online"]]
        /\ UNCHANGED <<workQueue, executions>>
  BY DEF RegisterBeacon
<1>2. /\ beacons'[b].Name = n /\ beacons'[b].Status = "Online"
      /\ \A c \in BeaconIDs \ {b} : beacons'[c] = beacons[c]
  BY <1>1 DEF TypeOK
<1>3. ASSUME NEW w \in Items, At(workQueue, executions, w, b)
      PROVE  beacons[b].Name = n
  BY <1>1, <1>3 DEF Placed, PlacedIn, Named
<1> QED  BY <1>1, <1>2, <1>3 DEF Placed, PlacedIn, At

\* A beacon's status changes, its name does not.
LEMMA StatusTouched ==
  ASSUME TypeOK, NEW b \in BeaconIDs, NEW s \in {"Gone", "Busy", "Online", "Offline"},
         beacons' = [beacons EXCEPT ![b].Status = s], NEW c \in BeaconIDs
  PROVE  /\ beacons'[c].Name = beacons[c].Name
         /\ beacons'[c].Status = "New" => beacons[c].Status = "New"
<1>1. beacons[c] \in BeaconRecord /\ beacons \in [BeaconIDs -> BeaconRecord]
  BY DEF TypeOK
<1>2. CASE c # b
  BY <1>1, <1>2
<1>3. CASE c = b
  <2>1. beacons'[b] = [beacons[b] EXCEPT !.Status = s]
    BY <1>1
  <2> QED  BY <1>1, <1>3, <2>1 DEF BeaconRecord
<1> QED  BY <1>2, <1>3

\* deregisterBeacon, the socket, heartbeats and polls.
LEMMA BeaconStepPlaces ==
  ASSUME TypeOK, Placed, NEW b \in BeaconIDs, BeaconStep(b) PROVE Placed'
<1>1. CASE DeregisterBeacon(b)
  <2>1. /\ beacons' = [beacons EXCEPT ![b].Status = "Gone"] /\ UNCHANGED executions
        /\ \A w \in Items :
             \/ workQueue'[w] = workQueue[w]
             \/ workQueue'[w] = [workQueue[w] EXCEPT !.Status = "Pending",
                                                     !.AssignedBeaconID = None]
    BY <1>1 DEF DeregisterBeacon
  <2>2. \A c \in BeaconIDs : /\ beacons'[c].Name = beacons[c].Name
                             /\ beacons'[c].Status = "New" => beacons[c].Status = "New"
    BY <2>1, StatusTouched
  <2>3. ASSUME NEW w \in Items
        PROVE  /\ workQueue'[w].Request = workQueue[w].Request
               /\ workQueue'[w].AssignedBeaconID \in {workQueue[w].AssignedBeaconID, None}
               /\ workQueue'[w].Status = "New" => workQueue[w].Status = "New"
    <3>1. workQueue[w] \in WorkItem
      BY DEF TypeOK
    <3>2. CASE workQueue'[w] = [workQueue[w] EXCEPT !.Status = "Pending",
                                                    !.AssignedBeaconID = None]
      BY <3>1, <3>2 DEF WorkItem
    <3> QED  BY <2>1, <3>2
  <2> QED  BY <2>1, <2>2, <2>3, NothingPlaced
<1>2. CASE CloseSocket(b)
  BY <1>2, NothingPlaced DEF CloseSocket
<1>3. CASE Heartbeat(b) \/ MissHeartbeat(b)
  <2>1. PICK s \in {"Busy", "Online", "Offline"} : SetBeaconStatus(b, s)
    BY <1>3 DEF Heartbeat, MissHeartbeat
  <2>2. /\ beacons' = [beacons EXCEPT ![b].Status = s]
        /\ UNCHANGED <<workQueue, executions>>
    BY <2>1 DEF SetBeaconStatus
  <2>3. \A c \in BeaconIDs : /\ beacons'[c].Name = beacons[c].Name
                             /\ beacons'[c].Status = "New" => beacons[c].Status = "New"
    BY <2>1, <2>2, StatusTouched
  <2> QED  BY <2>2, <2>3, NothingPlaced
<1>4. ASSUME NEW w \in Items, HandToPoller(b, w), Registered(b),
             workQueue[w].Status # "New",
             Right(workQueue[w].Request, beacons[b].Name)
      PROVE  Placed'
  <2> DEFINE item == [workQueue[w] EXCEPT
                !.Status = "Running", !.AssignedBeaconID = b,
                !.AttemptNumber = @ + 1, !.DispatchedAt = TRUE,
                !.LastEventAt = "recent"]
  <2>1. /\ workQueue' = [workQueue EXCEPT ![w] = item]
        /\ executions' = executions \cup {<<b, w>>} /\ UNCHANGED beacons
    BY <1>4 DEF HandToPoller
  <2>2. /\ item.Status = "Running" /\ item.Request = workQueue[w].Request
        /\ item.AssignedBeaconID = b
    BY DEF TypeOK, WorkItem
  <2> HIDE DEF item
  <2>3. workQueue'[w] = item /\ \A v \in Items \ {w} : workQueue'[v] = workQueue[v]
    BY <2>1 DEF TypeOK
  <2>4. beacons[b].Status # "New"
    BY <1>4 DEF Registered, Live
  <2> QED  BY <1>4, <2>1, <2>2, <2>3, <2>4 DEF Placed, PlacedIn, At
<1>5. CASE PollAssigned(b)
  <2>1. First(AssignedTo(b)) \in AssignedTo(b)
    BY <1>5, BoundsAreNat, FirstIsMember DEF PollAssigned, AssignedTo
  <2> QED  BY <1>4, <1>5, <2>1 DEF PollAssigned, AssignedTo, Placed, PlacedIn, At
<1>6. CASE PollPending(b)
  <2>1. First(ClaimableBy(b)) \in ClaimableBy(b)
    BY <1>6, BoundsAreNat, FirstIsMember DEF PollPending, ClaimableBy
  <2> QED  BY <1>4, <1>6, <2>1, ClaimIsRight DEF PollPending, ClaimableBy
<1> QED  BY <1>1, <1>2, <1>3, <1>5, <1>6 DEF BeaconStep

\* enqueueWorkItem routes to the beacon the key names, or along a binding if the
\* match is not required.
LEMMA EnqueuePlaces ==
  ASSUME TypeOK, Placed, NEW w \in Items, NEW r \in Requests, NEW expired \in BOOLEAN,
         EnqueueWorkItem(w, r, expired)
  PROVE  Placed'
<1> DEFINE routes == IF NameRouted(r) THEN Named(r.AffinityKey)
                     ELSE IF expired THEN {} ELSE BoundTo(r)
           target == IF routes = {} THEN None ELSE First(routes)
           item   == [Request |-> r, AssignedBeaconID |-> target,
                      Status |-> IF target = None THEN "Pending" ELSE "Assigned",
                      AttemptNumber |-> 0, DispatchedAt |-> FALSE,
                      LastEventAt |-> "recent", Priority |-> r.Priority,
                      CancelRequested |-> FALSE]
           slots  == IF target = None THEN currentWorkItems
                     ELSE [currentWorkItems EXCEPT ![target][w] = @ + 1]
           bound  == IF expired THEN [bindings EXCEPT ![r.AffinityKey] = None]
                     ELSE bindings
           h2     == [Now EXCEPT !.queue[w] = item, !.slots = slots,
                                 !.bindings = bound]
<1>1. Walk(h2, {w}, {}) /\ workQueue[w].Status = "New"
  BY DEF EnqueueWorkItem
<1>2. \/ target = None
      \/ /\ target \in BeaconIDs /\ beacons[target].Status # "New"
         /\ Right(r, beacons[target].Name)
  <2> HIDE DEF routes
  <2>1. CASE routes = {}
    BY <2>1
  <2>2. CASE routes # {}
    <3>1. target \in routes /\ target \in BeaconIDs /\ Registered(target)
      BY <2>2, RoutesAreRegistered DEF routes
    <3>2. beacons[target].Name = r.AffinityKey \/ ~r.RequireAffinityMatch
      BY <3>1 DEF routes, Named, BoundTo
    <3>3. r.AffinityKey # None
      <4>1. CASE NameRouted(r)
        BY <4>1, NamesAssumption DEF NameRouted
      <4>2. CASE ~NameRouted(r)
        BY <3>1, <4>2 DEF routes, BoundTo
      <4> QED  BY <4>1, <4>2
    <3> QED  BY <3>1, <3>2, <3>3 DEF Right, Registered, Live
  <2> QED  BY <2>1, <2>2
<1>3. target \in BeaconIDs \cup {None}
  BY <1>2
<1> HIDE DEF target
<1>4. /\ item \in WorkItem /\ item.Request = r /\ item.Request \in Requests
      /\ item.Status # "New" /\ item.AssignedBeaconID = target
  BY <1>3, RequestsAssumption DEF WorkItem, RequestType
<1>5. slots \in [BeaconIDs -> [Items -> Nat]]
  BY <1>3 DEF TypeOK
<1>6. bound \in [Keys -> BeaconIDs \cup {None}]
  BY DEF TypeOK
<1> HIDE DEF item, slots, bound
<1>7. /\ DOMAIN h2 = {"beacons", "slots", "queue", "bindings", "executions"}
      /\ h2.beacons = beacons /\ h2.slots = slots /\ h2.bindings = bound
      /\ h2.queue = [workQueue EXCEPT ![w] = item]
      /\ h2.executions = executions
  BY DEF Now
<1>8. /\ h2.queue \in [Items -> WorkItem]
      /\ \A v \in Items : h2.queue[v].Status # "New" => h2.queue[v].Request \in Requests
  BY <1>4, <1>7 DEF TypeOK
<1>9. StateTyped(h2)
  BY <1>5, <1>6, <1>7, <1>8, TypeOKParts DEF StateTyped, NowTyped, WalkTyped
<1>10. /\ h2.queue[w] = item
       /\ \A v \in Items \ {w} : h2.queue[v] = workQueue[v]
       /\ \A b \in BeaconIDs : <<b, w>> \notin executions
  <2>1. \A b \in BeaconIDs : <<b, w>> \notin executions
    BY <1>1 DEF Placed, PlacedIn, At
  <2> QED  BY <1>7, <2>1 DEF TypeOK
<1> DEFINE W == {w}
<1> HIDE DEF h2, W
<1>11. PlacedIn(h2.beacons, h2.queue, h2.executions)
  BY <1>2, <1>4, <1>7, <1>10, NoneIsNoBeacon DEF Placed, PlacedIn, At
<1>12. Walk(h2, W, {})
  BY <1>1 DEF W
<1> QED  BY <1>9, <1>11, <1>12, WalkPlaces

-----------------------------------------------------------------------------
\* The end of an item leaves it with the beacon it had.
LEMMA FinishPlaces ==
  ASSUME TypeOK, NEW h, StateTyped(h), h.beacons = beacons, h.queue = workQueue,
         PlacedIn(h.beacons, h.queue, h.executions),
         NEW w \in Items, InQueue(w), NEW status \in {"Complete", "Error"}, NEW reply,
         Finish(w, status, reply, h)
  PROVE  Placed'
<1> DEFINE item == [h.queue[w] EXCEPT !.Status = status, !.LastEventAt = "recent"]
           h2   == [h EXCEPT !.queue[w] = item]
<1>1. /\ workQueue[w] \in WorkItem /\ workQueue[w].Request \in Requests
      /\ workQueue[w].AssignedBeaconID \in BeaconIDs \cup {None}
  BY DEF TypeOK, InQueue, WorkItem
<1>2. /\ item \in WorkItem /\ item.Status = status /\ item.Request = workQueue[w].Request
      /\ item.AssignedBeaconID = workQueue[w].AssignedBeaconID
  BY <1>1 DEF WorkItem
<1>3. RemoveFromBeacon(workQueue[w].AssignedBeaconID, w, h2, GoneBy(w, reply))
  BY DEF Finish
<1> HIDE DEF item
<1>4. StateTyped(h2) /\ h2.beacons = beacons
  BY <1>1, <1>2, WithItemTyped
<1>5. PlacedIn(h2.beacons, h2.queue, h2.executions)
  BY <1>2, WithItemPlaced
<1> HIDE DEF h2
<1> QED  BY <1>1, <1>3, <1>4, <1>5, RemovePlaces

\* A retry has no beacon.
LEMMA RetryPlaces ==
  ASSUME TypeOK, NEW h, StateTyped(h), h.beacons = beacons, h.queue = workQueue,
         PlacedIn(h.beacons, h.queue, h.executions),
         NEW w \in Items, InQueue(w), ScheduleRetry(w, h)
  PROVE  Placed'
<1> DEFINE item == [h.queue[w] EXCEPT !.Status = "RetryScheduled",
                                      !.AttemptNumber = @ + 1,
                                      !.AssignedBeaconID = None]
           h2   == [h EXCEPT !.queue[w] = item]
<1>1. workQueue[w] \in WorkItem /\ workQueue[w].Request \in Requests
  BY DEF TypeOK, InQueue
<1>2. /\ item \in WorkItem /\ item.Status = "RetryScheduled"
      /\ item.AssignedBeaconID = None /\ item.Request = workQueue[w].Request
  BY <1>1, RetryTyped DEF WorkItem
<1>3. RemoveFromBeacon(item.AssignedBeaconID, w, h2, {})
  BY DEF ScheduleRetry
<1> HIDE DEF item
<1>4. StateTyped(h2) /\ h2.beacons = beacons
  BY <1>1, <1>2, WithItemTyped
<1>5. PlacedIn(h2.beacons, h2.queue, h2.executions)
  BY <1>2, WithItemPlaced
<1> HIDE DEF h2
<1> QED  BY <1>2, <1>3, <1>4, <1>5, RemovePlaces

\* Reports of completion, failure and progress, and those that are lost.
LEMMA ReportPlaces ==
  ASSUME TypeOK, Placed, NEW b \in BeaconIDs, NEW w \in Items, ReportStep(b, w)
  PROVE  Placed'
<1> DEFINE h == Reported(b, w)
<1>1. StateTyped(h) /\ h.beacons = beacons /\ h.queue = workQueue
  BY ReportedIsTyped
<1>2. h.executions \subseteq executions
  BY DEF Reported, Now
<1> HIDE DEF h
<1>3. PlacedIn(h.beacons, h.queue, h.executions)
  BY <1>1, <1>2 DEF Placed, PlacedIn, At
<1>4. CASE CompleteWorkItem(b, w)
  BY <1>1, <1>3, <1>4, FinishPlaces DEF CompleteWorkItem, Accepts, h
<1>5. CASE FailWorkItem(b, w)
  BY <1>1, <1>3, <1>5, FinishPlaces, RetryPlaces DEF FailWorkItem, Accepts, h
<1>6. CASE LoseReport(b, w)
  BY <1>6, NothingPlaced DEF LoseReport
<1>7. CASE UpdateProgress(b, w)
  BY <1>7, ItemTouched DEF UpdateProgress
<1> QED  BY <1>4, <1>5, <1>6, <1>7 DEF ReportStep

\* The timers, and the callback of resumeOperation.
LEMMA TimerPlaces ==
  ASSUME TypeOK, Placed, NEW w \in Items,
         \/ TimeOutWorkItem(w) \/ RequeueRetry(w) \/ DirectDispatchTimeout(w)
         \/ OperationResumed(w) \/ FallSilent(w)
  PROVE  Placed'
<1>1. /\ StateTyped(Now) /\ Now.beacons = beacons /\ Now.queue = workQueue
      /\ Now.executions = executions
  BY TypeOKParts, NowIsTyped DEF Now
<1>2. PlacedIn(Now.beacons, Now.queue, Now.executions)
  BY <1>1 DEF Placed
<1>3. CASE TimeOutWorkItem(w)
  <2>1. InQueue(w)
    BY <1>3 DEF TimeOutWorkItem, InQueue
  <2> QED  BY <1>1, <1>2, <1>3, <2>1, FinishPlaces, RetryPlaces DEF TimeOutWorkItem
<1>4. CASE RequeueRetry(w)
  <2> DEFINE item == [workQueue[w] EXCEPT !.Status = "Pending"]
             h2   == [Now EXCEPT !.queue[w] = item]
             W    == {w}
  <2>1. workQueue[w].Status = "RetryScheduled" /\ Walk(h2, W, {})
    BY <1>4 DEF RequeueRetry
  <2>2. workQueue[w] \in WorkItem /\ workQueue[w].Request \in Requests
    BY <2>1 DEF TypeOK
  <2>3. /\ item \in WorkItem /\ item.Status = "Pending"
        /\ item.Request = workQueue[w].Request
        /\ item.AssignedBeaconID = workQueue[w].AssignedBeaconID
    BY <2>2 DEF WorkItem
  <2> HIDE DEF item, W
  <2>4. StateTyped(h2)
    BY <1>1, <2>2, <2>3, WithItemTyped
  <2>5. PlacedIn(h2.beacons, h2.queue, h2.executions)
    BY <1>1, <1>2, <2>3, WithItemPlaced
  <2> HIDE DEF h2
  <2> QED  BY <2>1, <2>4, <2>5, WalkPlaces
<1>5. CASE DirectDispatchTimeout(w)
  <2>1. workQueue[w].AssignedBeaconID \in BeaconIDs \cup {None}
    BY DEF TypeOK, WorkItem
  <2> DEFINE gone == {w}
  <2>2. \/ RemoveFromBeacon(workQueue[w].AssignedBeaconID, w, Now, gone)
        \/ UNCHANGED <<beacons, workQueue, executions>>
    BY <1>5 DEF DirectDispatchTimeout
  <2> HIDE DEF gone
  <2> QED  BY <1>1, <1>2, <2>1, <2>2, RemovePlaces, NothingPlaced
<1>6. CASE OperationResumed(w)
  <2>1. workQueue' = [workQueue EXCEPT ![w].Status = "Gone"]
        /\ UNCHANGED <<beacons, executions>>
    BY <1>6 DEF OperationResumed
  <2> QED  BY <2>1, ItemTouched
<1>7. CASE FallSilent(w)
  BY <1>7, ItemTouched DEF FallSilent
<1> QED  BY <1>3, <1>4, <1>5, <1>6, <1>7

\* No one has work in the empty hub.
LEMMA InitPlaced == Init => Placed
<1> SUFFICES ASSUME Init PROVE Placed
  OBVIOUS
<1>1. executions = {} /\ \A w \in Items : workQueue[w].AssignedBeaconID = None
  BY DEF Init
<1> QED  BY <1>1, NoneIsNoBeacon DEF Placed, PlacedIn, At

\* Every step leaves every item where it may be.
LEMMA NextKeepsPlaced == ASSUME TypeOK, Placed, [Next]_vars PROVE Placed'
<1>1. CASE UNCHANGED vars
  BY <1>1 DEF vars, Placed, PlacedIn, At
<1>2. ASSUME NEW k \in Keys, ClearAffinityBinding(k) PROVE Placed'
  BY <1>2, NothingPlaced DEF ClearAffinityBinding
<1>3. ASSUME NEW w \in Items, ItemStep(w) PROVE Placed'
  BY <1>3, EnqueuePlaces, TimerPlaces DEF ItemStep
<1> QED  BY <1>1, <1>2, <1>3, RegisterPlaces, BeaconStepPlaces, ReportPlaces DEF Next

\* Placed holds for any numbers of items, beacons, names and keys.
LEMMA PlacedHolds == Spec => []Placed
<1>1. IInv /\ Placed /\ [Next]_vars => Placed'
  BY NextKeepsPlaced DEF IInv
<1> QED  BY <1>1, InitPlaced, InvariantHolds, PTL DEF Spec

\* Work that requires its named beacon is never assigned to, and never runs on,
\* another one (_beaconSatisfiesAffinity).
THEOREM StrictAffinityHolds == Spec => []StrictAffinity
<1>1. Placed => StrictAffinity
  BY DEF Placed, PlacedIn, At, Right, StrictAffinity
<1> QED  BY <1>1, PlacedHolds, PTL

\* Work without an affinity key runs only on a beacon that has the capability and
\* that the fleet filter does not turn down for it.
THEOREM UnroutedWorkFiltered == Spec => []UnroutedWorkIsFiltered
<1>1. ASSUME TypeOK, Placed PROVE UnroutedWorkIsFiltered
  <2>1. SUFFICES ASSUME NEW e \in executions
                 PROVE  /\ e[1] \in BeaconIDs /\ e[2] \in Items
                        /\ Right(workQueue[e[2]].Request, beacons[e[1]].Name)
    BY DEF UnroutedWorkIsFiltered, Right
  <2>2. e \in BeaconIDs \X Items /\ e = <<e[1], e[2]>>
    BY <1>1 DEF TypeOK
  <2> QED  BY <1>1, <2>2 DEF Placed, PlacedIn, At
<1> QED  BY <1>1, PlacedHolds, InvariantHolds, PTL DEF IInv

-----------------------------------------------------------------------------
(***************************************************************************)
(* That claimed work is listed (Held) is inductive beside the types; that  *)
(* no beacon runs more than it can take (Within) is not without it, since  *)
(* a push of parked work is gated on the list and not on what runs.  A     *)
(* handler builds a state and then walks the queue from it, so both are    *)
(* stated of such a state (HeldIn, WithinIn) and carried through walks and *)
(* frees of a slot.                                                        *)
(***************************************************************************)
Claimed == {"Assigned", "Running"}

\* b is registered and counts w against its slots.
Counts(bs, slots, w, b) ==
  bs[b].Status \in Live \cup {"Offline"} /\ slots[b][w] > 0

\* Every claimed item that is not leaving is counted by the beacon that has it.
HeldIn(bs, slots, queue, leaving) ==
  \A w \in Items \ leaving : queue[w].Status \in Claimed =>
    /\ queue[w].AssignedBeaconID \in BeaconIDs
    /\ Counts(bs, slots, w, queue[w].AssignedBeaconID)

HeldNow == HeldIn(beacons, currentWorkItems, workQueue, {})

\* What b runs, but for what is leaving, and that it can take that much.
RunsIn(queue, leaving, b) ==
  {w \in Items \ leaving : queue[w].AssignedBeaconID = b /\ queue[w].Status = "Running"}

WithinIn(bs, queue, leaving) ==
  \A b \in BeaconIDs : bs[b].Status \in Live \cup {"Offline"} =>
    Cardinality(RunsIn(queue, leaving, b)) <= MaxConcurrent[bs[b].Name]

WithinNow == WithinIn(beacons, workQueue, {})

FitIn(bs, slots, queue, leaving) ==
  HeldIn(bs, slots, queue, leaving) /\ WithinIn(bs, queue, leaving)

Fit == FitIn(beacons, currentWorkItems, workQueue, {})

\* Items can be counted, and fewer of them count for less.
LEMMA ItemsCount ==
  ASSUME NEW S \in SUBSET Items, NEW T \in SUBSET S
  PROVE  /\ IsFiniteSet(S) /\ IsFiniteSet(T)
         /\ Cardinality(S) \in Nat /\ Cardinality(T) \in Nat
         /\ Cardinality(T) <= Cardinality(S)
<1>1. IsFiniteSet(Items)
  BY FS_Interval, BoundsAssumption DEF Items
<1>2. IsFiniteSet(S)
  BY <1>1, FS_Subset
<1> QED  BY <1>2, FS_Subset, FS_CardinalityType

\* Beacons that run no more than before are within what they can take.
LEMMA FewerRun ==
  ASSUME NEW bs, NEW q, NEW L, NEW bs2, NEW q2, NEW L2, WithinIn(bs, q, L),
         \A b \in BeaconIDs : bs2[b].Status \in Live \cup {"Offline"} =>
           /\ bs[b].Status \in Live \cup {"Offline"}
           /\ bs2[b].Name = bs[b].Name /\ bs[b].Name \in Names,
         \A v \in Items \ L2 : q2[v].Status = "Running" =>
           /\ v \notin L /\ q[v].Status = "Running"
           /\ q2[v].AssignedBeaconID = q[v].AssignedBeaconID
  PROVE  WithinIn(bs2, q2, L2)
<1>1. SUFFICES ASSUME NEW b \in BeaconIDs, bs2[b].Status \in Live \cup {"Offline"}
               PROVE  Cardinality(RunsIn(q2, L2, b)) <= MaxConcurrent[bs2[b].Name]
  BY DEF WithinIn
<1> DEFINE S == RunsIn(q, L, b)
           T == RunsIn(q2, L2, b)
<1>2. S \subseteq Items /\ T \subseteq S
  BY DEF RunsIn
<1>3. Cardinality(S) <= MaxConcurrent[bs2[b].Name]
  BY <1>1 DEF WithinIn
<1>4. MaxConcurrent[bs2[b].Name] \in Nat
  BY <1>1, NamesAssumption
<1> HIDE DEF S, T
<1>5. /\ Cardinality(S) \in Nat /\ Cardinality(T) \in Nat
      /\ Cardinality(T) <= Cardinality(S)
  BY <1>2, ItemsCount
<1> QED  BY <1>3, <1>4, <1>5 DEF T

\* Two sets of items that leave room for one more.
LEMMA RoomForOne ==
  ASSUME NEW S \in SUBSET Items, NEW T \in SUBSET Items, NEW w \in Items, NEW n \in Nat,
         Cardinality(S) + Cardinality(T) < n, NEW R, R \subseteq (S \cup T) \cup {w}
  PROVE  Cardinality(R) <= n
<1> DEFINE U == S \cup T
           V == U \cup {w}
<1>1. U \subseteq Items /\ V \subseteq Items /\ R \subseteq V
  OBVIOUS
<1>2. IsFiniteSet(S) /\ Cardinality(S) \in Nat
  BY ItemsCount
<1>3. IsFiniteSet(T) /\ Cardinality(T) \in Nat
  BY ItemsCount
<1> DEFINE both == S \cap T
<1>4. both \subseteq Items
  OBVIOUS
<1>5. /\ IsFiniteSet(U)
      /\ Cardinality(U) = Cardinality(S) + Cardinality(T) - Cardinality(both)
  BY <1>2, <1>3, FS_Union
<1> HIDE DEF both
<1>6. Cardinality(both) \in Nat
  BY <1>4, ItemsCount
<1>7. Cardinality(U) <= Cardinality(S) + Cardinality(T)
  BY <1>2, <1>3, <1>5, <1>6
<1> HIDE DEF U
<1>8. Cardinality(U) \in Nat /\ Cardinality(V) <= Cardinality(U) + 1
  <2>1. IsFiniteSet(U)
    BY <1>5
  <2>2. Cardinality(U) \in Nat
    BY <2>1, FS_CardinalityType
  <2>3. Cardinality(V) = IF w \in U THEN Cardinality(U) ELSE Cardinality(U) + 1
    BY <2>1, FS_AddElement
  <2> QED  BY <2>2, <2>3
<1> HIDE DEF V
<1>9. /\ Cardinality(R) \in Nat /\ Cardinality(V) \in Nat
      /\ Cardinality(R) <= Cardinality(V)
  BY <1>1, ItemsCount
<1> QED  BY <1>2, <1>3, <1>7, <1>8, <1>9

\* What a push leaves claimed was claimed by the same beacon, or is new to it.
LEMMA AfterPushHolds ==
  ASSUME NEW h, StateTyped(h), NEW w \in Items,
         NEW D \in SUBSET (Held(h) \cup Parked(h)), NEW push \in [D -> BeaconIDs \cup {None}],
         AfterPush(h, push, w).Status \in Claimed
  PROVE  \/ /\ h.queue[w].Status \in Claimed
            /\ AfterPush(h, push, w).AssignedBeaconID = h.queue[w].AssignedBeaconID
         \/ /\ w \in D \ Held(h) /\ push[w] \in BeaconIDs
            /\ AfterPush(h, push, w).AssignedBeaconID = push[w]
<1>1. h.queue[w] \in WorkItem /\ DOMAIN push = D
  BY DEF StateTyped, WalkTyped
<1>2. CASE w \notin D
  BY <1>1, <1>2 DEF AfterPush
<1>3. CASE w \in D /\ w \in Held(h)
  <2>1. AfterPush(h, push, w)
          = [h.queue[w] EXCEPT !.Status = IF push[w] = None THEN @ ELSE "Running"]
    BY <1>1, <1>3 DEF AfterPush
  <2>2. h.queue[w].Status = "Assigned"
    BY <1>3 DEF Held
  <2> QED  BY <1>1, <2>1, <2>2 DEF WorkItem, Claimed
<1>4. CASE w \in D /\ w \notin Held(h)
  <2>1. h.queue[w].Status = "Pending"
    BY <1>4 DEF Parked
  <2>2. \/ AfterPush(h, push, w) = h.queue[w]
        \/ AfterPush(h, push, w) =
             [h.queue[w] EXCEPT !.Status = IF push[w] = None THEN "Pending" ELSE "Running",
                                !.AssignedBeaconID = push[w],
                                !.DispatchedAt = TRUE, !.LastEventAt = "recent"]
    BY <1>1, <1>4 DEF AfterPush
  <2>3. CASE AfterPush(h, push, w) = h.queue[w]
    BY <2>1, <2>3 DEF Claimed
  <2>4. CASE AfterPush(h, push, w) =
               [h.queue[w] EXCEPT !.Status = IF push[w] = None THEN "Pending" ELSE "Running",
                                  !.AssignedBeaconID = push[w],
                                  !.DispatchedAt = TRUE, !.LastEventAt = "recent"]
    <3>1. /\ AfterPush(h, push, w).AssignedBeaconID = push[w]
          /\ push[w] = None => AfterPush(h, push, w).Status = "Pending"
      BY <1>1, <2>4 DEF WorkItem
    <3>2. push[w] # None
      BY <3>1 DEF Claimed
    <3> QED  BY <1>4, <3>1, <3>2
  <2> QED  BY <2>2, <2>3, <2>4
<1> QED  BY <1>2, <1>3, <1>4

\* A walk of the queue leaves what it pushes on the lists of its beacons.
LEMMA WalkHolds ==
  ASSUME NEW h, StateTyped(h), NEW W, NEW gone, Walk(h, W, gone),
         HeldIn(h.beacons, h.slots, h.queue, gone)
  PROVE  HeldNow'
<1> DEFINE D == W \cap (Held(h) \cup Parked(h))
<1>1. PICK push \in [D -> BeaconIDs \cup {None}] :
        /\ IsWalk(h, push)
        /\ beacons' = h.beacons
        /\ currentWorkItems' = [b \in BeaconIDs |-> [w \in Items |->
             IF w \in DOMAIN push \ Held(h) /\ push[w] = b
             THEN h.slots[b][w] + 1 ELSE h.slots[b][w]]]
        /\ workQueue' = [w \in Items |->
             IF w \in gone THEN [h.queue[w] EXCEPT !.Status = "Gone"]
                           ELSE AfterPush(h, push, w)]
  BY DEF Walk
<1>2. D \in SUBSET (Held(h) \cup Parked(h)) /\ DOMAIN push = D
  OBVIOUS
<1> HIDE DEF D
<1>3. SUFFICES ASSUME NEW w \in Items, workQueue'[w].Status \in Claimed
               PROVE  /\ workQueue'[w].AssignedBeaconID \in BeaconIDs
                      /\ Counts(beacons', currentWorkItems', w, workQueue'[w].AssignedBeaconID)
  BY DEF HeldNow, HeldIn
<1>4. w \notin gone /\ workQueue'[w] = AfterPush(h, push, w)
  <2>1. h.queue[w] \in WorkItem
    BY DEF StateTyped, WalkTyped
  <2>2. CASE w \in gone
    <3>1. workQueue'[w] = [h.queue[w] EXCEPT !.Status = "Gone"]
      BY <1>1, <2>2
    <3> QED  BY <1>3, <2>1, <3>1 DEF WorkItem, Claimed
  <2> QED  BY <1>1, <2>2
<1>5. \A b \in BeaconIDs : /\ h.slots[b][w] \in Nat
                           /\ currentWorkItems'[b][w] \in {h.slots[b][w], h.slots[b][w] + 1}
                           /\ w \in D \ Held(h) /\ push[w] = b =>
                                currentWorkItems'[b][w] = h.slots[b][w] + 1
  BY <1>1, <1>2 DEF StateTyped, WalkTyped
<1>6. CASE /\ h.queue[w].Status \in Claimed
           /\ workQueue'[w].AssignedBeaconID = h.queue[w].AssignedBeaconID
  <2>1. /\ h.queue[w].AssignedBeaconID \in BeaconIDs
        /\ Counts(h.beacons, h.slots, w, h.queue[w].AssignedBeaconID)
    BY <1>4, <1>6 DEF HeldIn
  <2> QED  BY <1>1, <1>5, <1>6, <2>1 DEF Counts
<1>7. CASE /\ w \in D \ Held(h) /\ push[w] \in BeaconIDs
           /\ workQueue'[w].AssignedBeaconID = push[w]
  <2>1. push[w] # None
    BY <1>7, NoneIsNoBeacon
  <2>2. push[w] \in Offers(h, push, w)
    BY <1>1, <1>2, <1>7, <2>1 DEF IsWalk
  <2>3. h.beacons[push[w]].Status \in Live
    BY <2>2 DEF Offers
  <2> QED  BY <1>1, <1>5, <1>7, <2>3 DEF Counts
<1> QED  BY <1>2, <1>3, <1>4, <1>6, <1>7, AfterPushHolds

\* Of what a push leaves running, the held items were pushed where they were assigned.
LEMMA PushedRuns ==
  ASSUME NEW h, StateTyped(h), NEW w \in Items,
         NEW D \in SUBSET (Held(h) \cup Parked(h)), NEW push \in [D -> BeaconIDs \cup {None}],
         IsWalk(h, push), AfterPush(h, push, w).Status = "Running"
  PROVE  \/ /\ h.queue[w].Status = "Running"
            /\ AfterPush(h, push, w).AssignedBeaconID = h.queue[w].AssignedBeaconID
         \/ w \in D /\ AfterPush(h, push, w).AssignedBeaconID = push[w]
<1>1. h.queue[w] \in WorkItem /\ DOMAIN push = D
  BY DEF StateTyped, WalkTyped
<1>2. CASE w \in D /\ w \in Held(h)
  <2>1. AfterPush(h, push, w)
          = [h.queue[w] EXCEPT !.Status = IF push[w] = None THEN @ ELSE "Running"]
    BY <1>1, <1>2 DEF AfterPush
  <2>2. h.queue[w].Status = "Assigned"
    BY <1>2 DEF Held
  <2>3. /\ AfterPush(h, push, w).AssignedBeaconID = h.queue[w].AssignedBeaconID
        /\ push[w] # None
    BY <1>1, <2>1, <2>2 DEF WorkItem
  <2>4. push[w] \in Offers(h, push, w)
    BY <1>1, <1>2, <2>3 DEF IsWalk
  <2> QED  BY <1>2, <2>3, <2>4 DEF Offers, HeldMayGo
<1>3. CASE ~(w \in D /\ w \in Held(h))
  <2>1. AfterPush(h, push, w).Status \in Claimed
    BY DEF Claimed
  <2>2. CASE w \in D
    BY <1>3, <2>1, <2>2, AfterPushHolds DEF Parked, Claimed
  <2>3. CASE w \notin D
    BY <1>1, <2>3 DEF AfterPush
  <2> QED  BY <2>2, <2>3
<1> QED  BY <1>2, <1>3

\* The last item pushed to a beacon found room for itself: a held one beside what runs,
\* a parked one beside what is listed.
LEMMA WalkFits ==
  ASSUME NEW h, StateTyped(h), NEW W, NEW gone, Walk(h, W, gone),
         FitIn(h.beacons, h.slots, h.queue, gone)
  PROVE  Fit'
<1> DEFINE D == W \cap (Held(h) \cup Parked(h))
<1>1. PICK push \in [D -> BeaconIDs \cup {None}] :
        /\ IsWalk(h, push) /\ beacons' = h.beacons
        /\ workQueue' = [w \in Items |->
             IF w \in gone THEN [h.queue[w] EXCEPT !.Status = "Gone"]
                           ELSE AfterPush(h, push, w)]
  BY DEF Walk
<1>2. D \in SUBSET (Held(h) \cup Parked(h)) /\ DOMAIN push = D
  OBVIOUS
<1> HIDE DEF D
<1>3. SUFFICES ASSUME NEW b \in BeaconIDs, h.beacons[b].Status \in Live \cup {"Offline"}
               PROVE  Cardinality(RunsIn(workQueue', {}, b))
                        <= MaxConcurrent[h.beacons[b].Name]
  BY <1>1, WalkHolds DEF Fit, FitIn, WithinIn, HeldNow
<1> DEFINE max   == MaxConcurrent[h.beacons[b].Name]
           runs  == RunsIn(workQueue', {}, b)
           ran   == RunsIn(h.queue, gone, b)
           took  == {v \in D : push[v] = b}
<1>4. max \in Nat /\ Cardinality(ran) <= max
  BY <1>3, NamesAssumption DEF FitIn, WithinIn, StateTyped, WalkTyped
<1>5. runs \subseteq (ran \cup took) \ gone /\ runs \subseteq Items
  <2>1. SUFFICES ASSUME NEW v \in Items, workQueue'[v].Status = "Running",
                        workQueue'[v].AssignedBeaconID = b
                 PROVE  v \in (ran \cup took) \ gone
    BY DEF RunsIn
  <2>2. h.queue[v] \in WorkItem
    BY DEF StateTyped, WalkTyped
  <2>3. v \notin gone
    <3>1. [h.queue[v] EXCEPT !.Status = "Gone"].Status = "Gone"
      BY <2>2 DEF WorkItem
    <3> QED  BY <1>1, <2>1, <3>1
  <2>4. workQueue'[v] = AfterPush(h, push, v)
    BY <1>1, <2>3
  <2>5. \/ h.queue[v].Status = "Running" /\ h.queue[v].AssignedBeaconID = b
        \/ v \in D /\ push[v] = b
    BY <1>1, <1>2, <2>1, <2>4, PushedRuns
  <2> QED  BY <2>3, <2>5 DEF RunsIn
<1>6. D \subseteq Items /\ took \subseteq Items /\ ran \subseteq Items
  BY <1>2 DEF RunsIn, Held, Parked
<1>7. CASE took = {}
  <2>1. runs \subseteq ran
    BY <1>5, <1>7
  <2> HIDE DEF max, runs, ran
  <2>2. Cardinality(runs) <= Cardinality(ran) /\ Cardinality(runs) \in Nat
        /\ Cardinality(ran) \in Nat
    BY <1>6, <2>1, ItemsCount
  <2> QED  BY <1>4, <2>2 DEF max, runs
<1>8. CASE took # {}
  <2>1. PICK w \in took : \A v \in took : v <= w
    BY <1>6, <1>8, LastItem
  <2> DEFINE before == PushedBefore(push, w, b)
  <2>2. before = took \ {w}
    <3>1. \A v \in took \cup {w} : v \in Nat
      BY <1>6, <2>1, BoundsAreNat
    <3> QED  BY <1>2, <2>1, <3>1 DEF PushedBefore
  <2>3. b \in Offers(h, push, w)
    BY <1>1, <1>2, <2>1, NoneIsNoBeacon DEF IsWalk
  <2>4. CASE w \in Held(h)
    <3> DEFINE on == RunningOn(h, b)
    <3>1. Cardinality(on) + Cardinality(before) < max
      BY <2>3, <2>4 DEF Offers, HeldMayGo
    <3>2. /\ runs \subseteq (on \cup before) \cup {w} /\ on \subseteq Items
          /\ before \subseteq Items
      BY <1>5, <1>6, <2>2 DEF RunsIn, RunningOn
    <3> HIDE DEF max, runs, before, on
    <3> QED  BY <1>4, <1>6, <2>1, <3>1, <3>2, RoomForOne DEF max, runs
  <2>5. CASE w \notin Held(h)
    <3> DEFINE listed == {v \in Items : h.slots[b][v] > 0}
               parked == before \cap Parked(h)
    <3>1. Load(h.slots, b) + Cardinality(parked) < max
      BY <2>3, <2>5 DEF Offers, ParkedMayGo
    <3>2. /\ runs \subseteq (listed \cup parked) \cup {w} /\ listed \subseteq Items
          /\ parked \subseteq Items
      <4>1. ran \subseteq listed
        BY <1>3 DEF RunsIn, FitIn, HeldIn, Counts, Claimed
      <4>2. ASSUME NEW v \in took \ gone, v \in Held(h) PROVE v \in listed
        <5>1. push[v] \in Offers(h, push, v)
          BY <1>1, <1>2, NoneIsNoBeacon DEF IsWalk
        <5>2. h.queue[v].AssignedBeaconID = b /\ h.queue[v].Status = "Assigned"
          BY <4>2, <5>1 DEF Offers, HeldMayGo, Held
        <5> QED  BY <1>6, <5>2 DEF FitIn, HeldIn, Counts, Claimed
      <4>3. \A v \in took : v \in Held(h) \/ v \in Parked(h)
        BY <1>2
      <4> QED  BY <1>5, <1>6, <2>2, <4>1, <4>2, <4>3
    <3>3. Cardinality(listed) \in Nat /\ Cardinality(listed) <= Load(h.slots, b)
      BY LoadCountsListed DEF StateTyped, WalkTyped
    <3>4. Load(h.slots, b) \in Nat
      BY LoadIsNat DEF StateTyped, WalkTyped
    <3>5. Cardinality(parked) \in Nat
      BY <3>2, ItemsCount
    <3> HIDE DEF max, runs, before, listed, parked
    <3>6. Cardinality(listed) + Cardinality(parked) < max
      BY <1>4, <3>1, <3>3, <3>4, <3>5
    <3> QED  BY <1>4, <1>6, <2>1, <3>2, <3>6, RoomForOne DEF max, runs
  <2> QED  BY <2>4, <2>5
<1> QED  BY <1>7, <1>8

\* _removeWorkItemFromBeacon of an item that is no longer claimed, or leaves.
LEMMA RemoveFits ==
  ASSUME NEW h, StateTyped(h), h.beacons = beacons, NEW w \in Items, NEW gone,
         FitIn(h.beacons, h.slots, h.queue, {w}),
         h.queue[w].Status \notin Claimed \/ w \in gone,
         NEW b \in BeaconIDs \cup {None}, RemoveFromBeacon(b, w, h, gone)
  PROVE  Fit'
<1>1. CASE ~Known(b) /\ Walk(h, {}, gone)
  <2>1. HeldIn(h.beacons, h.slots, h.queue, gone)
    BY DEF FitIn, HeldIn
  <2>2. WithinIn(h.beacons, h.queue, gone)
    BY FewerRun DEF FitIn, Claimed, StateTyped, WalkTyped
  <2> QED  BY <1>1, <2>1, <2>2, WalkFits DEF FitIn
<1>2. CASE Known(b)
  <2> DEFINE slots   == [h.slots EXCEPT ![b][w] = IF @ > 0 THEN @ - 1 ELSE 0]
             records == IF Full(slots, b) THEN h.beacons
                        ELSE [h.beacons EXCEPT ![b].Status = "Online"]
             h2      == [h EXCEPT !.slots = slots, !.beacons = records]
  <2>1. b \in BeaconIDs /\ Registered(b) /\ Walk(h2, Items, gone)
    BY <1>2 DEF RemoveFromBeacon, Known
  <2>2. /\ slots \in [BeaconIDs -> [Items -> Nat]]
        /\ \A c \in BeaconIDs, v \in Items : v # w => slots[c][v] = h.slots[c][v]
    BY <2>1 DEF StateTyped, WalkTyped
  <2>3. /\ records \in [BeaconIDs -> BeaconRecord]
        /\ \A c \in BeaconIDs :
             /\ records[c].Status \in Live \cup {"Offline"} => records[c].Name \in Names
             /\ h.beacons[c].Status \in Live \cup {"Offline"} =>
                  records[c].Status \in Live \cup {"Offline"}
             /\ records[c].Status \in Live \cup {"Offline"} =>
                  /\ h.beacons[c].Status \in Live \cup {"Offline"}
                  /\ records[c].Name = h.beacons[c].Name
    BY <2>1 DEF StateTyped, WalkTyped, BeaconRecord, Registered, Live
  <2> HIDE DEF slots, records
  <2>4. /\ DOMAIN h2 = DOMAIN h
        /\ h2.beacons = records /\ h2.slots = slots /\ h2.queue = h.queue
        /\ h2.bindings = h.bindings /\ h2.executions = h.executions
    BY DEF StateTyped
  <2>5. StateTyped(h2)
    BY <2>2, <2>3, <2>4 DEF StateTyped, WalkTyped
  <2> HIDE DEF h2
  <2>6. HeldIn(h2.beacons, h2.slots, h2.queue, gone)
    <3>1. SUFFICES ASSUME NEW v \in Items \ gone, h.queue[v].Status \in Claimed
                   PROVE  /\ h.queue[v].AssignedBeaconID \in BeaconIDs
                          /\ Counts(records, slots, v, h.queue[v].AssignedBeaconID)
      BY <2>4 DEF HeldIn
    <3>2. /\ v # w /\ h.queue[v].AssignedBeaconID \in BeaconIDs
          /\ Counts(h.beacons, h.slots, v, h.queue[v].AssignedBeaconID)
      BY <3>1 DEF FitIn, HeldIn
    <3> QED  BY <2>2, <2>3, <3>2 DEF Counts
  <2>7. WithinIn(h2.beacons, h2.queue, gone)
    <3>1. WithinIn(h.beacons, h.queue, {w})
      BY DEF FitIn
    <3>2. ASSUME NEW c \in BeaconIDs, records[c].Status \in Live \cup {"Offline"}
          PROVE  /\ h.beacons[c].Status \in Live \cup {"Offline"}
                 /\ records[c].Name = h.beacons[c].Name /\ h.beacons[c].Name \in Names
      BY <2>3, <3>2
    <3>3. \A v \in Items \ gone : h.queue[v].Status = "Running" => v \notin {w}
      BY DEF Claimed
    <3> QED  BY <2>4, <3>1, <3>2, <3>3, FewerRun
  <2> QED  BY <2>1, <2>5, <2>6, <2>7, WalkFits DEF FitIn
<1> QED  BY <1>1, <1>2 DEF RemoveFromBeacon

\* Changing an item that is not counted afterwards.
LEMMA WithItemFits ==
  ASSUME NEW h, StateTyped(h), FitIn(h.beacons, h.slots, h.queue, {}),
         NEW w \in Items, NEW item \in WorkItem
  PROVE  LET h2 == [h EXCEPT !.queue[w] = item]
         IN  /\ FitIn(h2.beacons, h2.slots, h2.queue, {w})
             /\ h2.queue[w] = item
<1> DEFINE h2 == [h EXCEPT !.queue[w] = item]
<1>1. /\ h2.beacons = h.beacons /\ h2.slots = h.slots
      /\ h2.queue = [h.queue EXCEPT ![w] = item]
  BY DEF StateTyped
<1>2. h2.queue[w] = item /\ \A v \in Items \ {w} : h2.queue[v] = h.queue[v]
  BY <1>1 DEF StateTyped, WalkTyped
<1> HIDE DEF h2
<1>3. HeldIn(h2.beacons, h2.slots, h2.queue, {w})
  BY <1>1, <1>2 DEF FitIn, HeldIn
<1>4. WithinIn(h2.beacons, h2.queue, {w})
  <2>1. WithinIn(h.beacons, h.queue, {})
    BY DEF FitIn
  <2>2. \A c \in BeaconIDs : h2.beacons[c].Status \in Live \cup {"Offline"} =>
          /\ h.beacons[c].Status \in Live \cup {"Offline"}
          /\ h2.beacons[c].Name = h.beacons[c].Name /\ h.beacons[c].Name \in Names
    BY <1>1 DEF StateTyped, WalkTyped
  <2>3. \A v \in Items \ {w} : h2.queue[v].Status = "Running" =>
          /\ v \notin {} /\ h.queue[v].Status = "Running"
          /\ h2.queue[v].AssignedBeaconID = h.queue[v].AssignedBeaconID
    BY <1>2
  <2> QED  BY <2>1, <2>2, <2>3, FewerRun
<1> QED  BY <1>2, <1>3, <1>4 DEF h2, FitIn

-----------------------------------------------------------------------------
\* A step that claims nothing, removes nothing from a list and no beacon.
LEMMA NothingTaken ==
  ASSUME HeldNow, UNCHANGED currentWorkItems,
         \A b \in BeaconIDs : Registered(b) => Registered(b)',
         \A w \in Items : workQueue'[w].Status \in Claimed =>
           /\ workQueue[w].Status \in Claimed
           /\ workQueue'[w].AssignedBeaconID = workQueue[w].AssignedBeaconID
  PROVE  HeldNow'
BY DEF HeldNow, HeldIn, Counts, Registered

\* A step that sets nothing running, and no beacon up.
LEMMA NothingStarted ==
  ASSUME TypeOK, WithinNow,
         \A b \in BeaconIDs : Registered(b)' =>
           Registered(b) /\ beacons'[b].Name = beacons[b].Name,
         \A w \in Items : workQueue'[w].Status = "Running" =>
           /\ workQueue[w].Status = "Running"
           /\ workQueue'[w].AssignedBeaconID = workQueue[w].AssignedBeaconID
  PROVE  WithinNow'
<1>1. \A b \in BeaconIDs : beacons'[b].Status \in Live \cup {"Offline"} =>
        /\ beacons[b].Status \in Live \cup {"Offline"}
        /\ beacons'[b].Name = beacons[b].Name /\ beacons[b].Name \in Names
  BY DEF TypeOK, Registered
<1> DEFINE bs == beacons'
           q == workQueue'
<1>2. WithinIn(beacons, workQueue, {})
  BY DEF WithinNow
<1> HIDE DEF bs, q
<1>3. WithinIn(bs, q, {})
  BY <1>1, <1>2, FewerRun DEF bs, q
<1> QED  BY <1>3 DEF bs, q, WithinNow

\* A step that leaves the beacons, their lists and what is claimed as they were.
LEMMA NothingClaimed ==
  ASSUME TypeOK, Fit, UNCHANGED <<beacons, currentWorkItems>>,
         \A w \in Items : workQueue'[w].Status \in Claimed =>
           /\ workQueue[w].Status = workQueue'[w].Status
           /\ workQueue'[w].AssignedBeaconID = workQueue[w].AssignedBeaconID
  PROVE  Fit'
<1>1. HeldNow'
  BY NothingTaken DEF Fit, FitIn, HeldNow, Registered
<1>2. WithinNow
  BY DEF Fit, FitIn, WithinNow
<1>3. WithinNow'
  BY <1>2, NothingStarted DEF Claimed, Registered
<1> QED  BY <1>1, <1>3 DEF Fit, FitIn, HeldNow, WithinNow

\* A step that changes one item, not to a claimed one.
LEMMA ItemTouchedFits ==
  ASSUME TypeOK, Fit, UNCHANGED <<beacons, currentWorkItems>>, NEW w \in Items,
         \/ workQueue' = [workQueue EXCEPT ![w].LastEventAt = "recent"]
         \/ workQueue' = [workQueue EXCEPT ![w].LastEventAt = "old"]
         \/ workQueue' = [workQueue EXCEPT ![w].Status = "Gone"]
  PROVE  Fit'
<1>1. ASSUME NEW v \in Items, workQueue'[v].Status \in Claimed
      PROVE  /\ workQueue[v].Status = workQueue'[v].Status
             /\ workQueue'[v].AssignedBeaconID = workQueue[v].AssignedBeaconID
  <2>1. workQueue[v] \in WorkItem /\ workQueue \in [Items -> WorkItem]
    BY DEF TypeOK
  <2>2. CASE v # w
    BY <1>1, <2>1, <2>2
  <2>3. CASE v = w
    <3>1. \/ workQueue'[v] = [workQueue[v] EXCEPT !.LastEventAt = "recent"]
          \/ workQueue'[v] = [workQueue[v] EXCEPT !.LastEventAt = "old"]
          \/ workQueue'[v] = [workQueue[v] EXCEPT !.Status = "Gone"]
      BY <2>1, <2>3
    <3> QED  BY <1>1, <2>1, <3>1 DEF WorkItem, Claimed
  <2> QED  BY <2>2, <2>3
<1> QED  BY <1>1, NothingClaimed

\* Registration takes nothing: a reclaimed record keeps its list, and a new one has
\* nothing claimed.
LEMMA RegisterFits ==
  ASSUME TypeOK, Fit, NEW n \in Names, RegisterBeacon(n) PROVE Fit'
<1>1. PICK b \in BeaconIDs :
        /\ b \in Named(n) \/ beacons[b].Status = "New"
        /\ beacons' = [beacons EXCEPT ![b] = [Name |-> n, Status |-> "Online"]]
        /\ UNCHANGED <<workQueue, currentWorkItems>>
  BY DEF RegisterBeacon
<1>2. \A c \in BeaconIDs : Registered(c) => Registered(c)'
  BY <1>1 DEF TypeOK, Registered, Live
<1>3. HeldNow /\ WithinNow
  BY DEF Fit, FitIn, HeldNow, WithinNow
<1>4. HeldNow'
  BY <1>1, <1>2, <1>3, NothingTaken
<1>5. /\ beacons'[b].Name = n
      /\ \A c \in BeaconIDs \ {b} : beacons'[c] = beacons[c]
  BY <1>1 DEF TypeOK
<1>6. CASE b \in Named(n)
  <2>1. \A c \in BeaconIDs : Registered(c)' =>
          Registered(c) /\ beacons'[c].Name = beacons[c].Name
    BY <1>5, <1>6 DEF Named, Registered
  <2>2. WithinNow'
    BY <1>1, <1>3, <2>1, NothingStarted
  <2> QED  BY <1>4, <2>2 DEF Fit, FitIn, HeldNow, WithinNow
<1>7. CASE beacons[b].Status = "New"
  <2>1. SUFFICES ASSUME NEW c \in BeaconIDs, Registered(c)'
                 PROVE  Cardinality(RunsIn(workQueue, {}, c)) <= MaxConcurrent[beacons'[c].Name]
    BY <1>1, <1>4 DEF Fit, FitIn, HeldNow, WithinIn, Registered
  <2>2. CASE c # b
    BY <1>3, <1>5, <2>1, <2>2 DEF WithinNow, WithinIn, Registered
  <2>3. CASE c = b
    <3>1. RunsIn(workQueue, {}, c) = {}
      BY <1>3, <1>7, <2>3 DEF RunsIn, HeldNow, HeldIn, Counts, Claimed, Live
    <3>2. MaxConcurrent[beacons'[c].Name] \in Nat \ {0}
      BY <1>5, <2>3, NamesAssumption
    <3> QED  BY <3>1, <3>2, FS_EmptySet
  <2> QED  BY <2>2, <2>3
<1> QED  BY <1>1, <1>6, <1>7

\* deregisterBeacon releases everything it had: its list names all of it.
LEMMA DeregisterHolds ==
  ASSUME TypeOK, HeldNow, NEW b \in BeaconIDs, DeregisterBeacon(b) PROVE HeldNow'
<1>1. /\ beacons' = [beacons EXCEPT ![b].Status = "Gone"]
      /\ currentWorkItems' = [currentWorkItems EXCEPT ![b] = [w \in Items |-> 0]]
      /\ workQueue' = [w \in Items |->
           IF currentWorkItems[b][w] > 0 /\ workQueue[w].Status \in Claimed
           THEN [workQueue[w] EXCEPT !.Status = "Pending", !.AssignedBeaconID = None]
           ELSE workQueue[w]]
  BY DEF DeregisterBeacon, Claimed
<1>2. SUFFICES ASSUME NEW w \in Items, workQueue'[w].Status \in Claimed
               PROVE  /\ workQueue'[w].AssignedBeaconID \in BeaconIDs
                      /\ Counts(beacons', currentWorkItems', w, workQueue'[w].AssignedBeaconID)
  BY DEF HeldNow, HeldIn
<1>3. /\ workQueue'[w] = workQueue[w] /\ workQueue[w].Status \in Claimed
      /\ ~(currentWorkItems[b][w] > 0)
  <2>1. workQueue[w] \in WorkItem
    BY DEF TypeOK
  <2>2. CASE currentWorkItems[b][w] > 0 /\ workQueue[w].Status \in Claimed
    <3>1. workQueue'[w] = [workQueue[w] EXCEPT !.Status = "Pending", !.AssignedBeaconID = None]
      BY <1>1, <2>2
    <3> QED  BY <1>2, <2>1, <3>1 DEF WorkItem, Claimed
  <2> QED  BY <1>1, <1>2, <2>2
<1> DEFINE c == workQueue[w].AssignedBeaconID
<1>4. c \in BeaconIDs /\ Counts(beacons, currentWorkItems, w, c)
  BY <1>3 DEF HeldNow, HeldIn
<1>5. c # b
  BY <1>3, <1>4 DEF Counts
<1>6. beacons'[c] = beacons[c] /\ currentWorkItems'[c] = currentWorkItems[c]
  BY <1>1, <1>4, <1>5 DEF TypeOK
<1> QED  BY <1>3, <1>4, <1>6 DEF Counts

\* What it releases runs no more.
LEMMA DeregisterFits ==
  ASSUME TypeOK, Fit, NEW b \in BeaconIDs, DeregisterBeacon(b) PROVE Fit'
<1>1. HeldNow /\ WithinNow
  BY DEF Fit, FitIn, HeldNow, WithinNow
<1>2. HeldNow'
  BY <1>1, DeregisterHolds
<1>3. ASSUME NEW c \in BeaconIDs, Registered(c)'
      PROVE  Registered(c) /\ beacons'[c].Name = beacons[c].Name
  <2>1. beacons \in [BeaconIDs -> BeaconRecord] /\ beacons[c] \in BeaconRecord
    BY DEF TypeOK
  <2>2. beacons' = [beacons EXCEPT ![b].Status = "Gone"]
    BY DEF DeregisterBeacon
  <2>3. CASE c # b
    BY <1>3, <2>1, <2>2, <2>3 DEF Registered
  <2>4. CASE c = b
    <3>1. beacons'[c] = [beacons[c] EXCEPT !.Status = "Gone"]
      BY <2>1, <2>2, <2>4
    <3> QED  BY <1>3, <2>1, <3>1 DEF Registered, Live, BeaconRecord
  <2> QED  BY <2>3, <2>4
<1>4. ASSUME NEW w \in Items, workQueue'[w].Status = "Running"
      PROVE  workQueue'[w] = workQueue[w]
  <2>1. workQueue[w] \in WorkItem
    BY DEF TypeOK
  <2>2. [workQueue[w] EXCEPT !.Status = "Pending", !.AssignedBeaconID = None].Status = "Pending"
    BY <2>1 DEF WorkItem
  <2>3. \/ workQueue'[w] = workQueue[w]
        \/ workQueue'[w] = [workQueue[w] EXCEPT !.Status = "Pending",
                                                !.AssignedBeaconID = None]
    BY DEF DeregisterBeacon
  <2> QED  BY <1>4, <2>2, <2>3
<1>5. WithinNow'
  BY <1>1, <1>3, <1>4, NothingStarted
<1> QED  BY <1>2, <1>5 DEF Fit, FitIn, HeldNow, WithinNow

\* A poll hands out work while the list of the poller has room.
LEMMA HandToPollerFits ==
  ASSUME TypeOK, Fit, NEW b \in BeaconIDs, NEW w \in Items, HandToPoller(b, w),
         Registered(b), ~Full(currentWorkItems, b), currentWorkItems'[b][w] > 0,
         \A c \in BeaconIDs, v \in Items :
           v # w => currentWorkItems'[c][v] = currentWorkItems[c][v]
  PROVE  Fit'
<1> DEFINE item == [workQueue[w] EXCEPT
              !.Status = "Running", !.AssignedBeaconID = b,
              !.AttemptNumber = @ + 1, !.DispatchedAt = TRUE,
              !.LastEventAt = "recent"]
<1>1. workQueue' = [workQueue EXCEPT ![w] = item] /\ UNCHANGED beacons
  BY DEF HandToPoller
<1>2. item.AssignedBeaconID = b
  BY DEF TypeOK, WorkItem
<1> HIDE DEF item
<1>3. workQueue'[w] = item /\ \A v \in Items \ {w} : workQueue'[v] = workQueue[v]
  BY <1>1 DEF TypeOK
<1>4. HeldNow /\ WithinNow
  BY DEF Fit, FitIn, HeldNow, WithinNow
<1>5. HeldNow'
  BY <1>1, <1>2, <1>3, <1>4 DEF HeldNow, HeldIn, Counts, Registered
<1>6. SUFFICES ASSUME NEW c \in BeaconIDs, Registered(c)
               PROVE  Cardinality(RunsIn(workQueue', {}, c)) <= MaxConcurrent[beacons[c].Name]
  BY <1>1, <1>5 DEF Fit, FitIn, HeldNow, WithinIn, Registered
<1> DEFINE runs == RunsIn(workQueue', {}, c)
           ran  == RunsIn(workQueue, {}, c)
           max  == MaxConcurrent[beacons[c].Name]
<1>7. max \in Nat /\ Cardinality(ran) <= max
  BY <1>4, <1>6, NamesAssumption DEF TypeOK, WithinNow, WithinIn, Registered
<1>8. CASE c # b
  <2>1. runs \subseteq ran /\ ran \subseteq Items
    BY <1>2, <1>3, <1>8 DEF RunsIn
  <2> HIDE DEF runs, ran, max
  <2>2. Cardinality(runs) \in Nat /\ Cardinality(ran) \in Nat
        /\ Cardinality(runs) <= Cardinality(ran)
    BY <2>1, ItemsCount
  <2> QED  BY <1>7, <2>2 DEF runs, max
<1>9. CASE c = b
  <2> DEFINE listed == {v \in Items : currentWorkItems[b][v] > 0}
             none   == {}
  <2>1. /\ runs \subseteq (listed \cup none) \cup {w} /\ listed \subseteq Items
        /\ none \subseteq Items
    BY <1>3, <1>4, <1>9 DEF RunsIn, HeldNow, HeldIn, Counts, Claimed
  <2>2. Cardinality(none) = 0
    BY FS_EmptySet
  <2>3. Cardinality(listed) \in Nat /\ Cardinality(listed) <= Load(currentWorkItems, b)
    BY LoadCountsListed DEF TypeOK
  <2>4. Load(currentWorkItems, b) \in Nat
    BY LoadIsNat DEF TypeOK
  <2>5. ~(Load(currentWorkItems, b) >= max)
    BY <1>9 DEF Full
  <2> HIDE DEF runs, ran, max, listed, none
  <2>6. Cardinality(listed) + Cardinality(none) < max
    BY <1>7, <2>2, <2>3, <2>4, <2>5
  <2> QED  BY <1>7, <2>1, <2>6, RoomForOne DEF runs, max
<1> QED  BY <1>8, <1>9

\* Heartbeats and sockets take nothing, a poll counts what it hands out.
LEMMA BeaconStepFits ==
  ASSUME TypeOK, Fit, NEW b \in BeaconIDs, BeaconStep(b) PROVE Fit'
<1>0. HeldNow /\ WithinNow
  BY DEF Fit, FitIn, HeldNow, WithinNow
<1>1. CASE CloseSocket(b)
  BY <1>1, NothingClaimed DEF CloseSocket
<1>2. CASE Heartbeat(b) \/ MissHeartbeat(b)
  <2>1. PICK s \in {"Busy", "Online", "Offline"} : SetBeaconStatus(b, s)
    BY <1>2 DEF Heartbeat, MissHeartbeat
  <2>2. /\ beacons' = [beacons EXCEPT ![b].Status = s]
        /\ UNCHANGED <<workQueue, currentWorkItems>>
    BY <2>1 DEF SetBeaconStatus
  <2>3. Registered(b)
    BY <1>2 DEF Heartbeat, MissHeartbeat, Registered
  <2>4. ASSUME NEW c \in BeaconIDs
        PROVE  /\ Registered(c)' <=> Registered(c)
               /\ beacons'[c].Name = beacons[c].Name
    <3>1. beacons[c] \in BeaconRecord /\ beacons \in [BeaconIDs -> BeaconRecord]
      BY DEF TypeOK
    <3>2. CASE c # b
      BY <2>2, <3>1, <3>2 DEF Registered
    <3>3. CASE c = b
      <4>1. beacons'[c] = [beacons[c] EXCEPT !.Status = s]
        BY <2>2, <3>1, <3>3
      <4> QED  BY <2>3, <3>1, <3>3, <4>1 DEF Registered, Live, BeaconRecord
    <3> QED  BY <3>2, <3>3
  <2>5. HeldNow'
    BY <1>0, <2>2, <2>4, NothingTaken
  <2>6. WithinNow'
    BY <1>0, <2>2, <2>4, NothingStarted
  <2> QED  BY <2>5, <2>6 DEF Fit, FitIn, HeldNow, WithinNow
<1>4. CASE PollAssigned(b)
  <2>1. First(AssignedTo(b)) \in AssignedTo(b)
    BY <1>4, BoundsAreNat, FirstIsMember DEF PollAssigned, AssignedTo
  <2>2. /\ First(AssignedTo(b)) \in Items
        /\ currentWorkItems[b][First(AssignedTo(b))] > 0
    BY <1>0, <2>1 DEF AssignedTo, HeldNow, HeldIn, Claimed, Counts
  <2> QED  BY <1>4, <2>2, HandToPollerFits DEF PollAssigned
<1>5. CASE PollPending(b)
  <2> DEFINE w == First(ClaimableBy(b))
  <2>1. w \in Items
    BY <1>5, BoundsAreNat, FirstIsMember DEF PollPending, ClaimableBy
  <2>2. /\ HandToPoller(b, w) /\ Registered(b) /\ ~Full(currentWorkItems, b)
        /\ currentWorkItems' = [currentWorkItems EXCEPT ![b][w] = IF @ = 0 THEN 1 ELSE @]
    BY <1>5 DEF PollPending
  <2> HIDE DEF w
  <2>3. currentWorkItems \in [BeaconIDs -> [Items -> Nat]]
    BY DEF TypeOK
  <2>4. /\ currentWorkItems'[b][w] > 0
        /\ \A c \in BeaconIDs, v \in Items :
             v # w => currentWorkItems'[c][v] = currentWorkItems[c][v]
    BY <2>1, <2>2, <2>3
  <2> QED  BY <2>1, <2>2, <2>4, HandToPollerFits
<1> QED  BY <1>1, <1>2, <1>4, <1>5, DeregisterFits DEF BeaconStep

\* enqueueWorkItem takes a slot of the registered beacon it routes to.
LEMMA EnqueueFits ==
  ASSUME TypeOK, Fit, NEW w \in Items, NEW r \in Requests, NEW expired \in BOOLEAN,
         EnqueueWorkItem(w, r, expired)
  PROVE  Fit'
<1> DEFINE routes == IF NameRouted(r) THEN Named(r.AffinityKey)
                     ELSE IF expired THEN {} ELSE BoundTo(r)
           target == IF routes = {} THEN None ELSE First(routes)
           item   == [Request |-> r, AssignedBeaconID |-> target,
                      Status |-> IF target = None THEN "Pending" ELSE "Assigned",
                      AttemptNumber |-> 0, DispatchedAt |-> FALSE,
                      LastEventAt |-> "recent", Priority |-> r.Priority,
                      CancelRequested |-> FALSE]
           slots  == IF target = None THEN currentWorkItems
                     ELSE [currentWorkItems EXCEPT ![target][w] = @ + 1]
           bound  == IF expired THEN [bindings EXCEPT ![r.AffinityKey] = None]
                     ELSE bindings
           h2     == [Now EXCEPT !.queue[w] = item, !.slots = slots,
                                 !.bindings = bound]
<1>1. Walk(h2, {w}, {})
  BY DEF EnqueueWorkItem
<1>2. target = None \/ (target \in BeaconIDs /\ Registered(target))
  <2> HIDE DEF routes
  <2>1. CASE routes # {}
    BY <2>1, RoutesAreRegistered DEF routes
  <2> QED  BY <2>1
<1> HIDE DEF target
<1>3. /\ item \in WorkItem /\ item.Request = r /\ item.Request \in Requests
      /\ item.Status = (IF target = None THEN "Pending" ELSE "Assigned")
      /\ item.AssignedBeaconID = target
  BY <1>2, RequestsAssumption DEF WorkItem, RequestType
<1>4. /\ slots \in [BeaconIDs -> [Items -> Nat]]
      /\ \A b \in BeaconIDs, v \in Items : v # w => slots[b][v] = currentWorkItems[b][v]
      /\ target # None => slots[target][w] > 0
  BY <1>2 DEF TypeOK
<1>5. bound \in [Keys -> BeaconIDs \cup {None}]
  BY DEF TypeOK
<1> HIDE DEF item, slots, bound
<1>6. /\ DOMAIN h2 = {"beacons", "slots", "queue", "bindings", "executions"}
      /\ h2.beacons = beacons /\ h2.slots = slots /\ h2.bindings = bound
      /\ h2.queue = [workQueue EXCEPT ![w] = item]
      /\ h2.executions = executions
  BY DEF Now
<1>7. /\ h2.queue \in [Items -> WorkItem]
      /\ \A v \in Items : h2.queue[v].Status # "New" => h2.queue[v].Request \in Requests
      /\ h2.queue[w] = item /\ \A v \in Items \ {w} : h2.queue[v] = workQueue[v]
  BY <1>3, <1>6 DEF TypeOK
<1>8. StateTyped(h2)
  BY <1>4, <1>5, <1>6, <1>7, TypeOKParts DEF StateTyped, NowTyped, WalkTyped
<1> DEFINE W == {w}
<1>9. Walk(h2, W, {})
  BY <1>1
<1> HIDE DEF h2, W
<1>10. HeldIn(h2.beacons, h2.slots, h2.queue, {})
  <2>1. SUFFICES ASSUME NEW v \in Items, h2.queue[v].Status \in Claimed
                 PROVE  /\ h2.queue[v].AssignedBeaconID \in BeaconIDs
                        /\ Counts(beacons, slots, v, h2.queue[v].AssignedBeaconID)
    BY <1>6 DEF HeldIn
  <2>2. CASE v = w
    <3>1. target # None
      BY <1>3, <1>7, <2>1, <2>2 DEF Claimed
    <3> QED  BY <1>2, <1>3, <1>4, <1>7, <2>2, <3>1 DEF Counts, Registered
  <2>3. CASE v # w
    BY <1>4, <1>7, <2>1, <2>3 DEF Fit, FitIn, HeldIn, Counts
  <2> QED  BY <2>2, <2>3
<1>11. WithinIn(h2.beacons, h2.queue, {})
  <2>1. WithinIn(beacons, workQueue, {})
    BY DEF Fit, FitIn
  <2>2. \A c \in BeaconIDs : h2.beacons[c].Status \in Live \cup {"Offline"} =>
          /\ beacons[c].Status \in Live \cup {"Offline"}
          /\ h2.beacons[c].Name = beacons[c].Name /\ beacons[c].Name \in Names
    BY <1>6 DEF TypeOK, Registered
  <2>3. h2.queue[w].Status # "Running"
    BY <1>3, <1>7
  <2>4. \A v \in Items \ {} : h2.queue[v].Status = "Running" =>
          /\ v \notin {} /\ workQueue[v].Status = "Running"
          /\ h2.queue[v].AssignedBeaconID = workQueue[v].AssignedBeaconID
    BY <1>7, <2>3
  <2> QED  BY <2>1, <2>2, <2>4, FewerRun
<1> QED  BY <1>8, <1>9, <1>10, <1>11, WalkFits DEF FitIn

\* The end of an item.
LEMMA FinishFits ==
  ASSUME TypeOK, NEW h, StateTyped(h), h.beacons = beacons, h.queue = workQueue,
         FitIn(h.beacons, h.slots, h.queue, {}),
         NEW w \in Items, InQueue(w), NEW status \in {"Complete", "Error"}, NEW reply,
         Finish(w, status, reply, h)
  PROVE  Fit'
<1> DEFINE item == [h.queue[w] EXCEPT !.Status = status, !.LastEventAt = "recent"]
           h2   == [h EXCEPT !.queue[w] = item]
<1>1. /\ workQueue[w] \in WorkItem /\ workQueue[w].Request \in Requests
      /\ workQueue[w].AssignedBeaconID \in BeaconIDs \cup {None}
  BY DEF TypeOK, InQueue, WorkItem
<1>2. item \in WorkItem /\ item.Status = status /\ item.Request \in Requests
  BY <1>1 DEF WorkItem
<1>3. RemoveFromBeacon(workQueue[w].AssignedBeaconID, w, h2, GoneBy(w, reply))
  BY DEF Finish
<1>4. item.Status \notin Claimed
  BY <1>2 DEF Claimed
<1> HIDE DEF item
<1>5. StateTyped(h2) /\ h2.beacons = beacons
  BY <1>2, WithItemTyped
<1>6. FitIn(h2.beacons, h2.slots, h2.queue, {w}) /\ h2.queue[w] = item
  BY <1>2, WithItemFits
<1> HIDE DEF h2
<1> QED  BY <1>1, <1>3, <1>4, <1>5, <1>6, RemoveFits

\* A retry is claimed by no one.
LEMMA RetryFits ==
  ASSUME TypeOK, NEW h, StateTyped(h), h.beacons = beacons, h.queue = workQueue,
         FitIn(h.beacons, h.slots, h.queue, {}),
         NEW w \in Items, InQueue(w), ScheduleRetry(w, h)
  PROVE  Fit'
<1> DEFINE item == [h.queue[w] EXCEPT !.Status = "RetryScheduled",
                                      !.AttemptNumber = @ + 1,
                                      !.AssignedBeaconID = None]
           h2   == [h EXCEPT !.queue[w] = item]
<1>1. workQueue[w] \in WorkItem /\ workQueue[w].Request \in Requests
  BY DEF TypeOK, InQueue
<1>2. /\ item \in WorkItem /\ item.Status = "RetryScheduled"
      /\ item.AssignedBeaconID = None /\ item.Request \in Requests
  BY <1>1, RetryTyped
<1>3. RemoveFromBeacon(item.AssignedBeaconID, w, h2, {})
  BY DEF ScheduleRetry
<1> HIDE DEF item
<1>4. StateTyped(h2) /\ h2.beacons = beacons
  BY <1>2, WithItemTyped
<1>5. FitIn(h2.beacons, h2.slots, h2.queue, {w}) /\ h2.queue[w] = item
  BY <1>2, WithItemFits
<1> HIDE DEF h2
<1> QED  BY <1>2, <1>3, <1>4, <1>5, RemoveFits DEF Claimed

\* Reports of completion, failure and progress, and those that are lost.
LEMMA ReportFits ==
  ASSUME TypeOK, Fit, NEW b \in BeaconIDs, NEW w \in Items, ReportStep(b, w)
  PROVE  Fit'
<1> DEFINE h == Reported(b, w)
<1>1. /\ StateTyped(h) /\ h.beacons = beacons /\ h.queue = workQueue
      /\ h.slots = currentWorkItems
  BY ReportedIsTyped DEF Reported, Now
<1> HIDE DEF h
<1>2. FitIn(h.beacons, h.slots, h.queue, {})
  BY <1>1 DEF Fit
<1>3. CASE CompleteWorkItem(b, w)
  BY <1>1, <1>2, <1>3, FinishFits DEF CompleteWorkItem, Accepts, h
<1>4. CASE FailWorkItem(b, w)
  BY <1>1, <1>2, <1>4, FinishFits, RetryFits DEF FailWorkItem, Accepts, h
<1>5. CASE LoseReport(b, w)
  BY <1>5, NothingClaimed DEF LoseReport
<1>6. CASE UpdateProgress(b, w)
  BY <1>6, ItemTouchedFits DEF UpdateProgress
<1> QED  BY <1>3, <1>4, <1>5, <1>6 DEF ReportStep

\* The timers, and the callback of resumeOperation.  The timer of a direct dispatch
\* frees the slot, and walks the queue, while its item is still in it.
LEMMA TimerFits ==
  ASSUME TypeOK, Fit, NEW w \in Items,
         \/ TimeOutWorkItem(w) \/ RequeueRetry(w) \/ DirectDispatchTimeout(w)
         \/ OperationResumed(w) \/ FallSilent(w)
  PROVE  Fit'
<1>1. /\ StateTyped(Now) /\ Now.beacons = beacons /\ Now.queue = workQueue
      /\ Now.slots = currentWorkItems
  BY TypeOKParts, NowIsTyped DEF Now
<1>2. FitIn(Now.beacons, Now.slots, Now.queue, {})
  BY <1>1 DEF Fit
<1>3. CASE TimeOutWorkItem(w)
  <2>1. InQueue(w)
    BY <1>3 DEF TimeOutWorkItem, InQueue
  <2> QED  BY <1>1, <1>2, <1>3, <2>1, FinishFits, RetryFits DEF TimeOutWorkItem
<1>4. CASE RequeueRetry(w)
  <2> DEFINE item == [workQueue[w] EXCEPT !.Status = "Pending"]
             h2   == [Now EXCEPT !.queue[w] = item]
             W    == {w}
  <2>1. workQueue[w].Status = "RetryScheduled" /\ Walk(h2, W, {})
    BY <1>4 DEF RequeueRetry
  <2>2. workQueue[w] \in WorkItem /\ workQueue[w].Request \in Requests
    BY <2>1 DEF TypeOK
  <2>3. item \in WorkItem /\ item.Status = "Pending" /\ item.Request \in Requests
    BY <2>2 DEF WorkItem
  <2> HIDE DEF item, W
  <2>4. StateTyped(h2)
    BY <1>1, <2>3, WithItemTyped
  <2>5. FitIn(h2.beacons, h2.slots, h2.queue, {w}) /\ h2.queue[w] = item
    BY <1>1, <1>2, <2>3, WithItemFits
  <2> HIDE DEF h2
  <2>6. HeldIn(h2.beacons, h2.slots, h2.queue, {})
    BY <2>3, <2>5 DEF FitIn, HeldIn, Claimed
  <2>7. WithinIn(h2.beacons, h2.queue, {})
    BY <2>3, <2>4, <2>5, FewerRun DEF FitIn, StateTyped, WalkTyped
  <2> QED  BY <2>1, <2>4, <2>6, <2>7, WalkFits DEF FitIn
<1>5. CASE DirectDispatchTimeout(w)
  <2>1. workQueue[w].AssignedBeaconID \in BeaconIDs \cup {None}
    BY DEF TypeOK, WorkItem
  <2> DEFINE gone == {w}
  <2>2. \/ RemoveFromBeacon(workQueue[w].AssignedBeaconID, w, Now, gone)
        \/ UNCHANGED <<beacons, currentWorkItems, workQueue>>
    BY <1>5 DEF DirectDispatchTimeout
  <2>3. FitIn(Now.beacons, Now.slots, Now.queue, {w}) /\ w \in gone
    <3>1. HeldIn(Now.beacons, Now.slots, Now.queue, {w})
      BY <1>2 DEF FitIn, HeldIn
    <3>2. WithinIn(Now.beacons, Now.queue, {w})
      BY <1>1, <1>2, FewerRun DEF FitIn, StateTyped, WalkTyped
    <3> QED  BY <3>1, <3>2 DEF FitIn
  <2> HIDE DEF gone
  <2>4. CASE UNCHANGED <<beacons, currentWorkItems, workQueue>>
    BY <2>4, NothingClaimed
  <2> QED  BY <1>1, <2>1, <2>2, <2>3, <2>4, RemoveFits
<1>6. CASE OperationResumed(w)
  <2>1. workQueue' = [workQueue EXCEPT ![w].Status = "Gone"]
        /\ UNCHANGED <<beacons, currentWorkItems>>
    BY <1>6 DEF OperationResumed
  <2> QED  BY <2>1, ItemTouchedFits
<1>7. CASE FallSilent(w)
  BY <1>7, ItemTouchedFits DEF FallSilent
<1> QED  BY <1>3, <1>4, <1>5, <1>6, <1>7

\* Nothing is claimed in the empty hub.
LEMMA InitFits == Init => Fit
<1> SUFFICES ASSUME Init PROVE Fit
  OBVIOUS
<1>1. /\ \A w \in Items : workQueue[w].Status = "New"
      /\ \A b \in BeaconIDs : beacons[b].Status = "New"
  BY DEF Init
<1> QED  BY <1>1 DEF Fit, FitIn, HeldIn, WithinIn, Claimed, Live

\* Every step keeps claimed items on the lists of registered beacons, and what a beacon
\* runs within what it can take.
LEMMA NextKeepsFit == ASSUME TypeOK, Fit, [Next]_vars PROVE Fit'
<1>1. CASE UNCHANGED vars
  BY <1>1, NothingClaimed DEF vars
<1>2. ASSUME NEW k \in Keys, ClearAffinityBinding(k) PROVE Fit'
  BY <1>2, NothingClaimed DEF ClearAffinityBinding
<1>3. ASSUME NEW w \in Items, ItemStep(w) PROVE Fit'
  BY <1>3, EnqueueFits, TimerFits DEF ItemStep
<1> QED  BY <1>1, <1>2, <1>3, RegisterFits, BeaconStepFits, ReportFits DEF Next

\* Fit holds for any numbers of items, beacons, names and keys.
LEMMA FitHolds == Spec => []Fit
<1>1. IInv /\ Fit /\ [Next]_vars => Fit'
  BY NextKeepsFit DEF IInv
<1> QED  BY <1>1, InitFits, InvariantHolds, PTL DEF Spec

\* Only the scheduler makes an item Dispatched.
NoneDispatched == \A w \in Items : workQueue[w].Status # "Dispatched"

\* Without the scheduler nothing is dispatched.
LEMMA NoneIsDispatched == Spec => []NoneDispatched
<1>1. Init => NoneDispatched
  BY DEF Init, NoneDispatched
<1>2. IInv /\ NoneDispatched /\ [Next]_vars => NoneDispatched'
  BY NextDispatchesNone DEF IInv, NoneDispatched
<1> QED  BY <1>1, <1>2, InvariantHolds, PTL DEF Spec

\* Releases on deregistration, failed pushes, polls, re-pushes and timers never leave
\* an item with a beacon that is gone or that does not count it against its slots.
THEOREM WorkIsHeldOnRegisteredBeacons == Spec => []HeldOnRegisteredBeacon
<1>1. Fit => HeldOnRegisteredBeacon
  BY DEF Fit, FitIn, HeldIn, Counts, Claimed, HeldOnRegisteredBeacon, Registered
<1> QED  BY <1>1, FitHolds, PTL

\* However polls, pushes, re-pushes and reports are ordered, and whatever the sizes of the
\* beacons, no registered beacon is given more work to run at once than it can take.
THEOREM BeaconsRunWithinCapacity == Spec => []RunningWithinCapacity
<1>1. ASSUME Fit, NoneDispatched PROVE RunningWithinCapacity
  <2>1. SUFFICES ASSUME NEW b \in BeaconIDs, Registered(b)
                 PROVE  Cardinality({w \in Items : /\ workQueue[w].AssignedBeaconID = b
                                                    /\ workQueue[w].Status \in {"Running", "Dispatched"}})
                          <= MaxConcurrent[beacons[b].Name]
    BY DEF RunningWithinCapacity
  <2>2. {w \in Items : /\ workQueue[w].AssignedBeaconID = b
                       /\ workQueue[w].Status \in {"Running", "Dispatched"}}
          = RunsIn(workQueue, {}, b)
    BY <1>1 DEF NoneDispatched, RunsIn
  <2> QED  BY <1>1, <2>1, <2>2 DEF Fit, FitIn, WithinIn, Registered
<1> QED  BY <1>1, FitHolds, NoneIsDispatched, PTL

-----------------------------------------------------------------------------
(***************************************************************************)
(* The scheduler and the queue controls write to the coordinator's queue   *)
(* behind its back.  What they write keeps the invariant of the            *)
(* coordinator, so HubSpec keeps its types and ToldOnce; and a tick, the   *)
(* only step that dispatches, inverts no priorities.                       *)
(***************************************************************************)

\* A step that ends no item and tells no one, but may dispatch.
HubQuiet ==
  /\ \A v \in Items : Stays(workQueue[v], workQueue'[v])
  /\ UNCHANGED <<callbacks, resuming, notified>>

\* Such a step keeps what is known of the answers.
LEMMA HubQuietKeepsTold ==
  ASSUME Told, HubQuiet PROVE Told'
BY StaysTold DEF Told, HubQuiet

-----------------------------------------------------------------------------
\* A tick, for the picks it made.
Ticked(pick) ==
  /\ IsPick(pick)
  /\ workQueue' = [w \in Items |->
       IF w \in ToCancel
       THEN [workQueue[w] EXCEPT !.Status = "Canceled", !.LastEventAt = "recent"]
       ELSE IF w \in DOMAIN pick /\ pick[w] # None
       THEN [workQueue[w] EXCEPT
               !.Status = "Dispatched", !.AssignedBeaconID = pick[w],
               !.AttemptNumber = @ + 1, !.DispatchedAt = TRUE,
               !.LastEventAt = "recent"]
       ELSE workQueue[w]]

TickedRest(pick) ==
  LET given  == {w \in DOMAIN pick : pick[w] # None}
      pushed == {w \in given : channel[pick[w]] = "open"}
  IN  /\ currentWorkItems' = [b \in BeaconIDs |-> [w \in Items |->
           IF w \in given /\ pick[w] = b /\ currentWorkItems[b][w] = 0
           THEN 1 ELSE currentWorkItems[b][w]]]
      /\ executions' = executions \cup {<<pick[w], w>> : w \in pushed}
      /\ handOvers' = [w \in Items |-> IF w \in pushed THEN handOvers[w] + 1 ELSE handOvers[w]]
      /\ UNCHANGED <<beacons, channel, bindings, callbacks, resuming, up, notified>>

\* What a tick makes of an item.
LEMMA TickedItems ==
  ASSUME TypeOK, NEW pick \in [Pending \ ToCancel -> BeaconIDs \cup {None}], Ticked(pick),
         NEW w \in Items
  PROVE  /\ workQueue'[w] \in WorkItem /\ workQueue'[w].Request = workQueue[w].Request
         /\ \/ workQueue'[w] = workQueue[w]
            \/ w \in ToCancel /\ workQueue'[w].Status = "Canceled"
            \/ /\ w \in DOMAIN pick /\ pick[w] # None
               /\ workQueue'[w].Status = "Dispatched"
               /\ workQueue'[w].AssignedBeaconID = pick[w]
         /\ w \in DOMAIN pick /\ pick[w] # None => workQueue'[w].Status = "Dispatched"
<1> DEFINE item == workQueue[w]
           off  == [item EXCEPT !.Status = "Canceled", !.LastEventAt = "recent"]
           sent == [item EXCEPT
                      !.Status = "Dispatched", !.AssignedBeaconID = pick[w],
                      !.AttemptNumber = @ + 1, !.DispatchedAt = TRUE,
                      !.LastEventAt = "recent"]
<1>1. item \in WorkItem
  BY DEF TypeOK
<1>2. off \in WorkItem /\ off.Request = item.Request /\ off.Status = "Canceled"
  BY <1>1 DEF WorkItem
<1>3. w \in DOMAIN pick /\ pick[w] # None =>
        /\ sent \in WorkItem /\ sent.Request = item.Request
        /\ sent.Status = "Dispatched" /\ sent.AssignedBeaconID = pick[w]
  <2> SUFFICES ASSUME w \in DOMAIN pick, pick[w] # None
               PROVE  /\ sent \in WorkItem /\ sent.Request = item.Request
                      /\ sent.Status = "Dispatched" /\ sent.AssignedBeaconID = pick[w]
    OBVIOUS
  <2> DEFINE b == pick[w]
             n == item.AttemptNumber + 1
  <2>1. b \in BeaconIDs /\ item.AttemptNumber \in Nat
    BY <1>1 DEF WorkItem
  <2>2. n \in Nat
    BY <2>1
  <2>3. sent = [item EXCEPT
                  !.Status = "Dispatched", !.AssignedBeaconID = b,
                  !.AttemptNumber = n, !.DispatchedAt = TRUE, !.LastEventAt = "recent"]
    OBVIOUS
  <2> HIDE DEF b, n, sent
  <2> QED  BY <1>1, <2>1, <2>2, <2>3 DEF WorkItem, b
<1>4. workQueue'[w] = IF w \in ToCancel THEN off
                      ELSE IF w \in DOMAIN pick /\ pick[w] # None THEN sent ELSE item
  BY DEF Ticked
<1> HIDE DEF item, off, sent
<1>5. w \in DOMAIN pick => w \notin ToCancel
  OBVIOUS
<1> QED  BY <1>1, <1>2, <1>3, <1>4, <1>5 DEF item

\* A tick is what its picks make of the queue, the lists and the wire.
LEMMA TickIsTicked ==
  ASSUME DispatchTick
  PROVE  \E pick \in [Pending \ ToCancel -> BeaconIDs \cup {None}] :
           Ticked(pick) /\ TickedRest(pick)
BY DEF DispatchTick, Ticked, TickedRest

\* A tick keeps the types, ends no item and tells no one.
LEMMA TickKeeps ==
  ASSUME TypeOK, DispatchTick PROVE TypeOK' /\ HubQuiet
<1>1. PICK pick \in [Pending \ ToCancel -> BeaconIDs \cup {None}] :
        Ticked(pick) /\ TickedRest(pick)
  BY TickIsTicked
<1>2. \A w \in Items :
        /\ workQueue'[w] \in WorkItem /\ workQueue'[w].Request = workQueue[w].Request
        /\ \/ workQueue'[w] = workQueue[w]
           \/ w \in ToCancel /\ workQueue'[w].Status = "Canceled"
           \/ w \in DOMAIN pick /\ workQueue'[w].Status = "Dispatched"
  BY <1>1, TickedItems
<1>3. \A w \in Items : w \in ToCancel \/ w \in DOMAIN pick => workQueue[w].Status = "Pending"
  BY DEF ToCancel, Pending
<1>4. HubQuiet
  BY <1>1, <1>2, <1>3 DEF TickedRest, HubQuiet, Stays, Active
<1>5. /\ workQueue' \in [Items -> WorkItem]
      /\ \A w \in Items : workQueue'[w].Status # "New" => workQueue'[w].Request \in Requests
  <2>1. workQueue' \in [Items -> WorkItem]
    BY <1>1, <1>2 DEF Ticked
  <2>2. \A w \in Items : workQueue'[w].Status # "New" => workQueue[w].Status # "New"
    BY <1>2, <1>3
  <2> QED  BY <1>2, <2>1, <2>2 DEF TypeOK
<1>6. currentWorkItems' \in [BeaconIDs -> [Items -> Nat]]
  BY <1>1 DEF TickedRest, TypeOK
<1>7. executions' \subseteq BeaconIDs \X Items
  <2>1. \A w \in DOMAIN pick : w \in Items /\ (pick[w] # None => pick[w] \in BeaconIDs)
    BY DEF Pending
  <2> QED  BY <1>1, <2>1 DEF TickedRest, TypeOK
<1>8. handOvers' \in [Items -> Nat]
  <2>1. \A w \in Items : handOvers[w] \in Nat /\ handOvers[w] + 1 \in Nat
    BY DEF TypeOK
  <2> QED  BY <1>1, <2>1 DEF TickedRest
<1> QED  BY <1>1, <1>4, <1>5, <1>6, <1>7, <1>8 DEF TickedRest, TypeOK, Registered

-----------------------------------------------------------------------------
\* A control that changes one item, which stays on its way.
LEMMA ChangeItemKeeps ==
  ASSUME TypeOK, NEW w \in Items, NEW item \in WorkItem, ChangeItem(w, item),
         item.Request = workQueue[w].Request, workQueue[w].Status \in Active,
         item.Status \in Active
  PROVE  TypeOK' /\ HubQuiet
<1>1. /\ workQueue' = [workQueue EXCEPT ![w] = item]
      /\ UNCHANGED <<beacons, channel, currentWorkItems, bindings, callbacks,
                     resuming, up, executions, handOvers, notified>>
  BY DEF ChangeItem
<1>2. workQueue[w].Request \in Requests
  BY DEF TypeOK, Active
<1>3. TypeOK'
  BY <1>1, <1>2, ItemChangeKeepsTypes
<1>4. HubQuiet
  BY <1>1 DEF HubQuiet, Stays, TypeOK
<1> QED  BY <1>3, <1>4

\* requestCancel and reorderWorkItem.
LEMMA ControlsKeep ==
  ASSUME TypeOK, NEW w \in Items,
         \/ CancelWaiting(w) \/ CancelAtWork(w)
         \/ \E ahead \in BOOLEAN : ReorderWorkItem(w, ahead)
  PROVE  /\ TypeOK' /\ HubQuiet
         /\ \A v \in Items : workQueue'[v].Status = "Dispatched"
                               => workQueue[v].Status = "Dispatched"
<1>1. workQueue[w] \in WorkItem /\ workQueue \in [Items -> WorkItem]
  BY DEF TypeOK
<1>2. ASSUME NEW item \in WorkItem, ChangeItem(w, item),
             item.Request = workQueue[w].Request, workQueue[w].Status \in Active,
             \/ item.Status = workQueue[w].Status
             \/ item.Status \in Active \ {"Dispatched"}
      PROVE  /\ TypeOK' /\ HubQuiet
             /\ \A v \in Items : workQueue'[v].Status = "Dispatched"
                                   => workQueue[v].Status = "Dispatched"
  <2>1. workQueue' = [workQueue EXCEPT ![w] = item]
    BY <1>2 DEF ChangeItem
  <2> QED  BY <1>1, <1>2, <2>1, ChangeItemKeeps
<1>3. CASE CancelWaiting(w)
  <2> DEFINE item == [workQueue[w] EXCEPT !.Status = "Canceled", !.LastEventAt = "recent"]
  <2>1. item \in WorkItem /\ item.Request = workQueue[w].Request /\ item.Status = "Canceled"
    BY <1>1 DEF WorkItem
  <2>2. ChangeItem(w, item) /\ workQueue[w].Status \in Active
    BY <1>3 DEF CancelWaiting, Active
  <2> HIDE DEF item
  <2> QED  BY <1>2, <2>1, <2>2 DEF Active
<1>4. CASE CancelAtWork(w)
  <2> DEFINE item == [workQueue[w] EXCEPT !.CancelRequested = TRUE]
  <2>1. /\ item \in WorkItem /\ item.Request = workQueue[w].Request
        /\ item.Status = workQueue[w].Status
    BY <1>1 DEF WorkItem
  <2>2. ChangeItem(w, item) /\ workQueue[w].Status \in Active
    BY <1>4 DEF CancelAtWork, Active
  <2> HIDE DEF item
  <2> QED  BY <1>2, <2>1, <2>2 DEF Active
<1>5. CASE \E ahead \in BOOLEAN : ReorderWorkItem(w, ahead)
  <2>1. PICK ahead \in BOOLEAN, v \in Upcoming :
          /\ w \in Upcoming
          /\ ahead \/ workQueue[v].Priority > 0
          /\ ChangeItem(w, [workQueue[w] EXCEPT !.Priority =
               IF ahead THEN workQueue[v].Priority + 1 ELSE workQueue[v].Priority - 1])
    BY <1>5 DEF ReorderWorkItem
  <2> DEFINE n == IF ahead THEN workQueue[v].Priority + 1 ELSE workQueue[v].Priority - 1
             item == [workQueue[w] EXCEPT !.Priority = n]
  <2>2. workQueue[v].Priority \in Nat
    BY <1>1, <2>1 DEF WorkItem, Upcoming
  <2>3. n \in Nat
    BY <2>1, <2>2
  <2>4. ChangeItem(w, item) /\ workQueue[w].Status \in Active
    BY <2>1 DEF Upcoming, Active
  <2> HIDE DEF n
  <2>5. /\ item \in WorkItem /\ item.Request = workQueue[w].Request
        /\ item.Status = workQueue[w].Status
    BY <1>1, <2>3 DEF WorkItem
  <2> HIDE DEF item
  <2> QED  BY <1>2, <2>4, <2>5
<1> QED  BY <1>3, <1>4, <1>5

-----------------------------------------------------------------------------
\* stallWorkItem takes its item out of the queue and tells a waiting operation.
Stalls(w) ==
  /\ workQueue[w].Status \in Active
  /\ \A v \in Items \ {w} : Keeps(workQueue[v], workQueue'[v])
  /\ workQueue'[w].Request = workQueue[w].Request /\ workQueue'[w].Status = "Gone"
  /\ UNCHANGED <<callbacks, resuming>>
  /\ notified' = IF workQueue[w].Request.For = "operation"
                 THEN [notified EXCEPT ![w] = @ + 1] ELSE notified

\* A stalled item is typed.
LEMMA StallKeepsTypes ==
  ASSUME TypeOK, NEW w \in Items, StallWorkItem(w) PROVE TypeOK' /\ Stalls(w)
<1> DEFINE item == [workQueue[w] EXCEPT !.Status = "Stalled"]
           h    == [Now EXCEPT !.queue[w] = item]
           gone == {w}
<1>1. /\ workQueue[w].Status \in {"Dispatched", "Running", "Pending", "Assigned"}
      /\ RemoveFromBeacon(workQueue[w].AssignedBeaconID, w, h, gone)
      /\ notified' = IF workQueue[w].Request.For = "operation"
                     THEN [notified EXCEPT ![w] = @ + 1] ELSE notified
      /\ UNCHANGED <<channel, callbacks, resuming, up>>
  BY DEF StallWorkItem
<1>2. /\ workQueue[w] \in WorkItem /\ workQueue[w].Request \in Requests
      /\ workQueue[w].AssignedBeaconID \in BeaconIDs \cup {None}
  BY <1>1 DEF TypeOK, WorkItem
<1>3. /\ item \in WorkItem /\ item.Status = "Stalled"
      /\ item.Request = workQueue[w].Request
  BY <1>2 DEF WorkItem
<1>4. StateTyped(Now) /\ Now.beacons = beacons /\ Now.queue = workQueue
  BY TypeOKParts, NowIsTyped DEF Now
<1> HIDE DEF item
<1>5. /\ StateTyped(h) /\ h.beacons = beacons /\ h.queue = [workQueue EXCEPT ![w] = item]
  BY <1>2, <1>3, <1>4, WithItemTyped
<1> HIDE DEF h, gone
<1>6. /\ h.queue[w] = item /\ \A v \in Items \ {w} : h.queue[v] = workQueue[v]
  BY <1>5 DEF TypeOK
<1>7. gone = {w}
  BY DEF gone
<1>8. NowTyped' /\ handOvers' \in [Items -> Nat]
  BY <1>1, <1>2, <1>3, <1>5, <1>6, <1>7, RemoveKeepsTypes DEF TypeOK
<1>9. OtherTyped'
  BY <1>1 DEF OtherTyped, TypeOK
<1>10. \A v \in Items :
         /\ workQueue'[v].Request = h.queue[v].Request
         /\ v \in gone => workQueue'[v].Status = "Gone"
         /\ v \notin gone => Keeps(h.queue[v], workQueue'[v])
  BY <1>1, <1>2, <1>5, RemoveKeepsItems
<1>11. Stalls(w)
  BY <1>1, <1>3, <1>6, <1>7, <1>10 DEF Stalls, Active
<1> QED  BY <1>8, <1>9, <1>11, TypeOKPartsPrime

\* An operation whose item stalls has not been told before, and is told now.
LEMMA StallKeepsTold ==
  ASSUME TypeOK, Told, NEW w \in Items, Stalls(w) PROVE Told'
<1>1. \A v \in Items \ {w} :
        ToldOf(workQueue'[v], v \in callbacks', v \in resuming', notified'[v])
  <2> SUFFICES ASSUME NEW v \in Items \ {w}
               PROVE  ToldOf(workQueue'[v], v \in callbacks', v \in resuming', notified'[v])
    OBVIOUS
  <2>1. notified'[v] = notified[v] /\ callbacks' = callbacks /\ resuming' = resuming
    BY DEF Stalls, TypeOK
  <2>2. ToldOf(workQueue'[v], v \in callbacks, v \in resuming, notified[v])
    BY KeepsTold DEF Told, Stalls
  <2> QED  BY <2>1, <2>2
<1>2. ToldOf(workQueue'[w], w \in callbacks', w \in resuming', notified'[w])
  <2>1. ToldOf(workQueue[w], w \in callbacks, w \in resuming, notified[w])
    BY DEF Told
  <2>2. /\ callbacks' = callbacks /\ resuming' = resuming /\ notified[w] \in Nat
        /\ notified'[w] = IF workQueue[w].Request.For = "operation"
                          THEN notified[w] + 1 ELSE notified[w]
    BY DEF Stalls, TypeOK
  <2>3. /\ workQueue'[w].Request = workQueue[w].Request /\ workQueue'[w].Status = "Gone"
        /\ workQueue[w].Status \in Active
    BY DEF Stalls
  <2>4. w \notin resuming
    BY <2>1, <2>3 DEF ToldOf, Active
  <2> QED  BY <2>1, <2>2, <2>3, <2>4 DEF ToldOf, Active
<1> QED  BY <1>1, <1>2 DEF Told

-----------------------------------------------------------------------------
\* Only a tick makes an item Dispatched.
LEMMA OnlyTicksDispatch ==
  ASSUME IInv, [HubNext]_vars, ~DispatchTick, NEW v \in Items,
         workQueue'[v].Status = "Dispatched"
  PROVE  workQueue[v].Status = "Dispatched"
<1> USE DEF IInv
<1>1. CASE [Next]_vars
  BY <1>1, NextDispatchesNone
<1>2. ASSUME NEW w \in Items, StallWorkItem(w)
      PROVE  workQueue[v].Status = "Dispatched"
  <2>1. Stalls(w)
    BY <1>2, StallKeepsTypes
  <2> QED  BY <2>1 DEF Stalls, Keeps
<1>3. ASSUME NEW w \in Items,
             \/ CancelWaiting(w) \/ CancelAtWork(w)
             \/ \E ahead \in BOOLEAN : ReorderWorkItem(w, ahead)
      PROVE  workQueue[v].Status = "Dispatched"
  BY <1>3, ControlsKeep
<1> QED  BY <1>1, <1>2, <1>3 DEF HubNext

\* The invariant of the coordinator is one of the hub.
LEMMA HubKeepsInvariant == IInv /\ [HubNext]_vars => IInv'
<1> SUFFICES ASSUME IInv, [HubNext]_vars PROVE IInv'
  OBVIOUS
<1>1. CASE [Next]_vars
  BY <1>1, NextKeepsInvariant
<1>2. CASE DispatchTick
  BY <1>2, TickKeeps, HubQuietKeepsTold DEF IInv
<1>3. ASSUME NEW w \in Items, StallWorkItem(w) PROVE IInv'
  BY <1>3, StallKeepsTypes, StallKeepsTold DEF IInv
<1>4. ASSUME NEW w \in Items,
             \/ CancelWaiting(w) \/ CancelAtWork(w)
             \/ \E ahead \in BOOLEAN : ReorderWorkItem(w, ahead)
      PROVE  IInv'
  BY <1>4, ControlsKeep, HubQuietKeepsTold DEF IInv
<1> QED  BY <1>1, <1>2, <1>3, <1>4 DEF HubNext

-----------------------------------------------------------------------------
\* Before is the order of the tick.
LEMMA BeforeIsTransitive ==
  ASSUME TypeOK, NEW u \in Items, NEW v \in Items, NEW w \in Items,
         Before(u, v), Before(v, w)
  PROVE  Before(u, w)
<1>1. \A x \in Items : workQueue[x].Priority \in Nat
  BY DEF TypeOK, WorkItem
<1> QED  BY <1>1, BoundsAreNat DEF Before

\* An item finds its beacon at least as loaded as one before it did.
LEMMA LoadGrows ==
  ASSUME TypeOK, NEW pick, DOMAIN pick \subseteq Items, NEW v \in Items, NEW w \in Items,
         Before(v, w), NEW b \in BeaconIDs
  PROVE  /\ LoadAt(pick, v, b) \in Nat /\ LoadAt(pick, w, b) \in Nat
         /\ LoadAt(pick, v, b) <= LoadAt(pick, w, b)
<1> DEFINE A(x) == {u \in DOMAIN pick : /\ Before(u, x) /\ pick[u] = b
                                         /\ currentWorkItems[b][u] = 0}
<1>1. IsFiniteSet(Items)
  BY FS_Interval, BoundsAssumption DEF Items
<1>2. A(v) \subseteq A(w) /\ A(w) \subseteq Items
  BY BeforeIsTransitive
<1> DEFINE S == A(v)
           T == A(w)
           load == Load(currentWorkItems, b)
<1>3. LoadAt(pick, v, b) = load + Cardinality(S) /\ LoadAt(pick, w, b) = load + Cardinality(T)
  BY DEF LoadAt
<1>4. S \subseteq T /\ T \subseteq Items
  BY <1>2
<1> HIDE DEF S, T
<1>5. IsFiniteSet(T)
  BY <1>1, <1>4, FS_Subset
<1>6. IsFiniteSet(S) /\ Cardinality(S) <= Cardinality(T)
  BY <1>4, <1>5, FS_Subset
<1>7. Cardinality(S) \in Nat /\ Cardinality(T) \in Nat
  BY <1>5, <1>6, FS_CardinalityType
<1>8. load \in Nat
  BY LoadIsNat DEF TypeOK
<1> HIDE DEF load
<1> QED  BY <1>3, <1>6, <1>7, <1>8

\* What NoPriorityInversion says of one step.
NotInverted(v, w) ==
  /\ v \in Pending \ ToCancel /\ w \in Pending
  /\ workQueue[v].Priority > workQueue[w].Priority
  /\ workQueue'[w].Status = "Dispatched" /\ workQueue'[v].Status = "Pending"
  => LET b == workQueue'[w].AssignedBeaconID
     IN  \/ b \notin Candidates(v)
         \/ workQueue[v].Request.Capability \notin Provides[beacons[b].Name]

\* A beacon that had room for w had room for v before it.
LEMMA TickIsFair ==
  ASSUME TypeOK, DispatchTick, NEW v \in Items, NEW w \in Items
  PROVE  NotInverted(v, w)
<1> SUFFICES ASSUME v \in Pending \ ToCancel, w \in Pending,
                    workQueue[v].Priority > workQueue[w].Priority,
                    workQueue'[w].Status = "Dispatched", workQueue'[v].Status = "Pending"
             PROVE  LET b == workQueue'[w].AssignedBeaconID
                    IN  \/ b \notin Candidates(v)
                        \/ workQueue[v].Request.Capability \notin Provides[beacons[b].Name]
  BY DEF NotInverted
<1>1. PICK pick \in [Pending \ ToCancel -> BeaconIDs \cup {None}] : Ticked(pick)
  BY TickIsTicked
<1>2. /\ w \in DOMAIN pick /\ pick[w] # None /\ workQueue'[w].AssignedBeaconID = pick[w]
      /\ v \in DOMAIN pick /\ pick[v] = None
  BY <1>1, TickedItems DEF Pending
<1> DEFINE b == pick[w]
<1>3. b \in BeaconIDs
  BY <1>2
<1>4. b \in Takers(pick, w) /\ Takers(pick, v) = {}
  <2>1. None \notin Takers(pick, v)
    <3>1. None \notin BeaconIDs
      BY BoundsAreNat, NamesAssumption
    <3> QED  BY <3>1 DEF Takers, Candidates, Named, Registered
  <2> QED  BY <1>1, <1>2, <2>1 DEF Ticked, IsPick
<1>5. Before(v, w)
  BY DEF Before
<1>6. DOMAIN pick \subseteq Items
  BY DEF Pending
<1>7. /\ LoadAt(pick, v, b) \in Nat /\ LoadAt(pick, w, b) \in Nat
      /\ LoadAt(pick, v, b) <= LoadAt(pick, w, b)
  BY <1>3, <1>5, <1>6, LoadGrows
<1>8. /\ beacons[b].Status = "Online" /\ LoadAt(pick, w, b) < MaxConcurrent[beacons[b].Name]
  BY <1>4 DEF Takers
<1>9. MaxConcurrent[beacons[b].Name] \in Nat
  BY <1>3, <1>8, NamesAssumption DEF TypeOK, Registered, Live
<1>10. LoadAt(pick, v, b) < MaxConcurrent[beacons[b].Name]
  BY <1>7, <1>8, <1>9
<1> QED  BY <1>2, <1>4, <1>8, <1>10 DEF Takers

-----------------------------------------------------------------------------
\* The coordinator's types and what it tells hold of the hub, with the scheduler
\* and the controls that write to the queue.
THEOREM HubInvariantHolds == HubSpec => []IInv
<1> QED  BY InitEstablishesInvariant, HubKeepsInvariant, PTL DEF HubSpec

\* Reports, timers, stalls, ticks and cancellations race for an item, and its
\* requester is told its end at most once.
THEOREM HubTellsOnce == HubSpec => []ToldOnce
<1>1. IInv => ToldOnce
  BY ToldImpliesToldOnce DEF IInv
<1> QED  BY <1>1, HubInvariantHolds, PTL

\* A tick gives no beacon to an item while one of a higher priority, which the
\* same beacon could have taken, stays behind.
THEOREM TicksKeepPriorities == HubSpec => NoPriorityInversion
<1>1. ASSUME IInv, [HubNext]_vars, NEW v \in Items, NEW w \in Items
      PROVE  NotInverted(v, w)
  <2>1. CASE DispatchTick
    BY <1>1, <2>1, TickIsFair DEF IInv
  <2>2. CASE ~DispatchTick
    <3>1. workQueue'[w].Status = "Dispatched" => workQueue[w].Status = "Dispatched"
      BY <1>1, <2>2, OnlyTicksDispatch
    <3> QED  BY <3>1 DEF NotInverted, Pending
  <2> QED  BY <2>1, <2>2
<1>2. IInv /\ [HubNext]_vars =>
        [\A v, w \in Items :
           /\ v \in Pending \ ToCancel /\ w \in Pending
           /\ workQueue[v].Priority > workQueue[w].Priority
           /\ workQueue'[w].Status = "Dispatched" /\ workQueue'[v].Status = "Pending"
           => LET b == workQueue'[w].AssignedBeaconID
              IN  \/ b \notin Candidates(v)
                  \/ workQueue[v].Request.Capability
                        \notin Provides[beacons[b].Name]]_vars
  BY <1>1 DEF NotInverted
<1> QED  BY <1>2, HubInvariantHolds, PTL DEF HubSpec, NoPriorityInversion

==============================================================================
