---------------------- MODULE BeaconCoordinator_proofs -----------------------
(***************************************************************************)
(* Theorems of BeaconCoordinator, in three parts: its types are kept by    *)
(* every handler; ToldOnce and FinalIsFinal; and it implements             *)
(* WorkDispatch.                                                           *)
(***************************************************************************)
EXTENDS BeaconCoordinator, TLAPS, NaturalsInduction, WellFoundedInduction,
        FiniteSetTheorems

-----------------------------------------------------------------------------
(***************************************************************************)
(* The type invariant of BeaconCoordinator is kept by every handler.       *)
(*                                                                         *)
(* Many handlers change some state and then walk the queue from it (Walk,  *)
(* RemoveFromBeacon), so the lemmas speak of a state h such a walk starts  *)
(* from: StateTyped(h) is the type invariant of h.                         *)
(***************************************************************************)

\* What a walk of the queue starts from, and what it ends in, is typed.
WalkTyped(bs, slots, queue, bound, running) ==
  /\ bs \in [BeaconIDs -> BeaconRecord]
  /\ \A b \in BeaconIDs :
       bs[b].Status \in Live \cup {"Offline"} => bs[b].Name \in Names
  /\ slots \in [BeaconIDs -> [Items -> Nat]]
  /\ queue \in [Items -> WorkItem]
  /\ \A w \in Items : queue[w].Status # "New" => queue[w].Request \in Requests
  /\ bound \in [Keys -> BeaconIDs \cup {None}]
  /\ running \subseteq BeaconIDs \X Items

StateTyped(h) ==
  /\ DOMAIN h = {"beacons", "slots", "queue", "bindings", "executions"}
  /\ WalkTyped(h.beacons, h.slots, h.queue, h.bindings, h.executions)

NowTyped ==
  WalkTyped(beacons, currentWorkItems, workQueue, bindings, executions)

OtherTyped ==
  /\ channel \in [BeaconIDs -> {"none", "open", "closing"}]
  /\ callbacks \subseteq Items
  /\ resuming \subseteq Items
  /\ up \in BOOLEAN
  /\ notified \in [Items -> Nat]

\* The type invariant falls into what a walk of the queue can change and the
\* rest.
LEMMA TypeOKParts ==
  TypeOK <=> NowTyped /\ OtherTyped /\ handOvers \in [Items -> Nat]
BY DEF TypeOK, NowTyped, OtherTyped, WalkTyped, Registered

\* The same of the next state.
LEMMA TypeOKPartsPrime ==
  TypeOK' <=> NowTyped' /\ OtherTyped' /\ handOvers' \in [Items -> Nat]
BY DEF TypeOK, NowTyped, OtherTyped, WalkTyped, Registered

\* The first of some item or beacon numbers (the insertion order the code
\* walks) is one of them: < on Nat is well-founded.
LEMMA FirstIsMember ==
  ASSUME NEW S \in SUBSET Nat, S # {}
  PROVE  First(S) \in S /\ \A y \in S : First(S) <= y
<1> DEFINE Less == {p \in Nat \X Nat : p[1] < p[2]}
<1>1. Less = OpToRel(<, Nat)
  BY DEF OpToRel
<1>2. IsWellFoundedOn(Less, Nat)
  BY <1>1, NatLessThanWellFounded
<1> HIDE DEF Less
<1>3. PICK x \in S : \A y \in S : ~(<<y, x>> \in Less)
  BY <1>2, WFMin
<1> USE DEF Less
<1>4. \A y \in S : x <= y
  <2> SUFFICES ASSUME NEW y \in S PROVE x <= y
    OBVIOUS
  <2>1. <<y, x>> \in Nat \X Nat
    OBVIOUS
  <2>2. ~(y < x)
    BY <1>3, <2>1
  <2> QED  BY <2>2
<1> QED  BY <1>4 DEF First

\* Item and beacon numbers are natural numbers.
LEMMA BoundsAreNat == Items \subseteq Nat /\ BeaconIDs \subseteq Nat
BY DEF Items, BeaconIDs

\* What a beacon lists can be counted.
LEMMA LoadIsNat ==
  ASSUME NEW slots \in [BeaconIDs -> [Items -> Nat]], NEW b \in BeaconIDs
  PROVE  IsFiniteSet(Entries(slots, b)) /\ Load(slots, b) \in Nat
<1> DEFINE of(w) == {w} \X (1 .. slots[b][w])
           T == {of(w) : w \in Items}
           f == [w \in Items |-> of(w)]
<1>1. f \in Surjection(Items, T)
  BY DEF Surjection
<1>2. IsFiniteSet(Items)
  BY FS_Interval, BoundsAssumption DEF Items
<1>3. IsFiniteSet(T)
  BY <1>1, <1>2, FS_Surjection
<1>4. ASSUME NEW w \in Items PROVE IsFiniteSet(of(w))
  <2> DEFINE n == slots[b][w]
  <2>1. n \in Int
    OBVIOUS
  <2> HIDE DEF n
  <2>2. IsFiniteSet(1 .. n)
    BY <2>1, FS_Interval
  <2>3. IsFiniteSet({w})
    BY FS_Singleton
  <2> QED  BY <2>2, <2>3, FS_Product DEF n
<1>5. IsFiniteSet(UNION T)
  BY <1>3, <1>4, FS_UNION
<1>6. Entries(slots, b) = UNION T
  BY DEF Entries
<1> QED  BY <1>5, <1>6, FS_CardinalityType DEF Load

\* A beacon lists no fewer entries than items.
LEMMA LoadCountsListed ==
  ASSUME NEW slots \in [BeaconIDs -> [Items -> Nat]], NEW b \in BeaconIDs,
         NEW S \in SUBSET Items, \A w \in S : slots[b][w] > 0
  PROVE  IsFiniteSet(S) /\ Cardinality(S) \in Nat /\ Cardinality(S) <= Load(slots, b)
<1> DEFINE f == [w \in S |-> <<w, 1>>]
           T == Entries(slots, b)
<1>1. ASSUME NEW w \in S PROVE <<w, 1>> \in T
  <2>1. slots[b][w] \in Nat /\ slots[b][w] > 0
    OBVIOUS
  <2>2. 1 \in 1 .. slots[b][w]
    BY <2>1
  <2> QED  BY <2>2 DEF Entries
<1> HIDE DEF T
<1>2. f \in Injection(S, T)
  BY <1>1 DEF Injection, IsInjective
<1>3. IsFiniteSet(T)
  BY LoadIsNat DEF T
<1>4. IsFiniteSet(S) /\ Cardinality(S) <= Cardinality(T)
  BY <1>2, <1>3, FS_Injection
<1> QED  BY <1>4, FS_CardinalityType DEF T, Load

\* Some items have a last one.
LEMMA LastItem ==
  ASSUME NEW P \in SUBSET Items, P # {}
  PROVE  \E w \in P : \A v \in P : v <= w
<1> DEFINE S == {MaxItems - v : v \in P}
<1>1. S \in SUBSET Nat /\ S # {}
  <2>1. ASSUME NEW v \in P PROVE MaxItems - v \in Nat
    BY BoundsAssumption DEF Items
  <2>2. S # {}
    OBVIOUS
  <2> QED  BY <2>1, <2>2
<1>2. First(S) \in S /\ \A x \in S : First(S) <= x
  BY <1>1, FirstIsMember
<1>3. /\ \A x \in S : \E v \in P : x = MaxItems - v
      /\ \A v \in P : MaxItems - v \in S
  OBVIOUS
<1> HIDE DEF S
<1>4. PICK w \in P : First(S) = MaxItems - w
  BY <1>2, <1>3
<1>5. ASSUME NEW v \in P PROVE v <= w
  <2>1. MaxItems - w <= MaxItems - v
    BY <1>2, <1>3, <1>4
  <2> QED  BY <2>1, BoundsAssumption DEF Items
<1> QED  BY <1>5

\* An item that leaves the queue is still a work item.
LEMMA GoneTyped ==
  ASSUME NEW item \in WorkItem
  PROVE  /\ [item EXCEPT !.Status = "Gone"] \in WorkItem
         /\ [item EXCEPT !.Status = "Gone"].Request = item.Request
BY DEF WorkItem

\* An item the walk looks at has been enqueued.
LEMMA AfterPushTyped ==
  ASSUME NEW h, StateTyped(h), NEW w \in Items,
         NEW push, NEW D \in SUBSET (Held(h) \cup Parked(h)),
         push \in [D -> BeaconIDs \cup {None}]
  PROVE  /\ AfterPush(h, push, w) \in WorkItem
         /\ AfterPush(h, push, w).Request = h.queue[w].Request
         /\ h.queue[w].Status = "New" => AfterPush(h, push, w).Status = "New"
<1>1. h.queue[w] \in WorkItem
  BY DEF StateTyped, WalkTyped
<1>5. h.queue[w].Status = "New" => w \notin DOMAIN push
  BY DEF Held, Parked
<1>2. CASE w \notin DOMAIN push
  BY <1>1, <1>2 DEF AfterPush
<1>3. CASE w \in DOMAIN push /\ w \in Held(h)
  <2>1. AfterPush(h, push, w) = [h.queue[w] EXCEPT !.Status = IF push[w] = None THEN @ ELSE "Running"]
    BY <1>3 DEF AfterPush
  <2> QED  BY <1>1, <1>3, <1>5, <2>1 DEF WorkItem
<1>4. CASE w \in DOMAIN push /\ w \notin Held(h)
  <2>1. push[w] \in BeaconIDs \cup {None} /\ h.queue[w].Status # "New"
    BY <1>4, <1>5
  <2>2. \/ AfterPush(h, push, w) = h.queue[w]
        \/ AfterPush(h, push, w) =
             [h.queue[w] EXCEPT !.Status = IF push[w] = None THEN "Pending" ELSE "Running",
                                !.AssignedBeaconID = push[w],
                                !.DispatchedAt = TRUE, !.LastEventAt = "recent"]
    BY <1>4 DEF AfterPush
  <2> QED  BY <1>1, <2>1, <2>2 DEF WorkItem
<1> QED  BY <1>2, <1>3, <1>4

\* The binding a push of unassigned work makes points to a beacon.
LEMMA AfterBindingTyped ==
  ASSUME NEW h, StateTyped(h), NEW k \in Keys, NEW push, NEW D \in SUBSET Items,
         push \in [D -> BeaconIDs \cup {None}]
  PROVE  AfterBinding(h, push, k) \in BeaconIDs \cup {None}
<1> DEFINE F == Founders(h, push, k)
<1> DEFINE T == Tried(h, push, First(F))
<1>1. CASE h.bindings[k] = None /\ F # {}
  <2>1. F \subseteq Nat
    BY BoundsAreNat DEF Founders
  <2>2. First(F) \in F
    BY <1>1, <2>1, FirstIsMember
  <2>3. T # {} /\ T \subseteq BeaconIDs
    BY <2>2 DEF Founders, Tried, Offers
  <2>4. First(T) \in T
    BY <2>3, FirstIsMember, BoundsAreNat
  <2> QED  BY <1>1, <2>3, <2>4 DEF AfterBinding
<1>2. CASE ~(h.bindings[k] = None /\ F # {})
  BY <1>2 DEF AfterBinding, StateTyped, WalkTyped
<1> QED  BY <1>1, <1>2

\* A walk of the queue keeps the types of all it changes.
LEMMA WalkKeepsTypes ==
  ASSUME NEW h, NEW W, NEW gone, StateTyped(h), handOvers \in [Items -> Nat],
         \A w \in gone \cap Items : h.queue[w].Status # "New",
         Walk(h, W, gone)
  PROVE  NowTyped' /\ handOvers' \in [Items -> Nat]
<1> DEFINE D == W \cap (Held(h) \cup Parked(h))
<1>1. PICK push \in [D -> BeaconIDs \cup {None}] :
         /\ beacons' = h.beacons
         /\ currentWorkItems' = [b \in BeaconIDs |-> [w \in Items |->
              IF w \in DOMAIN push \ Held(h) /\ push[w] = b
              THEN h.slots[b][w] + 1 ELSE h.slots[b][w]]]
         /\ workQueue' = [w \in Items |->
              IF w \in gone THEN [h.queue[w] EXCEPT !.Status = "Gone"]
                            ELSE AfterPush(h, push, w)]
         /\ bindings' = [k \in Keys |-> AfterBinding(h, push, k)]
         /\ executions' = h.executions \cup
              {<<push[w], w>> : w \in {v \in DOMAIN push : push[v] # None}}
         /\ handOvers' = [w \in Items |->
              IF w \in DOMAIN push /\ push[w] # None
              THEN handOvers[w] + 1 ELSE handOvers[w]]
  BY DEF Walk
<1>2. D \subseteq Items /\ D \subseteq Held(h) \cup Parked(h)
  BY DEF Held, Parked
<1>3. beacons' \in [BeaconIDs -> BeaconRecord]
      /\ \A b \in BeaconIDs :
           beacons'[b].Status \in Live \cup {"Offline"} => beacons'[b].Name \in Names
  BY <1>1 DEF StateTyped, WalkTyped
<1>4. currentWorkItems' \in [BeaconIDs -> [Items -> Nat]]
  BY <1>1 DEF StateTyped, WalkTyped
<1>5. workQueue' \in [Items -> WorkItem]
  <2> SUFFICES ASSUME NEW w \in Items PROVE workQueue'[w] \in WorkItem
    BY <1>1
  <2>0. h.queue[w] \in WorkItem
    BY DEF StateTyped, WalkTyped
  <2>1. CASE w \in gone
    <3>1. workQueue'[w] = [h.queue[w] EXCEPT !.Status = "Gone"]
      BY <1>1, <2>1
    <3> QED  BY <2>0, <3>1, GoneTyped
  <2>2. CASE w \notin gone
    <3>1. workQueue'[w] = AfterPush(h, push, w)
      BY <1>1, <2>2
    <3> QED  BY <1>2, <3>1, AfterPushTyped
  <2> QED  BY <2>1, <2>2
<1>6. \A w \in Items : workQueue'[w].Status # "New" => workQueue'[w].Request \in Requests
  <2> SUFFICES ASSUME NEW w \in Items, workQueue'[w].Status # "New"
               PROVE  workQueue'[w].Request \in Requests
    OBVIOUS
  <2>1. h.queue[w] \in WorkItem /\ (h.queue[w].Status # "New" => h.queue[w].Request \in Requests)
    BY DEF StateTyped, WalkTyped
  <2>2. CASE w \in gone
    <3>1. workQueue'[w] = [h.queue[w] EXCEPT !.Status = "Gone"]
      BY <1>1, <2>2
    <3>2. h.queue[w].Status # "New"
      BY <2>2
    <3> QED  BY <2>1, <3>1, <3>2, GoneTyped
  <2>3. CASE w \notin gone
    <3>1. workQueue'[w] = AfterPush(h, push, w)
      BY <1>1, <2>3
    <3> QED  BY <1>2, <2>1, <3>1, AfterPushTyped
  <2> QED  BY <2>2, <2>3
<1>7. bindings' \in [Keys -> BeaconIDs \cup {None}]
  BY <1>1, <1>2, AfterBindingTyped
<1>8. executions' \subseteq BeaconIDs \X Items
  BY <1>1, <1>2 DEF StateTyped, WalkTyped
<1>9. handOvers' \in [Items -> Nat]
  BY <1>1
<1> QED
  BY <1>3, <1>4, <1>5, <1>6, <1>7, <1>8, <1>9 DEF NowTyped, WalkTyped

\* The state a handler that changed nothing yet walks from is typed.
LEMMA NowIsTyped == ASSUME NowTyped PROVE StateTyped(Now)
BY DEF NowTyped, StateTyped, Now

\* Freeing a slot ends in a walk from a typed state with the same queue.
LEMMA RemoveIsWalk ==
  ASSUME NEW h, NEW gone, NEW w \in Items, NEW b \in BeaconIDs \cup {None},
         StateTyped(h), h.beacons = beacons, RemoveFromBeacon(b, w, h, gone)
  PROVE  \E h2, W : StateTyped(h2) /\ h2.queue = h.queue /\ Walk(h2, W, gone)
<1>1. CASE ~Known(b) /\ Walk(h, {}, gone)
  BY <1>1
<1>2. CASE Known(b)
  <2> DEFINE slots   == [h.slots EXCEPT ![b][w] = IF @ > 0 THEN @ - 1 ELSE 0]
             records == IF Full(slots, b) THEN h.beacons
                        ELSE [h.beacons EXCEPT ![b].Status = "Online"]
             h2      == [h EXCEPT !.slots = slots, !.beacons = records]
  <2>1. b \in BeaconIDs /\ Registered(b) /\ Walk(h2, Items, gone)
    BY <1>2 DEF RemoveFromBeacon, Known
  <2>2. slots \in [BeaconIDs -> [Items -> Nat]]
    BY <2>1 DEF StateTyped, WalkTyped
  <2>3. /\ records \in [BeaconIDs -> BeaconRecord]
        /\ \A c \in BeaconIDs :
             records[c].Status \in Live \cup {"Offline"} => records[c].Name \in Names
    BY <2>1 DEF StateTyped, WalkTyped, BeaconRecord, Registered, Live
  <2> HIDE DEF slots, records
  <2>4. /\ DOMAIN h2 = DOMAIN h
        /\ h2.beacons = records /\ h2.slots = slots /\ h2.queue = h.queue
        /\ h2.bindings = h.bindings /\ h2.executions = h.executions
    BY DEF StateTyped
  <2>5. StateTyped(h2) /\ h2.queue = h.queue
    BY <2>2, <2>3, <2>4 DEF StateTyped, WalkTyped
  <2> HIDE DEF h2
  <2> QED  BY <2>1, <2>5
<1> QED  BY <1>1, <1>2 DEF RemoveFromBeacon

\* _removeWorkItemFromBeacon keeps the types of all it changes.
LEMMA RemoveKeepsTypes ==
  ASSUME NEW h, NEW gone, NEW w \in Items, NEW b \in BeaconIDs \cup {None},
         StateTyped(h), h.beacons = beacons, handOvers \in [Items -> Nat],
         \A v \in gone \cap Items : h.queue[v].Status # "New",
         RemoveFromBeacon(b, w, h, gone)
  PROVE  NowTyped' /\ handOvers' \in [Items -> Nat]
<1>1. PICK h2, W : StateTyped(h2) /\ h2.queue = h.queue /\ Walk(h2, W, gone)
  BY RemoveIsWalk
<1> QED  BY <1>1, WalkKeepsTypes

\* Putting a typed item in the queue a walk starts from keeps that state typed.
LEMMA WithItemTyped ==
  ASSUME NEW h, StateTyped(h), NEW w \in Items, NEW item \in WorkItem,
         item.Status # "New" => item.Request \in Requests
  PROVE  /\ StateTyped([h EXCEPT !.queue[w] = item])
         /\ [h EXCEPT !.queue[w] = item].beacons = h.beacons
         /\ [h EXCEPT !.queue[w] = item].queue = [h.queue EXCEPT ![w] = item]
<1> DEFINE h2 == [h EXCEPT !.queue[w] = item]
<1>1. /\ DOMAIN h2 = DOMAIN h
      /\ h2.queue = [h.queue EXCEPT ![w] = item]
      /\ h2.beacons = h.beacons /\ h2.slots = h.slots
      /\ h2.bindings = h.bindings /\ h2.executions = h.executions
  BY DEF StateTyped
<1>2. /\ [h.queue EXCEPT ![w] = item] \in [Items -> WorkItem]
      /\ \A v \in Items : [h.queue EXCEPT ![w] = item][v].Status # "New"
           => [h.queue EXCEPT ![w] = item][v].Request \in Requests
  BY DEF StateTyped, WalkTyped
<1> QED  BY <1>1, <1>2 DEF StateTyped, WalkTyped

\* The end of an item, by a report or by a timer.
LEMMA FinishKeepsTypes ==
  ASSUME TypeOK, NEW h, StateTyped(h), h.beacons = beacons, h.queue = workQueue,
         NEW w \in Items, InQueue(w), NEW status \in {"Complete", "Error"}, NEW reply,
         Finish(w, status, reply, h), up' \in BOOLEAN
  PROVE  TypeOK'
<1> DEFINE item == [h.queue[w] EXCEPT !.Status = status, !.LastEventAt = "recent"]
           h2   == [h EXCEPT !.queue[w] = item]
<1>1. /\ workQueue[w] \in WorkItem /\ workQueue[w].Status # "New"
      /\ workQueue[w].Request \in Requests
  BY DEF TypeOK, InQueue
<1>2. item \in WorkItem /\ item.Status # "New" /\ item.Request \in Requests
  BY <1>1 DEF WorkItem
<1>3. RemoveFromBeacon(workQueue[w].AssignedBeaconID, w, h2, GoneBy(w, reply))
  BY DEF Finish
<1>4. GoneBy(w, reply) \subseteq {w}
  BY DEF GoneBy
<1>5. workQueue[w].AssignedBeaconID \in BeaconIDs \cup {None}
  BY <1>1 DEF WorkItem
<1>6. StateTyped(h2) /\ h2.beacons = beacons /\ h2.queue = [workQueue EXCEPT ![w] = item]
  <2> HIDE DEF item
  <2> QED  BY <1>2, WithItemTyped
<1>7. \A v \in GoneBy(w, reply) \cap Items : h2.queue[v].Status # "New"
  <2> HIDE DEF item, h2
  <2> QED BY <1>2, <1>4, <1>6 DEF TypeOK
<1>8. NowTyped' /\ handOvers' \in [Items -> Nat]
  <2> HIDE DEF item, h2
  <2> QED  BY <1>3, <1>5, <1>6, <1>7, RemoveKeepsTypes DEF TypeOK
<1>9. OtherTyped'
  BY DEF Finish, Reply, TypeOK, OtherTyped
<1> QED  BY <1>8, <1>9, TypeOKPartsPrime

\* An item waiting for its retry is a work item of no beacon.
LEMMA RetryTyped ==
  ASSUME NEW x \in WorkItem
  PROVE  /\ [x EXCEPT !.Status = "RetryScheduled", !.AttemptNumber = @ + 1,
                      !.AssignedBeaconID = None] \in WorkItem
         /\ [x EXCEPT !.Status = "RetryScheduled", !.AttemptNumber = @ + 1,
                      !.AssignedBeaconID = None].Status = "RetryScheduled"
         /\ [x EXCEPT !.Status = "RetryScheduled", !.AttemptNumber = @ + 1,
                      !.AssignedBeaconID = None].Request = x.Request
         /\ [x EXCEPT !.Status = "RetryScheduled", !.AttemptNumber = @ + 1,
                      !.AssignedBeaconID = None].AssignedBeaconID = None
<1>1. x.AttemptNumber + 1 \in Nat
  BY DEF WorkItem
<1> QED  BY <1>1 DEF WorkItem

\* The retry branch of failWorkItem and _checkTimeouts keeps the types.
LEMMA ScheduleRetryKeepsTypes ==
  ASSUME TypeOK, NEW h, StateTyped(h), h.beacons = beacons, h.queue = workQueue,
         NEW w \in Items, InQueue(w), ScheduleRetry(w, h), UNCHANGED up
  PROVE  TypeOK'
<1> DEFINE item == [h.queue[w] EXCEPT !.Status = "RetryScheduled",
                                      !.AttemptNumber = @ + 1,
                                      !.AssignedBeaconID = None]
           h2   == [h EXCEPT !.queue[w] = item]
<1>1. /\ workQueue[w] \in WorkItem /\ workQueue[w].Status # "New"
      /\ workQueue[w].Request \in Requests
  BY DEF TypeOK, InQueue
<1>2. /\ item \in WorkItem /\ item.Status # "New" /\ item.Request \in Requests
      /\ item.AssignedBeaconID = None
  BY <1>1, RetryTyped
<1>3. RemoveFromBeacon(item.AssignedBeaconID, w, h2, {})
  BY DEF ScheduleRetry
<1>4. StateTyped(h2) /\ h2.beacons = beacons
  <2> HIDE DEF item
  <2> QED  BY <1>2, WithItemTyped
<1>5. NowTyped' /\ handOvers' \in [Items -> Nat]
  <2> HIDE DEF item, h2
  <2> QED  BY <1>2, <1>3, <1>4, RemoveKeepsTypes DEF TypeOK
<1>6. OtherTyped'
  BY DEF ScheduleRetry, TypeOK, OtherTyped
<1> QED  BY <1>5, <1>6, TypeOKPartsPrime

\* Where an enqueued item is routed is a registered beacon.
LEMMA RoutesAreRegistered ==
  ASSUME TypeOK, NEW r \in Requests, NEW expired \in BOOLEAN,
         NEW routes, routes = IF NameRouted(r) THEN Named(r.AffinityKey)
                              ELSE IF expired THEN {} ELSE BoundTo(r),
         routes # {}
  PROVE  First(routes) \in routes /\ First(routes) \in BeaconIDs /\ Registered(First(routes))
<1>1. \A b \in routes : b \in BeaconIDs /\ Registered(b)
  BY DEF Named, BoundTo
<1>2. routes \in SUBSET Nat
  BY <1>1, BoundsAreNat
<1> QED  BY <1>1, <1>2, FirstIsMember

\* enqueueWorkItem walks its one new item, assigned or pending, from a typed
\* state.
LEMMA EnqueueIsWalk ==
  ASSUME TypeOK, NEW w \in Items, NEW r \in Requests, NEW expired \in BOOLEAN,
         EnqueueWorkItem(w, r, expired)
  PROVE  \E h, item :
           /\ StateTyped(h) /\ h.queue = [workQueue EXCEPT ![w] = item]
           /\ item.Request = r /\ item.Status \in {"Pending", "Assigned"}
           /\ Walk(h, {w}, {})
<1> DEFINE routes == IF NameRouted(r) THEN Named(r.AffinityKey)
                     ELSE IF expired THEN {} ELSE BoundTo(r)
           target == IF routes = {} THEN None ELSE First(routes)
           item   == [Request |-> r, AssignedBeaconID |-> target,
                      Status |-> IF target = None THEN "Pending" ELSE "Assigned",
                      AttemptNumber |-> 0, DispatchedAt |-> FALSE,
                      LastEventAt |-> "recent", Priority |-> r.Priority,
                      CancelRequested |-> FALSE]
           slots  == IF target = None THEN currentWorkItems
                     ELSE [currentWorkItems EXCEPT ![target][w] = @ + 1]
           bound  == IF expired THEN [bindings EXCEPT ![r.AffinityKey] = None]
                     ELSE bindings
           h2     == [Now EXCEPT !.queue[w] = item, !.slots = slots,
                                 !.bindings = bound]
<1>1. Walk(h2, {w}, {})
  BY DEF EnqueueWorkItem
<1>2. target \in BeaconIDs \cup {None}
  <2> HIDE DEF routes
  <2>1. CASE routes = {}
    BY <2>1
  <2>2. CASE routes # {}
    BY <2>2, RoutesAreRegistered DEF routes
  <2> QED  BY <2>1, <2>2
<1> HIDE DEF target
<1>3. /\ item \in WorkItem /\ item.Request = r /\ item.Request \in Requests
      /\ item.Status \in {"Pending", "Assigned"}
  BY <1>2, RequestsAssumption DEF WorkItem, RequestType
<1>4. slots \in [BeaconIDs -> [Items -> Nat]]
  BY <1>2 DEF TypeOK
<1>5. bound \in [Keys -> BeaconIDs \cup {None}]
  BY DEF TypeOK
<1> HIDE DEF item, slots, bound
<1>6. /\ DOMAIN h2 = {"beacons", "slots", "queue", "bindings", "executions"}
      /\ h2.beacons = beacons /\ h2.slots = slots /\ h2.bindings = bound
      /\ h2.queue = [workQueue EXCEPT ![w] = item]
      /\ h2.executions = executions
  BY DEF Now
<1>7. /\ h2.queue \in [Items -> WorkItem]
      /\ \A v \in Items : h2.queue[v].Status # "New" => h2.queue[v].Request \in Requests
  BY <1>3, <1>6 DEF TypeOK
<1>8. StateTyped(h2)
  BY <1>4, <1>5, <1>6, <1>7, TypeOKParts DEF StateTyped, NowTyped, WalkTyped
<1> HIDE DEF h2
<1> QED  BY <1>1, <1>3, <1>6, <1>8

\* enqueueWorkItem keeps the types.
LEMMA EnqueueKeepsTypes ==
  ASSUME TypeOK, NEW w \in Items, NEW r \in Requests, NEW expired \in BOOLEAN,
         EnqueueWorkItem(w, r, expired)
  PROVE  TypeOK'
<1>1. PICK h : StateTyped(h) /\ Walk(h, {w}, {})
  BY EnqueueIsWalk
<1>2. NowTyped' /\ handOvers' \in [Items -> Nat]
  BY <1>1, WalkKeepsTypes DEF TypeOK
<1>3. OtherTyped'
  BY DEF EnqueueWorkItem, TypeOK, OtherTyped
<1> QED  BY <1>2, <1>3, TypeOKPartsPrime

\* An item a poller takes is a running work item of the same request.
LEMMA HandedTyped ==
  ASSUME NEW x \in WorkItem, NEW b \in BeaconIDs
  PROVE  /\ [x EXCEPT !.Status = "Running", !.AssignedBeaconID = b,
                      !.AttemptNumber = @ + 1, !.DispatchedAt = TRUE,
                      !.LastEventAt = "recent"] \in WorkItem
         /\ [x EXCEPT !.Status = "Running", !.AssignedBeaconID = b,
                      !.AttemptNumber = @ + 1, !.DispatchedAt = TRUE,
                      !.LastEventAt = "recent"].Request = x.Request
         /\ [x EXCEPT !.Status = "Running", !.AssignedBeaconID = b,
                      !.AttemptNumber = @ + 1, !.DispatchedAt = TRUE,
                      !.LastEventAt = "recent"].Status = "Running"
<1> DEFINE x1 == [x EXCEPT !.Status = "Running", !.AssignedBeaconID = b]
           x2 == [x1 EXCEPT !.AttemptNumber = @ + 1]
           x3 == [x2 EXCEPT !.DispatchedAt = TRUE, !.LastEventAt = "recent"]
<1>1. x1 \in WorkItem /\ x1.Request = x.Request /\ x1.Status = "Running"
  BY DEF WorkItem
<1>2. x1.AttemptNumber \in Nat /\ x1.AttemptNumber = x.AttemptNumber
  BY DEF WorkItem
<1>3. x2 \in WorkItem /\ x2.Request = x.Request /\ x2.Status = "Running"
  <2> HIDE DEF x1
  <2> QED BY <1>1, <1>2 DEF WorkItem
<1>4. x3 \in WorkItem /\ x3.Request = x.Request /\ x3.Status = "Running"
  <2> HIDE DEF x2
  <2> QED BY <1>3 DEF WorkItem
<1>5. [x EXCEPT !.Status = "Running", !.AssignedBeaconID = b,
                            !.AttemptNumber = @ + 1, !.DispatchedAt = TRUE,
                            !.LastEventAt = "recent"] = x3
  BY <1>2
<1> QED  BY <1>4, <1>5

\* pollForWork keeps the types when the slots and bindings it leaves are typed.
LEMMA HandToPollerTypes ==
  ASSUME TypeOK, NEW b \in BeaconIDs, NEW w \in Items,
         workQueue[w].Status # "New", HandToPoller(b, w),
         currentWorkItems' \in [BeaconIDs -> [Items -> Nat]],
         bindings' \in [Keys -> BeaconIDs \cup {None}]
  PROVE  TypeOK'
<1> DEFINE item == [workQueue[w] EXCEPT
             !.Status = "Running", !.AssignedBeaconID = b,
             !.AttemptNumber = @ + 1, !.DispatchedAt = TRUE,
             !.LastEventAt = "recent"]
<1>1. /\ workQueue[w] \in WorkItem /\ workQueue[w].Request \in Requests
      /\ workQueue[w].AttemptNumber + 1 \in Nat
  BY DEF TypeOK, WorkItem
<1>2. item \in WorkItem /\ item.Request = workQueue[w].Request
  BY <1>1, HandedTyped, Zenon
<1>3. workQueue' = [workQueue EXCEPT ![w] = item]
  BY DEF HandToPoller
<1> HIDE DEF item
<1>4. /\ workQueue' \in [Items -> WorkItem]
      /\ \A v \in Items : workQueue'[v].Status # "New" => workQueue'[v].Request \in Requests
  BY <1>1, <1>2, <1>3 DEF TypeOK
<1>5. executions' \subseteq BeaconIDs \X Items /\ handOvers' \in [Items -> Nat]
  BY DEF HandToPoller, TypeOK
<1>6. UNCHANGED <<beacons, channel, callbacks, resuming, up, notified>>
  BY DEF HandToPoller
<1> QED  BY <1>4, <1>5, <1>6 DEF TypeOK, Registered

\* Both passes of pollForWork keep the types.
LEMMA PollKeepsTypes ==
  ASSUME TypeOK, NEW b \in BeaconIDs, PollAssigned(b) \/ PollPending(b)
  PROVE  TypeOK'
<1>1. CASE PollAssigned(b)
  <2> DEFINE w == First(AssignedTo(b))
  <2>1. w \in AssignedTo(b)
    BY <1>1, BoundsAreNat, FirstIsMember DEF PollAssigned, AssignedTo
  <2>2. w \in Items /\ workQueue[w].Status # "New" /\ HandToPoller(b, w)
    BY <1>1, <2>1 DEF PollAssigned, AssignedTo
  <2> QED  BY <1>1, <2>2, HandToPollerTypes DEF PollAssigned, TypeOK
<1>2. CASE PollPending(b)
  <2> DEFINE w   == First(ClaimableBy(b))
             key == workQueue[w].Request.AffinityKey
  <2>1. w \in ClaimableBy(b)
    BY <1>2, BoundsAreNat, FirstIsMember DEF PollPending, ClaimableBy
  <2>2. w \in Items /\ workQueue[w].Status # "New" /\ HandToPoller(b, w)
    BY <1>2, <2>1 DEF PollPending, ClaimableBy
  <2> HIDE DEF w
  <2>3. currentWorkItems' \in [BeaconIDs -> [Items -> Nat]]
    BY <1>2, <2>2 DEF PollPending, TypeOK, w
  <2>4. bindings' \in [Keys -> BeaconIDs \cup {None}]
    BY <1>2 DEF PollPending, TypeOK
  <2> QED  BY <2>2, <2>3, <2>4, HandToPollerTypes
<1> QED  BY <1>1, <1>2

\* The state in which a report is used up is typed, with the same queue.
LEMMA ReportedIsTyped ==
  ASSUME TypeOK, NEW b, NEW w
  PROVE  /\ StateTyped(Reported(b, w))
         /\ Reported(b, w).beacons = beacons /\ Reported(b, w).queue = workQueue
BY DEF TypeOK, StateTyped, WalkTyped, Reported, Now, Registered

\* completeWorkItem and failWorkItem keep the types.
LEMMA ReportKeepsTypes ==
  ASSUME TypeOK, NEW b \in BeaconIDs, NEW w \in Items,
         CompleteWorkItem(b, w) \/ FailWorkItem(b, w)
  PROVE  TypeOK'
<1>1. up' \in BOOLEAN /\ InQueue(w)
  BY DEF CompleteWorkItem, FailWorkItem, Accepts, TypeOK
<1>2. CASE CompleteWorkItem(b, w)
  BY <1>1, <1>2, ReportedIsTyped, FinishKeepsTypes DEF CompleteWorkItem
<1>3. CASE RetryLeft(w) /\ FailWorkItem(b, w)
  BY <1>1, <1>3, ReportedIsTyped, ScheduleRetryKeepsTypes DEF FailWorkItem
<1>4. CASE ~RetryLeft(w) /\ FailWorkItem(b, w)
  BY <1>1, <1>4, ReportedIsTyped, FinishKeepsTypes DEF FailWorkItem
<1> QED  BY <1>2, <1>3, <1>4

\* The item and retry loops of _checkTimeouts keep the types.
LEMMA CheckTimeoutsKeepsTypes ==
  ASSUME TypeOK, NEW w \in Items, TimeOutWorkItem(w) \/ RequeueRetry(w)
  PROVE  TypeOK'
<1>1. StateTyped(Now) /\ Now.beacons = beacons /\ Now.queue = workQueue
  BY TypeOKParts, NowIsTyped DEF Now
<1>2. CASE TimeOutWorkItem(w)
  <2>1. InQueue(w)
    BY <1>2 DEF TimeOutWorkItem, InQueue
  <2>2. CASE ScheduleRetry(w, Now) /\ UNCHANGED up
    BY <1>1, <2>1, <2>2, ScheduleRetryKeepsTypes
  <2>3. CASE \E reply \in Replies(w) :
               Finish(w, "Error", reply, Now) /\ up' = (GoneBy(w, reply) = {})
    BY <1>1, <2>1, <2>3, FinishKeepsTypes
  <2> QED  BY <1>2, <2>2, <2>3 DEF TimeOutWorkItem
<1>3. CASE RequeueRetry(w)
  <2> DEFINE item == [workQueue[w] EXCEPT !.Status = "Pending"]
             h2   == [Now EXCEPT !.queue[w] = item]
  <2>1. /\ workQueue[w] \in WorkItem /\ workQueue[w].Request \in Requests
        /\ workQueue[w].Status # "New"
    BY <1>3 DEF TypeOK, RequeueRetry
  <2>2. item \in WorkItem /\ item.Request \in Requests
    BY <2>1 DEF WorkItem
  <2>3. StateTyped(h2)
    <3> HIDE DEF item
    <3> QED  BY <1>1, <2>2, WithItemTyped
  <2>4. Walk(h2, {w}, {})
    BY <1>3 DEF RequeueRetry
  <2> HIDE DEF h2
  <2>5. NowTyped' /\ handOvers' \in [Items -> Nat]
    BY <2>3, <2>4, WalkKeepsTypes DEF TypeOK
  <2>6. OtherTyped'
    BY <1>3 DEF RequeueRetry, TypeOK, OtherTyped
  <2> QED  BY <2>5, <2>6, TypeOKPartsPrime
<1> QED  BY <1>2, <1>3

\* The timer of dispatchAndWait and dispatchAndStream keeps the types.
LEMMA DirectTimeoutKeepsTypes ==
  ASSUME TypeOK, NEW w \in Items, DirectDispatchTimeout(w)
  PROVE  TypeOK'
<1>1. OtherTyped'
  BY DEF DirectDispatchTimeout, TypeOK, OtherTyped
<1>2. CASE InQueue(w) /\ RemoveFromBeacon(workQueue[w].AssignedBeaconID, w, Now, {w})
  <2>1. StateTyped(Now) /\ Now.beacons = beacons /\ Now.queue = workQueue
    BY TypeOKParts, NowIsTyped DEF Now
  <2>2. workQueue[w].AssignedBeaconID \in BeaconIDs \cup {None}
    BY DEF TypeOK, WorkItem
  <2>3. \A v \in {w} \cap Items : Now.queue[v].Status # "New"
    BY <1>2, <2>1 DEF InQueue
  <2>4. NowTyped' /\ handOvers' \in [Items -> Nat]
    BY <1>2, <2>1, <2>2, <2>3, RemoveKeepsTypes DEF TypeOK
  <2> QED  BY <1>1, <2>4, TypeOKPartsPrime
<1>3. CASE UNCHANGED <<beacons, currentWorkItems, workQueue, bindings,
                       executions, handOvers>>
  <2>1. NowTyped' /\ handOvers' \in [Items -> Nat]
    BY <1>3, TypeOKParts DEF NowTyped, WalkTyped
  <2> QED  BY <1>1, <2>1, TypeOKPartsPrime
<1> QED  BY <1>2, <1>3 DEF DirectDispatchTimeout

\* A step on one item that changes how recent its last event is, or ends it.
LEMMA ItemChangeKeepsTypes ==
  ASSUME TypeOK, NEW w \in Items, NEW item \in WorkItem,
         item.Status # "New" => item.Request \in Requests,
         workQueue' = [workQueue EXCEPT ![w] = item],
         executions' \subseteq executions, resuming' \subseteq resuming,
         UNCHANGED <<beacons, channel, currentWorkItems, bindings, callbacks, up,
                     handOvers, notified>>
  PROVE  TypeOK'
<1>1. /\ workQueue' \in [Items -> WorkItem]
      /\ \A v \in Items : workQueue'[v].Status # "New" => workQueue'[v].Request \in Requests
  BY DEF TypeOK
<1> QED  BY <1>1 DEF TypeOK, Registered

\* An item a departing beacon releases is a pending work item.
LEMMA ReleasedTyped ==
  ASSUME NEW x \in WorkItem
  PROVE  /\ [x EXCEPT !.Status = "Pending", !.AssignedBeaconID = None] \in WorkItem
         /\ [x EXCEPT !.Status = "Pending", !.AssignedBeaconID = None].Status = "Pending"
         /\ [x EXCEPT !.Status = "Pending", !.AssignedBeaconID = None].Request = x.Request
BY DEF WorkItem

\* Registration, deregistration, heartbeats, sockets and polls keep the types.
LEMMA BeaconStepKeepsTypes ==
  ASSUME TypeOK,
         \/ \E n \in Names : RegisterBeacon(n)
         \/ \E b \in BeaconIDs : BeaconStep(b)
  PROVE  TypeOK'
<1>1. ASSUME NEW n \in Names, RegisterBeacon(n) PROVE TypeOK'
  <2>1. PICK b \in BeaconIDs :
          /\ beacons' = [beacons EXCEPT ![b] = [Name |-> n, Status |-> "Online"]]
          /\ channel' = [channel EXCEPT ![b] =
                           IF Transport[n] = "ws" THEN "open" ELSE "none"]
          /\ UNCHANGED <<currentWorkItems, workQueue, bindings, callbacks, resuming,
                         up, executions, handOvers, notified>>
    BY <1>1 DEF RegisterBeacon
  <2>2. [Name |-> n, Status |-> "Online"] \in BeaconRecord
    BY DEF BeaconRecord, Live
  <2>3. beacons' \in [BeaconIDs -> BeaconRecord]
    BY <2>1, <2>2 DEF TypeOK
  <2>4. \A c \in BeaconIDs : Registered(c)' => beacons'[c].Name \in Names
    BY <2>1 DEF TypeOK, Registered
  <2> QED  BY <2>1, <2>3, <2>4 DEF TypeOK
<1>2. ASSUME NEW b \in BeaconIDs, DeregisterBeacon(b) PROVE TypeOK'
  <2>0. /\ beacons' = [beacons EXCEPT ![b] = [beacons[b] EXCEPT !.Status = "Gone"]]
        /\ beacons[b] \in BeaconRecord
    BY <1>2 DEF DeregisterBeacon, TypeOK
  <2>1. /\ [beacons[b] EXCEPT !.Status = "Gone"] \in BeaconRecord
        /\ [beacons[b] EXCEPT !.Status = "Gone"].Status = "Gone"
    BY <2>0 DEF BeaconRecord
  <2>2. /\ beacons' \in [BeaconIDs -> BeaconRecord]
        /\ \A c \in BeaconIDs : Registered(c)' => beacons'[c].Name \in Names
    BY <2>0, <2>1 DEF TypeOK, Registered, Live
  <2>3. \A v \in Items : workQueue'[v] =
          IF currentWorkItems[b][v] > 0 /\ workQueue[v].Status \in {"Assigned", "Running"}
          THEN [workQueue[v] EXCEPT !.Status = "Pending", !.AssignedBeaconID = None]
          ELSE workQueue[v]
    BY <1>2 DEF DeregisterBeacon
  <2>4. \A v \in Items : /\ workQueue'[v] \in WorkItem
                         /\ workQueue'[v].Status # "New" => workQueue'[v].Request \in Requests
    <3> SUFFICES ASSUME NEW v \in Items
                 PROVE  /\ workQueue'[v] \in WorkItem
                        /\ workQueue'[v].Status # "New" => workQueue'[v].Request \in Requests
      OBVIOUS
    <3>1. workQueue[v] \in WorkItem /\ (workQueue[v].Status # "New" => workQueue[v].Request \in Requests)
      BY DEF TypeOK
    <3> QED  BY <2>3, <3>1, ReleasedTyped
  <2>5. workQueue' \in [Items -> WorkItem]
    BY <1>2, <2>4 DEF DeregisterBeacon
  <2>6. currentWorkItems' \in [BeaconIDs -> [Items -> Nat]]
    BY <1>2 DEF DeregisterBeacon, TypeOK
  <2> QED  BY <1>2, <2>2, <2>4, <2>5, <2>6 DEF DeregisterBeacon, TypeOK
<1>3. ASSUME NEW b \in BeaconIDs, CloseSocket(b) PROVE TypeOK'
  BY <1>3 DEF CloseSocket, TypeOK, Registered
<1>4. ASSUME NEW b \in BeaconIDs, Heartbeat(b) \/ MissHeartbeat(b) PROVE TypeOK'
  <2>1. Registered(b)
    BY <1>4 DEF Heartbeat, MissHeartbeat, Registered
  <2>2. PICK s \in Live \cup {"Offline"} : SetBeaconStatus(b, s)
    BY <1>4 DEF Heartbeat, MissHeartbeat, Live
  <2>3. beacons' \in [BeaconIDs -> BeaconRecord]
    BY <2>2 DEF SetBeaconStatus, TypeOK, BeaconRecord
  <2>4. \A c \in BeaconIDs : Registered(c)' => beacons'[c].Name \in Names
    BY <2>1, <2>2 DEF SetBeaconStatus, TypeOK, Registered
  <2> QED  BY <2>2, <2>3, <2>4 DEF SetBeaconStatus, TypeOK
<1> QED  BY <1>1, <1>2, <1>3, <1>4, PollKeepsTypes DEF BeaconStep

\* Lost reports, progress and silence keep the types.
LEMMA SmallItemStepKeepsTypes ==
  ASSUME TypeOK, NEW w \in Items,
         \/ \E b \in BeaconIDs : LoseReport(b, w) \/ UpdateProgress(b, w)
         \/ FallSilent(w)
  PROVE  TypeOK'
<1>1. ASSUME NEW b \in BeaconIDs, LoseReport(b, w) PROVE TypeOK'
  BY <1>1 DEF LoseReport, TypeOK, Registered
<1>2. \A e \in {"recent", "old"} :
        /\ [workQueue[w] EXCEPT !.LastEventAt = e] \in WorkItem
        /\ [workQueue[w] EXCEPT !.LastEventAt = e].Status = workQueue[w].Status
        /\ [workQueue[w] EXCEPT !.LastEventAt = e].Request = workQueue[w].Request
  <2>1. \A item \in WorkItem, e \in {"recent", "old"} :
          /\ [item EXCEPT !.LastEventAt = e] \in WorkItem
          /\ [item EXCEPT !.LastEventAt = e].Status = item.Status
          /\ [item EXCEPT !.LastEventAt = e].Request = item.Request
    BY DEF WorkItem
  <2>2. workQueue[w] \in WorkItem
    BY DEF TypeOK
  <2> QED  BY <2>1, <2>2
<1>3. ASSUME NEW e \in {"recent", "old"},
             workQueue' = [workQueue EXCEPT ![w].LastEventAt = e],
             UNCHANGED <<beacons, channel, currentWorkItems, bindings, callbacks,
                         resuming, up, executions, handOvers, notified>>
      PROVE  TypeOK'
  <2>1. workQueue' = [workQueue EXCEPT ![w] = [workQueue[w] EXCEPT !.LastEventAt = e]]
    BY <1>3
  <2>2. [workQueue[w] EXCEPT !.LastEventAt = e].Status # "New"
          => [workQueue[w] EXCEPT !.LastEventAt = e].Request \in Requests
    BY <1>2 DEF TypeOK
  <2>3. executions' \subseteq executions /\ resuming' \subseteq resuming
    BY <1>3
  <2> QED  BY <1>2, <1>3, <2>1, <2>2, <2>3, ItemChangeKeepsTypes
<1> QED  BY <1>1, <1>3 DEF UpdateProgress, FallSilent

-----------------------------------------------------------------------------
(***************************************************************************)
(* Theorems of BeaconCoordinator: types, ToldOnce and FinalIsFinal.        *)
(*                                                                         *)
(* ToldOnce is not inductive: that an item on its way has told no one, and *)
(* that an item being resumed is finished and has told its operation once, *)
(* has to be kept with it (ToldOf).  Only four kinds of step end or begin  *)
(* an item or tell anyone (StepCases); all others are Quiet.               *)
(***************************************************************************)

\* On its way: enqueued, not finished and not removed.
Active == {"Pending", "Assigned", "Running", "Dispatched", "Canceled",
           "RetryScheduled", "Stalled"}

\* An item that is on its way stays so, any other stays as it is.
Stays(old, new) ==
  /\ new.Request = old.Request
  /\ new.Status = old.Status \/ {old.Status, new.Status} \subseteq Active

\* And no step of the coordinator makes it Dispatched, which the scheduler does.
Keeps(old, new) ==
  Stays(old, new) /\ (new.Status = "Dispatched" => old.Status = "Dispatched")

\* Two changes that each keep an item on its way do so together.
LEMMA KeepsIsTransitive ==
  ASSUME NEW x, NEW y, NEW z, Keeps(x, y), Keeps(y, z) PROVE Keeps(x, z)
BY DEF Keeps, Stays

\* A push, successful or not, keeps an item on its way and changes only
\* assigned and pending items.
LEMMA AfterPushKeeps ==
  ASSUME NEW h, StateTyped(h), NEW w \in Items,
         NEW push, NEW D \in SUBSET (Held(h) \cup Parked(h)),
         push \in [D -> BeaconIDs \cup {None}]
  PROVE  /\ Keeps(h.queue[w], AfterPush(h, push, w))
         /\ h.queue[w].Status \notin {"Assigned", "Pending"}
              => AfterPush(h, push, w) = h.queue[w]
<1>1. h.queue[w] \in WorkItem
  BY DEF StateTyped, WalkTyped
<1>2. w \in DOMAIN push => h.queue[w].Status \in {"Assigned", "Pending"}
  BY DEF Held, Parked
<1>3. CASE w \notin DOMAIN push
  BY <1>3 DEF AfterPush, Keeps, Stays
<1>4. CASE w \in DOMAIN push /\ w \in Held(h)
  <2>1. AfterPush(h, push, w) = [h.queue[w] EXCEPT !.Status = IF push[w] = None THEN @ ELSE "Running"]
    BY <1>4 DEF AfterPush
  <2> QED  BY <1>1, <1>2, <1>4, <2>1 DEF WorkItem, Keeps, Stays, Active
<1>5. CASE w \in DOMAIN push /\ w \notin Held(h)
  BY <1>1, <1>2, <1>5 DEF AfterPush, WorkItem, Keeps, Stays, Active
<1> QED  BY <1>3, <1>4, <1>5

\* A walk keeps every item it does not take out.
LEMMA WalkKeepsItems ==
  ASSUME NEW h, NEW W, NEW gone, StateTyped(h), Walk(h, W, gone), NEW w \in Items
  PROVE  /\ workQueue'[w].Request = h.queue[w].Request
         /\ w \in gone => workQueue'[w].Status = "Gone"
         /\ w \notin gone => Keeps(h.queue[w], workQueue'[w])
         /\ w \notin gone /\ h.queue[w].Status \notin {"Assigned", "Pending"}
              => workQueue'[w] = h.queue[w]
<1> DEFINE D == W \cap (Held(h) \cup Parked(h))
<1>1. PICK push \in [D -> BeaconIDs \cup {None}] :
         workQueue' = [v \in Items |->
              IF v \in gone THEN [h.queue[v] EXCEPT !.Status = "Gone"]
                            ELSE AfterPush(h, push, v)]
  BY DEF Walk
<1>2. h.queue[w] \in WorkItem
  BY DEF StateTyped, WalkTyped
<1>3. CASE w \in gone
  <2>1. workQueue'[w] = [h.queue[w] EXCEPT !.Status = "Gone"]
    BY <1>1, <1>3
  <2> QED  BY <1>2, <1>3, <2>1 DEF WorkItem
<1>4. CASE w \notin gone
  <2>1. workQueue'[w] = AfterPush(h, push, w)
    BY <1>1, <1>4
  <2>2. D \subseteq Held(h) \cup Parked(h)
    OBVIOUS
  <2> QED  BY <1>4, <2>1, <2>2, AfterPushKeeps DEF Keeps, Stays
<1> QED  BY <1>3, <1>4

\* A walk that removes nothing keeps every item.
LEMMA WalkKeepsAll ==
  ASSUME NEW h, NEW W, StateTyped(h), Walk(h, W, {}), NEW w \in Items
  PROVE  Keeps(h.queue[w], workQueue'[w])
<1> DEFINE gone == {}
<1> HIDE DEF gone
<1>1. Walk(h, W, gone)
  BY DEF gone
<1>2. w \notin gone => Keeps(h.queue[w], workQueue'[w])
  BY <1>1, WalkKeepsItems
<1> QED  BY <1>2 DEF gone

\* _removeWorkItemFromBeacon keeps every item it does not take out.
LEMMA RemoveKeepsItems ==
  ASSUME NEW h, NEW gone, NEW v \in Items, NEW b \in BeaconIDs \cup {None},
         StateTyped(h), h.beacons = beacons,
         RemoveFromBeacon(b, v, h, gone), NEW w \in Items
  PROVE  /\ workQueue'[w].Request = h.queue[w].Request
         /\ w \in gone => workQueue'[w].Status = "Gone"
         /\ w \notin gone => Keeps(h.queue[w], workQueue'[w])
         /\ w \notin gone /\ h.queue[w].Status \notin {"Assigned", "Pending"}
              => workQueue'[w] = h.queue[w]
<1>1. \E h2, W : StateTyped(h2) /\ h2.queue = h.queue /\ Walk(h2, W, gone)
  BY RemoveIsWalk
<1> QED  BY <1>1, WalkKeepsItems

\* _removeWorkItemFromBeacon keeps every item when none is taken out.
LEMMA RemoveKeepsAll ==
  ASSUME NEW h, NEW v \in Items, NEW b \in BeaconIDs \cup {None},
         StateTyped(h), h.beacons = beacons,
         RemoveFromBeacon(b, v, h, {}), NEW w \in Items
  PROVE  Keeps(h.queue[w], workQueue'[w])
<1> DEFINE gone == {}
<1> HIDE DEF gone
<1>1. RemoveFromBeacon(b, v, h, gone)
  BY DEF gone
<1>2. w \notin gone => Keeps(h.queue[w], workQueue'[w])
  BY <1>1, RemoveKeepsItems
<1> QED  BY <1>2 DEF gone

-----------------------------------------------------------------------------
\* The handlers that end no item.
QuietReport(b, w) ==
  \/ LoseReport(b, w) \/ UpdateProgress(b, w)
  \/ RetryLeft(w) /\ FailWorkItem(b, w)

QuietItemStep(w) ==
  \/ FallSilent(w) \/ RequeueRetry(w)
  \/ RetryLeft(w) /\ TimeOutWorkItem(w)

QuietStep ==
  \/ \E n \in Names : RegisterBeacon(n)
  \/ \E b \in BeaconIDs : BeaconStep(b)
  \/ \E k \in Keys : ClearAffinityBinding(k)
  \/ \E b \in BeaconIDs, w \in Items : QuietReport(b, w)
  \/ \E w \in Items : QuietItemStep(w)
  \/ UNCHANGED vars

\* Scheduling a retry keeps every item, the failed one on its way.
LEMMA RetryKeepsItems ==
  ASSUME TypeOK, NEW h, StateTyped(h), h.beacons = beacons, h.queue = workQueue,
         NEW w \in Items, InQueue(w), workQueue[w].Status \notin Final,
         ScheduleRetry(w, h), NEW v \in Items
  PROVE  Keeps(workQueue[v], workQueue'[v])
<1> DEFINE item == [h.queue[w] EXCEPT !.Status = "RetryScheduled",
                                      !.AttemptNumber = @ + 1,
                                      !.AssignedBeaconID = None]
           h2   == [h EXCEPT !.queue[w] = item]
<1>1. workQueue[w] \in WorkItem /\ workQueue[w].Request \in Requests
  BY DEF TypeOK, InQueue
<1>2. /\ item \in WorkItem /\ item.Status = "RetryScheduled"
      /\ item.AssignedBeaconID = None /\ item.Request = workQueue[w].Request
  BY <1>1, RetryTyped
<1>3. RemoveFromBeacon(item.AssignedBeaconID, w, h2, {})
  BY DEF ScheduleRetry
<1>4. workQueue[w].Status \in Active
  BY <1>1 DEF WorkItem, InQueue, Final, Active
<1> HIDE DEF item
<1>5. StateTyped(h2) /\ h2.beacons = beacons /\ h2.queue = [workQueue EXCEPT ![w] = item]
  BY <1>1, <1>2, WithItemTyped
<1> HIDE DEF h2
<1>6. Keeps(workQueue[v], h2.queue[v])
  BY <1>2, <1>4, <1>5 DEF Keeps, Stays, Active, TypeOK
<1>7. RemoveFromBeacon(None, w, h2, {})
  BY <1>2, <1>3
<1>8. Keeps(h2.queue[v], workQueue'[v])
  BY <1>5, <1>7, RemoveKeepsAll
<1> QED  BY <1>6, <1>8, KeepsIsTransitive

\* A step that ends no item and tells no one.
Quiet ==
  /\ \A v \in Items : Keeps(workQueue[v], workQueue'[v])
  /\ UNCHANGED <<callbacks, resuming, notified>>

\* pollForWork ends no item and tells no one.
LEMMA HandToPollerIsQuiet ==
  ASSUME TypeOK, NEW b \in BeaconIDs, NEW w \in Items,
         workQueue[w].Status \in Active, HandToPoller(b, w)
  PROVE  Quiet
<1> DEFINE item == [workQueue[w] EXCEPT
             !.Status = "Running", !.AssignedBeaconID = b,
             !.AttemptNumber = @ + 1, !.DispatchedAt = TRUE,
             !.LastEventAt = "recent"]
<1>1. workQueue' = [workQueue EXCEPT ![w] = item]
  BY DEF HandToPoller
<1>2. item.Status = "Running" /\ item.Request = workQueue[w].Request
  <2>1. workQueue[w] \in WorkItem
    BY DEF TypeOK
  <2> QED  BY <2>1, HandedTyped, Zenon
<1> HIDE DEF item
<1> QED  BY <1>1, <1>2 DEF HandToPoller, Quiet, Keeps, Stays, Active, TypeOK

\* The handlers of a QuietStep end no item and tell no one.
LEMMA QuietStepKeepsItems ==
  ASSUME TypeOK, QuietStep PROVE Quiet
<1>0. \A v \in Items : workQueue[v] \in WorkItem
  BY DEF TypeOK
<1>1. ASSUME UNCHANGED <<workQueue, callbacks, resuming, notified>> PROVE Quiet
  BY <1>1 DEF Quiet, Keeps, Stays
<1>2. ASSUME NEW n \in Names, RegisterBeacon(n) PROVE Quiet
  BY <1>1, <1>2 DEF RegisterBeacon
<1>3. ASSUME NEW b \in BeaconIDs, BeaconStep(b) PROVE Quiet
  <2>1. CASE DeregisterBeacon(b)
    <3>1. \A v \in Items :
            \/ workQueue'[v] = workQueue[v]
            \/ /\ workQueue[v].Status \in {"Assigned", "Running"}
               /\ workQueue'[v] = [workQueue[v] EXCEPT !.Status = "Pending",
                                                       !.AssignedBeaconID = None]
      BY <2>1 DEF DeregisterBeacon
    <3>2. \A v \in Items : Keeps(workQueue[v], workQueue'[v])
      <4> SUFFICES ASSUME NEW v \in Items PROVE Keeps(workQueue[v], workQueue'[v])
        OBVIOUS
      <4>1. CASE workQueue'[v] = workQueue[v]
        BY <4>1 DEF Keeps, Stays
      <4>2. CASE workQueue'[v] # workQueue[v]
        <5>1. /\ workQueue'[v].Status = "Pending"
              /\ workQueue'[v].Request = workQueue[v].Request
          <6>1. workQueue[v] \in WorkItem
            BY <1>0
          <6>2. workQueue'[v] = [workQueue[v] EXCEPT !.Status = "Pending",
                                                     !.AssignedBeaconID = None]
            BY <3>1, <4>2
          <6> QED  BY <6>1, <6>2, ReleasedTyped, Zenon
        <5> QED  BY <3>1, <4>2, <5>1 DEF Keeps, Stays, Active
      <4> QED  BY <4>1, <4>2
    <3> QED  BY <2>1, <3>2 DEF DeregisterBeacon, Quiet
  <2>2. CASE CloseSocket(b) \/ Heartbeat(b) \/ MissHeartbeat(b)
    BY <1>1, <2>2 DEF CloseSocket, Heartbeat, MissHeartbeat, SetBeaconStatus
  <2>3. CASE PollAssigned(b)
    <3>1. First(AssignedTo(b)) \in AssignedTo(b)
      BY <2>3, BoundsAreNat, FirstIsMember DEF PollAssigned, AssignedTo
    <3> QED  BY <2>3, <3>1, HandToPollerIsQuiet DEF PollAssigned, AssignedTo, Active
  <2>4. CASE PollPending(b)
    <3>1. First(ClaimableBy(b)) \in ClaimableBy(b)
      BY <2>4, BoundsAreNat, FirstIsMember DEF PollPending, ClaimableBy
    <3> QED  BY <2>4, <3>1, HandToPollerIsQuiet DEF PollPending, ClaimableBy, Active
  <2> QED  BY <1>3, <2>1, <2>2, <2>3, <2>4 DEF BeaconStep
<1>4. ASSUME NEW k \in Keys, ClearAffinityBinding(k) PROVE Quiet
  BY <1>1, <1>4 DEF ClearAffinityBinding
<1>5. ASSUME NEW b \in BeaconIDs, NEW w \in Items, RetryLeft(w), FailWorkItem(b, w)
      PROVE  Quiet
  <2>1. /\ InQueue(w) /\ workQueue[w].Status \notin Final
        /\ ScheduleRetry(w, Reported(b, w))
    BY <1>5 DEF FailWorkItem, Accepts
  <2> QED  BY <2>1, ReportedIsTyped, RetryKeepsItems DEF ScheduleRetry, Quiet
<1>6. ASSUME NEW w \in Items, NEW e \in {"recent", "old"},
             workQueue' = [workQueue EXCEPT ![w].LastEventAt = e],
             UNCHANGED <<callbacks, resuming, notified>>
      PROVE  Quiet
  BY <1>0, <1>6 DEF Quiet, Keeps, Stays, WorkItem, TypeOK
<1>7. ASSUME NEW w \in Items, RetryLeft(w), TimeOutWorkItem(w) PROVE Quiet
  <2>1. /\ InQueue(w) /\ workQueue[w].Status \notin Final /\ ScheduleRetry(w, Now)
    BY <1>7 DEF TimeOutWorkItem, InQueue, Final
  <2>2. StateTyped(Now) /\ Now.beacons = beacons /\ Now.queue = workQueue
    BY TypeOKParts, NowIsTyped DEF Now
  <2> QED  BY <2>1, <2>2, RetryKeepsItems DEF ScheduleRetry, Quiet
<1>8. ASSUME NEW w \in Items, RequeueRetry(w) PROVE Quiet
  <2> DEFINE item == [workQueue[w] EXCEPT !.Status = "Pending"]
             h2   == [Now EXCEPT !.queue[w] = item]
  <2>1. /\ workQueue[w].Status = "RetryScheduled" /\ Walk(h2, {w}, {})
        /\ UNCHANGED <<callbacks, resuming, notified>>
    BY <1>8 DEF RequeueRetry
  <2>2. /\ item \in WorkItem /\ item.Status = "Pending"
        /\ item.Request = workQueue[w].Request /\ item.Request \in Requests
    BY <1>0, <2>1 DEF WorkItem, TypeOK
  <2>3. StateTyped(Now) /\ Now.queue = workQueue
    BY TypeOKParts, NowIsTyped DEF Now
  <2> HIDE DEF item
  <2>4. StateTyped(h2) /\ h2.queue = [workQueue EXCEPT ![w] = item]
    BY <2>2, <2>3, WithItemTyped
  <2> HIDE DEF h2
  <2>5. \A v \in Items : Keeps(workQueue[v], h2.queue[v])
    <3> SUFFICES ASSUME NEW v \in Items PROVE Keeps(workQueue[v], h2.queue[v])
      OBVIOUS
    <3>1. CASE v # w
      BY <2>4, <3>1 DEF Keeps, Stays, TypeOK
    <3>2. CASE v = w
      BY <2>1, <2>2, <2>4, <3>2 DEF Keeps, Stays, Active, TypeOK
    <3> QED  BY <3>1, <3>2
  <2>6. \A v \in Items : Keeps(h2.queue[v], workQueue'[v])
    BY <2>1, <2>4, WalkKeepsAll
  <2>7. \A v \in Items : Keeps(workQueue[v], workQueue'[v])
    BY <2>5, <2>6, KeepsIsTransitive
  <2> QED  BY <2>1, <2>7 DEF Quiet
<1>9. ASSUME NEW b \in BeaconIDs, NEW w \in Items, LoseReport(b, w) PROVE Quiet
  BY <1>1, <1>9 DEF LoseReport
<1>10. ASSUME NEW b \in BeaconIDs, NEW w \in Items, UpdateProgress(b, w) PROVE Quiet
  BY <1>6, <1>10 DEF UpdateProgress
<1>11. ASSUME NEW w \in Items, FallSilent(w) PROVE Quiet
  BY <1>6, <1>11 DEF FallSilent
<1> QED
  BY <1>1, <1>2, <1>3, <1>4, <1>5, <1>7, <1>8, <1>9, <1>10, <1>11 
      DEF QuietStep, QuietReport, QuietItemStep, vars
-----------------------------------------------------------------------------
\* Item w ends with the given status, its requester hears reply.
FinishEnds(w, status, reply) ==
  /\ \A v \in Items \ {w} : Keeps(workQueue[v], workQueue'[v])
  /\ workQueue'[w].Request = workQueue[w].Request
  /\ workQueue'[w].Status =
       IF reply \in {"answered", "resumed", "dropped"} THEN "Gone" ELSE status
  /\ Reply(w, reply)

\* completeWorkItem and failWorkItem end their item and no other.
LEMMA FinishEndsItem ==
  ASSUME TypeOK, NEW h, StateTyped(h), h.beacons = beacons, h.queue = workQueue,
         NEW w \in Items, InQueue(w), NEW status \in {"Complete", "Error"}, NEW reply,
         Finish(w, status, reply, h)
  PROVE  FinishEnds(w, status, reply)
<1> DEFINE item == [h.queue[w] EXCEPT !.Status = status, !.LastEventAt = "recent"]
           h2   == [h EXCEPT !.queue[w] = item]
           gone == GoneBy(w, reply)
<1>1. /\ workQueue[w] \in WorkItem /\ workQueue[w].Status # "New"
      /\ workQueue[w].Request \in Requests
      /\ workQueue[w].AssignedBeaconID \in BeaconIDs \cup {None}
  BY DEF TypeOK, InQueue, WorkItem
<1>2. /\ item \in WorkItem /\ item.Status = status
      /\ item.Request = workQueue[w].Request
  BY <1>1 DEF WorkItem
<1>3. RemoveFromBeacon(workQueue[w].AssignedBeaconID, w, h2, gone) /\ Reply(w, reply)
  BY DEF Finish
<1> HIDE DEF item
<1>4. /\ StateTyped(h2) /\ h2.beacons = beacons
      /\ h2.queue = [workQueue EXCEPT ![w] = item]
  BY <1>1, <1>2, WithItemTyped
<1> HIDE DEF h2, gone
<1>5. \A v \in Items :
        /\ workQueue'[v].Request = h2.queue[v].Request
        /\ v \in gone => workQueue'[v].Status = "Gone"
        /\ v \notin gone => Keeps(h2.queue[v], workQueue'[v])
        /\ v \notin gone /\ h2.queue[v].Status \notin {"Assigned", "Pending"}
             => workQueue'[v] = h2.queue[v]
  <2>1. PICK h3, W : StateTyped(h3) /\ h3.queue = h2.queue /\ Walk(h3, W, gone)
    BY <1>1, <1>3, <1>4, RemoveIsWalk
  <2> QED  BY <2>1, WalkKeepsItems
<1>6. /\ gone \subseteq {w}
      /\ w \in gone <=> reply \in {"answered", "resumed", "dropped"}
  BY DEF gone, GoneBy
<1>7. \A v \in Items \ {w} : h2.queue[v] = workQueue[v]
  BY <1>4 DEF TypeOK
<1>8. h2.queue[w] = item
  BY <1>4 DEF TypeOK
<1> QED  BY <1>2, <1>3, <1>5, <1>6, <1>7, <1>8 DEF FinishEnds

\* enqueueWorkItem puts its item on its way and ends none.
LEMMA EnqueueAddsItem ==
  ASSUME TypeOK, NEW w \in Items, NEW r \in Requests, NEW expired \in BOOLEAN,
         EnqueueWorkItem(w, r, expired)
  PROVE  /\ \A v \in Items \ {w} : Keeps(workQueue[v], workQueue'[v])
         /\ workQueue'[w].Request = r /\ workQueue'[w].Status \in Active
         /\ workQueue'[w].Status # "Dispatched"
<1>1. PICK h, item :
        /\ StateTyped(h) /\ h.queue = [workQueue EXCEPT ![w] = item]
        /\ item.Request = r /\ item.Status \in {"Pending", "Assigned"}
        /\ Walk(h, {w}, {})
  BY EnqueueIsWalk
<1>2. \A v \in Items : Keeps(h.queue[v], workQueue'[v])
  BY <1>1, WalkKeepsAll
<1>3. /\ \A v \in Items \ {w} : h.queue[v] = workQueue[v]
      /\ h.queue[w] = item
  BY <1>1 DEF TypeOK
<1>4. Keeps(item, workQueue'[w])
  BY <1>2, <1>3
<1>5. /\ workQueue'[w].Request = r /\ workQueue'[w].Status \in Active
      /\ workQueue'[w].Status # "Dispatched"
  BY <1>1, <1>4 DEF Keeps, Stays, Active
<1> QED  BY <1>2, <1>3, <1>5

-----------------------------------------------------------------------------
\* ToldOnce of one item, with what makes it inductive: waiting, its callback is
\* registered; back, resumeOperation has yet to call back; n, times told.
ToldOf(item, waiting, back, n) ==
  /\ waiting => item.Status # "New" /\ item.Request.For = "http"
  /\ back => /\ item.Status \in {"Complete", "Error"}
             /\ item.Request.For = "operation" /\ n = 1
  /\ item.Status = "New" => n = 0
  /\ item.Status \in Active /\ item.Request.For = "operation" => n = 0
  /\ item.Status # "New" =>
       /\ item.Request.For = "http" => n = IF waiting THEN 0 ELSE 1
       /\ item.Request.For = "operation" => n <= 1 /\ (item.Status = "Gone" => n = 1)
       /\ item.Request.For = "nobody" => n = 0

Told == \A w \in Items :
          ToldOf(workQueue[w], w \in callbacks, w \in resuming, notified[w])

\* What was told of an item stays right while the item stays on its way.
LEMMA StaysTold ==
  ASSUME NEW x, NEW y, Stays(x, y), NEW p, NEW q, NEW n, ToldOf(x, p, q, n)
  PROVE  ToldOf(y, p, q, n)
BY DEF Stays, ToldOf, Active

\* The same for the steps of the coordinator.
LEMMA KeepsTold ==
  ASSUME NEW x, NEW y, Keeps(x, y), NEW p, NEW q, NEW n, ToldOf(x, p, q, n)
  PROVE  ToldOf(y, p, q, n)
BY StaysTold DEF Keeps

\* The inductive strengthening implies the property.
LEMMA ToldImpliesToldOnce == Told => ToldOnce
BY DEF Told, ToldOf, ToldOnce

\* A step that ends no item and tells no one keeps Told.
LEMMA QuietKeepsTold ==
  ASSUME Told, Quiet PROVE Told'
BY KeepsTold DEF Told, Quiet

\* The end of an item by a report or a timeout keeps Told: the item was on
\* its way, so its requester had not been told.
LEMMA FinishKeepsTold ==
  ASSUME TypeOK, Told, NEW w \in Items, InQueue(w), workQueue[w].Status \notin Final,
         NEW status \in {"Complete", "Error"}, NEW reply \in Replies(w),
         FinishEnds(w, status, reply)
  PROVE  Told'
<1>1. /\ workQueue[w].Status \in Active /\ workQueue[w].Request \in Requests
      /\ workQueue[w].Request.For \in {"http", "operation", "nobody"}
  BY RequestsAssumption DEF TypeOK, WorkItem, InQueue, Final, Active, RequestType
<1>2. \A v \in Items \ {w} :
        ToldOf(workQueue'[v], v \in callbacks', v \in resuming', notified'[v])
  <2> SUFFICES ASSUME NEW v \in Items \ {w}
               PROVE  ToldOf(workQueue'[v], v \in callbacks', v \in resuming', notified'[v])
    OBVIOUS
  <2>1. /\ v \in callbacks' <=> v \in callbacks
        /\ v \in resuming' <=> v \in resuming
        /\ notified'[v] = notified[v]
    BY DEF FinishEnds, Reply, TypeOK
  <2>2. ToldOf(workQueue[v], v \in callbacks, v \in resuming, notified[v])
    BY DEF Told
  <2>3. Keeps(workQueue[v], workQueue'[v])
    BY DEF FinishEnds
  <2>4. ToldOf(workQueue'[v], v \in callbacks, v \in resuming, notified[v])
    BY <2>2, <2>3, KeepsTold
  <2> QED  BY <2>1, <2>4 DEF ToldOf
<1>3. ToldOf(workQueue'[w], w \in callbacks', w \in resuming', notified'[w])
  <2>1. ToldOf(workQueue[w], w \in callbacks, w \in resuming, notified[w])
    BY DEF Told
  <2>2. /\ w \notin callbacks'
        /\ w \in resuming' <=> w \in resuming \/ reply = "resuming"
        /\ notified'[w] = IF reply \in {"answered", "resumed", "resuming"}
                          THEN notified[w] + 1 ELSE notified[w]
        /\ notified[w] \in Nat
    BY DEF FinishEnds, Reply, TypeOK
  <2>3. /\ workQueue'[w].Request = workQueue[w].Request
        /\ workQueue'[w].Status =
             IF reply \in {"answered", "resumed", "dropped"} THEN "Gone" ELSE status
    BY DEF FinishEnds
  <2>4. w \notin resuming
    BY <1>1, <2>1 DEF ToldOf, Active
  <2>5. CASE w \in callbacks
    BY <1>1, <2>1, <2>2, <2>3, <2>4, <2>5 DEF ToldOf, Active, Replies
  <2>6. CASE w \notin callbacks
    BY <1>1, <2>1, <2>2, <2>3, <2>4, <2>6 DEF ToldOf, Active, Replies
  <2> QED  BY <2>5, <2>6
<1> QED  BY <1>2, <1>3 DEF Told

\* A new item starts with no one told.
LEMMA EnqueueKeepsTold ==
  ASSUME TypeOK, Told, NEW w \in Items, NEW r \in Requests, NEW expired \in BOOLEAN,
         EnqueueWorkItem(w, r, expired)
  PROVE  Told'
<1>1. /\ workQueue[w].Status = "New" /\ UNCHANGED <<resuming, notified>>
      /\ callbacks' = IF r.For = "http" THEN callbacks \cup {w} ELSE callbacks
  BY DEF EnqueueWorkItem
<1>2. /\ \A v \in Items \ {w} : Keeps(workQueue[v], workQueue'[v])
      /\ workQueue'[w].Request = r /\ workQueue'[w].Status \in Active
  BY EnqueueAddsItem
<1>3. \A v \in Items \ {w} :
        ToldOf(workQueue'[v], v \in callbacks', v \in resuming', notified'[v])
  <2> SUFFICES ASSUME NEW v \in Items \ {w}
               PROVE  ToldOf(workQueue'[v], v \in callbacks', v \in resuming', notified'[v])
    OBVIOUS
  <2>1. v \in callbacks' <=> v \in callbacks
    BY <1>1
  <2>2. ToldOf(workQueue'[v], v \in callbacks, v \in resuming, notified[v])
    BY <1>2, KeepsTold DEF Told
  <2> QED  BY <1>1, <2>1, <2>2 DEF ToldOf
<1>4. ToldOf(workQueue'[w], w \in callbacks', w \in resuming', notified'[w])
  <2>1. ToldOf(workQueue[w], w \in callbacks, w \in resuming, notified[w])
    BY DEF Told
  <2>2. w \notin callbacks /\ w \notin resuming /\ notified[w] = 0
    BY <1>1, <2>1 DEF ToldOf
  <2> QED  BY <1>1, <1>2, <2>2 DEF ToldOf, Active
<1> QED  BY <1>3, <1>4 DEF Told

\* What the timer of a direct dispatch does to the queue.
DirectTimeoutEnds(w) ==
  /\ \A v \in Items \ {w} : Keeps(workQueue[v], workQueue'[v])
  /\ workQueue'[w].Request = workQueue[w].Request
  /\ workQueue'[w].Status \in {workQueue[w].Status, "Gone"}
  /\ InQueue(w) => workQueue'[w].Status = "Gone"

\* The timer of a direct dispatch takes its item out and keeps the others.
LEMMA DirectTimeoutEndsItem ==
  ASSUME TypeOK, NEW w \in Items, DirectDispatchTimeout(w)
  PROVE  DirectTimeoutEnds(w)
<1>1. CASE InQueue(w) /\ RemoveFromBeacon(workQueue[w].AssignedBeaconID, w, Now, {w})
  <2>1. StateTyped(Now) /\ Now.beacons = beacons /\ Now.queue = workQueue
    BY TypeOKParts, NowIsTyped DEF Now
  <2>2. workQueue[w].AssignedBeaconID \in BeaconIDs \cup {None}
    BY DEF TypeOK, WorkItem
  <2> DEFINE gone == {w}
  <2> HIDE DEF gone
  <2>3. RemoveFromBeacon(workQueue[w].AssignedBeaconID, w, Now, gone)
    BY <1>1 DEF gone
  <2>4. \A v \in Items :
          /\ workQueue'[v].Request = Now.queue[v].Request
          /\ v \in gone => workQueue'[v].Status = "Gone"
          /\ v \notin gone => Keeps(Now.queue[v], workQueue'[v])
    BY <2>1, <2>2, <2>3, RemoveKeepsItems
  <2> QED  BY <2>1, <2>4 DEF gone, DirectTimeoutEnds
<1>2. CASE ~InQueue(w) /\ UNCHANGED workQueue
  BY <1>2 DEF DirectTimeoutEnds, Keeps, Stays
<1> QED  BY <1>1, <1>2 DEF DirectDispatchTimeout

\* The timer of a direct dispatch keeps Told: it holds the callback, so its
\* requester had not been told.
LEMMA DirectTimeoutKeepsTold ==
  ASSUME TypeOK, Told, NEW w \in Items, DirectDispatchTimeout(w)
  PROVE  Told'
<1>1. /\ w \in callbacks /\ callbacks' = callbacks \ {w} /\ UNCHANGED resuming
      /\ notified' = [notified EXCEPT ![w] = @ + 1] /\ notified \in [Items -> Nat]
  BY DEF DirectDispatchTimeout, TypeOK
<1>2. DirectTimeoutEnds(w)
  BY DirectTimeoutEndsItem
<1>3. \A v \in Items \ {w} :
        ToldOf(workQueue'[v], v \in callbacks', v \in resuming', notified'[v])
  <2> SUFFICES ASSUME NEW v \in Items \ {w}
               PROVE  ToldOf(workQueue'[v], v \in callbacks', v \in resuming', notified'[v])
    OBVIOUS
  <2>1. (v \in callbacks' <=> v \in callbacks) /\ notified'[v] = notified[v]
    BY <1>1
  <2>2. ToldOf(workQueue'[v], v \in callbacks, v \in resuming, notified[v])
    BY <1>2, KeepsTold DEF Told, DirectTimeoutEnds
  <2> QED  BY <1>1, <2>1, <2>2 DEF ToldOf
<1>4. ToldOf(workQueue'[w], w \in callbacks', w \in resuming', notified'[w])
  <2>1. ToldOf(workQueue[w], w \in callbacks, w \in resuming, notified[w])
    BY DEF Told
  <2>2. w \notin callbacks' /\ notified'[w] = notified[w] + 1
    BY <1>1
  <2> QED  BY <1>1, <1>2, <2>1, <2>2 DEF ToldOf, DirectTimeoutEnds, InQueue, Active
<1> QED  BY <1>3, <1>4 DEF Told

\* The late callback of resumeOperation keeps types and Told: only finished
\* items, of operations already told, are being resumed.
LEMMA ResumedKeepsInvariant ==
  ASSUME TypeOK, Told, NEW w \in Items, OperationResumed(w)
  PROVE  TypeOK' /\ Told'
<1> DEFINE item == [workQueue[w] EXCEPT !.Status = "Gone"]
<1>1. /\ w \in resuming /\ resuming' = resuming \ {w}
      /\ workQueue' = [workQueue EXCEPT ![w] = item]
      /\ UNCHANGED <<beacons, channel, currentWorkItems, bindings, callbacks, up,
                     executions, handOvers, notified>>
  BY DEF OperationResumed
<1>2. ToldOf(workQueue[w], w \in callbacks, w \in resuming, notified[w])
  BY DEF Told
<1>3. /\ workQueue[w] \in WorkItem
      /\ workQueue[w].Status \in {"Complete", "Error"}
      /\ workQueue[w].Request \in Requests
  BY <1>1, <1>2 DEF TypeOK, ToldOf
<1>4. item \in WorkItem /\ item.Status = "Gone" /\ item.Request = workQueue[w].Request
  BY <1>3 DEF WorkItem
<1> HIDE DEF item
<1>5. TypeOK'
  <2>1. executions' \subseteq executions /\ resuming' \subseteq resuming
    BY <1>1
  <2> QED  BY <1>1, <1>3, <1>4, <2>1, ItemChangeKeepsTypes
<1>6. \A v \in Items :
        ToldOf(workQueue'[v], v \in callbacks', v \in resuming', notified'[v])
  <2> SUFFICES ASSUME NEW v \in Items
               PROVE  ToldOf(workQueue'[v], v \in callbacks', v \in resuming', notified'[v])
    OBVIOUS
  <2>1. CASE v = w
    BY <1>1, <1>2, <1>3, <1>4, <2>1 DEF ToldOf, TypeOK, Active
  <2>2. CASE v # w
    <3>1. workQueue'[v] = workQueue[v] /\ (v \in resuming' <=> v \in resuming)
      BY <1>1, <2>2 DEF TypeOK
    <3> QED  BY <1>1, <3>1 DEF Told, ToldOf
  <2> QED  BY <2>1, <2>2
<1> QED  BY <1>5, <1>6 DEF Told
-----------------------------------------------------------------------------
IInv == TypeOK /\ Told

\* The empty hub satisfies the invariant.
LEMMA InitEstablishesInvariant == Init => IInv
<1> SUFFICES ASSUME Init PROVE IInv
  OBVIOUS
<1>1. TypeOK
  BY DEF Init, TypeOK, BeaconRecord, WorkItem, Live, Registered
<1>2. Told
  BY DEF Init, Told, ToldOf, Active
<1> QED  BY <1>1, <1>2 DEF IInv

\* Every step keeps the types.
LEMMA NextKeepsTypes == ASSUME IInv, [Next]_vars PROVE TypeOK'
<1> USE DEF IInv
<1>1. CASE UNCHANGED vars
  BY <1>1 DEF vars, TypeOK, Registered
<1>2. ASSUME NEW n \in Names, RegisterBeacon(n) PROVE TypeOK'
  BY <1>2, BeaconStepKeepsTypes
<1>3. ASSUME NEW b \in BeaconIDs, BeaconStep(b) PROVE TypeOK'
  BY <1>3, BeaconStepKeepsTypes
<1>4. ASSUME NEW k \in Keys, ClearAffinityBinding(k) PROVE TypeOK'
  BY <1>4 DEF ClearAffinityBinding, TypeOK, Registered
<1>5. ASSUME NEW b \in BeaconIDs, NEW w \in Items, ReportStep(b, w) PROVE TypeOK'
  BY <1>5, SmallItemStepKeepsTypes, ReportKeepsTypes DEF ReportStep
<1>6. ASSUME NEW w \in Items, ItemStep(w) PROVE TypeOK'
  <2>1. CASE \E r \in Requests, expired \in BOOLEAN : EnqueueWorkItem(w, r, expired)
    BY <2>1, EnqueueKeepsTypes
  <2>2. CASE TimeOutWorkItem(w) \/ RequeueRetry(w)
    BY <2>2, CheckTimeoutsKeepsTypes
  <2>3. CASE DirectDispatchTimeout(w)
    BY <2>3, DirectTimeoutKeepsTypes
  <2>4. CASE OperationResumed(w)
    BY <2>4, ResumedKeepsInvariant
  <2>5. CASE FallSilent(w)
    BY <2>5, SmallItemStepKeepsTypes
  <2> QED  BY <1>6, <2>1, <2>2, <2>3, <2>4, <2>5 DEF ItemStep
<1> QED  BY <1>1, <1>2, <1>3, <1>4, <1>5, <1>6 DEF Next

\* A report or a timeout ends w.
Finishes(w) ==
  /\ InQueue(w) /\ workQueue[w].Status \notin Final
  /\ \E status \in {"Complete", "Error"}, reply \in Replies(w) :
       FinishEnds(w, status, reply)

\* A report that leaves no attempt finishes its item.
LEMMA ReportFinishesItem ==
  ASSUME TypeOK, NEW b \in BeaconIDs, NEW w \in Items,
         CompleteWorkItem(b, w) \/ (~RetryLeft(w) /\ FailWorkItem(b, w))
  PROVE  Finishes(w)
<1>1. InQueue(w) /\ workQueue[w].Status \notin Final
  BY DEF CompleteWorkItem, FailWorkItem, Accepts
<1>2. PICK status \in {"Complete", "Error"}, reply \in Replies(w) :
        Finish(w, status, reply, Reported(b, w))
  BY DEF CompleteWorkItem, FailWorkItem
<1>3. FinishEnds(w, status, reply)
  BY <1>1, <1>2, ReportedIsTyped, FinishEndsItem
<1> QED  BY <1>1, <1>3 DEF Finishes

\* A timeout that leaves no attempt finishes its item.
LEMMA TimeOutFinishesItem ==
  ASSUME TypeOK, NEW w \in Items, ~RetryLeft(w), TimeOutWorkItem(w)
  PROVE  Finishes(w)
<1>1. InQueue(w) /\ workQueue[w].Status \notin Final
  BY DEF TimeOutWorkItem, InQueue, Final
<1>2. PICK reply \in Replies(w) : Finish(w, "Error", reply, Now)
  BY DEF TimeOutWorkItem
<1>3. StateTyped(Now) /\ Now.beacons = beacons /\ Now.queue = workQueue
  BY TypeOKParts, NowIsTyped DEF Now
<1>4. FinishEnds(w, "Error", reply)
  BY <1>1, <1>2, <1>3, FinishEndsItem
<1> QED  BY <1>1, <1>4 DEF Finishes

\* Every step but four kinds leaves every item on its way or as it was.
LEMMA StepCases ==
  ASSUME TypeOK, [Next]_vars
  PROVE  \/ Quiet
         \/ \E w \in Items, r \in Requests, expired \in BOOLEAN :
              EnqueueWorkItem(w, r, expired)
         \/ \E w \in Items : Finishes(w)
         \/ \E w \in Items : DirectDispatchTimeout(w)
         \/ \E w \in Items : OperationResumed(w)
<1>1. ASSUME QuietStep PROVE Quiet
  BY <1>1, QuietStepKeepsItems
<1>2. CASE UNCHANGED vars
  BY <1>1, <1>2 DEF QuietStep
<1>3. ASSUME NEW n \in Names, RegisterBeacon(n) PROVE Quiet
  BY <1>1, <1>3 DEF QuietStep
<1>4. ASSUME NEW b \in BeaconIDs, BeaconStep(b) PROVE Quiet
  BY <1>1, <1>4 DEF QuietStep
<1>5. ASSUME NEW k \in Keys, ClearAffinityBinding(k) PROVE Quiet
  BY <1>1, <1>5 DEF QuietStep
<1>6. ASSUME NEW b \in BeaconIDs, NEW w \in Items, ReportStep(b, w)
      PROVE  Quiet \/ Finishes(w)
  <2>1. CASE QuietReport(b, w)
    BY <1>1, <2>1 DEF QuietStep
  <2>2. CASE ~QuietReport(b, w)
    <3>1. CompleteWorkItem(b, w) \/ (~RetryLeft(w) /\ FailWorkItem(b, w))
      BY <1>6, <2>2 DEF ReportStep, QuietReport
    <3> QED  BY <3>1, ReportFinishesItem
  <2> QED  BY <2>1, <2>2
<1>7. ASSUME NEW w \in Items, ItemStep(w)
      PROVE  \/ Quiet \/ Finishes(w)
             \/ \E r \in Requests, expired \in BOOLEAN : EnqueueWorkItem(w, r, expired)
             \/ DirectDispatchTimeout(w) \/ OperationResumed(w)
  <2>1. CASE QuietItemStep(w)
    BY <1>1, <2>1 DEF QuietStep
  <2>2. CASE ~RetryLeft(w) /\ TimeOutWorkItem(w)
    BY <2>2, TimeOutFinishesItem
  <2> QED  BY <1>7, <2>1, <2>2 DEF ItemStep, QuietItemStep
<1> QED  BY <1>2, <1>3, <1>4, <1>5, <1>6, <1>7 DEF Next

\* Every step keeps Told.
LEMMA NextKeepsTold == ASSUME IInv, [Next]_vars PROVE Told'
<1> USE DEF IInv
<1>1. ASSUME NEW w \in Items, Finishes(w) PROVE Told'
  BY <1>1, FinishKeepsTold DEF Finishes
<1> QED
  BY <1>1, StepCases, QuietKeepsTold, EnqueueKeepsTold, DirectTimeoutKeepsTold,
     ResumedKeepsInvariant

\* The invariant is inductive.
LEMMA NextKeepsInvariant == IInv /\ [Next]_vars => IInv'
BY NextKeepsTypes, NextKeepsTold DEF IInv

\* No step changes the status of a settled item, except to remove it.
LEMMA NextKeepsFinal ==
  ASSUME IInv, [Next]_vars, NEW v \in Items, Settled(v)
  PROVE  workQueue'[v].Status \in {workQueue[v].Status, "Gone"}
<1>1. TypeOK /\ workQueue[v].Status \notin Active \cup {"New"}
  BY DEF IInv, Settled, Final, Active
<1>2. ASSUME Keeps(workQueue[v], workQueue'[v])
      PROVE  workQueue'[v].Status = workQueue[v].Status
  BY <1>1, <1>2 DEF Keeps, Stays
<1>3. CASE Quiet
  BY <1>2, <1>3 DEF Quiet
<1>4. ASSUME NEW w \in Items, NEW r \in Requests, NEW expired \in BOOLEAN,
             EnqueueWorkItem(w, r, expired)
      PROVE  workQueue'[v].Status = workQueue[v].Status
  BY <1>1, <1>2, <1>4, EnqueueAddsItem DEF EnqueueWorkItem
<1>5. ASSUME NEW w \in Items, Finishes(w)
      PROVE  workQueue'[v].Status = workQueue[v].Status
  <2>1. v # w
    BY <1>5 DEF Finishes, InQueue, Settled
  <2> QED  BY <1>2, <1>5, <2>1 DEF Finishes, FinishEnds
<1>6. ASSUME NEW w \in Items, DirectDispatchTimeout(w)
      PROVE  workQueue'[v].Status \in {workQueue[v].Status, "Gone"}
  BY <1>1, <1>2, <1>6, DirectTimeoutEndsItem DEF DirectTimeoutEnds
<1>7. ASSUME NEW w \in Items, OperationResumed(w)
      PROVE  workQueue'[v].Status \in {workQueue[v].Status, "Gone"}
  <2>1. workQueue' = [workQueue EXCEPT ![w] = [workQueue[w] EXCEPT !.Status = "Gone"]]
    BY <1>7 DEF OperationResumed
  <2>2. [workQueue[w] EXCEPT !.Status = "Gone"].Status = "Gone"
    BY <1>1 DEF TypeOK, WorkItem
  <2> QED  BY <1>1, <2>1, <2>2 DEF TypeOK
<1> QED  BY <1>1, <1>3, <1>4, <1>5, <1>6, <1>7, StepCases

\* No step of the coordinator dispatches.
LEMMA NextDispatchesNone ==
  ASSUME TypeOK, Told, [Next]_vars, NEW v \in Items, workQueue'[v].Status = "Dispatched"
  PROVE  workQueue[v].Status = "Dispatched"
<1>1. CASE Quiet
  BY <1>1 DEF Quiet, Keeps
<1>2. ASSUME NEW w \in Items, NEW r \in Requests, NEW expired \in BOOLEAN,
             EnqueueWorkItem(w, r, expired)
      PROVE  workQueue[v].Status = "Dispatched"
  BY <1>2, EnqueueAddsItem DEF Keeps
<1>3. ASSUME NEW w \in Items, Finishes(w)
      PROVE  workQueue[v].Status = "Dispatched"
  BY <1>3 DEF Finishes, FinishEnds, Keeps
<1>4. ASSUME NEW w \in Items, DirectDispatchTimeout(w)
      PROVE  workQueue[v].Status = "Dispatched"
  BY <1>4, DirectTimeoutEndsItem DEF DirectTimeoutEnds, Keeps
<1>5. ASSUME NEW w \in Items, OperationResumed(w)
      PROVE  workQueue[v].Status = "Dispatched"
  <2>1. workQueue' = [workQueue EXCEPT ![w] = [workQueue[w] EXCEPT !.Status = "Gone"]]
    BY <1>5 DEF OperationResumed
  <2>2. [workQueue[w] EXCEPT !.Status = "Gone"].Status = "Gone"
    BY DEF TypeOK, WorkItem
  <2> QED  BY <2>1, <2>2 DEF TypeOK
<1> QED  BY <1>1, <1>2, <1>3, <1>4, <1>5, StepCases

\* The inductive invariant holds in every reachable state.
THEOREM InvariantHolds == Spec => []IInv
<1> QED  BY InitEstablishesInvariant, NextKeepsInvariant, PTL DEF Spec

\* Type correctness of the hub, for any number of items, beacons and names.
THEOREM TypesHold == Spec => []TypeOK
<1>1. IInv => TypeOK
  BY DEF IInv
<1> QED  BY <1>1, InvariantHolds, PTL

\* Whatever the order of reports, timers, retries, polls, pushes and
\* departing beacons, the requester of an item is told its end at most once,
\* and an HTTP requester or operation whose item left the queue was told.
THEOREM RequestersAreToldOnce == Spec => []ToldOnce
<1>1. IInv => ToldOnce
  BY ToldImpliesToldOnce DEF IInv
<1> QED  BY <1>1, InvariantHolds, PTL

\* No late report, timer, release or walk of the queue reopens an item that
\* is finished or gone.
THEOREM FinishedStaysFinished == Spec => FinalIsFinal
<1>1. IInv /\ [Next]_vars =>
        [\A w \in Items : Settled(w) =>
           workQueue'[w].Status \in {workQueue[w].Status, "Gone"}]_vars
  BY NextKeepsFinal
<1> QED  BY <1>1, InvariantHolds, PTL DEF Spec, FinalIsFinal

-----------------------------------------------------------------------------
(***************************************************************************)
(* BeaconCoordinator implements WorkDispatch.                              *)
(*                                                                         *)
(* StepCases (above) says what a step does to the phases of the items and  *)
(* to those who are told; here it is joined with what a step does to       *)
(* handOvers: only a walk of the queue and a poll hand out, and only items *)
(* that are on their way (HandsOut).                                       *)
(***************************************************************************)

\* Some items of W are handed out, each of them once.
HandsOut(W) ==
  \A v \in Items : handOvers'[v] # handOvers[v]
                     => v \in W /\ handOvers'[v] = handOvers[v] + 1

OnTheirWay == {v \in Items : workQueue[v].Status \in Active}

\* A walk hands out assigned and pending items of those it walks.
LEMMA WalkHandsOut ==
  ASSUME NEW h, NEW W, NEW gone, Walk(h, W, gone)
  PROVE  HandsOut({v \in Items : v \in W /\ h.queue[v].Status \in {"Assigned", "Pending"}})
<1> DEFINE D == W \cap (Held(h) \cup Parked(h))
<1>1. PICK push \in [D -> BeaconIDs \cup {None}] :
         handOvers' = [v \in Items |-> IF v \in DOMAIN push /\ push[v] # None
                                       THEN handOvers[v] + 1 ELSE handOvers[v]]
  BY DEF Walk
<1>2. \A v \in D : v \in W /\ h.queue[v].Status \in {"Assigned", "Pending"}
  BY DEF Held, Parked
<1>3. DOMAIN push = D
  OBVIOUS
<1> HIDE DEF D
<1> QED  BY <1>1, <1>2, <1>3 DEF HandsOut

\* The walk that ends _removeWorkItemFromBeacon, with one item changed before so
\* that it is not walked.
LEMMA RemoveHandsOut ==
  ASSUME NEW h, NEW w \in Items, NEW b \in BeaconIDs \cup {None}, NEW gone,
         StateTyped(h), h.beacons = beacons, RemoveFromBeacon(b, w, h, gone),
         \A v \in Items : h.queue[v].Status \in {"Assigned", "Pending"}
                            => workQueue[v].Status \in Active
  PROVE  HandsOut(OnTheirWay)
<1>1. PICK h2, W : h2.queue = h.queue /\ Walk(h2, W, gone)
  BY RemoveIsWalk
<1>2. HandsOut({v \in Items : v \in W /\ h2.queue[v].Status \in {"Assigned", "Pending"}})
  BY <1>1, WalkHandsOut
<1> QED  BY <1>1, <1>2 DEF HandsOut, OnTheirWay

\* The end of an item frees its slot, and hands out others.
LEMMA FinishHandsOut ==
  ASSUME TypeOK, NEW h, StateTyped(h), h.beacons = beacons, h.queue = workQueue,
         NEW w \in Items, InQueue(w), NEW status \in {"Complete", "Error"}, NEW reply,
         Finish(w, status, reply, h)
  PROVE  HandsOut(OnTheirWay)
<1> DEFINE item == [h.queue[w] EXCEPT !.Status = status, !.LastEventAt = "recent"]
           h2   == [h EXCEPT !.queue[w] = item]
<1>1. /\ workQueue[w] \in WorkItem /\ workQueue[w].Request \in Requests
      /\ workQueue[w].AssignedBeaconID \in BeaconIDs \cup {None}
  BY DEF TypeOK, InQueue, WorkItem
<1>2. item \in WorkItem /\ item.Status = status /\ item.Request \in Requests
  BY <1>1 DEF WorkItem
<1>3. RemoveFromBeacon(workQueue[w].AssignedBeaconID, w, h2, GoneBy(w, reply))
  BY DEF Finish
<1> HIDE DEF item
<1>4. /\ StateTyped(h2) /\ h2.beacons = beacons
      /\ h2.queue = [workQueue EXCEPT ![w] = item]
  BY <1>2, WithItemTyped
<1> HIDE DEF h2
<1>5. \A v \in Items : h2.queue[v].Status \in {"Assigned", "Pending"}
                         => workQueue[v].Status \in Active
  BY <1>2, <1>4 DEF TypeOK, Active
<1> QED  BY <1>1, <1>3, <1>4, <1>5, RemoveHandsOut

\* Scheduling a retry hands out nothing but what was on its way.
LEMMA RetryHandsOut ==
  ASSUME TypeOK, NEW h, StateTyped(h), h.beacons = beacons, h.queue = workQueue,
         NEW w \in Items, InQueue(w), ScheduleRetry(w, h)
  PROVE  HandsOut(OnTheirWay)
<1> DEFINE item == [h.queue[w] EXCEPT !.Status = "RetryScheduled",
                                      !.AttemptNumber = @ + 1,
                                      !.AssignedBeaconID = None]
           h2   == [h EXCEPT !.queue[w] = item]
<1>1. workQueue[w] \in WorkItem /\ workQueue[w].Request \in Requests
  BY DEF TypeOK, InQueue
<1>2. /\ item \in WorkItem /\ item.Status = "RetryScheduled"
      /\ item.AssignedBeaconID = None /\ item.Request \in Requests
  BY <1>1, RetryTyped
<1>3. RemoveFromBeacon(item.AssignedBeaconID, w, h2, {})
  BY DEF ScheduleRetry
<1> HIDE DEF item
<1>4. /\ StateTyped(h2) /\ h2.beacons = beacons
      /\ h2.queue = [workQueue EXCEPT ![w] = item]
  BY <1>2, WithItemTyped
<1> HIDE DEF h2
<1>5. \A v \in Items : h2.queue[v].Status \in {"Assigned", "Pending"}
                         => workQueue[v].Status \in Active
  BY <1>2, <1>4 DEF TypeOK, Active
<1> QED  BY <1>2, <1>3, <1>4, <1>5, RemoveHandsOut

\* completeWorkItem and failWorkItem.
LEMMA ReportHandsOut ==
  ASSUME TypeOK, NEW b \in BeaconIDs, NEW w \in Items, ReportStep(b, w)
  PROVE  HandsOut(OnTheirWay)
<1>1. /\ StateTyped(Reported(b, w))
      /\ Reported(b, w).beacons = beacons /\ Reported(b, w).queue = workQueue
  BY ReportedIsTyped
<1>2. CASE CompleteWorkItem(b, w)
  BY <1>1, <1>2, FinishHandsOut DEF CompleteWorkItem, Accepts
<1>3. CASE FailWorkItem(b, w)
  BY <1>1, <1>3, FinishHandsOut, RetryHandsOut DEF FailWorkItem, Accepts
<1>4. CASE LoseReport(b, w) \/ UpdateProgress(b, w)
  BY <1>4 DEF LoseReport, UpdateProgress, HandsOut
<1> QED  BY <1>2, <1>3, <1>4 DEF ReportStep

\* The timers, and the callback of resumeOperation.
LEMMA TimerHandsOut ==
  ASSUME TypeOK, NEW w \in Items,
         \/ TimeOutWorkItem(w) \/ RequeueRetry(w) \/ DirectDispatchTimeout(w)
         \/ OperationResumed(w) \/ FallSilent(w)
  PROVE  HandsOut(OnTheirWay)
<1>1. StateTyped(Now) /\ Now.beacons = beacons /\ Now.queue = workQueue
  BY TypeOKParts, NowIsTyped DEF Now
<1>2. CASE TimeOutWorkItem(w)
  <2>1. InQueue(w)
    BY <1>2 DEF TimeOutWorkItem, InQueue
  <2> QED  BY <1>1, <1>2, <2>1, FinishHandsOut, RetryHandsOut DEF TimeOutWorkItem
<1>3. CASE RequeueRetry(w)
  <2> DEFINE item == [workQueue[w] EXCEPT !.Status = "Pending"]
             h2   == [Now EXCEPT !.queue[w] = item]
             W    == {w}
  <2>1. workQueue[w].Status = "RetryScheduled" /\ Walk(h2, W, {})
    BY <1>3 DEF RequeueRetry
  <2> HIDE DEF h2, W
  <2>2. HandsOut({v \in Items : v \in W /\ h2.queue[v].Status \in {"Assigned", "Pending"}})
    BY <2>1, WalkHandsOut
  <2> QED  BY <2>1, <2>2 DEF HandsOut, OnTheirWay, Active, W
<1>4. CASE DirectDispatchTimeout(w)
  <2>1. workQueue[w].AssignedBeaconID \in BeaconIDs \cup {None}
    BY DEF TypeOK, WorkItem
  <2>2. \A v \in Items : Now.queue[v].Status \in {"Assigned", "Pending"}
                           => workQueue[v].Status \in Active
    BY <1>1 DEF Active
  <2>3. CASE RemoveFromBeacon(workQueue[w].AssignedBeaconID, w, Now, {w})
    BY <1>1, <2>1, <2>2, <2>3, RemoveHandsOut
  <2>4. CASE UNCHANGED handOvers
    BY <2>4 DEF HandsOut
  <2> QED  BY <1>4, <2>3, <2>4 DEF DirectDispatchTimeout
<1>5. CASE OperationResumed(w) \/ FallSilent(w)
  BY <1>5 DEF OperationResumed, FallSilent, HandsOut
<1> QED  BY <1>2, <1>3, <1>4, <1>5

\* What beacons do: only a poll hands out, and one item.
LEMMA BeaconHandsOut ==
  ASSUME TypeOK, NEW b \in BeaconIDs, BeaconStep(b) PROVE HandsOut(OnTheirWay)
<1>1. ASSUME NEW w \in Items, workQueue[w].Status \in Active, HandToPoller(b, w)
      PROVE  HandsOut(OnTheirWay)
  <2>1. handOvers' = [handOvers EXCEPT ![w] = @ + 1] /\ handOvers \in [Items -> Nat]
    BY <1>1 DEF HandToPoller, TypeOK
  <2> QED  BY <1>1, <2>1 DEF HandsOut, OnTheirWay
<1>2. CASE PollAssigned(b)
  <2>1. First(AssignedTo(b)) \in AssignedTo(b)
    BY <1>2, BoundsAreNat, FirstIsMember DEF PollAssigned, AssignedTo
  <2> QED  BY <1>1, <1>2, <2>1 DEF PollAssigned, AssignedTo, Active
<1>3. CASE PollPending(b)
  <2>1. First(ClaimableBy(b)) \in ClaimableBy(b)
    BY <1>3, BoundsAreNat, FirstIsMember DEF PollPending, ClaimableBy
  <2> QED  BY <1>1, <1>3, <2>1 DEF PollPending, ClaimableBy, Active
<1>4. CASE DeregisterBeacon(b) \/ CloseSocket(b) \/ Heartbeat(b) \/ MissHeartbeat(b)
  BY <1>4 DEF DeregisterBeacon, CloseSocket, Heartbeat, MissHeartbeat, SetBeaconStatus,
              HandsOut
<1> QED  BY <1>2, <1>3, <1>4 DEF BeaconStep

\* An accepted item may be handed out at once; no other is.
LEMMA EnqueueHandsOut ==
  ASSUME TypeOK, NEW w \in Items, NEW r \in Requests, NEW expired \in BOOLEAN,
         EnqueueWorkItem(w, r, expired)
  PROVE  HandsOut({w})
<1> DEFINE W == {w}
<1>1. PICK h : Walk(h, W, {})
  BY EnqueueIsWalk
<1> HIDE DEF W
<1>2. HandsOut({v \in Items : v \in W /\ h.queue[v].Status \in {"Assigned", "Pending"}})
  BY <1>1, WalkHandsOut
<1> QED  BY <1>2 DEF HandsOut, W

\* Every step but an enqueue hands out only what was on its way.
LEMMA NextHandsOut ==
  ASSUME TypeOK, [Next]_vars,
         ~ \E w \in Items, r \in Requests, expired \in BOOLEAN :
             EnqueueWorkItem(w, r, expired)
  PROVE  HandsOut(OnTheirWay)
<1>1. CASE UNCHANGED vars
  BY <1>1 DEF vars, HandsOut
<1>2. ASSUME NEW n \in Names, RegisterBeacon(n) PROVE HandsOut(OnTheirWay)
  BY <1>2 DEF RegisterBeacon, HandsOut
<1>3. ASSUME NEW k \in Keys, ClearAffinityBinding(k) PROVE HandsOut(OnTheirWay)
  BY <1>3 DEF ClearAffinityBinding, HandsOut
<1>4. ASSUME NEW w \in Items, ItemStep(w) PROVE HandsOut(OnTheirWay)
  BY <1>4, TimerHandsOut DEF ItemStep
<1> QED  BY <1>1, <1>2, <1>3, <1>4, BeaconHandsOut, ReportHandsOut DEF Next

-----------------------------------------------------------------------------
\* The phase of an item follows from whether it is on its way.
LEMMA PhaseOfStatus ==
  ASSUME NEW w, workQueue[w] \in WorkItem
  PROVE  /\ Phase(w) = "new" <=> workQueue[w].Status = "New"
         /\ Phase(w) = "open" <=> workQueue[w].Status \in Active
         /\ Phase(w) \in {"new", "open", "over"}
BY DEF Phase, Settled, Final, WorkItem, Active

\* The same of the next state.
LEMMA PhaseOfStatusPrime ==
  ASSUME NEW w, workQueue'[w] \in WorkItem
  PROVE  /\ Phase(w)' = "new" <=> workQueue'[w].Status = "New"
         /\ Phase(w)' = "open" <=> workQueue'[w].Status \in Active
         /\ Phase(w)' \in {"new", "open", "over"}
BY DEF Phase, Settled, Final, WorkItem, Active

asked == [w \in Items |-> workQueue[w].Request]
phase == [w \in Items |-> Phase(w)]

\* An item that is kept is in the same phase, with the same request.
LEMMA KeepsPhase ==
  ASSUME NEW w \in Items, TypeOK, TypeOK', Keeps(workQueue[w], workQueue'[w])
  PROVE  phase'[w] = phase[w] /\ asked'[w] = asked[w]
<1>1. workQueue[w] \in WorkItem /\ workQueue'[w] \in WorkItem
  BY DEF TypeOK
<1>2. phase[w] = Phase(w) /\ phase'[w] = Phase(w)' /\ asked'[w] = asked[w]
  BY DEF phase, asked, Keeps, Stays
<1>3. Phase(w)' = Phase(w)
  BY <1>1, PhaseOfStatus, PhaseOfStatusPrime DEF Keeps, Stays, Active
<1> QED  BY <1>2, <1>3

\* The hand-overs of a step, as WorkDispatch has them.
LEMMA HandsOutIsHandOver ==
  ASSUME TypeOK, TypeOK', NEW W, HandsOut(W) PROVE Promise!HandOver(W)
BY DEF Promise!HandOver, HandsOut, TypeOK

\* The open items of WorkDispatch are those on their way.
LEMMA OpenIsOnTheirWay == ASSUME TypeOK PROVE Promise!Open = OnTheirWay
<1>1. \A w \in Items : Phase(w) = "open" <=> workQueue[w].Status \in Active
  BY PhaseOfStatus DEF TypeOK
<1> QED  BY <1>1 DEF Promise!Open, OnTheirWay

\* The empty hub is the empty service.
LEMMA InitImplements == Init => Promise!Init
<1> SUFFICES ASSUME Init PROVE Promise!Init
  OBVIOUS
<1>1. \A w \in Items : workQueue[w].Status = "New" /\ workQueue[w].Request = None
  BY DEF Init
<1>2. ASSUME NEW w \in Items PROVE Phase(w) = "new"
  BY <1>1, <1>2 DEF Phase, Settled, Final
<1>3. notified = [w \in Items |-> 0] /\ handOvers = [w \in Items |-> 0]
  BY DEF Init
<1>4. asked = [w \in Items |-> None]
  BY <1>1 DEF asked
<1>5. phase = [w \in Items |-> "new"]
  BY <1>2 DEF phase
<1> QED  BY <1>3, <1>4, <1>5 DEF Promise!Init, asked, phase

\* A step that ends no item is a Dispatch.
LEMMA QuietImplements ==
  ASSUME TypeOK, TypeOK', Quiet, HandsOut(OnTheirWay)
  PROVE  Promise!Dispatch
<1>1. phase' = phase /\ asked' = asked
  BY KeepsPhase DEF Quiet, phase, asked
<1>2. Promise!HandOver(Promise!Open)
  BY HandsOutIsHandOver, OpenIsOnTheirWay
<1> QED  BY <1>1, <1>2 DEF Promise!Dispatch, Quiet, phase, asked

\* enqueueWorkItem is an Accept.
LEMMA EnqueueImplements ==
  ASSUME TypeOK, TypeOK', NEW w \in Items, NEW r \in Requests, NEW expired \in BOOLEAN,
         EnqueueWorkItem(w, r, expired)
  PROVE  Promise!Accept(w, r)
<1>1. /\ \A v \in Items \ {w} : Keeps(workQueue[v], workQueue'[v])
      /\ workQueue'[w].Request = r /\ workQueue'[w].Status \in Active
  BY EnqueueAddsItem
<1>2. workQueue[w].Status = "New" /\ UNCHANGED notified
  BY DEF EnqueueWorkItem
<1>3. \A v \in Items \ {w} : phase'[v] = phase[v] /\ asked'[v] = asked[v]
  BY <1>1, KeepsPhase
<1>4. Phase(w) = "new" /\ Phase(w)' = "open"
  <2>1. workQueue[w] \in WorkItem /\ workQueue'[w] \in WorkItem
    BY DEF TypeOK
  <2> QED  BY <1>1, <1>2, <2>1, PhaseOfStatus, PhaseOfStatusPrime
<1>5. phase' = [phase EXCEPT ![w] = "open"] /\ asked' = [asked EXCEPT ![w] = r]
  BY <1>1, <1>3, <1>4 DEF phase, asked
<1>6. Promise!HandOver({w})
  BY EnqueueHandsOut, HandsOutIsHandOver
<1> QED  BY <1>2, <1>4, <1>5, <1>6 DEF Promise!Accept, phase, asked

\* An item ends, with what its requester hears of it.
LEMMA EndImplements ==
  ASSUME TypeOK, TypeOK', NEW w \in Items, workQueue[w].Status \in Active,
         \A v \in Items \ {w} : Keeps(workQueue[v], workQueue'[v]),
         workQueue'[w].Request = workQueue[w].Request,
         workQueue'[w].Status \in Final \cup {"Gone"},
         \/ /\ workQueue[w].Request.For \in {"http", "operation"}
            /\ notified' = [notified EXCEPT ![w] = @ + 1]
         \/ workQueue[w].Request.For # "http" /\ UNCHANGED notified,
         HandsOut(OnTheirWay)
  PROVE  Promise!End(w)
<1>1. \A v \in Items \ {w} : phase'[v] = phase[v] /\ asked'[v] = asked[v]
  BY KeepsPhase
<1>2. Phase(w) = "open" /\ Phase(w)' = "over"
  <2>1. workQueue[w] \in WorkItem /\ workQueue'[w] \in WorkItem
    BY DEF TypeOK
  <2>2. workQueue'[w].Status \notin Active \cup {"New"}
    BY DEF Final, Active
  <2> QED  BY <2>1, <2>2, PhaseOfStatus, PhaseOfStatusPrime
<1>3. phase' = [phase EXCEPT ![w] = "over"] /\ asked' = asked
  BY <1>1, <1>2 DEF phase, asked
<1>4. Promise!HandOver(Promise!Open)
  BY HandsOutIsHandOver, OpenIsOnTheirWay
<1> QED  BY <1>2, <1>3, <1>4 DEF Promise!End, phase, asked

-----------------------------------------------------------------------------
\* An HTTP requester has its callback exactly as long as its item is on its way.
Awaited ==
  \A w \in Items : w \in callbacks <=>
    workQueue[w].Status \in Active /\ workQueue[w].Request.For = "http"

\* No one waits in the empty hub.
LEMMA InitAwaited == Init => Awaited
<1> SUFFICES ASSUME Init PROVE Awaited
  OBVIOUS
<1>1. callbacks = {} /\ \A w \in Items : workQueue[w].Status = "New"
  BY DEF Init
<1> QED  BY <1>1 DEF Awaited, Active

\* A kept item is awaited as before.
LEMMA KeepsAwaited ==
  ASSUME Awaited, NEW w \in Items, Keeps(workQueue[w], workQueue'[w]),
         w \in callbacks' <=> w \in callbacks
  PROVE  w \in callbacks' <=>
           workQueue'[w].Status \in Active /\ workQueue'[w].Request.For = "http"
BY DEF Awaited, Keeps, Stays

\* Every step keeps the callbacks of the items on their way, and no others.
LEMMA NextKeepsAwaited == ASSUME IInv, Awaited, [Next]_vars PROVE Awaited'
<1> USE DEF IInv
<1>1. CASE Quiet
  BY <1>1, KeepsAwaited DEF Quiet, Awaited
<1>2. ASSUME NEW w \in Items, NEW r \in Requests, NEW expired \in BOOLEAN,
             EnqueueWorkItem(w, r, expired)
      PROVE  Awaited'
  <2>1. /\ \A v \in Items \ {w} : Keeps(workQueue[v], workQueue'[v])
        /\ workQueue'[w].Request = r /\ workQueue'[w].Status \in Active
    BY <1>2, EnqueueAddsItem
  <2>2. /\ workQueue[w].Status = "New"
        /\ callbacks' = IF r.For = "http" THEN callbacks \cup {w} ELSE callbacks
    BY <1>2 DEF EnqueueWorkItem
  <2>3. w \notin callbacks
    BY <2>2 DEF Awaited, Active
  <2>4. \A v \in Items \ {w} : v \in callbacks' <=> v \in callbacks
    BY <2>2
  <2>5. \A v \in Items \ {w} : v \in callbacks' <=>
          workQueue'[v].Status \in Active /\ workQueue'[v].Request.For = "http"
    BY <2>1, <2>4, KeepsAwaited
  <2>6. w \in callbacks' <=> r.For = "http"
    BY <2>2, <2>3
  <2> QED  BY <2>1, <2>5, <2>6 DEF Awaited
<1>3. ASSUME NEW w \in Items, callbacks' = callbacks \ {w},
             \A v \in Items \ {w} : Keeps(workQueue[v], workQueue'[v]),
             workQueue'[w].Status \notin Active
      PROVE  Awaited'
  BY <1>3, KeepsAwaited DEF Awaited
<1>4. ASSUME NEW w \in Items, Finishes(w) PROVE Awaited'
  <2>1. PICK status \in {"Complete", "Error"}, reply \in Replies(w) :
          FinishEnds(w, status, reply)
    BY <1>4 DEF Finishes
  <2> QED  BY <1>3, <2>1 DEF FinishEnds, Reply, Active
<1>5. ASSUME NEW w \in Items, DirectDispatchTimeout(w) PROVE Awaited'
  <2>1. w \in callbacks /\ callbacks' = callbacks \ {w}
    BY <1>5 DEF DirectDispatchTimeout
  <2>2. InQueue(w)
    BY <2>1 DEF Awaited, InQueue, Active
  <2> QED  BY <1>3, <1>5, <2>1, <2>2, DirectTimeoutEndsItem DEF DirectTimeoutEnds, Active
<1>6. ASSUME NEW w \in Items, OperationResumed(w) PROVE Awaited'
  <2> DEFINE item == [workQueue[w] EXCEPT !.Status = "Gone"]
  <2>1. /\ w \in resuming /\ UNCHANGED callbacks
        /\ workQueue' = [workQueue EXCEPT ![w] = item]
    BY <1>6 DEF OperationResumed
  <2>2. workQueue[w] \in WorkItem /\ workQueue[w].Status \in {"Complete", "Error"}
    BY <2>1 DEF TypeOK, Told, ToldOf
  <2>3. item.Status = "Gone"
    BY <2>2 DEF WorkItem
  <2> HIDE DEF item
  <2>4. w \notin callbacks
    BY <2>2 DEF Awaited, Active
  <2>5. /\ \A v \in Items \ {w} : workQueue'[v] = workQueue[v]
        /\ workQueue'[w] = item
    BY <2>1 DEF TypeOK
  <2>6. \A v \in Items \ {w} : Keeps(workQueue[v], workQueue'[v])
    BY <2>5 DEF Keeps, Stays
  <2> QED  BY <1>3, <2>1, <2>3, <2>4, <2>5, <2>6 DEF Active
<1> QED  BY <1>1, <1>2, <1>4, <1>5, <1>6, StepCases

-----------------------------------------------------------------------------
\* A report or a timeout that ends an item is an End.
LEMMA FinishImplements ==
  ASSUME TypeOK, TypeOK', Awaited, NEW w \in Items, Finishes(w), HandsOut(OnTheirWay)
  PROVE  Promise!End(w)
<1>1. PICK status \in {"Complete", "Error"}, reply \in Replies(w) :
        FinishEnds(w, status, reply)
  BY DEF Finishes
<1>2. /\ workQueue[w].Status \in Active /\ workQueue[w].Request \in Requests
      /\ workQueue[w].Request.For \in {"http", "operation", "nobody"}
  BY RequestsAssumption DEF Finishes, TypeOK, WorkItem, InQueue, Final, Active, RequestType
<1>3. w \in callbacks <=> workQueue[w].Request.For = "http"
  BY <1>2 DEF Awaited
<1>4. \/ /\ workQueue[w].Request.For \in {"http", "operation"}
         /\ notified' = [notified EXCEPT ![w] = @ + 1]
      \/ workQueue[w].Request.For # "http" /\ UNCHANGED notified
  BY <1>1, <1>2, <1>3 DEF FinishEnds, Reply, Replies
<1>5. workQueue'[w].Status \in Final \cup {"Gone"}
  BY <1>1 DEF FinishEnds, Final
<1> QED  BY <1>1, <1>2, <1>4, <1>5, EndImplements DEF FinishEnds

\* The timer of a direct dispatch is an End.
LEMMA DirectTimeoutImplements ==
  ASSUME TypeOK, TypeOK', Awaited, NEW w \in Items, DirectDispatchTimeout(w),
         HandsOut(OnTheirWay)
  PROVE  Promise!End(w)
<1>1. w \in callbacks /\ notified' = [notified EXCEPT ![w] = @ + 1]
  BY DEF DirectDispatchTimeout
<1>2. workQueue[w].Status \in Active /\ workQueue[w].Request.For = "http"
  BY <1>1 DEF Awaited
<1>3. DirectTimeoutEnds(w) /\ InQueue(w)
  BY <1>2, DirectTimeoutEndsItem DEF InQueue, Active
<1>4. workQueue'[w].Status \in Final \cup {"Gone"}
  BY <1>3 DEF DirectTimeoutEnds
<1> QED  BY <1>1, <1>2, <1>3, <1>4, EndImplements DEF DirectTimeoutEnds

\* The late callback of resumeOperation changes nothing its requester knows.
LEMMA ResumedImplements ==
  ASSUME TypeOK, TypeOK', Told, NEW w \in Items, OperationResumed(w)
  PROVE  UNCHANGED <<asked, phase, notified, handOvers>>
<1> DEFINE item == [workQueue[w] EXCEPT !.Status = "Gone"]
<1>1. /\ w \in resuming /\ workQueue' = [workQueue EXCEPT ![w] = item]
      /\ UNCHANGED <<notified, handOvers>>
  BY DEF OperationResumed
<1>2. workQueue[w] \in WorkItem /\ workQueue[w].Status \in {"Complete", "Error"}
  BY <1>1 DEF TypeOK, Told, ToldOf
<1>3. item.Status = "Gone" /\ item.Request = workQueue[w].Request
  BY <1>2 DEF WorkItem
<1> HIDE DEF item
<1>4. \A v \in Items : v # w => workQueue'[v] = workQueue[v]
  BY <1>1 DEF TypeOK
<1>5. workQueue'[w] = item
  BY <1>1 DEF TypeOK
<1>6. \A v \in Items : /\ workQueue'[v].Request = workQueue[v].Request
                       /\ Phase(v)' = Phase(v)
  <2>1. Phase(w)' = Phase(w)
    BY <1>2, <1>3, <1>5 DEF Phase, Settled, Final
  <2>2. \A v \in Items : v # w => Phase(v)' = Phase(v)
    BY <1>4 DEF Phase, Settled
  <2> QED  BY <1>3, <1>4, <1>5, <2>1, <2>2
<1> QED  BY <1>1, <1>6 DEF asked, phase

\* Every step is a step of WorkDispatch or changes nothing it has.
LEMMA NextImplements ==
  ASSUME IInv, TypeOK', Awaited, [Next]_vars
  PROVE  Promise!Next \/ UNCHANGED <<asked, phase, notified, handOvers>>
<1> USE DEF IInv
<1>1. ASSUME NEW w \in Items, NEW r \in Requests, NEW expired \in BOOLEAN,
             EnqueueWorkItem(w, r, expired)
      PROVE  Promise!Next
  BY <1>1, EnqueueImplements DEF Promise!Next
<1>2. CASE ~ \E w \in Items, r \in Requests, expired \in BOOLEAN :
               EnqueueWorkItem(w, r, expired)
  <2>1. HandsOut(OnTheirWay)
    BY <1>2, NextHandsOut
  <2>2. CASE Quiet
    BY <2>1, <2>2, QuietImplements DEF Promise!Next
  <2>3. ASSUME NEW w \in Items, Finishes(w) \/ DirectDispatchTimeout(w)
        PROVE  Promise!Next
    BY <2>1, <2>3, FinishImplements, DirectTimeoutImplements DEF Promise!Next
  <2> QED  BY <1>2, <2>2, <2>3, ResumedImplements, StepCases
<1> QED  BY <1>1, <1>2

\* The hub's queue implements the service its requesters see, for any numbers of
\* items, beacons, names and keys: whatever reports, timers, retries, departures
\* and walks of the queue do, an item ends once, in the step that tells its
\* requester, and reaches no beacon afterwards.
THEOREM CoordinatorImplementsWorkDispatch == Spec => ImplementsWorkDispatch
<1>1. Init => Promise!Init /\ IInv /\ Awaited
  BY InitImplements, InitEstablishesInvariant, InitAwaited
<1>2. IInv /\ Awaited /\ [Next]_vars => IInv' /\ Awaited'
  BY NextKeepsInvariant, NextKeepsAwaited
<1>3. IInv /\ IInv' /\ Awaited /\ [Next]_vars => [Promise!Next]_(Promise!dispatchVars)
  BY NextImplements DEF IInv, Promise!dispatchVars, asked, phase
<1> QED  BY <1>1, <1>2, <1>3, PTL DEF Spec, ImplementsWorkDispatch, Promise!Spec

==============================================================================
