------------------------ MODULE QueuePersistence_proofs ------------------------
(***************************************************************************)
(* RequestsFindTheirTables, MarkPassesNothing and TypeOK of                *)
(* QueuePersistence, for any number of items, of rows in a batch, of       *)
(* registrations and of connections.                                       *)
(*                                                                         *)
(* Ready: the connections named by the endpoints of a BeaconID that counts *)
(* as bootstrapped are prepared, and so is the connection of a bootstrap   *)
(* that has come to its last step.  An assignment that changes meanwhile   *)
(* drops a BeaconID from the bootstrapped ones with its endpoints, never   *)
(* the endpoints alone.                                                    *)
(*                                                                         *)
(* QInv: a batch is read once and closed downwards, so the rows a sweep    *)
(* has left contain, with a row, those of all the local items between the  *)
(* mark and it (Closed); the one answer a sweep waits for is that of its   *)
(* first row (Sending); and a mark is the EnqueuedAt of a row the queue    *)
(* beacon has (Marked), which is what covers an item that is enqueued      *)
(* later in the very millisecond of the mark.                              *)
(***************************************************************************)
EXTENDS QueuePersistence, TLAPS, NaturalsInduction, WellFoundedInduction,
        FiniteSetTheorems, FunctionTheorems

Typed ==
  /\ dataIDs \in 0 .. MaxDataIDs /\ dataID \in (1 .. dataIDs) \cup {None}
  /\ assigned \in [id : 1 .. dataIDs, to : Connections] \cup {None}
  /\ bootstrap \in [DataIDs -> [to : Connections, enabling : BOOLEAN] \cup {None}]
  /\ \A b \in DataIDs : bootstrap[b] # None => b \in 1 .. dataIDs
  /\ endpoints \in [DataIDs -> (SUBSET Connections) \cup {None}]
  /\ bootstrapped \subseteq 1 .. dataIDs /\ prepared \subseteq Connections

\* The endpoints of the BeaconID b are known and their connections prepared.
Served(b) == endpoints[b] \notin {None, {}} /\ endpoints[b] \subseteq prepared

Ready ==
  /\ \A b \in bootstrapped : Served(b)
  /\ \A b \in DataIDs :
       bootstrap[b] # None /\ bootstrap[b].enabling => bootstrap[b].to \in prepared

IInv == Typed /\ Ready

\* Nothing is bootstrapped at first.
LEMMA InitReady ==
  ASSUME Init
  PROVE  IInv
BY BoundsAssumption DEF Init, IInv, Typed, Ready

\* A step that touches neither bootstraps nor assignments.
LEMMA OthersKeep ==
  ASSUME IInv, UNCHANGED <<assigned, bootstrap, endpoints, bootstrapped, prepared>>,
         dataIDs' \in dataIDs .. MaxDataIDs, dataID' \in (1 .. dataIDs') \cup {None}
  PROVE  IInv'
<1>1. dataIDs' \in 0 .. MaxDataIDs /\ 1 .. dataIDs \subseteq 1 .. dataIDs'
  BY BoundsAssumption DEF IInv, Typed
<1>2. Typed'
  BY <1>1 DEF IInv, Typed
<1>3. Ready'
  BY <1>1 DEF IInv, Ready, Served
<1> QED  BY <1>2, <1>3 DEF IInv

\* A BeaconID that was given is one of DataIDs.
LEMMA GivenIDs ==
  ASSUME IInv
  PROVE  1 .. dataIDs \subseteq DataIDs
BY BoundsAssumption DEF IInv, Typed, DataIDs

\* Without a new databeacon the BeaconIDs given so far stay in range.
LEMMA SameIDs ==
  ASSUME IInv
  PROVE  dataIDs \in dataIDs .. MaxDataIDs /\ dataID \in (1 .. dataIDs) \cup {None}
BY BoundsAssumption DEF IInv, Typed

\* A bootstrap is begun at its first step, or none is.
LEMMA HandleKeeps ==
  ASSUME IInv, NEW b \in 1 .. dataIDs, HandleBootstrap(b),
         assigned' \in [id : 1 .. dataIDs, to : Connections] \cup {None}
  PROVE  /\ bootstrap' \in [DataIDs -> [to : Connections, enabling : BOOLEAN] \cup {None}]
         /\ \A c \in DataIDs : bootstrap'[c] # None => c \in 1 .. dataIDs
         /\ \A c \in DataIDs :
              bootstrap'[c] # None /\ bootstrap'[c].enabling => bootstrap'[c].to \in prepared
<1>1. CASE bootstrap' = bootstrap
  BY <1>1 DEF IInv, Typed, Ready
<1>2. CASE /\ assigned' # None
           /\ bootstrap' = [bootstrap EXCEPT ![b] = [to |-> assigned'.to, enabling |-> FALSE]]
  BY <1>2, GivenIDs DEF IInv, Typed, Ready
<1> QED  BY <1>1, <1>2 DEF HandleBootstrap

\* An assignment drops a BeaconID together with its endpoints.
LEMMA AssignmentKeeps ==
  ASSUME IInv, NEW a \in [id : 1 .. dataIDs, to : Connections] \cup {None},
         SetPersistenceAssignment(a)
  PROVE  IInv'
<1>1. a \in [id : 1 .. dataIDs, to : Connections] \cup {None}
  OBVIOUS
<1>2. assigned' = a /\ UNCHANGED <<dataID, dataIDs, prepared>>
  BY DEF SetPersistenceAssignment, dataVars
<1>3. /\ endpoints' \in [DataIDs -> (SUBSET Connections) \cup {None}]
      /\ bootstrapped' \subseteq 1 .. dataIDs
      /\ \A b \in bootstrapped' : Served(b)'
  <2>1. CASE UNCHANGED <<bootstrapped, endpoints>>
    BY <1>2, <2>1 DEF IInv, Typed, Ready, Served
  <2>2. CASE /\ bootstrapped' = bootstrapped \ {assigned.id}
             /\ endpoints' = [endpoints EXCEPT ![assigned.id] = None]
    BY <1>2, <2>2, GivenIDs DEF IInv, Typed, Ready, Served
  <2> QED  BY <2>1, <2>2 DEF SetPersistenceAssignment
<1>4. /\ bootstrap' \in [DataIDs -> [to : Connections, enabling : BOOLEAN] \cup {None}]
      /\ \A b \in DataIDs : bootstrap'[b] # None => b \in 1 .. dataIDs
      /\ \A b \in DataIDs :
           bootstrap'[b] # None /\ bootstrap'[b].enabling => bootstrap'[b].to \in prepared
  <2>1. CASE a # None /\ a.id = dataID /\ HandleBootstrap(dataID)
    <3>1. dataID \in 1 .. dataIDs
      BY <1>1, <2>1, BoundsAssumption, NoneAssumption DEF IInv, Typed
    <3> QED  BY <1>1, <1>2, <2>1, <3>1, HandleKeeps
  <2>2. CASE UNCHANGED bootstrap
    BY <2>2 DEF IInv, Typed, Ready
  <2> QED  BY <2>1, <2>2 DEF SetPersistenceAssignment
<1> QED  BY <1>1, <1>2, <1>3, <1>4 DEF IInv, Typed, Ready

\* A bootstrap prepares its connection before it names it in an endpoint.
LEMMA BootstrapKeeps ==
  ASSUME IInv, NEW b \in DataIDs,
         BootstrapEnsures(b) \/ BootstrapEnables(b) \/ BootstrapFails(b)
  PROVE  IInv'
<1>1. CASE BootstrapEnsures(b)
  <2> DEFINE to == bootstrap[b].to
  <2>1. bootstrap[b] \in [to : Connections, enabling : BOOLEAN] /\ to \in Connections
    BY <1>1 DEF BootstrapEnsures, IInv, Typed
  <2>2. /\ bootstrap' = [bootstrap EXCEPT ![b].enabling = TRUE]
        /\ prepared' = prepared \cup {to}
        /\ endpoints' = [endpoints EXCEPT ![b] = IF @ = None THEN {} ELSE @]
        /\ UNCHANGED <<dataID, dataIDs, assigned, bootstrapped>>
    BY <1>1 DEF BootstrapEnsures, dataVars
  <2>0. b \in 1 .. dataIDs
    BY <1>1 DEF BootstrapEnsures, IInv, Typed
  <2>a. /\ bootstrap' \in [DataIDs -> [to : Connections, enabling : BOOLEAN] \cup {None}]
        /\ \A c \in DataIDs : bootstrap'[c] # None => c \in 1 .. dataIDs
    <3> DEFINE begun == [bootstrap[b] EXCEPT !.enabling = TRUE]
    <3>1. begun \in [to : Connections, enabling : BOOLEAN]
      BY <2>1
    <3>2. bootstrap' = [bootstrap EXCEPT ![b] = begun]
      BY <2>2
    <3> HIDE DEF begun
    <3> QED  BY <2>0, <3>1, <3>2 DEF IInv, Typed
  <2>b. endpoints' \in [DataIDs -> (SUBSET Connections) \cup {None}]
    BY <2>2 DEF IInv, Typed
  <2>3. Typed'
    BY <2>1, <2>2, <2>a, <2>b DEF IInv, Typed
  <2>4. \A c \in bootstrapped' : Served(c)'
    BY <2>2 DEF IInv, Typed, Ready, Served
  <2>5. \A c \in DataIDs :
          bootstrap'[c] # None /\ bootstrap'[c].enabling => bootstrap'[c].to \in prepared'
    BY <2>1, <2>2 DEF IInv, Typed, Ready
  <2> QED  BY <2>3, <2>4, <2>5 DEF IInv, Ready
<1>2. CASE BootstrapEnables(b)
  <2> DEFINE to == bootstrap[b].to
  <2>1. to \in Connections /\ to \in prepared
    BY <1>2 DEF BootstrapEnables, IInv, Typed, Ready
  <2>2. /\ bootstrap' = [bootstrap EXCEPT ![b] = None]
        /\ UNCHANGED <<dataID, dataIDs, assigned, prepared>>
    BY <1>2 DEF BootstrapEnables, dataVars
  <2>3. CASE UNCHANGED <<bootstrapped, endpoints>>
    BY <2>2, <2>3 DEF IInv, Typed, Ready, Served
  <2>4. CASE /\ bootstrapped' = bootstrapped \cup {b}
             /\ endpoints' = [endpoints EXCEPT ![b] = {to}]
    <3> HIDE DEF to
    <3>1. {to} # None
      BY <2>1, NoneAssumption
    <3>2. b \in 1 .. dataIDs
      BY <1>2 DEF BootstrapEnables, IInv, Typed
    <3>3. Typed'
      BY <2>1, <2>2, <2>4, <3>2 DEF IInv, Typed
    <3>4. Ready'
      BY <2>1, <2>2, <2>4, <3>1 DEF IInv, Typed, Ready, Served
    <3> QED  BY <3>3, <3>4 DEF IInv
  <2> QED  BY <1>2, <2>3, <2>4 DEF BootstrapEnables, BootstrapFailed
<1>3. CASE BootstrapFails(b)
  BY <1>3 DEF BootstrapFails, BootstrapFailed, dataVars, IInv, Typed, Ready, Served
<1> QED  BY <1>1, <1>2, <1>3

\* Every step keeps the databeacon ready.
LEMMA StepReady ==
  ASSUME IInv, [Next]_vars
  PROVE  IInv'
<1> USE DEF queueVars, dataVars, routeVars
<1>1. CASE Enqueue \/ \E i \in Items : Settle(i)
  BY <1>1, SameIDs, OthersKeep DEF Enqueue, Settle
<1>2. CASE \/ RegisterQueueBeacon \/ RefreshQueueBeacon \/ QueueBeaconLeaves
           \/ QueueBeaconAnswers \/ QueueWriteTimesOut
  BY <1>2, SameIDs, OthersKeep DEF RegisterQueueBeacon, RefreshQueueBeacon, QueueBeaconLeaves,
                          QueueBeaconAnswers, QueueWriteTimesOut
<1>3. CASE DataBeaconArrives
  <2>1. /\ dataIDs' = dataIDs + 1 /\ dataID' = dataIDs' /\ dataIDs < MaxDataIDs
        /\ UNCHANGED <<assigned, bootstrap, endpoints, bootstrapped, prepared>>
    BY <1>3 DEF DataBeaconArrives
  <2>2. dataIDs' \in dataIDs .. MaxDataIDs /\ dataID' \in 1 .. dataIDs'
    BY <2>1, BoundsAssumption DEF IInv, Typed
  <2> QED  BY <2>1, <2>2, OthersKeep
<1>4. CASE RefreshDataBeacon
  <2>1. /\ dataID \in 1 .. dataIDs /\ HandleBootstrap(dataID)
        /\ UNCHANGED <<dataID, dataIDs, assigned, endpoints, bootstrapped, prepared>>
    BY <1>4 DEF RefreshDataBeacon, IInv, Typed
  <2>2. assigned' \in [id : 1 .. dataIDs, to : Connections] \cup {None}
    BY <2>1 DEF IInv, Typed
  <2> QED  BY <2>1, <2>2, HandleKeeps DEF IInv, Typed, Ready, Served
<1>5. CASE DataBeaconLeaves
  BY <1>5, SameIDs, OthersKeep DEF DataBeaconLeaves
<1>6. CASE \E a \in [id : 1 .. dataIDs, to : Connections] \cup {None} :
             SetPersistenceAssignment(a)
  BY <1>6, AssignmentKeeps
<1>7. CASE \E b \in DataIDs : BootstrapEnsures(b) \/ BootstrapEnables(b) \/ BootstrapFails(b)
  BY <1>7, BootstrapKeeps
<1>8. CASE UNCHANGED vars
  BY <1>8, SameIDs, OthersKeep DEF vars
<1> QED  BY <1>1, <1>2, <1>3, <1>4, <1>5, <1>6, <1>7, <1>8 DEF Next

-----------------------------------------------------------------------------
\* Whatever is assigned while a bootstrap is in flight, a write that goes to the
\* databeacon names a connection with prepared tables.
THEOREM WritesFindTheirTables == Spec => []RequestsFindTheirTables
<1>1. IInv => RequestsFindTheirTables
  <2> SUFFICES ASSUME IInv, MeadowProxyMode
               PROVE  Endpoint \in prepared
    BY DEF RequestsFindTheirTables
  <2> DEFINE known == endpoints[assigned.id]
  <2>1. known \notin {None, {}} /\ known \subseteq prepared
    BY DEF MeadowProxyMode, IInv, Ready, Served
  <2>2. (CHOOSE c \in known : TRUE) \in known
    BY <2>1
  <2> QED  BY <2>1, <2>2 DEF Endpoint
<1>2. Init => IInv
  BY InitReady
<1>3. IInv /\ [Next]_vars => IInv'
  BY StepReady
<1> QED  BY <1>1, <1>2, <1>3, PTL DEF Spec

-----------------------------------------------------------------------------
(***************************************************************************)
(* The marks.                                                              *)
(***************************************************************************)
SentType == [write : WriteType, sweep : IDs \cup {None}]

QueueTyped ==
  /\ items \in 0 .. MaxItems /\ settled \subseteq 1 .. items
  /\ enqueuedAt \in [Items -> 0 .. MaxItems]
  /\ local \in RowsType /\ queueRows \in RowsType
  /\ ids \in 0 .. MaxIDs /\ queueID \in (1 .. ids) \cup {None}
  /\ queueSent \in Seq(SentType)
  /\ marks \in [IDs -> Nat]
  /\ sweeps \in [IDs -> ((SUBSET RowType) \ {{}}) \cup {None}]
  /\ \A b \in IDs : sweeps[b] # None => Cardinality(sweeps[b]) <= BatchLimit

\* Items are enqueued in the order of their numbers, and only those have rows.
Ordered ==
  /\ \A i \in Items : enqueuedAt[i] <= i /\ (enqueuedAt[i] # 0 <=> i <= items)
  /\ \A i, j \in Items : i <= j /\ j <= items => enqueuedAt[i] <= enqueuedAt[j]
  /\ \A i \in Items : local[i] # 0 => i <= items

\* The rows of a sweep are behind its mark, and with a row it has those of all the
\* local items before it that are behind the mark.
Closed(b) ==
  sweeps[b] # None =>
    /\ \A r \in sweeps[b] : r.item <= items /\ enqueuedAt[r.item] > marks[b]
    /\ \A r \in sweeps[b] : \A i \in Items :
         /\ local[i] # 0 /\ enqueuedAt[i] > marks[b] /\ enqueuedAt[i] < enqueuedAt[r.item]
         => \E s \in sweeps[b] : s.item = i

\* A sweep that waits for an answer waits for that of its first row, and for one.
Upsert(r) == [kind |-> "upsert", item |-> r.item, row |-> r.row]

Sending ==
  /\ \A k \in 1 .. Len(queueSent) :
       queueSent[k].sweep # None =>
         /\ sweeps[queueSent[k].sweep] # None
         /\ queueSent[k].write = Upsert(First(sweeps[queueSent[k].sweep]))
  /\ \A k, l \in 1 .. Len(queueSent) :
       queueSent[k].sweep # None /\ queueSent[k].sweep = queueSent[l].sweep => k = l

\* A mark is the EnqueuedAt of a row that the queue beacon has.
Got(t) == \E j \in Items : enqueuedAt[j] = t /\ queueRows[j] # 0

Marked == \A b \in IDs : marks[b] # 0 => Got(marks[b])

QInv ==
  /\ QueueTyped /\ Ordered /\ Sending /\ Marked /\ MarkPassesNothing
  /\ \A b \in IDs : Closed(b)

\* A non-empty set of natural numbers has a least element.
LEMMA LeastNatural ==
  ASSUME NEW S \in SUBSET Nat, S # {}
  PROVE  \E x \in S : \A y \in S : x <= y
<1> DEFINE Less == {p \in Nat \X Nat : p[1] < p[2]}
<1>1. Less = OpToRel(<, Nat)
  BY DEF OpToRel
<1>2. IsWellFoundedOn(Less, Nat)
  BY <1>1, NatLessThanWellFounded
<1> HIDE DEF Less
<1>3. PICK x \in S : \A y \in S : ~(<<y, x>> \in Less)
  BY <1>2, WFMin
<1> USE DEF Less
<1>4. \A y \in S : x <= y
  <2> SUFFICES ASSUME NEW y \in S PROVE x <= y
    OBVIOUS
  <2>1. <<y, x>> \in Nat \X Nat
    OBVIOUS
  <2> QED  BY <1>3, <2>1
<1> QED  BY <1>4

\* The first of a set of rows.
LEMMA FirstIsFirst ==
  ASSUME NEW rows \in SUBSET RowType, rows # {}
  PROVE  /\ First(rows) \in rows
         /\ \A r \in rows : First(rows).item <= r.item
<1> DEFINE S == {r.item : r \in rows}
<1>1. S \in SUBSET Nat /\ S # {}
  BY BoundsAssumption DEF RowType, Items
<1> HIDE DEF S
<1>2. PICK x \in S : \A y \in S : x <= y
  BY <1>1, LeastNatural
<1> USE DEF S
<1>3. PICK r \in rows : r.item = x
  OBVIOUS
<1>4. \A s \in rows : r.item <= s.item
  BY <1>2, <1>3
<1>5. \E m \in rows : \A s \in rows : m.item <= s.item
  BY <1>4
<1> QED  BY <1>5, Zenon DEF First

\* The rows there can be are finitely many.
LEMMA RowTypeFinite == IsFiniteSet(RowType)
<1> DEFINE f == [r \in RowType |-> <<r.item, r.row>>]
<1>1. f \in Injection(RowType, Items \X (1 .. 2))
  <2>1. f \in [RowType -> Items \X (1 .. 2)]
    BY DEF RowType
  <2>2. ASSUME NEW r \in RowType, NEW s \in RowType, f[r] = f[s]
        PROVE  r = s
    BY <2>2 DEF RowType
  <2> QED  BY <2>1, <2>2, Fun_IsInj
<1>2. IsFiniteSet(Items) /\ IsFiniteSet(1 .. 2)
  <2>1. 1 \in Int /\ 2 \in Int /\ MaxItems \in Int
    BY BoundsAssumption
  <2>2. IsFiniteSet(1 .. MaxItems)
    BY <2>1, FS_Interval
  <2>3. IsFiniteSet(1 .. 2)
    BY <2>1, FS_Interval
  <2> QED  BY <2>2, <2>3 DEF Items
<1>3. IsFiniteSet(Items \X (1 .. 2))
  BY <1>2, FS_Product
<1> HIDE DEF f
<1> QED  BY <1>1, <1>3, FS_Injection

\* The local rows are finitely many.
LEMMA LocalRowsFinite == IsFiniteSet(LocalRows)
BY RowTypeFinite, FS_Subset DEF LocalRows

\* A batch is one of at most BatchLimit rows, closed downwards among the local ones.
LEMMA BatchBounded ==
  ASSUME QueueTyped
  PROVE  /\ Batch \subseteq LocalRows /\ IsFiniteSet(Batch)
         /\ Cardinality(Batch) <= BatchLimit
         /\ \A r \in Batch : \A s \in LocalRows : s.item < r.item => s \in Batch
<1> DEFINE before(r) == {s \in LocalRows : s.item < r.item}
<1>1. Batch \subseteq LocalRows /\ IsFiniteSet(LocalRows)
  BY LocalRowsFinite DEF Batch
<1>2. IsFiniteSet(Batch)
  BY <1>1, FS_Subset
<1>3. \A r \in LocalRows : r.item \in Nat
  BY BoundsAssumption DEF LocalRows, RowType, Items
<1>4. ASSUME NEW r \in Batch, NEW s \in LocalRows, s.item < r.item
      PROVE  s \in Batch
  <2>1. before(s) \subseteq before(r) /\ before(r) \subseteq LocalRows
    BY <1>1, <1>3, <1>4
  <2>2. IsFiniteSet(before(r)) /\ IsFiniteSet(before(s))
    BY <1>1, <2>1, FS_Subset
  <2>3. Cardinality(before(r)) < BatchLimit /\ Cardinality(before(s)) <= Cardinality(before(r))
    <3>1. Cardinality(before(r)) < BatchLimit
      BY DEF Batch
    <3> HIDE DEF before
    <3> QED  BY <2>1, <2>2, <3>1, FS_Subset
  <2>4. Cardinality(before(s)) < BatchLimit
    <3>1. Cardinality(before(s)) \in Nat /\ Cardinality(before(r)) \in Nat
      <4> HIDE DEF before
      <4> QED  BY <2>2, FS_CardinalityType
    <3> HIDE DEF before
    <3> QED  BY <2>3, <3>1, BoundsAssumption
  <2> QED  BY <2>4 DEF Batch
<1>5. Cardinality(Batch) <= BatchLimit
  <2>1. CASE Batch = {}
    BY <2>1, FS_EmptySet, BoundsAssumption
  <2>2. CASE Batch # {}
    <3> DEFINE S == {MaxItems - r.item : r \in Batch}
    <3>1. S \in SUBSET Nat /\ S # {}
      BY <1>1, <2>2, BoundsAssumption DEF LocalRows, RowType, Items
    <3> HIDE DEF S
    <3>2. PICK x \in S : \A y \in S : x <= y
      BY <3>1, LeastNatural
    <3> USE DEF S
    <3>3. PICK m \in Batch : x = MaxItems - m.item
      BY <3>2
    <3>4. ASSUME NEW r \in Batch, r # m
          PROVE  r \in before(m)
      <4>1. MaxItems - m.item <= MaxItems - r.item
        BY <3>2, <3>3
      <4>2. /\ r \in LocalRows /\ m \in LocalRows
            /\ r.item \in Items /\ m.item \in Items
        BY <1>1 DEF LocalRows, RowType
      <4>3. r.item <= m.item
        BY <4>1, <4>2, BoundsAssumption DEF Items
      <4>4. r.item # m.item
        BY <3>4, <4>2 DEF LocalRows, RowType
      <4> QED  BY <4>2, <4>3, <4>4, BoundsAssumption DEF Items
    <3>5. Batch \ {m} \subseteq before(m) /\ before(m) \subseteq LocalRows
      BY <3>4
    <3>6. Cardinality(before(m)) < BatchLimit
      BY DEF Batch
    <3> HIDE DEF before, S
    <3>7. IsFiniteSet(before(m)) /\ Cardinality(before(m)) \in Nat
      BY <1>1, <3>5, FS_Subset, FS_CardinalityType
    <3>8. Cardinality(Batch \ {m}) <= Cardinality(before(m))
      BY <3>5, <3>7, FS_Subset
    <3>9. Cardinality(Batch \ {m}) = Cardinality(Batch) - 1 /\ Cardinality(Batch) \in Nat
      BY <1>2, FS_RemoveElement, FS_CardinalityType
    <3> QED  BY <3>6, <3>7, <3>8, <3>9, BoundsAssumption
  <2> QED  BY <2>1, <2>2
<1> QED  BY <1>1, <1>2, <1>4, <1>5

\* No mark is set at first.
LEMMA InitMarks ==
  ASSUME Init
  PROVE  QInv
<1>1. QueueTyped
  <2>1. queueSent \in Seq(SentType)
    BY DEF Init
  <2> QED  BY <2>1, BoundsAssumption
           DEF Init, QueueTyped, NoRows, RowsType, Items, IDs
<1>2. Ordered /\ Marked /\ MarkPassesNothing /\ (\A b \in IDs : Closed(b))
  BY BoundsAssumption, NoneAssumption
     DEF Init, NoRows, Ordered, Marked, MarkPassesNothing, Closed, Items, IDs
<1>3. Sending
  <2>1. Len(queueSent) = 0
    BY DEF Init
  <2> QED  BY <2>1 DEF Sending
<1> QED  BY <1>1, <1>2, <1>3 DEF QInv

\* What a write makes of the rows of a store.
LEMMA AppliedKeeps ==
  ASSUME NEW rows \in RowsType, NEW w \in WriteType
  PROVE  /\ Applied(rows, w) \in RowsType
         /\ \A i \in Items : rows[i] # 0 => Applied(rows, w)[i] # 0
         /\ \A i \in Items : i # w.item => Applied(rows, w)[i] = rows[i]
         /\ w.kind = "update" => \A i \in Items : rows[i] = 0 => Applied(rows, w)[i] = 0
         /\ w.kind = "upsert" => Applied(rows, w)[w.item] # 0
<1>1. w.item \in Items /\ w.row \in 1 .. 2
  BY DEF WriteType
<1>2. CASE Applied(rows, w) = [rows EXCEPT ![w.item] = w.row]
           /\ (w.kind = "upsert" \/ rows[w.item] # 0)
  BY <1>1, <1>2 DEF RowsType, WriteType
<1>3. CASE Applied(rows, w) = rows /\ ~(w.kind = "upsert" \/ rows[w.item] # 0)
  BY <1>1, <1>3 DEF RowsType, WriteType
<1> QED  BY <1>2, <1>3 DEF Applied

\* A write of the coordinator that is sent disturbs no sweep.
LEMMA SentBehind ==
  ASSUME QueueTyped, Sending, NEW w \in WriteType,
         queueSent' = Append(queueSent, [write |-> w, sweep |-> None]), sweeps' = sweeps
  PROVE  queueSent' \in Seq(SentType) /\ Sending'
<1> DEFINE e == [write |-> w, sweep |-> None]
<1>1. e \in SentType /\ e.sweep = None
  BY DEF SentType
<1> HIDE DEF e
<1>2. queueSent' \in Seq(SentType) /\ Len(queueSent') = Len(queueSent) + 1
  BY <1>1 DEF QueueTyped, e
<1>3. \A k \in 1 .. Len(queueSent') :
        IF k \in 1 .. Len(queueSent) THEN queueSent'[k] = queueSent[k] ELSE queueSent'[k] = e
  BY <1>1, <1>2 DEF QueueTyped, e
<1>4. \A k \in 1 .. Len(queueSent') : queueSent'[k].sweep # None => k \in 1 .. Len(queueSent)
  BY <1>1, <1>3
<1>5. Sending'
  BY <1>3, <1>4 DEF Sending
<1> QED  BY <1>2, <1>5

\* A sweep that takes the next of its rows to the beacon, when it waits for no answer.
LEMMA PushKeeps ==
  ASSUME NEW b \in IDs, NEW rows \in SUBSET RowType, NEW sent \in Seq(SentType),
         sweeps \in [IDs -> ((SUBSET RowType) \ {{}}) \cup {None}],
         \A k \in 1 .. Len(sent) :
           sent[k].sweep # None =>
             /\ sent[k].sweep # b
             /\ sweeps[sent[k].sweep] # None
             /\ sent[k].write = Upsert(First(sweeps[sent[k].sweep])),
         \A k, l \in 1 .. Len(sent) :
           sent[k].sweep # None /\ sent[k].sweep = sent[l].sweep => k = l,
         sweeps' = [sweeps EXCEPT ![b] = IF rows = {} THEN None ELSE rows],
         queueSent' = IF rows = {} THEN sent
                      ELSE Append(sent, [write |-> Upsert(First(rows)), sweep |-> b])
  PROVE  queueSent' \in Seq(SentType) /\ Sending'
<1>0. \A k \in 1 .. Len(sent) : sent[k].sweep # None => sent[k].sweep \in IDs
  <2>1. ASSUME NEW k \in 1 .. Len(sent)
        PROVE  sent[k] \in SentType
    OBVIOUS
  <2> QED  BY <2>1 DEF SentType
<1>1. CASE rows = {}
  <2>1. queueSent' = sent /\ \A c \in IDs : c # b => sweeps'[c] = sweeps[c]
    BY <1>1
  <2>3. \A k \in 1 .. Len(sent) : sent[k].sweep # None =>
          sent[k].sweep \in IDs /\ sent[k].sweep # b
          /\ sweeps'[sent[k].sweep] = sweeps[sent[k].sweep]
    BY <1>0, <2>1
  <2>4. \A k \in 1 .. Len(sent) : sent[k].sweep # None =>
          /\ sweeps'[sent[k].sweep] # None
          /\ sent[k].write = Upsert(First(sweeps'[sent[k].sweep]))
    BY <2>3
  <2> QED  BY <2>1, <2>4 DEF Sending
<1>2. CASE rows # {}
  <2> DEFINE e == [write |-> Upsert(First(rows)), sweep |-> b]
  <2>1. First(rows) \in RowType
    BY <1>2, FirstIsFirst
  <2>2. e \in SentType /\ e.sweep = b /\ e.write = Upsert(First(rows))
    BY <2>1 DEF SentType, WriteType, RowType, Upsert
  <2>3. queueSent' = Append(sent, e)
    BY <1>2
  <2> HIDE DEF e
  <2>4. queueSent' \in Seq(SentType) /\ Len(queueSent') = Len(sent) + 1
    BY <2>2, <2>3
  <2>5. \A k \in 1 .. Len(queueSent') :
          IF k \in 1 .. Len(sent) THEN queueSent'[k] = sent[k]
          ELSE k = Len(sent) + 1 /\ queueSent'[k] = e
    BY <2>2, <2>3, <2>4
  <2>6. sweeps'[b] = rows /\ rows # None /\ \A c \in IDs : c # b => sweeps'[c] = sweeps[c]
    BY <1>2, NoneAssumption
  <2>8. ASSUME NEW k \in 1 .. Len(queueSent'), queueSent'[k].sweep # None
        PROVE  /\ sweeps'[queueSent'[k].sweep] # None
               /\ queueSent'[k].write = Upsert(First(sweeps'[queueSent'[k].sweep]))
    <3>1. CASE k \in 1 .. Len(sent)
      <4>1. queueSent'[k] = sent[k] /\ sent[k].sweep # b /\ sent[k].sweep \in IDs
        BY <1>0, <2>5, <2>8, <3>1
      <4> QED  BY <2>6, <2>8, <3>1, <4>1
    <3>2. CASE k \notin 1 .. Len(sent)
      BY <2>2, <2>5, <2>6, <3>2
    <3> QED  BY <3>1, <3>2
  <2>9. ASSUME NEW k \in 1 .. Len(queueSent'), NEW l \in 1 .. Len(queueSent'),
               queueSent'[k].sweep # None, queueSent'[k].sweep = queueSent'[l].sweep
        PROVE  k = l
    BY <2>2, <2>5, <2>9
  <2> QED  BY <2>4, <2>8, <2>9 DEF Sending
<1> QED  BY <1>1, <1>2

\* The writes left when the first has gone.
LEMMA TailKeeps ==
  ASSUME QueueTyped, Sending, queueSent # <<>>
  PROVE  /\ Head(queueSent) \in SentType /\ Head(queueSent) = queueSent[1]
         /\ 1 \in 1 .. Len(queueSent)
         /\ Tail(queueSent) \in Seq(SentType)
         /\ Len(Tail(queueSent)) = Len(queueSent) - 1
         /\ \A k \in 1 .. Len(Tail(queueSent)) :
              /\ k + 1 \in 1 .. Len(queueSent) /\ Tail(queueSent)[k] = queueSent[k + 1]
              /\ Tail(queueSent)[k].sweep # None =>
                   Tail(queueSent)[k].sweep # Head(queueSent).sweep
<1>1. queueSent \in Seq(SentType)
  BY DEF QueueTyped
<1>2. /\ Head(queueSent) \in SentType /\ Head(queueSent) = queueSent[1]
      /\ 1 \in 1 .. Len(queueSent)
      /\ Tail(queueSent) \in Seq(SentType)
      /\ Len(Tail(queueSent)) = Len(queueSent) - 1
  BY <1>1
<1>3. ASSUME NEW k \in 1 .. Len(Tail(queueSent))
      PROVE  /\ k + 1 \in 1 .. Len(queueSent) /\ Tail(queueSent)[k] = queueSent[k + 1]
  BY <1>1, <1>2
<1>4. ASSUME NEW k \in 1 .. Len(Tail(queueSent)), Tail(queueSent)[k].sweep # None
      PROVE  Tail(queueSent)[k].sweep # Head(queueSent).sweep
  <2>1. k + 1 \in 1 .. Len(queueSent) /\ k + 1 # 1
    BY <1>3
  <2> QED  BY <1>2, <1>3, <1>4, <2>1 DEF Sending
<1> QED  BY <1>2, <1>3, <1>4

\* A write of the coordinator: where it goes, no sweep is disturbed.
LEMMA WriteKeeps ==
  ASSUME QInv, NEW w \in WriteType, WriteOrLocal(w), sweeps' = sweeps
  PROVE  /\ queueSent' \in Seq(SentType) /\ Sending'
         /\ local' \in RowsType
         /\ \A i \in Items : i # w.item => local'[i] = local[i]
         /\ w.kind = "update" => \A i \in Items : local[i] = 0 <=> local'[i] = 0
<1>1. QueueTyped /\ Sending /\ local \in RowsType
  BY DEF QInv, QueueTyped
<1>2. CASE UNCHANGED queueSent
  <2>1. local' \in {local, Applied(local, w)}
    BY <1>2 DEF WriteOrLocal
  <2>2. /\ queueSent' \in Seq(SentType) /\ Sending'
    BY <1>1, <1>2 DEF QueueTyped, Sending
  <2>3. /\ local' \in RowsType
        /\ \A i \in Items : i # w.item => local'[i] = local[i]
        /\ w.kind = "update" => \A i \in Items : local[i] = 0 <=> local'[i] = 0
    <3>1. CASE local' = local
      BY <1>1, <3>1
    <3>2. CASE local' = Applied(local, w)
      BY <1>1, <3>2, AppliedKeeps
    <3> QED  BY <2>1, <3>1, <3>2
  <2> QED  BY <2>2, <2>3
<1>3. CASE /\ queueSent' = Append(queueSent, [write |-> w, sweep |-> None])
           /\ UNCHANGED local
  BY <1>1, <1>3, SentBehind
<1> QED  BY <1>2, <1>3 DEF WriteOrLocal

\* A new item is behind every mark and sweep.
LEMMA EnqueueKeeps ==
  ASSUME QInv, Enqueue
  PROVE  QInv'
<1> DEFINE n == items + 1
           GotNow(u) == \E j \in Items : enqueuedAt'[j] = u /\ queueRows'[j] # 0
           w == [kind |-> "upsert", item |-> items', row |-> 1]
<1>1. QueueTyped /\ Ordered /\ Sending /\ Marked /\ MarkPassesNothing /\ \A b \in IDs : Closed(b)
  BY DEF QInv
<1>2. /\ n \in Items /\ items \in Nat /\ items' = n /\ items' \in 0 .. MaxItems
      /\ \A i \in Items : i \in Nat
  BY BoundsAssumption, <1>1 DEF Enqueue, QueueTyped, Items
<1>3. PICK t \in {LastEnqueuedAt, LastEnqueuedAt + 1} :
        t > 0 /\ enqueuedAt' = [enqueuedAt EXCEPT ![n] = t]
  BY <1>2 DEF Enqueue
<1>4. UNCHANGED <<settled, queueID, ids, queueRows, marks, sweeps>> /\ WriteOrLocal(w)
  BY DEF Enqueue
<1>5. \A i \in Items : enqueuedAt[i] \in Nat
  BY <1>1, BoundsAssumption DEF QueueTyped
<1>6. t \in Nat /\ t <= n /\ \A i \in Items : enqueuedAt[i] <= t
  <2>1. CASE items = 0
    <3>1. LastEnqueuedAt = 0 /\ \A i \in Items : enqueuedAt[i] = 0
      BY <1>1, <2>1, BoundsAssumption DEF LastEnqueuedAt, Ordered, Items
    <3> QED  BY <1>3, <2>1, <3>1
  <2>2. CASE items # 0
    <3>1. items \in Items /\ LastEnqueuedAt = enqueuedAt[items]
      BY <1>2, <2>2, BoundsAssumption DEF LastEnqueuedAt, Items
    <3>2. enqueuedAt[items] <= items
      BY <1>1, <3>1 DEF Ordered
    <3>3. \A i \in Items : enqueuedAt[i] <= enqueuedAt[items]
      <4> SUFFICES ASSUME NEW i \in Items PROVE enqueuedAt[i] <= enqueuedAt[items]
        OBVIOUS
      <4>1. CASE i <= items
        BY <1>1, <1>2, <3>1, <4>1 DEF Ordered
      <4>2. CASE ~(i <= items)
        <5>1. enqueuedAt[i] = 0
          BY <1>1, <4>2 DEF Ordered
        <5> QED  BY <1>5, <3>1, <5>1
      <4> QED  BY <4>1, <4>2
    <3>4. \A x, y \in Nat : x <= items /\ y \in {x, x + 1} => y \in Nat /\ y <= items + 1 /\ x <= y
      BY <1>2
    <3>5. t \in Nat /\ t <= n /\ enqueuedAt[items] <= t
      BY <1>2, <1>3, <1>5, <3>1, <3>2, <3>4
    <3>6. \A x \in Nat : x <= enqueuedAt[items] => x <= t
      BY <1>5, <3>1, <3>5
    <3> QED  BY <1>5, <3>3, <3>5, <3>6
  <2> QED  BY <2>1, <2>2
<1>7. /\ enqueuedAt'[n] = t /\ t # 0
      /\ \A i \in Items : i # n => enqueuedAt'[i] = enqueuedAt[i]
      /\ enqueuedAt' \in [Items -> 0 .. MaxItems]
  <2>1. t \in 0 .. MaxItems /\ t # 0
    BY <1>2, <1>3, <1>6, BoundsAssumption DEF Items
  <2> QED  BY <1>1, <1>2, <1>3, <2>1 DEF QueueTyped
<1>8. enqueuedAt[n] = 0 /\ local[n] = 0
  BY <1>1, <1>2 DEF Ordered
<1>9. w \in WriteType /\ w.item = n
  BY <1>2 DEF WriteType
<1>10. /\ queueSent' \in Seq(SentType) /\ Sending' /\ local' \in RowsType
       /\ \A i \in Items : i # n => local'[i] = local[i]
  <2> HIDE DEF w
  <2> QED  BY <1>4, <1>9, WriteKeeps
<1> HIDE DEF n, w
<1>11. QueueTyped'
  <2>1. settled' \subseteq 1 .. items'
    BY <1>1, <1>2, <1>4 DEF QueueTyped, n
  <2> QED  BY <1>1, <1>2, <1>4, <1>7, <1>10, <2>1 DEF QueueTyped
<1>12. Ordered'
  <2>1. ASSUME NEW i \in Items
        PROVE  enqueuedAt'[i] <= i /\ (enqueuedAt'[i] # 0 <=> i <= items')
    <3>1. CASE i = n
      BY <1>2, <1>6, <1>7, <3>1
    <3>2. CASE i # n
      <4>1. enqueuedAt[i] <= i /\ (enqueuedAt[i] # 0 <=> i <= items) /\ enqueuedAt'[i] = enqueuedAt[i]
        BY <1>1, <1>7, <3>2 DEF Ordered
      <4>2. i <= items <=> i <= n
        BY <1>2, <3>2 DEF n
      <4> QED  BY <1>2, <4>1, <4>2
    <3> QED  BY <3>1, <3>2
  <2>2. ASSUME NEW i \in Items, NEW j \in Items, i <= j, j <= items'
        PROVE  enqueuedAt'[i] <= enqueuedAt'[j]
    <3>1. CASE j = n /\ i # n
      BY <1>6, <1>7, <3>1
    <3>2. CASE j = n /\ i = n
      BY <1>6, <1>7, <3>2
    <3>3. CASE j # n
      <4>1. j <= items /\ i # n
        BY <1>2, <2>2, <3>3 DEF n
      <4>2. enqueuedAt[i] <= enqueuedAt[j]
        BY <1>1, <2>2, <4>1 DEF Ordered
      <4> QED  BY <1>7, <3>3, <4>1, <4>2
    <3> QED  BY <3>1, <3>2, <3>3
  <2>3. ASSUME NEW i \in Items, local'[i] # 0
        PROVE  i <= items'
    <3>1. CASE i = n
      BY <1>2, <3>1
    <3>2. CASE i # n
      <4>1. i <= items
        BY <1>1, <1>10, <2>3, <3>2 DEF Ordered
      <4> QED  BY <1>2, <4>1 DEF n
    <3> QED  BY <3>1, <3>2
  <2> QED  BY <2>1, <2>2, <2>3 DEF Ordered
<1>13. ASSUME NEW u \in Nat, u # 0, Got(u)
       PROVE  GotNow(u) /\ u <= t
  <2>1. PICK j \in Items : enqueuedAt[j] = u /\ queueRows[j] # 0
    BY <1>13 DEF Got
  <2>2. j # n
    BY <1>8, <1>13, <2>1
  <2>3. enqueuedAt'[j] = u /\ queueRows'[j] # 0
    BY <1>4, <1>7, <2>1, <2>2
  <2> QED  BY <1>6, <2>1, <2>3 DEF Got
<1>14. \A b \in IDs : marks'[b] = marks[b] /\ marks[b] \in Nat
  BY <1>1, <1>4 DEF QueueTyped
<1>15. Marked'
  <2>1. \A b \in IDs : marks[b] # 0 => GotNow(marks[b])
    BY <1>1, <1>13, <1>14 DEF Marked
  <2> QED  BY <1>14, <2>1 DEF Marked, Got
<1>16. MarkPassesNothing'
  <2> SUFFICES ASSUME NEW b \in IDs, NEW i \in Items, local'[i] # 0, enqueuedAt'[i] <= marks[b]
               PROVE  GotNow(enqueuedAt'[i])
    BY <1>14 DEF MarkPassesNothing
  <2>1. CASE i = n
    <3>1. t <= marks[b]
      BY <1>7, <2>1
    <3>2. marks[b] # 0
      BY <1>6, <1>7, <1>14, <3>1
    <3>3. Got(marks[b])
      BY <1>1, <3>2 DEF Marked
    <3>4. GotNow(marks[b]) /\ marks[b] <= t
      BY <1>13, <1>14, <3>2, <3>3
    <3>5. marks[b] = t
      BY <1>6, <1>14, <3>1, <3>4
    <3>6. marks[b] = enqueuedAt'[i]
      BY <1>7, <2>1, <3>5
    <3> QED  BY <3>4, <3>6
  <2>2. CASE i # n
    <3>1. enqueuedAt'[i] = enqueuedAt[i] /\ local[i] # 0 /\ i <= items
      BY <1>1, <1>7, <1>10, <2>2 DEF Ordered
    <3>2. Got(enqueuedAt[i]) /\ enqueuedAt[i] # 0
      BY <1>1, <3>1 DEF MarkPassesNothing, Got, Ordered
    <3>3. GotNow(enqueuedAt[i])
      BY <1>5, <1>13, <3>2
    <3> QED  BY <3>1, <3>3
  <2> QED  BY <2>1, <2>2
<1>17. ASSUME NEW b \in IDs
       PROVE  Closed(b)'
  <2> SUFFICES ASSUME sweeps[b] # None
               PROVE  /\ \A r \in sweeps[b] : r.item <= items' /\ enqueuedAt'[r.item] > marks[b]
                      /\ \A r \in sweeps[b] : \A i \in Items :
                           /\ local'[i] # 0 /\ enqueuedAt'[i] > marks[b]
                           /\ enqueuedAt'[i] < enqueuedAt'[r.item]
                           => \E s \in sweeps[b] : s.item = i
    BY <1>4, <1>14 DEF Closed
  <2>1. ASSUME NEW r \in sweeps[b]
        PROVE  /\ r.item \in Items /\ r.item <= items /\ r.item # n
               /\ enqueuedAt'[r.item] = enqueuedAt[r.item]
               /\ enqueuedAt[r.item] > marks[b]
    <3>1. r \in RowType /\ r.item \in Items
      BY <1>1 DEF QueueTyped, RowType
    <3>2. r.item <= items /\ enqueuedAt[r.item] > marks[b]
      BY <1>1 DEF Closed
    <3>3. r.item # n
      BY <1>2, <3>1, <3>2 DEF n
    <3> QED  BY <1>7, <3>1, <3>2, <3>3
  <2>2. ASSUME NEW r \in sweeps[b]
        PROVE  r.item <= items'
    BY <1>2, <2>1 DEF n
  <2>3. ASSUME NEW r \in sweeps[b], NEW i \in Items, local'[i] # 0, enqueuedAt'[i] > marks[b],
               enqueuedAt'[i] < enqueuedAt'[r.item]
        PROVE  \E s \in sweeps[b] : s.item = i
    <3>1. i # n
      <4>1. enqueuedAt[r.item] \in Nat /\ enqueuedAt[r.item] <= t
        BY <1>5, <1>6, <2>1
      <4> QED  BY <1>6, <1>7, <2>1, <2>3, <4>1
    <3>2. local[i] # 0 /\ enqueuedAt'[i] = enqueuedAt[i]
      BY <1>7, <1>10, <2>3, <3>1
    <3> QED  BY <1>1, <2>1, <2>3, <3>2 DEF Closed
  <2> QED  BY <2>1, <2>2, <2>3
<1> QED  BY <1>10, <1>11, <1>12, <1>15, <1>16, <1>17 DEF QInv

\* A settled item keeps its place.
LEMMA SettleKeeps ==
  ASSUME QInv, NEW i \in Items, Settle(i)
  PROVE  QInv'
<1> DEFINE w == [kind |-> "update", item |-> i, row |-> 2]
<1>1. /\ UNCHANGED <<items, enqueuedAt, queueID, ids, queueRows, marks, sweeps>>
      /\ settled' \subseteq 1 .. items /\ WriteOrLocal(w)
  BY BoundsAssumption DEF Settle, QInv, QueueTyped, Items
<1>2. w \in WriteType /\ w.kind = "update"
  BY DEF WriteType
<1> HIDE DEF w
<1>3. /\ queueSent' \in Seq(SentType) /\ Sending' /\ local' \in RowsType
      /\ \A j \in Items : local[j] = 0 <=> local'[j] = 0
  BY <1>1, <1>2, WriteKeeps
<1>4. QueueTyped'
  BY <1>1, <1>3 DEF QInv, QueueTyped
<1>5. Ordered' /\ Marked' /\ MarkPassesNothing'
  BY <1>1, <1>3 DEF QInv, Ordered, Marked, MarkPassesNothing, Got
<1>6. \A b \in IDs : Closed(b)'
  BY <1>1, <1>3 DEF QInv, Closed
<1> QED  BY <1>3, <1>4, <1>5, <1>6 DEF QInv

\* A sweep starts with the rows of the batch that are behind the mark.
LEMMA ConnectedKeeps ==
  ASSUME QInv, NEW b \in IDs, OnBeaconConnected(b),
         UNCHANGED <<items, enqueuedAt, settled, local, queueRows, marks>>,
         ids' \in 0 .. MaxIDs, queueID' \in (1 .. ids') \cup {None}
  PROVE  QInv'
<1> DEFINE rows == Behind(Batch, marks[b])
<1>1. QueueTyped /\ Ordered /\ Sending /\ Marked /\ MarkPassesNothing /\ \A c \in IDs : Closed(c)
  BY DEF QInv
<1>2. Ordered' /\ Marked' /\ MarkPassesNothing'
  BY <1>1 DEF Ordered, Marked, MarkPassesNothing, Got
<1>3. CASE UNCHANGED <<sweeps, queueSent>>
  <2>1. QueueTyped' /\ Sending'
    BY <1>1, <1>3 DEF QueueTyped, Sending
  <2>2. \A c \in IDs : Closed(c)'
    BY <1>1, <1>3 DEF Closed
  <2> QED  BY <1>2, <2>1, <2>2 DEF QInv
<1>4. CASE sweeps[b] = None /\ Push(b, rows)
  <2>1. /\ rows \subseteq Batch /\ Batch \subseteq LocalRows /\ IsFiniteSet(Batch)
        /\ Cardinality(Batch) <= BatchLimit
        /\ rows \in SUBSET RowType
    BY <1>1, BatchBounded DEF Behind, LocalRows
  <2>2. Cardinality(rows) <= BatchLimit
    <3> HIDE DEF rows
    <3>1. Cardinality(rows) <= Cardinality(Batch) /\ IsFiniteSet(rows)
      BY <2>1, FS_Subset
    <3>2. Cardinality(rows) \in Nat /\ Cardinality(Batch) \in Nat
      BY <2>1, <3>1, FS_CardinalityType
    <3> QED  BY <2>1, <3>1, <3>2, BoundsAssumption
  <2>3. ASSUME NEW k \in 1 .. Len(queueSent)
        PROVE  queueSent[k].sweep # b
    BY <1>1, <1>4, NoneAssumption DEF Sending, IDs
  <2>4. ~(queueSent # <<>> /\ Head(queueSent).sweep = b)
    BY <1>1, <2>3, TailKeeps
  <2>5. /\ sweeps' = [sweeps EXCEPT ![b] = IF rows = {} THEN None ELSE rows]
        /\ queueSent' = IF rows = {} THEN queueSent
                        ELSE Append(queueSent, [write |-> Upsert(First(rows)), sweep |-> b])
    BY <1>4, <2>4 DEF Push, Upsert
  <2>6. /\ queueSent \in Seq(SentType)
        /\ sweeps \in [IDs -> ((SUBSET RowType) \ {{}}) \cup {None}]
    BY <1>1 DEF QueueTyped
  <2>7. \A r \in rows : r.item \in Items /\ r.item <= items /\ enqueuedAt[r.item] > marks[b]
    <3>1. \A r \in rows : r \in RowType /\ local[r.item] = r.row /\ enqueuedAt[r.item] > marks[b]
      BY <2>1 DEF Behind, LocalRows
    <3>2. \A r \in rows : r.item \in Items /\ local[r.item] # 0
      BY <3>1 DEF RowType
    <3> QED  BY <1>1, <3>1, <3>2 DEF Ordered
  <2>8. ASSUME NEW r \in rows, NEW i \in Items,
               local[i] # 0, enqueuedAt[i] > marks[b], enqueuedAt[i] < enqueuedAt[r.item]
        PROVE  \E s \in rows : s.item = i
    <3> DEFINE s == [item |-> i, row |-> local[i]]
    <3>1. s \in LocalRows /\ s.item = i
      BY <1>1, <2>8 DEF LocalRows, RowType, QueueTyped, RowsType
    <3>2. i < r.item
      <4>1. r.item \in Items /\ r.item <= items
        BY <2>7
      <4>2. i \in Nat /\ r.item \in Nat /\ enqueuedAt[i] \in Nat /\ enqueuedAt[r.item] \in Nat
        BY <1>1, <4>1, BoundsAssumption DEF QueueTyped, Items
      <4>3. i <= items
        BY <1>1, <2>8 DEF Ordered
      <4>4. r.item <= i => enqueuedAt[r.item] <= enqueuedAt[i]
        BY <1>1, <4>1, <4>3 DEF Ordered
      <4> QED  BY <2>8, <4>2, <4>4, SMTT(30)
    <3>3. s \in Batch
      <4>1. r \in Batch /\ s.item < r.item
        BY <2>1, <3>1, <3>2
      <4> HIDE DEF s
      <4> QED  BY <1>1, <3>1, <4>1, BatchBounded
    <3>4. s \in rows
      BY <2>8, <3>1, <3>3 DEF Behind
    <3> QED  BY <3>1, <3>4
  <2> HIDE DEF rows
  <2>9. queueSent' \in Seq(SentType) /\ Sending'
    <3>1. \A k \in 1 .. Len(queueSent) :
            queueSent[k].sweep # None =>
              /\ queueSent[k].sweep # b
              /\ sweeps[queueSent[k].sweep] # None
              /\ queueSent[k].write = Upsert(First(sweeps[queueSent[k].sweep]))
      BY <1>1, <2>3 DEF Sending
    <3>2. \A k, l \in 1 .. Len(queueSent) :
            queueSent[k].sweep # None /\ queueSent[k].sweep = queueSent[l].sweep => k = l
      BY <1>1 DEF Sending
    <3> QED  BY <2>1, <2>5, <2>6, <3>1, <3>2, PushKeeps
  <2>10. QueueTyped'
    <3>1. /\ sweeps' \in [IDs -> ((SUBSET RowType) \ {{}}) \cup {None}]
          /\ \A c \in IDs : sweeps'[c] # None => Cardinality(sweeps'[c]) <= BatchLimit
      <4>1. (IF rows = {} THEN None ELSE rows) \in ((SUBSET RowType) \ {{}}) \cup {None}
        BY <2>1
      <4>2. sweeps' \in [IDs -> ((SUBSET RowType) \ {{}}) \cup {None}]
        BY <2>5, <2>6, <4>1
      <4>3. \A c \in IDs : sweeps'[c] # None => sweeps'[c] \in {rows, sweeps[c]}
                                              /\ (sweeps'[c] = sweeps[c] \/ c = b)
        BY <2>5, <2>6
      <4>4. \A c \in IDs : sweeps'[c] # None => sweeps'[c] = rows \/ sweeps'[c] = sweeps[c]
        BY <4>3
      <4>5. \A c \in IDs : sweeps'[c] # None => Cardinality(sweeps'[c]) <= BatchLimit
        BY <1>1, <2>2, <4>4 DEF QueueTyped
      <4> QED  BY <4>2, <4>5
    <3> QED  BY <1>1, <2>9, <3>1 DEF QueueTyped
  <2>11. ASSUME NEW c \in IDs
         PROVE  Closed(c)'
    <3>1. CASE c = b
      <4>1. sweeps'[b] # None => sweeps'[b] = rows
        BY <2>5, <2>6
      <4> QED  BY <2>7, <2>8, <3>1, <4>1 DEF Closed
    <3>2. CASE c # b
      <4>1. sweeps'[c] = sweeps[c]
        BY <2>5, <2>6, <3>2
      <4>2. Closed(c)
        BY <1>1
      <4> QED  BY <4>1, <4>2 DEF Closed
    <3> QED  BY <3>1, <3>2
  <2> QED  BY <1>2, <2>9, <2>10, <2>11 DEF QInv
<1> QED  BY <1>3, <1>4 DEF OnBeaconConnected

\* Only writes and rows of the beacon change, and the rows it has it keeps.
LEMMA RowsGrow ==
  ASSUME QInv, UNCHANGED <<items, enqueuedAt, local, marks>>,
         \A i \in Items : queueRows[i] # 0 => queueRows'[i] # 0
  PROVE  Ordered' /\ Marked' /\ MarkPassesNothing'
<1>1. Ordered'
  BY DEF QInv, Ordered
<1>2. Marked' /\ MarkPassesNothing'
  BY DEF QInv, Marked, MarkPassesNothing, Got
<1> QED  BY <1>1, <1>2

\* A write that times out ends its sweep and moves no mark.
LEMMA TimeOutKeeps ==
  ASSUME QInv, QueueWriteTimesOut
  PROVE  QInv'
<1> DEFINE h == Head(queueSent)
<1>1. QueueTyped /\ Sending /\ queueSent # <<>> /\ \A c \in IDs : Closed(c)
  BY DEF QInv, QueueWriteTimesOut
<1>2. /\ queueSent' = Tail(queueSent)
      /\ queueRows' \in {queueRows, Applied(queueRows, h.write)}
      /\ UNCHANGED <<items, enqueuedAt, settled, local, queueID, ids, marks>>
      /\ h.sweep = None => sweeps' = sweeps
      /\ h.sweep # None => sweeps' = [sweeps EXCEPT ![h.sweep] = None]
  BY DEF QueueWriteTimesOut, Abort
<1>3. h \in SentType /\ h.write \in WriteType /\ h.sweep \in IDs \cup {None}
  <2>1. h \in SentType
    BY <1>1, TailKeeps
  <2> HIDE DEF h
  <2> QED  BY <2>1 DEF SentType
<1> HIDE DEF h
<1>4. queueRows' \in RowsType /\ \A i \in Items : queueRows[i] # 0 => queueRows'[i] # 0
  <2>1. queueRows \in RowsType
    BY <1>1 DEF QueueTyped
  <2>2. CASE queueRows' = queueRows
    BY <2>1, <2>2
  <2>3. CASE queueRows' = Applied(queueRows, h.write)
    BY <1>3, <2>1, <2>3, AppliedKeeps
  <2> QED  BY <1>2, <2>2, <2>3
<1>5. /\ sweeps' \in [IDs -> ((SUBSET RowType) \ {{}}) \cup {None}]
      /\ \A c \in IDs : c # h.sweep => sweeps'[c] = sweeps[c]
      /\ \A c \in IDs : sweeps'[c] # None => sweeps'[c] = sweeps[c]
  <2>1. sweeps \in [IDs -> ((SUBSET RowType) \ {{}}) \cup {None}]
    BY <1>1 DEF QueueTyped
  <2> QED  BY <1>2, <1>3, <2>1
<1>6. queueSent' \in Seq(SentType) /\ Sending'
  <2>1. /\ Tail(queueSent) \in Seq(SentType)
        /\ \A k \in 1 .. Len(Tail(queueSent)) :
             /\ k + 1 \in 1 .. Len(queueSent) /\ Tail(queueSent)[k] = queueSent[k + 1]
             /\ Tail(queueSent)[k].sweep # None => Tail(queueSent)[k].sweep # h.sweep
    BY <1>1, TailKeeps DEF h
  <2>2. ASSUME NEW k \in 1 .. Len(queueSent'), queueSent'[k].sweep # None
        PROVE  /\ sweeps'[queueSent'[k].sweep] # None
               /\ queueSent'[k].write = Upsert(First(sweeps'[queueSent'[k].sweep]))
    <3>1. /\ k + 1 \in 1 .. Len(queueSent) /\ queueSent'[k] = queueSent[k + 1]
          /\ queueSent[k + 1].sweep # h.sweep
      BY <1>2, <2>1, <2>2
    <3>2. queueSent[k + 1] \in SentType
      BY <1>1, <3>1 DEF QueueTyped
    <3>3. queueSent[k + 1].sweep \in IDs
      BY <2>2, <3>1, <3>2 DEF SentType
    <3>4. sweeps'[queueSent[k + 1].sweep] = sweeps[queueSent[k + 1].sweep]
      BY <1>5, <3>1, <3>3
    <3> QED  BY <1>1, <2>2, <3>1, <3>4 DEF Sending
  <2>3. ASSUME NEW k \in 1 .. Len(queueSent'), NEW l \in 1 .. Len(queueSent'),
               queueSent'[k].sweep # None, queueSent'[k].sweep = queueSent'[l].sweep
        PROVE  k = l
    <3>1. /\ k + 1 \in 1 .. Len(queueSent) /\ queueSent'[k] = queueSent[k + 1]
          /\ l + 1 \in 1 .. Len(queueSent) /\ queueSent'[l] = queueSent[l + 1]
      BY <1>2, <2>1
    <3>2. k + 1 = l + 1
      BY <1>1, <2>3, <3>1 DEF Sending
    <3> QED  BY <3>2
  <2> QED  BY <1>2, <2>1, <2>2, <2>3 DEF Sending
<1>7. QueueTyped'
  <2>1. \A c \in IDs : sweeps'[c] # None => Cardinality(sweeps'[c]) <= BatchLimit
    BY <1>1, <1>5 DEF QueueTyped
  <2> QED  BY <1>1, <1>2, <1>4, <1>5, <1>6, <2>1 DEF QueueTyped
<1>8. Ordered' /\ Marked' /\ MarkPassesNothing'
  BY <1>2, <1>4, RowsGrow
<1>9. ASSUME NEW c \in IDs
      PROVE  Closed(c)'
  BY <1>1, <1>2, <1>5 DEF Closed
<1> QED  BY <1>6, <1>7, <1>8, <1>9 DEF QInv

\* The answer to the row of a sweep moves its mark to that row: no local row lies
\* between the mark and the first of the sweep.
LEMMA AnswerKeeps ==
  ASSUME QInv, QueueBeaconAnswers
  PROVE  QInv'
<1> DEFINE h == Head(queueSent)
           b == h.sweep
           T == Tail(queueSent)
<1>1. /\ QueueTyped /\ Sending /\ Ordered /\ Marked /\ MarkPassesNothing
      /\ queueSent # <<>> /\ \A c \in IDs : Closed(c)
  BY DEF QInv, QueueBeaconAnswers
<1>2. /\ queueRows' = Applied(queueRows, h.write)
      /\ UNCHANGED <<items, enqueuedAt, settled, local, queueID, ids>>
  BY DEF QueueBeaconAnswers
<1>3. h \in SentType /\ h.write \in WriteType /\ b \in IDs \cup {None} /\ h = queueSent[1]
      /\ 1 \in 1 .. Len(queueSent)
  <2>1. h \in SentType /\ h = queueSent[1] /\ 1 \in 1 .. Len(queueSent)
    BY <1>1, TailKeeps
  <2> HIDE DEF h
  <2> QED  BY <2>1 DEF SentType
<1>4. /\ queueRows' \in RowsType /\ \A i \in Items : queueRows[i] # 0 => queueRows'[i] # 0
      /\ h.write.kind = "upsert" => queueRows'[h.write.item] # 0
  <2>1. queueRows \in RowsType
    BY <1>1 DEF QueueTyped
  <2> HIDE DEF h
  <2> QED  BY <1>2, <1>3, <2>1, AppliedKeeps
<1>5. /\ T \in Seq(SentType)
      /\ \A k \in 1 .. Len(T) :
           /\ k + 1 \in 1 .. Len(queueSent) /\ T[k] = queueSent[k + 1]
           /\ T[k].sweep # None => T[k].sweep # b
  BY <1>1, TailKeeps
<1>6. CASE b = None
  <2>1. queueSent' = T /\ UNCHANGED <<marks, sweeps>>
    BY <1>6 DEF QueueBeaconAnswers
  <2> HIDE DEF T, h
  <2>2. Sending'
    <3>1. ASSUME NEW k \in 1 .. Len(queueSent'), queueSent'[k].sweep # None
          PROVE  /\ sweeps'[queueSent'[k].sweep] # None
                 /\ queueSent'[k].write = Upsert(First(sweeps'[queueSent'[k].sweep]))
      BY <1>1, <1>5, <2>1, <3>1 DEF Sending
    <3>2. ASSUME NEW k \in 1 .. Len(queueSent'), NEW l \in 1 .. Len(queueSent'),
                 queueSent'[k].sweep # None, queueSent'[k].sweep = queueSent'[l].sweep
          PROVE  k = l
      <4>1. /\ k + 1 \in 1 .. Len(queueSent) /\ queueSent'[k] = queueSent[k + 1]
            /\ l + 1 \in 1 .. Len(queueSent) /\ queueSent'[l] = queueSent[l + 1]
        BY <1>5, <2>1
      <4>2. k + 1 = l + 1
        BY <1>1, <3>2, <4>1 DEF Sending
      <4> QED  BY <4>2
    <3> QED  BY <3>1, <3>2 DEF Sending
  <2>3. QueueTyped'
    BY <1>1, <1>2, <1>4, <1>5, <2>1 DEF QueueTyped
  <2>4. Ordered' /\ Marked' /\ MarkPassesNothing'
    BY <1>2, <1>4, <2>1, RowsGrow
  <2>5. \A c \in IDs : Closed(c)'
    BY <1>1, <1>2, <2>1 DEF Closed
  <2> QED  BY <2>2, <2>3, <2>4, <2>5 DEF QInv
<1>7. CASE b # None
  <2> DEFINE F == First(sweeps[b])
             m == enqueuedAt[F.item]
             rows == Behind(sweeps[b] \ {F}, m)
  <2>1. b \in IDs
    BY <1>3, <1>7
  <2>2. sweeps[b] # None /\ h.write = Upsert(F)
    BY <1>1, <1>3, <1>7 DEF Sending
  <2>3. sweeps[b] \in SUBSET RowType /\ sweeps[b] # {}
    BY <1>1, <2>1, <2>2 DEF QueueTyped
  <2>4. F \in sweeps[b] /\ F \in RowType /\ \A r \in sweeps[b] : F.item <= r.item
    BY <2>3, FirstIsFirst
  <2>5. F.item \in Items /\ F.item <= items /\ m > marks[b] /\ m \in Nat /\ m # 0
    <3>1. F.item \in Items
      BY <2>4 DEF RowType
    <3>2. F.item <= items /\ m > marks[b] /\ enqueuedAt[F.item] # 0
      BY <1>1, <2>1, <2>2, <2>4, <3>1 DEF Closed, Ordered
    <3>3. m \in Nat
      BY <1>1, <3>1, BoundsAssumption DEF QueueTyped
    <3> QED  BY <3>1, <3>2, <3>3
  <2>6. queueRows'[F.item] # 0
    <3>1. h.write.kind = "upsert" /\ h.write.item = F.item
      BY <2>2 DEF Upsert
    <3> QED  BY <1>4, <3>1
  <2>7. marks' = [marks EXCEPT ![b] = m] /\ Push(b, rows)
    BY <1>7 DEF QueueBeaconAnswers, MarkAfter
  <2>8. /\ sweeps' = [sweeps EXCEPT ![b] = IF rows = {} THEN None ELSE rows]
        /\ queueSent' = IF rows = {} THEN T
                        ELSE Append(T, [write |-> Upsert(First(rows)), sweep |-> b])
    BY <1>1, <2>7 DEF Push, Upsert
  <2>9. rows \in SUBSET RowType /\ rows \subseteq sweeps[b]
    BY <2>3 DEF Behind
  <2>10. /\ marks' \in [IDs -> Nat] /\ marks'[b] = m
         /\ \A c \in IDs : c # b => marks'[c] = marks[c]
         /\ \A c \in IDs : marks[c] \in Nat
    BY <1>1, <2>1, <2>5, <2>7 DEF QueueTyped
  <2>11. sweeps \in [IDs -> ((SUBSET RowType) \ {{}}) \cup {None}]
    BY <1>1 DEF QueueTyped
  <2>12. \A r \in rows : r \in sweeps[b] /\ enqueuedAt[r.item] > m
    BY DEF Behind
  <2>13. \A r \in sweeps[b] : enqueuedAt[r.item] > m => r \in rows
    BY <2>5 DEF Behind
  <2>14. \A i \in Items : enqueuedAt[i] \in Nat
    BY <1>1, BoundsAssumption DEF QueueTyped
  <2> HIDE DEF rows, T, h, F, m
  <2>15. queueSent' \in Seq(SentType) /\ Sending'
    <3>1. \A k \in 1 .. Len(T) :
            T[k].sweep # None =>
              /\ T[k].sweep # b
              /\ sweeps[T[k].sweep] # None
              /\ T[k].write = Upsert(First(sweeps[T[k].sweep]))
      BY <1>1, <1>5 DEF Sending
    <3>2. \A k, l \in 1 .. Len(T) :
            T[k].sweep # None /\ T[k].sweep = T[l].sweep => k = l
      <4> SUFFICES ASSUME NEW k \in 1 .. Len(T), NEW l \in 1 .. Len(T),
                          T[k].sweep # None, T[k].sweep = T[l].sweep
                   PROVE  k = l
        OBVIOUS
      <4>1. /\ k + 1 \in 1 .. Len(queueSent) /\ T[k] = queueSent[k + 1]
            /\ l + 1 \in 1 .. Len(queueSent) /\ T[l] = queueSent[l + 1]
        BY <1>5
      <4>2. k + 1 = l + 1
        BY <1>1, <4>1 DEF Sending
      <4> QED  BY <4>2
    <3> QED  BY <1>5, <2>1, <2>8, <2>9, <2>11, <3>1, <3>2, PushKeeps
  <2>16. QueueTyped'
    <3>1. Cardinality(rows) <= BatchLimit
      <4>1. Cardinality(sweeps[b]) <= BatchLimit
        BY <1>1, <2>1, <2>2 DEF QueueTyped
      <4>2. IsFiniteSet(sweeps[b])
        BY <2>3, RowTypeFinite, FS_Subset
      <4>3. Cardinality(rows) <= Cardinality(sweeps[b]) /\ IsFiniteSet(rows)
        BY <2>9, <4>2, FS_Subset
      <4>4. Cardinality(rows) \in Nat /\ Cardinality(sweeps[b]) \in Nat
        BY <4>2, <4>3, FS_CardinalityType
      <4> QED  BY <4>1, <4>3, <4>4, BoundsAssumption
    <3>2. (IF rows = {} THEN None ELSE rows) \in ((SUBSET RowType) \ {{}}) \cup {None}
      BY <2>9
    <3>3. sweeps' \in [IDs -> ((SUBSET RowType) \ {{}}) \cup {None}]
      BY <2>8, <2>11, <3>2
    <3>4. \A c \in IDs : sweeps'[c] # None => sweeps'[c] = rows \/ sweeps'[c] = sweeps[c]
      BY <2>8, <2>11
    <3>5. \A c \in IDs : sweeps'[c] # None => Cardinality(sweeps'[c]) <= BatchLimit
      <4> SUFFICES ASSUME NEW c \in IDs, sweeps'[c] # None
                   PROVE  Cardinality(sweeps'[c]) <= BatchLimit
        OBVIOUS
      <4>1. CASE sweeps'[c] = rows
        BY <3>1, <4>1
      <4>2. CASE sweeps'[c] = sweeps[c]
        BY <1>1, <4>2 DEF QueueTyped
      <4> QED  BY <3>4, <4>1, <4>2
    <3> QED  BY <1>1, <1>2, <1>4, <2>10, <2>15, <3>3, <3>5 DEF QueueTyped
  <2>17. Ordered'
    BY <1>1, <1>2 DEF Ordered
  <2>18. \A u : Got(u) => \E j \in Items : enqueuedAt'[j] = u /\ queueRows'[j] # 0
    BY <1>2, <1>4 DEF Got
  <2>19. \E j \in Items : enqueuedAt'[j] = m /\ queueRows'[j] # 0
    BY <1>2, <2>5, <2>6 DEF m
  <2>20. Marked'
    <3> SUFFICES ASSUME NEW c \in IDs, marks'[c] # 0
                 PROVE  \E j \in Items : enqueuedAt'[j] = marks'[c] /\ queueRows'[j] # 0
      BY DEF Marked, Got
    <3>1. CASE c = b
      BY <2>10, <2>19, <3>1
    <3>2. CASE c # b
      BY <1>1, <2>10, <2>18, <3>2 DEF Marked
    <3> QED  BY <3>1, <3>2
  <2>21. MarkPassesNothing'
    <3> SUFFICES ASSUME NEW c \in IDs, NEW i \in Items, local[i] # 0, enqueuedAt[i] <= marks'[c]
                 PROVE  \E j \in Items : enqueuedAt'[j] = enqueuedAt[i] /\ queueRows'[j] # 0
      BY <1>2 DEF MarkPassesNothing
    <3>1. CASE enqueuedAt[i] <= marks[c]
      <4>1. Got(enqueuedAt[i])
        BY <1>1, <3>1 DEF MarkPassesNothing, Got
      <4> QED  BY <2>18, <4>1
    <3>2. CASE ~(enqueuedAt[i] <= marks[c])
      <4>1. c = b /\ enqueuedAt[i] <= m /\ enqueuedAt[i] > marks[b]
        BY <2>10, <2>14, <3>2
      <4>2. CASE enqueuedAt[i] = m
        BY <2>19, <4>2
      <4>3. CASE enqueuedAt[i] # m
        <5>1. enqueuedAt[i] < m
          BY <2>5, <2>14, <4>1, <4>3
        <5>2. PICK s \in sweeps[b] : s.item = i
          BY <1>1, <2>1, <2>2, <2>4, <4>1, <5>1 DEF Closed, m
        <5>3. F.item <= i /\ i <= items
          BY <1>1, <2>4, <5>2 DEF Ordered
        <5>4. m <= enqueuedAt[i]
          BY <1>1, <2>5, <5>3 DEF Ordered, m
        <5> QED  BY <2>5, <2>14, <5>1, <5>4
      <4> QED  BY <4>2, <4>3
    <3> QED  BY <3>1, <3>2
  <2>22. ASSUME NEW c \in IDs
         PROVE  Closed(c)'
    <3>1. CASE c # b
      <4>1. sweeps'[c] = sweeps[c] /\ marks'[c] = marks[c]
        BY <2>8, <2>10, <2>11, <3>1
      <4>2. Closed(c)
        BY <1>1
      <4> QED  BY <1>2, <4>1, <4>2 DEF Closed
    <3>2. CASE c = b
      <4>1. sweeps'[b] # None => sweeps'[b] = rows
        BY <2>1, <2>8, <2>11
      <4>2. ASSUME NEW r \in rows
            PROVE  r.item <= items' /\ enqueuedAt'[r.item] > marks'[b]
        BY <1>1, <1>2, <2>1, <2>2, <2>10, <2>12 DEF Closed
      <4>3. ASSUME NEW r \in rows, NEW i \in Items,
                   local'[i] # 0, enqueuedAt'[i] > marks'[b], enqueuedAt'[i] < enqueuedAt'[r.item]
            PROVE  \E s \in rows : s.item = i
        <5>1. r \in sweeps[b] /\ local[i] # 0 /\ enqueuedAt[i] > m /\ enqueuedAt[i] < enqueuedAt[r.item]
          BY <1>2, <2>10, <2>12, <4>3
        <5>2. enqueuedAt[i] > marks[b]
          BY <2>1, <2>5, <2>10, <2>14, <5>1
        <5>3. PICK s \in sweeps[b] : s.item = i
          BY <1>1, <2>1, <2>2, <5>1, <5>2 DEF Closed
        <5>4. s \in rows
          BY <2>13, <5>1, <5>3
        <5> QED  BY <5>3, <5>4
      <4> QED  BY <3>2, <4>1, <4>2, <4>3 DEF Closed
    <3> QED  BY <3>1, <3>2
  <2> QED  BY <2>15, <2>16, <2>17, <2>20, <2>21, <2>22 DEF QInv
<1> QED  BY <1>6, <1>7

\* A step that changes at most which queue beacon is there keeps the invariant of the marks.
LEMMA MarksKept ==
  ASSUME QInv,
         UNCHANGED <<items, enqueuedAt, settled, local, queueRows, queueSent, marks, sweeps, ids>>,
         queueID' \in (1 .. ids) \cup {None}
  PROVE  QInv'
<1>1. QueueTyped' /\ Sending'
  BY DEF QInv, QueueTyped, Sending
<1>2. Ordered' /\ Marked' /\ MarkPassesNothing' /\ \A b \in IDs : Closed(b)'
  BY DEF QInv, Ordered, Marked, MarkPassesNothing, Got, Closed
<1> QED  BY <1>1, <1>2 DEF QInv

\* Every step keeps the invariant of the marks.
LEMMA StepMarks ==
  ASSUME QInv, [Next]_vars
  PROVE  QInv'
<1>0. /\ ids \in 0 .. MaxIDs /\ queueID \in (1 .. ids) \cup {None} /\ 1 .. ids \subseteq IDs
  BY BoundsAssumption DEF QInv, QueueTyped, IDs
<1>1. CASE Enqueue
  BY <1>1, EnqueueKeeps
<1>2. CASE \E i \in Items : Settle(i)
  BY <1>2, SettleKeeps
<1>3. CASE RegisterQueueBeacon
  <2>1. /\ ids' = ids + 1 /\ queueID' = ids' /\ ids < MaxIDs /\ OnBeaconConnected(ids')
        /\ UNCHANGED <<items, enqueuedAt, settled, local, queueRows, marks>>
    BY <1>3 DEF RegisterQueueBeacon
  <2>2. ids' \in 0 .. MaxIDs /\ ids' \in IDs /\ queueID' \in 1 .. ids'
    BY <1>0, <2>1, BoundsAssumption DEF IDs
  <2> QED  BY <2>1, <2>2, ConnectedKeeps
<1>4. CASE RefreshQueueBeacon
  <2>1. /\ queueID \in IDs /\ OnBeaconConnected(queueID)
        /\ UNCHANGED <<items, enqueuedAt, settled, local, queueRows, marks, ids, queueID>>
    BY <1>0, <1>4 DEF RefreshQueueBeacon
  <2> QED  BY <1>0, <2>1, ConnectedKeeps
<1>5. CASE QueueBeaconLeaves
  BY <1>5, MarksKept DEF QueueBeaconLeaves
<1>6. CASE QueueBeaconAnswers
  BY <1>6, AnswerKeeps
<1>7. CASE QueueWriteTimesOut
  BY <1>7, TimeOutKeeps
<1>8. CASE DataBeaconArrives \/ RefreshDataBeacon \/ DataBeaconLeaves
  BY <1>0, <1>8, MarksKept
     DEF DataBeaconArrives, RefreshDataBeacon, DataBeaconLeaves, queueVars
<1>9. CASE \E a \in [id : 1 .. dataIDs, to : Connections] \cup {None} :
             SetPersistenceAssignment(a)
  BY <1>0, <1>9, MarksKept DEF SetPersistenceAssignment, queueVars
<1>10. CASE \E b \in DataIDs : BootstrapEnsures(b) \/ BootstrapEnables(b) \/ BootstrapFails(b)
  BY <1>0, <1>10, MarksKept
     DEF BootstrapEnsures, BootstrapEnables, BootstrapFails, queueVars
<1>11. CASE UNCHANGED vars
  BY <1>0, <1>11, MarksKept DEF vars, queueVars
<1> QED  BY <1>1, <1>2, <1>3, <1>4, <1>5, <1>6, <1>7, <1>8, <1>9, <1>10, <1>11 DEF Next

\* The inductive invariant of sweeps and marks holds.
THEOREM MarksInvariant == Spec => []QInv
<1>1. Init => QInv
  BY InitMarks
<1>2. QInv /\ [Next]_vars => QInv'
  BY StepMarks
<1> QED  BY <1>1, <1>2, PTL DEF Spec

\* However many items are enqueued, sweeps fail and beacons leave and come back,
\* the mark of a BeaconID passes no local row that the beacon did not get, but for
\* rows that share their EnqueuedAt with one that it got.
THEOREM SweepsSkipNothing == Spec => []MarkPassesNothing
<1>1. QInv => MarkPassesNothing
  BY DEF QInv
<1> QED  BY <1>1, MarksInvariant, PTL

\* The types, among them that a sweep in flight has at least one and at most
\* BatchLimit rows to push.
THEOREM PersistenceTypes == Spec => []TypeOK
<1>1. IInv /\ QInv => TypeOK
  <2> SUFFICES ASSUME IInv, QInv
               PROVE  TypeOK
    OBVIOUS
  <2>1. Typed /\ QueueTyped /\ Marked
    BY DEF IInv, QInv
  <2>2. marks \in [IDs -> {0} \cup {enqueuedAt[i] : i \in Items}]
    BY <2>1 DEF QueueTyped, Marked, Got
  <2> QED  BY <2>1, <2>2 DEF Typed, QueueTyped, SentType, TypeOK
<1>2. Init => IInv
  BY InitReady
<1>3. IInv /\ [Next]_vars => IInv'
  BY StepReady
<1> QED  BY <1>1, <1>2, <1>3, MarksInvariant, PTL DEF Spec
=============================================================================
