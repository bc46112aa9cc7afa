--------------------------- MODULE QueuePersistence ---------------------------
(***************************************************************************)
(* Where the history of the work queue is kept                             *)
(* (source/services/Ultravisor-QueuePersistenceBridge.cjs): each write of  *)
(* the coordinator goes to an assigned databeacon once its tables are      *)
(* prepared, else to a beacon with the capability QueuePersistence, else   *)
(* to the local store; and a queue beacon that registers is sent the rows  *)
(* of the local store behind its high-water mark.                          *)
(*                                                                         *)
(* An item is a number, in the order of EnqueuedAt; its row is 0 (none),   *)
(* 1 (as enqueued) or 2 (as settled).  Rows stand for their events too.    *)
(* A beacon executes what is sent to it in order; a write that fails or is *)
(* not answered within its five seconds is given up, executed or not.      *)
(***************************************************************************)
EXTENDS Naturals, Sequences, FiniteSets

CONSTANTS
  MaxItems,     \* bound: work items
  BatchLimit,   \* FLUSH_BATCH_LIMIT
  Connections,  \* the databeacon's database connections
  None,
  MaxIDs,       \* bound: BeaconIDs the queue beacon is given
  MaxDataIDs    \* bound: BeaconIDs the databeacon is given

Items == 1 .. MaxItems
IDs == 1 .. MaxIDs
DataIDs == 1 .. MaxDataIDs

ASSUME BoundsAssumption ==
  /\ MaxItems \in Nat /\ BatchLimit \in Nat \ {0} /\ MaxIDs \in Nat /\ MaxDataIDs \in Nat

RowType == [item : Items, row : 1 .. 2]

\* A set of connections that is known to be empty is not one that is not known, and
\* the rows of a sweep are not None.
ASSUME NoneAssumption ==
  /\ None \notin Nat
  /\ \A known \in SUBSET Connections : known # None
  /\ \A rows \in SUBSET RowType : rows # None

VARIABLES
  items,        \* work items enqueued so far
  enqueuedAt,   \* item -> EnqueuedAt, in milliseconds
  settled,      \* those whose end was written
  local,        \* the rows of the local store
  queueID,      \* the BeaconID of the registered queue beacon, or None
  ids,          \* BeaconIDs given to it so far
  queueRows,    \* its rows
  queueSent,    \* writes sent to it and not answered
  marks,        \* _FlushHWMs
  sweeps,       \* _FlushInFlight: the rows a sweep has to push, or None
  dataID,       \* the BeaconID of the registered databeacon, or None
  dataIDs,      \* BeaconIDs given to it so far
  assigned,     \* _PersistenceAssignment: a BeaconID and a connection, or None
  bootstrap,    \* _BootstrapInFlight: BeaconID -> the connection and the step, or None
  endpoints,    \* _EndpointBaseByBeacon: BeaconID -> None, {} or the connection named
  bootstrapped, \* _BootstrappedBeacons
  prepared      \* connections with the UV tables

queueVars == <<queueID, ids, queueRows, queueSent, marks, sweeps>>
dataVars == <<dataID, dataIDs>>
routeVars == <<dataVars, assigned, bootstrap, endpoints, bootstrapped, prepared>>
vars == <<items, enqueuedAt, settled, local, queueVars, routeVars>>

RowsType == [Items -> 0 .. 2]
WriteType == [kind : {"upsert", "update"}, item : Items, row : 1 .. 2]

TypeOK ==
  /\ items \in 0 .. MaxItems /\ settled \subseteq 1 .. items
  /\ enqueuedAt \in [Items -> 0 .. MaxItems]
  /\ local \in RowsType /\ queueRows \in RowsType
  /\ ids \in 0 .. MaxIDs /\ queueID \in (1 .. ids) \cup {None}
  /\ queueSent \in Seq([write : WriteType, sweep : IDs \cup {None}])
  /\ marks \in [IDs -> {0} \cup {enqueuedAt[i] : i \in Items}]
  /\ sweeps \in [IDs -> ((SUBSET RowType) \ {{}}) \cup {None}]
  /\ \A b \in IDs : sweeps[b] # None => Cardinality(sweeps[b]) <= BatchLimit
  /\ dataIDs \in 0 .. MaxDataIDs /\ dataID \in (1 .. dataIDs) \cup {None}
  /\ assigned \in [id : 1 .. dataIDs, to : Connections] \cup {None}
  /\ bootstrap \in [DataIDs -> [to : Connections, enabling : BOOLEAN] \cup {None}]
  /\ endpoints \in [DataIDs -> (SUBSET Connections) \cup {None}]
  /\ bootstrapped \subseteq 1 .. dataIDs /\ prepared \subseteq Connections

NoRows == [i \in Items |-> 0]

Init ==
  /\ items = 0 /\ enqueuedAt = [i \in Items |-> 0] /\ settled = {} /\ local = NoRows
  /\ queueID = None /\ ids = 0 /\ queueRows = NoRows /\ queueSent = <<>>
  /\ marks = [b \in IDs |-> 0] /\ sweeps = [b \in IDs |-> None]
  /\ dataID = None /\ dataIDs = 0 /\ assigned = None
  /\ bootstrap = [b \in DataIDs |-> None] /\ endpoints = [b \in DataIDs |-> None]
  /\ bootstrapped = {} /\ prepared = {}

-----------------------------------------------------------------------------
(***************************************************************************)
(* Writes.                                                                 *)
(***************************************************************************)
\* What a store makes of a write: an update of a row it does not have does nothing.
Applied(rows, w) ==
  IF w.kind = "upsert" \/ rows[w.item] # 0 THEN [rows EXCEPT ![w.item] = w.row] ELSE rows

\* Mutant: the assignment is enough.
MutantMeadowProxyMode == assigned # None

\* isMeadowProxyMode: whether the databeacon is there is not asked.
MeadowProxyMode == assigned # None /\ assigned.id \in bootstrapped

\* The connection a request's path names: what EnableEndpoint answered, else the
\* bare table, which the databeacon has if the assigned connection does.
Endpoint ==
  LET known == endpoints[assigned.id]
  IN IF known \in {None, {}} THEN assigned.to ELSE CHOOSE c \in known : TRUE

\* _writeOrLocal.  Of a write to the databeacon only the Endpoint matters here.
WriteOrLocal(w) ==
  \/ /\ MeadowProxyMode
     /\ UNCHANGED <<queueSent, local>>
  \/ /\ ~MeadowProxyMode /\ queueID # None
     /\ queueSent' = Append(queueSent, [write |-> w, sweep |-> None])
     /\ UNCHANGED local
  \/ /\ ~MeadowProxyMode /\ queueID = None
     /\ local' = Applied(local, w)
     /\ UNCHANGED queueSent

LastEnqueuedAt == IF items = 0 THEN 0 ELSE enqueuedAt[items]

\* enqueueWorkItem writes a new item's row, in the millisecond of the last or later.
Enqueue ==
  /\ items < MaxItems
  /\ items' = items + 1
  /\ \E t \in {LastEnqueuedAt, LastEnqueuedAt + 1} :
       t > 0 /\ enqueuedAt' = [enqueuedAt EXCEPT ![items'] = t]
  /\ WriteOrLocal([kind |-> "upsert", item |-> items', row |-> 1])
  /\ UNCHANGED <<settled, queueID, ids, queueRows, marks, sweeps, routeVars>>

\* completeWorkItem and the other ends of an item update it.
Settle(i) ==
  /\ i <= items /\ i \notin settled
  /\ settled' = settled \cup {i} /\ UNCHANGED enqueuedAt
  /\ WriteOrLocal([kind |-> "update", item |-> i, row |-> 2])
  /\ UNCHANGED <<items, queueID, ids, queueRows, marks, sweeps, routeVars>>

-----------------------------------------------------------------------------
(***************************************************************************)
(* The queue beacon and the sweep of the local store to it.                *)
(***************************************************************************)
LocalRows == {r \in RowType : r.row = local[r.item]}

\* The first rows by EnqueuedAt, read at once when the sweep starts.
Batch == {r \in LocalRows :
            Cardinality({s \in LocalRows : s.item < r.item}) < BatchLimit}

\* Those behind a mark.
Behind(rows, mark) == {r \in rows : enqueuedAt[r.item] > mark}

First(rows) == CHOOSE r \in rows : \A s \in rows : r.item <= s.item

\* The next row of sweep b is sent; with none left the sweep is over.
Push(b, rows) ==
  /\ sweeps' = [sweeps EXCEPT ![b] = IF rows = {} THEN None ELSE rows]
  /\ queueSent' =
       LET sent == IF queueSent # <<>> /\ Head(queueSent).sweep = b THEN Tail(queueSent)
                   ELSE queueSent
       IN IF rows = {} THEN sent
          ELSE Append(sent, [write |-> [kind |-> "upsert", item |-> First(rows).item,
                                        row |-> First(rows).row],
                             sweep |-> b])

\* onBeaconConnected.
OnBeaconConnected(b) ==
  IF sweeps[b] = None THEN Push(b, Behind(Batch, marks[b]))
  ELSE UNCHANGED <<sweeps, queueSent>>

\* The queue beacon registers and is given a BeaconID.
RegisterQueueBeacon ==
  /\ queueID = None /\ ids < MaxIDs
  /\ ids' = ids + 1 /\ queueID' = ids'
  /\ OnBeaconConnected(ids')
  /\ UNCHANGED <<items, enqueuedAt, settled, local, queueRows, marks, routeVars>>

\* It registers again without having left, and keeps its BeaconID.
RefreshQueueBeacon ==
  /\ queueID # None
  /\ OnBeaconConnected(queueID)
  /\ UNCHANGED <<items, enqueuedAt, settled, local, queueID, ids, queueRows, marks,
                 routeVars>>

QueueBeaconLeaves ==
  /\ queueID # None
  /\ queueID' = None
  /\ UNCHANGED <<items, enqueuedAt, settled, local, ids, queueRows, queueSent,
                 marks, sweeps, routeVars>>

\* Mutant: the mark moves to the end of the batch with its first row.
MutantMarkAfter(b) ==
  enqueuedAt[(CHOOSE r \in sweeps[b] : \A s \in sweeps[b] : s.item <= r.item).item]

\* The EnqueuedAt of the row that was pushed.
MarkAfter(b) == enqueuedAt[First(sweeps[b]).item]

\* The beacon executes the first write sent to it.  If it came from a sweep, the
\* mark moves, is saved, and the sweep goes on behind it.
QueueBeaconAnswers ==
  /\ queueID # None /\ queueSent # <<>>
  /\ LET w == Head(queueSent)
         b == w.sweep
     IN /\ queueRows' = Applied(queueRows, w.write)
        /\ IF b = None
           THEN queueSent' = Tail(queueSent) /\ UNCHANGED <<marks, sweeps>>
           ELSE /\ marks' = [marks EXCEPT ![b] = MarkAfter(b)]
                /\ Push(b, Behind(sweeps[b] \ {First(sweeps[b])}, MarkAfter(b)))
  /\ UNCHANGED <<items, enqueuedAt, settled, local, queueID, ids, routeVars>>

\* Mutant: a sweep that fails stays in flight.
MutantAbort(b) == UNCHANGED sweeps

\* Mutant: the rows of a sweep that fails are dropped, and it stays in flight.
MutantAbortEmpties(b) == sweeps' = [sweeps EXCEPT ![b] = {}]

\* A sweep ends with its first failure.
Abort(b) == sweeps' = [sweeps EXCEPT ![b] = None]

\* The first write sent is given up after TimeoutMs, executed or not.
QueueWriteTimesOut ==
  /\ queueSent # <<>>
  /\ queueSent' = Tail(queueSent)
  /\ queueRows' \in {queueRows, Applied(queueRows, Head(queueSent).write)}
  /\ LET b == Head(queueSent).sweep
     IN IF b = None THEN UNCHANGED sweeps ELSE Abort(b)
  /\ UNCHANGED <<items, enqueuedAt, settled, local, queueID, ids, marks, routeVars>>

-----------------------------------------------------------------------------
(***************************************************************************)
(* The databeacon.                                                         *)
(***************************************************************************)
\* _handleMeadowProxyBootstrap(b), with the assignment and state as they will be.
HandleBootstrap(b) ==
  bootstrap' = IF /\ assigned' # None /\ assigned'.id = b
                  /\ b \notin bootstrapped' /\ bootstrap[b] = None
               THEN [bootstrap EXCEPT ![b] = [to |-> assigned'.to, enabling |-> FALSE]]
               ELSE bootstrap

\* The databeacon registers, under a BeaconID nobody has assigned yet: requests may
\* reach it all the same, since they are dispatched by capability.
DataBeaconArrives ==
  /\ dataID = None /\ dataIDs < MaxDataIDs
  /\ dataIDs' = dataIDs + 1 /\ dataID' = dataIDs'
  /\ UNCHANGED <<items, enqueuedAt, settled, local, queueVars, assigned,
                 bootstrap, endpoints, bootstrapped, prepared>>

\* It registers again without having left.
RefreshDataBeacon ==
  /\ dataID # None
  /\ UNCHANGED <<assigned, bootstrapped>>
  /\ HandleBootstrap(dataID)
  /\ UNCHANGED <<items, enqueuedAt, settled, local, queueVars, dataID, dataIDs,
                 endpoints, prepared>>

DataBeaconLeaves ==
  /\ dataID # None
  /\ dataID' = None
  /\ UNCHANGED <<items, enqueuedAt, settled, local, queueVars, dataIDs,
                 assigned, bootstrap, endpoints, bootstrapped, prepared>>

\* setPersistenceAssignment: the state of a BeaconID is dropped when another one is
\* assigned or none, not when it is assigned with another connection.
SetPersistenceAssignment(a) ==
  /\ assigned' = a
  /\ IF assigned # None /\ (a = None \/ a.id # assigned.id)
     THEN /\ bootstrapped' = bootstrapped \ {assigned.id}
          /\ endpoints' = [endpoints EXCEPT ![assigned.id] = None]
     ELSE UNCHANGED <<bootstrapped, endpoints>>
  /\ IF a # None /\ a.id = dataID THEN HandleBootstrap(dataID) ELSE UNCHANGED bootstrap
  /\ UNCHANGED <<items, enqueuedAt, settled, local, queueVars, dataVars, prepared>>

\* EnsureSchema, Introspect and UpdateProxyConfig succeed on the databeacon that is
\* there, and the endpoints of the BeaconID are begun.
BootstrapEnsures(b) ==
  /\ bootstrap[b] # None /\ ~bootstrap[b].enabling /\ dataID # None
  /\ bootstrap' = [bootstrap EXCEPT ![b].enabling = TRUE]
  /\ prepared' = prepared \cup {bootstrap[b].to}
  /\ endpoints' = [endpoints EXCEPT ![b] = IF @ = None THEN {} ELSE @]
  /\ UNCHANGED <<items, enqueuedAt, settled, local, queueVars, dataVars, assigned,
                 bootstrapped>>

\* Mutant: a bootstrap that fails counts as done.
MutantBootstrapFailed(b) == bootstrapped' = bootstrapped \cup {b}

BootstrapFailed(b) == UNCHANGED bootstrapped

\* EnableEndpoint succeeds for every table; if the endpoints were dropped meanwhile
\* the bootstrap throws.
BootstrapEnables(b) ==
  /\ bootstrap[b] # None /\ bootstrap[b].enabling /\ dataID # None
  /\ bootstrap' = [bootstrap EXCEPT ![b] = None]
  /\ IF endpoints[b] = None
     THEN BootstrapFailed(b) /\ UNCHANGED endpoints
     ELSE /\ bootstrapped' = bootstrapped \cup {b}
          /\ endpoints' = [endpoints EXCEPT ![b] = {bootstrap[b].to}]
  /\ UNCHANGED <<items, enqueuedAt, settled, local, queueVars, dataVars, assigned,
                 prepared>>

\* One of its steps fails or is not answered in time.
BootstrapFails(b) ==
  /\ bootstrap[b] # None
  /\ bootstrap' = [bootstrap EXCEPT ![b] = None]
  /\ BootstrapFailed(b)
  /\ UNCHANGED <<items, enqueuedAt, settled, local, queueVars, dataVars, assigned,
                 endpoints, prepared>>

Next ==
  \/ Enqueue \/ \E i \in Items : Settle(i)
  \/ RegisterQueueBeacon \/ RefreshQueueBeacon \/ QueueBeaconLeaves
  \/ QueueBeaconAnswers \/ QueueWriteTimesOut
  \/ DataBeaconArrives \/ RefreshDataBeacon \/ DataBeaconLeaves
  \/ \E a \in [id : 1 .. dataIDs, to : Connections] \cup {None} :
       SetPersistenceAssignment(a)
  \/ \E b \in DataIDs : BootstrapEnsures(b) \/ BootstrapEnables(b) \/ BootstrapFails(b)

\* The timers of dispatchAndWait fire.
Spec == Init /\ [][Next]_vars /\ WF_vars(QueueWriteTimesOut)

-----------------------------------------------------------------------------
(***************************************************************************)
(* Properties.                                                             *)
(***************************************************************************)
\* A mark passes no row of the local store that the beacon did not get, unless it
\* shares its EnqueuedAt with one that the beacon got, however sweeps fail, are
\* cut off by a departure or meet the writes of a new registration.
MarkPassesNothing ==
  \A b \in IDs : \A i \in Items :
    local[i] # 0 /\ enqueuedAt[i] <= marks[b] =>
      \E j \in Items : enqueuedAt[j] = enqueuedAt[i] /\ queueRows[j] # 0

\* A sweep that was started ends, so that a later registration may start another.
SweepsEnd == \A b \in IDs : sweeps[b] # None ~> sweeps[b] = None

\* While writes go to the databeacon they name tables that a bootstrap has prepared,
\* whatever assignments change while one is in flight.
RequestsFindTheirTables == MeadowProxyMode => Endpoint \in prepared

\* "a 'set but offline' assignment doesn't accidentally route writes to nowhere"
\* (getPersistenceBeacon).
OfflineAssignmentIsBypassed == MeadowProxyMode => dataID # None
=============================================================================
