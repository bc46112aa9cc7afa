# A verification of the Ultravisor hub

This directory models the hub of Ultravisor, the Node process that runs
operations (graphs of tasks) and hands single steps of them, *work items*, to
remote *beacons*, and checks what the hub promises about that work. Paths below
are relative to the repository; `Coordinator`, `Scheduler` stand for
`source/services/Ultravisor-Beacon-Coordinator.cjs` and
`source/services/Ultravisor-Beacon-Scheduler.cjs`, `Engine`, `Bridge`, `Client`
and `Server` for `source/services/Ultravisor-ExecutionEngine.cjs`,
`source/services/Ultravisor-QueuePersistenceBridge.cjs`,
`source/beacon/Ultravisor-Beacon-Client.cjs` and
`source/web_server/Ultravisor-API-Server.cjs`.

## 1. The system

### 1.1 Parts

| Part | State it keeps | Operations | What makes it correct |
|---|---|---|---|
| **Beacon coordinator** (`Coordinator`) | `_Beacons` with each beacon's `CurrentWorkItems`, `_WorkQueue`, `_AffinityBindings`, `_DirectDispatchCallbacks`, `_StreamDispatchHandlers`, action catalog | register / deregister / heartbeat; enqueue with affinity routing; push, poll; progress, complete, fail; direct dispatch with a timer; `_checkTimeouts` | work is held by beacons that exist and count it; strict affinity; admission; capacity; one answer per requester; an end is an end |
| **Beacon scheduler** (`Scheduler`) | none of its own but timers and event subscribers: it writes the coordinator's queue and records | dispatch tick (priority order, least loaded beacon), health tick (stalls), cancel, reorder | priority is honoured; nothing handed out is forgotten; the coordinator's guarantees survive |
| **Queue journal** (`persistence/Ultravisor-Beacon-QueueJournal.cjs`) | append-only file, snapshot file, write count | append, compact, replay | a restart loses no unfinished work, revives no finished work, and keeps what restricts it |
| **Execution engine, manifest** (`Ultravisor-ExecutionEngine.cjs`, `-ExecutionManifest.cjs`) | per run: status, queue of events, waiting tasks, outputs | start, run queue, pause at a task, resume, force an error, time out, finalize | a run ends once; a waiting run is resumed by what it waits for; events of a run keep their order |
| **HTTP and WebSocket server** (`web_server/Ultravisor-API-Server.cjs`) | sessions, one socket per beacon, subscriptions, buffers of events | REST routes, socket registration, push of a frame, replay, cleanup on close | a closed socket affects only its own connection; a subscriber that comes back misses nothing unawares |
| **Queue persistence and manifest bridges** | chosen backend (a persistence beacon or the local store), bootstrap state | write-through, read, bootstrap to a beacon that connects | no record is lost when the backend changes |
| **Queue, fleet and timeline stores** | SQLite tables | insert, update, query, purge | - |
| **Fleet manager** (`Ultravisor-FleetManager.cjs`) | per beacon and model: desired and installed state, installations at work | install, sync, filter dispatch, drift | one installation at a time, the filter follows the state |
| **Reachability matrix** | probe results per pair of beacons | record, resolve a transfer strategy | the strategy chosen is reachable |
| **Observer and its policy** | timers, last verdict per beacon and item | sweep, verify, mark | a verdict is made only from evidence |
| **Admission policy, auth bridge** | sessions, admitted beacons | decide on a join request, authenticate | nothing is admitted that the mode refuses |
| **Long polls** | waiters per key, timers | wait, notify, expire | every waiter is answered once, and its cursor skips nothing |
| **Hypervisor, schedule, cron events** | schedule entries, armed jobs | schedule, arm, fire, persist | one job per armed entry |
| **State manager, output store** | an address space per run, lifted outputs | resolve, set, lift, hydrate | a lifted value reads back |
| **Run manager** | runs by idempotency key | start, end | a key starts one run |
| **Timeline aggregator, projector** | buckets | fold events, roll up | a total equals what was folded |
| **Beacon client and executor** (`source/beacon/`) | connection, items at work | register, poll or listen, execute, report, reconnect | one pair of intervals, one registration; a lost session comes back |
| **Task types**, operation auditor, action defaults, directory distributor, CLI | tables and configuration | step bodies, static checks, file transfer | - |

### 1.2 How they interact

A task of a running operation calls `enqueueWorkItem`. The coordinator routes it
(by beacon name, by an affinity binding), and offers it at once to beacons
with an open socket; beacons without one fetch work with `pollForWork`. The
beacon reports with `completeWorkItem` / `failWorkItem`, naming nothing but the
item. The coordinator then frees the slot, walks the queue for the next item
(`_dispatchPendingWorkItems`), and tells the requester: an operation by
`ExecutionEngine.resumeOperation`, an HTTP caller by the callback registered by
`dispatchAndWait` or `dispatchAndStream`. The scheduler, on timers of its own,
reads the coordinator's maps directly, dispatches pending items, stalls
silent ones and finalizes their runs. The coordinator tells the journal and the
persistence bridge of what it does to an item, and the engine tells the server of what a
run does, which numbers the events, keeps the last of them, and sends them to
subscribed sockets and waiting polls. All run in one Node process: a handler
is atomic, and what is interleaved are handlers, timers, sockets and the engine's
callbacks.

### 1.3 What is hard in it

* a report carries no attempt and no beacon: late reports of earlier holders
  meet an item that was released, retried, stalled or finished meanwhile;
* four paths hand out work (push of unassigned work, push of assigned work,
  poll, scheduler tick), each with its own admission checks, counters and stamps;
* five paths take it back (report, timeout, stall, deregistration, direct-dispatch
  timer), each undoing a different part of what was done;
* a push may fail after the item was stamped, bound and listed;
* handlers end in a walk of the queue that runs while they are half done (a
  finished item is still queued, an expired one not yet removed);
* the timeout checker is a separate timer which the CLI does not start;
* a crash leaves the journal's idea of the queue, which has fewer fields;
* a run's loop is suspended in a task while reports, stalls, users and other
  tasks change the same run, and some of them start a loop of their own;
* a run pauses and goes on, but its stream of events is closed at each pause;
* the sweep of local history to a beacon, the bootstrap of a databeacon and the
  reconnection of a client all await an answer per step, while what they read
  before the await changes.

`PROJECT.json` lists each hazard at its line, with the properties that watch it.

## 2. Plan

Done:

1. `BeaconCoordinator`, the queue and its beacons; `WorkDispatch`, what a requester
   sees of it, and the refinement between them.
2. `BeaconScheduler`, over the same state; `HubSpec` is the process as the CLI
   starts it.
3. `QueueJournal`: append, compaction in its three file operations, a crash
   between any two, replay and `restoreFromJournal`.
4. `ExecutionEngine` with the manifest.
5. `RunEvents` and `LongPolls`, the two ways a client follows what happens.
6. `QueuePersistence`, where the history of the queue is kept.
7. `BeaconClient`, a beacon that polls, and the server's record of it.
8. Proofs about all of them (section 5): each invariant and each action property of the
   passing runs, and the refinement.

Left, in this order:

* `BeaconSockets`: two sockets of one beacon and the late close event of the old
  one, refining `RegisterBeacon` and the closing of a socket;
* the composition of `ExecutionEngine` with the queue: here each has a small
  model of the other (`work` in the engine, `resuming` in the coordinator);
* `FleetManager`, `RunManager`, `Hypervisor`;
* the pure parts as operators against reference definitions: transfer
  strategies, admission, the observer's verdicts, the timeline's buckets;
* in `QueueJournal`, writes that fail and affinity bindings;
* proofs: the invariants of these modules.

Instances stay small: two beacons, two or three items, one crash. Modules that are
proved about have no recursive operators; a fold is a recursive function of a position
(`Applied` of the journal, `Without` of the engine), a batch or a page a set of which
the least element comes first.

## 3. What is modelled

### 3.1 `BeaconCoordinator`

| Variable | Program | Abstraction |
|---|---|---|
| `beacons` | `_Beacons[id].Name`, `.Status` | ids number the registrations that created a record, in order; `New` and `Gone` mean no record |
| `channel` | `_BeaconWebSockets` | `none`, `open`, or `closing` (still mapped, `readyState` no longer `OPEN`) |
| `currentWorkItems` | `.CurrentWorkItems` | a bag: how often an item is listed (it is pushed without a check in one path); `Load` counts the `Entries`, the length of the list |
| `workQueue` | `_WorkQueue` | items number the `enqueueWorkItem` calls; `New` and `Gone` mean not queued; a gone item keeps its other fields, which nothing reads |
| `bindings` | `_AffinityBindings` | the bound beacon; expiry may happen whenever a binding is looked at or purged |
| `callbacks` | `_DirectDispatchCallbacks`, `_StreamDispatchHandlers` | the items with one |
| `resuming` | `resumeOperation` calls not called back | |
| `up` | the process | |
| `executions`, `handOvers`, `notified` | not in the program | who works on what, hand-overs, answers: history for the properties |

One action per handler, named as it is: `RegisterBeacon`, `DeregisterBeacon`
(also the socket's close event), `CloseSocket`, `Heartbeat`, `EnqueueWorkItem`
(with the callback a direct dispatch adds at once), `PollAssigned` and
`PollPending` (the two passes of `pollForWork`), `CompleteWorkItem`,
`FailWorkItem`, `UpdateProgress`, `DirectDispatchTimeout`, and the loops of
`_checkTimeouts`: `TimeOutWorkItem`, `RequeueRetry`, `MissHeartbeat`,
`ClearAffinityBinding`. A walk of the queue is part of the action that ends with
it: `Walk` says which beacon each item of the walk goes to (`push`), by
the checks of `_pushAssignedWorkItem` and `_tryPushToWebSocketBeacon` at that
item's turn, with the stamps and the binding that a failed push leaves behind.
`resumeOperation` is external to the module: it calls back within the handler,
later (`OperationResumed`), or refuses, in which case the item stays in the
queue in its final status. Reports may be lost or refused at any time
(`LoseReport`).

Left out: clocks (a timer may fire whenever the code allows it; `LastEventAt`
is `old` after a silence longer than the stall threshold, which `FallSilent`
brings about), payloads, logs, results, uploads, partial frames of a stream,
the action catalog, telemetry, the journal and the stores. A beacon's capacity
and capabilities are functions of its name. The retry backoff is a delay,
hence a choice of when `RequeueRetry` happens.

### 3.2 `BeaconScheduler`

`BeaconScheduler` EXTENDS the coordinator, because the scheduler writes its
maps. `DispatchTick` takes the pending items in the order of
`_compareDispatchPriority`, cancels the flagged ones, and gives each of the others
to the least loaded beacon that `_beaconCanTake`; whether the push
that follows succeeds, the item is `Dispatched`. `StallWorkItem` is
`_maybeMarkStalled` with the `stallWorkItem` of the coordinator and the
finalization of the run; `CancelWaiting` / `CancelAtWork` are the branches of
`requestCancel`; `ReorderWorkItem` moves the priority past the neighbour's.
`HubSpec` is the process started by `source/cli/Ultravisor-CLIProgram.cjs`, where
nothing calls `startTimeoutChecker`: its runs set `TimeoutCheckerRuns = FALSE`.

### 3.3 `QueueJournal`

The journal is a component of its own: of an item it keeps only what the journal
can tell apart. `queue` is the status in `_WorkQueue` (`New` before, `Gone` after);
`whole` the items whose record is the enqueued one, since a restored record has
no attempts left to retry with and no timer; `snapshot` and `journal` are the two
files, `writes` is `_WriteCount`. `handed` and `over` are history: whether a
beacon had the item, before or since the restart, and how it ended.

Each handler of the coordinator and the scheduler that calls the journal is an
action through `AppendEntry`; those that change a status without a call
(`Deliver`, `Dispatch`, `Release`, `Cancel`, `DirectDispatchTimeout`,
`LeaveQueue`) go through `Unjournalled`. File operations are synchronous, so
the entry that reaches `CompactThreshold` is followed by `WriteSnapshot` (a rename),
`TruncateJournal` and `MarkJournal` before anything else but a `Crash`.
`Applied` goes through the entries in their order, and
`Replayed` is what `replay` would return of the files as they are now; `Restart`
puts it into the queue. The invariants speak of `Replayed` in every state, that
is of a crash at every point, whether or not one happens. Left out: which beacon
has the item, bindings, writes that fail, a torn last line (`replay` skips it).

### 3.4 `WorkDispatch`

What whoever asks for work may rely on, with no word of beacons: an item is
`asked` for, is open, may reach beacons any number of times while it is, and is
over once, in the step that tells its requester (`End`): always one who waits over
HTTP, a paused operation unless it turns the resumption down, nobody else. The
coordinator is an instance of it (`Promise`): `Phase` forgets
which of its seven statuses an open item has, `told` is `notified`, `reached` is
`handOvers`. A report, a timeout or a canceled direct dispatch is one `End`,
together with all the hand-overs of the walk that follows in the same handler;
everything else is a `Dispatch` or a stutter.

### 3.5 `ExecutionEngine`

One run of one operation. The graph is a constant: `Kind` says what a node
does (`beacon`: a beacon-dispatch; `input`: a question to the user; `split`; `task`:
any other task, which may call back now, later, with any of its events, with
an error, or with nothing), `wires` where its events lead.

| Variable | Program | Abstraction |
|---|---|---|
| `run` | the execution context that the manifest is written from: `Status`, waiting and stalled nodes, errors, last status per node and whether that Execution has a `Log` (`logless`), the tokens of a split | no outputs, settings, lines of logs or times |
| `live` | `Live` of the manifest | |
| `pending` | `PendingEvents` | |
| `looping` | `_processEventQueue` is on the stack | nothing else runs while it is, except a crash |
| `executing` | tasks that have not called back | counted per node |
| `disk` | the manifest file | `Manifest` says what a checkpoint holds: waits only when the run is `Waiting` |
| `work` | items of the queue that may still be reported | counted per node |
| `retries`, `crashes`, `refused`, `overtaken` | not in the program | bounds and history |

`Loop` takes one event and runs its task, or drains the queue and finalizes
(`Drain`); `TaskReturns` goes on with a suspended loop. `ReportComplete`, `ReportFailure`
and `Stall` are the calls of coordinator and scheduler, `ProvideInput`,
`ForceError`, `Abandon` and `Retry` those of a user, `Restart` is a crash with
`loadRecentManifests`. A checkpoint is written where the code writes one, so a
crash inside a loop finds the last one. `Without` is the queue of events less those of a
stalled node. An Execution that a retry pushed has no `Log`, so that what writes to it throws:
`TaskReturns` and `ReportFailure` each have a disjunct that ends there, the second with the wait
marked (`Marked`) but no error recorded (`Noted`) and nothing resumed. Left out: operations
launched by operations, state connections, manifests beyond the newest hundred, working files.

### 3.6 `RunEvents`

The stream of one run. `buffer` is the run's entry in `_ManifestEventBuffers`,
`timer` its entry in `_ManifestEventCleanupTimers`, `subscribers` the sockets in
`_WebSocketSubscriptions`. Of the engine it has the status and the number of `loops` over the run,
suspended ones included, which may outlast it. `TaskEvent` and `ExecutionComplete` broadcast. The
first comes whatever the status is: a loop left behind and the report of an item of an
abandoned run emit too, and make a buffer anew that was dropped. The second is emitted at the end of
a loop and by a stall, at a pause as well as at the end; it drops the subscribers
and arms the timer, as the code does. `Abandon` ends the run without it, `Retry` makes it wait again,
`Resume` starts another loop. `orphaned` is history: the run was over with a buffer
and no timer, and no `ExecutionComplete` has come since.
`HandleSubscribe` joins the live stream and replays what follows the event the client
names, or resets it. The client is external: it keeps the last event it has
seen, names it when it subscribes, and obeys a reset, as the comments of
`Server` describe (the web interface does less, see 4.2). Its connection may
close at any time with frames under way; the process may restart.

### 3.7 `LongPolls`

Events of the queue and of the observer share one `ring` and one order; a poller of
the observer's bucket gets a part of it. Envelopes are numbered as they are stamped, so the
ring, a slice of it and the events of an answer are sets of numbers: their order is that
of the numbers, `First` takes the least ones, and the cursor of an answer is its `Newest`. `PollAnswered`, `PollTooOld` and `PollWaits`
are the three ways `_handleLongPollRequest` ends, `Broadcast` an envelope with all
the waiters it drains: one whose events are filtered out registers again, with its old
cursor and without a timer (`StillWaiting`), inside the same drain. `PollTimesOut`
is the timer, `Disconnect` the close event of a request. `owed` counts the responses
a request has still to get; it is written by each path that writes one.

### 3.8 `QueuePersistence`

Each write of the coordinator (`Enqueue`, `Settle`) goes to the databeacon that is assigned
and bootstrapped (`MeadowProxyMode`), else to a beacon with the capability
`QueuePersistence`, else into the local store. `RegisterQueueBeacon` starts a
sweep (`Push`) of the local rows behind that beacon's mark; a sweep sends one row,
awaits the answer (`QueueBeaconAnswers`, `QueueWriteTimesOut`), moves the mark and goes on.
The rows a sweep has left are a set, as items are enqueued in the order of their numbers: `First`
is the next one to go.
Live writes go to the same beacon meanwhile. `SetPersistenceAssignment`, arrival
and departure of the databeacon and the steps of a bootstrap
(`BootstrapEnsures`, `BootstrapEnables`, `BootstrapFails`) are actions of their own.
A row stands for its events too. Two items may share a millisecond of `enqueuedAt`. Left out: reads, the search for a tagged databeacon when nothing
is assigned, the files that keep the assignment and the marks over a restart.
The beacons' databases are external: they do what they are sent, in order.

### 3.9 `BeaconClient`

The client that polls over HTTP. Every answer to a request is an event of its own, and
requests overtake each other: `requests` is the bag of those in flight (how many there are
of each), each with the cookie it was sent with. `Reconnect` is what a 401 of any of them sets off;
`Authenticated`, `Registered`, `RegisterUnauthorized` and `ChainRequestFails` are the
continuations of the chain, `RetryFires` its timer of ten seconds. `intervals` counts
the pairs of intervals that go on firing, `handle` whether the client still knows
how to clear one. Of the server only the session (`epoch`), whether it is `secured`, the record of the
beacon and its items are kept. `Authorized` is `_resolveSession`: a server that is not secured, which is
the default, makes an anonymous session for a request without one and never answers 401. It is
secured by `UltravisorNonPromiscuous`, or as long as a beacon that authenticates is connected
(`AuthBeaconChanges`). `RecordRemoved` is anybody else who deregisters the beacon: a user
(`DELETE /Beacon/:BeaconID`), or a second client of the same name when it stops, which shares the
record; `OtherRegisters` is that client coming.
Left out: what a provider executes, uploads, progress, the socket client, and what the second client
does besides: its polls take work of the record that this client then does not see. Assumed: a login
that is answered gives a session, the beacon that authenticates being reachable then, and two records
do not get the same BeaconID (its stamp is in milliseconds).

### 3.10 Bounds

| Bound | Value | Why it is enough |
|---|---|---|
| `MaxItems` | 2 (1 where one item shows it) | a slot conflict, a walk that pushes another item, a tie and an inversion of priority each need two items; so do rows that share a millisecond, and a row a sweep passes over |
| `MaxBeacons` | 2 (1) | a departed holder and the next one; wall (push) and pole (poll) together; one name registered again after it left takes a new record |
| `Requests` | 1 to 3 kinds | every kind of requester, with and without key, strict or not, with a retry |
| `MaxConcurrent` | 1 and 2, or 1 | a full beacon is reached with the items there are |
| `PriorityBound` | 0 or 1 | a reorder stops at the bound; two levels give all orders of two items |
| `CompactThreshold` | 3 (the code: 500) | a compaction meets an item in every status an item can have after two entries, and again after a restart |
| `MaxCrashes` | 1 | the crash whose effect is checked need not happen; the one that does leads to restored records, and to files written after a restart |
| `Operations` | five graphs | a dispatch beside a task, a dispatch beside a question, a dispatch per token, a step reported before its split, no Start node; two dispatches run side by side, and one follows another |
| `MaxTokens`, `MaxRetries` | 2, 1 | a first and a last token; a node retried while its old report is under way |
| `Cap` of `RunEvents` | 2, with 4 events (the code: 5000) | the buffer overflows before and after a pause |
| `MaxLoops` | 2 | a loop that was left behind when the run was abandoned ends beside the one a retry started |
| `MaxTries`, `MaxRestarts` | 3 and 1, 1 | a client that reconnects beside one that stays; a client that comes back with its last event to a process that has no buffer any more |
| `Cap` of `LongPolls` | 3, with 5 events (the code: 5000) | the ring overflows while somebody sleeps |
| `MaxWaiters`, `MaxPolls` | 2 of 3 pollers (the code: 1024), 2 | one is refused; a second poll starts from the cursor of the first |
| `BatchLimit` | 2 (the code: 5000) | a sweep of several rows; two items never make more rows than a batch (what follows from that is a matter of 4.2), and the theorem covers every size |
| `Connections`, `MaxIDs`, `MaxDataIDs` | one, 2, 1 | a queue beacon that comes back under another BeaconID. Two connections or databeacons were tried and pass (2.5 million states); the theorem covers every number |
| `MaxEpochs`, `MaxFailures` | 3, 1 | two sessions lost in a row, one of them in the middle of a reconnection |
| `MaxRequests` | 2 | polls and heartbeats in flight that differ, not counting the polls sent at once upon a registration: those of two cookies or BeaconIDs overtake each other and the requests of the chain |
| `MaxRemovals`, `MaxItems` of `BeaconClient` | 1, 1 | the record is removed once, before or after a restart; one item fills the client, whose `MaxConcurrent` is 1 |
| `NonPromiscuous` | `FALSE` | the run has servers that are secured, that are not, and that change; one secured throughout is one that is secured again at once whenever it restarts. The theorems cover both values |

No other quantity of the coordinator grows: `AttemptNumber` and `handOvers` are bounded through the
finite number of records (a hand-over without a new registration consumes an
attempt or ends the item). The instances may come to rest when numbers run
out, so deadlock is not checked.

## 4. What the runs show

### 4.1 Passing runs

* **`coordinator`** (`Spec`, timeout checker running; 411,757 states).
  `HeldOnRegisteredBeacon`, `StrictAffinity`, `UnroutedWorkIsFiltered`,
  `RunningWithinCapacity`, `ToldOnce`, `FinalIsFinal` hold in every interleaving
  of two beacons and two items of three kinds, lost sockets, late reports and retries
  included; and every step is one of `WorkDispatch` (`ImplementsWorkDispatch`).
* **`hub`** (`HubSpec`; an operation's request and a strict one over HTTP; 827,507 states,
  told apart by `VIEW HubView`, without `handOvers`, which no step and no property of this
  run reads): one answer per requester survives the scheduler, its stalls and
  cancellations (`ToldOnce`), and a tick never prefers an item to a more important
  one that the same beacon could have had (`NoPriorityInversion`).
  `StrictAffinity` and `RunningWithinCapacity` do *not* survive; see 4.2.
* **`hub_liveness`** (`FairHubSpec`; 71,770 states): `HandedOutIsSettled`, everything
  that was given to a beacon, delivered or not, ends in a way the queue can see.
* **`journal`** (1.8 million states): whenever the process
  dies, also inside a compaction and after an earlier restart,
  `AcceptedWorkSurvives` and `ReportedWorkStaysOver`. The first is why the journal
  is truncated after the snapshot and not before; the second holds because replaying
  old entries over a newer snapshot is harmless: the entry that finished an item
  is still behind the one that brought it in. It says `Reported`: work that ended
  in another way does come back (below).
* **`engine`** (349,097 states): a run has one loop over its events (`OneLoop`), and when it
  says `Complete` nothing of it is outstanding (`CompleteHasEnded`); a waiting run can go on
  (`WaitingCanGoOn`), is found waiting by a restart (`RestartKeepsWaiting`), and waits for
  beacons that may still report (`WaitIsServed`), except in the case of `BeaconReportResumes`
  and for a failure that threw after a retry, both in 4.2;
  a stalled run stays so until it is retried, a run that ended stays ended, and none is in
  progress for ever. `overtaken` names the exception of most of them: a user who
  abandons or retries a run while a task of it is at work.
* **`run_events`** (1.5 million states): a client that loses its subscription, by its own
  connection, a pause, an end or a restart, and names its last event when it comes back is never led over a gap
  (`NoSilentGap`) and is at the end of the stream once it is served (`SubscriberIsUpToDate`);
  a run that is over leaves the memory (`EndedRunIsDropped`), unless it is `orphaned`, see 4.2.
* **`long_polls`** (242,793 states): an answer leaves out nothing between its two
  cursors (`AnswersAreGapless`), nobody sleeps on events he would be handed
  (`NobodySleepsOnEvents`), a request gets one response (`OneResponse`), one for
  the queue's events some time (`QueuePollIsAnswered`; a poller of the observer's
  bucket may lose its timer, see 4.2).
* **`persistence`** (about 470,000 states): a mark passes no row that the beacon did not get
  (`MarkPassesNothing`; rows of one millisecond apart), sweeps end, and writes to a
  databeacon name tables that a bootstrap has prepared, whatever is assigned
  meanwhile (`RequestsFindTheirTables`).
* **`client`** (873,896 states): however many requests meet a 401 at once and however many
  retries are pending, no interval is left that nothing can clear (`NoIntervalLeaks`); a client with a
  session polls under the BeaconID the server has for it, unless somebody else removed that record
  (`PollsUnderItsRecord`); and a session lost to a secured server comes back (`Reconnects`). Neither
  promises anything of a server that is not secured and restarts: there the client never learns
  of it, see 4.2.

**Fairness.** `FallSilent` and `StallWorkItem`: the scheduler's health tick is a
repeating timer and an item that gets no progress event does grow old.
`DirectDispatchTimeout`: a timer set with the callback. `OperationResumed`: the
engine calls back. `LoseReport`: a beacon at work on an item reports an end or is
never heard of again. `Loop`: the engine's loop is on the stack. `TaskReturns`: a task calls back.
`DropBuffer`, `PollTimesOut`, `QueueWriteTimesOut`, `RetryFires`,
`IntervalFires`: timers of Node that were set and are not cleared. `ChainAnswered`,
`PlainAnswered`: a request of the client ends, answered or failed; the client
has no timeout of its own, so this is assumed of the server and the connection. Nothing
is assumed of beacons registering, polling, reporting or staying connected, of users,
or of clients.

### 4.2 Runs that refute a statement of the repository

Each checks one formula taken from a comment.

| Run | The repository says | The code does |
|---|---|---|
| `SlotLeak` | failWorkItem: "Remove from the beacon's active list so it can accept new work" | on the retry branch `AssignedBeaconID` is cleared before it is used to find that list: the slot is never freed |
| `BeaconReportResumes` | beacon-dispatch: "the BeaconCoordinator will call resumeOperation when the beacon reports back" | a report that comes while another branch of the run is in progress is refused, the item is final by then, and the node waits for a report nobody will send |
| `OfflineAssignment` | getPersistenceBeacon: "a 'set but offline' assignment doesn't accidentally route writes to nowhere" | a BeaconID stays bootstrapped when its beacon leaves: each write is dispatched to nobody and times out |

Smaller disagreements seen while modelling, without a run of their own.

*Coordinator and scheduler.* Nothing in the hub starts the timer of
`_checkTimeouts`, so an item in `RetryScheduled` stays there, though `failWorkItem`
relies on it. No pass of `pollForWork` looks at `Dispatched` items, so an item the scheduler gave
to a polling beacon ends as stalled ("fall back to HTTP poll pickup"); such an item is not
released when its beacon leaves. The scheduler's `_pickBeacon` ignores
`RequireAffinityMatch` ("never another capable beacon") and `_beaconCanTake` skips the fleet
filter; the gate of assigned pushes counts `Running` items only, not what the scheduler
dispatched. Assigned work takes the slots, and a poll with full slots returns
before it looks at assigned items. A report completes a canceled item; a
failed push leaves `DispatchedAt` set, so that an item no beacon received is
stalled; a poll counts an attempt on hand-over and again on failure, so
`maxRetries` = 2 is one attempt for polled work; a binding to a departed beacon
keeps its key until it expires; a leaked slot lets a departing beacon
release work that runs elsewhere; a push of assigned work does not restart the
stall clock; an item that requires an absent beacon is pending and has no
timeout, contrary to the comment in `enqueueWorkItem`; a reorder among equal priorities jumps all of
them; `_checkTimeouts`, where it runs, dereferences an item its first loop
removed.

*Journal.* Replay resets `Running` and `Assigned` ("Reset in-flight items to Pending"), not
`Dispatched`, which is then neither polled nor dispatched; `stalled` entries are
written, but `_applyEntry` does not know them; cancellations and
direct-dispatch timeouts are not written at all, so that such items come back
after a restart; a restored item has lost `RequireAffinityMatch`.

*Engine.* A graph without a Start node is set to `Error` and then finalized as
`Complete` (`StartNowhere`; `Engine` 120, 241). An abandoned run with a suspended task comes back when
the task returns, and a retry beside a suspended task starts a second loop. After a
crash a run on disk may wait for a report that was given. An error without a node is
never cleared by a retry after a restart (375), and an error thrown by a task whose
`Error` edge handles it still ends the run as `Failed`. After a retry the last Execution of the node
has no `Log` (`Engine` 791), and `recordTaskError` throws on it (`Ultravisor-ExecutionManifest.cjs`
458): a failure that a beacon or `_checkTimeouts` reports then throws out of `failWorkItem`, caught by
no caller in the source (`Server` 3717, 5286). Its item is final, no error is recorded, and the run waits for the node
until a user gives a value, forces the error or abandons it. A suspended task whose
run was retried meanwhile loses its loop in the same way when it calls back with an error or a log.

*Events.* `ExecutionComplete` is emitted at each pause: subscribers are dropped and
the clean-up timer is armed, against "Active runs that haven't finished never have
a timer" and "exactly one terminal ExecutionComplete" (`Server` 4905 to 4920). The same comment
has `abandon` go through `finalizeExecution`: `abandonRun` does not, so that the events buffered since
the last pause stay; and a failure reported later, or a loop left behind, makes a dropped
buffer anew, with no timer. The
flow editor ends its subscription at any `ExecutionComplete` and never sends the last event it
has; the beacon list takes the cursor of envelopes that are not kept in the ring.

*Long polls.* A waiter that registers again has no timer, against the header of
`Ultravisor-LongPollManager.cjs`: if events of the queue fill its slice, every later drain hands
it the same slice, and it sleeps until its connection closes. The filter is applied after the limit, so that a page may come
back short, or a waiter stay asleep with an event of its stream behind its slice; the cap holds over all buckets, not for each; nothing calls `drainAll`.
A poller that asks with an empty cursor is not woken by the first events.

*Persistence.* A sweep always reads the first 5,000 rows of the store, so that rows behind
them are never sent; a row in the millisecond of the mark is skipped (378); a row
that was swept and changed locally afterwards is not sent again; a beacon that comes back
under a new BeaconID is swept from the start, and its newer rows are overwritten by
older ones ("not incorrect"); there is no sweep after a databeacon's
bootstrap, though `docs/features/persistence-via-databeacon.md` has one; a write that timed out may
have been executed.

*Client.* `stop` may be followed by a registration that was under way, or by the
retry timer it does not clear; a 401 during `start` leaves a registered client
that never polls; a report that
fails is not repeated, and one sent during a reconnection carries no cookie. Only a 401 makes a client
register again, and a poll under an unknown BeaconID is answered with no work. So when a server that
is not secured restarts, its beacons poll for ever without being known, against "all beacons get 401 ->
all reconnect automatically" (`docs/features/beacon-authentication.md` 180; also 24); and so does
a client whose record a user or a client of the same name removed, secured or not.

*Sockets.* The late close event of a beacon's old socket deregisters the beacon
that came back over a new one (`Server` 5356).

## 5. What is proved

The theorems hold for every choice of the constants that satisfies the named
assumptions of the module: any number of items, beacons, names and keys, any graph, any
number of crashes.

| Module | Theorems | of the run |
|---|---|---|
| `BeaconCoordinator_proofs` | `TypesHold`, `RequestersAreToldOnce`, `FinishedStaysFinished`; `CoordinatorImplementsWorkDispatch`: the refinement | `coordinator` |
| `BeaconPlacement_proofs` | `StrictAffinityHolds`, `UnroutedWorkFiltered`, `WorkIsHeldOnRegisteredBeacons`, `BeaconsRunWithinCapacity` | `coordinator` |
| | `HubTellsOnce`, `TicksKeepPriorities` | `hub` |
| `QueueJournal_proofs` | `JournalTypes`, `AcceptedWorkIsRestored`, `ReportedWorkIsOver` | `journal` |
| `ExecutionEngine_proofs` | `EngineTypes`, `RunsHaveOneLoop`, `CompleteRunsHaveEnded`, `WaitingRunsCanGoOn`, `WaitsAreServed`, `RestartFindsWaiting`, `StalledRunsStayStalled`, `EndedRunsStayEnded` | `engine` |
| `RunEvents_proofs` | `RunEventsTypes`, `ClientsMissNothingSilently`, `SubscribersAreUpToDate` | `run_events` |
| `LongPolls_proofs` | `LongPollTypes`, `PollsSkipNothing`, `WaitersAreWoken`, `RequestsGetOneResponse` | `long_polls` |
| `QueuePersistence_proofs` | `PersistenceTypes`, `SweepsSkipNothing`, `WritesFindTheirTables` | `persistence` |
| `BeaconClient_proofs` | `ClientTypes`, `IntervalsAreCleared`, `PollsAreForItsRecord` | `client` |

The assumptions are about the constants only: bounds are natural numbers; capacities, limits,
caps and batches are positive; a graph's nodes have kinds and its edges lead to nodes; `None`
is none of the values it is told apart from. The threshold of a compaction is at least 2 (the
code: 500), since the mark a compaction leaves is itself an entry.

**Types.** A handler of the coordinator builds an intermediate state `h` and walks the queue from
it. `StateTyped(h)` says that such a state has the types of the variables; the
walk lemmas show that a walk of a typed state yields typed variables
(the first founder of a binding exists because a non-empty set of numbers has a
least element, which is where well-foundedness of the naturals enters), and each
action then only has to show that what it builds is typed.

**One answer.** `ToldOnce` is not inductive. It says nothing about an item that is
being resumed, and `OperationResumed` removes that item from the queue: without
knowing that its requester has been told, the step could break it.
Neither does it say that no operation has been told of an item still on its
way (`Active`), which is what a report, a timeout or a stall of it relies on, or
that only an HTTP requester has a callback and work not yet asked for has told
no one.
`Told` adds these facts item by item, and `IInv == TypeOK /\ Told` is inductive.
Most steps do not touch the fields it reads: `Quiet` states that once,
`StepCases` divides `Next` into quiet steps and those that end an item, and only the
latter are argued one by one. `FinalIsFinal` needs no more than `IInv`.

**Refinement.** The steps of `StepCases` are already those of `WorkDispatch`; what
is missing is that only open items are handed out. `HandsOut(W)` says that of a
set, and it is shown of a walk, of a poll, and of the handlers that end with a walk.

**Placement.** Neither property is inductive: between a claim and the start of the
work stands an assignment. `Placed` says of every beacon an item is assigned to *or*
at work on that it may have it, by the name the beacon registered under, which
its number keeps also after it left.

**Holding.** `HeldOnRegisteredBeacon` is inductive with the types, but a handler ends an
item, frees its slot and walks the queue in one step: `HeldIn` states the property of
such an intermediate state with the items that are `leaving`.

**Capacity.** A push of unassigned work is gated on the length of the beacon's list and not on
what runs there, so `RunningWithinCapacity` needs `HeldOnRegisteredBeacon`: what runs is
listed, hence not more than the list. A walk may push several items to one beacon; the last
of them was let in with all the others counted, which bounds them together. `Fit` joins
both properties and is carried, like `HeldIn`, through freed slots and walks; nothing is
`Dispatched` without the scheduler.

**Hub.** The steps of scheduler and queue controls are quiet for `Told` or end an item
like a report does (`HubQuiet`), so `IInv` is an invariant of `HubSpec` too. A tick
gives out beacons in the order of `Before`: the load a later item meets is no smaller than that
an earlier one met, so whoever is left behind had no candidate, or met one without its
capability.

**Journal.** A compaction replaces the snapshot under a journal that is still there, and
the process may die right then. So the invariant says what the journal makes of *any*
snapshot: an accepted item is in the snapshot or restored by the journal (`Restores`),
and no journal removes it (`Keeps`); a reported one is absent or removed (`Forgets`), and no journal brings
it back (`Lets`). An appended entry changes the result of `Applied` by that entry, which is
all the induction the proof needs.

**Engine.** `Written` says that the manifest on disk agrees with a run that waits
or is over, in every state, also while an overtaken loop is still on its way, and that a stalled run has
a stalled node: two of the theorems follow. `OneLoop` is inductive with the
types of the counters (`Looped`), since a resumption is let in only when no loop is left;
`EndIsFinal` follows because a run that is over has no loop that could finalize it again.
`Outlook` says what is ahead of a run: one that is complete has nothing outstanding even while its
loop unwinds (`Finished`), a wait for a beacon has work behind it (`Served`), and both have to be said
of the manifest a restart takes up as well (`OnDisk`). A failure that throws leaves a wait without work,
but only once a node was retried, and marked `Error`, which `Served` admits. The rest of the types (`Counted`) needs that
what a task or a resumption enqueues are events, and that `Without` leaves events.

**Events.** What a client has and what is under way to it is one sequence; `Fed` says that
it climbs by one at a time, may fall back, and ends at its largest. The buffer is a run of
numbers up to the last event (`Unbroken`), so a replay from an event it holds continues
the sequence, and a client whose event is gone is reset. `Fine` adds that a frame under
way asks from no later than the end of that sequence.

**Long polls.** The ring is a run up to the newest envelope (`Kept`): what follows a cursor found in
it is everything sent since, and an answer is a beginning of that. A waiter that stays asleep
was looked at with each new envelope, and its slice only grows until it is as long as its limit.

**Persistence.** `Ready` says that the connections named by the endpoints of a bootstrapped
BeaconID are prepared, and the one of a bootstrap that has come to its last step.
It holds because a changed assignment drops endpoints and bootstrapped BeaconID
together. The databeacon may have any number of connections. For the marks, a sweep's rows are
closed downwards among the local rows behind its mark (`Closed`), also when the batch cut them off
at its limit, and the one that is under way is the first of them (`Sending`): when its answer moves
the mark, no row is behind. Rows enqueued meanwhile are later than all of them.

**Client.** One registration is under way at a time, and none while intervals are set (`OneChain`), so
none overwrites a handle; the client's start counts as one, though it is not flagged as such, and
is safe because nothing else is in flight then (`Silent`). Of the client's own requests only that of a
stopped one deregisters it (`OneFarewell`), and whoever else does is remembered in `removed` until it
has registered again. The types rest on two counts: retries against failures and lost sessions
(`Retried`), BeaconIDs against epochs and removals (`Numbered`, with `Due` for a record still to come
and `Parted` for one the stopped client's deregistration may have cost).

## 6. Only model-checked, or not modelled

Liveness under fairness stays with TLC, being beyond the prover: `HandedOutIsSettled`,
`InProgressEnds`, `EndedRunIsDropped`, `QueuePollIsAnswered`, `SweepsEnd`, `Reconnects`. So do the
three refuted statements of 4.2. What the proofs need of the recursive functions and of `First`
and `Newest` they get from one step of the recursion, or from the least counterexample
(the naturals are well founded); what `replay` yields for a given journal, and which
tasks a graph runs for a given input, is computed by TLC only.

Not modelled yet: what section 2 has left, and what the note of each component in
`PROJECT.json` names. Not to be modelled: SQLite
queries, file and directory transfer, the web interface, the bodies of tasks and
the operation auditor, which only compute or do I/O; the manifest bridge, which repeats the
structure of the queue's with one table.
