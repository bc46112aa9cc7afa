--------------------------- MODULE ExecutionEngine ---------------------------
(***************************************************************************)
(* One run of an operation: the event queue that walks its graph, the      *)
(* waits its tasks register, the calls that resume, stall, abandon and     *)
(* retry it, its manifest, and what a restart makes of the manifest        *)
(* (source/services/Ultravisor-ExecutionEngine.cjs and                     *)
(* Ultravisor-ExecutionManifest.cjs).                                      *)
(*                                                                         *)
(* JavaScript runs a handler to completion: while the loop over            *)
(* PendingEvents is on the stack (looping) nothing else runs, except that  *)
(* the process may die between two manifest writes.  A task that calls     *)
(* back later leaves its loop suspended (executing), and other handlers    *)
(* run in between.                                                         *)
(*                                                                         *)
(* Outputs, settings and state connections are left out.  "Complete"       *)
(* stands for the event each kind of node fires when it is done            *)
(* (Complete, ValueInputComplete, CompletedAllSubtasks).                   *)
(***************************************************************************)
EXTENDS Naturals, Sequences

CONSTANTS
  Nodes,
  Kind,         \* node -> "task", "beacon", "input", "split" or "end"
  None,
  Operations,   \* the graphs a run may be started from
  MaxTokens,    \* bound: tokens a split finds in its input
  MaxRetries,   \* bound: calls of retryFromCheckpoint
  MaxCrashes    \* bound: crashes

Fires  == {"Complete", "Error", "TokenDataSent"}
Ports  == {"Trigger", "StepComplete"}
Events == Nodes \X Ports

\* start is None in a graph without a Start node.
OperationType ==
  [start : Seq(Events) \cup {None}, wires : [Nodes -> [Fires -> Seq(Events)]]]

ASSUME GraphAssumption ==
  /\ Kind \in [Nodes -> {"task", "beacon", "input", "split", "end"}]
  /\ None \notin Nodes \cup Fires \cup Seq(Events)
  /\ \A op \in Operations : op \in OperationType
ASSUME BoundsAssumption ==
  MaxTokens \in Nat \ {0} /\ MaxRetries \in Nat /\ MaxCrashes \in Nat

VARIABLES
  operation,   \* the operation's definition
  run,         \* the part of the execution context its manifest holds
  live,        \* Live
  pending,     \* PendingEvents
  looping,     \* _processEventQueue is on the stack
  executing,   \* tasks that have not called back, by node
  disk,        \* the manifest file, or None
  work,        \* work items a beacon may still report, by node
  retries, crashes,
  refused,     \* nodes whose report or stall the run has turned down
  overtaken    \* it was abandoned or retried while a task was at work

vars == <<operation, run, live, pending, looping, executing, disk, work,
          retries, crashes, refused, overtaken>>
history == <<retries, crashes, refused, overtaken>>

Terminal == {"Complete", "Failed", "Stalled", "Abandoned", "Error"}
Statuses == Terminal \cup {"Queued", "In Progress", "Waiting"}

RunType ==
  [status  : Statuses,
   waiting : [Nodes -> {None, "Complete", "Error"}],  \* WaitingTasks: ResumeEventName
   stalled : SUBSET Nodes,                            \* TaskOutputs[n]._Stalled
   failed  : SUBSET Nodes,                            \* TaskOutputs[n]._BeaconError
   left    : [Nodes -> 0 .. MaxTokens],               \* tokens a split has to go
   errors  : SUBSET (Nodes \cup {None}),              \* Errors, by NodeHash
   last    : [Nodes -> {None, "In Progress", "Complete", "Error", "Stalled",
                        "Retrying"}],                 \* status of the last Execution
   logless : SUBSET Nodes]                            \* it has no Log: a retry's

ASSUME RunAssumption == None \notin RunType

TypeOK ==
  /\ operation \in OperationType
  /\ run \in RunType /\ live \in BOOLEAN
  /\ pending \in Seq(Events) /\ looping \in BOOLEAN
  /\ executing \in [Nodes -> Nat] /\ work \in [Nodes -> Nat]
  /\ disk \in RunType \cup {None}
  /\ retries \in 0 .. MaxRetries /\ crashes \in 0 .. MaxCrashes
  /\ refused \subseteq Nodes /\ overtaken \in BOOLEAN

NoWaits == [n \in Nodes |-> None]
Waits(r) == {n \in Nodes : r.waiting[n] # None}

\* createExecutionContext
Init ==
  /\ operation \in Operations
  /\ run = [status |-> "Queued", waiting |-> NoWaits, stalled |-> {}, failed |-> {},
            left |-> [n \in Nodes |-> 0], errors |-> {}, last |-> NoWaits,
            logless |-> {}]
  /\ live = TRUE /\ pending = <<>> /\ looping = FALSE
  /\ executing = [n \in Nodes |-> 0] /\ work = [n \in Nodes |-> 0]
  /\ disk = None /\ retries = 0 /\ crashes = 0 /\ refused = {}
  /\ overtaken = FALSE

-----------------------------------------------------------------------------
(***************************************************************************)
(* The manifest.                                                           *)
(***************************************************************************)
\* Mutant: the waits of a waiting run are not written.
MutantManifest(r) == [r EXCEPT !.waiting = NoWaits]

\* _serializableManifest and _writeManifest: the waits are written only while
\* the run is waiting.
Manifest(r) == IF r.status = "Waiting" THEN r ELSE [r EXCEPT !.waiting = NoWaits]

\* Mutant: an error outranks a stall.
MutantFinalStatus(r) ==
  CASE r.errors \cup r.failed # {} -> "Failed"
    [] r.errors \cup r.failed = {} /\ r.stalled # {} -> "Stalled"
    [] r.stalled \cup r.errors \cup r.failed = {} /\ r.status = "Waiting" -> "Waiting"
    [] OTHER -> "Complete"

\* The roll-up of finalizeExecution.
FinalStatus(r) ==
  CASE r.stalled # {} -> "Stalled"
    [] r.stalled = {} /\ r.errors \cup r.failed # {} -> "Failed"
    [] r.stalled \cup r.errors \cup r.failed = {} /\ r.status = "Waiting" -> "Waiting"
    [] OTHER -> "Complete"

\* finalizeExecution
Finalize(r) ==
  /\ run' = [r EXCEPT !.status = FinalStatus(r)]
  /\ live' = (live /\ FinalStatus(r) = "Waiting")
  /\ disk' = Manifest(run')

-----------------------------------------------------------------------------
(***************************************************************************)
(* Starting, and the loop.                                                 *)
(***************************************************************************)
Idle == ~looping
Running(n) == executing[n] # 0

\* executeOperation, and startOperationAsync with the tick it waits for: no
\* other handler can run before that tick.
Start ==
  /\ run.status = "Queued" /\ operation.start # None
  /\ run' = [run EXCEPT !.status = "In Progress"]
  /\ pending' = operation.start /\ looping' = TRUE
  /\ UNCHANGED <<operation, live, executing, disk, work, history>>

\* Without a Start node the status is set to Error, and finalizeExecution
\* makes it Complete.
StartNowhere ==
  /\ run.status = "Queued" /\ operation.start = None
  /\ Finalize([run EXCEPT !.status = "Error"])
  /\ UNCHANGED <<operation, pending, looping, executing, work, history>>

\* _enqueueDownstreamEvents
Fire(queued, n, fire) == queued \o operation.wires[n][fire]

\* A task called back with a result.  The checkpoint is written before the
\* event is fired; an error event nothing is wired to is recorded.
Result(r, queued, n, fire) ==
  LET done == [r EXCEPT !.last[n] = "Complete"]
  IN  /\ disk' = Manifest(done)
      /\ pending' = Fire(queued, n, fire)
      /\ run' = IF fire = "Error" /\ operation.wires[n]["Error"] = <<>>
                THEN [done EXCEPT !.errors = @ \cup {n}] ELSE done

\* A task threw, or called back with an error (fHandleTaskError): no checkpoint.
Throw(r, queued, n) ==
  /\ run' = [r EXCEPT !.last[n] = "Error", !.errors = @ \cup {n}]
  /\ pending' = Fire(queued, n, "Error")
  /\ UNCHANGED disk

\* A task called back with neither (the log says so and nothing else happens).
NoResult(r, queued) == run' = r /\ pending' = queued /\ UNCHANGED disk

Answers(r, queued, n) ==
  \/ \E fire \in {"Complete", "Error"} : Result(r, queued, n, fire)
  \/ NoResult(r, queued)

CallsBack(r, queued, n) == Answers(r, queued, n) \/ Throw(r, queued, n)

\* A task returned WaitingForInput, with ResumeEventName Complete.
RegisterWait(r, queued, n) ==
  LET waits == [r EXCEPT !.waiting[n] = "Complete", !.last[n] = "Complete"]
  IN  run' = waits /\ disk' = Manifest(waits) /\ pending' = queued

\* recordTaskStart
Begun(n) == [run EXCEPT !.last[n] = "In Progress", !.logless = @ \ {n}]

\* The loop takes an event for a node of this kind.
Dequeue(n, port, kind) ==
  /\ looping /\ pending # <<>>
  /\ Head(pending) = <<n, port>> /\ Kind[n] = kind

ReachEnd(n, port) ==
  /\ Dequeue(n, port, "end")
  /\ pending' = Tail(pending)
  /\ UNCHANGED <<operation, run, live, looping, executing, disk, work, history>>

RunTask(n, port) ==
  /\ Dequeue(n, port, "task")
  /\ CallsBack(Begun(n), Tail(pending), n)
  /\ UNCHANGED <<operation, live, looping, executing, work, history>>

\* The task calls back later: the loop is suspended.
SuspendTask(n, port) ==
  /\ Dequeue(n, port, "task")
  /\ run' = Begun(n) /\ pending' = Tail(pending)
  /\ executing' = [executing EXCEPT ![n] = @ + 1]
  /\ looping' = FALSE
  /\ UNCHANGED <<operation, live, disk, work, history>>

\* beaconDispatch with a beacon registered, and without one.
Dispatch(n, port) ==
  /\ Dequeue(n, port, "beacon")
  /\ \/ /\ RegisterWait(Begun(n), Tail(pending), n)
        /\ work' = [work EXCEPT ![n] = @ + 1]
     \/ /\ Result(Begun(n), Tail(pending), n, "Error")
        /\ UNCHANGED work
  /\ UNCHANGED <<operation, live, looping, executing, history>>

\* The value-input task.
AskForInput(n, port) ==
  /\ Dequeue(n, port, "input")
  /\ RegisterWait(Begun(n), Tail(pending), n)
  /\ UNCHANGED <<operation, live, looping, executing, work, history>>

\* _handlePerformSplit of an input with at least one token.
Split(n) ==
  /\ Dequeue(n, "Trigger", "split")
  /\ \E tokens \in 1 .. MaxTokens :
       Result([Begun(n) EXCEPT !.left[n] = tokens], Tail(pending), n, "TokenDataSent")
  /\ UNCHANGED <<operation, live, looping, executing, work, history>>

\* Mutant: the last token is sent out again.
MutantNextToken(n) ==
  /\ Dequeue(n, "StepComplete", "split")
  /\ Result(Begun(n), Tail(pending), n, "TokenDataSent")
  /\ UNCHANGED <<operation, live, looping, executing, work, history>>

\* _handleStepComplete
NextToken(n) ==
  /\ Dequeue(n, "StepComplete", "split")
  /\ \/ run.left[n] = 0 /\ Result(Begun(n), Tail(pending), n, "Error")
     \/ run.left[n] = 1 /\ Result(Begun(n), Tail(pending), n, "Complete")
     \/ /\ run.left[n] > 1
        /\ Result([Begun(n) EXCEPT !.left[n] = @ - 1], Tail(pending), n, "TokenDataSent")
  /\ UNCHANGED <<operation, live, looping, executing, work, history>>

\* The suspended task calls back and its loop goes on, whatever has become of
\* the run.  If it was retried meanwhile, an error, or a result with a log,
\* makes recordTaskError or recordTaskComplete throw: the loop ends there.
TaskReturns(n) ==
  /\ Idle /\ Running(n)
  /\ executing' = [executing EXCEPT ![n] = @ - 1]
  /\ \/ looping' = TRUE /\ Answers(run, pending, n)
     \/ looping' = TRUE /\ n \notin run.logless /\ Throw(run, pending, n)
     \/ /\ n \in run.logless /\ looping' = FALSE
        /\ \E s \in {"Complete", "Error"} : run' = [run EXCEPT !.last[n] = s]
        /\ UNCHANGED <<pending, disk>>
  /\ UNCHANGED <<operation, live, work, history>>

\* Mutant: the loop ends the run without looking for waits.
MutantDrain ==
  /\ looping /\ pending = <<>>
  /\ Finalize(run)
  /\ looping' = FALSE
  /\ UNCHANGED <<operation, pending, executing, work, history>>

\* The queue is empty: the run waits, or is over.
Drain ==
  /\ looping /\ pending = <<>>
  /\ Finalize(IF Waits(run) # {} THEN [run EXCEPT !.status = "Waiting"] ELSE run)
  /\ looping' = FALSE
  /\ UNCHANGED <<operation, pending, executing, work, history>>

Loop ==
  \/ Drain
  \/ \E n \in Nodes :
       \/ Split(n) \/ NextToken(n)
       \/ \E port \in Ports :
            ReachEnd(n, port) \/ RunTask(n, port) \/ SuspendTask(n, port)
              \/ Dispatch(n, port) \/ AskForInput(n, port)

-----------------------------------------------------------------------------
(***************************************************************************)
(* Reports of beacons, and calls of users.                                 *)
(***************************************************************************)
\* Mutant: a wait is enough.
MutantAccepts(n) == run.waiting[n] # None

\* The guards of resumeOperation and forceErrorOnWaitingTask.
Accepts(n) == run.status = "Waiting" /\ run.waiting[n] # None

\* The run leaves the wait and its loop goes on; nothing is written yet.
Resume(r, n, fire) ==
  /\ run' = [r EXCEPT !.status = "In Progress", !.waiting[n] = None]
  /\ pending' = Fire(pending, n, fire) /\ looping' = TRUE

\* Mutant: a final item may be reported again.
MutantReportComplete(n) ==
  /\ Idle /\ work' = [work EXCEPT ![n] = @ - 1]
  /\ \/ /\ Accepts(n) /\ Resume(run, n, run.waiting[n])
        /\ UNCHANGED refused
     \/ /\ ~Accepts(n) /\ refused' = refused \cup {n}
        /\ UNCHANGED <<run, pending, looping>>
  /\ UNCHANGED <<operation, live, executing, disk, retries, crashes, overtaken>>

\* completeWorkItem: the item is final whether or not the run takes its result.
ReportComplete(n) ==
  /\ Idle /\ work[n] > 0
  /\ work' = [work EXCEPT ![n] = @ - 1]
  /\ \/ /\ Accepts(n) /\ Resume(run, n, run.waiting[n])
        /\ UNCHANGED refused
     \/ /\ ~Accepts(n) /\ refused' = refused \cup {n}
        /\ UNCHANGED <<run, pending, looping>>
  /\ UNCHANGED <<operation, live, executing, disk, retries, crashes, overtaken>>

\* What failWorkItem changes before it asks the run to resume: the wait is to
\* resume with Error, and recordTaskError marks the last Execution and records
\* the error.
Marked(n) == [run EXCEPT !.waiting[n] = IF @ = None THEN None ELSE "Error",
                         !.last[n]    = IF @ = None THEN None ELSE "Error"]
Noted(n)  == [Marked(n) EXCEPT !.errors = IF run.last[n] = None THEN @ ELSE @ \cup {n}]

\* failWorkItem, on its last attempt.  The Execution that a retry pushed has no
\* Log: recordTaskError throws there, before the error is recorded and the run
\* asked to resume.
ReportFailure(n) ==
  /\ Idle /\ work[n] > 0
  /\ work' = [work EXCEPT ![n] = @ - 1]
  /\ \/ /\ n \in run.logless /\ run' = Marked(n)
        /\ UNCHANGED <<pending, looping, refused>>
     \/ /\ n \notin run.logless /\ Accepts(n)
        /\ Resume([Noted(n) EXCEPT !.failed = @ \cup {n}], n, "Error")
        /\ UNCHANGED refused
     \/ /\ n \notin run.logless /\ ~Accepts(n)
        /\ run' = Noted(n) /\ refused' = refused \cup {n}
        /\ UNCHANGED <<pending, looping>>
  /\ UNCHANGED <<operation, live, executing, disk, retries, crashes, overtaken>>

\* The events of the other nodes, in their order.
Without(events, n) ==
  LET kept[i \in 0 .. Len(events)] ==
        IF i = 0 THEN <<>>
        ELSE IF events[i][1] = n THEN kept[i - 1] ELSE Append(kept[i - 1], events[i])
  IN  kept[Len(events)]

\* Mutant: the stalled node goes on waiting.
MutantStall(n) ==
  /\ Idle /\ work[n] > 0
  /\ work' = [work EXCEPT ![n] = @ - 1]
  /\ \/ /\ run.status \in Terminal /\ refused' = refused \cup {n}
        /\ UNCHANGED <<run, live, pending, disk>>
     \/ /\ run.status \notin Terminal
        /\ Finalize([run EXCEPT !.stalled = @ \cup {n}])
        /\ pending' = Without(pending, n)
        /\ UNCHANGED refused
  /\ UNCHANGED <<operation, looping, executing, retries, crashes, overtaken>>

\* stallWorkItem and stallOperation.
Stall(n) ==
  /\ Idle /\ work[n] > 0
  /\ work' = [work EXCEPT ![n] = @ - 1]
  /\ \/ /\ run.status \in Terminal /\ refused' = refused \cup {n}
        /\ UNCHANGED <<run, live, pending, disk>>
     \/ /\ run.status \notin Terminal
        /\ Finalize([run EXCEPT !.stalled = @ \cup {n}, !.waiting[n] = None,
                                !.last[n] = IF @ = None THEN None ELSE "Stalled"])
        /\ pending' = Without(pending, n)
        /\ UNCHANGED refused
  /\ UNCHANGED <<operation, looping, executing, retries, crashes, overtaken>>

\* A user's value, for whichever node of the run waits.
ProvideInput(n) ==
  /\ Idle /\ Accepts(n)
  /\ Resume(run, n, run.waiting[n])
  /\ UNCHANGED <<operation, live, executing, disk, work, history>>

\* forceErrorOnWaitingTask: the Error event is fired and no error recorded.
ForceError(n) ==
  /\ Idle /\ Accepts(n)
  /\ Resume([run EXCEPT !.last[n] = "Error"], n, "Error")
  /\ UNCHANGED <<operation, live, executing, disk, work, history>>

\* abandonRun
Abandon ==
  /\ Idle /\ run.status \notin Terminal
  /\ run' = [run EXCEPT !.status = "Abandoned", !.waiting = NoWaits]
  /\ pending' = <<>> /\ live' = FALSE
  /\ overtaken' = (overtaken \/ \E n \in Nodes : Running(n))
  /\ disk' = Manifest(run')
  /\ UNCHANGED <<operation, looping, executing, work, retries, crashes, refused>>

\* Mutant: Live is not restored.
MutantRetry(n) ==
  /\ Idle /\ retries < MaxRetries
  /\ run.status \notin {"Queued", "In Progress", "Waiting"} /\ run.last[n] # None
  /\ run' = [run EXCEPT !.status = "Waiting", !.waiting[n] = "Complete",
                        !.stalled = @ \ {n}, !.failed = @ \ {n},
                        !.errors = @ \ {n}, !.left[n] = 0, !.last[n] = "Retrying",
                        !.logless = @ \cup {n}]
  /\ disk' = Manifest(run')
  /\ work' = [work EXCEPT ![n] = @ + 1] /\ retries' = retries + 1
  /\ overtaken' = (overtaken \/ \E m \in Nodes : Running(m))
  /\ UNCHANGED <<operation, live, pending, looping, executing, crashes, refused>>

\* retryFromCheckpoint of a node that has run: it waits again, and its work
\* is enqueued whatever its kind.
Retry(n) ==
  /\ Idle /\ retries < MaxRetries
  /\ run.status \notin {"Queued", "In Progress", "Waiting"} /\ run.last[n] # None
  /\ run' = [run EXCEPT !.status = "Waiting", !.waiting[n] = "Complete",
                        !.stalled = @ \ {n}, !.failed = @ \ {n},
                        !.errors = @ \ {n}, !.left[n] = 0, !.last[n] = "Retrying",
                        !.logless = @ \cup {n}]
  /\ live' = TRUE /\ disk' = Manifest(run')
  /\ work' = [work EXCEPT ![n] = @ + 1] /\ retries' = retries + 1
  /\ overtaken' = (overtaken \/ \E m \in Nodes : Running(m))
  /\ UNCHANGED <<operation, pending, looping, executing, crashes, refused>>

-----------------------------------------------------------------------------
(***************************************************************************)
(* A crash and the restart.  Work items outlive it in their journal.       *)
(***************************************************************************)
\* Mutant: whatever does not wait is taken for interrupted.
MutantRecovered(r) ==
  IF r.status # "Waiting"
  THEN [r EXCEPT !.status = "Error", !.errors = @ \cup {None}] ELSE r

\* resumeWaitingRuns, on a manifest that was loaded: a run that was in
\* progress is marked, for good.
Recovered(r) ==
  IF r.status = "In Progress"
  THEN [r EXCEPT !.status = "Error", !.errors = @ \cup {None}] ELSE r

\* loadRecentManifests and resumeWaitingRuns.
Restart ==
  /\ crashes < MaxCrashes /\ disk # None
  /\ run' = Recovered(disk) /\ disk' = Recovered(disk)
  /\ live' = (disk.status = "Waiting" /\ Waits(disk) # {})
  /\ pending' = <<>> /\ looping' = FALSE
  /\ executing' = [n \in Nodes |-> 0]
  /\ crashes' = crashes + 1 /\ overtaken' = FALSE
  /\ UNCHANGED <<operation, work, retries, refused>>

Next ==
  \/ Start \/ StartNowhere \/ Loop \/ Abandon \/ Restart
  \/ \E n \in Nodes :
       \/ TaskReturns(n) \/ ReportComplete(n) \/ ReportFailure(n) \/ Stall(n)
       \/ ProvideInput(n) \/ ForceError(n) \/ Retry(n)

\* The event loop goes on as long as it has something to do, and a task calls
\* back in the end.
Fairness == WF_vars(Loop) /\ \A n \in Nodes : WF_vars(TaskReturns(n))

Spec == Init /\ [][Next]_vars /\ Fairness

-----------------------------------------------------------------------------
(***************************************************************************)
(* Properties.                                                             *)
(***************************************************************************)
\* A run has one loop over its events, and none once it waits or is over: a
\* resumption, which starts a loop, is let in only when the last one has drained
\* the queue.  A stall may leave a loop suspended; two loops take a user who
\* abandons or retries the run while a task is at work.
OneLoop ==
  ~overtaken =>
    /\ looping => run.status \in {"In Progress", "Stalled"}
    /\ \A n \in Nodes :
         Running(n) => /\ ~looping /\ run.status \in {"In Progress", "Stalled"}
                       /\ executing[n] = 1
                       /\ \A m \in Nodes \ {n} : ~Running(m)

\* A run that says Complete has nothing outstanding: no task at work, no event
\* to handle, no node waiting or stalled.
CompleteHasEnded ==
  run.status = "Complete" /\ Idle /\ ~overtaken =>
    /\ pending = <<>> /\ Waits(run) = {} /\ run.stalled = {}
    /\ \A n \in Nodes : ~Running(n)

\* A waiting run can go on: some node waits, and the run is live, which is
\* what the user interface offers its actions by.  Only a run that was abandoned
\* or retried while a task was at work may come back to wait and not be live.
WaitingCanGoOn ==
  run.status = "Waiting" /\ Idle => Waits(run) # {} /\ (live \/ overtaken)

\* A restart would find a waiting run waiting for what it waits for now, and a
\* stalled one stalled.
RestartKeepsWaiting ==
  Idle /\ run.status \in {"Waiting", "Stalled"} =>
    /\ disk # None
    /\ disk.status = run.status /\ disk.stalled = run.stalled
    /\ run.status = "Waiting" => Waits(disk) = Waits(run)

\* A node that waits for a beacon has work some beacon may still report, unless
\* a restart took the run back to a wait that was over, the run was between
\* two waits when the report came, or a node was retried: then a failure may
\* have been reported that threw, which leaves its node waiting to resume with
\* Error.
WaitIsServed ==
  \A n \in Nodes :
    /\ Idle /\ run.status = "Waiting" /\ Kind[n] = "beacon" /\ run.waiting[n] # None
    /\ crashes = 0 /\ n \notin refused
    => work[n] > 0 \/ (retries > 0 /\ run.waiting[n] = "Error")

\* "Stalled is terminal ... recovery requires an explicit retry"
\* (Ultravisor-Status.cjs): no late report, returning task or restart moves a
\* run out of Stalled.
StalledUntilRetried ==
  [][run.status = "Stalled" /\ retries' = retries => run'.status = "Stalled"]_vars

\* A run that completed or failed stays so until it is retried: no late report,
\* stall or restart changes how it ended.
EndIsFinal ==
  [][run.status \in {"Complete", "Failed", "Error"} /\ ~overtaken
       /\ retries' = retries => run'.status = run.status]_vars

\* A run does not stay in progress: its loop and its tasks come to an end, and
\* a restart finds no run in progress.
InProgressEnds == run.status = "In Progress" ~> run.status # "In Progress"

\* "The BeaconCoordinator will call resumeOperation when the beacon reports
\* back" (Ultravisor-TaskHelper-BeaconDispatch.cjs): a node that waits for a
\* beacon has work to be reported.
BeaconReportResumes ==
  \A n \in Nodes :
    Idle /\ run.status = "Waiting" /\ Kind[n] = "beacon" /\ run.waiting[n] # None
      => work[n] > 0
=============================================================================
