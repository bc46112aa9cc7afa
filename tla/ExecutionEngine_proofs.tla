------------------------- MODULE ExecutionEngine_proofs -------------------------
(***************************************************************************)
(* How a run ends, what a restart makes of it, how many loops it has, and  *)
(* what it has in store: the invariants and action properties of           *)
(* ExecutionEngine.                                                        *)
(*                                                                         *)
(* RestartKeepsWaiting and StalledUntilRetried follow from Written: the    *)
(* manifest on disk agrees with a run that waits or is over, in every      *)
(* state, also while a loop that somebody has overtaken still goes through *)
(* its events.  OneLoop is inductive with the types of what it counts, and *)
(* gives EndIsFinal: a run that is over, other than stalled, has no loop   *)
(* left to bring it back.  CompleteHasEnded, WaitingCanGoOn and            *)
(* WaitIsServed follow from Outlook, which needs both.  The types come     *)
(* last: they need the other invariants for their parts, and a stall that  *)
(* filters the queue of events (WithoutIsEvents).                          *)
(***************************************************************************)
EXTENDS ExecutionEngine, TLAPS, NaturalsInduction, WellFoundedInduction

Typed ==
  /\ operation \in OperationType
  /\ run \in RunType /\ disk \in RunType \cup {None}

\* A stalled run has a stalled node, which is what keeps it stalled.
StallHasCause(r) == r.status = "Stalled" => r.stalled # {}

\* The manifest d is what a restart must find of the run r.
Agrees(d, r) ==
  /\ r.status \notin {"Queued", "In Progress"} => d # None /\ d.status = r.status
  /\ r.status \in {"Waiting", "Stalled"} => d.stalled = r.stalled
  /\ r.status = "Waiting" => Waits(d) = Waits(r)

Written ==
  /\ Agrees(disk, run)
  /\ StallHasCause(run)
  /\ disk # None => StallHasCause(disk)

IInv == Typed /\ Written

\* What is written of a run.
LEMMA ManifestOf ==
  ASSUME NEW r \in RunType
  PROVE  /\ Manifest(r) \in RunType /\ Manifest(r) # None
         /\ Manifest(r).status = r.status /\ Manifest(r).stalled = r.stalled
         /\ r.status = "Waiting" => Manifest(r) = r
<1>1. NoWaits \in [Nodes -> {None, "Complete", "Error"}]
  BY DEF NoWaits
<1>2. Manifest(r) \in RunType
  BY <1>1 DEF Manifest, RunType
<1>3. Manifest(r).status = r.status /\ Manifest(r).stalled = r.stalled
  BY DEF Manifest, RunType
<1> QED  BY <1>2, <1>3, RunAssumption DEF Manifest

\* A step that writes the manifest of a run like the one it leaves.
LEMMA WritingKeeps ==
  ASSUME Typed, UNCHANGED operation, NEW r \in RunType, disk' = Manifest(r),
         run' \in RunType, run'.status = r.status, run'.stalled = r.stalled,
         run'.waiting = r.waiting, StallHasCause(r)
  PROVE  IInv'
<1> DEFINE m == Manifest(r)
<1>1. /\ m \in RunType /\ m # None /\ m.status = r.status /\ m.stalled = r.stalled
      /\ r.status = "Waiting" => m.waiting = r.waiting
  BY ManifestOf
<1> HIDE DEF m
<1>2. disk' = m
  BY DEF m
<1>3. run'.status = "Waiting" => Waits(m) = Waits(run')
  BY <1>1 DEF Waits
<1>4. Agrees(m, run') /\ StallHasCause(run') /\ StallHasCause(m)
  BY <1>1, <1>3 DEF Agrees, StallHasCause
<1>5. Typed'
  BY <1>1, <1>2 DEF Typed
<1> QED  BY <1>2, <1>4, <1>5 DEF IInv, Written

\* A step that writes nothing and touches nothing a restart must find.
LEMMA QuietKeeps ==
  ASSUME IInv, UNCHANGED <<operation, disk>>, run' \in RunType,
         run'.status = run.status, run'.stalled = run.stalled,
         run.status = "Waiting" => Waits(run') = Waits(run)
  PROVE  IInv'
BY DEF IInv, Typed, Written, Agrees, StallHasCause

\* A step that writes nothing and leaves the waits as they are.
LEMMA SilenceKeeps ==
  ASSUME IInv, UNCHANGED <<operation, disk>>, run' \in RunType,
         run'.status = run.status, run'.stalled = run.stalled,
         run.status = "Waiting" => run'.waiting = run.waiting
  PROVE  IInv'
<1>1. run.status = "Waiting" => Waits(run') = Waits(run)
  BY DEF Waits
<1> QED  BY <1>1, QuietKeeps

\* A step that sets the run going and writes nothing.
LEMMA GoingOnKeeps ==
  ASSUME IInv, UNCHANGED <<operation, disk>>, run' \in RunType,
         run'.status = "In Progress"
  PROVE  IInv'
BY DEF IInv, Typed, Written, Agrees, StallHasCause

\* finalizeExecution.
LEMMA FinalizeKeeps ==
  ASSUME Typed, UNCHANGED operation, NEW r \in RunType, Finalize(r)
  PROVE  IInv' /\ run'.status = FinalStatus(r)
<1>1. FinalStatus(r) \in Statuses
  BY DEF FinalStatus, Statuses, Terminal
<1>2. run' = [r EXCEPT !.status = FinalStatus(r)] /\ disk' = Manifest(run')
  BY DEF Finalize
<1>3. /\ run' \in RunType /\ run'.status = FinalStatus(r) /\ run'.stalled = r.stalled
  BY <1>1, <1>2 DEF RunType
<1>4. StallHasCause(run')
  BY <1>3 DEF StallHasCause, FinalStatus
<1> QED  BY <1>2, <1>3, <1>4, WritingKeeps

\* An error more changes nothing else of a run.
LEMMA ErrorNoted ==
  ASSUME NEW r \in RunType, NEW n \in Nodes, NEW x, x = [r EXCEPT !.errors = @ \cup {n}]
  PROVE  /\ x \in RunType
         /\ x.status = r.status /\ x.stalled = r.stalled /\ x.waiting = r.waiting
         /\ x.logless = r.logless
BY DEF RunType

\* A task calls back with a result.
LEMMA ResultKeeps ==
  ASSUME IInv, UNCHANGED operation, NEW n \in Nodes, NEW queued, NEW r \in RunType, NEW fire,
         r.status = run.status, r.stalled = run.stalled, Result(r, queued, n, fire)
  PROVE  IInv' /\ run'.status = run.status
<1> DEFINE done == [r EXCEPT !.last[n] = "Complete"]
<1>1. /\ done \in RunType
      /\ done.status = r.status /\ done.stalled = r.stalled
  BY DEF RunType
<1>2. disk' = Manifest(done) /\ (run' = done \/ run' = [done EXCEPT !.errors = @ \cup {n}])
  BY DEF Result
<1> HIDE DEF done
<1>3. /\ run' \in RunType
      /\ run'.status = done.status /\ run'.stalled = done.stalled
      /\ run'.waiting = done.waiting
  BY <1>1, <1>2, ErrorNoted
<1>4. StallHasCause(done)
  BY <1>1 DEF IInv, Written, StallHasCause
<1> QED  BY <1>1, <1>2, <1>3, <1>4, WritingKeeps DEF IInv

\* A task calls back, throws, or calls back with nothing: its run keeps its status,
\* its waits and its stalls.
LEMMA CallBackKeeps ==
  ASSUME IInv, UNCHANGED operation, NEW n \in Nodes, NEW queued, NEW r \in RunType,
         r.status = run.status, r.stalled = run.stalled, r.waiting = run.waiting,
         CallsBack(r, queued, n)
  PROVE  IInv' /\ run'.status = run.status
<1>1. CASE Throw(r, queued, n)
  <2> DEFINE hit == [r EXCEPT !.last[n] = "Error"]
  <2>1. /\ hit \in RunType
        /\ hit.status = r.status /\ hit.stalled = r.stalled /\ hit.waiting = r.waiting
    BY DEF RunType
  <2>2. run' = [hit EXCEPT !.errors = @ \cup {n}] /\ UNCHANGED disk
    BY <1>1 DEF Throw, RunType
  <2> HIDE DEF hit
  <2>3. /\ run' \in RunType /\ run'.status = hit.status
        /\ run'.stalled = hit.stalled /\ run'.waiting = hit.waiting
    BY <2>1, <2>2, ErrorNoted
  <2> QED  BY <2>1, <2>2, <2>3, SilenceKeeps
<1>2. CASE NoResult(r, queued)
  BY <1>2, SilenceKeeps DEF NoResult
<1> QED  BY <1>1, <1>2, ResultKeeps DEF CallsBack, Answers

\* A task that a retry overtook ends its loop: its last Execution is marked, and no more.
LEMMA CutShort ==
  ASSUME Typed, NEW n \in Nodes, NEW s \in {"Complete", "Error"}
  PROVE  LET r == [run EXCEPT !.last[n] = s]
         IN  /\ r \in RunType /\ r.status = run.status
             /\ r.stalled = run.stalled /\ r.waiting = run.waiting
             /\ r.logless = run.logless
BY DEF Typed, RunType

\* A suspended task returns: the run keeps its status.
LEMMA ReturnKeeps ==
  ASSUME IInv, NEW n \in Nodes, TaskReturns(n)
  PROVE  IInv' /\ run'.status = run.status
<1>1. UNCHANGED operation /\ run \in RunType
  BY DEF TaskReturns, IInv, Typed
<1>2. CASE CallsBack(run, pending, n)
  BY <1>1, <1>2, CallBackKeeps
<1>3. ASSUME NEW s \in {"Complete", "Error"}, run' = [run EXCEPT !.last[n] = s],
             UNCHANGED disk
      PROVE  IInv' /\ run'.status = run.status
  BY <1>1, <1>3, CutShort, SilenceKeeps DEF IInv
<1> QED  BY <1>2, <1>3 DEF TaskReturns, CallsBack

\* recordTaskStart.
LEMMA BegunKeeps ==
  ASSUME Typed, NEW n \in Nodes
  PROVE  /\ Begun(n) \in RunType
         /\ Begun(n).status = run.status /\ Begun(n).stalled = run.stalled
         /\ Begun(n).waiting = run.waiting /\ Begun(n).logless \subseteq run.logless
BY DEF Typed, Begun, RunType

\* A task registers a wait.
LEMMA WaitKeeps ==
  ASSUME IInv, UNCHANGED operation, NEW n \in Nodes, NEW queued,
         RegisterWait(Begun(n), queued, n)
  PROVE  IInv' /\ run'.status = run.status
<1> DEFINE r == Begun(n)
<1>1. r \in RunType /\ r.status = run.status /\ r.stalled = run.stalled
  BY BegunKeeps DEF IInv
<1> HIDE DEF r
<1>2. /\ run' = [r EXCEPT !.waiting[n] = "Complete", !.last[n] = "Complete"]
      /\ disk' = Manifest(run')
  BY DEF RegisterWait, r
<1>3. run' \in RunType /\ run'.status = r.status /\ run'.stalled = r.stalled
  BY <1>1, <1>2 DEF RunType
<1>4. StallHasCause(run')
  BY <1>1, <1>3 DEF IInv, Written, StallHasCause
<1> QED  BY <1>1, <1>2, <1>3, <1>4, WritingKeeps DEF IInv

\* The count of a split's tokens changes nothing else of its run.
LEMMA CountKeeps ==
  ASSUME Typed, NEW n \in Nodes, NEW k \in 0 .. MaxTokens
  PROVE  /\ [Begun(n) EXCEPT !.left[n] = k] \in RunType
         /\ [Begun(n) EXCEPT !.left[n] = k].status = run.status
         /\ [Begun(n) EXCEPT !.left[n] = k].stalled = run.stalled
<1> DEFINE r == Begun(n)
<1>1. r \in RunType /\ r.status = run.status /\ r.stalled = run.stalled
  BY BegunKeeps
<1> HIDE DEF r
<1>2. /\ [r EXCEPT !.left[n] = k] \in RunType
      /\ [r EXCEPT !.left[n] = k].status = r.status
      /\ [r EXCEPT !.left[n] = k].stalled = r.stalled
  BY <1>1 DEF RunType
<1> QED  BY <1>1, <1>2 DEF r

-----------------------------------------------------------------------------
\* The tasks of the loop keep the status of the run.
LEMMA TaskKeeps ==
  ASSUME IInv, NEW n \in Nodes, NEW port \in Ports,
         \/ Split(n) \/ NextToken(n) \/ ReachEnd(n, port) \/ RunTask(n, port)
         \/ SuspendTask(n, port) \/ Dispatch(n, port) \/ AskForInput(n, port)
  PROVE  IInv' /\ run'.status = run.status
<1>1. CASE Split(n)
  <2>1. PICK k \in 1 .. MaxTokens :
          Result([Begun(n) EXCEPT !.left[n] = k], Tail(pending), n, "TokenDataSent")
    BY <1>1 DEF Split
  <2>2. k \in 0 .. MaxTokens
    BY BoundsAssumption
  <2>3. UNCHANGED operation
    BY <1>1 DEF Split
  <2> DEFINE r == [Begun(n) EXCEPT !.left[n] = k]
  <2>4. r \in RunType /\ r.status = run.status /\ r.stalled = run.stalled
    BY <2>2, CountKeeps DEF IInv
  <2>5. Result(r, Tail(pending), n, "TokenDataSent")
    BY <2>1
  <2> HIDE DEF r
  <2> QED  BY <2>3, <2>4, <2>5, ResultKeeps
<1>2. CASE NextToken(n)
  <2>1. CASE Result(Begun(n), Tail(pending), n, "Error")
               \/ Result(Begun(n), Tail(pending), n, "Complete")
    BY <1>2, <2>1, BegunKeeps, ResultKeeps DEF NextToken, IInv
  <2>2. CASE /\ run.left[n] > 1
             /\ Result([Begun(n) EXCEPT !.left[n] = @ - 1], Tail(pending), n, "TokenDataSent")
    <3> DEFINE k == run.left[n] - 1
    <3>1. run.left[n] \in 0 .. MaxTokens /\ Begun(n).left = run.left
      BY DEF IInv, Typed, RunType, Begun
    <3>2. k \in 0 .. MaxTokens
      BY <2>2, <3>1, BoundsAssumption
    <3>3. Result([Begun(n) EXCEPT !.left[n] = k], Tail(pending), n, "TokenDataSent")
      BY <2>2, <3>1
    <3> HIDE DEF k
    <3> QED  BY <1>2, <3>2, <3>3, CountKeeps, ResultKeeps DEF NextToken, IInv
  <2> QED  BY <1>2, <2>1, <2>2 DEF NextToken
<1>3. CASE ReachEnd(n, port)
  BY <1>3, SilenceKeeps DEF ReachEnd, IInv, Typed
<1>4. CASE RunTask(n, port)
  BY <1>4, BegunKeeps, CallBackKeeps DEF RunTask, IInv
<1>5. CASE SuspendTask(n, port)
  BY <1>5, BegunKeeps, SilenceKeeps DEF SuspendTask, IInv
<1>6. CASE Dispatch(n, port)
  BY <1>6, BegunKeeps, WaitKeeps, ResultKeeps DEF Dispatch, IInv
<1>7. CASE AskForInput(n, port)
  BY <1>7, WaitKeeps DEF AskForInput
<1> QED  BY <1>1, <1>2, <1>3, <1>4, <1>5, <1>6, <1>7

\* The loop ends: a stalled run is stalled again, whatever else has gone wrong.
LEMMA DrainKeeps ==
  ASSUME IInv, Drain
  PROVE  IInv' /\ (run.status = "Stalled" => run'.status = "Stalled")
<1>1. PICK r \in RunType : Finalize(r) /\ r.stalled = run.stalled
  <2>1. /\ [run EXCEPT !.status = "Waiting"] \in RunType
        /\ [run EXCEPT !.status = "Waiting"].stalled = run.stalled
    BY DEF IInv, Typed, RunType, Statuses
  <2> QED  BY <2>1 DEF Drain, IInv, Typed
<1>2. UNCHANGED operation
  BY DEF Drain
<1>3. IInv' /\ run'.status = FinalStatus(r)
  BY <1>1, <1>2, FinalizeKeeps DEF IInv
<1> QED  BY <1>1, <1>3 DEF FinalStatus, IInv, Written, StallHasCause

\* A wait is over and the run goes on.
LEMMA ResumeKeeps ==
  ASSUME IInv, UNCHANGED <<operation, disk>>, NEW n \in Nodes, NEW r \in RunType, NEW fire,
         Resume(r, n, fire)
  PROVE  IInv'
<1>1. run' = [r EXCEPT !.status = "In Progress", !.waiting[n] = None]
  BY DEF Resume
<1>2. run' \in RunType /\ run'.status = "In Progress"
  BY <1>1 DEF RunType, Statuses
<1> QED  BY <1>2, GoingOnKeeps

\* What failWorkItem notes of a node: the run keeps its status, its stalls and the nodes
\* that wait, and the other nodes' waits as they are.
LEMMA MarkedIs ==
  ASSUME Typed, NEW n \in Nodes
  PROVE  /\ Marked(n) \in RunType
         /\ Marked(n).status = run.status /\ Marked(n).stalled = run.stalled
         /\ Marked(n).logless = run.logless
         /\ \A m \in Nodes : Marked(n).waiting[m] =
                IF m = n /\ run.waiting[n] # None THEN "Error" ELSE run.waiting[m]
         /\ Waits(Marked(n)) = Waits(run)
<1>1. run \in RunType /\ run.waiting \in [Nodes -> {None, "Complete", "Error"}]
  BY DEF Typed, RunType
<1> DEFINE waits == [run.waiting EXCEPT ![n] = IF @ = None THEN None ELSE "Error"]
           lasts == [run.last EXCEPT ![n] = IF @ = None THEN None ELSE "Error"]
<1>5. Marked(n) = [run EXCEPT !.waiting = waits, !.last = lasts]
  BY <1>1 DEF Marked, RunType
<1>6. /\ waits \in [Nodes -> {None, "Complete", "Error"}]
      /\ lasts \in [Nodes -> {None, "In Progress", "Complete", "Error", "Stalled", "Retrying"}]
  BY <1>1 DEF RunType
<1> HIDE DEF waits, lasts
<1>7. /\ Marked(n) \in RunType
      /\ Marked(n).status = run.status /\ Marked(n).stalled = run.stalled
      /\ Marked(n).logless = run.logless /\ Marked(n).waiting = waits
  BY <1>1, <1>5, <1>6 DEF RunType
<1>2. /\ Marked(n) \in RunType
      /\ Marked(n).status = run.status /\ Marked(n).stalled = run.stalled
      /\ Marked(n).logless = run.logless
      /\ Marked(n).waiting = [run.waiting EXCEPT ![n] = IF @ = None THEN None ELSE "Error"]
  BY <1>7 DEF waits
<1>3. \A m \in Nodes : Marked(n).waiting[m] =
         IF m = n /\ run.waiting[n] # None THEN "Error" ELSE run.waiting[m]
  BY <1>1, <1>2
<1>4. "Error" # None
  BY GraphAssumption DEF Fires
<1> HIDE DEF Marked
<1> QED  BY <1>2, <1>3, <1>4 DEF Waits

\* The error it records, and the mark _BeaconError, change nothing else.
LEMMA NotedIs ==
  ASSUME Typed, NEW n \in Nodes, NEW r,
         r = Noted(n) \/ r = [Noted(n) EXCEPT !.failed = @ \cup {n}]
  PROVE  /\ r \in RunType /\ r.status = run.status /\ r.stalled = run.stalled
         /\ r.logless = run.logless /\ r.waiting = Marked(n).waiting
<1> DEFINE x == Marked(n)
           errors == IF run.last[n] = None THEN x.errors ELSE x.errors \cup {n}
<1>1. x \in RunType /\ x.status = run.status /\ x.stalled = run.stalled
      /\ x.logless = run.logless
  BY MarkedIs
<1>2. Noted(n) = [x EXCEPT !.errors = errors]
  BY DEF Noted
<1> HIDE DEF x
<1>6. errors \in SUBSET (Nodes \cup {None})
  BY <1>1 DEF RunType
<1> HIDE DEF errors
<1>3. /\ Noted(n) \in RunType /\ Noted(n).status = x.status
      /\ Noted(n).stalled = x.stalled /\ Noted(n).logless = x.logless
      /\ Noted(n).waiting = x.waiting
  BY <1>1, <1>2, <1>6 DEF RunType
<1>4. ASSUME NEW y \in RunType
      PROVE  LET f == [y EXCEPT !.failed = @ \cup {n}]
             IN  /\ f \in RunType /\ f.status = y.status /\ f.stalled = y.stalled
                 /\ f.logless = y.logless /\ f.waiting = y.waiting
  <2> DEFINE failed == y.failed \cup {n}
  <2>1. failed \in SUBSET Nodes
    BY DEF RunType
  <2> HIDE DEF failed
  <2>2. LET f == [y EXCEPT !.failed = failed]
        IN  /\ f \in RunType /\ f.status = y.status /\ f.stalled = y.stalled
            /\ f.logless = y.logless /\ f.waiting = y.waiting
    BY <2>1 DEF RunType
  <2> QED  BY <2>2 DEF failed
<1>5. \/ r = Noted(n)
      \/ /\ r \in RunType /\ r.status = Noted(n).status /\ r.stalled = Noted(n).stalled
         /\ r.logless = Noted(n).logless /\ r.waiting = Noted(n).waiting
  BY <1>3, <1>4
<1> QED  BY <1>1, <1>3, <1>5 DEF x

\* A beacon reports: the run resumes, or keeps its status.
LEMMA ReportsKeep ==
  ASSUME IInv, NEW n \in Nodes, ReportComplete(n) \/ ReportFailure(n)
  PROVE  IInv' /\ (run.status # "Waiting" => run'.status = run.status)
<1>1. CASE ReportComplete(n)
  <2>1. UNCHANGED <<operation, disk>>
    BY <1>1 DEF ReportComplete
  <2>2. CASE Accepts(n) /\ Resume(run, n, run.waiting[n])
    BY <2>1, <2>2, ResumeKeeps DEF IInv, Typed, Accepts
  <2>3. CASE UNCHANGED run
    BY <2>1, <2>3, SilenceKeeps DEF IInv, Typed
  <2> QED  BY <1>1, <2>2, <2>3 DEF ReportComplete
<1>2. CASE ReportFailure(n)
  <2>1. UNCHANGED <<operation, disk>>
    BY <1>2 DEF ReportFailure
  <2>2. CASE Accepts(n) /\ Resume([Noted(n) EXCEPT !.failed = @ \cup {n}], n, "Error")
    BY <2>1, <2>2, NotedIs, ResumeKeeps DEF IInv, Accepts
  <2>3. CASE run' = Marked(n)
    BY <2>1, <2>3, MarkedIs, QuietKeeps DEF IInv
  <2>4. CASE run' = Noted(n)
    <3>1. /\ run' \in RunType /\ run'.status = run.status /\ run'.stalled = run.stalled
          /\ run'.waiting = Marked(n).waiting
      BY <2>4, NotedIs DEF IInv
    <3>2. Waits(run') = Waits(run)
      BY <3>1, MarkedIs DEF Waits, IInv
    <3> QED  BY <2>1, <3>1, <3>2, QuietKeeps
  <2> QED  BY <1>2, <2>2, <2>3, <2>4 DEF ReportFailure
<1> QED  BY <1>1, <1>2

\* What a stall makes of a run that is not over.
LEMMA StalledIs ==
  ASSUME Typed, NEW n \in Nodes
  PROVE  LET r == [run EXCEPT !.stalled = @ \cup {n}, !.waiting[n] = None,
                              !.last[n] = IF @ = None THEN None ELSE "Stalled"]
         IN  /\ r \in RunType /\ r.stalled # {} /\ r.status = run.status
             /\ r.waiting = [run.waiting EXCEPT ![n] = None] /\ r.logless = run.logless
<1> DEFINE waits == [run.waiting EXCEPT ![n] = None]
           lasts == [run.last EXCEPT ![n] = IF @ = None THEN None ELSE "Stalled"]
           stalls == run.stalled \cup {n}
           r == [run EXCEPT !.stalled = @ \cup {n}, !.waiting[n] = None,
                            !.last[n] = IF @ = None THEN None ELSE "Stalled"]
<1>1. run \in RunType
  BY DEF Typed
<1>2. r = [run EXCEPT !.stalled = stalls, !.waiting = waits, !.last = lasts]
  BY <1>1 DEF RunType
<1>3. /\ stalls \in SUBSET Nodes
      /\ waits \in [Nodes -> {None, "Complete", "Error"}]
      /\ lasts \in [Nodes -> {None, "In Progress", "Complete", "Error", "Stalled", "Retrying"}]
  BY <1>1 DEF RunType
<1> HIDE DEF stalls, waits, lasts, r
<1>4. /\ r \in RunType /\ r.stalled = stalls /\ r.status = run.status
      /\ r.waiting = waits /\ r.logless = run.logless
  BY <1>1, <1>2, <1>3 DEF RunType
<1> QED  BY <1>4 DEF r, waits, stalls

\* A stall ends a run that was not over, and changes no other.
LEMMA StallKeeps ==
  ASSUME IInv, NEW n \in Nodes, Stall(n)
  PROVE  IInv' /\ (run.status \in Terminal => run'.status = run.status)
<1>1. UNCHANGED operation
  BY DEF Stall
<1>2. CASE UNCHANGED <<run, disk>>
  BY <1>1, <1>2, SilenceKeeps DEF IInv, Typed
<1>3. CASE /\ run.status \notin Terminal
           /\ Finalize([run EXCEPT !.stalled = @ \cup {n}, !.waiting[n] = None,
                                   !.last[n] = IF @ = None THEN None ELSE "Stalled"])
  <2> DEFINE r == [run EXCEPT !.stalled = @ \cup {n}, !.waiting[n] = None,
                              !.last[n] = IF @ = None THEN None ELSE "Stalled"]
  <2>1. r \in RunType
    BY StalledIs DEF IInv
  <2>2. Finalize(r)
    BY <1>3
  <2> HIDE DEF r
  <2> QED  BY <1>1, <1>3, <2>1, <2>2, FinalizeKeeps DEF IInv
<1> QED  BY <1>2, <1>3 DEF Stall

\* A user gives a value or forces an error.
LEMMA UsersKeep ==
  ASSUME IInv, NEW n \in Nodes, ProvideInput(n) \/ ForceError(n)
  PROVE  IInv' /\ run.status = "Waiting"
<1>1. run \in RunType /\ [run EXCEPT !.last[n] = "Error"] \in RunType
  BY DEF IInv, Typed, RunType
<1> QED  BY <1>1, ResumeKeeps DEF ProvideInput, ForceError, Accepts

\* A user abandons the run.
LEMMA AbandonKeeps ==
  ASSUME IInv, Abandon
  PROVE  IInv' /\ run.status \notin Terminal
<1>1. run' = [run EXCEPT !.status = "Abandoned", !.waiting = NoWaits]
  BY DEF Abandon
<1>2. NoWaits \in [Nodes -> {None, "Complete", "Error"}]
  BY DEF NoWaits
<1>3. run' \in RunType /\ run'.status = "Abandoned"
  BY <1>1, <1>2 DEF IInv, Typed, RunType, Statuses, Terminal
<1>4. StallHasCause(run')
  BY <1>3 DEF StallHasCause
<1> QED  BY <1>3, <1>4, WritingKeeps DEF Abandon, IInv

\* A user retries a node.
LEMMA RetryKeeps ==
  ASSUME IInv, NEW n \in Nodes, retries \in Nat, Retry(n)
  PROVE  IInv' /\ retries' # retries
<1>1. run' = [run EXCEPT !.status = "Waiting", !.waiting[n] = "Complete",
                         !.stalled = @ \ {n}, !.failed = @ \ {n},
                         !.errors = @ \ {n}, !.left[n] = 0, !.last[n] = "Retrying",
                         !.logless = @ \cup {n}]
  BY DEF Retry
<1>2. 0 \in 0 .. MaxTokens /\ run \in RunType
  BY BoundsAssumption DEF IInv, Typed
<1>3. run' \in RunType
  BY <1>1, <1>2 DEF RunType, Statuses
<1>4. StallHasCause(run')
  BY <1>1, <1>2 DEF StallHasCause, RunType
<1>5. disk' = Manifest(run') /\ UNCHANGED operation /\ retries' = retries + 1
  BY DEF Retry
<1> QED  BY <1>3, <1>4, <1>5, WritingKeeps DEF IInv

\* A restart: a run that was over is what it was.
LEMMA RestartKeeps ==
  ASSUME IInv, Restart
  PROVE  IInv' /\ (run.status \in Terminal => run'.status = run.status)
<1>1. disk \in RunType /\ disk # None
  BY DEF Restart, IInv, Typed
<1>2. /\ run' = Recovered(disk) /\ disk' = Recovered(disk) /\ UNCHANGED operation
  BY DEF Restart
<1>3. CASE disk.status = "In Progress"
  <2>1. run' = [disk EXCEPT !.status = "Error", !.errors = @ \cup {None}]
    BY <1>2, <1>3 DEF Recovered
  <2>2. run' \in RunType /\ run'.status = "Error"
    BY <1>1, <2>1 DEF RunType, Statuses, Terminal
  <2>3. disk' = run' /\ disk' # None
    BY <1>2, <2>2, RunAssumption
  <2>4. IInv'
    BY <1>2, <2>2, <2>3 DEF IInv, Typed, Written, Agrees, StallHasCause
  <2>5. run.status \notin Terminal
    BY <1>3 DEF IInv, Written, Agrees, Terminal
  <2> QED  BY <2>4, <2>5
<1>4. CASE disk.status # "In Progress"
  BY <1>1, <1>2, <1>4 DEF Recovered, IInv, Typed, Written, Agrees, StallHasCause, Terminal
<1> QED  BY <1>3, <1>4

-----------------------------------------------------------------------------
\* Init puts nothing on disk.
LEMMA InitKeeps ==
  ASSUME Init
  PROVE  IInv
<1>1. NoWaits \in [Nodes -> {None, "Complete", "Error"}]
      /\ NoWaits \in [Nodes -> {None, "In Progress", "Complete", "Error", "Stalled", "Retrying"}]
  BY DEF NoWaits
<1>2. [n \in Nodes |-> 0] \in [Nodes -> 0 .. MaxTokens]
  BY BoundsAssumption
<1>3. run \in RunType /\ run.status = "Queued"
  BY <1>1, <1>2 DEF Init, RunType, Statuses
<1>4. disk = None /\ operation \in OperationType
  BY GraphAssumption DEF Init
<1> QED  BY <1>3, <1>4 DEF IInv, Typed, Written, Agrees, StallHasCause

\* The loops of the run: OneLoop, and the types it needs.
Looped ==
  /\ looping \in BOOLEAN /\ overtaken \in BOOLEAN
  /\ executing \in [Nodes -> Nat] /\ retries \in Nat
  /\ OneLoop

\* A step that starts and ends no loop, and leaves the run as it is or in a
\* state a loop may be in.
LEMMA SameLoops ==
  ASSUME Looped, UNCHANGED <<looping, executing, overtaken, retries>>,
         run'.status = run.status \/ run'.status \in {"In Progress", "Stalled"}
  PROVE  Looped'
BY DEF Looped, OneLoop, Running

\* A resumption starts the one loop of a run that has none: the run is waiting,
\* and a waiting run has no loop.
LEMMA ResumeStartsOne ==
  ASSUME IInv, Looped, NEW n \in Nodes, NEW r \in RunType, NEW fire,
         run.status = "Waiting", Resume(r, n, fire),
         UNCHANGED <<executing, overtaken, retries>>
  PROVE  Looped' /\ run'.status = "In Progress"
<1>1. run'.status = "In Progress" /\ looping' = TRUE
  BY DEF Resume, RunType
<1>2. overtaken \/ \A m \in Nodes : ~Running(m)
  BY DEF Looped, OneLoop
<1> QED  BY <1>1, <1>2 DEF Looped, OneLoop, Running

\* What a step may do to a run that has ended.
EndsKept ==
  /\ retries' = retries /\ run.status = "Stalled" => run'.status = "Stalled"
  /\ retries' = retries /\ ~overtaken /\ run.status \in {"Complete", "Failed", "Error"}
       => run'.status = run.status

\* A step of the loop: the loop of a run that has ended is one of a stalled
\* run, unless somebody has overtaken it.
LEMMA LoopStep ==
  ASSUME IInv, Looped, Loop
  PROVE  IInv' /\ Looped' /\ EndsKept
<1>1. CASE Drain
  <2>1. /\ looping /\ looping' = FALSE
        /\ UNCHANGED <<executing, overtaken, retries>>
    BY <1>1 DEF Drain, history
  <2>2. overtaken \/ \A n \in Nodes : ~Running(n)
    BY <2>1 DEF Looped, OneLoop
  <2>3. Looped'
    BY <2>1, <2>2 DEF Looped, OneLoop, Running
  <2>4. ~overtaken => run.status \in {"In Progress", "Stalled"}
    BY <2>1 DEF Looped, OneLoop
  <2> QED  BY <1>1, <2>3, <2>4, DrainKeeps DEF EndsKept
<1>2. ASSUME NEW n \in Nodes, NEW port \in Ports,
             \/ Split(n) \/ NextToken(n) \/ ReachEnd(n, port) \/ RunTask(n, port)
             \/ SuspendTask(n, port) \/ Dispatch(n, port) \/ AskForInput(n, port)
      PROVE  IInv' /\ Looped' /\ EndsKept
  <2>1. IInv' /\ run'.status = run.status
    BY <1>2, TaskKeeps
  <2>2. CASE SuspendTask(n, port)
    <3>1. /\ looping /\ looping' = FALSE
          /\ executing' = [executing EXCEPT ![n] = @ + 1]
          /\ UNCHANGED <<overtaken, retries>>
      BY <2>2 DEF SuspendTask, Dequeue, history
    <3>2. executing' \in [Nodes -> Nat]
      BY <3>1 DEF Looped
    <3>3. ASSUME ~overtaken
          PROVE  OneLoop'
      <4>1. \A m \in Nodes : executing[m] = 0
        BY <3>1, <3>3 DEF Looped, OneLoop, Running
      <4>2. \A m \in Nodes : executing'[m] = IF m = n THEN 1 ELSE 0
        BY <3>1, <4>1 DEF Looped
      <4>3. run.status \in {"In Progress", "Stalled"}
        BY <3>1, <3>3 DEF Looped, OneLoop
      <4>5. \A m \in Nodes : executing'[m] # 0 => m = n /\ executing'[m] = 1
        BY <4>2
      <4> QED  BY <2>1, <3>1, <4>3, <4>5 DEF OneLoop, Running
    <3>4. Looped'
      BY <3>1, <3>2, <3>3 DEF Looped, OneLoop
    <3> QED  BY <2>1, <3>4 DEF EndsKept
  <2>3. CASE ~SuspendTask(n, port)
    <3>1. UNCHANGED <<looping, executing, overtaken, retries>>
      BY <1>2, <2>3 DEF Split, NextToken, ReachEnd, RunTask, Dispatch, AskForInput, history
    <3> QED  BY <2>1, <3>1, SameLoops DEF EndsKept
  <2> QED  BY <2>2, <2>3
<1>3. "Trigger" \in Ports
  BY DEF Ports
<1>4. CASE \E n \in Nodes : Split(n) \/ NextToken(n)
  BY <1>2, <1>3, <1>4
<1>5. CASE \E n \in Nodes, port \in Ports :
             ReachEnd(n, port) \/ RunTask(n, port) \/ SuspendTask(n, port)
               \/ Dispatch(n, port) \/ AskForInput(n, port)
  BY <1>2, <1>5
<1> QED  BY <1>1, <1>4, <1>5 DEF Loop

\* Each step keeps the invariant, and a run that has ended is brought back only
\* by a retry.
LEMMA StepKeeps ==
  ASSUME IInv, Looped, [Next]_vars
  PROVE  IInv' /\ Looped' /\ EndsKept
<1>1. CASE Start
  <2>1. run' \in RunType /\ run'.status = "In Progress"
    BY <1>1 DEF Start, IInv, Typed, RunType, Statuses
  <2>2. UNCHANGED <<operation, disk, executing, overtaken, retries>> /\ looping' = TRUE
    BY <1>1 DEF Start, history
  <2>3. overtaken \/ \A n \in Nodes : ~Running(n)
    BY <1>1 DEF Start, Looped, OneLoop
  <2>4. Looped'
    BY <2>1, <2>2, <2>3 DEF Looped, OneLoop, Running
  <2>5. EndsKept
    BY <1>1 DEF Start, EndsKept
  <2> QED  BY <2>1, <2>2, <2>4, <2>5, GoingOnKeeps
<1>2. CASE StartNowhere
  <2>1. [run EXCEPT !.status = "Error"] \in RunType
    BY DEF IInv, Typed, RunType, Statuses, Terminal
  <2>2. UNCHANGED <<operation, looping, executing, overtaken, retries>>
    BY <1>2 DEF StartNowhere, history
  <2>3. IInv'
    BY <1>2, <2>1, <2>2, FinalizeKeeps DEF StartNowhere, IInv
  <2>4. overtaken \/ (~looping /\ \A n \in Nodes : ~Running(n))
    BY <1>2 DEF StartNowhere, Looped, OneLoop
  <2>5. Looped'
    BY <2>2, <2>4 DEF Looped, OneLoop, Running
  <2>6. EndsKept
    BY <1>2 DEF StartNowhere, EndsKept
  <2> QED  BY <2>3, <2>5, <2>6
<1>3. CASE Abandon
  <2>1. /\ looping' = looping /\ ~looping
        /\ UNCHANGED <<executing, retries>>
        /\ overtaken' = (overtaken \/ \E n \in Nodes : Running(n))
    BY <1>3 DEF Abandon, Idle
  <2>2. Looped'
    BY <2>1 DEF Looped, OneLoop, Running
  <2> QED  BY <1>3, <2>2, AbandonKeeps DEF EndsKept, Terminal
<1>4. CASE Restart
  <2>1. /\ looping' = FALSE /\ executing' = [n \in Nodes |-> 0]
        /\ overtaken' = FALSE /\ retries' = retries
    BY <1>4 DEF Restart
  <2>3. executing' \in [Nodes -> Nat] /\ \A n \in Nodes : executing'[n] = 0
    BY <2>1
  <2>2. Looped'
    BY <2>1, <2>3 DEF Looped, OneLoop, Running
  <2> QED  BY <1>4, <2>2, RestartKeeps DEF EndsKept, Terminal
<1>5. ASSUME NEW n \in Nodes, TaskReturns(n)
      PROVE  IInv' /\ Looped' /\ EndsKept
  <2>1. UNCHANGED <<operation, overtaken, retries>>
    BY <1>5 DEF TaskReturns, history
  <2>2. IInv' /\ run'.status = run.status
    BY <1>5, ReturnKeeps
  <2>3. /\ executing[n] # 0 /\ executing' = [executing EXCEPT ![n] = @ - 1]
        /\ looping' \in BOOLEAN
    BY <1>5 DEF TaskReturns, Running
  <2>4. executing' \in [Nodes -> Nat]
    BY <2>3 DEF Looped
  <2>5. ASSUME ~overtaken
        PROVE  OneLoop'
    <3>1. /\ run.status \in {"In Progress", "Stalled"} /\ executing[n] = 1
          /\ \A m \in Nodes \ {n} : executing[m] = 0
      BY <2>3, <2>5 DEF Looped, OneLoop, Running
    <3>2. ASSUME NEW m \in Nodes
          PROVE  executing'[m] = 0
      <4>1. CASE m = n
        <5>1. executing'[n] = executing[n] - 1
          BY <2>3 DEF Looped
        <5>2. executing[n] = 1
          BY <3>1
        <5> QED  BY <4>1, <5>1, <5>2
      <4>2. CASE m # n
        BY <2>3, <3>1, <4>2 DEF Looped
      <4> QED  BY <4>1, <4>2
    <3> QED  BY <2>2, <3>1, <3>2 DEF OneLoop, Running
  <2>6. Looped'
    BY <2>1, <2>3, <2>4, <2>5 DEF Looped, OneLoop
  <2> QED  BY <2>2, <2>6 DEF EndsKept
<1>6. ASSUME NEW n \in Nodes, ReportComplete(n) \/ ReportFailure(n)
      PROVE  IInv' /\ Looped' /\ EndsKept
  <2>1. IInv' /\ (run.status # "Waiting" => run'.status = run.status)
    BY <1>6, ReportsKeep
  <2>2. UNCHANGED <<executing, overtaken, retries>>
    BY <1>6 DEF ReportComplete, ReportFailure
  <2>3. \/ UNCHANGED looping /\ run'.status = run.status
        \/ \E r \in RunType, fire \in {"Error", run.waiting[n]} :
             Accepts(n) /\ Resume(r, n, fire)
    <3>1. CASE ReportComplete(n)
      BY <3>1 DEF ReportComplete, IInv, Typed
    <3>2. CASE ReportFailure(n)
      <4>1. /\ Marked(n).status = run.status /\ Noted(n).status = run.status
            /\ [Noted(n) EXCEPT !.failed = @ \cup {n}] \in RunType
        BY MarkedIs, NotedIs DEF IInv
      <4> HIDE DEF Noted, Marked
      <4> QED  BY <3>2, <4>1 DEF ReportFailure
    <3> QED  BY <1>6, <3>1, <3>2
  <2>4. Looped'
    BY <2>2, <2>3, SameLoops, ResumeStartsOne DEF Accepts
  <2> QED  BY <2>1, <2>4 DEF EndsKept
<1>7. ASSUME NEW n \in Nodes, Stall(n)
      PROVE  IInv' /\ Looped' /\ EndsKept
  <2>1. IInv' /\ (run.status \in Terminal => run'.status = run.status)
    BY <1>7, StallKeeps
  <2>2. UNCHANGED <<looping, executing, overtaken, retries>>
    BY <1>7 DEF Stall
  <2>3. run'.status = run.status \/ run'.status = "Stalled"
    <3>1. CASE UNCHANGED run
      BY <3>1
    <3>2. CASE ~UNCHANGED run
      <4> DEFINE r == [run EXCEPT !.stalled = @ \cup {n}, !.waiting[n] = None,
                                  !.last[n] = IF @ = None THEN None ELSE "Stalled"]
      <4>1. Finalize(r) /\ UNCHANGED operation
        BY <1>7, <3>2 DEF Stall
      <4>2. r \in RunType /\ r.stalled # {}
        BY StalledIs DEF IInv
      <4> HIDE DEF r
      <4> QED  BY <4>1, <4>2, FinalizeKeeps DEF FinalStatus, IInv
    <3> QED  BY <3>1, <3>2
  <2>4. Looped'
    BY <2>2, <2>3, SameLoops
  <2> QED  BY <2>1, <2>4 DEF EndsKept, Terminal
<1>8. ASSUME NEW n \in Nodes, ProvideInput(n) \/ ForceError(n)
      PROVE  IInv' /\ Looped' /\ EndsKept
  <2>1. IInv' /\ run.status = "Waiting"
    BY <1>8, UsersKeep
  <2>2. UNCHANGED <<executing, overtaken, retries>>
    BY <1>8 DEF ProvideInput, ForceError, history
  <2>3. run \in RunType /\ [run EXCEPT !.last[n] = "Error"] \in RunType
    BY DEF IInv, Typed, RunType
  <2>4. Looped'
    BY <1>8, <2>1, <2>2, <2>3, ResumeStartsOne DEF ProvideInput, ForceError
  <2> QED  BY <2>1, <2>4 DEF EndsKept
<1>9. ASSUME NEW n \in Nodes, Retry(n)
      PROVE  IInv' /\ Looped' /\ EndsKept
  <2>1. IInv' /\ retries' # retries
    BY <1>9, RetryKeeps DEF Looped
  <2>2. /\ ~looping /\ UNCHANGED <<looping, executing>>
        /\ overtaken' = (overtaken \/ \E m \in Nodes : Running(m))
        /\ retries' = retries + 1
    BY <1>9 DEF Retry, Idle
  <2>4. retries' \in Nat
    BY <2>2 DEF Looped
  <2>3. Looped'
    BY <2>2, <2>4 DEF Looped, OneLoop, Running
  <2> QED  BY <2>1, <2>3 DEF EndsKept
<1>10. CASE UNCHANGED vars
  <2>1. IInv'
    BY <1>10, SilenceKeeps DEF vars, IInv, Typed
  <2> QED  BY <1>10, <2>1, SameLoops DEF vars, EndsKept
<1> QED
  BY <1>1, <1>2, <1>3, <1>4, <1>5, <1>6, <1>7, <1>8, <1>9, <1>10, LoopStep DEF Next

-----------------------------------------------------------------------------
\* The invariant the theorems below rest on.
THEOREM EngineInvariant == Spec => [](IInv /\ Looped)
<1>1. Init => IInv /\ Looped
  <2>1. ASSUME Init
        PROVE  Looped
    <3>1. executing \in [Nodes -> Nat] /\ \A n \in Nodes : executing[n] = 0
      BY <2>1 DEF Init
    <3>2. looping = FALSE /\ overtaken = FALSE /\ retries = 0
      BY <2>1 DEF Init
    <3>3. OneLoop
      BY <3>1, <3>2 DEF OneLoop, Running
    <3>4. retries \in Nat
      BY <3>2
    <3> QED  BY <3>1, <3>2, <3>3, <3>4 DEF Looped
  <2> QED  BY <2>1, InitKeeps
<1>2. IInv /\ Looped /\ [Next]_vars => (IInv /\ Looped)'
  BY StepKeeps
<1> QED  BY <1>1, <1>2, PTL DEF Spec

\* A run has one loop over its events, whatever reports, stalls, timeouts and
\* users' calls interleave with its tasks, unless a user overtook a task at work.
THEOREM RunsHaveOneLoop == Spec => []OneLoop
<1>1. IInv /\ Looped => OneLoop
  BY DEF Looped
<1> QED  BY <1>1, EngineInvariant, PTL

\* A restart finds the nodes a waiting run waits for waiting, and a stalled run stalled.
THEOREM RestartFindsWaiting == Spec => []RestartKeepsWaiting
<1>1. IInv /\ Looped => RestartKeepsWaiting
  BY DEF IInv, Written, Agrees, RestartKeepsWaiting
<1> QED  BY <1>1, EngineInvariant, PTL

\* Nothing but a retry moves a run out of Stalled.
THEOREM StalledRunsStayStalled == Spec => StalledUntilRetried
<1>1. IInv /\ Looped /\ [Next]_vars
        => [run.status = "Stalled" /\ retries' = retries => run'.status = "Stalled"]_vars
  BY StepKeeps DEF EndsKept
<1> QED  BY <1>1, EngineInvariant, PTL DEF Spec, StalledUntilRetried

\* Nothing but a retry changes how a run has ended.
THEOREM EndedRunsStayEnded == Spec => EndIsFinal
<1>1. IInv /\ Looped /\ [Next]_vars
        => [run.status \in {"Complete", "Failed", "Error"} /\ ~overtaken
              /\ retries' = retries => run'.status = run.status]_vars
  BY StepKeeps DEF EndsKept
<1> QED  BY <1>1, EngineInvariant, PTL DEF Spec, EndIsFinal

-----------------------------------------------------------------------------
(***************************************************************************)
(* What a run that waits waits for, and what a complete one has left:      *)
(* WaitIsServed, WaitingCanGoOn and CompleteHasEnded follow from Outlook,  *)
(* which looks at the run and at the manifest a restart would take up.     *)
(***************************************************************************)
\* A complete run has no stalled node, and a waiting one a node that waits.
Sound(r) ==
  /\ r.status = "Complete" => r.stalled = {}
  /\ r.status = "Waiting" => Waits(r) # {}

\* Nothing has been done for a run that has not started.
Fresh ==
  run.status = "Queued" =>
    /\ pending = <<>> /\ Waits(run) = {} /\ run.stalled = {}
    /\ ~looping /\ live /\ \A n \in Nodes : ~Running(n)

\* A complete run has nothing outstanding, its loop included.
Finished ==
  run.status = "Complete" /\ ~overtaken =>
    ~looping /\ pending = <<>> /\ Waits(run) = {} /\ \A n \in Nodes : ~Running(n)

\* Work that may be reported for each node that waits for a beacon, or a report that
\* threw, which takes an Execution that a retry has pushed.
Served ==
  crashes = 0 =>
    /\ run.logless # {} => retries > 0
    /\ \A n \in Nodes :
         Kind[n] = "beacon" /\ run.waiting[n] # None /\ n \notin refused
           => work[n] > 0 \/ (retries > 0 /\ run.waiting[n] = "Error")

OnDisk ==
  disk # None => /\ Sound(disk) /\ disk.status # "Queued"
                 /\ disk.status # "Waiting" => Waits(disk) = {}

Outlook ==
  /\ live \in BOOLEAN /\ work \in [Nodes -> Nat] /\ crashes \in Nat
  /\ run.status \in {"In Progress", "Waiting"} => live \/ overtaken
  /\ Sound(run) /\ OnDisk /\ Fresh /\ Finished /\ Served

\* The types of a run's parts.
LEMMA PartsOfRun ==
  ASSUME NEW r \in RunType
  PROVE  /\ r.waiting \in [Nodes -> {None, "Complete", "Error"}]
         /\ r.stalled \subseteq Nodes /\ r.status \in Statuses
BY DEF RunType

\* The waits of a manifest.
LEMMA WaitsOfManifest ==
  ASSUME NEW r \in RunType, Sound(r), r.status # "Queued", disk' = Manifest(r)
  PROVE  OnDisk'
<1>1. CASE r.status = "Waiting"
  BY <1>1, ManifestOf DEF OnDisk
<1>2. CASE r.status # "Waiting"
  <2>1. Manifest(r) = [r EXCEPT !.waiting = NoWaits]
    BY <1>2 DEF Manifest
  <2>2. Manifest(r).waiting = NoWaits
    BY <2>1 DEF RunType
  <2>3. Waits(Manifest(r)) = {}
    BY <2>2 DEF Waits, NoWaits
  <2> QED  BY <1>2, <2>3, ManifestOf DEF OnDisk, Sound
<1> QED  BY <1>1, <1>2

\* The step of a task: the run keeps its status and its stalls, no wait is over,
\* and a wait for a beacon comes with work.
TaskDone ==
  /\ run' \in RunType /\ run'.status = run.status /\ run'.stalled = run.stalled
  /\ run'.logless \subseteq run.logless
  /\ \A m \in Nodes : run.waiting[m] # None => run'.waiting[m] # None
  /\ \/ disk' = disk
     \/ \E x \in RunType : /\ disk' = Manifest(x) /\ x.status = run.status
                           /\ x.stalled = run.stalled /\ x.waiting = run'.waiting

\* A node waits for a beacon, or not, as before, or newly with newly enqueued work.
WorkComes ==
  /\ work' \in [Nodes -> Nat]
  /\ \A m \in Nodes :
       /\ work'[m] >= work[m]
       /\ Kind[m] = "beacon" /\ run'.waiting[m] # run.waiting[m] => work'[m] > 0

\* Result, when r is the run as its task found it.
LEMMA ResultIsDone ==
  ASSUME NEW n \in Nodes, NEW queued, NEW fire, NEW r \in RunType,
         r.status = run.status, r.stalled = run.stalled, r.waiting = run.waiting,
         r.logless \subseteq run.logless,
         Result(r, queued, n, fire)
  PROVE  TaskDone /\ run'.waiting = run.waiting
<1> DEFINE done == [r EXCEPT !.last[n] = "Complete"]
<1>1. /\ done \in RunType
      /\ done.status = r.status /\ done.stalled = r.stalled /\ done.waiting = r.waiting
      /\ done.logless = r.logless
  BY DEF RunType
<1>2. disk' = Manifest(done) /\ (run' = done \/ run' = [done EXCEPT !.errors = @ \cup {n}])
  BY DEF Result
<1> HIDE DEF done
<1>3. /\ run' \in RunType /\ run'.status = done.status /\ run'.stalled = done.stalled
      /\ run'.waiting = done.waiting /\ run'.logless = done.logless
  BY <1>1, <1>2, ErrorNoted
<1> QED  BY <1>1, <1>2, <1>3 DEF TaskDone

\* A task that calls back, in whichever way, is done.
LEMMA CallBackIsDone ==
  ASSUME NEW n \in Nodes, NEW queued, NEW r \in RunType,
         r.status = run.status, r.stalled = run.stalled, r.waiting = run.waiting,
         r.logless \subseteq run.logless,
         CallsBack(r, queued, n)
  PROVE  TaskDone /\ run'.waiting = run.waiting
<1>1. CASE Throw(r, queued, n)
  <2> DEFINE hit == [r EXCEPT !.last[n] = "Error"]
  <2>1. /\ hit \in RunType
        /\ hit.status = r.status /\ hit.stalled = r.stalled /\ hit.waiting = r.waiting
        /\ hit.logless = r.logless
    BY DEF RunType
  <2>2. run' = [hit EXCEPT !.errors = @ \cup {n}] /\ UNCHANGED disk
    BY <1>1 DEF Throw, RunType
  <2> HIDE DEF hit
  <2>3. /\ run' \in RunType /\ run'.status = hit.status
        /\ run'.stalled = hit.stalled /\ run'.waiting = hit.waiting
        /\ run'.logless = hit.logless
    BY <2>1, <2>2, ErrorNoted
  <2> QED  BY <2>1, <2>2, <2>3 DEF TaskDone
<1>2. CASE NoResult(r, queued)
  BY <1>2 DEF NoResult, TaskDone
<1> QED  BY <1>1, <1>2, ResultIsDone DEF CallsBack, Answers

\* RegisterWait: the node waits, the others as before.
LEMMA WaitIsDone ==
  ASSUME Typed, NEW n \in Nodes, NEW queued, RegisterWait(Begun(n), queued, n)
  PROVE  /\ TaskDone
         /\ \A m \in Nodes : run'.waiting[m] = IF m = n THEN "Complete" ELSE run.waiting[m]
<1> DEFINE r == Begun(n)
<1>1. /\ r \in RunType /\ r.status = run.status /\ r.stalled = run.stalled
      /\ r.waiting = run.waiting /\ r.logless \subseteq run.logless
  BY BegunKeeps
<1> HIDE DEF r
<1>2. /\ run' = [r EXCEPT !.waiting[n] = "Complete", !.last[n] = "Complete"]
      /\ disk' = Manifest(run')
  BY DEF RegisterWait, r
<1>3. /\ run' \in RunType /\ run'.status = r.status /\ run'.stalled = r.stalled
      /\ run'.waiting = [r.waiting EXCEPT ![n] = "Complete"] /\ run'.logless = r.logless
  BY <1>1, <1>2 DEF RunType
<1>4. r.waiting \in [Nodes -> {None, "Complete", "Error"}]
  BY <1>1, PartsOfRun
<1>6. "Complete" # None
  BY <1>3, <1>1, GraphAssumption DEF Fires
<1>5. \A m \in Nodes : run'.waiting[m] = IF m = n THEN "Complete" ELSE r.waiting[m]
  BY <1>3, <1>4
<1>7. \A m \in Nodes : run.waiting[m] # None => run'.waiting[m] # None
  BY <1>1, <1>5, <1>6
<1>8. TaskDone
  BY <1>1, <1>2, <1>3, <1>7 DEF TaskDone
<1> QED  BY <1>1, <1>5, <1>8

\* recordTaskStart, and the count of a split's tokens.
LEMMA BegunIs ==
  ASSUME Typed, NEW n \in Nodes, NEW k \in 0 .. MaxTokens
  PROVE  LET r == [Begun(n) EXCEPT !.left[n] = k]
         IN  /\ r \in RunType /\ r.status = run.status
             /\ r.stalled = run.stalled /\ r.waiting = run.waiting
             /\ r.logless \subseteq run.logless
<1> DEFINE b == Begun(n)
<1>1. /\ b \in RunType /\ b.status = run.status /\ b.stalled = run.stalled
      /\ b.waiting = run.waiting /\ b.logless \subseteq run.logless
  BY BegunKeeps
<1> HIDE DEF b
<1>2. /\ [b EXCEPT !.left[n] = k] \in RunType
      /\ [b EXCEPT !.left[n] = k].status = b.status
      /\ [b EXCEPT !.left[n] = k].stalled = b.stalled
      /\ [b EXCEPT !.left[n] = k].waiting = b.waiting
      /\ [b EXCEPT !.left[n] = k].logless = b.logless
  BY <1>1 DEF RunType
<1> QED  BY <1>1, <1>2 DEF b

\* The tasks of the loop.
LEMMA TaskIsDone ==
  ASSUME IInv, work \in [Nodes -> Nat], NEW n \in Nodes, NEW port \in Ports,
         \/ Split(n) \/ NextToken(n) \/ ReachEnd(n, port) \/ RunTask(n, port)
         \/ SuspendTask(n, port) \/ Dispatch(n, port) \/ AskForInput(n, port)
  PROVE  TaskDone /\ WorkComes
<1> USE DEF IInv
<1>1. CASE TaskDone /\ run'.waiting = run.waiting /\ work' = work
  BY <1>1 DEF WorkComes
<1>2. CASE Split(n)
  <2>1. PICK k \in 1 .. MaxTokens :
          Result([Begun(n) EXCEPT !.left[n] = k], Tail(pending), n, "TokenDataSent")
    BY <1>2 DEF Split
  <2>2. k \in 0 .. MaxTokens /\ UNCHANGED work
    BY <1>2, BoundsAssumption DEF Split
  <2> DEFINE r == [Begun(n) EXCEPT !.left[n] = k]
  <2>3. /\ r \in RunType /\ r.status = run.status
        /\ r.stalled = run.stalled /\ r.waiting = run.waiting
        /\ r.logless \subseteq run.logless
    BY <2>2, BegunIs
  <2>4. Result(r, Tail(pending), n, "TokenDataSent")
    BY <2>1
  <2> HIDE DEF r
  <2> QED  BY <2>2, <2>3, <2>4, <1>1, ResultIsDone
<1>3. CASE NextToken(n)
  <2>1. UNCHANGED work
    BY <1>3 DEF NextToken
  <2>2. CASE Result(Begun(n), Tail(pending), n, "Error")
               \/ Result(Begun(n), Tail(pending), n, "Complete")
    BY <2>1, <2>2, <1>1, BegunKeeps, ResultIsDone
  <2>3. CASE /\ run.left[n] > 1
             /\ Result([Begun(n) EXCEPT !.left[n] = @ - 1], Tail(pending), n, "TokenDataSent")
    <3> DEFINE k == run.left[n] - 1
    <3>1. run.left[n] \in 0 .. MaxTokens /\ Begun(n).left = run.left
      BY DEF Typed, RunType, Begun
    <3>2. k \in 0 .. MaxTokens
      BY <2>3, <3>1, BoundsAssumption
    <3> DEFINE r == [Begun(n) EXCEPT !.left[n] = k]
    <3>3. Result(r, Tail(pending), n, "TokenDataSent")
      BY <2>3, <3>1
    <3> HIDE DEF k
    <3>4. /\ r \in RunType /\ r.status = run.status
          /\ r.stalled = run.stalled /\ r.waiting = run.waiting
          /\ r.logless \subseteq run.logless
      BY <3>2, BegunIs
    <3> HIDE DEF r
    <3> QED  BY <2>1, <3>3, <3>4, <1>1, ResultIsDone
  <2> QED  BY <1>3, <2>2, <2>3 DEF NextToken
<1>4. CASE ReachEnd(n, port)
  BY <1>1, <1>4 DEF ReachEnd, TaskDone, Typed
<1>5. CASE RunTask(n, port)
  BY <1>1, <1>5, BegunKeeps, CallBackIsDone DEF RunTask
<1>6. CASE SuspendTask(n, port)
  BY <1>1, <1>6, BegunKeeps DEF SuspendTask, TaskDone
<1>7. CASE Dispatch(n, port)
  <2>1. CASE Result(Begun(n), Tail(pending), n, "Error") /\ UNCHANGED work
    BY <2>1, <1>1, BegunKeeps, ResultIsDone
  <2>2. CASE /\ RegisterWait(Begun(n), Tail(pending), n)
             /\ work' = [work EXCEPT ![n] = @ + 1]
    <3>1. TaskDone /\ \A m \in Nodes : m # n => run'.waiting[m] = run.waiting[m]
      BY <2>2, WaitIsDone
    <3>2. /\ work' \in [Nodes -> Nat] /\ work'[n] = work[n] + 1
          /\ \A m \in Nodes : m # n => work'[m] = work[m]
      BY <2>2
    <3>3. \A m \in Nodes : work'[m] >= work[m] /\ (m = n => work'[m] > 0)
      BY <3>2
    <3> QED  BY <3>1, <3>2, <3>3 DEF WorkComes
  <2> QED  BY <1>7, <2>1, <2>2 DEF Dispatch
<1>8. CASE AskForInput(n, port)
  <2>1. Kind[n] = "input" /\ UNCHANGED work
    BY <1>8 DEF AskForInput, Dequeue
  <2>2. TaskDone /\ \A m \in Nodes : m # n => run'.waiting[m] = run.waiting[m]
    BY <1>8, WaitIsDone DEF AskForInput
  <2> QED  BY <2>1, <2>2 DEF WorkComes
<1> QED  BY <1>2, <1>3, <1>4, <1>5, <1>6, <1>7, <1>8

\* A task's step leaves the outlook what it is.
LEMMA TaskKeepsOutlook ==
  ASSUME Typed, Outlook, TaskDone, WorkComes,
         UNCHANGED <<live, retries, crashes, refused, overtaken>>,
         run.status # "Queued", run.status # "Complete" \/ overtaken
  PROVE  Outlook'
<1>1. /\ live' \in BOOLEAN /\ work' \in [Nodes -> Nat] /\ crashes' \in Nat
      /\ run'.status \in {"In Progress", "Waiting"} => live' \/ overtaken'
  BY DEF Outlook, TaskDone, WorkComes
<1>2. Sound(run')
  BY DEF Outlook, TaskDone, Sound, Waits
<1>3. OnDisk'
  <2>1. CASE disk' = disk
    BY <2>1 DEF Outlook, OnDisk
  <2>2. CASE disk' # disk
    <3>1. PICK x \in RunType : /\ disk' = Manifest(x) /\ x.status = run.status
                               /\ x.stalled = run.stalled /\ x.waiting = run'.waiting
      BY <2>2 DEF TaskDone
    <3>2. Sound(x)
      BY <1>2, <3>1 DEF Sound, Waits, TaskDone
    <3> QED  BY <3>1, <3>2, WaitsOfManifest
  <2> QED  BY <2>1, <2>2
<1>4. Fresh' /\ Finished'
  BY DEF Fresh, Finished, TaskDone
<1>5. ASSUME NEW m \in Nodes, Kind[m] = "beacon", run'.waiting[m] # None,
             crashes' = 0, m \notin refused'
      PROVE  work'[m] > 0 \/ (retries' > 0 /\ run'.waiting[m] = "Error")
  <2>1. /\ work[m] \in Nat /\ work'[m] \in Nat /\ work'[m] >= work[m]
        /\ crashes = 0 /\ m \notin refused
    BY <1>5 DEF Outlook, WorkComes
  <2>2. CASE run'.waiting[m] = run.waiting[m]
    <3>1. work[m] > 0 \/ (retries > 0 /\ run.waiting[m] = "Error")
      BY <1>5, <2>1, <2>2 DEF Outlook, Served
    <3> QED  BY <2>1, <2>2, <3>1
  <2>3. CASE run'.waiting[m] # run.waiting[m]
    BY <1>5, <2>3 DEF WorkComes
  <2> QED  BY <2>2, <2>3
<1>6. crashes' = 0 /\ run'.logless # {} => retries' > 0
  BY DEF Outlook, Served, TaskDone
<1>7. Served'
  BY <1>5, <1>6 DEF Served
<1> QED  BY <1>1, <1>2, <1>3, <1>4, <1>7 DEF Outlook

\* finalizeExecution of a run that has nothing left to do but, perhaps, to wait.
LEMMA FinalizeKeepsOutlook ==
  ASSUME Outlook, NEW r \in RunType, Finalize(r), r.status # "Queued",
         FinalStatus(r) = "Waiting" => Waits(r) # {} /\ (live \/ overtaken),
         FinalStatus(r) = "Complete" /\ ~overtaken =>
           /\ ~looping' /\ pending' = <<>> /\ Waits(r) = {}
           /\ \A n \in Nodes : executing'[n] = 0,
         UNCHANGED <<retries, crashes, overtaken>>, work' \in [Nodes -> Nat],
         r.logless \subseteq run.logless,
         \A n \in Nodes : Kind[n] = "beacon" /\ r.waiting[n] # None /\ crashes = 0
                             /\ n \notin refused'
                         => work'[n] > 0 \/ (retries > 0 /\ r.waiting[n] = "Error")
  PROVE  Outlook'
<1>1. FinalStatus(r) \in Statuses /\ FinalStatus(r) \notin {"Queued", "In Progress"}
  BY DEF FinalStatus, Statuses, Terminal
<1>2. run' = [r EXCEPT !.status = FinalStatus(r)] /\ disk' = Manifest(run')
  BY DEF Finalize
<1>3. /\ run' \in RunType /\ run'.status = FinalStatus(r)
      /\ run'.stalled = r.stalled /\ run'.waiting = r.waiting /\ run'.logless = r.logless
  BY <1>1, <1>2 DEF RunType
<1>4. Sound(run')
  BY <1>3 DEF Sound, FinalStatus, Waits
<1>5. OnDisk'
  BY <1>1, <1>2, <1>3, <1>4, WaitsOfManifest
<1>6. live' = (live /\ FinalStatus(r) = "Waiting") /\ live \in BOOLEAN
  BY DEF Finalize, Outlook
<1>7. live' \in BOOLEAN /\ (run'.status \in {"In Progress", "Waiting"} => live' \/ overtaken')
  BY <1>1, <1>3, <1>6 DEF FinalStatus
<1>8. Fresh' /\ Finished'
  BY <1>1, <1>3 DEF Fresh, Finished, Running, Waits
<1>9. Served'
  BY <1>3 DEF Outlook, Served
<1> QED  BY <1>4, <1>5, <1>7, <1>8, <1>9 DEF Outlook

\* The loop ends, or the run is set going, and nothing else is written.
LEMMA DrainKeepsOutlook ==
  ASSUME IInv, Looped, Outlook, Drain
  PROVE  Outlook'
<1> DEFINE r == IF Waits(run) # {} THEN [run EXCEPT !.status = "Waiting"] ELSE run
<1>1. r \in RunType /\ r.waiting = run.waiting /\ r.stalled = run.stalled
      /\ r.logless = run.logless
      /\ r.status = IF Waits(run) # {} THEN "Waiting" ELSE run.status
  BY DEF IInv, Typed, RunType, Statuses
<1>2. /\ Finalize(r) /\ looping /\ pending = <<>> /\ looping' = FALSE
      /\ UNCHANGED <<pending, executing, work, retries, crashes, overtaken, refused>>
  BY DEF Drain, history
<1>3. Waits(r) = Waits(run)
  BY <1>1 DEF Waits
<1>4. run.status # "Queued" /\ (overtaken \/ run.status \in {"In Progress", "Stalled"})
  BY <1>2 DEF Outlook, Fresh, Looped, OneLoop
<1>5. run.status = "Stalled" => run.stalled # {}
  BY DEF IInv, Written, StallHasCause
<1>6. overtaken \/ \A n \in Nodes : executing[n] = 0
  BY <1>2 DEF Looped, OneLoop, Running
<1> HIDE DEF r
<1>7. ASSUME FinalStatus(r) = "Waiting"
      PROVE  Waits(r) # {} /\ (live \/ overtaken)
  <2>1. r.status = "Waiting" /\ r.stalled = {}
    BY <1>7 DEF FinalStatus
  <2>2. run.status # "Stalled"
    BY <1>1, <1>5, <2>1
  <2>3. Waits(run) # {}
    BY <1>1, <2>1 DEF Outlook, Sound
  <2> QED  BY <1>3, <1>4, <2>2, <2>3 DEF Outlook
<1> QED
  BY <1>1, <1>2, <1>3, <1>4, <1>6, <1>7, FinalizeKeepsOutlook DEF Outlook, Served, FinalStatus

\* A step that sets the run going and writes nothing: a wait that is over is no
\* longer one, and the others are what they were.
LEMMA GoingOnKeepsOutlook ==
  ASSUME Outlook, run'.status = "In Progress", live \/ overtaken,
         UNCHANGED <<live, disk, retries, crashes, overtaken>>, refused \subseteq refused',
         work' \in [Nodes -> Nat], run'.logless \subseteq run.logless,
         \A m \in Nodes : run'.waiting[m] # None => /\ run'.waiting[m] = run.waiting[m]
                                                   /\ work'[m] = work[m]
  PROVE  Outlook'
<1>1. Sound(run') /\ Fresh' /\ Finished' /\ OnDisk'
  BY DEF Sound, Fresh, Finished, OnDisk, Outlook
<1>2. Served'
  BY DEF Outlook, Served
<1> QED  BY <1>1, <1>2 DEF Outlook

\* A resumption ends the wait of its node and starts a loop.
LEMMA ResumeKeepsOutlook ==
  ASSUME Typed, Outlook, NEW n \in Nodes, NEW r \in RunType, NEW fire,
         run.status = "Waiting", Resume(r, n, fire),
         \A m \in Nodes : m # n => r.waiting[m] = run.waiting[m] /\ work'[m] = work[m],
         UNCHANGED <<live, disk, retries, crashes, overtaken>>, refused \subseteq refused',
         work' \in [Nodes -> Nat], r.logless = run.logless
  PROVE  Outlook'
<1>1. run' = [r EXCEPT !.status = "In Progress", !.waiting[n] = None]
  BY DEF Resume
<1>2. /\ run'.status = "In Progress" /\ run'.waiting = [r.waiting EXCEPT ![n] = None]
      /\ run'.logless = r.logless
  BY <1>1 DEF RunType
<1>3. \A m \in Nodes : run'.waiting[m] = IF m = n THEN None ELSE r.waiting[m]
  BY <1>2, PartsOfRun
<1>4. live \/ overtaken
  BY DEF Outlook
<1> QED  BY <1>2, <1>3, <1>4, GoingOnKeepsOutlook

\* A report the run does not resume from: the run keeps its status, its waits and its
\* events, and the node's report is refused, or has thrown.
LEMMA RefusalKeepsOutlook ==
  ASSUME IInv, Looped, Outlook, NEW n \in Nodes, run'.status = run.status,
         run'.stalled = run.stalled, run'.logless = run.logless, Waits(run') = Waits(run),
         \A m \in Nodes : m # n => run'.waiting[m] = run.waiting[m] /\ work'[m] = work[m],
         \/ n \in refused'
         \/ crashes = 0 /\ run'.waiting[n] # None
              => retries > 0 /\ run'.waiting[n] = "Error",
         refused \subseteq refused', work' \in [Nodes -> Nat],
         UNCHANGED <<live, pending, looping, executing, disk, retries, crashes, overtaken>>
  PROVE  Outlook'
<1>1. Sound(run') /\ Fresh' /\ Finished' /\ OnDisk'
  BY DEF Sound, Fresh, Finished, OnDisk, Outlook, Running
<1>2. ASSUME NEW m \in Nodes, crashes' = 0, Kind[m] = "beacon", run'.waiting[m] # None,
             m \notin refused'
      PROVE  work'[m] > 0 \/ (retries' > 0 /\ run'.waiting[m] = "Error")
  <2>1. CASE m = n
    BY <1>2, <2>1
  <2>2. CASE m # n
    BY <1>2, <2>2 DEF Outlook, Served
  <2> QED  BY <2>1, <2>2
<1>3. Served'
  BY <1>2 DEF Outlook, Served
<1> QED  BY <1>1, <1>3 DEF Outlook

\* A report takes one of the items a node's beacon may report.
LEMMA OneLess ==
  ASSUME work \in [Nodes -> Nat], NEW n \in Nodes, work[n] > 0,
         work' = [work EXCEPT ![n] = @ - 1]
  PROVE  work' \in [Nodes -> Nat] /\ \A m \in Nodes : m # n => work'[m] = work[m]
<1>1. work[n] \in Nat
  OBVIOUS
<1>2. work[n] - 1 \in Nat
  BY <1>1
<1> QED  BY <1>2

\* A report resumes the run, or is noted as refused.
LEMMA ReportsKeepOutlook ==
  ASSUME IInv, Looped, Outlook, NEW n \in Nodes, ReportComplete(n) \/ ReportFailure(n)
  PROVE  Outlook'
<1>1. /\ work' = [work EXCEPT ![n] = @ - 1] /\ work[n] > 0
      /\ UNCHANGED <<live, executing, disk, retries, crashes, overtaken>>
  BY DEF ReportComplete, ReportFailure
<1>2. work' \in [Nodes -> Nat] /\ \A m \in Nodes : m # n => work'[m] = work[m]
  BY <1>1, OneLess DEF Outlook
<1>3. CASE ReportComplete(n) /\ Accepts(n)
  <2>1. Resume(run, n, run.waiting[n]) /\ run.status = "Waiting" /\ refused' = refused
    BY <1>3 DEF ReportComplete, Accepts
  <2> QED  BY <1>1, <1>2, <2>1, ResumeKeepsOutlook DEF IInv, Typed
<1>4. CASE ReportFailure(n) /\ n \notin run.logless /\ Accepts(n)
  <2> DEFINE r == [Noted(n) EXCEPT !.failed = @ \cup {n}]
  <2>1. Resume(r, n, "Error") /\ run.status = "Waiting" /\ refused' = refused
    BY <1>4 DEF ReportFailure, Accepts
  <2>2. r \in RunType /\ r.logless = run.logless /\ r.waiting = Marked(n).waiting
    BY NotedIs DEF IInv
  <2>3. \A m \in Nodes : m # n => r.waiting[m] = run.waiting[m]
    BY <2>2, MarkedIs DEF IInv
  <2> HIDE DEF r
  <2> QED  BY <1>1, <1>2, <2>1, <2>2, <2>3, ResumeKeepsOutlook DEF IInv
<1>5. CASE ReportComplete(n) /\ ~Accepts(n)
  <2>1. refused' = refused \cup {n} /\ UNCHANGED <<run, pending, looping>>
    BY <1>5 DEF ReportComplete
  <2> QED  BY <1>1, <1>2, <2>1, RefusalKeepsOutlook DEF Waits
<1>6. CASE ReportFailure(n) /\ (n \in run.logless \/ ~Accepts(n))
  <2>1. /\ UNCHANGED <<pending, looping>>
        /\ \/ n \in run.logless /\ refused' = refused /\ run' = Marked(n)
           \/ refused' = refused \cup {n} /\ run' = Noted(n)
    BY <1>6 DEF ReportFailure
  <2>2. /\ run'.status = run.status /\ run'.stalled = run.stalled
        /\ run'.logless = run.logless /\ run'.waiting = Marked(n).waiting
    BY <2>1, MarkedIs, NotedIs DEF IInv
  <2>3. /\ \A m \in Nodes : m # n => run'.waiting[m] = run.waiting[m]
        /\ run'.waiting[n] # None => run'.waiting[n] = "Error"
        /\ Waits(run') = Waits(run)
    BY <2>2, MarkedIs DEF IInv, Waits
  <2>4. n \in refused' \/ (crashes = 0 => retries > 0)
    BY <2>1 DEF Outlook, Served
  <2>5. refused \subseteq refused'
    BY <2>1
  <2> QED  BY <1>1, <1>2, <2>1, <2>2, <2>3, <2>4, <2>5, RefusalKeepsOutlook
<1> QED  BY <1>3, <1>4, <1>5, <1>6

\* A stall ends the wait of its node and the run.
LEMMA StallKeepsOutlook ==
  ASSUME IInv, Looped, Outlook, NEW n \in Nodes, Stall(n)
  PROVE  Outlook'
<1>1. /\ work' = [work EXCEPT ![n] = @ - 1] /\ work[n] > 0 /\ ~looping
      /\ UNCHANGED <<looping, executing, retries, crashes, overtaken>>
  BY DEF Stall, Idle
<1>2. work' \in [Nodes -> Nat] /\ \A m \in Nodes : m # n => work'[m] = work[m]
  BY <1>1, OneLess DEF Outlook
<1>3. CASE run.status \in Terminal
  <2>1. refused' = refused \cup {n} /\ UNCHANGED <<run, live, pending, disk>>
    BY <1>3 DEF Stall
  <2> QED  BY <1>1, <1>2, <2>1, RefusalKeepsOutlook DEF Waits
<1>4. CASE run.status \notin Terminal
  <2> DEFINE r == [run EXCEPT !.stalled = @ \cup {n}, !.waiting[n] = None,
                              !.last[n] = IF @ = None THEN None ELSE "Stalled"]
  <2>1. Finalize(r) /\ refused' = refused
    BY <1>4 DEF Stall
  <2>2. /\ r \in RunType /\ r.stalled # {} /\ r.status = run.status
        /\ r.waiting = [run.waiting EXCEPT ![n] = None] /\ r.logless = run.logless
    BY StalledIs DEF IInv
  <2> HIDE DEF r
  <2>3. FinalStatus(r) = "Stalled"
    BY <2>2 DEF FinalStatus
  <2>4. \A m \in Nodes : r.waiting[m] # None => m # n /\ r.waiting[m] = run.waiting[m]
    BY <2>2, PartsOfRun DEF IInv, Typed
  <2>5. /\ run' \in RunType /\ run'.status = "Stalled" /\ run'.waiting = r.waiting
        /\ run'.logless = r.logless /\ disk' = Manifest(run') /\ live' = FALSE
    <3>1. "Stalled" \in Statuses
      BY DEF Statuses, Terminal
    <3> QED  BY <2>1, <2>2, <2>3, <3>1 DEF Finalize, RunType
  <2>6. Sound(run') /\ Fresh' /\ Finished'
    BY <2>5 DEF Sound, Fresh, Finished
  <2>7. OnDisk'
    BY <2>5, <2>6, WaitsOfManifest
  <2>8. Served'
    BY <1>1, <1>2, <2>1, <2>2, <2>4, <2>5 DEF Outlook, Served
  <2> QED  BY <1>1, <1>2, <2>5, <2>6, <2>7, <2>8 DEF Outlook
<1> QED  BY <1>3, <1>4

\* A user's value or forced error resumes the run.
LEMMA UsersKeepOutlook ==
  ASSUME IInv, Outlook, NEW n \in Nodes, ProvideInput(n) \/ ForceError(n)
  PROVE  Outlook'
<1>1. /\ run.status = "Waiting"
      /\ UNCHANGED <<live, disk, work, retries, crashes, refused, overtaken>>
  BY DEF ProvideInput, ForceError, Accepts, history
<1> DEFINE r == [run EXCEPT !.last[n] = "Error"]
<1>2. /\ run \in RunType /\ r \in RunType /\ r.waiting = run.waiting
      /\ r.logless = run.logless
  BY DEF IInv, Typed, RunType
<1>3. Resume(run, n, run.waiting[n]) \/ Resume(r, n, "Error")
  BY DEF ProvideInput, ForceError
<1> HIDE DEF r
<1>4. work' \in [Nodes -> Nat]
  BY <1>1 DEF Outlook
<1> QED  BY <1>1, <1>2, <1>3, <1>4, ResumeKeepsOutlook DEF IInv

\* executeOperation: nothing has been done before, so nothing is outstanding.
LEMMA StartKeepsOutlook ==
  ASSUME IInv, Looped, Outlook, Start \/ StartNowhere
  PROVE  Outlook'
<1>1. /\ run.status = "Queued" /\ live /\ Waits(run) = {} /\ run.stalled = {}
      /\ ~looping /\ pending = <<>> /\ \A n \in Nodes : executing[n] = 0
  BY DEF Start, StartNowhere, Outlook, Fresh, Running
<1>2. UNCHANGED <<work, retries, crashes, refused, overtaken, executing>>
  BY DEF Start, StartNowhere, history
<1>3. CASE Start
  <2>1. UNCHANGED <<live, disk>>
    BY <1>3 DEF Start
  <2>2. /\ run'.status = "In Progress" /\ run'.waiting = run.waiting
        /\ run'.logless = run.logless
    BY <1>3 DEF Start, IInv, Typed, RunType
  <2>3. work' \in [Nodes -> Nat]
    BY <1>2 DEF Outlook
  <2> QED  BY <1>1, <1>2, <2>1, <2>2, <2>3, GoingOnKeepsOutlook
<1>4. CASE StartNowhere
  <2> DEFINE r == [run EXCEPT !.status = "Error"]
  <2>1. Finalize(r) /\ UNCHANGED <<pending, looping>>
    BY <1>4 DEF StartNowhere
  <2>2. /\ r \in RunType /\ r.status = "Error"
        /\ r.waiting = run.waiting /\ r.logless = run.logless
    BY DEF IInv, Typed, RunType, Statuses, Terminal
  <2> HIDE DEF r
  <2>3. Waits(r) = {} /\ FinalStatus(r) # "Waiting"
    BY <1>1, <2>2 DEF Waits, FinalStatus
  <2>4. work' \in [Nodes -> Nat] /\ \A n \in Nodes : r.waiting[n] = None
    BY <1>2, <2>3 DEF Outlook, Waits
  <2> QED  BY <1>1, <1>2, <2>1, <2>2, <2>3, <2>4, FinalizeKeepsOutlook
<1> QED  BY <1>3, <1>4

\* A suspended task calls back to a run that is not over, unless it was overtaken.
LEMMA ReturnKeepsOutlook ==
  ASSUME IInv, Looped, Outlook, NEW n \in Nodes, TaskReturns(n)
  PROVE  Outlook'
<1>1. Running(n) /\ UNCHANGED <<work, live, retries, crashes, refused, overtaken>>
  BY DEF TaskReturns, history
<1>2. run.status # "Queued" /\ (run.status # "Complete" \/ overtaken)
  BY <1>1 DEF Outlook, Fresh, Looped, OneLoop
<1>3. TaskDone /\ run'.waiting = run.waiting
  <2>1. CASE CallsBack(run, pending, n)
    BY <2>1, CallBackIsDone DEF IInv, Typed
  <2>2. ASSUME NEW s \in {"Complete", "Error"}, run' = [run EXCEPT !.last[n] = s],
               UNCHANGED disk
        PROVE  TaskDone /\ run'.waiting = run.waiting
    BY <2>2, CutShort DEF TaskDone, IInv
  <2> QED  BY <2>1, <2>2 DEF TaskReturns, CallsBack
<1>4. work' \in [Nodes -> Nat]
  BY <1>1 DEF Outlook
<1>5. \A m \in Nodes : work'[m] = work[m] /\ work'[m] \in Nat
  BY <1>1, <1>4
<1>6. \A m \in Nodes : work'[m] >= work[m]
  BY <1>5
<1>7. WorkComes
  BY <1>3, <1>4, <1>6 DEF WorkComes
<1> QED  BY <1>1, <1>2, <1>3, <1>7, TaskKeepsOutlook DEF IInv

\* An abandoned run waits for nothing, in memory and on disk.
LEMMA AbandonKeepsOutlook ==
  ASSUME IInv, Looped, Outlook, Abandon
  PROVE  Outlook'
<1>1. /\ run' = [run EXCEPT !.status = "Abandoned", !.waiting = NoWaits]
      /\ live' = FALSE /\ disk' = Manifest(run')
      /\ UNCHANGED <<work, retries, crashes, refused>>
  BY DEF Abandon
<1>2. NoWaits \in [Nodes -> {None, "Complete", "Error"}] /\ "Abandoned" \in Statuses
  BY DEF NoWaits, Statuses, Terminal
<1>3. /\ run' \in RunType /\ run'.status = "Abandoned" /\ run'.waiting = NoWaits
      /\ run'.logless = run.logless
  BY <1>1, <1>2 DEF IInv, Typed, RunType
<1>4. Sound(run') /\ Fresh' /\ Finished' /\ Served'
  BY <1>1, <1>3 DEF Sound, Fresh, Finished, Outlook, Served, NoWaits
<1>5. OnDisk'
  BY <1>1, <1>3, <1>4, WaitsOfManifest
<1> QED  BY <1>1, <1>3, <1>4, <1>5 DEF Outlook

\* A retry: the node waits again, with work enqueued for it.
LEMMA RetryKeepsOutlook ==
  ASSUME IInv, Looped, Outlook, NEW n \in Nodes, Retry(n)
  PROVE  Outlook'
<1>1. /\ run' = [run EXCEPT !.status = "Waiting", !.waiting[n] = "Complete",
                            !.stalled = @ \ {n}, !.failed = @ \ {n},
                            !.errors = @ \ {n}, !.left[n] = 0, !.last[n] = "Retrying",
                            !.logless = @ \cup {n}]
      /\ live' = TRUE /\ disk' = Manifest(run') /\ UNCHANGED <<crashes, refused>>
      /\ work' = [work EXCEPT ![n] = @ + 1] /\ retries' = retries + 1
  BY DEF Retry
<1>2. 0 \in 0 .. MaxTokens /\ run \in RunType
  BY BoundsAssumption DEF IInv, Typed
<1>3. run' \in RunType
  BY <1>1, <1>2 DEF RunType, Statuses
<1>4. run'.status = "Waiting" /\ run'.waiting = [run.waiting EXCEPT ![n] = "Complete"]
  BY <1>1, <1>2 DEF RunType
<1>5. "Complete" # None /\ run.waiting \in [Nodes -> {None, "Complete", "Error"}]
  BY <1>2, PartsOfRun, GraphAssumption DEF Fires
<1>6. \A m \in Nodes : run'.waiting[m] = IF m = n THEN "Complete" ELSE run.waiting[m]
  BY <1>4, <1>5
<1>7. Sound(run') /\ Fresh' /\ Finished'
  BY <1>4, <1>5, <1>6 DEF Sound, Fresh, Finished, Waits
<1>8. OnDisk'
  BY <1>1, <1>3, <1>4, <1>7, WaitsOfManifest
<1>9. /\ work' \in [Nodes -> Nat] /\ work'[n] = work[n] + 1 /\ work[n] \in Nat
      /\ \A m \in Nodes : m # n => work'[m] = work[m]
  <2>1. work \in [Nodes -> Nat] /\ work[n] \in Nat /\ work' = [work EXCEPT ![n] = @ + 1]
    BY <1>1 DEF Outlook
  <2>2. work[n] + 1 \in Nat
    BY <2>1
  <2> QED  BY <2>1, <2>2
<1>10. work'[n] > 0
  BY <1>9
<1>11. retries \in Nat /\ retries' > 0
  BY <1>1 DEF Looped
<1>12. Served'
  BY <1>1, <1>6, <1>9, <1>10, <1>11 DEF Outlook, Served
<1> QED  BY <1>1, <1>4, <1>7, <1>8, <1>9, <1>12 DEF Outlook

\* A restart takes the run up from its manifest.
LEMMA RestartKeepsOutlook ==
  ASSUME IInv, Looped, Outlook, Restart
  PROVE  Outlook'
<1>1. /\ disk # None /\ run' = Recovered(disk) /\ disk' = run'
      /\ live' = (disk.status = "Waiting" /\ Waits(disk) # {})
      /\ pending' = <<>> /\ looping' = FALSE /\ executing' = [n \in Nodes |-> 0]
      /\ crashes' = crashes + 1 /\ UNCHANGED work
  BY DEF Restart
<1>2. /\ disk \in RunType /\ disk.status # "Queued" /\ Sound(disk)
      /\ disk.status # "Waiting" => Waits(disk) = {}
  BY <1>1 DEF IInv, Typed, Outlook, OnDisk
<1>3. /\ run'.waiting = disk.waiting /\ run'.stalled = disk.stalled
      /\ run'.status = IF disk.status = "In Progress" THEN "Error" ELSE disk.status
  BY <1>1, <1>2 DEF Recovered, RunType
<1>4. Waits(run') = Waits(disk)
  BY <1>3 DEF Waits
<1>5. Sound(run') /\ run'.status # "Queued"
  BY <1>2, <1>3, <1>4 DEF Sound
<1>6. OnDisk'
  BY <1>1, <1>2, <1>3, <1>4, <1>5 DEF OnDisk
<1>7. \A n \in Nodes : executing'[n] = 0
  BY <1>1
<1>8. Fresh' /\ Finished'
  BY <1>1, <1>2, <1>3, <1>4, <1>5, <1>7 DEF Fresh, Finished, Running
<1>9. crashes' \in Nat /\ crashes' # 0
  <2>1. crashes \in Nat /\ crashes' = crashes + 1
    BY <1>1 DEF Outlook
  <2> QED  BY <2>1
<1>10. run'.status \in {"In Progress", "Waiting"} => live'
  BY <1>1, <1>2, <1>3 DEF Sound
<1>11. work' \in [Nodes -> Nat] /\ live' \in BOOLEAN
  BY <1>1 DEF Outlook
<1> QED  BY <1>5, <1>6, <1>8, <1>9, <1>10, <1>11 DEF Outlook, Served

\* The loop's steps.
LEMMA LoopKeepsOutlook ==
  ASSUME IInv, Looped, Outlook, Loop
  PROVE  Outlook'
<1>1. ASSUME NEW n \in Nodes, NEW port \in Ports,
             \/ Split(n) \/ NextToken(n) \/ ReachEnd(n, port) \/ RunTask(n, port)
             \/ SuspendTask(n, port) \/ Dispatch(n, port) \/ AskForInput(n, port)
      PROVE  Outlook'
  <2>1. looping /\ UNCHANGED <<live, retries, crashes, refused, overtaken>>
    BY <1>1 DEF Split, NextToken, ReachEnd, RunTask, SuspendTask, Dispatch, AskForInput,
                Dequeue, history
  <2>2. run.status # "Queued" /\ (run.status # "Complete" \/ overtaken)
    BY <2>1 DEF Outlook, Fresh, Looped, OneLoop
  <2>3. TaskDone /\ WorkComes
    BY <1>1, TaskIsDone DEF Outlook
  <2> QED  BY <2>1, <2>2, <2>3, TaskKeepsOutlook DEF IInv
<1>2. CASE Drain
  BY <1>2, DrainKeepsOutlook
<1>3. "Trigger" \in Ports
  BY DEF Ports
<1>4. CASE \E n \in Nodes : Split(n) \/ NextToken(n)
  BY <1>1, <1>3, <1>4
<1>5. CASE \E n \in Nodes, port \in Ports :
             ReachEnd(n, port) \/ RunTask(n, port) \/ SuspendTask(n, port)
               \/ Dispatch(n, port) \/ AskForInput(n, port)
  BY <1>1, <1>5
<1> QED  BY <1>2, <1>4, <1>5 DEF Loop

\* Every step keeps the outlook.
LEMMA StepKeepsOutlook ==
  ASSUME IInv, Looped, Outlook, [Next]_vars
  PROVE  Outlook'
<1>1. CASE UNCHANGED vars
  BY <1>1 DEF vars, Outlook, Sound, OnDisk, Fresh, Finished, Served, Running, Waits
<1> QED
  BY <1>1, StartKeepsOutlook, LoopKeepsOutlook, AbandonKeepsOutlook, RestartKeepsOutlook,
     ReturnKeepsOutlook, ReportsKeepOutlook, StallKeepsOutlook, UsersKeepOutlook,
     RetryKeepsOutlook DEF Next

\* What every state of a run has in store.
THEOREM EngineOutlook == Spec => []Outlook
<1>1. Init => Outlook
  <2> SUFFICES ASSUME Init PROVE Outlook
    OBVIOUS
  <2>1. /\ run.status = "Queued" /\ run.waiting = NoWaits /\ run.stalled = {}
        /\ live = TRUE /\ pending = <<>> /\ looping = FALSE /\ disk = None
        /\ executing = [n \in Nodes |-> 0] /\ work = [n \in Nodes |-> 0] /\ crashes = 0
        /\ run.logless = {}
    BY DEF Init
  <2>2. Waits(run) = {} /\ \A n \in Nodes : run.waiting[n] = None
    BY <2>1 DEF Waits, NoWaits
  <2>3. /\ \A n \in Nodes : ~Running(n)
        /\ work \in [Nodes -> Nat] /\ live \in BOOLEAN /\ crashes \in Nat
    BY <2>1 DEF Running
  <2> QED  BY <2>1, <2>2, <2>3 DEF Outlook, Sound, OnDisk, Fresh, Finished, Served
<1>2. IInv /\ Looped /\ Outlook /\ [Next]_vars => Outlook'
  BY StepKeepsOutlook
<1> QED  BY <1>1, <1>2, EngineInvariant, PTL DEF Spec

\* A run that says Complete has nothing outstanding.
THEOREM CompleteRunsHaveEnded == Spec => []CompleteHasEnded
<1>1. Outlook => CompleteHasEnded
  BY DEF Outlook, Finished, Sound, CompleteHasEnded
<1> QED  BY <1>1, EngineOutlook, PTL

\* A waiting run waits for some node, and is live unless it was overtaken.
THEOREM WaitingRunsCanGoOn == Spec => []WaitingCanGoOn
<1>1. Outlook => WaitingCanGoOn
  BY DEF Outlook, Sound, WaitingCanGoOn
<1> QED  BY <1>1, EngineOutlook, PTL

\* A node that waits for a beacon has work to be reported, or, once something was retried,
\* a failure that was reported and threw: but for a restart and a report or stall that the
\* run turned down, nothing else leaves a wait without work.
THEOREM WaitsAreServed == Spec => []WaitIsServed
<1>1. Outlook => WaitIsServed
  BY DEF Outlook, Served, WaitIsServed
<1> QED  BY <1>1, EngineOutlook, PTL

-----------------------------------------------------------------------------
(***************************************************************************)
(* The types of what is left: the queue of events, and the counters.       *)
(***************************************************************************)
\* < on Nat is well-founded.
LEMMA LeastNatural ==
  ASSUME NEW S \in SUBSET Nat, S # {}
  PROVE  \E x \in S : \A y \in S : x <= y
<1> DEFINE Less == {p \in Nat \X Nat : p[1] < p[2]}
<1>1. Less = OpToRel(<, Nat)
  BY DEF OpToRel
<1>2. IsWellFoundedOn(Less, Nat)
  BY <1>1, NatLessThanWellFounded
<1> HIDE DEF Less
<1>3. PICK x \in S : \A y \in S : ~(<<y, x>> \in Less)
  BY <1>2, WFMin
<1> USE DEF Less
<1>4. \A y \in S : x <= y
  <2> SUFFICES ASSUME NEW y \in S PROVE x <= y
    OBVIOUS
  <2>1. <<y, x>> \in Nat \X Nat
    OBVIOUS
  <2> QED  BY <1>3, <2>1
<1> QED  BY <1>4

\* One event more, unless it is for node n.
KeptOf(kept, events, n, i) ==
  IF events[i][1] = n THEN kept[i - 1] ELSE Append(kept[i - 1], events[i])

\* What is kept of the first events, by what is kept of one event less.
KeptBy(f, events, n, k) ==
  f = [i \in 0 .. k |-> IF i = 0 THEN <<>> ELSE KeptOf(f, events, n, i)]

\* For every length there is a function as Without defines it.
LEMMA KeptExists ==
  ASSUME NEW events, NEW n, NEW k \in Nat
  PROVE  \E f : KeptBy(f, events, n, k)
<1> DEFINE Bad == {m \in Nat : ~ \E f : KeptBy(f, events, n, m)}
<1> SUFFICES ASSUME Bad # {} PROVE FALSE
  OBVIOUS
<1>1. PICK m \in Bad : \A j \in Bad : m <= j
  <2>1. Bad \in SUBSET Nat
    OBVIOUS
  <2> HIDE DEF Bad
  <2> QED  BY <2>1, LeastNatural
<1>2. m \in Nat /\ ~ \E f : KeptBy(f, events, n, m)
  OBVIOUS
<1>3. CASE m = 0
  <2> DEFINE f == [i \in 0 .. 0 |-> <<>>]
  <2>1. f = [i \in 0 .. 0 |-> IF i = 0 THEN <<>> ELSE KeptOf(f, events, n, i)]
    OBVIOUS
  <2> QED  BY <1>2, <1>3, <2>1 DEF KeptBy
<1>4. CASE m # 0
  <2>1. m - 1 \in Nat /\ m - 1 \notin Bad
    BY <1>1, <1>2, <1>4
  <2>2. PICK g : KeptBy(g, events, n, m - 1)
    BY <2>1
  <2> DEFINE f == [i \in 0 .. m |-> IF i < m THEN g[i] ELSE KeptOf(g, events, n, m)]
  <2>3. ASSUME NEW i \in 0 .. m
        PROVE  f[i] = IF i = 0 THEN <<>> ELSE KeptOf(f, events, n, i)
    <3>1. \A j \in 0 .. m - 1 : g[j] = IF j = 0 THEN <<>> ELSE KeptOf(g, events, n, j)
      BY <2>2 DEF KeptBy
    <3>2. CASE i = 0
      <4>1. f[0] = g[0] /\ 0 \in 0 .. m - 1
        BY <1>2, <1>4
      <4> QED  BY <3>1, <3>2, <4>1
    <3>3. CASE i \in 1 .. m - 1
      <4>1. f[i] = g[i] /\ f[i - 1] = g[i - 1] /\ i \in 0 .. m - 1 /\ i # 0
        BY <1>2, <3>3
      <4>2. g[i] = KeptOf(g, events, n, i)
        BY <3>1, <4>1
      <4> HIDE DEF f
      <4> QED  BY <4>1, <4>2 DEF KeptOf
    <3>4. CASE i = m
      <4>1. m - 1 \in 0 .. m /\ m - 1 < m /\ ~(m < m) /\ m \in 0 .. m
        BY <1>2, <1>4
      <4>2. f[m] = KeptOf(g, events, n, m) /\ f[m - 1] = g[m - 1]
        BY <4>1
      <4> HIDE DEF f
      <4> QED  BY <1>4, <3>4, <4>2 DEF KeptOf
    <3> QED  BY <1>2, <3>2, <3>3, <3>4
  <2>4. KeptBy(f, events, n, m)
    <3>1. f = [i \in 0 .. m |-> f[i]]
      OBVIOUS
    <3> HIDE DEF f
    <3> QED  BY <2>3, <3>1 DEF KeptBy
  <2> QED  BY <1>2, <2>4
<1> QED  BY <1>3, <1>4

\* The events of the other nodes are events.
LEMMA WithoutIsEvents ==
  ASSUME NEW events \in Seq(Events), NEW n
  PROVE  Without(events, n) \in Seq(Events)
<1> DEFINE k == Len(events)
           f == CHOOSE g : KeptBy(g, events, n, k)
<1>1. Without(events, n) = f[k]
  BY Zenon DEF Without, KeptBy, KeptOf
<1>2. k \in Nat
  OBVIOUS
<1>3. KeptBy(f, events, n, k)
  <2>1. \E g : KeptBy(g, events, n, k)
    BY <1>2, KeptExists
  <2> HIDE DEF k
  <2> QED  BY <2>1
<1> HIDE DEF f
<1>4. \A i \in 1 .. k : events[i] \in Events
  OBVIOUS
<1> HIDE DEF k
<1> DEFINE Bad == {i \in 0 .. k : f[i] \notin Seq(Events)}
<1>5. ASSUME Bad # {} PROVE FALSE
  <2>1. PICK i \in Bad : \A j \in Bad : i <= j
    <3>1. Bad \in SUBSET Nat
      BY <1>2
    <3> HIDE DEF Bad
    <3> QED  BY <1>5, <3>1, LeastNatural
  <2>2. i \in 0 .. k /\ f[i] \notin Seq(Events)
    OBVIOUS
  <2>3. f[i] = IF i = 0 THEN <<>> ELSE KeptOf(f, events, n, i)
    BY <1>3, <2>2 DEF KeptBy
  <2>4. i # 0
    BY <2>2, <2>3
  <2>5. i \in 1 .. k /\ i - 1 \in 0 .. k /\ ~(i <= i - 1)
    BY <1>2, <2>2, <2>4
  <2>6. i - 1 \notin Bad
    BY <2>1, <2>5
  <2>7. f[i - 1] \in Seq(Events) /\ events[i] \in Events
    BY <1>4, <2>5, <2>6
  <2> QED  BY <2>2, <2>3, <2>4, <2>7 DEF KeptOf
<1> QED  BY <1>1, <1>2, <1>5

Counted ==
  /\ pending \in Seq(Events) /\ refused \subseteq Nodes
  /\ retries \in 0 .. MaxRetries /\ crashes \in 0 .. MaxCrashes

\* What a task, or a resumption, enqueues is events.
LEMMA FireIsEvents ==
  ASSUME operation \in OperationType, NEW queued \in Seq(Events), NEW n \in Nodes,
         NEW fire \in Fires
  PROVE  Fire(queued, n, fire) \in Seq(Events)
BY DEF Fire, OperationType

\* A task that calls back enqueues events.
LEMMA CallBackIsEvents ==
  ASSUME operation \in OperationType, NEW queued \in Seq(Events), NEW n \in Nodes, NEW r,
         \/ CallsBack(r, queued, n) \/ RegisterWait(r, queued, n)
         \/ \E fire \in Fires : Result(r, queued, n, fire)
  PROVE  pending' \in Seq(Events)
<1>1. "Complete" \in Fires /\ "Error" \in Fires
  BY DEF Fires
<1> QED  BY <1>1, FireIsEvents DEF CallsBack, Answers, Result, Throw, NoResult, RegisterWait

\* A resumption enqueues events.
LEMMA ResumeIsEvents ==
  ASSUME Typed, pending \in Seq(Events), NEW n \in Nodes, NEW r, NEW fire \in Fires,
         Resume(r, n, fire)
  PROVE  pending' \in Seq(Events)
BY FireIsEvents DEF Resume, Typed

\* A turn of the loop keeps the rest of the types.
LEMMA LoopKeepsCounted ==
  ASSUME Typed, Counted, Loop PROVE Counted'
<1>1. UNCHANGED <<retries, crashes, refused>>
  BY DEF Loop, Drain, Split, NextToken, ReachEnd, RunTask, SuspendTask, Dispatch, AskForInput,
         history
<1>2. operation \in OperationType /\ "TokenDataSent" \in Fires /\ "Error" \in Fires
      /\ "Complete" \in Fires
  BY DEF Typed, Fires
<1>3. CASE Drain
  BY <1>1, <1>3 DEF Drain, Counted
<1>4. ASSUME NEW n \in Nodes, NEW port, NEW kind, Dequeue(n, port, kind)
      PROVE  Tail(pending) \in Seq(Events)
  BY <1>4 DEF Dequeue, Counted
<1>5. ASSUME NEW n \in Nodes, Split(n) PROVE pending' \in Seq(Events)
  <2>1. Tail(pending) \in Seq(Events)
    BY <1>4, <1>5 DEF Split
  <2>2. PICK tokens \in 1 .. MaxTokens :
          Result([Begun(n) EXCEPT !.left[n] = tokens], Tail(pending), n, "TokenDataSent")
    BY <1>5 DEF Split
  <2> QED  BY <1>2, <2>1, <2>2, CallBackIsEvents
<1>6. ASSUME NEW n \in Nodes, NextToken(n) PROVE pending' \in Seq(Events)
  <2>1. Tail(pending) \in Seq(Events)
    BY <1>4, <1>6 DEF NextToken
  <2>2. \/ Result(Begun(n), Tail(pending), n, "Error")
        \/ Result(Begun(n), Tail(pending), n, "Complete")
        \/ Result([Begun(n) EXCEPT !.left[n] = @ - 1], Tail(pending), n, "TokenDataSent")
    BY <1>6 DEF NextToken
  <2> QED  BY <1>2, <2>1, <2>2, CallBackIsEvents
<1>7. ASSUME NEW n \in Nodes, NEW port \in Ports,
             \/ ReachEnd(n, port) \/ RunTask(n, port) \/ SuspendTask(n, port)
             \/ Dispatch(n, port) \/ AskForInput(n, port)
      PROVE  pending' \in Seq(Events)
  <2>1. Tail(pending) \in Seq(Events)
    BY <1>4, <1>7 DEF ReachEnd, RunTask, SuspendTask, Dispatch, AskForInput
  <2>2. CASE ReachEnd(n, port) \/ SuspendTask(n, port)
    BY <2>1, <2>2 DEF ReachEnd, SuspendTask
  <2>3. CASE RunTask(n, port) \/ AskForInput(n, port)
    BY <1>2, <2>1, <2>3, CallBackIsEvents DEF RunTask, AskForInput
  <2>4. CASE Dispatch(n, port)
    BY <1>2, <2>1, <2>4, CallBackIsEvents DEF Dispatch
  <2> QED  BY <1>7, <2>2, <2>3, <2>4
<1>8. pending' \in Seq(Events)
  <2>1. CASE Drain
    BY <2>1 DEF Drain, Counted
  <2> QED  BY <1>5, <1>6, <1>7, <2>1 DEF Loop
<1> QED  BY <1>1, <1>8 DEF Counted

\* Every step keeps the rest of the types.
LEMMA StepKeepsCounted ==
  ASSUME Typed, Counted, [Next]_vars PROVE Counted'
<1>1. operation \in OperationType /\ pending \in Seq(Events)
      /\ "Error" \in Fires /\ "Complete" \in Fires
  BY DEF Typed, Counted, Fires
<1>2. CASE Start
  BY <1>1, <1>2 DEF Start, Counted, OperationType, history
<1>3. CASE StartNowhere
  BY <1>3 DEF StartNowhere, Counted, history
<1>4. CASE Loop
  BY <1>4, LoopKeepsCounted
<1>5. CASE Abandon
  BY <1>5 DEF Abandon, Counted
<1>6. CASE Restart
  BY <1>6, BoundsAssumption DEF Restart, Counted
<1>7. ASSUME NEW n \in Nodes, TaskReturns(n) PROVE Counted'
  <2>1. pending' \in Seq(Events)
    <3>1. CASE CallsBack(run, pending, n)
      BY <1>1, <3>1, CallBackIsEvents
    <3>2. CASE UNCHANGED pending
      BY <1>1, <3>2
    <3> QED  BY <1>7, <3>1, <3>2 DEF TaskReturns, CallsBack
  <2> QED  BY <1>7, <2>1 DEF TaskReturns, Counted, history
<1>8. ASSUME NEW n \in Nodes, Accepts(n) PROVE run.waiting[n] \in Fires
  BY <1>8 DEF Accepts, Typed, RunType, Fires
<1>9. ASSUME NEW n \in Nodes, ReportComplete(n) PROVE Counted'
  <2>1. pending' \in Seq(Events)
    <3>1. CASE Accepts(n)
      BY <1>1, <1>8, <1>9, <3>1, ResumeIsEvents DEF ReportComplete
    <3>2. CASE ~Accepts(n)
      BY <1>1, <1>9, <3>2 DEF ReportComplete
    <3> QED  BY <3>1, <3>2
  <2>2. refused' \subseteq Nodes /\ UNCHANGED <<retries, crashes>>
    BY <1>9 DEF ReportComplete, Counted
  <2> QED  BY <2>1, <2>2 DEF Counted
<1>10. ASSUME NEW n \in Nodes, ReportFailure(n) PROVE Counted'
  <2>1. pending' \in Seq(Events)
    <3>1. CASE Accepts(n) /\ n \notin run.logless
      BY <1>1, <1>10, <3>1, ResumeIsEvents DEF ReportFailure
    <3>2. CASE ~Accepts(n) \/ n \in run.logless
      BY <1>1, <1>10, <3>2 DEF ReportFailure
    <3> QED  BY <3>1, <3>2
  <2>2. refused' \subseteq Nodes /\ UNCHANGED <<retries, crashes>>
    BY <1>10 DEF ReportFailure, Counted
  <2> QED  BY <2>1, <2>2 DEF Counted
<1>11. ASSUME NEW n \in Nodes, Stall(n) PROVE Counted'
  <2>1. pending' = pending \/ pending' = Without(pending, n)
    BY <1>11 DEF Stall
  <2>2. refused' \subseteq Nodes /\ UNCHANGED <<retries, crashes>>
    BY <1>11 DEF Stall, Counted
  <2> QED  BY <1>1, <2>1, <2>2, WithoutIsEvents DEF Counted
<1>12. ASSUME NEW n \in Nodes, ProvideInput(n) \/ ForceError(n) PROVE Counted'
  <2>1. pending' \in Seq(Events)
    <3>1. CASE ProvideInput(n)
      BY <1>8, <3>1, <1>1, ResumeIsEvents DEF ProvideInput
    <3>2. CASE ForceError(n)
      BY <1>1, <3>2, ResumeIsEvents DEF ForceError
    <3> QED  BY <1>12, <3>1, <3>2
  <2>2. UNCHANGED <<refused, retries, crashes>>
    BY <1>12 DEF ProvideInput, ForceError, history
  <2> QED  BY <2>1, <2>2 DEF Counted
<1>13. ASSUME NEW n \in Nodes, Retry(n) PROVE Counted'
  <2>1. /\ retries < MaxRetries /\ retries' = retries + 1
        /\ UNCHANGED <<pending, crashes, refused>>
    BY <1>13 DEF Retry
  <2>2. retries \in Nat /\ MaxRetries \in Nat
    BY BoundsAssumption DEF Counted
  <2>3. retries' \in 0 .. MaxRetries
    BY <2>1, <2>2
  <2> QED  BY <2>1, <2>3 DEF Counted
<1>14. CASE UNCHANGED vars
  BY <1>14 DEF vars, Counted
<1> QED  BY <1>2, <1>3, <1>4, <1>5, <1>6, <1>7, <1>9, <1>10, <1>11, <1>12, <1>13, <1>14
         DEF Next

\* What the engine keeps of a run, in memory and on disk, is of its types.
THEOREM EngineTypes == Spec => []TypeOK
<1>1. Init => Counted
  BY BoundsAssumption DEF Init, Counted
<1>2. IInv /\ Looped /\ Counted /\ [Next]_vars => Counted'
  BY StepKeepsCounted DEF IInv
<1>3. IInv /\ Looped /\ Outlook /\ Counted => TypeOK
  BY DEF IInv, Typed, Looped, Outlook, Counted, TypeOK
<1> QED  BY <1>1, <1>2, <1>3, EngineInvariant, EngineOutlook, PTL DEF Spec
=============================================================================
