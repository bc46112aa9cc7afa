---------------------------- MODULE QueueJournal ----------------------------
(***************************************************************************)
(* The write-ahead journal of the work queue, its compaction, and what a   *)
(* restart makes of it                                                     *)
(* (source/services/persistence/Ultravisor-Beacon-QueueJournal.cjs, with   *)
(* the calls of the coordinator and the scheduler that write to it, and    *)
(* those that do not).                                                     *)
(*                                                                         *)
(* Of an item only the status matters here, and whether its record is the  *)
(* one that was enqueued: a restored record has no attempts, stamps or     *)
(* timer.  Attempts are not counted: a failure retries or ends.            *)
(*                                                                         *)
(* A file operation is synchronous and the process may die between any two *)
(* of them: a handler that writes one entry is one action, a compaction    *)
(* three.  While a compaction is under way the handler that caused it has  *)
(* not returned, so no other handler runs.                                 *)
(***************************************************************************)
EXTENDS Naturals, Sequences

CONSTANTS
  None,
  MaxItems,          \* bound: items enqueued
  CompactThreshold,  \* _CompactThreshold
  MaxCrashes         \* bound: crashes

Items == 1 .. MaxItems

ASSUME JournalAssumption ==
  /\ MaxItems \in Nat /\ MaxCrashes \in Nat
  /\ CompactThreshold \in Nat \ {0, 1}

VARIABLES
  queue,      \* _WorkQueue: status of each item
  whole,      \* items whose record is the one that was enqueued
  snapshot,   \* queue-snapshot.json
  journal,    \* queue-journal.jsonl
  writes,     \* _WriteCount
  phase,      \* what the process is doing
  crashes,
  handed,     \* whether a beacon had each item, before or since the restart
  over        \* how each item ended, if it did

vars == <<queue, whole, snapshot, journal, writes, phase, crashes, handed, over>>

Final    == {"Complete", "Error"}
Queued   == Final \cup {"Pending", "Assigned", "Running", "Dispatched",
                        "RetryScheduled", "Canceled", "Stalled"}
InQueue(w) == queue[w] \in Queued

ASSUME NoneAssumption == None \notin Queued

Entry ==
  [op : {"enqueue"}, item : Items, status : {"Pending", "Assigned"}]
    \cup [op : {"claim", "complete", "fail", "retry-scheduled", "stalled"},
          item : Items]
    \cup [op : {"compact"}]

TypeOK ==
  /\ queue \in [Items -> Queued \cup {"New", "Gone"}]
  /\ whole \subseteq Items
  /\ handed \in [Items -> {"never", "before", "since"}]
  /\ snapshot \in [Items -> Queued \cup {None}]
  /\ journal \in Seq(Entry)
  /\ writes \in 0 .. CompactThreshold
  /\ phase \in {"running", "snapshot", "truncate", "mark", "down"}
  /\ crashes \in 0 .. MaxCrashes
  /\ over \in [Items -> {"no", "reported", "dropped"}]

Init ==
  /\ queue = [w \in Items |-> "New"] /\ over = [w \in Items |-> "no"]
  /\ whole = {} /\ handed = [w \in Items |-> "never"]
  /\ snapshot = [w \in Items |-> None] /\ journal = <<>>
  /\ writes = 0 /\ phase = "running" /\ crashes = 0

-----------------------------------------------------------------------------
(***************************************************************************)
(* Handlers that write an entry.                                           *)
(***************************************************************************)
\* appendEntry; the entry that reaches the threshold starts a compaction.
AppendEntry(entry) ==
  /\ phase = "running"
  /\ journal' = Append(journal, entry)
  /\ writes' = writes + 1
  /\ phase' = IF writes' >= CompactThreshold THEN "snapshot" ELSE "running"
  /\ UNCHANGED <<snapshot, crashes>>

\* enqueueWorkItem: the entry has the item, but not its attempts, priority or
\* required affinity.
Enqueue(w, status) ==
  /\ queue[w] = "New" /\ \A v \in Items : v < w => queue[v] # "New"
  /\ queue' = [queue EXCEPT ![w] = status]
  /\ AppendEntry([op |-> "enqueue", item |-> w, status |-> status])
  /\ whole' = whole \cup {w}
  /\ UNCHANGED <<handed, over>>

\* Mutant: the operation of the entry is taken for a status.
MutantClaim(w) ==
  /\ queue[w] = "Pending"
  /\ queue' = [queue EXCEPT ![w] = "claim"]
  /\ AppendEntry([op |-> "claim", item |-> w])
  /\ handed' = [handed EXCEPT ![w] = "since"]
  /\ UNCHANGED <<whole, over>>

\* A pending item is pushed or polled.
Claim(w) ==
  /\ queue[w] = "Pending"
  /\ queue' = [queue EXCEPT ![w] = "Running"]
  /\ AppendEntry([op |-> "claim", item |-> w])
  /\ handed' = [handed EXCEPT ![w] = "since"]
  /\ UNCHANGED <<whole, over>>

\* A beacon that had the item may report, also after a restart of the hub.
MayReport(w) == handed[w] # "never" /\ InQueue(w) /\ queue[w] \notin Final

\* completeWorkItem, and failWorkItem once no attempt is left.
Finish(w, op, status) ==
  /\ MayReport(w)
  /\ queue' = [queue EXCEPT ![w] = status]
  /\ AppendEntry([op |-> op, item |-> w])
  /\ over' = [over EXCEPT ![w] = "reported"]
  /\ UNCHANGED <<whole, handed>>

Complete(w) == Finish(w, "complete", "Complete")
Fail(w)     == Finish(w, "fail", "Error")

\* failWorkItem with an attempt left.
FailAndRetry(w) ==
  /\ MayReport(w) /\ w \in whole
  /\ queue' = [queue EXCEPT ![w] = "RetryScheduled"]
  /\ AppendEntry([op |-> "retry-scheduled", item |-> w])
  /\ UNCHANGED <<whole, handed, over>>

\* _maybeMarkStalled and stallWorkItem; a restored item has no stamps until it
\* is handed out again.
Stall(w) ==
  /\ queue[w] \in {"Dispatched", "Running", "Pending", "Assigned"}
  /\ handed[w] = "since"
  /\ queue' = [queue EXCEPT ![w] = "Stalled"]
  /\ AppendEntry([op |-> "stalled", item |-> w])
  /\ over' = [over EXCEPT ![w] = "dropped"]
  /\ UNCHANGED <<whole, handed>>

-----------------------------------------------------------------------------
(***************************************************************************)
(* Handlers that write none.                                               *)
(***************************************************************************)
Unjournalled(w, from, to) ==
  /\ phase = "running" /\ queue[w] \in from
  /\ queue' = [queue EXCEPT ![w] = to]
  /\ UNCHANGED <<whole, snapshot, journal, writes, phase, crashes>>

\* _pushAssignedWorkItem, and the first pass of pollForWork.
Deliver(w) ==
  /\ Unjournalled(w, {"Assigned"}, "Running")
  /\ handed' = [handed EXCEPT ![w] = "since"] /\ UNCHANGED over

\* _dispatchItemToBeacon of the scheduler; the push may fail.
Dispatch(w) ==
  /\ Unjournalled(w, {"Pending"}, "Dispatched")
  /\ handed' = [handed EXCEPT ![w] = "since"] /\ UNCHANGED over

\* deregisterBeacon, and the retry loop of _checkTimeouts.
Release(w) ==
  /\ Unjournalled(w, {"Assigned", "Running", "RetryScheduled"}, "Pending")
  /\ UNCHANGED <<handed, over>>

\* requestCancel, and _dispatchTick of an item flagged for it.
Cancel(w) ==
  /\ Unjournalled(w, {"Pending", "Assigned"}, "Canceled")
  /\ over' = [over EXCEPT ![w] = "dropped"]
  /\ UNCHANGED handed

\* The timer of dispatchAndWait and dispatchAndStream, which a report clears.
DirectDispatchTimeout(w) ==
  /\ w \in whole /\ over[w] # "reported"
  /\ Unjournalled(w, Queued, "Gone")
  /\ over' = [over EXCEPT ![w] = "dropped"]
  /\ UNCHANGED handed

\* The end of the handlers that end an item, or the engine's call back; an
\* item restored as stalled has no handler to remove it.
LeaveQueue(w) ==
  /\ queue[w] = "Stalled" => handed[w] = "since"
  /\ Unjournalled(w, Final \cup {"Stalled"}, "Gone")
  /\ UNCHANGED <<handed, over>>

-----------------------------------------------------------------------------
(***************************************************************************)
(* compact: the snapshot is renamed into place, the journal truncated, and *)
(* the marker written.                                                     *)
(***************************************************************************)
\* Mutant: only the statuses the comment above the filter names are kept.
MutantNamedPersisted(w) == queue[w] \in {"Pending", "Running", "Assigned"}

\* Mutant: finished items are kept.
MutantPersisted(w) == InQueue(w)

\* What has not been finalized is kept.
Persisted(w) == InQueue(w) /\ queue[w] \notin Final

WriteSnapshot ==
  /\ phase = "snapshot" /\ phase' = "truncate"
  /\ snapshot' = [w \in Items |-> IF Persisted(w) THEN queue[w] ELSE None]
  /\ UNCHANGED <<queue, whole, journal, writes, crashes, handed, over>>

TruncateJournal ==
  /\ phase = "truncate" /\ phase' = "mark" /\ journal' = <<>>
  /\ UNCHANGED <<queue, whole, snapshot, writes, crashes, handed, over>>

MarkJournal ==
  /\ phase = "mark" /\ phase' = "running"
  /\ journal' = <<[op |-> "compact"]>> /\ writes' = 1
  /\ UNCHANGED <<queue, whole, snapshot, crashes, handed, over>>

-----------------------------------------------------------------------------
\* _applyEntry; entries it does not know change nothing.
ApplyEntry(items, entry) ==
  CASE entry.op = "enqueue" -> [items EXCEPT ![entry.item] = entry.status]
    [] entry.op = "claim" ->
         [items EXCEPT ![entry.item] = IF @ = None THEN None ELSE "Running"]
    [] entry.op \in {"complete", "fail"} -> [items EXCEPT ![entry.item] = None]
    [] OTHER -> items

\* The entries applied to the items, in order.
Applied(items, entries) ==
  LET after[n \in 0 .. Len(entries)] ==
        IF n = 0 THEN items ELSE ApplyEntry(after[n - 1], entries[n])
  IN after[Len(entries)]

\* replay: the snapshot, the journal on top of it, and the reset of the items
\* in flight.
Replayed ==
  LET items == Applied(snapshot, journal)
  IN  [w \in Items |->
         IF items[w] \in {"Running", "Assigned"} THEN "Pending" ELSE items[w]]

\* The process dies; timers and all memory with it.
Crash ==
  /\ phase # "down" /\ crashes < MaxCrashes
  /\ phase' = "down" /\ crashes' = crashes + 1
  /\ queue' = [w \in Items |-> IF queue[w] = "New" THEN "New" ELSE "Gone"]
  /\ whole' = {} /\ writes' = 0
  /\ handed' = [w \in Items |-> IF handed[w] = "since" THEN "before" ELSE handed[w]]
  /\ UNCHANGED <<snapshot, journal, over>>

\* restoreFromJournal, into an empty queue.  The journal is not compacted.
Restart ==
  /\ phase = "down" /\ phase' = "running"
  /\ queue' = [w \in Items |->
                 IF Replayed[w] = None THEN queue[w] ELSE Replayed[w]]
  /\ UNCHANGED <<whole, snapshot, journal, writes, crashes, handed, over>>

-----------------------------------------------------------------------------
HandlerStep(w) ==
  \/ \E status \in {"Pending", "Assigned"} : Enqueue(w, status)
  \/ Claim(w) \/ Complete(w) \/ Fail(w) \/ FailAndRetry(w) \/ Stall(w)
  \/ Deliver(w) \/ Dispatch(w) \/ Release(w) \/ Cancel(w)
  \/ DirectDispatchTimeout(w) \/ LeaveQueue(w)

Next ==
  \/ \E w \in Items : HandlerStep(w)
  \/ WriteSnapshot \/ TruncateJournal \/ MarkJournal
  \/ Crash \/ Restart

Spec == Init /\ [][Next]_vars

-----------------------------------------------------------------------------
\* Work that was accepted and has not ended would be restored, whenever the
\* process dies: also inside a compaction, and after an earlier restart.
AcceptedWorkSurvives ==
  \A w \in Items :
    queue[w] # "New" /\ over[w] = "no" => Replayed[w] # None

\* Work whose end was reported is never restored, so it is not done again
\* after a restart: not even from a snapshot taken while it was finishing.
ReportedWorkStaysOver ==
  \A w \in Items : over[w] = "reported" => Replayed[w] = None
=============================================================================
