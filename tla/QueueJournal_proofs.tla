-------------------------- MODULE QueueJournal_proofs --------------------------
(***************************************************************************)
(* AcceptedWorkSurvives and ReportedWorkStaysOver of QueueJournal, and its *)
(* types, for any number of items, any threshold of the compaction and any *)
(* number of crashes.                                                      *)
(***************************************************************************)
EXTENDS QueueJournal, TLAPS, NaturalsInduction, WellFoundedInduction, SequenceTheorems

-----------------------------------------------------------------------------
(***************************************************************************)
(* What a replay computes.                                                 *)
(***************************************************************************)
\* < on Nat is well-founded.
LEMMA LeastNatural ==
  ASSUME NEW S \in SUBSET Nat, S # {}
  PROVE  \E x \in S : \A y \in S : x <= y
<1> DEFINE Less == {p \in Nat \X Nat : p[1] < p[2]}
<1>1. Less = OpToRel(<, Nat)
  BY DEF OpToRel
<1>2. IsWellFoundedOn(Less, Nat)
  BY <1>1, NatLessThanWellFounded
<1> HIDE DEF Less
<1>3. PICK x \in S : \A y \in S : ~(<<y, x>> \in Less)
  BY <1>2, WFMin
<1> USE DEF Less
<1>4. \A y \in S : x <= y
  <2> SUFFICES ASSUME NEW y \in S PROVE x <= y
    OBVIOUS
  <2>1. <<y, x>> \in Nat \X Nat
    OBVIOUS
  <2> QED  BY <1>3, <2>1
<1> QED  BY <1>4

\* The items after the first n entries, by the items after the one before.
After(f, items, entries, k) ==
  f = [n \in 0 .. k |-> IF n = 0 THEN items ELSE ApplyEntry(f[n - 1], entries[n])]

\* For every length there is a function as Applied defines it.
LEMMA AfterExists ==
  ASSUME NEW items, NEW entries, NEW k \in Nat
  PROVE  \E f : After(f, items, entries, k)
<1> DEFINE Bad == {n \in Nat : ~ \E f : After(f, items, entries, n)}
<1> SUFFICES ASSUME Bad # {} PROVE FALSE
  OBVIOUS
<1>1. PICK n \in Bad : \A m \in Bad : n <= m
  <2>1. Bad \in SUBSET Nat
    OBVIOUS
  <2> HIDE DEF Bad
  <2> QED  BY <2>1, LeastNatural
<1>2. n \in Nat /\ ~ \E f : After(f, items, entries, n)
  OBVIOUS
<1>3. CASE n = 0
  <2> DEFINE f == [i \in 0 .. 0 |-> items]
  <2>1. f = [i \in 0 .. 0 |-> IF i = 0 THEN items ELSE ApplyEntry(f[i - 1], entries[i])]
    OBVIOUS
  <2> QED  BY <1>2, <1>3, <2>1 DEF After
<1>4. CASE n # 0
  <2>1. n - 1 \in Nat /\ n - 1 \notin Bad
    BY <1>1, <1>2, <1>4
  <2>2. PICK g : After(g, items, entries, n - 1)
    BY <2>1
  <2> DEFINE f == [i \in 0 .. n |-> IF i < n THEN g[i] ELSE ApplyEntry(g[n - 1], entries[n])]
  <2>3. ASSUME NEW i \in 0 .. n
        PROVE  f[i] = IF i = 0 THEN items ELSE ApplyEntry(f[i - 1], entries[i])
    <3>1. \A j \in 0 .. n - 1 : g[j] = IF j = 0 THEN items ELSE ApplyEntry(g[j - 1], entries[j])
      BY <2>2 DEF After
    <3>2. CASE i = 0
      <4>1. f[0] = g[0] /\ 0 \in 0 .. n - 1
        BY <1>2, <1>4
      <4> QED  BY <3>1, <3>2, <4>1
    <3>3. CASE i \in 1 .. n - 1
      <4>1. f[i] = g[i] /\ f[i - 1] = g[i - 1] /\ i \in 0 .. n - 1 /\ i # 0
        BY <1>2, <3>3
      <4> QED  BY <3>1, <4>1
    <3>4. CASE i = n
      <4>1. n - 1 \in 0 .. n /\ n - 1 < n /\ ~(n < n) /\ n \in 0 .. n
        BY <1>2, <1>4
      <4>2. f[n] = ApplyEntry(g[n - 1], entries[n]) /\ f[n - 1] = g[n - 1]
        BY <4>1
      <4> QED  BY <1>4, <3>4, <4>2
    <3> QED  BY <1>2, <3>2, <3>3, <3>4
  <2>4. After(f, items, entries, n)
    <3>1. DOMAIN f = 0 .. n
      OBVIOUS
    <3>2. f = [i \in 0 .. n |-> f[i]]
      OBVIOUS
    <3> HIDE DEF f
    <3> QED  BY <2>3, <3>2 DEF After
  <2> QED  BY <1>2, <2>4
<1> QED  BY <1>3, <1>4

\* Two replays of entries that agree up to k agree up to k.
LEMMA AfterIsUnique ==
  ASSUME NEW items, NEW e1, NEW e2, NEW f1, NEW f2,
         NEW k1 \in Nat, NEW k2 \in Nat, NEW k \in Nat, k <= k1, k <= k2,
         After(f1, items, e1, k1), After(f2, items, e2, k2),
         \A i \in 1 .. k : e1[i] = e2[i]
  PROVE  f1[k] = f2[k]
<1> DEFINE Bad == {n \in 0 .. k : f1[n] # f2[n]}
<1> SUFFICES ASSUME Bad # {} PROVE FALSE
  OBVIOUS
<1>1. PICK n \in Bad : \A m \in Bad : n <= m
  <2>1. Bad \in SUBSET Nat
    OBVIOUS
  <2> HIDE DEF Bad
  <2> QED  BY <2>1, LeastNatural
<1>2. n \in 0 .. k /\ f1[n] # f2[n]
  OBVIOUS
<1>3. f1[n] = IF n = 0 THEN items ELSE ApplyEntry(f1[n - 1], e1[n])
  <2>1. n \in 0 .. k1
    BY <1>2
  <2> QED  BY <2>1 DEF After
<1>4. f2[n] = IF n = 0 THEN items ELSE ApplyEntry(f2[n - 1], e2[n])
  <2>1. n \in 0 .. k2
    BY <1>2
  <2> QED  BY <2>1 DEF After
<1>5. n # 0
  BY <1>2, <1>3, <1>4
<1>6. n - 1 \in 0 .. k /\ n - 1 \notin Bad /\ n \in 1 .. k
  BY <1>1, <1>2, <1>5
<1>7. f1[n - 1] = f2[n - 1] /\ e1[n] = e2[n]
  BY <1>6
<1> QED  BY <1>2, <1>3, <1>4, <1>5, <1>7

\* Applied is what some function of that recursion has at its end.
LEMMA AppliedIsAfter ==
  ASSUME NEW items, NEW entries, Len(entries) \in Nat
  PROVE  \E f : After(f, items, entries, Len(entries)) /\ Applied(items, entries) = f[Len(entries)]
<1> DEFINE k == Len(entries)
           f == CHOOSE g : After(g, items, entries, k)
<1>1. Applied(items, entries) = f[k]
  BY Zenon DEF Applied, After
<1>2. \E g : After(g, items, entries, k)
  BY AfterExists
<1>3. After(f, items, entries, k)
  BY <1>2, Zenon
<1> QED  BY <1>1, <1>3

\* An empty journal changes nothing.
LEMMA AppliedNothing ==
  ASSUME NEW items
  PROVE  Applied(items, <<>>) = items
<1>1. Len(<<>>) = 0
  OBVIOUS
<1>2. PICK f : After(f, items, <<>>, 0) /\ Applied(items, <<>>) = f[0]
  BY <1>1, AppliedIsAfter
<1> QED  BY <1>2 DEF After

\* One more entry is applied to what the others make.
LEMMA AppliedAppend ==
  ASSUME NEW items, NEW entries \in Seq(Entry), NEW e \in Entry
  PROVE  Applied(items, Append(entries, e)) = ApplyEntry(Applied(items, entries), e)
<1> DEFINE k == Len(entries)
           more == Append(entries, e)
<1>1. k \in Nat /\ Len(more) = k + 1 /\ more[k + 1] = e /\ \A i \in 1 .. k : more[i] = entries[i]
  OBVIOUS
<1> HIDE DEF more
<1>2. PICK f : After(f, items, entries, k) /\ Applied(items, entries) = f[k]
  BY <1>1, AppliedIsAfter
<1> HIDE DEF k
<1>3. PICK g : After(g, items, more, k + 1) /\ Applied(items, more) = g[k + 1]
  BY <1>1, AppliedIsAfter
<1>4. g[k + 1] = ApplyEntry(g[k], e)
  <2>1. k + 1 \in 0 .. k + 1 /\ k + 1 # 0 /\ (k + 1) - 1 = k
    BY <1>1
  <2>2. g[k + 1] = ApplyEntry(g[(k + 1) - 1], more[k + 1])
    BY <1>3, <2>1 DEF After
  <2> QED  BY <1>1, <2>1, <2>2
<1>5. g[k] = f[k]
  <2>1. k + 1 \in Nat /\ k <= k + 1 /\ k <= k
    BY <1>1
  <2>2. \A i \in 1 .. k : more[i] = entries[i]
    BY <1>1
  <2> DEFINE k1 == k + 1
  <2>3. k1 \in Nat /\ k \in Nat /\ k <= k1 /\ k <= k /\ After(g, items, more, k1)
    BY <1>1, <1>3, <2>1
  <2> HIDE DEF k1
  <2> QED  BY <1>2, <2>2, <2>3, AfterIsUnique
<1> QED  BY <1>2, <1>3, <1>4, <1>5 DEF more

-----------------------------------------------------------------------------
(***************************************************************************)
(* The inductive invariant.  It speaks of what the journal would make of   *)
(* any snapshot, since a compaction replaces the snapshot under a journal  *)
(* that is still there, and the process may die right then.                *)
(***************************************************************************)
\* What a snapshot may hold.
Snapshots == [Items -> (Queued \ Final) \cup {None}]

Replay(s) == Applied(s, journal)

\* What the journal does to the item w, whatever snapshot it is applied to.
Restores(w) == \A s \in Snapshots : Replay(s)[w] # None
Forgets(w)  == \A s \in Snapshots : Replay(s)[w] = None
Keeps(w)    == \A s \in Snapshots : s[w] # None => Replay(s)[w] # None
Lets(w)     == \A s \in Snapshots : s[w] = None => Replay(s)[w] = None
StallsNone(w) == \A s \in Snapshots : Replay(s)[w] = "Stalled" => s[w] = "Stalled"

\* The statuses of an item that a handler is still to end.
Open == Queued \ (Final \cup {"Stalled"})
\* The new snapshot is there and the journal is to be truncated, or was.
Compacted == phase \in {"truncate", "mark"}

\* An item nobody enqueued is in no file.
Fresh(w) == queue[w] = "New" => over[w] = "no" /\ snapshot[w] = None /\ Lets(w)

\* An accepted item that has not ended is in the snapshot or restored by the journal.
Accepted(w) ==
  over[w] = "no" /\ queue[w] # "New" =>
    /\ IF phase = "down" THEN queue[w] = "Gone" ELSE queue[w] \in Open
    /\ Keeps(w) /\ (Restores(w) \/ snapshot[w] # None)
    /\ Compacted => snapshot[w] # None
    /\ snapshot[w] # "Stalled"

\* One whose end was reported is not in the snapshot or is removed by the journal.
Reported(w) ==
  over[w] = "reported" =>
    /\ queue[w] \in Final \cup {"Gone"}
    /\ Lets(w) /\ (Forgets(w) \/ snapshot[w] = None)
    /\ Compacted => snapshot[w] = None

Kept(w) == Fresh(w) /\ Accepted(w) /\ Reported(w) /\ StallsNone(w)

Typed ==
  /\ TypeOK /\ snapshot \in Snapshots
  /\ \A s \in Snapshots : Replay(s) \in Snapshots
  /\ phase = "running" => writes < CompactThreshold
  /\ phase = "down" => writes = 0 /\ \A w \in Items : queue[w] \in {"New", "Gone"}

IInv == Typed /\ \A w \in Items : Kept(w)

-----------------------------------------------------------------------------
(***************************************************************************)
(* Entries.                                                                *)
(***************************************************************************)
\* The statuses are what they are.
LEMMA Statuses ==
  /\ \A st \in Queued : st # None /\ st # "New" /\ st # "Gone"
  /\ Final \subseteq Queued /\ Open \subseteq Queued \ Final /\ "Stalled" \notin Open
  /\ {"Pending", "Assigned", "Running", "Dispatched", "RetryScheduled", "Canceled"} \subseteq Open
  /\ "Stalled" \in Queued \ Final
BY NoneAssumption DEF Queued, Final, Open

\* What an enqueue entry does to a replay.
LEMMA EnqueueEntry ==
  ASSUME NEW x \in Snapshots, NEW w \in Items, NEW st \in {"Pending", "Assigned"}
  PROVE  LET e == [op |-> "enqueue", item |-> w, status |-> st]
         IN  e \in Entry /\ ApplyEntry(x, e) = [x EXCEPT ![w] = st]
                         /\ ApplyEntry(x, e) \in Snapshots
<1> DEFINE e == [op |-> "enqueue", item |-> w, status |-> st]
<1>1. e \in Entry
  BY DEF Entry
<1>2. ApplyEntry(x, e) = [x EXCEPT ![w] = st]
  BY DEF ApplyEntry
<1>3. st \in (Queued \ Final) \cup {None}
  BY DEF Queued, Final
<1>4. [x EXCEPT ![w] = st] \in Snapshots
  BY <1>3 DEF Snapshots
<1> QED  BY <1>1, <1>2, <1>4

\* What a claim does to a replay.
LEMMA ClaimEntry ==
  ASSUME NEW x \in Snapshots, NEW w \in Items
  PROVE  LET e == [op |-> "claim", item |-> w]
         IN  e \in Entry /\ ApplyEntry(x, e) \in Snapshots
             /\ ApplyEntry(x, e) = [x EXCEPT ![w] = IF x[w] = None THEN None ELSE "Running"]
<1> DEFINE e == [op |-> "claim", item |-> w]
           st == IF x[w] = None THEN None ELSE "Running"
<1>1. e \in Entry
  BY DEF Entry
<1>2. ApplyEntry(x, e) = [x EXCEPT ![w] = st]
  BY DEF ApplyEntry
<1>3. st \in (Queued \ Final) \cup {None}
  BY DEF Queued, Final
<1> HIDE DEF st
<1>4. [x EXCEPT ![w] = st] \in Snapshots
  BY <1>3 DEF Snapshots
<1> QED  BY <1>1, <1>2, <1>4 DEF st

\* What the entry of an end does to a replay.
LEMMA EndEntry ==
  ASSUME NEW x \in Snapshots, NEW w \in Items, NEW op \in {"complete", "fail"}
  PROVE  LET e == [op |-> op, item |-> w]
         IN  e \in Entry /\ ApplyEntry(x, e) = [x EXCEPT ![w] = None]
                         /\ ApplyEntry(x, e) \in Snapshots
<1> DEFINE e == [op |-> op, item |-> w]
<1>1. e \in Entry
  BY DEF Entry
<1>2. ApplyEntry(x, e) = [x EXCEPT ![w] = None]
  BY DEF ApplyEntry
<1>3. [x EXCEPT ![w] = None] \in Snapshots
  BY DEF Snapshots
<1> QED  BY <1>1, <1>2, <1>3

\* A failure with an attempt left and a stall are written, and mean nothing to a replay.
LEMMA OtherEntry ==
  ASSUME NEW x \in Snapshots, NEW w \in Items, NEW op \in {"retry-scheduled", "stalled"}
  PROVE  LET e == [op |-> op, item |-> w]
         IN  e \in Entry /\ ApplyEntry(x, e) = x
BY DEF Entry, ApplyEntry

\* The mark of a compaction does nothing to a replay.
LEMMA CompactEntry ==
  ASSUME NEW x
  PROVE  LET e == [op |-> "compact"]
         IN  e \in Entry /\ ApplyEntry(x, e) = x
BY DEF Entry, ApplyEntry

\* The journal with one more entry.
LEMMA Appended ==
  ASSUME IInv, NEW e \in Entry, journal' = Append(journal, e), NEW s \in Snapshots
  PROVE  Replay(s)' = ApplyEntry(Replay(s), e) /\ Replay(s) \in Snapshots
<1>1. journal \in Seq(Entry) /\ Replay(s) \in Snapshots
  BY DEF IInv, Typed, TypeOK
<1>2. Applied(s, Append(journal, e)) = ApplyEntry(Applied(s, journal), e)
  BY <1>1, AppliedAppend
<1> QED  BY <1>1, <1>2 DEF Replay

\* A step about another item.
LEMMA OthersKept ==
  ASSUME IInv, NEW v \in Items, phase = "running", phase' \in {"running", "snapshot"},
         snapshot' = snapshot, queue'[v] = queue[v], over'[v] = over[v],
         \A s \in Snapshots : Replay(s)'[v] = Replay(s)[v]
  PROVE  Kept(v)'
<1>1. Kept(v)
  BY DEF IInv
<1>2. Fresh(v)' /\ StallsNone(v)'
  BY <1>1 DEF Kept, Fresh, StallsNone, Lets
<1>3. Accepted(v)'
  BY <1>1 DEF Kept, Accepted, Compacted, Keeps, Restores
<1>4. Reported(v)'
  BY <1>1 DEF Kept, Reported, Compacted, Lets, Forgets
<1> QED  BY <1>2, <1>3, <1>4 DEF Kept

\* A handler of w that writes the entry e.
LEMMA WrittenKeeps ==
  ASSUME NEW w \in Items, NEW e \in Entry, NEW st \in Queued, IInv, AppendEntry(e),
         queue' = [queue EXCEPT ![w] = st],
         whole' \subseteq Items, handed' \in [Items -> {"never", "before", "since"}],
         over' \in [Items -> {"no", "reported", "dropped"}],
         \A v \in Items \ {w} : over'[v] = over[v],
         \A x \in Snapshots : /\ ApplyEntry(x, e) \in Snapshots
                              /\ \A v \in Items \ {w} : ApplyEntry(x, e)[v] = x[v],
         Kept(w)'
  PROVE  IInv'
<1>1. /\ phase = "running" /\ phase' \in {"running", "snapshot"}
      /\ journal' = Append(journal, e) /\ writes' = writes + 1
      /\ phase' = IF writes' >= CompactThreshold THEN "snapshot" ELSE "running"
      /\ UNCHANGED <<snapshot, crashes>>
  BY DEF AppendEntry
<1>2. \A s \in Snapshots : Replay(s)' = ApplyEntry(Replay(s), e) /\ Replay(s) \in Snapshots
  BY <1>1, Appended
<1>3. Typed'
  <2>1. writes' \in 0 .. CompactThreshold /\ (phase' = "running" => writes' < CompactThreshold)
    BY <1>1, JournalAssumption DEF IInv, Typed, TypeOK
  <2>2. journal' \in Seq(Entry)
    BY <1>1 DEF IInv, Typed, TypeOK
  <2>3. queue' \in [Items -> Queued \cup {"New", "Gone"}]
    BY DEF IInv, Typed, TypeOK
  <2>4. TypeOK'
    BY <1>1, <2>1, <2>2, <2>3 DEF IInv, Typed, TypeOK
  <2>5. \A s \in Snapshots : Replay(s)' \in Snapshots
    BY <1>2
  <2> QED  BY <1>1, <2>1, <2>4, <2>5 DEF IInv, Typed
<1>4. ASSUME NEW v \in Items \ {w} PROVE Kept(v)'
  <2>1. queue'[v] = queue[v] /\ over'[v] = over[v] /\ v \in Items
    BY DEF IInv, Typed, TypeOK
  <2>2. \A s \in Snapshots : Replay(s)'[v] = Replay(s)[v]
    BY <1>2
  <2> QED  BY <1>1, <2>1, <2>2, OthersKept
<1> QED  BY <1>3, <1>4 DEF IInv

-----------------------------------------------------------------------------
(***************************************************************************)
(* Handlers that write an entry.                                           *)
(***************************************************************************)
LEMMA EnqueueKeeps ==
  ASSUME IInv, NEW w \in Items, NEW st \in {"Pending", "Assigned"}, Enqueue(w, st)
  PROVE  IInv'
<1> DEFINE e == [op |-> "enqueue", item |-> w, status |-> st]
<1>1. /\ queue[w] = "New" /\ queue' = [queue EXCEPT ![w] = st] /\ AppendEntry(e)
      /\ whole' = whole \cup {w} /\ UNCHANGED <<handed, over>>
  BY DEF Enqueue
<1>2. \A x \in Snapshots : /\ e \in Entry /\ ApplyEntry(x, e) \in Snapshots
                           /\ ApplyEntry(x, e) = [x EXCEPT ![w] = st]
  BY EnqueueEntry
<1>3. e \in Entry
  BY DEF Entry
<1> HIDE DEF e
<1>4. \A x \in Snapshots : /\ ApplyEntry(x, e)[w] = st
                           /\ \A v \in Items \ {w} : ApplyEntry(x, e)[v] = x[v]
  BY <1>2 DEF Snapshots
<1>5. /\ journal' = Append(journal, e) /\ snapshot' = snapshot /\ phase' \in {"running", "snapshot"}
  BY <1>1 DEF AppendEntry
<1>6. \A s \in Snapshots : Replay(s)'[w] = st
  BY <1>3, <1>4, <1>5, Appended
<1>7. st \in Queued /\ st \in Open /\ st # None /\ st # "Stalled" /\ st # "New"
  BY Statuses
<1>8. Kept(w)'
  <2>1. queue'[w] = st /\ over'[w] = "no" /\ snapshot'[w] = None
    BY <1>1, <1>5 DEF IInv, Kept, Fresh, Typed, TypeOK
  <2>2. Restores(w)' /\ Keeps(w)' /\ StallsNone(w)'
    BY <1>6, <1>7 DEF Restores, Keeps, StallsNone
  <2>3. None # "Stalled"
    BY Statuses
  <2> QED  BY <1>5, <1>7, <2>1, <2>2, <2>3 DEF Kept, Fresh, Accepted, Reported, Compacted
<1>9. whole' \subseteq Items /\ handed' = handed /\ over' = over
  BY <1>1 DEF IInv, Typed, TypeOK
<1>10. /\ handed' \in [Items -> {"never", "before", "since"}]
       /\ over' \in [Items -> {"no", "reported", "dropped"}]
  BY <1>9 DEF IInv, Typed, TypeOK
<1> QED  BY <1>1, <1>2, <1>3, <1>4, <1>7, <1>8, <1>9, <1>10, WrittenKeeps

\* A claim is written.
LEMMA ClaimKeeps ==
  ASSUME IInv, NEW w \in Items, Claim(w)
  PROVE  IInv'
<1> DEFINE e == [op |-> "claim", item |-> w]
<1>1. /\ queue[w] = "Pending" /\ queue' = [queue EXCEPT ![w] = "Running"] /\ AppendEntry(e)
      /\ handed' = [handed EXCEPT ![w] = "since"] /\ UNCHANGED <<whole, over>>
  BY DEF Claim
<1>2. \A x \in Snapshots :
        /\ ApplyEntry(x, e) \in Snapshots
        /\ ApplyEntry(x, e) = [x EXCEPT ![w] = IF x[w] = None THEN None ELSE "Running"]
  BY ClaimEntry
<1>3. e \in Entry
  BY DEF Entry
<1> HIDE DEF e
<1>4. \A x \in Snapshots : /\ ApplyEntry(x, e)[w] = IF x[w] = None THEN None ELSE "Running"
                           /\ \A v \in Items \ {w} : ApplyEntry(x, e)[v] = x[v]
  BY <1>2 DEF Snapshots
<1>5. /\ journal' = Append(journal, e) /\ snapshot' = snapshot /\ phase' \in {"running", "snapshot"}
      /\ phase = "running"
  BY <1>1 DEF AppendEntry
<1>6. \A s \in Snapshots : Replay(s)'[w] = IF Replay(s)[w] = None THEN None ELSE "Running"
  BY <1>3, <1>4, <1>5, Appended
<1>7. "Running" \in Queued /\ "Running" \in Open /\ "Running" # None /\ None # "Stalled"
  BY Statuses
<1>8. Kept(w)'
  <2>1. queue'[w] = "Running" /\ over'[w] = over[w] /\ snapshot'[w] = snapshot[w]
    BY <1>1, <1>5 DEF IInv, Typed, TypeOK
  <2>2. Kept(w) /\ "Pending" \notin Final \cup {"Gone"}
    BY DEF IInv, Final
  <2>3. over[w] # "reported"
    BY <1>1, <2>2 DEF Kept, Reported
  <2>4. (Restores(w) => Restores(w)') /\ (Keeps(w) => Keeps(w)') /\ StallsNone(w)'
    BY <1>6, <1>7 DEF Restores, Keeps, StallsNone
  <2>5. Accepted(w)
    BY <2>2 DEF Kept
  <2>6. Accepted(w)'
    BY <1>1, <1>5, <1>7, <2>1, <2>4, <2>5 DEF Accepted, Compacted
  <2> QED  BY <2>1, <2>3, <2>4, <2>6 DEF Kept, Fresh, Reported
<1>9. /\ whole' \subseteq Items /\ over' = over
      /\ handed' \in [Items -> {"never", "before", "since"}]
  BY <1>1 DEF IInv, Typed, TypeOK
<1>10. over' \in [Items -> {"no", "reported", "dropped"}]
  BY <1>9 DEF IInv, Typed, TypeOK
<1> QED  BY <1>1, <1>2, <1>3, <1>4, <1>7, <1>8, <1>9, <1>10, WrittenKeeps

\* A reported end is written: the item is out of every replay.
LEMMA FinishKeeps ==
  ASSUME IInv, NEW w \in Items, NEW op \in {"complete", "fail"}, NEW st \in Final,
         Finish(w, op, st)
  PROVE  IInv'
<1> DEFINE e == [op |-> op, item |-> w]
<1>1. /\ queue' = [queue EXCEPT ![w] = st] /\ AppendEntry(e)
      /\ over' = [over EXCEPT ![w] = "reported"] /\ UNCHANGED <<whole, handed>>
  BY DEF Finish
<1>2. \A x \in Snapshots : ApplyEntry(x, e) \in Snapshots /\ ApplyEntry(x, e) = [x EXCEPT ![w] = None]
  BY EndEntry
<1>3. e \in Entry
  BY DEF Entry
<1> HIDE DEF e
<1>4. \A x \in Snapshots : /\ ApplyEntry(x, e)[w] = None
                           /\ \A v \in Items \ {w} : ApplyEntry(x, e)[v] = x[v]
  BY <1>2 DEF Snapshots
<1>5. /\ journal' = Append(journal, e) /\ snapshot' = snapshot /\ phase' \in {"running", "snapshot"}
  BY <1>1 DEF AppendEntry
<1>6. \A s \in Snapshots : Replay(s)'[w] = None
  BY <1>3, <1>4, <1>5, Appended
<1>7. st \in Queued /\ None # "Stalled" /\ st # "New"
  BY Statuses
<1>8. Kept(w)'
  <2>1. queue'[w] = st /\ over'[w] = "reported"
    BY <1>1 DEF IInv, Typed, TypeOK
  <2>2. Forgets(w)' /\ Lets(w)' /\ StallsNone(w)'
    BY <1>6, <1>7 DEF Forgets, Lets, StallsNone
  <2> QED  BY <1>5, <1>7, <2>1, <2>2 DEF Kept, Fresh, Accepted, Reported, Compacted
<1>9. /\ whole' \subseteq Items /\ \A v \in Items \ {w} : over'[v] = over[v]
      /\ handed' \in [Items -> {"never", "before", "since"}]
      /\ over' \in [Items -> {"no", "reported", "dropped"}]
  BY <1>1 DEF IInv, Typed, TypeOK
<1> QED  BY <1>1, <1>2, <1>3, <1>4, <1>7, <1>8, <1>9, WrittenKeeps

\* What a replay does not know of an item that has not ended: it failed and is
\* tried again, or it stalled.
LEMMA OtherEntryKeeps ==
  ASSUME NEW w \in Items, NEW op \in {"retry-scheduled", "stalled"}, NEW st \in Queued, IInv,
         AppendEntry([op |-> op, item |-> w]), queue[w] \in Queued \ Final,
         queue' = [queue EXCEPT ![w] = st], UNCHANGED <<whole, handed>>,
         \/ st \in Open /\ over' = over
         \/ over' = [over EXCEPT ![w] = "dropped"]
  PROVE  IInv'
<1> DEFINE e == [op |-> op, item |-> w]
<1>1. st # "New" /\ st # "Gone"
  BY Statuses
<1>2. e \in Entry
  BY DEF Entry
<1>3. \A x \in Snapshots : ApplyEntry(x, e) = x
  BY OtherEntry
<1>4. AppendEntry(e)
  OBVIOUS
<1> HIDE DEF e
<1>5. /\ journal' = Append(journal, e) /\ snapshot' = snapshot /\ phase' \in {"running", "snapshot"}
      /\ phase = "running"
  BY <1>4 DEF AppendEntry
<1>6. \A s \in Snapshots : Replay(s)' = Replay(s)
  BY <1>2, <1>3, <1>5, Appended
<1>7. Kept(w)'
  <2>1. queue'[w] = st /\ Kept(w) /\ queue[w] # "New"
    BY Statuses DEF IInv, Typed, TypeOK
  <2>2. over[w] # "reported"
    <3>1. queue[w] \notin Final \cup {"Gone"}
      BY Statuses
    <3> QED  BY <2>1, <3>1 DEF Kept, Reported
  <2>3. StallsNone(w)'
    BY <1>6, <2>1 DEF Kept, StallsNone
  <2>4. CASE st \in Open /\ over' = over
    <3>1. Accepted(w)
      BY <2>1 DEF Kept
    <3>2. (Restores(w) => Restores(w)') /\ (Keeps(w) => Keeps(w)')
      BY <1>6 DEF Restores, Keeps
    <3>3. Accepted(w)'
      BY <1>5, <2>1, <2>4, <3>1, <3>2 DEF Accepted, Compacted
    <3> QED  BY <1>1, <2>1, <2>2, <2>3, <2>4, <3>3 DEF Kept, Fresh, Reported
  <2>5. CASE over' = [over EXCEPT ![w] = "dropped"]
    <3>1. over'[w] = "dropped"
      BY <2>5 DEF IInv, Typed, TypeOK
    <3> QED  BY <1>1, <2>1, <2>3, <3>1 DEF Kept, Fresh, Accepted, Reported
  <2> QED  BY <2>4, <2>5
<1>8. /\ whole' \subseteq Items /\ handed' \in [Items -> {"never", "before", "since"}]
      /\ over' \in [Items -> {"no", "reported", "dropped"}]
      /\ \A v \in Items \ {w} : over'[v] = over[v]
  BY DEF IInv, Typed, TypeOK
<1>9. \A x \in Snapshots : /\ ApplyEntry(x, e) \in Snapshots
                           /\ \A v \in Items \ {w} : ApplyEntry(x, e)[v] = x[v]
  BY <1>3
<1> QED  BY <1>2, <1>4, <1>7, <1>8, <1>9, WrittenKeeps

\* A failure with a retry is written, and the item is restored.
LEMMA FailAndRetryKeeps ==
  ASSUME IInv, NEW w \in Items, FailAndRetry(w)
  PROVE  IInv'
<1>1. /\ queue' = [queue EXCEPT ![w] = "RetryScheduled"] /\ UNCHANGED <<whole, handed, over>>
      /\ AppendEntry([op |-> "retry-scheduled", item |-> w]) /\ queue[w] \in Queued \ Final
  BY DEF FailAndRetry, MayReport, InQueue
<1>2. "RetryScheduled" \in Queued /\ "RetryScheduled" \in Open
  BY Statuses
<1> QED  BY <1>1, <1>2, OtherEntryKeeps

\* A stall is written.
LEMMA StallKeeps ==
  ASSUME IInv, NEW w \in Items, Stall(w)
  PROVE  IInv'
<1>1. /\ queue' = [queue EXCEPT ![w] = "Stalled"] /\ UNCHANGED <<whole, handed>>
      /\ over' = [over EXCEPT ![w] = "dropped"]
      /\ AppendEntry([op |-> "stalled", item |-> w]) /\ queue[w] \in Queued \ Final
  BY DEF Stall, Queued, Final
<1>2. "Stalled" \in Queued
  BY Statuses
<1> QED  BY <1>1, <1>2, OtherEntryKeeps

-----------------------------------------------------------------------------
(***************************************************************************)
(* Handlers that write none.                                               *)
(***************************************************************************)
\* The item has not ended, or its end is dropped; that of a report stays in the queue.
LEMMA UnjournalledKeeps ==
  ASSUME NEW w \in Items, NEW from \in SUBSET Queued, NEW to \in Queued \cup {"Gone"}, IInv,
         Unjournalled(w, from, to), handed' \in [Items -> {"never", "before", "since"}],
         \/ to \in Open /\ over' = over /\ from \subseteq Queued \ Final
         \/ over[w] # "reported" /\ over' = [over EXCEPT ![w] = "dropped"]
         \/ to = "Gone" /\ over' = over /\ from \cap Open = {}
  PROVE  IInv'
<1>1. /\ phase = "running" /\ queue[w] \in from /\ queue' = [queue EXCEPT ![w] = to]
      /\ UNCHANGED <<whole, snapshot, journal, writes, phase, crashes>>
  BY DEF Unjournalled
<1>2. over' \in [Items -> {"no", "reported", "dropped"}] /\ \A v \in Items \ {w} : over'[v] = over[v]
  BY DEF IInv, Typed, TypeOK
<1>3. Typed'
  <2>1. queue' \in [Items -> Queued \cup {"New", "Gone"}]
    BY <1>1 DEF IInv, Typed, TypeOK
  <2>2. TypeOK'
    BY <1>1, <1>2, <2>1 DEF IInv, Typed, TypeOK
  <2>3. \A s \in Snapshots : Replay(s)' = Replay(s)
    BY <1>1 DEF Replay
  <2> QED  BY <1>1, <2>2, <2>3 DEF IInv, Typed
<1>4. ASSUME NEW v \in Items \ {w} PROVE Kept(v)'
  <2>1. queue'[v] = queue[v] /\ over'[v] = over[v] /\ v \in Items
    BY <1>1, <1>2 DEF IInv, Typed, TypeOK
  <2>2. \A s \in Snapshots : Replay(s)'[v] = Replay(s)[v]
    BY <1>1 DEF Replay
  <2> QED  BY <1>1, <2>1, <2>2, OthersKept
<1>5. Kept(w)'
  <2>1. queue'[w] = to /\ Kept(w) /\ queue[w] \in Queued /\ queue[w] # "New" /\ queue[w] # "Gone"
    BY <1>1, Statuses DEF IInv, Typed, TypeOK
  <2>2. /\ Restores(w)' = Restores(w) /\ Keeps(w)' = Keeps(w) /\ StallsNone(w)' = StallsNone(w)
        /\ Lets(w)' = Lets(w) /\ Forgets(w)' = Forgets(w) /\ Compacted' = Compacted
    BY <1>1 DEF Restores, Keeps, StallsNone, Lets, Forgets, Replay, Compacted
  <2>3. Accepted(w) /\ Reported(w) /\ StallsNone(w)
    BY <2>1 DEF Kept
  <2>4. Fresh(w)' /\ StallsNone(w)'
    BY <2>1, <2>2, <2>3, Statuses DEF Fresh
  <2>5. CASE to \in Open /\ over' = over /\ from \subseteq Queued \ Final
    <3>1. over[w] # "reported"
      BY <1>1, <2>1, <2>3, <2>5 DEF Reported
    <3>2. Accepted(w)'
      BY <1>1, <2>1, <2>2, <2>3, <2>5 DEF Accepted
    <3> QED  BY <2>4, <2>5, <3>1, <3>2 DEF Kept, Reported
  <2>6. CASE over[w] # "reported" /\ over' = [over EXCEPT ![w] = "dropped"]
    <3>1. over'[w] = "dropped"
      BY <2>6 DEF IInv, Typed, TypeOK
    <3> QED  BY <2>4, <3>1 DEF Kept, Accepted, Reported
  <2>7. CASE to = "Gone" /\ over' = over /\ from \cap Open = {}
    <3>1. over[w] # "no"
      BY <1>1, <2>1, <2>3, <2>7 DEF Accepted
    <3>2. Reported(w)'
      BY <1>1, <2>1, <2>2, <2>3, <2>7 DEF Reported
    <3> QED  BY <2>4, <2>7, <3>1, <3>2 DEF Kept, Accepted
  <2> QED  BY <2>5, <2>6, <2>7
<1> QED  BY <1>3, <1>4, <1>5 DEF IInv

\* The handlers that write nothing keep the invariant.
LEMMA QuietHandlersKeep ==
  ASSUME IInv, NEW w \in Items,
         \/ Deliver(w) \/ Dispatch(w) \/ Release(w) \/ Cancel(w)
         \/ DirectDispatchTimeout(w) \/ LeaveQueue(w)
  PROVE  IInv'
<1>1. handed' \in [Items -> {"never", "before", "since"}]
  BY DEF Deliver, Dispatch, Release, Cancel, DirectDispatchTimeout, LeaveQueue, IInv, Typed, TypeOK
<1>2. CASE Deliver(w)
  <2>1. Unjournalled(w, {"Assigned"}, "Running") /\ over' = over
    BY <1>2 DEF Deliver
  <2>2. "Running" \in Open /\ "Running" \in Queued /\ {"Assigned"} \subseteq Queued \ Final
    BY Statuses
  <2> QED  BY <1>1, <2>1, <2>2, UnjournalledKeeps
<1>3. CASE Dispatch(w)
  <2>1. Unjournalled(w, {"Pending"}, "Dispatched") /\ over' = over
    BY <1>3 DEF Dispatch
  <2>2. "Dispatched" \in Open /\ "Dispatched" \in Queued /\ {"Pending"} \subseteq Queued \ Final
    BY Statuses
  <2> QED  BY <1>1, <2>1, <2>2, UnjournalledKeeps
<1>4. CASE Release(w)
  <2> DEFINE from == {"Assigned", "Running", "RetryScheduled"}
  <2>1. Unjournalled(w, from, "Pending") /\ over' = over
    BY <1>4 DEF Release
  <2>2. "Pending" \in Open /\ "Pending" \in Queued /\ from \subseteq Queued \ Final
    BY Statuses
  <2> HIDE DEF from
  <2> QED  BY <1>1, <2>1, <2>2, UnjournalledKeeps
<1>5. CASE Cancel(w)
  <2> DEFINE from == {"Pending", "Assigned"}
  <2>1. Unjournalled(w, from, "Canceled") /\ over' = [over EXCEPT ![w] = "dropped"]
    BY <1>5 DEF Cancel
  <2>2. "Canceled" \in Queued /\ from \subseteq Queued \ Final /\ "Gone" \notin from
    BY Statuses
  <2>3. over[w] # "reported"
    <3>1. queue[w] \in from /\ Reported(w)
      BY <2>1 DEF Unjournalled, IInv, Kept
    <3> QED  BY <2>2, <3>1 DEF Reported
  <2> HIDE DEF from
  <2> QED  BY <1>1, <2>1, <2>2, <2>3, UnjournalledKeeps
<1>6. CASE DirectDispatchTimeout(w)
  <2>1. /\ Unjournalled(w, Queued, "Gone") /\ over[w] # "reported"
        /\ over' = [over EXCEPT ![w] = "dropped"]
    BY <1>6 DEF DirectDispatchTimeout
  <2> QED  BY <1>1, <2>1, UnjournalledKeeps
<1>7. CASE LeaveQueue(w)
  <2> DEFINE from == Final \cup {"Stalled"}
  <2>1. Unjournalled(w, from, "Gone") /\ over' = over
    BY <1>7 DEF LeaveQueue
  <2>2. from \subseteq Queued /\ from \cap Open = {}
    BY Statuses
  <2> HIDE DEF from
  <2> QED  BY <1>1, <2>1, <2>2, UnjournalledKeeps
<1> QED  BY <1>2, <1>3, <1>4, <1>5, <1>6, <1>7

-----------------------------------------------------------------------------
(***************************************************************************)
(* The compaction, a crash and a restart.                                  *)
(***************************************************************************)
LEMMA WriteSnapshotKeeps ==
  ASSUME IInv, WriteSnapshot
  PROVE  IInv'
<1>1. /\ phase = "snapshot" /\ phase' = "truncate"
      /\ snapshot' = [w \in Items |-> IF Persisted(w) THEN queue[w] ELSE None]
      /\ UNCHANGED <<queue, whole, journal, writes, crashes, handed, over>>
  BY DEF WriteSnapshot
<1>2. snapshot' \in Snapshots
  <2>1. \A w \in Items : Persisted(w) => queue[w] \in Queued \ Final
    BY DEF Persisted, InQueue
  <2> QED  BY <1>1, <2>1 DEF Snapshots
<1>3. \A s \in Snapshots : Replay(s)' = Replay(s)
  BY <1>1 DEF Replay
<1>4. Typed'
  <2>1. TypeOK'
    BY <1>1, <1>2 DEF IInv, Typed, TypeOK, Snapshots
  <2> QED  BY <1>1, <1>2, <1>3, <2>1 DEF IInv, Typed
<1>5. ASSUME NEW w \in Items PROVE Kept(w)'
  <2>1. /\ Restores(w)' = Restores(w) /\ Keeps(w)' = Keeps(w) /\ StallsNone(w)' = StallsNone(w)
        /\ Lets(w)' = Lets(w) /\ Forgets(w)' = Forgets(w)
    BY <1>1 DEF Restores, Keeps, StallsNone, Lets, Forgets, Replay
  <2>2. Kept(w) /\ snapshot'[w] = IF queue[w] \in Queued \ Final THEN queue[w] ELSE None
    BY <1>1 DEF IInv, Persisted, InQueue
  <2>3. Fresh(w)'
    BY <1>1, <2>1, <2>2, Statuses DEF Kept, Fresh
  <2>4. Accepted(w)'
    <3>1. queue[w] \in Open => snapshot'[w] = queue[w] /\ snapshot'[w] # None /\ snapshot'[w] # "Stalled"
      BY <2>2, Statuses
    <3> QED  BY <1>1, <2>1, <2>2, <3>1 DEF Kept, Accepted
  <2>5. Reported(w)'
    <3>1. queue[w] \in Final \cup {"Gone"} => snapshot'[w] = None
      BY <2>2, Statuses
    <3> QED  BY <1>1, <2>1, <2>2, <3>1 DEF Kept, Reported
  <2> QED  BY <2>1, <2>2, <2>3, <2>4, <2>5 DEF Kept
<1> QED  BY <1>4, <1>5 DEF IInv

\* The journal is empty but for its marker; the snapshot is the new one.
LEMMA JournalIsEmptied ==
  ASSUME IInv, phase \in {"truncate", "mark"}, phase' \in {"mark", "running"},
         journal' \in {<<>>, <<[op |-> "compact"]>>}, writes' \in 0 .. CompactThreshold,
         phase' = "running" => writes' < CompactThreshold,
         UNCHANGED <<queue, whole, snapshot, crashes, handed, over>>
  PROVE  IInv'
<1> DEFINE e == [op |-> "compact"]
<1>1. e \in Entry /\ <<e>> = Append(<<>>, e)
  BY DEF Entry
<1>2. ASSUME NEW s \in Snapshots PROVE Replay(s)' = s
  <2>1. Applied(s, <<>>) = s
    BY AppliedNothing
  <2>2. <<>> \in Seq(Entry)
    OBVIOUS
  <2> HIDE DEF e
  <2>3. Applied(s, Append(<<>>, e)) = ApplyEntry(s, e)
    BY <1>1, <2>1, <2>2, AppliedAppend
  <2>4. ApplyEntry(s, e) = s
    BY CompactEntry DEF e
  <2>5. journal' = <<>> \/ journal' = Append(<<>>, e)
    BY <1>1 DEF e
  <2> QED  BY <2>1, <2>3, <2>4, <2>5 DEF Replay
<1>3. Typed'
  <2>1. journal' \in Seq(Entry)
    <3>1. <<>> \in Seq(Entry) /\ Append(<<>>, e) \in Seq(Entry)
      BY <1>1
    <3>2. journal' = <<>> \/ journal' = Append(<<>>, e)
      BY <1>1
    <3> QED  BY <3>1, <3>2
  <2>2. TypeOK'
    BY <2>1 DEF IInv, Typed, TypeOK
  <2>3. \A s \in Snapshots : Replay(s)' \in Snapshots
    BY <1>2
  <2> QED  BY <2>2, <2>3 DEF IInv, Typed
<1>4. ASSUME NEW w \in Items PROVE Kept(w)'
  <2>1. Keeps(w)' /\ Lets(w)' /\ StallsNone(w)'
    BY <1>2 DEF Keeps, Lets, StallsNone
  <2>2. Kept(w) /\ Compacted
    BY DEF IInv, Compacted
  <2>3. Fresh(w)'
    BY <2>1, <2>2 DEF Kept, Fresh
  <2>4. Accepted(w)'
    BY <2>1, <2>2 DEF Kept, Accepted
  <2>5. Reported(w)'
    BY <2>1, <2>2 DEF Kept, Reported
  <2> QED  BY <2>1, <2>3, <2>4, <2>5 DEF Kept
<1> QED  BY <1>3, <1>4 DEF IInv

\* A crash leaves the files as they are.
LEMMA CrashKeeps ==
  ASSUME IInv, Crash
  PROVE  IInv'
<1>1. /\ phase' = "down" /\ crashes' = crashes + 1 /\ crashes < MaxCrashes
      /\ queue' = [w \in Items |-> IF queue[w] = "New" THEN "New" ELSE "Gone"]
      /\ whole' = {} /\ writes' = 0
      /\ handed' = [w \in Items |-> IF handed[w] = "since" THEN "before" ELSE handed[w]]
      /\ UNCHANGED <<snapshot, journal, over>>
  BY DEF Crash
<1>2. Typed'
  <2>1. crashes' \in 0 .. MaxCrashes /\ writes' \in 0 .. CompactThreshold
    BY <1>1, JournalAssumption DEF IInv, Typed, TypeOK
  <2>2. handed' \in [Items -> {"never", "before", "since"}]
    BY <1>1 DEF IInv, Typed, TypeOK
  <2>3. TypeOK'
    BY <1>1, <2>1, <2>2 DEF IInv, Typed, TypeOK
  <2>4. \A s \in Snapshots : Replay(s)' = Replay(s)
    BY <1>1 DEF Replay
  <2> QED  BY <1>1, <2>3, <2>4 DEF IInv, Typed
<1>3. ASSUME NEW w \in Items PROVE Kept(w)'
  <2>1. /\ Restores(w)' = Restores(w) /\ Keeps(w)' = Keeps(w) /\ StallsNone(w)' = StallsNone(w)
        /\ Lets(w)' = Lets(w) /\ Forgets(w)' = Forgets(w) /\ ~Compacted'
    BY <1>1 DEF Restores, Keeps, StallsNone, Lets, Forgets, Replay, Compacted
  <2>2. Kept(w) /\ queue'[w] = IF queue[w] = "New" THEN "New" ELSE "Gone"
    BY <1>1 DEF IInv
  <2>3. Fresh(w)'
    BY <1>1, <2>1, <2>2 DEF Kept, Fresh
  <2>4. Accepted(w)'
    BY <1>1, <2>1, <2>2 DEF Kept, Accepted
  <2>5. Reported(w)'
    <3>1. "New" \notin Final \cup {"Gone"}
      BY Statuses
    <3> QED  BY <1>1, <2>1, <2>2, <3>1 DEF Kept, Reported
  <2> QED  BY <2>1, <2>2, <2>3, <2>4, <2>5 DEF Kept
<1> QED  BY <1>2, <1>3 DEF IInv

\* What is restored: every accepted item that has not ended, to a status that can end,
\* and none that was reported.
LEMMA ReplayedIs ==
  ASSUME IInv, NEW w \in Items
  PROVE  /\ Replayed[w] \in Queued \cup {None}
         /\ queue[w] = "New" => Replayed[w] = None
         /\ over[w] = "no" /\ queue[w] # "New" => Replayed[w] \in Open
         /\ over[w] = "reported" => Replayed[w] = None
<1> DEFINE items == Replay(snapshot)
<1>1. snapshot \in Snapshots /\ items \in Snapshots /\ Kept(w)
  BY DEF IInv, Typed
<1>2. Replayed[w] = IF items[w] \in {"Running", "Assigned"} THEN "Pending" ELSE items[w]
  BY DEF Replayed, Replay
<1>3. items[w] \in (Queued \ Final) \cup {None}
  BY <1>1 DEF Snapshots
<1>4. queue[w] = "New" => items[w] = None
  BY <1>1 DEF Kept, Fresh, Lets
<1>5. over[w] = "reported" => items[w] = None
  BY <1>1 DEF Kept, Reported, Lets, Forgets
<1>6. over[w] = "no" /\ queue[w] # "New" => items[w] # None /\ items[w] # "Stalled"
  BY <1>1 DEF Kept, Accepted, Keeps, Restores, StallsNone
<1> HIDE DEF items
<1>7. "Pending" \in Open /\ "Pending" \in Queued /\ None \notin {"Running", "Assigned"}
  BY Statuses
<1> QED  BY <1>2, <1>3, <1>4, <1>5, <1>6, <1>7 DEF Open

\* A restart puts the replay into the queue.
LEMMA RestartKeeps ==
  ASSUME IInv, Restart
  PROVE  IInv'
<1>1. /\ phase = "down" /\ phase' = "running"
      /\ queue' = [w \in Items |-> IF Replayed[w] = None THEN queue[w] ELSE Replayed[w]]
      /\ UNCHANGED <<whole, snapshot, journal, writes, crashes, handed, over>>
  BY DEF Restart
<1>2. Typed'
  <2>1. queue' \in [Items -> Queued \cup {"New", "Gone"}]
    BY <1>1, ReplayedIs DEF IInv, Typed, TypeOK
  <2>2. TypeOK'
    BY <1>1, <2>1 DEF IInv, Typed, TypeOK
  <2>3. \A s \in Snapshots : Replay(s)' = Replay(s)
    BY <1>1 DEF Replay
  <2>4. writes = 0
    BY <1>1 DEF IInv, Typed
  <2> QED  BY <1>1, <2>2, <2>3, <2>4, JournalAssumption DEF IInv, Typed
<1>3. ASSUME NEW w \in Items PROVE Kept(w)'
  <2>1. /\ Restores(w)' = Restores(w) /\ Keeps(w)' = Keeps(w) /\ StallsNone(w)' = StallsNone(w)
        /\ Lets(w)' = Lets(w) /\ Forgets(w)' = Forgets(w) /\ ~Compacted'
    BY <1>1 DEF Restores, Keeps, StallsNone, Lets, Forgets, Replay, Compacted
  <2>2. Kept(w) /\ queue'[w] = IF Replayed[w] = None THEN queue[w] ELSE Replayed[w]
    BY <1>1 DEF IInv
  <2>3. queue'[w] = "New" => queue[w] = "New"
    BY <2>2, ReplayedIs, Statuses
  <2>4. Fresh(w)'
    BY <1>1, <2>1, <2>2, <2>3 DEF Kept, Fresh
  <2>5. Accepted(w)'
    <3>1. over[w] = "no" /\ queue'[w] # "New" => queue[w] # "New" /\ queue'[w] \in Open
      <4>1. queue[w] = "New" => queue'[w] = "New"
        BY <2>2, ReplayedIs
      <4>2. over[w] = "no" /\ queue[w] # "New" => Replayed[w] \in Open
        BY ReplayedIs
      <4> QED  BY <2>2, <4>1, <4>2, Statuses
    <3> QED  BY <1>1, <2>1, <2>2, <3>1 DEF Kept, Accepted
  <2>6. Reported(w)'
    <3>1. over[w] = "reported" => queue'[w] = queue[w]
      BY <2>2, ReplayedIs
    <3> QED  BY <1>1, <2>1, <2>2, <3>1 DEF Kept, Reported
  <2> QED  BY <2>1, <2>2, <2>4, <2>5, <2>6 DEF Kept
<1> QED  BY <1>2, <1>3 DEF IInv

-----------------------------------------------------------------------------
\* The inductive invariant.
THEOREM JournalInvariant == Spec => []IInv
<1>1. Init => IInv
  <2> SUFFICES ASSUME Init PROVE IInv
    OBVIOUS
  <2>1. snapshot \in Snapshots /\ \A w \in Items : snapshot[w] = None
    BY DEF Init, Snapshots
  <2>2. \A s \in Snapshots : Replay(s) = s
    BY AppliedNothing DEF Init, Replay
  <2>3. Typed
    <3>1. writes = 0 /\ crashes = 0 /\ phase = "running" /\ journal \in Seq(Entry)
      BY DEF Init
    <3>2. TypeOK
      BY <2>1, <3>1, JournalAssumption DEF Init, TypeOK, Snapshots
    <3> QED  BY <2>1, <2>2, <3>1, <3>2, JournalAssumption DEF Typed
  <2>4. ASSUME NEW w \in Items PROVE Kept(w)
    <3>1. queue[w] = "New" /\ over[w] = "no"
      BY DEF Init
    <3>2. Lets(w) /\ StallsNone(w)
      BY <2>2 DEF Lets, StallsNone
    <3> QED  BY <2>1, <3>1, <3>2 DEF Kept, Fresh, Accepted, Reported
  <2> QED  BY <2>3, <2>4 DEF IInv
<1>2. IInv /\ [Next]_vars => IInv'
  <2> SUFFICES ASSUME IInv, [Next]_vars PROVE IInv'
    OBVIOUS
  <2>1. CASE UNCHANGED vars
    <3>1. Typed'
      BY <2>1 DEF IInv, Typed, TypeOK, vars, Replay
    <3>2. \A w \in Items : Kept(w)'
      BY <2>1 DEF IInv, Kept, Fresh, Accepted, Reported, Compacted, Restores, Keeps, StallsNone,
                  Lets, Forgets, Replay, vars
    <3> QED  BY <3>1, <3>2 DEF IInv
  <2>2. ASSUME NEW w \in Items, HandlerStep(w) PROVE IInv'
    <3>1. "Complete" \in Final /\ "Error" \in Final
      BY DEF Final
    <3>2. CASE \E st \in {"Pending", "Assigned"} : Enqueue(w, st)
      BY <3>2, EnqueueKeeps
    <3>3. CASE Claim(w)
      BY <3>3, ClaimKeeps
    <3>4. CASE Complete(w) \/ Fail(w)
      BY <3>1, <3>4, FinishKeeps DEF Complete, Fail
    <3>5. CASE FailAndRetry(w) \/ Stall(w)
      BY <3>5, FailAndRetryKeeps, StallKeeps
    <3> QED  BY <2>2, <3>2, <3>3, <3>4, <3>5, QuietHandlersKeep DEF HandlerStep
  <2>3. CASE TruncateJournal \/ MarkJournal
    <3>1. writes \in 0 .. CompactThreshold /\ 1 < CompactThreshold /\ 1 \in 0 .. CompactThreshold
      BY JournalAssumption DEF IInv, Typed, TypeOK
    <3>2. CASE TruncateJournal
      BY <3>1, <3>2, JournalIsEmptied DEF TruncateJournal
    <3>3. CASE MarkJournal
      BY <3>1, <3>3, JournalIsEmptied DEF MarkJournal
    <3> QED  BY <2>3, <3>2, <3>3
  <2> QED  BY <2>1, <2>2, <2>3, WriteSnapshotKeeps, CrashKeeps, RestartKeeps DEF Next
<1> QED  BY <1>1, <1>2, PTL DEF Spec

\* The types.
THEOREM JournalTypes == Spec => []TypeOK
<1>1. IInv => TypeOK
  BY DEF IInv, Typed
<1> QED  BY <1>1, JournalInvariant, PTL

\* Work that was accepted and has not ended would be restored, wherever the process
\* dies, inside a compaction too.
THEOREM AcceptedWorkIsRestored == Spec => []AcceptedWorkSurvives
<1>1. IInv => AcceptedWorkSurvives
  BY ReplayedIs, Statuses DEF AcceptedWorkSurvives
<1> QED  BY <1>1, JournalInvariant, PTL

\* Work whose end was reported is never restored.
THEOREM ReportedWorkIsOver == Spec => []ReportedWorkStaysOver
<1>1. IInv => ReportedWorkStaysOver
  BY ReplayedIs DEF ReportedWorkStaysOver
<1> QED  BY <1>1, JournalInvariant, PTL
=============================================================================
