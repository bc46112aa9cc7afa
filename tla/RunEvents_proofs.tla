--------------------------- MODULE RunEvents_proofs ---------------------------
(***************************************************************************)
(* NoSilentGap and SubscriberIsUpToDate of RunEvents, and its types.       *)
(*                                                                         *)
(* Neither property is inductive: what a replay may append depends on what *)
(* is already under way to the client.  So the last event of a client and  *)
(* the frames under way to it are taken as one sequence, that has no gap   *)
(* after an event and ends in its largest one (Fed); a subscription under  *)
(* way asks for no more than that end (Asks); and the buffer is a run of   *)
(* consecutive events up to the last one (Unbroken), which is why a replay *)
(* starts right after the event it was asked for.                          *)
(***************************************************************************)
EXTENDS RunEvents, TLAPS, SequenceTheorems, FiniteSetTheorems

USE DEF theRun, theEntry

\* What a client has (l) and what is under way to it (w), as one sequence from 0.
Item(l, w, i) == IF i = 0 THEN l ELSE w[i]
End(l, w) == Item(l, w, Len(w))

\* Of a run of n events: no gap, nothing that is not yet, and the end is the largest.
Fed(l, w, n) ==
  /\ \A i \in 1 .. Len(w) : Item(l, w, i - 1) # 0 => w[i] <= Item(l, w, i - 1) + 1
  /\ \A i \in 0 .. Len(w) : Item(l, w, i) <= n
  /\ End(l, w) # 0 => \A i \in 0 .. Len(w) : Item(l, w, i) <= End(l, w)

\* A client that has l and nothing under way.
LEMMA FedNothing ==
  ASSUME NEW n \in Nat, NEW l \in Nat, l <= n
  PROVE  Fed(l, <<>>, n) /\ End(l, <<>>) = l
<1>1. Len(<<>>) = 0
  OBVIOUS
<1> QED  BY <1>1 DEF Fed, End, Item

\* The items of a client are numbers.
LEMMA ItemsAreNat ==
  ASSUME NEW l \in Nat, NEW w \in Seq(Nat), NEW i \in 0 .. Len(w)
  PROVE  Item(l, w, i) \in Nat
<1>1. i # 0 => i \in 1 .. Len(w)
  OBVIOUS
<1> QED  BY <1>1, ElementOfSeq DEF Item

\* One more frame, e: the next event or a reset.
LEMMA FedAppend ==
  ASSUME NEW n \in Nat, NEW m \in Nat, n <= m, NEW l \in Nat, NEW w \in Seq(Nat),
         Fed(l, w, n), NEW e \in Nat, e <= m,
         End(l, w) # 0 => e <= End(l, w) + 1, e = 0 \/ e >= n
  PROVE  Fed(l, Append(w, e), m) /\ End(l, Append(w, e)) = e
<1> DEFINE v == Append(w, e)
           k == Len(w)
<1>1. /\ v \in Seq(Nat) /\ Len(v) = k + 1 /\ k \in Nat /\ v[k + 1] = e
      /\ \A i \in 1 .. k : v[i] = w[i]
  OBVIOUS
<1> HIDE DEF v
<1>2. /\ \A i \in 0 .. k : Item(l, v, i) = Item(l, w, i) /\ Item(l, w, i) \in Nat
      /\ Item(l, v, k + 1) = e
  <2>1. \A i \in 0 .. k : Item(l, w, i) \in Nat
    BY ItemsAreNat
  <2>2. \A i \in 0 .. k : i = 0 \/ i \in 1 .. k
    BY <1>1
  <2> QED  BY <1>1, <2>1, <2>2 DEF Item
<1>3. End(l, v) = e /\ End(l, w) = Item(l, w, k)
  BY <1>1, <1>2 DEF End
<1>4. \A i \in 0 .. k : Item(l, w, i) <= n
  BY DEF Fed
<1>5. ASSUME NEW i \in 0 .. k + 1
      PROVE  Item(l, v, i) <= m /\ (e # 0 => Item(l, v, i) <= e)
  <2>1. CASE i = k + 1
    BY <1>1, <1>2, <2>1
  <2>2. CASE i \in 0 .. k
    BY <1>2, <1>4, <2>2
  <2> QED  BY <1>1, <2>1, <2>2
<1>6. ASSUME NEW i \in 1 .. k + 1, Item(l, v, i - 1) # 0
      PROVE  v[i] <= Item(l, v, i - 1) + 1
  <2>1. CASE i = k + 1
    BY <1>1, <1>2, <1>3, <1>6, <2>1
  <2>2. CASE i \in 1 .. k
    <3>1. i - 1 \in 0 .. k
      BY <1>1, <2>2
    <3>2. Item(l, w, i - 1) # 0 => w[i] <= Item(l, w, i - 1) + 1
      BY <2>2 DEF Fed
    <3> QED  BY <1>1, <1>2, <1>6, <2>2, <3>1, <3>2
  <2> QED  BY <1>1, <2>1, <2>2
<1> QED  BY <1>1, <1>3, <1>5, <1>6 DEF Fed, v

\* More events of the run.
LEMMA FedMore ==
  ASSUME NEW n \in Nat, NEW m \in Nat, n <= m, NEW l \in Nat, NEW w \in Seq(Nat), Fed(l, w, n)
  PROVE  Fed(l, w, m)
<1>1. \A i \in 0 .. Len(w) : Item(l, w, i) \in Nat /\ Item(l, w, i) <= n
  BY ItemsAreNat DEF Fed
<1>2. \A i \in 0 .. Len(w) : Item(l, w, i) <= m
  BY <1>1
<1> QED  BY <1>2 DEF Fed

\* A replay of the events after e, which the client had or is being sent.
LEMMA FedReplay ==
  ASSUME NEW n \in Nat, NEW l \in Nat, NEW w \in Seq(Nat), Fed(l, w, n),
         NEW e \in Nat, e <= n, End(l, w) # 0 => e <= End(l, w),
         NEW later \in Seq(Nat), Len(later) = n - e,
         \A i \in 1 .. n - e : later[i] = e + i
  PROVE  Fed(l, w \o later, n) /\ End(l, w \o later) \in {0, n}
<1> DEFINE v == w \o later
           k == Len(w)
           d == n - e
<1>1. /\ v \in Seq(Nat) /\ Len(v) = k + d /\ k \in Nat /\ d \in Nat
      /\ \A i \in 1 .. k : v[i] = w[i]
      /\ \A i \in 1 .. d : v[k + i] = e + i
  <2>1. \A i \in 1 .. Len(w) + Len(later) : v[i] = IF i <= Len(w) THEN w[i] ELSE later[i - Len(w)]
    BY ConcatProperties
  <2>2. v \in Seq(Nat) /\ Len(v) = k + d /\ k \in Nat /\ d \in Nat
    <3>1. v \in Seq(Nat) /\ Len(v) = Len(w) + Len(later)
      BY ConcatProperties
    <3>2. Len(w) \in Nat /\ Len(later) \in Nat
      BY LenProperties
    <3> QED  BY <3>1, <3>2
  <2>3. \A i \in 1 .. k : v[i] = w[i]
    BY <2>1, <2>2
  <2>4. ASSUME NEW i \in 1 .. d PROVE v[k + i] = e + i
    <3>1. k + i \in 1 .. k + d /\ ~(k + i <= k) /\ (k + i) - k = i
      BY <2>2
    <3> QED  BY <2>1, <3>1
  <2> QED  BY <2>2, <2>3, <2>4
<1> HIDE DEF v
<1>2. \A i \in 0 .. k : Item(l, v, i) = Item(l, w, i) /\ Item(l, w, i) \in Nat
                          /\ Item(l, w, i) <= n
  <2>1. \A i \in 0 .. k : Item(l, w, i) \in Nat /\ Item(l, w, i) <= n
    BY ItemsAreNat DEF Fed
  <2>2. \A i \in 0 .. k : i = 0 \/ i \in 1 .. k
    BY <1>1
  <2> QED  BY <1>1, <2>1, <2>2 DEF Item
<1>3. \A i \in 1 .. d : Item(l, v, k + i) = e + i
  <2>1. \A i \in 1 .. d : k + i # 0
    BY <1>1
  <2> QED  BY <1>1, <2>1 DEF Item
<1>4. ASSUME NEW i \in 0 .. k + d PROVE i \in 0 .. k \/ \E j \in 1 .. d : i = k + j
  <2>1. i \notin 0 .. k => i - k \in 1 .. d /\ i = k + (i - k)
    BY <1>1
  <2> QED  BY <2>1
<1>5. End(l, w) = Item(l, w, k) /\ End(l, w) \in Nat /\ End(l, w) <= n
  BY <1>1, <1>2 DEF End
<1>6. CASE d = 0
  <2>1. End(l, v) = End(l, w)
    BY <1>1, <1>2, <1>5, <1>6 DEF End
  <2>2. End(l, v) # 0 => End(l, v) = n
    BY <1>1, <1>5, <1>6, <2>1
  <2>3. \A i \in 0 .. Len(v) : Item(l, v, i) = Item(l, w, i)
    BY <1>1, <1>2, <1>6
  <2>4. \A i \in 1 .. Len(v) : v[i] = w[i] /\ i - 1 \in 0 .. Len(v)
    BY <1>1, <1>6
  <2>5. Len(v) = Len(w)
    BY <1>1, <1>6
  <2> QED  BY <2>1, <2>2, <2>3, <2>4, <2>5 DEF Fed, v
<1>7. CASE d # 0
  <2>1. End(l, v) = n
    <3>1. d \in 1 .. d /\ e + d = n
      BY <1>1, <1>7
    <3> QED  BY <1>1, <1>3, <3>1 DEF End
  <2>2. ASSUME NEW i \in 0 .. Len(v) PROVE Item(l, v, i) <= n
    <3>1. CASE i \in 0 .. k
      BY <1>2, <3>1
    <3>2. ASSUME NEW j \in 1 .. d, i = k + j PROVE Item(l, v, i) <= n
      BY <1>1, <1>3, <3>2
    <3> QED  BY <1>1, <1>4, <3>1, <3>2
  <2>3. ASSUME NEW i \in 1 .. Len(v), Item(l, v, i - 1) # 0
        PROVE  v[i] <= Item(l, v, i - 1) + 1
    <3>1. CASE i \in 1 .. k
      <4>1. i - 1 \in 0 .. k
        BY <1>1, <3>1
      <4>2. Item(l, w, i - 1) # 0 => w[i] <= Item(l, w, i - 1) + 1
        BY <3>1 DEF Fed
      <4> QED  BY <1>1, <1>2, <2>3, <3>1, <4>1, <4>2
    <3>2. CASE i = k + 1
      <4>1. 1 \in 1 .. d /\ k \in 0 .. k /\ i - 1 = k
        BY <1>1, <1>7, <3>2
      <4>2. v[i] = e + 1
        BY <1>1, <3>2, <4>1
      <4>3. Item(l, v, i - 1) = End(l, w)
        BY <1>2, <1>5, <4>1
      <4> QED  BY <1>5, <2>3, <4>2, <4>3
    <3>3. ASSUME NEW j \in 2 .. d, i = k + j
          PROVE  v[i] <= Item(l, v, i - 1) + 1
      <4>1. j \in 1 .. d /\ j - 1 \in 1 .. d /\ i - 1 = k + (j - 1)
        BY <1>1, <3>3
      <4>2. v[i] = e + j /\ Item(l, v, i - 1) = e + (j - 1)
        BY <1>1, <1>3, <3>3, <4>1
      <4> QED  BY <4>1, <4>2
    <3>4. i \in 1 .. k \/ i = k + 1 \/ \E j \in 2 .. d : i = k + j
      <4>1. i \in 1 .. k + d
        BY <1>1
      <4>2. i > k + 1 => i - k \in 2 .. d /\ i = k + (i - k)
        BY <1>1, <4>1
      <4>3. i \in 1 .. k \/ i = k + 1 \/ i > k + 1
        BY <1>1, <4>1
      <4> QED  BY <4>2, <4>3
    <3> QED  BY <3>1, <3>2, <3>3, <3>4
  <2> QED  BY <2>1, <2>2, <2>3 DEF Fed, v
<1> QED  BY <1>6, <1>7

\* The client takes a frame: an event it has not, or a reset.
LEMMA FedTake ==
  ASSUME NEW n \in Nat, NEW l \in Nat, NEW w \in Seq(Nat), w # <<>>, Fed(l, w, n)
  PROVE  LET l2 == IF Head(w) = 0 \/ Head(w) > l THEN Head(w) ELSE l
         IN  /\ l2 \in Nat /\ l2 <= n /\ Tail(w) \in Seq(Nat)
             /\ Fed(l2, Tail(w), n)
             /\ End(l2, Tail(w)) \in Nat /\ End(l2, Tail(w)) <= n
             /\ End(l, w) = 0 => End(l2, Tail(w)) = 0
             /\ End(l, w) # 0 => End(l, w) <= End(l2, Tail(w))
<1> DEFINE h == w[1]
           v == Tail(w)
           l2 == IF h = 0 \/ h > l THEN h ELSE l
           k == Len(w) - 1
<1>1. /\ Head(w) = h /\ h \in Nat /\ v \in Seq(Nat) /\ Len(v) = k /\ k \in Nat
      /\ Len(w) = k + 1 /\ \A i \in 1 .. k : v[i] = w[i + 1]
  BY HeadTailProperties, LenProperties, EmptySeq
<1> HIDE DEF v, h
<1>2. l2 \in Nat
  BY <1>1
<1>3. \A i \in 0 .. k + 1 : Item(l, w, i) \in Nat /\ Item(l, w, i) <= n
  BY <1>1, ItemsAreNat DEF Fed
<1>4. Item(l, w, 0) = l /\ Item(l, w, 1) = h /\ l <= n /\ h <= n
  <2>1. Item(l, w, 0) = l /\ Item(l, w, 1) = h
    BY DEF Item, h
  <2>2. 0 \in 0 .. k + 1 /\ 1 \in 0 .. k + 1
    BY <1>1
  <2> QED  BY <1>3, <2>1, <2>2
<1>5. \A i \in 1 .. k : Item(l2, v, i) = Item(l, w, i + 1)
  <2>1. \A i \in 1 .. k : i # 0 /\ i + 1 # 0
    OBVIOUS
  <2> QED  BY <1>1, <2>1 DEF Item
<1>6. Item(l2, v, 0) = l2 /\ l2 <= n
  BY <1>1, <1>4 DEF Item
<1>7. End(l, w) = Item(l, w, k + 1) /\ End(l, w) \in Nat
  <2>1. k + 1 \in 0 .. k + 1
    BY <1>1
  <2> QED  BY <1>1, <1>3, <2>1 DEF End
<1>8. End(l, w) # 0 => \A i \in 0 .. k + 1 : Item(l, w, i) <= End(l, w)
  BY <1>1 DEF Fed
<1>9. CASE k = 0
  <2>1. v = <<>> /\ End(l2, v) = l2 /\ End(l, w) = h
    BY <1>1, <1>4, <1>6, <1>7, <1>9, EmptySeq DEF End
  <2>2. Fed(l2, v, n)
    BY <1>2, <1>6, <2>1, FedNothing
  <2> QED  BY <1>1, <1>2, <1>6, <2>1, <2>2 DEF v
<1>10. CASE k # 0
  <2>1. k \in 1 .. k
    BY <1>1, <1>10
  <2>2. End(l2, v) = End(l, w)
    BY <1>1, <1>5, <1>7, <2>1 DEF End
  <2> HIDE DEF l2
  <2>3. \A i \in 0 .. k : i = 0 \/ (i \in 1 .. k /\ i + 1 \in 0 .. k + 1)
    BY <1>1
  <2>4. \A i \in 0 .. k : Item(l2, v, i) <= n
    BY <1>3, <1>5, <1>6, <2>3
  <2>5. End(l, w) # 0 => l2 <= End(l, w)
    <3>1. 0 \in 0 .. k + 1 /\ 1 \in 0 .. k + 1
      BY <1>1
    <3> QED  BY <1>4, <1>8, <3>1 DEF l2
  <2>6. ASSUME End(l, w) # 0, NEW i \in 0 .. k PROVE Item(l2, v, i) <= End(l, w)
    BY <1>5, <1>6, <1>8, <2>3, <2>5, <2>6
  <2>7. ASSUME NEW i \in 1 .. k, Item(l2, v, i - 1) # 0
        PROVE  v[i] <= Item(l2, v, i - 1) + 1
    <3>1. i + 1 \in 1 .. Len(w) /\ (i + 1) - 1 = i
      BY <1>1
    <3>2. Item(l, w, i) # 0 => w[i + 1] <= Item(l, w, i) + 1
      BY <3>1 DEF Fed
    <3>3. v[i] = w[i + 1] /\ w[i + 1] \in Nat
      BY <1>1, <3>1, ElementOfSeq
    <3>4. CASE i = 1
      <4>1. Item(l2, v, i - 1) = l2 /\ Item(l, w, i) = h
        BY <1>4, <1>6, <3>4
      <4>2. v[i] \in Nat /\ h \in Nat /\ l2 # 0
        BY <1>1, <2>7, <3>3, <4>1
      <4>3. h # 0 /\ h <= l2
        BY <4>2 DEF l2
      <4>4. v[i] <= h + 1
        BY <3>2, <3>3, <4>1, <4>3
      <4>5. v[i] <= l2 + 1
        BY <1>2, <4>2, <4>3, <4>4
      <4> QED  BY <4>1, <4>5
    <3>5. CASE i # 1
      <4>1. i - 1 \in 1 .. k /\ (i - 1) + 1 = i
        BY <3>5
      <4>2. Item(l2, v, i - 1) = Item(l, w, i)
        BY <1>5, <4>1
      <4> QED  BY <2>7, <3>2, <3>3, <4>2
    <3> QED  BY <3>4, <3>5
  <2>8. Fed(l2, v, n)
    BY <1>1, <2>2, <2>4, <2>6, <2>7 DEF Fed
  <2>9. End(l, w) <= n
    BY <1>1, <1>3, <1>7
  <2> QED  BY <1>1, <1>2, <1>6, <1>7, <2>2, <2>8, <2>9 DEF v, l2
<1> QED  BY <1>9, <1>10

-----------------------------------------------------------------------------
\* What the hub knows of a client that has l, with w under way to it: a subscriber is
\* not behind, and a subscription under way (a) asks from no later than the end of w.
Fine(l, w, n, a, subscribed, connected) ==
  /\ Fed(l, w, n)
  /\ subscribed => End(l, w) \in {0, n}
  /\ a \in 1 .. MaxEvents => a <= n /\ (End(l, w) # 0 => a <= End(l, w))
  /\ a = 0 => w = <<>> /\ l = 0 /\ ~subscribed
  /\ ~connected => w = <<>> /\ a = None /\ ~subscribed

ClientsFine == \A c \in Clients :
  Fine(last[c], wire[c], emitted, asked[c], c \in subscribers, c \in open)

\* The buffer is a run of consecutive events that ends with the last one.
Unbroken(b, n) == \A i \in 1 .. Len(b) : b[i] + Len(b) = n + i

IInv == TypeOK /\ Unbroken(Kept, emitted) /\ ClientsFine

\* The types, as numbers.
LEMMA TypesAsNumbers ==
  ASSUME TypeOK
  PROVE  /\ emitted \in Nat /\ \A c \in Clients : last[c] \in Nat /\ wire[c] \in Seq(Nat)
         /\ Kept \in Seq(EventIDs) /\ Kept \in Seq(Nat) /\ Len(Kept) <= Cap
<1>1. EventIDs \subseteq Nat /\ EventIDs \cup {Reset} \subseteq Nat
  BY BoundsAssumption DEF EventIDs, Reset
<1>2. emitted \in Nat /\ \A c \in Clients : last[c] \in Nat
  BY BoundsAssumption DEF TypeOK
<1>3. ASSUME NEW c \in Clients PROVE wire[c] \in Seq(Nat)
  <2> DEFINE S == EventIDs \cup {Reset}
  <2>1. wire[c] \in Seq(S)
    BY DEF TypeOK
  <2> HIDE DEF S
  <2>2. S \subseteq Nat
    BY <1>1 DEF S
  <2> QED  BY <2>1, <2>2, SeqMonotonic
<1>4. Kept \in Seq(EventIDs) /\ Len(Kept) <= Cap
  <2>1. <<>> \in Seq(EventIDs) /\ Len(<<>>) = 0
    BY EmptySeq
  <2> QED  BY <2>1, BoundsAssumption DEF TypeOK, Kept
<1>5. Kept \in Seq(Nat)
  BY <1>1, <1>4, SeqMonotonic
<1> QED  BY <1>2, <1>3, <1>4, <1>5

\* The newest events of an unbroken buffer and the next one are unbroken.
LEMMA TrimmedIsUnbroken ==
  ASSUME NEW n \in Nat, n + 1 \in EventIDs, NEW b \in Seq(EventIDs), Len(b) <= Cap,
         Unbroken(b, n)
  PROVE  LET t == Trimmed(Append(b, n + 1))
         IN  /\ t \in Seq(EventIDs) /\ Len(t) \in 1 .. Cap
             /\ Unbroken(t, n + 1)
<1> DEFINE a == Append(b, n + 1)
           t == Trimmed(a)
           k == Len(b)
<1>1. /\ a \in Seq(EventIDs) /\ Len(a) = k + 1 /\ k \in Nat /\ a[k + 1] = n + 1
      /\ \A i \in 1 .. k : a[i] = b[i]
  OBVIOUS
<1>0. k = Len(b)
  OBVIOUS
<1>2. \A i \in 1 .. k + 1 : a[i] \in EventIDs /\ a[i] \in Nat
  BY <1>1, ElementOfSeq, BoundsAssumption DEF EventIDs
<1>3. Cap \in Nat \ {0}
  BY BoundsAssumption
<1> HIDE DEF a, k
<1>4. ASSUME NEW i \in 1 .. k + 1 PROVE a[i] + (k + 1) = (n + 1) + i
  <2>1. CASE i = k + 1
    BY <1>1, <2>1
  <2>2. CASE i \in 1 .. k
    <3>1. b[i] + k = n + i
      BY <1>0, <2>2 DEF Unbroken
    <3>2. a[i] + k = n + i /\ a[i] \in Nat /\ i \in Nat
      BY <1>1, <1>2, <2>2, <3>1
    <3>3. \A x \in Nat : x + k = n + i => x + (k + 1) = (n + 1) + i
      BY <1>1, <3>2
    <3> QED  BY <3>2, <3>3
  <2> QED  BY <1>1, <2>1, <2>2
<1>5. CASE k + 1 <= Cap
  <2>1. t = a
    BY <1>1, <1>3, <1>5 DEF Trimmed
  <2>2. Len(a) \in 1 .. Cap /\ Unbroken(a, n + 1)
    BY <1>1, <1>3, <1>4, <1>5 DEF Unbroken
  <2> QED  BY <1>1, <2>1, <2>2 DEF a
<1>6. CASE ~(k + 1 <= Cap)
  <2>1. k = Cap
    BY <1>0, <1>1, <1>3, <1>6
  <2>2. t = SubSeq(a, 2, k + 1)
    <3>1. (k + 1) - Cap + 1 = 2
      BY <1>3, <2>1
    <3> QED  BY <1>1, <1>3, <1>6, <3>1 DEF Trimmed
  <2>3. /\ t \in Seq(EventIDs) /\ Len(t) = k
        /\ \A i \in 1 .. k : t[i] = a[i + 1]
    <3>1. \A i \in 2 .. k + 1 : a[i] \in EventIDs
      BY <1>2
    <3>2. /\ SubSeq(a, 2, k + 1) \in Seq(EventIDs)
          /\ Len(SubSeq(a, 2, k + 1)) = IF 2 <= k + 1 THEN (k + 1) - 2 + 1 ELSE 0
          /\ \A i \in 1 .. (k + 1) - 2 + 1 : SubSeq(a, 2, k + 1)[i] = a[2 + i - 1]
      BY <1>1, <3>1, SubSeqProperties
    <3>3. (k + 1) - 2 + 1 = k /\ 2 <= k + 1 /\ \A i \in 1 .. k : 2 + i - 1 = i + 1
      BY <1>1, <1>3, <2>1
    <3> QED  BY <2>2, <3>2, <3>3
  <2> HIDE DEF t
  <2>4. ASSUME NEW i \in 1 .. k PROVE t[i] + k = (n + 1) + i
    <3>1. i + 1 \in 1 .. k + 1
      BY <1>1
    <3>2. a[i + 1] + (k + 1) = (n + 1) + (i + 1) /\ a[i + 1] \in Nat
      BY <1>2, <1>4, <3>1
    <3>3. t[i] \in Nat /\ t[i] + (k + 1) = (n + 1) + (i + 1) /\ i \in Nat
      BY <2>3, <3>2
    <3>4. \A x \in Nat : x + (k + 1) = (n + 1) + (i + 1) => x + k = (n + 1) + i
      BY <1>1, <3>3
    <3> QED  BY <3>3, <3>4
  <2>5. Len(t) \in 1 .. Cap /\ Unbroken(t, n + 1)
    BY <1>3, <2>1, <2>3, <2>4 DEF Unbroken
  <2> QED  BY <2>3, <2>5 DEF t, a
<1> QED  BY <1>5, <1>6

\* An event reaches every subscriber and the buffer.
LEMMA EmitKeeps ==
  ASSUME IInv, Emit
  PROVE  /\ emitted' \in 0 .. MaxEvents /\ buffer' \in Seq(EventIDs)
         /\ Len(buffer') \in 1 .. Cap /\ Unbroken(Kept', emitted')
         /\ wire' \in [Clients -> Seq(EventIDs \cup {Reset})]
         /\ \A c \in Clients :
              Fine(last[c], wire'[c], emitted', asked[c], c \in subscribers, c \in open)
<1> USE DEF IInv
<1> DEFINE n == emitted
<1>1. /\ n \in Nat /\ emitted' = n + 1 /\ n + 1 \in 0 .. MaxEvents /\ n + 1 \in EventIDs
      /\ n + 1 \in Nat
  BY TypesAsNumbers, BoundsAssumption DEF Emit, EventIDs
<1>2. buffer' = Trimmed(Append(Kept, n + 1))
  BY <1>1 DEF Emit
<1>3. \A c \in Clients : wire'[c] = IF c \in subscribers THEN Append(wire[c], n + 1) ELSE wire[c]
  BY <1>1 DEF Emit, Broadcast
<1>4. wire' \in [Clients -> Seq(EventIDs \cup {Reset})]
  <2> DEFINE S == EventIDs \cup {Reset}
  <2>1. n + 1 \in S /\ wire \in [Clients -> Seq(S)]
    BY <1>1 DEF TypeOK
  <2>2. wire' = [c \in Clients |-> IF c \in subscribers THEN Append(wire[c], n + 1) ELSE wire[c]]
    BY <1>1 DEF Emit, Broadcast
  <2> HIDE DEF S
  <2>3. wire' \in [Clients -> Seq(S)]
    BY <2>1, <2>2
  <2> QED  BY <2>3 DEF S
<1> HIDE DEF n
<1>5. buffer' \in Seq(EventIDs) /\ Len(buffer') \in 1 .. Cap /\ Unbroken(buffer', n + 1)
  BY <1>1, <1>2, TypesAsNumbers, TrimmedIsUnbroken DEF n
<1>6. Unbroken(Kept', emitted')
  <2>1. Unbroken(<<>>, n + 1)
    BY DEF Unbroken
  <2> QED  BY <1>1, <1>5, <2>1 DEF Kept
<1>7. ASSUME NEW c \in Clients
      PROVE  Fine(last[c], wire'[c], emitted', asked[c], c \in subscribers, c \in open)
  <2> DEFINE l == last[c]
             w == wire[c]
             a == asked[c]
  <2>1. l \in Nat /\ w \in Seq(Nat) /\ Fine(l, w, n, a, c \in subscribers, c \in open)
    BY TypesAsNumbers DEF ClientsFine, n
  <2> HIDE DEF l, w, a
  <2>2. CASE c \in subscribers
    <3>1. Fed(l, w, n) /\ End(l, w) \in {0, n} /\ a # 0 /\ c \in open
      BY <2>1, <2>2 DEF Fine
    <3>2. Fed(l, Append(w, n + 1), n + 1) /\ End(l, Append(w, n + 1)) = n + 1
      BY <1>1, <2>1, <3>1, FedAppend
    <3>3. a \in 1 .. MaxEvents => a <= n + 1
      BY <1>1, <2>1 DEF Fine
    <3>4. Fine(l, Append(w, n + 1), n + 1, a, c \in subscribers, c \in open)
      BY <3>1, <3>2, <3>3 DEF Fine
    <3> QED  BY <1>1, <1>3, <2>2, <3>4 DEF l, w, a
  <2>3. CASE c \notin subscribers
    <3>1. Fed(l, w, n + 1)
      BY <1>1, <2>1, FedMore DEF Fine
    <3>2. a \in 1 .. MaxEvents => a <= n + 1 /\ (End(l, w) # 0 => a <= End(l, w))
      BY <1>1, <2>1 DEF Fine
    <3>3. Fine(l, w, n + 1, a, c \in subscribers, c \in open)
      BY <2>1, <2>3, <3>1, <3>2 DEF Fine
    <3> QED  BY <1>1, <1>3, <2>3, <3>3 DEF l, w, a
  <2> QED  BY <2>2, <2>3
<1> QED  BY <1>1, <1>4, <1>5, <1>6, <1>7

-----------------------------------------------------------------------------
\* What a subscriber that names a buffered event is sent: all the events after it.
LEMMA ReplayFollows ==
  ASSUME IInv, NEW e \in EventIDs, Contains(Kept, e)
  PROVE  LET m == Cardinality(Replay(e))
             later == [i \in 1 .. m |-> Kept[Len(Kept) - m + i]]
         IN  /\ e <= emitted /\ m = emitted - e /\ later \in Seq(EventIDs)
             /\ \A i \in 1 .. emitted - e : later[i] = e + i
<1> USE DEF IInv
<1> DEFINE K == Kept
           k == Len(K)
           n == emitted
           m == Cardinality(Replay(e))
           later == [i \in 1 .. m |-> Kept[Len(Kept) - m + i]]
<1>1. /\ n \in Nat /\ k \in Nat /\ e \in Nat
      /\ \A i \in 1 .. k : K[i] \in EventIDs /\ K[i] \in Nat
  <2>1. n \in Nat /\ K \in Seq(EventIDs) /\ K \in Seq(Nat)
    BY TypesAsNumbers
  <2>2. k \in Nat
    BY <2>1, LenProperties
  <2> QED  BY <2>1, <2>2, ElementOfSeq, BoundsAssumption DEF EventIDs
<1>2. \A i \in 1 .. k : K[i] + k = n + i
  BY DEF Unbroken
<1>3. PICK j \in 1 .. k : K[j] = e
  BY DEF Contains
<1>4. Replay(e) = {i \in 1 .. k : K[i] > e}
  BY DEF Replay
<1> HIDE DEF K, k, n, m
<1>5. e + k = n + j
  BY <1>2, <1>3
<1>6. Replay(e) = (j + 1) .. k
  <2>1. ASSUME NEW i \in 1 .. k PROVE K[i] > e <=> i > j
    <3>1. K[i] + k = n + i /\ K[i] \in Nat /\ i \in Nat /\ j \in Nat
      BY <1>1, <1>2
    <3>2. \A x \in Nat : x + k = n + i => (x > e <=> i > j)
      BY <1>1, <1>5, <3>1
    <3> QED  BY <3>1, <3>2
  <2>2. Replay(e) = {i \in 1 .. k : i > j}
    BY <1>4, <2>1
  <2> QED  BY <1>1, <2>2
<1>7. m = k - j
  <2>1. Cardinality((j + 1) .. k) = IF j + 1 > k THEN 0 ELSE k - (j + 1) + 1
    <3>1. j + 1 \in Int /\ k \in Int
      BY <1>1
    <3> QED  BY <3>1, FS_Interval
  <2> QED  BY <1>1, <1>6, <2>1 DEF m
<1>8. e <= n /\ m = n - e /\ m \in Nat
  BY <1>1, <1>5, <1>7
<1>9. ASSUME NEW i \in 1 .. m PROVE k - m + i \in 1 .. k /\ K[k - m + i] = e + i
  <2>1. k - m + i = j + i /\ j + i \in 1 .. k
    BY <1>1, <1>7, <1>8
  <2>2. K[j + i] + k = n + (j + i) /\ K[j + i] \in Nat /\ i \in Nat /\ j \in Nat
    BY <1>1, <1>2, <2>1
  <2>3. \A x \in Nat : x + k = n + (j + i) => x = e + i
    BY <1>1, <1>5, <2>2
  <2> QED  BY <2>1, <2>2, <2>3
<1>10. \A i \in 1 .. m : later[i] = K[k - m + i]
  BY DEF K, k
<1>11. later \in Seq(EventIDs)
  <2>1. \A i \in 1 .. m : K[k - m + i] \in EventIDs
    BY <1>1, <1>9
  <2>2. later = [i \in 1 .. m |-> K[k - m + i]]
    BY DEF K, k
  <2> QED  BY <1>8, <2>1, <2>2, IsASeq
<1>12. \A i \in 1 .. n - e : later[i] = e + i
  BY <1>8, <1>9, <1>10
<1> QED  BY <1>8, <1>11, <1>12 DEF n, m

\* A step that is one client's: the others are as they were.
LEMMA OneClient ==
  ASSUME IInv, NEW c \in Clients, emitted' = emitted,
         Fine(last'[c], wire'[c], emitted, asked'[c], c \in subscribers', c \in open'),
         \A d \in Clients \ {c} :
           /\ last'[d] = last[d] /\ wire'[d] = wire[d] /\ asked'[d] = asked[d]
           /\ (d \in subscribers') = (d \in subscribers)
           /\ (d \in open') = (d \in open)
  PROVE  ClientsFine'
<1>1. ASSUME NEW d \in Clients \ {c}
      PROVE  Fine(last'[d], wire'[d], emitted', asked'[d], d \in subscribers', d \in open')
  <2>1. Fine(last[d], wire[d], emitted, asked[d], d \in subscribers, d \in open)
    BY DEF IInv, ClientsFine
  <2>2. d \in Clients
    OBVIOUS
  <2> QED  BY <2>1, <2>2
<1> QED  BY <1>1 DEF ClientsFine

\* The names of the two frames are no event.
LEMMA NamesAreNoEvents ==
  \A a \in {None, Unsubscribe} : a # 0 /\ a \notin 1 .. MaxEvents
BY NamesAssumption, BoundsAssumption

\* A client with nothing asked and an open socket.
LEMMA QuietIsFine ==
  ASSUME NEW l, NEW w, NEW n, NEW s \in BOOLEAN, Fed(l, w, n),
         s => End(l, w) \in {0, n}, NEW a \in {None, Unsubscribe}
  PROVE  Fine(l, w, n, a, s, TRUE)
BY NamesAreNoEvents DEF Fine

\* What holds of a client before a step.
LEMMA ClientIsFine ==
  ASSUME IInv, NEW c \in Clients
  PROVE  /\ last[c] \in Nat /\ wire[c] \in Seq(Nat) /\ emitted \in Nat
         /\ last[c] <= emitted /\ Fed(last[c], wire[c], emitted)
         /\ End(last[c], wire[c]) \in Nat
         /\ End(last[c], wire[c]) # 0 => last[c] <= End(last[c], wire[c])
         /\ Fine(last[c], wire[c], emitted, asked[c], c \in subscribers, c \in open)
<1> DEFINE l == last[c]
           w == wire[c]
<1>1. l \in Nat /\ w \in Seq(Nat) /\ emitted \in Nat
  BY TypesAsNumbers DEF IInv
<1>2. Fine(l, w, emitted, asked[c], c \in subscribers, c \in open)
  BY DEF IInv, ClientsFine
<1> HIDE DEF l, w
<1>3. 0 \in 0 .. Len(w) /\ Len(w) \in 0 .. Len(w) /\ Item(l, w, 0) = l
  BY <1>1 DEF Item
<1>4. Fed(l, w, emitted)
  BY <1>2 DEF Fine
<1>5. l <= emitted /\ End(l, w) \in Nat /\ (End(l, w) # 0 => l <= End(l, w))
  BY <1>1, <1>3, <1>4, ItemsAreNat DEF Fed, End
<1> QED  BY <1>1, <1>2, <1>4, <1>5 DEF l, w

\* The invariant holds at first.
LEMMA InitHolds == Init => IInv
<1> SUFFICES ASSUME Init PROVE IInv
  OBVIOUS
<1>1. Kept = <<>> /\ Len(<<>>) = 0 /\ \A S : <<>> \in Seq(S)
  BY EmptySeq DEF Init, Kept
<1>2. TypeOK
  <2> DEFINE S == EventIDs \cup {Reset}
  <2>1. wire \in [Clients -> Seq(S)]
    <3> HIDE DEF S
    <3> QED  BY <1>1 DEF Init
  <2>2. last \in [Clients -> 0 .. MaxEvents] /\ asked \in [Clients -> {None, Unsubscribe} \cup (0 .. MaxEvents)]
    BY BoundsAssumption DEF Init
  <2>3. DOMAIN tries = Clients /\ \A c \in Clients : tries[c] \in 0 .. MaxTries[c]
    <3>1. ASSUME NEW c \in Clients PROVE MaxTries[c] \in Nat /\ tries[c] = 0
      BY BoundsAssumption DEF Init
    <3> QED  BY <3>1 DEF Init
  <2>4. /\ status = "Active" /\ emitted \in 0 .. MaxEvents /\ loops \in 0 .. MaxLoops
        /\ buffer = None /\ timer \in BOOLEAN /\ orphaned \in BOOLEAN
        /\ subscribers = {} /\ open = {} /\ restarts \in 0 .. MaxRestarts
    <3>1. emitted = 0 /\ loops = 1 /\ restarts = 0 /\ timer = FALSE /\ orphaned = FALSE
      BY DEF Init
    <3>2. 0 \in 0 .. MaxEvents /\ 1 \in 0 .. MaxLoops /\ 0 \in 0 .. MaxRestarts
      BY BoundsAssumption
    <3> QED  BY <3>1, <3>2 DEF Init
  <2> QED  BY <2>1, <2>2, <2>3, <2>4 DEF TypeOK
<1>3. Unbroken(Kept, emitted)
  BY <1>1 DEF Unbroken
<1>4. ASSUME NEW c \in Clients
      PROVE  Fine(last[c], wire[c], emitted, asked[c], c \in subscribers, c \in open)
  <2>1. /\ last[c] = 0 /\ wire[c] = <<>> /\ emitted = 0 /\ asked[c] = None
        /\ c \notin subscribers /\ c \notin open
    BY DEF Init
  <2>2. Fed(0, <<>>, 0)
    BY FedNothing
  <2> QED  BY <2>1, <2>2, NamesAreNoEvents DEF Fine
<1> QED  BY <1>2, <1>3, <1>4 DEF IInv, ClientsFine

\* The steps of the run and of the process.
LEMMA TaskEventKeeps ==
  ASSUME IInv, TaskEvent PROVE IInv'
<1>1. Emit
  BY DEF TaskEvent
<1>2. /\ emitted' \in 0 .. MaxEvents /\ buffer' \in Seq(EventIDs)
      /\ Len(buffer') \in 1 .. Cap /\ Unbroken(Kept', emitted')
      /\ wire' \in [Clients -> Seq(EventIDs \cup {Reset})]
      /\ \A c \in Clients :
           Fine(last[c], wire'[c], emitted', asked[c], c \in subscribers, c \in open)
  BY <1>1, EmitKeeps
<1>3. TypeOK'
  BY <1>2 DEF IInv, TypeOK, TaskEvent
<1>4. ClientsFine'
  BY <1>2 DEF ClientsFine, TaskEvent
<1> QED  BY <1>2, <1>3, <1>4 DEF IInv

\* An end or a pause is sent, drops the subscribers and arms the timer.
LEMMA ExecutionCompleteKeeps ==
  ASSUME IInv, ExecutionComplete PROVE IInv'
<1>1. Emit
  BY DEF ExecutionComplete
<1>2. /\ emitted' \in 0 .. MaxEvents /\ buffer' \in Seq(EventIDs)
      /\ Len(buffer') \in 1 .. Cap /\ Unbroken(Kept', emitted')
      /\ wire' \in [Clients -> Seq(EventIDs \cup {Reset})]
      /\ \A c \in Clients :
           Fine(last[c], wire'[c], emitted', asked[c], c \in subscribers, c \in open)
  BY <1>1, EmitKeeps
<1>3. TypeOK'
  <2>1. loops' \in 0 .. MaxLoops
    <3>1. loops \in Nat /\ loops \in 0 .. MaxLoops /\ MaxLoops \in Nat
      BY BoundsAssumption DEF IInv, TypeOK
    <3>2. loops' = loops \/ (loops > 0 /\ loops' = loops - 1)
      BY DEF ExecutionComplete
    <3> QED  BY <3>1, <3>2
  <2> QED  BY <1>2, <2>1 DEF IInv, TypeOK, ExecutionComplete, ScheduleBufferCleanup
<1>4. ASSUME NEW c \in Clients
      PROVE  Fine(last[c], wire'[c], emitted', asked[c], FALSE, c \in open)
  BY <1>2 DEF Fine
<1>5. ClientsFine'
  <2>1. ASSUME NEW c \in Clients
        PROVE  Fine(last'[c], wire'[c], emitted', asked'[c], c \in subscribers', c \in open')
    <3>1. /\ last'[c] = last[c] /\ asked'[c] = asked[c] /\ (c \in subscribers') = FALSE
          /\ (c \in open') = (c \in open)
      BY DEF ExecutionComplete
    <3> QED  BY <1>4, <3>1
  <2> QED  BY <2>1 DEF ClientsFine
<1> QED  BY <1>2, <1>3, <1>5 DEF IInv

\* A run is abandoned, retried or resumed.
LEMMA RunKeeps ==
  ASSUME IInv, Abandon \/ Retry \/ Resume PROVE IInv'
<1>1. loops' \in 0 .. MaxLoops
  <2>1. loops \in Nat /\ loops \in 0 .. MaxLoops /\ MaxLoops \in Nat
    BY BoundsAssumption DEF IInv, TypeOK
  <2>2. loops' = loops \/ (loops < MaxLoops /\ loops' = loops + 1)
    BY DEF Abandon, Retry, Resume
  <2> QED  BY <2>1, <2>2
<1>2. TypeOK'
  BY <1>1 DEF IInv, TypeOK, Abandon, Retry, Resume
<1>3. Kept' = Kept /\ emitted' = emitted
  BY DEF Kept, Abandon, Retry, Resume
<1>4. ClientsFine'
  BY DEF IInv, ClientsFine, Abandon, Retry, Resume
<1> QED  BY <1>2, <1>3, <1>4 DEF IInv

\* The timer drops the buffer.
LEMMA DropBufferKeeps ==
  ASSUME IInv, DropBuffer PROVE IInv'
<1>1. TypeOK'
  BY DEF IInv, TypeOK, DropBuffer
<1>2. Kept' = <<>> /\ Len(<<>>) = 0
  BY EmptySeq DEF Kept, DropBuffer
<1>3. Unbroken(Kept', emitted')
  BY <1>2 DEF Unbroken
<1>4. ClientsFine'
  BY DEF IInv, ClientsFine, DropBuffer
<1> QED  BY <1>1, <1>3, <1>4 DEF IInv

\* A client without a socket.
LEMMA GoneIsFine ==
  ASSUME IInv, NEW c \in Clients
  PROVE  Fine(last[c], <<>>, emitted, None, FALSE, FALSE)
<1>1. last[c] \in Nat /\ emitted \in Nat /\ last[c] <= emitted
  BY ClientIsFine
<1>2. Fed(last[c], <<>>, emitted)
  BY <1>1, FedNothing
<1> QED  BY <1>2, NamesAreNoEvents DEF Fine

\* A restart drops buffers, sockets and frames.
LEMMA RestartKeeps ==
  ASSUME IInv, Restart PROVE IInv'
<1>1. TypeOK'
  <2> DEFINE S == EventIDs \cup {Reset}
  <2>1. wire' \in [Clients -> Seq(S)]
    <3> HIDE DEF S
    <3>1. <<>> \in Seq(S)
      BY EmptySeq
    <3> QED  BY <3>1 DEF Restart
  <2>2. restarts' \in 0 .. MaxRestarts /\ loops' \in 0 .. MaxLoops
    BY BoundsAssumption DEF IInv, TypeOK, Restart
  <2>3. status' \in {"Active", "Paused", "Over"}
    BY DEF IInv, TypeOK, Restart
  <2> QED  BY <2>1, <2>2, <2>3 DEF IInv, TypeOK, Restart
<1>2. Kept' = <<>> /\ Len(<<>>) = 0
  BY EmptySeq DEF Kept, Restart
<1>3. Unbroken(Kept', emitted')
  BY <1>2 DEF Unbroken
<1>4. ClientsFine'
  <2>1. ASSUME NEW c \in Clients
        PROVE  Fine(last'[c], wire'[c], emitted', asked'[c], c \in subscribers', c \in open')
    <3>1. /\ last'[c] = last[c] /\ wire'[c] = <<>> /\ emitted' = emitted /\ asked'[c] = None
          /\ (c \in subscribers') = FALSE /\ (c \in open') = FALSE
      BY DEF Restart
    <3> QED  BY <3>1, GoneIsFine
  <2> QED  BY <2>1 DEF ClientsFine
<1> QED  BY <1>1, <1>3, <1>4 DEF IInv

-----------------------------------------------------------------------------
\* The steps of one client.
LEMMA CloseKeeps ==
  ASSUME IInv, NEW c \in Clients, Close(c) PROVE IInv'
<1>1. TypeOK'
  <2> DEFINE S == EventIDs \cup {Reset}
  <2>1. wire' \in [Clients -> Seq(S)]
    <3>1. wire \in [Clients -> Seq(S)] /\ wire' = [wire EXCEPT ![c] = <<>>]
      BY DEF IInv, TypeOK, Close
    <3> HIDE DEF S
    <3>2. <<>> \in Seq(S)
      BY EmptySeq
    <3> QED  BY <3>1, <3>2
  <2> QED  BY <2>1 DEF IInv, TypeOK, Close
<1>2. Kept' = Kept /\ emitted' = emitted
  BY DEF Kept, Close
<1>3. /\ last'[c] = last[c] /\ wire'[c] = <<>> /\ asked'[c] = None
      /\ (c \in subscribers') = FALSE /\ (c \in open') = FALSE
  BY DEF IInv, TypeOK, Close
<1>4. Fine(last'[c], wire'[c], emitted, asked'[c], c \in subscribers', c \in open')
  BY <1>3, GoneIsFine
<1>5. \A d \in Clients \ {c} :
        /\ last'[d] = last[d] /\ wire'[d] = wire[d] /\ asked'[d] = asked[d]
        /\ (d \in subscribers') = (d \in subscribers)
        /\ (d \in open') = (d \in open)
  BY DEF IInv, TypeOK, Close
<1>6. ClientsFine'
  BY <1>2, <1>4, <1>5, OneClient
<1> QED  BY <1>1, <1>2, <1>6 DEF IInv

\* A client connects.
LEMMA ConnectKeeps ==
  ASSUME IInv, NEW c \in Clients, Connect(c) PROVE IInv'
<1>1. TypeOK'
  <2>1. \A d \in Clients : tries'[d] \in 0 .. MaxTries[d]
    <3>1. \A d \in Clients : tries[d] \in 0 .. MaxTries[d] /\ MaxTries[d] \in Nat
      BY BoundsAssumption DEF IInv, TypeOK
    <3> QED  BY <3>1 DEF IInv, TypeOK, Connect
  <2> QED  BY <2>1 DEF IInv, TypeOK, Connect
<1>2. Kept' = Kept /\ emitted' = emitted
  BY DEF Kept, Connect
<1>3. /\ last'[c] = last[c] /\ wire'[c] = wire[c] /\ asked'[c] = last[c]
      /\ (c \in subscribers') = (c \in subscribers) /\ (c \in open') = TRUE /\ c \notin open
  BY DEF IInv, TypeOK, Connect
<1>4. wire[c] = <<>> /\ c \notin subscribers
  BY <1>3, ClientIsFine DEF Fine
<1>5. last[c] \in Nat /\ emitted \in Nat /\ last[c] <= emitted
  BY ClientIsFine
<1>6. Fed(last[c], <<>>, emitted) /\ End(last[c], <<>>) = last[c]
  BY <1>5, FedNothing
<1>7. last[c] # None
  BY <1>5, NamesAssumption
<1>8. Fine(last[c], <<>>, emitted, last[c], FALSE, TRUE)
  BY <1>5, <1>6, <1>7 DEF Fine
<1>9. Fine(last'[c], wire'[c], emitted, asked'[c], c \in subscribers', c \in open')
  <2>1. (c \in subscribers') = FALSE
    BY <1>3, <1>4
  <2> QED  BY <1>3, <1>4, <1>8, <2>1
<1>10. \A d \in Clients \ {c} :
        /\ last'[d] = last[d] /\ wire'[d] = wire[d] /\ asked'[d] = asked[d]
        /\ (d \in subscribers') = (d \in subscribers)
        /\ (d \in open') = (d \in open)
  BY DEF IInv, TypeOK, Connect
<1>11. ClientsFine'
  BY <1>2, <1>9, <1>10, OneClient
<1> QED  BY <1>1, <1>2, <1>11 DEF IInv

\* A client subscribes anew with its last event, or unsubscribes.
LEMMA AskKeeps ==
  ASSUME IInv, NEW c \in Clients, Ask(c) PROVE IInv'
<1>1. PICK a \in {Unsubscribe} \cup ({last[c]} \ {0}) : asked' = [asked EXCEPT ![c] = a]
  BY DEF Ask
<1>2. TypeOK'
  <2>1. \A d \in Clients : tries'[d] \in 0 .. MaxTries[d]
    <3>1. \A d \in Clients : tries[d] \in 0 .. MaxTries[d] /\ MaxTries[d] \in Nat
      BY BoundsAssumption DEF IInv, TypeOK
    <3> QED  BY <3>1 DEF IInv, TypeOK, Ask
  <2>2. asked' \in [Clients -> {None, Unsubscribe} \cup (0 .. MaxEvents)]
    BY <1>1 DEF IInv, TypeOK
  <2> QED  BY <2>1, <2>2 DEF IInv, TypeOK, Ask
<1>3. Kept' = Kept /\ emitted' = emitted
  BY DEF Kept, Ask
<1>4. /\ last'[c] = last[c] /\ wire'[c] = wire[c] /\ asked'[c] = a
      /\ (c \in subscribers') = (c \in subscribers) /\ (c \in open') = TRUE /\ c \in open
  BY <1>1 DEF IInv, TypeOK, Ask
<1>5. /\ last[c] \in Nat /\ last[c] <= emitted
      /\ End(last[c], wire[c]) # 0 => last[c] <= End(last[c], wire[c])
      /\ Fine(last[c], wire[c], emitted, asked[c], c \in subscribers, c \in open)
  BY ClientIsFine
<1>6. a # 0 /\ (a \in 1 .. MaxEvents => a = last[c])
  BY NamesAreNoEvents
<1>7. Fine(last[c], wire[c], emitted, a, c \in subscribers, TRUE)
  BY <1>5, <1>6 DEF Fine
<1>8. Fine(last'[c], wire'[c], emitted, asked'[c], c \in subscribers', c \in open')
  BY <1>4, <1>7
<1>9. \A d \in Clients \ {c} :
        /\ last'[d] = last[d] /\ wire'[d] = wire[d] /\ asked'[d] = asked[d]
        /\ (d \in subscribers') = (d \in subscribers)
        /\ (d \in open') = (d \in open)
  BY <1>1 DEF IInv, TypeOK, Ask
<1>10. ClientsFine'
  BY <1>3, <1>8, <1>9, OneClient
<1> QED  BY <1>2, <1>3, <1>10 DEF IInv

\* A client unsubscribes.
LEMMA HandleUnsubscribeKeeps ==
  ASSUME IInv, NEW c \in Clients, HandleUnsubscribe(c) PROVE IInv'
<1>1. TypeOK'
  BY DEF IInv, TypeOK, HandleUnsubscribe
<1>2. Kept' = Kept /\ emitted' = emitted
  BY DEF Kept, HandleUnsubscribe
<1>3. /\ last'[c] = last[c] /\ wire'[c] = wire[c] /\ asked'[c] = None
      /\ (c \in subscribers') = FALSE /\ (c \in open') = (c \in open)
      /\ asked[c] = Unsubscribe
  BY DEF IInv, TypeOK, HandleUnsubscribe
<1>4. /\ Fed(last[c], wire[c], emitted)
      /\ Fine(last[c], wire[c], emitted, asked[c], c \in subscribers, c \in open)
  BY ClientIsFine
<1>5. c \in open
  BY <1>3, <1>4, NamesAssumption DEF Fine
<1>6. Fine(last[c], wire[c], emitted, None, FALSE, TRUE)
  BY <1>4, QuietIsFine
<1>7. Fine(last'[c], wire'[c], emitted, asked'[c], c \in subscribers', c \in open')
  <2>1. (c \in open') = TRUE
    BY <1>3, <1>5
  <2> QED  BY <1>3, <1>6, <2>1
<1>8. \A d \in Clients \ {c} :
        /\ last'[d] = last[d] /\ wire'[d] = wire[d] /\ asked'[d] = asked[d]
        /\ (d \in subscribers') = (d \in subscribers)
        /\ (d \in open') = (d \in open)
  BY DEF IInv, TypeOK, HandleUnsubscribe
<1>9. ClientsFine'
  BY <1>2, <1>7, <1>8, OneClient
<1> QED  BY <1>1, <1>2, <1>9 DEF IInv

\* A client receives a frame and obeys a reset.
LEMMA ReceiveKeeps ==
  ASSUME IInv, NEW c \in Clients, Receive(c) PROVE IInv'
<1> DEFINE l == last[c]
           w == wire[c]
           n == emitted
           h == Head(w)
           l2 == IF h = 0 \/ h > l THEN h ELSE l
           v == Tail(w)
<1>1. /\ l \in Nat /\ w \in Seq(Nat) /\ n \in Nat /\ Fed(l, w, n) /\ End(l, w) \in Nat
      /\ Fine(l, w, n, asked[c], c \in subscribers, c \in open)
  BY ClientIsFine
<1>2. w # <<>>
  BY DEF Receive
<1>3. /\ last' = [last EXCEPT ![c] = l2] /\ wire' = [wire EXCEPT ![c] = v]
      /\ UNCHANGED <<emitted, buffer, subscribers, open, asked>>
  BY DEF Receive, Reset
<1>4. /\ last'[c] = l2 /\ wire'[c] = v /\ asked'[c] = asked[c]
      /\ (c \in subscribers') = (c \in subscribers) /\ (c \in open') = (c \in open)
  BY <1>3 DEF IInv, TypeOK
<1>5. TypeOK'
  <2> DEFINE S == EventIDs \cup {Reset}
  <2>1. h \in S /\ v \in Seq(S)
    <3>1. w \in Seq(S)
      BY DEF IInv, TypeOK
    <3> HIDE DEF S
    <3> QED  BY <1>2, <3>1, HeadTailProperties
  <2>2. l2 \in 0 .. MaxEvents
    <3>1. S \subseteq 0 .. MaxEvents
      BY BoundsAssumption DEF EventIDs, Reset
    <3>2. l \in 0 .. MaxEvents
      BY DEF IInv, TypeOK
    <3> QED  BY <2>1, <3>1, <3>2
  <2> HIDE DEF l2, v
  <2>3. last' \in [Clients -> 0 .. MaxEvents]
    BY <1>3, <2>2 DEF IInv, TypeOK
  <2>4. wire' \in [Clients -> Seq(S)]
    <3>1. wire \in [Clients -> Seq(S)]
      BY DEF IInv, TypeOK
    <3> HIDE DEF S
    <3> QED  BY <1>3, <2>1, <3>1
  <2> QED  BY <2>3, <2>4 DEF IInv, TypeOK, Receive
<1>6. Kept' = Kept /\ emitted' = emitted
  BY DEF Kept, Receive
<1> HIDE DEF l, w, n
<1>7. /\ Fed(l2, v, n) /\ End(l2, v) \in Nat /\ End(l2, v) <= n
      /\ End(l, w) = 0 => End(l2, v) = 0
      /\ End(l, w) # 0 => End(l, w) <= End(l2, v)
  BY <1>1, <1>2, FedTake
<1> HIDE DEF l2, v
<1>8. c \in subscribers => End(l2, v) \in {0, n}
  <2>1. c \in subscribers => End(l, w) \in {0, n}
    BY <1>1 DEF Fine
  <2> QED  BY <1>1, <1>7, <2>1
<1>9. asked[c] \in 1 .. MaxEvents =>
        asked[c] <= n /\ (End(l2, v) # 0 => asked[c] <= End(l2, v))
  <2>1. asked[c] \in 1 .. MaxEvents =>
          asked[c] \in Nat /\ asked[c] <= n /\ (End(l, w) # 0 => asked[c] <= End(l, w))
    BY <1>1, BoundsAssumption DEF Fine
  <2> QED  BY <1>1, <1>7, <2>1
<1>10. Fine(l2, v, n, asked[c], c \in subscribers, c \in open)
  <2>1. asked[c] # 0 /\ c \in open
    BY <1>1, <1>2 DEF Fine
  <2> QED  BY <1>7, <1>8, <1>9, <2>1 DEF Fine
<1>11. Fine(last'[c], wire'[c], emitted, asked'[c], c \in subscribers', c \in open')
  BY <1>4, <1>10 DEF n
<1>12. \A d \in Clients \ {c} :
        /\ last'[d] = last[d] /\ wire'[d] = wire[d] /\ asked'[d] = asked[d]
        /\ (d \in subscribers') = (d \in subscribers)
        /\ (d \in open') = (d \in open)
  BY <1>3 DEF IInv, TypeOK
<1>13. ClientsFine'
  BY <1>6, <1>11, <1>12, OneClient
<1> QED  BY <1>5, <1>6, <1>13 DEF IInv

\* A subscriber is sent all it lacks, or is told that it lacks something.
LEMMA HandleSubscribeKeeps ==
  ASSUME IInv, NEW c \in Clients, HandleSubscribe(c) PROVE IInv'
<1> DEFINE l == last[c]
           w == wire[c]
           n == emitted
           e == asked[c]
           later == [i \in 1 .. Cardinality(Replay(e)) |->
                       Kept[Len(Kept) - Cardinality(Replay(e)) + i]]
           v == CASE e = 0 -> w
                  [] e # 0 /\ Contains(Kept, e) -> w \o later
                  [] OTHER -> Append(w, Reset)
           S == EventIDs \cup {Reset}
<1>1. /\ l \in Nat /\ w \in Seq(Nat) /\ n \in Nat /\ Fed(l, w, n) /\ End(l, w) \in Nat
      /\ Fine(l, w, n, e, c \in subscribers, c \in open)
  BY ClientIsFine
<1>2. /\ e \in 0 .. MaxEvents /\ asked' = [asked EXCEPT ![c] = None]
      /\ subscribers' = subscribers \cup {c} /\ wire' = [wire EXCEPT ![c] = v]
      /\ UNCHANGED <<emitted, buffer, open, last>>
  BY DEF HandleSubscribe
<1>3. w \in Seq(S)
  BY DEF IInv, TypeOK
<1>4. c \in open
  <2>1. e # None
    BY <1>2, NamesAssumption
  <2> QED  BY <1>1, <2>1 DEF Fine
<1>5. e # 0 => e \in EventIDs /\ e \in Nat /\ e <= n /\ (End(l, w) # 0 => e <= End(l, w))
  BY <1>1, <1>2, BoundsAssumption DEF Fine, EventIDs
<1>6. e = 0 => l = 0 /\ w = <<>>
  BY <1>1 DEF Fine
<1>7. v \in Seq(S) /\ Fed(l, v, n) /\ End(l, v) \in {0, n}
  <2>1. CASE e = 0
    <3>1. v = <<>> /\ l = 0
      BY <1>6, <2>1
    <3>2. Fed(0, <<>>, n) /\ End(0, <<>>) = 0
      BY <1>1, FedNothing
    <3> HIDE DEF v, S, l
    <3>3. <<>> \in Seq(S)
      BY EmptySeq
    <3> QED  BY <3>1, <3>2, <3>3
  <2>2. CASE e # 0 /\ Contains(Kept, e)
    <3>1. v = w \o later
      BY <2>2
    <3>2. e \in EventIDs
      BY <1>5, <2>2
    <3> HIDE DEF e, v, w, l, n
    <3>3. /\ later \in Seq(EventIDs) /\ e <= n /\ Cardinality(Replay(e)) = n - e
          /\ \A i \in 1 .. n - e : later[i] = e + i
      BY <2>2, <3>2, ReplayFollows DEF n
    <3>4. Len(later) = n - e
      BY <1>1, <1>5, <2>2, <3>3
    <3> HIDE DEF later
    <3>5. later \in Seq(Nat)
      <4>1. EventIDs \subseteq Nat
        BY BoundsAssumption DEF EventIDs
      <4> QED  BY <3>3, <4>1, SeqMonotonic
    <3>6. Fed(l, w \o later, n) /\ End(l, w \o later) \in {0, n}
      BY <1>1, <1>5, <2>2, <3>3, <3>4, <3>5, FedReplay
    <3>7. w \o later \in Seq(S)
      <4>1. EventIDs \subseteq S
        OBVIOUS
      <4> HIDE DEF S
      <4>2. later \in Seq(S)
        BY <3>3, <4>1, SeqMonotonic
      <4> QED  BY <1>3, <4>2, ConcatProperties
    <3> QED  BY <3>1, <3>6, <3>7
  <2>3. CASE e # 0 /\ ~Contains(Kept, e)
    <3>1. v = Append(w, 0)
      BY <2>3 DEF Reset
    <3> HIDE DEF v, e, w, l, n
    <3>2. Fed(l, Append(w, 0), n) /\ End(l, Append(w, 0)) = 0
      BY <1>1, FedAppend
    <3>3. Append(w, 0) \in Seq(S)
      <4>1. 0 \in S
        BY DEF Reset
      <4> HIDE DEF S
      <4> QED  BY <1>3, <4>1, AppendProperties
    <3> QED  BY <3>1, <3>2, <3>3
  <2> QED  BY <2>1, <2>2, <2>3
<1> HIDE DEF v
<1>8. TypeOK'
  <2>1. wire' \in [Clients -> Seq(S)]
    <3>1. wire \in [Clients -> Seq(S)]
      BY DEF IInv, TypeOK
    <3> HIDE DEF S
    <3> QED  BY <1>2, <1>7, <3>1
  <2>2. subscribers' \subseteq open'
    BY <1>2, <1>4 DEF IInv, TypeOK
  <2> QED  BY <2>1, <2>2 DEF IInv, TypeOK, HandleSubscribe
<1>9. Kept' = Kept /\ emitted' = emitted
  BY DEF Kept, HandleSubscribe
<1>10. /\ last'[c] = l /\ wire'[c] = v /\ asked'[c] = None
       /\ (c \in subscribers') = TRUE /\ (c \in open') = TRUE
  BY <1>2, <1>4 DEF IInv, TypeOK
<1>11. Fine(l, v, n, None, TRUE, TRUE)
  BY <1>7, QuietIsFine
<1>12. Fine(last'[c], wire'[c], emitted, asked'[c], c \in subscribers', c \in open')
  BY <1>10, <1>11
<1>13. \A d \in Clients \ {c} :
        /\ last'[d] = last[d] /\ wire'[d] = wire[d] /\ asked'[d] = asked[d]
        /\ (d \in subscribers') = (d \in subscribers)
        /\ (d \in open') = (d \in open)
  BY <1>2 DEF IInv, TypeOK
<1>14. ClientsFine'
  BY <1>9, <1>12, <1>13, OneClient
<1> QED  BY <1>8, <1>9, <1>14 DEF IInv

-----------------------------------------------------------------------------
\* The inductive invariant.
THEOREM RunEventsInvariant == Spec => []IInv
<1>1. IInv /\ [Next]_vars => IInv'
  <2> SUFFICES ASSUME IInv, [Next]_vars PROVE IInv'
    OBVIOUS
  <2>1. CASE UNCHANGED vars
    <3>1. Kept' = Kept
      BY <2>1 DEF Kept, vars
    <3>2. TypeOK'
      BY <2>1 DEF IInv, TypeOK, vars
    <3>3. ClientsFine'
      BY <2>1 DEF IInv, ClientsFine, vars
    <3> QED  BY <2>1, <3>1, <3>2, <3>3 DEF IInv, vars
  <2>2. CASE \/ TaskEvent \/ ExecutionComplete \/ Abandon \/ Retry \/ Resume
             \/ DropBuffer \/ Restart
    BY <2>2, TaskEventKeeps, ExecutionCompleteKeeps, RunKeeps, DropBufferKeeps, RestartKeeps
  <2>3. ASSUME NEW c \in Clients,
               \/ Connect(c) \/ Ask(c) \/ Receive(c) \/ Close(c)
               \/ HandleSubscribe(c) \/ HandleUnsubscribe(c)
        PROVE  IInv'
    BY <2>3, ConnectKeeps, AskKeeps, ReceiveKeeps, CloseKeeps, HandleSubscribeKeeps,
       HandleUnsubscribeKeeps
  <2> QED  BY <2>1, <2>2, <2>3 DEF Next
<1> QED  BY <1>1, InitHolds, PTL DEF Spec

\* The types.
THEOREM RunEventsTypes == Spec => []TypeOK
<1>1. IInv => TypeOK
  BY DEF IInv
<1> QED  BY <1>1, RunEventsInvariant, PTL

\* A client that has an event is next given the one after it, an earlier one or a
\* reset, whatever replays, reconnections and restarts came before.
THEOREM ClientsMissNothingSilently == Spec => []NoSilentGap
<1>1. IInv => NoSilentGap
  <2> SUFFICES ASSUME IInv, NEW c \in Clients, wire[c] # <<>>, last[c] # 0
               PROVE  Head(wire[c]) <= last[c] + 1
    BY DEF NoSilentGap
  <2>1. wire[c] \in Seq(Nat) /\ Fed(last[c], wire[c], emitted)
    BY ClientIsFine
  <2>2. 1 \in 1 .. Len(wire[c]) /\ 1 - 1 = 0 /\ Head(wire[c]) = wire[c][1]
    BY <2>1, EmptySeq, LenProperties, HeadTailProperties
  <2>3. Item(last[c], wire[c], 0) # 0 => wire[c][1] <= Item(last[c], wire[c], 0) + 1
    BY <2>1, <2>2 DEF Fed
  <2> QED  BY <2>2, <2>3 DEF Item
<1> QED  BY <1>1, RunEventsInvariant, PTL

\* What was sent to a subscriber ends with the last event of the run, or with a
\* reset: it is never left behind by a replay that crosses a broadcast.
THEOREM SubscribersAreUpToDate == Spec => []SubscriberIsUpToDate
<1>1. IInv => SubscriberIsUpToDate
  <2> SUFFICES ASSUME IInv, NEW c \in subscribers
               PROVE  (IF wire[c] = <<>> THEN last[c] ELSE Last(wire[c])) \in {Reset, emitted}
    BY DEF SubscriberIsUpToDate
  <2>1. c \in Clients
    BY DEF IInv, TypeOK
  <2>2. wire[c] \in Seq(Nat) /\ End(last[c], wire[c]) \in {0, emitted}
    BY <2>1, ClientIsFine DEF Fine
  <2>3. CASE wire[c] = <<>>
    <3>1. End(last[c], wire[c]) = last[c]
      BY <2>3, EmptySeq DEF End, Item
    <3> QED  BY <2>2, <2>3, <3>1 DEF Reset
  <2>4. CASE wire[c] # <<>>
    <3>1. Len(wire[c]) # 0
      BY <2>2, <2>4, EmptySeq
    <3>2. End(last[c], wire[c]) = Last(wire[c])
      BY <3>1 DEF End, Item, Last
    <3> QED  BY <2>2, <2>4, <3>2 DEF Reset
  <2> QED  BY <2>3, <2>4
<1> QED  BY <1>1, RunEventsInvariant, PTL
=============================================================================
