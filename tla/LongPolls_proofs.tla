---------------------------- MODULE LongPolls_proofs ----------------------------
(***************************************************************************)
(* The types and the safety properties of LongPolls, for any pollers,      *)
(* limits and streams, any size of the ring and any number of envelopes.   *)
(*                                                                         *)
(* The ring is a run of envelopes up to the newest (Kept): what follows a  *)
(* cursor that is found in it is everything that was ever sent since.  An  *)
(* answer takes a beginning of that, so it leaves nothing out; and a       *)
(* waiter that is not answered has, of its stream, nothing in its slice:   *)
(* each new envelope is either not of its stream or was looked for.        *)
(***************************************************************************)
EXTENDS LongPolls, TLAPS, NaturalsInduction, WellFoundedInduction, FiniteSetTheorems

Typed ==
  /\ log \in Seq({"queue", "observer"}) /\ Len(log) <= MaxEvents
  /\ ring \subseteq 1 .. Len(log) /\ Cardinality(ring) <= Cap
  /\ cursor \in [Pollers -> 0 .. Len(log)]
  /\ waiter \in [Pollers -> WaiterType \cup {None}]
  /\ answer \in [Pollers -> AnswerType]
  /\ owed \in [Pollers -> Int] /\ polls \in [Pollers -> 0 .. MaxPolls]
  /\ IsFiniteSet(Waiting) /\ Cardinality(Waiting) <= MaxWaiters

Kept ==
  /\ \A e \in ring : e .. Len(log) \subseteq ring
  /\ \A p \in Waiting : waiter[p].since <= Len(log)
  /\ \A p \in Pollers : answer[p].cursor <= Len(log)

IInv == Typed /\ Kept /\ OneResponse /\ AnswersAreGapless /\ NobodySleepsOnEvents

-----------------------------------------------------------------------------
(***************************************************************************)
(* Sets of envelopes.                                                      *)
(***************************************************************************)
LEMMA LeastNatural ==
  ASSUME NEW S \in SUBSET Nat, S # {}
  PROVE  \E x \in S : \A y \in S : x <= y
<1> DEFINE Less == {p \in Nat \X Nat : p[1] < p[2]}
<1>1. Less = OpToRel(<, Nat)
  BY DEF OpToRel
<1>2. IsWellFoundedOn(Less, Nat)
  BY <1>1, NatLessThanWellFounded
<1> HIDE DEF Less
<1>3. PICK x \in S : \A y \in S : ~(<<y, x>> \in Less)
  BY <1>2, WFMin
<1> USE DEF Less
<1>4. \A y \in S : x <= y
  <2> SUFFICES ASSUME NEW y \in S PROVE x <= y
    OBVIOUS
  <2>1. <<y, x>> \in Nat \X Nat
    OBVIOUS
  <2> QED  BY <1>3, <2>1
<1> QED  BY <1>4

\* Envelopes are finitely many.
LEMMA EnvelopesFinite ==
  ASSUME NEW N \in Nat, NEW S \in SUBSET (1 .. N)
  PROVE  IsFiniteSet(S) /\ Cardinality(S) \in Nat
<1>1. IsFiniteSet(1 .. N)
  BY FS_Interval
<1>2. IsFiniteSet(S)
  BY <1>1, FS_Subset
<1> QED  BY <1>2, FS_CardinalityType

\* The newest of some envelopes.
LEMMA NewestIsNewest ==
  ASSUME NEW N \in Nat, NEW S \in SUBSET (1 .. N), S # {}
  PROVE  Newest(S) \in S /\ \A x \in S : x <= Newest(S)
<1> DEFINE D == {N - x : x \in S}
<1>0. \A x \in S : N - x \in Nat /\ x \in Nat
  <2>1. \A x \in 1 .. N : N - x \in Nat /\ x \in Nat
    OBVIOUS
  <2> QED  BY <2>1
<1>1. D \in SUBSET Nat /\ D # {}
  BY <1>0
<1> HIDE DEF D
<1>2. PICK d \in D : \A y \in D : d <= y
  BY <1>1, LeastNatural
<1> USE DEF D
<1>3. PICK e \in S : d = N - e
  OBVIOUS
<1>4. \A x \in S : x <= e
  <2> SUFFICES ASSUME NEW x \in S PROVE x <= e
    OBVIOUS
  <2>1. N - e <= N - x /\ x \in Nat /\ e \in Nat
    BY <1>0, <1>2, <1>3
  <2> QED  BY <2>1
<1>5. \E m \in S : \A x \in S : x <= m
  BY <1>4
<1> QED  BY <1>5, Zenon DEF Newest

\* The first envelopes of a set include, with one, all before it.
LEMMA FirstClosed ==
  ASSUME NEW N \in Nat, NEW S \in SUBSET (1 .. N), NEW n \in Nat,
         NEW e \in First(n, S), NEW x \in S, x <= e
  PROVE  x \in First(n, S)
<1> DEFINE upTo(z) == {y \in S : y <= z}
<1>1. Cardinality(upTo(e)) <= n
  BY DEF First
<1>2. e \in S /\ upTo(x) \subseteq upTo(e) /\ upTo(e) \subseteq S
  <2>1. e \in S
    BY DEF First
  <2>2. \A y \in S : y \in Nat
    OBVIOUS
  <2>3. \A y \in S : y <= x => y <= e
    BY <2>1, <2>2
  <2> QED  BY <2>1, <2>3
<1>3. upTo(e) \in SUBSET (1 .. N) /\ upTo(x) \in SUBSET (1 .. N)
  BY <1>2
<1>4. Cardinality(upTo(x)) <= n
  <2> HIDE DEF upTo
  <2>1. /\ IsFiniteSet(upTo(e)) /\ Cardinality(upTo(e)) \in Nat
        /\ Cardinality(upTo(x)) \in Nat
    BY <1>3, EnvelopesFinite
  <2>2. Cardinality(upTo(x)) <= Cardinality(upTo(e))
    BY <1>2, <2>1, FS_Subset
  <2> QED  BY <1>1, <2>1, <2>2
<1> QED  BY <1>4 DEF First

\* What of P lies behind a cursor, up to another.
Between(since, c, P) == {e \in since + 1 .. c : e \in P}

\* evs is the beginning of what follows a cursor in a run R up to N, as far as in P.
Begins(evs, since, P, R, N) ==
  /\ N \in Nat /\ R \in SUBSET (1 .. N) /\ \A e \in R : e .. N \subseteq R
  /\ since \in R /\ evs \in SUBSET R
  /\ \A e \in evs : e > since /\ e \in P
  /\ \A e \in evs : \A x \in R : since < x /\ x <= e /\ x \in P => x \in evs

\* An answer with the beginning of what follows a cursor in the ring.
LEMMA GaplessAnswer ==
  ASSUME NEW evs, NEW since, NEW P, NEW R, NEW N, Begins(evs, since, P, R, N)
  PROVE  /\ Answer(since, evs).since = since /\ Answer(since, evs).events = evs
         /\ Answer(since, evs).cursor \in since .. N
         /\ evs = Between(since, Answer(since, evs).cursor, P)
<1> DEFINE c == IF evs = {} THEN since ELSE Newest(evs)
<1>0. /\ N \in Nat /\ R \in SUBSET (1 .. N) /\ \A e \in R : e .. N \subseteq R
      /\ since \in R /\ evs \in SUBSET R
      /\ \A e \in evs : e > since /\ e \in P
      /\ \A e \in evs : \A x \in R : since < x /\ x <= e /\ x \in P => x \in evs
  BY DEF Begins
<1>1. Answer(since, evs) = [since |-> since, events |-> evs, cursor |-> c]
  BY DEF Answer
<1>2. c \in since .. N /\ evs = {e \in since + 1 .. c : e \in P}
  <2>1. CASE evs = {}
    BY <1>0, <2>1
  <2>2. CASE evs # {}
    <3>1. c \in evs /\ \A x \in evs : x <= c
      <4>1. evs \in SUBSET (1 .. N)
        BY <1>0
      <4> QED  BY <1>0, <2>2, <4>1, NewestIsNewest
    <3> HIDE DEF c
    <3>2. c \in 1 .. N /\ c > since /\ since \in 1 .. N
      BY <1>0, <3>1
    <3>3. ASSUME NEW e \in evs
          PROVE  e \in since + 1 .. c /\ e \in P
      BY <1>0, <3>1, <3>2
    <3>4. ASSUME NEW e \in since + 1 .. c, e \in P
          PROVE  e \in evs
      <4>1. e \in since .. N /\ since < e /\ e <= c
        BY <1>0, <3>2
      <4>2. e \in R
        BY <1>0, <4>1
      <4> QED  BY <1>0, <3>1, <3>4, <4>1, <4>2
    <3>5. c \in since .. N
      BY <1>0, <3>2
    <3> QED  BY <3>3, <3>4, <3>5
  <2> QED  BY <2>1, <2>2
<1> HIDE DEF c
<1> QED  BY <1>1, <1>2 DEF Between

\* The ring with a new envelope is again a run up to the newest, and of its size.
LEMMA TrimmedRing ==
  ASSUME NEW N \in Nat, NEW R \in SUBSET (1 .. N), Cardinality(R) <= Cap,
         \A e \in R : e .. N \subseteq R
  PROVE  /\ Trimmed(R \cup {N + 1}) \subseteq 1 .. N + 1
         /\ Trimmed(R \cup {N + 1}) \subseteq R \cup {N + 1}
         /\ Cardinality(Trimmed(R \cup {N + 1})) <= Cap
         /\ \A e \in Trimmed(R \cup {N + 1}) : e .. N + 1 \subseteq Trimmed(R \cup {N + 1})
<1> DEFINE r == R \cup {N + 1}
           t == {e \in r : \E x \in r : x < e}
<1>1. r \subseteq 1 .. N + 1 /\ t \subseteq r /\ r # {}
  OBVIOUS
<1>2. \A e \in r : e .. N + 1 \subseteq r
  OBVIOUS
<1> DEFINE Fits == /\ Trimmed(r) \subseteq 1 .. N + 1 /\ Trimmed(r) \subseteq r
                   /\ Cardinality(Trimmed(r)) <= Cap
                   /\ \A e \in Trimmed(r) : e .. N + 1 \subseteq Trimmed(r)
<1>3. ASSUME Trimmed(r) = r, ~(Cardinality(r) > Cap)
      PROVE  Fits
  <2>1. Cardinality(r) \in Nat
    <3>1. r \in SUBSET (1 .. N + 1) /\ N + 1 \in Nat
      BY <1>1
    <3> HIDE DEF r
    <3> QED  BY <3>1, EnvelopesFinite
  <2>2. Cardinality(r) <= Cap
    <3> HIDE DEF r
    <3> QED  BY <1>3, <2>1, BoundsAssumption
  <2> HIDE DEF r
  <2> QED  BY <1>1, <1>2, <1>3, <2>2
<1>4. ASSUME Trimmed(r) = t
      PROVE  Fits
  <2>1. \A e \in t : e .. N + 1 \subseteq t
    <3> SUFFICES ASSUME NEW e \in t, NEW y \in e .. N + 1
                 PROVE  y \in t
      OBVIOUS
    <3>1. PICK x \in r : x < e
      OBVIOUS
    <3>2. x < y /\ y \in r
      BY <1>1, <1>2, <3>1
    <3> QED  BY <3>2
  <2>2. PICK m \in r : \A y \in r : m <= y
    <3>1. r \in SUBSET Nat
      BY <1>1
    <3> HIDE DEF r
    <3> QED  BY <1>1, <3>1, LeastNatural
  <2>3. t \subseteq r \ {m}
    <3> SUFFICES ASSUME NEW e \in t PROVE e # m
      OBVIOUS
    <3>1. PICK x \in r : x < e
      OBVIOUS
    <3> QED  BY <1>1, <2>2, <3>1
  <2>4. Cardinality(t) <= Cap
    <3>1. IsFiniteSet(R) /\ Cardinality(R) \in Nat
      BY EnvelopesFinite
    <3>2. N + 1 \notin R
      OBVIOUS
    <3>3. IsFiniteSet(r) /\ Cardinality(r) = Cardinality(R) + 1
      BY <3>1, <3>2, FS_AddElement
    <3> HIDE DEF r, t
    <3>4. Cardinality(r \ {m}) = Cardinality(r) - 1 /\ IsFiniteSet(r \ {m})
      BY <3>3, FS_RemoveElement
    <3>5. Cardinality(t) <= Cardinality(r \ {m}) /\ IsFiniteSet(t)
      BY <2>3, <3>4, FS_Subset
    <3>6. Cardinality(t) \in Nat
      BY <3>5, FS_CardinalityType
    <3> QED  BY <3>1, <3>3, <3>4, <3>5, <3>6, BoundsAssumption
  <2>5. t \subseteq 1 .. N + 1
    BY <1>1
  <2> HIDE DEF t, r
  <2> QED  BY <1>1, <1>4, <2>1, <2>4, <2>5
<1>5. (Trimmed(r) = r /\ ~(Cardinality(r) > Cap)) \/ Trimmed(r) = t
  BY DEF Trimmed
<1>6. Fits
  BY <1>3, <1>4, <1>5
<1> QED  BY <1>6

-----------------------------------------------------------------------------
(***************************************************************************)
(* Requests.                                                               *)
(***************************************************************************)
LEMMA InitHolds ==
  ASSUME Init
  PROVE  IInv
<1>1. Waiting = {} /\ Len(log) = 0 /\ log \in Seq({"queue", "observer"})
  BY DEF Init, Waiting
<1>2. IsFiniteSet({}) /\ Cardinality({}) = 0
  BY FS_EmptySet
<1>3. Typed
  <2>1. answer \in [Pollers -> AnswerType]
    <3>1. 0 \in 0 .. MaxEvents
      BY BoundsAssumption
    <3>2. [since |-> 0, events |-> {}, cursor |-> 0] \in AnswerType
      BY <3>1 DEF AnswerType
    <3> QED  BY <3>2 DEF Init
  <2>2. /\ cursor \in [Pollers -> 0 .. Len(log)] /\ owed \in [Pollers -> Int]
        /\ polls \in [Pollers -> 0 .. MaxPolls]
        /\ waiter \in [Pollers -> WaiterType \cup {None}]
    BY <1>1, BoundsAssumption DEF Init
  <2>3. ring \subseteq 1 .. Len(log) /\ Cardinality(ring) <= Cap
    BY <1>2, BoundsAssumption DEF Init
  <2> QED  BY <1>1, <1>2, <2>1, <2>2, <2>3, BoundsAssumption DEF Typed
<1>4. Kept /\ OneResponse /\ AnswersAreGapless /\ NobodySleepsOnEvents
  BY <1>1 DEF Init, Kept, OneResponse, AnswersAreGapless, NobodySleepsOnEvents
<1> QED  BY <1>3, <1>4 DEF IInv

\* Some of those that wait are finitely many and not too many.
LEMMA FewerWait ==
  ASSUME Typed, NEW S \in SUBSET Waiting
  PROVE  IsFiniteSet(S) /\ Cardinality(S) <= MaxWaiters
<1>1. IsFiniteSet(Waiting) /\ Cardinality(Waiting) <= MaxWaiters
  BY DEF Typed
<1>2. IsFiniteSet(S) /\ Cardinality(S) <= Cardinality(Waiting)
  BY <1>1, FS_Subset
<1>3. Cardinality(S) \in Nat /\ Cardinality(Waiting) \in Nat
  BY <1>1, <1>2, FS_CardinalityType
<1> QED  BY <1>1, <1>2, <1>3, BoundsAssumption

\* An answer with all of the poller's stream between its cursor and the next.
Complete(p, a) ==
  a.since # 0 => a.events = {e \in a.since + 1 .. a.cursor : Streams(p, log[e])}

\* What is sent to one poller.
LEMMA ReceivesKeeps ==
  ASSUME IInv, NEW p \in Pollers, NEW a \in AnswerType, Receives(p, a),
         a.cursor \in 0 .. Len(log), Complete(p, a), log' = log
  PROVE  /\ answer' \in [Pollers -> AnswerType] /\ cursor' \in [Pollers -> 0 .. Len(log)]
         /\ \A q \in Pollers : answer'[q].cursor <= Len(log)
         /\ AnswersAreGapless'
<1>1. /\ answer \in [Pollers -> AnswerType] /\ cursor \in [Pollers -> 0 .. Len(log)]
      /\ \A q \in Pollers : answer[q].cursor <= Len(log)
      /\ AnswersAreGapless
  BY DEF IInv, Typed, Kept
<1>2. CASE UNCHANGED <<answer, cursor>>
  BY <1>1, <1>2 DEF AnswersAreGapless, Streams
<1>3. CASE /\ answer' = [answer EXCEPT ![p] = a] /\ cursor' = [cursor EXCEPT ![p] = a.cursor]
  <2>1. answer' \in [Pollers -> AnswerType] /\ cursor' \in [Pollers -> 0 .. Len(log)]
    BY <1>1, <1>3
  <2>2. answer'[p] = a /\ \A q \in Pollers : q # p => answer'[q] = answer[q]
    BY <1>1, <1>3
  <2>3. \A q \in Pollers : answer'[q].cursor <= Len(log)
    <3>1. a.cursor <= Len(log)
      OBVIOUS
    <3> QED  BY <1>1, <2>2, <3>1
  <2>4. ASSUME NEW q \in Pollers, answer'[q].since # 0
        PROVE  answer'[q].events =
                 {e \in answer'[q].since + 1 .. answer'[q].cursor : Streams(q, log[e])}
    <3>1. CASE q = p
      BY <2>2, <2>4, <3>1 DEF Complete
    <3>2. CASE q # p
      BY <1>1, <2>2, <2>4, <3>2 DEF AnswersAreGapless
    <3> QED  BY <3>1, <3>2
  <2>5. AnswersAreGapless'
    BY <2>4 DEF AnswersAreGapless, Streams
  <2> QED  BY <2>1, <2>3, <2>5
<1> QED  BY <1>2, <1>3 DEF Receives

\* A step of p's that keeps nobody waiting anew.
LEMMA WaitersShrink ==
  ASSUME IInv, NEW p \in Pollers, UNCHANGED <<log, ring>>,
         waiter' = waiter \/ waiter' = [waiter EXCEPT ![p] = None],
         owed' \in [Pollers -> Int], polls' \in [Pollers -> 0 .. MaxPolls],
         answer' \in [Pollers -> AnswerType], cursor' \in [Pollers -> 0 .. Len(log)],
         \A q \in Pollers : answer'[q].cursor <= Len(log), AnswersAreGapless',
         OneResponse'
  PROVE  IInv'
<1>1. Typed /\ Kept /\ NobodySleepsOnEvents
  BY DEF IInv
<1>2. /\ waiter' \in [Pollers -> WaiterType \cup {None}]
      /\ Waiting' \subseteq Waiting /\ \A q \in Waiting' : waiter'[q] = waiter[q]
  BY <1>1 DEF Typed, Waiting
<1>3. IsFiniteSet(Waiting') /\ Cardinality(Waiting') <= MaxWaiters
  BY <1>1, <1>2, FewerWait
<1>4. Typed'
  BY <1>1, <1>2, <1>3 DEF Typed
<1>5. Kept'
  BY <1>1, <1>2 DEF Kept
<1>6. NobodySleepsOnEvents'
  BY <1>1, <1>2 DEF NobodySleepsOnEvents, Slice, After, Streams
<1> QED  BY <1>4, <1>5, <1>6 DEF IInv

\* A poller whose cursor has left the ring is told to start anew.
LEMMA TooOldKeeps ==
  ASSUME IInv, NEW p \in Pollers, PollTooOld(p)
  PROVE  IInv'
<1>1. /\ Typed /\ OneResponse /\ waiter[p] = None /\ polls[p] < MaxPolls
      /\ polls' = [polls EXCEPT ![p] = @ + 1] /\ owed' = [owed EXCEPT ![p] = 0]
      /\ cursor' = [cursor EXCEPT ![p] = 0]
      /\ UNCHANGED <<log, ring, waiter, answer>>
  BY DEF IInv, PollTooOld, MayPoll
<1>2. /\ owed' \in [Pollers -> Int] /\ polls' \in [Pollers -> 0 .. MaxPolls]
      /\ cursor' \in [Pollers -> 0 .. Len(log)] /\ OneResponse'
  BY <1>1, BoundsAssumption DEF Typed, OneResponse
<1>3. /\ answer' \in [Pollers -> AnswerType] /\ AnswersAreGapless'
      /\ \A q \in Pollers : answer'[q].cursor <= Len(log)
  BY <1>1 DEF IInv, Typed, Kept, AnswersAreGapless, Streams
<1> QED  BY <1>1, <1>2, <1>3, WaitersShrink

\* What a request finds in the ring leaves nothing out.
LEMMA FoundInRing ==
  ASSUME IInv, NEW p \in Pollers, InRing(cursor[p])
  PROVE  LET a == Answer(cursor[p], First(Limit[p], Available(p)))
         IN a \in AnswerType /\ a.cursor \in 0 .. Len(log) /\ Complete(p, a)
<1> DEFINE N == Len(log)
           c == cursor[p]
           evs == First(Limit[p], Available(p))
           P == {e \in 1 .. N : Streams(p, log[e])}
           a == Answer(c, evs)
<1>1. /\ N \in Nat /\ N <= MaxEvents /\ c \in 0 .. N /\ Limit[p] \in Nat
      /\ ring \in SUBSET (1 .. N) /\ \A e \in ring : e .. N \subseteq ring
  BY PollersAssumption DEF IInv, Typed, Kept
<1>2. /\ Available(p) \in SUBSET (1 .. N) /\ evs \subseteq Available(p)
      /\ Available(p) = {e \in ring : e > c /\ e \in P}
  BY <1>1 DEF Available, After, First
<1>3. \A e \in evs : \A x \in ring : c < x /\ x <= e /\ x \in P => x \in evs
  <2> SUFFICES ASSUME NEW e \in evs, NEW x \in ring, c < x, x <= e, x \in P
               PROVE  x \in evs
    OBVIOUS
  <2>1. x \in Available(p)
    <3>1. c \in Nat /\ x \in Nat
      BY <1>1
    <3> QED  BY <1>2, <3>1
  <2> QED  BY <1>1, <1>2, <2>1, FirstClosed
<1>4. evs \in SUBSET ring /\ \A e \in evs : e > c /\ e \in P
  BY <1>2
<1> HIDE DEF evs, P, N, c
<1>5. CASE c = 0
  <2>1. a.since = 0 /\ a.cursor = (IF evs = {} THEN 0 ELSE Newest(evs)) /\ a.events = evs
        /\ a = [since |-> 0, events |-> evs, cursor |-> a.cursor]
    BY <1>5 DEF Answer
  <2>2. evs \in SUBSET (1 .. N) /\ evs \subseteq EventIDs
    BY <1>1, <1>4, BoundsAssumption DEF EventIDs
  <2>3. a.cursor \in 0 .. N
    <3>1. CASE evs = {}
      BY <1>1, <2>1, <3>1
    <3>2. CASE evs # {}
      <4>1. Newest(evs) \in evs
        BY <1>1, <2>2, <3>2, NewestIsNewest
      <4>2. a.cursor \in 1 .. N
        BY <2>1, <2>2, <3>2, <4>1
      <4> QED  BY <1>1, <4>2
    <3> QED  BY <3>1, <3>2
  <2>4. a.cursor \in 0 .. MaxEvents /\ 0 \in 0 .. MaxEvents
    BY <1>1, <2>3, BoundsAssumption
  <2>5. a \in AnswerType
    <3> HIDE DEF a
    <3> QED  BY <2>1, <2>2, <2>4 DEF AnswerType
  <2>6. Complete(p, a)
    BY <2>1 DEF Complete
  <2> QED  BY <2>3, <2>5, <2>6 DEF N, c, evs
<1>6. CASE c # 0
  <2>1. c \in ring
    BY <1>6 DEF InRing, c
  <2>2. /\ a.since = c /\ a.events = evs /\ a.cursor \in c .. N
        /\ evs = Between(c, a.cursor, P)
    <3>1. /\ Answer(c, evs).since = c /\ Answer(c, evs).events = evs
          /\ Answer(c, evs).cursor \in c .. N
          /\ evs = Between(c, Answer(c, evs).cursor, P)
      <4>1. Begins(evs, c, P, ring, N)
        BY <1>1, <1>3, <1>4, <2>1 DEF Begins
      <4> QED  BY <4>1, GaplessAnswer
    <3> QED  BY <3>1
  <2>3. a = [since |-> c, events |-> evs, cursor |-> a.cursor]
    BY DEF Answer
  <2>4. /\ c \in 0 .. MaxEvents /\ a.cursor \in 0 .. MaxEvents /\ a.cursor \in 0 .. N
        /\ evs \subseteq EventIDs
    <3> HIDE DEF a
    <3>1. c \in 0 .. MaxEvents /\ a.cursor \in 0 .. MaxEvents /\ a.cursor \in 0 .. N
      BY <1>1, <2>2, BoundsAssumption
    <3> QED  BY <1>1, <1>4, <3>1, BoundsAssumption DEF EventIDs
  <2> HIDE DEF a
  <2>5. a \in AnswerType
    BY <2>3, <2>4 DEF AnswerType
  <2>6. Complete(p, a)
    <3>1. \A e \in c + 1 .. a.cursor : e \in P <=> Streams(p, log[e])
      BY <1>1, <2>2 DEF P, N
    <3> QED  BY <2>2, <3>1 DEF Complete, Between
  <2> QED  BY <2>4, <2>5, <2>6 DEF a, N, c, evs
<1> QED  BY <1>5, <1>6

\* A poller that finds envelopes gets the first of them.
LEMMA AnsweredKeeps ==
  ASSUME IInv, NEW p \in Pollers, PollAnswered(p)
  PROVE  IInv'
<1> DEFINE a == Answer(cursor[p], First(Limit[p], Available(p)))
<1>1. /\ Typed /\ OneResponse /\ waiter[p] = None /\ polls[p] < MaxPolls /\ InRing(cursor[p])
      /\ polls' = [polls EXCEPT ![p] = @ + 1] /\ owed' = [owed EXCEPT ![p] = 0]
      /\ Receives(p, a)
      /\ UNCHANGED <<log, ring, waiter>>
  BY DEF IInv, PollAnswered, MayPoll
<1>2. a \in AnswerType /\ a.cursor \in 0 .. Len(log) /\ Complete(p, a)
  BY <1>1, FoundInRing
<1> HIDE DEF a
<1>3. /\ answer' \in [Pollers -> AnswerType] /\ cursor' \in [Pollers -> 0 .. Len(log)]
      /\ \A q \in Pollers : answer'[q].cursor <= Len(log)
      /\ AnswersAreGapless'
  BY <1>1, <1>2, ReceivesKeeps
<1>4. /\ owed' \in [Pollers -> Int] /\ polls' \in [Pollers -> 0 .. MaxPolls] /\ OneResponse'
  BY <1>1, BoundsAssumption DEF Typed, OneResponse
<1> QED  BY <1>1, <1>3, <1>4, WaitersShrink

\* A waiter whose timer fires gets an empty answer.
LEMMA TimeOutKeeps ==
  ASSUME IInv, NEW p \in Pollers, PollTimesOut(p)
  PROVE  IInv'
<1> DEFINE s == waiter[p].since
           a == Answer(s, {})
<1>1. /\ Typed /\ Kept /\ OneResponse /\ waiter[p] # None
      /\ waiter' = [waiter EXCEPT ![p] = None] /\ owed' = [owed EXCEPT ![p] = @ - 1]
      /\ Receives(p, a)
      /\ UNCHANGED <<log, ring, polls>>
  BY DEF IInv, PollTimesOut
<1>2. s \in 0 .. MaxEvents /\ s \in 0 .. Len(log)
  <2>1. waiter[p] \in WaiterType /\ p \in Waiting
    BY <1>1 DEF Typed, Waiting
  <2>2. s \in 0 .. MaxEvents /\ s <= Len(log)
    BY <1>1, <2>1 DEF WaiterType, Kept
  <2>3. Len(log) \in Nat
    BY <1>1 DEF Typed
  <2> HIDE DEF s
  <2> QED  BY <2>2, <2>3, BoundsAssumption
<1> HIDE DEF s
<1>3. a = [since |-> s, events |-> {}, cursor |-> s]
  BY DEF Answer
<1>4. a \in AnswerType /\ a.cursor \in 0 .. Len(log) /\ Complete(p, a)
  <2> HIDE DEF a
  <2>1. a \in AnswerType /\ a.cursor \in 0 .. Len(log)
    BY <1>2, <1>3 DEF AnswerType
  <2>2. s + 1 .. s = {}
    BY <1>2
  <2> QED  BY <1>3, <2>1, <2>2 DEF Complete
<1> HIDE DEF a
<1>5. /\ answer' \in [Pollers -> AnswerType] /\ cursor' \in [Pollers -> 0 .. Len(log)]
      /\ \A q \in Pollers : answer'[q].cursor <= Len(log)
      /\ AnswersAreGapless'
  BY <1>1, <1>4, ReceivesKeeps
<1>6. /\ owed' \in [Pollers -> Int] /\ polls' \in [Pollers -> 0 .. MaxPolls] /\ OneResponse'
  BY <1>1 DEF Typed, OneResponse
<1> QED  BY <1>1, <1>5, <1>6, WaitersShrink

\* A waiter whose connection closes is owed nothing.
LEMMA DisconnectKeeps ==
  ASSUME IInv, NEW p \in Pollers, Disconnect(p)
  PROVE  IInv'
<1>1. /\ Typed /\ OneResponse
      /\ waiter' = [waiter EXCEPT ![p] = None] /\ owed' = [owed EXCEPT ![p] = 0]
      /\ UNCHANGED <<log, ring, cursor, answer, polls>>
  BY DEF IInv, Disconnect
<1>2. /\ owed' \in [Pollers -> Int] /\ polls' \in [Pollers -> 0 .. MaxPolls]
      /\ cursor' \in [Pollers -> 0 .. Len(log)] /\ OneResponse'
  BY <1>1 DEF Typed, OneResponse
<1>3. /\ answer' \in [Pollers -> AnswerType] /\ AnswersAreGapless'
      /\ \A q \in Pollers : answer'[q].cursor <= Len(log)
  BY <1>1 DEF IInv, Typed, Kept, AnswersAreGapless, Streams
<1> QED  BY <1>1, <1>2, <1>3, WaitersShrink

\* A request that waits found nothing of its stream behind its cursor.
LEMMA WaitsKeeps ==
  ASSUME IInv, NEW p \in Pollers, PollWaits(p)
  PROVE  IInv'
<1>1. /\ Typed /\ Kept /\ OneResponse /\ AnswersAreGapless /\ NobodySleepsOnEvents
      /\ waiter[p] = None /\ polls[p] < MaxPolls /\ Available(p) = {}
      /\ polls' = [polls EXCEPT ![p] = @ + 1]
      /\ UNCHANGED <<log, ring, cursor, answer>>
  BY DEF IInv, PollWaits, MayPoll
<1>2. /\ polls' \in [Pollers -> 0 .. MaxPolls]
      /\ cursor' \in [Pollers -> 0 .. Len(log)]
      /\ answer' \in [Pollers -> AnswerType] /\ AnswersAreGapless'
      /\ \A q \in Pollers : answer'[q].cursor <= Len(log)
  BY <1>1, BoundsAssumption DEF Typed, Kept, AnswersAreGapless, Streams
<1>3. CASE owed' = [owed EXCEPT ![p] = 0] /\ UNCHANGED waiter
  <2>1. owed' \in [Pollers -> Int] /\ OneResponse'
    BY <1>1, <1>3 DEF Typed, OneResponse
  <2> QED  BY <1>1, <1>2, <1>3, <2>1, WaitersShrink
<1>4. CASE /\ MayRegister /\ waiter' = [waiter EXCEPT ![p] = NewWaiter(p)]
           /\ owed' = [owed EXCEPT ![p] = 1]
  <2>1. /\ NewWaiter(p) \in WaiterType /\ NewWaiter(p) # None
        /\ NewWaiter(p).since = cursor[p] /\ cursor[p] \in 0 .. Len(log)
    <3>1. cursor[p] \in 0 .. Len(log) /\ Len(log) <= MaxEvents /\ Len(log) \in Nat
      BY <1>1 DEF Typed
    <3>2. cursor[p] \in 0 .. MaxEvents
      BY <3>1, BoundsAssumption
    <3>3. NewWaiter(p) \in WaiterType /\ NewWaiter(p).since = cursor[p]
      BY <3>2 DEF NewWaiter, WaiterType
    <3> QED  BY <3>1, <3>3, NoneAssumption
  <2>2. /\ waiter' \in [Pollers -> WaiterType \cup {None}] /\ waiter'[p] = NewWaiter(p)
        /\ \A q \in Pollers : q # p => waiter'[q] = waiter[q]
        /\ Waiting' = Waiting \cup {p} /\ p \notin Waiting
    BY <1>1, <1>4, <2>1 DEF Typed, Waiting
  <2>3. owed' \in [Pollers -> Int] /\ OneResponse'
    BY <1>1, <1>4, <2>1, <2>2 DEF Typed, OneResponse
  <2>4. IsFiniteSet(Waiting') /\ Cardinality(Waiting') <= MaxWaiters
    <3>1. IsFiniteSet(Waiting) /\ Cardinality(Waiting) < MaxWaiters
      BY <1>1, <1>4 DEF Typed, MayRegister
    <3>2. IsFiniteSet(Waiting') /\ Cardinality(Waiting') = Cardinality(Waiting) + 1
      BY <2>2, <3>1, FS_AddElement
    <3>3. Cardinality(Waiting) \in Nat
      BY <3>1, FS_CardinalityType
    <3> QED  BY <3>1, <3>2, <3>3, BoundsAssumption
  <2>5. Typed'
    BY <1>1, <1>2, <2>2, <2>3, <2>4 DEF Typed
  <2>6. Kept'
    <3>1. cursor[p] <= Len(log)
      BY <2>1
    <3>2. \A q \in Waiting' : waiter'[q].since <= Len(log)
      <4> SUFFICES ASSUME NEW q \in Waiting' PROVE waiter'[q].since <= Len(log)
        OBVIOUS
      <4>1. CASE q = p
        BY <2>1, <2>2, <3>1, <4>1
      <4>2. CASE q # p
        <5>1. q \in Waiting /\ waiter'[q] = waiter[q]
          BY <2>2, <4>2 DEF Waiting
        <5> QED  BY <1>1, <5>1 DEF Kept
      <4> QED  BY <4>1, <4>2
    <3> QED  BY <1>1, <1>2, <3>2 DEF Kept
  <2>7. NobodySleepsOnEvents'
    <3> SUFFICES ASSUME NEW q \in Waiting', NEW e \in Slice(q, ring)'
                 PROVE  ~Streams(q, log[e])
      BY <1>1 DEF NobodySleepsOnEvents, Streams
    <3>1. CASE q = p
      <4>1. e \in ring /\ e > cursor[p]
        BY <1>1, <2>1, <2>2, <3>1 DEF Slice, First, After
      <4> QED  BY <1>1, <3>1, <4>1 DEF Available, After
    <3>2. CASE q # p
      <4>1. q \in Waiting /\ waiter'[q] = waiter[q]
        BY <2>2, <3>2 DEF Waiting
      <4>2. e \in Slice(q, ring)
        BY <1>1, <4>1 DEF Slice, After
      <4> QED  BY <1>1, <4>1, <4>2 DEF NobodySleepsOnEvents
    <3> QED  BY <3>1, <3>2
  <2> QED  BY <1>2, <2>3, <2>5, <2>6, <2>7 DEF IInv
<1> QED  BY <1>3, <1>4 DEF PollWaits

-----------------------------------------------------------------------------
(***************************************************************************)
(* A new envelope.                                                         *)
(***************************************************************************)
Found(p) == {e \in Slice(p, ring') : Streams(p, log'[e])}
Settled(topic) == Drained(topic, ring')
Answered(topic) == {p \in Settled(topic) : Found(p) # {}}

\* What a broadcast does, one waiter at a time.
LEMMA BroadcastMeans ==
  ASSUME IInv, NEW topic \in {"queue", "observer"}, Broadcast(topic)
  PROVE  /\ Len(log) < MaxEvents /\ log' = Append(log, topic)
         /\ ring' = Trimmed(ring \cup {Len(log) + 1}) /\ polls' = polls
         /\ waiter' = [p \in Pollers |->
                         IF p \in Answered(topic) THEN None
                         ELSE IF p \in Settled(topic) THEN StillWaiting(p) ELSE waiter[p]]
         /\ owed' = [p \in Pollers |-> IF p \in Answered(topic) THEN owed[p] - 1 ELSE owed[p]]
         /\ \E lost \in SUBSET Answered(topic) :
              /\ answer' = [p \in Pollers |->
                              IF p \in Answered(topic) \ lost
                              THEN Answer(waiter[p].since, Found(p)) ELSE answer[p]]
              /\ cursor' = [p \in Pollers |->
                              IF p \in Answered(topic) \ lost
                              THEN Answer(waiter[p].since, Found(p)).cursor ELSE cursor[p]]
<1> DEFINE found == [p \in Waiting |-> {e \in Slice(p, ring') : Streams(p, log'[e])}]
           settled == Drained(topic, ring')
           answered == {p \in settled : found[p] # {}}
<1>1. settled = Settled(topic) /\ settled \subseteq Waiting /\ Waiting \subseteq Pollers
  BY DEF Settled, Drained, Waiting
<1>2. \A p \in Waiting : found[p] = Found(p)
  BY DEF Found
<1>3. answered = Answered(topic) /\ answered \subseteq settled
  BY <1>1, <1>2 DEF Answered
<1>4. /\ Len(log) < MaxEvents /\ log' = Append(log, topic)
      /\ ring' = Trimmed(ring \cup {Len(log')}) /\ polls' = polls
      /\ waiter' = [p \in Pollers |-> CASE p \in answered -> None
                                        [] p \in settled \ answered -> StillWaiting(p)
                                        [] OTHER -> waiter[p]]
      /\ owed' = [p \in Pollers |-> IF p \in answered THEN owed[p] - 1 ELSE owed[p]]
  BY DEF Broadcast
<1>5. PICK lost \in SUBSET answered :
        LET got == answered \ lost
            a == [p \in got |-> Answer(waiter[p].since, found[p])]
        IN /\ answer' = [p \in Pollers |-> IF p \in got THEN a[p] ELSE answer[p]]
           /\ cursor' = [p \in Pollers |-> IF p \in got THEN a[p].cursor ELSE cursor[p]]
  BY DEF Broadcast
<1>6. Len(log') = Len(log) + 1
  BY <1>4 DEF IInv, Typed
<1> DEFINE got == answered \ lost
           a == [p \in got |-> Answer(waiter[p].since, found[p])]
<1>7. \A p \in got : a[p] = Answer(waiter[p].since, Found(p))
  BY <1>1, <1>2, <1>3
<1>8. /\ answer' = [p \in Pollers |-> IF p \in got THEN a[p] ELSE answer[p]]
      /\ cursor' = [p \in Pollers |-> IF p \in got THEN a[p].cursor ELSE cursor[p]]
  BY <1>5
<1>9. waiter' = [p \in Pollers |-> IF p \in answered THEN None
                                   ELSE IF p \in settled THEN StillWaiting(p) ELSE waiter[p]]
  <2>1. \A p \in Pollers :
          (CASE p \in answered -> None [] p \in settled \ answered -> StillWaiting(p)
             [] OTHER -> waiter[p])
          = IF p \in answered THEN None
            ELSE IF p \in settled THEN StillWaiting(p) ELSE waiter[p]
    OBVIOUS
  <2> HIDE DEF answered, settled
  <2> QED  BY <1>4, <2>1
<1> HIDE DEF a, answered, settled, found
<1>10. /\ answer' = [p \in Pollers |-> IF p \in Answered(topic) \ lost
                       THEN Answer(waiter[p].since, Found(p)) ELSE answer[p]]
       /\ cursor' = [p \in Pollers |-> IF p \in Answered(topic) \ lost
                       THEN Answer(waiter[p].since, Found(p)).cursor ELSE cursor[p]]
  BY <1>3, <1>7, <1>8
<1> QED  BY <1>1, <1>3, <1>4, <1>6, <1>9, <1>10

\* A new envelope answers waiters, or leaves them asleep with nothing in their slice.
LEMMA BroadcastKeeps ==
  ASSUME IInv, NEW topic \in {"queue", "observer"}, Broadcast(topic)
  PROVE  IInv'
<1> DEFINE N == Len(log)
           A == Answered(topic)
           w(p) == waiter[p].since
           a(p) == Answer(w(p), Found(p))
           P(p) == {e \in 1 .. N + 1 : Streams(p, log'[e])}
<1>1. Typed /\ Kept /\ OneResponse /\ AnswersAreGapless /\ NobodySleepsOnEvents
  BY DEF IInv
<1>2. /\ Len(log) < MaxEvents /\ log' = Append(log, topic)
      /\ ring' = Trimmed(ring \cup {N + 1}) /\ polls' = polls
      /\ waiter' = [p \in Pollers |->
                      IF p \in A THEN None
                      ELSE IF p \in Settled(topic) THEN StillWaiting(p) ELSE waiter[p]]
      /\ owed' = [p \in Pollers |-> IF p \in A THEN owed[p] - 1 ELSE owed[p]]
  BY BroadcastMeans
<1>3. PICK lost \in SUBSET A :
        /\ answer' = [p \in Pollers |-> IF p \in A \ lost THEN a(p) ELSE answer[p]]
        /\ cursor' = [p \in Pollers |-> IF p \in A \ lost THEN a(p).cursor ELSE cursor[p]]
  BY BroadcastMeans
<1>4. /\ N \in Nat /\ Len(log') = N + 1 /\ log' \in Seq({"queue", "observer"})
      /\ N + 1 <= MaxEvents
      /\ \A e \in 1 .. N : log'[e] = log[e]
      /\ log'[N + 1] = topic
  BY <1>1, <1>2, BoundsAssumption DEF Typed
<1>5. /\ ring' \subseteq 1 .. N + 1 /\ ring' \subseteq ring \cup {N + 1}
      /\ Cardinality(ring') <= Cap /\ \A e \in ring' : e .. N + 1 \subseteq ring'
  <2>1. ring \in SUBSET (1 .. N) /\ Cardinality(ring) <= Cap /\ \A e \in ring : e .. N \subseteq ring
    BY <1>1 DEF Typed, Kept
  <2> HIDE DEF N
  <2> QED  BY <1>2, <1>4, <2>1, TrimmedRing
<1>6. /\ A \subseteq Settled(topic) /\ Settled(topic) \subseteq Waiting /\ Waiting \subseteq Pollers
      /\ \A p \in Waiting : waiter[p] \in WaiterType /\ w(p) \in 0 .. N
      /\ \A p \in Pollers \ Waiting : waiter[p] = None
  <2>1. \A p \in Waiting : waiter[p] \in WaiterType /\ w(p) <= N
    BY <1>1 DEF Typed, Kept, Waiting
  <2>2. \A p \in Waiting : w(p) \in Nat
    BY <2>1, BoundsAssumption DEF WaiterType
  <2>3. \A p \in Waiting : w(p) \in 0 .. N
    BY <1>4, <2>1, <2>2
  <2> QED  BY <2>1, <2>3 DEF Answered, Settled, Drained, Waiting
<1>7. ASSUME NEW p \in A
      PROVE  /\ a(p) \in AnswerType /\ a(p).since = w(p) /\ a(p).cursor \in 0 .. N + 1
             /\ a(p).events = {e \in a(p).since + 1 .. a(p).cursor : Streams(p, log'[e])}
  <2> DEFINE evs == Found(p)
             c == w(p)
             S == After(c, ring')
  <2>1. p \in Waiting /\ evs # {} /\ p \in Pollers /\ Limit[p] \in Nat
    BY <1>6, PollersAssumption DEF Answered
  <2>2. c \in ring' /\ Slice(p, ring') = First(Limit[p], S) /\ c \in 0 .. N
    BY <1>6, <2>1 DEF Slice, Found
  <2>3. S \in SUBSET (1 .. N + 1) /\ S = {e \in ring' : e > c} /\ Slice(p, ring') \subseteq S
    BY <1>5, <2>2 DEF After, First
  <2>4. evs = {e \in Slice(p, ring') : e \in P(p)}
    BY <1>5, <2>3 DEF Found
  <2> HIDE DEF evs, c, S, P
  <2>5. \A e \in evs : \A x \in ring' : c < x /\ x <= e /\ x \in P(p) => x \in evs
    <3> SUFFICES ASSUME NEW e \in evs, NEW x \in ring', c < x, x <= e, x \in P(p)
                 PROVE  x \in evs
      OBVIOUS
    <3>1. x > c
      <4>1. c \in Nat /\ x \in Nat
        BY <1>5, <2>2
      <4> QED  BY <4>1
    <3>2. x \in S /\ e \in First(Limit[p], S)
      BY <2>2, <2>3, <2>4, <3>1
    <3>3. x \in First(Limit[p], S)
      <4>1. N + 1 \in Nat
        BY <1>4
      <4> HIDE DEF N
      <4> QED  BY <2>1, <2>3, <3>2, <4>1, FirstClosed
    <3> QED  BY <2>2, <2>4, <3>3
  <2>6. Begins(evs, c, P(p), ring', N + 1)
    <3>1. evs \in SUBSET ring' /\ \A e \in evs : e > c /\ e \in P(p)
      BY <2>3, <2>4
    <3>2. N + 1 \in Nat
      BY <1>4
    <3> HIDE DEF N
    <3> QED  BY <1>5, <2>2, <2>5, <3>1, <3>2 DEF Begins
  <2>7. /\ Answer(c, evs).since = c /\ Answer(c, evs).events = evs
        /\ Answer(c, evs).cursor \in c .. N + 1
        /\ evs = Between(c, Answer(c, evs).cursor, P(p))
    BY <2>6, GaplessAnswer
  <2>8. Answer(c, evs) = [since |-> c, events |-> evs, cursor |-> Answer(c, evs).cursor]
    BY DEF Answer
  <2> DEFINE m == Answer(c, evs).cursor
  <2>9. /\ c \in 0 .. MaxEvents /\ m \in 0 .. MaxEvents /\ m \in 0 .. N + 1 /\ m \in c .. N + 1
        /\ evs \subseteq EventIDs
    <3>1. m \in c .. N + 1
      BY <2>7
    <3> HIDE DEF m
    <3>2. c \in 0 .. MaxEvents /\ m \in 0 .. MaxEvents /\ m \in 0 .. N + 1
      BY <1>4, <2>2, <3>1, BoundsAssumption
    <3>3. evs \subseteq 1 .. N + 1
      BY <2>3, <2>4
    <3>4. 1 .. N + 1 \subseteq EventIDs
      BY <1>4, BoundsAssumption DEF EventIDs
    <3> QED  BY <3>1, <3>2, <3>3, <3>4
  <2>10. evs = {e \in c + 1 .. m : Streams(p, log'[e])}
    <3>1. \A e \in c + 1 .. m : e \in P(p) <=> Streams(p, log'[e])
      <4> HIDE DEF m
      <4> QED  BY <1>4, <2>2, <2>9 DEF P
    <3> QED  BY <2>7, <3>1 DEF Between
  <2> HIDE DEF m
  <2>11. Answer(c, evs) \in AnswerType
    <3>1. Answer(c, evs) = [since |-> c, events |-> evs, cursor |-> m]
      BY <2>8 DEF m
    <3> QED  BY <2>9, <3>1 DEF AnswerType
  <2>12. a(p) = Answer(c, evs)
    BY DEF c, evs
  <2> HIDE DEF a
  <2> QED  BY <2>7, <2>9, <2>10, <2>11, <2>12 DEF c, evs, m
<1>8. ASSUME NEW p \in Waiting \ A
      PROVE  waiter'[p] \in WaiterType /\ waiter'[p].since = w(p) /\ waiter'[p] # None
  <2>1. waiter[p] \in WaiterType /\ p \in Pollers
    BY <1>6
  <2>2. waiter'[p] = waiter[p] \/ waiter'[p] = [waiter[p] EXCEPT !.timer = FALSE]
    BY <1>2, <2>1 DEF StillWaiting
  <2>3. waiter'[p] \in WaiterType /\ waiter'[p].since = w(p)
    BY <2>1, <2>2 DEF WaiterType
  <2> QED  BY <2>3, NoneAssumption
<1>9. /\ \A p \in A : waiter'[p] = None
      /\ \A p \in Pollers \ Waiting : waiter'[p] = None
      /\ waiter' \in [Pollers -> WaiterType \cup {None}]
  <2>1. \A p \in Pollers \ Waiting : waiter'[p] = None
    BY <1>2, <1>6
  <2>2. \A p \in A : waiter'[p] = None /\ p \in Pollers
    BY <1>2, <1>6
  <2>3. \A p \in Pollers : waiter'[p] \in WaiterType \cup {None}
    BY <1>8, <2>1, <2>2
  <2>4. waiter' = [p \in Pollers |-> waiter'[p]]
    BY <1>2
  <2> QED  BY <2>1, <2>2, <2>3, <2>4
<1>10. Waiting' = Waiting \ A
  BY <1>6, <1>8, <1>9 DEF Waiting
<1> HIDE DEF a, w
<1>11. Typed'
  <2>1. IsFiniteSet(Waiting') /\ Cardinality(Waiting') <= MaxWaiters
    BY <1>1, <1>10, FewerWait
  <2>2. answer' \in [Pollers -> AnswerType]
    BY <1>1, <1>3, <1>7 DEF Typed
  <2>3. cursor' \in [Pollers -> 0 .. N + 1]
    <3>1. \A p \in Pollers : cursor[p] \in 0 .. N + 1
      <4>1. \A p \in Pollers : cursor[p] \in 0 .. N
        BY <1>1 DEF Typed
      <4>2. 0 .. N \subseteq 0 .. N + 1
        BY <1>4
      <4> QED  BY <4>1, <4>2
    <3> HIDE DEF N
    <3> QED  BY <1>3, <1>7, <3>1
  <2>4. owed' \in [Pollers -> Int] /\ polls' \in [Pollers -> 0 .. MaxPolls]
    BY <1>1, <1>2 DEF Typed
  <2> QED  BY <1>4, <1>5, <1>9, <2>1, <2>2, <2>3, <2>4 DEF Typed
<1>12. Kept'
  <2>1. \A p \in Waiting' : waiter'[p].since <= N + 1
    BY <1>4, <1>6, <1>8, <1>10
  <2>2. \A p \in Pollers : answer'[p].cursor <= N + 1
    <3> SUFFICES ASSUME NEW p \in Pollers PROVE answer'[p].cursor <= N + 1
      OBVIOUS
    <3>1. CASE p \in A \ lost
      <4>1. answer'[p] = a(p) /\ a(p).cursor \in 0 .. N + 1
        BY <1>3, <1>7, <3>1
      <4> QED  BY <1>4, <4>1
    <3>2. CASE p \notin A \ lost
      <4>1. answer'[p] = answer[p] /\ answer[p].cursor <= N
        BY <1>1, <1>3, <3>2 DEF Kept
      <4>2. answer[p].cursor \in Nat
        BY <1>1, BoundsAssumption DEF Typed, AnswerType
      <4> QED  BY <1>4, <4>1, <4>2
    <3> QED  BY <3>1, <3>2
  <2> QED  BY <1>4, <1>5, <2>1, <2>2 DEF Kept
<1>13. OneResponse'
  <2> SUFFICES ASSUME NEW p \in Pollers
               PROVE  owed'[p] = (IF waiter'[p] = None THEN 0 ELSE 1)
    BY DEF OneResponse
  <2>1. CASE p \in A
    <3>1. owed[p] = 1
      BY <1>1, <1>6, <2>1 DEF OneResponse, Waiting
    <3> QED  BY <1>2, <1>9, <2>1, <3>1
  <2>2. CASE p \notin A
    <3>1. waiter'[p] = None <=> waiter[p] = None
      BY <1>6, <1>8, <1>9, <2>2 DEF Waiting
    <3> QED  BY <1>1, <1>2, <2>2, <3>1 DEF OneResponse
  <2> QED  BY <2>1, <2>2
<1>14. AnswersAreGapless'
  <2> SUFFICES ASSUME NEW p \in Pollers, answer'[p].since # 0
               PROVE  answer'[p].events =
                        {e \in answer'[p].since + 1 .. answer'[p].cursor : Streams(p, log'[e])}
    BY DEF AnswersAreGapless, Streams
  <2>1. CASE p \in A \ lost
    <3>1. answer'[p] = a(p) /\ p \in A
      BY <1>3, <2>1
    <3> QED  BY <1>7, <3>1
  <2>2. CASE p \notin A \ lost
    <3>1. answer'[p] = answer[p] /\ answer[p].cursor <= N /\ answer[p] \in AnswerType
      BY <1>1, <1>3, <2>2 DEF Kept, Typed
    <3>2. \A e \in answer[p].since + 1 .. answer[p].cursor : log'[e] = log[e]
      <4>1. answer[p].since \in Nat /\ answer[p].cursor \in Nat
        BY <3>1, BoundsAssumption DEF AnswerType
      <4> QED  BY <1>4, <3>1, <4>1
    <3>3. answer[p].events =
            {e \in answer[p].since + 1 .. answer[p].cursor : Streams(p, log[e])}
      BY <1>1, <2>2, <3>1 DEF AnswersAreGapless
    <3> QED  BY <3>1, <3>2, <3>3 DEF Streams
  <2> QED  BY <2>1, <2>2
<1>15. NobodySleepsOnEvents'
  <2> SUFFICES ASSUME NEW p \in Waiting', NEW e \in Slice(p, ring)'
               PROVE  ~Streams(p, log'[e])
    BY DEF NobodySleepsOnEvents, Streams
  <2>1. p \in Waiting /\ p \notin A /\ waiter'[p].since = waiter[p].since
    BY <1>8, <1>10 DEF w
  <2>2. e \in Slice(p, ring')
    BY <2>1 DEF Slice, After
  <2>3. CASE p \in Settled(topic)
    BY <2>1, <2>2, <2>3 DEF Answered, Found
  <2>4. CASE p \notin Settled(topic)
    <3> DEFINE c == waiter[p].since
    <3>1. ~Streams(p, topic)
      BY <2>1, <2>2, <2>4 DEF Settled, Drained
    <3>2. CASE e = N + 1
      BY <1>4, <3>1, <3>2
    <3>3. CASE e # N + 1
      <4>1. c \in ring' /\ e \in First(Limit[p], After(c, ring')) /\ e \in ring'
        BY <2>2 DEF Slice, First, After
      <4>2. c \in ring /\ e \in ring /\ c \in 0 .. N /\ e \in 1 .. N
        <5>1. c \in 0 .. N
          BY <1>6, <2>1 DEF w
        <5>2. ring \subseteq 1 .. N
          BY <1>1 DEF Typed
        <5>3. c # N + 1
          BY <1>4, <5>1
        <5> QED  BY <1>5, <3>3, <4>1, <5>1, <5>2, <5>3
      <4> DEFINE old == {x \in After(c, ring) : x <= e}
                 new == {x \in After(c, ring') : x <= e}
      <4>3. old \subseteq new /\ new \in SUBSET (1 .. N + 1)
        <5>1. new \in SUBSET (1 .. N + 1)
          BY <1>5 DEF After
        <5>2. ASSUME NEW x \in old
              PROVE  x \in new
          <6>1. x \in ring /\ x > c /\ x <= e /\ ring \subseteq 1 .. N
            BY <1>1 DEF After, Typed
          <6>2. x \in c .. N + 1
            BY <1>4, <4>2, <6>1
          <6>3. x \in ring'
            BY <1>5, <4>1, <6>2
          <6> QED  BY <6>1, <6>3 DEF After
        <5> QED  BY <5>1, <5>2
      <4>4. Cardinality(new) <= Limit[p] /\ e \in After(c, ring')
        BY <4>1 DEF First
      <4>5. Cardinality(old) <= Limit[p]
        <5>1. Limit[p] \in Nat /\ N + 1 \in Nat
          BY <1>4, <1>6, <2>1, PollersAssumption
        <5> HIDE DEF old, new, N
        <5>2. old \in SUBSET (1 .. N + 1)
          BY <4>3
        <5>3. IsFiniteSet(new) /\ Cardinality(new) \in Nat /\ Cardinality(old) \in Nat
          BY <4>3, <5>1, <5>2, EnvelopesFinite
        <5>4. Cardinality(old) <= Cardinality(new)
          BY <4>3, <5>3, FS_Subset
        <5> QED  BY <4>4, <5>1, <5>3, <5>4
      <4>6. e \in First(Limit[p], After(c, ring))
        BY <4>2, <4>4, <4>5 DEF First, After
      <4>7. e \in Slice(p, ring)
        BY <4>2, <4>6 DEF Slice
      <4> QED  BY <1>1, <1>4, <2>1, <4>2, <4>7 DEF NobodySleepsOnEvents
    <3> QED  BY <3>2, <3>3
  <2> QED  BY <2>3, <2>4
<1> QED  BY <1>11, <1>12, <1>13, <1>14, <1>15 DEF IInv

\* Every step keeps the invariant.
LEMMA StepHolds ==
  ASSUME IInv, [Next]_vars
  PROVE  IInv'
<1>1. CASE UNCHANGED vars
  <2>1. Typed'
    BY <1>1 DEF vars, IInv, Typed, Waiting
  <2>2. Kept' /\ OneResponse' /\ AnswersAreGapless' /\ NobodySleepsOnEvents'
    BY <1>1 DEF vars, IInv, Kept, OneResponse, AnswersAreGapless, NobodySleepsOnEvents,
                Waiting, Streams, Slice, After
  <2> QED  BY <2>1, <2>2 DEF IInv
<1>2. CASE \E topic \in {"queue", "observer"} : Broadcast(topic)
  BY <1>2, BroadcastKeeps
<1>3. CASE \E p \in Pollers : \/ PollTooOld(p) \/ PollAnswered(p) \/ PollWaits(p)
                              \/ PollTimesOut(p) \/ Disconnect(p)
  BY <1>3, TooOldKeeps, AnsweredKeeps, WaitsKeeps, TimeOutKeeps, DisconnectKeeps
<1> QED  BY <1>1, <1>2, <1>3 DEF Next

-----------------------------------------------------------------------------
\* The inductive invariant of the long polls holds.
THEOREM LongPollInvariant == Spec => []IInv
<1>1. Init => IInv
  BY InitHolds
<1>2. IInv /\ [Next]_vars => IInv'
  BY StepHolds
<1> QED  BY <1>1, <1>2, PTL DEF Spec

\* The types: the ring stays within its size and the waiters within theirs, also when
\* one whose events were all filtered out is registered again.
THEOREM LongPollTypes == Spec => []TypeOK
<1>1. IInv => TypeOK
  BY DEF IInv, Typed, TypeOK
<1> QED  BY <1>1, LongPollInvariant, PTL

\* An answer that follows a cursor leaves out no envelope of the poller's stream up
\* to the cursor it gives, whatever the limit and however the ring is trimmed.
THEOREM PollsSkipNothing == Spec => []AnswersAreGapless
<1>1. IInv => AnswersAreGapless
  BY DEF IInv
<1> QED  BY <1>1, LongPollInvariant, PTL

\* A poller waits only while there is nothing of its stream in what it would be handed.
THEOREM WaitersAreWoken == Spec => []NobodySleepsOnEvents
<1>1. IInv => NobodySleepsOnEvents
  BY DEF IInv
<1> QED  BY <1>1, LongPollInvariant, PTL

\* Events, timers and closed connections never answer a request twice, and none is
\* forgotten.
THEOREM RequestsGetOneResponse == Spec => []OneResponse
<1>1. IInv => OneResponse
  BY DEF IInv
<1> QED  BY <1>1, LongPollInvariant, PTL
=============================================================================
