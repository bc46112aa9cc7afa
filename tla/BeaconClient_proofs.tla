------------------------- MODULE BeaconClient_proofs -------------------------
(***************************************************************************)
(* Theorems of BeaconClient: types, NoIntervalLeaks and                    *)
(* PollsUnderItsRecord.                                                    *)
(*                                                                         *)
(* NoIntervalLeaks rests on there being one registration under way at a    *)
(* time, and none while the intervals are set (OneChain): the one that     *)
(* ends finds no handles to overwrite.  The client's start is such a chain *)
(* too, with _Authenticating unset, and is safe from a second one only     *)
(* because nothing else is in flight then (Silent).                        *)
(*                                                                         *)
(* PollsUnderItsRecord rests on the deregistration being sent only by a    *)
(* stopped client (OneFarewell): none of its own requests can take the     *)
(* record from it while its session lasts, and when somebody else does,    *)
(* removed says so.  A client with intervals has a BeaconID (Named), so    *)
(* that one without a record is not one whose record was never made.       *)
(*                                                                         *)
(* The bounds of TypeOK need two counts: a retry is due to a failure or to *)
(* a session lost since it was given (Retried), and a new BeaconID to a    *)
(* new epoch of the server, to a removal or to the client's one            *)
(* deregistration (Numbered).                                              *)
(***************************************************************************)
EXTENDS BeaconClient, TLAPS, FiniteSetTheorems

Chain == {"authenticate", "register"}

\* The bag of requests is one, and the requests of these kinds are one at most.
Has(rs, kinds) == \E r \in DOMAIN rs : r.kind \in kinds
Lone(rs, kinds) ==
  \A r, s \in DOMAIN rs : r.kind \in kinds /\ s.kind \in kinds => r = s /\ rs[r] = 1
Sent(rs) == DOMAIN rs \subseteq Request /\ rs \in [DOMAIN rs -> Nat \ {0}]

OneChain ==
  /\ Lone(requests, Chain)
  /\ Has(requests, Chain) <=> authenticating \/ life = "starting"
  /\ Has(requests, Chain) => ~handle

Silent ==
  life \in {"new", "starting"} =>
    /\ ~authenticating /\ ~handle /\ active = {} /\ retries = 0
    /\ \A r \in DOMAIN requests : r.kind \in Chain

OneFarewell ==
  /\ Lone(requests, {"deregister"})
  /\ Has(requests, {"deregister"}) => life = "stopped"

Retried ==
  /\ retries + 1 <= failures + epoch
  /\ \A r \in DOMAIN requests : r.kind = "register" =>
       r.cookie \in 1 .. epoch /\ retries + 1 <= failures + r.cookie

\* The BeaconID the next registration will give; that the deregistration may have cost.
Due    == IF registered = None THEN 1 ELSE 0
Parted == IF life = "stopped" /\ ~Has(requests, {"deregister"}) THEN 1 ELSE 0
Lives  == epoch + removals
Numbered == ids + Due <= Lives + Parted

\* A client that polls has been given a BeaconID.
Named == handle => beaconID # None

IInv ==
  /\ TypeOK /\ NoIntervalLeaks /\ OneChain /\ Silent /\ OneFarewell
  /\ Retried /\ Numbered /\ Named /\ PollsUnderItsRecord

-----------------------------------------------------------------------------
(***************************************************************************)
(* Sending and answering a request.                                        *)
(***************************************************************************)
\* Sending adds one copy of a request.
LEMMA Sending ==
  ASSUME NEW rs, NEW e \in Request, Sent(rs)
  PROVE  /\ Sent(BagAdd(rs, e)) /\ DOMAIN BagAdd(rs, e) = DOMAIN rs \cup {e}
         /\ \A r \in DOMAIN rs : r # e => BagAdd(rs, e)[r] = rs[r]
         /\ e \notin DOMAIN rs => BagAdd(rs, e)[e] = 1
<1>1. rs \in [DOMAIN rs -> Nat \ {0}] /\ DOMAIN rs \subseteq Request
  BY DEF Sent
<1>2. CASE e \in DOMAIN rs
  <2> DEFINE new == [x \in DOMAIN rs |-> IF x = e THEN rs[x] + 1 ELSE rs[x]]
  <2>1. BagAdd(rs, e) = new
    BY <1>2 DEF BagAdd
  <2>2. new \in [DOMAIN rs -> Nat \ {0}]
    BY <1>1
  <2> QED  BY <1>1, <1>2, <2>1, <2>2 DEF Sent
<1>3. CASE e \notin DOMAIN rs
  <2> DEFINE new == [x \in DOMAIN rs \cup {e} |-> IF x = e THEN 1 ELSE rs[x]]
  <2>1. BagAdd(rs, e) = new
    BY <1>3 DEF BagAdd
  <2>2. new \in [DOMAIN rs \cup {e} -> Nat \ {0}]
    BY <1>1
  <2> QED  BY <1>1, <1>3, <2>1, <2>2 DEF Sent
<1> QED  BY <1>2, <1>3

\* An answer takes one copy.
LEMMA Answering ==
  ASSUME NEW rs, NEW e \in DOMAIN rs, Sent(rs)
  PROVE  /\ Sent(BagRemove(rs, e)) /\ DOMAIN BagRemove(rs, e) \subseteq DOMAIN rs
         /\ \A r \in DOMAIN rs : r # e => r \in DOMAIN BagRemove(rs, e)
                                          /\ BagRemove(rs, e)[r] = rs[r]
         /\ rs[e] = 1 => e \notin DOMAIN BagRemove(rs, e)
<1>1. rs \in [DOMAIN rs -> Nat \ {0}] /\ DOMAIN rs \subseteq Request
  BY DEF Sent
<1>2. CASE rs[e] = 1
  <2> DEFINE new == [x \in DOMAIN rs \ {e} |-> rs[x]]
  <2>1. BagRemove(rs, e) = new
    BY <1>2 DEF BagRemove
  <2>2. new \in [DOMAIN rs \ {e} -> Nat \ {0}]
    BY <1>1
  <2> QED  BY <1>1, <1>2, <2>1, <2>2 DEF Sent
<1>3. CASE rs[e] # 1
  <2> DEFINE new == [x \in DOMAIN rs |-> IF x = e THEN rs[x] - 1 ELSE rs[x]]
  <2>1. BagRemove(rs, e) = new
    BY <1>3 DEF BagRemove
  <2>2. new \in [DOMAIN rs -> Nat \ {0}]
    <3> SUFFICES ASSUME NEW x \in DOMAIN rs PROVE new[x] \in Nat \ {0}
      OBVIOUS
    <3>1. rs[x] \in Nat \ {0}
      BY <1>1
    <3>2. x = e => rs[x] # 1
      BY <1>3
    <3>3. \A n \in Nat \ {0} : n # 1 => n - 1 \in Nat \ {0}
      OBVIOUS
    <3> QED  BY <3>1, <3>2, <3>3
  <2> QED  BY <1>1, <1>3, <2>1, <2>2 DEF Sent
<1> QED  BY <1>2, <1>3

\* A request of another kind changes nothing of these kinds.
LEMMA OthersStay ==
  ASSUME NEW rs, NEW kinds, NEW e, Sent(rs), e.kind \notin kinds
  PROVE  /\ e \in Request =>
              /\ Lone(rs, kinds) => Lone(BagAdd(rs, e), kinds)
              /\ Has(BagAdd(rs, e), kinds) <=> Has(rs, kinds)
         /\ e \in DOMAIN rs =>
              /\ Lone(rs, kinds) => Lone(BagRemove(rs, e), kinds)
              /\ Has(BagRemove(rs, e), kinds) <=> Has(rs, kinds)
<1>1. ASSUME e \in Request
      PROVE  /\ Lone(rs, kinds) => Lone(BagAdd(rs, e), kinds)
             /\ Has(BagAdd(rs, e), kinds) <=> Has(rs, kinds)
  <2> DEFINE more == BagAdd(rs, e)
  <2>1. /\ DOMAIN more = DOMAIN rs \cup {e}
        /\ \A r \in DOMAIN rs : r # e => more[r] = rs[r]
    BY <1>1, Sending
  <2> HIDE DEF more
  <2>2. Lone(more, kinds) \/ ~Lone(rs, kinds)
    BY <2>1 DEF Lone
  <2>3. Has(more, kinds) <=> Has(rs, kinds)
    BY <2>1 DEF Has
  <2> QED  BY <2>2, <2>3 DEF more
<1>2. ASSUME e \in DOMAIN rs
      PROVE  /\ Lone(rs, kinds) => Lone(BagRemove(rs, e), kinds)
             /\ Has(BagRemove(rs, e), kinds) <=> Has(rs, kinds)
  BY <1>2, Answering DEF Lone, Has
<1> QED  BY <1>1, <1>2

\* The first request of these kinds is alone.
LEMMA FirstIsAlone ==
  ASSUME NEW rs, NEW kinds, NEW e \in Request, Sent(rs), e.kind \in kinds, ~Has(rs, kinds)
  PROVE  Lone(BagAdd(rs, e), kinds) /\ Has(BagAdd(rs, e), kinds)
<1> DEFINE more == BagAdd(rs, e)
<1>1. DOMAIN more = DOMAIN rs \cup {e} /\ (e \notin DOMAIN rs => more[e] = 1)
  BY Sending
<1> HIDE DEF more
<1>2. \A r \in DOMAIN rs : r.kind \notin kinds
  BY DEF Has
<1>3. Lone(more, kinds) /\ Has(more, kinds)
  BY <1>1, <1>2 DEF Lone, Has
<1> QED  BY <1>3 DEF more

\* When the one request of these kinds is answered there is none.
LEMMA LastIsGone ==
  ASSUME NEW rs, NEW kinds, NEW e \in DOMAIN rs, Sent(rs), e.kind \in kinds, Lone(rs, kinds)
  PROVE  ~Has(BagRemove(rs, e), kinds) /\ Lone(BagRemove(rs, e), kinds)
BY Answering DEF Lone, Has

\* The login is a request.
LEMMA AuthenticateIsRequest ==
  Authenticate \in Request /\ Authenticate.kind = "authenticate"
BY BoundsAssumption DEF Authenticate, Request, Cookies, NoCookie

\* The invariant has the bag of requests typed.
LEMMA IInvSent ==
  ASSUME IInv PROVE Sent(requests)
BY DEF IInv, TypeOK, Sent

\* The bounds of TypeOK on the counters follow from what they count.
LEMMA CountsAreBounded ==
  ASSUME NEW n \in Nat, NEW i \in Nat, NEW f \in 0 .. MaxFailures, NEW e \in 1 .. MaxEpochs,
         NEW m \in 0 .. MaxRemovals
  PROVE  /\ n + 1 <= f + e => n \in 0 .. MaxFailures + 2 * MaxEpochs
         /\ i <= e + m + 1 => i \in 0 .. MaxIDs
BY BoundsAssumption DEF MaxIDs

\* The number of times a record of the beacon may have begun.
LEMMA LivesIsNat ==
  ASSUME TypeOK PROVE Lives \in Nat
<1>1. epoch \in Nat /\ removals \in Nat
  BY BoundsAssumption DEF TypeOK
<1> QED  BY <1>1 DEF Lives

\* The counters of a state that keeps the counts.
LEMMA CountersTyped ==
  ASSUME retries' \in Nat, ids' \in Nat, failures' \in 0 .. MaxFailures,
         epoch' \in 1 .. MaxEpochs, removals' \in 0 .. MaxRemovals, Retried', Numbered'
  PROVE  retries' \in 0 .. MaxFailures + 2 * MaxEpochs /\ ids' \in 0 .. MaxIDs
<1>1. retries' + 1 <= failures' + epoch'
  BY DEF Retried
<1>2. ids' <= epoch' + removals' + 1
  <2>1. /\ Due' \in {0, 1} /\ Parted' \in {0, 1}
        /\ ids' + Due' <= epoch' + removals' + Parted'
    BY DEF Numbered, Due, Parted, Lives
  <2>2. \A i, e \in Nat : \A a, b \in {0, 1} : i + a <= e + b => i <= e + 1
    OBVIOUS
  <2>3. epoch' + removals' \in Nat
    <3>1. \A e, m \in Nat : e + m \in Nat
      OBVIOUS
    <3>2. epoch' \in Nat /\ removals' \in Nat
      BY BoundsAssumption
    <3> QED  BY <3>1, <3>2
  <2> QED  BY <2>1, <2>2, <2>3
<1> QED  BY <1>1, <1>2, CountsAreBounded

\* A request of the client's.
LEMMA ReqIsRequest ==
  ASSUME cookie \in Cookies, NEW k \in Plain, NEW b \in (1 .. MaxIDs) \cup {None},
         NEW i \in (1 .. MaxItems) \cup {None}
  PROVE  Req(k, b, i) \in Request /\ Req(k, b, i).kind = k
BY DEF Req, Request

-----------------------------------------------------------------------------
(***************************************************************************)
(* Reconnection.                                                           *)
(***************************************************************************)
\* The requests rs, of which at most one is of a chain under way.
Ready(rs) ==
  /\ Sent(rs) /\ Lone(rs, Chain)
  /\ Has(rs, Chain) <=> authenticating
  /\ Has(rs, Chain) => ~handle

\* _reconnect leaves one chain under way, and no intervals but those of a chain.
LEMMA ReconnectKeeps ==
  ASSUME TypeOK, NoIntervalLeaks, NEW rs, Ready(rs), Reconnect(rs)
  PROVE  /\ Sent(requests') /\ Lone(requests', Chain)
         /\ Has(requests', Chain) <=> authenticating'
         /\ Has(requests', Chain) => ~handle'
         /\ NoIntervalLeaks' /\ handle' \in BOOLEAN /\ authenticating' \in BOOLEAN
         /\ cookie' \in {cookie, NoCookie}
         /\ handle' => handle /\ cookie' = cookie
         /\ Lone(rs, {"deregister"}) => Lone(requests', {"deregister"})
         /\ Has(requests', {"deregister"}) <=> Has(rs, {"deregister"})
         /\ \A r \in DOMAIN requests' : r.kind # "authenticate" => r \in DOMAIN rs
<1>1. CASE ChainStarts
  <2>1. /\ authenticating' = TRUE /\ handle' = FALSE /\ intervals' = Cleared
        /\ cookie' = NoCookie /\ requests' = BagAdd(rs, Authenticate)
    BY <1>1 DEF Reconnect
  <2>2. Sent(rs) /\ ~Has(rs, Chain)
    BY <1>1 DEF Ready, ChainStarts
  <2>3. Authenticate.kind \in Chain /\ Authenticate.kind \notin {"deregister"}
    BY AuthenticateIsRequest DEF Chain
  <2>4. /\ Sent(requests') /\ DOMAIN requests' = DOMAIN rs \cup {Authenticate}
    BY <2>1, <2>2, AuthenticateIsRequest, Sending
  <2>5. Lone(requests', Chain) /\ Has(requests', Chain)
    BY <2>1, <2>2, <2>3, AuthenticateIsRequest, FirstIsAlone
  <2>6. /\ Lone(rs, {"deregister"}) => Lone(requests', {"deregister"})
        /\ Has(requests', {"deregister"}) <=> Has(rs, {"deregister"})
    BY <2>1, <2>2, <2>3, AuthenticateIsRequest, OthersStay
  <2>7. NoIntervalLeaks'
    BY <2>1 DEF NoIntervalLeaks, Cleared, TypeOK
  <2> QED  BY <2>1, <2>4, <2>5, <2>6, <2>7, AuthenticateIsRequest
<1>2. CASE ~ChainStarts
  <2>1. requests' = rs /\ UNCHANGED <<authenticating, handle, intervals, cookie>>
    BY <1>2 DEF Reconnect
  <2> QED  BY <2>1 DEF Ready, NoIntervalLeaks, TypeOK
<1> QED  BY <1>1, <1>2

-----------------------------------------------------------------------------
(***************************************************************************)
(* The chain of a registration.                                            *)
(***************************************************************************)
LEMMA StartKeeps ==
  ASSUME IInv, Start PROVE IInv'
<1> DEFINE sent == BagAdd(requests, Authenticate)
<1>1. /\ life = "new" /\ life' = "starting" /\ requests' = sent
      /\ UNCHANGED <<chainVars, active, serverVars, failures>>
  BY DEF Start
<1>2. Sent(requests) /\ ~Has(requests, Chain) /\ ~authenticating /\ ~handle
  BY <1>1, IInvSent DEF IInv, OneChain, Silent
<1>3. Authenticate.kind \in Chain /\ Authenticate.kind \notin {"deregister"}
  BY AuthenticateIsRequest DEF Chain
<1>4. Sent(requests') /\ DOMAIN requests' = DOMAIN requests \cup {Authenticate}
  BY <1>1, <1>2, AuthenticateIsRequest, Sending
<1>5. Lone(requests', Chain) /\ Has(requests', Chain)
  BY <1>1, <1>2, <1>3, AuthenticateIsRequest, FirstIsAlone
<1>6. /\ Lone(requests, {"deregister"}) => Lone(requests', {"deregister"})
      /\ Has(requests', {"deregister"}) <=> Has(requests, {"deregister"})
  BY <1>1, <1>2, <1>3, AuthenticateIsRequest, OthersStay
<1> HIDE DEF sent
<1>7. TypeOK'
  BY <1>1, <1>4 DEF IInv, TypeOK, Sent, chainVars, serverVars, outside
<1>8. OneChain' /\ Silent' /\ OneFarewell'
  BY <1>1, <1>2, <1>3, <1>4, <1>5, <1>6
  DEF IInv, OneChain, Silent, OneFarewell, chainVars, serverVars, outside
<1>9. Retried' /\ Numbered'
  BY <1>1, <1>4, <1>6, AuthenticateIsRequest
  DEF IInv, Retried, Numbered, Due, Parted, Lives, chainVars, serverVars, outside
<1>10. NoIntervalLeaks' /\ Named' /\ PollsUnderItsRecord'
  BY <1>1 DEF IInv, NoIntervalLeaks, Named, PollsUnderItsRecord, chainVars, serverVars, outside
<1> QED  BY <1>7, <1>8, <1>9, <1>10 DEF IInv

\* The answer to a login keeps the invariant.
LEMMA AuthenticatedKeeps ==
  ASSUME IInv, Authenticated PROVE IInv'
<1>1. PICK r \in DOMAIN requests :
        /\ r.kind = "authenticate"
        /\ cookie' = epoch
        /\ requests' = BagAdd(BagRemove(requests, r),
                              [Authenticate EXCEPT !.kind = "register", !.cookie = epoch])
        /\ UNCHANGED <<life, beaconID, authenticating, handle, intervals, retries, active,
                       serverVars, failures>>
  BY DEF Authenticated, Pending
<1> DEFINE e  == [Authenticate EXCEPT !.kind = "register", !.cookie = epoch]
           rs == BagRemove(requests, r)
<1>2. epoch \in 1 .. MaxEpochs
  BY DEF IInv, TypeOK
<1>3. e \in Request /\ e.kind = "register" /\ e.cookie = epoch
  <2>1. epoch \in Cookies /\ "register" \in Plain \cup {"authenticate", "register"}
    BY <1>2, BoundsAssumption DEF Cookies
  <2>2. e \in Request
    BY <2>1, AuthenticateIsRequest DEF Request
  <2> QED  BY <2>2, AuthenticateIsRequest DEF Request
<1> HIDE DEF e
<1>4. Sent(requests) /\ Lone(requests, Chain) /\ Has(requests, Chain)
  BY <1>1, IInvSent DEF IInv, OneChain, Has, Chain
<1>5. Sent(rs) /\ DOMAIN rs \subseteq DOMAIN requests
  BY <1>4, Answering
<1>6. ~Has(rs, Chain)
  BY <1>1, <1>4, LastIsGone DEF Chain
<1>7. /\ Lone(requests, {"deregister"}) => Lone(rs, {"deregister"})
      /\ Has(rs, {"deregister"}) <=> Has(requests, {"deregister"})
  BY <1>1, <1>4, OthersStay
<1> HIDE DEF rs
<1>8. requests' = BagAdd(rs, e)
  BY <1>1 DEF e, rs
<1>9. Sent(requests') /\ DOMAIN requests' = DOMAIN rs \cup {e}
  BY <1>3, <1>5, <1>8, Sending
<1>10. Lone(requests', Chain) /\ Has(requests', Chain)
  BY <1>3, <1>5, <1>6, <1>8, FirstIsAlone DEF Chain
<1>11. /\ Lone(rs, {"deregister"}) => Lone(requests', {"deregister"})
       /\ Has(requests', {"deregister"}) <=> Has(rs, {"deregister"})
  BY <1>3, <1>5, <1>8, OthersStay
<1>12. TypeOK'
  <2>1. cookie' \in 0 .. epoch'
    BY <1>1, <1>2 DEF serverVars, outside
  <2> QED  BY <1>1, <1>9, <2>1 DEF IInv, TypeOK, Sent, serverVars, outside
<1>13. OneChain' /\ Silent' /\ OneFarewell'
  BY <1>1, <1>3, <1>4, <1>5, <1>7, <1>9, <1>10, <1>11
  DEF IInv, OneChain, Silent, OneFarewell, Chain, serverVars, outside
<1>14. Retried'
  <2>1. \A q \in DOMAIN requests' : q.kind = "register" => q = e
    BY <1>6, <1>9 DEF Has, Chain
  <2> QED  BY <1>1, <1>2, <1>3, <2>1 DEF IInv, Retried, serverVars, outside
<1>15. Numbered'
  BY <1>1, <1>7, <1>11 DEF IInv, Numbered, Due, Parted, Lives, serverVars, outside
<1>16. NoIntervalLeaks' /\ Named' /\ PollsUnderItsRecord'
  BY <1>1, <1>4 DEF IInv, NoIntervalLeaks, OneChain, Named, PollsUnderItsRecord,
                    serverVars, outside
<1> QED  BY <1>12, <1>13, <1>14, <1>15, <1>16 DEF IInv

\* A registration gives the record's BeaconID, or a new one.
LEMMA RegisterGives ==
  ASSUME TypeOK, Register
  PROVE  /\ ids' \in Nat /\ ids <= ids' /\ registered' \in 1 .. ids'
         /\ ids' = ids + Due
         /\ held' = held \/ held' = {}
<1>1. ids \in Nat /\ registered \in (1 .. ids) \cup {None}
  BY DEF TypeOK
<1>2. CASE registered = None
  <2>1. ids' = ids + 1 /\ registered' = ids' /\ held' = {}
    BY <1>2 DEF Register
  <2> QED  BY <1>1, <1>2, <2>1 DEF Due
<1>3. CASE registered # None
  BY <1>1, <1>3 DEF Register, Due
<1> QED  BY <1>2, <1>3

\* The answer to a registration sets the intervals: none were set, so none leak.
LEMMA RegisteredKeeps ==
  ASSUME IInv, NEW r \in DOMAIN requests, r.kind = "register", Registered(r)
  PROVE  IInv'
<1> DEFINE rs == BagRemove(requests, r)
           e  == Req("poll", beaconID', None)
<1>1. /\ Register /\ beaconID' = registered' /\ SetIntervals /\ authenticating' = FALSE
      /\ life' = IF life = "starting" THEN "running" ELSE life
      /\ requests' = rs \/ (life' = "running" /\ requests' = BagAdd(rs, e))
      /\ removed' = FALSE
      /\ UNCHANGED <<cookie, retries, active, epoch, given, secured, removals, failures>>
  BY DEF Registered, MayPoll
<1>2. /\ TypeOK /\ cookie \in 0 .. epoch /\ epoch \in 1 .. MaxEpochs /\ MaxEpochs \in Nat
      /\ removals \in 0 .. MaxRemovals /\ MaxRemovals \in Nat
  BY BoundsAssumption DEF IInv, TypeOK
<1>3. /\ ids' \in Nat /\ ids <= ids' /\ registered' \in 1 .. ids' /\ registered' # None
      /\ ids' = ids + Due
      /\ held' = held \/ held' = {}
  BY <1>1, <1>2, RegisterGives, NoneAssumption
<1>4. Sent(requests) /\ Lone(requests, Chain) /\ Has(requests, Chain) /\ ~handle
  BY IInvSent DEF IInv, OneChain, Has, Chain
<1>5. life # "new"
  BY <1>4 DEF IInv, OneChain, Silent
<1>6. Sent(rs) /\ DOMAIN rs \subseteq DOMAIN requests
  BY <1>4, Answering
<1>7. ~Has(rs, Chain) /\ Lone(rs, Chain)
  BY <1>4, LastIsGone DEF Chain
<1>8. /\ Lone(requests, {"deregister"}) => Lone(rs, {"deregister"})
      /\ Has(rs, {"deregister"}) <=> Has(requests, {"deregister"})
  BY <1>4, OthersStay
<1> HIDE DEF rs
<1>9. Numbered'
  <2>1. life = "stopped" => life' = "stopped" /\ requests' = rs
    BY <1>1
  <2>2. life' = "stopped" => life = "stopped"
    BY <1>1
  <2>3. Parted' = Parted
    BY <1>8, <2>1, <2>2 DEF Parted
  <2>4. Due' = 0
    BY <1>3 DEF Due
  <2> QED  BY <1>1, <1>3, <2>3, <2>4 DEF IInv, Numbered, Lives
<1>10. ids' \in 0 .. MaxIDs
  <2>1. ids' <= epoch + removals + 1
    <3>1. ids' <= epoch + removals + Parted /\ Parted \in {0, 1}
      BY <1>3 DEF IInv, Numbered, Lives, Parted
    <3> QED  BY <1>2, <1>3, <3>1
  <2> QED  BY <1>2, <1>3, <2>1, BoundsAssumption DEF MaxIDs
<1>11. e \in Request /\ e.kind = "poll"
  <2>1. beaconID' \in (1 .. MaxIDs) \cup {None}
    BY <1>1, <1>2, <1>3, <1>10, BoundsAssumption DEF MaxIDs
  <2>2. cookie \in Cookies
    BY <1>2 DEF Cookies
  <2>3. "poll" \in Plain
    BY DEF Plain
  <2> QED  BY <2>1, <2>2, <2>3, ReqIsRequest
<1> HIDE DEF e
<1>12. /\ Sent(requests') /\ DOMAIN requests' \subseteq DOMAIN requests \cup {e}
  <2>1. requests' = rs \/ requests' = BagAdd(rs, e)
    BY <1>1
  <2>2. Sent(BagAdd(rs, e)) /\ DOMAIN BagAdd(rs, e) = DOMAIN rs \cup {e}
    BY <1>6, <1>11, Sending
  <2> QED  BY <1>6, <2>1, <2>2
<1>13. ~Has(requests', Chain) /\ Lone(requests', Chain)
  BY <1>1, <1>6, <1>7, <1>11, OthersStay DEF Chain
<1>14. /\ Lone(rs, {"deregister"}) => Lone(requests', {"deregister"})
       /\ Has(requests', {"deregister"}) <=> Has(rs, {"deregister"})
  BY <1>1, <1>6, <1>11, OthersStay
<1>15. Retried'
  <2>1. \A q \in DOMAIN requests' : q.kind # "register"
    BY <1>13 DEF Has, Chain
  <2> QED  BY <1>1, <2>1 DEF IInv, Retried
<1>16. handle' = TRUE /\ intervals' = 1
  BY <1>1, <1>4 DEF SetIntervals, IInv, NoIntervalLeaks
<1>17. TypeOK'
  <2>1. held' \subseteq 1 .. given' /\ Cardinality(held') <= MaxConcurrent
    <3>1. CASE held' = held
      BY <1>1, <1>2, <3>1 DEF TypeOK
    <3>2. CASE held' = {}
      <4>1. Cardinality(held') = 0
        BY <3>2, FS_EmptySet
      <4>2. held' \subseteq 1 .. given' /\ Cardinality(held') = 0
        BY <3>2, <4>1
      <4> QED  BY <4>2, BoundsAssumption
    <3> QED  BY <1>3, <3>1, <3>2
  <2>2. beaconID' \in (1 .. ids') \cup {None} /\ registered' \in (1 .. ids') \cup {None}
    BY <1>1, <1>3
  <2>3. life' \in {"new", "starting", "running", "failed", "stopped"}
    BY <1>1, <1>2 DEF TypeOK
  <2>4. DOMAIN requests' \subseteq Request /\ requests' \in [DOMAIN requests' -> Nat \ {0}]
    BY <1>12 DEF Sent
  <2>5. /\ cookie' \in 0 .. epoch' /\ authenticating' \in BOOLEAN /\ handle' \in BOOLEAN
        /\ intervals' \in Nat /\ intervals' > 0
    <3>1. cookie' = cookie /\ epoch' = epoch /\ authenticating' = FALSE
      BY <1>1
    <3>2. authenticating' \in BOOLEAN /\ handle' \in BOOLEAN
      BY <1>16, <3>1
    <3>3. intervals' \in Nat /\ intervals' > 0
      BY <1>16
    <3>4. cookie' \in 0 .. epoch'
      BY <1>2, <3>1
    <3> QED  BY <3>2, <3>3, <3>4
  <2>6. /\ retries' \in 0 .. MaxFailures + 2 * MaxEpochs
        /\ given' \in 0 .. MaxItems /\ active' \subseteq 1 .. given'
        /\ epoch' \in 1 .. MaxEpochs /\ failures' \in 0 .. MaxFailures
    <3>1. UNCHANGED <<retries, active, epoch, given, failures>>
      BY <1>1
    <3>2. /\ retries \in 0 .. MaxFailures + 2 * MaxEpochs
          /\ given \in 0 .. MaxItems /\ active \subseteq 1 .. given
          /\ epoch \in 1 .. MaxEpochs /\ failures \in 0 .. MaxFailures
      BY <1>2 DEF TypeOK
    <3> QED  BY <3>1, <3>2
  <2>7. /\ secured' \in BOOLEAN /\ (NonPromiscuous => secured')
        /\ removals' \in 0 .. MaxRemovals /\ removed' \in BOOLEAN
    BY <1>1, <1>2 DEF TypeOK
  <2> QED  BY <1>10, <2>1, <2>2, <2>3, <2>4, <2>5, <2>6, <2>7 DEF TypeOK
<1>18. OneChain' /\ Silent' /\ OneFarewell'
  <2>1. life' \notin {"new", "starting"}
    BY <1>1, <1>5
  <2>2. life = "stopped" => life' = "stopped"
    BY <1>1
  <2> QED  BY <1>1, <1>8, <1>13, <1>14, <2>1, <2>2
           DEF IInv, OneChain, Silent, OneFarewell
<1>19. NoIntervalLeaks' /\ Named' /\ PollsUnderItsRecord'
  BY <1>1, <1>3, <1>16 DEF NoIntervalLeaks, Named, PollsUnderItsRecord
<1> QED  BY <1>9, <1>15, <1>17, <1>18, <1>19 DEF IInv

\* What is left when the request of a chain is answered or has failed.
LEMMA ChainEnds ==
  ASSUME IInv, NEW r \in DOMAIN requests, r.kind \in Chain
  PROVE  /\ Sent(BagRemove(requests, r))
         /\ DOMAIN BagRemove(requests, r) \subseteq DOMAIN requests
         /\ ~Has(BagRemove(requests, r), Chain) /\ Lone(BagRemove(requests, r), Chain)
         /\ Lone(BagRemove(requests, r), {"deregister"})
         /\ Has(BagRemove(requests, r), {"deregister"}) <=> Has(requests, {"deregister"})
         /\ ~handle /\ life # "new" /\ (authenticating \/ life = "starting")
<1>1. /\ Sent(requests) /\ Lone(requests, Chain) /\ Has(requests, Chain)
      /\ Lone(requests, {"deregister"}) /\ ~handle
      /\ authenticating \/ life = "starting"
  BY IInvSent DEF IInv, OneChain, OneFarewell, Has
<1>2. life # "new"
  BY <1>1 DEF IInv, Silent
<1>3. r.kind \notin {"deregister"}
  BY DEF Chain
<1> QED  BY <1>1, <1>2, <1>3, Answering, LastIsGone, OthersStay

\* A registration that meets a 401 fails its chain, or that of the start begins another.
LEMMA RegisterUnauthorizedKeeps ==
  ASSUME IInv, NEW r \in DOMAIN requests, r.kind = "register", RegisterUnauthorized(r)
  PROVE  IInv'
<1> DEFINE rs == BagRemove(requests, r)
<1>1. /\ Sent(rs) /\ DOMAIN rs \subseteq DOMAIN requests
      /\ ~Has(rs, Chain) /\ Lone(rs, Chain) /\ Lone(rs, {"deregister"})
      /\ Has(rs, {"deregister"}) <=> Has(requests, {"deregister"})
      /\ ~handle /\ life # "new" /\ (authenticating \/ life = "starting")
  BY ChainEnds DEF Chain
<1>2. UNCHANGED <<beaconID, active, epoch, registered, held, given, ids, outside, failures>>
  BY DEF RegisterUnauthorized, serverVars, outside
<1>3. \/ life = "starting" /\ life' = "failed" /\ Reconnect(rs) /\ UNCHANGED retries
      \/ life # "starting" /\ requests' = rs /\ ChainFails /\ UNCHANGED <<cookie, handle, intervals>>
  BY DEF RegisterUnauthorized
<1> HIDE DEF rs
<1>4. /\ TypeOK /\ NoIntervalLeaks /\ retries \in Nat /\ epoch \in Nat /\ failures \in Nat
      /\ epoch \in 1 .. MaxEpochs /\ failures \in 0 .. MaxFailures /\ cookie \in 0 .. epoch
  BY BoundsAssumption DEF IInv, TypeOK
<1>5. r.cookie \in 1 .. epoch /\ r.cookie # epoch /\ retries + 1 <= failures + r.cookie
  BY DEF RegisterUnauthorized, Authorized, IInv, Retried
<1>6. \A n, c, e, f \in Nat : c <= e /\ c # e /\ n + 1 <= f + c => n + 1 + 1 <= f + e
  OBVIOUS
<1>7. retries + 1 + 1 <= failures + epoch
  BY <1>4, <1>5, <1>6
<1>8. CASE life = "starting"
  <2>1. life' = "failed" /\ Reconnect(rs) /\ UNCHANGED retries
    BY <1>3, <1>8
  <2>2. Ready(rs)
    BY <1>1, <1>8 DEF Ready, IInv, Silent
  <2>3. /\ Sent(requests') /\ Lone(requests', Chain)
        /\ Has(requests', Chain) <=> authenticating'
        /\ Has(requests', Chain) => ~handle'
        /\ NoIntervalLeaks' /\ handle' \in BOOLEAN /\ authenticating' \in BOOLEAN
        /\ cookie' \in {cookie, NoCookie} /\ (handle' => handle)
        /\ Lone(requests', {"deregister"})
        /\ Has(requests', {"deregister"}) <=> Has(rs, {"deregister"})
        /\ \A q \in DOMAIN requests' : q.kind # "authenticate" => q \in DOMAIN rs
    BY <1>1, <1>4, <2>1, <2>2, ReconnectKeeps
  <2>4. TypeOK'
    <3>1. /\ DOMAIN requests' \subseteq Request
          /\ requests' \in [DOMAIN requests' -> Nat \ {0}]
      BY <2>3 DEF Sent
    <3>2. cookie' \in 0 .. epoch'
      BY <1>2, <1>4, <2>3 DEF NoCookie
    <3>3. intervals' \in Nat /\ (handle' => intervals' > 0)
      BY <2>3 DEF NoIntervalLeaks
    <3> QED  BY <1>2, <1>4, <2>1, <2>3, <3>1, <3>2, <3>3 DEF TypeOK, outside
  <2>5. OneChain' /\ Silent' /\ OneFarewell'
    BY <1>1, <1>8, <2>1, <2>3 DEF OneChain, Silent, OneFarewell, IInv
  <2>6. Retried'
    <3>1. \A q \in DOMAIN requests' : q.kind # "register"
      BY <1>1, <2>3 DEF Has, Chain
    <3> QED  BY <1>2, <2>1, <3>1 DEF IInv, Retried
  <2>7. Numbered'
    BY <1>1, <1>2, <1>8, <2>1, <2>3 DEF IInv, Numbered, Due, Parted, Lives, outside
  <2>8. Named' /\ PollsUnderItsRecord'
    BY <1>1, <2>1, <2>3 DEF Named, PollsUnderItsRecord
  <2> QED  BY <2>3, <2>4, <2>5, <2>6, <2>7, <2>8 DEF IInv
<1>9. CASE life # "starting"
  <2>1. /\ requests' = rs /\ UNCHANGED <<cookie, handle, intervals>>
        /\ life' = life /\ authenticating' = FALSE /\ retries' = retries + 1
    BY <1>3, <1>9 DEF ChainFails, TryAgain
  <2>2. OneChain' /\ Silent' /\ OneFarewell'
    BY <1>1, <1>9, <2>1 DEF OneChain, Silent, OneFarewell, IInv
  <2>3. Retried'
    <3>1. \A q \in DOMAIN requests' : q.kind # "register"
      BY <1>1, <2>1 DEF Has, Chain
    <3> QED  BY <1>2, <1>7, <2>1, <3>1 DEF Retried
  <2>4. Numbered'
    BY <1>1, <1>2, <2>1 DEF IInv, Numbered, Due, Parted, Lives, outside
  <2>5. TypeOK'
    <3>1. /\ DOMAIN requests' \subseteq Request
          /\ requests' \in [DOMAIN requests' -> Nat \ {0}]
      BY <1>1, <2>1 DEF Sent
    <3>2. retries' \in Nat /\ ids' \in Nat /\ removals' \in 0 .. MaxRemovals
      BY <1>2, <1>4, <2>1 DEF TypeOK, outside
    <3>3. retries' \in 0 .. MaxFailures + 2 * MaxEpochs /\ ids' \in 0 .. MaxIDs
      BY <1>2, <1>4, <2>3, <2>4, <3>2, CountersTyped
    <3> QED  BY <1>2, <1>4, <2>1, <3>1, <3>3 DEF TypeOK, outside
  <2>6. NoIntervalLeaks' /\ Named' /\ PollsUnderItsRecord'
    BY <1>1, <1>4, <2>1 DEF NoIntervalLeaks, Named, PollsUnderItsRecord
  <2> QED  BY <2>2, <2>3, <2>4, <2>5, <2>6 DEF IInv
<1> QED  BY <1>8, <1>9

\* A failed login or registration ends its chain.
LEMMA ChainRequestFailsKeeps ==
  ASSUME IInv, NEW r \in DOMAIN requests, r.kind \in Chain, ChainRequestFails(r)
  PROVE  IInv'
<1> DEFINE rs == BagRemove(requests, r)
<1>1. /\ Sent(rs) /\ DOMAIN rs \subseteq DOMAIN requests
      /\ ~Has(rs, Chain) /\ Lone(rs, Chain) /\ Lone(rs, {"deregister"})
      /\ Has(rs, {"deregister"}) <=> Has(requests, {"deregister"})
      /\ ~handle /\ life # "new" /\ (authenticating \/ life = "starting")
  BY ChainEnds
<1>2. /\ failures < MaxFailures /\ failures' = failures + 1 /\ requests' = rs /\ ChainFails
      /\ UNCHANGED <<registered, held, ids>> \/ Register
      /\ UNCHANGED <<beaconID, cookie, handle, intervals, active, epoch, given, outside>>
  BY DEF ChainRequestFails
<1> HIDE DEF rs
<1>3. /\ TypeOK /\ retries \in Nat /\ epoch \in Nat /\ failures \in Nat /\ ids \in Nat
      /\ epoch \in 1 .. MaxEpochs /\ failures' \in 0 .. MaxFailures
      /\ removals' \in 0 .. MaxRemovals
  BY <1>2, BoundsAssumption DEF IInv, TypeOK, outside
<1>4. \/ life = "starting" /\ life' = "failed" /\ authenticating' = authenticating /\ retries' = retries
      \/ life # "starting" /\ life' = life /\ authenticating' = FALSE /\ retries' = retries + 1
  BY <1>2 DEF ChainFails, TryAgain
<1>5. OneChain' /\ Silent' /\ OneFarewell'
  BY <1>1, <1>2, <1>4 DEF OneChain, Silent, OneFarewell, IInv
<1>6. Retried'
  <2>1. \A q \in DOMAIN requests' : q.kind # "register"
    BY <1>1, <1>2 DEF Has, Chain
  <2>2. retries + 1 <= failures + epoch
    BY DEF IInv, Retried
  <2>3. retries' + 1 <= failures' + epoch'
    BY <1>2, <1>3, <1>4, <2>2
  <2> QED  BY <2>1, <2>3 DEF Retried
<1>7. /\ ids' \in Nat /\ ids <= ids' /\ ids' + Due' = ids + Due
      /\ registered' \in (1 .. ids') \cup {None} /\ (held' = held \/ held' = {})
  <2>1. CASE Register
    <3>1. /\ ids' \in Nat /\ ids <= ids' /\ registered' \in 1 .. ids' /\ ids' = ids + Due
          /\ held' = held \/ held' = {}
      BY <1>3, <2>1, RegisterGives
    <3>2. Due' = 0
      BY <3>1, NoneAssumption DEF Due
    <3> QED  BY <3>1, <3>2
  <2>2. CASE UNCHANGED <<registered, held, ids>>
    BY <1>3, <2>2 DEF Due, TypeOK
  <2> QED  BY <1>2, <2>1, <2>2
<1>8. Numbered'
  <2>1. Parted' = Parted
    BY <1>1, <1>2, <1>4 DEF Parted
  <2>2. Lives' = Lives
    BY <1>2 DEF Lives, outside
  <2> QED  BY <1>7, <2>1, <2>2 DEF IInv, Numbered
<1>9. TypeOK'
  <2>1. /\ DOMAIN requests' \subseteq Request /\ requests' \in [DOMAIN requests' -> Nat \ {0}]
    BY <1>1, <1>2 DEF Sent
  <2>2. retries' \in Nat
    BY <1>3, <1>4
  <2>3. retries' \in 0 .. MaxFailures + 2 * MaxEpochs /\ ids' \in 0 .. MaxIDs
    BY <1>2, <1>3, <1>6, <1>7, <1>8, <2>2, CountersTyped
  <2>4. held' \subseteq 1 .. given' /\ Cardinality(held') <= MaxConcurrent
    <3>1. CASE held' = held
      BY <1>2, <1>3, <3>1 DEF TypeOK
    <3>2. CASE held' = {}
      <4>1. Cardinality(held') = 0
        BY <3>2, FS_EmptySet
      <4> QED  BY <3>2, <4>1, BoundsAssumption
    <3> QED  BY <1>7, <3>1, <3>2
  <2>5. beaconID' \in (1 .. ids') \cup {None}
    BY <1>2, <1>3, <1>7 DEF TypeOK
  <2>6. life' \in {"new", "starting", "running", "failed", "stopped"} /\ authenticating' \in BOOLEAN
    BY <1>3, <1>4 DEF TypeOK
  <2>7. /\ cookie' \in 0 .. epoch' /\ handle' \in BOOLEAN /\ intervals' \in Nat
        /\ (handle' => intervals' > 0) /\ given' \in 0 .. MaxItems /\ active' \subseteq 1 .. given'
        /\ epoch' \in 1 .. MaxEpochs
    BY <1>2, <1>3 DEF TypeOK
  <2>8. secured' \in BOOLEAN /\ (NonPromiscuous => secured') /\ removed' \in BOOLEAN
    BY <1>2, <1>3 DEF TypeOK, outside
  <2> QED  BY <1>3, <1>7, <2>1, <2>3, <2>4, <2>5, <2>6, <2>7, <2>8 DEF TypeOK
<1>10. NoIntervalLeaks' /\ Named' /\ PollsUnderItsRecord'
  BY <1>1, <1>2 DEF NoIntervalLeaks, Named, PollsUnderItsRecord, IInv, outside
<1> QED  BY <1>5, <1>6, <1>8, <1>9, <1>10 DEF IInv

-----------------------------------------------------------------------------
(***************************************************************************)
(* The timers, the work and the other requests.                            *)
(***************************************************************************)
\* A smaller number keeps a bound.
LEMMA NoMoreThan ==
  ASSUME NEW m \in Nat, NEW n \in Nat, m <= n
  PROVE  \A a \in Nat : n + 1 <= a => m + 1 <= a
OBVIOUS

\* A plain request, other than a deregistration, is sent.
LEMMA PlainSent ==
  ASSUME IInv, NEW e \in Request, e.kind \in {"poll", "heartbeat", "report"},
         requests' = BagAdd(requests, e), life \notin {"new", "starting"},
         UNCHANGED <<life, chainVars, serverVars, failures>>,
         active' \subseteq active
  PROVE  IInv'
<1>1. Sent(requests)
  BY IInvSent
<1>2. Sent(requests') /\ DOMAIN requests' = DOMAIN requests \cup {e}
  BY <1>1, Sending
<1>3. /\ Lone(requests, Chain) => Lone(requests', Chain)
      /\ Has(requests', Chain) <=> Has(requests, Chain)
  BY <1>1, OthersStay DEF Chain
<1>4. /\ Lone(requests, {"deregister"}) => Lone(requests', {"deregister"})
      /\ Has(requests', {"deregister"}) <=> Has(requests, {"deregister"})
  BY <1>1, OthersStay
<1>5. TypeOK'
  <2>1. /\ DOMAIN requests' \subseteq Request /\ requests' \in [DOMAIN requests' -> Nat \ {0}]
    BY <1>2 DEF Sent
  <2> QED  BY <2>1 DEF IInv, TypeOK, chainVars, serverVars, outside
<1>6. OneChain' /\ Silent' /\ OneFarewell'
  BY <1>3, <1>4 DEF IInv, OneChain, Silent, OneFarewell, chainVars
<1>7. Retried'
  BY <1>2 DEF IInv, Retried, chainVars, serverVars, outside
<1>8. Numbered'
  BY <1>4 DEF IInv, Numbered, Due, Parted, Lives, serverVars, outside
<1>9. NoIntervalLeaks' /\ Named' /\ PollsUnderItsRecord'
  BY DEF IInv, NoIntervalLeaks, Named, PollsUnderItsRecord, chainVars, serverVars, outside
<1> QED  BY <1>5, <1>6, <1>7, <1>8, <1>9 DEF IInv

\* The fields of a new request are in range.
LEMMA TypedRanges ==
  ASSUME IInv
  PROVE  /\ cookie \in Cookies /\ beaconID \in (1 .. MaxIDs) \cup {None}
         /\ active \subseteq 1 .. MaxItems
<1>1. /\ cookie \in 0 .. epoch /\ epoch \in 1 .. MaxEpochs /\ MaxEpochs \in Nat
      /\ beaconID \in (1 .. ids) \cup {None} /\ ids \in 0 .. MaxIDs
      /\ active \subseteq 1 .. given /\ given \in 0 .. MaxItems /\ MaxItems \in Nat
  BY BoundsAssumption DEF IInv, TypeOK
<1>2. cookie \in Cookies
  BY <1>1 DEF Cookies
<1>3. MaxIDs \in Nat
  BY BoundsAssumption DEF MaxIDs
<1> QED  BY <1>1, <1>2, <1>3

\* An interval sends a poll or a heartbeat.
LEMMA IntervalFiresKeeps ==
  ASSUME IInv, IntervalFires PROVE IInv'
<1>1. PICK k \in {"poll", "heartbeat"} : requests' = BagAdd(requests, Req(k, beaconID, None))
  BY DEF IntervalFires
<1>2. life = "running" /\ UNCHANGED <<life, chainVars, active, serverVars, failures>>
  BY DEF IntervalFires
<1>3. Req(k, beaconID, None) \in Request /\ Req(k, beaconID, None).kind = k
  <2>1. k \in Plain /\ None \in (1 .. MaxItems) \cup {None}
    BY DEF Plain
  <2> QED  BY <2>1, TypedRanges, ReqIsRequest
<1>4. active' \subseteq active /\ life \notin {"new", "starting"}
  BY <1>2
<1> DEFINE e == Req(k, beaconID, None)
<1>5. e.kind \in {"poll", "heartbeat", "report"} /\ requests' = BagAdd(requests, e)
  BY <1>1, <1>3
<1> HIDE DEF e
<1> QED  BY <1>2, <1>3, <1>4, <1>5, PlainSent DEF e

\* Finished work is reported.
LEMMA FinishKeeps ==
  ASSUME IInv, Finish PROVE IInv'
<1>1. PICK i \in active : /\ active' = active \ {i}
                          /\ requests' = BagAdd(requests, Req("report", None, i))
  BY DEF Finish
<1>2. UNCHANGED <<life, chainVars, serverVars, failures>>
  BY DEF Finish
<1>3. life \notin {"new", "starting"}
  BY DEF IInv, Silent
<1>4. Req("report", None, i) \in Request /\ Req("report", None, i).kind = "report"
  BY TypedRanges, ReqIsRequest DEF Plain
<1> QED  BY <1>1, <1>2, <1>3, <1>4, PlainSent

\* A client that stops sends its one deregistration.
LEMMA StopKeeps ==
  ASSUME IInv, Stop PROVE IInv'
<1> DEFINE e == Req("deregister", beaconID, None)
<1>1. /\ life = "running" /\ life' = "stopped" /\ handle' = FALSE /\ intervals' = Cleared
      /\ requests' = BagAdd(requests, e)
      /\ UNCHANGED <<beaconID, cookie, authenticating, retries, active, serverVars, failures>>
  BY DEF Stop
<1>2. e \in Request /\ e.kind = "deregister"
  BY TypedRanges, ReqIsRequest DEF Plain
<1> HIDE DEF e
<1>3. Sent(requests) /\ ~Has(requests, {"deregister"})
  BY <1>1, IInvSent DEF IInv, OneFarewell
<1>4. Sent(requests') /\ DOMAIN requests' = DOMAIN requests \cup {e}
  BY <1>1, <1>2, <1>3, Sending
<1>5. /\ Lone(requests, Chain) => Lone(requests', Chain)
      /\ Has(requests', Chain) <=> Has(requests, Chain)
  BY <1>1, <1>2, <1>3, OthersStay DEF Chain
<1>6. Lone(requests', {"deregister"}) /\ Has(requests', {"deregister"})
  BY <1>1, <1>2, <1>3, FirstIsAlone
<1>7. intervals' = 0
  BY <1>1 DEF Cleared, IInv, NoIntervalLeaks
<1>8. TypeOK'
  <2>1. /\ DOMAIN requests' \subseteq Request /\ requests' \in [DOMAIN requests' -> Nat \ {0}]
    BY <1>4 DEF Sent
  <2>2. TypeOK /\ UNCHANGED <<epoch, registered, held, given, ids, secured, removals, removed>>
    BY <1>1 DEF IInv, serverVars, outside
  <2>3. life' = "stopped" /\ handle' = FALSE /\ intervals' = 0
    BY <1>1, <1>7
  <2>4. UNCHANGED <<beaconID, cookie, authenticating, retries, active, failures>>
    BY <1>1
  <2> QED  BY <2>1, <2>2, <2>3, <2>4 DEF TypeOK
<1>9. OneChain' /\ Silent' /\ OneFarewell'
  BY <1>1, <1>5, <1>6 DEF IInv, OneChain, Silent, OneFarewell
<1>10. Retried'
  BY <1>1, <1>2, <1>4 DEF IInv, Retried, serverVars, outside
<1>11. Numbered'
  BY <1>1, <1>6 DEF IInv, Numbered, Due, Parted, Lives, serverVars, outside
<1>12. NoIntervalLeaks' /\ Named' /\ PollsUnderItsRecord'
  BY <1>1, <1>7 DEF NoIntervalLeaks, Named, PollsUnderItsRecord
<1> QED  BY <1>8, <1>9, <1>10, <1>11, <1>12 DEF IInv

\* _reconnect keeps the invariant, with fewer plain requests and retries than before.
LEMMA ReconnectKeepsIInv ==
  ASSUME IInv, NEW rs, Reconnect(rs), Sent(rs), DOMAIN rs \subseteq DOMAIN requests,
         Lone(rs, Chain), Has(rs, Chain) <=> Has(requests, Chain),
         Lone(rs, {"deregister"}), Has(rs, {"deregister"}) => Has(requests, {"deregister"}),
         life \notin {"new", "starting"}, retries' \in 0 .. retries,
         UNCHANGED <<life, beaconID, active, serverVars, failures>>
  PROVE  IInv'
<1>1. TypeOK /\ NoIntervalLeaks
  BY DEF IInv
<1>2. Ready(rs)
  BY DEF Ready, IInv, OneChain
<1>3. /\ Sent(requests') /\ Lone(requests', Chain)
      /\ Has(requests', Chain) <=> authenticating'
      /\ Has(requests', Chain) => ~handle'
      /\ NoIntervalLeaks' /\ handle' \in BOOLEAN /\ authenticating' \in BOOLEAN
      /\ cookie' \in {cookie, NoCookie}
      /\ handle' => handle /\ cookie' = cookie
      /\ Lone(requests', {"deregister"})
      /\ Has(requests', {"deregister"}) <=> Has(rs, {"deregister"})
      /\ \A q \in DOMAIN requests' : q.kind # "authenticate" => q \in DOMAIN rs
  BY <1>1, <1>2, ReconnectKeeps
<1>4. /\ retries \in Nat /\ retries' \in Nat /\ retries' <= retries
      /\ retries' \in 0 .. MaxFailures + 2 * MaxEpochs
      /\ epoch \in 1 .. MaxEpochs /\ epoch \in Nat /\ failures \in Nat /\ cookie \in 0 .. epoch
  BY <1>1, BoundsAssumption DEF TypeOK
<1>5. TypeOK'
  <2>1. /\ DOMAIN requests' \subseteq Request /\ requests' \in [DOMAIN requests' -> Nat \ {0}]
    BY <1>3 DEF Sent
  <2>2. cookie' \in 0 .. epoch'
    BY <1>3, <1>4 DEF NoCookie, serverVars, outside
  <2>3. intervals' \in Nat /\ (handle' => intervals' > 0)
    BY <1>3 DEF NoIntervalLeaks
  <2> QED  BY <1>1, <1>3, <1>4, <2>1, <2>2, <2>3 DEF TypeOK, serverVars, outside
<1>6. OneChain' /\ Silent' /\ OneFarewell'
  BY <1>3 DEF IInv, OneChain, Silent, OneFarewell
<1>7. Retried'
  <2>1. UNCHANGED <<epoch, failures>>
    BY DEF serverVars, outside
  <2>2. \A a \in Nat : retries + 1 <= a => retries' + 1 <= a
    <3>1. retries \in Nat /\ retries' \in Nat /\ retries' <= retries
      BY <1>4
    <3> QED  BY <3>1, NoMoreThan
  <2>3. \A q \in DOMAIN requests' : q.kind = "register" => q \in DOMAIN requests
    BY <1>3
  <2>4. ASSUME NEW q \in DOMAIN requests, q.kind = "register"
        PROVE  q.cookie \in 1 .. epoch /\ retries' + 1 <= failures + q.cookie
    <3>1. q.cookie \in 1 .. epoch /\ retries + 1 <= failures + q.cookie
      BY <2>4 DEF IInv, Retried
    <3>2. failures + q.cookie \in Nat
      BY <1>4, <3>1
    <3> QED  BY <2>2, <3>1, <3>2
  <2>5. retries' + 1 <= failures + epoch
    <3>1. retries + 1 <= failures + epoch /\ failures + epoch \in Nat
      BY <1>4 DEF IInv, Retried
    <3> QED  BY <2>2, <3>1
  <2> QED  BY <2>1, <2>3, <2>4, <2>5 DEF Retried
<1>8. Numbered'
  <2>1. Due' = Due /\ Parted \in {0, 1} /\ Parted' \in {0, 1} /\ Parted <= Parted'
    BY <1>3 DEF Due, Parted, Lives, serverVars, outside
  <2>2. ids \in Nat /\ Due \in {0, 1}
    BY <1>1 DEF TypeOK, Due
  <2>3. ids' = ids /\ Lives' = Lives /\ Lives \in Nat /\ ids + Due <= Lives + Parted
    BY <1>1, LivesIsNat DEF serverVars, outside, IInv, Numbered, Lives
  <2>4. \A i, e \in Nat : \A d, a, b \in {0, 1} : i + d <= e + a /\ a <= b => i + d <= e + b
    OBVIOUS
  <2> QED  BY <2>1, <2>2, <2>3, <2>4 DEF Numbered
<1>9. Named' /\ PollsUnderItsRecord'
  BY <1>3 DEF IInv, Named, PollsUnderItsRecord, serverVars, outside
<1> QED  BY <1>3, <1>5, <1>6, <1>7, <1>8, <1>9 DEF IInv

\* The timer of a failed reconnection begins a chain when none is under way.
LEMMA RetryFiresKeeps ==
  ASSUME IInv, RetryFires PROVE IInv'
<1>1. /\ retries > 0 /\ retries' = retries - 1 /\ Reconnect(requests)
      /\ UNCHANGED <<life, beaconID, active, serverVars, failures>>
  BY DEF RetryFires
<1>2. retries \in Nat
  BY DEF IInv, TypeOK
<1>3. retries' \in 0 .. retries
  BY <1>1, <1>2
<1>4. life \notin {"new", "starting"}
  BY <1>1, <1>2 DEF IInv, Silent
<1>5. Sent(requests) /\ Lone(requests, Chain) /\ Lone(requests, {"deregister"})
  BY IInvSent DEF IInv, OneChain, OneFarewell
<1> QED  BY <1>1, <1>3, <1>4, <1>5, ReconnectKeepsIInv

\* What is left when a plain request is answered or has failed.
LEMMA PlainEnds ==
  ASSUME IInv, NEW r \in DOMAIN requests, r.kind \in Plain
  PROVE  /\ Sent(BagRemove(requests, r))
         /\ DOMAIN BagRemove(requests, r) \subseteq DOMAIN requests
         /\ Lone(BagRemove(requests, r), Chain)
         /\ Has(BagRemove(requests, r), Chain) <=> Has(requests, Chain)
         /\ Lone(BagRemove(requests, r), {"deregister"})
         /\ Has(BagRemove(requests, r), {"deregister"}) => Has(requests, {"deregister"})
         /\ life \notin {"new", "starting"}
         /\ r.kind = "deregister" =>
              life = "stopped" /\ ~Has(BagRemove(requests, r), {"deregister"})
<1>1. Sent(requests) /\ Lone(requests, Chain) /\ Lone(requests, {"deregister"})
  BY IInvSent DEF IInv, OneChain, OneFarewell
<1>2. r.kind \notin Chain
  BY DEF Chain, Plain
<1>3. life \notin {"new", "starting"}
  BY <1>2 DEF IInv, Silent
<1>4. CASE r.kind = "deregister"
  <2>1. life = "stopped"
    BY <1>4 DEF IInv, OneFarewell, Has
  <2> QED  BY <1>1, <1>2, <1>3, <1>4, <2>1, Answering, OthersStay, LastIsGone
<1>5. CASE r.kind # "deregister"
  BY <1>1, <1>2, <1>3, <1>5, Answering, OthersStay
<1> QED  BY <1>4, <1>5

\* A plain request ends, and the server's record may change with it.
LEMMA PlainEndsKeeps ==
  ASSUME IInv, NEW r \in DOMAIN requests, r.kind \in Plain,
         requests' = BagRemove(requests, r),
         UNCHANGED <<life, chainVars, epoch, ids, outside>>,
         failures' \in 0 .. MaxFailures, failures <= failures',
         given' \in 0 .. MaxItems, active' \subseteq 1 .. given',
         held' \subseteq 1 .. given', Cardinality(held') <= MaxConcurrent,
         \/ registered' = registered
         \/ registered' = None /\ r.kind = "deregister"
  PROVE  IInv'
<1> DEFINE rs == BagRemove(requests, r)
<1>1. /\ Sent(rs) /\ DOMAIN rs \subseteq DOMAIN requests
      /\ Lone(rs, Chain) /\ (Has(rs, Chain) <=> Has(requests, Chain))
      /\ Lone(rs, {"deregister"}) /\ (Has(rs, {"deregister"}) => Has(requests, {"deregister"}))
      /\ life \notin {"new", "starting"}
      /\ r.kind = "deregister" => life = "stopped" /\ ~Has(rs, {"deregister"})
  BY PlainEnds
<1>2. requests' = rs
  OBVIOUS
<1> HIDE DEF rs
<1>3. /\ TypeOK /\ ids \in Nat /\ epoch \in Nat /\ failures \in Nat /\ failures' \in Nat
      /\ retries \in Nat
  BY BoundsAssumption DEF IInv, TypeOK
<1>4. TypeOK'
  <2>1. /\ DOMAIN requests' \subseteq Request /\ requests' \in [DOMAIN requests' -> Nat \ {0}]
    BY <1>1, <1>2 DEF Sent
  <2>2. registered' \in (1 .. ids') \cup {None}
    BY <1>3 DEF TypeOK
  <2> QED  BY <1>3, <2>1, <2>2 DEF TypeOK, chainVars, outside
<1>5. OneChain' /\ Silent' /\ OneFarewell'
  BY <1>1, <1>2 DEF IInv, OneChain, Silent, OneFarewell, chainVars
<1>6. Retried'
  <2>1. \A n, f, g, c \in Nat : n + 1 <= f + c /\ f <= g => n + 1 <= g + c
    OBVIOUS
  <2>2. retries' = retries /\ epoch' = epoch
    BY DEF chainVars
  <2>3. retries' + 1 <= failures' + epoch'
    BY <1>3, <2>1, <2>2 DEF IInv, Retried
  <2>4. ASSUME NEW q \in DOMAIN requests', q.kind = "register"
        PROVE  q.cookie \in 1 .. epoch /\ retries + 1 <= failures' + q.cookie
    <3>1. q.cookie \in 1 .. epoch /\ retries + 1 <= failures + q.cookie
      BY <1>1, <1>2, <2>4 DEF IInv, Retried
    <3>2. q.cookie \in Nat /\ retries + 1 <= failures + q.cookie
      BY <3>1
    <3>3. retries + 1 <= failures' + q.cookie
      BY <1>3, <2>1, <3>2
    <3> QED  BY <3>1, <3>3
  <2> QED  BY <2>2, <2>3, <2>4 DEF Retried
<1>7. Numbered'
  <2>1. /\ Due \in {0, 1} /\ Due' \in {0, 1} /\ Parted \in {0, 1} /\ Parted' \in {0, 1}
    BY DEF Due, Parted, Lives
  <2>2. ids + Due <= Lives + Parted /\ ids' = ids /\ Lives' = Lives /\ Lives \in Nat
    BY <1>3, LivesIsNat DEF IInv, Numbered, Lives, outside
  <2>3. CASE r.kind = "deregister"
    <3>1. Has(requests, {"deregister"}) /\ life = "stopped" /\ ~Has(requests', {"deregister"})
      BY <1>1, <1>2, <2>3 DEF Has
    <3>2. Parted = 0 /\ Parted' = 1
      BY <3>1 DEF Parted
    <3>3. \A i, e \in Nat : \A d, g \in {0, 1} : i + d <= e => i + g <= e + 1
      OBVIOUS
    <3>4. ids + Due <= Lives
      BY <2>2, <3>2
    <3>5. ids + Due' <= Lives + 1
      BY <1>3, <2>1, <2>2, <3>3, <3>4
    <3> QED  BY <2>2, <3>2, <3>5 DEF Numbered
  <2>4. CASE r.kind # "deregister"
    <3>1. Due' = Due
      BY <2>4 DEF Due
    <3>2. Parted <= Parted'
      BY <1>1, <1>2 DEF Parted
    <3>3. \A i, e \in Nat : \A d, a, b \in {0, 1} : i + d <= e + a /\ a <= b => i + d <= e + b
      OBVIOUS
    <3> QED  BY <1>3, <2>1, <2>2, <3>1, <3>2, <3>3 DEF Numbered
  <2> QED  BY <2>3, <2>4
<1>8. NoIntervalLeaks' /\ Named' /\ PollsUnderItsRecord'
  BY <1>1 DEF IInv, NoIntervalLeaks, Named, PollsUnderItsRecord, chainVars, outside
<1> QED  BY <1>4, <1>5, <1>6, <1>7, <1>8 DEF IInv

\* A plain request fails.
LEMMA FailedKeeps ==
  ASSUME IInv, NEW r \in DOMAIN requests, r.kind \in Plain, Failed(r) PROVE IInv'
<1>1. /\ failures < MaxFailures /\ failures' = failures + 1
      /\ requests' = BagRemove(requests, r)
      /\ UNCHANGED <<life, chainVars, active, serverVars>>
  BY DEF Failed
<1>2. failures \in Nat /\ MaxFailures \in Nat
  BY BoundsAssumption DEF IInv, TypeOK
<1>3. failures' \in 0 .. MaxFailures /\ failures <= failures'
  BY <1>1, <1>2
<1>4. /\ UNCHANGED <<life, chainVars, epoch, ids, outside>> /\ registered' = registered
      /\ UNCHANGED <<given, held, active>>
  BY <1>1 DEF serverVars, outside
<1>5. /\ given' \in 0 .. MaxItems /\ active' \subseteq 1 .. given'
      /\ held' \subseteq 1 .. given' /\ Cardinality(held') <= MaxConcurrent
  BY <1>4 DEF IInv, TypeOK
<1> QED  BY <1>1, <1>3, <1>4, <1>5, PlainEndsKeeps

\* Something more is handed out.
LEMMA OneMore ==
  ASSUME NEW n \in Nat, NEW m \in Nat, n < m, NEW S \in SUBSET (1 .. n)
  PROVE  /\ n + 1 \in 0 .. m /\ S \cup {n + 1} \subseteq 1 .. n + 1
         /\ IsFiniteSet(S) /\ Cardinality(S \cup {n + 1}) = Cardinality(S) + 1
<1>1. n + 1 \in 0 .. m /\ S \cup {n + 1} \subseteq 1 .. n + 1 /\ n + 1 \notin S
  OBVIOUS
<1>2. IsFiniteSet(S)
  <2>1. IsFiniteSet(1 .. n)
    BY FS_Interval
  <2> QED  BY <2>1, FS_Subset
<1>3. Cardinality(S \cup {n + 1}) = Cardinality(S) + 1
  BY <1>1, <1>2, FS_AddElement
<1> QED  BY <1>1, <1>2, <1>3

\* A plain request is answered, with work, nothing, or a 401.
LEMMA AnsweredKeeps ==
  ASSUME IInv, NEW r \in DOMAIN requests, r.kind \in Plain, Answered(r) PROVE IInv'
<1>1. UNCHANGED <<life, beaconID, retries, epoch, ids, outside, failures>>
  BY DEF Answered
<1>2. /\ TypeOK /\ retries \in Nat /\ failures \in Nat /\ failures \in 0 .. MaxFailures
      /\ given \in Nat /\ MaxItems \in Nat /\ MaxConcurrent \in Nat
      /\ given \in 0 .. MaxItems /\ held \subseteq 1 .. given /\ active \subseteq 1 .. given
      /\ Cardinality(held) <= MaxConcurrent
  BY BoundsAssumption DEF IInv, TypeOK
<1>3. IsFiniteSet(held) /\ Cardinality(held) \in Nat
  <2>1. IsFiniteSet(1 .. given)
    BY <1>2, FS_Interval
  <2> QED  BY <1>2, <2>1, FS_Subset, FS_CardinalityType
<1>4. CASE Authorized(r)
  <2>1. requests' = BagRemove(requests, r) /\ UNCHANGED chainVars
    BY <1>1, <1>4 DEF Answered, chainVars
  <2>2. failures' \in 0 .. MaxFailures /\ failures <= failures'
    BY <1>1, <1>2
  <2>3. \/ /\ Cardinality(held) < MaxConcurrent /\ given < MaxItems /\ given' = given + 1
           /\ active' = active \cup {given'} /\ held' = held \cup {given'}
           /\ UNCHANGED registered
        \/ UNCHANGED <<active, held, given, registered>>
        \/ held' = held \ {r.item} /\ UNCHANGED <<active, given, registered>>
        \/ /\ r.kind = "deregister"
           /\ registered' = IF registered = r.of THEN None ELSE registered
           /\ UNCHANGED <<active, held, given>>
    BY <1>4 DEF Answered
  <2>4. /\ given' \in 0 .. MaxItems /\ active' \subseteq 1 .. given'
        /\ held' \subseteq 1 .. given' /\ Cardinality(held') <= MaxConcurrent
    <3>1. CASE /\ Cardinality(held) < MaxConcurrent /\ given < MaxItems /\ given' = given + 1
               /\ active' = active \cup {given'} /\ held' = held \cup {given'}
      <4>1. /\ given' \in 0 .. MaxItems /\ held' \subseteq 1 .. given'
            /\ Cardinality(held') = Cardinality(held) + 1
        BY <1>2, <3>1, OneMore
      <4>2. active' \subseteq 1 .. given'
        BY <1>2, <3>1, OneMore
      <4> QED  BY <1>2, <1>3, <3>1, <4>1, <4>2
    <3>2. CASE UNCHANGED <<active, held, given>>
      BY <1>2, <3>2
    <3>3. CASE held' = held \ {r.item} /\ UNCHANGED <<active, given>>
      <4>1. Cardinality(held') \in Nat /\ Cardinality(held') <= Cardinality(held)
        BY <1>3, <3>3, FS_Subset, FS_CardinalityType
      <4>2. Cardinality(held') <= MaxConcurrent
        BY <1>2, <1>3, <4>1
      <4> QED  BY <1>2, <3>3, <4>2
    <3> QED  BY <2>3, <3>1, <3>2, <3>3
  <2>5. \/ registered' = registered
        \/ registered' = None /\ r.kind = "deregister"
    BY <2>3
  <2> QED  BY <1>1, <2>1, <2>2, <2>4, <2>5, PlainEndsKeeps
<1>5. CASE ~Authorized(r)
  <2>1. /\ Reconnect(BagRemove(requests, r))
        /\ UNCHANGED <<life, beaconID, active, serverVars, failures>>
    BY <1>1, <1>5 DEF Answered, serverVars, outside
  <2>2. retries' \in 0 .. retries
    BY <1>1, <1>2
  <2> QED  BY <2>1, <2>2, PlainEnds, ReconnectKeepsIInv
<1> QED  BY <1>4, <1>5

-----------------------------------------------------------------------------
(***************************************************************************)
(* The server, and the theorems.                                           *)
(***************************************************************************)
LEMMA SessionsEnd ==
  ASSUME IInv, epoch < MaxEpochs, epoch' = epoch + 1, registered' \in {registered, None},
         secured' \in {secured, NonPromiscuous},
         UNCHANGED <<life, chainVars, active, requests, held, given, ids, removals, removed,
                     failures>>
  PROVE  IInv'
<1>1. /\ TypeOK /\ epoch \in Nat /\ epoch' \in 1 .. MaxEpochs /\ failures \in Nat /\ ids \in Nat
      /\ cookie \in 0 .. epoch /\ retries \in Nat
  BY BoundsAssumption DEF IInv, TypeOK
<1>2. TypeOK'
  <2>1. cookie' \in 0 .. epoch' /\ registered' \in (1 .. ids') \cup {None}
    BY <1>1 DEF TypeOK, chainVars
  <2>2. secured' \in BOOLEAN /\ (NonPromiscuous => secured')
    BY <1>1, BoundsAssumption DEF TypeOK
  <2> QED  BY <1>1, <2>1, <2>2 DEF TypeOK, chainVars
<1>3. OneChain' /\ Silent' /\ OneFarewell'
  BY DEF IInv, OneChain, Silent, OneFarewell, chainVars
<1>4. Retried'
  <2>1. retries + 1 <= failures + (epoch + 1)
    BY <1>1 DEF IInv, Retried
  <2>2. \A q \in DOMAIN requests : q.kind = "register" => q.cookie \in 1 .. epoch + 1
    BY <1>1 DEF IInv, Retried
  <2> QED  BY <2>1, <2>2 DEF IInv, Retried, chainVars
<1>5. Numbered'
  <2>1. Due \in {0, 1} /\ Due' \in {0, 1} /\ Parted \in {0, 1} /\ Parted' = Parted
    BY DEF Due, Parted, Lives
  <2>2. ids' = ids /\ ids + Due <= Lives + Parted /\ Lives \in Nat
    BY <1>1, LivesIsNat DEF IInv, Numbered
  <2>3. \A i, e \in Nat : \A d, g, a \in {0, 1} : i + d <= e + a => i + g <= e + 1 + a
    OBVIOUS
  <2>4. Lives' = Lives + 1
    <3>1. \A e, m \in Nat : e + 1 + m = e + m + 1
      OBVIOUS
    <3>2. removals \in Nat /\ removals' = removals
      BY <1>1, BoundsAssumption DEF TypeOK
    <3> QED  BY <1>1, <3>1, <3>2 DEF Lives
  <2> QED  BY <1>1, <2>1, <2>2, <2>3, <2>4 DEF Numbered
<1>6. cookie' # epoch'
  BY <1>1 DEF chainVars
<1>7. NoIntervalLeaks' /\ Named' /\ PollsUnderItsRecord'
  BY <1>6 DEF IInv, NoIntervalLeaks, Named, PollsUnderItsRecord, chainVars
<1> QED  BY <1>2, <1>3, <1>4, <1>5, <1>7 DEF IInv

\* Whether the server is secured changes nothing else.
LEMMA AuthBeaconKeeps ==
  ASSUME IInv, AuthBeaconChanges PROVE IInv'
<1>1. /\ ~NonPromiscuous /\ secured' = ~secured
      /\ UNCHANGED <<life, chainVars, active, requests, epoch, registered, held, given, ids,
                     removals, removed, failures>>
  BY DEF AuthBeaconChanges
<1>2. TypeOK'
  BY <1>1 DEF IInv, TypeOK, chainVars
<1>3. OneChain' /\ Silent' /\ OneFarewell' /\ Retried'
  BY <1>1 DEF IInv, OneChain, Silent, OneFarewell, Retried, chainVars
<1>4. Numbered' /\ NoIntervalLeaks' /\ Named' /\ PollsUnderItsRecord'
  BY <1>1 DEF IInv, Numbered, Due, Parted, Lives, NoIntervalLeaks, Named,
              PollsUnderItsRecord, chainVars
<1> QED  BY <1>2, <1>3, <1>4 DEF IInv

\* A removal costs a BeaconID, and leaves the client with that of no record.
LEMMA RecordRemovedKeeps ==
  ASSUME IInv, RecordRemoved PROVE IInv'
<1>1. /\ registered # None /\ removals < MaxRemovals
      /\ registered' = None /\ removals' = removals + 1 /\ removed' = TRUE
      /\ UNCHANGED <<life, chainVars, active, requests, epoch, held, given, ids, secured,
                     failures>>
  BY DEF RecordRemoved
<1>2. /\ TypeOK /\ ids \in Nat /\ epoch \in Nat /\ removals \in Nat
      /\ removals' \in 0 .. MaxRemovals
  BY <1>1, BoundsAssumption DEF IInv, TypeOK
<1>3. TypeOK'
  BY <1>1, <1>2 DEF TypeOK, chainVars
<1>4. OneChain' /\ Silent' /\ OneFarewell' /\ Retried'
  BY <1>1 DEF IInv, OneChain, Silent, OneFarewell, Retried, chainVars
<1>5. Numbered'
  <2>1. Due = 0 /\ Due' = 1 /\ Parted' = Parted /\ Parted \in {0, 1}
    BY <1>1 DEF Due, Parted
  <2>2. ids <= epoch + removals + Parted
    BY <1>2, <2>1 DEF IInv, Numbered, Lives
  <2>3. ids + 1 <= epoch + (removals + 1) + Parted
    BY <1>2, <2>1, <2>2
  <2> QED  BY <1>1, <2>1, <2>3 DEF Numbered, Lives
<1>6. NoIntervalLeaks' /\ Named' /\ PollsUnderItsRecord'
  BY <1>1 DEF IInv, NoIntervalLeaks, Named, PollsUnderItsRecord, chainVars
<1> QED  BY <1>3, <1>4, <1>5, <1>6 DEF IInv

\* Another client's record is made only where the client had none.
LEMMA OtherRegistersKeeps ==
  ASSUME IInv, OtherRegisters PROVE IInv'
<1>1. /\ registered = None /\ Register
      /\ UNCHANGED <<life, chainVars, active, requests, epoch, given, outside, failures>>
  BY DEF OtherRegisters
<1>2. TypeOK
  BY DEF IInv
<1>3. /\ ids' \in Nat /\ ids <= ids' /\ registered' \in 1 .. ids' /\ registered' # None
      /\ ids' = ids + Due /\ held' = {}
  BY <1>1, <1>2, RegisterGives, NoneAssumption DEF Register
<1>4. OneChain' /\ Silent' /\ OneFarewell' /\ Retried'
  BY <1>1 DEF IInv, OneChain, Silent, OneFarewell, Retried, chainVars
<1>5. Numbered'
  <2>1. Due' = 0 /\ Parted' = Parted /\ Lives' = Lives
    BY <1>1, <1>3 DEF Due, Parted, Lives, outside
  <2> QED  BY <1>3, <2>1 DEF IInv, Numbered
<1>6. TypeOK'
  <2>1. held' \subseteq 1 .. given' /\ Cardinality(held') <= MaxConcurrent
    <3>1. Cardinality(held') = 0
      BY <1>3, FS_EmptySet
    <3> QED  BY <1>3, <3>1, BoundsAssumption
  <2>2. ids' \in 0 .. MaxIDs
    <3>1. /\ retries' \in Nat /\ failures' \in 0 .. MaxFailures /\ epoch' \in 1 .. MaxEpochs
          /\ removals' \in 0 .. MaxRemovals
      BY <1>1, <1>2 DEF TypeOK, chainVars, outside
    <3> QED  BY <1>3, <1>4, <1>5, <3>1, CountersTyped
  <2>3. beaconID' \in (1 .. ids') \cup {None}
    BY <1>1, <1>2, <1>3 DEF TypeOK, chainVars
  <2> QED  BY <1>1, <1>2, <1>3, <2>1, <2>2, <2>3 DEF TypeOK, chainVars, outside
<1>7. NoIntervalLeaks' /\ Named' /\ PollsUnderItsRecord'
  BY <1>1 DEF IInv, NoIntervalLeaks, Named, PollsUnderItsRecord, chainVars, outside
<1> QED  BY <1>4, <1>5, <1>6, <1>7 DEF IInv

\* The server takes an item back.
LEMMA ItemTimesOutKeeps ==
  ASSUME IInv, ItemTimesOut PROVE IInv'
<1>1. /\ held' \subseteq held
      /\ UNCHANGED <<life, chainVars, active, requests, epoch, registered, given, ids, outside,
                     failures>>
  BY DEF ItemTimesOut
<1>2. TypeOK /\ held \subseteq 1 .. given /\ given \in Nat /\ MaxConcurrent \in Nat
  BY BoundsAssumption DEF IInv, TypeOK
<1>3. TypeOK'
  <2>1. IsFiniteSet(held)
    <3>1. IsFiniteSet(1 .. given)
      BY <1>2, FS_Interval
    <3> QED  BY <1>2, <3>1, FS_Subset
  <2>2. /\ Cardinality(held') \in Nat /\ Cardinality(held) \in Nat
        /\ Cardinality(held') <= Cardinality(held)
    BY <1>1, <2>1, FS_Subset, FS_CardinalityType
  <2>3. Cardinality(held') <= MaxConcurrent
    BY <1>2, <2>2 DEF TypeOK
  <2> QED  BY <1>1, <1>2, <2>3 DEF TypeOK, chainVars, outside
<1>4. OneChain' /\ Silent' /\ OneFarewell' /\ Retried'
  BY <1>1 DEF IInv, OneChain, Silent, OneFarewell, Retried, chainVars
<1>5. Numbered' /\ NoIntervalLeaks' /\ Named' /\ PollsUnderItsRecord'
  BY <1>1 DEF IInv, Numbered, Due, Parted, Lives, NoIntervalLeaks, Named,
              PollsUnderItsRecord, chainVars, outside
<1> QED  BY <1>3, <1>4, <1>5 DEF IInv

\* The invariant holds at first.
LEMMA InitKeeps ==
  ASSUME Init PROVE IInv
<1>1. TypeOK
  <2>1. Cardinality({}) = 0
    BY FS_EmptySet
  <2>2. DOMAIN requests \subseteq Request /\ requests \in [DOMAIN requests -> Nat \ {0}]
    BY DEF Init
  <2>3. held \subseteq 1 .. given /\ Cardinality(held) <= MaxConcurrent
    BY <2>1, BoundsAssumption DEF Init
  <2>4. /\ ids \in 0 .. MaxIDs /\ epoch \in 1 .. MaxEpochs /\ cookie \in 0 .. epoch
        /\ retries \in 0 .. MaxFailures + 2 * MaxEpochs
        /\ given \in 0 .. MaxItems /\ failures \in 0 .. MaxFailures
    BY BoundsAssumption DEF Init, NoCookie, MaxIDs
  <2>5. /\ life \in {"new", "starting", "running", "failed", "stopped"}
        /\ beaconID \in (1 .. ids) \cup {None} /\ registered \in (1 .. ids) \cup {None}
        /\ authenticating \in BOOLEAN /\ handle \in BOOLEAN /\ intervals \in Nat /\ ~handle
        /\ active \subseteq 1 .. given
    BY DEF Init
  <2>6. removals \in 0 .. MaxRemovals /\ removed \in BOOLEAN
    <3>1. removals = 0 /\ removed = FALSE /\ MaxRemovals \in Nat
      BY BoundsAssumption DEF Init
    <3>2. removals \in 0 .. MaxRemovals
      BY <3>1
    <3> QED  BY <3>1, <3>2
  <2>7. secured \in BOOLEAN /\ (NonPromiscuous => secured)
    <3>1. NonPromiscuous \in BOOLEAN
      BY BoundsAssumption
    <3>2. secured = NonPromiscuous \/ secured = TRUE
      BY DEF Init
    <3> QED  BY <3>1, <3>2, Zenon
  <2> QED  BY <2>2, <2>3, <2>4, <2>5, <2>6, <2>7 DEF TypeOK
<1>2. DOMAIN requests = {}
  BY DEF Init
<1>3. OneChain /\ Silent /\ OneFarewell
  BY <1>2 DEF Init, OneChain, Silent, OneFarewell, Has, Lone
<1>4. Retried /\ Numbered
  BY <1>2 DEF Init, Retried, Numbered, Due, Parted, Lives
<1>5. NoIntervalLeaks /\ Named /\ PollsUnderItsRecord
  BY DEF Init, NoIntervalLeaks, Named, PollsUnderItsRecord
<1> QED  BY <1>1, <1>3, <1>4, <1>5 DEF IInv

\* Every step keeps the invariant.
LEMMA NextKeeps ==
  ASSUME IInv, [Next]_vars PROVE IInv'
<1>1. CASE Start
  BY <1>1, StartKeeps
<1>2. CASE Stop
  BY <1>2, StopKeeps
<1>3. CASE ChainAnswered
  <2>1. CASE Authenticated
    BY <2>1, AuthenticatedKeeps
  <2>2. ASSUME NEW r \in Pending({"register"}), Registered(r) \/ RegisterUnauthorized(r)
        PROVE  IInv'
    BY <2>2, RegisteredKeeps, RegisterUnauthorizedKeeps DEF Pending
  <2> QED  BY <1>3, <2>1, <2>2 DEF ChainAnswered
<1>4. ASSUME NEW r \in Pending({"authenticate", "register"}), ChainRequestFails(r)
      PROVE  IInv'
  BY <1>4, ChainRequestFailsKeeps DEF Pending, Chain
<1>5. CASE IntervalFires
  BY <1>5, IntervalFiresKeeps
<1>6. CASE RetryFires
  BY <1>6, RetryFiresKeeps
<1>7. CASE Finish
  BY <1>7, FinishKeeps
<1>8. CASE PlainAnswered
  BY <1>8, AnsweredKeeps DEF PlainAnswered, Pending
<1>9. ASSUME NEW r \in Pending(Plain), Failed(r) PROVE IInv'
  BY <1>9, FailedKeeps DEF Pending
<1>10. CASE ServerRestarts
  BY <1>10, SessionsEnd DEF ServerRestarts
<1>11. CASE SessionsExpire
  BY <1>11, SessionsEnd DEF SessionsExpire, outside
<1>12. CASE ItemTimesOut
  BY <1>12, ItemTimesOutKeeps
<1>13. CASE AuthBeaconChanges
  BY <1>13, AuthBeaconKeeps
<1>14. CASE RecordRemoved
  BY <1>14, RecordRemovedKeeps
<1>15. CASE OtherRegisters
  BY <1>15, OtherRegistersKeeps
<1>16. CASE UNCHANGED vars
  BY <1>16 DEF vars, chainVars, serverVars, outside, IInv, TypeOK, OneChain, Silent, OneFarewell,
               Retried, Numbered, Due, Parted, Lives, NoIntervalLeaks, Named, PollsUnderItsRecord
<1> QED  BY <1>1, <1>2, <1>3, <1>4, <1>5, <1>6, <1>7, <1>8, <1>9, <1>10, <1>11, <1>12,
            <1>13, <1>14, <1>15, <1>16
         DEF Next

\* The invariant: types, one registration at a time, and the counts.
THEOREM ClientInvariant == Spec => []IInv
<1>1. Init => IInv
  BY InitKeeps
<1>2. IInv /\ [Next]_vars => IInv'
  BY NextKeeps
<1> QED  BY <1>1, <1>2, PTL DEF Spec

\* The client's and the server's state is what their code keeps, and the counters stay
\* within the bounds of the model.
THEOREM ClientTypes == Spec => []TypeOK
<1>1. IInv => TypeOK
  BY DEF IInv
<1> QED  BY <1>1, ClientInvariant, PTL

\* _reconnect and the handlers around it never set an interval over one that runs.
THEOREM IntervalsAreCleared == Spec => []NoIntervalLeaks
<1>1. IInv => NoIntervalLeaks
  BY DEF IInv
<1> QED  BY <1>1, ClientInvariant, PTL

\* A running client with a session polls under the BeaconID of its record, in secured
\* mode or not, as long as nobody else deregisters it.
THEOREM PollsAreForItsRecord == Spec => []PollsUnderItsRecord
<1>1. IInv => PollsUnderItsRecord
  BY DEF IInv
<1> QED  BY <1>1, ClientInvariant, PTL

=============================================================================
