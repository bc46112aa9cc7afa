----------------------------- MODULE BeaconClient -----------------------------
(***************************************************************************)
(* The worker that polls an Ultravisor server over HTTP                    *)
(* (source/beacon/Ultravisor-Beacon-Client.cjs): its start, its timers,    *)
(* the reconnection that any 401 sets off, and its stop; with what the     *)
(* server keeps of it, the session of its cookie and its beacon record.    *)
(* A secured server answers 401 to a request without a session; any other  *)
(* serves it as anonymous, and says nothing of a record it does not have.  *)
(* Somebody else may remove the record, and a second client of the same    *)
(* name may register it; what that client then does is left out.           *)
(*                                                                         *)
(* A request carries the cookie the client had when it was sent, and ends  *)
(* answered or failed, in any order with the others.  A cookie is the      *)
(* epoch of the server it was issued in: a restart and the expiry of the   *)
(* sessions begin another.  The poll and the heartbeat interval are set    *)
(* and cleared together and are one here.                                  *)
(***************************************************************************)
EXTENDS Naturals, FiniteSets, BagsExt

CONSTANTS
  MaxConcurrent, \* work items executed at once
  MaxRequests,   \* bound: polls and heartbeats in flight that differ, immediate polls aside
  MaxEpochs,     \* bound: epochs of the server
  MaxFailures,   \* bound: requests that fail
  MaxItems,      \* bound: work items handed out
  MaxRemovals,   \* bound: times somebody else removes the record
  NonPromiscuous, \* UltravisorNonPromiscuous: the server is secured whatever is connected
  None

ASSUME BoundsAssumption ==
  /\ MaxConcurrent \in Nat \ {0} /\ MaxRequests \in Nat \ {0}
  /\ MaxEpochs \in Nat \ {0} /\ MaxFailures \in Nat /\ MaxItems \in Nat
  /\ MaxRemovals \in Nat /\ NonPromiscuous \in BOOLEAN

\* None is no BeaconID.
ASSUME NoneAssumption == None \notin Nat

NoCookie == 0
Cookies == 0 .. MaxEpochs
MaxIDs == MaxEpochs + MaxRemovals + 1

\* The requests outside the chain of a registration.
Plain == {"poll", "heartbeat", "report", "deregister"}
Request == [kind : Plain \cup {"authenticate", "register"}, cookie : Cookies,
            of : (1 .. MaxIDs) \cup {None}, item : (1 .. MaxItems) \cup {None}]

VARIABLES
  life,           \* "new", "starting", "running", "failed" or "stopped"; _Running
  beaconID,       \* _BeaconID, or None
  cookie,         \* _SessionCookie
  authenticating, \* _Authenticating
  handle,         \* _PollInterval and _HeartbeatInterval are set
  intervals,      \* intervals that go on firing
  retries,        \* timers that will call _reconnect
  active,         \* work items being executed: _ActiveWorkItems is their number
  requests,       \* those in flight, a bag: how many of each
  epoch,          \* the server's sessions are those of this epoch
  registered,     \* its record of the beacon: a BeaconID, or None
  held,           \* its CurrentWorkItems
  given,          \* work items handed out so far
  ids,            \* BeaconIDs given so far
  secured,        \* _isSecuredMode
  removals,       \* times somebody else removed the record
  removed,        \* history: one of them since the client last registered
  failures

chainVars == <<beaconID, cookie, authenticating, handle, intervals, retries>>
outside == <<secured, removals, removed>>
serverVars == <<epoch, registered, held, given, ids, outside>>
vars == <<life, chainVars, active, requests, serverVars, failures>>

TypeOK ==
  /\ life \in {"new", "starting", "running", "failed", "stopped"}
  /\ beaconID \in (1 .. ids) \cup {None} /\ cookie \in 0 .. epoch
  /\ authenticating \in BOOLEAN /\ handle \in BOOLEAN
  /\ intervals \in Nat /\ (handle => intervals > 0)
  /\ retries \in 0 .. MaxFailures + 2 * MaxEpochs
  /\ given \in 0 .. MaxItems /\ active \subseteq 1 .. given
  /\ held \subseteq 1 .. given /\ Cardinality(held) <= MaxConcurrent
  /\ DOMAIN requests \subseteq Request /\ requests \in [DOMAIN requests -> Nat \ {0}]
  /\ epoch \in 1 .. MaxEpochs /\ ids \in 0 .. MaxIDs
  /\ registered \in (1 .. ids) \cup {None}
  /\ secured \in BOOLEAN /\ (NonPromiscuous => secured)
  /\ removals \in 0 .. MaxRemovals /\ removed \in BOOLEAN
  /\ failures \in 0 .. MaxFailures

Init ==
  /\ life = "new" /\ beaconID = None /\ cookie = NoCookie
  /\ authenticating = FALSE /\ handle = FALSE /\ intervals = 0 /\ retries = 0
  /\ active = {} /\ given = 0 /\ requests = [r \in {} |-> 0]
  /\ epoch = 1 /\ registered = None /\ held = {} /\ ids = 0 /\ failures = 0
  /\ secured \in {NonPromiscuous, TRUE} /\ removals = 0 /\ removed = FALSE

-----------------------------------------------------------------------------
(***************************************************************************)
(* Requests.                                                               *)
(***************************************************************************)
Req(k, b, i) == [kind |-> k, cookie |-> cookie, of |-> b, item |-> i]
Authenticate == [kind |-> "authenticate", cookie |-> NoCookie, of |-> None, item |-> None]
Pending(kinds) == {r \in DOMAIN requests : r.kind \in kinds}

\* _resolveSession finds the session of the cookie, or makes an anonymous one.
Authorized(r) == ~secured \/ r.cookie = epoch

\* Mutant: every registration makes a record.
MutantRegister == ids' = ids + 1 /\ registered' = ids' /\ held' = {}

\* registerBeacon keeps the BeaconID and the work of a record of that name.
Register ==
  IF registered = None THEN ids' = ids + 1 /\ registered' = ids' /\ held' = {}
  ELSE UNCHANGED <<ids, registered, held>>

-----------------------------------------------------------------------------
(***************************************************************************)
(* Reconnection.                                                           *)
(***************************************************************************)
\* Mutant: a second chain may start.
MutantChainStarts == TRUE

\* _reconnect returns while a chain is under way.
ChainStarts == ~authenticating

\* The intervals after those of the handles were cleared.
Cleared == IF handle THEN intervals - 1 ELSE intervals

\* Mutant: the intervals go on while the client authenticates again.
MutantReconnect(rs) ==
  IF ChainStarts
  THEN /\ authenticating' = TRUE
       /\ cookie' = NoCookie
       /\ requests' = BagAdd(rs, Authenticate)
       /\ UNCHANGED <<handle, intervals>>
  ELSE /\ requests' = rs
       /\ UNCHANGED <<authenticating, handle, intervals, cookie>>

\* _reconnect, with rs the requests in flight otherwise.
Reconnect(rs) ==
  IF ChainStarts
  THEN /\ authenticating' = TRUE
       /\ handle' = FALSE /\ intervals' = Cleared
       /\ cookie' = NoCookie
       /\ requests' = BagAdd(rs, Authenticate)
  ELSE /\ requests' = rs
       /\ UNCHANGED <<authenticating, handle, intervals, cookie>>

\* Mutant: a chain that fails is not tried again.
MutantTryAgain == UNCHANGED retries

\* setTimeout of _reconnect in ten seconds.
TryAgain == retries' = retries + 1

\* A chain fails, or start does.
ChainFails ==
  IF life = "starting"
  THEN /\ life' = "failed"
       /\ UNCHANGED <<authenticating, retries>>
  ELSE /\ authenticating' = FALSE /\ TryAgain
       /\ UNCHANGED life

\* The new intervals; whatever the handles held goes on.
SetIntervals == handle' = TRUE /\ intervals' = intervals + 1

-----------------------------------------------------------------------------
(***************************************************************************)
(* The client.                                                             *)
(***************************************************************************)
Start ==
  /\ life = "new"
  /\ life' = "starting"
  /\ requests' = BagAdd(requests, Authenticate)
  /\ UNCHANGED <<chainVars, active, serverVars, failures>>

\* POST /1.0/Authenticate gives a cookie, and registration follows.
Authenticated ==
  \E r \in Pending({"authenticate"}) :
     /\ cookie' = epoch
     /\ requests' = BagAdd(BagRemove(requests, r),
                          [Authenticate EXCEPT !.kind = "register", !.cookie = epoch])
     /\ UNCHANGED <<life, beaconID, authenticating, handle, intervals, retries, active,
                    serverVars, failures>>

\* _poll compares _ActiveWorkItems with MaxConcurrent.
HasRoom == Cardinality(active) < MaxConcurrent

\* Whether _poll sends a request.
MayPoll == life' = "running" /\ beaconID' # None /\ HasRoom

\* POST /Beacon/Register is answered: the intervals are set and a poll is sent.
Registered(r) ==
  /\ Authorized(r)
  /\ Register
  /\ beaconID' = registered' /\ removed' = FALSE
  /\ SetIntervals
  /\ life' = IF life = "starting" THEN "running" ELSE life
  /\ authenticating' = FALSE
  /\ requests' = LET rs == BagRemove(requests, r)
                 IN IF MayPoll THEN BagAdd(rs, Req("poll", beaconID', None))
                    ELSE rs
  /\ UNCHANGED <<cookie, retries, active, epoch, given, secured, removals, failures>>

\* Registration meets a 401: _reconnect is called before the chain's callback.
RegisterUnauthorized(r) ==
  /\ ~Authorized(r)
  /\ IF life = "starting"
     THEN /\ life' = "failed"
          /\ Reconnect(BagRemove(requests, r))
          /\ UNCHANGED retries
     ELSE /\ requests' = BagRemove(requests, r)
          /\ ChainFails
          /\ UNCHANGED <<cookie, handle, intervals>>
  /\ UNCHANGED <<beaconID, active, serverVars, failures>>

\* A request of the chain fails, its effect done or not.
ChainRequestFails(r) ==
  /\ failures < MaxFailures
  /\ failures' = failures + 1
  /\ requests' = BagRemove(requests, r)
  /\ ChainFails
  /\ \/ UNCHANGED <<registered, held, ids>>
     \/ r.kind = "register" /\ Authorized(r) /\ Register
  /\ UNCHANGED <<beaconID, cookie, handle, intervals, active, epoch, given, outside>>

\* The poll interval fires, or the heartbeat interval.
IntervalFires ==
  /\ intervals > 0 /\ life = "running" /\ beaconID # None
  /\ \E r \in {Req(k, beaconID, None) : k \in {"poll", "heartbeat"}} :
       /\ r.kind = "poll" => HasRoom
       /\ r \notin DOMAIN requests
       /\ Cardinality(Pending({"poll", "heartbeat"})) < MaxRequests
       /\ requests' = BagAdd(requests, r)
  /\ UNCHANGED <<life, chainVars, active, serverVars, failures>>

\* An execution ends and is reported, whatever the client is at.
Finish ==
  \E i \in active :
    /\ active' = active \ {i}
    /\ requests' = BagAdd(requests, Req("report", None, i))
    /\ UNCHANGED <<life, chainVars, serverVars, failures>>

\* _reconnect's timer fires.
RetryFires ==
  /\ retries > 0
  /\ retries' = retries - 1
  /\ Reconnect(requests)
  /\ UNCHANGED <<life, beaconID, active, serverVars, failures>>

\* stop; the retry timers are left alone.
Stop ==
  /\ life = "running"
  /\ life' = "stopped"
  /\ handle' = FALSE /\ intervals' = Cleared
  /\ requests' = BagAdd(requests, Req("deregister", beaconID, None))
  /\ UNCHANGED <<beaconID, cookie, authenticating, retries, active, serverVars, failures>>

\* Another request is answered.  A poll may bring work if the record has room, a
\* report frees its place, a deregistration removes the record.  A 401 calls _reconnect.
Answered(r) ==
  /\ IF Authorized(r)
     THEN /\ requests' = BagRemove(requests, r)
          /\ \/ /\ r.kind = "poll" /\ registered = r.of /\ Cardinality(held) < MaxConcurrent
                /\ given < MaxItems
                /\ given' = given + 1
                /\ active' = active \cup {given'} /\ held' = held \cup {given'}
                /\ UNCHANGED registered
             \/ /\ r.kind \in {"poll", "heartbeat"}
                /\ UNCHANGED <<active, held, given, registered>>
             \/ /\ r.kind = "report"
                /\ held' = held \ {r.item}
                /\ UNCHANGED <<active, given, registered>>
             \/ /\ r.kind = "deregister"
                /\ registered' = IF registered = r.of THEN None ELSE registered
                /\ UNCHANGED <<active, held, given>>
          /\ UNCHANGED <<authenticating, handle, intervals, cookie>>
     ELSE /\ Reconnect(BagRemove(requests, r))
          /\ UNCHANGED <<active, held, given, registered>>
  /\ UNCHANGED <<life, beaconID, retries, epoch, ids, outside, failures>>

\* It fails instead; nothing is tried again.
Failed(r) ==
  /\ failures < MaxFailures
  /\ failures' = failures + 1
  /\ requests' = BagRemove(requests, r)
  /\ UNCHANGED <<life, chainVars, active, serverVars>>

-----------------------------------------------------------------------------
(***************************************************************************)
(* The server.                                                             *)
(***************************************************************************)
\* It starts again: sessions and beacon records are in memory, and no beacon that
\* authenticates is connected yet.
ServerRestarts ==
  /\ epoch < MaxEpochs
  /\ epoch' = epoch + 1 /\ registered' = None /\ secured' = NonPromiscuous
  /\ UNCHANGED <<life, chainVars, active, requests, held, given, ids, removals, removed,
                 failures>>

SessionsExpire ==
  /\ epoch < MaxEpochs
  /\ epoch' = epoch + 1
  /\ UNCHANGED <<life, chainVars, active, requests, registered, held, given, ids, outside,
                 failures>>

\* A beacon that authenticates comes or goes.
AuthBeaconChanges ==
  /\ ~NonPromiscuous
  /\ secured' = ~secured
  /\ UNCHANGED <<life, chainVars, active, requests, epoch, registered, held, given, ids,
                 removals, removed, failures>>

\* Somebody else deregisters the beacon: a user, or a client of the same name that stops.
RecordRemoved ==
  /\ registered # None /\ removals < MaxRemovals
  /\ registered' = None /\ removals' = removals + 1 /\ removed' = TRUE
  /\ UNCHANGED <<life, chainVars, active, requests, epoch, held, given, ids, secured,
                 failures>>

\* A client of the same name registers; a record there is stays as it was.
OtherRegisters ==
  /\ registered = None
  /\ Register
  /\ UNCHANGED <<life, chainVars, active, requests, epoch, given, outside, failures>>

\* An item whose report was lost stalls and leaves the record.
ItemTimesOut ==
  \E i \in held \ (active \cup {r.item : r \in Pending({"report"})}) :
    /\ held' = held \ {i}
    /\ UNCHANGED <<life, chainVars, active, requests, epoch, registered, given, ids,
                   outside, failures>>

ChainAnswered ==
  \/ Authenticated
  \/ \E r \in Pending({"register"}) : Registered(r) \/ RegisterUnauthorized(r)

PlainAnswered == \E r \in Pending(Plain) : Answered(r)

Next ==
  \/ Start \/ Stop
  \/ ChainAnswered
  \/ \E r \in Pending({"authenticate", "register"}) : ChainRequestFails(r)
  \/ IntervalFires \/ RetryFires \/ Finish
  \/ PlainAnswered \/ \E r \in Pending(Plain) : Failed(r)
  \/ ServerRestarts \/ SessionsExpire \/ AuthBeaconChanges
  \/ RecordRemoved \/ OtherRegisters \/ ItemTimesOut

\* The server answers, a login with a session, and timers fire.
Fairness ==
  /\ WF_vars(ChainAnswered) /\ WF_vars(PlainAnswered)
  /\ WF_vars(RetryFires) /\ WF_vars(IntervalFires)

Spec == Init /\ [][Next]_vars /\ Fairness

-----------------------------------------------------------------------------
(***************************************************************************)
(* Properties.                                                             *)
(***************************************************************************)
\* However many requests meet a 401 and however many retries are pending, no interval
\* is left behind that nothing can clear.
NoIntervalLeaks == intervals = IF handle THEN 1 ELSE 0

\* A client that polls with a session of the server polls under the BeaconID the
\* server knows it by, whatever restarts cut a registration in two, unless somebody
\* else removed that record since: nothing tells the client.
PollsUnderItsRecord ==
  life = "running" /\ handle /\ cookie = epoch => beaconID = registered \/ removed

\* A running client whose session is lost to a secured server has its intervals and a
\* session again, and the record it polls for unless that was removed, or it is stopped
\* or the server secured no more.
Reconnects ==
  life = "running" /\ secured /\ cookie # epoch
    ~> \/ life = "stopped" \/ ~secured
       \/ handle /\ cookie = epoch /\ (beaconID = registered \/ removed)
=============================================================================
