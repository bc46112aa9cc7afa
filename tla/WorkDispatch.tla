----------------------------- MODULE WorkDispatch -----------------------------
(***************************************************************************)
(* What the work queue of Ultravisor promises whoever asks for work,       *)
(* without beacons, slots, bindings, attempts or timers: each request      *)
(* becomes one item; while the item is open it may be handed to beacons,   *)
(* any number of times; it ends once; and its requester is told of the end *)
(* in the step that ends it.  BeaconCoordinator implements this.           *)
(***************************************************************************)
EXTENDS Naturals

CONSTANTS
  Items,
  Requests,  \* what is asked for; its For says who waits for the end
  None

VARIABLES
  asked,    \* item -> its request, or None
  phase,    \* item -> "new", "open" or "over"
  told,     \* item -> how often its requester was told the end
  reached   \* item -> how often it was handed to a beacon

dispatchVars == <<asked, phase, told, reached>>

Open == {w \in Items : phase[w] = "open"}

Init ==
  /\ asked = [w \in Items |-> None]
  /\ phase = [w \in Items |-> "new"]
  /\ told = [w \in Items |-> 0]
  /\ reached = [w \in Items |-> 0]

\* Some items of W reach a beacon, each of them one.
HandOver(W) ==
  /\ reached' \in [Items -> Nat]
  /\ \A w \in Items : reached'[w] # reached[w] => w \in W /\ reached'[w] = reached[w] + 1

Accept(w, r) ==
  /\ phase[w] = "new"
  /\ phase' = [phase EXCEPT ![w] = "open"]
  /\ asked' = [asked EXCEPT ![w] = r]
  /\ HandOver({w})
  /\ UNCHANGED told

\* Who waits over HTTP is told; a paused operation is resumed or refuses to be,
\* having ended or gone on otherwise; else nobody hears of the end.
End(w) ==
  /\ phase[w] = "open"
  /\ phase' = [phase EXCEPT ![w] = "over"]
  /\ \/ asked[w].For \in {"http", "operation"} /\ told' = [told EXCEPT ![w] = @ + 1]
     \/ asked[w].For # "http" /\ UNCHANGED told
  /\ HandOver(Open)
  /\ UNCHANGED asked

Dispatch == HandOver(Open) /\ UNCHANGED <<asked, phase, told>>

Next ==
  \/ \E w \in Items, r \in Requests : Accept(w, r)
  \/ \E w \in Items : End(w)
  \/ Dispatch

Spec == Init /\ [][Next]_dispatchVars
=============================================================================
