----------------------------- MODULE MCRunEvents -----------------------------
(* Two clients watch a run of four events with a buffer of two.  One of     *)
(* them connects or sends a further frame three times, so that it can lose  *)
(* its socket, come back and subscribe anew; the process is restarted once. *)
EXTENDS RunEvents

CONSTANTS c1, c2

MCClients == {c1, c2}
MCTries == [c \in MCClients |-> IF c = c1 THEN 3 ELSE 1]
=============================================================================
