-------------------------- MODULE MCQueuePersistence --------------------------
(* Two items, enqueued in one millisecond or in two; a queue beacon that       *)
(* registers under two BeaconIDs; a databeacon with one connection, assigned,  *)
(* unassigned and assigned again while a bootstrap is in flight.               *)
EXTENDS QueuePersistence
=============================================================================
