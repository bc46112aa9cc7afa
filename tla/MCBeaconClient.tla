---------------------------- MODULE MCBeaconClient ----------------------------
(* One work item, two polls or heartbeats in flight, a server that loses its    *)
(* sessions twice and is secured or not, a request that fails and a record that *)
(* is removed once.                                                             *)
EXTENDS BeaconClient
=============================================================================
