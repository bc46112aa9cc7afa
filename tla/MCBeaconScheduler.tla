-------------------------- MODULE MCBeaconScheduler --------------------------
(* Small instances of the hub: wall takes pushes over a socket, pole polls;  *)
(* the fleet filter turns pole down for the "llm" capability.                *)
EXTENDS BeaconScheduler

MCNames         == {"wall", "pole"}
MCKeys          == {"wall", "pole", "session"}
MCTransport     == [n \in MCNames |-> IF n = "wall" THEN "ws" ELSE "http"]
MCProvides      == [n \in MCNames |-> {"shell", "llm"}]
MCMaxConcurrent == [n \in MCNames |-> 1]
MCFleetDenies   == {<<"pole", "llm">>}

Ask(key, strict, cap, attempts, priority, for) ==
  [AffinityKey |-> key, RequireAffinityMatch |-> strict, Capability |-> cap,
   MaxAttempts |-> attempts, Priority |-> priority, For |-> for]

MCRequests == {Ask(None, FALSE, "llm", 1, 0, "operation"),
               Ask("wall", TRUE, "shell", 1, 1, "http")}

\* States that differ in handOvers only are one: no step of HubSpec and no
\* property of this run reads it.
HubView == <<beacons, channel, currentWorkItems, workQueue, bindings, callbacks,
             resuming, up, executions, notified>>

\* Work of one session, for the run that follows it to its end.
MCLiveRequests == {Ask("session", FALSE, "shell", 1, 0, "operation")}
=============================================================================
