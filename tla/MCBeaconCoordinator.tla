------------------------- MODULE MCBeaconCoordinator -------------------------
(* Small instances of BeaconCoordinator.  wall takes pushes over a socket,  *)
(* pole polls; the fleet filter turns pole down for the "llm" capability.   *)
EXTENDS BeaconCoordinator

MCNames         == {"wall", "pole"}
MCKeys          == {"wall", "pole", "session"}
MCTransport     == [n \in MCNames |-> IF n = "wall" THEN "ws" ELSE "http"]
MCProvides      == [n \in MCNames |-> {"shell", "llm"}]
MCMaxConcurrent == [n \in MCNames |-> IF n = "wall" THEN 1 ELSE 2]
MCFleetDenies   == {<<"pole", "llm">>}

Ask(key, strict, cap, attempts, for) ==
  [AffinityKey |-> key, RequireAffinityMatch |-> strict, Capability |-> cap,
   MaxAttempts |-> attempts, Priority |-> 0, For |-> for]

\* An operation's step that needs a model and may be retried, an HTTP request
\* for one beacon only, and work that follows its session and nobody waits for.
MCRequests == {Ask(None, FALSE, "llm", 2, "operation"),
               Ask("wall", TRUE, "shell", 1, "http"),
               Ask("session", FALSE, "shell", 1, "nobody")}

\* Work that may be retried, for the run that follows one item.
MCRetried == {Ask(None, FALSE, "shell", 2, "operation")}
=============================================================================
