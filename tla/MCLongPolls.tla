----------------------------- MODULE MCLongPolls -----------------------------
(* A poller of the queue's events and two of the observer's, with limits of *)
(* one and two, over five envelopes and a ring of three; two may wait.      *)
EXTENDS LongPolls

CONSTANTS q, o1, o2

MCPollers == {q, o1, o2}
MCBucket == [p \in MCPollers |-> IF p = q THEN "queue" ELSE "observer"]
MCLimit == [p \in MCPollers |-> IF p = o1 THEN 1 ELSE 2]
=============================================================================
