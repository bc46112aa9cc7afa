-------------------------- MODULE MCExecutionEngine --------------------------
(* Small instances of ExecutionEngine: a task, two beacon dispatches, a     *)
(* value input and a split.                                                 *)
EXTENDS ExecutionEngine

MCNodes == {"task", "one", "two", "input", "split", "end"}
MCKind  == [n \in MCNodes |-> IF n \in {"one", "two"} THEN "beacon" ELSE n]

Unwired == [n \in MCNodes |-> [f \in Fires |-> <<>>]]
Go(n)   == <<n, "Trigger">>

\* A dispatch beside a task, each followed by the other dispatch; the first
\* dispatch has an error edge.
Beside ==
  [start |-> <<Go("one"), Go("task")>>,
   wires |-> [Unwired EXCEPT !["one"]["Complete"] = <<Go("end")>>,
                             !["one"]["Error"]    = <<Go("task")>>,
                             !["task"]["Complete"] = <<Go("two")>>]]
\* A dispatch beside a question to the user.
Ask ==
  [start |-> <<Go("one"), Go("input")>>,
   wires |-> [Unwired EXCEPT !["one"]["Complete"] = <<Go("task")>>,
                             !["input"]["Complete"] = <<Go("two")>>,
                             !["input"]["Error"]    = <<Go("end")>>]]
\* One dispatch for each token.
Each ==
  [start |-> <<Go("split")>>,
   wires |-> [Unwired EXCEPT !["split"]["TokenDataSent"] = <<Go("one")>>,
                             !["one"]["Complete"] = << <<"split", "StepComplete">> >>,
                             !["one"]["Error"]    = << <<"split", "StepComplete">> >>,
                             !["split"]["Complete"] = <<Go("end")>>]]
\* A step is reported before anything was split; and no Start node.
Early   == [start |-> << <<"split", "StepComplete">> >>, wires |-> Unwired]
Nowhere == [start |-> None, wires |-> Unwired]

MCOperations == {Beside, Ask, Each, Early, Nowhere}
=============================================================================
