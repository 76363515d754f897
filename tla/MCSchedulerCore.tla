--------------------------- MODULE MCSchedulerCore ---------------------------
(* The scheduler core with two leaf queues under the root and small nodes. *)
EXTENDS SchedulerCore, TLC

MCQueues   == {"root", "root.a", "root.b"}
MCLeaves   == {"root.a", "root.b"}
MCPathTo   == [q \in MCQueues |-> {q, "root"}]
MCQueueMax == [q \in MCQueues |-> NoLimit]

(* Applications and keys are numbered, key i belongs to application i. *)
MCAppOf        == [k \in Keys |-> IF k \in Apps THEN k ELSE CHOOSE a \in Apps : TRUE]
MCFeasible     == [k \in Keys |-> Nodes]
MCMaySubmit    == [a \in Apps |-> Queues]
MCTwoUnits     == [n \in Nodes |-> 2]
==============================================================================
