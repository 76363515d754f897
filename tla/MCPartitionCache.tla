-------------------------- MODULE MCPartitionCache --------------------------
(* A partition with two leaf queues under the root, small sizes and nodes, *)
(* checked exhaustively.                                                   *)
EXTENDS PartitionCache, TLC

MCQueues   == {"root", "root.a", "root.b"}
MCLeaves   == {"root.a", "root.b"}
MCPathTo   == [q \in MCQueues |-> {q, "root"}]
MCQueueMax == [q \in MCQueues |-> IF q = "root.a" THEN 1 ELSE NoLimit]

Symmetry == Permutations(Nodes) \cup Permutations(Apps) \cup Permutations(Uuids)
=============================================================================
