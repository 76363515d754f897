------------------------------- MODULE Weights -------------------------------
(***************************************************************************)
(* The sum of a weight over a set, the way resource quantities are summed  *)
(* over nodes, allocations and asks: resources.Add and resources.Sub on    *)
(* one resource type (yunikorn-core/pkg/common/resources).  A quantity is  *)
(* the number of its units, so a sum is the cardinality of a set of units  *)
(* and its laws are laws of finite sets.                                   *)
(***************************************************************************)
EXTENDS Integers, FiniteSets

(* The units of the elements of S, where w[x] is the weight of x. *)
UnitsOf(S, w) == UNION { {x} \X (1 .. w[x]) : x \in S }

Weight(S, w) == Cardinality(UnitsOf(S, w))

(* The sum is defined: there are finitely many units. *)
Weighable(S, w) == IsFiniteSet(UnitsOf(S, w))
=============================================================================
