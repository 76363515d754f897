----------------------------- MODULE PodContract -----------------------------
(***************************************************************************)
(* What the scheduler owes the cluster, whatever happens inside it: while  *)
(* it is scheduling, every pod that occupies a node holds a reservation,   *)
(* and a reservation is given up only when its pod no longer occupies the  *)
(* node.  A crash loses all reservations; scheduling resumes only after    *)
(* they have been built up again from the pods found running.              *)
(***************************************************************************)
CONSTANT Pods

VARIABLES
  up,         \* the scheduler is scheduling
  running,    \* pods that occupy a node
  reserved    \* pods the scheduler accounts for

contractVars == <<up, running, reserved>>

ContractInit == ~up /\ running \subseteq Pods /\ reserved = {}

(* The scheduler sets a node's resources aside for a pod, ... *)
Reserve(p) ==
  /\ up /\ p \notin running
  /\ reserved' = reserved \cup {p}
  /\ UNCHANGED <<up, running>>

(* ... the pod starts there, ... *)
Start(p) ==
  /\ up /\ p \in reserved \ running
  /\ running' = running \cup {p}
  /\ UNCHANGED <<up, reserved>>

(* ... ends in its own time, also while the scheduler is down, ... *)
End(p) ==
  /\ running' = running \ {p}
  /\ UNCHANGED <<up, reserved>>

(* ... and the scheduler takes the resources back. *)
Free(p) ==
  /\ p \in reserved \ running
  /\ reserved' = reserved \ {p}
  /\ UNCHANGED <<up, running>>

Crash == up' = FALSE /\ reserved' = {} /\ UNCHANGED running

Rebuild(S) ==
  /\ ~up
  /\ reserved' = reserved \cup S
  /\ UNCHANGED <<up, running>>

Resume ==
  /\ running \subseteq reserved
  /\ up' = TRUE
  /\ UNCHANGED <<running, reserved>>

ContractNext ==
  \/ \E p \in Pods : Reserve(p) \/ Start(p) \/ End(p) \/ Free(p)
  \/ \E S \in SUBSET Pods : Rebuild(S)
  \/ Crash \/ Resume

ContractSpec == ContractInit /\ [][ContractNext]_contractVars

(* Nothing that occupies a node is unaccounted for. *)
Accounted == up => running \subseteq reserved
==============================================================================
