------------------------------- MODULE MCShim --------------------------------
(* Small clusters for the shim. *)
EXTENDS Shim

OneApp      == [p \in Pods |-> CHOOSE a \in Apps : TRUE]
OwnApp      == [p \in Pods |-> p]
StartEmpty  == [p \in Pods |-> {"absent"}]
StartAny    == [p \in Pods |-> {"absent", "bound"}]
StartServed == [p \in Pods |-> IF AppOf[p] \in Refused THEN {"absent"} ELSE {"absent", "bound"}]
==============================================================================
