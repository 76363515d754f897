--------------------------- MODULE MCQueueLimits ----------------------------
(* Root, a queue a below it, and in a the leaves b and c. *)
EXTENDS QueueLimits

MCQueues == <<"b", "c", "a", "root">>
MCParentOf == [q \in {"a", "b", "c"} |-> IF q = "a" THEN "root" ELSE "a"]

Mem(n) == [k \in {"memory"} |-> n]
Both(m, v) == [k \in {"memory", "vcore"} |-> IF k = "memory" THEN m ELSE v]

MCTotal == Both(2, 1)
MCAsks == {Mem(1), Both(1, 1)}

(* Limits on a and on b; c is never configured. *)
Unlimited == [max |-> NilResource, guaranteed |-> NilResource]
Config(am, ag, bm, bg) ==
  [q \in {"root", "a", "b", "c"} |->
     CASE q = "a" -> [max |-> am, guaranteed |-> ag]
       [] q = "b" -> [max |-> bm, guaranteed |-> bg]
       [] OTHER -> Unlimited]
MCConfigs ==
  { Config(Mem(2), NilResource, Mem(1), Mem(1)),
    Config(NilResource, Mem(1), Both(1, 0), NilResource),
    Config(Both(1, 1), Mem(1), NilResource, Both(1, 0)) }
=============================================================================
