---------------------------- MODULE AssumeCache -----------------------------
(***************************************************************************)
(* SchedulerCache of the shim: which pods the predicates see on which      *)
(* node.  Three goroutines of the informers feed it, each from a queue of  *)
(* its own, so that what they deliver interleaves in any order:            *)
(*   nodes     addNode, updateNode, deleteNode;                            *)
(*   tasks     addPod, deletePod (every pod of this scheduler);            *)
(*   assigned  addPodToCache, updatePodInCache, removePodFromCache (pods   *)
(*             that have a node).                                          *)
(* The core's allocation loop reads it (IsPodFitNode) and writes to it     *)
(* (AssumePod) before a pod is bound.                                      *)
(*                                                                         *)
(* A pod is its UID, the key of the cache and of the ask; a pod object     *)
(* differs from another one of the same pod by spec.nodeName only.         *)
(***************************************************************************)
EXTENDS Integers, Sequences, FiniteSets

CONSTANTS
  Pods, Nodes,
  FirstPods,   \* what a pod may be at the start: absent, pending or bound
  May,         \* what may happen beyond the ordinary course
  MaxTries,    \* bound: proposals of the core for one pod
  MaxEvents,   \* bound: status updates of pods and changes of the set of nodes
  NoNode

Uncached == "uncached"

ASSUME AssumeAssumption ==
  /\ IsFiniteSet(Pods) /\ IsFiniteSet(Nodes)
  /\ NoNode \notin Nodes /\ Uncached \notin Nodes \cup {NoNode}
  /\ FirstPods \subseteq {"absent", "pending", "bound"}
  /\ May \subseteq {"nodesChange", "refuse", "deletePod", "missEvents", "updatePod"}
  /\ {MaxTries, MaxEvents} \subseteq Nat

VARIABLES
  pod,         \* the pods in the API server
  podNode,     \* their spec.nodeName
  known,       \* spec.nodeName of the last object of each that the informer has seen
  apiNodes,    \* the nodes in the API server
  nodeEvents, taskEvents, assignedEvents,   \* what the informers still have to deliver
  nodesMap,    \* "absent", "bare" (a NodeInfo without its node) or "set"
  podsOn,      \* podsOn[n][p]: how often p is in the NodeInfo of n
  podsMap,     \* podsMap[p]: nodeName of the cached pod
  assumedPods, \* SchedulerCache.assumedPods
  proposal,    \* what the core has under way for a pod
  tries,       \* proposals made for a pod so far
  doubted,     \* history: pods that were assumed somewhere and not bound there
  lost,        \* history: nodes that the cache has removed
  events       \* changes counted against MaxEvents

apiVars   == <<pod, podNode, known, apiNodes>>
queueVars == <<nodeEvents, taskEvents, assignedEvents>>
cacheVars == <<nodesMap, podsOn, podsMap, assumedPods>>
coreVars  == <<proposal, tries>>
ghostVars == <<doubted, lost>>
assumeVars == <<apiVars, queueVars, cacheVars, coreVars, ghostVars, events>>

Idle   == [stage |-> "idle", node |-> NoNode]
NoPods == [p \in Pods |-> 0]

Ev(kind, p, n) == [kind |-> kind, pod |-> p, node |-> n]

-----------------------------------------------------------------------------
(* The cache.  Its operations hold the lock: each is one step, and each is *)
(* a change of c, the four variables of the cache as a record.             *)
Cache == [nodes |-> nodesMap, on |-> podsOn, pods |-> podsMap, assumed |-> assumedPods]

CacheBecomes(c) ==
  /\ nodesMap' = c.nodes /\ podsOn' = c.on
  /\ podsMap' = c.pods /\ assumedPods' = c.assumed

(* NodeInfo.AddPod appends without looking for the pod. *)
NodeInfoAddPod(c, p, n) == [c EXCEPT !.on[n][p] = @ + 1]

(* NodeInfo.RemovePod removes one entry of the pod and fails without one. *)
NodeInfoHas(c, p, n) == c.on[n][p] > 0

NodeInfoRemovePod(c, p, n) == [c EXCEPT !.on[n][p] = @ - 1]

AddPodToNode(c, p, n) ==
  IF n = NoNode THEN c
  ELSE NodeInfoAddPod([c EXCEPT !.nodes[n] = IF @ = "absent" THEN "bare" ELSE @], p, n)

RemoveFails(c, p, n) == n = NoNode \/ c.nodes[n] = "absent" \/ ~ NodeInfoHas(c, p, n)

(* Mutant: a pod that is removed is also forgotten. *)
RemoveAndForget(c, p, n) ==
  IF RemoveFails(c, p, n) THEN c
  ELSE [NodeInfoRemovePod(c, p, n) EXCEPT !.pods[p] = Uncached]

RemovePod(c, p, n) == IF RemoveFails(c, p, n) THEN c ELSE NodeInfoRemovePod(c, p, n)

AddPod(c, p, n) ==
  LET cached == [c EXCEPT !.pods[p] = n, !.assumed = @ \ {p}]
      moved  == AddPodToNode(RemovePod(cached, p, c.pods[p]), p, n)
  IN CASE c.pods[p] = Uncached                     -> AddPodToNode(cached, p, n)
       [] p \in c.assumed /\ c.pods[p] # n         -> moved
       [] p \in c.assumed /\ c.pods[p] = n         -> cached
       [] OTHER                                    -> c

(* Mutant: the new object is added and the old one stays. *)
UpdateByAdding(c, p, n) ==
  IF c.pods[p] = Uncached \/ p \in c.assumed \/ RemoveFails(c, p, n) THEN c
  ELSE [AddPodToNode(c, p, n) EXCEPT !.pods[p] = n]

(* The nodeName of a bound pod never changes: old and new pod are on n. *)
UpdatePod(c, p, n) ==
  IF c.pods[p] = Uncached \/ p \in c.assumed \/ RemoveFails(c, p, n) THEN c
  ELSE [AddPodToNode(RemovePod(c, p, n), p, n) EXCEPT !.pods[p] = n]

AssumePodInCache(c, p, n) ==
  [AddPodToNode(c, p, n) EXCEPT !.pods[p] = n, !.assumed = @ \cup {p}]

AddNode(c, n) == IF c.nodes[n] = "absent" THEN [c EXCEPT !.nodes[n] = "set"] ELSE c

(* Mutant: an update only replaces a node that is set. *)
UpdateSetNode(c, n) == c

UpdateNode(c, n) == IF c.nodes[n] = "absent" THEN c ELSE [c EXCEPT !.nodes[n] = "set"]

RemoveNode(c, n) == [c EXCEPT !.nodes[n] = "absent", !.on[n] = NoPods]

-----------------------------------------------------------------------------
(* The API server and what its informers queue for the handlers. *)

(* filterPods and filterAssignedPods: a pod counts as added to the second  *)
(* handler when it gets a node.                                            *)
FirstEvents(ps, node) ==
  [tasks    |-> [p \in ps |-> Ev("add", p, node[p])],
   assigned |-> [p \in {q \in ps : node[q] # NoNode} |-> Ev("add", p, node[p])]]

SomeOrder(events1) ==
  {s \in [1..Cardinality(DOMAIN events1) -> {events1[p] : p \in DOMAIN events1}] :
     \A i, j \in DOMAIN s : i # j => s[i] # s[j]}

CreatePod(p) ==
  /\ pod[p] = "absent"
  /\ pod' = [pod EXCEPT ![p] = "pending"]
  /\ taskEvents' = Append(taskEvents, Ev("add", p, NoNode))
  /\ UNCHANGED <<podNode, known, apiNodes, nodeEvents, assignedEvents, cacheVars, coreVars,
                 ghostVars, events>>

(* The informer has the pod as it is in the API server. *)
Informed(p) == known[p] = podNode[p]

UpdateBoundPod(p) ==
  /\ "updatePod" \in May /\ pod[p] = "bound" /\ Informed(p) /\ events < MaxEvents
  /\ events' = events + 1
  /\ assignedEvents' = Append(assignedEvents, Ev("update", p, podNode[p]))
  /\ UNCHANGED <<apiVars, nodeEvents, taskEvents, cacheVars, coreVars, ghostVars>>

(* A watch that was interrupted finds a pod with a node at its next list,  *)
(* and the second handler gets the addition then.                          *)
Relist(p) ==
  /\ pod[p] = "bound" /\ ~Informed(p)
  /\ known' = [known EXCEPT ![p] = podNode[p]]
  /\ assignedEvents' = Append(assignedEvents, Ev("add", p, podNode[p]))
  /\ UNCHANGED <<pod, podNode, apiNodes, nodeEvents, taskEvents, cacheVars, coreVars,
                 ghostVars, events>>

(* A delete that the watch missed arrives as DeletedFinalStateUnknown with *)
(* the last object the informer knew: filterPods drops every one of these, *)
(* filterAssignedPods those whose object has no node yet.                  *)
DeletePod(p) ==
  /\ "deletePod" \in May /\ pod[p] \in {"pending", "bound"}
  /\ pod' = [pod EXCEPT ![p] = "gone"]
  /\ \/ Informed(p) /\ taskEvents' = Append(taskEvents, Ev("delete", p, podNode[p]))
     \/ "missEvents" \in May /\ UNCHANGED taskEvents
  /\ assignedEvents' = IF known[p] = NoNode THEN assignedEvents
                       ELSE Append(assignedEvents, Ev("delete", p, known[p]))
  /\ doubted' = IF p \in assumedPods /\ pod[p] = "pending" THEN doubted \cup {p} ELSE doubted
  /\ UNCHANGED <<podNode, known, apiNodes, nodeEvents, cacheVars, coreVars, lost, events>>

NodeJoins(n) ==
  /\ "nodesChange" \in May /\ n \notin apiNodes /\ events < MaxEvents
  /\ events' = events + 1
  /\ apiNodes' = apiNodes \cup {n}
  /\ nodeEvents' = Append(nodeEvents, Ev("add", NoNode, n))
  /\ UNCHANGED <<pod, podNode, known, taskEvents, assignedEvents, cacheVars, coreVars, ghostVars>>

NodeLeaves(n) ==
  /\ "nodesChange" \in May /\ n \in apiNodes /\ events < MaxEvents
  /\ events' = events + 1
  /\ apiNodes' = apiNodes \ {n}
  /\ nodeEvents' = Append(nodeEvents, Ev("delete", NoNode, n))
  /\ UNCHANGED <<pod, podNode, known, taskEvents, assignedEvents, cacheVars, coreVars, ghostVars>>

(* A kubelet reports the status of its node again and again; a report that *)
(* would change nothing is left out.                                       *)
Heartbeat(n) ==
  /\ n \in apiNodes /\ nodeEvents = <<>> /\ nodesMap[n] # "set"
  /\ nodeEvents' = Append(nodeEvents, Ev("update", NoNode, n))
  /\ UNCHANGED <<apiVars, taskEvents, assignedEvents, cacheVars, coreVars, ghostVars, events>>

-----------------------------------------------------------------------------
(* The handlers of the context. *)
HandleNodeEvent ==
  /\ nodeEvents # <<>>
  /\ LET e == Head(nodeEvents) IN
       /\ CacheBecomes(CASE e.kind = "add"    -> AddNode(Cache, e.node)
                         [] e.kind = "update" -> UpdateNode(Cache, e.node)
                         [] e.kind = "delete" -> RemoveNode(Cache, e.node))
       /\ lost' = IF e.kind = "delete" THEN lost \cup {e.node} ELSE lost
  /\ nodeEvents' = Tail(nodeEvents)
  /\ UNCHANGED <<apiVars, taskEvents, assignedEvents, coreVars, doubted, events>>

HandleTaskEvent ==
  /\ taskEvents # <<>>
  /\ LET e == Head(taskEvents) IN
       CacheBecomes(CASE e.kind = "add"    -> AddPod(Cache, e.pod, e.node)
                      [] e.kind = "delete" -> RemovePod(Cache, e.pod, e.node))
  /\ taskEvents' = Tail(taskEvents)
  /\ UNCHANGED <<apiVars, nodeEvents, assignedEvents, coreVars, ghostVars, events>>

HandleAssignedEvent ==
  /\ assignedEvents # <<>>
  /\ LET e == Head(assignedEvents) IN
       CacheBecomes(CASE e.kind = "add"    -> AddPod(Cache, e.pod, e.node)
                      [] e.kind = "update" -> UpdatePod(Cache, e.pod, e.node)
                      [] e.kind = "delete" -> RemovePod(Cache, e.pod, e.node))
  /\ assignedEvents' = Tail(assignedEvents)
  /\ UNCHANGED <<apiVars, nodeEvents, taskEvents, coreVars, ghostVars, events>>

-----------------------------------------------------------------------------
(* The core: an ask for the pod exists from some time after its creation.  *)

(* Mutant: a pod the cache does not know fits everywhere. *)
FitsUnknownPod(p, n) == nodesMap[n] = "set"

(* Predicates fail on a NodeInfo that has no node. *)
IsPodFitNode(p, n) == podsMap[p] # Uncached /\ nodesMap[n] = "set"

(* Context.AssumePod holds the lock that IsPodFitNode takes. *)
Unlocked == \A p \in Pods : proposal[p].stage # "found"

(* CheckAllocateConditions, then the core looks at the node's resources. *)
CheckPod(p, n) ==
  /\ pod[p] = "pending" /\ proposal[p] = Idle /\ tries[p] < MaxTries /\ Unlocked
  /\ IsPodFitNode(p, n)
  /\ proposal' = [proposal EXCEPT ![p] = [stage |-> "checked", node |-> n]]
  /\ tries' = [tries EXCEPT ![p] = @ + 1]
  /\ UNCHANGED <<apiVars, queueVars, cacheVars, ghostVars, events>>

(* Context.AssumePod, called through ReSyncSchedulerCache: it looks up the *)
(* pod and the node, and does nothing when one of them is not there ...    *)
FindTarget(p) ==
  /\ proposal[p].stage = "checked" /\ Unlocked
  /\ LET found == podsMap[p] # Uncached /\ nodesMap[proposal[p].node] # "absent"
     IN proposal' = [proposal EXCEPT ![p].stage = IF found THEN "found" ELSE "assumed"]
  /\ UNCHANGED <<apiVars, queueVars, cacheVars, tries, ghostVars, events>>

(* ... and then changes the cache, which may have lost the node meanwhile. *)
AssumePod(p) ==
  LET n == proposal[p].node IN
  /\ proposal[p].stage = "found"
  /\ proposal' = [proposal EXCEPT ![p].stage = "assumed"]
  /\ CacheBecomes(AssumePodInCache(Cache, p, n))
  /\ doubted' = IF pod[p] = "pending" THEN doubted ELSE doubted \cup {p}
  /\ UNCHANGED <<apiVars, queueVars, tries, lost, events>>

(* The allocation is confirmed and the task binds the pod; the informer    *)
(* sees it at once, or later when its watch is interrupted.                *)
BindPod(p) ==
  LET n == proposal[p].node IN
  /\ proposal[p].stage = "assumed"
  /\ proposal' = [proposal EXCEPT ![p] = Idle]
  /\ pod[p] = "pending"
  /\ pod' = [pod EXCEPT ![p] = "bound"]
  /\ podNode' = [podNode EXCEPT ![p] = n]
  /\ \/ /\ known' = [known EXCEPT ![p] = n]
        /\ assignedEvents' = Append(assignedEvents, Ev("add", p, n))
     \/ "missEvents" \in May /\ UNCHANGED <<known, assignedEvents>>
  /\ UNCHANGED <<apiNodes, nodeEvents, taskEvents, cacheVars, tries, ghostVars, events>>

(* The cache of the core refuses the proposal, the bind fails or the pod   *)
(* has gone: nothing tells the shim's cache (ForgetPod has no caller).     *)
DropProposal(p) ==
  /\ proposal[p].stage = "assumed"
  /\ "refuse" \in May \/ pod[p] # "pending"
  /\ proposal' = [proposal EXCEPT ![p] = Idle]
  /\ doubted' = IF p \in assumedPods THEN doubted \cup {p} ELSE doubted
  /\ UNCHANGED <<apiVars, queueVars, cacheVars, tries, lost, events>>

-----------------------------------------------------------------------------
(* A start of the shim: the cache is empty and the informers deliver every *)
(* pod and every node there is.  A bound pod's node may have left already. *)
Init ==
  /\ pod \in [Pods -> FirstPods]
  /\ podNode \in [Pods -> Nodes \cup {NoNode}]
  /\ \A p \in Pods : podNode[p] # NoNode <=> pod[p] = "bound"
  /\ known = podNode
  /\ apiNodes \in IF "nodesChange" \in May THEN SUBSET Nodes ELSE {Nodes}
  /\ LET first == FirstEvents({p \in Pods : pod[p] # "absent"}, podNode) IN
       /\ taskEvents \in SomeOrder(first.tasks)
       /\ assignedEvents \in SomeOrder(first.assigned)
  /\ nodeEvents \in SomeOrder([n \in apiNodes |-> Ev("add", NoNode, n)])
  /\ nodesMap = [n \in Nodes |-> "absent"]
  /\ podsOn = [n \in Nodes |-> NoPods]
  /\ podsMap = [p \in Pods |-> Uncached]
  /\ assumedPods = {}
  /\ proposal = [p \in Pods |-> Idle] /\ tries = [p \in Pods |-> 0]
  /\ doubted = {} /\ lost = {} /\ events = 0

Handlers == HandleNodeEvent \/ HandleTaskEvent \/ HandleAssignedEvent

Next ==
  \/ Handlers
  \/ \E p \in Pods : \/ CreatePod(p) \/ UpdateBoundPod(p) \/ Relist(p) \/ DeletePod(p)
                     \/ FindTarget(p) \/ AssumePod(p) \/ BindPod(p) \/ DropProposal(p)
                     \/ \E n \in Nodes : CheckPod(p, n)
  \/ \E n \in Nodes : NodeJoins(n) \/ NodeLeaves(n) \/ Heartbeat(n)

Spec == Init /\ [][Next]_assumeVars

(* The informers' goroutines never stop, and a kubelet keeps reporting. *)
FairSpec ==
  /\ Spec
  /\ WF_assumeVars(HandleNodeEvent) /\ WF_assumeVars(HandleTaskEvent)
  /\ WF_assumeVars(HandleAssignedEvent)
  /\ \A n \in Nodes : WF_assumeVars(Heartbeat(n))

-----------------------------------------------------------------------------
(* Properties. *)

(* The cache holds what it can hold: no NodeInfo has a negative number of  *)
(* entries for a pod, a node that is not in the cache has no pods, and a   *)
(* pod is assumed only while the cache has it on a node.                   *)
AssumeTypeOK ==
  /\ pod \in [Pods -> {"absent", "pending", "bound", "gone"}]
  /\ nodesMap \in [Nodes -> {"absent", "bare", "set"}]
  /\ podsOn \in [Nodes -> [Pods -> 0..(MaxTries + 1)]]
  /\ podsMap \in [Pods -> Nodes \cup {NoNode, Uncached}]
  /\ \A p \in assumedPods : podsMap[p] \in Nodes
  /\ \A n \in Nodes : nodesMap[n] = "absent" => podsOn[n] = NoPods

(* The predicates never overlook a pod: from the moment the core has       *)
(* assumed a pod on a node, or the cache has learnt of a bound one after a *)
(* restart, the node's NodeInfo shows it until the pod is deleted, in      *)
(* whatever order the three informers deliver.  (scheduler_cache.go        *)
(* 135-137: "so that scheduler knows which pod is running before pod is    *)
(* bound to that node".)  A node that was removed starts again without its *)
(* pods and is exempt.                                                     *)
PlacedPodsSeen ==
  \A p \in Pods, n \in Nodes \ lost :
    \/ proposal[p] = [stage |-> "assumed", node |-> n] /\ pod[p] = "pending"
    \/ pod[p] = "bound" /\ podNode[p] = n /\ podsMap[p] # Uncached
    => podsOn[n][p] > 0

(* Nothing about the pod is under way any more. *)
Settled(p) ==
  /\ proposal[p] = Idle
  /\ \A s \in {taskEvents, assignedEvents} : \A i \in DOMAIN s : s[i].pod # p

(* No pod is counted twice or after its end: once the handlers have had    *)
(* what the informer has seen of a pod, its node shows it once and every   *)
(* other node not at all, although two handlers add it and two remove it.  *)
(* Two kinds of pods are exempt, for which the code has no remedy: those   *)
(* assumed in vain, as nothing calls ForgetPod (scheduler_cache.go 266) to *)
(* take an assumption back, and those whose binding and deletion the watch *)
(* missed both, as filterAssignedPods (context.go 448-456) drops such a    *)
(* deletion.                                                               *)
CountsExact ==
  \A p \in Pods \ doubted, n \in Nodes \ lost :
    Settled(p) /\ Informed(p) =>
      podsOn[n][p] = IF pod[p] = "bound" /\ podNode[p] = n THEN 1 ELSE 0

(* A node of the cluster can eventually be used: the NodeInfo that a pod   *)
(* created before its node was delivered does not stay without its node,   *)
(* for which IsPodFitNode refuses every pod.                               *)
NodesBecomeUsable ==
  \A n \in Nodes : n \in apiNodes ~> (nodesMap[n] = "set" \/ n \notin apiNodes)
=============================================================================
