--------------------------- MODULE PartitionCache ---------------------------
(***************************************************************************)
(* The cache's view of one partition: PartitionInfo with its NodeInfo,     *)
(* ApplicationInfo and QueueInfo objects (yunikorn-core/pkg/cache).        *)
(*                                                                         *)
(* Every allocation is kept in three places: the application, the node and *)
(* the partition wide map; and its size is added to counters of the        *)
(* application, the node and every queue from the leaf up to the root.     *)
(* The code keeps these in step by hand.  This module models each method   *)
(* of PartitionInfo that changes them; all of them hold the partition      *)
(* lock.  The loops of addNewNode and removeNodeInternal are one step per  *)
(* iteration: the variable op is the position inside the method that holds *)
(* the lock, and no other method runs until it is Idle again.              *)
(*                                                                         *)
(* A resource is one non-negative quantity: every check (FitIn) and every  *)
(* update (Add, Sub) of the code works on each resource type on its own.   *)
(***************************************************************************)
EXTENDS Integers, Sequences, FiniteSets, Weights

CONSTANTS
  Nodes,          \* node ids
  Apps,           \* application ids
  Uuids,          \* allocation uuids
  Queues,         \* queues of the partition, fixed by the configuration
  Root,           \* the root queue
  Leaves,         \* the leaf queues
  PathTo,         \* PathTo[q]: q and all its ancestors
  QueueMax,       \* configured maximum of a queue other than the root
  Sizes,          \* possible sizes of an allocation
  Capacities,     \* possible total resources of a node
  MaxReports,     \* bound: existing allocations reported with one node
  MaxCharge,      \* bound: no new request once a queue is charged this much
  Placement,      \* TRUE: placement rules choose the queue of an application
  ProposalsFit,   \* TRUE: proposals are for accepted applications, in their queue
  ReportsWait,    \* TRUE: a node is reported after its applications are accepted
  ReportsOwn,     \* TRUE: ... and names the queues they run in
  NoQueue,        \* the nil *QueueInfo
  NoNode,         \* no node: op is idle
  NoLimit         \* the nil MaxResource

ASSUME QueueAssumption ==
  /\ Root \in Queues
  /\ Leaves \subseteq Queues
  /\ PathTo \in [Queues -> SUBSET Queues]
  /\ \A q \in Queues : {q, Root} \subseteq PathTo[q]
  /\ NoQueue \notin Queues
  /\ QueueMax \in [Queues -> Nat \cup {NoLimit}]

ASSUME SizeAssumption ==
  /\ Sizes \subseteq Nat
  /\ Capacities \subseteq Nat
  /\ {MaxReports, MaxCharge} \subseteq Nat

ASSUME FlagAssumption ==
  /\ {Placement, ProposalsFit, ReportsWait, ReportsOwn} \subseteq BOOLEAN
  /\ NoNode \notin Nodes

(* What the callers of the partition promise when the RM is the k8shim,    *)
(* which waits for its applications to be accepted before it reports its   *)
(* nodes, no placement rule moves an application to another queue than the *)
(* one its pods name, and no application id is used twice.                 *)
Disciplined == ProposalsFit /\ ReportsWait /\ ReportsOwn

VARIABLES
  partitionState, \* state of the partition's object state machine
  nodes,          \* keys of pi.nodes
  nodeTotal,      \* NodeInfo.TotalResource
  nodeAllocs,     \* NodeInfo.allocations
  nodeAllocated,  \* NodeInfo.allocatedResource
  apps,           \* keys of pi.applications
  appState,       \* ApplicationInfo.stateMachine
  leafQueue,      \* ApplicationInfo.leafQueue
  appAllocs,      \* ApplicationInfo.allocations
  appAllocated,   \* ApplicationInfo.allocatedResource
  allocations,    \* pi.allocations
  queueAllocated, \* QueueInfo.allocatedResource
  total,          \* pi.totalPartitionResource, also Root.MaxResource
  op              \* the method holding the lock and what it has left to do

nodeVars == <<nodes, nodeTotal, nodeAllocs, nodeAllocated, total>>
appVars  == <<apps, appState, leafQueue, appAllocs, appAllocated>>
vars == <<partitionState, nodeVars, appVars, allocations, queueAllocated, op>>

-----------------------------------------------------------------------------
(* Values *)

PartitionStates == {"Active", "Draining", "Stopped"}
AppStates == {"New", "Accepted", "Rejected", "Running", "Killed"}

(* A queue name as it stands in a request: it may name no queue at all. *)
QueueNames == Queues \cup {NoQueue}

Allocation == [uuid : Uuids, app : Apps, node : Nodes, queue : Leaves, res : Sizes]
Proposal   == [app : Apps, node : Nodes, queue : QueueNames, res : Sizes]

(* An allocation reported with a node carries a node id of its own, which  *)
(* addNodeReportedAllocations uses: nothing compares it with the node that *)
(* is being added.                                                         *)
Report == Proposal

Idle == [kind |-> "idle", node |-> NoNode, reports |-> <<>>, apps |-> {}, allocs |-> {}]
Op == [kind : {"idle", "addNode", "removeNode"}, node : Nodes \cup {NoNode},
       reports : Seq(Report), apps : SUBSET Apps, allocs : SUBSET Allocation]

-----------------------------------------------------------------------------
(* Resources *)

(* The total size of a set of allocations. *)
SizeOf == [a \in Allocation |-> a.res]
TotalOf(S) == Weight(S, SizeOf)

(* QueueInfo.MaxResource: the root's is replaced whenever a node comes or  *)
(* goes, the others come from the configuration.                           *)
MaxResource(q) == IF q = Root THEN total ELSE QueueMax[q]

WithinMax(q, r) ==
  MaxResource(q) # NoLimit => queueAllocated[q] + r <= MaxResource(q)

(* IncAllocatedResource checks the queue, then its parent, and so on, and  *)
(* updates on the way back: nothing changes unless every check passes.     *)
FitsQueue(q, r, nodeReported) ==
  nodeReported \/ \A p \in PathTo[q] : WithinMax(p, r)

(* Mutant: the parents are not updated. *)
IncLeafOnly(q, r) == [queueAllocated EXCEPT ![q] = @ + r]

IncAllocatedResource(q, r) ==
  [p \in Queues |-> IF p \in PathTo[q] THEN queueAllocated[p] + r
                                       ELSE queueAllocated[p]]

(* DecAllocatedResource: an error on any level leaves all levels alone,    *)
(* and every caller only logs the error.                                   *)
CanDec(q, r) == \A p \in PathTo[q] : r <= queueAllocated[p]

DecAllocatedResource(q, r) ==
  [p \in Queues |-> IF q # NoQueue /\ CanDec(q, r) /\ p \in PathTo[q]
                    THEN queueAllocated[p] - r
                    ELSE queueAllocated[p]]

-----------------------------------------------------------------------------
(* Allocations *)

(* GetNewAllocationUuid retries while the uuid is a key of pi.allocations; *)
(* the nodes and the applications are not looked at.                       *)
FreshUuid(u) == \A a \in allocations : a.uuid # u

(* Mutant: a node reported allocation skips the node's limit as well. *)
CanAllocateTrusting(p, nodeReported) ==
  /\ partitionState # "Stopped"
  /\ p.node \in nodes
  /\ p.app \in apps
  /\ p.queue \in Leaves
  /\ nodeReported \/ nodeAllocated[p.node] + p.res <= nodeTotal[p.node]
  /\ FitsQueue(p.queue, p.res, nodeReported)

(* The checks of addNewAllocationInternal, in its order. *)
CanAllocate(p, nodeReported) ==
  /\ partitionState # "Stopped"
  /\ p.node \in nodes
  /\ p.app \in apps
  /\ p.queue \in Leaves
  /\ nodeAllocated[p.node] + p.res <= nodeTotal[p.node]
  /\ FitsQueue(p.queue, p.res, nodeReported)

AllocationFor(u, p) ==
  [uuid |-> u, app |-> p.app, node |-> p.node, queue |-> p.queue, res |-> p.res]

(* The updates of addNewAllocationInternal once its checks have passed. *)
Allocate(p) ==
  \E u \in Uuids :
    LET a == AllocationFor(u, p) IN
    /\ FreshUuid(u)
    /\ queueAllocated' = IncAllocatedResource(a.queue, a.res)
    /\ nodeAllocs'     = [nodeAllocs EXCEPT ![a.node] = @ \cup {a}]
    /\ nodeAllocated'  = [nodeAllocated EXCEPT ![a.node] = @ + a.res]
    /\ appAllocs'      = [appAllocs EXCEPT ![a.app] = @ \cup {a}]
    /\ appAllocated'   = [appAllocated EXCEPT ![a.app] = @ + a.res]
    /\ allocations'    = allocations \cup {a}
    /\ UNCHANGED <<partitionState, nodes, nodeTotal, total, apps, appState, leafQueue>>

(* What the callers promise about a proposal or a report: the application  *)
(* is accepted, and it runs in the queue that is named.                    *)
Promised(p, accepted, own) ==
  p.app \in apps =>
    /\ accepted => appState[p.app] \notin {"New", "Rejected"}
    /\ own => p.queue = leafQueue[p.app]

(* addNewAllocation: the scheduler's proposal is applied.  A proposal that *)
(* fails CanAllocate changes nothing here.                                 *)
AddNewAllocation(p) ==
  /\ op = Idle
  /\ \A q \in Queues : queueAllocated[q] < MaxCharge
  /\ Promised(p, ProposalsFit, ProposalsFit)
  /\ CanAllocate(p, FALSE)
  /\ Allocate(p)
  /\ UNCHANGED op

(* The allocations a release names: all of the application's, or one. *)
Releasable(app) ==
  {appAllocs[app]} \cup { {a} : a \in appAllocs[app] }

(* Mutant: the queue gets back all the application holds for any release. *)
ReleaseTooMuch(app, R) ==
  /\ op = Idle
  /\ app \in apps
  /\ R # {}
  /\ appAllocs'      = [appAllocs EXCEPT ![app] = @ \ R]
  /\ appAllocated'   = [appAllocated EXCEPT ![app] = @ - TotalOf(R)]
  /\ nodeAllocs'     = [n \in Nodes |-> nodeAllocs[n] \ R]
  /\ nodeAllocated'  = [n \in Nodes |-> nodeAllocated[n] - TotalOf(nodeAllocs[n] \cap R)]
  /\ queueAllocated' = DecAllocatedResource(leafQueue[app], appAllocated[app])
  /\ allocations'    = allocations \ R
  /\ UNCHANGED <<partitionState, nodes, nodeTotal, total, apps, appState, leafQueue, op>>

(* releaseAllocationsForApplication: only what is found on its node is     *)
(* given back to the queue.                                                *)
ReleaseAllocations(app, R) ==
  LET onNode == { a \in R : a.node \in nodes /\ a \in nodeAllocs[a.node] } IN
  /\ op = Idle
  /\ app \in apps
  /\ R # {}
  /\ appAllocs'      = [appAllocs EXCEPT ![app] = @ \ R]
  /\ appAllocated'   = [appAllocated EXCEPT ![app] = @ - TotalOf(R)]
  /\ nodeAllocs'     = [n \in Nodes |-> nodeAllocs[n] \ onNode]
  /\ nodeAllocated'  = [n \in Nodes |->
                          nodeAllocated[n] - TotalOf(nodeAllocs[n] \cap onNode)]
  /\ queueAllocated' = DecAllocatedResource(leafQueue[app], TotalOf(onNode))
  /\ allocations'    = allocations \ R
  /\ UNCHANGED <<partitionState, nodes, nodeTotal, total, apps, appState, leafQueue, op>>

-----------------------------------------------------------------------------
(* Nodes *)

(* Mutant: the resources of a new node are not added to the partition's. *)
AddNewNodeUncounted(n, capacity, reports) ==
  /\ op = Idle
  /\ partitionState = "Active"
  /\ n \notin nodes
  /\ \A q \in Queues : queueAllocated[q] < MaxCharge
  /\ \A i \in DOMAIN reports : Promised(reports[i], ReportsWait, ReportsOwn)
  /\ nodes'     = nodes \cup {n}
  /\ nodeTotal' = [nodeTotal EXCEPT ![n] = capacity]
  /\ op' = [Idle EXCEPT !.kind = "addNode", !.node = n, !.reports = reports,
                        !.apps = { reports[i].app : i \in DOMAIN reports }]
  /\ UNCHANGED <<partitionState, nodeAllocs, nodeAllocated, total, appVars, allocations,
                 queueAllocated>>

(* addNewNode up to its loop over the existing allocations. *)
AddNewNode(n, capacity, reports) ==
  /\ op = Idle
  /\ partitionState = "Active"
  /\ n \notin nodes
  /\ \A q \in Queues : queueAllocated[q] < MaxCharge
  /\ \A i \in DOMAIN reports : Promised(reports[i], ReportsWait, ReportsOwn)
  /\ total'     = total + capacity
  /\ nodes'     = nodes \cup {n}
  /\ nodeTotal' = [nodeTotal EXCEPT ![n] = capacity]
  /\ op' = [Idle EXCEPT !.kind = "addNode", !.node = n, !.reports = reports,
                        !.apps = { reports[i].app : i \in DOMAIN reports }]
  /\ UNCHANGED <<partitionState, nodeAllocs, nodeAllocated, appVars, allocations,
                 queueAllocated>>

(* addNodeReportedAllocations: the proposal made of a reported allocation. *)
ReportedProposal(r) ==
  [app |-> r.app, node |-> r.node, queue |-> r.queue, res |-> r.res]

(* One iteration of the loop: the reported allocation is added ... *)
AddReportedAllocation ==
  LET p == ReportedProposal(Head(op.reports)) IN
  /\ op.kind = "addNode"
  /\ op.reports # <<>>
  /\ CanAllocate(p, TRUE)
  /\ Allocate(p)
  /\ op' = [op EXCEPT !.reports = Tail(@)]

(* ... or it fails and removeNodeInternal takes the node out again. *)
RejectReportedAllocation ==
  /\ op.kind = "addNode"
  /\ op.reports # <<>>
  /\ ~CanAllocate(ReportedProposal(Head(op.reports)), TRUE)
  /\ op' = [Idle EXCEPT !.kind = "removeNode", !.node = op.node,
                        !.allocs = nodeAllocs[op.node]]
  /\ UNCHANGED <<partitionState, nodeVars, appVars, allocations, queueAllocated>>

(* The end of addNewNode: accepted applications with an allocation run. *)
FinishAddNode ==
  /\ op.kind = "addNode"
  /\ op.reports = <<>>
  /\ appState' = [a \in Apps |->
                    IF a \in op.apps \cap apps /\ appState[a] = "Accepted"
                    THEN "Running" ELSE appState[a]]
  /\ op' = Idle
  /\ UNCHANGED <<partitionState, nodeVars, apps, leafQueue, appAllocs, appAllocated,
                 allocations, queueAllocated>>

(* RemoveNode: the start of removeNodeInternal for a registered node. *)
RemoveNode(n) ==
  /\ op = Idle
  /\ n \in nodes
  /\ op' = [Idle EXCEPT !.kind = "removeNode", !.node = n, !.allocs = nodeAllocs[n]]
  /\ UNCHANGED <<partitionState, nodeVars, appVars, allocations, queueAllocated>>

(* Mutant: removeAllocation forgets the application's counter. *)
RemoveNodeAllocationAppKept(a) ==
  LET known == a.app \in apps /\ a \in appAllocs[a.app] IN
  /\ op.kind = "removeNode"
  /\ a \in op.allocs
  /\ op' = [op EXCEPT !.allocs = @ \ {a}]
  /\ appAllocs' = [appAllocs EXCEPT ![a.app] = @ \ {a}]
  /\ queueAllocated' = IF known THEN DecAllocatedResource(leafQueue[a.app], a.res)
                                ELSE queueAllocated
  /\ UNCHANGED <<partitionState, nodeVars, apps, appState, leafQueue, appAllocated, allocations>>

(* Mutant: the queue keeps the charge of a removed node's allocations. *)
RemoveNodeAllocationQueueKept(a) ==
  LET known == a.app \in apps /\ a \in appAllocs[a.app] IN
  /\ op.kind = "removeNode"
  /\ a \in op.allocs
  /\ op' = [op EXCEPT !.allocs = @ \ {a}]
  /\ appAllocs'    = [appAllocs EXCEPT ![a.app] = IF known THEN @ \ {a} ELSE @]
  /\ appAllocated' = [appAllocated EXCEPT ![a.app] = IF known THEN @ - a.res ELSE @]
  /\ UNCHANGED <<partitionState, nodeVars, apps, appState, leafQueue, allocations,
                 queueAllocated>>

(* One iteration of removeNodeInternal.  The partition wide map is not     *)
(* updated, and an allocation its application does not know is skipped.    *)
RemoveNodeAllocation(a) ==
  LET known == a.app \in apps /\ a \in appAllocs[a.app] IN
  /\ op.kind = "removeNode"
  /\ a \in op.allocs
  /\ op' = [op EXCEPT !.allocs = @ \ {a}]
  /\ appAllocs'    = [appAllocs EXCEPT ![a.app] = IF known THEN @ \ {a} ELSE @]
  /\ appAllocated' = [appAllocated EXCEPT ![a.app] = IF known THEN @ - a.res ELSE @]
  /\ queueAllocated' = IF known THEN DecAllocatedResource(leafQueue[a.app], a.res)
                                ELSE queueAllocated
  /\ UNCHANGED <<partitionState, nodeVars, apps, appState, leafQueue, allocations>>

(* The end of removeNodeInternal: the node object is dropped. *)
FinishRemoveNode ==
  /\ op.kind = "removeNode"
  /\ op.allocs = {}
  /\ total'         = total - nodeTotal[op.node]
  /\ nodes'         = nodes \ {op.node}
  /\ nodeTotal'     = [nodeTotal EXCEPT ![op.node] = 0]
  /\ nodeAllocs'    = [nodeAllocs EXCEPT ![op.node] = {}]
  /\ nodeAllocated' = [nodeAllocated EXCEPT ![op.node] = 0]
  /\ op' = Idle
  /\ UNCHANGED <<partitionState, appVars, allocations, queueAllocated>>

-----------------------------------------------------------------------------
(* Applications *)

(* addNewApplication: a fresh ApplicationInfo; the queue may not exist. *)
AddNewApplication(app, q) ==
  /\ op = Idle
  /\ partitionState = "Active"
  /\ app \notin apps
  /\ apps'      = apps \cup {app}
  /\ appState'  = [appState EXCEPT ![app] = "New"]
  /\ leafQueue' = [leafQueue EXCEPT ![app] = q]
  /\ UNCHANGED <<partitionState, nodeVars, appAllocs, appAllocated, allocations,
                 queueAllocated, op>>

(* The scheduler takes the application into a leaf queue: the one it was   *)
(* submitted to, or the one the placement rules choose (SetQueue).         *)
AcceptApplication(app, q) ==
  /\ app \in apps
  /\ appState[app] = "New"
  /\ q \in Leaves
  /\ ~Placement => q = leafQueue[app]
  /\ leafQueue' = [leafQueue EXCEPT ![app] = q]
  /\ appState'  = [appState EXCEPT ![app] = "Accepted"]
  /\ UNCHANGED <<partitionState, nodeVars, apps, appAllocs, appAllocated, allocations,
                 queueAllocated, op>>

(* The scheduler refuses the application. *)
RejectApplication(app) ==
  /\ app \in apps
  /\ appState[app] = "New"
  /\ appState' = [appState EXCEPT ![app] = "Rejected"]
  /\ UNCHANGED <<partitionState, nodeVars, apps, leafQueue, appAllocs, appAllocated,
                 allocations, queueAllocated, op>>

(* The first ask moves an accepted application to Running. *)
RunApplication(app) ==
  /\ app \in apps
  /\ appState[app] = "Accepted"
  /\ appState' = [appState EXCEPT ![app] = "Running"]
  /\ UNCHANGED <<partitionState, nodeVars, apps, leafQueue, appAllocs, appAllocated,
                 allocations, queueAllocated, op>>

(* Killed by the partition manager before it removes the application. *)
KillApplication(app) ==
  /\ app \in apps
  /\ appState[app] \in {"New", "Accepted", "Running"}
  /\ appState' = [appState EXCEPT ![app] = "Killed"]
  /\ UNCHANGED <<partitionState, nodeVars, apps, leafQueue, appAllocs, appAllocated,
                 allocations, queueAllocated, op>>

(* The application object goes away: nothing of it is left. *)
DropApplication(app) ==
  /\ apps'         = apps \ {app}
  /\ appState'     = [appState EXCEPT ![app] = "New"]
  /\ leafQueue'    = [leafQueue EXCEPT ![app] = NoQueue]
  /\ appAllocs'    = [appAllocs EXCEPT ![app] = {}]
  /\ appAllocated' = [appAllocated EXCEPT ![app] = 0]

(* RemoveRejectedApp deletes the application and nothing else.  It is told *)
(* of the rejection before the application's state changes.                *)
RemoveRejectedApp(app) ==
  /\ op = Idle
  /\ app \in apps
  /\ appState[app] \in {"New", "Rejected"}
  /\ DropApplication(app)
  /\ UNCHANGED <<partitionState, nodeVars, allocations, queueAllocated, op>>

(* Mutant: the nodes are not cleaned up. *)
RemoveApplicationNodesKept(app) ==
  /\ op = Idle
  /\ app \in apps
  /\ queueAllocated' = DecAllocatedResource(leafQueue[app], appAllocated[app])
  /\ allocations' = allocations \ appAllocs[app]
  /\ DropApplication(app)
  /\ UNCHANGED <<partitionState, nodeVars, op>>

(* RemoveApplication: an allocation the partition wide map does not hold   *)
(* is left on its node; the queue gets back the application's counter.     *)
RemoveApplication(app) ==
  LET removed == appAllocs[app] \cap allocations IN
  /\ op = Idle
  /\ app \in apps
  /\ nodeAllocs'    = [n \in Nodes |-> nodeAllocs[n] \ removed]
  /\ nodeAllocated' = [n \in Nodes |-> nodeAllocated[n] - TotalOf(nodeAllocs[n] \cap removed)]
  /\ queueAllocated' = IF appAllocs[app] # {}
                       THEN DecAllocatedResource(leafQueue[app], appAllocated[app])
                       ELSE queueAllocated
  /\ allocations'   = allocations \ removed
  /\ DropApplication(app)
  /\ UNCHANGED <<partitionState, nodes, nodeTotal, total, op>>

-----------------------------------------------------------------------------
(* The partition's own state, object_state.go.  MarkPartitionForRemoval    *)
(* takes the partition lock, Start and Stop are sent without it.           *)
MarkPartitionForRemoval ==
  /\ op = Idle
  /\ partitionState = "Active"
  /\ partitionState' = "Draining"
  /\ UNCHANGED <<nodeVars, appVars, allocations, queueAllocated, op>>

HandlePartitionEvent(event) ==
  /\ \/ event = "Start" /\ partitionState = "Stopped" /\ partitionState' = "Active"
     \/ event = "Stop"  /\ partitionState = "Active"  /\ partitionState' = "Stopped"
  /\ UNCHANGED <<nodeVars, appVars, allocations, queueAllocated, op>>

-----------------------------------------------------------------------------
(* NewPartitionInfo *)
Init ==
  /\ partitionState = "Active"
  /\ nodes = {}
  /\ nodeTotal = [n \in Nodes |-> 0]
  /\ nodeAllocs = [n \in Nodes |-> {}]
  /\ nodeAllocated = [n \in Nodes |-> 0]
  /\ apps = {}
  /\ appState = [a \in Apps |-> "New"]
  /\ leafQueue = [a \in Apps |-> NoQueue]
  /\ appAllocs = [a \in Apps |-> {}]
  /\ appAllocated = [a \in Apps |-> 0]
  /\ allocations = {}
  /\ queueAllocated = [q \in Queues |-> 0]
  /\ total = 0
  /\ op = Idle

ReportLists == UNION { [1 .. k -> Report] : k \in 0 .. MaxReports }

Next ==
  \/ \E p \in Proposal : AddNewAllocation(p)
  \/ \E app \in Apps : \E R \in Releasable(app) : ReleaseAllocations(app, R)
  \/ \E n \in Nodes, c \in Capacities : \E reports \in ReportLists : AddNewNode(n, c, reports)
  \/ AddReportedAllocation
  \/ RejectReportedAllocation
  \/ FinishAddNode
  \/ \E n \in Nodes : RemoveNode(n)
  \/ \E a \in op.allocs : RemoveNodeAllocation(a)
  \/ FinishRemoveNode
  \/ \E app \in Apps, q \in QueueNames : AddNewApplication(app, q)
  \/ \E app \in Apps, q \in Leaves : AcceptApplication(app, q)
  \/ \E app \in Apps : RejectApplication(app)
  \/ \E app \in Apps : RunApplication(app)
  \/ \E app \in Apps : KillApplication(app)
  \/ \E app \in Apps : RemoveRejectedApp(app)
  \/ \E app \in Apps : RemoveApplication(app)
  \/ MarkPartitionForRemoval
  \/ \E event \in {"Start", "Stop"} : HandlePartitionEvent(event)

Spec == Init /\ [][Next]_vars

-----------------------------------------------------------------------------
(* Properties *)

(* Every variable has its type; a counter may not go below zero.           *)
TypeOK ==
  /\ partitionState \in PartitionStates
  /\ nodes \subseteq Nodes
  /\ nodeTotal \in [Nodes -> Nat]
  /\ nodeAllocs \in [Nodes -> SUBSET Allocation]
  /\ nodeAllocated \in [Nodes -> Nat]
  /\ apps \subseteq Apps
  /\ appState \in [Apps -> AppStates]
  /\ leafQueue \in [Apps -> QueueNames]
  /\ appAllocs \in [Apps -> SUBSET Allocation]
  /\ appAllocated \in [Apps -> Nat]
  /\ allocations \subseteq Allocation
  /\ queueAllocated \in [Queues -> Nat]
  /\ total \in Nat
  /\ op \in Op

(* The allocations some application of the partition holds. *)
Live == UNION { appAllocs[b] : b \in Apps }

(* The allocations removeNodeInternal has taken from their application but *)
(* whose node is not dropped yet.                                          *)
InRemoval == IF op.kind = "removeNode" THEN nodeAllocs[op.node] \ op.allocs ELSE {}

(* Whoever calls: the counter of a node is the sum of the allocations the  *)
(* node holds, and never exceeds what the node has; a node that is not     *)
(* registered holds nothing, and the partition's total is the sum of the   *)
(* registered nodes.  Releases, removals and the rollback of a rejected    *)
(* node all go through different code.                                     *)
NodeAccounting ==
  /\ \A n \in Nodes :
       /\ nodeAllocated[n] = TotalOf(nodeAllocs[n])
       /\ nodeAllocated[n] <= nodeTotal[n]
       /\ n \notin nodes => nodeAllocs[n] = {} /\ nodeTotal[n] = 0
  /\ total = Weight(nodes, nodeTotal)

(* Whoever calls: what an application holds is on the node it names and in *)
(* the partition wide map, it holds it alone, and its counter is the sum:  *)
(* an application can always give everything back.                         *)
AppAccounting ==
  \A b \in Apps :
    /\ appAllocated[b] = TotalOf(appAllocs[b])
    /\ b \notin apps => appAllocs[b] = {}
    /\ \A a \in appAllocs[b] : /\ a.app = b
                               /\ a.node \in nodes
                               /\ a \in nodeAllocs[a.node]
                               /\ a \in allocations

(* The allocations that the partition, a node or an application refers to. *)
Referenced == allocations \cup (UNION { nodeAllocs[n] : n \in Nodes })
                          \cup (UNION { appAllocs[b] : b \in Apps })

(* Whoever calls: the uuid identifies an allocation over the whole         *)
(* partition, GetNewAllocationUuid's "unique ID for this partition".  The  *)
(* generator only looks at pi.allocations, so this needs every removal to  *)
(* keep an allocation in that map for as long as a node or an application  *)
(* refers to it, among them those whose node or application has gone.      *)
UuidUnique == \A a, b \in Referenced : a.uuid = b.uuid => a = b

(* Nothing of a node that is being added or removed is out of place: the   *)
(* rest of the loop of removeNodeInternal covers everything applications   *)
(* still hold on the node.                                                 *)
OpConsistent ==
  /\ op.kind # "idle" => op.node \in nodes
  /\ op.kind = "removeNode" =>
       /\ op.allocs \subseteq nodeAllocs[op.node]
       /\ \A b \in Apps : \A a \in appAllocs[b] : a.node = op.node => a \in op.allocs

(* The map itself has one allocation for a uuid. *)
MapUnique == \A a, b \in allocations : a.uuid = b.uuid => a = b

(* What a node holds is in the partition wide map: removals take it off    *)
(* the node first, or from both.                                           *)
NodesInMap == \A n \in Nodes : nodeAllocs[n] \subseteq allocations

(* A node only holds allocations made on it. *)
OwnNode == \A n \in Nodes : \A a \in nodeAllocs[n] : a.node = n

(* The sums the counters stand for are finite. *)
SumsDefined ==
  /\ \A n \in Nodes : Weighable(nodeAllocs[n], SizeOf)
  /\ \A b \in Apps : Weighable(appAllocs[b], SizeOf)
  /\ Weighable(nodes, nodeTotal)

(* The inductive invariant behind NodeAccounting, AppAccounting and        *)
(* UuidUnique: it holds whatever the callers send.                         *)
CacheInv ==
  /\ TypeOK
  /\ SumsDefined
  /\ NodeAccounting
  /\ AppAccounting
  /\ MapUnique
  /\ NodesInMap
  /\ OwnNode
  /\ OpConsistent

(* With disciplined callers nothing is left behind on a node: what a node  *)
(* holds is held by an application, unless the node is being removed.      *)
NoOrphans ==
  Disciplined => \A n \in Nodes : nodeAllocs[n] \subseteq Live \cup InRemoval

(* With disciplined callers only an accepted application holds anything,   *)
(* and what it holds was charged to the queue it is going to be given back *)
(* to; the reports addNewNode still has to process keep that promise.      *)
ChargedToLeafQueue ==
  Disciplined =>
    /\ \A b \in Apps : \A a \in appAllocs[b] : a.queue = leafQueue[b]
    /\ \A b \in Apps : appState[b] \in {"New", "Rejected"} => appAllocs[b] = {}
    /\ \A i \in DOMAIN op.reports :
         LET r == op.reports[i] IN
         r.app \in apps => /\ appState[r.app] \notin {"New", "Rejected"}
                           /\ r.queue = leafQueue[r.app]

(* With disciplined callers every queue's counter is exactly the sum of    *)
(* the live allocations in the queues below it, through every interleaving *)
(* of adds, releases, removals and rollbacks.                              *)
ChargedTo(q) == { a \in Live : q \in PathTo[a.queue] }

QueueAccounting ==
  Disciplined => \A q \in Queues : queueAllocated[q] = TotalOf(ChargedTo(q))

(* "We should never have an error, cache is in an inconsistent state if    *)
(* this happens": DecAllocatedResource would succeed for everything an     *)
(* application holds, on every level of the hierarchy.                     *)
DecNeverFails ==
  \A b \in apps : appAllocs[b] # {} =>
    leafQueue[b] # NoQueue /\ CanDec(leafQueue[b], appAllocated[b])

ReleaseNeverFails == Disciplined => DecNeverFails

(* The inductive invariant behind QueueAccounting and ReleaseNeverFails.   *)
ContractInv ==
  /\ CacheInv
  /\ NoOrphans
  /\ ChargedToLeafQueue
  /\ Disciplined => \A q \in Queues : Weighable(ChargedTo(q), SizeOf)
  /\ QueueAccounting

(* With disciplined callers the root never holds more than the registered  *)
(* nodes have, although node reported allocations skip the queue maximum   *)
(* and the maximum itself shrinks when a node leaves.                      *)
RootWithinTotal ==
  Disciplined => queueAllocated[Root] <= total
=============================================================================
