-------------------------------- MODULE Shim ---------------------------------
(***************************************************************************)
(* The Kubernetes shim of the scheduler: the state machines of the shim,   *)
(* of its applications, tasks (pods) and nodes, the dispatcher whose one   *)
(* goroutine drives them, the recovery that runs once after a start, the   *)
(* scheduling timer, the goroutines that bind pods, and the informers.     *)
(*                                                                         *)
(*   API server --informers--> context --\                                 *)
(*   timer, recovery, binders, callback --> eventChan --> state machines   *)
(*   state machines --Update--> scheduler core --callback--> eventChan     *)
(*                                                                         *)
(* Core and shim run in one process.  The core is represented by what it   *)
(* answers: SchedulerCore is its model.  The uuid of an allocation is      *)
(* written as the pod it was made for; AskedOnce shows that there is never *)
(* a second one in the lifetime of the process.                            *)
(***************************************************************************)
EXTENDS Naturals, Sequences, FiniteSets, SequencesExt

CONSTANTS
  Apps, Pods, Nodes,
  AppOf,         \* AppOf[p]: the application id on the labels of a pod
  Refused,       \* applications whose submission the core rejects
  FirstPods,     \* FirstPods[p]: the states pod p may be in at the start
  May,           \* what may happen beyond the ordinary course
  ChanCap,       \* capacity of eventChan (1024 in the code)
  TickRoom,      \* bound: timers fire only with at most this many events queued
  MaxRestarts,   \* bound: restarts of the process
  NoNode, NoPod

ASSUME ShimAssumption ==
  /\ IsFiniteSet(Pods) /\ IsFiniteSet(Nodes)
  /\ AppOf \in [Pods -> Apps]
  /\ Refused \subseteq Apps
  /\ FirstPods \in [Pods -> SUBSET {"absent", "pending", "bound"}]
  /\ May \subseteq {"deletePod", "missDelete", "bindFails", "nodesChange", "coldStore",
                    "timeout", "registerFails", "askRejected"}
  /\ ChanCap \in Nat \ {0} /\ {TickRoom, MaxRestarts} \subseteq Nat
  /\ NoNode \notin Nodes /\ NoPod \notin Pods

VARIABLES
  kube,        \* the pods in the API server
  podNode,     \* spec.nodeName of the pods
  kubeNodes,   \* the nodes in the API server
  sched,       \* KubernetesShim.stateMachine, or "Exited"
  rec,         \* where the recovery goroutine is
  toRecover,   \* toRecoverApps of waitForAppRecovery
  eventChan,   \* Dispatcher.eventChan
  app,         \* state machine of every application in Context.applications
  task,        \* state machine of every task in Application.taskMap
  uuid,        \* Task.allocationUuid
  node,        \* state machine of every node in schedulerNodes.nodesMap
  existing,    \* SchedulerNode.existingAllocations
  listed,      \* pending tasks the current timer pass still has to look at
  binding,     \* binder goroutines under way
  seenPods,    \* what the pod handlers have been shown
  seenNodes,   \* what the node handlers have been shown
  updates,     \* requests on their way to the core
  coreApps,    \* applications the core has accepted
  coreNodes,   \* nodes the core has accepted
  openAsks,    \* asks the core has not served
  coreAlloc,   \* node of the allocation the core holds for a pod
  asked,       \* number of asks sent for a pod by this process
  restarts     \* restarts so far

kubeVars   == <<kube, podNode, kubeNodes>>
recVars    == <<rec, toRecover>>
fsmVars    == <<sched, app, task, node>>
taskVars   == <<uuid, binding, listed>>
seenVars   == <<seenPods, seenNodes>>
coreState  == <<coreApps, coreNodes, openAsks, coreAlloc>>
shimVars   == <<kubeVars, recVars, fsmVars, eventChan, taskVars, existing, seenVars,
                updates, coreState, asked, restarts>>

-----------------------------------------------------------------------------
(* Events and the dispatcher. *)
SchedEv(ev)    == [to |-> "sched", ev |-> ev]
AppEv(a, ev)   == [to |-> "app", id |-> a, ev |-> ev]
RunEv(a, p)    == [to |-> "app", id |-> a, ev |-> "RunApplication", task |-> p]
TaskEv(p, ev)  == [to |-> "task", id |-> p, ev |-> ev]
AllocEv(p, n)  == [to |-> "task", id |-> p, ev |-> "TaskAllocated", node |-> n]
NodeEv(n, ev)  == [to |-> "node", id |-> n, ev |-> ev]

(* Dispatcher.dispatch: what does not fit into the channel is lost. *)
Enqueue(queue, evs) ==
  LET all == queue \o evs IN
  SubSeq(all, 1, IF Len(all) < ChanCap THEN Len(all) ELSE ChanCap)

Dispatch(evs) == eventChan' = Enqueue(eventChan, evs)

(* The dispatching goroutine takes the oldest event; its handler may       *)
(* dispatch more.                                                          *)
Take(ev) == sched # "Exited" /\ eventChan # <<>> /\ Head(eventChan) = ev
Taken(evs) == eventChan' = Enqueue(Tail(eventChan), evs)

-----------------------------------------------------------------------------
(* The state machines: the states each event is accepted in, and the next. *)
SchedMachine == [
  RegisterScheduler        |-> [src |-> {"New"}, dst |-> "Registering"],
  RegisterSchedulerSucceed |-> [src |-> {"Registering"}, dst |-> "Registered"],
  RegisterSchedulerFailed  |-> [src |-> {"Registering"}, dst |-> "Stopped"],
  RecoverScheduler         |-> [src |-> {"Registered"}, dst |-> "Recovering"],
  RecoverSchedulerSucceed  |-> [src |-> {"Recovering"}, dst |-> "Running"]]

AppMachine == [
  SubmitApplication  |-> [src |-> {"New"}, dst |-> "Submitted"],
  RecoverApplication |-> [src |-> {"New"}, dst |-> "Recovering"],
  AcceptApplication  |-> [src |-> {"Submitted", "Recovering"}, dst |-> "Accepted"],
  RunApplication     |-> [src |-> {"Accepted", "Running"}, dst |-> "Running"],
  RejectApplication  |-> [src |-> {"Submitted"}, dst |-> "Rejected"],
  FailApplication    |-> [src |-> {"Submitted", "Rejected", "Accepted", "Running"},
                          dst |-> "Failed"]]

TaskMachine == [
  SubmitTask    |-> [src |-> {"Pending"}, dst |-> "Scheduling"],
  TaskAllocated |-> [src |-> {"Scheduling"}, dst |-> "Allocated"],
  TaskBound     |-> [src |-> {"Allocated"}, dst |-> "Bound"],
  CompleteTask  |-> [src |-> {"Bound"}, dst |-> "Completed"],
  TaskRejected  |-> [src |-> {"Pending", "Scheduling"}, dst |-> "Rejected"],
  TaskFail      |-> [src |-> {"Rejected", "Allocated"}, dst |-> "Failed"]]

NodeMachine == [
  RecoverNode  |-> [src |-> {"New"}, dst |-> "Recovering"],
  NodeAccepted |-> [src |-> {"Recovering"}, dst |-> "Healthy"],
  NodeRejected |-> [src |-> {"New", "Recovering"}, dst |-> "Rejected"]]

(* Mutant: a task takes every event it knows, whatever its state. *)
AcceptsAnyTask(e) ==
  CASE e.to = "sched" -> sched \in SchedMachine[e.ev].src
    [] e.to = "app"   -> app[e.id] \in AppMachine[e.ev].src
    [] e.to = "task"  -> task[e.id] # "None"
    [] e.to = "node"  -> node[e.id] \in NodeMachine[e.ev].src

(* An event that its machine does not accept now is logged and dropped;    *)
(* so is one for an application, task or node the context does not have.   *)
Accepts(e) ==
  CASE e.to = "sched" -> sched \in SchedMachine[e.ev].src
    [] e.to = "app"   -> app[e.id] \in AppMachine[e.ev].src
    [] e.to = "task"  -> task[e.id] \in TaskMachine[e.ev].src
    [] e.to = "node"  -> node[e.id] \in NodeMachine[e.ev].src

RefuseEvent ==
  /\ sched # "Exited" /\ eventChan # <<>>
  /\ ~Accepts(Head(eventChan))
  /\ Taken(<<>>)
  /\ UNCHANGED <<kubeVars, recVars, fsmVars, taskVars, existing, seenVars, updates,
                 coreState, asked, restarts>>

-----------------------------------------------------------------------------
(* The shim's own machine: registration, recovery, scheduling.  register() *)
(* calls the core and waits for its answer.                                *)
SchedStep(ev, evs) ==
  /\ Take(SchedEv(ev)) /\ Accepts(SchedEv(ev))
  /\ sched' = SchedMachine[ev].dst
  /\ Taken(evs)
  /\ UNCHANGED <<kubeVars, toRecover, app, task, node, taskVars, existing, seenVars,
                 updates, coreState, asked, restarts>>

RegisterScheduler ==
  /\ \/ SchedStep("RegisterScheduler", <<SchedEv("RegisterSchedulerSucceed")>>)
     \/ /\ "registerFails" \in May
        /\ SchedStep("RegisterScheduler", <<SchedEv("RegisterSchedulerFailed")>>)
  /\ UNCHANGED rec

RegisterSchedulerSucceed ==
  SchedStep("RegisterSchedulerSucceed", <<SchedEv("RecoverScheduler")>>) /\ UNCHANGED rec

(* stop() runs on the dispatching goroutine, the only one that could take  *)
(* the stop signal of the dispatcher: the dispatcher goes on.              *)
RegisterSchedulerFailed ==
  SchedStep("RegisterSchedulerFailed", <<>>) /\ UNCHANGED rec

(* Recovery runs on a goroutine of its own. *)
RecoverScheduler == SchedStep("RecoverScheduler", <<>>) /\ rec' = "listApps"

(* doScheduling adds the informers' handlers and starts the timer; both    *)
(* are active from the state Running on.                                   *)
RecoverSchedulerSucceed == SchedStep("RecoverSchedulerSucceed", <<>>) /\ UNCHANGED rec

-----------------------------------------------------------------------------
(* The recovery goroutine.  The listers read the stores of informers that  *)
(* have just been started: the goroutine goes on as soon as a store is not *)
(* empty, which does not mean that it is complete.                         *)
BoundPods == { p \in Pods : kube[p] = "bound" }

Listing(S) == IF "coldStore" \in May THEN SUBSET S ELSE {S}

RecoverUnchanged == UNCHANGED <<kubeVars, sched, task, taskVars, seenVars, updates,
                                coreState, asked, restarts>>

(* Every pod found on a node announces its application again. *)
RecoverApps ==
  /\ rec = "listApps"
  /\ \E found \in Listing(BoundPods) :
       /\ toRecover' = { AppOf[p] : p \in found }
       /\ app' = [a \in Apps |-> IF a \in toRecover' /\ app[a] = "None" THEN "New" ELSE app[a]]
       /\ \E order \in SetToSeqs(found) :
            Dispatch([i \in DOMAIN order |-> AppEv(AppOf[order[i]], "RecoverApplication")])
  /\ rec' = "waitApps"
  /\ UNCHANGED <<node, existing>>
  /\ RecoverUnchanged

AppsRecovered ==
  /\ rec = "waitApps"
  /\ \A a \in toRecover : app[a] = "Accepted"
  /\ rec' = "listNodes"
  /\ toRecover' = {}
  /\ UNCHANGED <<app, node, existing, eventChan>>
  /\ RecoverUnchanged

(* Mutant: the nodes are reported without the pods on them. *)
RecoverEmptyNodes ==
  /\ rec = "listNodes"
  /\ node' = [n \in Nodes |-> IF n \in kubeNodes /\ node[n] = "None" THEN "New" ELSE node[n]]
  /\ rec' = "waitNodes"
  /\ UNCHANGED <<app, existing, toRecover, eventChan>>
  /\ RecoverUnchanged

(* The nodes come from a store, the pods on each of them from the API      *)
(* server itself.                                                          *)
RecoverNodes ==
  /\ rec = "listNodes"
  /\ \E found \in Listing(kubeNodes) :
       /\ found # {}
       /\ node' = [n \in Nodes |-> IF n \in found /\ node[n] = "None" THEN "New" ELSE node[n]]
       /\ existing' = [n \in Nodes |-> IF n \in found
                                      THEN { p \in BoundPods : podNode[p] = n } ELSE {}]
  /\ rec' = "waitNodes"
  /\ UNCHANGED <<app, toRecover, eventChan>>
  /\ RecoverUnchanged

KnownNodes == { n \in Nodes : node[n] # "None" }

(* One turn of the waiting loop. *)
PollNodes ==
  /\ rec = "waitNodes" /\ Len(eventChan) <= TickRoom
  /\ \E order \in SetToSeqs({ n \in Nodes : node[n] = "New" }) :
       /\ order # <<>>
       /\ Dispatch([i \in DOMAIN order |-> NodeEv(order[i], "RecoverNode")])
  /\ UNCHANGED <<recVars, app, node, existing>>
  /\ RecoverUnchanged

(* Mutant: a node that has been reported counts as recovered. *)
NodesReported ==
  /\ rec = "waitNodes"
  /\ \A n \in KnownNodes : node[n] # "New"
  /\ rec' = "done"
  /\ Dispatch(<<SchedEv("RecoverSchedulerSucceed")>>)
  /\ UNCHANGED <<toRecover, app, node, existing>>
  /\ RecoverUnchanged

NodesRecovered ==
  /\ rec = "waitNodes"
  /\ \A n \in KnownNodes : node[n] = "Healthy"
  /\ rec' = "done"
  /\ Dispatch(<<SchedEv("RecoverSchedulerSucceed")>>)
  /\ UNCHANGED <<toRecover, app, node, existing>>
  /\ RecoverUnchanged

(* Any of the four phases may take too long.  log.Fatal ends the process   *)
(* before RecoverSchedulerFailed is dispatched.                            *)
RecoveryTimeout ==
  /\ "timeout" \in May
  /\ rec \in {"listApps", "waitApps", "listNodes", "waitNodes"}
  /\ sched' = "Exited" /\ rec' = "off"
  /\ UNCHANGED <<kubeVars, toRecover, app, task, node, eventChan, taskVars, existing, seenVars,
                 updates, coreState, asked, restarts>>

-----------------------------------------------------------------------------
(* Applications. *)
AppUnchanged == UNCHANGED <<kubeVars, recVars, sched, task, node, taskVars, existing, seenVars,
                            coreState, asked, restarts>>

AppStep(a, e, evs) ==
  /\ Take(e) /\ Accepts(e)
  /\ app' = [app EXCEPT ![a] = AppMachine[e.ev].dst]
  /\ Taken(evs)
  /\ AppUnchanged

(* A submission and a recovery send the same request.  Update refuses only *)
(* the requests of a shim that has not registered.                         *)
SubmitApplication(a) ==
  /\ \E ev \in {"SubmitApplication", "RecoverApplication"} : AppStep(a, AppEv(a, ev), <<>>)
  /\ updates' = updates \cup {[req |-> "app", app |-> a]}

AcceptApplication(a) == AppStep(a, AppEv(a, "AcceptApplication"), <<>>) /\ UNCHANGED updates

RunApplication(a, p) ==
  AppStep(a, RunEv(a, p), <<TaskEv(p, "SubmitTask")>>) /\ UNCHANGED updates

RejectApplication(a) ==
  /\ AppStep(a, AppEv(a, "RejectApplication"), <<AppEv(a, "FailApplication")>>)
  /\ UNCHANGED updates

FailApplication(a) == AppStep(a, AppEv(a, "FailApplication"), <<>>) /\ UNCHANGED updates

-----------------------------------------------------------------------------
(* Tasks. *)
TaskStep(p, e, evs) ==
  /\ Take(e) /\ Accepts(e)
  /\ task' = [task EXCEPT ![p] = TaskMachine[e.ev].dst]
  /\ Taken(evs)
  /\ UNCHANGED <<kubeVars, recVars, sched, app, node, uuid, listed, existing, seenVars,
                 coreState, restarts>>

SubmitTask(p) ==
  /\ TaskStep(p, TaskEv(p, "SubmitTask"), <<>>)
  /\ updates' = updates \cup {[req |-> "ask", pod |-> p]}
  /\ asked' = [asked EXCEPT ![p] = @ + 1]
  /\ UNCHANGED binding

(* postTaskAllocated starts a goroutine that binds the pod. *)
TaskAllocated(p, n) ==
  /\ TaskStep(p, AllocEv(p, n), <<>>)
  /\ binding' = binding \cup {[pod |-> p, node |-> n, stage |-> "bind"]}
  /\ UNCHANGED <<updates, asked>>

TaskBound(p) == TaskStep(p, TaskEv(p, "TaskBound"), <<>>) /\ UNCHANGED <<binding, updates, asked>>

TaskRejected(p) ==
  /\ TaskStep(p, TaskEv(p, "TaskRejected"), <<TaskEv(p, "TaskFail")>>)
  /\ UNCHANGED <<binding, updates, asked>>

(* releaseAllocation names the allocation by the uuid of the task; to the  *)
(* core an empty one stands for all allocations of the application.        *)
ReleaseOf(p) == [req |-> "release", app |-> AppOf[p], uuid |-> uuid[p]]

(* Mutant: a task that ends does not release its allocation. *)
TaskEndedQuietly(p) ==
  /\ \E ev \in {"TaskFail", "CompleteTask"} : TaskStep(p, TaskEv(p, ev), <<>>)
  /\ UNCHANGED <<updates, binding, asked>>

TaskEnded(p) ==
  /\ \E ev \in {"TaskFail", "CompleteTask"} : TaskStep(p, TaskEv(p, ev), <<>>)
  /\ updates' = updates \cup {ReleaseOf(p)}
  /\ UNCHANGED <<binding, asked>>

(* The binder keeps the uuid and calls the API server, which refuses a pod *)
(* that is gone or has a node; then it tells the task.                     *)
BindUnchanged == UNCHANGED <<recVars, fsmVars, listed, existing, seenVars, updates, coreState,
                             asked, restarts, kubeNodes>>

BindSucceeds(b) ==
  /\ kube[b.pod] = "pending"
  /\ kube' = [kube EXCEPT ![b.pod] = "bound"]
  /\ podNode' = [podNode EXCEPT ![b.pod] = b.node]
  /\ binding' = (binding \ {b}) \cup {[b EXCEPT !.stage = "bound"]}
  /\ UNCHANGED eventChan

BindFails(b) ==
  /\ kube[b.pod] # "pending" \/ "bindFails" \in May
  /\ Dispatch(<<TaskEv(b.pod, "TaskFail")>>)
  /\ binding' = binding \ {b}
  /\ UNCHANGED <<kube, podNode>>

(* Mutant: the binder does not keep the uuid. *)
BindForgetsUuid(b) ==
  /\ sched # "Exited" /\ b.stage = "bind"
  /\ BindSucceeds(b) \/ BindFails(b)
  /\ UNCHANGED uuid /\ BindUnchanged

Bind(b) ==
  /\ sched # "Exited" /\ b.stage = "bind"
  /\ uuid' = [uuid EXCEPT ![b.pod] = b.pod]
  /\ BindSucceeds(b) \/ BindFails(b)
  /\ BindUnchanged

ReportBound(b) ==
  /\ sched # "Exited" /\ b.stage = "bound"
  /\ Dispatch(<<TaskEv(b.pod, "TaskBound")>>)
  /\ binding' = binding \ {b}
  /\ UNCHANGED <<kube, podNode, uuid>>
  /\ BindUnchanged

-----------------------------------------------------------------------------
(* Nodes. *)
NodeStep(n, ev) ==
  /\ Take(NodeEv(n, ev)) /\ Accepts(NodeEv(n, ev))
  /\ node' = [node EXCEPT ![n] = NodeMachine[ev].dst]
  /\ Taken(<<>>)
  /\ UNCHANGED <<kubeVars, recVars, sched, app, task, taskVars, existing, seenVars,
                 coreState, asked, restarts>>

RecoverNode(n) ==
  /\ NodeStep(n, "RecoverNode")
  /\ updates' = updates \cup {[req |-> "node", node |-> n, existing |-> existing[n]]}

NodeAnswered(n) ==
  /\ \E ev \in {"NodeAccepted", "NodeRejected"} : NodeStep(n, ev)
  /\ UNCHANGED updates

-----------------------------------------------------------------------------
(* The scheduling timer.  A pass lists the pending tasks and then looks at *)
(* each of them, and at the state its application has by then.  The code   *)
(* lists one application after the other; listing all of them first only   *)
(* makes the list older.                                                   *)
TimerUnchanged == UNCHANGED <<kubeVars, recVars, fsmVars, uuid, binding, existing, seenVars,
                              updates, coreState, asked, restarts>>

PendingTasks == { p \in Pods : task[p] = "Pending" }

ListPending ==
  /\ sched = "Running" /\ listed = {} /\ Len(eventChan) <= TickRoom
  /\ PendingTasks # {}
  /\ listed' = PendingTasks
  /\ UNCHANGED eventChan
  /\ TimerUnchanged

(* Mutant: the timer runs only the applications that already run. *)
ScheduleRunning(p) ==
  LET a == AppOf[p] IN
  /\ sched = "Running" /\ p \in listed
  /\ listed' = listed \ {p}
  /\ Dispatch(CASE app[a] = "New"     -> <<AppEv(a, "SubmitApplication")>>
                [] app[a] = "Running" -> <<RunEv(a, p)>>
                [] OTHER              -> <<>>)
  /\ TimerUnchanged

Schedule(p) ==
  LET a == AppOf[p] IN
  /\ sched = "Running" /\ p \in listed
  /\ listed' = listed \ {p}
  /\ Dispatch(CASE app[a] = "New"                     -> <<AppEv(a, "SubmitApplication")>>
                [] app[a] \in {"Accepted", "Running"} -> <<RunEv(a, p)>>
                [] OTHER                              -> <<>>)
  /\ TimerUnchanged

-----------------------------------------------------------------------------
(* The handlers of the informers.  A pod that is gone before it is shown   *)
(* is not shown at all: showing its creation and its deletion has the same *)
(* effect as a deletion right after the creation.                          *)
HandlerUnchanged == UNCHANGED <<kubeVars, recVars, sched, taskVars, existing, updates,
                                coreState, asked, restarts>>

(* getOrCreateApplication *)
WithApp(a) == app' = [app EXCEPT ![a] = IF @ = "None" THEN "New" ELSE @]

(* A pod that already has a node becomes an allocated task (setAllocated), *)
(* without the callback of that state.                                     *)
AddPod(p) ==
  /\ sched = "Running" /\ seenPods[p] = "no" /\ kube[p] \in {"pending", "bound"}
  /\ seenPods' = [seenPods EXCEPT ![p] = "shown"]
  /\ WithApp(AppOf[p])
  /\ task' = [task EXCEPT ![p] = IF kube[p] = "bound" THEN "Allocated"
                                 ELSE IF @ = "None" THEN "Pending" ELSE @]
  /\ UNCHANGED <<node, eventChan, seenNodes>>
  /\ HandlerUnchanged

(* Mutant: a deletion does not reach the task. *)
DeletePodQuietly(p) ==
  /\ sched = "Running" /\ seenPods[p] = "shown" /\ kube[p] = "gone"
  /\ seenPods' = [seenPods EXCEPT ![p] = "removed"]
  /\ WithApp(AppOf[p])
  /\ UNCHANGED <<task, node, eventChan, seenNodes>>
  /\ HandlerUnchanged

DeletePod(p) ==
  /\ sched = "Running" /\ seenPods[p] = "shown" /\ kube[p] = "gone"
  /\ seenPods' = [seenPods EXCEPT ![p] = "removed"]
  /\ WithApp(AppOf[p])
  /\ Dispatch(<<TaskEv(p, "CompleteTask")>>)
  /\ UNCHANGED <<task, node, seenNodes>>
  /\ HandlerUnchanged

(* A deletion the watch has missed is shown as a DeletedFinalStateUnknown, *)
(* which filterPods does not let through to deletePod.                     *)
MissDelete(p) ==
  /\ "missDelete" \in May
  /\ sched = "Running" /\ seenPods[p] = "shown" /\ kube[p] = "gone"
  /\ seenPods' = [seenPods EXCEPT ![p] = "removed"]
  /\ UNCHANGED <<app, task, node, eventChan, seenNodes>>
  /\ HandlerUnchanged

(* addAndReportNode: a node that is in the map keeps its state. *)
AddNode(n) ==
  /\ sched = "Running" /\ seenNodes[n] # "shown" /\ n \in kubeNodes
  /\ seenNodes' = [seenNodes EXCEPT ![n] = "shown"]
  /\ node' = [node EXCEPT ![n] = IF @ = "None" THEN "New" ELSE @]
  /\ Dispatch(IF node'[n] = "New" THEN <<NodeEv(n, "RecoverNode")>> ELSE <<>>)
  /\ UNCHANGED <<app, task, seenPods>>
  /\ HandlerUnchanged

(* deleteNode leaves the map alone.  It sends the core an UpdatedNodes     *)
(* request, which the core does not look at.                               *)
DeleteNode(n) ==
  /\ sched = "Running" /\ seenNodes[n] = "shown" /\ n \notin kubeNodes
  /\ seenNodes' = [seenNodes EXCEPT ![n] = "lost"]
  /\ UNCHANGED <<app, task, node, eventChan, seenPods>>
  /\ HandlerUnchanged

-----------------------------------------------------------------------------
(* The scheduler core, as the callback shows it.  Update starts a          *)
(* goroutine for every request, so requests arrive in any order; a callback *)
(* puts an event on the channel.                                           *)
Arrives(r) == sched # "Exited" /\ r \in updates /\ updates' = updates \ {r}

CoreUnchanged == UNCHANGED <<kubeVars, recVars, fsmVars, taskVars, existing, seenVars,
                             asked, restarts>>

CoreTakesApp(a) ==
  /\ Arrives([req |-> "app", app |-> a])
  /\ IF a \in Refused \cup coreApps
     THEN Dispatch(<<AppEv(a, "RejectApplication")>>) /\ UNCHANGED coreApps
     ELSE Dispatch(<<AppEv(a, "AcceptApplication")>>) /\ coreApps' = coreApps \cup {a}
  /\ UNCHANGED <<coreNodes, openAsks, coreAlloc>>
  /\ CoreUnchanged

(* An ask of an unknown application, or in a partition that has been       *)
(* removed, is rejected.                                                   *)
CoreTakesAsk(p) ==
  /\ Arrives([req |-> "ask", pod |-> p])
  /\ \/ /\ AppOf[p] \in coreApps
        /\ openAsks' = openAsks \cup {p}
        /\ UNCHANGED eventChan
     \/ /\ AppOf[p] \notin coreApps \/ "askRejected" \in May
        /\ Dispatch(<<TaskEv(p, "TaskRejected")>>)
        /\ UNCHANGED openAsks
  /\ UNCHANGED <<coreApps, coreNodes, coreAlloc>>
  /\ CoreUnchanged

CoreAllocates(p, n) ==
  /\ sched # "Exited" /\ p \in openAsks /\ n \in coreNodes
  /\ openAsks' = openAsks \ {p}
  /\ coreAlloc' = [coreAlloc EXCEPT ![p] = n]
  /\ Dispatch(<<AllocEv(p, n)>>)
  /\ UNCHANGED <<coreApps, coreNodes, updates>>
  /\ CoreUnchanged

CoreTakesRelease(r) ==
  /\ r.req = "release" /\ Arrives(r)
  /\ coreAlloc' = [p \in Pods |->
       IF AppOf[p] = r.app /\ r.uuid \in {p, NoPod} THEN NoNode ELSE coreAlloc[p]]
  /\ UNCHANGED <<coreApps, coreNodes, openAsks, eventChan>>
  /\ CoreUnchanged

(* A node is accepted with all the allocations reported on it, or not at   *)
(* all.                                                                    *)
CoreTakesNode(r) ==
  /\ r.req = "node" /\ Arrives(r)
  /\ IF r.node \notin coreNodes /\ \A p \in r.existing : AppOf[p] \in coreApps
     THEN /\ coreNodes' = coreNodes \cup {r.node}
          /\ coreAlloc' = [p \in Pods |-> IF p \in r.existing THEN r.node ELSE coreAlloc[p]]
          /\ Dispatch(<<NodeEv(r.node, "NodeAccepted")>>)
     ELSE /\ Dispatch(<<NodeEv(r.node, "NodeRejected")>>)
          /\ UNCHANGED <<coreNodes, coreAlloc>>
  /\ UNCHANGED <<coreApps, openAsks>>
  /\ CoreUnchanged

-----------------------------------------------------------------------------
(* The cluster: users create and delete pods, nodes come and go. *)
ClusterUnchanged == UNCHANGED <<recVars, fsmVars, eventChan, taskVars, existing, seenVars,
                                updates, coreState, asked, restarts>>

CreatePod(p) ==
  /\ kube[p] = "absent"
  /\ kube' = [kube EXCEPT ![p] = "pending"]
  /\ UNCHANGED <<podNode, kubeNodes>> /\ ClusterUnchanged

PodGone(p) ==
  /\ "deletePod" \in May
  /\ kube[p] \in {"pending", "bound"}
  /\ kube' = [kube EXCEPT ![p] = "gone"]
  /\ UNCHANGED <<podNode, kubeNodes>> /\ ClusterUnchanged

NodeChange(n) ==
  /\ "nodesChange" \in May
  /\ kubeNodes' = IF n \in kubeNodes THEN kubeNodes \ {n} ELSE kubeNodes \cup {n}
  /\ UNCHANGED <<kube, podNode>> /\ ClusterUnchanged

-----------------------------------------------------------------------------
(* A process starts with nothing but what the API server holds. *)
ProcessStart ==
  /\ sched = "New" /\ eventChan = <<SchedEv("RegisterScheduler")>>
  /\ rec = "off" /\ toRecover = {}
  /\ app = [a \in Apps |-> "None"]
  /\ task = [p \in Pods |-> "None"]
  /\ uuid = [p \in Pods |-> NoPod]
  /\ node = [n \in Nodes |-> "None"]
  /\ existing = [n \in Nodes |-> {}]
  /\ listed = {} /\ binding = {} /\ updates = {}
  /\ seenPods = [p \in Pods |-> "no"]
  /\ seenNodes = [n \in Nodes |-> "no"]
  /\ coreApps = {} /\ coreNodes = {} /\ openAsks = {}
  /\ coreAlloc = [p \in Pods |-> NoNode]
  /\ asked = [p \in Pods |-> 0]

ShimInit ==
  /\ kube \in { f \in [Pods -> {"absent", "pending", "bound"}] :
                 \A p \in Pods : f[p] \in FirstPods[p] }
  /\ podNode \in { f \in [Pods -> Nodes \cup {NoNode}] :
                    \A p \in Pods : kube[p] = "bound" <=> f[p] # NoNode }
  /\ kubeNodes = Nodes
  /\ ProcessStart
  /\ restarts = 0

Restart ==
  /\ restarts < MaxRestarts
  /\ restarts' = restarts + 1
  /\ sched' = "New" /\ eventChan' = <<SchedEv("RegisterScheduler")>>
  /\ rec' = "off" /\ toRecover' = {}
  /\ app' = [a \in Apps |-> "None"]
  /\ task' = [p \in Pods |-> "None"]
  /\ uuid' = [p \in Pods |-> NoPod]
  /\ node' = [n \in Nodes |-> "None"]
  /\ existing' = [n \in Nodes |-> {}]
  /\ listed' = {} /\ binding' = {} /\ updates' = {}
  /\ seenPods' = [p \in Pods |-> "no"]
  /\ seenNodes' = [n \in Nodes |-> "no"]
  /\ coreApps' = {} /\ coreNodes' = {} /\ openAsks' = {}
  /\ coreAlloc' = [p \in Pods |-> NoNode]
  /\ asked' = [p \in Pods |-> 0]
  /\ UNCHANGED kubeVars

(* What the dispatching goroutine does. *)
DispatchStep ==
  \/ RefuseEvent
  \/ RegisterScheduler \/ RegisterSchedulerSucceed \/ RegisterSchedulerFailed
  \/ RecoverScheduler \/ RecoverSchedulerSucceed
  \/ \E a \in Apps : \/ SubmitApplication(a) \/ AcceptApplication(a)
                      \/ RejectApplication(a) \/ FailApplication(a)
  \/ \E p \in Pods : \/ RunApplication(AppOf[p], p)
                      \/ SubmitTask(p) \/ TaskBound(p) \/ TaskRejected(p) \/ TaskEnded(p)
                      \/ \E n \in Nodes : TaskAllocated(p, n)
  \/ \E n \in Nodes : RecoverNode(n) \/ NodeAnswered(n)

RecoveryStep ==
  RecoverApps \/ AppsRecovered \/ RecoverNodes \/ PollNodes \/ NodesRecovered

CoreStep ==
  \/ \E a \in Apps : CoreTakesApp(a)
  \/ \E p \in Pods : CoreTakesAsk(p)
  \/ \E r \in updates : CoreTakesRelease(r) \/ CoreTakesNode(r)

Handlers(p) == AddPod(p) \/ DeletePod(p)

ShimNext ==
  \/ DispatchStep \/ RecoveryStep \/ RecoveryTimeout \/ CoreStep
  \/ ListPending \/ Restart
  \/ \E p \in Pods : \/ Schedule(p) \/ Handlers(p) \/ MissDelete(p)
                      \/ CreatePod(p) \/ PodGone(p)
                      \/ \E n \in Nodes : CoreAllocates(p, n)
  \/ \E b \in binding : Bind(b) \/ ReportBound(b)
  \/ \E n \in Nodes : AddNode(n) \/ DeleteNode(n) \/ NodeChange(n)

ShimSpec == ShimInit /\ [][ShimNext]_shimVars

(* The goroutines of the process keep running, the core answers, and the   *)
(* informers deliver.  Users, crashes and timeouts may or may not happen.  *)
FairShimSpec ==
  /\ ShimSpec
  /\ WF_shimVars(DispatchStep) /\ WF_shimVars(RecoveryStep) /\ WF_shimVars(CoreStep)
  /\ WF_shimVars(ListPending)
  /\ \A p \in Pods : /\ WF_shimVars(Schedule(p)) /\ WF_shimVars(Handlers(p))
                     /\ WF_shimVars(\E n \in Nodes : CoreAllocates(p, n))
                     /\ WF_shimVars(\E b \in binding : b.pod = p /\ (Bind(b) \/ ReportBound(b)))
  /\ \A n \in Nodes : WF_shimVars(AddNode(n) \/ DeleteNode(n))

-----------------------------------------------------------------------------
(* Properties. *)

(* However often the timer runs the application of a pending task, and     *)
(* however old its list is, the core gets one ask for the task, only after *)
(* it has accepted the application, and none while the shim recovers       *)
(* (handleRunApplicationEvent, handleSubmitTaskEvent).                     *)
AskedOnce ==
  \A p \in Pods : /\ asked[p] <= 1
                  /\ asked[p] = 1 => sched \in {"Running", "Exited"} /\ AppOf[p] \in coreApps

(* While the shim schedules, the core holds an allocation for every pod    *)
(* that has a node, those found at the start included.                     *)
PodsAccounted ==
  sched = "Running" => \A p \in BoundPods : coreAlloc[p] = podNode[p]

(* A release names the allocation of the task that ended, never the whole  *)
(* application.                                                            *)
ReleasesNameOne == \A r \in updates : r.req = "release" => r.uuid # NoPod

(* An allocation the core made for an ask is always in somebody's hands:   *)
(* announced, held by a task that can still give it back, or on its way    *)
(* back (RecvUpdateResponse, postTaskAllocated, releaseAllocation).        *)
AllocationsOwned ==
  \A p \in Pods : coreAlloc[p] # NoNode /\ asked[p] > 0 =>
    \/ \E i \in 1..Len(eventChan) : eventChan[i] = AllocEv(p, coreAlloc[p])
    \/ task[p] \in {"Allocated", "Bound"}
    \/ [req |-> "release", app |-> AppOf[p], uuid |-> p] \in updates

(* A pending pod of an application the core does not reject gets a node,   *)
(* unless it is deleted first.                                             *)
PodServed ==
  \A p \in Pods : AppOf[p] \notin Refused =>
    (kube[p] = "pending" ~> kube[p] \in {"bound", "gone"})

(* A pod deleted after its task has become Bound gives its allocation back *)
(* (deletePod, postTaskCompleted).                                         *)
BoundPodReleased ==
  \A p \in Pods : (task[p] = "Bound" /\ kube[p] = "bound") ~>
                     ([](kube[p] = "bound") \/ coreAlloc[p] = NoNode)

(* deletePod: "when a pod is completed, the equivalent task's state will   *)
(* also be completed", and a completed task's allocation is released.      *)
DeletedPodReleased ==
  \A p \in Pods : kube[p] = "gone" ~> [](coreAlloc[p] = NoNode)

(* Seen from the cluster, the shim with its core is a scheduler that never *)
(* runs a pod it does not account for, across restarts too.                *)
Contract == INSTANCE PodContract WITH
  up <- sched = "Running",
  running <- BoundPods,
  reserved <- { p \in Pods : coreAlloc[p] # NoNode }

KeepsContract == Contract!ContractSpec
=============================================================================
