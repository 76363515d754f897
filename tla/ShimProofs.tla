----------------------------- MODULE ShimProofs -----------------------------
(***************************************************************************)
(* Proofs about Shim.  First what every step does to the channel of        *)
(* events, and the types.  Then four invariants, each resting on those     *)
(* before it:                                                              *)
(*                                                                         *)
(*   AskInv       asks are made once, of applications the core knows       *)
(*   PhaseInv     the phases of the shim and of its recovery agree         *)
(*   LifeInv      ask, allocation, binder, task and release of a pod agree *)
(*   RecoveryInv  what was found on the nodes is accounted for             *)
(*                                                                         *)
(* and from them the properties the runs check, the contract with the      *)
(* cluster among them.                                                     *)
(***************************************************************************)
EXTENDS Shim, FiniteSetTheorems, TLAPS

(* The types of the variables. *)
SchedStates == {"New", "Registering", "Registered", "Recovering", "Running", "Stopped", "Exited"}
AppStates   == {"None", "New", "Submitted", "Recovering", "Accepted", "Running", "Rejected", "Failed"}
TaskStates  == {"None", "Pending", "Scheduling", "Allocated", "Bound", "Completed", "Rejected", "Failed"}
NodeStates  == {"None", "New", "Recovering", "Healthy", "Rejected"}

Event ==
  [to : {"sched"}, ev : DOMAIN SchedMachine]
  \cup [to : {"app"}, id : Apps, ev : DOMAIN AppMachine \ {"RunApplication"}]
  \cup [to : {"app"}, id : Apps, ev : {"RunApplication"}, task : Pods]
  \cup [to : {"task"}, id : Pods, ev : DOMAIN TaskMachine \ {"TaskAllocated"}]
  \cup [to : {"task"}, id : Pods, ev : {"TaskAllocated"}, node : Nodes]
  \cup [to : {"node"}, id : Nodes, ev : DOMAIN NodeMachine]

Request ==
  [req : {"app"}, app : Apps] \cup [req : {"ask"}, pod : Pods]
  \cup [req : {"release"}, app : Apps, uuid : Pods \cup {NoPod}]
  \cup [req : {"node"}, node : Nodes, existing : SUBSET Pods]

Binder == [pod : Pods, node : Nodes, stage : {"bind", "bound"}]

ShimTypes ==
  /\ kube \in [Pods -> {"absent", "pending", "bound", "gone"}]
  /\ podNode \in [Pods -> Nodes \cup {NoNode}]
  /\ kubeNodes \subseteq Nodes
  /\ sched \in SchedStates
  /\ rec \in {"off", "listApps", "waitApps", "listNodes", "waitNodes", "done"}
  /\ eventChan \in Seq(Event)
  /\ app \in [Apps -> AppStates]
  /\ task \in [Pods -> TaskStates]
  /\ uuid \in [Pods -> Pods \cup {NoPod}]
  /\ node \in [Nodes -> NodeStates]
  /\ existing \in [Nodes -> SUBSET Pods]
  /\ binding \subseteq Binder
  /\ seenPods \in [Pods -> {"no", "shown", "removed"}]
  /\ updates \subseteq Request
  /\ coreApps \subseteq Apps /\ coreNodes \subseteq Nodes /\ openAsks \subseteq Pods
  /\ coreAlloc \in [Pods -> Nodes \cup {NoNode}]
  /\ asked \in [Pods -> Nat]

(* What is in the channel. *)
In(s) == { s[i] : i \in 1 .. Len(s) }
Chan == In(eventChan)

(* An application that is accepted, or about to be, is known to the core. *)
Known(a) ==
  /\ app[a] \in {"Accepted", "Running"} => a \in coreApps
  /\ AppEv(a, "AcceptApplication") \in Chan => a \in coreApps

(* A task is submitted once, and then its application is known. *)
AskedFor(p) ==
  /\ TaskEv(p, "SubmitTask") \in Chan => AppOf[p] \in coreApps
  /\ task[p] # "None" => sched \in {"Running", "Exited"} /\ seenPods[p] # "no"
  /\ asked[p] \in {0, 1}
  /\ asked[p] = 1 => task[p] \notin {"None", "Pending"} /\ AppOf[p] \in coreApps

AskInv == ShimTypes /\ (\A a \in Apps : Known(a)) /\ (\A p \in Pods : AskedFor(p))

-----------------------------------------------------------------------------
Asking(p)  == [req |-> "ask", pod |-> p] \in updates
Told(p, n) == AllocEv(p, n) \in Chan
Note(p, ev) == TaskEv(p, ev) \in Chan
Binds(p)   == \E b \in binding : b.pod = p

(* Where the ask of a task is until the task is allocated. *)
AskLife(p) ==
  /\ Asking(p) => p \notin openAsks
  /\ Asking(p) \/ p \in openAsks =>
       asked[p] = 1 /\ task[p] = "Scheduling" /\ ~Binds(p) /\ \A n \in Nodes : ~Told(p, n)
  /\ \A n \in Nodes : Told(p, n) => /\ asked[p] = 1
                                    /\ task[p] = "Scheduling" => coreAlloc[p] = n
  /\ ~Note(p, "TaskRejected") /\ task[p] # "Rejected"

(* What a task and its binder know of a pod. *)
TaskLife(p) ==
  /\ task[p] = "Pending" => kube[p] \in {"pending", "gone"}
  /\ task[p] = "Scheduling" => kube[p] \in {"pending", "gone"} /\ asked[p] = 1 /\ ~Binds(p)
  /\ task[p] = "Allocated" /\ asked[p] = 0 => kube[p] \in {"bound", "gone"}
  /\ task[p] = "Bound" => uuid[p] = p /\ asked[p] = 1
  /\ task[p] \in {"Completed", "Failed"} => kube[p] # "bound" /\ asked[p] = 1
  /\ Binds(p) => task[p] = "Allocated" /\ asked[p] = 1
  /\ Note(p, "TaskBound") => uuid[p] = p /\ asked[p] = 1 /\ ~Binds(p) /\ ~Note(p, "TaskFail")
  /\ Note(p, "TaskFail") => /\ uuid[p] = p /\ asked[p] = 1 /\ ~Binds(p) 
                            /\ kube[p] # "bound" /\ task[p] \in {"Allocated", "Failed"}
  /\ Note(p, "TaskBound") => task[p] \in {"Allocated", "Bound", "Completed"}
  /\ Note(p, "CompleteTask") => kube[p] = "gone"
  /\ kube[p] = "bound" /\ asked[p] = 1 => coreAlloc[p] = podNode[p]
  /\ kube[p] = "bound" => podNode[p] \in Nodes

BinderLife(p) ==
  \A b \in binding : b.pod = p =>
    /\ \A c \in binding : c.pod = p => c = b
    /\ coreAlloc[p] = b.node
    /\ b.stage = "bind" => kube[p] # "bound"
    /\ b.stage = "bound" => uuid[p] = p

(* A release is of a task that has ended. *)
ReleaseLife ==
  \A r \in updates : r.req = "release" =>
    r.uuid \in Pods /\ r.app = AppOf[r.uuid] /\ task[r.uuid] \in {"Completed", "Failed"}

(* A pod that was found on a node has never been asked for. *)
Found(S, n) == \A p \in S : /\ asked[p] = 0 /\ kube[p] \in {"bound", "gone"} /\ podNode[p] = n
                            /\ task[p] \in {"None", "Allocated"}
FoundLife ==
  /\ \A n \in Nodes : Found(existing[n], n)
  /\ \A r \in updates : r.req = "node" => Found(r.existing, r.node)

LifeInv == /\ \A p \in Pods : AskLife(p) /\ TaskLife(p) /\ BinderLife(p)
           /\ ReleaseLife /\ FoundLife

-----------------------------------------------------------------------------
(* Recovery. *)
NodeLife(n) ==
  /\ node[n] # "None" => rec \in {"waitNodes", "done"} \/ sched = "Exited"
  /\ \/ n \in coreNodes \/ NodeEv(n, "NodeAccepted") \in Chan \/ NodeEv(n, "NodeRejected") \in Chan
     => node[n] \notin {"None", "New"}
  /\ NodeEv(n, "NodeAccepted") \in Chan \/ node[n] = "Healthy" => n \in coreNodes
  /\ n \in coreNodes => \A p \in existing[n] : kube[p] = "bound" => coreAlloc[p] = n
  /\ \A r \in updates : r.req = "node" /\ r.node = n =>
       /\ r.existing = existing[n] /\ node[n] = "Recovering"
       /\ NodeEv(n, "NodeAccepted") \notin Chan /\ NodeEv(n, "NodeRejected") \notin Chan

Complete == \A p \in Pods : kube[p] = "bound" /\ asked[p] = 0 => p \in existing[podNode[p]]

(* The phases of the shim and of its recovery. *)
PhaseInv ==
  /\ sched \in {"New", "Registering", "Registered", "Stopped", "Exited"} => rec = "off"
  /\ sched = "Running" \/ SchedEv("RecoverSchedulerSucceed") \in Chan => rec = "done"

RecoveryInv ==
  /\ kubeNodes = Nodes
  /\ \A n \in Nodes : NodeLife(n)
  /\ rec \in {"waitNodes", "done"} => Complete /\ \A n \in Nodes : node[n] # "None"
  /\ rec = "done" => \A n \in Nodes : node[n] = "Healthy"

-----------------------------------------------------------------------------
(* The channel. *)

(* What the events are. *)
LEMMA Events ==
  /\ \A ev \in {"RegisterScheduler", "RegisterSchedulerSucceed", "RegisterSchedulerFailed",
                "RecoverScheduler", "RecoverSchedulerSucceed"} : SchedEv(ev) \in Event
  /\ \A a \in Apps, ev \in {"SubmitApplication", "RecoverApplication", "AcceptApplication",
                             "RejectApplication", "FailApplication"} : AppEv(a, ev) \in Event
  /\ \A a \in Apps, p \in Pods : RunEv(a, p) \in Event
  /\ \A p \in Pods, ev \in {"SubmitTask", "TaskBound", "CompleteTask", "TaskRejected", "TaskFail"} :
       TaskEv(p, ev) \in Event
  /\ \A p \in Pods, n \in Nodes : AllocEv(p, n) \in Event
  /\ \A n \in Nodes, ev \in {"RecoverNode", "NodeAccepted", "NodeRejected"} : NodeEv(n, ev) \in Event
BY DEF Event, SchedEv, AppEv, RunEv, TaskEv, AllocEv, NodeEv,
       SchedMachine, AppMachine, TaskMachine, NodeMachine

(* The events in a sequence of none and of one.                            *)
LEMMA InShort ==
  /\ In(<<>>) = {}
  /\ \A e \in Event : <<e>> \in Seq(Event) /\ In(<<e>>) = {e}
BY DEF In

(* dispatch() adds the events at the end, or loses them. *)
LEMMA EnqueueIn ==
  ASSUME NEW q \in Seq(Event), NEW evs \in Seq(Event)
  PROVE  /\ Enqueue(q, evs) \in Seq(Event)
         /\ In(Enqueue(q, evs)) \subseteq In(q) \cup In(evs)
         /\ Len(Enqueue(q, evs)) < ChanCap => In(Enqueue(q, evs)) = In(q) \cup In(evs)
<1>0. q \o evs \in Seq(Event)
  OBVIOUS
<1>1. PICK all : all \in Seq(Event) /\ all = q \o evs
  BY <1>0
<1>2. PICK m : m = IF Len(all) < ChanCap THEN Len(all) ELSE ChanCap
  OBVIOUS
<1>3. m \in Nat /\ m <= Len(all) /\ Enqueue(q, evs) = SubSeq(all, 1, m)
  BY <1>1, <1>2, ShimAssumption DEF Enqueue
<1>4. /\ SubSeq(all, 1, m) \in Seq(Event) /\ Len(SubSeq(all, 1, m)) = m
      /\ \A i \in 1 .. m : SubSeq(all, 1, m)[i] = all[i]
  BY <1>1, <1>3
<1>5. In(SubSeq(all, 1, m)) \subseteq In(all)
  BY <1>1, <1>3, <1>4 DEF In
<1>6. In(all) = In(q) \cup In(evs)
  <2>1. /\ Len(all) = Len(q) + Len(evs)
        /\ \A i \in 1 .. Len(q) : all[i] = q[i]
        /\ \A i \in 1 .. Len(evs) : all[Len(q) + i] = evs[i]
    BY <1>1
  <2>2. In(q) \subseteq In(all)
    BY <2>1 DEF In
  <2>3. In(evs) \subseteq In(all)
    <3>1. ASSUME NEW i \in 1 .. Len(evs)
          PROVE  evs[i] \in In(all)
      <4>1. Len(q) + i \in 1 .. Len(all) /\ all[Len(q) + i] = evs[i]
        BY <2>1
      <4> QED
        BY <4>1 DEF In
    <3> QED
      BY <3>1 DEF In
  <2>4. ASSUME NEW i \in 1 .. Len(all)
        PROVE  all[i] \in In(q) \cup In(evs)
    <3>1. CASE i <= Len(q)
      BY <2>1, <3>1 DEF In
    <3>2. CASE i > Len(q)
      <4>1. PICK j \in 1 .. Len(evs) : i = Len(q) + j
        <5>1. i - Len(q) \in 1 .. Len(evs) /\ i = Len(q) + (i - Len(q))
          BY <2>1, <3>2
        <5> QED
          BY <5>1
      <4> QED
        BY <2>1, <4>1 DEF In
    <3> QED
      BY <3>1, <3>2
  <2> QED
    BY <2>2, <2>3, <2>4 DEF In
<1>7. m < ChanCap => SubSeq(all, 1, m) = all
  BY <1>1, <1>2, ShimAssumption
<1> QED
  BY <1>3, <1>4, <1>5, <1>6, <1>7

(* What the kinds of events tell apart. *)
LEMMA Distinct ==
  /\ \A ev : SchedEv(ev).to = "sched" /\ SchedEv(ev).ev = ev
  /\ \A a, ev : AppEv(a, ev).to = "app" /\ AppEv(a, ev).id = a /\ AppEv(a, ev).ev = ev
  /\ \A a, p : RunEv(a, p).to = "app" /\ RunEv(a, p).id = a /\ RunEv(a, p).ev = "RunApplication"
  /\ \A p, ev : TaskEv(p, ev).to = "task" /\ TaskEv(p, ev).id = p /\ TaskEv(p, ev).ev = ev
  /\ \A p, n : /\ AllocEv(p, n).to = "task" /\ AllocEv(p, n).id = p
               /\ AllocEv(p, n).ev = "TaskAllocated" /\ AllocEv(p, n).node = n
  /\ \A n, ev : NodeEv(n, ev).to = "node" /\ NodeEv(n, ev).id = n /\ NodeEv(n, ev).ev = ev
BY DEF SchedEv, AppEv, RunEv, TaskEv, AllocEv, NodeEv

(* What a step does to the channel: it posts events, after it has taken    *)
(* one or not, and they arrive unless the channel is full.                 *)
Posts(E) ==
  /\ eventChan' \in Seq(Event) /\ Chan' \subseteq Chan \cup E
  /\ Len(eventChan') < ChanCap => Chan \cup E \subseteq Chan'
Hands(e, E) ==
  /\ e \in Chan /\ sched # "Exited"
  /\ eventChan' \in Seq(Event) /\ Chan' \subseteq Chan \cup E
  /\ Len(eventChan') < ChanCap => (Chan \ {e}) \cup E \subseteq Chan'

(* What is dispatched is posted.                                           *)
LEMMA Posted ==
  ASSUME ShimTypes, NEW evs \in Seq(Event), Dispatch(evs)
  PROVE  Posts(In(evs))
BY EnqueueIn DEF Dispatch, Posts, Chan, ShimTypes

(* Taking the oldest event leaves the others.                              *)
LEMMA HeadTail ==
  ASSUME NEW q \in Seq(Event), q # <<>>
  PROVE  /\ Tail(q) \in Seq(Event) /\ Head(q) \in In(q)
         /\ In(Tail(q)) \subseteq In(q) /\ In(q) \ {Head(q)} \subseteq In(Tail(q))
<1>1. /\ Tail(q) \in Seq(Event) /\ Len(q) \in Nat \ {0} /\ Len(Tail(q)) = Len(q) - 1
      /\ \A i \in 1 .. Len(q) - 1 : Tail(q)[i] = q[i + 1]
      /\ Head(q) = q[1]
  OBVIOUS
<1>2. In(Tail(q)) \subseteq In(q)
  <2>1. ASSUME NEW i \in 1 .. Len(Tail(q))
        PROVE  Tail(q)[i] \in In(q)
    <3>1. i + 1 \in 1 .. Len(q) /\ Tail(q)[i] = q[i + 1]
      BY <1>1
    <3> QED
      BY <3>1 DEF In
  <2> QED
    BY <2>1 DEF In
<1>3. In(q) \ {Head(q)} \subseteq In(Tail(q))
  <2>1. ASSUME NEW i \in 1 .. Len(q), q[i] # Head(q)
        PROVE  q[i] \in In(Tail(q))
    <3>1. i - 1 \in 1 .. Len(Tail(q)) /\ Tail(q)[i - 1] = q[i]
      BY <1>1, <2>1
    <3> QED
      BY <3>1 DEF In
  <2> QED
    BY <2>1 DEF In
<1>4. Head(q) \in In(q)
  <2>1. 1 \in 1 .. Len(q) /\ Head(q) = q[1]
    BY <1>1
  <2> QED
    BY <2>1 DEF In
<1> QED
  BY <1>1, <1>2, <1>3, <1>4

(* What the handler of the oldest event does to the channel.               *)
LEMMA Handed ==
  ASSUME ShimTypes, sched # "Exited", eventChan # <<>>, NEW evs \in Seq(Event), Taken(evs)
  PROVE  Hands(Head(eventChan), In(evs))
<1>1. PICK q \in Seq(Event) : q = eventChan
  BY DEF ShimTypes
<1>2. eventChan' = Enqueue(Tail(q), evs) /\ Tail(q) \in Seq(Event) /\ q # <<>>
  BY <1>1, HeadTail DEF Taken
<1>3. PICK t \in Seq(Event) : t = Tail(q)
  BY <1>2
<1>4. /\ Enqueue(t, evs) \in Seq(Event)
      /\ In(Enqueue(t, evs)) \subseteq In(t) \cup In(evs)
      /\ Len(Enqueue(t, evs)) < ChanCap => In(Enqueue(t, evs)) = In(t) \cup In(evs)
  BY EnqueueIn
<1>5. Head(q) \in In(q) /\ In(t) \subseteq In(q) /\ In(q) \ {Head(q)} \subseteq In(t)
  BY <1>2, <1>3, HeadTail
<1> QED
  BY <1>1, <1>2, <1>3, <1>4, <1>5 DEF Hands, Chan

(* The handler of an event that posts nothing, and one that posts an event. *)
LEMMA HandledOne ==
  ASSUME ShimTypes, NEW e, Take(e)
  PROVE  /\ Taken(<<>>) => Hands(e, {})
         /\ \A x \in Event : Taken(<<x>>) => Hands(e, {x})
<1>1. e = Head(eventChan) /\ sched # "Exited" /\ eventChan # <<>>
  BY DEF Take
<1>2. Taken(<<>>) => Hands(e, {})
  <2>1. <<>> \in Seq(Event)
    OBVIOUS
  <2> QED
    BY <1>1, <2>1, Handed, InShort
<1>3. ASSUME NEW x \in Event, Taken(<<x>>)
      PROVE  Hands(e, {x})
  <2>1. <<x>> \in Seq(Event) /\ In(<<x>>) = {x}
    BY InShort
  <2> QED
    BY <1>1, <1>3, <2>1, Handed
<1> QED
  BY <1>2, <1>3

(* Dispatching nothing, and one event.                                     *)
LEMMA PostedOne ==
  ASSUME ShimTypes
  PROVE  /\ Dispatch(<<>>) => Posts({})
         /\ \A x \in Event : Dispatch(<<x>>) => Posts({x})
<1>1. <<>> \in Seq(Event) /\ \A x \in Event : <<x>> \in Seq(Event)
  BY InShort
<1> QED
  BY <1>1, Posted, InShort

(* One event for each member of a finite set, in any order. *)
LEMMA Listed ==
  ASSUME NEW S, IsFiniteSet(S), NEW order \in SetToSeqs(S), NEW E \in SUBSET Event,
         NEW evs, DOMAIN evs = DOMAIN order, evs = [i \in DOMAIN evs |-> evs[i]],
         \A i \in DOMAIN order : order[i] \in S => evs[i] \in E
  PROVE  evs \in Seq(Event) /\ In(evs) \subseteq E
<1>1. Cardinality(S) \in Nat
  BY FS_CardinalityType
<1>2. PICK k \in Nat : order \in [1 .. k -> S]
  BY <1>1 DEF SetToSeqs
<1>3. evs \in [1 .. k -> E]
  BY <1>2
<1>4. evs \in Seq(E) /\ Len(evs) = k
  BY <1>3
<1> QED
  BY <1>3, <1>4 DEF In

-----------------------------------------------------------------------------
(* What every step does to the channel. *)
AppEvents(ev)  == { AppEv(a, ev) : a \in Apps }
NodeEvents(ev) == { NodeEv(n, ev) : n \in Nodes }

(* The handlers of the shim's own events and the recovery goroutine. *)
LEMMA SchedHands ==
  ASSUME ShimTypes
  PROVE  /\ RegisterScheduler =>
              \E ev \in {"RegisterSchedulerSucceed", "RegisterSchedulerFailed"} :
                Hands(SchedEv("RegisterScheduler"), {SchedEv(ev)})
         /\ RegisterSchedulerSucceed =>
              Hands(SchedEv("RegisterSchedulerSucceed"), {SchedEv("RecoverScheduler")})
         /\ RegisterSchedulerFailed => Hands(SchedEv("RegisterSchedulerFailed"), {})
         /\ RecoverScheduler => Hands(SchedEv("RecoverScheduler"), {})
         /\ RecoverSchedulerSucceed => Hands(SchedEv("RecoverSchedulerSucceed"), {})
         /\ RecoverApps => \E E \in SUBSET AppEvents("RecoverApplication") : Posts(E)
         /\ PollNodes => \E E \in SUBSET NodeEvents("RecoverNode") : Posts(E)
         /\ NodesRecovered => Posts({SchedEv("RecoverSchedulerSucceed")})
<1>1. ASSUME NEW ev, NEW next \in Event, SchedStep(ev, <<next>>)
      PROVE  Hands(SchedEv(ev), {next})
  BY <1>1, HandledOne DEF SchedStep
<1>2. ASSUME NEW ev, SchedStep(ev, <<>>)
      PROVE  Hands(SchedEv(ev), {})
  BY <1>2, HandledOne DEF SchedStep
<1>3. ASSUME RecoverApps
      PROVE  \E E \in SUBSET AppEvents("RecoverApplication") : Posts(E)
  <2>0. PICK found \in Listing(BoundPods) : \E order \in SetToSeqs(found) :
             Dispatch([i \in DOMAIN order |-> AppEv(AppOf[order[i]], "RecoverApplication")])
    BY <1>3 DEF RecoverApps
  <2>1. PICK order \in SetToSeqs(found) :
             Dispatch([i \in DOMAIN order |-> AppEv(AppOf[order[i]], "RecoverApplication")])
    BY <2>0
  <2>2. found \subseteq Pods /\ IsFiniteSet(found)
    <3>1. found \subseteq Pods
      BY DEF Listing, BoundPods
    <3> QED
      BY <3>1, FS_Subset, ShimAssumption
  <2>3. PICK evs : evs = [i \in DOMAIN order |-> AppEv(AppOf[order[i]], "RecoverApplication")]
    OBVIOUS
  <2>4. AppEvents("RecoverApplication") \subseteq Event
    BY Events DEF AppEvents
  <2>5. \A i \in DOMAIN order : order[i] \in found => evs[i] \in AppEvents("RecoverApplication")
    BY <2>2, <2>3, ShimAssumption DEF AppEvents
  <2>6. evs \in Seq(Event) /\ In(evs) \subseteq AppEvents("RecoverApplication")
    BY <2>2, <2>3, <2>4, <2>5, Listed
  <2> QED
    BY <2>1, <2>3, <2>6, Posted
<1>4. ASSUME PollNodes
      PROVE  \E E \in SUBSET NodeEvents("RecoverNode") : Posts(E)
  <2>1. PICK new : new = { n \in Nodes : node[n] = "New" }
    OBVIOUS
  <2>2. PICK order \in SetToSeqs(new) :
             Dispatch([i \in DOMAIN order |-> NodeEv(order[i], "RecoverNode")])
    BY <1>4, <2>1 DEF PollNodes
  <2>3. new \subseteq Nodes /\ IsFiniteSet(new)
    BY <2>1, FS_Subset, ShimAssumption
  <2>4. PICK evs : evs = [i \in DOMAIN order |-> NodeEv(order[i], "RecoverNode")]
    OBVIOUS
  <2>5. NodeEvents("RecoverNode") \subseteq Event
    BY Events DEF NodeEvents
  <2>6. \A i \in DOMAIN order : order[i] \in new => evs[i] \in NodeEvents("RecoverNode")
    BY <2>3, <2>4 DEF NodeEvents
  <2>7. evs \in Seq(Event) /\ In(evs) \subseteq NodeEvents("RecoverNode")
    BY <2>3, <2>4, <2>5, <2>6, Listed
  <2> QED
    BY <2>2, <2>4, <2>7, Posted
<1>5. NodesRecovered => Posts({SchedEv("RecoverSchedulerSucceed")})
  BY Events, PostedOne DEF NodesRecovered
<1>6. RegisterScheduler =>
              \E ev \in {"RegisterSchedulerSucceed", "RegisterSchedulerFailed"} :
                Hands(SchedEv("RegisterScheduler"), {SchedEv(ev)})
  BY <1>1, Events DEF RegisterScheduler
<1> QED
  BY <1>1, <1>2, <1>3, <1>4, <1>5, <1>6, Events
     DEF RegisterSchedulerSucceed, RegisterSchedulerFailed, RecoverScheduler,
         RecoverSchedulerSucceed

(* The handlers of the events of applications and nodes. *)
LEMMA AppHands ==
  ASSUME ShimTypes, NEW a \in Apps
  PROVE  /\ SubmitApplication(a) =>
              \E ev \in {"SubmitApplication", "RecoverApplication"} : Hands(AppEv(a, ev), {})
         /\ AcceptApplication(a) => Hands(AppEv(a, "AcceptApplication"), {})
         /\ \A p \in Pods : RunApplication(a, p) =>
              Hands(RunEv(a, p), {TaskEv(p, "SubmitTask")})
         /\ RejectApplication(a) =>
              Hands(AppEv(a, "RejectApplication"), {AppEv(a, "FailApplication")})
         /\ FailApplication(a) => Hands(AppEv(a, "FailApplication"), {})
<1>1. ASSUME NEW e, NEW next \in Event, AppStep(a, e, <<next>>)
      PROVE  Hands(e, {next})
  BY <1>1, HandledOne DEF AppStep
<1>2. ASSUME NEW e, AppStep(a, e, <<>>)
      PROVE  Hands(e, {})
  BY <1>2, HandledOne DEF AppStep
<1> QED
  BY <1>1, <1>2, Events
     DEF SubmitApplication, AcceptApplication, RunApplication, RejectApplication, FailApplication

(* The handlers of the events of nodes, and the informer of nodes.         *)
LEMMA NodeHands ==
  ASSUME ShimTypes, NEW n \in Nodes
  PROVE  /\ RecoverNode(n) => Hands(NodeEv(n, "RecoverNode"), {})
         /\ NodeAnswered(n) =>
              \E ev \in {"NodeAccepted", "NodeRejected"} : Hands(NodeEv(n, ev), {})
         /\ AddNode(n) => \E E \in SUBSET {NodeEv(n, "RecoverNode")} : Posts(E)
<1>1. ASSUME NEW ev, NodeStep(n, ev)
      PROVE  Hands(NodeEv(n, ev), {})
  BY <1>1, HandledOne DEF NodeStep
<1>2. AddNode(n) => \E E \in SUBSET {NodeEv(n, "RecoverNode")} : Posts(E)
  BY PostedOne, Events DEF AddNode
<1> QED
  BY <1>1, <1>2 DEF RecoverNode, NodeAnswered

(* The handlers of the events of tasks, and what is said of a pod. *)
LEMMA TaskHands ==
  ASSUME ShimTypes, NEW p \in Pods
  PROVE  /\ SubmitTask(p) => Hands(TaskEv(p, "SubmitTask"), {})
         /\ \A n \in Nodes : TaskAllocated(p, n) => Hands(AllocEv(p, n), {})
         /\ TaskBound(p) => Hands(TaskEv(p, "TaskBound"), {})
         /\ TaskRejected(p) => Hands(TaskEv(p, "TaskRejected"), {TaskEv(p, "TaskFail")})
         /\ TaskEnded(p) => \E ev \in {"TaskFail", "CompleteTask"} : Hands(TaskEv(p, ev), {})
<1>1. ASSUME NEW e, NEW next \in Event, TaskStep(p, e, <<next>>)
      PROVE  Hands(e, {next})
  BY <1>1, HandledOne DEF TaskStep
<1>2. ASSUME NEW e, TaskStep(p, e, <<>>)
      PROVE  Hands(e, {})
  BY <1>2, HandledOne DEF TaskStep
<1> QED
  BY <1>1, <1>2, Events
     DEF SubmitTask, TaskAllocated, TaskBound, TaskRejected, TaskEnded

(* What the timer, the informers and the core say of a pod.                *)
LEMMA PodPosts ==
  ASSUME ShimTypes, NEW p \in Pods
  PROVE  /\ Schedule(p) =>
              \/ Posts({}) \/ Posts({AppEv(AppOf[p], "SubmitApplication")})
              \/ app[AppOf[p]] \in {"Accepted", "Running"} /\ Posts({RunEv(AppOf[p], p)})
         /\ DeletePod(p) => Posts({TaskEv(p, "CompleteTask")})
         /\ \A n \in Nodes : CoreAllocates(p, n) => Posts({AllocEv(p, n)})
         /\ CoreTakesAsk(p) =>
              \/ UNCHANGED eventChan
              \/ /\ AppOf[p] \notin coreApps \/ "askRejected" \in May
                 /\ Posts({TaskEv(p, "TaskRejected")})
<1>1. AppOf[p] \in Apps
  BY ShimAssumption
<1>2. ASSUME Schedule(p)
      PROVE  \/ Posts({}) \/ Posts({AppEv(AppOf[p], "SubmitApplication")})
             \/ app[AppOf[p]] \in {"Accepted", "Running"} /\ Posts({RunEv(AppOf[p], p)})
  <2>1. \/ Dispatch(<<>>) \/ Dispatch(<<AppEv(AppOf[p], "SubmitApplication")>>)
        \/ app[AppOf[p]] \in {"Accepted", "Running"} /\ Dispatch(<<RunEv(AppOf[p], p)>>)
    BY <1>2 DEF Schedule
  <2> QED
    BY <1>1, <2>1, Events, PostedOne
<1> QED
  BY <1>2, Events, PostedOne DEF DeletePod, CoreAllocates, CoreTakesAsk

(* What a binder tells the task.                                           *)
LEMMA BindPosts ==
  ASSUME ShimTypes, NEW b \in binding
  PROVE  /\ b.pod \in Pods /\ b.node \in Nodes /\ b \in Binder
         /\ ReportBound(b) => Posts({TaskEv(b.pod, "TaskBound")})
         /\ BindFails(b) => Posts({TaskEv(b.pod, "TaskFail")})
<1>1. b \in Binder /\ b.pod \in Pods /\ b.node \in Nodes
  BY DEF ShimTypes, Binder
<1> QED
  BY <1>1, Events, PostedOne DEF ReportBound, BindFails

(* What the core answers. *)
LEMMA CorePosts ==
  ASSUME ShimTypes
  PROVE  /\ \A a \in Apps : CoreTakesApp(a) =>
              \/ a \in coreApps' /\ Posts({AppEv(a, "AcceptApplication")})
              \/ Posts({AppEv(a, "RejectApplication")})
         /\ \A r \in updates : CoreTakesNode(r) =>
              /\ r.node \in Nodes /\ r.existing \subseteq Pods
              /\ \/ r.node \in coreNodes' /\ Posts({NodeEv(r.node, "NodeAccepted")})
                 \/ UNCHANGED <<coreNodes, coreAlloc>> /\ Posts({NodeEv(r.node, "NodeRejected")})
<1>1. \A a \in Apps : CoreTakesApp(a) =>
         \/ a \in coreApps' /\ Posts({AppEv(a, "AcceptApplication")})
         \/ Posts({AppEv(a, "RejectApplication")})
  BY Events, PostedOne DEF CoreTakesApp
<1>2. ASSUME NEW r \in updates, CoreTakesNode(r)
      PROVE  /\ r.node \in Nodes /\ r.existing \subseteq Pods
             /\ \/ r.node \in coreNodes' /\ Posts({NodeEv(r.node, "NodeAccepted")})
                \/ UNCHANGED <<coreNodes, coreAlloc>> /\ Posts({NodeEv(r.node, "NodeRejected")})
  <2>1. r.node \in Nodes /\ r.existing \subseteq Pods
    BY <1>2 DEF CoreTakesNode, ShimTypes, Request
  <2> QED
    BY <1>2, <2>1, Events, PostedOne DEF CoreTakesNode
<1> QED
  BY <1>1, <1>2

(* An event that is refused is taken and nothing is posted.                *)
LEMMA RefuseHands ==
  ASSUME ShimTypes, RefuseEvent
  PROVE  \E e : Hands(e, {})
<1>1. <<>> \in Seq(Event) /\ In(<<>>) = {}
  BY InShort
<1> QED
  BY <1>1, Handed DEF RefuseEvent

-----------------------------------------------------------------------------
(* Every variable keeps its type. *)

(* The machines stay in their states. *)
LEMMA Machines ==
  /\ \A ev \in DOMAIN SchedMachine : SchedMachine[ev].dst \in SchedStates
  /\ \A ev \in DOMAIN AppMachine : AppMachine[ev].dst \in AppStates
  /\ \A ev \in DOMAIN TaskMachine : TaskMachine[ev].dst \in TaskStates
  /\ \A ev \in DOMAIN NodeMachine : NodeMachine[ev].dst \in NodeStates
BY DEF SchedMachine, AppMachine, TaskMachine, NodeMachine,
       SchedStates, AppStates, TaskStates, NodeStates

(* The channel's type goes with what a step posts. *)
LEMMA PostsType ==
  /\ \A E : Posts(E) => eventChan' \in Seq(Event)
  /\ \A e, E : Hands(e, E) => eventChan' \in Seq(Event)
BY DEF Posts, Hands

(* The shim's own steps keep the types.                                    *)
LEMMA SchedTypes ==
  ASSUME ShimTypes,
         \/ RefuseEvent
         \/ RegisterScheduler \/ RegisterSchedulerSucceed \/ RegisterSchedulerFailed
         \/ RecoverScheduler \/ RecoverSchedulerSucceed
         \/ RecoveryStep \/ RecoveryTimeout
  PROVE  ShimTypes'
<1> USE DEF kubeVars, recVars, fsmVars, taskVars, seenVars, coreState
<1>1. CASE RefuseEvent
  BY <1>1, RefuseHands, PostsType DEF RefuseEvent, ShimTypes
<1>2. CASE RegisterScheduler
  <2>1. eventChan' \in Seq(Event)
    BY <1>2, SchedHands, PostsType
  <2> QED
    BY <1>2, <2>1 DEF RegisterScheduler, SchedStep, ShimTypes, SchedMachine, SchedStates
<1>3. CASE RegisterSchedulerSucceed
  <2>1. eventChan' \in Seq(Event)
    BY <1>3, SchedHands, PostsType
  <2> QED
    BY <1>3, <2>1 DEF RegisterSchedulerSucceed, SchedStep, ShimTypes, SchedMachine, SchedStates
<1>4. CASE RegisterSchedulerFailed
  <2>1. eventChan' \in Seq(Event)
    BY <1>4, SchedHands, PostsType
  <2> QED
    BY <1>4, <2>1 DEF RegisterSchedulerFailed, SchedStep, ShimTypes, SchedMachine, SchedStates
<1>5. CASE RecoverScheduler
  <2>1. eventChan' \in Seq(Event)
    BY <1>5, SchedHands, PostsType
  <2> QED
    BY <1>5, <2>1 DEF RecoverScheduler, SchedStep, ShimTypes, SchedMachine, SchedStates
<1>6. CASE RecoverSchedulerSucceed
  <2>1. eventChan' \in Seq(Event)
    BY <1>6, SchedHands, PostsType
  <2> QED
    BY <1>6, <2>1 DEF RecoverSchedulerSucceed, SchedStep, ShimTypes, SchedMachine, SchedStates
<1>7. CASE RecoverApps
  <2>1. eventChan' \in Seq(Event)
    BY <1>7, SchedHands, PostsType
  <2>2. app' \in [Apps -> AppStates] /\ rec' = "waitApps"
    BY <1>7 DEF RecoverApps, ShimTypes, AppStates
  <2> QED
    BY <1>7, <2>1, <2>2 DEF RecoverApps, RecoverUnchanged, ShimTypes
<1>8. CASE AppsRecovered
  BY <1>8 DEF AppsRecovered, RecoverUnchanged, ShimTypes
<1>9. CASE RecoverNodes
  <2>1. node' \in [Nodes -> NodeStates] /\ existing' \in [Nodes -> SUBSET Pods]
    BY <1>9 DEF RecoverNodes, ShimTypes, NodeStates, BoundPods
  <2> QED
    BY <1>9, <2>1 DEF RecoverNodes, RecoverUnchanged, ShimTypes
<1>10. CASE PollNodes
  <2>1. eventChan' \in Seq(Event)
    BY <1>10, SchedHands, PostsType
  <2> QED
    BY <1>10, <2>1 DEF PollNodes, RecoverUnchanged, ShimTypes
<1>11. CASE NodesRecovered
  <2>1. eventChan' \in Seq(Event)
    BY <1>11, SchedHands, PostsType
  <2> QED
    BY <1>11, <2>1 DEF NodesRecovered, RecoverUnchanged, ShimTypes
<1>12. CASE RecoveryTimeout
  BY <1>12 DEF RecoveryTimeout, ShimTypes, SchedStates
<1> QED
  BY <1>1, <1>2, <1>3, <1>4, <1>5, <1>6, <1>7, <1>8, <1>9, <1>10, <1>11, <1>12 DEF RecoveryStep

(* The steps of applications keep the types.                               *)
LEMMA AppTypes ==
  ASSUME ShimTypes, NEW a \in Apps,
         \/ SubmitApplication(a) \/ AcceptApplication(a) \/ RejectApplication(a)
         \/ FailApplication(a) \/ \E p \in Pods : RunApplication(a, p)
  PROVE  ShimTypes'
<1>1. eventChan' \in Seq(Event)
  BY AppHands, PostsType
<1>2. ASSUME NEW e, NEW evs, AppStep(a, e, evs), e.ev \in DOMAIN AppMachine,
             updates' \subseteq Request
      PROVE  ShimTypes'
  <2>1. app' \in [Apps -> AppStates]
    BY <1>2, Machines DEF AppStep, ShimTypes
  <2> QED
    BY <1>1, <1>2, <2>1
       DEF AppStep, AppUnchanged, ShimTypes, kubeVars, recVars, taskVars, seenVars, coreState
<1>3. \A ev : AppEv(a, ev).ev = ev
  BY Distinct
<1>4. CASE SubmitApplication(a)
  <2>1. updates' \subseteq Request
    BY <1>4 DEF SubmitApplication, ShimTypes, Request
  <2> QED
    BY <1>2, <1>3, <1>4, <2>1 DEF SubmitApplication, AppMachine
<1>5. CASE AcceptApplication(a)
  BY <1>2, <1>3, <1>5 DEF AcceptApplication, AppMachine, ShimTypes
<1>6. CASE RejectApplication(a)
  BY <1>2, <1>3, <1>6 DEF RejectApplication, AppMachine, ShimTypes
<1>7. CASE FailApplication(a)
  BY <1>2, <1>3, <1>7 DEF FailApplication, AppMachine, ShimTypes
<1>8. ASSUME NEW p \in Pods, RunApplication(a, p)
      PROVE  ShimTypes'
  <2>1. updates' \subseteq Request
    BY <1>8 DEF RunApplication, ShimTypes
  <2>2. RunEv(a, p).ev \in DOMAIN AppMachine
    BY Distinct DEF AppMachine
  <2> QED
    BY <1>2, <1>8, <2>1, <2>2 DEF RunApplication
<1> QED
  BY <1>4, <1>5, <1>6, <1>7, <1>8

(* The steps of tasks keep the types.                                      *)
LEMMA TaskTypes ==
  ASSUME ShimTypes, NEW p \in Pods,
         \/ SubmitTask(p) \/ TaskBound(p) \/ TaskRejected(p) \/ TaskEnded(p)
         \/ \E n \in Nodes : TaskAllocated(p, n)
  PROVE  ShimTypes'
<1>1. eventChan' \in Seq(Event)
  BY TaskHands, PostsType
<1>2. ASSUME NEW e, NEW evs, TaskStep(p, e, evs), e.ev \in DOMAIN TaskMachine,
             updates' \subseteq Request, binding' \subseteq Binder, asked' \in [Pods -> Nat]
      PROVE  ShimTypes'
  <2>1. task' \in [Pods -> TaskStates]
    BY <1>2, Machines DEF TaskStep, ShimTypes
  <2> QED
    BY <1>1, <1>2, <2>1
       DEF TaskStep, ShimTypes, kubeVars, recVars, seenVars, coreState
<1>3. \A ev : TaskEv(p, ev).ev = ev
  BY Distinct
<1>4. CASE SubmitTask(p)
  <2>1. /\ updates' \subseteq Request /\ binding' \subseteq Binder
        /\ asked' \in [Pods -> Nat]
    BY <1>4 DEF SubmitTask, ShimTypes, Request
  <2> QED
    BY <1>2, <1>3, <1>4, <2>1 DEF SubmitTask, TaskMachine
<1>5. CASE TaskBound(p)
  BY <1>2, <1>3, <1>5 DEF TaskBound, TaskMachine, ShimTypes
<1>6. CASE TaskRejected(p)
  BY <1>2, <1>3, <1>6 DEF TaskRejected, TaskMachine, ShimTypes
<1>7. CASE TaskEnded(p)
  <2>1. ReleaseOf(p) \in Request
    BY ShimAssumption DEF ReleaseOf, Request, ShimTypes
  <2>2. updates' \subseteq Request /\ binding' \subseteq Binder /\ asked' \in [Pods -> Nat]
    BY <1>7, <2>1 DEF TaskEnded, ShimTypes
  <2> QED
    BY <1>2, <1>3, <1>7, <2>2 DEF TaskEnded, TaskMachine
<1>8. ASSUME NEW n \in Nodes, TaskAllocated(p, n)
      PROVE  ShimTypes'
  <2>1. binding' \subseteq Binder
    BY <1>8 DEF TaskAllocated, ShimTypes, Binder
  <2>2. updates' \subseteq Request /\ asked' \in [Pods -> Nat]
    BY <1>8 DEF TaskAllocated, ShimTypes
  <2>3. AllocEv(p, n).ev \in DOMAIN TaskMachine
    BY Distinct DEF TaskMachine
  <2> QED
    BY <1>2, <1>8, <2>1, <2>2, <2>3 DEF TaskAllocated
<1> QED
  BY <1>4, <1>5, <1>6, <1>7, <1>8

(* The steps of nodes keep the types.                                      *)
LEMMA NodeTypes ==
  ASSUME ShimTypes, NEW n \in Nodes,
         RecoverNode(n) \/ NodeAnswered(n) \/ AddNode(n) \/ DeleteNode(n) \/ NodeChange(n)
  PROVE  ShimTypes'
<1> USE DEF kubeVars, recVars, fsmVars, taskVars, seenVars, coreState
<1>1. ASSUME NEW ev \in DOMAIN NodeMachine, NodeStep(n, ev), eventChan' \in Seq(Event),
             updates' \subseteq Request
      PROVE  ShimTypes'
  <2>1. node' \in [Nodes -> NodeStates]
    BY <1>1, Machines DEF NodeStep, ShimTypes
  <2> QED
    BY <1>1, <2>1 DEF NodeStep, ShimTypes
<1>2. CASE RecoverNode(n)
  <2>1. eventChan' \in Seq(Event)
    BY <1>2, NodeHands, PostsType
  <2>2. updates' \subseteq Request
    BY <1>2 DEF RecoverNode, ShimTypes, Request
  <2> QED
    BY <1>1, <1>2, <2>1, <2>2 DEF RecoverNode, NodeMachine
<1>3. CASE NodeAnswered(n)
  <2>1. eventChan' \in Seq(Event)
    BY <1>3, NodeHands, PostsType
  <2> QED
    BY <1>1, <1>3, <2>1 DEF NodeAnswered, NodeMachine, ShimTypes
<1>4. CASE AddNode(n)
  <2>1. eventChan' \in Seq(Event)
    BY <1>4, NodeHands, PostsType
  <2>2. node' \in [Nodes -> NodeStates]
    BY <1>4 DEF AddNode, ShimTypes, NodeStates
  <2> QED
    BY <1>4, <2>1, <2>2 DEF AddNode, HandlerUnchanged, ShimTypes
<1>5. CASE DeleteNode(n)
  BY <1>5 DEF DeleteNode, HandlerUnchanged, ShimTypes
<1>6. CASE NodeChange(n)
  BY <1>6 DEF NodeChange, ClusterUnchanged, ShimTypes
<1> QED
  BY <1>2, <1>3, <1>4, <1>5, <1>6

(* The answers of the core keep the types.                                 *)
LEMMA CoreTypes ==
  ASSUME ShimTypes,
         \/ \E a \in Apps : CoreTakesApp(a)
         \/ \E p \in Pods : CoreTakesAsk(p) \/ \E n \in Nodes : CoreAllocates(p, n)
         \/ \E r \in updates : CoreTakesRelease(r) \/ CoreTakesNode(r)
  PROVE  ShimTypes'
<1> USE DEF kubeVars, recVars, fsmVars, taskVars, seenVars, coreState
<1>1. ASSUME NEW a \in Apps, CoreTakesApp(a)
      PROVE  ShimTypes'
  <2>1. eventChan' \in Seq(Event)
    BY <1>1, CorePosts, PostsType
  <2> QED
    BY <1>1, <2>1 DEF CoreTakesApp, Arrives, CoreUnchanged, ShimTypes
<1>2. ASSUME NEW p \in Pods, CoreTakesAsk(p)
      PROVE  ShimTypes'
  <2>1. eventChan' \in Seq(Event)
    BY <1>2, PodPosts, PostsType DEF ShimTypes
  <2>2. openAsks' \subseteq Pods
    BY <1>2 DEF CoreTakesAsk, ShimTypes
  <2> QED
    BY <1>2, <2>1, <2>2 DEF CoreTakesAsk, Arrives, CoreUnchanged, ShimTypes
<1>3. ASSUME NEW p \in Pods, NEW n \in Nodes, CoreAllocates(p, n)
      PROVE  ShimTypes'
  <2>1. eventChan' \in Seq(Event)
    BY <1>3, PodPosts, PostsType
  <2>2. coreAlloc' \in [Pods -> Nodes \cup {NoNode}]
    BY <1>3 DEF CoreAllocates, ShimTypes
  <2> QED
    BY <1>3, <2>1, <2>2 DEF CoreAllocates, CoreUnchanged, ShimTypes
<1>4. ASSUME NEW r \in updates, CoreTakesRelease(r)
      PROVE  ShimTypes'
  <2>1. coreAlloc' \in [Pods -> Nodes \cup {NoNode}]
    BY <1>4 DEF CoreTakesRelease, ShimTypes
  <2> QED
    BY <1>4, <2>1 DEF CoreTakesRelease, Arrives, CoreUnchanged, ShimTypes
<1>5. ASSUME NEW r \in updates, CoreTakesNode(r)
      PROVE  ShimTypes'
  <2>1. eventChan' \in Seq(Event) /\ r.node \in Nodes
    BY <1>5, CorePosts, PostsType
  <2>2. coreAlloc' \in [Pods -> Nodes \cup {NoNode}] /\ coreNodes' \subseteq Nodes
    BY <1>5, <2>1 DEF CoreTakesNode, ShimTypes
  <2> QED
    BY <1>5, <2>1, <2>2 DEF CoreTakesNode, Arrives, CoreUnchanged, ShimTypes
<1> QED
  BY <1>1, <1>2, <1>3, <1>4, <1>5

(* Timer, handlers and users keep the types.                               *)
LEMMA PodTypes ==
  ASSUME ShimTypes, NEW p \in Pods,
         \/ Schedule(p) \/ Handlers(p) \/ MissDelete(p) \/ CreatePod(p) \/ PodGone(p)
  PROVE  ShimTypes'
<1> USE DEF kubeVars, recVars, fsmVars, taskVars, seenVars, coreState
<1>0. AppOf[p] \in Apps
  BY ShimAssumption
<1>1. CASE Schedule(p)
  <2>1. eventChan' \in Seq(Event)
    BY <1>1, PodPosts, PostsType
  <2> QED
    BY <1>1, <2>1 DEF Schedule, TimerUnchanged, ShimTypes
<1>2. CASE AddPod(p)
  <2>1. /\ seenPods' \in [Pods -> {"no", "shown", "removed"}]
        /\ app' \in [Apps -> AppStates]
    BY <1>0, <1>2 DEF AddPod, WithApp, ShimTypes, AppStates
  <2>2. task' \in [Pods -> TaskStates]
    BY <1>2 DEF AddPod, ShimTypes, TaskStates
  <2> QED
    BY <1>2, <2>1, <2>2 DEF AddPod, HandlerUnchanged, ShimTypes
<1>3. CASE DeletePod(p)
  <2>1. eventChan' \in Seq(Event)
    BY <1>3, PodPosts, PostsType
  <2>2. /\ seenPods' \in [Pods -> {"no", "shown", "removed"}]
        /\ app' \in [Apps -> AppStates]
    BY <1>0, <1>3 DEF DeletePod, WithApp, ShimTypes, AppStates
  <2> QED
    BY <1>3, <2>1, <2>2 DEF DeletePod, HandlerUnchanged, ShimTypes
<1>4. CASE MissDelete(p)
  <2>1. seenPods' \in [Pods -> {"no", "shown", "removed"}]
    BY <1>4 DEF MissDelete, ShimTypes
  <2> QED
    BY <1>4, <2>1 DEF MissDelete, HandlerUnchanged, ShimTypes
<1>5. CASE CreatePod(p) \/ PodGone(p)
  <2>1. kube' \in [Pods -> {"absent", "pending", "bound", "gone"}]
    BY <1>5 DEF CreatePod, PodGone, ShimTypes
  <2> QED
    BY <1>5, <2>1 DEF CreatePod, PodGone, ClusterUnchanged, ShimTypes
<1> QED
  BY <1>1, <1>2, <1>3, <1>4, <1>5 DEF Handlers

(* The binders keep the types.                                             *)
LEMMA BindTypes ==
  ASSUME ShimTypes, NEW b \in binding, Bind(b) \/ ReportBound(b)
  PROVE  ShimTypes'
<1> USE DEF kubeVars, recVars, fsmVars, taskVars, seenVars, coreState
<1>1. b \in Binder /\ b.pod \in Pods /\ b.node \in Nodes
  BY BindPosts
<1>2. CASE ReportBound(b)
  <2>1. eventChan' \in Seq(Event)
    BY <1>2, BindPosts, PostsType
  <2> QED
    BY <1>2, <2>1 DEF ReportBound, BindUnchanged, ShimTypes
<1>3. CASE Bind(b)
  <2>1. uuid' \in [Pods -> Pods \cup {NoPod}]
    BY <1>1, <1>3 DEF Bind, ShimTypes
  <2>2. CASE BindSucceeds(b)
    <3>1. [b EXCEPT !.stage = "bound"] \in Binder
      BY <1>1 DEF Binder
    <3>2. /\ kube' \in [Pods -> {"absent", "pending", "bound", "gone"}]
          /\ podNode' \in [Pods -> Nodes \cup {NoNode}] /\ binding' \subseteq Binder
          /\ eventChan' = eventChan
      BY <1>1, <2>2, <3>1 DEF BindSucceeds, ShimTypes
    <3> QED
      BY <1>3, <2>1, <3>2 DEF Bind, BindUnchanged, ShimTypes
  <2>3. CASE BindFails(b)
    <3>1. eventChan' \in Seq(Event)
      BY <2>3, BindPosts, PostsType
    <3> QED
      BY <1>3, <2>1, <2>3, <3>1 DEF Bind, BindFails, BindUnchanged, ShimTypes
  <2> QED
    BY <1>3, <2>2, <2>3 DEF Bind
<1> QED
  BY <1>2, <1>3

(* Every step keeps the types.                                             *)
LEMMA ShimTypesKept ==
  ASSUME ShimTypes, [ShimNext]_shimVars
  PROVE  ShimTypes'
<1> USE DEF kubeVars, recVars, fsmVars, taskVars, seenVars, coreState
<1>1. CASE DispatchStep
  BY <1>1, SchedTypes, AppTypes, TaskTypes, NodeTypes, ShimAssumption DEF DispatchStep
<1>2. CASE RecoveryStep \/ RecoveryTimeout
  BY <1>2, SchedTypes
<1>3. CASE CoreStep \/ \E p \in Pods, n \in Nodes : CoreAllocates(p, n)
  BY <1>3, CoreTypes DEF CoreStep
<1>4. CASE ListPending
  BY <1>4 DEF ListPending, TimerUnchanged, ShimTypes
<1>5. CASE Restart
  <2>1. <<SchedEv("RegisterScheduler")>> \in Seq(Event)
    BY Events
  <2> QED
    BY <1>5, <2>1 DEF Restart, ShimTypes, SchedStates, AppStates, TaskStates, NodeStates
<1>6. CASE \E p \in Pods : Schedule(p) \/ Handlers(p) \/ MissDelete(p) \/ CreatePod(p) \/ PodGone(p)
  BY <1>6, PodTypes
<1>7. CASE \E b \in binding : Bind(b) \/ ReportBound(b)
  BY <1>7, BindTypes
<1>8. CASE \E n \in Nodes : AddNode(n) \/ DeleteNode(n) \/ NodeChange(n)
  BY <1>8, NodeTypes
<1>9. CASE UNCHANGED shimVars
  BY <1>9 DEF shimVars, ShimTypes
<1> QED
  BY <1>1, <1>2, <1>3, <1>4, <1>5, <1>6, <1>7, <1>8, <1>9 DEF ShimNext

(* The types hold at the start.                                            *)
LEMMA ShimTypesInit == ShimInit => ShimTypes
<1> SUFFICES ASSUME ShimInit PROVE ShimTypes
  OBVIOUS
<1>1. <<SchedEv("RegisterScheduler")>> \in Seq(Event)
  BY Events
<1> QED
  BY <1>1 DEF ShimInit, ProcessStart, ShimTypes, SchedStates, AppStates, TaskStates, NodeStates
-----------------------------------------------------------------------------
(* A task is asked for once, and then the core knows its application. *)

(* What most steps leave of the applications and of the asks. *)
AppsKept ==
  /\ UNCHANGED <<app, coreApps>>
  /\ \A a \in Apps : AppEv(a, "AcceptApplication") \in Chan' => AppEv(a, "AcceptApplication") \in Chan
AsksKept ==
  /\ UNCHANGED <<task, asked, seenPods>> /\ coreApps \subseteq coreApps'
  /\ sched' = sched \/ sched' = "Exited" \/ sched \notin {"Running", "Exited"}
  /\ \A p \in Pods : Note(p, "SubmitTask")' => Note(p, "SubmitTask")

AppsKnown == \A a \in Apps : Known(a)
AllAsked  == \A p \in Pods : AskedFor(p)

(* The channel gains at most what is posted, and an event that is          *)
(* handled was in it.                                                      *)
LEMMA Grows ==
  /\ \A E : Posts(E) => Chan' \subseteq Chan \cup E
  /\ \A e, E : Hands(e, E) => Chan' \subseteq Chan \cup E /\ e \in Chan /\ sched # "Exited"
BY DEF Posts, Hands

(* A step that accepts no application leaves them known.                   *)
LEMMA KnownKept ==
  ASSUME AppsKnown, AppsKept
  PROVE  AppsKnown'
BY DEF AppsKept, AppsKnown, Known

(* A step that asks for no pod leaves them asked for as they are.          *)
LEMMA AskedKept ==
  ASSUME AllAsked, AsksKept, ShimTypes'
  PROVE  AllAsked'
<1>1. ASSUME NEW p \in Pods
      PROVE  AskedFor(p)'
  <2>1. AskedFor(p)
    BY DEF AllAsked
  <2>2. AppOf[p] \in Apps
    BY ShimAssumption
  <2>3. sched' \in {"Running", "Exited"} \/ task[p] = "None"
    BY <2>1 DEF AsksKept, AskedFor
  <2> QED
    BY <2>1, <2>2, <2>3 DEF AsksKept, AskedFor, Note
<1> QED
  BY <1>1 DEF AllAsked

(* A step that tells nobody of an application or of an ask. *)
Silent ==
  /\ \A a \in Apps : AppEv(a, "AcceptApplication") \in Chan' => AppEv(a, "AcceptApplication") \in Chan
  /\ \A p \in Pods : Note(p, "SubmitTask")' => Note(p, "SubmitTask")

(* Most events tell nobody of either. *)
LEMMA QuietChan ==
  ASSUME NEW E, Chan' \subseteq Chan \cup E,
         \A x \in E : \/ x.to \in {"sched", "node"}
                      \/ x.to = "app" /\ x.ev # "AcceptApplication"
                      \/ x.to = "task" /\ x.ev # "SubmitTask"
  PROVE  /\ \A a \in Apps : AppEv(a, "AcceptApplication") \in Chan' => AppEv(a, "AcceptApplication") \in Chan
         /\ \A p \in Pods : Note(p, "SubmitTask")' => Note(p, "SubmitTask")
BY Distinct DEF Note

(* The shim's own steps tell only the shim, the nodes, and recovered       *)
(* applications.                                                           *)
OwnNews(x) ==
  \/ x.to = "sched"
  \/ x.to = "node" /\ x.ev = "RecoverNode"
  \/ x.to = "app" /\ x.ev = "RecoverApplication"

(* The shim's own steps post nothing else.                                 *)
LEMMA SchedTells ==
  ASSUME ShimTypes,
         \/ RefuseEvent
         \/ RegisterScheduler \/ RegisterSchedulerSucceed \/ RegisterSchedulerFailed
         \/ RecoverScheduler \/ RecoverSchedulerSucceed
         \/ RecoveryStep \/ RecoveryTimeout
  PROVE  \E E : /\ Chan' \subseteq Chan \cup E
               /\ \A x \in E : OwnNews(x)
<1>1. CASE RefuseEvent
  BY <1>1, RefuseHands, Grows
<1>2. CASE \/ RegisterScheduler \/ RegisterSchedulerSucceed \/ RegisterSchedulerFailed
           \/ RecoverScheduler \/ RecoverSchedulerSucceed
  <2>1. PICK e, ev : Hands(e, {}) \/ Hands(e, {SchedEv(ev)})
    BY <1>2, SchedHands
  <2>2. PICK one : one = {SchedEv(ev)}
    OBVIOUS
  <2>3. Chan' \subseteq Chan \cup one
    BY <2>1, <2>2, Grows
  <2>4. OwnNews(SchedEv(ev))
    BY Distinct DEF OwnNews
  <2>5. \A x \in one : OwnNews(x)
    BY <2>2, <2>4
  <2> QED
    BY <2>3, <2>5
<1>3. CASE RecoverApps \/ PollNodes \/ NodesRecovered
  <2>1. \A x \in AppEvents("RecoverApplication") : x.to = "app" /\ x.ev = "RecoverApplication"
    BY Distinct DEF AppEvents
  <2>2. \A x \in NodeEvents("RecoverNode") : x.to = "node" /\ x.ev = "RecoverNode"
    BY Distinct DEF NodeEvents
  <2>3. PICK E : /\ Posts(E)
                 /\ \/ E \subseteq AppEvents("RecoverApplication")
                    \/ E \subseteq NodeEvents("RecoverNode")
                    \/ E = {SchedEv("RecoverSchedulerSucceed")}
    BY <1>3, SchedHands
  <2>4. OwnNews(SchedEv("RecoverSchedulerSucceed"))
    BY Distinct DEF OwnNews
  <2>5. \/ \A x \in E : x.to = "app" /\ x.ev = "RecoverApplication"
        \/ \A x \in E : x.to = "node" /\ x.ev = "RecoverNode"
        \/ \A x \in E : x = SchedEv("RecoverSchedulerSucceed")
    BY <2>1, <2>2, <2>3
  <2>6. \A x \in E : OwnNews(x)
    BY <2>4, <2>5 DEF OwnNews
  <2> QED
    BY <2>3, <2>6, Grows
<1>4. CASE AppsRecovered \/ RecoverNodes \/ RecoveryTimeout
  <2>1. Chan' = Chan
    BY <1>4 DEF AppsRecovered, RecoverNodes, RecoveryTimeout, Chan
  <2>2. PICK none : none = {}
    OBVIOUS
  <2>3. Chan' \subseteq Chan \cup none /\ \A x \in none : OwnNews(x)
    BY <2>1, <2>2
  <2> QED
    BY <2>3
<1> QED
  BY <1>1, <1>2, <1>3, <1>4 DEF RecoveryStep

(* The shim's own steps keep the invariant of the asks.                    *)
LEMMA SchedAsks ==
  ASSUME AskInv, ShimTypes',
         \/ RefuseEvent
         \/ RegisterScheduler \/ RegisterSchedulerSucceed \/ RegisterSchedulerFailed
         \/ RecoverScheduler \/ RecoverSchedulerSucceed
         \/ RecoveryStep \/ RecoveryTimeout
  PROVE  AskInv'
<1> USE DEF kubeVars, recVars, fsmVars, taskVars, seenVars, coreState
<1>0. ShimTypes /\ AppsKnown /\ AllAsked
  BY DEF AskInv, AppsKnown, AllAsked
<1>1. \E E : /\ Chan' \subseteq Chan \cup E
             /\ \A x \in E : OwnNews(x)
  BY <1>0, SchedTells
<1>2. /\ \A a \in Apps : AppEv(a, "AcceptApplication") \in Chan' => AppEv(a, "AcceptApplication") \in Chan
      /\ \A p \in Pods : Note(p, "SubmitTask")' => Note(p, "SubmitTask")
  BY <1>1, QuietChan DEF OwnNews
<1>3. \/ RefuseEvent /\ sched' = sched
      \/ RecoveryStep /\ sched' = sched
      \/ sched' = "Exited"
      \/ sched \notin {"Running", "Exited"}
  <2>1. ASSUME NEW ev \in DOMAIN SchedMachine, NEW evs, SchedStep(ev, evs)
        PROVE  sched \notin {"Running", "Exited"}
    <3>1. sched \in SchedMachine[ev].src
      BY <2>1, Distinct DEF SchedStep, Accepts
    <3> QED
      BY <3>1 DEF SchedMachine
  <2> QED
    BY <2>1 DEF RefuseEvent, RegisterScheduler, RegisterSchedulerSucceed, RegisterSchedulerFailed,
         RecoverScheduler, RecoverSchedulerSucceed, RecoveryStep, RecoverApps, AppsRecovered,
         RecoverNodes, PollNodes, NodesRecovered, RecoverUnchanged, RecoveryTimeout, SchedMachine
<1>4. UNCHANGED <<task, asked, seenPods, coreApps>>
  BY DEF RefuseEvent, RegisterScheduler, RegisterSchedulerSucceed, RegisterSchedulerFailed,
         RecoverScheduler, RecoverSchedulerSucceed, SchedStep, RecoveryStep, RecoverApps,
         AppsRecovered, RecoverNodes, PollNodes, NodesRecovered, RecoverUnchanged, RecoveryTimeout
<1>5. AllAsked'
  BY <1>0, <1>2, <1>3, <1>4, AskedKept DEF AsksKept
<1>6. AppsKnown'
  <2>1. CASE RecoverApps
    <3>1. \A a \in Apps : app'[a] \in {"Accepted", "Running"} => app[a] \in {"Accepted", "Running"}
      BY <2>1 DEF RecoverApps
    <3> QED
      BY <1>0, <1>2, <1>4, <3>1 DEF AppsKnown, Known
  <2>2. CASE ~RecoverApps
    <3>1. app' = app
      BY <2>2 DEF RefuseEvent, RegisterScheduler, RegisterSchedulerSucceed, RegisterSchedulerFailed,
         RecoverScheduler, RecoverSchedulerSucceed, SchedStep, RecoveryStep,
         AppsRecovered, RecoverNodes, PollNodes, NodesRecovered, RecoverUnchanged, RecoveryTimeout
    <3> QED
      BY <1>0, <1>2, <1>4, <3>1, KnownKept DEF AppsKept
  <2> QED
    BY <2>1, <2>2
<1> QED
  BY <1>5, <1>6 DEF AskInv, AppsKnown, AllAsked

(* The states a machine takes an event in. *)
LEMMA Accepted ==
  /\ \A ev : Accepts(SchedEv(ev)) => sched \in SchedMachine[ev].src
  /\ \A a, ev : Accepts(AppEv(a, ev)) => app[a] \in AppMachine[ev].src
  /\ \A a, p : Accepts(RunEv(a, p)) => app[a] \in {"Accepted", "Running"}
  /\ \A p, ev : Accepts(TaskEv(p, ev)) => task[p] \in TaskMachine[ev].src
  /\ \A p, n : Accepts(AllocEv(p, n)) => task[p] = "Scheduling"
  /\ \A n, ev : Accepts(NodeEv(n, ev)) => node[n] \in NodeMachine[ev].src
<1>1. ASSUME NEW e, Accepts(e), e.to = "sched"
      PROVE  sched \in SchedMachine[e.ev].src
  BY <1>1 DEF Accepts
<1>2. ASSUME NEW e, Accepts(e), e.to = "app"
      PROVE  app[e.id] \in AppMachine[e.ev].src
  BY <1>2 DEF Accepts
<1>3. ASSUME NEW e, Accepts(e), e.to = "task"
      PROVE  task[e.id] \in TaskMachine[e.ev].src
  BY <1>3 DEF Accepts
<1>4. ASSUME NEW e, Accepts(e), e.to = "node"
      PROVE  node[e.id] \in NodeMachine[e.ev].src
  BY <1>4 DEF Accepts
<1>5. /\ AppMachine["RunApplication"].src = {"Accepted", "Running"}
      /\ TaskMachine["TaskAllocated"].src = {"Scheduling"}
  BY DEF AppMachine, TaskMachine
<1> QED
  BY <1>1, <1>2, <1>3, <1>4, <1>5, Distinct

(* An application comes to run only after the core's answer. *)
LEMMA AppAsks ==
  ASSUME AskInv, ShimTypes', NEW a \in Apps,
         \/ SubmitApplication(a) \/ AcceptApplication(a) \/ RejectApplication(a)
         \/ FailApplication(a)
         \/ \E p \in Pods : AppOf[p] = a /\ RunApplication(a, p)
  PROVE  AskInv'
<1>0. ShimTypes /\ AppsKnown /\ AllAsked /\ Known(a)
  BY DEF AskInv, AppsKnown, AllAsked
<1>1. PICK e, evs : AppStep(a, e, evs) /\ e.to = "app" /\ e.id = a
  <2>1. ASSUME NEW ev, NEW evs, AppStep(a, AppEv(a, ev), evs)
        PROVE  \E e, es : AppStep(a, e, es) /\ e.to = "app" /\ e.id = a
    BY <2>1, Distinct
  <2>2. ASSUME NEW p, NEW evs, AppStep(a, RunEv(a, p), evs)
        PROVE  \E e, es : AppStep(a, e, es) /\ e.to = "app" /\ e.id = a
    BY <2>2, Distinct
  <2> QED
    BY <2>1, <2>2 DEF SubmitApplication, AcceptApplication, RejectApplication, FailApplication,
                      RunApplication
<1>2. /\ UNCHANGED <<task, asked, seenPods, coreApps, sched>>
      /\ app' = [app EXCEPT ![a] = AppMachine[e.ev].dst]
      /\ app[a] \in AppMachine[e.ev].src
  BY <1>1 DEF AppStep, AppUnchanged, seenVars, coreState, Accepts
<1>3. /\ \A c \in Apps : AppEv(c, "AcceptApplication") \in Chan' => AppEv(c, "AcceptApplication") \in Chan
      /\ \A p \in Pods : Note(p, "SubmitTask")' => Note(p, "SubmitTask") \/ AppOf[p] \in coreApps
  <2>1. CASE \/ SubmitApplication(a) \/ AcceptApplication(a) \/ RejectApplication(a)
             \/ FailApplication(a)
    <3>1. PICK x, ev : Hands(x, {}) \/ (Hands(x, {AppEv(a, ev)}) /\ ev = "FailApplication")
      BY <1>0, <2>1, AppHands
    <3>2. Chan' \subseteq Chan \cup {AppEv(a, ev)} /\ (ev = "FailApplication" \/ Chan' \subseteq Chan)
      BY <3>1, Grows
    <3> QED
      BY <3>2, Distinct DEF Note
  <2>2. ASSUME NEW p \in Pods, AppOf[p] = a, RunApplication(a, p)
        PROVE  <1>3!1 /\ <1>3!2
    <3>1. Chan' \subseteq Chan \cup {TaskEv(p, "SubmitTask")}
      BY <1>0, <2>2, AppHands, Grows
    <3>2. app[a] \in {"Accepted", "Running"}
      BY <2>2, Accepted DEF RunApplication, AppStep
    <3>3. a \in coreApps
      BY <1>0, <3>2 DEF Known
    <3> QED
      BY <2>2, <3>1, <3>3, Distinct DEF Note
  <2> QED
    BY <2>1, <2>2
<1>4. AllAsked'
  <2>1. ASSUME NEW p \in Pods
        PROVE  AskedFor(p)'
    <3>1. AskedFor(p)
      BY <1>0 DEF AllAsked
    <3> QED
      BY <1>2, <1>3, <3>1 DEF AskedFor, Note
  <2> QED
    BY <2>1 DEF AllAsked
<1>5. app'[a] \in {"Accepted", "Running"} => a \in coreApps
  <2>1. CASE AcceptApplication(a)
    <3>1. AppEv(a, "AcceptApplication") \in Chan
      BY <1>0, <2>1, AppHands, Grows
    <3> QED
      BY <1>0, <3>1 DEF Known
  <2>2. CASE ~AcceptApplication(a)
    <3>1. app'[a] = AppMachine[e.ev].dst
      BY <1>0, <1>2 DEF ShimTypes
    <3>2. \/ e.ev \in {"SubmitApplication", "RecoverApplication", "RejectApplication", "FailApplication"}
          \/ app[a] \in {"Accepted", "Running"}
      <4>1. ASSUME NEW f, NEW gs, AppStep(a, f, gs)
            PROVE  f = e
        BY <1>1, <4>1 DEF AppStep, Take
      <4>2. CASE SubmitApplication(a) \/ RejectApplication(a) \/ FailApplication(a)
        BY <2>2, <4>1, <4>2, Distinct DEF SubmitApplication, RejectApplication, FailApplication
      <4>3. ASSUME NEW p \in Pods, RunApplication(a, p)
            PROVE  app[a] \in {"Accepted", "Running"}
        BY <4>3, Accepted DEF RunApplication, AppStep
      <4> QED
        BY <2>2, <4>2, <4>3
    <3> QED
      BY <1>0, <3>1, <3>2 DEF AppMachine, Known
  <2> QED
    BY <2>1, <2>2
<1>6. AppsKnown'
  BY <1>0, <1>2, <1>3, <1>5 DEF AppsKnown, Known, ShimTypes
<1> QED
  BY <1>4, <1>6 DEF AskInv, AppsKnown, AllAsked

(* A task leaves Pending when it is asked for. *)
LEMMA TaskAsks ==
  ASSUME AskInv, ShimTypes', NEW p \in Pods,
         \/ SubmitTask(p) \/ TaskBound(p) \/ TaskRejected(p) \/ TaskEnded(p)
         \/ \E n \in Nodes : TaskAllocated(p, n)
  PROVE  AskInv'
<1>0. ShimTypes /\ AppsKnown /\ AllAsked /\ AskedFor(p)
  BY DEF AskInv, AppsKnown, AllAsked
<1>1. PICK e, evs : TaskStep(p, e, evs) /\ e.to = "task" /\ e.id = p /\ e.ev \in DOMAIN TaskMachine
  <2>1. ASSUME NEW ev \in DOMAIN TaskMachine, NEW evs, TaskStep(p, TaskEv(p, ev), evs)
        PROVE  \E e, es : /\ TaskStep(p, e, es) /\ e.to = "task" /\ e.id = p
                          /\ e.ev \in DOMAIN TaskMachine
    BY <2>1, Distinct
  <2>2. ASSUME NEW n, NEW evs, TaskStep(p, AllocEv(p, n), evs)
        PROVE  \E e, es : /\ TaskStep(p, e, es) /\ e.to = "task" /\ e.id = p
                          /\ e.ev \in DOMAIN TaskMachine
    <3>1. AllocEv(p, n).ev \in DOMAIN TaskMachine
      BY Distinct DEF TaskMachine
    <3> QED
      BY <2>2, <3>1, Distinct
  <2>3. {"SubmitTask", "TaskBound", "TaskRejected", "TaskFail", "CompleteTask"} \subseteq DOMAIN TaskMachine
    BY DEF TaskMachine
  <2> QED
    BY <2>1, <2>2, <2>3 DEF SubmitTask, TaskBound, TaskRejected, TaskEnded, TaskAllocated
<1>2. /\ UNCHANGED <<app, seenPods, coreApps, sched>>
      /\ task' = [task EXCEPT ![p] = TaskMachine[e.ev].dst]
      /\ task[p] \in TaskMachine[e.ev].src
  BY <1>1 DEF TaskStep, seenVars, coreState, Accepts
<1>3. task[p] # "None" /\ TaskMachine[e.ev].dst \notin {"None", "Pending"}
  BY <1>1, <1>2 DEF TaskMachine
<1>4. /\ \A a \in Apps : AppEv(a, "AcceptApplication") \in Chan' => AppEv(a, "AcceptApplication") \in Chan
      /\ \A q \in Pods : Note(q, "SubmitTask")' => Note(q, "SubmitTask")
  <2>1. PICK x : Hands(x, {}) \/ Hands(x, {TaskEv(p, "TaskFail")})
    BY <1>0, TaskHands
  <2>2. Chan' \subseteq Chan \cup {TaskEv(p, "TaskFail")}
    BY <2>1, Grows
  <2> QED
    BY <2>2, Distinct DEF Note
<1>5. asked' = asked \/ /\ SubmitTask(p) /\ task[p] = "Pending" /\ AppOf[p] \in coreApps
                        /\ asked' = [asked EXCEPT ![p] = @ + 1]
  <2>1. ASSUME SubmitTask(p)
        PROVE  task[p] = "Pending" /\ AppOf[p] \in coreApps
    <3>1. TaskEv(p, "SubmitTask") \in Chan
      BY <1>0, <2>1, TaskHands, Grows
    <3>2. task[p] \in TaskMachine["SubmitTask"].src
      BY <2>1, Accepted DEF SubmitTask, TaskStep
    <3> QED
      BY <1>0, <3>1, <3>2 DEF AskedFor, TaskMachine
  <2> QED
    BY <2>1 DEF SubmitTask, TaskBound, TaskRejected, TaskEnded, TaskAllocated
<1>6. ASSUME NEW q \in Pods
      PROVE  AskedFor(q)'
  <2>1. AskedFor(q)
    BY <1>0 DEF AllAsked
  <2>2. CASE q = p
    <3>1. task'[p] \notin {"None", "Pending"}
      BY <1>0, <1>2, <1>3 DEF ShimTypes
    <3>2. asked'[p] = asked[p] \/ (asked'[p] = 1 /\ AppOf[p] \in coreApps)
      <4>1. CASE asked' = asked
        BY <4>1
      <4>2. CASE task[p] = "Pending" /\ AppOf[p] \in coreApps /\ asked' = [asked EXCEPT ![p] = @ + 1]
        <5>1. asked[p] = 0
          BY <1>0, <4>2 DEF AskedFor
        <5>2. asked'[p] = asked[p] + 1
          BY <1>0, <4>2 DEF ShimTypes
        <5> QED
          BY <4>2, <5>1, <5>2
      <4> QED
        BY <1>5, <4>1, <4>2
    <3>3. sched' \in {"Running", "Exited"} /\ seenPods'[p] # "no"
      BY <1>0, <1>2, <1>3 DEF AskedFor
    <3> QED
      BY <1>0, <1>2, <1>3, <1>4, <2>2, <3>1, <3>2, <3>3 DEF AskedFor, Note
  <2>3. CASE q # p
    <3>1. task'[q] = task[q] /\ asked'[q] = asked[q]
      BY <1>0, <1>2, <1>5, <2>3 DEF ShimTypes
    <3> QED
      BY <1>2, <1>4, <2>1, <3>1 DEF AskedFor, Note
  <2> QED
    BY <2>2, <2>3
<1>7. AppsKnown'
  BY <1>0, <1>2, <1>4, KnownKept DEF AppsKept
<1> QED
  BY <1>6, <1>7 DEF AskInv, AppsKnown, AllAsked

(* Nodes and binders tell nobody of an application or of an ask. *)
LEMMA NodeAsks ==
  ASSUME AskInv, ShimTypes',
         \/ \E n \in Nodes : \/ RecoverNode(n) \/ NodeAnswered(n)
                             \/ AddNode(n) \/ DeleteNode(n) \/ NodeChange(n)
         \/ \E b \in binding : Bind(b) \/ ReportBound(b)
  PROVE  AskInv'
<1> USE DEF kubeVars, recVars, fsmVars, taskVars, seenVars, coreState
<1>0. ShimTypes /\ AppsKnown /\ AllAsked
  BY DEF AskInv, AppsKnown, AllAsked
<1>1. Silent
  <2>1. ASSUME NEW n \in Nodes, RecoverNode(n) \/ NodeAnswered(n)
        PROVE  Silent
    <3>1. Chan' \subseteq Chan
      BY <1>0, <2>1, NodeHands, Grows
    <3> QED
      BY <3>1 DEF Silent, Note
  <2>2. ASSUME NEW n \in Nodes, AddNode(n)
        PROVE  Silent
    <3>1. Chan' \subseteq Chan \cup {NodeEv(n, "RecoverNode")}
      BY <1>0, <2>2, NodeHands, Grows
    <3> QED
      BY <3>1, Distinct DEF Silent, Note
  <2>3. ASSUME NEW n \in Nodes, DeleteNode(n) \/ NodeChange(n)
        PROVE  Silent
    BY <2>3 DEF DeleteNode, NodeChange, HandlerUnchanged, ClusterUnchanged, Chan, Silent, Note
  <2>4. ASSUME NEW b \in binding, ReportBound(b)
        PROVE  Silent
    <3>1. Chan' \subseteq Chan \cup {TaskEv(b.pod, "TaskBound")}
      BY <1>0, <2>4, BindPosts, Grows
    <3> QED
      BY <3>1, Distinct DEF Silent, Note
  <2>5. ASSUME NEW b \in binding, Bind(b)
        PROVE  Silent
    <3>1. CASE BindSucceeds(b)
      BY <3>1 DEF BindSucceeds, Chan, Silent, Note
    <3>2. CASE BindFails(b)
      <4>1. Chan' \subseteq Chan \cup {TaskEv(b.pod, "TaskFail")}
        BY <1>0, <3>2, BindPosts, Grows
      <4> QED
        BY <4>1, Distinct DEF Silent, Note
    <3> QED
      BY <2>5, <3>1, <3>2 DEF Bind
  <2> QED
    BY <2>1, <2>2, <2>3, <2>4, <2>5
<1>2. UNCHANGED <<app, coreApps, task, asked, seenPods, sched>>
  BY DEF RecoverNode, NodeAnswered, NodeStep, AddNode, DeleteNode, NodeChange, HandlerUnchanged,
         ClusterUnchanged, Bind, ReportBound, BindUnchanged
<1>3. AppsKept /\ AsksKept
  BY <1>1, <1>2 DEF AppsKept, AsksKept, Silent
<1> QED
  BY <1>0, <1>3, KnownKept, AskedKept DEF AskInv, AppsKnown, AllAsked

(* The core's answers. *)
LEMMA CoreAsks ==
  ASSUME AskInv, ShimTypes',
         \/ \E a \in Apps : CoreTakesApp(a)
         \/ \E p \in Pods : CoreTakesAsk(p) \/ \E n \in Nodes : CoreAllocates(p, n)
         \/ \E r \in updates : CoreTakesRelease(r) \/ CoreTakesNode(r)
  PROVE  AskInv'
<1> USE DEF kubeVars, recVars, fsmVars, taskVars, seenVars, coreState
<1>0. ShimTypes /\ AppsKnown /\ AllAsked
  BY DEF AskInv, AppsKnown, AllAsked
<1>1. UNCHANGED <<app, task, asked, seenPods, sched>>
  BY DEF CoreTakesApp, CoreTakesAsk, CoreAllocates, CoreTakesRelease, CoreTakesNode, CoreUnchanged
<1>2. coreApps \subseteq coreApps'
  BY DEF CoreTakesApp, CoreTakesAsk, CoreAllocates, CoreTakesRelease, CoreTakesNode
<1>3. CASE \E a \in Apps : CoreTakesApp(a)
  <2>1. PICK a \in Apps : CoreTakesApp(a)
    BY <1>3
  <2>2. \/ Chan' \subseteq Chan \cup {AppEv(a, "AcceptApplication")} /\ a \in coreApps'
        \/ Chan' \subseteq Chan \cup {AppEv(a, "RejectApplication")}
    BY <1>0, <2>1, CorePosts, Grows
  <2>3. \A c \in Apps : AppEv(c, "AcceptApplication") \in Chan' =>
             AppEv(c, "AcceptApplication") \in Chan \/ c \in coreApps'
    BY <2>2, Distinct
  <2>4. \A p \in Pods : Note(p, "SubmitTask")' => Note(p, "SubmitTask")
    BY <2>2, Distinct DEF Note
  <2>5. AppsKnown'
    BY <1>0, <1>1, <1>2, <2>3 DEF AppsKnown, Known
  <2> QED
    BY <1>0, <1>1, <1>2, <2>4, <2>5, AskedKept DEF AsksKept, AskInv, AppsKnown, AllAsked
<1>4. CASE ~ \E a \in Apps : CoreTakesApp(a)
  <2>1. ASSUME NEW p \in Pods, CoreTakesAsk(p)
        PROVE  Silent
    <3>1. CASE UNCHANGED eventChan
      BY <3>1 DEF Chan, Silent, Note
    <3>2. CASE Posts({TaskEv(p, "TaskRejected")})
      <4>1. Chan' \subseteq Chan \cup {TaskEv(p, "TaskRejected")}
        BY <3>2, Grows
      <4> QED
        BY <4>1, Distinct DEF Silent, Note
    <3> QED
      BY <1>0, <2>1, <3>1, <3>2, PodPosts
  <2>2. ASSUME NEW p \in Pods, NEW n \in Nodes, CoreAllocates(p, n)
        PROVE  Silent
    <3>1. Chan' \subseteq Chan \cup {AllocEv(p, n)}
      BY <1>0, <2>2, PodPosts, Grows
    <3> QED
      BY <3>1, Distinct DEF Silent, Note
  <2>3. ASSUME NEW r \in updates, CoreTakesRelease(r)
        PROVE  Silent
    BY <2>3 DEF CoreTakesRelease, Chan, Silent, Note
  <2>4. ASSUME NEW r \in updates, CoreTakesNode(r)
        PROVE  Silent
    <3>1. \/ Chan' \subseteq Chan \cup {NodeEv(r.node, "NodeAccepted")}
          \/ Chan' \subseteq Chan \cup {NodeEv(r.node, "NodeRejected")}
      BY <1>0, <2>4, CorePosts, Grows
    <3> QED
      BY <3>1, Distinct DEF Silent, Note
  <2>5. coreApps' = coreApps
    BY <1>4 DEF CoreTakesAsk, CoreAllocates, CoreTakesRelease, CoreTakesNode
  <2>6. AppsKept /\ AsksKept
    BY <1>1, <1>4, <2>1, <2>2, <2>3, <2>4, <2>5 DEF AppsKept, AsksKept, Silent
  <2> QED
    BY <1>0, <2>6, KnownKept, AskedKept DEF AskInv, AppsKnown, AllAsked
<1> QED
  BY <1>3, <1>4

(* The timer, the informers' handlers and the users. *)
LEMMA PodAsks ==
  ASSUME AskInv, ShimTypes', NEW p \in Pods,
         \/ Schedule(p) \/ Handlers(p) \/ MissDelete(p) \/ CreatePod(p) \/ PodGone(p)
  PROVE  AskInv'
<1> USE DEF kubeVars, recVars, fsmVars, taskVars, seenVars, coreState
<1>0. ShimTypes /\ AppsKnown /\ AllAsked /\ AppOf[p] \in Apps
  BY ShimAssumption DEF AskInv, AppsKnown, AllAsked
<1>1. Silent
  <2>1. CASE Schedule(p)
    <3>1. Chan' \subseteq Chan \cup {AppEv(AppOf[p], "SubmitApplication"), RunEv(AppOf[p], p)}
      <4>1. \/ Chan' \subseteq Chan \cup {}
            \/ Chan' \subseteq Chan \cup {AppEv(AppOf[p], "SubmitApplication")}
            \/ Chan' \subseteq Chan \cup {RunEv(AppOf[p], p)}
        BY <1>0, <2>1, PodPosts, Grows
      <4> QED
        BY <4>1
    <3> QED
      BY <3>1, Distinct DEF Silent, Note
  <2>2. CASE DeletePod(p)
    <3>1. Chan' \subseteq Chan \cup {TaskEv(p, "CompleteTask")}
      BY <1>0, <2>2, PodPosts, Grows
    <3> QED
      BY <3>1, Distinct DEF Silent, Note
  <2>3. CASE AddPod(p) \/ MissDelete(p) \/ CreatePod(p) \/ PodGone(p)
    BY <2>3 DEF AddPod, MissDelete, CreatePod, PodGone, ClusterUnchanged, Chan, Silent, Note
  <2> QED
    BY <2>1, <2>2, <2>3 DEF Handlers
<1>2. UNCHANGED <<coreApps, sched, asked>>
  BY DEF Schedule, TimerUnchanged, Handlers, AddPod, DeletePod, MissDelete, HandlerUnchanged,
         CreatePod, PodGone, ClusterUnchanged
<1>3. \A a \in Apps : app'[a] \in {"Accepted", "Running"} => app[a] \in {"Accepted", "Running"}
  BY <1>0 DEF Schedule, TimerUnchanged, Handlers, AddPod, DeletePod, MissDelete, HandlerUnchanged,
              CreatePod, PodGone, ClusterUnchanged, WithApp, ShimTypes
<1>4. AppsKnown'
  BY <1>0, <1>1, <1>2, <1>3 DEF AppsKnown, Known, Silent
<1>5. ASSUME NEW q \in Pods
      PROVE  AskedFor(q)'
  <2>1. AskedFor(q)
    BY <1>0 DEF AllAsked
  <2>2. \/ task'[q] = task[q] /\ (seenPods[q] # "no" => seenPods'[q] # "no")
        \/ /\ q = p /\ AddPod(p) /\ task[q] = "None" /\ sched = "Running" /\ seenPods'[q] # "no"
    <3>1. CASE AddPod(p) /\ q = p
      BY <1>0, <2>1, <3>1 DEF AddPod, AskedFor, ShimTypes
    <3>2. CASE AddPod(p) /\ q # p
      BY <1>0, <3>2 DEF AddPod, ShimTypes
    <3>3. CASE DeletePod(p) \/ MissDelete(p)
      BY <1>0, <3>3 DEF DeletePod, MissDelete, ShimTypes
    <3>4. CASE Schedule(p) \/ CreatePod(p) \/ PodGone(p)
      BY <3>4 DEF Schedule, TimerUnchanged, CreatePod, PodGone, ClusterUnchanged
    <3> QED
      BY <3>1, <3>2, <3>3, <3>4 DEF Handlers
  <2>3. Note(q, "SubmitTask")' => Note(q, "SubmitTask")
    BY <1>1 DEF Silent
  <2> QED
    BY <1>2, <2>1, <2>2, <2>3 DEF AskedFor, Note
<1> QED
  BY <1>4, <1>5 DEF AskInv, AppsKnown, AllAsked

(* A restart keeps the invariant of the asks.                              *)
LEMMA StartAsks ==
  ASSUME ShimTypes',
         eventChan' = <<SchedEv("RegisterScheduler")>>, app' = [a \in Apps |-> "None"],
         task' = [p \in Pods |-> "None"], asked' = [p \in Pods |-> 0]
  PROVE  AskInv'
<1>1. Chan' = {SchedEv("RegisterScheduler")}
  BY InShort, Events DEF Chan
<1>2. AppsKnown' /\ AllAsked'
  BY <1>1, Distinct DEF AppsKnown, Known, AllAsked, AskedFor
<1> QED
  BY <1>2 DEF AskInv, AppsKnown, AllAsked

(* The invariant of the asks holds at the start.                           *)
LEMMA AskInvInit == ShimInit => AskInv
<1> SUFFICES ASSUME ShimInit PROVE AskInv
  OBVIOUS
<1>1. ShimTypes
  BY ShimTypesInit
<1>2. Chan = {SchedEv("RegisterScheduler")}
  BY InShort, Events DEF Chan, ShimInit, ProcessStart
<1>3. AppsKnown /\ AllAsked
  BY <1>2, Distinct DEF ShimInit, ProcessStart, AppsKnown, Known, AllAsked, AskedFor
<1> QED
  BY <1>1, <1>3 DEF AskInv, AppsKnown, AllAsked

(* Every step keeps the invariant of the asks.                             *)
LEMMA AskInvKept ==
  ASSUME AskInv, [ShimNext]_shimVars
  PROVE  AskInv'
<1>0. ShimTypes /\ ShimTypes' /\ AppsKnown /\ AllAsked
  BY ShimTypesKept DEF AskInv, AppsKnown, AllAsked
<1>1. CASE DispatchStep
  <2>1. ASSUME NEW p \in Pods, RunApplication(AppOf[p], p)
        PROVE  AskInv'
    BY <1>0, <2>1, AppAsks, ShimAssumption
  <2> QED
    BY <1>0, <1>1, <2>1, SchedAsks, AppAsks, TaskAsks, NodeAsks DEF DispatchStep
<1>2. CASE RecoveryStep \/ RecoveryTimeout
  BY <1>0, <1>2, SchedAsks
<1>3. CASE CoreStep \/ \E p \in Pods, n \in Nodes : CoreAllocates(p, n)
  BY <1>0, <1>3, CoreAsks DEF CoreStep
<1>4. CASE ListPending \/ UNCHANGED shimVars
  <2>1. UNCHANGED <<eventChan, app, coreApps, task, asked, seenPods, sched>>
    BY <1>4 DEF ListPending, TimerUnchanged, fsmVars, coreState, seenVars, shimVars
  <2>2. AppsKept /\ AsksKept
    BY <2>1 DEF AppsKept, AsksKept, Chan, Note
  <2> QED
    BY <1>0, <2>2, KnownKept, AskedKept DEF AskInv, AppsKnown, AllAsked
<1>5. CASE Restart
  BY <1>0, <1>5, StartAsks DEF Restart
<1>6. CASE \E p \in Pods : Schedule(p) \/ Handlers(p) \/ MissDelete(p) \/ CreatePod(p) \/ PodGone(p)
  BY <1>0, <1>6, PodAsks
<1>7. CASE \/ \E b \in binding : Bind(b) \/ ReportBound(b)
           \/ \E n \in Nodes : AddNode(n) \/ DeleteNode(n) \/ NodeChange(n)
  BY <1>0, <1>7, NodeAsks
<1> QED
  BY <1>1, <1>2, <1>3, <1>4, <1>5, <1>6, <1>7 DEF ShimNext

(* A task is asked for at most once, never of an application the core does *)
(* not know, and asks and tasks exist only once the shim schedules.        *)
THEOREM AskInvariant == ShimSpec => []AskInv
<1>1. ShimInit => AskInv
  BY AskInvInit
<1>2. AskInv /\ [ShimNext]_shimVars => AskInv'
  BY AskInvKept
<1> QED
  BY <1>1, <1>2, PTL DEF ShimSpec

(* The core gets at most one ask for a task, after it has accepted the     *)
(* application, and none while the shim recovers                           *)
(* (handleRunApplicationEvent, handleSubmitTaskEvent).                     *)
THEOREM NeverAskedTwice == ShimSpec => []AskedOnce
<1>1. AskInv => AskedOnce
  <2>1. ASSUME AskInv, NEW p \in Pods
        PROVE  /\ asked[p] <= 1
               /\ asked[p] = 1 => sched \in {"Running", "Exited"} /\ AppOf[p] \in coreApps
    BY <2>1 DEF AskInv, AskedFor
  <2> QED
    BY <2>1 DEF AskedOnce
<1> QED
  BY <1>1, AskInvariant, PTL
-----------------------------------------------------------------------------
(* The life of a pod: ask, allocation, binding, end. *)
LifeOf(p) == AskLife(p) /\ TaskLife(p) /\ BinderLife(p)

TaskNotes == {"TaskRejected", "TaskBound", "TaskFail", "CompleteTask"}

(* What a step leaves of a pod it does not touch. *)
NothingTold(p) ==
  /\ \A n \in Nodes : Told(p, n)' => Told(p, n)
  /\ \A ev \in TaskNotes : Note(p, ev)' => Note(p, ev)
PodKept(p) ==
  /\ kube'[p] = kube[p] /\ podNode'[p] = podNode[p] /\ task'[p] = task[p] /\ uuid'[p] = uuid[p]
  /\ coreAlloc'[p] = coreAlloc[p] /\ asked'[p] = asked[p]
  /\ p \in openAsks' => p \in openAsks
  /\ Asking(p)' => Asking(p)
  /\ \A b : b.pod = p => (b \in binding' <=> b \in binding)
  /\ NothingTold(p)

(* What a pod that has ended, and one that was found, are after a step. *)
Settled(p) ==
  /\ task[p] \in {"Completed", "Failed"} => task'[p] \in {"Completed", "Failed"}
  /\ asked[p] = 0 /\ kube[p] \in {"bound", "gone"} /\ task[p] \in {"None", "Allocated"} =>
       /\ asked'[p] = 0 /\ kube'[p] \in {"bound", "gone"} /\ task'[p] \in {"None", "Allocated"}
       /\ podNode'[p] = podNode[p]

(* A release of what a task held that has ended. *)
EndedBy(r, tasks) ==
  r.uuid \in Pods /\ r.app = AppOf[r.uuid] /\ tasks[r.uuid] \in {"Completed", "Failed"}

(* The requests a step may add. *)
CrossKept ==
  /\ existing' = existing
  /\ \A r \in updates' : \/ r \in updates \/ r.req \in {"app", "ask"}
                         \/ r.req = "node" /\ r.node \in Nodes /\ r.existing = existing[r.node]
                         \/ r.req = "release" /\ EndedBy(r, task')

(* A pod that is kept lives on as before.                                  *)
LEMMA LifeOfKept ==
  ASSUME NEW p \in Pods, LifeOf(p), PodKept(p)
  PROVE  LifeOf(p)' /\ Settled(p)
<1>1. AskLife(p)' /\ TaskLife(p)'
  <2>1. Binds(p)' <=> Binds(p)
    BY DEF PodKept, Binds
  <2>2. AskLife(p)'
    BY <2>1 DEF PodKept, NothingTold, TaskNotes, LifeOf, AskLife
  <2>3. TaskLife(p)'
    BY <2>1 DEF PodKept, NothingTold, TaskNotes, LifeOf, TaskLife
  <2> QED
    BY <2>2, <2>3
<1>2. BinderLife(p)'
  BY DEF PodKept, LifeOf, BinderLife
<1>3. Settled(p)
  BY DEF PodKept, Settled
<1> QED
  BY <1>1, <1>2, <1>3 DEF LifeOf

(* It remains to look at each pod, and at the requests a step adds.        *)
LEMMA LifeKept ==
  ASSUME LifeInv, ShimTypes, ShimTypes', CrossKept, \A p \in Pods : LifeOf(p)' /\ Settled(p)
  PROVE  LifeInv'
<1>1. ReleaseLife'
  <2>1. ASSUME NEW r \in updates', r.req = "release"
        PROVE  EndedBy(r, task')
    <3>1. CASE r \in updates
      <4>1. EndedBy(r, task)
        BY <2>1, <3>1 DEF LifeInv, ReleaseLife, EndedBy
      <4> QED
        BY <4>1 DEF Settled, EndedBy
    <3> QED
      BY <2>1, <3>1 DEF CrossKept
  <2> QED
    BY <2>1 DEF ReleaseLife, EndedBy
<1>2. ASSUME NEW S \in SUBSET Pods, NEW n, Found(S, n)
      PROVE  Found(S, n)'
  BY <1>2 DEF Found, Settled
<1>3. \A n \in Nodes : existing[n] \in SUBSET Pods /\ Found(existing[n], n)
  BY DEF LifeInv, FoundLife, ShimTypes
<1>4. \A n \in Nodes : Found(existing[n], n)'
  BY <1>2, <1>3 DEF Found, Settled, CrossKept
<1>5. ASSUME NEW r \in updates', r.req = "node"
      PROVE  Found(r.existing, r.node)'
  <2>1. CASE r \in updates
    <3>1. r.existing \in SUBSET Pods
      BY <1>5, <2>1 DEF ShimTypes, Request
    <3> QED
      BY <1>2, <1>5, <2>1, <3>1 DEF LifeInv, FoundLife
  <2>2. CASE r.node \in Nodes /\ r.existing = existing[r.node]
    BY <1>2, <1>3, <2>2
  <2> QED
    BY <1>5, <2>1, <2>2 DEF CrossKept
<1>6. FoundLife'
  BY <1>4, <1>5 DEF FoundLife, CrossKept
<1> QED
  BY <1>1, <1>6 DEF LifeInv, LifeOf

(* The steps that have nothing to do with pods. *)
PodsQuiet ==
  /\ UNCHANGED <<kube, podNode, task, uuid, coreAlloc, asked, openAsks, binding>>
  /\ \A p \in Pods : (Asking(p)' => Asking(p)) /\ NothingTold(p)
  /\ CrossKept

(* A step that has nothing to do with pods keeps their lives.              *)
LEMMA QuietLife ==
  ASSUME LifeInv, ShimTypes, ShimTypes', PodsQuiet
  PROVE  LifeInv'
<1>1. ASSUME NEW p \in Pods
      PROVE  LifeOf(p)' /\ Settled(p)
  <2>1. PodKept(p)
    BY DEF PodsQuiet, PodKept
  <2>2. LifeOf(p)
    BY DEF LifeInv, LifeOf
  <2> QED
    BY <2>1, <2>2, LifeOfKept
<1> QED
  BY <1>1, LifeKept DEF PodsQuiet

(* A step that posts no event of a task tells no pod anything.             *)
LEMMA NotTold ==
  ASSUME NEW E, Chan' \subseteq Chan \cup E,
         \A x \in E : x.to # "task" \/ x.ev = "SubmitTask"
  PROVE  \A p \in Pods : NothingTold(p)
BY Distinct DEF NothingTold, Told, Note, TaskNotes

OwnSteps ==
  \/ RefuseEvent
  \/ RegisterScheduler \/ RegisterSchedulerSucceed \/ RegisterSchedulerFailed
  \/ RecoverScheduler \/ RecoverSchedulerSucceed
  \/ RecoverApps \/ AppsRecovered \/ PollNodes \/ NodesRecovered \/ RecoveryTimeout

(* The shim's own steps have nothing to do with pods.                      *)
LEMMA OwnQuiet ==
  ASSUME ShimTypes, OwnSteps
  PROVE  PodsQuiet
<1> USE DEF kubeVars, recVars, fsmVars, taskVars, seenVars, coreState
<1>1. UNCHANGED <<kube, podNode, task, uuid, coreAlloc, asked, openAsks, binding, existing, updates>>
  BY DEF OwnSteps, RefuseEvent, RegisterScheduler, RegisterSchedulerSucceed, RegisterSchedulerFailed,
         RecoverScheduler, RecoverSchedulerSucceed, SchedStep, RecoverApps,
         AppsRecovered, PollNodes, NodesRecovered, RecoverUnchanged, RecoveryTimeout
<1>2. PICK E : /\ Chan' \subseteq Chan \cup E
               /\ \A x \in E : OwnNews(x)
  BY SchedTells DEF OwnSteps, RecoveryStep
<1>3. \A p \in Pods : NothingTold(p)
  BY <1>2, NotTold DEF OwnNews
<1> QED
  BY <1>1, <1>3 DEF PodsQuiet, CrossKept, Asking

(* The steps of applications have nothing to do with pods.                 *)
LEMMA AppsQuiet ==
  ASSUME ShimTypes, NEW a \in Apps,
         \/ SubmitApplication(a) \/ AcceptApplication(a) \/ RejectApplication(a)
         \/ FailApplication(a) \/ CoreTakesApp(a)
         \/ \E p \in Pods : RunApplication(a, p)
  PROVE  PodsQuiet
<1> USE DEF kubeVars, recVars, fsmVars, taskVars, seenVars, coreState
<1>1. UNCHANGED <<kube, podNode, task, uuid, coreAlloc, asked, openAsks, binding, existing>>
  BY DEF SubmitApplication, AcceptApplication, RejectApplication, FailApplication, RunApplication,
         AppStep, AppUnchanged, CoreTakesApp, CoreUnchanged
<1>2. updates' \subseteq updates \cup {[req |-> "app", app |-> a]}
  BY DEF SubmitApplication, AcceptApplication, RejectApplication, FailApplication, RunApplication,
         CoreTakesApp, Arrives
<1>3. \A p \in Pods : NothingTold(p)
  <2>1. CASE SubmitApplication(a) \/ AcceptApplication(a) \/ FailApplication(a)
    <3>1. PICK x : Hands(x, {})
      BY <2>1, AppHands
    <3>2. Chan' \subseteq Chan
      BY <3>1 DEF Hands
    <3> QED
      BY <3>2 DEF NothingTold, Told, Note
  <2>2. CASE RejectApplication(a)
    <3>1. Chan' \subseteq Chan \cup {AppEv(a, "FailApplication")}
      BY <2>2, AppHands, Grows
    <3> QED
      BY <3>1, Distinct DEF NothingTold, Told, Note
  <2>3. CASE CoreTakesApp(a)
    <3>1. \/ Chan' \subseteq Chan \cup {AppEv(a, "AcceptApplication")}
          \/ Chan' \subseteq Chan \cup {AppEv(a, "RejectApplication")}
      BY <2>3, CorePosts, Grows
    <3> QED
      BY <3>1, Distinct DEF NothingTold, Told, Note
  <2>4. ASSUME NEW p \in Pods, RunApplication(a, p)
        PROVE  \A q \in Pods : NothingTold(q)
    <3>1. Chan' \subseteq Chan \cup {TaskEv(p, "SubmitTask")}
      BY <2>4, AppHands, Grows
    <3> QED
      BY <3>1, Distinct DEF NothingTold, Told, Note, TaskNotes
  <2> QED
    BY <2>1, <2>2, <2>3, <2>4
<1>4. \A p \in Pods : Asking(p)' => Asking(p)
  BY <1>2 DEF Asking
<1>5. CrossKept
  BY <1>1, <1>2 DEF CrossKept
<1> QED
  BY <1>1, <1>3, <1>4, <1>5 DEF PodsQuiet

(* The steps of nodes have nothing to do with pods.                        *)
LEMMA NodesQuiet ==
  ASSUME ShimTypes, NEW n \in Nodes,
         RecoverNode(n) \/ NodeAnswered(n) \/ AddNode(n) \/ DeleteNode(n) \/ NodeChange(n)
  PROVE  PodsQuiet
<1> USE DEF kubeVars, recVars, fsmVars, taskVars, seenVars, coreState
<1>1. UNCHANGED <<kube, podNode, task, uuid, coreAlloc, asked, openAsks, binding, existing>>
  BY DEF RecoverNode, NodeAnswered, NodeStep, AddNode, DeleteNode, HandlerUnchanged,
         NodeChange, ClusterUnchanged
<1>2. updates' \subseteq updates \cup {[req |-> "node", node |-> n, existing |-> existing[n]]}
  BY DEF RecoverNode, NodeAnswered, AddNode, DeleteNode, HandlerUnchanged, NodeChange, ClusterUnchanged
<1>3. \A p \in Pods : NothingTold(p)
  <2>1. CASE RecoverNode(n) \/ NodeAnswered(n)
    <3>1. Chan' \subseteq Chan
      BY <2>1, NodeHands, Grows
    <3> QED
      BY <3>1 DEF NothingTold, Told, Note
  <2>2. CASE AddNode(n)
    <3>1. Chan' \subseteq Chan \cup {NodeEv(n, "RecoverNode")}
      BY <2>2, NodeHands, Grows
    <3> QED
      BY <3>1, Distinct DEF NothingTold, Told, Note
  <2>3. CASE DeleteNode(n) \/ NodeChange(n)
    BY <2>3 DEF DeleteNode, NodeChange, ClusterUnchanged, Chan, NothingTold, Told, Note
  <2> QED
    BY <2>1, <2>2, <2>3
<1>4. \A p \in Pods : Asking(p)' => Asking(p)
  BY <1>2 DEF Asking
<1>5. CrossKept
  BY <1>1, <1>2 DEF CrossKept
<1> QED
  BY <1>1, <1>3, <1>4, <1>5 DEF PodsQuiet

(* The timer only posts events of applications.                            *)
LEMMA TimerQuiet ==
  ASSUME ShimTypes,
         ListPending \/ UNCHANGED shimVars \/ \E p \in Pods : Schedule(p) \/ MissDelete(p)
  PROVE  PodsQuiet
<1> USE DEF kubeVars, recVars, fsmVars, taskVars, seenVars, coreState
<1>1. UNCHANGED <<kube, podNode, task, uuid, coreAlloc, asked, openAsks, binding, existing, updates>>
  BY DEF ListPending, Schedule, TimerUnchanged, MissDelete, HandlerUnchanged, shimVars
<1>2. \A q \in Pods : NothingTold(q)
  <2>1. CASE ListPending \/ UNCHANGED shimVars \/ \E p \in Pods : MissDelete(p)
    BY <2>1 DEF ListPending, MissDelete, shimVars, NothingTold, Told, Note, Chan
  <2>2. ASSUME NEW p \in Pods, Schedule(p)
        PROVE  \A q \in Pods : NothingTold(q)
    <3>1. \/ Posts({}) \/ Posts({AppEv(AppOf[p], "SubmitApplication")})
          \/ Posts({RunEv(AppOf[p], p)})
      BY <2>2, PodPosts
    <3>2. Chan' \subseteq Chan \cup {AppEv(AppOf[p], "SubmitApplication"), RunEv(AppOf[p], p)}
      BY <3>1 DEF Posts
    <3> QED
      BY <3>2, Distinct DEF NothingTold, Told, Note
  <2> QED
    BY <2>1, <2>2
<1> QED
  BY <1>1, <1>2 DEF PodsQuiet, CrossKept, Asking

(* A step on one pod: it remains to look at that pod. *)
LEMMA OnePod ==
  ASSUME LifeInv, ShimTypes, ShimTypes', CrossKept, NEW p \in Pods,
         \A q \in Pods : q # p => PodKept(q),
         LifeOf(p)' /\ Settled(p)
  PROVE  LifeInv'
<1>1. ASSUME NEW q \in Pods
      PROVE  LifeOf(q)' /\ Settled(q)
  <2>1. LifeOf(q)
    BY DEF LifeInv, LifeOf
  <2> QED
    BY <2>1, LifeOfKept
<1> QED
  BY <1>1, LifeKept

(* The machine of a task moves that task. *)
LEMMA TaskMoves ==
  ASSUME ShimTypes, NEW p \in Pods, NEW e, NEW evs, TaskStep(p, e, evs)
  PROVE  /\ task'[p] = TaskMachine[e.ev].dst
         /\ \A q \in Pods : q # p => task'[q] = task[q]
BY DEF TaskStep, ShimTypes

(* A task is asked for. *)
LEMMA SubmitLife ==
  ASSUME AskInv, LifeInv, ShimTypes', NEW p \in Pods, SubmitTask(p)
  PROVE  LifeInv'
<1>0. ShimTypes /\ AskedFor(p) /\ LifeOf(p)
  BY DEF AskInv, LifeInv, LifeOf
<1>1. /\ UNCHANGED <<kube, podNode, uuid, coreAlloc, openAsks, binding, existing>>
      /\ task'[p] = TaskMachine["SubmitTask"].dst
      /\ \A q \in Pods : q # p => task'[q] = task[q]
      /\ asked' = [asked EXCEPT ![p] = @ + 1]
      /\ updates' = updates \cup {[req |-> "ask", pod |-> p]}
  <2>1. TaskStep(p, TaskEv(p, "SubmitTask"), <<>>) /\ TaskEv(p, "SubmitTask").ev = "SubmitTask"
    BY Distinct DEF SubmitTask
  <2>2. /\ task'[p] = TaskMachine["SubmitTask"].dst
        /\ \A q \in Pods : q # p => task'[q] = task[q]
    BY <1>0, <2>1, TaskMoves
  <2> QED
    BY <2>1, <2>2 DEF SubmitTask, TaskStep, kubeVars, coreState
<1>2. task[p] = "Pending" /\ task'[p] = "Scheduling" /\ asked[p] = 0 /\ asked'[p] = 1
  <2>1. task[p] \in TaskMachine["SubmitTask"].src
    BY Accepted DEF SubmitTask, TaskStep
  <2>2. task[p] = "Pending"
    BY <2>1 DEF TaskMachine
  <2>3. asked[p] = 0
    BY <1>0, <2>2 DEF AskedFor
  <2> QED
    BY <1>0, <1>1, <2>2, <2>3 DEF ShimTypes, TaskMachine
<1>3. \A q \in Pods : NothingTold(q)
  <2>1. Chan' \subseteq Chan \cup {}
    BY <1>0, TaskHands, Grows
  <2> QED
    BY <2>1 DEF NothingTold, Told, Note
<1>4. ASSUME NEW q \in Pods, q # p
      PROVE  PodKept(q)
  <2>1. task'[q] = task[q] /\ asked'[q] = asked[q]
    BY <1>0, <1>1, <1>4 DEF ShimTypes
  <2>2. Asking(q)' => Asking(q)
    BY <1>1, <1>4 DEF Asking
  <2> QED
    BY <1>1, <1>3, <2>1, <2>2 DEF PodKept
<1>5. LifeOf(p)'
  <2>1. ~Binds(p) /\ Binds(p)' = Binds(p)
    BY <1>0, <1>1, <1>2 DEF LifeOf, TaskLife, Binds
  <2>2. AskLife(p)'
    BY <1>0, <1>1, <1>2, <1>3, <2>1 DEF LifeOf, AskLife, NothingTold, TaskNotes
  <2>3. TaskLife(p)'
    BY <1>0, <1>1, <1>2, <1>3, <2>1 DEF LifeOf, TaskLife, NothingTold, TaskNotes
  <2>4. BinderLife(p)'
    BY <1>1, <2>1 DEF BinderLife, Binds
  <2> QED
    BY <2>2, <2>3, <2>4 DEF LifeOf
<1>6. Settled(p)
  BY <1>2 DEF Settled
<1>7. CrossKept
  BY <1>1 DEF CrossKept
<1> QED
  BY <1>0, <1>4, <1>5, <1>6, <1>7, OnePod

(* The allocation reaches the task, and a binder starts. *)
LEMMA AllocatedLife ==
  ASSUME AskInv, LifeInv, ShimTypes', NEW p \in Pods, NEW n \in Nodes, TaskAllocated(p, n)
  PROVE  LifeInv'
<1>0. ShimTypes /\ AskedFor(p) /\ LifeOf(p)
  BY DEF AskInv, LifeInv, LifeOf
<1>1. /\ UNCHANGED <<kube, podNode, uuid, coreAlloc, openAsks, existing, updates, asked>>
      /\ task'[p] = TaskMachine["TaskAllocated"].dst
      /\ \A q \in Pods : q # p => task'[q] = task[q]
      /\ binding' = binding \cup {[pod |-> p, node |-> n, stage |-> "bind"]}
  <2>1. TaskStep(p, AllocEv(p, n), <<>>) /\ AllocEv(p, n).ev = "TaskAllocated"
    BY Distinct DEF TaskAllocated
  <2>2. /\ task'[p] = TaskMachine["TaskAllocated"].dst
        /\ \A q \in Pods : q # p => task'[q] = task[q]
    BY <1>0, <2>1, TaskMoves
  <2> QED
    BY <2>1, <2>2 DEF TaskAllocated, TaskStep, kubeVars, coreState
<1>2. /\ task[p] = "Scheduling" /\ task'[p] = "Allocated" /\ asked[p] = 1
      /\ Told(p, n) /\ coreAlloc[p] = n
  <2>1. task[p] = "Scheduling"
    BY Accepted DEF TaskAllocated, TaskStep
  <2>2. Told(p, n)
    BY <1>0, TaskHands, Grows DEF Told
  <2> QED
    BY <1>0, <1>1, <2>1, <2>2 DEF ShimTypes, TaskMachine, LifeOf, AskLife
<1>3. \A q \in Pods : NothingTold(q)
  <2>1. Chan' \subseteq Chan \cup {}
    BY <1>0, TaskHands, Grows
  <2> QED
    BY <2>1 DEF NothingTold, Told, Note
<1>4. ASSUME NEW q \in Pods, q # p
      PROVE  PodKept(q)
  <2>1. task'[q] = task[q]
    BY <1>0, <1>1, <1>4 DEF ShimTypes
  <2>2. \A b : b.pod = q => (b \in binding' <=> b \in binding)
    BY <1>1, <1>4
  <2> QED
    BY <1>1, <1>3, <2>1, <2>2 DEF PodKept, Asking
<1>5. LifeOf(p)'
  <2>1. ~Binds(p)
    BY <1>0, <1>2 DEF LifeOf, TaskLife
  <2>2. AskLife(p)'
    BY <1>0, <1>1, <1>2, <1>3 DEF LifeOf, AskLife, NothingTold, TaskNotes, Asking
  <2>3. ~Note(p, "TaskBound") /\ ~Note(p, "TaskFail")
    BY <1>0, <1>2 DEF LifeOf, TaskLife
  <2>4. TaskLife(p)'
    BY <1>0, <1>1, <1>2, <1>3, <2>1, <2>3 DEF LifeOf, TaskLife, NothingTold, TaskNotes, ShimTypes
  <2>5. \A b \in binding' : b.pod = p => b = [pod |-> p, node |-> n, stage |-> "bind"]
    BY <1>1, <2>1 DEF Binds
  <2>6. kube'[p] # "bound"
    BY <1>0, <1>1, <1>2 DEF LifeOf, TaskLife
  <2>7. BinderLife(p)'
    BY <1>1, <1>2, <2>5, <2>6 DEF BinderLife
  <2> QED
    BY <2>2, <2>4, <2>7 DEF LifeOf
<1>6. Settled(p)
  BY <1>2 DEF Settled
<1>7. CrossKept
  BY <1>1 DEF CrossKept
<1> QED
  BY <1>0, <1>4, <1>5, <1>6, <1>7, OnePod

(* The binder has bound the pod. *)
LEMMA BoundLife ==
  ASSUME AskInv, LifeInv, ShimTypes', NEW p \in Pods, TaskBound(p)
  PROVE  LifeInv'
<1>0. ShimTypes /\ AskedFor(p) /\ LifeOf(p)
  BY DEF AskInv, LifeInv, LifeOf
<1>1. /\ UNCHANGED <<kube, podNode, uuid, coreAlloc, openAsks, existing, updates, asked, binding>>
      /\ task'[p] = TaskMachine["TaskBound"].dst
      /\ \A q \in Pods : q # p => task'[q] = task[q]
  <2>1. TaskStep(p, TaskEv(p, "TaskBound"), <<>>) /\ TaskEv(p, "TaskBound").ev = "TaskBound"
    BY Distinct DEF TaskBound
  <2>2. /\ task'[p] = TaskMachine["TaskBound"].dst
        /\ \A q \in Pods : q # p => task'[q] = task[q]
    BY <1>0, <2>1, TaskMoves
  <2> QED
    BY <2>1, <2>2 DEF TaskBound, TaskStep, kubeVars, coreState
<1>2. /\ task[p] = "Allocated" /\ task'[p] = "Bound" /\ asked[p] = 1
      /\ Note(p, "TaskBound") /\ uuid[p] = p /\ ~Binds(p) /\ ~Note(p, "TaskFail")
  <2>1. task[p] \in TaskMachine["TaskBound"].src
    BY Accepted DEF TaskBound, TaskStep
  <2>2. Note(p, "TaskBound")
    BY <1>0, TaskHands, Grows DEF Note
  <2>3. task[p] = "Allocated"
    BY <2>1 DEF TaskMachine
  <2>4. task'[p] = "Bound"
    BY <1>0, <1>1 DEF ShimTypes, TaskMachine
  <2> QED
    BY <1>0, <2>2, <2>3, <2>4 DEF LifeOf, TaskLife
<1>3. \A q \in Pods : NothingTold(q)
  <2>1. Chan' \subseteq Chan \cup {}
    BY <1>0, TaskHands, Grows
  <2> QED
    BY <2>1 DEF NothingTold, Told, Note
<1>4. ASSUME NEW q \in Pods, q # p
      PROVE  PodKept(q)
  <2>1. task'[q] = task[q]
    BY <1>0, <1>1, <1>4 DEF ShimTypes
  <2> QED
    BY <1>1, <1>3, <2>1 DEF PodKept, Asking
<1>5. LifeOf(p)'
  <2>1. Binds(p)' = Binds(p)
    BY <1>1 DEF Binds
  <2>2. AskLife(p)'
    BY <1>0, <1>1, <1>2, <1>3, <2>1 DEF LifeOf, AskLife, NothingTold, TaskNotes, Asking
  <2>3. TaskLife(p)'
    BY <1>0, <1>1, <1>2, <1>3, <2>1 DEF LifeOf, TaskLife, NothingTold, TaskNotes
  <2>4. BinderLife(p)'
    BY <1>1, <1>2 DEF BinderLife, Binds
  <2> QED
    BY <2>2, <2>3, <2>4 DEF LifeOf
<1>6. Settled(p)
  BY <1>1, <1>2 DEF Settled
<1>7. CrossKept
  BY <1>1 DEF CrossKept
<1> QED
  BY <1>0, <1>4, <1>5, <1>6, <1>7, OnePod

(* A task that ends has its uuid, and gives its allocation back. *)
LEMMA EndedLife ==
  ASSUME AskInv, LifeInv, ShimTypes', NEW p \in Pods, TaskEnded(p)
  PROVE  LifeInv'
<1>0. ShimTypes /\ AskedFor(p) /\ LifeOf(p)
  BY DEF AskInv, LifeInv, LifeOf
<1>1. /\ UNCHANGED <<kube, podNode, uuid, coreAlloc, openAsks, existing, asked, binding>>
      /\ updates' = updates \cup {ReleaseOf(p)}
  BY DEF TaskEnded, TaskStep, kubeVars, coreState
<1>2. PICK ev \in {"TaskFail", "CompleteTask"} :
           TaskStep(p, TaskEv(p, ev), <<>>) /\ Hands(TaskEv(p, ev), {})
  <2>1. PICK ev \in {"TaskFail", "CompleteTask"} : TaskStep(p, TaskEv(p, ev), <<>>)
    BY DEF TaskEnded
  <2>2. Hands(TaskEv(p, ev), {})
    BY <1>0, <2>1, HandledOne DEF TaskStep
  <2> QED
    BY <2>1, <2>2
<1>3. /\ task[p] \in TaskMachine[ev].src /\ task'[p] = TaskMachine[ev].dst /\ Note(p, ev)
      /\ \A q \in Pods : q # p => task'[q] = task[q]
  <2>1. TaskEv(p, ev).ev = ev
    BY Distinct
  <2>2. /\ task'[p] = TaskMachine[ev].dst
        /\ \A q \in Pods : q # p => task'[q] = task[q]
    BY <1>0, <1>2, <2>1, TaskMoves
  <2>3. task[p] \in TaskMachine[ev].src
    BY <1>2, Accepted DEF TaskStep
  <2> QED
    BY <1>2, <2>2, <2>3, Grows DEF Note
<1>4. /\ \/ ev = "TaskFail" /\ task[p] = "Allocated" /\ task'[p] = "Failed"
         \/ ev = "CompleteTask" /\ task[p] = "Bound" /\ task'[p] = "Completed"
      /\ uuid[p] = p /\ asked[p] = 1 /\ ~Binds(p) /\ kube[p] # "bound"
  <2>1. CASE ev = "TaskFail"
    <3>1. task[p] \in {"Rejected", "Allocated"} /\ task'[p] = "Failed"
      BY <1>3, <2>1 DEF TaskMachine
    <3>2. task[p] # "Rejected"
      BY <1>0 DEF LifeOf, AskLife
    <3> QED
      BY <1>0, <1>3, <2>1, <3>1, <3>2 DEF LifeOf, TaskLife
  <2>2. CASE ev = "CompleteTask"
    <3>1. task[p] = "Bound" /\ task'[p] = "Completed"
      BY <1>3, <2>2 DEF TaskMachine
    <3> QED
      BY <1>0, <1>3, <2>2, <3>1 DEF LifeOf, TaskLife
  <2> QED
    BY <2>1, <2>2
<1>5. \A q \in Pods : NothingTold(q)
  <2>1. Chan' \subseteq Chan \cup {}
    BY <1>2, Grows
  <2> QED
    BY <2>1 DEF NothingTold, Told, Note
<1>6. \A q \in Pods : Asking(q)' => Asking(q)
  <2>1. ReleaseOf(p).req = "release"
    BY DEF ReleaseOf
  <2> QED
    BY <1>1, <2>1 DEF Asking
<1>7. ASSUME NEW q \in Pods, q # p
      PROVE  PodKept(q)
  BY <1>1, <1>3, <1>5, <1>6, <1>7 DEF PodKept
<1>8. LifeOf(p)'
  <2>1. Binds(p)' = Binds(p)
    BY <1>1 DEF Binds
  <2>2. AskLife(p)'
    BY <1>0, <1>1, <1>4, <1>5, <1>6, <2>1 DEF LifeOf, AskLife, NothingTold, TaskNotes
  <2>3. ~Note(p, "TaskFail") \/ ~Note(p, "TaskBound")
    BY <1>0 DEF LifeOf, TaskLife
  <2>4. TaskLife(p)'
    BY <1>0, <1>1, <1>3, <1>4, <1>5, <2>1, <2>3 DEF LifeOf, TaskLife, NothingTold, TaskNotes
  <2>5. BinderLife(p)'
    BY <1>1, <1>4 DEF BinderLife, Binds
  <2> QED
    BY <2>2, <2>4, <2>5 DEF LifeOf
<1>9. Settled(p)
  BY <1>4 DEF Settled
<1>10. CrossKept
  <2>1. ReleaseOf(p).req = "release" /\ EndedBy(ReleaseOf(p), task')
    BY <1>4 DEF ReleaseOf, EndedBy
  <2> QED
    BY <1>1, <2>1 DEF CrossKept
<1> QED
  BY <1>0, <1>7, <1>8, <1>9, <1>10, OnePod

(* The binder's two steps. *)
LEMMA BindLife ==
  ASSUME AskInv, LifeInv, ShimTypes', NEW b \in binding, Bind(b) \/ ReportBound(b)
  PROVE  LifeInv'
<1>0. ShimTypes
  BY DEF AskInv
<1>1. PICK p \in Pods : p = b.pod
  BY <1>0, BindPosts
<1>2. LifeOf(p) /\ b.node \in Nodes /\ b \in Binder
  BY <1>0, BindPosts DEF LifeInv, LifeOf
<1>3. Binds(p) /\ task[p] = "Allocated" /\ asked[p] = 1 /\ coreAlloc[p] = b.node
  <2>1. Binds(p)
    BY <1>1 DEF Binds
  <2> QED
    BY <1>1, <1>2, <2>1 DEF LifeOf, TaskLife, BinderLife
<1>4. \A c \in binding : c.pod = p => c = b
  BY <1>1, <1>2 DEF LifeOf, BinderLife
<1>5. UNCHANGED <<task, coreAlloc, asked, openAsks, existing, updates>>
  BY DEF Bind, ReportBound, BindUnchanged, fsmVars, coreState
<1>6. ~Note(p, "TaskBound") /\ ~Note(p, "TaskFail") /\ ~Note(p, "TaskRejected")
  BY <1>2, <1>3 DEF LifeOf, TaskLife, AskLife
<1>7. CrossKept
  BY <1>5 DEF CrossKept
<1>8. Settled(p)
  BY <1>3, <1>5 DEF Settled
<1>9. CASE ReportBound(b)
  <2>1. UNCHANGED <<kube, podNode, uuid>> /\ binding' = binding \ {b} /\ b.stage = "bound"
    BY <1>9 DEF ReportBound
  <2>2. Chan' \subseteq Chan \cup {TaskEv(p, "TaskBound")}
    BY <1>0, <1>1, <1>9, BindPosts, Grows
  <2>3. /\ \A q \in Pods : q # p => NothingTold(q)
        /\ \A n \in Nodes : Told(p, n)' => Told(p, n)
        /\ \A ev \in TaskNotes \ {"TaskBound"} : Note(p, ev)' => Note(p, ev)
    BY <2>2, Distinct DEF NothingTold, Told, Note, TaskNotes
  <2>4. ASSUME NEW q \in Pods, q # p
        PROVE  PodKept(q)
    BY <1>1, <1>5, <2>1, <2>3, <2>4 DEF PodKept, Asking
  <2>5. uuid[p] = p /\ ~Binds(p)'
    BY <1>1, <1>2, <1>4, <2>1 DEF LifeOf, BinderLife, Binds
  <2>6. AskLife(p)'
    BY <1>2, <1>3, <1>5, <2>3, <2>5 DEF LifeOf, AskLife, Asking, TaskNotes
  <2>7. TaskLife(p)'
    BY <1>2, <1>3, <1>5, <1>6, <2>1, <2>3, <2>5 DEF LifeOf, TaskLife, TaskNotes
  <2>8. BinderLife(p)'
    BY <2>5 DEF BinderLife, Binds
  <2> QED
    BY <1>0, <1>7, <1>8, <2>4, <2>6, <2>7, <2>8, OnePod DEF LifeOf
<1>10. CASE Bind(b) /\ BindFails(b)
  <2>1. /\ UNCHANGED <<kube, podNode>> /\ binding' = binding \ {b} /\ b.stage = "bind"
        /\ uuid' = [uuid EXCEPT ![p] = p]
    BY <1>1, <1>10 DEF Bind, BindFails
  <2>2. Chan' \subseteq Chan \cup {TaskEv(p, "TaskFail")}
    BY <1>0, <1>1, <1>10, BindPosts, Grows
  <2>3. /\ \A q \in Pods : q # p => NothingTold(q)
        /\ \A n \in Nodes : Told(p, n)' => Told(p, n)
        /\ \A ev \in TaskNotes \ {"TaskFail"} : Note(p, ev)' => Note(p, ev)
    BY <2>2, Distinct DEF NothingTold, Told, Note, TaskNotes
  <2>4. uuid'[p] = p /\ \A q \in Pods : q # p => uuid'[q] = uuid[q]
    BY <1>0, <2>1 DEF ShimTypes
  <2>5. ASSUME NEW q \in Pods, q # p
        PROVE  PodKept(q)
    BY <1>1, <1>5, <2>1, <2>3, <2>4, <2>5 DEF PodKept, Asking
  <2>6. kube[p] # "bound" /\ ~Binds(p)'
    BY <1>1, <1>2, <1>4, <2>1 DEF LifeOf, BinderLife, Binds
  <2>7. AskLife(p)'
    BY <1>2, <1>3, <1>5, <2>3, <2>6 DEF LifeOf, AskLife, Asking, TaskNotes
  <2>8. TaskLife(p)'
    BY <1>2, <1>3, <1>5, <1>6, <2>1, <2>3, <2>4, <2>6 DEF LifeOf, TaskLife, TaskNotes
  <2>9. BinderLife(p)'
    BY <2>6 DEF BinderLife, Binds
  <2> QED
    BY <1>0, <1>7, <1>8, <2>5, <2>7, <2>8, <2>9, OnePod DEF LifeOf
<1>11. CASE Bind(b) /\ BindSucceeds(b)
  <2>1. PICK c \in Binder : c = [b EXCEPT !.stage = "bound"]
    BY <1>2 DEF Binder
  <2>2. c.pod = p /\ c.node = b.node /\ c.stage = "bound"
    BY <1>1, <1>2, <2>1 DEF Binder
  <2>3. /\ kube[p] = "pending" /\ kube' = [kube EXCEPT ![p] = "bound"]
        /\ podNode' = [podNode EXCEPT ![p] = b.node]
        /\ binding' = (binding \ {b}) \cup {c}
        /\ uuid' = [uuid EXCEPT ![p] = p] /\ UNCHANGED eventChan
    BY <1>1, <1>11, <2>1 DEF Bind, BindSucceeds
  <2>4. \A q \in Pods : NothingTold(q) /\ \A ev : Note(q, ev)' => Note(q, ev)
    BY <2>3 DEF NothingTold, Told, Note, Chan
  <2>5. /\ uuid'[p] = p /\ kube'[p] = "bound" /\ podNode'[p] = b.node
        /\ \A q \in Pods : q # p => /\ uuid'[q] = uuid[q] /\ kube'[q] = kube[q]
                                    /\ podNode'[q] = podNode[q]
    BY <1>0, <2>3 DEF ShimTypes
  <2>6. ASSUME NEW q \in Pods, q # p
        PROVE  PodKept(q)
    BY <1>1, <1>5, <2>2, <2>3, <2>4, <2>5, <2>6 DEF PodKept, Asking
  <2>7. Binds(p)'
    BY <2>2, <2>3 DEF Binds
  <2>8. AskLife(p)'
    BY <1>2, <1>3, <1>5, <2>4 DEF LifeOf, AskLife, Asking, NothingTold, TaskNotes
  <2>9. TaskLife(p)'
    <3>1. ~Note(p, "CompleteTask")
      BY <1>2, <2>3 DEF LifeOf, TaskLife
    <3> QED
      BY <1>2, <1>3, <1>5, <1>6, <2>4, <2>5, <2>7, <3>1 DEF LifeOf, TaskLife
  <2>10. BinderLife(p)'
    BY <1>3, <1>4, <1>5, <2>2, <2>3, <2>5 DEF BinderLife
  <2> QED
    BY <1>0, <1>7, <1>8, <2>6, <2>8, <2>9, <2>10, OnePod DEF LifeOf
<1> QED
  BY <1>9, <1>10, <1>11 DEF Bind

(* The core takes an ask, and serves it. *)
LEMMA AskLifeCore ==
  ASSUME AskInv, LifeInv, ShimTypes', "askRejected" \notin May, NEW p \in Pods,
         CoreTakesAsk(p) \/ \E n \in Nodes : CoreAllocates(p, n)
  PROVE  LifeInv'
<1>0. ShimTypes /\ AskedFor(p) /\ LifeOf(p)
  BY DEF AskInv, LifeInv, LifeOf
<1>1. UNCHANGED <<kube, podNode, task, uuid, existing, asked, binding>>
  BY DEF CoreTakesAsk, CoreAllocates, CoreUnchanged, kubeVars, fsmVars, taskVars
<1>2. Asking(p) \/ p \in openAsks
  BY DEF CoreTakesAsk, CoreAllocates, Arrives, Asking
<1>3. /\ asked[p] = 1 /\ task[p] = "Scheduling" /\ ~Binds(p) /\ \A n \in Nodes : ~Told(p, n)
      /\ kube[p] \in {"pending", "gone"} /\ AppOf[p] \in coreApps
  BY <1>0, <1>2 DEF AskedFor, LifeOf, AskLife, TaskLife
<1>4. CrossKept
  BY <1>1 DEF CoreTakesAsk, Arrives, CoreAllocates, CrossKept
<1>5. Settled(p)
  BY <1>3 DEF Settled
<1>6. Binds(p)' = Binds(p)
  BY <1>1 DEF Binds
<1>7. CASE CoreTakesAsk(p)
  <2>1. /\ UNCHANGED <<eventChan, coreAlloc>> /\ openAsks' = openAsks \cup {p}
        /\ updates' = updates \ {[req |-> "ask", pod |-> p]}
    BY <1>3, <1>7 DEF CoreTakesAsk, Arrives
  <2>2. \A q \in Pods : NothingTold(q) /\ \A ev : Note(q, ev)' => Note(q, ev)
    BY <2>1 DEF NothingTold, Told, Note, Chan
  <2>3. ASSUME NEW q \in Pods, q # p
        PROVE  PodKept(q)
    BY <1>1, <2>1, <2>2, <2>3 DEF PodKept, Asking
  <2>4. ~Asking(p)'
    BY <2>1 DEF Asking
  <2>5. AskLife(p)'
    BY <1>0, <1>1, <1>3, <1>6, <2>1, <2>2, <2>4 DEF LifeOf, AskLife, NothingTold
  <2>6. TaskLife(p)'
    BY <1>0, <1>1, <1>3, <1>6, <2>1, <2>2 DEF LifeOf, TaskLife
  <2>7. BinderLife(p)'
    BY <1>1, <1>3 DEF BinderLife, Binds
  <2> QED
    BY <1>0, <1>4, <1>5, <2>3, <2>5, <2>6, <2>7, OnePod DEF LifeOf
<1>8. ASSUME NEW n \in Nodes, CoreAllocates(p, n)
      PROVE  LifeInv'
  <2>1. /\ UNCHANGED updates /\ openAsks' = openAsks \ {p} /\ p \in openAsks
        /\ coreAlloc' = [coreAlloc EXCEPT ![p] = n]
    BY <1>8 DEF CoreAllocates
  <2>2. Chan' \subseteq Chan \cup {AllocEv(p, n)}
    BY <1>0, <1>8, PodPosts, Grows
  <2>3. /\ \A q \in Pods : q # p => NothingTold(q)
        /\ \A m \in Nodes : Told(p, m)' => Told(p, m) \/ m = n
        /\ \A ev \in TaskNotes : Note(p, ev)' => Note(p, ev)
    BY <2>2, Distinct DEF NothingTold, Told, Note, TaskNotes
  <2>4. coreAlloc'[p] = n /\ \A q \in Pods : q # p => coreAlloc'[q] = coreAlloc[q]
    BY <1>0, <2>1 DEF ShimTypes
  <2>5. ASSUME NEW q \in Pods, q # p
        PROVE  PodKept(q)
    BY <1>1, <2>1, <2>3, <2>4, <2>5 DEF PodKept, Asking
  <2>6. ~Asking(p)'
    BY <1>0, <2>1 DEF LifeOf, AskLife, Asking
  <2>7. AskLife(p)'
    BY <1>0, <1>1, <1>3, <2>1, <2>3, <2>4, <2>6 DEF LifeOf, AskLife, TaskNotes
  <2>8. TaskLife(p)'
    BY <1>0, <1>1, <1>3, <1>6, <2>3 DEF LifeOf, TaskLife, TaskNotes
  <2>9. BinderLife(p)'
    BY <1>1, <1>3 DEF BinderLife, Binds
  <2> QED
    BY <1>0, <1>4, <1>5, <2>5, <2>7, <2>8, <2>9, OnePod DEF LifeOf
<1> QED
  BY <1>7, <1>8

(* A release takes back the allocation of a task that has ended. *)
LEMMA ReleasedLife ==
  ASSUME AskInv, LifeInv, ShimTypes', NEW r \in updates, CoreTakesRelease(r)
  PROVE  LifeInv'
<1>0. ShimTypes
  BY DEF AskInv
<1>1. PICK p \in Pods : /\ p = r.uuid /\ r.app = AppOf[p] /\ task[p] \in {"Completed", "Failed"}
                        /\ p # NoPod
  BY ShimAssumption DEF CoreTakesRelease, LifeInv, ReleaseLife
<1>2. /\ UNCHANGED <<kube, podNode, task, uuid, openAsks, existing, asked, binding, eventChan>>
      /\ updates' = updates \ {r}
      /\ \A q \in Pods : q # p => coreAlloc'[q] = coreAlloc[q]
  BY <1>1 DEF CoreTakesRelease, Arrives, CoreUnchanged, kubeVars, fsmVars, taskVars
<1>3. \A q \in Pods : NothingTold(q) /\ \A ev : Note(q, ev)' => Note(q, ev)
  BY <1>2 DEF NothingTold, Told, Note, Chan
<1>4. ASSUME NEW q \in Pods, q # p
      PROVE  PodKept(q)
  BY <1>2, <1>3, <1>4 DEF PodKept, Asking
<1>5. LifeOf(p) /\ Binds(p)' = Binds(p)
  BY <1>2 DEF LifeInv, LifeOf, Binds
<1>6. kube[p] # "bound" /\ ~Binds(p)
  BY <1>1, <1>5 DEF LifeOf, TaskLife
<1>7. AskLife(p)'
  BY <1>1, <1>2, <1>3, <1>5 DEF LifeOf, AskLife, Asking, NothingTold
<1>8. TaskLife(p)'
  BY <1>1, <1>2, <1>3, <1>5, <1>6 DEF LifeOf, TaskLife
<1>9. BinderLife(p)'
  BY <1>2, <1>6 DEF BinderLife, Binds
<1>10. CrossKept /\ Settled(p)
  BY <1>1, <1>2 DEF CrossKept, Settled
<1> QED
  BY <1>0, <1>4, <1>7, <1>8, <1>9, <1>10, OnePod DEF LifeOf

(* The pods on a recovered node have never been asked for. *)
LEMMA NodeTakenLife ==
  ASSUME AskInv, LifeInv, ShimTypes', NEW r \in updates, CoreTakesNode(r)
  PROVE  LifeInv'
<1>0. ShimTypes
  BY DEF AskInv
<1>1. /\ UNCHANGED <<kube, podNode, task, uuid, openAsks, existing, asked, binding>>
      /\ updates' = updates \ {r}
      /\ \A q \in Pods : q \notin r.existing => coreAlloc'[q] = coreAlloc[q]
  BY <1>0 DEF CoreTakesNode, Arrives, CoreUnchanged, kubeVars, fsmVars, taskVars, ShimTypes
<1>2. \A q \in Pods : NothingTold(q)
  <2>1. \/ Chan' \subseteq Chan \cup {NodeEv(r.node, "NodeAccepted")}
        \/ Chan' \subseteq Chan \cup {NodeEv(r.node, "NodeRejected")}
    BY <1>0, CorePosts, Grows
  <2> QED
    BY <2>1, Distinct DEF NothingTold, Told, Note
<1>3. ASSUME NEW q \in Pods
      PROVE  LifeOf(q)' /\ Settled(q)
  <2>1. LifeOf(q)
    BY DEF LifeInv, LifeOf
  <2>2. CASE q \notin r.existing
    <3>1. PodKept(q)
      BY <1>1, <1>2, <2>2 DEF PodKept, Asking
    <3> QED
      BY <2>1, <3>1, LifeOfKept
  <2>3. CASE q \in r.existing
    <3>1. asked[q] = 0
      BY <2>3 DEF CoreTakesNode, LifeInv, FoundLife, Found
    <3>2. Binds(q)' = Binds(q) /\ ~Binds(q)
      BY <1>1, <2>1, <3>1 DEF Binds, LifeOf, TaskLife
    <3>3. AskLife(q)'
      BY <1>1, <1>2, <2>1, <3>1 DEF LifeOf, AskLife, Asking, NothingTold, TaskNotes
    <3>4. TaskLife(q)'
      BY <1>1, <1>2, <2>1, <3>1, <3>2 DEF LifeOf, TaskLife, NothingTold, TaskNotes
    <3>5. BinderLife(q)'
      BY <1>1, <3>2 DEF BinderLife, Binds
    <3>6. Settled(q)
      BY <1>1 DEF Settled
    <3> QED
      BY <3>3, <3>4, <3>5, <3>6 DEF LifeOf
  <2> QED
    BY <2>2, <2>3
<1>4. CrossKept
  BY <1>1 DEF CrossKept
<1> QED
  BY <1>0, <1>3, <1>4, LifeKept

(* The users, and the handlers that show the shim what they did. *)
LEMMA PodLife ==
  ASSUME AskInv, LifeInv, ShimTypes', NEW p \in Pods,
         AddPod(p) \/ DeletePod(p) \/ CreatePod(p) \/ PodGone(p)
  PROVE  LifeInv'
<1>0. ShimTypes /\ AskedFor(p) /\ LifeOf(p)
  BY DEF AskInv, LifeInv, LifeOf
<1>1. UNCHANGED <<podNode, uuid, coreAlloc, openAsks, existing, asked, binding, updates>>
  BY DEF AddPod, DeletePod, HandlerUnchanged, CreatePod, PodGone, ClusterUnchanged,
         taskVars, coreState, kubeVars
<1>2. CrossKept /\ Binds(p)' = Binds(p) /\ \A q \in Pods : Asking(q)' = Asking(q)
  BY <1>1 DEF CrossKept, Binds, Asking
<1>3. CASE AddPod(p)
  <2>1. /\ kube' = kube /\ kube[p] \in {"pending", "bound"} /\ task[p] = "None" /\ asked[p] = 0
        /\ eventChan' = eventChan
    BY <1>0, <1>3 DEF AddPod, HandlerUnchanged, kubeVars, AskedFor
  <2>2. /\ task'[p] = IF kube[p] = "bound" THEN "Allocated" ELSE "Pending"
        /\ \A q \in Pods : q # p => task'[q] = task[q]
    BY <1>0, <1>3, <2>1 DEF AddPod, ShimTypes
  <2>3. \A q \in Pods : NothingTold(q) /\ \A ev : Note(q, ev)' => Note(q, ev)
    BY <2>1 DEF NothingTold, Told, Note, Chan
  <2>4. ASSUME NEW q \in Pods, q # p
        PROVE  PodKept(q)
    BY <1>1, <1>2, <2>1, <2>2, <2>3, <2>4 DEF PodKept
  <2>5. AskLife(p)'
    BY <1>0, <1>1, <1>2, <2>1, <2>2, <2>3 DEF LifeOf, AskLife, NothingTold
  <2>6. TaskLife(p)'
    BY <1>0, <1>1, <1>2, <2>1, <2>2, <2>3 DEF LifeOf, TaskLife
  <2>7. BinderLife(p)'
    BY <1>0, <1>1, <2>1 DEF LifeOf, BinderLife
  <2>8. Settled(p)
    BY <1>1, <2>1, <2>2 DEF Settled
  <2> QED
    BY <1>0, <1>2, <2>4, <2>5, <2>6, <2>7, <2>8, OnePod DEF LifeOf
<1>4. CASE DeletePod(p)
  <2>1. UNCHANGED <<kube, task>> /\ kube[p] = "gone"
    BY <1>4 DEF DeletePod, HandlerUnchanged, kubeVars
  <2>2. Chan' \subseteq Chan \cup {TaskEv(p, "CompleteTask")}
    BY <1>0, <1>4, PodPosts, Grows
  <2>3. /\ \A q \in Pods : q # p => NothingTold(q)
        /\ \A n \in Nodes : Told(p, n)' => Told(p, n)
        /\ \A ev \in TaskNotes \ {"CompleteTask"} : Note(p, ev)' => Note(p, ev)
    BY <2>2, Distinct DEF NothingTold, Told, Note, TaskNotes
  <2>4. ASSUME NEW q \in Pods, q # p
        PROVE  PodKept(q)
    BY <1>1, <1>2, <2>1, <2>3, <2>4 DEF PodKept
  <2>5. AskLife(p)'
    BY <1>0, <1>1, <1>2, <2>1, <2>3 DEF LifeOf, AskLife, TaskNotes
  <2>6. TaskLife(p)'
    BY <1>0, <1>1, <1>2, <2>1, <2>3 DEF LifeOf, TaskLife, TaskNotes
  <2>7. BinderLife(p)'
    BY <1>0, <1>1, <2>1 DEF LifeOf, BinderLife
  <2>8. Settled(p)
    BY <1>1, <2>1 DEF Settled
  <2> QED
    BY <1>0, <1>2, <2>4, <2>5, <2>6, <2>7, <2>8, OnePod DEF LifeOf
<1>5. CASE CreatePod(p) \/ PodGone(p)
  <2>1. UNCHANGED <<task, eventChan>>
    BY <1>5 DEF CreatePod, PodGone, ClusterUnchanged, fsmVars
  <2>2. /\ \/ kube[p] = "absent" /\ kube'[p] = "pending"
           \/ kube[p] \in {"pending", "bound"} /\ kube'[p] = "gone"
        /\ \A q \in Pods : q # p => kube'[q] = kube[q]
    BY <1>0, <1>5 DEF CreatePod, PodGone, ShimTypes
  <2>3. \A q \in Pods : NothingTold(q) /\ \A ev : Note(q, ev)' => Note(q, ev)
    BY <2>1 DEF NothingTold, Told, Note, Chan
  <2>4. ASSUME NEW q \in Pods, q # p
        PROVE  PodKept(q)
    BY <1>1, <1>2, <2>1, <2>2, <2>3, <2>4 DEF PodKept
  <2>5. AskLife(p)'
    BY <1>0, <1>1, <1>2, <2>1, <2>3 DEF LifeOf, AskLife, NothingTold
  <2>6. TaskLife(p)'
    BY <1>0, <1>1, <1>2, <2>1, <2>2, <2>3 DEF LifeOf, TaskLife
  <2>7. BinderLife(p)'
    BY <1>0, <1>1, <2>2 DEF LifeOf, BinderLife
  <2>8. Settled(p)
    BY <1>1, <2>1, <2>2 DEF Settled
  <2> QED
    BY <1>0, <1>2, <2>4, <2>5, <2>6, <2>7, <2>8, OnePod DEF LifeOf
<1> QED
  BY <1>3, <1>4, <1>5
-----------------------------------------------------------------------------
(* The phases of the shim and of its recovery. *)

(* A step that says nothing of the recovery or of an answer to a node. *)
NoNodeNews ==
  /\ SchedEv("RecoverSchedulerSucceed") \in Chan' => SchedEv("RecoverSchedulerSucceed") \in Chan
  /\ \A n \in Nodes, ev \in {"NodeAccepted", "NodeRejected"} :
       NodeEv(n, ev) \in Chan' => NodeEv(n, ev) \in Chan

(* The steps of the applications, the pods and the binders. *)
AppSteps ==
  \E a \in Apps : \/ SubmitApplication(a) \/ AcceptApplication(a) \/ RejectApplication(a)
                  \/ FailApplication(a) \/ CoreTakesApp(a)
                  \/ \E p \in Pods : RunApplication(a, p)
PodSteps ==
  \/ \E p \in Pods : \/ SubmitTask(p) \/ TaskBound(p) \/ TaskRejected(p) \/ TaskEnded(p)
                     \/ \E n \in Nodes : TaskAllocated(p, n) \/ CoreAllocates(p, n)
                     \/ CoreTakesAsk(p) \/ AddPod(p) \/ DeletePod(p) \/ MissDelete(p)
                     \/ CreatePod(p) \/ PodGone(p) \/ Schedule(p)
  \/ \E b \in binding : Bind(b) \/ ReportBound(b)
  \/ \E r \in updates : CoreTakesRelease(r)
  \/ ListPending \/ UNCHANGED shimVars

(* The steps of applications say nothing of recovery or nodes.             *)
LEMMA AppsNoNews ==
  ASSUME ShimTypes, AppSteps
  PROVE  NoNodeNews
<1>1. ASSUME NEW a \in Apps, SubmitApplication(a) \/ AcceptApplication(a) \/ FailApplication(a)
      PROVE  NoNodeNews
  <2>1. PICK x : Hands(x, {})
    BY <1>1, AppHands
  <2> QED
    BY <2>1 DEF Hands, NoNodeNews
<1>2. ASSUME NEW a \in Apps, RejectApplication(a)
      PROVE  NoNodeNews
  <2>1. Chan' \subseteq Chan \cup {AppEv(a, "FailApplication")}
    BY <1>2, AppHands, Grows
  <2> QED
    BY <2>1, Distinct DEF NoNodeNews
<1>3. ASSUME NEW a \in Apps, CoreTakesApp(a)
      PROVE  NoNodeNews
  <2>1. \/ Chan' \subseteq Chan \cup {AppEv(a, "AcceptApplication")}
        \/ Chan' \subseteq Chan \cup {AppEv(a, "RejectApplication")}
    BY <1>3, CorePosts, Grows
  <2> QED
    BY <2>1, Distinct DEF NoNodeNews
<1>4. ASSUME NEW a \in Apps, NEW p \in Pods, RunApplication(a, p)
      PROVE  NoNodeNews
  <2>1. Chan' \subseteq Chan \cup {TaskEv(p, "SubmitTask")}
    BY <1>4, AppHands, Grows
  <2> QED
    BY <2>1, Distinct DEF NoNodeNews
<1> QED
  BY <1>1, <1>2, <1>3, <1>4 DEF AppSteps

(* The steps of pods say nothing of recovery or nodes.                     *)
LEMMA PodsNoNews ==
  ASSUME ShimTypes, PodSteps
  PROVE  NoNodeNews
<1>1. ASSUME NEW p \in Pods, SubmitTask(p) \/ TaskBound(p) \/ TaskEnded(p) \/ \E n \in Nodes : TaskAllocated(p, n)
      PROVE  NoNodeNews
  <2>1. PICK x : Hands(x, {})
    BY <1>1, TaskHands
  <2> QED
    BY <2>1 DEF Hands, NoNodeNews
<1>2. ASSUME NEW p \in Pods, TaskRejected(p)
      PROVE  NoNodeNews
  <2>1. Chan' \subseteq Chan \cup {TaskEv(p, "TaskFail")}
    BY <1>2, TaskHands, Grows
  <2> QED
    BY <2>1, Distinct DEF NoNodeNews
<1>3. ASSUME NEW p \in Pods, NEW n \in Nodes, CoreAllocates(p, n)
      PROVE  NoNodeNews
  <2>1. Chan' \subseteq Chan \cup {AllocEv(p, n)}
    BY <1>3, PodPosts, Grows
  <2> QED
    BY <2>1, Distinct DEF NoNodeNews
<1>4. CASE UNCHANGED eventChan
  BY <1>4 DEF NoNodeNews, Chan
<1>5. ASSUME NEW p \in Pods, CoreTakesAsk(p)
      PROVE  NoNodeNews
  <2>1. UNCHANGED eventChan \/ Posts({TaskEv(p, "TaskRejected")})
    BY <1>5, PodPosts
  <2>2. CASE Posts({TaskEv(p, "TaskRejected")})
    BY <2>2, Distinct DEF Posts, NoNodeNews
  <2> QED
    BY <1>4, <2>1, <2>2
<1>6. ASSUME NEW p \in Pods, DeletePod(p)
      PROVE  NoNodeNews
  <2>1. Chan' \subseteq Chan \cup {TaskEv(p, "CompleteTask")}
    BY <1>6, PodPosts, Grows
  <2> QED
    BY <2>1, Distinct DEF NoNodeNews
<1>7. ASSUME NEW p \in Pods, Schedule(p)
      PROVE  NoNodeNews
  <2>1. \/ Posts({}) \/ Posts({AppEv(AppOf[p], "SubmitApplication")})
        \/ Posts({RunEv(AppOf[p], p)})
    BY <1>7, PodPosts
  <2>2. Chan' \subseteq Chan \cup {AppEv(AppOf[p], "SubmitApplication"), RunEv(AppOf[p], p)}
    BY <2>1 DEF Posts
  <2> QED
    BY <2>2, Distinct DEF NoNodeNews
<1>8. ASSUME NEW b \in binding, ReportBound(b)
      PROVE  NoNodeNews
  <2>1. Chan' \subseteq Chan \cup {TaskEv(b.pod, "TaskBound")}
    BY <1>8, BindPosts, Grows
  <2> QED
    BY <2>1, Distinct DEF NoNodeNews
<1>9. ASSUME NEW b \in binding, Bind(b)
      PROVE  NoNodeNews
  <2>1. CASE BindFails(b)
    <3>1. Chan' \subseteq Chan \cup {TaskEv(b.pod, "TaskFail")}
      BY <2>1, BindPosts, Grows
    <3> QED
      BY <3>1, Distinct DEF NoNodeNews
  <2>2. CASE BindSucceeds(b)
    BY <1>4, <2>2 DEF BindSucceeds
  <2> QED
    BY <1>9, <2>1, <2>2 DEF Bind
<1>10. ASSUME ListPending \/ UNCHANGED shimVars \/ (\E r \in updates : CoreTakesRelease(r))
                \/ \E p \in Pods : AddPod(p) \/ MissDelete(p) \/ CreatePod(p) \/ PodGone(p)
       PROVE  NoNodeNews
  BY <1>4, <1>10 DEF ListPending, shimVars, CoreTakesRelease, AddPod, MissDelete, CreatePod,
                     PodGone, ClusterUnchanged
<1> QED
  BY <1>1, <1>2, <1>3, <1>5, <1>6, <1>7, <1>8, <1>9, <1>10 DEF PodSteps

(* The steps of nodes give no answer.                                      *)
LEMMA NodesNoNews ==
  ASSUME ShimTypes, NEW n \in Nodes,
         RecoverNode(n) \/ NodeAnswered(n) \/ AddNode(n) \/ DeleteNode(n) \/ NodeChange(n)
  PROVE  NoNodeNews
<1>1. CASE RecoverNode(n) \/ NodeAnswered(n)
  <2>1. PICK x : Hands(x, {})
    BY <1>1, NodeHands
  <2> QED
    BY <2>1 DEF Hands, NoNodeNews
<1>2. CASE AddNode(n)
  <2>1. Chan' \subseteq Chan \cup {NodeEv(n, "RecoverNode")}
    BY <1>2, NodeHands, Grows
  <2> QED
    BY <2>1, Distinct DEF NoNodeNews
<1>3. CASE DeleteNode(n) \/ NodeChange(n)
  BY <1>3 DEF DeleteNode, NodeChange, ClusterUnchanged, Chan, NoNodeNews
<1> QED
  BY <1>1, <1>2, <1>3

(* Every step is of one of the kinds the invariants are proved for. *)
LEMMA Kinds ==
  ASSUME [ShimNext]_shimVars
  PROVE  \/ OwnSteps \/ RecoverNodes \/ Restart \/ AppSteps \/ PodSteps
         \/ \E n \in Nodes : \/ RecoverNode(n) \/ NodeAnswered(n)
                             \/ AddNode(n) \/ DeleteNode(n) \/ NodeChange(n)
         \/ \E r \in updates : CoreTakesNode(r)
<1>1. DispatchStep => \/ OwnSteps \/ AppSteps \/ PodSteps
                      \/ \E n \in Nodes : RecoverNode(n) \/ NodeAnswered(n)
  BY ShimAssumption DEF DispatchStep, OwnSteps, AppSteps, PodSteps
<1>2. CoreStep => AppSteps \/ PodSteps \/ \E r \in updates : CoreTakesNode(r)
  BY DEF CoreStep, AppSteps, PodSteps
<1>3. RecoveryStep \/ RecoveryTimeout => OwnSteps \/ RecoverNodes
  BY DEF RecoveryStep, OwnSteps
<1> QED
  BY <1>1, <1>2, <1>3 DEF ShimNext, PodSteps, Handlers

(* Every step keeps the phases in agreement.                               *)
LEMMA PhaseKept ==
  ASSUME ShimTypes, PhaseInv, [ShimNext]_shimVars
  PROVE  PhaseInv'
<1> USE DEF kubeVars, recVars, fsmVars, taskVars, seenVars, coreState
<1>1. ASSUME NoNodeNews, UNCHANGED <<sched, rec>>
      PROVE  PhaseInv'
  BY <1>1 DEF PhaseInv, NoNodeNews
<1>2. CASE AppSteps
  BY <1>1, <1>2, AppsNoNews
     DEF AppSteps, SubmitApplication, AcceptApplication, RejectApplication, FailApplication,
         RunApplication, AppStep, AppUnchanged, CoreTakesApp, CoreUnchanged
<1>3. CASE PodSteps
  <2>1. UNCHANGED <<sched, rec>>
    BY <1>3 DEF PodSteps, SubmitTask, TaskBound, TaskRejected, TaskEnded, TaskAllocated, TaskStep,
         CoreAllocates, CoreTakesAsk, CoreTakesRelease, CoreUnchanged, AddPod, DeletePod, MissDelete,
         HandlerUnchanged, CreatePod, PodGone, ClusterUnchanged, Schedule, ListPending,
         TimerUnchanged, Bind, ReportBound, BindUnchanged, shimVars
  <2> QED
    BY <1>1, <1>3, <2>1, PodsNoNews
<1>4. ASSUME NEW n \in Nodes,
             RecoverNode(n) \/ NodeAnswered(n) \/ AddNode(n) \/ DeleteNode(n) \/ NodeChange(n)
      PROVE  PhaseInv'
  <2>1. UNCHANGED <<sched, rec>>
    BY <1>4 DEF RecoverNode, NodeAnswered, NodeStep, AddNode, DeleteNode, HandlerUnchanged,
                NodeChange, ClusterUnchanged
  <2> QED
    BY <1>1, <1>4, <2>1, NodesNoNews
<1>5. ASSUME NEW r \in updates, CoreTakesNode(r)
      PROVE  PhaseInv'
  <2>1. UNCHANGED <<sched, rec>>
    BY <1>5 DEF CoreTakesNode, CoreUnchanged
  <2>2. \/ Chan' \subseteq Chan \cup {NodeEv(r.node, "NodeAccepted")}
        \/ Chan' \subseteq Chan \cup {NodeEv(r.node, "NodeRejected")}
    BY <1>5, CorePosts, Grows
  <2>3. SchedEv("RecoverSchedulerSucceed") \in Chan' => SchedEv("RecoverSchedulerSucceed") \in Chan
    BY <2>2, Distinct
  <2> QED
    BY <2>1, <2>3 DEF PhaseInv
<1>6. CASE Restart
  <2>1. eventChan' = <<SchedEv("RegisterScheduler")>> /\ sched' = "New" /\ rec' = "off"
    BY <1>6 DEF Restart
  <2>2. Chan' = {SchedEv("RegisterScheduler")}
    BY <2>1, InShort, Events DEF Chan
  <2> QED
    BY <2>1, <2>2, Distinct DEF PhaseInv
<1>7. CASE RecoverNodes
  BY <1>7 DEF RecoverNodes, RecoverUnchanged, PhaseInv, Chan
<1>8. CASE OwnSteps
  <2>1. CASE RefuseEvent
    <3>1. PICK e : Hands(e, {})
      BY <2>1, RefuseHands
    <3> QED
      BY <2>1, <3>1 DEF Hands, RefuseEvent, PhaseInv
  <2>2. CASE RegisterScheduler \/ RegisterSchedulerSucceed \/ RegisterSchedulerFailed
    <3>1. \E e : \/ Hands(e, {}) \/ Hands(e, {SchedEv("RecoverScheduler")})
                 \/ Hands(e, {SchedEv("RegisterSchedulerSucceed")})
                 \/ Hands(e, {SchedEv("RegisterSchedulerFailed")})
      BY <2>2, SchedHands
    <3>2. SchedEv("RecoverSchedulerSucceed") \in Chan' => SchedEv("RecoverSchedulerSucceed") \in Chan
      BY <3>1, Distinct DEF Hands
    <3>3. /\ rec' = rec /\ sched \in {"New", "Registering"}
          /\ sched' \in {"Registering", "Registered", "Stopped"}
      BY <2>2, Accepted DEF RegisterScheduler, RegisterSchedulerSucceed, RegisterSchedulerFailed,
                            SchedStep, SchedMachine
    <3> QED
      BY <3>2, <3>3 DEF PhaseInv
  <2>3. CASE RecoverScheduler
    <3>1. Chan' \subseteq Chan \cup {}
      BY <2>3, SchedHands, Grows
    <3>2. sched = "Registered" /\ sched' = "Recovering"
      BY <2>3, Accepted DEF RecoverScheduler, SchedStep, SchedMachine
    <3> QED
      BY <3>1, <3>2 DEF PhaseInv
  <2>4. CASE RecoverSchedulerSucceed
    <3>1. Chan' \subseteq Chan \cup {} /\ SchedEv("RecoverSchedulerSucceed") \in Chan
      BY <2>4, SchedHands, Grows
    <3>2. sched' = "Running" /\ rec' = rec
      BY <2>4 DEF RecoverSchedulerSucceed, SchedStep, SchedMachine
    <3> QED
      BY <3>1, <3>2 DEF PhaseInv
  <2>5. CASE RecoverApps \/ PollNodes
    <3>1. PICK E : /\ Posts(E)
                   /\ E \subseteq AppEvents("RecoverApplication") \/ E \subseteq NodeEvents("RecoverNode")
      BY <2>5, SchedHands
    <3>2. SchedEv("RecoverSchedulerSucceed") \in Chan' => SchedEv("RecoverSchedulerSucceed") \in Chan
      BY <3>1, Distinct DEF Posts, AppEvents, NodeEvents
    <3>3. sched' = sched /\ (RecoverApps => rec = "listApps") /\ (PollNodes => rec' = rec)
      BY <2>5 DEF RecoverApps, PollNodes, RecoverUnchanged
    <3> QED
      BY <2>5, <3>2, <3>3 DEF PhaseInv
  <2>6. CASE AppsRecovered
    BY <2>6 DEF AppsRecovered, RecoverUnchanged, PhaseInv, Chan
  <2>7. CASE NodesRecovered
    BY <2>7 DEF NodesRecovered, RecoverUnchanged, PhaseInv
  <2>8. CASE RecoveryTimeout
    BY <2>8 DEF RecoveryTimeout, PhaseInv, Chan
  <2> QED
    BY <1>8, <2>1, <2>2, <2>3, <2>4, <2>5, <2>6, <2>7, <2>8 DEF OwnSteps
<1> QED
  BY <1>2, <1>3, <1>4, <1>5, <1>6, <1>7, <1>8, Kinds

(* Before the shim schedules there are no tasks. *)
LEMMA NoTasksYet ==
  ASSUME AskInv, sched \notin {"Running", "Exited"}, NEW p \in Pods
  PROVE  task[p] = "None" /\ asked[p] = 0
BY DEF AskInv, AskedFor

(* The pods on the nodes are listed while there are no tasks. *)
LEMMA ListedLife ==
  ASSUME AskInv, PhaseInv, LifeInv, ShimTypes', RecoverNodes
  PROVE  LifeInv'
<1>0. ShimTypes
  BY DEF AskInv
<1>1. sched \notin {"Running", "Exited"}
  BY DEF RecoverNodes, PhaseInv
<1>2. UNCHANGED <<kube, podNode, task, uuid, coreAlloc, asked, openAsks, binding, updates, eventChan>>
  BY DEF RecoverNodes, RecoverUnchanged, kubeVars, taskVars, coreState
<1>3. \A p \in Pods : LifeOf(p)
  BY DEF LifeInv, LifeOf
<1>4. ASSUME NEW p \in Pods
      PROVE  LifeOf(p)'
  <2>1. PodKept(p)
    BY <1>2 DEF PodKept, NothingTold, Told, Note, Asking, Chan
  <2> QED
    BY <1>3, <2>1, LifeOfKept
<1>5. ReleaseLife'
  BY <1>2 DEF LifeInv, ReleaseLife
<1>6. ASSUME NEW n \in Nodes, NEW p \in existing'[n]
      PROVE  /\ asked[p] = 0 /\ kube[p] \in {"bound", "gone"} /\ podNode[p] = n
             /\ task[p] \in {"None", "Allocated"}
  <2>1. p \in Pods /\ kube[p] = "bound" /\ podNode[p] = n
    BY <1>6 DEF RecoverNodes, BoundPods
  <2> QED
    BY <1>1, <2>1, NoTasksYet
<1>7. FoundLife'
  <2>1. \A n \in Nodes : Found(existing[n], n)'
    BY <1>2, <1>6 DEF Found
  <2>2. \A r \in updates' : r.req = "node" => Found(r.existing, r.node)'
    BY <1>2 DEF LifeInv, FoundLife, Found
  <2> QED
    BY <2>1, <2>2 DEF FoundLife
<1> QED
  BY <1>4, <1>5, <1>7 DEF LifeInv, LifeOf

(* A restart begins with no task, ask or allocation.                       *)
LEMMA StartLife ==
  ASSUME LifeInv, ShimTypes', Restart
  PROVE  LifeInv'
<1>1. Chan' = {SchedEv("RegisterScheduler")}
  BY InShort, Events DEF Chan, Restart
<1>2. \A p \in Pods : (\A n : ~Told(p, n)') /\ \A ev : ~Note(p, ev)'
  BY <1>1, Distinct DEF Told, Note
<1>3. /\ UNCHANGED <<kube, podNode>> /\ updates' = {} /\ openAsks' = {} /\ binding' = {}
      /\ existing' = [n \in Nodes |-> {}] /\ task' = [p \in Pods |-> "None"]
      /\ asked' = [p \in Pods |-> 0]
  BY DEF Restart, kubeVars
<1>4. \A p \in Pods : kube[p] = "bound" => podNode[p] \in Nodes
  BY DEF LifeInv, TaskLife
<1>5. ASSUME NEW p \in Pods
      PROVE  LifeOf(p)'
  <2>1. ~Binds(p)' /\ ~Asking(p)'
    BY <1>3 DEF Binds, Asking
  <2>2. AskLife(p)'
    BY <1>2, <1>3, <2>1 DEF AskLife
  <2>3. TaskLife(p)'
    BY <1>2, <1>3, <1>4, <2>1 DEF TaskLife
  <2>4. BinderLife(p)'
    BY <1>3 DEF BinderLife
  <2> QED
    BY <2>2, <2>3, <2>4 DEF LifeOf
<1>6. ReleaseLife' /\ FoundLife'
  BY <1>3 DEF ReleaseLife, FoundLife, Found
<1> QED
  BY <1>5, <1>6 DEF LifeInv, LifeOf

(* At the start there is no task, ask or allocation.                       *)
LEMMA LifeInit == ShimInit => LifeInv /\ PhaseInv
<1> SUFFICES ASSUME ShimInit PROVE LifeInv /\ PhaseInv
  OBVIOUS
<1>1. Chan = {SchedEv("RegisterScheduler")}
  BY InShort, Events DEF Chan, ShimInit, ProcessStart
<1>2. \A p \in Pods : (\A n : ~Told(p, n)) /\ \A ev : ~Note(p, ev)
  BY <1>1, Distinct DEF Told, Note
<1>3. /\ updates = {} /\ openAsks = {} /\ binding = {}
      /\ existing = [n \in Nodes |-> {}] /\ task = [p \in Pods |-> "None"]
      /\ asked = [p \in Pods |-> 0]
  BY DEF ShimInit, ProcessStart
<1>4. \A p \in Pods : kube[p] = "bound" => podNode[p] \in Nodes
  BY DEF ShimInit
<1>5. ASSUME NEW p \in Pods
      PROVE  LifeOf(p)
  <2>1. ~Binds(p) /\ ~Asking(p)
    BY <1>3 DEF Binds, Asking
  <2>2. AskLife(p)
    BY <1>2, <1>3, <2>1 DEF AskLife
  <2>3. TaskLife(p)
    BY <1>2, <1>3, <1>4, <2>1 DEF TaskLife
  <2>4. BinderLife(p)
    BY <1>3 DEF BinderLife
  <2> QED
    BY <2>2, <2>3, <2>4 DEF LifeOf
<1>6. ReleaseLife /\ FoundLife
  BY <1>3 DEF ReleaseLife, FoundLife, Found
<1>7. PhaseInv
  BY <1>1, Distinct DEF ShimInit, ProcessStart, PhaseInv
<1> QED
  BY <1>5, <1>6, <1>7 DEF LifeInv, LifeOf

(* Every step keeps the lives of the pods.                                 *)
LEMMA LifeInvKept ==
  ASSUME AskInv, PhaseInv, LifeInv, [ShimNext]_shimVars, "askRejected" \notin May
  PROVE  LifeInv'
<1>0. ShimTypes /\ ShimTypes'
  BY ShimTypesKept DEF AskInv
<1>1. CASE OwnSteps
  BY <1>0, <1>1, OwnQuiet, QuietLife
<1>2. CASE AppSteps
  BY <1>0, <1>2, AppsQuiet, QuietLife DEF AppSteps
<1>3. CASE \E n \in Nodes : \/ RecoverNode(n) \/ NodeAnswered(n)
                            \/ AddNode(n) \/ DeleteNode(n) \/ NodeChange(n)
  BY <1>0, <1>3, NodesQuiet, QuietLife
<1>4. ASSUME NEW p \in Pods, TaskRejected(p)
      PROVE  FALSE
  <2>1. Note(p, "TaskRejected")
    BY <1>0, <1>4, TaskHands, Grows DEF Note
  <2> QED
    BY <2>1 DEF LifeInv, AskLife
<1>5. CASE PodSteps
  <2>1. CASE ListPending \/ UNCHANGED shimVars \/ \E p \in Pods : Schedule(p) \/ MissDelete(p)
    BY <1>0, <2>1, TimerQuiet, QuietLife
  <2>2. CASE \E p \in Pods : SubmitTask(p) \/ TaskBound(p) \/ TaskEnded(p) \/ \E n \in Nodes : TaskAllocated(p, n)
    BY <1>0, <2>2, SubmitLife, BoundLife, EndedLife, AllocatedLife
  <2>3. CASE \E p \in Pods : CoreTakesAsk(p) \/ \E n \in Nodes : CoreAllocates(p, n)
    BY <1>0, <2>3, AskLifeCore
  <2>4. CASE \E p \in Pods : AddPod(p) \/ DeletePod(p) \/ CreatePod(p) \/ PodGone(p)
    BY <1>0, <2>4, PodLife
  <2>5. CASE \/ \E b \in binding : Bind(b) \/ ReportBound(b)
             \/ \E r \in updates : CoreTakesRelease(r)
    BY <1>0, <2>5, BindLife, ReleasedLife
  <2> QED
    BY <1>4, <1>5, <2>1, <2>2, <2>3, <2>4, <2>5 DEF PodSteps
<1>6. CASE \E r \in updates : CoreTakesNode(r)
  BY <1>0, <1>6, NodeTakenLife
<1>7. CASE RecoverNodes
  BY <1>0, <1>7, ListedLife
<1>8. CASE Restart
  BY <1>0, <1>8, StartLife
<1> QED
  BY <1>1, <1>2, <1>3, <1>5, <1>6, <1>7, <1>8, Kinds

(* As long as the core rejects no ask of an application it knows, a pod's  *)
(* ask, allocation, binder and task agree.                                 *)
THEOREM LifeInvariant ==
  ASSUME "askRejected" \notin May
  PROVE  ShimSpec => [](AskInv /\ PhaseInv /\ LifeInv)
<1>1. ShimInit => AskInv /\ PhaseInv /\ LifeInv
  BY AskInvInit, LifeInit
<1>2. AskInv /\ PhaseInv /\ LifeInv /\ [ShimNext]_shimVars => (AskInv /\ PhaseInv /\ LifeInv)'
  <2> SUFFICES ASSUME AskInv, PhaseInv, LifeInv, [ShimNext]_shimVars
               PROVE  AskInv' /\ PhaseInv' /\ LifeInv'
    OBVIOUS
  <2>1. ShimTypes
    BY DEF AskInv
  <2> QED
    BY <2>1, AskInvKept, PhaseKept, LifeInvKept
<1> QED
  BY <1>1, <1>2, PTL DEF ShimSpec

(* A release names the allocation of the task that ended, never the whole  *)
(* application: by the time a task ends, its binder has kept the uuid      *)
(* (releaseAllocation).                                                    *)
THEOREM ReleasesAreNamed ==
  ASSUME "askRejected" \notin May
  PROVE  ShimSpec => []ReleasesNameOne
<1>1. LifeInv => ReleasesNameOne
  BY ShimAssumption DEF LifeInv, ReleaseLife, ReleasesNameOne
<1> QED
  BY <1>1, LifeInvariant, PTL
-----------------------------------------------------------------------------
(* Recovery: what is found on the nodes is accounted for. *)

(* The nodes stay the same, and the store of nodes is read as it is: it is *)
(* never empty and never only partly filled.                               *)
NodesSteady ==
  /\ "nodesChange" \notin May
  /\ "coldStore" \in May => \A m, n \in Nodes : m = n

(* What most steps leave of the nodes and of the pods found on them. *)
NodesKept ==
  /\ UNCHANGED <<kubeNodes, node, existing, coreNodes, rec, sched>> /\ NoNodeNews
  /\ \A r \in updates' : r.req = "node" => r \in updates
  /\ \A p \in Pods : kube'[p] = "bound" /\ asked'[p] = 0 =>
       kube[p] = "bound" /\ asked[p] = 0 /\ podNode'[p] = podNode[p]
  /\ \A n \in Nodes : \A p \in existing[n] : kube'[p] = "bound" =>
       kube[p] = "bound" /\ coreAlloc'[p] = coreAlloc[p]

(* A step that leaves nodes and found pods alone keeps the recovery.       *)
LEMMA RecoveryKept ==
  ASSUME RecoveryInv, NodesKept
  PROVE  RecoveryInv'
<1>1. ASSUME NEW n \in Nodes
      PROVE  NodeLife(n)'
  <2>1. NodeLife(n)
    BY DEF RecoveryInv
  <2> QED
    BY <2>1 DEF NodesKept, NodeLife, NoNodeNews
<1>2. Complete => Complete'
  BY DEF NodesKept, Complete
<1> QED
  BY <1>1, <1>2 DEF RecoveryInv, NodesKept

(* Pods are bound and unbound, and their allocations change, only once     *)
(* they have been asked for.                                               *)
LEMMA PodsLeave ==
  ASSUME AskInv, LifeInv, PodSteps, NEW p \in Pods
  PROVE  /\ asked'[p] = 0 => asked[p] = 0
         /\ asked[p] = 0 => /\ kube'[p] = "bound" => kube[p] = "bound"
                            /\ podNode'[p] = podNode[p] /\ coreAlloc'[p] = coreAlloc[p]
<1> USE DEF kubeVars, recVars, fsmVars, taskVars, seenVars, coreState
<1>0. ShimTypes /\ LifeOf(p)
  BY DEF AskInv, LifeInv, LifeOf
<1>2. CASE UNCHANGED <<kube, podNode, coreAlloc, asked>>
  BY <1>2
<1>3. ASSUME NEW q \in Pods, SubmitTask(q)
      PROVE  /\ asked'[p] = 0 => asked[p] = 0
             /\ UNCHANGED <<kube, podNode, coreAlloc>>
  <2>1. asked'[p] \in {asked[p], asked[p] + 1} /\ asked[p] \in Nat
    BY <1>0, <1>3 DEF SubmitTask, ShimTypes
  <2> QED
    BY <1>3, <2>1 DEF SubmitTask, TaskStep
<1>4. ASSUME NEW q \in Pods, NEW n \in Nodes, CoreAllocates(q, n)
      PROVE  /\ UNCHANGED <<kube, podNode, asked>>
             /\ asked[p] = 0 => coreAlloc'[p] = coreAlloc[p]
  <2>1. asked[q] = 1
    BY <1>4 DEF CoreAllocates, LifeInv, AskLife
  <2> QED
    BY <1>0, <1>4, <2>1 DEF CoreAllocates, CoreUnchanged, ShimTypes
<1>5. ASSUME NEW q \in Pods, CreatePod(q) \/ PodGone(q)
      PROVE  /\ UNCHANGED <<podNode, coreAlloc, asked>>
             /\ kube'[p] = "bound" => kube[p] = "bound"
  BY <1>0, <1>5 DEF CreatePod, PodGone, ClusterUnchanged, ShimTypes
<1>6. ASSUME NEW b \in binding, Bind(b)
      PROVE  /\ UNCHANGED <<coreAlloc, asked>>
             /\ asked[p] = 0 => kube'[p] = kube[p] /\ podNode'[p] = podNode[p]
  <2>1. b.pod \in Pods /\ Binds(b.pod)
    BY <1>0, BindPosts DEF Binds
  <2>2. asked[b.pod] = 1
    BY <2>1 DEF LifeInv, TaskLife
  <2> QED
    BY <1>0, <1>6, <2>1, <2>2 DEF Bind, BindSucceeds, BindFails, BindUnchanged, ShimTypes
<1>7. ASSUME NEW r \in updates, CoreTakesRelease(r)
      PROVE  /\ UNCHANGED <<kube, podNode, asked>>
             /\ asked[p] = 0 => coreAlloc'[p] = coreAlloc[p]
  <2>1. r.uuid \in Pods /\ r.uuid # NoPod /\ task[r.uuid] \in {"Completed", "Failed"}
    BY <1>7, ShimAssumption DEF CoreTakesRelease, LifeInv, ReleaseLife
  <2>2. asked[r.uuid] = 1
    BY <2>1 DEF LifeInv, TaskLife
  <2> QED
    BY <1>7, <2>1, <2>2 DEF CoreTakesRelease, CoreUnchanged
<1>8. ASSUME NEW q \in Pods,
             \/ TaskBound(q) \/ TaskRejected(q) \/ TaskEnded(q) \/ CoreTakesAsk(q)
             \/ AddPod(q) \/ DeletePod(q) \/ MissDelete(q) \/ Schedule(q)
             \/ \E n \in Nodes : TaskAllocated(q, n)
      PROVE  UNCHANGED <<kube, podNode, coreAlloc, asked>>
  BY <1>8 DEF TaskBound, TaskRejected, TaskEnded, TaskAllocated, TaskStep, CoreTakesAsk,
         CoreUnchanged, AddPod, DeletePod, MissDelete, HandlerUnchanged, Schedule, TimerUnchanged
<1>9. ASSUME NEW b \in binding, ReportBound(b)
      PROVE  UNCHANGED <<kube, podNode, coreAlloc, asked>>
  BY <1>9 DEF ReportBound, BindUnchanged
<1>10. ASSUME ListPending \/ UNCHANGED shimVars
       PROVE  UNCHANGED <<kube, podNode, coreAlloc, asked>>
  BY <1>10 DEF ListPending, TimerUnchanged, shimVars
<1> QED
  BY <1>2, <1>3, <1>4, <1>5, <1>6, <1>7, <1>8, <1>9, <1>10 DEF PodSteps

(* A pod found on a node has not been asked for. *)
LEMMA FoundNotAsked ==
  ASSUME LifeInv, NEW n \in Nodes, NEW p \in existing[n]
  PROVE  asked[p] = 0 /\ podNode[p] = n
BY DEF LifeInv, FoundLife, Found

(* The steps of pods leave what was found alone.                           *)
LEMMA PodsRecovery ==
  ASSUME AskInv, LifeInv, RecoveryInv, PodSteps
  PROVE  RecoveryInv'
<1> USE DEF kubeVars, recVars, fsmVars, taskVars, seenVars, coreState
<1>0. ShimTypes
  BY DEF AskInv
<1>1. UNCHANGED <<kubeNodes, node, existing, coreNodes, rec, sched>>
  BY DEF PodSteps, SubmitTask, TaskBound, TaskRejected, TaskEnded, TaskAllocated, TaskStep,
         CoreAllocates, CoreTakesAsk, CoreTakesRelease, CoreUnchanged, AddPod, DeletePod, MissDelete,
         HandlerUnchanged, CreatePod, PodGone, ClusterUnchanged, Schedule, ListPending,
         TimerUnchanged, Bind, ReportBound, BindUnchanged, shimVars
<1>2. NoNodeNews
  BY <1>0, PodsNoNews
<1>3. \A r \in updates' : r.req = "node" => r \in updates
  <2>1. ASSUME NEW p \in Pods, SubmitTask(p)
        PROVE  \A r \in updates' : r.req = "node" => r \in updates
    BY <2>1 DEF SubmitTask
  <2>2. ASSUME NEW p \in Pods, TaskEnded(p)
        PROVE  \A r \in updates' : r.req = "node" => r \in updates
    <3>1. ReleaseOf(p).req = "release"
      BY DEF ReleaseOf
    <3> QED
      BY <2>2, <3>1 DEF TaskEnded
  <2>3. ASSUME NEW p \in Pods,
               \/ TaskBound(p) \/ TaskRejected(p) \/ CoreTakesAsk(p) \/ AddPod(p) \/ DeletePod(p)
               \/ MissDelete(p) \/ CreatePod(p) \/ PodGone(p) \/ Schedule(p)
               \/ \E n \in Nodes : TaskAllocated(p, n) \/ CoreAllocates(p, n)
        PROVE  updates' \subseteq updates
    BY <2>3 DEF TaskBound, TaskRejected, TaskAllocated, CoreTakesAsk, Arrives, CoreAllocates, AddPod,
         DeletePod, MissDelete, HandlerUnchanged, CreatePod, PodGone, ClusterUnchanged, Schedule,
         TimerUnchanged
  <2>4. ASSUME \/ \E b \in binding : Bind(b) \/ ReportBound(b)
               \/ \E r \in updates : CoreTakesRelease(r)
               \/ ListPending \/ UNCHANGED shimVars
        PROVE  updates' \subseteq updates
    BY <2>4 DEF Bind, ReportBound, BindUnchanged, CoreTakesRelease, Arrives, ListPending,
                TimerUnchanged, shimVars
  <2> QED
    BY <2>1, <2>2, <2>3, <2>4 DEF PodSteps
<1>4. \A p \in Pods : /\ asked'[p] = 0 => asked[p] = 0
                      /\ asked[p] = 0 => /\ kube'[p] = "bound" => kube[p] = "bound"
                                         /\ podNode'[p] = podNode[p] /\ coreAlloc'[p] = coreAlloc[p]
  BY PodsLeave
<1>5. ASSUME NEW n \in Nodes, NEW p \in existing[n]
      PROVE  p \in Pods /\ asked[p] = 0
  BY <1>0, FoundNotAsked DEF ShimTypes
<1>6. NodesKept
  BY <1>1, <1>2, <1>3, <1>4, <1>5 DEF NodesKept
<1> QED
  BY <1>6, RecoveryKept

(* The steps of applications leave what was found alone.                   *)
LEMMA AppsRecovery ==
  ASSUME AskInv, RecoveryInv, AppSteps
  PROVE  RecoveryInv'
<1> USE DEF kubeVars, recVars, fsmVars, taskVars, seenVars, coreState
<1>1. UNCHANGED <<kube, podNode, kubeNodes, node, existing, coreNodes, coreAlloc, asked, rec, sched>>
  BY DEF AppSteps, SubmitApplication, AcceptApplication, RejectApplication, FailApplication,
         RunApplication, AppStep, AppUnchanged, CoreTakesApp, CoreUnchanged
<1>2. \A r \in updates' : r.req = "node" => r \in updates
  <2>1. PICK a \in Apps : updates' \subseteq updates \cup {[req |-> "app", app |-> a]}
    BY DEF AppSteps, SubmitApplication, AcceptApplication, RejectApplication, FailApplication,
           RunApplication, CoreTakesApp, Arrives
  <2> QED
    BY <2>1
<1>3. NoNodeNews
  BY AppsNoNews DEF AskInv
<1> QED
  BY <1>1, <1>2, <1>3, RecoveryKept DEF NodesKept

(* A node asks to be recovered, and gets its answer. *)
LEMMA NodesRecovery ==
  ASSUME AskInv, PhaseInv, RecoveryInv, NodesSteady, NEW n \in Nodes,
         RecoverNode(n) \/ NodeAnswered(n) \/ AddNode(n) \/ DeleteNode(n) \/ NodeChange(n)
  PROVE  RecoveryInv'
<1> USE DEF kubeVars, recVars, fsmVars, taskVars, seenVars, coreState
<1>0. ShimTypes /\ NoNodeNews /\ \A m \in Nodes : NodeLife(m)
  BY NodesNoNews DEF AskInv, RecoveryInv
<1>1. UNCHANGED <<kube, podNode, kubeNodes, existing, coreNodes, coreAlloc, asked, rec, sched>>
  BY DEF RecoverNode, NodeAnswered, NodeStep, AddNode, DeleteNode, HandlerUnchanged, NodeChange,
         NodesSteady
<1>2. CASE AddNode(n) \/ DeleteNode(n)
  <2>1. node' = node
    <3>1. CASE AddNode(n)
      <4>1. node[n] = "Healthy"
        BY <3>1 DEF AddNode, PhaseInv, RecoveryInv
      <4> QED
        BY <1>0, <3>1, <4>1 DEF AddNode, ShimTypes
    <3> QED
      BY <1>2, <3>1 DEF DeleteNode
  <2>2. updates' = updates
    BY <1>2 DEF AddNode, DeleteNode, HandlerUnchanged
  <2> QED
    BY <1>0, <1>1, <2>1, <2>2, RecoveryKept DEF NodesKept
<1>3. Complete' = Complete
  BY <1>1 DEF Complete
<1>4. ASSUME NEW m \in Nodes, node'[m] = node[m], \A r \in updates' : r.req = "node" /\ r.node = m => r \in updates
      PROVE  NodeLife(m)'
  <2>1. NodeLife(m)
    BY <1>0
  <2> QED
    BY <1>0, <1>1, <1>4, <2>1 DEF NodeLife, NoNodeNews
<1>5. CASE RecoverNode(n)
  <2>1. /\ node[n] = "New" /\ node'[n] = "Recovering"
        /\ \A m \in Nodes : m # n => node'[m] = node[m]
    <3>1. node[n] \in NodeMachine["RecoverNode"].src
      BY <1>5, Accepted DEF RecoverNode, NodeStep
    <3> QED
      BY <1>0, <1>5, <3>1 DEF RecoverNode, NodeStep, ShimTypes, NodeMachine
  <2>2. updates' = updates \cup {[req |-> "node", node |-> n, existing |-> existing[n]]}
    BY <1>5 DEF RecoverNode
  <2>3. NodeLife(n)'
    <3>1. NodeLife(n)
      BY <1>0
    <3>2. /\ n \notin coreNodes /\ NodeEv(n, "NodeAccepted") \notin Chan
          /\ NodeEv(n, "NodeRejected") \notin Chan
      BY <2>1, <3>1 DEF NodeLife
    <3>3. NodeEv(n, "NodeAccepted") \notin Chan' /\ NodeEv(n, "NodeRejected") \notin Chan'
      BY <1>0, <3>2 DEF NoNodeNews
    <3>4. \A r \in updates' : r.req = "node" /\ r.node = n => r.existing = existing[n]
      BY <2>2, <3>1 DEF NodeLife
    <3> QED
      BY <1>1, <2>1, <3>1, <3>2, <3>3, <3>4 DEF NodeLife
  <2>4. ASSUME NEW m \in Nodes, m # n
        PROVE  NodeLife(m)'
    BY <1>4, <2>1, <2>2, <2>4
  <2>5. \A m \in Nodes : node'[m] # "None" \/ node[m] = "None"
    BY <2>1
  <2>6. rec # "done"
    BY <2>1 DEF RecoveryInv
  <2> QED
    BY <1>1, <1>3, <2>3, <2>4, <2>5, <2>6 DEF RecoveryInv
<1>6. CASE NodeAnswered(n)
  <2>1. PICK ev \in {"NodeAccepted", "NodeRejected"} : NodeStep(n, ev)
    BY <1>6 DEF NodeAnswered
  <2>2. NodeEv(n, ev) \in Chan
    BY <1>0, <2>1, HandledOne, Grows DEF NodeStep
  <2>3. /\ \/ ev = "NodeAccepted" /\ node'[n] = "Healthy" /\ node[n] = "Recovering"
           \/ ev = "NodeRejected" /\ node'[n] = "Rejected" /\ node[n] \in {"New", "Recovering"}
        /\ \A m \in Nodes : m # n => node'[m] = node[m]
    <3>1. node[n] \in NodeMachine[ev].src
      BY <2>1, Accepted DEF NodeStep
    <3> QED
      BY <1>0, <2>1, <3>1 DEF NodeStep, ShimTypes, NodeMachine
  <2>4. updates' = updates
    BY <1>6 DEF NodeAnswered
  <2>5. NodeLife(n)'
    <3>1. NodeLife(n)
      BY <1>0
    <3>2. ev = "NodeAccepted" => n \in coreNodes
      BY <2>2, <3>1 DEF NodeLife
    <3>3. \A r \in updates' : ~(r.req = "node" /\ r.node = n)
      BY <2>2, <2>4, <3>1 DEF NodeLife
    <3>4. NodeEv(n, "NodeAccepted") \in Chan' => n \in coreNodes
      BY <1>0, <3>1 DEF NodeLife, NoNodeNews
    <3> QED
      BY <1>1, <2>3, <3>1, <3>2, <3>3, <3>4 DEF NodeLife
  <2>6. ASSUME NEW m \in Nodes, m # n
        PROVE  NodeLife(m)'
    BY <1>4, <2>3, <2>4, <2>6
  <2>7. rec # "done"
    BY <2>3 DEF RecoveryInv
  <2> QED
    BY <1>1, <1>3, <2>3, <2>5, <2>6, <2>7 DEF RecoveryInv
<1>7. ~NodeChange(n)
  BY DEF NodeChange, NodesSteady
<1> QED
  BY <1>2, <1>5, <1>6, <1>7

(* The requests for a node are all the same. *)
LEMMA SameRequest ==
  ASSUME ShimTypes, NEW r \in updates, NEW s \in updates, r.req = "node", s.req = "node",
         r.node = s.node, r.existing = s.existing
  PROVE  r = s
<1>1. ASSUME NEW x \in updates, x.req = "node"
      PROVE  x = [req |-> "node", node |-> x.node, existing |-> x.existing]
  <2>1. x \in [req : {"node"}, node : Nodes, existing : SUBSET Pods]
    BY <1>1 DEF ShimTypes, Request
  <2> QED
    BY <2>1
<1> QED
  BY <1>1

(* The core takes a node with the pods that were found on it. *)
LEMMA NodeTakenRecovery ==
  ASSUME AskInv, LifeInv, RecoveryInv, NEW r \in updates, CoreTakesNode(r)
  PROVE  RecoveryInv'
<1> USE DEF kubeVars, recVars, fsmVars, taskVars, seenVars, coreState
<1>0. /\ ShimTypes /\ \A m \in Nodes : NodeLife(m)
      /\ r.req = "node" /\ r.node \in Nodes /\ r.existing \subseteq Pods
  BY CorePosts DEF AskInv, RecoveryInv, CoreTakesNode
<1>1. /\ UNCHANGED <<kube, podNode, kubeNodes, node, existing, asked, rec, sched>>
      /\ updates' = updates \ {r}
  BY DEF CoreTakesNode, Arrives, CoreUnchanged
<1>2. /\ r.existing = existing[r.node] /\ node[r.node] = "Recovering"
      /\ NodeEv(r.node, "NodeAccepted") \notin Chan /\ NodeEv(r.node, "NodeRejected") \notin Chan
  BY <1>0 DEF NodeLife
<1>3. \/ /\ coreNodes' = coreNodes \cup {r.node}
         /\ \A p \in Pods : coreAlloc'[p] = IF p \in r.existing THEN r.node ELSE coreAlloc[p]
         /\ Chan' \subseteq Chan \cup {NodeEv(r.node, "NodeAccepted")}
      \/ /\ UNCHANGED <<coreNodes, coreAlloc>>
         /\ Chan' \subseteq Chan \cup {NodeEv(r.node, "NodeRejected")}
  <2>1. /\ NodeEv(r.node, "NodeAccepted") \in Event /\ NodeEv(r.node, "NodeRejected") \in Event
    BY <1>0, Events
  <2>2. ASSUME NEW e \in Event, Dispatch(<<e>>)
        PROVE  Chan' \subseteq Chan \cup {e}
    BY <1>0, <2>2, PostedOne, Grows
  <2> QED
    BY <2>1, <2>2 DEF CoreTakesNode
<1>4. ASSUME NEW m \in Nodes, m # r.node
      PROVE  NodeLife(m)'
  <2>1. NodeLife(m) /\ existing[m] \subseteq Pods
    BY <1>0 DEF ShimTypes
  <2>2. \A ev \in {"NodeAccepted", "NodeRejected"} : NodeEv(m, ev) \in Chan' => NodeEv(m, ev) \in Chan
    BY <1>3, <1>4, Distinct
  <2>3. m \in coreNodes' <=> m \in coreNodes
    BY <1>3, <1>4
  <2>4. \A p \in existing[m] : coreAlloc'[p] = coreAlloc[p]
    <3>1. ASSUME NEW p \in existing[m]
          PROVE  p \in Pods /\ p \notin r.existing
      BY <1>0, <1>2, <1>4, <2>1, FoundNotAsked
    <3> QED
      BY <1>3, <3>1
  <2> QED
    BY <1>1, <2>1, <2>2, <2>3, <2>4 DEF NodeLife
<1>5. NodeLife(r.node)'
  <2>1. NodeLife(r.node) /\ existing[r.node] \subseteq Pods
    BY <1>0 DEF ShimTypes
  <2>2. NodeEv(r.node, "NodeAccepted") \in Chan' => r.node \in coreNodes'
    BY <1>2, <1>3, Distinct
  <2>3. r.node \in coreNodes' => \A p \in existing[r.node] : kube[p] = "bound" => coreAlloc'[p] = r.node
    BY <1>2, <1>3, <2>1 DEF NodeLife
  <2>4. \A s \in updates' : ~(s.req = "node" /\ s.node = r.node)
    <3>1. ASSUME NEW s \in updates', s.req = "node", s.node = r.node
          PROVE  FALSE
      <4>1. s \in updates /\ s # r /\ s.existing = existing[r.node]
        BY <1>1, <2>1, <3>1 DEF NodeLife
      <4> QED
        BY <1>0, <1>2, <3>1, <4>1, SameRequest
    <3> QED
      BY <3>1
  <2> QED
    BY <1>1, <1>2, <2>1, <2>2, <2>3, <2>4 DEF NodeLife
<1>6. Complete' = Complete
  BY <1>1 DEF Complete
<1> QED
  BY <1>1, <1>4, <1>5, <1>6 DEF RecoveryInv

(* The pods are listed on every node there is. *)
LEMMA ListedRecovery ==
  ASSUME AskInv, PhaseInv, LifeInv, RecoveryInv, NodesSteady, RecoverNodes
  PROVE  RecoveryInv'
<1> USE DEF kubeVars, recVars, fsmVars, taskVars, seenVars, coreState
<1>1. rec = "listNodes" /\ rec' = "waitNodes" /\ sched \notin {"Running", "Exited"}
  BY DEF RecoverNodes, PhaseInv
<1>2. UNCHANGED <<kube, podNode, kubeNodes, coreNodes, coreAlloc, asked, updates, eventChan, sched>>
  BY DEF RecoverNodes, RecoverUnchanged
<1>3. ASSUME NEW n \in Nodes
      PROVE  /\ node[n] = "None" /\ n \notin coreNodes
             /\ NodeEv(n, "NodeAccepted") \notin Chan
             /\ \A r \in updates : ~(r.req = "node" /\ r.node = n)
  <2>1. NodeLife(n)
    BY DEF RecoveryInv
  <2> QED
    BY <1>1, <2>1 DEF NodeLife
<1>4. \A n \in Nodes : NodeEv(n, "NodeRejected") \notin Chan
  <2>1. \A n \in Nodes : NodeLife(n)
    BY DEF RecoveryInv
  <2> QED
    BY <1>3, <2>1 DEF NodeLife
<1>5. PICK found \in Listing(kubeNodes) :
        /\ found # {}
        /\ node' = [n \in Nodes |-> IF n \in found /\ node[n] = "None" THEN "New" ELSE node[n]]
        /\ existing' = [n \in Nodes |-> IF n \in found
                                       THEN { p \in BoundPods : podNode[p] = n } ELSE {}]
  BY DEF RecoverNodes
<1>6. found = Nodes
  <2>1. kubeNodes = Nodes
    BY DEF RecoveryInv
  <2>2. CASE "coldStore" \in May
    <3>1. found \subseteq Nodes
      BY <2>1, <2>2 DEF Listing
    <3>2. \A m, n \in Nodes : m = n
      BY <2>2 DEF NodesSteady
    <3> QED
      BY <1>5, <3>1, <3>2
  <2> QED
    BY <2>1, <2>2 DEF Listing
<1>7. \A n \in Nodes : /\ node'[n] = "New"
                       /\ existing'[n] = { p \in BoundPods : podNode[p] = n }
  BY <1>3, <1>5, <1>6
<1>8. Complete'
  <2>1. \A p \in Pods : kube[p] = "bound" => podNode[p] \in Nodes
    BY DEF LifeInv, TaskLife
  <2> QED
    BY <1>2, <1>7, <2>1 DEF Complete, BoundPods
<1>9. ASSUME NEW n \in Nodes
      PROVE  NodeLife(n)'
  BY <1>1, <1>2, <1>3, <1>4, <1>7 DEF NodeLife, Chan
<1> QED
  BY <1>1, <1>2, <1>7, <1>8, <1>9 DEF RecoveryInv

(* The state machine of the shim and the recovery goroutine go on. *)
LEMMA OwnRecovery ==
  ASSUME AskInv, PhaseInv, RecoveryInv, OwnSteps
  PROVE  RecoveryInv'
<1> USE DEF kubeVars, recVars, fsmVars, taskVars, seenVars, coreState
<1>0. ShimTypes
  BY DEF AskInv
<1>1. UNCHANGED <<kube, podNode, kubeNodes, node, existing, coreNodes, coreAlloc, asked, updates>>
  BY DEF OwnSteps, RefuseEvent, RegisterScheduler, RegisterSchedulerSucceed, RegisterSchedulerFailed,
         RecoverScheduler, RecoverSchedulerSucceed, SchedStep, RecoverApps,
         AppsRecovered, PollNodes, NodesRecovered, RecoverUnchanged, RecoveryTimeout
<1>2. PICK E : /\ Chan' \subseteq Chan \cup E
               /\ \A x \in E : OwnNews(x)
  BY <1>0, SchedTells DEF OwnSteps, RecoveryStep
<1>3. \A n \in Nodes, ev \in {"NodeAccepted", "NodeRejected"} :
        NodeEv(n, ev) \in Chan' => NodeEv(n, ev) \in Chan
  BY <1>2, Distinct DEF OwnNews
<1>4. /\ \/ rec' = rec
         \/ rec \in {"off", "listApps", "waitApps"} /\ rec' \in {"listApps", "waitApps", "listNodes"} /\ sched # "Exited"
         \/ sched' = "Exited" /\ rec' = "off"
         \/ /\ rec = "waitNodes" /\ rec' = "done" 
            /\ \A n \in KnownNodes : node[n] = "Healthy"
      /\ sched = "Exited" => sched' = "Exited"
  <2>1. CASE RefuseEvent
    BY <2>1 DEF RefuseEvent
  <2>2. CASE \/ RegisterScheduler \/ RegisterSchedulerSucceed \/ RegisterSchedulerFailed
             \/ RecoverSchedulerSucceed
    BY <2>2 DEF RegisterScheduler, RegisterSchedulerSucceed, RegisterSchedulerFailed,
                RecoverSchedulerSucceed, SchedStep, Take
  <2>3. CASE RecoverScheduler
    <3>1. sched = "Registered"
      BY <2>3, Accepted DEF RecoverScheduler, SchedStep, SchedMachine
    <3> QED
      BY <2>3, <3>1 DEF RecoverScheduler, PhaseInv
  <2>4. CASE RecoverApps \/ AppsRecovered
    BY <2>4 DEF RecoverApps, AppsRecovered, RecoverUnchanged, PhaseInv
  <2>5. CASE PollNodes \/ NodesRecovered
    BY <2>5 DEF PollNodes, NodesRecovered, RecoverUnchanged
  <2>6. CASE RecoveryTimeout
    BY <2>6 DEF RecoveryTimeout
  <2> QED
    BY <2>1, <2>2, <2>3, <2>4, <2>5, <2>6 DEF OwnSteps
<1>5. ASSUME NEW n \in Nodes
      PROVE  NodeLife(n)'
  <2>1. NodeLife(n)
    BY DEF RecoveryInv
  <2>2. node[n] # "None" => rec' \in {"waitNodes", "done"} \/ sched' = "Exited"
    BY <1>4, <2>1 DEF NodeLife
  <2> QED
    BY <1>1, <1>3, <2>1, <2>2 DEF NodeLife
<1>6. Complete' = Complete
  BY <1>1 DEF Complete
<1>7. rec' \in {"waitNodes", "done"} => rec \in {"waitNodes", "done"}
  BY <1>4
<1>8. rec' = "done" => \A n \in Nodes : node[n] = "Healthy"
  BY <1>4 DEF RecoveryInv, KnownNodes
<1> QED
  BY <1>1, <1>5, <1>6, <1>7, <1>8 DEF RecoveryInv

(* A restart has found nothing yet.                                        *)
LEMMA StartRecovery ==
  ASSUME RecoveryInv, Restart
  PROVE  RecoveryInv'
<1>1. Chan' = {SchedEv("RegisterScheduler")}
  BY InShort, Events DEF Chan, Restart
<1>2. \A n \in Nodes : \A ev : NodeEv(n, ev) \notin Chan'
  BY <1>1, Distinct
<1>3. /\ kubeNodes' = kubeNodes /\ updates' = {} /\ coreNodes' = {} /\ rec' = "off"
      /\ \A n \in Nodes : node'[n] = "None"
  BY DEF Restart, kubeVars
<1>4. \A n \in Nodes : NodeLife(n)'
  BY <1>2, <1>3 DEF NodeLife
<1> QED
  BY <1>3, <1>4 DEF RecoveryInv

(* At the start nothing has been found yet.                                *)
LEMMA RecoveryInit == ShimInit => RecoveryInv
<1> SUFFICES ASSUME ShimInit PROVE RecoveryInv
  OBVIOUS
<1>1. Chan = {SchedEv("RegisterScheduler")}
  BY InShort, Events DEF Chan, ShimInit, ProcessStart
<1>2. \A n \in Nodes : \A ev : NodeEv(n, ev) \notin Chan
  BY <1>1, Distinct
<1>3. /\ kubeNodes = Nodes /\ updates = {} /\ coreNodes = {} /\ rec = "off"
      /\ \A n \in Nodes : node[n] = "None"
  BY DEF ShimInit, ProcessStart
<1>4. \A n \in Nodes : NodeLife(n)
  BY <1>2, <1>3 DEF NodeLife
<1> QED
  BY <1>3, <1>4 DEF RecoveryInv

(* Every step keeps the invariant of the recovery.                         *)
LEMMA RecoveryInvKept ==
  ASSUME AskInv, PhaseInv, LifeInv, RecoveryInv, NodesSteady, [ShimNext]_shimVars
  PROVE  RecoveryInv'
BY Kinds, OwnRecovery, ListedRecovery, StartRecovery, AppsRecovery, PodsRecovery, NodesRecovery,
   NodeTakenRecovery

(* Everything that holds of the shim when its nodes stay the same. *)
ShimInv == AskInv /\ PhaseInv /\ LifeInv /\ RecoveryInv

(* While the nodes stay the same, nothing the recovery found is lost, and  *)
(* the shim does not schedule before every node is accepted with its pods. *)
THEOREM RecoveryInvariant ==
  ASSUME "askRejected" \notin May, NodesSteady
  PROVE  ShimSpec => []ShimInv
<1>1. ShimInit => ShimInv
  BY AskInvInit, LifeInit, RecoveryInit DEF ShimInv
<1>2. ShimInv /\ [ShimNext]_shimVars => ShimInv'
  <2> SUFFICES ASSUME AskInv, PhaseInv, LifeInv, RecoveryInv, [ShimNext]_shimVars
               PROVE  AskInv' /\ PhaseInv' /\ LifeInv' /\ RecoveryInv'
    BY DEF ShimInv
  <2>1. ShimTypes
    BY DEF AskInv
  <2> QED
    BY <2>1, AskInvKept, PhaseKept, LifeInvKept, RecoveryInvKept
<1> QED
  BY <1>1, <1>2, PTL DEF ShimSpec

-----------------------------------------------------------------------------
(* The contract with the cluster. *)
Held == { p \in Pods : coreAlloc[p] # NoNode }

ContractStep == [Contract!ContractNext]_(Contract!contractVars)

(* The steps of the contract, seen from the shim. *)
LEMMA InContract ==
  ASSUME NEW p \in Pods
  PROVE  /\ UNCHANGED <<sched, BoundPods, Held>> => ContractStep
         /\ ~(sched = "Running") /\ ~(sched' = "Running") /\ UNCHANGED <<BoundPods, Held>> => ContractStep
         /\ /\ sched = "Running" /\ p \notin BoundPods
            /\ Held' = Held \cup {p} /\ UNCHANGED <<sched, BoundPods>>
            => ContractStep
         /\ /\ sched = "Running" /\ p \in Held \ BoundPods
            /\ BoundPods' = BoundPods \cup {p} /\ UNCHANGED <<sched, Held>>
            => ContractStep
         /\ BoundPods' = BoundPods \ {p} /\ UNCHANGED <<sched, Held>> => ContractStep
         /\ p \in Held \ BoundPods /\ Held' = Held \ {p} /\ UNCHANGED <<sched, BoundPods>>
            => ContractStep
         /\ sched' = "New" /\ Held' = {} /\ UNCHANGED BoundPods => ContractStep
         /\ \A S \in SUBSET Pods :
              sched # "Running" /\ Held' = Held \cup S /\ UNCHANGED <<sched, BoundPods>> => ContractStep
         /\ sched' = "Running" /\ BoundPods \subseteq Held /\ UNCHANGED <<BoundPods, Held>>
            => ContractStep
<1> USE DEF ContractStep, Contract!ContractNext, Contract!contractVars, Held
<1>1. UNCHANGED <<sched, BoundPods, Held>> => ContractStep
  OBVIOUS
<1>2. ~(sched = "Running") /\ ~(sched' = "Running") /\ UNCHANGED <<BoundPods, Held>> => ContractStep
  OBVIOUS
<1>3. /\ sched = "Running" /\ p \notin BoundPods
      /\ Held' = Held \cup {p} /\ UNCHANGED <<sched, BoundPods>>
      => ContractStep
  <2>1. ASSUME sched = "Running" /\ p \notin BoundPods,
               Held' = Held \cup {p} /\ UNCHANGED <<sched, BoundPods>>
        PROVE  Contract!Reserve(p)
    BY <2>1 DEF Contract!Reserve
  <2> QED
    BY <2>1
<1>4. /\ sched = "Running" /\ p \in Held \ BoundPods
      /\ BoundPods' = BoundPods \cup {p} /\ UNCHANGED <<sched, Held>>
      => ContractStep
  <2>1. ASSUME sched = "Running" /\ p \in Held \ BoundPods,
               BoundPods' = BoundPods \cup {p} /\ UNCHANGED <<sched, Held>>
        PROVE  Contract!Start(p)
    BY <2>1 DEF Contract!Start
  <2> QED
    BY <2>1
<1>5. BoundPods' = BoundPods \ {p} /\ UNCHANGED <<sched, Held>> => ContractStep
  <2>1. ASSUME BoundPods' = BoundPods \ {p} /\ UNCHANGED <<sched, Held>>
        PROVE  Contract!End(p)
    BY <2>1 DEF Contract!End
  <2> QED
    BY <2>1
<1>6. p \in Held \ BoundPods /\ Held' = Held \ {p} /\ UNCHANGED <<sched, BoundPods>> => ContractStep
  <2>1. ASSUME p \in Held \ BoundPods /\ Held' = Held \ {p} /\ UNCHANGED <<sched, BoundPods>>
        PROVE  Contract!Free(p)
    BY <2>1 DEF Contract!Free
  <2> QED
    BY <2>1
<1>7. sched' = "New" /\ Held' = {} /\ UNCHANGED BoundPods => ContractStep
  <2>1. ASSUME sched' = "New" /\ Held' = {} /\ UNCHANGED BoundPods
        PROVE  Contract!Crash
    BY <2>1 DEF Contract!Crash
  <2> QED
    BY <2>1
<1>8. ASSUME NEW S \in SUBSET Pods,
             sched # "Running" /\ Held' = Held \cup S /\ UNCHANGED <<sched, BoundPods>>
      PROVE  ContractStep
  <2>1. Contract!Rebuild(S)
    BY <1>8 DEF Contract!Rebuild
  <2> QED
    BY <2>1
<1>9. sched' = "Running" /\ BoundPods \subseteq Held /\ UNCHANGED <<BoundPods, Held>> => ContractStep
  <2>1. ASSUME sched' = "Running" /\ BoundPods \subseteq Held /\ UNCHANGED <<BoundPods, Held>>
        PROVE  Contract!Resume
    BY <2>1 DEF Contract!Resume
  <2> QED
    BY <2>1
<1> QED
  BY <1>1, <1>2, <1>3, <1>4, <1>5, <1>6, <1>7, <1>8, <1>9

(* Only the core's answers, the binders, the users and a restart are seen. *)
LEMMA UnseenSteps ==
  ASSUME ShimInv,
         \/ RecoverNodes \/ AppSteps
         \/ \E n \in Nodes : \/ RecoverNode(n) \/ NodeAnswered(n)
                             \/ AddNode(n) \/ DeleteNode(n) \/ NodeChange(n)
  PROVE  UNCHANGED <<sched, kube, coreAlloc>>
<1> USE DEF kubeVars, recVars, fsmVars, taskVars, seenVars, coreState
<1>1. CASE RecoverNodes
  BY <1>1 DEF RecoverNodes, RecoverUnchanged
<1>2. CASE AppSteps
  BY <1>2 DEF AppSteps, SubmitApplication, AcceptApplication, RejectApplication, FailApplication,
         RunApplication, AppStep, AppUnchanged, CoreTakesApp, CoreUnchanged
<1>3. ASSUME NEW n \in Nodes,
             RecoverNode(n) \/ NodeAnswered(n) \/ AddNode(n) \/ DeleteNode(n) \/ NodeChange(n)
      PROVE  UNCHANGED <<sched, kube, coreAlloc>>
  BY <1>3 DEF RecoverNode, NodeAnswered, NodeStep, AddNode, DeleteNode, HandlerUnchanged,
              NodeChange, ClusterUnchanged
<1> QED
  BY <1>1, <1>2, <1>3

(* The scheduler stops scheduling only when the process ends. *)
LEMMA KeepsRunning ==
  ASSUME ShimTypes, PhaseInv, OwnSteps, sched = "Running"
  PROVE  sched' = "Running"
<1>1. rec = "done"
  BY DEF PhaseInv
<1>2. ASSUME NEW ev \in DOMAIN SchedMachine, NEW evs, SchedStep(ev, evs)
      PROVE  FALSE
  <2>1. sched \in SchedMachine[ev].src
    BY <1>2, Distinct DEF SchedStep, Accepts
  <2> QED
    BY <2>1 DEF SchedMachine
<1> QED
  BY <1>1, <1>2 DEF OwnSteps, RefuseEvent, RegisterScheduler, RegisterSchedulerSucceed,
       RegisterSchedulerFailed, RecoverScheduler, RecoverSchedulerSucceed, RecoverApps,
       AppsRecovered, PollNodes, NodesRecovered, RecoverUnchanged, RecoveryTimeout, SchedMachine,
       fsmVars

(* While the shim schedules, every pod that has a node holds a reservation. *)
Ready == sched = "Running" => BoundPods \subseteq Held

(* The invariants give both, by whether the pod was asked for or found.    *)
LEMMA AccountedNow ==
  ASSUME ShimInv
  PROVE  PodsAccounted /\ Ready
<1>1. ASSUME sched = "Running", NEW p \in Pods, kube[p] = "bound"
      PROVE  coreAlloc[p] = podNode[p] /\ podNode[p] # NoNode
  <2>1. rec = "done" /\ podNode[p] \in Nodes /\ asked[p] \in {0, 1}
    BY <1>1 DEF ShimInv, PhaseInv, LifeInv, TaskLife, AskInv, AskedFor
  <2>2. CASE asked[p] = 1
    BY <1>1, <2>1, <2>2, ShimAssumption DEF ShimInv, LifeInv, TaskLife
  <2>3. CASE asked[p] = 0
    <3>1. NodeLife(podNode[p]) /\ node[podNode[p]] = "Healthy" /\ p \in existing[podNode[p]]
      BY <1>1, <2>1, <2>3 DEF ShimInv, RecoveryInv, Complete
    <3> QED
      BY <1>1, <2>1, <3>1, ShimAssumption DEF NodeLife
  <2> QED
    BY <2>1, <2>2, <2>3
<1> QED
  BY <1>1 DEF PodsAccounted, Ready, BoundPods, Held

(* While the shim schedules, the core holds an allocation for every pod    *)
(* that has a node: those it placed itself since the start, and those it   *)
(* found (recover, handleNodes, addExistingAllocation).                    *)
THEOREM PodsAreAccounted ==
  ASSUME "askRejected" \notin May, NodesSteady
  PROVE  ShimSpec => []PodsAccounted
<1>1. ShimInv => PodsAccounted
  BY AccountedNow
<1> QED
  BY <1>1, RecoveryInvariant, PTL

(* The steps of the pods reserve, start, end and free them. *)
LEMMA PodContractStep ==
  ASSUME ShimInv, PodSteps
  PROVE  ContractStep
<1> USE DEF kubeVars, recVars, fsmVars, taskVars, seenVars, coreState
<1>0. ShimTypes /\ \A p \in Pods : LifeOf(p) /\ AskedFor(p)
  BY DEF ShimInv, AskInv, LifeInv, LifeOf
<1>1. ASSUME UNCHANGED <<sched, kube, coreAlloc>>
      PROVE  ContractStep
  <2>1. UNCHANGED <<sched, BoundPods, Held>>
    BY <1>1 DEF BoundPods, Held
  <2> QED
    BY <2>1 DEF ContractStep, Contract!contractVars, Held
<1>2. ASSUME NEW p \in Pods, NEW n \in Nodes, CoreAllocates(p, n)
      PROVE  ContractStep
  <2>1. asked[p] = 1 /\ task[p] = "Scheduling"
    BY <1>0, <1>2 DEF CoreAllocates, LifeOf, AskLife
  <2>2. sched = "Running" /\ kube[p] # "bound"
    BY <1>0, <1>2, <2>1 DEF CoreAllocates, LifeOf, TaskLife, AskedFor
  <2>3. \A q \in Pods : coreAlloc'[q] = IF q = p THEN n ELSE coreAlloc[q]
    BY <1>0, <1>2 DEF CoreAllocates, ShimTypes
  <2>4. Held' = Held \cup {p}
    BY <2>3, ShimAssumption DEF Held
  <2>5. UNCHANGED <<sched, kube>>
    BY <1>2 DEF CoreAllocates, CoreUnchanged
  <2> QED
    BY <2>2, <2>4, <2>5, InContract DEF BoundPods
<1>3. ASSUME NEW b \in binding, Bind(b)
      PROVE  ContractStep
  <2>1. b.pod \in Pods /\ b.node \in Nodes /\ Binds(b.pod)
    BY <1>0, BindPosts DEF Binds, ShimTypes, Binder
  <2>2. UNCHANGED <<sched, coreAlloc>>
    BY <1>3 DEF Bind, BindUnchanged
  <2>3. CASE BindFails(b)
    BY <1>1, <2>2, <2>3 DEF BindFails
  <2>4. CASE BindSucceeds(b)
    <3>1. /\ kube[b.pod] = "pending"
          /\ \A q \in Pods : kube'[q] = IF q = b.pod THEN "bound" ELSE kube[q]
      BY <1>0, <2>4 DEF BindSucceeds, ShimTypes
    <3>2. BoundPods' = BoundPods \cup {b.pod} /\ b.pod \notin BoundPods
      BY <2>1, <3>1 DEF BoundPods
    <3>3. coreAlloc[b.pod] = b.node /\ task[b.pod] = "Allocated"
      BY <1>0, <2>1 DEF LifeOf, BinderLife, TaskLife
    <3>4. sched = "Running" /\ b.pod \in Held
      BY <1>0, <1>3, <2>1, <3>3, ShimAssumption DEF Bind, AskedFor, Held
    <3> QED
      BY <2>1, <2>2, <3>2, <3>4, InContract DEF Held
  <2> QED
    BY <1>3, <2>3, <2>4 DEF Bind
<1>4. ASSUME NEW p \in Pods, CreatePod(p) \/ PodGone(p)
      PROVE  ContractStep
  <2>1. UNCHANGED <<sched, coreAlloc>>
    BY <1>4 DEF CreatePod, PodGone, ClusterUnchanged
  <2>2. \/ BoundPods' = BoundPods \ {p}
        \/ BoundPods' = BoundPods
    BY <1>0, <1>4 DEF CreatePod, PodGone, BoundPods, ShimTypes
  <2>3. UNCHANGED Held
    BY <2>1 DEF Held
  <2> QED
    BY <2>1, <2>2, <2>3, InContract
<1>5. ASSUME NEW r \in updates, CoreTakesRelease(r)
      PROVE  ContractStep
  <2>1. PICK p \in Pods : p = r.uuid /\ r.app = AppOf[p] /\ task[p] \in {"Completed", "Failed"}
    BY <1>5 DEF CoreTakesRelease, ShimInv, LifeInv, ReleaseLife
  <2>2. UNCHANGED <<sched, kube>> /\ kube[p] # "bound"
    BY <1>0, <1>5, <2>1 DEF CoreTakesRelease, CoreUnchanged, LifeOf, TaskLife
  <2>3. \A q \in Pods : coreAlloc'[q] = IF q = p THEN NoNode ELSE coreAlloc[q]
    BY <1>5, <2>1, ShimAssumption DEF CoreTakesRelease
  <2>4. Held' = Held \ {p} /\ p \notin BoundPods /\ UNCHANGED BoundPods
    BY <2>2, <2>3 DEF Held, BoundPods
  <2>5. p \in Held \/ UNCHANGED Held
    BY <2>4
  <2> QED
    BY <2>2, <2>4, <2>5, InContract
<1>6. ASSUME NEW p \in Pods,
             \/ SubmitTask(p) \/ TaskBound(p) \/ TaskRejected(p) \/ TaskEnded(p) \/ CoreTakesAsk(p)
             \/ AddPod(p) \/ DeletePod(p) \/ MissDelete(p) \/ Schedule(p)
             \/ \E n \in Nodes : TaskAllocated(p, n)
      PROVE  UNCHANGED <<sched, kube, coreAlloc>>
  BY <1>6 DEF SubmitTask, TaskBound, TaskRejected, TaskEnded, TaskAllocated, TaskStep, CoreTakesAsk,
         CoreUnchanged, AddPod, DeletePod, MissDelete, HandlerUnchanged, Schedule, TimerUnchanged
<1>7. ASSUME \/ \E b \in binding : ReportBound(b)
             \/ ListPending \/ UNCHANGED shimVars
      PROVE  UNCHANGED <<sched, kube, coreAlloc>>
  BY <1>7 DEF ReportBound, BindUnchanged, ListPending, TimerUnchanged, shimVars
<1> QED
  BY <1>1, <1>2, <1>3, <1>4, <1>5, <1>6, <1>7 DEF PodSteps

(* Every step of the shim is a step of the contract. *)
LEMMA KeepsStep ==
  ASSUME ShimInv, Ready', [ShimNext]_shimVars
  PROVE  ContractStep
<1> USE DEF kubeVars, recVars, fsmVars, taskVars, seenVars, coreState
<1>0. ShimTypes /\ PhaseInv
  BY DEF ShimInv, AskInv
<1>1. ASSUME UNCHANGED <<sched, kube, coreAlloc>>
      PROVE  ContractStep
  <2>1. UNCHANGED <<sched, BoundPods, Held>>
    BY <1>1 DEF BoundPods, Held
  <2> QED
    BY <2>1 DEF ContractStep, Contract!contractVars, Held
<1>2. CASE OwnSteps
  <2>1. UNCHANGED <<kube, coreAlloc>>
    BY <1>0, <1>2, OwnQuiet DEF PodsQuiet
  <2>2. UNCHANGED <<BoundPods, Held>>
    BY <2>1 DEF BoundPods, Held
  <2>3. sched = "Running" => sched' = "Running"
    BY <1>0, <1>2, KeepsRunning
  <2>4. CASE sched' = "Running"
    <3>1. (BoundPods \subseteq Held)'
      BY <2>4 DEF Ready
    <3>2. Contract!Resume
      BY <2>2, <2>4, <3>1 DEF Contract!Resume, Held
    <3> QED
      BY <3>2 DEF ContractStep, Contract!ContractNext
  <2>5. CASE sched' # "Running"
    BY <2>2, <2>3, <2>5 DEF ContractStep, Contract!contractVars, Held
  <2> QED
    BY <2>4, <2>5
<1>3. CASE \/ RecoverNodes \/ AppSteps
           \/ \E n \in Nodes : \/ RecoverNode(n) \/ NodeAnswered(n)
                               \/ AddNode(n) \/ DeleteNode(n) \/ NodeChange(n)
  BY <1>1, <1>3, UnseenSteps
<1>4. CASE Restart
  <2>1. sched' = "New" /\ UNCHANGED kube /\ coreAlloc' = [p \in Pods |-> NoNode]
    BY <1>4 DEF Restart
  <2>2. Held' = {} /\ UNCHANGED BoundPods
    BY <2>1 DEF Held, BoundPods
  <2>3. Contract!Crash
    BY <2>1, <2>2 DEF Contract!Crash, Held
  <2> QED
    BY <2>3 DEF ContractStep, Contract!ContractNext
<1>5. ASSUME NEW r \in updates, CoreTakesNode(r)
      PROVE  ContractStep
  <2>1. /\ UNCHANGED <<sched, kube>> /\ r.req = "node" /\ r.node \in Nodes /\ r.existing \subseteq Pods
        /\ \/ UNCHANGED coreAlloc
           \/ coreAlloc' = [p \in Pods |-> IF p \in r.existing THEN r.node ELSE coreAlloc[p]]
    BY <1>0, <1>5, CorePosts DEF CoreTakesNode, CoreUnchanged
  <2>2. node[r.node] = "Recovering"
    BY <2>1 DEF ShimInv, RecoveryInv, NodeLife
  <2>3. sched # "Running"
    BY <1>0, <2>1, <2>2 DEF PhaseInv, ShimInv, RecoveryInv
  <2>4. CASE coreAlloc' = [p \in Pods |-> IF p \in r.existing THEN r.node ELSE coreAlloc[p]]
    <3>1. Held' = Held \cup r.existing
      BY <2>1, <2>4, ShimAssumption DEF Held
    <3>2. PICK S \in SUBSET Pods : S = r.existing
      BY <2>1
    <3>3. UNCHANGED BoundPods
      BY <2>1 DEF BoundPods
    <3>4. Contract!Rebuild(S)
      BY <2>1, <2>3, <3>1, <3>2, <3>3 DEF Contract!Rebuild, Held
    <3> QED
      BY <3>4 DEF ContractStep, Contract!ContractNext
  <2> QED
    BY <1>1, <2>1, <2>4
<1>6. CASE PodSteps
  BY <1>6, PodContractStep
<1> QED
  BY <1>2, <1>3, <1>4, <1>5, <1>6, Kinds

(* Seen from the cluster, the shim with its core is a scheduler that keeps *)
(* the contract: it accounts for every pod that occupies a node while it   *)
(* schedules, gives no allocation up before its pod has left the node, and *)
(* resumes after a crash only when it has found them all again.            *)
THEOREM ContractIsKept ==
  ASSUME "askRejected" \notin May, NodesSteady
  PROVE  ShimSpec => KeepsContract
<1>1. ShimInit => Contract!ContractInit
  BY DEF ShimInit, ProcessStart, Contract!ContractInit, BoundPods
<1>2. ShimInv /\ Ready' /\ [ShimNext]_shimVars => [Contract!ContractNext]_(Contract!contractVars)
  BY KeepsStep DEF ContractStep
<1>3. ShimInv => Ready
  BY AccountedNow
<1> QED
  BY <1>1, <1>2, <1>3, RecoveryInvariant, PTL DEF ShimSpec, KeepsContract, Contract!ContractSpec
-----------------------------------------------------------------------------
(* Nobody loses an allocation, as long as the channel of events does not   *)
(* run full.                                                               *)
ReleaseFor(p) == [req |-> "release", app |-> AppOf[p], uuid |-> p]

(* Where the allocation of an ask is, and what an allocation without an    *)
(* ask is of: a pod that was found on a node.                              *)
Owned(p) ==
  /\ asked[p] = 1 /\ coreAlloc[p] # NoNode =>
       /\ task[p] = "Scheduling" => Told(p, coreAlloc[p])
       /\ task[p] \in {"Completed", "Failed"} => ReleaseFor(p) \in updates
  /\ asked[p] = 0 /\ coreAlloc[p] # NoNode =>
       kube[p] \in {"bound", "gone"} /\ task[p] \in {"None", "Allocated"}

OwnedInv == \A p \in Pods : Owned(p)

Roomy == Len(eventChan) < ChanCap

(* An announcement stays in the channel until its task takes it. *)
LEMMA ToldOn ==
  ASSUME ShimTypes, Roomy', [ShimNext]_shimVars, ~Restart, NEW p \in Pods, NEW n \in Nodes,
         Told(p, n), task[p] = "Scheduling"
  PROVE  Told(p, n)' \/ TaskAllocated(p, n)
<1>0. AllocEv(p, n).to = "task" /\ AllocEv(p, n).ev = "TaskAllocated"
  BY Distinct
<1>1. /\ \A e, E : Hands(e, E) /\ e # AllocEv(p, n) => Told(p, n)'
      /\ \A e, E : Hands(e, E) /\ e.to # "task" => Told(p, n)'
      /\ \A e, E : Hands(e, E) /\ e.ev # "TaskAllocated" => Told(p, n)'
  BY <1>0 DEF Hands, Roomy, Told
<1>2. \A E : Posts(E) => Told(p, n)'
  BY DEF Posts, Roomy, Told
<1>3. UNCHANGED eventChan => Told(p, n)'
  BY DEF Told, Chan
<1>4. CASE OwnSteps
  <2>1. CASE RefuseEvent
    <3>0. <<>> \in Seq(Event)
      OBVIOUS
    <3>1. Hands(Head(eventChan), In(<<>>))
      BY <2>1, <3>0, Handed DEF RefuseEvent
    <3>2. ~Accepts(Head(eventChan))
      BY <2>1 DEF RefuseEvent
    <3>3. Accepts(AllocEv(p, n))
      <4>1. PICK e : e = AllocEv(p, n)
        OBVIOUS
      <4>2. e.to = "task" /\ e.id = p /\ e.ev = "TaskAllocated"
        BY <4>1, Distinct
      <4>3. task[p] \in TaskMachine["TaskAllocated"].src
        BY DEF TaskMachine
      <4> QED
        BY <4>1, <4>2, <4>3 DEF Accepts
    <3> QED
      BY <1>1, <3>1, <3>2, <3>3
  <2>2. CASE \/ RegisterScheduler \/ RegisterSchedulerSucceed \/ RegisterSchedulerFailed
             \/ RecoverScheduler \/ RecoverSchedulerSucceed
    <3>1. PICK ev, E : Hands(SchedEv(ev), E)
      BY <2>2, SchedHands
    <3>2. SchedEv(ev).to # "task"
      BY Distinct
    <3> QED
      BY <1>1, <3>1, <3>2
  <2>3. CASE RecoverApps \/ PollNodes \/ NodesRecovered
    <3>1. \E E : Posts(E)
      BY <2>3, SchedHands
    <3> QED
      BY <1>2, <3>1
  <2>4. CASE AppsRecovered \/ RecoveryTimeout
    BY <1>3, <2>4 DEF AppsRecovered, RecoveryTimeout
  <2> QED
    BY <1>4, <2>1, <2>2, <2>3, <2>4 DEF OwnSteps
<1>5. CASE RecoverNodes
  BY <1>3, <1>5 DEF RecoverNodes
<1>6. CASE AppSteps
  <2>1. PICK a \in Apps : \/ SubmitApplication(a) \/ AcceptApplication(a) \/ RejectApplication(a)
                          \/ FailApplication(a) \/ CoreTakesApp(a)
                          \/ \E q \in Pods : RunApplication(a, q)
    BY <1>6 DEF AppSteps
  <2>2. CASE CoreTakesApp(a)
    <3>1. \E E : Posts(E)
      BY <2>2, CorePosts
    <3> QED
      BY <1>2, <3>1
  <2>3. CASE ~CoreTakesApp(a)
    <3>1. CASE \E q \in Pods : RunApplication(a, q)
      <4>1. PICK q \in Pods : Hands(RunEv(a, q), {TaskEv(q, "SubmitTask")})
        BY <3>1, AppHands
      <4>2. RunEv(a, q).to # "task"
        BY Distinct
      <4> QED
        BY <1>1, <4>1, <4>2
    <3>2. CASE SubmitApplication(a) \/ AcceptApplication(a) \/ RejectApplication(a) \/ FailApplication(a)
      <4>1. PICK ev, E : Hands(AppEv(a, ev), E)
        BY <3>2, AppHands
      <4>2. AppEv(a, ev).to # "task"
        BY Distinct
      <4> QED
        BY <1>1, <4>1, <4>2
    <3> QED
      BY <2>1, <2>3, <3>1, <3>2
  <2> QED
    BY <2>2, <2>3
<1>7. ASSUME NEW m \in Nodes,
             RecoverNode(m) \/ NodeAnswered(m) \/ AddNode(m) \/ DeleteNode(m) \/ NodeChange(m)
      PROVE  Told(p, n)'
  <2>1. CASE RecoverNode(m) \/ NodeAnswered(m)
    <3>1. PICK ev : Hands(NodeEv(m, ev), {})
      BY <2>1, NodeHands
    <3>2. NodeEv(m, ev).to # "task"
      BY Distinct
    <3> QED
      BY <1>1, <3>1, <3>2
  <2>2. CASE AddNode(m)
    <3>1. \E E : Posts(E)
      BY <2>2, NodeHands
    <3> QED
      BY <1>2, <3>1
  <2>3. CASE DeleteNode(m) \/ NodeChange(m)
    BY <1>3, <2>3 DEF DeleteNode, NodeChange, ClusterUnchanged
  <2> QED
    BY <1>7, <2>1, <2>2, <2>3
<1>8. ASSUME NEW r \in updates, CoreTakesNode(r)
      PROVE  Told(p, n)'
  <2>1. \E E : Posts(E)
    BY <1>8, CorePosts
  <2> QED
    BY <1>2, <2>1
<1>9. CASE PodSteps
  <2>1. ASSUME NEW q \in Pods,
               SubmitTask(q) \/ TaskBound(q) \/ TaskRejected(q) \/ TaskEnded(q)
        PROVE  Told(p, n)'
    <3>1. PICK ev \in {"SubmitTask", "TaskBound", "TaskRejected", "TaskFail", "CompleteTask"} :
            \E E : Hands(TaskEv(q, ev), E)
      BY <2>1, TaskHands
    <3>2. TaskEv(q, ev).ev # "TaskAllocated"
      BY <3>1, Distinct
    <3> QED
      BY <1>1, <3>1, <3>2
  <2>2. ASSUME NEW q \in Pods, NEW m \in Nodes, TaskAllocated(q, m)
        PROVE  Told(p, n)' \/ TaskAllocated(p, n)
    <3>1. Hands(AllocEv(q, m), {})
      BY <2>2, TaskHands
    <3>2. AllocEv(q, m) = AllocEv(p, n) => q = p /\ m = n
      BY Distinct
    <3> QED
      BY <1>1, <2>2, <3>1, <3>2
  <2>3. ASSUME NEW q \in Pods,
               DeletePod(q) \/ Schedule(q) \/ CoreTakesAsk(q) \/ \E m \in Nodes : CoreAllocates(q, m)
        PROVE  Told(p, n)'
    <3>1. UNCHANGED eventChan \/ \E E : Posts(E)
      BY <2>3, PodPosts
    <3> QED
      BY <1>2, <1>3, <3>1
  <2>4. ASSUME NEW b \in binding, Bind(b) \/ ReportBound(b)
        PROVE  Told(p, n)'
    <3>1. UNCHANGED eventChan \/ \E E : Posts(E)
      BY <2>4, BindPosts DEF Bind, BindSucceeds
    <3> QED
      BY <1>2, <1>3, <3>1
  <2>5. ASSUME \/ \E q \in Pods : AddPod(q) \/ MissDelete(q) \/ CreatePod(q) \/ PodGone(q)
               \/ \E r \in updates : CoreTakesRelease(r)
               \/ ListPending \/ UNCHANGED shimVars
        PROVE  Told(p, n)'
    BY <1>3, <2>5 DEF AddPod, MissDelete, CreatePod, PodGone, ClusterUnchanged, CoreTakesRelease,
                      ListPending, shimVars
  <2> QED
    BY <1>9, <2>1, <2>2, <2>3, <2>4, <2>5 DEF PodSteps
<1> QED
  BY <1>4, <1>5, <1>6, <1>7, <1>8, <1>9, Kinds

(* A release stays under way until the core takes it. *)
LEMMA ReleasesOn ==
  ASSUME ShimTypes, [ShimNext]_shimVars, ~Restart, NEW x \in updates, x.req = "release"
  PROVE  x \in updates' \/ CoreTakesRelease(x)
<1> USE DEF kubeVars, recVars, fsmVars, taskVars, seenVars, coreState
<1>1. CASE OwnSteps \/ RecoverNodes
  <2>1. CASE \/ RegisterScheduler \/ RegisterSchedulerSucceed \/ RegisterSchedulerFailed
             \/ RecoverScheduler \/ RecoverSchedulerSucceed \/ RefuseEvent
    BY <2>1 DEF RefuseEvent, RegisterScheduler, RegisterSchedulerSucceed, RegisterSchedulerFailed,
                RecoverScheduler, RecoverSchedulerSucceed, SchedStep
  <2>2. CASE RecoverApps \/ RecoverNodes \/ AppsRecovered \/ PollNodes \/ NodesRecovered \/ RecoveryTimeout
    BY <2>2 DEF RecoverApps, RecoverNodes, AppsRecovered, PollNodes, NodesRecovered,
                RecoverUnchanged, RecoveryTimeout
  <2> QED
    BY <1>1, <2>1, <2>2 DEF OwnSteps
<1>2. CASE AppSteps
  <2>1. ASSUME NEW a \in Apps, CoreTakesApp(a)
        PROVE  x \in updates'
    BY <2>1 DEF CoreTakesApp, Arrives
  <2>2. ASSUME NEW a \in Apps,
               \/ SubmitApplication(a) \/ AcceptApplication(a) \/ RejectApplication(a)
               \/ FailApplication(a) \/ \E p \in Pods : RunApplication(a, p)
        PROVE  x \in updates'
    BY <2>2 DEF SubmitApplication, AcceptApplication, RejectApplication, FailApplication,
         RunApplication
  <2> QED
    BY <1>2, <2>1, <2>2 DEF AppSteps
<1>3. ASSUME NEW n \in Nodes,
             RecoverNode(n) \/ NodeAnswered(n) \/ AddNode(n) \/ DeleteNode(n) \/ NodeChange(n)
      PROVE  x \in updates'
  BY <1>3 DEF RecoverNode, NodeAnswered, AddNode, DeleteNode, HandlerUnchanged,
              NodeChange, ClusterUnchanged
<1>4. ASSUME NEW r \in updates, CoreTakesNode(r) \/ CoreTakesRelease(r)
      PROVE  x \in updates' \/ CoreTakesRelease(x)
  BY <1>4 DEF CoreTakesNode, CoreTakesRelease, Arrives
<1>5. CASE PodSteps
  <2>1. ASSUME NEW p \in Pods,
               \/ SubmitTask(p) \/ TaskBound(p) \/ TaskRejected(p) \/ TaskEnded(p)
               \/ \E n \in Nodes : TaskAllocated(p, n)
        PROVE  x \in updates'
    BY <2>1 DEF SubmitTask, TaskBound, TaskRejected, TaskEnded, TaskAllocated
  <2>0. ASSUME NEW p \in Pods, CoreTakesAsk(p)
        PROVE  x \in updates'
    BY <2>0 DEF CoreTakesAsk, Arrives
  <2>2. ASSUME NEW p \in Pods,
               \/ AddPod(p) \/ DeletePod(p)
               \/ MissDelete(p) \/ CreatePod(p) \/ PodGone(p) \/ Schedule(p)
               \/ \E n \in Nodes : CoreAllocates(p, n)
        PROVE  x \in updates'
    BY <2>2 DEF CoreAllocates, AddPod,
         DeletePod, MissDelete, HandlerUnchanged, CreatePod, PodGone, ClusterUnchanged, Schedule,
         TimerUnchanged
  <2>3. ASSUME \/ \E b \in binding : Bind(b) \/ ReportBound(b)
               \/ ListPending \/ UNCHANGED shimVars
        PROVE  x \in updates'
    BY <2>3 DEF Bind, ReportBound, BindUnchanged, ListPending, TimerUnchanged, shimVars
  <2> QED
    BY <1>4, <1>5, <2>0, <2>1, <2>2, <2>3 DEF PodSteps
<1> QED
  BY <1>1, <1>2, <1>3, <1>4, <1>5, Kinds

(* A pod whose task, ask and allocation a step leaves alone. *)
Alone(p) ==
  /\ task'[p] = task[p] /\ asked'[p] = asked[p] /\ coreAlloc'[p] = coreAlloc[p]
  /\ kube[p] \in {"bound", "gone"} => kube'[p] \in {"bound", "gone"}

(* A pod a step leaves alone keeps its allocation in somebody's hands.     *)
LEMMA OwnedAlone ==
  ASSUME ShimTypes, Roomy', [ShimNext]_shimVars, ~Restart, NEW p \in Pods, Owned(p), Alone(p)
  PROVE  Owned(p)'
<1>1. ASSUME asked[p] = 1, coreAlloc[p] # NoNode, task[p] = "Scheduling"
      PROVE  Told(p, coreAlloc[p])'
  <2>1. PICK n \in Nodes : n = coreAlloc[p]
    BY <1>1 DEF ShimTypes
  <2>2. Told(p, n)
    BY <1>1, <2>1 DEF Owned
  <2>3. ~TaskAllocated(p, n)
    <3>1. TaskMachine["TaskAllocated"].dst = "Allocated"
      BY DEF TaskMachine
    <3>2. AllocEv(p, n).ev = "TaskAllocated"
      BY Distinct
    <3> QED
      BY <1>1, <3>1, <3>2, TaskMoves DEF Alone, TaskAllocated
  <2>4. Told(p, n)'
    BY <1>1, <2>2, <2>3, ToldOn
  <2> QED
    BY <2>1, <2>4 DEF Alone, Told
<1>2. ASSUME coreAlloc[p] # NoNode, ReleaseFor(p) \in updates
      PROVE  ReleaseFor(p) \in updates'
  <2>1. PICK x \in updates : x = ReleaseFor(p)
    BY <1>2
  <2>2. x.req = "release" /\ x.app = AppOf[p] /\ x.uuid = p
    BY <2>1 DEF ReleaseFor
  <2>3. ~CoreTakesRelease(x)
    BY <1>2, <2>2 DEF CoreTakesRelease, Alone
  <2> QED
    BY <2>1, <2>2, <2>3, ReleasesOn
<1> QED
  BY <1>1, <1>2 DEF Owned, Alone, ReleaseFor, Told

(* The steps that leave every pod alone. *)
LEMMA AllAlone ==
  ASSUME ShimTypes,
         \/ OwnSteps \/ RecoverNodes \/ AppSteps
         \/ \E n \in Nodes : \/ RecoverNode(n) \/ NodeAnswered(n)
                             \/ AddNode(n) \/ DeleteNode(n) \/ NodeChange(n)
         \/ \E p \in Pods : CoreTakesAsk(p) \/ MissDelete(p) \/ DeletePod(p) \/ Schedule(p)
         \/ \E b \in binding : ReportBound(b)
         \/ ListPending \/ UNCHANGED shimVars
  PROVE  \A p \in Pods : Alone(p)
<1> USE DEF kubeVars, recVars, fsmVars, taskVars, seenVars, coreState
<1>1. CASE OwnSteps
  BY <1>1, OwnQuiet DEF PodsQuiet, Alone
<1>2. CASE RecoverNodes
  BY <1>2 DEF RecoverNodes, RecoverUnchanged, Alone
<1>3. CASE AppSteps
  BY <1>3, AppsQuiet DEF AppSteps, PodsQuiet, Alone
<1>4. ASSUME NEW n \in Nodes,
             RecoverNode(n) \/ NodeAnswered(n) \/ AddNode(n) \/ DeleteNode(n) \/ NodeChange(n)
      PROVE  UNCHANGED <<kube, task, asked, coreAlloc>>
  BY <1>4 DEF RecoverNode, NodeAnswered, NodeStep, AddNode, DeleteNode, HandlerUnchanged,
              NodeChange, ClusterUnchanged
<1>5. ASSUME NEW p \in Pods, CoreTakesAsk(p) \/ MissDelete(p) \/ DeletePod(p) \/ Schedule(p)
      PROVE  UNCHANGED <<kube, task, asked, coreAlloc>>
  BY <1>5 DEF CoreTakesAsk, CoreUnchanged, MissDelete, DeletePod, HandlerUnchanged, Schedule,
              TimerUnchanged
<1>6. ASSUME \/ \E b \in binding : ReportBound(b)
             \/ ListPending \/ UNCHANGED shimVars
      PROVE  UNCHANGED <<kube, task, asked, coreAlloc>>
  BY <1>6 DEF ReportBound, BindUnchanged, ListPending, TimerUnchanged, shimVars
<1> QED
  BY <1>1, <1>2, <1>3, <1>4, <1>5, <1>6 DEF Alone

(* The steps that change what a pod's task, ask or allocation is. *)
LEMMA OwnedStep ==
  ASSUME AskInv, LifeInv, OwnedInv, Roomy', AskInv', LifeInv', [ShimNext]_shimVars
  PROVE  OwnedInv'
<1> USE DEF kubeVars, recVars, fsmVars, taskVars, seenVars, coreState
<1>0. /\ ShimTypes /\ \A p \in Pods : Owned(p) /\ AskedFor(p) /\ AskedFor(p)' /\ LifeOf(p)
  BY DEF AskInv, LifeInv, LifeOf, OwnedInv
<1>1. CASE Restart
  BY <1>1 DEF Restart, OwnedInv, Owned
<1>2. ASSUME ~Restart, NEW p \in Pods, Alone(p)
      PROVE  Owned(p)'
  BY <1>0, <1>2, OwnedAlone
<1>3. ASSUME ~Restart, NEW p \in Pods, \A q \in Pods : q # p => Alone(q), Owned(p)'
      PROVE  OwnedInv'
  BY <1>2, <1>3 DEF OwnedInv
<1>4. ASSUME ~Restart, \A p \in Pods : Alone(p)
      PROVE  OwnedInv'
  BY <1>2, <1>4 DEF OwnedInv
<1>5. ASSUME NEW r \in updates, CoreTakesNode(r), ~Restart
      PROVE  OwnedInv'
  <2>1. /\ UNCHANGED <<kube, task, asked>> /\ r.req = "node"
        /\ \A q \in Pods : q \notin r.existing => coreAlloc'[q] = coreAlloc[q]
    BY <1>0, <1>5 DEF CoreTakesNode, CoreUnchanged, ShimTypes
  <2>2. ASSUME NEW p \in Pods
        PROVE  Owned(p)'
    <3>1. CASE p \in r.existing
      <4>1. asked[p] = 0 /\ kube[p] \in {"bound", "gone"} /\ task[p] \in {"None", "Allocated"}
        BY <2>1, <3>1 DEF LifeInv, FoundLife, Found
      <4> QED
        BY <2>1, <4>1 DEF Owned
    <3>2. CASE p \notin r.existing
      BY <1>2, <1>5, <2>1, <3>2 DEF Alone
    <3> QED
      BY <3>1, <3>2
  <2> QED
    BY <2>2 DEF OwnedInv
<1>6. ASSUME NEW p \in Pods, SubmitTask(p), ~Restart
      PROVE  OwnedInv'
  <2>1. /\ UNCHANGED <<kube, coreAlloc>> /\ asked' = [asked EXCEPT ![p] = @ + 1]
        /\ task[p] = "Pending"
    <3>1. task[p] \in TaskMachine["SubmitTask"].src
      BY <1>6, Accepted DEF SubmitTask, TaskStep
    <3> QED
      BY <1>6, <3>1 DEF SubmitTask, TaskStep, TaskMachine
  <2>2. asked[p] = 0 /\ asked'[p] = 1 /\ \A q \in Pods : q # p => asked'[q] = asked[q]
    <3>1. asked[p] \in {0, 1} /\ asked'[p] \in {0, 1}
      BY <1>0 DEF AskedFor
    <3>2. asked'[p] = asked[p] + 1
      BY <1>0, <2>1 DEF ShimTypes
    <3> QED
      BY <1>0, <2>1, <3>1, <3>2 DEF ShimTypes
  <2>3. \A q \in Pods : q # p => Alone(q)
    BY <1>0, <1>6, <2>1, <2>2, TaskMoves DEF SubmitTask, Alone
  <2>4. Owned(p)'
    BY <1>0, <2>1, <2>2 DEF Owned
  <2> QED
    BY <1>3, <1>6, <2>3, <2>4
<1>7. ASSUME NEW p \in Pods, TaskBound(p) \/ \E n \in Nodes : TaskAllocated(p, n), ~Restart
      PROVE  OwnedInv'
  <2>1. /\ UNCHANGED <<kube, coreAlloc, asked>> /\ task'[p] \in {"Allocated", "Bound"}
        /\ \A q \in Pods : q # p => task'[q] = task[q]
    <3>1. CASE TaskBound(p)
      <4>1. TaskMachine[TaskEv(p, "TaskBound").ev].dst = "Bound"
        BY Distinct DEF TaskMachine
      <4> QED
        BY <1>0, <3>1, <4>1, TaskMoves DEF TaskBound, TaskStep
    <3>2. ASSUME NEW n \in Nodes, TaskAllocated(p, n)
          PROVE  /\ UNCHANGED <<kube, coreAlloc, asked>> /\ task'[p] \in {"Allocated", "Bound"}
                 /\ \A q \in Pods : q # p => task'[q] = task[q]
      <4>1. TaskMachine[AllocEv(p, n).ev].dst = "Allocated"
        BY Distinct DEF TaskMachine
      <4> QED
        BY <1>0, <3>2, <4>1, TaskMoves DEF TaskAllocated, TaskStep
    <3> QED
      BY <1>7, <3>1, <3>2
  <2>2. asked[p] = 1
    <3>1. CASE TaskBound(p)
      <4>1. Note(p, "TaskBound")
        BY <1>0, <3>1, TaskHands, Grows DEF Note
      <4> QED
        BY <1>0, <4>1 DEF LifeOf, TaskLife
    <3>2. ASSUME NEW n \in Nodes, TaskAllocated(p, n)
          PROVE  asked[p] = 1
      <4>1. Told(p, n)
        BY <1>0, <3>2, TaskHands, Grows DEF Told
      <4> QED
        BY <1>0, <4>1 DEF LifeOf, AskLife
    <3> QED
      BY <1>7, <3>1, <3>2
  <2>3. Owned(p)' /\ \A q \in Pods : q # p => Alone(q)
    BY <2>1, <2>2 DEF Owned, Alone
  <2> QED
    BY <1>3, <1>7, <2>3
<1>8. ASSUME NEW p \in Pods, TaskEnded(p), ~Restart
      PROVE  OwnedInv'
  <2>1. PICK ev \in {"TaskFail", "CompleteTask"} :
           TaskStep(p, TaskEv(p, ev), <<>>) /\ Note(p, ev)
    <3>1. PICK ev \in {"TaskFail", "CompleteTask"} : TaskStep(p, TaskEv(p, ev), <<>>)
      BY <1>8 DEF TaskEnded
    <3>2. Hands(TaskEv(p, ev), {})
      BY <1>0, <3>1, HandledOne DEF TaskStep
    <3> QED
      BY <3>1, <3>2, Grows DEF Note
  <2>2. /\ UNCHANGED <<kube, coreAlloc, asked, uuid>> /\ ReleaseOf(p) \in updates'
        /\ \A q \in Pods : q # p => task'[q] = task[q]
    BY <1>0, <1>8, <2>1, TaskMoves DEF TaskEnded, TaskStep
  <2>3. uuid[p] = p /\ asked[p] = 1 /\ task'[p] \in {"Completed", "Failed"}
    <3>1. task[p] \in TaskMachine[ev].src
      BY <2>1, Accepted DEF TaskStep
    <3>2. task'[p] = TaskMachine[ev].dst
      <4>1. TaskEv(p, ev).ev = ev
        BY Distinct
      <4> QED
        BY <1>0, <2>1, <4>1, TaskMoves
    <3>3. CASE ev = "TaskFail"
      BY <1>0, <2>1, <3>2, <3>3 DEF LifeOf, TaskLife, TaskMachine
    <3>4. CASE ev = "CompleteTask"
      BY <1>0, <3>1, <3>2, <3>4 DEF LifeOf, TaskLife, TaskMachine
    <3> QED
      BY <3>3, <3>4
  <2>4. ReleaseFor(p) \in updates'
    BY <2>2, <2>3 DEF ReleaseOf, ReleaseFor
  <2>5. Owned(p)' /\ \A q \in Pods : q # p => Alone(q)
    BY <2>2, <2>3, <2>4 DEF Owned, Alone, ReleaseFor
  <2> QED
    BY <1>3, <1>8, <2>5
<1>9. ASSUME NEW p \in Pods, NEW n \in Nodes, CoreAllocates(p, n), ~Restart
      PROVE  OwnedInv'
  <2>1. asked[p] = 1 /\ task[p] = "Scheduling"
    BY <1>0, <1>9 DEF CoreAllocates, LifeOf, AskLife
  <2>2. /\ UNCHANGED <<kube, task, asked>> /\ coreAlloc'[p] = n
        /\ \A q \in Pods : q # p => coreAlloc'[q] = coreAlloc[q]
    BY <1>0, <1>9 DEF CoreAllocates, CoreUnchanged, ShimTypes
  <2>3. AllocEv(p, n) \in Chan'
    <3>1. Posts({AllocEv(p, n)})
      BY <1>0, <1>9, PodPosts
    <3> QED
      BY <3>1 DEF Posts, Roomy
  <2>4. Owned(p)' /\ \A q \in Pods : q # p => Alone(q)
    BY <2>1, <2>2, <2>3 DEF Owned, Alone, Told
  <2> QED
    BY <1>3, <1>9, <2>4
<1>10. ASSUME NEW p \in Pods, AddPod(p), ~Restart
       PROVE  OwnedInv'
  <2>1. /\ UNCHANGED <<kube, coreAlloc, asked>> /\ kube[p] \in {"pending", "bound"}
        /\ task'[p] = IF kube[p] = "bound" THEN "Allocated"
                      ELSE IF task[p] = "None" THEN "Pending" ELSE task[p]
        /\ \A q \in Pods : q # p => task'[q] = task[q]
    BY <1>0, <1>10 DEF AddPod, HandlerUnchanged, ShimTypes
  <2>2. \A q \in Pods : q # p => Alone(q)
    BY <2>1 DEF Alone
  <2>3. CASE kube[p] = "bound"
    <3>1. Owned(p)'
      BY <2>1, <2>3 DEF Owned
    <3> QED
      BY <1>3, <1>10, <2>2, <3>1
  <2>4. CASE kube[p] # "bound" /\ task[p] = "None"
    <3>1. asked[p] = 0 /\ coreAlloc[p] = NoNode
      BY <1>0, <2>1, <2>4 DEF AskedFor, Owned
    <3>2. Owned(p)'
      BY <2>1, <3>1 DEF Owned
    <3> QED
      BY <1>3, <1>10, <2>2, <3>2
  <2>5. CASE kube[p] # "bound" /\ task[p] # "None"
    BY <1>4, <1>10, <2>1, <2>2, <2>5 DEF Alone
  <2> QED
    BY <2>3, <2>4, <2>5
<1>11. ASSUME NEW p \in Pods, CreatePod(p) \/ PodGone(p), ~Restart
       PROVE  OwnedInv'
  <2>1. \A q \in Pods : Alone(q)
    BY <1>0, <1>11 DEF CreatePod, PodGone, ClusterUnchanged, Alone, ShimTypes
  <2> QED
    BY <1>4, <1>11, <2>1
<1>12. ASSUME NEW b \in binding, Bind(b), ~Restart
       PROVE  OwnedInv'
  <2>1. \A q \in Pods : Alone(q)
    BY <1>0, <1>12 DEF Bind, BindSucceeds, BindFails, BindUnchanged, Alone, ShimTypes
  <2> QED
    BY <1>4, <1>12, <2>1
<1>13. ASSUME NEW r \in updates, CoreTakesRelease(r), ~Restart
       PROVE  OwnedInv'
  <2>1. PICK p \in Pods : p = r.uuid /\ r.app = AppOf[p]
    BY <1>13 DEF CoreTakesRelease, LifeInv, ReleaseLife
  <2>2. /\ UNCHANGED <<kube, task, asked>> /\ coreAlloc'[p] = NoNode
        /\ \A q \in Pods : q # p => coreAlloc'[q] = coreAlloc[q]
    BY <1>13, <2>1, ShimAssumption DEF CoreTakesRelease, CoreUnchanged
  <2>3. Owned(p)' /\ \A q \in Pods : q # p => Alone(q)
    BY <2>2 DEF Owned, Alone
  <2> QED
    BY <1>3, <1>13, <2>3
<1>14. ASSUME NEW p \in Pods, TaskRejected(p)
       PROVE  FALSE
  <2>1. Note(p, "TaskRejected")
    BY <1>0, <1>14, TaskHands, Grows DEF Note
  <2> QED
    BY <1>0, <2>1 DEF LifeOf, AskLife
<1>15. CASE PodSteps /\ ~Restart
  <2>1. CASE \/ \E p \in Pods : CoreTakesAsk(p) \/ MissDelete(p) \/ DeletePod(p) \/ Schedule(p)
             \/ \E b \in binding : ReportBound(b)
             \/ ListPending \/ UNCHANGED shimVars
    BY <1>0, <1>4, <1>15, <2>1, AllAlone
  <2> QED
    BY <1>6, <1>7, <1>8, <1>9, <1>10, <1>11, <1>12, <1>13, <1>14, <1>15, <2>1 DEF PodSteps
<1>16. CASE /\ \/ OwnSteps \/ RecoverNodes \/ AppSteps
               \/ \E n \in Nodes : \/ RecoverNode(n) \/ NodeAnswered(n)
                                   \/ AddNode(n) \/ DeleteNode(n) \/ NodeChange(n)
            /\ ~Restart
  BY <1>0, <1>4, <1>16, AllAlone
<1> QED
  BY <1>1, <1>5, <1>15, <1>16, Kinds

(* At the start there is no allocation.                                    *)
LEMMA OwnedInit == ShimInit => OwnedInv
BY DEF ShimInit, ProcessStart, OwnedInv, Owned

(* An allocation the core made for an ask is announced, held by a task     *)
(* that can still give it back, or on its way back: it can get lost only   *)
(* when the channel of events runs full and dispatch() drops an event.     *)
THEOREM AllocationsAreOwned ==
  ASSUME "askRejected" \notin May
  PROVE  ShimSpec /\ []Roomy => []AllocationsOwned
<1> DEFINE Inv == AskInv /\ PhaseInv /\ LifeInv
<1>1. ShimInit => OwnedInv
  BY OwnedInit
<1>2. Inv /\ Inv' /\ OwnedInv /\ Roomy' /\ [ShimNext]_shimVars => OwnedInv'
  BY OwnedStep
<1>3. Inv /\ OwnedInv => AllocationsOwned
  <2> SUFFICES ASSUME Inv, OwnedInv, NEW p \in Pods, coreAlloc[p] # NoNode, asked[p] > 0
               PROVE  \/ \E i \in 1 .. Len(eventChan) : eventChan[i] = AllocEv(p, coreAlloc[p])
                      \/ task[p] \in {"Allocated", "Bound"}
                      \/ [req |-> "release", app |-> AppOf[p], uuid |-> p] \in updates
    BY DEF AllocationsOwned
  <2>1. asked[p] = 1
    BY DEF AskInv, AskedFor
  <2>2. /\ task[p] \in TaskStates \ {"None", "Pending", "Rejected"}
    BY <2>1 DEF AskInv, ShimTypes, AskedFor, LifeInv, AskLife
  <2>3. Owned(p)
    BY DEF OwnedInv
  <2>4. CASE task[p] = "Scheduling"
    <3>1. AllocEv(p, coreAlloc[p]) \in Chan
      BY <2>1, <2>3, <2>4 DEF Owned, Told
    <3> QED
      BY <3>1 DEF Chan, In
  <2>5. CASE task[p] \in {"Completed", "Failed"}
    BY <2>1, <2>3, <2>5 DEF Owned, ReleaseFor
  <2> QED
    BY <2>2, <2>4, <2>5 DEF TaskStates
<1>4. ShimSpec => []Inv
  BY LifeInvariant
<1> HIDE DEF Inv
<1> QED
  BY <1>1, <1>2, <1>3, <1>4, PTL DEF ShimSpec
=============================================================================
