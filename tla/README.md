# A verification project for YuniKorn

TLA+ models of the YuniKorn scheduler (`yunikorn-core`), of the interface to
its resource manager (`yunikorn-scheduler-interface`) and of the Kubernetes
shim (`yunikorn-k8shim`). TLC checks them on small instances and
TLAPS proves most of what they check for every value of the constants.
`PROJECT.json` lists components, runs, mutants, the map from definitions to
source lines, findings, hazards and theorems.

## 1. The system

### How it works

The shim watches pods and nodes, and talks to the core with `Update` requests
(new applications, asks, releases, nodes) and receives `RecvUpdateResponse`
calls. Inside the core three services exchange events through buffered
channels, each service with its own goroutines:

```
 shim --Update--> rmproxy --(goroutine per update)--> cache  (handleRMEvents)
                                                        | schedEvents
                                                        v
                  cache (handleSchedulerEvents) <--- scheduler (handleSchedulerEvent)
                        |        ^  cacheEvents         scheduler (internalSchedule)
                        |        +-------------------------'
 shim <--callback-- rmproxy <--rmEvents--- cache, scheduler
```

The cache is the authority on what is allocated. The scheduler keeps what is
pending, decides on a possibly stale copy of the cache, and sends proposals
that the cache accepts or refuses.

### Inventory

| Component | State | Operations | Interacts with | Hard behaviour | What makes it correct |
|---|---|---|---|---|---|
| cache partition (`cache/partition_info.go`, `node_info.go`, `application_info.go`, `allocation_info.go`) | nodes, applications, allocations in three maps, counters, total, partition state | add/remove node, add/remove/reject application, add allocation, release | called by ClusterInfo and the scheduler; queues below it | roll-back of a node whose reported allocations fail; three copies of every allocation kept in step by hand | counters are sums of what is held; nothing orphaned; releases cannot fail |
| cache queues (`cache/queue_info.go`) | hierarchy, allocated, limits, state | Inc/DecAllocatedResource, create, mark for removal, remove, update from configuration | partition, scheduler queues | all-or-nothing updates over a path; draining queues | counter of a queue is the sum below it, within its maximum |
| ClusterInfo (`cache/cluster_info.go`) | partitions, two channels | RM updates, registration, configuration, proposals, releases, removals | rmproxy, scheduler | two goroutines on one partition; events sent after the lock is free | every event answered; the RM hears of every change |
| initializer (`cache/initializer.go`) | none | check limits, build and update partitions from a configuration | ClusterInfo | limits completed while they are checked; failure half way | what is checked is what is enforced; all partitions or none |
| scheduler event loop (`scheduler/scheduler.go`, `requests.go`, `scheduling_*.go`) | applications, asks, pending per application and queue | add/remove application, ask, refuse, release, recover | cache, allocation loop | asks replaced or removed while proposals are on their way | pending adds up; no unit lost or doubled |
| allocation loop (`scheduler/allocator.go`, `asks_finder.go`, `scheduling_node.go`) | step counter, back-off, proposing resources | find asks, place, confirm, send | event loop, cache, predicates plugin | runs beside the event loop, on stale data; confirm and send are two steps | every ask that fits is served |
| sorters, preemption (`scheduler/sorters.go`, `preemptor.go`, `drf_*.go`) | preemption context | order queues, applications, nodes; choose victims | allocation loop | second scheduling goroutine; victims released before the proposal is checked | a strict order; no victim twice |
| placement, security (`scheduler/placement`, `common/security`) | rule chain, user cache | place an application, check an ACL | AddSchedulingApplication | queue creation during placement; the queue made and looked up in two steps | access as configured; the same application is placed again |
| partition context and manager (`scheduler/scheduling_context.go`, `partition_manager.go`) | partitions, cleaner goroutine | update, drain, remove partitions and queues | cache queues | cleaner races with submissions | only empty, draining queues go |
| rmproxy (`rmproxy/rmproxy.go`) | callbacks per RM, channel | register, update, deliver, reload | all | update order is not kept; registration replaces partitions | every registration answered once |
| configuration (`common/configs`) | current configuration, watcher | load, validate, watch | rmproxy, initializer | watcher against reload | a changed file is applied once |
| resources (`common/resources`) | none | Add, Sub, FitIn, shares, comparisons | all | absent types, negative values, overflow | algebraic laws |
| shim task, application (`k8shim/pkg/cache/task.go`, `application.go`) | state machines | submit, allocate, bind, complete, fail, release | dispatcher, core API | events out of order, release before allocation | no pod lost, no allocation leaked |
| shim context, nodes, recovery (`context.go`, `nodes.go`, `node.go`, `context_recovery.go`) | applications, nodes | pod and node events, recovery after restart | Kubernetes, core API | restart, timeouts | state rebuilt before scheduling starts |
| dispatcher, callback, shim FSM (`dispatcher`, `callback`, `shim`) | channel, handlers, state | dispatch, deliver, register, schedule, stop | all of the shim | bounded channel that drops | every event delivered |
| external scheduler cache (`cache/external`) | nodes, pods, assumed pods | add, update, remove, assume, forget | predicates, context | three informer goroutines and the core's assumptions in any order | a placed pod is seen, and counted once |
| webservice, metrics, log, entrypoint, plugins, clients, predicates, admission controller | - | - | - | I/O and conversions | not modelled |

`PROJECT.json` has the status of each under `components`, and under `hazards`
what of this is hard to test, at its line.

## 2. The modules

| Module | Contents |
|---|---|
| `Weights` | sums of quantities over sets, as cardinalities of sets of units, so that the laws of sums are laws of finite sets |
| `PartitionCache` | one partition of the cache and its properties |
| `SchedulerCore` | extends `PartitionCache` with the scheduler, the channels and the four goroutines, and the RM as environment |
| `Shim` | the Kubernetes shim: state machines, dispatcher, recovery, timer, binders, informers, with the core as it answers |
| `PodContract` | what a scheduler owes the cluster: no pod on a node without a reservation |
| `QueueTree` | the queues of cache and scheduler while configurations, placement rules and the cleaner create and remove them |
| `Resources` | `resources.Resource` with several types and a fixed width: arithmetic, comparisons, shares, and the sorts built on them |
| `QueueLimits` | extends `Resources`: limits of a hierarchy, how they are checked and reloaded; a scheduler that selects by them on its own counters and a cache that charges against them |
| `Placement` | ACLs, filters and placement rules as operators |
| `Decisions` | extends `Resources` and `Placement`: picks one input of a family; its invariants say what the operators promise |
| `AssumeCache` | the external scheduler cache of the shim, the informers that feed it and the core that assumes pods in it |
| `MC...` | instances for TLC, one per specification |
| `PartitionCacheProofs` | sums; the accounts of the partition, with and without the contract of its callers |
| `SchedulerCoreProofs`, `SchedulerContractProofs` | the core, each extends the one before: accounts and what is on its way; the contract with the partition and the view of the RM |
| `ShimProofs` | the shim: asks, lives of pods, recovery, and that it implements `PodContract` |
| `QueueTreeProofs` | the queues: references, what can be found, what an update has done, charges |
| `QueueLimitsProofs` | the limits: when what is selected is accepted, and that no counter passes the total or wraps around |
| `AssumeCacheProofs`, `DecisionsProofs` | the assume cache and the calculations |

Definitions whose comment starts with "Mutant:" are faulty variants of the
definition that follows. No specification uses them; each shows that one
property notices one plausible mistake.

### PartitionCache

Variables are the fields of `PartitionInfo`, `NodeInfo`, `ApplicationInfo` and
`QueueInfo` (named in the declaration). Every exported method of the partition
that changes them is an action. All of them hold the partition lock, so an
action is atomic, except that the loops of `addNewNode` and
`removeNodeInternal` are one step per iteration: `op` says which method is
inside its loop and what it has left, and no other locked method runs
meanwhile, while the application state machine, which has no such lock, may.

* `IncAllocatedResource`, `FitsQueue`, `CanDec`, `DecAllocatedResource`: the
  recursion over parents that checks every level before any level changes.
* `CanAllocate`/`Allocate`: the checks and the updates of
  `addNewAllocationInternal`; node reported allocations skip the queue limit.
  A reported allocation carries a node id of its own, which need not be the node
  being added (`partition_info.go:231`): it is charged to the node it names.
* `FreshUuid` is the retry of `GetNewAllocationUuid`, which looks at the partition
  wide map and nothing else (`partition_info.go:540`). That uuids are unique among
  everything that nodes and applications refer to (`UuidUnique`) therefore
  depends on every removal: no allocation may leave the map before it has left the
  nodes and the applications, also those of a node or an application that has gone.
* `ReleaseAllocations`, `RemoveApplication`, `RemoveNodeAllocation`: three
  different pieces of code that give resources back, with their differences:
  the node removal does not touch the partition wide map, the release gives
  back only what it finds on the node, the removal of an application gives
  back the application's counter.

A resource is a single quantity here, because the code treats resource types one
by one (`QueueLimits` has several). The queue hierarchy is fixed (`PathTo`):
its lifecycle is the subject of `QueueTree`.
`Placement`, `ProposalsFit`, `ReportsWait` and `ReportsOwn` say what callers
promise; `Disciplined` is all of the last three. "Completed" is left out of
the application states because only tests send that event.

### SchedulerCore

The four goroutines are `handleRMEvents` ("cacheRM") and
`handleSchedulerEvents` ("cacheSched") of the cache, `handleSchedulerEvent`
("schedEvent") and `internalSchedule` ("schedule") of the scheduler. A handler
is one action that changes state under the locks of the code; the events it
sends afterwards are put in the goroutine's `outbox` and sent one by one by
`Send`, so that anything can happen between the change and the send.

* RM (external): `RmSubmit`, `RmRemoveApp`, `RmAsk`, `RmRelease` use the
  interface in any way that `RmMay` allows. `Update` starts a goroutine for
  every request: `updates` is a set, and requests reach the cache in any order.
  One request carries one item.
* Cache: `CacheAddApp`, `CacheAsk`, `CachePassOn` for the RM; `CacheProposal`,
  `CacheRelease`, `CacheRemovedApp`, `CacheRejectedApp` for the scheduler. They
  conjoin actions of `PartitionCache` with the channels.
* Scheduler events: `SchedAddApp`, `SchedRemoveApp`, `SchedAsk`,
  `SchedRejected`, `SchedRelease`.
* A scheduling round is `FindAllocationAsks` (any choice within pending,
  headroom and batch size; order and back-off are left open),
  `TryBatchAllocation` (on a snapshot of the nodes, predicates given by
  `Feasible`), then `ConfirmAllocation` and `Send` for each placement. The
  selection reads without the scheduler lock; it is one step here because the
  confirmation checks all it relies on again.

`reused` is a history variable: some application id was submitted twice.
`RmViewConsistent` and `CacheContractKept` are claimed until then, because a
proposal names an application by its id and the queue it had.

Nodes are registered initially; no action here adds or removes one
(`RemoveNode` is only reached by the roll-back in `addNewNode`).

### Shim

The shim is a set of state machines driven by one goroutine. The machines are
tables (`SchedMachine`, `AppMachine`, `TaskMachine`, `NodeMachine`) with the
source states and the target of every event, as in the `fsm.Events` of the
code; an event in another state is dropped (`RefuseEvent`), as is one that does
not fit into the channel (`Enqueue`).

* The dispatching goroutine takes one event and runs its handler
  (`DispatchStep`): one action per handler, with the request it sends to the
  core and the events it dispatches in turn.
* Recovery (`RecoveryStep`) is a goroutine of its own: list applications, wait
  for them, list nodes with the pods on them, poll until all are healthy; a
  timeout ends the process.
* The timer lists pending tasks (`ListPending`) and looks at them one by one
  (`Schedule`), at whatever state the application has by then.
* A binder is two steps, `Bind` and `ReportBound`, so that a deletion or a
  crash can fall between what Kubernetes knows and what the task knows.
* Informer handlers (`AddPod`, `DeletePod`, `AddNode`, `DeleteNode`) show what
  `kube` holds at some later time; `MissDelete` is a deletion that the watch
  has missed and that the filter drops.
* The core (`CoreTakes...`, `CoreAllocates`) takes requests in any order and
  answers with events on the same channel. Capacity is left out, it is the
  subject of the other modules.
* `Restart` starts a new process, core included, at any time: only pods and
  nodes of the API server survive.

`May` names what can happen beyond the ordinary course, so that a run can say
under which disturbances its properties hold. Pods do not share a name and are
not created again. Events the code never dispatches (KillTask,
KillApplication) and CompleteApplication, whose handler watches a pod that has
already been deleted, are left out, and so is `updateNode`, whose request the
core does not look at.

`PodContract` is the abstract specification. Its state is what an outside
observer can see: whether the scheduler is scheduling, which pods occupy a
node, which the scheduler accounts for. `Shim!Contract` maps the shim to it
(`up` is the state Running, `running` the pods with a node, `reserved` the
pods with an allocation in the core).

### QueueTree

A queue is an object (`objs`, numbered like pointers, `objs[1]` is the root) and
a link from the scheduler to it (`sched`). A name can belong to several objects
in turn, which is where most of the difficulty is.

* `StartReload`, then `UpdateQueue`, `PruneQueues`, `MarkQueueForRemoval`,
  `UnlockQueue`: `updatePartitionDetails` and `updateQueues`, one queue per step
  because the cleaner and placements do not wait for the partition's read lock;
  submissions, charges and releases do wait. `reload.steps` is what is left to
  do. `MarkQueueForRemoval` keeps the lock of a queue while its children are
  marked (`locked`). `SyncScheduler` is the scheduler following.
* Names are in lower case, as `NewManagedQueue` stores them and `getQueue` looks them
  up. A configuration may write some with capitals (`Capitals`; the validator
  allows it), and `updateQueues` remembers which children it has visited under the
  name as written: `Visited`, from which `PruneQueues` finds what to mark.
* `SubmitApplication` (cache), `PlaceApplication`, `SetQueue`, `FindQueue`,
  `AddSchedulingApplication` (scheduler): the queue is created in one step and
  looked up again in later ones, and may have gone in between. What the rules
  return is left open here (`Placed`, `Created`); how they decide is in
  `Placement`. Whether the user has access is left open too: `FindQueue` may refuse
  any application for it.
* `ChargeQueue` and `ReleaseQueue`: one allocation per application, charged to
  the queue that has the name now, given back to the one the application points
  to.
* `CleanQueue`, `CheckRemoval`, `UnlinkQueue`, `UnlinkSchedulingQueue`: the
  partition manager's cleaner, with the lock it holds between the middle two
  and the full name it passes to a map with short keys.

`process` is "hung" after the endless loop of `createSchedulingQueue`, and
"crashed" after one of the two panics.

### Resources, QueueLimits, Placement, Decisions

`Resources` keeps the difference between a type that is missing and one that is
0, between the empty resource and nil, and the width of integers
(`QuantityLimit` is 2^63 in the code, 16 or 32 in the runs, so that sums wrap).
Shares are exact fractions instead of float64: shares that float64 cannot tell
apart are equal in the code. `sort.SliceStable`, a library function, is the
insertion sort that it is for up to 20 elements (`Inserted`); the order it sorts
by is a set of pairs.

`QueueLimits`: `Checked` is `checkResourceConfigurationsForQueue`, which
completes limits as it goes, children first; `Reload` checks a new configuration
on its own and then applies it to the queues there are (`UpdateQueueProps`).
There are two counters for each queue. `used` is the cache's; it changes when a
proposal is charged (`Charge`) and when something is given back (`Release`).
`proposing` is the scheduler's copy: a round (`StartRound`) reads `used` queue by
queue, parents first, each under its own lock (`ReadAllocated`), while the cache goes
on charging and releasing, and then adds what it selects itself (`Select`).
`proposals` are the selections that the cache has not taken up yet. A round may begin
while there are some, and then counts without them. `Headroom` is what
`asks_finder.go` passes down the queues on the first counter, `ChargeAccepted` what
`IncAllocatedResource` checks from the leaf up on the other: two pieces of code in
two services, on two views. `Refuse` is any other reason of the cache to refuse.
`current` of a proposal is a history variable: its round began with no proposal
under way, and no update has come since. Allocations that a node reports skip the
maxima; they are in `PartitionCache` and not in this module, and neither is
preemption, which has a headroom of its own.

`Placement`: an ACL text is the sequence of its fields, a queue name the
sequence of its parts, a regular expression the set of names it matches. A rule
chain starts with the rule and goes up its parent rules. An outcome is a queue,
none (the next rule is tried), an error, or a panic where the code dereferences
nil. `PlacedWithAccess` speaks of the rule that decides: the first of the list that
does not pass the application on. `FilteredOut` says who a filter keeps away, for
allow and for deny; `RulesAsked` are the rule and the parent rules that it asks (a
value that is a full name asks none).

### AssumeCache

The operations of `SchedulerCache` are operators on a record of its four maps;
each holds the lock. Three informer goroutines call them from queues of their
own (`HandleNodeEvent`, `HandleTaskEvent`, `HandleAssignedEvent`). The same pod
arrives at two of them, under filters that differ. The core checks a pod
(`CheckPod`), looks its node up (`FindTarget`), assumes the pod there (`AssumePod`:
`context.go:546-554` takes the lock for each look-up anew, so that the node can go in
between) and binds it (`BindPod`) or not (`DropProposal`).

A watch may miss events ("missEvents" in `May`). `known` is the node that the last
object of a pod had which the informer saw. A missed bind leaves it empty until the
informer lists all pods again (`Relist`). A missed deletion arrives as
DeletedFinalStateUnknown with that last object: it reaches `deletePodFromCache` only
when the object has a node, because `filterAssignedPods` (`context.go:448-456`) drops
the others. `doubted` and `lost` are history variables for the exemptions of the
properties.

## 3. The runs

| Run | Expect | What it shows |
|---|---|---|
| `cache` | pass | node, application and queue counters are the sums of what is held, on every level; no orphans, no uuid twice, releases never fail, root within the cluster; reports may name another node than the one that is added; callers keep the contract (`ReportsWait`, `ProposalsFit`, `ReportsOwn`) |
| `core` | pass | any RM, any order of its requests: nothing pending below zero, pending adds up on every level, an application is in exactly one of cache-to-scheduler channel, scheduler, scheduler-to-cache channel; until an application id is used twice, every step is a step of `PartitionCache` with the contract (`CacheContractKept`) and the RM's view is exact |
| `core_live` | pass | keys asked once: no unit of an ask is lost or doubled although views are stale and proposals refused; every submission is answered; every ask is served when there is room |
| `shim_contract` | pass | lost events, failed binds, missed deletions, incomplete pod stores, rejected asks, a node that comes and goes, timeouts, failed registration and a restart: the shim implements `PodContract`, a pod on a node is always accounted for on that node, and a pod is asked for once, after its application was accepted |
| `shim_live` | pass | no losses, no rejected asks: an allocation is always announced, held, or on its way back; a release names one allocation; pending pods get nodes; a pod deleted after its task was bound is released |
| `shim_leak` | violation | a pod deleted before its task was bound is never released |
| `queues` | pass | two reloads, two applications, rules that create a queue, and the cleaner: applications stay in queues that can be found, the tree is the configured one (names in lower case), charges are where they will be given back, and empty queues that may go do go |
| `queues_hang` | violation | a submission to a queue whose parent does not exist either is never answered |
| `queues_capitals` | violation | an update marks a configured queue whose name is written with a capital for removal |
| `limits` | pass | what a scheduling round selects on its own counters, the cache accepts when its turn comes, if the round began with nothing on its way; and whatever is proposed on older counters, no counter of the cache passes the total, also after a reload |
| `decisions` | pass | laws of the arithmetic, comparisons and sorts over all small inputs; ACLs mean what is written; the rule that places an application gives access, filters nobody in and creates only if it may; applications are placed again |
| `assume` | pass | whatever the informers' order, and whatever binds and deletions their watches miss, predicates see every placed pod, count it once, and every node becomes usable |

`core` closes the gap between its two modules: the promises that `cache` and
`ContractInv` assume of proposals are what the goroutines really deliver, as long
as application ids are not reused (proved as `ContractKept`). The
promises on node reports are those of the shim, which recovers its
applications before its nodes: in `Shim` a node with a pod of an unknown
application is rejected, and recovery does not end.

### Bounds

* Partition: two nodes of one unit, two applications, two uuids, two
  leaf queues under the root, one with a maximum of one unit. An addition comes
  with up to two reports (`MaxReports`): two are needed so that the second fails
  after the first was added, and two nodes so that a report can name the other one.
  Two uuids are enough for one to be used again while something still refers to it.
  `MaxCharge` stops new requests once a queue is charged 2, which is what both nodes
  hold; reports go past the maximum of a queue without it.
* Core: one application and key with four updates of the RM (submit, ask and
  two more, which is what every race found needs), or two applications and
  keys with four; one or two nodes of one or two units; batches of two, so
  that one round can take both units of an ask. `Uuids` is large enough never
  to run out (`Issued # Uuids` in `CacheProposal` is a bound: the code draws fresh
  ones): deadlock is checked.
* Queues: a parent with a configured leaf and one that only a rule creates,
  three configurations, two reloads (a queue goes, and another change while it
  drains), two applications (one holds a queue that another leaves).
* Limits: three levels, two leaves, two resource types, limits present or
  missing on two levels, one reload among three configurations, two proposals on
  their way (`MaxProposals`): with two, one round's selections meet each other, and
  a round that begins too early meets those of the one before. The total is two
  units, so that what is selected in vain exists. Quantities stay below
  `QuantityLimit`.
* Decisions: ledgers at both ends of the range of quantities, so that every sum
  and difference that wraps is met; triples of resources with
  0 to 2 types; ACL texts of up to two fields; chains of one or two rules,
  followed by another rule or not, over two trees.
* Queues with capitals: one of the three configurations is loaded and another one
  applied; the first update is enough.
* Assume: one pod, because entries of different pods never meet; two nodes, three
  proposals (assume, refuse, assume elsewhere, refuse, and once more), four changes of
  nodes and status updates.
* Channels are unbounded. The channels of the code hold 1024*1024 events.
* Shim: two pods, each of an application of its own, on one node; in `shim_live`
  the core refuses one of the applications. Pods of one
  application meet only in a release without uuid, which `shim_contract` must not
  meet: with both pods in one application (`AppOf <- OneApp`) `PodsAccounted` fails
  once an ask is rejected and holds without "askRejected"; the theorems cover
  every assignment of pods to applications without it (section 4). One
  restart: state from before a crash survives only in the API server, and
  `FirstPods` starts with any of it, so a second restart begins where a run
  also begins. `ChanCap` is 3 where events may be lost, which is small enough
  to lose any event, and 12 where none may be, which is never reached:
  `TickRoom` lets timers fire only while few events are queued, otherwise they
  would fill any channel.
* Deadlock checking is off for the shim, which may exit or run out of pods, for
  `queues`, `limits`, `decisions` and `assume`, where users may have nothing more
  to ask, and for the partition alone, where nothing has to
  happen after a partition is draining and its nodes and applications are gone.
  In the core it is on: `Quiet` allows only states where nothing is on its way
  to stay as they are.

### Fairness

`core_live` assumes weak fairness of every goroutine's step and of every send:
they are endless loops that block only on their own channel. It assumes strong
fairness of a scheduling round that leaves no ask out (`FullFind`): an ask
that failed is skipped while one bit of the step counter is set
(`asks_finder.go:125`), the counter grows by one each round and the bit is at
most 2^20, so in every 2^21 rounds one leaves nothing out. Nothing is assumed
of the RM. In the instance a batch can hold all that one application asks for;
with more pending asks than the batch holds, the order chosen by the sorters
decides and is not modelled.

`shim_live` assumes weak fairness of the dispatcher, of recovery, of the timer
pass and of each pod in it, of the core's answers, of each pod's handlers,
allocation and binder, and of each node's handlers: they are loops or
goroutines that block on nothing but their channel, and informers deliver in
the end. Users, crashes, timeouts and failures get no fairness. The instance
loses no event: with losses a pod can wait for ever, as the code does not
repeat what it dropped.

`queues` (`CleanedSpec`) assumes weak fairness of a running update and of a
started removal, and strong fairness of the cleaner's visit to each queue: it is
a timer loop over all queues, and a queue it finds removable again and again it
will find so on one of its visits. `queues_hang` (`FairSpec`) adds the
scheduler's event goroutine: weak fairness inside a handler, strong
fairness for each event waiting for it. Nothing is assumed of users and administrators.

`assume` assumes weak fairness of the three informer handlers, which are endless
loops on their own queue, and of each kubelet's status report while the node
exists.

## 4. The proofs

TLAPS checks every theorem for all values of the constants that satisfy the
named assumptions of the modules. Most of these are about shape (a queue
hierarchy is a tree, `SizeAssumption`, `QueueAssumption`, `CoreAssumption`,
`ShimAssumption`, `AssumeAssumption`, `NamesAssumption`, `QuantityAssumption`,
`QueuesAssumption`).
Four say more: nodes and pods are finitely many (a cluster; without it sums
and counts are not defined), a short queue name is never also a full name (full
names contain the dot that parts cannot), every name leads up to the root and a
configuration is finite (`NamesAssumption`), and
`InputsAssumption` says what a configuration and a request look like after
parsing. `AmountsAssumption` of `QueueLimits` says that neither the total of a partition nor an ask
has a negative quantity (they are the capacities of Kubernetes nodes and the requests of
pods), that twice the total is below 2^63, and that a configured maximum, which may be negative,
is not more than 2^63 below the total. `AmountsAssumption` of `Decisions` bounds the amounts that are
compared: `StrictlyGreaterThan` adds up all differences twice, and 4 times the
number of types times the largest amount has to stay below 2^63 (with 256 types,
amounts below 2^53). Above that the sum may wrap around and the comparison be
wrong; the ledgers of `AccountsReturn` have no such bound. TLC evaluates all
assumptions in the runs.

The strengthened invariants were checked by TLC before they were proved. The
proofs go by the actions: each action has a lemma, under it one step per conjunct
it disturbs.

| Module | Inductive invariants | Properties that follow | Hypotheses |
|---|---|---|---|
| `PartitionCacheProofs` | `CacheInv`; `ContractInv` | `TypeOK`, `NodeAccounting`, `AppAccounting`, `UuidUnique`; `QueueAccounting`, `NoOrphans`, `ReleaseNeverFails`, `RootWithinTotal` | none; the latter four speak of callers with the contract (`Disciplined`) |
| `SchedulerCoreProofs` | `CoreInv`; `FlowInv`; one for each key | `CoreTypeOK`, `PendingAccounting`, `CacheInv` inside the core; `AppInOnePlace`; `AskConserved` | none; none; "askAgain" not in `RmMay` and 0 not in `Repeats` |
| `SchedulerContractProofs` | `PromiseInv`, `RmViewInv`, `CoreContract` | `CacheContractKept`, `RmViewConsistent`; `QueueAccounting`, `NoOrphans`, `ReleaseNeverFails`, `RootWithinTotal` inside the core (`AccountsKept`) | none (all speak of the time until `reused`) |
| `ShimProofs` | `AskInv`, `PhaseInv`, `LifeInv`, `RecoveryInv`, `OwnedInv` | `AskedOnce`; `ReleasesNameOne`; `PodsAccounted`, `KeepsContract`; `AllocationsOwned` | none; `NoReject`; `NoReject` and `NodesSteady`; `NoReject` and `Roomy` |
| `AssumeCacheProofs` | `AssumeInv` | `AssumeTypeOK`, `PlacedPodsSeen`, `CountsExact` | none |
| `QueueTreeProofs` | `FindableInv`; `TypeInv`; `TreeInv`; `ChargeInv` | `AppsFindable`; `QueueTypeOK`; `ConfigApplied`; `ChargesReturn` | none; none; `ConfigsApart`; `ConfigsApart` and "submitUnknown" not in `May` |
| `QueueLimitsProofs` | `RoundInv` | `SelectionsAccepted`, `UsedWithinTotal` | none |
| `DecisionsProofs` | `InputInv` | `AccountsReturn`, `ComparisonsAgree`, `SortedFairly`, `AclAsWritten`, `PlacedWithAccess`, `PlacedAgain` | none |

(`NoReject` stands for "askRejected" not in `May`.)

**Partition.** `CacheInv` holds whoever calls (the run `cache` has callers with
the contract; the proof covers the others). It strengthens its four parts by
`SumsDefined` (sums are finite), `OwnNode` (a node holds only its own allocations)
and `OpConsistent` (what the loops still have to do covers what is left on the
node; without it the end of a removal could drop a node that applications still
refer to). Uuids are the reason for two more: the map has one allocation for a uuid
(`MapUnique`), which the generator keeps, and what a node or an application holds is in
the map (`NodesInMap`, `AppAccounting`), which every removal has to keep. `ContractInv` adds `NoOrphans`, `ChargedToLeafQueue` and
`QueueAccounting`. `ChargedToLeafQueue` is the heart: an allocation is charged
to the queue named in the request and given back to the leaf queue of its
application, and only when these are the same are the counters exact.
`ReleaseNeverFails` follows because a sum over a subset is not larger.
`RootWithinTotal`: the root counter is the sum of all live allocations, each is
held by its node, no node holds more than it has, and the nodes that are counted
add up to the total. The laws of sums are laws of finite sets of units, at the
beginning of the module.

**Core.** `CoreInv` is `CacheInv` together with the types of everything on a
channel or in an outbox and the pending counters as sums over the asks. The
comment at `scheduling_queue.go` fears that pending goes negative; `CoreTypes`
says it does not. `CacheInvInCore` needs its own argument, because the core may
drop an application in any state. `FlowInv` counts: for each application the
number of its events in every channel and outbox plus its presence in the
scheduler is one as long as the cache knows it. The same counting, for the units of
one key, gives `AskConserved`: pending, being placed, proposed, refused and on
their way back, and allocated add up to what was asked for. The hypotheses are those of
the run `core_live`: a refused proposal is added to whatever ask has the key
(`scheduler.go:294`), so a key that is asked for twice loses the count.

`PromiseInv` follows one submission, until an id is used twice: nothing is
planned, proposed or allocated for an application that the scheduler has not
accepted, and then only in its queue. With it every step of the core is a step of
`PartitionCache` with the contract, or leaves it unchanged (`ContractKept`), a
refinement proved action by action. So the hypothesis of the theorems about callers
with the contract is discharged for the scheduler: `AccountsInCore` takes them from
`Kept`, an instance of `PartitionCacheProofs` in which the promises are made, whose
invariant holds at the start of the core and is kept by every such step.
`RmViewInv` orders the news on their way to the RM (`Ordered`: a release of a uuid
comes behind its allocation) and says that applying them gives what the cache holds.

**Shim.** The invariants rest on each other. `AskInv`: a task leaves Pending once,
and only for an application the core knows. `LifeInv` ties together ask, answer,
task, binder, uuid and release of a pod; it needs that no ask is rejected, as a
task that is rejected ends without an allocation and its release then names no
uuid, which the core takes for all allocations of the application. `RecoveryInv`:
what recovery found on a node is what the request for that node reports and, once
accepted, what the core holds. It needs `NodesSteady`: no node comes or goes, and a
node store that may be incomplete has one node at most (section 5 has the
counterexample for two). The run `shim_contract` goes beyond both hypotheses where it can: asks
are rejected, with one pod per application, and its only node comes and goes. Under the hypotheses every
step of the shim is a step of `PodContract` (`ContractIsKept`): `Resume` is the event
RecoverSchedulerSucceed, `Reserve` the core's allocation, `Start` a bind that
succeeds, `End` the end of a pod, `Free` the core's taking a release, `Rebuild` its
accepting a node with pods, and `Crash` the restart; the rest are stutters.
`AllocationsAreOwned` is about the time in which the channel is never full (`Roomy`
is a hypothesis on the behaviour): a dropped event is never sent again.

**Assume cache.** Entries of different pods never meet, so `AssumeInv` speaks of one
pod: the informer events on their way to each of the three handlers, applied to
what the cache stores, give what the API server has, and each node counts the pod
as often as it was put there and not taken away. What the informer knows of the pod
(`known`) says whether the deletion will get through; where it will not, `CountsExact`
claims nothing (`Informed` fails: the last object seen is not what the API server has
or had last) or exempts the pod (`doubted`).

**Queues.** `FindableInv` adds to `AppsFindable` that a placement in progress
has found its queue, and that the cleaner works on a full name. The argument is that
the scheduler's map of queues never loses a name: the cleaner deletes the full
name from a map with short ones (section 5).

`TypeInv` adds that every reference in applications, update and cleaner is to an
object that there is (`Refs`) and that a child points to its parent (`Linkage`). It
needs no hypothesis: objects are never taken away, only unlinked.

`TreeInv` is the argument for `ConfigApplied`. `Shape`: links between objects
follow `ParentOf` and a name belongs to one object, so that what `getQueue` finds
is the object of that name that is attached to the root. `WalkOf` is the invariant of the
update, a loop over a tree that other goroutines change meanwhile: a
configured queue has been visited, or its visit is among the steps left, or its
parent has not been visited; a managed queue that is not configured drains, or
is to be marked, or the step that will mark it is left, or its parent has not been
visited. `DrainOf` and `MarksFirst` say the same of the marking below a removed queue.
When nothing is left to do this is `ConfigApplied`. `CleanerInv` keeps the cleaner from
undoing it: between its check and its removal the queue stays empty and out of use.
The hypothesis `ConfigsApart` says that a name does not come to belong to a second
object or change its owner: "reuseRemoved" and "reuseDraining" are not in `May`, no
configuration has a queue that a rule may create, and none writes a name with capitals
(`queues_capitals` is what happens when one does). Without the last part `CleanerInv`
fails: an update takes over a queue between the cleaner's check and its removal.
This is how that race was met (section 5).

`ChargeInv` adds the charges: the counter of a queue is the number of charged
applications with its name on their path (`Counts`), an application points to
the queue it names from its submission or placement on (`Pledges`), and a charge
sits where the application points and can be found (`Holding`). The cleaner
cannot remove a queue on such a path, because its counter is not zero.
Both hypotheses hold in the run `queues`.

`NamePath`, `GetQueue`, `Existing`, `CreateQueues` and `Ancestors` are recursive over
parents. That each recursion has a solution is shown without an induction theorem:
every set of names has one whose parent is not in it (`NamesAssumption`), so a
set closed downwards is everything (`NamesInduction`), and the least set of pairs
closed under the rule is the function (`RecursionOnNames`).

**Limits.** `RoundInv` has three parts. What the cache has charged to a queue is the sum
of what it has charged to the leaves below it, and no counter is negative or exceeds the
total, on every queue: the root's maximum is the total, every charge passes it, and a
counter below is at most the root's. The scheduler's counters lie between zero and
the total too, because the headroom is cut to it on the way down. So no sum and no
difference wraps around. The third part, `Covered`, links the two views: while the round is
one that began with nothing on its way, there is a row of counters, one after each proposal under way,
that starts with what the cache has and ends at most at what the scheduler has, in which
each is at least the one before plus what was asked for, and within the limit wherever
something was asked for. Reading keeps it (parents first, when nothing can be charged but what this
round proposes later), a selection appends to the row, a charge or a refusal takes its first element away,
and a release lowers where it starts.
`NextIsAccepted` is then the comparison of two computations that share no code: the headroom is a
minimum taken on the way down (`Headroom`, from `QueueMaxLimit`), the check of the cache
compares sums on the way up (`ChargeAccepted`). The headroom of a queue was, for every
type, at most what each queue on its path had left below its limit on the
scheduler's counters, and those cover what the cache adds up; for a type that is not
asked for, the counter does not change. `AmountsAssumption` is what the arithmetic
needs. `Path`, `QueueMaxLimit`, `Headroom` and `Checked` are recursive; their
solutions are found as for `QueueTree`.

**Calculations.** A behaviour of `Decisions` picks one input, so its theorems are
about the operators on every input. `AccountsReturn`: wrapping around is a
congruence modulo the width, and two quantities that are congruent are equal.
`AclAsWritten` goes by the number of fields. For `PlacedWithAccess` the recursion
over the parent rules is solved by `DownwardInduction` (the least rule for which
something fails has a successor for which it does not), after which `RuleSound`
says what each rule hands to the one before it and `RunAllows` that in a run that leads to
a queue no rule that was asked filters the user out; the first rule of the list that decides is the one of the statement. `PlacedAgain` is the same induction
on two runs, in a tree and in a larger one: a rule that led to a queue leads to it
again, if its parent rules do.

`ComparisonsAgree` and `SortedFairly` rest on three pieces. The sum of
`StrictlyGreaterThan` is a fold over the types; its recursion is solved by size
(`FoldSolved`), and when nothing is smaller the sum is zero only for equal values
and within the bound (`DifferencesAdded`). Fractions are a weak order
(`CrossMultiplied`, `ShareOrder`), therefore so are sequences of shares compared from the
front (`SharesOrdered`), provided that the shares are sorted, which is possible for any
finite set of types (`DescendingRow`). Equal resources have the same rank: if one of them were
behind at some place, all types with a larger share would have to fit the places before
it, one too few (`EqualPlaces`, by the pigeonhole principle). Sorting: an element
inserted into a row that is in order leaves it in order when the comparison is a
weak order (`InsertedInOrder`), so for sequences of every length nothing ends behind what
it should come before (`ApplicationsSorted`, `NodesSorted`, `QueuesSorted`). That
the comparison is a weak order is the point: queues have to have the same guarantee.

Every safety invariant and action property of the passing runs is proved. Only
model-checked is what TLAPS does not do here: the liveness properties
(`EmptyQueuesGo`, `AppAnswered`, `AsksServed`, `PodServed`, `BoundPodReleased`,
`NodesBecomeUsable`) and ENABLED. No RECURSIVE operator is used.

## 5. Findings and known limits

### Findings

Three runs expect a violation; `PROJECT.json` quotes the lines they contradict.

* `shim_leak`: `deletePod` dispatches CompleteTask, which a task takes only in
  the state Bound. Deleted earlier, its pod leaves an allocation in the core.
* `queues_hang`: `createSchedulingQueue` (`scheduling_partition.go:196-200`) looks
  for an existing parent and cuts the full name every time, so with two missing
  levels it loops for ever with the partition locked.
* `queues_capitals`: `updateQueues` sets `visited` for the name as it is configured
  (`partition_info.go:807`) and compares it with keys in lower case (`811`;
  `queue_info.go:68`, `183`). Every update marks a queue whose name has a capital, such as
  `companyA` of `docs/design/scheduler-configuration.md:51-53`, and with it all managed queues
  below it, for removal, although it is configured. It then drains, refuses applications and is
  removed when it is empty; a later update finds a draining queue of that name, which is the subject of
  "reuseDraining". All other runs, and the theorems about updates, have lower case only.

### What a run shows when its restriction is lifted

The passing runs say under which use their properties hold. Each of
these is one change of a cfg:

* `MCCache.cfg`, `Placement = TRUE`, `ReportsOwn = FALSE` and `DecNeverFails` (the
  promise that `ReleaseNeverFails` makes for callers with the contract): an allocation that a
  node reports is charged to the queue it names, and given back to the leaf
  queue the application was placed in (`partition_info.go:486`, `436`).
  `DecNeverFails` fails.
* `MCShimContract.cfg` with `Nodes = {n1, n2}`, `Apps` and `Pods = {p1}` and without "nodesChange":
  recovery that lists an incomplete node store misses the pods of the other nodes
  (`context_recovery.go:212`; `docs/design/resilience.md:60-61`).
  `PodsAccounted` fails.
* The same without "coldStore" and with "nodesChange": a node that is away while recovery
  lists the nodes is missing from it, with its pods. `PodsAccounted` fails. (With the
  one node of `MCShimContract.cfg` there is then none, and recovery does not end.)
* `MCShimContract.cfg`, `AppOf <- OneApp` and `Apps = {a1}`: an ask that is rejected fails
  its task, which has no uuid and so releases all allocations of the application
  (`task.go:276`), those of the other pod as well. `PodsAccounted` fails.
* `MCAssume.cfg`, `CountsExact` without the exemptions: a proposal that the cache of the core
  refuses leaves its pod on the node for the predicates, because nothing calls `ForgetPod`
  (`scheduler_cache.go:266`), while `context.go:537-541` says that the cache is kept in sync
  between core and shim; so does a pod whose bind and deletion the watch missed both, as the
  last object the informer knew has no node and `filterAssignedPods` drops its deletion
  (`context.go:448-456`).
* `MCQueues.cfg`, `May = {"reuseRemoved"}`: the scheduler deletes a child by its
  full name from a map with short names (`scheduling_queue.go:207`, `59-60`), so
  the link to the old object stays; the cleaner later removes the new, managed
  queue by its name (`queue_info.go:281`), while
  `docs/design/scheduler-configuration.md:176` says "A _managed_ queue will only
  be removed if it is removed from the configuration." `ConfigApplied` fails,
  and `ChargesReturn` with it.
* `MCQueues.cfg`, `Configs <- AdoptConfigs` (a configuration declares the leaf that a
  rule creates) and `MaxReloads = 1`: the cleaner has found the unmanaged queue empty
  and waits for the lock of its parent (`queue_info.go:267-281`); an update makes the
  same queue managed (`queue_info.go:327-331`, without a lock); the cleaner then removes
  it. The configuration counts as applied and its queue is not there, against the
  same sentence: `ConfigApplied` fails.

Within these restrictions, `AppsFindable` holds because the scheduler's queue is
never really deleted; its mutant deletes it.

Other restrictions and why they are there:

* nodes are reported after their applications are accepted (`ReportsWait`),
  because a rejected application is dropped with whatever it holds; the shim
  recovers in that order;
* an application id is used once (`reused` in `core`), because
  a proposal names an application by its id and the queue it had; the k8shim
  never removes an application;
* a key is asked for once (no "askAgain" in `core_live`), because a refused
  proposal is added to whatever ask has the key by then (`scheduler.go:294`); the
  k8shim uses the pod's UID;
* no ask is rejected in `shim_live`, because the failing task releases with an
  empty uuid, which means all allocations of the application; at this commit
  the core rejects only asks of applications and partitions it does not have.
  A comment in the callback says that a rejected task is scheduled again
  (`scheduler_callback.go:107`); the code fails it (`task.go:245`);
* `EmptyQueuesGo` exempts a deadlock: the cleaner holds a queue and waits for its
  parent, `MarkQueueForRemoval` holds the parent and waits for the queue
  (`queue_info.go:281`, `303`); and a crash: `SetQueue` dereferences a queue that
  the cleaner removed after it was created (`partition_info.go:884`);
* `SelectionsAccepted` leaves out three kinds of proposals. Those of a round that began while earlier ones
  were under way: the scheduler has not counted these, and may select what the cache refuses. Those
  that an update of the limits has overtaken. And all of them while a queue is above its maximum, after an
  update has lowered it: an ask that wants none of the overused type is selected and refused
  again and again. `UsedWithinTotal` has no exemption;
* `PlacedAgain` is about one rule chain: with several, a queue that a later rule
  made can be a leaf where an earlier rule expects a parent;
* `CountsExact` exempts pods that were assumed in vain and pods whose binding and deletion
  the watch missed both (see above), and nodes that left and came back, which start without their
  pods.

### Behaviour the models describe as it is

* The partition wide map keeps the allocations of a removed node
  (`partition_info.go:268-302`), and `GetTotalAllocationCount` counts them.
* A limit that the new configuration no longer has stays (`queue_info.go:345-358`),
  a maximum inherited at the first load is not computed again, and children are
  checked before their parent has inherited its own, so that the comment at
  `initializer.go:164` ("child or children cannot have higher maximum or
  guaranteed limits than parents") need not hold of the result.
* A provided rule below a parent rule whose queue does not exist yet panics
  (`provided_rule.go:82`), in the example of `docs/placement_rules.md:175-185` too;
  so does a created queue whose name has an invalid part.
* `SortQueue` compares both queues by the guaranteed resource of the left one: with
  different guarantees the order is not one.
* A fixed rule takes every value that starts with "root" for qualified; a name of
  one part finds the root.
* The comment at `fixed_rule.go:35-37` says that dots in the value are replaced; the code keeps
  them and takes the value for several levels of queues.
* `acl_test.go:88-91` expects a user with a dot in the name to be left out of an ACL, but the expression
  at `acl.go:35` allows dots. The run `decisions` has such a user and follows the code.
* Two spaces in an ACL pass the check of the configuration and fail in `NewACL`; a
  filter type in capitals passes it and is taken for allow.
* A pod that is removed from a node which the external cache only knows through its pods
  is taken off it; whether `NodeInfo.RemovePod` of Kubernetes copes with the missing node
  is up to that library, and the model takes it to do nothing else.
* A node that is lost and comes back is not reported again, because its entry in
  `nodesMap` keeps its state (`nodes.go:101`), while the recovery design says it
  should be; the core was not told of the loss either, so the accounts agree.

## 6. Not modelled

* Preemption (`preemptor.go`, `drf_*.go`), off unless a partition enables it:
  victims are released before the proposal they make room for is checked
  (`cluster_info.go:504`).
* Registration of an RM and partitions that a configuration adds or drops
  (`cluster_info.go:445`: a failed registration answers twice).
* In the core, recovery of existing allocations as asks (`scheduler.go:236`).
* Events that the core drops when a channel of 1024*1024 is full
  (`cluster_info.go:138`).
* In the shim, a bind whose error hides a success (`task.go:227`), a pod deleted
  while recovery lists pods (`context_recovery.go:135`), the stop protocol.
* `FairnessRatio` and the conversions of resources, the cache of users and groups,
  the file watcher: no state that others depend on, or none but time.
* Logging, metrics, the web service, YAML parsing and the checks of its layout, gRPC,
  generated code, Kubernetes clients, the predicates themselves and the admission
  controller: I/O and conversions.

## 7. Plan

Done: `PartitionCache` and its proofs, `SchedulerCore`, `Shim` with `PodContract`,
`QueueTree`, `Resources`, `QueueLimits`, `Placement`, `Decisions`, `AssumeCache`.

Proved: what section 4 lists.

Left, in this order:

1. `Registration`: RM registration, partitions that come and go, the result
   channels between three services.
2. `Preemption`, over `Resources` and `QueueLimits`.
3. Recovery of the core: existing allocations replayed as asks.
