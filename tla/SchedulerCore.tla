---------------------------- MODULE SchedulerCore ----------------------------
(***************************************************************************)
(* The scheduler core around one partition: the event loops of the cache   *)
(* (ClusterInfo), the event loop and the scheduling loop of the scheduler, *)
(* and the channels between them and the resource manager.                 *)
(*                                                                         *)
(*     RM --Update--> cache --schedEvents--> scheduler                     *)
(*                    cache <--cacheEvents-- scheduler                     *)
(*     RM <--rmEvents-- cache, scheduler                                   *)
(*                                                                         *)
(* Four goroutines run concurrently:                                       *)
(*   "cacheRM"     ClusterInfo.handleRMEvents                              *)
(*   "cacheSched"  ClusterInfo.handleSchedulerEvents                       *)
(*   "schedEvent"  Scheduler.handleSchedulerEvent                          *)
(*   "schedule"    Scheduler.internalSchedule                              *)
(* A handler changes state under its locks and hands events to other       *)
(* channels after it has let go of them.  What a goroutine still has to    *)
(* send is its outbox; it does nothing else before the outbox is empty.    *)
(*                                                                         *)
(* The nodes are registered before the behaviours here begin and no        *)
(* placement rule is configured.                                           *)
(***************************************************************************)
EXTENDS PartitionCache

CONSTANTS
  Keys,           \* allocation keys
  AppOf,          \* AppOf[k]: the application that asks with key k
  Feasible,       \* Feasible[k]: the nodes that pass the predicates for k
  MaySubmit,      \* MaySubmit[app]: the queues its user may submit to
  NodeCapacity,   \* NodeCapacity[n]: the total resource of a node
  BatchSize,      \* asks taken in one scheduling round
  Repeats,        \* possible values of maxAllocations in an ask
  RmMay,          \* what the resource manager may do beyond the basics
  MaxUpdates,     \* bound: updates the resource manager sends
  NoKey, AllKeys, NoUuid, AllUuids

ASSUME CoreAssumption ==
  /\ IsFiniteSet(Nodes)
  /\ AppOf \in [Keys -> Apps]
  /\ Feasible \in [Keys -> SUBSET Nodes]
  /\ MaySubmit \in [Apps -> SUBSET Queues]
  /\ NodeCapacity \in [Nodes -> Nat]
  /\ Repeats \subseteq Nat
  /\ {BatchSize, MaxUpdates} \subseteq Nat
  /\ {NoKey, AllKeys} \cap Keys = {} /\ {NoUuid, AllUuids} \cap Uuids = {}
  /\ RmMay \subseteq {"askEarly", "askAgain", "releaseAsk", "releaseAlloc",
                      "releaseAll", "removeApp", "submitAgain"}

VARIABLES
  schedQueue,    \* SchedulingApplication.queue of the applications scheduled
  asks,          \* SchedulingRequests.requests
  appPending,    \* SchedulingRequests.totalPendingResource
  queuePending,  \* SchedulingQueue.pendingResource
  batch,         \* the candidates of the scheduling round
  placed,        \* ... and the ones that got a node
  phase,         \* where the scheduling round is
  updates,       \* RM updates whose goroutine has not reached the cache
  cacheEvents,   \* ClusterInfo.pendingSchedulerEvents
  schedEvents,   \* Scheduler.pendingSchedulerEvents
  rmEvents,      \* RMProxy.pendingRMEvents
  outbox,        \* what each goroutine still has to send
  allocKey,      \* AllocationProto.AllocationKey of every uuid handed out
  rmApp,         \* the RM's view of its applications
  rmAllocs,      \* the allocations the RM believes it has
  asked,         \* maxAllocations of the asks the RM sent, added up
  sent,          \* number of updates sent
  reused         \* history: an application id was submitted again

schedVars == <<schedQueue, asks, appPending, queuePending>>
roundVars == <<batch, placed, phase>>
channels  == <<updates, cacheEvents, schedEvents, rmEvents, outbox>>
rmVars    == <<rmApp, rmAllocs, asked, sent, reused>>
coreVars  == <<vars, schedVars, roundVars, channels, allocKey, rmVars>>

Threads == {"cacheRM", "cacheSched", "schedEvent", "schedule"}

(* An ask as the scheduler keeps it.  A key it does not know has no ask. *)
Ask   == [res : Sizes, max : Nat, pending : Nat]
NoAsk == [res |-> 0, max |-> 0, pending |-> 0 - 1]

(* The events of each channel. *)
ReleaseMsg == [kind : {"release"}, app : Apps, key : Keys \cup {NoKey, AllKeys},
               uuid : Uuids \cup {NoUuid, AllUuids}]
AskMsg     == [kind : {"ask"}, key : Keys, res : Sizes, n : Repeats]
UpdateMsg  == [kind : {"addApp"}, app : Apps, queue : QueueNames]
              \cup [kind : {"removeApp"}, app : Apps] \cup AskMsg \cup ReleaseMsg
SchedMsg   == [kind : {"addApp", "removeApp"}, app : Apps]
              \cup [kind : {"rejected"}, key : Keys] \cup AskMsg \cup ReleaseMsg
CacheMsg   == [kind : {"removedApp", "rejectedApp"}, app : Apps]
              \cup [kind : {"proposal"}, key : Keys, p : Proposal] \cup ReleaseMsg
RmMsg      == [kind : {"accepted", "rejected"}, app : Apps]
              \cup [kind : {"rejectedAsk"}, key : Keys]
              \cup [kind : {"allocated"}, uuid : Uuids]
              \cup [kind : {"released"}, uuids : SUBSET Uuids]

Known(k) == asks[k] # NoAsk
KeysOf(app) == { k \in Keys : AppOf[k] = app }

(* Every goroutine hands over the oldest event of its outbox, without a    *)
(* lock, and an event goes to the end of the channel it is meant for.      *)
ToCache(ev) == [to |-> "cache", ev |-> ev]
ToSched(ev) == [to |-> "sched", ev |-> ev]
ToRM(ev)    == [to |-> "rm", ev |-> ev]

Send(t) ==
  LET to(c) == IF Head(outbox[t]).to = c THEN <<Head(outbox[t]).ev>> ELSE <<>> IN
  /\ outbox[t] # <<>>
  /\ outbox'      = [outbox EXCEPT ![t] = Tail(@)]
  /\ cacheEvents' = cacheEvents \o to("cache")
  /\ schedEvents' = schedEvents \o to("sched")
  /\ rmEvents'    = rmEvents \o to("rm")
  /\ UNCHANGED <<vars, schedVars, roundVars, updates, allocKey, rmVars>>

Post(t, msgs) == outbox' = [outbox EXCEPT ![t] = msgs]

-----------------------------------------------------------------------------
(* The resource manager (external): any use of the interface that RmMay    *)
(* allows.  RMProxy.Update starts a goroutine for every update, so updates *)
(* reach the cache in any order.                                           *)
RmSend(msg) ==
  /\ sent < MaxUpdates
  /\ sent' = sent + 1
  /\ updates' = updates \cup {[id |-> sent, ev |-> msg]}
  /\ UNCHANGED <<vars, schedVars, roundVars, cacheEvents, schedEvents, rmEvents, outbox,
                 allocKey, rmAllocs>>

RmSubmit(app, q) ==
  /\ \/ rmApp[app] = "none"
     \/ rmApp[app] \in {"rejected", "removed"} /\ "submitAgain" \in RmMay
  /\ rmApp' = [rmApp EXCEPT ![app] = "submitted"]
  /\ RmSend([kind |-> "addApp", app |-> app, queue |-> q])
  /\ reused' = (reused \/ rmApp[app] # "none")
  /\ UNCHANGED asked

RmRemoveApp(app) ==
  /\ "removeApp" \in RmMay
  /\ rmApp[app] # "none"
  /\ rmApp' = [rmApp EXCEPT ![app] = "removed"]
  /\ RmSend([kind |-> "removeApp", app |-> app])
  /\ UNCHANGED <<asked, reused>>

RmAsk(k, r, n) ==
  /\ rmApp[AppOf[k]] \in {"accepted"} \cup (IF "askEarly" \in RmMay THEN {"submitted"} ELSE {})
  /\ asked[k] = 0 \/ "askAgain" \in RmMay
  /\ asked' = [asked EXCEPT ![k] = @ + n]
  /\ RmSend([kind |-> "ask", key |-> k, res |-> r, n |-> n])
  /\ UNCHANGED <<rmApp, reused>>

Release(app, k, u) == [kind |-> "release", app |-> app, key |-> k, uuid |-> u]

RmRelease(app, k, u) ==
  /\ \/ "releaseAsk" \in RmMay /\ k \in Keys /\ asked[k] > 0 /\ AppOf[k] = app /\ u = NoUuid
     \/ "releaseAlloc" \in RmMay /\ k = NoKey /\ u \in rmAllocs /\ AppOf[allocKey[u]] = app
     \/ "releaseAll" \in RmMay /\ k = AllKeys /\ u = AllUuids /\ rmApp[app] = "accepted"
  /\ RmSend(Release(app, k, u))
  /\ UNCHANGED <<rmApp, asked, reused>>

(* RMProxy.handleRMEvents calls RecvUpdateResponse of the RM. *)
RmReceive ==
  LET ev == Head(rmEvents) IN
  /\ rmEvents # <<>>
  /\ rmEvents' = Tail(rmEvents)
  /\ rmApp' = IF ev.kind \in {"accepted", "rejected"} /\ rmApp[ev.app] = "submitted"
              THEN [rmApp EXCEPT ![ev.app] = ev.kind] ELSE rmApp
  /\ rmAllocs' = CASE ev.kind = "allocated" -> rmAllocs \cup {ev.uuid}
                   [] ev.kind = "released"  -> rmAllocs \ ev.uuids
                   [] OTHER -> rmAllocs
  /\ UNCHANGED <<vars, schedVars, roundVars, updates, cacheEvents, schedEvents, outbox,
                 allocKey, asked, sent, reused>>

-----------------------------------------------------------------------------
(* ClusterInfo.handleRMEvents: the application is added and passed on to   *)
(* the scheduler, or rejected at once.                                     *)
CacheRMTake(u) ==
  /\ outbox["cacheRM"] = <<>>
  /\ updates' = updates \ {u}
  /\ UNCHANGED <<schedVars, roundVars, cacheEvents, schedEvents, rmEvents, allocKey, rmVars>>

CacheAddApp(u) ==
  /\ u.ev.kind = "addApp"
  /\ CacheRMTake(u)
  /\ \/ AddNewApplication(u.ev.app, u.ev.queue)
        /\ Post("cacheRM", <<ToSched([kind |-> "addApp", app |-> u.ev.app])>>)
     \/ (u.ev.app \in apps \/ partitionState # "Active")
        /\ Post("cacheRM", <<ToRM([kind |-> "rejected", app |-> u.ev.app])>>)
        /\ UNCHANGED vars

(* An ask of an application that does not exist is rejected and passed on  *)
(* to the scheduler all the same.                                          *)
CacheAsk(u) ==
  LET app == AppOf[u.ev.key] IN
  /\ u.ev.kind = "ask"
  /\ CacheRMTake(u)
  /\ Post("cacheRM", (IF app \in apps THEN <<>>
                      ELSE <<ToRM([kind |-> "rejectedAsk", key |-> u.ev.key])>>)
                     \o <<ToSched(u.ev)>>)
  /\ \/ RunApplication(app)
     \/ ~(app \in apps /\ appState[app] = "Accepted") /\ UNCHANGED vars

CachePassOn(u) ==
  /\ u.ev.kind \in {"removeApp", "release"}
  /\ CacheRMTake(u)
  /\ Post("cacheRM", <<ToSched(u.ev)>>)
  /\ UNCHANGED vars

-----------------------------------------------------------------------------
(* Pending resources of the scheduler, changed under the scheduler lock.   *)
(* IncPendingResource with a negative delta takes away.                    *)
IncPendingResource(q, delta) ==
  queuePending' = [p \in Queues |-> IF p \in PathTo[q] THEN queuePending[p] + delta
                                                       ELSE queuePending[p]]

UpdatePending(app, delta) ==
  /\ appPending' = [appPending EXCEPT ![app] = @ + delta]
  /\ IncPendingResource(schedQueue[app], delta)

PendingOf(k) == IF Known(k) THEN asks[k].res * asks[k].pending ELSE 0

Scheduled(app) == schedQueue[app] # NoQueue

(* Mutant: what the replaced ask had pending stays in the totals. *)
UpdateSchedulingRequestAddOnly(k, r, n) ==
  /\ asks' = [asks EXCEPT ![k] = [res |-> r, max |-> n, pending |-> n]]
  /\ UpdatePending(AppOf[k], r * n)
  /\ UNCHANGED schedQueue

(* AddAllocationAsk: a new ask, or one that replaces the ask with its key. *)
UpdateSchedulingRequest(k, r, n) ==
  /\ asks' = [asks EXCEPT ![k] = [res |-> r, max |-> n, pending |-> n]]
  /\ UpdatePending(AppOf[k], r * n - PendingOf(k))
  /\ UNCHANGED schedQueue

(* Mutant: the check against going below zero is missing. *)
CanUpdateRepeatUnchecked(k, delta) == Scheduled(AppOf[k]) /\ Known(k)

(* UpdateAllocationAskRepeat fails for an unknown application or key and   *)
(* below zero.                                                             *)
CanUpdateRepeat(k, delta) ==
  Scheduled(AppOf[k]) /\ Known(k) /\ asks[k].pending + delta >= 0

UpdateAskRepeat(k, delta) ==
  /\ asks' = [asks EXCEPT ![k].pending = @ + delta]
  /\ UpdatePending(AppOf[k], asks[k].res * delta)
  /\ UNCHANGED schedQueue

(* RemoveAllocationAsk with a key, or CleanupAllocationAsks for all.       *)
RemoveAllocationAsk(app, k) ==
  LET gone == IF k = AllKeys THEN KeysOf(app) ELSE {k} \cap KeysOf(app)
      delta == IF k = AllKeys THEN appPending[app] ELSE IF gone = {} THEN 0 ELSE PendingOf(k)
  IN
  /\ asks' = [j \in Keys |-> IF j \in gone THEN NoAsk ELSE asks[j]]
  /\ UpdatePending(app, 0 - delta)
  /\ UNCHANGED schedQueue

-----------------------------------------------------------------------------
(* Scheduler.handleSchedulerEvent *)
SchedTake(kind) ==
  /\ outbox["schedEvent"] = <<>>
  /\ schedEvents # <<>>
  /\ Head(schedEvents).kind = kind
  /\ schedEvents' = Tail(schedEvents)
  /\ UNCHANGED <<roundVars, updates, cacheEvents, rmEvents, allocKey, rmVars>>

(* Mutant: the RM is only told of applications that are accepted. *)
SchedAddAppSilent ==
  LET app == Head(schedEvents).app
      ok  == ~Scheduled(app) /\ leafQueue[app] \in Leaves /\ leafQueue[app] \in MaySubmit[app]
  IN
  /\ SchedTake("addApp")
  /\ \/ /\ ok
        /\ AcceptApplication(app, leafQueue[app])
        /\ schedQueue' = [schedQueue EXCEPT ![app] = leafQueue[app]]
        /\ Post("schedEvent", <<ToRM([kind |-> "accepted", app |-> app])>>)
     \/ /\ ~ok
        /\ RejectApplication(app)
        /\ Post("schedEvent", <<ToCache([kind |-> "rejectedApp", app |-> app])>>)
        /\ UNCHANGED schedQueue
  /\ UNCHANGED <<asks, appPending, queuePending>>

(* AddSchedulingApplication: only a leaf queue the user may submit to. *)
SchedAddApp ==
  LET app == Head(schedEvents).app
      ok  == ~Scheduled(app) /\ leafQueue[app] \in Leaves /\ leafQueue[app] \in MaySubmit[app]
  IN
  /\ SchedTake("addApp")
  /\ \/ /\ ok
        /\ AcceptApplication(app, leafQueue[app])
        /\ schedQueue' = [schedQueue EXCEPT ![app] = leafQueue[app]]
        /\ Post("schedEvent", <<ToRM([kind |-> "accepted", app |-> app])>>)
     \/ /\ ~ok
        /\ RejectApplication(app)
        /\ Post("schedEvent", <<ToCache([kind |-> "rejectedApp", app |-> app]),
                                ToRM([kind |-> "rejected", app |-> app])>>)
        /\ UNCHANGED schedQueue
  /\ UNCHANGED <<asks, appPending, queuePending>>

(* Mutant: the cache hears of the removal of an unknown application too. *)
SchedRemoveAppAlways ==
  LET app == Head(schedEvents).app IN
  /\ SchedTake("removeApp")
  /\ \/ /\ Scheduled(app)
        /\ schedQueue' = [schedQueue EXCEPT ![app] = NoQueue]
        /\ asks' = [k \in Keys |-> IF AppOf[k] = app THEN NoAsk ELSE asks[k]]
        /\ appPending' = [appPending EXCEPT ![app] = 0]
        /\ IncPendingResource(schedQueue[app], 0 - appPending[app])
     \/ ~Scheduled(app) /\ UNCHANGED schedVars
  /\ Post("schedEvent", <<ToCache([kind |-> "removedApp", app |-> app])>>)
  /\ UNCHANGED vars

(* RemoveSchedulingApplication: the queues get back what is pending. *)
SchedRemoveApp ==
  LET app == Head(schedEvents).app IN
  /\ SchedTake("removeApp")
  /\ \/ /\ Scheduled(app)
        /\ schedQueue' = [schedQueue EXCEPT ![app] = NoQueue]
        /\ asks' = [k \in Keys |-> IF AppOf[k] = app THEN NoAsk ELSE asks[k]]
        /\ appPending' = [appPending EXCEPT ![app] = 0]
        /\ IncPendingResource(schedQueue[app], 0 - appPending[app])
        /\ Post("schedEvent", <<ToCache([kind |-> "removedApp", app |-> app])>>)
     \/ ~Scheduled(app) /\ UNCHANGED <<schedVars, outbox>>
  /\ UNCHANGED vars

SchedAsk ==
  LET ev == Head(schedEvents) IN
  /\ SchedTake("ask")
  /\ \/ /\ Scheduled(AppOf[ev.key])
        /\ UpdateSchedulingRequest(ev.key, ev.res, ev.n)
        /\ UNCHANGED outbox
     \/ /\ ~Scheduled(AppOf[ev.key])
        /\ Post("schedEvent", <<ToRM([kind |-> "rejectedAsk", key |-> ev.key])>>)
        /\ UNCHANGED schedVars
  /\ UNCHANGED vars

(* Mutant: a refused proposal is forgotten. *)
SchedRejectedLost ==
  /\ SchedTake("rejected")
  /\ UNCHANGED <<vars, schedVars, outbox>>

(* The cache has refused a proposal: its ask is pending again. *)
SchedRejected ==
  LET k == Head(schedEvents).key IN
  /\ SchedTake("rejected")
  /\ \/ CanUpdateRepeat(k, 1) /\ UpdateAskRepeat(k, 1)
     \/ ~CanUpdateRepeat(k, 1) /\ UNCHANGED schedVars
  /\ UNCHANGED <<vars, outbox>>

(* Asks are removed here, then the release goes on to the cache. *)
SchedRelease ==
  LET ev == Head(schedEvents) IN
  /\ SchedTake("release")
  /\ \/ ev.key # NoKey /\ Scheduled(ev.app) /\ RemoveAllocationAsk(ev.app, ev.key)
     \/ ~(ev.key # NoKey /\ Scheduled(ev.app)) /\ UNCHANGED schedVars
  /\ Post("schedEvent", <<ToCache(ev)>>)
  /\ UNCHANGED vars

-----------------------------------------------------------------------------
(* Scheduler.singleStepSchedule *)

(* One unit of an ask as it was when the round picked it. *)
Candidate == [key : Keys, queue : Leaves, res : Sizes, i : 1 .. BatchSize]

(* What findAllocationAsks may pick: at most BatchSize units, not more of  *)
(* an ask than is pending, within the headroom of every queue on the path. *)
(* The order of queues, applications and asks is left open.                *)
Picked(count) ==
  UNION { { [key |-> k, queue |-> schedQueue[AppOf[k]], res |-> asks[k].res, i |-> i] :
              i \in 1 .. count[k] } : k \in Keys }

Proposing(q, count) ==
  queueAllocated[q] + Weight({ k \in Keys : count[k] > 0 /\ q \in PathTo[schedQueue[AppOf[k]]] },
                             [k \in Keys |-> asks[k].res * count[k]])

MayPick(count) ==
  /\ \A k \in Keys : count[k] > 0 => Known(k) /\ count[k] <= asks[k].pending
  /\ \A q \in Queues : MaxResource(q) # NoLimit => Proposing(q, count) <= MaxResource(q)
  /\ Cardinality(Picked(count)) <= BatchSize

(* An ask that failed before is left out while its bit of the step counter *)
(* is set; a round that leaves none out goes on until nothing more fits.   *)
FullPick(count) ==
  Cardinality(Picked(count)) < BatchSize =>
    \A k \in Keys : ~MayPick([count EXCEPT ![k] = @ + 1])

FindAllocationAsks(count) ==
  /\ phase = "find"
  /\ outbox["schedule"] = <<>>
  /\ queuePending[Root] > 0
  /\ MayPick(count)
  /\ Picked(count) # {}
  /\ batch' = Picked(count)
  /\ phase' = "place"
  /\ UNCHANGED <<vars, schedVars, placed, channels, allocKey, rmVars>>

(* tryBatchAllocation: what the nodes have available is read once; what    *)
(* the round has placed on a node counts, what is on its way to the cache  *)
(* from an earlier round does not.                                         *)
Placements(C) ==
  UNION { { { [c |-> c, node |-> f[c]] : c \in S } : f \in [S -> Nodes] } : S \in SUBSET C }

PlacedRes(P) == [x \in P |-> x.c.res]

(* Mutant: what the node holds already is not taken off. *)
MayPlaceOnTotal(P) ==
  \A n \in Nodes :
    LET here == { x \in P : x.node = n } IN
    /\ here # {} => n \in nodes
    /\ \A x \in here : n \in Feasible[x.c.key]
    /\ Weight(here, PlacedRes(P)) <= nodeTotal[n]

MayPlace(P) ==
  \A n \in Nodes :
    LET here == { x \in P : x.node = n } IN
    /\ here # {} => n \in nodes
    /\ \A x \in here : n \in Feasible[x.c.key]
    /\ nodeAllocated[n] + Weight(here, PlacedRes(P)) <= nodeTotal[n]

(* A candidate fails only when no node can take it. *)
FullPlacement(P) ==
  \A c \in batch : \A n \in Nodes :
    MayPlace(P \cup {[c |-> c, node |-> n]}) => \E x \in P : x.c = c

TryBatchAllocation(P) ==
  /\ phase = "place"
  /\ MayPlace(P)
  /\ FullPlacement(P)
  /\ placed' = P
  /\ batch' = {}
  /\ phase' = IF P = {} THEN "find" ELSE "confirm"
  /\ UNCHANGED <<vars, schedVars, channels, allocKey, rmVars>>

(* The pending ask is taken under the scheduler lock, then the proposal is *)
(* sent; an allocation whose ask is gone by now is dropped.                *)
ConfirmAllocation(x) ==
  LET k == x.c.key IN
  /\ phase = "confirm"
  /\ outbox["schedule"] = <<>>
  /\ placed' = placed \ {x}
  /\ phase' = IF placed = {x} THEN "find" ELSE "confirm"
  /\ \/ /\ CanUpdateRepeat(k, 0 - 1)
        /\ UpdateAskRepeat(k, 0 - 1)
        /\ Post("schedule",
                <<ToCache([kind |-> "proposal", key |-> k,
                           p |-> [app |-> AppOf[k], node |-> x.node, queue |-> x.c.queue,
                                  res |-> x.c.res]])>>)
     \/ ~CanUpdateRepeat(k, 0 - 1) /\ UNCHANGED <<schedVars, outbox>>
  /\ UNCHANGED <<vars, batch, updates, cacheEvents, schedEvents, rmEvents, allocKey, rmVars>>

-----------------------------------------------------------------------------
(* ClusterInfo.handleSchedulerEvents *)
CacheTake(kind) ==
  /\ outbox["cacheSched"] = <<>>
  /\ cacheEvents # <<>>
  /\ Head(cacheEvents).kind = kind
  /\ cacheEvents' = Tail(cacheEvents)
  /\ UNCHANGED <<schedVars, roundVars, updates, schedEvents, rmEvents, rmVars>>

(* A random uuid is never handed out twice.  Bound: nothing is allocated   *)
(* once every uuid has been handed out.                                    *)
Issued == { u \in Uuids : allocKey[u] # NoKey }
NextUuid == CHOOSE u \in Uuids \ Issued : TRUE

CacheProposal ==
  LET ev == Head(cacheEvents) IN
  /\ CacheTake("proposal")
  /\ \/ /\ Issued # Uuids
        /\ AddNewAllocation(ev.p)
        /\ \A a \in allocations' \ allocations : a.uuid = NextUuid
        /\ allocKey' = [allocKey EXCEPT ![NextUuid] = ev.key]
        /\ Post("cacheSched", <<ToRM([kind |-> "allocated", uuid |-> NextUuid])>>)
     \/ /\ ~CanAllocate(ev.p, FALSE)
        /\ Post("cacheSched", <<ToSched([kind |-> "rejected", key |-> ev.key])>>)
        /\ UNCHANGED <<vars, allocKey>>

Named(ev) ==
  IF ev.app \in apps
  THEN { a \in appAllocs[ev.app] : ev.uuid \in {a.uuid, AllUuids} } ELSE {}

CacheRelease ==
  LET R == Named(Head(cacheEvents)) IN
  /\ CacheTake("release")
  /\ \/ /\ ReleaseAllocations(Head(cacheEvents).app, R)
        /\ Post("cacheSched", <<ToRM([kind |-> "released", uuids |-> { a.uuid : a \in R }])>>)
     \/ R = {} /\ UNCHANGED <<vars, outbox>>
  /\ UNCHANGED allocKey

(* Mutant: the RM does not hear what went with the application. *)
CacheRemovedAppSilent ==
  /\ CacheTake("removedApp")
  /\ \/ RemoveApplication(Head(cacheEvents).app)
     \/ Head(cacheEvents).app \notin apps /\ UNCHANGED vars
  /\ UNCHANGED <<outbox, allocKey>>

(* Mutant: only the application object is dropped. *)
CacheRemovedAppDropOnly ==
  LET R == appAllocs[Head(cacheEvents).app] IN
  /\ CacheTake("removedApp")
  /\ DropApplication(Head(cacheEvents).app)
  /\ Post("cacheSched", IF R = {} THEN <<>>
                        ELSE <<ToRM([kind |-> "released", uuids |-> { a.uuid : a \in R }])>>)
  /\ UNCHANGED <<partitionState, nodeVars, allocations, queueAllocated, op, allocKey>>

CacheRemovedApp ==
  LET app == Head(cacheEvents).app
      R   == appAllocs[app] \cap allocations IN
  /\ CacheTake("removedApp")
  /\ \/ RemoveApplication(app)
     \/ app \notin apps /\ UNCHANGED vars
  /\ Post("cacheSched", IF R = {} THEN <<>>
                        ELSE <<ToRM([kind |-> "released", uuids |-> { a.uuid : a \in R }])>>)
  /\ UNCHANGED allocKey

(* RemoveRejectedApp, whatever state the application is in. *)
CacheRejectedApp ==
  LET app == Head(cacheEvents).app IN
  /\ CacheTake("rejectedApp")
  /\ DropApplication(app)
  /\ UNCHANGED <<partitionState, nodeVars, allocations, queueAllocated, op, allocKey, outbox>>

-----------------------------------------------------------------------------
CoreInit ==
  /\ partitionState = "Active"
  /\ nodes = Nodes
  /\ nodeTotal = NodeCapacity
  /\ total = Weight(Nodes, NodeCapacity)
  /\ nodeAllocs = [n \in Nodes |-> {}]
  /\ nodeAllocated = [n \in Nodes |-> 0]
  /\ apps = {}
  /\ appState = [a \in Apps |-> "New"]
  /\ leafQueue = [a \in Apps |-> NoQueue]
  /\ appAllocs = [a \in Apps |-> {}]
  /\ appAllocated = [a \in Apps |-> 0]
  /\ allocations = {}
  /\ queueAllocated = [q \in Queues |-> 0]
  /\ op = Idle
  /\ schedQueue = [a \in Apps |-> NoQueue]
  /\ asks = [k \in Keys |-> NoAsk]
  /\ appPending = [a \in Apps |-> 0]
  /\ queuePending = [q \in Queues |-> 0]
  /\ batch = {} /\ placed = {} /\ phase = "find"
  /\ updates = {} /\ cacheEvents = <<>> /\ schedEvents = <<>> /\ rmEvents = <<>>
  /\ outbox = [t \in Threads |-> <<>>]
  /\ allocKey = [u \in Uuids |-> NoKey]
  /\ rmApp = [a \in Apps |-> "none"]
  /\ rmAllocs = {}
  /\ asked = [k \in Keys |-> 0]
  /\ sent = 0
  /\ reused = FALSE

Counts == [Keys -> 0 .. BatchSize]

RM == \/ \E app \in Apps, q \in QueueNames : RmSubmit(app, q)
      \/ \E app \in Apps : RmRemoveApp(app)
      \/ \E k \in Keys, r \in Sizes, n \in Repeats : RmAsk(k, r, n)
      \/ \E app \in Apps, k \in Keys \cup {NoKey, AllKeys}, u \in Uuids \cup {NoUuid, AllUuids} :
           RmRelease(app, k, u)

CacheRM == \E u \in updates : CacheAddApp(u) \/ CacheAsk(u) \/ CachePassOn(u)

SchedEvent == SchedAddApp \/ SchedRemoveApp \/ SchedAsk \/ SchedRejected \/ SchedRelease

CacheSched == CacheProposal \/ CacheRelease \/ CacheRemovedApp \/ CacheRejectedApp

Find  == \E count \in Counts : FindAllocationAsks(count)
Place == \E P \in Placements(batch) : TryBatchAllocation(P)
Confirm == \E x \in placed : ConfirmAllocation(x)

(* Nothing is on its way and nothing is pending. *)
Quiet ==
  /\ updates = {} /\ cacheEvents = <<>> /\ schedEvents = <<>> /\ rmEvents = <<>>
  /\ \A t \in Threads : outbox[t] = <<>>
  /\ phase = "find"
  /\ UNCHANGED coreVars

CoreNext ==
  \/ RM \/ RmReceive
  \/ \E t \in Threads : Send(t)
  \/ CacheRM \/ CacheSched \/ SchedEvent
  \/ Find \/ Place \/ Confirm
  \/ Quiet

CoreSpec == CoreInit /\ [][CoreNext]_coreVars

(* The goroutines loop for ever and no loop blocks another.  The step      *)
(* counter passes a multiple of every wait value again and again, so again *)
(* and again a round leaves no ask out.  Nothing makes the RM go on.       *)
FullFind == \E count \in Counts : FullPick(count) /\ FindAllocationAsks(count)

Fairness ==
  /\ \A t \in Threads : WF_coreVars(Send(t))
  /\ WF_coreVars(RmReceive) /\ WF_coreVars(CacheRM) /\ WF_coreVars(CacheSched)
  /\ WF_coreVars(SchedEvent) /\ WF_coreVars(Place) /\ WF_coreVars(Confirm)
  /\ SF_coreVars(FullFind)

FairCoreSpec == CoreSpec /\ Fairness

-----------------------------------------------------------------------------
(* Properties *)

(* The events of one kind on their way through a channel: still in the     *)
(* outbox of a goroutine or already in the channel.                        *)
Transit(t, channel, kind) ==
  LET seq == channel \o [i \in DOMAIN outbox[t] |-> outbox[t][i].ev] IN
  { <<i, seq[i]>> : i \in { j \in DOMAIN seq : seq[j].kind = kind } }

(* Every variable of the scheduler and every event has its type; nothing   *)
(* pending goes below zero ("TODO we can go negative here").               *)
CoreTypeOK ==
  /\ TypeOK
  /\ schedQueue \in [Apps -> Leaves \cup {NoQueue}]
  /\ asks \in [Keys -> Ask \cup {NoAsk}]
  /\ appPending \in [Apps -> Nat]
  /\ queuePending \in [Queues -> Nat]
  /\ batch \subseteq Candidate
  /\ placed \subseteq [c : Candidate, node : Nodes]
  /\ phase \in {"find", "place", "confirm"}
  /\ updates \subseteq [id : 0 .. MaxUpdates, ev : UpdateMsg]
  /\ cacheEvents \in Seq(CacheMsg)
  /\ schedEvents \in Seq(SchedMsg)
  /\ rmEvents \in Seq(RmMsg)
  /\ outbox \in [Threads -> Seq([to : {"cache"}, ev : CacheMsg]
                                 \cup [to : {"sched"}, ev : SchedMsg]
                                 \cup [to : {"rm"}, ev : RmMsg])]
  /\ allocKey \in [Uuids -> Keys \cup {NoKey}]
  /\ rmApp \in [Apps -> {"none", "submitted", "accepted", "rejected", "removed"}]
  /\ rmAllocs \subseteq Uuids
  /\ asked \in [Keys -> Nat]
  /\ sent \in 0 .. MaxUpdates
  /\ reused \in BOOLEAN

(* Whatever the RM sends: what an application and every queue above it     *)
(* have pending is the sum over the asks, although asks are replaced,      *)
(* confirmed, refused and removed by different goroutines.                 *)
PendingAccounting ==
  LET w == [k \in Keys |-> PendingOf(k)] IN
  /\ \A app \in Apps : appPending[app] = Weight(KeysOf(app), w)
  /\ \A q \in Queues :
       queuePending[q] = Weight({ k \in Keys : /\ Scheduled(AppOf[k])
                                               /\ q \in PathTo[schedQueue[AppOf[k]]] }, w)

(* Whatever the RM sends: an application the cache knows is in the hands   *)
(* of exactly one: it is on its way to the scheduler, it is scheduled, or  *)
(* the scheduler has given it up and the cache is about to hear of it.  An *)
(* application the cache does not know is nowhere.                         *)
AppInOnePlace ==
  \A app \in Apps :
    Cardinality({ x \in Transit("cacheRM", schedEvents, "addApp") : x[2].app = app })
    + (IF Scheduled(app) THEN 1 ELSE 0)
    + Cardinality({ x \in Transit("schedEvent", cacheEvents, "removedApp")
                          \cup Transit("schedEvent", cacheEvents, "rejectedApp") :
                      x[2].app = app })
    = (IF app \in apps THEN 1 ELSE 0)

(* As long as no application id is used twice: once it has received what   *)
(* is on its way, the RM believes in exactly the allocations the cache     *)
(* holds.                                                                  *)
RmViewConsistent ==
  reused \/
  (rmAllocs \cup { x[2].uuid : x \in Transit("cacheSched", rmEvents, "allocated") })
    \ UNION { x[2].uuids : x \in Transit("cacheSched", rmEvents, "released") }
  = { a.uuid : a \in Live }

InFlight(k) ==
  Cardinality({ x \in Transit("schedule", cacheEvents, "proposal") : x[2].key = k })
  + Cardinality({ x \in Transit("cacheSched", schedEvents, "rejected") : x[2].key = k })

IssuedFor(k) == Cardinality({ u \in Uuids : allocKey[u] = k })

(* When every key is asked for once, no unit of an ask is lost or served   *)
(* twice: it is pending, proposed, on its way back, or allocated.          *)
AskConserved ==
  \A k \in Keys : Known(k) => asks[k].pending + InFlight(k) + IssuedFor(k) = asked[k]

(* The promise the cache relies on, kept as long as no application id is   *)
(* used twice: every step of the core is a step of the partition with      *)
(* proposals only for accepted applications, in the queue they run in, and *)
(* no rejected application holds anything.                                 *)
Cache == INSTANCE PartitionCache WITH ProposalsFit <- TRUE, ReportsWait <- TRUE,
                                      ReportsOwn <- TRUE
CacheContractKept == [][reused' \/ Cache!Next]_vars

(* Every application the RM submits is accepted or rejected. *)
AppAnswered ==
  \A app \in Apps : rmApp[app] = "submitted" ~> rmApp[app] # "submitted"

(* When the nodes and queues can hold what is asked for, every ask gets    *)
(* all of its allocations, although proposals made on a stale view are     *)
(* refused on the way.                                                     *)
AsksServed ==
  \A k \in Keys : asked[k] > 0 ~> IssuedFor(k) = asked[k]
=============================================================================
