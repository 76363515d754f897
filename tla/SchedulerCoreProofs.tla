------------------------- MODULE SchedulerCoreProofs -------------------------
(***************************************************************************)
(* Proofs about SchedulerCore, for every number of applications, asks,     *)
(* nodes and updates and whatever the resource manager sends.  CoreInv is  *)
(* the inductive invariant: the cache keeps CacheInv inside the core, and  *)
(* the pending counters are the sums over the asks.  FlowInv is about what *)
(* is on its way: an application, an ask and an allocation are counted in  *)
(* the channels, in the outboxes of the goroutines and in the state of     *)
(* both sides, and no step of any goroutine loses one or makes a second    *)
(* one of it.                                                              *)
(***************************************************************************)
EXTENDS SchedulerCore, PartitionCacheProofs, FiniteSetTheorems, SequenceTheorems

(* The parts of CoreTypeOK: scheduler, scheduling round, channels, RM. *)
SchedTypes ==
  /\ schedQueue \in [Apps -> Leaves \cup {NoQueue}]
  /\ asks \in [Keys -> Ask \cup {NoAsk}]
  /\ appPending \in [Apps -> Nat]
  /\ queuePending \in [Queues -> Nat]

RoundTypes ==
  /\ batch \subseteq Candidate
  /\ placed \subseteq [c : Candidate, node : Nodes]
  /\ phase \in {"find", "place", "confirm"}

Envelope == [to : {"cache"}, ev : CacheMsg] \cup [to : {"sched"}, ev : SchedMsg]
            \cup [to : {"rm"}, ev : RmMsg]

ChannelTypes ==
  /\ updates \subseteq [id : 0 .. MaxUpdates, ev : UpdateMsg]
  /\ cacheEvents \in Seq(CacheMsg)
  /\ schedEvents \in Seq(SchedMsg)
  /\ rmEvents \in Seq(RmMsg)
  /\ outbox \in [Threads -> Seq(Envelope)]

RmTypes ==
  /\ rmApp \in [Apps -> {"none", "submitted", "accepted", "rejected", "removed"}]
  /\ rmAllocs \subseteq Uuids
  /\ asked \in [Keys -> Nat]
  /\ sent \in 0 .. MaxUpdates
  /\ reused \in BOOLEAN

KeyTypes == allocKey \in [Uuids -> Keys \cup {NoKey}]

(* CoreTypeOK by its parts: partition, scheduler, round, channels, RM. *)
LEMMA CoreTypeParts ==
  CoreTypeOK <=> TypeOK /\ SchedTypes /\ RoundTypes /\ ChannelTypes /\ RmTypes /\ KeyTypes
BY DEF CoreTypeOK, SchedTypes, RoundTypes, ChannelTypes, RmTypes, KeyTypes, Envelope

(* Only an application that is scheduled has asks. *)
AsksScheduled == \A k \in Keys : Known(k) => Scheduled(AppOf[k])

(* What PendingAccounting sums: the weights, and the asks below a queue. *)
Pending == [k \in Keys |-> PendingOf(k)]
Waiting(q) == { k \in Keys : Scheduled(AppOf[k]) /\ q \in PathTo[schedQueue[AppOf[k]]] }

PendingInv ==
  /\ SchedTypes
  /\ AsksScheduled
  /\ Weighable(Keys, Pending)
  /\ \A app \in Apps : appPending[app] = Weight(KeysOf(app), Pending)
  /\ \A q \in Queues : queuePending[q] = Weight(Waiting(q), Pending)

CoreInv ==
  /\ CacheInv /\ op = Idle
  /\ PendingInv
  /\ RoundTypes /\ ChannelTypes /\ RmTypes /\ KeyTypes

(* The inductive invariant says that the types hold and that pending
   resources add up. *)
LEMMA CoreInvImplies == CoreInv => CoreTypeOK /\ PendingAccounting
BY CoreTypeParts DEF CoreInv, PendingInv, CacheInv, PendingAccounting, Pending, Waiting

-----------------------------------------------------------------------------
(* Events: what the kind of an event says about its fields. *)
LEMMA UpdateFields ==
  ASSUME NEW ev \in UpdateMsg
  PROVE  /\ ev.kind = "addApp" => ev.app \in Apps /\ ev.queue \in QueueNames
         /\ ev.kind = "removeApp" => ev \in SchedMsg /\ ev.app \in Apps
         /\ ev.kind = "release" => ev \in SchedMsg
         /\ ev.kind = "ask" => ev \in SchedMsg /\ ev.key \in Keys
BY DEF UpdateMsg, SchedMsg, AskMsg, ReleaseMsg

(* The events of Scheduler.HandleEvent. *)
LEMMA SchedFields ==
  ASSUME NEW ev \in SchedMsg
  PROVE  /\ ev.kind \in {"addApp", "removeApp"} => ev.app \in Apps
         /\ ev.kind = "rejected" => ev.key \in Keys
         /\ ev.kind = "ask" => ev.key \in Keys /\ ev.res \in Sizes /\ ev.n \in Repeats
         /\ ev.kind = "release" => /\ ev \in CacheMsg /\ ev.app \in Apps
                                   /\ ev.key \in Keys \cup {NoKey, AllKeys}
BY DEF SchedMsg, CacheMsg, AskMsg, ReleaseMsg

(* The events the cache takes from the scheduler. *)
LEMMA CacheFields ==
  ASSUME NEW ev \in CacheMsg
  PROVE  /\ ev.kind \in {"removedApp", "rejectedApp"} => ev.app \in Apps
         /\ ev.kind = "proposal" => ev.key \in Keys /\ ev.p \in Proposal
         /\ ev.kind = "release" => /\ ev.app \in Apps
                                   /\ ev.uuid \in Uuids \cup {NoUuid, AllUuids}
BY DEF CacheMsg, ReleaseMsg

(* The events RMProxy handles. *)
LEMMA RmFields ==
  ASSUME NEW ev \in RmMsg
  PROVE  /\ ev.kind \in {"accepted", "rejected"} => ev.app \in Apps
         /\ ev.kind = "allocated" => ev.uuid \in Uuids
         /\ ev.kind = "released" => ev.uuids \subseteq Uuids
BY DEF RmMsg

(* What the handlers post. *)
LEMMA PostedEvents ==
  /\ \A app \in Apps : /\ ToSched([kind |-> "addApp", app |-> app]) \in Envelope
                       /\ ToRM([kind |-> "rejected", app |-> app]) \in Envelope
                       /\ ToRM([kind |-> "accepted", app |-> app]) \in Envelope
                       /\ ToCache([kind |-> "removedApp", app |-> app]) \in Envelope
                       /\ ToCache([kind |-> "rejectedApp", app |-> app]) \in Envelope
  /\ \A k \in Keys : /\ ToRM([kind |-> "rejectedAsk", key |-> k]) \in Envelope
                     /\ ToSched([kind |-> "rejected", key |-> k]) \in Envelope
  /\ \A u \in Uuids : ToRM([kind |-> "allocated", uuid |-> u]) \in Envelope
  /\ \A U \in SUBSET Uuids : ToRM([kind |-> "released", uuids |-> U]) \in Envelope
  /\ \A ev \in SchedMsg : ToSched(ev) \in Envelope
  /\ \A ev \in CacheMsg : ToCache(ev) \in Envelope
BY DEF Envelope, ToSched, ToRM, ToCache, SchedMsg, CacheMsg, RmMsg

(* A goroutine's outbox holds what it posts. *)
LEMMA PostTypes ==
  ASSUME ChannelTypes, NEW t \in Threads, NEW msgs \in Seq(Envelope), Post(t, msgs)
  PROVE  outbox' \in [Threads -> Seq(Envelope)]
BY DEF ChannelTypes, Post

(* A handler that posts one event. *)
LEMMA PostOne ==
  ASSUME ChannelTypes, NEW t \in Threads, NEW e \in Envelope, Post(t, <<e>>)
  PROVE  outbox' \in [Threads -> Seq(Envelope)]
<1>1. <<e>> \in Seq(Envelope)
  OBVIOUS
<1> QED
  BY <1>1, PostTypes

-----------------------------------------------------------------------------
(* The pending resources.                                                  *)

(* An ask is pending a natural amount, and nothing once it is unknown. *)
LEMMA PendingNat ==
  ASSUME SchedTypes, NEW k \in Keys
  PROVE  PendingOf(k) \in Nat /\ (~Known(k) => PendingOf(k) = 0) /\ (Known(k) => asks[k] \in Ask)
<1>1. asks[k] \in Ask => asks[k].res \in Nat /\ asks[k].pending \in Nat
  BY SizeAssumption DEF Ask
<1>2. asks[k] \in Ask => asks[k].res * asks[k].pending \in Nat
  BY <1>1
<1> QED
  BY <1>2 DEF SchedTypes, Known, PendingOf

(* The sum over any asks is defined when the sum over all is. *)
LEMMA PendingPart ==
  ASSUME PendingInv, NEW T, T \subseteq Keys
  PROVE  Weighable(T, Pending) /\ Weight(T, Pending) \in Nat
BY WeightSplit, WeightType DEF PendingInv

(* Nothing changes while the scheduler's variables stay. *)
LEMMA PendingSame ==
  ASSUME PendingInv, UNCHANGED schedVars
  PROVE  PendingInv'
<1>1. \A k \in Keys : PendingOf(k)' = PendingOf(k) /\ Known(k)' = Known(k)
  BY DEF schedVars, PendingOf, Known
<1>2. Pending' = Pending
  BY <1>1 DEF Pending
<1>3. \A q \in Queues : Waiting(q)' = Waiting(q)
  BY DEF schedVars, Waiting, Scheduled
<1>4. SchedTypes' /\ AsksScheduled'
  BY <1>1 DEF schedVars, PendingInv, SchedTypes, AsksScheduled, Scheduled
<1>5. Weighable(Keys, Pending)' /\ \A app \in Apps : appPending'[app] = Weight(KeysOf(app), Pending)'
  BY <1>2, Zenon DEF schedVars, PendingInv, KeysOf
<1>6. \A q \in Queues : queuePending'[q] = Weight(Waiting(q), Pending)'
  BY <1>2, <1>3, Zenon DEF schedVars, PendingInv
<1> QED
  BY <1>4, <1>5, <1>6, Zenon DEF PendingInv, KeysOf

(* The counters after a change of asks of one scheduled application, when  *)
(* its sum changes by delta and no other term changes.                     *)
LEMMA PendingChanged ==
  ASSUME PendingInv, NEW app \in Apps, Scheduled(app), NEW delta \in Int,
         UpdatePending(app, delta), UNCHANGED schedQueue,
         asks' \in [Keys -> Ask \cup {NoAsk}],
         \A k \in Keys \ KeysOf(app) : asks'[k] = asks[k],
         Weighable(KeysOf(app), Pending'),
         Weight(KeysOf(app), Pending') = Weight(KeysOf(app), Pending) + delta
  PROVE  PendingInv'
<1> DEFINE K == KeysOf(app)
           v == Pending'
           d == Weight(K, v)
<1>1. /\ appPending' = [appPending EXCEPT ![app] = @ + delta]
      /\ queuePending' = [p \in Queues |-> IF p \in PathTo[schedQueue[app]]
                                           THEN queuePending[p] + delta ELSE queuePending[p]]
      /\ schedQueue' = schedQueue
  BY DEF UpdatePending, IncPendingResource
<1>2. K \subseteq Keys /\ \A k \in K : AppOf[k] = app
  BY DEF KeysOf
<1>3. \A k \in Keys \ K : Pending'[k] = Pending[k]
  BY DEF Pending, PendingOf, Known
<1>4. ASSUME NEW S, S \subseteq Keys \ K
      PROVE  Weighable(S, Pending') /\ Weight(S, Pending') = Weight(S, Pending)
  <2>1. Weighable(S, Pending)
    BY <1>4, PendingPart
  <2>2. UnitsOf(S, Pending') = UnitsOf(S, Pending) /\ Weight(S, Pending') = Weight(S, Pending)
    BY <1>3, <1>4, WeightCong
  <2> QED
    BY <2>1, <2>2, Zenon DEF Weighable
<1>5. ASSUME NEW S, K \subseteq S, S \subseteq Keys
      PROVE  /\ Weighable(S, Pending')
             /\ Weight(S, Pending') = Weight(S, Pending) + delta
             /\ Weight(S, Pending') \in Nat
  <2> DEFINE L == S \ K
  <2>1. L \subseteq Keys \ K /\ S = K \cup L /\ K \cap L = {}
    BY <1>5
  <2>2. Weighable(L, Pending) /\ Weighable(K, Pending) /\ Weight(L, Pending) \in Nat
        /\ Weight(K, Pending) \in Nat
    BY <1>2, <2>1, PendingPart
  <2> HIDE DEF L, K
  <2>3. Weighable(L, Pending') /\ Weight(L, Pending') = Weight(L, Pending)
    BY <1>4, <2>1
  <2>4. Weight(K \cup L, Pending) = Weight(K, Pending) + Weight(L, Pending)
    <3>1. K \cap L = {} /\ Weighable(K, Pending) /\ Weighable(L, Pending)
      BY <2>1, <2>2
    <3> QED
      BY <3>1, WeightUnion
  <2>5. Weighable(K, Pending') /\ Weight(K, Pending') = Weight(K, Pending) + delta
    BY DEF K
  <2>6. Weighable(K \cup L, Pending') /\ Weight(K \cup L, Pending') = Weight(K, Pending') + Weight(L, Pending')
    BY <2>1, <2>3, <2>5, WeightUnion
  <2>7. Weight(K \cup L, Pending') = Weight(K \cup L, Pending) + delta
    BY <2>2, <2>3, <2>4, <2>5, <2>6
  <2>8. Weight(K \cup L, Pending') \in Nat
    BY <2>6, WeightType
  <2> QED
    BY <2>1, <2>6, <2>7, <2>8, Zenon
<1>6. Weighable(Keys, Pending')
  BY <1>2, <1>5
<1>7. ASSUME NEW a \in Apps
      PROVE  appPending'[a] = Weight(KeysOf(a), Pending') /\ appPending'[a] \in Nat
  <2>1. appPending \in [Apps -> Nat] /\ appPending[a] = Weight(KeysOf(a), Pending)
    BY DEF PendingInv, SchedTypes
  <2>2. CASE a = app
    <3>1. Weight(KeysOf(a), Pending') = Weight(KeysOf(a), Pending) + delta
          /\ Weight(KeysOf(a), Pending') \in Nat
      BY <1>2, <1>5, <2>2
    <3> QED
      BY <1>1, <2>1, <2>2, <3>1
  <2>3. CASE a # app
    <3>1. KeysOf(a) \subseteq Keys \ K
      BY <2>3 DEF KeysOf
    <3>2. Weight(KeysOf(a), Pending') = Weight(KeysOf(a), Pending)
      BY <1>4, <3>1
    <3>3. appPending'[a] = appPending[a]
      BY <1>1, <2>1, <2>3
    <3> QED
      BY <2>1, <3>2, <3>3
  <2> QED
    BY <2>2, <2>3
<1>8. ASSUME NEW q \in Queues
      PROVE  /\ Waiting(q)' = Waiting(q)
             /\ queuePending'[q] = Weight(Waiting(q), Pending') /\ queuePending'[q] \in Nat
  <2>1. queuePending \in [Queues -> Nat] /\ queuePending[q] = Weight(Waiting(q), Pending)
    BY DEF PendingInv, SchedTypes
  <2>2. Waiting(q)' = Waiting(q) /\ Waiting(q) \subseteq Keys
    BY <1>1 DEF Waiting, Scheduled
  <2>3. CASE q \in PathTo[schedQueue[app]]
    <3>1. K \subseteq Waiting(q)
      BY <2>3 DEF Waiting, KeysOf
    <3>2. /\ Weight(Waiting(q), Pending') = Weight(Waiting(q), Pending) + delta
          /\ Weight(Waiting(q), Pending') \in Nat
      BY <1>5, <2>2, <3>1
    <3>3. queuePending'[q] = queuePending[q] + delta
      BY <1>1, <2>3
    <3> QED
      BY <2>1, <2>2, <3>2, <3>3
  <2>4. CASE q \notin PathTo[schedQueue[app]]
    <3>1. Waiting(q) \subseteq Keys \ K
      BY <2>4 DEF Waiting, KeysOf
    <3>2. Weight(Waiting(q), Pending') = Weight(Waiting(q), Pending)
      BY <1>4, <3>1
    <3>3. queuePending'[q] = queuePending[q]
      BY <1>1, <2>4
    <3> QED
      BY <2>1, <2>2, <3>2, <3>3
  <2> QED
    BY <2>3, <2>4
<1>9. SchedTypes'
  <2>1. appPending' \in [Apps -> Nat]
    BY <1>1, <1>7 DEF PendingInv, SchedTypes
  <2>2. queuePending' \in [Queues -> Nat]
    BY <1>1, <1>8
  <2> QED
    BY <1>1, <2>1, <2>2 DEF PendingInv, SchedTypes
<1>10. AsksScheduled'
  BY <1>1, <1>2 DEF PendingInv, AsksScheduled, Known, Scheduled, KeysOf
<1>11. \A q \in Queues : queuePending'[q] = Weight(Waiting(q)', Pending')
  BY <1>8, Zenon
<1> QED
  BY <1>6, <1>7, <1>9, <1>10, <1>11, Zenon DEF PendingInv, KeysOf

(* An ask is added, replaced, or its repeat changes. *)
LEMMA OneAsk ==
  ASSUME PendingInv, NEW k \in Keys, NEW new \in Ask, Scheduled(AppOf[k]),
         asks' = [asks EXCEPT ![k] = new],
         UpdatePending(AppOf[k], new.res * new.pending - PendingOf(k)), UNCHANGED schedQueue
  PROVE  PendingInv'
<1> DEFINE app == AppOf[k]
           K == KeysOf(app)
           delta == new.res * new.pending - PendingOf(k)
<1>1. app \in Apps /\ k \in K /\ K \subseteq Keys
  BY CoreAssumption DEF KeysOf
<1>2. asks \in [Keys -> Ask \cup {NoAsk}]
  BY DEF PendingInv, SchedTypes
<1>3. asks' \in [Keys -> Ask \cup {NoAsk}] /\ asks'[k] = new /\ \A j \in Keys \ {k} : asks'[j] = asks[j]
  BY <1>2
<1>4. new # NoAsk /\ new.res * new.pending \in Nat
  <2>1. new.res \in Nat /\ new.pending \in Nat
    BY SizeAssumption DEF Ask
  <2> QED
    BY <2>1 DEF NoAsk
<1>5. Pending[k] \in Nat /\ Pending[k] = PendingOf(k)
  BY PendingNat DEF Pending, PendingInv
<1>6. Pending'[k] = new.res * new.pending
  BY <1>3, <1>4 DEF Pending, PendingOf, Known
<1>7. \A j \in K \ {k} : Pending'[j] = Pending[j]
  BY <1>1, <1>3 DEF Pending, PendingOf, Known
<1>8. Weighable(K, Pending)
  BY <1>1, PendingPart
<1>9. delta \in Int /\ Pending'[k] - Pending[k] = delta
  BY <1>4, <1>5, <1>6
<1> HIDE DEF delta
<1>10. /\ Weighable(K, Pending')
       /\ Weight(K, Pending') = Weight(K, Pending) + (Pending'[k] - Pending[k])
  <2> HIDE DEF K
  <2>1. Pending'[k] \in Nat
    BY <1>4, <1>6
  <2>2. PICK v, w : v = Pending' /\ w = Pending
    OBVIOUS
  <2>3. /\ k \in K /\ Weighable(K, w) /\ v[k] \in Nat /\ w[k] \in Nat
        /\ \A j \in K \ {k} : v[j] = w[j]
    BY <1>1, <1>5, <1>7, <1>8, <2>1, <2>2, Zenon
  <2>4. Weighable(K, v) /\ Weight(K, v) = Weight(K, w) + (v[k] - w[k])
    BY <2>3, WeightUpdate
  <2> QED
    BY <2>2, <2>4, Zenon
<1>11. Weight(K, Pending') = Weight(K, Pending) + delta
  BY <1>9, <1>10
<1>12. UpdatePending(app, delta)
  BY DEF delta
<1>13. \A j \in Keys \ KeysOf(app) : asks'[j] = asks[j]
  BY <1>1, <1>3
<1> HIDE DEF app
<1> QED
  BY <1>1, <1>3, <1>9, <1>10, <1>11, <1>12, <1>13, PendingChanged DEF app

(* UpdateSchedulingRequest and UpdateAskRepeat are such changes. *)
LEMMA UpdateSchedulingRequestPending ==
  ASSUME PendingInv, NEW k \in Keys, NEW r \in Sizes, NEW n \in Repeats, Scheduled(AppOf[k]),
         UpdateSchedulingRequest(k, r, n)
  PROVE  PendingInv'
<1> DEFINE new == [res |-> r, max |-> n, pending |-> n]
<1>1. new \in Ask /\ new.res = r /\ new.pending = n
  BY CoreAssumption DEF Ask
<1>2. /\ asks' = [asks EXCEPT ![k] = new]
      /\ UpdatePending(AppOf[k], new.res * new.pending - PendingOf(k))
      /\ UNCHANGED schedQueue
  BY DEF UpdateSchedulingRequest
<1> HIDE DEF new
<1> QED
  BY <1>1, <1>2, OneAsk

(* UpdateAskRepeat: the ask counts for what it has pending before and after. *)
LEMMA UpdateAskRepeatPending ==
  ASSUME PendingInv, NEW k \in Keys, NEW delta \in Int, CanUpdateRepeat(k, delta),
         UpdateAskRepeat(k, delta)
  PROVE  PendingInv'
<1> DEFINE new == [asks[k] EXCEPT !.pending = @ + delta]
<1>1. asks[k] \in Ask /\ asks[k].res \in Nat /\ asks[k].pending \in Nat
  BY PendingNat, SizeAssumption DEF CanUpdateRepeat, PendingInv, Ask
<1>2. new \in Ask /\ new.res = asks[k].res /\ new.pending = asks[k].pending + delta
  BY <1>1 DEF Ask, CanUpdateRepeat
<1>3. PendingOf(k) = asks[k].res * asks[k].pending
  BY DEF PendingOf, CanUpdateRepeat
<1>4. asks[k].res * delta = asks[k].res * (asks[k].pending + delta) - asks[k].res * asks[k].pending
  BY <1>1
<1>5. UpdatePending(AppOf[k], new.res * new.pending - PendingOf(k))
  BY <1>2, <1>3, <1>4, Zenon DEF UpdateAskRepeat
<1>6. asks' = [asks EXCEPT ![k] = new] /\ UNCHANGED schedQueue
  BY DEF UpdateAskRepeat, PendingInv, SchedTypes
<1> HIDE DEF new
<1>7. Scheduled(AppOf[k])
  BY DEF CanUpdateRepeat
<1> QED
  BY <1>2, <1>5, <1>6, <1>7, OneAsk

(* Asks of a scheduled application go away, with what they have pending. *)
LEMMA AsksGone ==
  ASSUME PendingInv, NEW app \in Apps, Scheduled(app), NEW gone, gone \subseteq KeysOf(app),
         asks' = [j \in Keys |-> IF j \in gone THEN NoAsk ELSE asks[j]],
         UpdatePending(app, 0 - Weight(gone, Pending)), UNCHANGED schedQueue
  PROVE  PendingInv'
<1> DEFINE K == KeysOf(app)
           delta == 0 - Weight(gone, Pending)
<1>1. K \subseteq Keys /\ gone \subseteq K
  BY DEF KeysOf
<1>2. asks' \in [Keys -> Ask \cup {NoAsk}] /\ \A j \in Keys \ K : asks'[j] = asks[j]
  BY DEF PendingInv, SchedTypes
<1>3. \A j \in K \ gone : Pending'[j] = Pending[j]
  BY <1>1 DEF Pending, PendingOf, Known
<1>4. \A j \in gone : Pending'[j] = 0
  BY <1>1 DEF Pending, PendingOf, Known
<1>5. Weighable(K, Pending)
  BY <1>1, PendingPart
<1> HIDE DEF K
<1>6. /\ Weighable(K, Pending')
      /\ Weight(K, Pending') = Weight(K, Pending) - Weight(gone, Pending)
      /\ Weight(gone, Pending) \in Nat /\ Weight(K, Pending) \in Nat
  <2>1. PICK v, w : v = Pending' /\ w = Pending
    OBVIOUS
  <2>2. /\ Weighable(K, w) /\ gone \subseteq K
        /\ \A j \in K \ gone : v[j] = w[j]
        /\ \A j \in gone : v[j] = 0
    BY <1>1, <1>3, <1>4, <1>5, <2>1, Zenon
  <2>3. Weighable(K, v) /\ Weight(K, v) = Weight(K, w) - Weight(gone, w)
    BY <2>2, WeightZeroed
  <2>4. Weight(gone, w) \in Nat /\ Weight(K, w) \in Nat
    BY <2>2, WeightSplit, WeightType
  <2> QED
    BY <2>1, <2>3, <2>4, Zenon
<1>8. delta \in Int /\ Weight(K, Pending') = Weight(K, Pending) + delta
  BY <1>6
<1>9. UpdatePending(app, delta)
  OBVIOUS
<1> HIDE DEF delta
<1> QED
  BY <1>2, <1>6, <1>8, <1>9, PendingChanged DEF K

(* RemoveAllocationAsk, of one ask or of all the asks of an application. *)
LEMMA RemoveAllocationAskPending ==
  ASSUME PendingInv, NEW app \in Apps, Scheduled(app), NEW k \in Keys \cup {AllKeys},
         RemoveAllocationAsk(app, k)
  PROVE  PendingInv'
<1> DEFINE gone == IF k = AllKeys THEN KeysOf(app) ELSE {k} \cap KeysOf(app)
           delta == IF k = AllKeys THEN appPending[app] ELSE IF gone = {} THEN 0 ELSE PendingOf(k)
<1>1. /\ asks' = [j \in Keys |-> IF j \in gone THEN NoAsk ELSE asks[j]]
      /\ UpdatePending(app, 0 - delta) /\ UNCHANGED schedQueue
  BY DEF RemoveAllocationAsk
<1>2. gone \subseteq KeysOf(app)
  OBVIOUS
<1>3. delta = Weight(gone, Pending)
  <2>1. CASE k = AllKeys
    BY <2>1 DEF PendingInv
  <2>2. CASE k # AllKeys /\ gone = {}
    BY <2>2, WeightEmpty
  <2>3. CASE k # AllKeys /\ gone # {}
    <3>1. gone = {k} /\ k \in Keys
      BY <2>3
    <3>2. Pending[k] \in Nat /\ Pending[k] = PendingOf(k)
      BY <3>1, PendingNat DEF Pending, PendingInv
    <3>3. Weight({k}, Pending) = Pending[k]
      BY <3>2, WeightSingleton
    <3>4. delta = PendingOf(k)
      BY <2>3
    <3> QED
      BY <3>1, <3>2, <3>3, <3>4, Zenon
  <2> QED
    BY <2>1, <2>2, <2>3
<1> HIDE DEF gone, delta
<1>4. UpdatePending(app, 0 - Weight(gone, Pending))
  BY <1>1, <1>3, Zenon
<1> QED
  BY <1>1, <1>2, <1>4, AsksGone

(* RemoveSchedulingApplication: the application leaves its queues together *)
(* with all its asks.                                                      *)
LEMMA RemoveAppPending ==
  ASSUME PendingInv, NEW app \in Apps, Scheduled(app),
         schedQueue' = [schedQueue EXCEPT ![app] = NoQueue],
         asks' = [k \in Keys |-> IF AppOf[k] = app THEN NoAsk ELSE asks[k]],
         appPending' = [appPending EXCEPT ![app] = 0],
         IncPendingResource(schedQueue[app], 0 - appPending[app])
  PROVE  PendingInv'
<1> DEFINE K == KeysOf(app)
           mid(q) == Waiting(q) \ K
<1>1. K \subseteq Keys /\ \A j \in Keys : j \in K <=> AppOf[j] = app
  BY DEF KeysOf
<1>2. /\ schedQueue' \in [Apps -> Leaves \cup {NoQueue}] /\ schedQueue'[app] = NoQueue
      /\ \A a \in Apps \ {app} : schedQueue'[a] = schedQueue[a]
      /\ schedQueue[app] # NoQueue
  BY DEF PendingInv, SchedTypes, Scheduled
<1>3. /\ asks' \in [Keys -> Ask \cup {NoAsk}]
      /\ \A j \in K : asks'[j] = NoAsk
      /\ \A j \in Keys \ K : asks'[j] = asks[j]
  BY <1>1 DEF PendingInv, SchedTypes
<1>4. /\ \A j \in Keys \ K : Pending'[j] = Pending[j]
      /\ \A j \in K : Pending'[j] = 0
  BY <1>1, <1>3 DEF Pending, PendingOf, Known
<1>5. AsksScheduled'
  BY <1>1, <1>2, <1>3, CoreAssumption DEF PendingInv, AsksScheduled, Known, Scheduled
<1>6. PICK v, w : v = Pending' /\ w = Pending
  OBVIOUS
<1>7. /\ \A j \in Keys \ K : v[j] = w[j]
      /\ \A j \in K : v[j] = 0
  BY <1>4, <1>6, Zenon
<1>8. Weighable(Keys, w)
  BY <1>6, Zenon DEF PendingInv
<1> HIDE DEF K
<1>9. Weighable(Keys, v)
  BY <1>1, <1>7, <1>8, WeightZeroed
<1>10. ASSUME NEW S, S \subseteq Keys, K \subseteq S
       PROVE  Weight(S, v) = Weight(S, w) - Weight(K, w)
  <2>1. Weighable(S, w)
    BY <1>8, <1>10, WeightSplit
  <2>2. \A j \in S \ K : v[j] = w[j]
    BY <1>7, <1>10
  <2> QED
    BY <1>7, <1>10, <2>1, <2>2, WeightZeroed
<1>11. ASSUME NEW S, S \subseteq Keys \ K
       PROVE  Weight(S, v) = Weight(S, w)
  <2>1. \A j \in S : v[j] = w[j]
    BY <1>7, <1>11
  <2> QED
    BY <2>1, WeightCong
<1>12. ASSUME NEW S, S \subseteq K
       PROVE  Weight(S, v) = 0
  <2> DEFINE none == {}
  <2>1. none \subseteq S /\ \A j \in S \ none : v[j] = 0
    BY <1>7, <1>12
  <2>2. Weight(none, v) = 0
    BY WeightEmpty
  <2> HIDE DEF none
  <2>3. Weight(none, v) = Weight(S, v)
    BY <2>1, WeightZeros
  <2> QED
    BY <2>2, <2>3
<1>13. /\ appPending \in [Apps -> Nat] /\ \A a \in Apps : appPending[a] = Weight(KeysOf(a), w)
       /\ queuePending \in [Queues -> Nat] /\ \A q \in Queues : queuePending[q] = Weight(Waiting(q), w)
  BY <1>6, Zenon DEF PendingInv, SchedTypes
<1>14. appPending' \in [Apps -> Nat] /\ appPending'[app] = 0 /\ \A a \in Apps \ {app} : appPending'[a] = appPending[a]
  BY <1>13
<1>15. ASSUME NEW a \in Apps
       PROVE  appPending'[a] = Weight(KeysOf(a), v)
  <2>1. CASE a = app
    BY <1>12, <1>14, <2>1 DEF K
  <2>2. CASE a # app
    <3>1. KeysOf(a) \subseteq Keys \ K
      BY <2>2 DEF KeysOf, K
    <3>2. Weight(KeysOf(a), v) = Weight(KeysOf(a), w)
      BY <1>11, <3>1
    <3> QED
      BY <1>13, <1>14, <2>2, <3>2
  <2> QED
    BY <2>1, <2>2
<1>16. ASSUME NEW q \in Queues
       PROVE  /\ queuePending'[q] = Weight(mid(q), v) /\ queuePending'[q] \in Nat
              /\ Waiting(q)' = mid(q)
  <2>0. queuePending'[q] = IF q \in PathTo[schedQueue[app]] THEN queuePending[q] - appPending[app]
                                                           ELSE queuePending[q]
    BY <1>13 DEF IncPendingResource
  <2>1. Waiting(q) \subseteq Keys /\ mid(q) \subseteq Keys \ K
    BY DEF Waiting
  <2>2. Waiting(q)' = mid(q)
    BY <1>1, <1>2, CoreAssumption DEF Waiting, Scheduled
  <2>3. Weight(mid(q), v) = Weight(mid(q), w)
    BY <1>11, <2>1
  <2>4. CASE q \in PathTo[schedQueue[app]]
    <3>1. K \subseteq Waiting(q)
      BY <1>1, <2>4 DEF Waiting
    <3>2. Weighable(Waiting(q), w)
      BY <1>8, <2>1, WeightSplit
    <3>3. Weight(Waiting(q) \ K, w) = Weight(Waiting(q), w) - Weight(K, w) /\ Weight(K, w) <= Weight(Waiting(q), w)
      <4>1. PICK S, T : S = Waiting(q) /\ T = K
        OBVIOUS
      <4>2. T \subseteq S /\ Weighable(S, w)
        BY <3>1, <3>2, <4>1, Zenon
      <4>3. Weight(S \ T, w) = Weight(S, w) - Weight(T, w) /\ Weight(T, w) <= Weight(S, w)
        BY <4>2, WeightSplit
      <4> QED
        BY <4>1, <4>3, Zenon
    <3>4. appPending[app] = Weight(K, w) /\ appPending[app] \in Nat /\ queuePending[q] \in Nat
          /\ queuePending[q] = Weight(Waiting(q), w)
      BY <1>13 DEF K
    <3> QED
      BY <2>0, <2>2, <2>3, <2>4, <3>3, <3>4
  <2>5. CASE q \notin PathTo[schedQueue[app]]
    <3>1. mid(q) = Waiting(q)
      BY <1>1, <2>5 DEF Waiting
    <3> QED
      BY <1>13, <2>0, <2>2, <2>3, <2>5, <3>1
  <2> QED
    BY <2>4, <2>5
<1>17. queuePending' \in [Queues -> Nat]
  BY <1>16 DEF IncPendingResource
<1>18. \A q \in Queues : queuePending'[q] = Weight(Waiting(q)', v)
  BY <1>16, Zenon
<1>19. SchedTypes'
  BY <1>2, <1>3, <1>14, <1>17 DEF SchedTypes
<1> QED
  BY <1>5, <1>6, <1>9, <1>15, <1>18, <1>19, Zenon DEF PendingInv, KeysOf

(* AddSchedulingApplication: an application that was not scheduled has no  *)
(* asks, so nothing is pending in its queues.                              *)
LEMMA AddAppPending ==
  ASSUME PendingInv, NEW app \in Apps, ~Scheduled(app), NEW leaf \in Leaves,
         schedQueue' = [schedQueue EXCEPT ![app] = leaf],
         UNCHANGED <<asks, appPending, queuePending>>
  PROVE  PendingInv'
<1>1. /\ schedQueue' \in [Apps -> Leaves \cup {NoQueue}] /\ schedQueue'[app] # NoQueue
      /\ \A a \in Apps \ {app} : schedQueue'[a] = schedQueue[a]
      /\ schedQueue[app] = NoQueue
  BY QueueAssumption DEF PendingInv, SchedTypes, Scheduled
<1>2. SchedTypes' /\ AsksScheduled'
  BY <1>1, CoreAssumption DEF PendingInv, SchedTypes, AsksScheduled, Known, Scheduled
<1>3. Pending' = Pending
  BY DEF Pending, PendingOf, Known
<1>4. ASSUME NEW q \in Queues
      PROVE  Weight(Waiting(q)', Pending) = Weight(Waiting(q), Pending)
  <2>1. Waiting(q) \subseteq Waiting(q)'
    BY <1>1, CoreAssumption DEF Waiting, Scheduled
  <2>2. ASSUME NEW k \in Waiting(q)' \ Waiting(q)
        PROVE  Pending[k] = 0
    <3>1. k \in Keys /\ AppOf[k] = app
      BY <1>1, CoreAssumption DEF Waiting, Scheduled
    <3>2. ~Known(k)
      BY <3>1 DEF PendingInv, AsksScheduled
    <3> QED
      BY <3>1, <3>2 DEF Pending, PendingOf
  <2>3. PICK S, T, w : S = Waiting(q) /\ T = Waiting(q)' /\ w = Pending
    OBVIOUS
  <2>4. S \subseteq T /\ \A k \in T \ S : w[k] = 0
    BY <2>1, <2>2, <2>3, Zenon
  <2>5. Weight(S, w) = Weight(T, w)
    BY <2>4, WeightZeros
  <2> QED
    BY <2>3, <2>5, Zenon
<1>5. Weighable(Keys, Pending') /\ \A a \in Apps : appPending'[a] = Weight(KeysOf(a), Pending')
  BY <1>3, Zenon DEF PendingInv
<1>6. \A q \in Queues : queuePending'[q] = Weight(Waiting(q)', Pending')
  BY <1>3, <1>4, Zenon DEF PendingInv
<1> QED
  BY <1>2, <1>5, <1>6, Zenon DEF PendingInv, KeysOf

-----------------------------------------------------------------------------
(* The steps: one lemma for each goroutine.                                *)

(* A step that leaves the partition alone. *)
LEMMA CacheSame ==
  ASSUME CacheInv, op = Idle, UNCHANGED vars
  PROVE  CacheInv' /\ op' = Idle
BY CacheStep DEF vars

(* A goroutine hands over the first event of its outbox. *)
LEMMA SendCore ==
  ASSUME CoreInv, NEW t \in Threads, Send(t)
  PROVE  CoreInv'
<1> USE DEF CoreInv
<1> DEFINE e == Head(outbox[t])
           to(c) == IF e.to = c THEN <<e.ev>> ELSE <<>>
<1>1. /\ outbox[t] # <<>>
      /\ outbox'      = [outbox EXCEPT ![t] = Tail(@)]
      /\ cacheEvents' = cacheEvents \o to("cache")
      /\ schedEvents' = schedEvents \o to("sched")
      /\ rmEvents'    = rmEvents \o to("rm")
      /\ UNCHANGED <<vars, schedVars, roundVars, updates, allocKey, rmVars>>
  BY DEF Send
<1>2. outbox[t] \in Seq(Envelope)
  BY DEF ChannelTypes
<1>3. e \in Envelope /\ Tail(outbox[t]) \in Seq(Envelope)
  BY <1>1, <1>2
<1>4. /\ e.to = "cache" => e.ev \in CacheMsg
      /\ e.to = "sched" => e.ev \in SchedMsg
      /\ e.to = "rm" => e.ev \in RmMsg
  BY <1>3 DEF Envelope
<1>5. to("cache") \in Seq(CacheMsg) /\ to("sched") \in Seq(SchedMsg) /\ to("rm") \in Seq(RmMsg)
  BY <1>4
<1> HIDE DEF to, e
<1>6. ChannelTypes'
  BY <1>1, <1>3, <1>5 DEF ChannelTypes
<1>7. CacheInv' /\ op' = Idle
  BY <1>1, CacheSame
<1>8. PendingInv'
  BY <1>1, PendingSame
<1> QED
  BY <1>1, <1>6, <1>7, <1>8 DEF RoundTypes, RmTypes, KeyTypes, roundVars, rmVars

(* The resource manager sends an update. *)
LEMMA RmSendCore ==
  ASSUME CoreInv, NEW msg \in UpdateMsg, RmSend(msg),
         rmApp' \in [Apps -> {"none", "submitted", "accepted", "rejected", "removed"}],
         asked' \in [Keys -> Nat], reused' \in BOOLEAN
  PROVE  CoreInv'
<1> USE DEF CoreInv
<1>1. /\ sent < MaxUpdates /\ sent' = sent + 1
      /\ updates' = updates \cup {[id |-> sent, ev |-> msg]}
      /\ UNCHANGED <<vars, schedVars, roundVars, cacheEvents, schedEvents, rmEvents, outbox,
                     allocKey, rmAllocs>>
  BY DEF RmSend
<1>2. sent' \in 0 .. MaxUpdates /\ [id |-> sent, ev |-> msg] \in [id : 0 .. MaxUpdates, ev : UpdateMsg]
  BY <1>1, CoreAssumption DEF RmTypes
<1>3. ChannelTypes' /\ RmTypes'
  BY <1>1, <1>2 DEF ChannelTypes, RmTypes
<1>4. CacheInv' /\ op' = Idle
  BY <1>1, CacheSame
<1>5. PendingInv'
  BY <1>1, PendingSame
<1> QED
  BY <1>1, <1>3, <1>4, <1>5 DEF RoundTypes, KeyTypes, roundVars

(* The RM sends anything it may send. *)
LEMMA RmCore ==
  ASSUME CoreInv, RM
  PROVE  CoreInv'
<1> DEFINE States == {"none", "submitted", "accepted", "rejected", "removed"}
<1>0. rmApp \in [Apps -> States] /\ asked \in [Keys -> Nat] /\ reused \in BOOLEAN
  BY DEF CoreInv, RmTypes
<1>1. ASSUME NEW app \in Apps, NEW q \in QueueNames, RmSubmit(app, q)
      PROVE  CoreInv'
  <2> DEFINE msg == [kind |-> "addApp", app |-> app, queue |-> q]
  <2>1. msg \in UpdateMsg
    BY DEF UpdateMsg
  <2>2. RmSend(msg) /\ rmApp' \in [Apps -> States] /\ asked' = asked /\ reused' \in BOOLEAN
    BY <1>0, <1>1 DEF RmSubmit
  <2> QED
    BY <1>0, <2>1, <2>2, RmSendCore
<1>2. ASSUME NEW app \in Apps, RmRemoveApp(app)
      PROVE  CoreInv'
  <2> DEFINE msg == [kind |-> "removeApp", app |-> app]
  <2>1. msg \in UpdateMsg
    BY DEF UpdateMsg
  <2>2. RmSend(msg) /\ rmApp' \in [Apps -> States] /\ asked' = asked /\ reused' = reused
    BY <1>0, <1>2 DEF RmRemoveApp
  <2> QED
    BY <1>0, <2>1, <2>2, RmSendCore
<1>3. ASSUME NEW k \in Keys, NEW r \in Sizes, NEW n \in Repeats, RmAsk(k, r, n)
      PROVE  CoreInv'
  <2> DEFINE msg == [kind |-> "ask", key |-> k, res |-> r, n |-> n]
  <2>1. msg \in UpdateMsg
    BY DEF UpdateMsg, AskMsg
  <2>2. RmSend(msg) /\ rmApp' = rmApp /\ asked' \in [Keys -> Nat] /\ reused' = reused
    BY <1>0, <1>3, CoreAssumption DEF RmAsk
  <2> QED
    BY <1>0, <2>1, <2>2, RmSendCore
<1>4. ASSUME NEW app \in Apps, NEW k \in Keys \cup {NoKey, AllKeys},
             NEW u \in Uuids \cup {NoUuid, AllUuids}, RmRelease(app, k, u)
      PROVE  CoreInv'
  <2>1. Release(app, k, u) \in UpdateMsg
    BY DEF UpdateMsg, ReleaseMsg, Release
  <2>2. RmSend(Release(app, k, u)) /\ rmApp' = rmApp /\ asked' = asked /\ reused' = reused
    BY <1>4 DEF RmRelease
  <2> QED
    BY <1>0, <2>1, <2>2, RmSendCore
<1> QED
  BY <1>1, <1>2, <1>3, <1>4 DEF RM

(* The resource manager receives an event. *)
LEMMA RmReceiveCore ==
  ASSUME CoreInv, RmReceive
  PROVE  CoreInv'
<1> USE DEF CoreInv
<1> DEFINE ev == Head(rmEvents)
<1>1. /\ rmEvents # <<>> /\ rmEvents' = Tail(rmEvents)
      /\ rmApp' = IF ev.kind \in {"accepted", "rejected"} /\ rmApp[ev.app] = "submitted"
                  THEN [rmApp EXCEPT ![ev.app] = ev.kind] ELSE rmApp
      /\ rmAllocs' = CASE ev.kind = "allocated" -> rmAllocs \cup {ev.uuid}
                       [] ev.kind = "released"  -> rmAllocs \ ev.uuids
                       [] OTHER -> rmAllocs
      /\ UNCHANGED <<vars, schedVars, roundVars, updates, cacheEvents, schedEvents, outbox,
                     allocKey, asked, sent, reused>>
  BY DEF RmReceive
<1>2. ev \in RmMsg /\ rmEvents' \in Seq(RmMsg)
  BY <1>1 DEF ChannelTypes
<1>3. ChannelTypes'
  BY <1>1, <1>2 DEF ChannelTypes
<1>4. /\ ev.kind \in {"accepted", "rejected"} => ev.app \in Apps
      /\ ev.kind = "allocated" => ev.uuid \in Uuids
  BY <1>2, RmFields
<1> HIDE DEF ev
<1>5. RmTypes'
  <2>1. rmApp' \in [Apps -> {"none", "submitted", "accepted", "rejected", "removed"}]
    BY <1>1, <1>4 DEF RmTypes
  <2>2. rmAllocs' \subseteq Uuids
    BY <1>1, <1>4 DEF RmTypes
  <2> QED
    BY <1>1, <2>1, <2>2 DEF RmTypes
<1>6. CacheInv' /\ op' = Idle
  BY <1>1, CacheSame
<1>7. PendingInv'
  BY <1>1, PendingSame
<1> QED
  BY <1>1, <1>3, <1>5, <1>6, <1>7 DEF RoundTypes, KeyTypes, roundVars

(* The goroutine of the cache that takes the updates. *)
LEMMA CacheRMCore ==
  ASSUME CoreInv, CacheRM
  PROVE  CoreInv'
<1> USE DEF CoreInv
<1>1. PICK u \in updates : CacheAddApp(u) \/ CacheAsk(u) \/ CachePassOn(u)
  BY DEF CacheRM
<1>2. /\ updates' = updates \ {u}
      /\ UNCHANGED <<schedVars, roundVars, cacheEvents, schedEvents, rmEvents, allocKey, rmVars>>
  BY <1>1 DEF CacheAddApp, CacheAsk, CachePassOn, CacheRMTake
<1>3. u.ev \in UpdateMsg
  BY DEF ChannelTypes
<1>4. /\ u.ev.kind = "addApp" => u.ev.app \in Apps /\ u.ev.queue \in QueueNames
      /\ u.ev.kind = "removeApp" => u.ev \in SchedMsg
      /\ u.ev.kind = "release" => u.ev \in SchedMsg
      /\ u.ev.kind = "ask" => u.ev \in SchedMsg /\ u.ev.key \in Keys
  BY <1>3, UpdateFields
<1>5. outbox' \in [Threads -> Seq(Envelope)]
  <2>0. "cacheRM" \in Threads
    BY DEF Threads
  <2>1. CASE CacheAddApp(u)
    <3>1. \/ Post("cacheRM", <<ToSched([kind |-> "addApp", app |-> u.ev.app])>>)
          \/ Post("cacheRM", <<ToRM([kind |-> "rejected", app |-> u.ev.app])>>)
      BY <2>1 DEF CacheAddApp
    <3>2. u.ev.app \in Apps
      BY <1>4, <2>1 DEF CacheAddApp
    <3> QED
      BY <2>0, <3>1, <3>2, PostedEvents, PostOne
  <2>2. CASE CacheAsk(u)
    <3>1. ToSched(u.ev) \in Envelope /\ ToRM([kind |-> "rejectedAsk", key |-> u.ev.key]) \in Envelope
      BY <1>4, <2>2, PostedEvents DEF CacheAsk
    <3>2. \/ Post("cacheRM", <<ToRM([kind |-> "rejectedAsk", key |-> u.ev.key])>> \o <<ToSched(u.ev)>>)
          \/ Post("cacheRM", <<>> \o <<ToSched(u.ev)>>)
      BY <2>2 DEF CacheAsk
    <3>3. /\ <<ToRM([kind |-> "rejectedAsk", key |-> u.ev.key])>> \o <<ToSched(u.ev)>> \in Seq(Envelope)
          /\ <<>> \o <<ToSched(u.ev)>> \in Seq(Envelope)
      BY <3>1
    <3> QED
      BY <2>0, <3>2, <3>3, PostTypes
  <2>3. CASE CachePassOn(u)
    <3>1. Post("cacheRM", <<ToSched(u.ev)>>) /\ u.ev \in SchedMsg
      BY <1>4, <2>3 DEF CachePassOn
    <3> QED
      BY <2>0, <3>1, PostedEvents, PostOne
  <2> QED
    BY <1>1, <2>1, <2>2, <2>3
<1>6. ChannelTypes'
  BY <1>2, <1>5 DEF ChannelTypes
<1>7. CacheInv' /\ op' = Idle
  <2>1. CASE UNCHANGED vars
    BY <2>1, CacheSame
  <2>2. CASE u.ev.kind = "addApp" /\ AddNewApplication(u.ev.app, u.ev.queue)
    BY <1>4, <2>2, AddNewApplicationCache DEF AddNewApplication
  <2>3. CASE u.ev.kind = "ask" /\ RunApplication(AppOf[u.ev.key])
    BY <1>4, <2>3, StateChangeCache, CoreAssumption DEF RunApplication
  <2> QED
    BY <1>1, <2>1, <2>2, <2>3 DEF CacheAddApp, CacheAsk, CachePassOn
<1>8. PendingInv'
  BY <1>2, PendingSame
<1> QED
  BY <1>2, <1>6, <1>7, <1>8 DEF RoundTypes, RmTypes, KeyTypes, roundVars, rmVars

(* What every handler of the scheduler's events leaves alone. *)
LEMMA SchedTakeCore ==
  ASSUME CoreInv, NEW kind, SchedTake(kind), outbox' \in [Threads -> Seq(Envelope)],
         CacheInv', op' = Idle, PendingInv'
  PROVE  CoreInv'
<1>1. /\ schedEvents # <<>> /\ schedEvents' = Tail(schedEvents)
      /\ UNCHANGED <<roundVars, updates, cacheEvents, rmEvents, allocKey, rmVars>>
  BY DEF SchedTake
<1>2. schedEvents' \in Seq(SchedMsg)
  BY <1>1 DEF CoreInv, ChannelTypes
<1>3. ChannelTypes'
  BY <1>1, <1>2 DEF CoreInv, ChannelTypes
<1> QED
  BY <1>1, <1>3 DEF CoreInv, RoundTypes, RmTypes, KeyTypes, roundVars, rmVars

(* The goroutine of the scheduler that takes the events. *)
LEMMA SchedEventCore ==
  ASSUME CoreInv, SchedEvent
  PROVE  CoreInv'
<1> DEFINE ev == Head(schedEvents)
<1>0. CacheInv /\ op = Idle /\ PendingInv /\ ChannelTypes /\ outbox \in [Threads -> Seq(Envelope)]
      /\ "schedEvent" \in Threads
  BY DEF CoreInv, ChannelTypes, Threads
<1>1. PICK kind : SchedTake(kind)
  BY DEF SchedEvent, SchedAddApp, SchedRemoveApp, SchedAsk, SchedRejected, SchedRelease
<1>2. ev \in SchedMsg
  BY <1>0, <1>1 DEF SchedTake, ChannelTypes
<1>3. /\ ev.kind \in {"addApp", "removeApp"} => ev.app \in Apps
      /\ ev.kind = "rejected" => ev.key \in Keys
      /\ ev.kind = "ask" => ev.key \in Keys /\ ev.res \in Sizes /\ ev.n \in Repeats
      /\ ev.kind = "release" => /\ ev \in CacheMsg /\ ev.app \in Apps
                                /\ ev.key \in Keys \cup {NoKey, AllKeys}
  BY <1>2, SchedFields
<1> DEFINE Goal == outbox' \in [Threads -> Seq(Envelope)] /\ CacheInv' /\ op' = Idle /\ PendingInv'
<1>4. ASSUME SchedAddApp
      PROVE  Goal
  <2> DEFINE app == ev.app
  <2>1. app \in Apps
    BY <1>3, <1>4 DEF SchedAddApp, SchedTake
  <2>2. UNCHANGED <<asks, appPending, queuePending>>
    BY <1>4 DEF SchedAddApp
  <2> HIDE DEF ev
  <2>3. CASE /\ ~Scheduled(app) /\ leafQueue[app] \in Leaves
             /\ AcceptApplication(app, leafQueue[app])
             /\ schedQueue' = [schedQueue EXCEPT ![app] = leafQueue[app]]
             /\ Post("schedEvent", <<ToRM([kind |-> "accepted", app |-> app])>>)
    <3>1. outbox' \in [Threads -> Seq(Envelope)]
      BY <1>0, <2>1, <2>3, PostedEvents, PostOne
    <3>2. PendingInv'
      BY <1>0, <2>1, <2>2, <2>3, AddAppPending
    <3>3. CacheInv' /\ op' = Idle
      BY <1>0, <2>1, <2>3, StateChangeCache DEF AcceptApplication
    <3> QED
      BY <3>1, <3>2, <3>3
  <2>4. CASE /\ RejectApplication(app)
             /\ Post("schedEvent", <<ToCache([kind |-> "rejectedApp", app |-> app]),
                                     ToRM([kind |-> "rejected", app |-> app])>>)
             /\ UNCHANGED schedQueue
    <3>1. outbox' \in [Threads -> Seq(Envelope)]
      <4>1. <<ToCache([kind |-> "rejectedApp", app |-> app]),
              ToRM([kind |-> "rejected", app |-> app])>> \in Seq(Envelope)
        <5>1. /\ ToCache([kind |-> "rejectedApp", app |-> app]) \in Envelope
              /\ ToRM([kind |-> "rejected", app |-> app]) \in Envelope
          BY <2>1, PostedEvents, Zenon
        <5> QED
          BY <5>1
      <4> QED
        BY <1>0, <2>4, <4>1, PostTypes
    <3>2. PendingInv'
      BY <1>0, <2>2, <2>4, PendingSame DEF schedVars
    <3>3. CacheInv' /\ op' = Idle
      BY <1>0, <2>1, <2>4, StateChangeCache DEF RejectApplication
    <3> QED
      BY <3>1, <3>2, <3>3
  <2> QED
    BY <1>4, <2>3, <2>4 DEF SchedAddApp, ev
<1>5. ASSUME SchedRemoveApp
      PROVE  Goal
  <2> DEFINE app == ev.app
  <2>1. app \in Apps
    BY <1>3, <1>5 DEF SchedRemoveApp, SchedTake
  <2>2. CacheInv' /\ op' = Idle
    BY <1>0, <1>5, CacheSame DEF SchedRemoveApp
  <2> HIDE DEF ev
  <2>3. CASE /\ Scheduled(app)
             /\ schedQueue' = [schedQueue EXCEPT ![app] = NoQueue]
             /\ asks' = [k \in Keys |-> IF AppOf[k] = app THEN NoAsk ELSE asks[k]]
             /\ appPending' = [appPending EXCEPT ![app] = 0]
             /\ IncPendingResource(schedQueue[app], 0 - appPending[app])
             /\ Post("schedEvent", <<ToCache([kind |-> "removedApp", app |-> app])>>)
    <3>1. outbox' \in [Threads -> Seq(Envelope)]
      BY <1>0, <2>1, <2>3, PostedEvents, PostOne
    <3>2. PendingInv'
      BY <1>0, <2>1, <2>3, RemoveAppPending
    <3> QED
      BY <2>2, <3>1, <3>2
  <2>4. CASE UNCHANGED <<schedVars, outbox>>
    BY <1>0, <2>2, <2>4, PendingSame
  <2> QED
    BY <1>5, <2>3, <2>4 DEF SchedRemoveApp, ev
<1>6. ASSUME SchedAsk
      PROVE  Goal
  <2>1. ev.key \in Keys /\ ev.res \in Sizes /\ ev.n \in Repeats
    BY <1>3, <1>6 DEF SchedAsk, SchedTake
  <2>2. CacheInv' /\ op' = Idle
    BY <1>0, <1>6, CacheSame DEF SchedAsk
  <2> HIDE DEF ev
  <2>3. CASE /\ Scheduled(AppOf[ev.key]) /\ UpdateSchedulingRequest(ev.key, ev.res, ev.n)
             /\ UNCHANGED outbox
    BY <1>0, <2>1, <2>2, <2>3, UpdateSchedulingRequestPending
  <2>4. CASE /\ Post("schedEvent", <<ToRM([kind |-> "rejectedAsk", key |-> ev.key])>>)
             /\ UNCHANGED schedVars
    <3>1. outbox' \in [Threads -> Seq(Envelope)]
      BY <1>0, <2>1, <2>4, PostedEvents, PostOne
    <3> QED
      BY <1>0, <2>2, <2>4, <3>1, PendingSame
  <2> QED
    BY <1>6, <2>3, <2>4 DEF SchedAsk, ev
<1>7. ASSUME SchedRejected
      PROVE  Goal
  <2> DEFINE k == ev.key
  <2>1. k \in Keys
    BY <1>3, <1>7 DEF SchedRejected, SchedTake
  <2>2. CacheInv' /\ op' = Idle /\ outbox' = outbox
    BY <1>0, <1>7, CacheSame DEF SchedRejected
  <2> HIDE DEF ev
  <2>3. CASE CanUpdateRepeat(k, 1) /\ UpdateAskRepeat(k, 1)
    BY <1>0, <2>1, <2>2, <2>3, UpdateAskRepeatPending
  <2>4. CASE UNCHANGED schedVars
    BY <1>0, <2>2, <2>4, PendingSame
  <2> QED
    BY <1>7, <2>3, <2>4 DEF SchedRejected, ev
<1>8. ASSUME SchedRelease
      PROVE  Goal
  <2>1. ev \in CacheMsg /\ ev.app \in Apps /\ ev.key \in Keys \cup {NoKey, AllKeys}
    BY <1>3, <1>8 DEF SchedRelease, SchedTake
  <2>2. CacheInv' /\ op' = Idle
    BY <1>0, <1>8, CacheSame DEF SchedRelease
  <2> HIDE DEF ev
  <2>3. outbox' \in [Threads -> Seq(Envelope)]
    <3>1. Post("schedEvent", <<ToCache(ev)>>)
      BY <1>8 DEF SchedRelease, ev
    <3> QED
      BY <1>0, <2>1, <3>1, PostedEvents, PostOne
  <2>4. CASE ev.key # NoKey /\ Scheduled(ev.app) /\ RemoveAllocationAsk(ev.app, ev.key)
    BY <1>0, <2>1, <2>2, <2>3, <2>4, RemoveAllocationAskPending
  <2>5. CASE UNCHANGED schedVars
    BY <1>0, <2>2, <2>3, <2>5, PendingSame
  <2> QED
    BY <1>8, <2>4, <2>5 DEF SchedRelease, ev
<1> HIDE DEF Goal
<1>9. Goal
  BY <1>4, <1>5, <1>6, <1>7, <1>8 DEF SchedEvent
<1> QED
  BY <1>1, <1>9, SchedTakeCore DEF Goal

(* The scheduling round. *)
LEMMA FindCore ==
  ASSUME CoreInv, NEW count \in Counts, FindAllocationAsks(count)
  PROVE  CoreInv'
<1> USE DEF CoreInv
<1>1. /\ MayPick(count) /\ batch' = Picked(count) /\ phase' = "place"
      /\ UNCHANGED <<vars, schedVars, placed, channels, allocKey, rmVars>>
  BY DEF FindAllocationAsks
<1>2. ASSUME NEW k \in Keys, NEW i \in 1 .. count[k]
      PROVE  [key |-> k, queue |-> schedQueue[AppOf[k]], res |-> asks[k].res, i |-> i] \in Candidate
  <2>1. count[k] \in 0 .. BatchSize /\ BatchSize \in Nat
    BY CoreAssumption DEF Counts
  <2>2. i \in 1 .. BatchSize /\ count[k] > 0
    BY <2>1
  <2>3. Known(k)
    BY <1>1, <2>2 DEF MayPick
  <2>4. schedQueue[AppOf[k]] \in Leaves
    BY <2>3, CoreAssumption DEF PendingInv, AsksScheduled, Scheduled, SchedTypes
  <2>5. asks[k].res \in Sizes
    BY <2>3 DEF PendingInv, SchedTypes, Known, Ask
  <2> QED
    BY <2>2, <2>4, <2>5 DEF Candidate
<1>3. Picked(count) \subseteq Candidate
  BY <1>2 DEF Picked
<1>4. CacheInv' /\ op' = Idle /\ PendingInv'
  BY <1>1, CacheSame, PendingSame
<1> QED
  BY <1>1, <1>3, <1>4 DEF RoundTypes, ChannelTypes, RmTypes, KeyTypes, channels, rmVars

(* tryBatchAllocation plans, and changes no account. *)
LEMMA PlaceCore ==
  ASSUME CoreInv, NEW P \in Placements(batch), TryBatchAllocation(P)
  PROVE  CoreInv'
<1> USE DEF CoreInv
<1>1. /\ placed' = P /\ batch' = {} /\ phase' \in {"find", "confirm"}
      /\ UNCHANGED <<vars, schedVars, channels, allocKey, rmVars>>
  BY DEF TryBatchAllocation
<1>2. P \subseteq [c : Candidate, node : Nodes]
  BY DEF Placements, RoundTypes
<1>4. CacheInv' /\ op' = Idle /\ PendingInv'
  BY <1>1, CacheSame, PendingSame
<1> QED
  BY <1>1, <1>2, <1>4 DEF RoundTypes, ChannelTypes, RmTypes, KeyTypes, channels, rmVars

(* schedule() confirms an allocation: one repeat of the ask becomes a
   proposal, or nothing changes when the ask is gone. *)
LEMMA ConfirmCore ==
  ASSUME CoreInv, NEW x \in placed, ConfirmAllocation(x)
  PROVE  CoreInv'
<1> USE DEF CoreInv
<1> DEFINE k == x.c.key
           p == [app |-> AppOf[k], node |-> x.node, queue |-> x.c.queue, res |-> x.c.res]
           e == ToCache([kind |-> "proposal", key |-> k, p |-> p])
<1>1. /\ placed' = placed \ {x} /\ phase' \in {"find", "confirm"}
      /\ \/ CanUpdateRepeat(k, 0 - 1) /\ UpdateAskRepeat(k, 0 - 1) /\ Post("schedule", <<e>>)
         \/ UNCHANGED <<schedVars, outbox>>
      /\ UNCHANGED <<vars, batch, updates, cacheEvents, schedEvents, rmEvents, allocKey, rmVars>>
  BY DEF ConfirmAllocation
<1>2. x.c \in Candidate /\ x.node \in Nodes
  BY DEF RoundTypes
<1>3. k \in Keys /\ p \in Proposal
  BY <1>2, CoreAssumption, QueueAssumption DEF Candidate, Proposal, QueueNames
<1>4. e \in Envelope
  BY <1>3 DEF Envelope, ToCache, CacheMsg
<1> HIDE DEF e, p, k
<1>5. outbox' \in [Threads -> Seq(Envelope)]
  <2>1. "schedule" \in Threads
    BY DEF Threads
  <2> QED
    BY <1>1, <1>4, <2>1, PostOne DEF ChannelTypes
<1>6. PendingInv'
  BY <1>1, <1>3, PendingSame, UpdateAskRepeatPending
<1>7. CacheInv' /\ op' = Idle
  BY <1>1, CacheSame
<1> QED
  BY <1>1, <1>5, <1>6, <1>7 DEF RoundTypes, ChannelTypes, RmTypes, KeyTypes, rmVars

(* What a release names is all an application holds, or one allocation:    *)
(* a uuid is not used twice.                                               *)
LEMMA NamedReleasable ==
  ASSUME CacheInv, NEW app \in Apps, app \in apps, NEW u \in Uuids \cup {NoUuid, AllUuids},
         NEW R, R = { a \in appAllocs[app] : u \in {a.uuid, AllUuids} }, R # {}
  PROVE  R \in Releasable(app)
<1>1. appAllocs[app] \subseteq Allocation /\ appAllocs[app] \subseteq allocations
  BY DEF CacheInv, TypeOK, AppAccounting
<1>2. CASE u = AllUuids
  BY <1>2 DEF Releasable
<1>3. CASE u # AllUuids
  <2>1. PICK a \in appAllocs[app] : a.uuid = u
    BY <1>3
  <2>2. ASSUME NEW b \in appAllocs[app], b.uuid = u
        PROVE  b = a
    BY <1>1, <2>1, <2>2 DEF CacheInv, MapUnique
  <2>3. R = {a}
    BY <1>3, <2>1, <2>2
  <2> QED
    BY <2>1, <2>3 DEF Releasable
<1> QED
  BY <1>2, <1>3

(* The goroutine of the cache that takes the scheduler's events: what it   *)
(* does to the partition is a step of the partition, or drops an           *)
(* application.                                                            *)
LEMMA CacheSchedCore ==
  ASSUME CoreInv, CacheSched
  PROVE  CoreInv'
<1> DEFINE ev == Head(cacheEvents)
           Goal == outbox' \in [Threads -> Seq(Envelope)] /\ CacheInv' /\ op' = Idle /\ KeyTypes'
<1>0. /\ CacheInv /\ op = Idle /\ ChannelTypes /\ KeyTypes
      /\ outbox \in [Threads -> Seq(Envelope)] /\ "cacheSched" \in Threads
  BY DEF CoreInv, ChannelTypes, Threads
<1>1. /\ cacheEvents # <<>> /\ cacheEvents' = Tail(cacheEvents)
      /\ UNCHANGED <<schedVars, roundVars, updates, schedEvents, rmEvents, rmVars>>
  BY DEF CacheSched, CacheProposal, CacheRelease, CacheRemovedApp, CacheRejectedApp, CacheTake
<1>2. ev \in CacheMsg /\ cacheEvents' \in Seq(CacheMsg)
  BY <1>0, <1>1 DEF ChannelTypes
<1>3. /\ ev.kind \in {"removedApp", "rejectedApp"} => ev.app \in Apps
      /\ ev.kind = "proposal" => ev.key \in Keys /\ ev.p \in Proposal
      /\ ev.kind = "release" => ev.app \in Apps /\ ev.uuid \in Uuids \cup {NoUuid, AllUuids}
  BY <1>2, CacheFields
<1>4. ASSUME CacheProposal
      PROVE  Goal
  <2>1. ev.key \in Keys /\ ev.p \in Proposal
    BY <1>3, <1>4 DEF CacheProposal, CacheTake
  <2> HIDE DEF ev
  <2>2. CASE /\ AddNewAllocation(ev.p)
             /\ \A a \in allocations' \ allocations : a.uuid = NextUuid
             /\ allocKey' = [allocKey EXCEPT ![NextUuid] = ev.key]
             /\ Post("cacheSched", <<ToRM([kind |-> "allocated", uuid |-> NextUuid])>>)
    <3>1. CacheInv'
      BY <1>0, <2>1, <2>2, CacheStep DEF Next
    <3>2. op' = Idle
      BY <1>0, <2>2 DEF AddNewAllocation
    <3>3. NextUuid \in Uuids
      <4>1. PICK u \in Uuids : FreshUuid(u) /\ allocations' = allocations \cup {AllocationFor(u, ev.p)}
        BY <2>2 DEF AddNewAllocation, Allocate
      <4>2. AllocationFor(u, ev.p).uuid = u
        BY DEF AllocationFor
      <4>3. AllocationFor(u, ev.p) \notin allocations
        BY <4>1, <4>2 DEF FreshUuid
      <4> QED
        BY <2>2, <4>1, <4>2, <4>3
    <3> HIDE DEF NextUuid
    <3>4. KeyTypes'
      BY <1>0, <2>1, <2>2, <3>3 DEF KeyTypes
    <3>5. outbox' \in [Threads -> Seq(Envelope)]
      BY <1>0, <2>2, <3>3, PostedEvents, PostOne
    <3> QED
      BY <3>1, <3>2, <3>4, <3>5
  <2>3. CASE /\ Post("cacheSched", <<ToSched([kind |-> "rejected", key |-> ev.key])>>)
             /\ UNCHANGED <<vars, allocKey>>
    <3>1. outbox' \in [Threads -> Seq(Envelope)]
      BY <1>0, <2>1, <2>3, PostedEvents, PostOne
    <3> QED
      BY <1>0, <2>3, <3>1, CacheSame DEF KeyTypes
  <2> QED
    BY <1>4, <2>2, <2>3 DEF CacheProposal, ev
<1>5. ASSUME CacheRelease
      PROVE  Goal
  <2> DEFINE R == Named(ev)
  <2>1. ev.app \in Apps /\ ev.uuid \in Uuids \cup {NoUuid, AllUuids}
    BY <1>3, <1>5 DEF CacheRelease, CacheTake
  <2>2. KeyTypes'
    BY <1>0, <1>5 DEF CacheRelease, KeyTypes
  <2> HIDE DEF ev
  <2>3. CASE /\ ReleaseAllocations(ev.app, R)
             /\ Post("cacheSched", <<ToRM([kind |-> "released", uuids |-> { a.uuid : a \in R }])>>)
    <3>1. ev.app \in apps /\ R # {} /\ op' = op
      BY <2>3 DEF ReleaseAllocations
    <3>2. R = { a \in appAllocs[ev.app] : ev.uuid \in {a.uuid, AllUuids} }
      BY <3>1 DEF Named
    <3> HIDE DEF R
    <3>3. R \in Releasable(ev.app)
      BY <1>0, <2>1, <3>1, <3>2, NamedReleasable
    <3>4. CacheInv'
      BY <1>0, <2>1, <2>3, <3>3, ReleaseCache
    <3>5. { a.uuid : a \in R } \subseteq Uuids
      BY <1>0, <2>1, <3>2 DEF CacheInv, TypeOK, Allocation
    <3>6. outbox' \in [Threads -> Seq(Envelope)]
      BY <1>0, <2>3, <3>5, PostedEvents, PostOne
    <3> QED
      BY <1>0, <2>2, <3>1, <3>4, <3>6
  <2>4. CASE UNCHANGED <<vars, outbox>>
    BY <1>0, <2>2, <2>4, CacheSame
  <2> QED
    BY <1>5, <2>3, <2>4 DEF CacheRelease, ev
<1>6. ASSUME CacheRemovedApp
      PROVE  Goal
  <2> DEFINE app == ev.app
             R == appAllocs[app] \cap allocations
             e == ToRM([kind |-> "released", uuids |-> { a.uuid : a \in R }])
  <2>1. app \in Apps
    BY <1>3, <1>6 DEF CacheRemovedApp, CacheTake
  <2>2. KeyTypes'
    BY <1>0, <1>6 DEF CacheRemovedApp, KeyTypes
  <2>3. Post("cacheSched", IF R = {} THEN <<>> ELSE <<e>>) /\ (RemoveApplication(app) \/ UNCHANGED vars)
    BY <1>6 DEF CacheRemovedApp
  <2> HIDE DEF ev
  <2>4. { a.uuid : a \in R } \subseteq Uuids
    BY <1>0 DEF CacheInv, TypeOK, Allocation
  <2>5. e \in Envelope
    BY <2>4, PostedEvents
  <2>6. outbox' \in [Threads -> Seq(Envelope)]
    <3> HIDE DEF e, R
    <3>1. (IF R = {} THEN <<>> ELSE <<e>>) \in Seq(Envelope)
      BY <2>5
    <3> QED
      BY <1>0, <2>3, <3>1, PostTypes
  <2>7. CacheInv' /\ op' = Idle
    <3>1. CASE RemoveApplication(app)
      BY <1>0, <2>1, <3>1, RemoveApplicationCache DEF RemoveApplication
    <3> QED
      BY <1>0, <2>3, <3>1, CacheSame
  <2> QED
    BY <2>2, <2>6, <2>7
<1>7. ASSUME CacheRejectedApp
      PROVE  Goal
  <2>1. ev.app \in Apps
    BY <1>3, <1>7 DEF CacheRejectedApp, CacheTake
  <2>2. /\ DropApplication(ev.app)
        /\ UNCHANGED <<partitionState, nodeVars, allocations, queueAllocated, op, allocKey, outbox>>
    BY <1>7 DEF CacheRejectedApp
  <2> HIDE DEF ev
  <2>3. CacheInv'
    BY <1>0, <2>1, <2>2, DropOnlyCache
  <2> QED
    BY <1>0, <2>2, <2>3 DEF KeyTypes
<1> HIDE DEF Goal
<1>8. Goal
  BY <1>4, <1>5, <1>6, <1>7 DEF CacheSched
<1>9. PendingInv'
  BY <1>1, PendingSame DEF CoreInv
<1>10. ChannelTypes'
  BY <1>1, <1>2, <1>8 DEF Goal, CoreInv, ChannelTypes
<1> QED
  BY <1>1, <1>8, <1>9, <1>10 DEF Goal, CoreInv, RoundTypes, RmTypes, roundVars, rmVars

-----------------------------------------------------------------------------
(* The core starts with empty nodes and nothing asked for. *)
LEMMA InitCore == CoreInit => CoreInv
<1> SUFFICES ASSUME CoreInit PROVE CoreInv
  OBVIOUS
<1> USE DEF CoreInit
<1>1. Weighable(Nodes, NodeCapacity) /\ Weight(Nodes, NodeCapacity) \in Nat
  BY CoreAssumption, FiniteWeighable, WeightType
<1>2. TypeOK
  BY <1>1, SizeAssumption, CoreAssumption
     DEF TypeOK, PartitionStates, AppStates, QueueNames, Op, Idle
<1>3. SumsDefined /\ NodeAccounting /\ AppAccounting
  BY <1>1, WeightEmpty, CoreAssumption DEF SumsDefined, NodeAccounting, AppAccounting, TotalOf
<1>4. MapUnique /\ NodesInMap /\ OwnNode /\ OpConsistent
  BY DEF MapUnique, NodesInMap, OwnNode, OpConsistent, Idle
<1>5. SchedTypes /\ AsksScheduled
  BY DEF SchedTypes, AsksScheduled, Known
<1>6. PICK v : v = Pending
  OBVIOUS
<1>7. \A k \in Keys : v[k] = 0
  BY <1>6 DEF Pending, PendingOf, Known
<1>8. ASSUME NEW S, S \subseteq Keys
      PROVE  Weighable(S, v) /\ Weight(S, v) = 0
  <2> DEFINE none == {}
  <2>1. none \subseteq S /\ \A k \in S \ none : v[k] = 0
    BY <1>7, <1>8
  <2>2. Weighable(none, v) /\ Weight(none, v) = 0
    BY WeightEmpty
  <2> HIDE DEF none
  <2>3. UnitsOf(none, v) = UnitsOf(S, v) /\ Weight(none, v) = Weight(S, v)
    BY <2>1, WeightZeros
  <2> QED
    BY <2>2, <2>3, Zenon DEF Weighable
<1>9. /\ \A app \in Apps : KeysOf(app) \subseteq Keys
      /\ \A q \in Queues : Waiting(q) \subseteq Keys
  BY DEF KeysOf, Waiting
<1>10. /\ Weighable(Keys, v)
       /\ \A app \in Apps : appPending[app] = Weight(KeysOf(app), v)
       /\ \A q \in Queues : queuePending[q] = Weight(Waiting(q), v)
  BY <1>8, <1>9
<1>11. PendingInv
  BY <1>5, <1>6, <1>10, Zenon DEF PendingInv
<1>12. RoundTypes /\ KeyTypes
  BY CoreAssumption DEF RoundTypes, KeyTypes
<1>13. RmTypes
  <2>1. MaxUpdates \in Nat
    BY CoreAssumption
  <2>2. 0 \in 0 .. MaxUpdates
    BY <2>1
  <2>3. rmApp \in [Apps -> {"none", "submitted", "accepted", "rejected", "removed"}]
    OBVIOUS
  <2>4. rmAllocs \subseteq Uuids /\ asked \in [Keys -> Nat] /\ reused \in BOOLEAN
    OBVIOUS
  <2> QED
    BY <2>2, <2>3, <2>4 DEF RmTypes
<1>14. ChannelTypes
  BY CoreAssumption DEF ChannelTypes
<1> QED
  BY <1>2, <1>3, <1>4, <1>11, <1>12, <1>13, <1>14 DEF CoreInv, CacheInv, CoreInit

(* CoreInv is inductive. *)
LEMMA CoreStep ==
  ASSUME CoreInv, [CoreNext]_coreVars
  PROVE  CoreInv'
<1>1. CASE UNCHANGED coreVars
  <2>1. CacheInv' /\ op' = Idle
    BY <1>1, CacheSame DEF CoreInv, coreVars
  <2>2. PendingInv'
    BY <1>1, PendingSame DEF CoreInv, coreVars
  <2> QED
    BY <1>1, <2>1, <2>2
    DEF CoreInv, coreVars, RoundTypes, ChannelTypes, RmTypes, KeyTypes, roundVars, channels, rmVars
<1>2. CASE CoreNext
  <2>1. CASE Find
    BY <2>1, FindCore DEF Find
  <2>2. CASE Place
    BY <2>2, PlaceCore DEF Place
  <2>3. CASE Confirm
    BY <2>3, ConfirmCore DEF Confirm
  <2>4. CASE \E t \in Threads : Send(t)
    BY <2>4, SendCore
  <2>5. CASE Quiet
    BY <1>1, <2>5 DEF Quiet
  <2> QED
    BY <1>2, <2>1, <2>2, <2>3, <2>4, <2>5, RmCore, RmReceiveCore, CacheRMCore, CacheSchedCore,
       SchedEventCore DEF CoreNext
<1> QED
  BY <1>1, <1>2

(* No interleaving of the goroutines and no order of the RM's updates breaks
   the accounts of the partition, those of the scheduler or the form of an
   event: this is the inductive invariant of the core. *)
THEOREM CoreInvariant == CoreSpec => []CoreInv
BY InitCore, CoreStep, PTL DEF CoreSpec

(* Nothing pending ever goes below zero, although the code fears it may    *)
(* ("TODO we can go negative here"), and no event is malformed.            *)
THEOREM CoreTypes == CoreSpec => []CoreTypeOK
BY CoreInvariant, CoreInvImplies, PTL

(* Whatever the RM sends, in whatever order the goroutines run: what an    *)
(* application and every queue above it have pending is the sum over the   *)
(* asks.                                                                   *)
THEOREM PendingAccounted == CoreSpec => []PendingAccounting
BY CoreInvariant, CoreInvImplies, PTL

(* Inside the core the partition keeps its accounts too, although the core *)
(* may drop an application whatever state it is in.                        *)
THEOREM CacheInvInCore == CoreSpec => []CacheInv
<1>1. CoreInv => CacheInv
  BY DEF CoreInv
<1> QED
  BY <1>1, CoreInvariant, PTL

-----------------------------------------------------------------------------
(* Counting the elements of a sequence that are in a set.                  *)

PlacesOf(s, M) == { i \in DOMAIN s : s[i] \in M }
Count(s, M) == Cardinality(PlacesOf(s, M))

(* A sequence has finitely many places. *)
LEMMA CountType ==
  ASSUME NEW S, NEW s \in Seq(S), NEW M
  PROVE  IsFiniteSet(PlacesOf(s, M)) /\ Count(s, M) \in Nat
<1>1. DOMAIN s = 1 .. Len(s) /\ Len(s) \in Nat
  OBVIOUS
<1>2. IsFiniteSet(DOMAIN s)
  BY <1>1, FS_Interval
<1>3. PlacesOf(s, M) \subseteq DOMAIN s
  BY DEF PlacesOf
<1> QED
  BY <1>2, <1>3, FS_Subset, FS_CardinalityType DEF Count

(* Nothing of M in the sequence: the count is zero, and the other way. *)
LEMMA CountNone ==
  ASSUME NEW S, NEW s \in Seq(S), NEW M
  PROVE  Count(s, M) = 0 <=> \A i \in DOMAIN s : s[i] \notin M
<1>1. IsFiniteSet(PlacesOf(s, M))
  BY CountType
<1>2. Count(s, M) = 0 <=> PlacesOf(s, M) = {}
  BY <1>1, FS_EmptySet DEF Count
<1> QED
  BY <1>2 DEF PlacesOf

(* The count of a concatenation is the sum. *)
LEMMA CountConcat ==
  ASSUME NEW S, NEW s \in Seq(S), NEW t \in Seq(S), NEW M
  PROVE  Count(s \o t, M) = Count(s, M) + Count(t, M)
<1> DEFINE u == s \o t
           n == Len(s)
           A == PlacesOf(s, M)
           B == PlacesOf(t, M)
           C == { i \in DOMAIN u : i > n /\ u[i] \in M }
           f == [i \in B |-> i + n]
<1>1. /\ n \in Nat /\ Len(t) \in Nat
      /\ DOMAIN s = 1 .. n /\ DOMAIN t = 1 .. Len(t) /\ DOMAIN u = 1 .. n + Len(t)
      /\ \A i \in 1 .. n : u[i] = s[i]
      /\ \A i \in 1 .. Len(t) : u[i + n] = t[i]
  OBVIOUS
<1>2. \A i \in DOMAIN t : i \in Int /\ i > 0 /\ i + n \in DOMAIN u /\ i + n > n /\ u[i + n] = t[i]
  BY <1>1
<1>3. \A i \in DOMAIN u : \/ i \in DOMAIN s /\ ~(i > n)
                          \/ i \notin DOMAIN s /\ i > n /\ i - n \in DOMAIN t /\ (i - n) + n = i
  BY <1>1
<1>4. \A i \in DOMAIN s : i \in DOMAIN u /\ ~(i > n) /\ u[i] = s[i]
  BY <1>1
<1> HIDE DEF u, n
<1>5. PlacesOf(u, M) = A \cup C /\ A \cap C = {}
  BY <1>3, <1>4 DEF PlacesOf
<1>6. f \in Bijection(B, C)
  <2>1. \A i \in B : f[i] \in C
    BY <1>2 DEF PlacesOf
  <2>2. \A i, j \in B : f[i] = f[j] => i = j
    BY <1>1, <1>2 DEF PlacesOf
  <2>3. \A k \in C : \E i \in B : f[i] = k
    <3> SUFFICES ASSUME NEW k \in C
                 PROVE  \E i \in B : f[i] = k
      OBVIOUS
    <3>1. k - n \in DOMAIN t /\ (k - n) + n = k
      BY <1>3
    <3>2. t[k - n] \in M
      BY <1>2, <3>1
    <3> QED
      BY <3>1, <3>2 DEF PlacesOf
  <2> QED
    BY <2>1, <2>2, <2>3 DEF Bijection, Injection, Surjection, IsInjective
<1>7. IsFiniteSet(A) /\ IsFiniteSet(B) /\ Cardinality(A) \in Nat
  BY CountType DEF Count
<1> HIDE DEF f
<1>8. IsFiniteSet(C) /\ Cardinality(C) = Cardinality(B)
  BY <1>6, <1>7, FS_Bijection DEF ExistsBijection
<1> HIDE DEF A, B, C
<1>9. Cardinality(A \cup C) = Cardinality(A) + Cardinality(C)
  <2>1. Cardinality(A \cup C) = Cardinality(A) + Cardinality(C) - Cardinality(A \cap C)
    BY <1>7, <1>8, FS_Union
  <2>2. Cardinality(A \cap C) = 0
    BY <1>5, FS_EmptySet
  <2>3. Cardinality(C) \in Nat
    BY <1>8, FS_CardinalityType
  <2> QED
    BY <1>7, <2>1, <2>2, <2>3
<1> QED
  BY <1>5, <1>8, <1>9 DEF Count, A, B, u

(* Two sequences of one element make one of two. *)
LEMMA PairConcat ==
  ASSUME NEW S, NEW x \in S, NEW y \in S
  PROVE  <<x>> \o <<y>> = <<x, y>> /\ <<>> \o <<y>> = <<y>>
<1> DEFINE c == <<x>> \o <<y>>
           d == <<x, y>>
<1>1. <<x>> \in Seq(S) /\ <<y>> \in Seq(S) /\ d \in Seq(S) /\ <<>> \o <<y>> = <<y>>
  OBVIOUS
<1>2. c \in Seq(S) /\ Len(c) = 2 /\ c[1] = x /\ c[2] = y
  BY <1>1
<1>3. d[1] = x /\ d[2] = y /\ Len(d) = 2
  OBVIOUS
<1> HIDE DEF c, d
<1>4. \A i \in 1 .. Len(c) : c[i] = d[i]
  BY <1>2, <1>3
<1>5. c = d
  BY <1>1, <1>2, <1>3, <1>4, SeqEqual
<1> QED
  BY <1>1, <1>5 DEF c, d

(* The count of short sequences. *)
LEMMA CountShort ==
  ASSUME NEW M
  PROVE  /\ Count(<<>>, M) = 0
         /\ \A e : Count(<<e>>, M) = IF e \in M THEN 1 ELSE 0
<1>1. Count(<<>>, M) = 0
  <2>1. PlacesOf(<<>>, M) = {}
    BY DEF PlacesOf
  <2> QED
    BY <2>1, FS_EmptySet DEF Count
<1>2. ASSUME NEW e
      PROVE  Count(<<e>>, M) = IF e \in M THEN 1 ELSE 0
  <2>1. DOMAIN <<e>> = {1} /\ <<e>>[1] = e
    OBVIOUS
  <2>2. CASE e \in M
    <3>1. PlacesOf(<<e>>, M) = {1}
      BY <2>1, <2>2 DEF PlacesOf
    <3> QED
      BY <2>2, <3>1, FS_Singleton DEF Count
  <2>3. CASE e \notin M
    <3>1. PlacesOf(<<e>>, M) = {}
      BY <2>1, <2>3 DEF PlacesOf
    <3> QED
      BY <2>3, <3>1, FS_EmptySet DEF Count
  <2> QED
    BY <2>2, <2>3
<1> QED
  BY <1>1, <1>2

(* Taking the first element off. *)
LEMMA CountTail ==
  ASSUME NEW S, NEW s \in Seq(S), s # <<>>, NEW M
  PROVE  /\ Head(s) \in S /\ Tail(s) \in Seq(S)
         /\ Head(s) \in M => Count(s, M) = Count(Tail(s), M) + 1
         /\ Head(s) \notin M => Count(s, M) = Count(Tail(s), M)
<1> DEFINE h == <<Head(s)>>
<1>1. Head(s) \in S /\ Tail(s) \in Seq(S) /\ h \in Seq(S) /\ s = h \o Tail(s)
  OBVIOUS
<1>2. Count(h, M) = IF Head(s) \in M THEN 1 ELSE 0
  BY CountShort
<1> HIDE DEF h
<1>3. Count(h \o Tail(s), M) = Count(h, M) + Count(Tail(s), M)
  BY <1>1, CountConcat
<1>4. Count(Tail(s), M) \in Nat
  BY <1>1, CountType
<1>5. Count(s, M) = Count(h, M) + Count(Tail(s), M)
  BY <1>1, <1>3, Zenon
<1>6. Head(s) \in M => Count(s, M) = Count(Tail(s), M) + 1
  BY <1>2, <1>4, <1>5
<1>7. Head(s) \notin M => Count(s, M) = Count(Tail(s), M)
  BY <1>2, <1>4, <1>5
<1> QED
  BY <1>1, <1>6, <1>7

-----------------------------------------------------------------------------
(* Who sends what to whom.                                                 *)

Msg == CacheMsg \cup SchedMsg \cup RmMsg
Ends == {"cache", "sched", "rm"}

(* <<goroutine, channel, kind of event>>, from the handlers. *)
Routes ==
  { <<"cacheRM", "sched", k>> : k \in {"addApp", "removeApp", "ask", "release"} }
  \cup { <<"cacheRM", "rm", k>> : k \in {"rejected", "rejectedAsk"} }
  \cup { <<"cacheSched", "sched", "rejected">> }
  \cup { <<"cacheSched", "rm", k>> : k \in {"allocated", "released"} }
  \cup { <<"schedEvent", "cache", k>> : k \in {"removedApp", "rejectedApp", "release"} }
  \cup { <<"schedEvent", "rm", k>> : k \in {"accepted", "rejected", "rejectedAsk"} }
  \cup { <<"schedule", "cache", "proposal">> }

(* What is in the outboxes goes along a route. *)
Routed ==
  \A t \in Threads : \A i \in DOMAIN outbox[t] :
    <<t, outbox[t][i].to, outbox[t][i].ev.kind>> \in Routes

(* Only t sends the events of these kinds to the end `to', and nowhere else. *)
OwnRoute(t, to, kinds) ==
  \A r \in Routes : r[3] \in kinds => (r[1] = t <=> r[2] = to)

Channel(to) == CASE to = "cache" -> cacheEvents
                 [] to = "sched" -> schedEvents
                 [] OTHER        -> rmEvents

Evs(msgs) == [i \in DOMAIN msgs |-> msgs[i].ev]

(* The events of M on their way from t to the other end. *)
Flow(t, to, M) == Count(Channel(to), M) + Count(Evs(outbox[t]), M)

(* Events have the types of their channels. *)
LEMMA FlowTypes ==
  ASSUME ChannelTypes
  PROVE  /\ \A to \in Ends : Channel(to) \in Seq(Msg)
         /\ \A t \in Threads : outbox[t] \in Seq(Envelope) /\ Evs(outbox[t]) \in Seq(Msg)
         /\ \A e \in Envelope : e.ev \in Msg /\ e.to \in Ends
<1>1. \A e \in Envelope : e.ev \in Msg /\ e.to \in Ends
  BY DEF Envelope, Msg, Ends
<1>2. cacheEvents \in Seq(Msg) /\ schedEvents \in Seq(Msg) /\ rmEvents \in Seq(Msg)
  <2>1. CacheMsg \subseteq Msg /\ SchedMsg \subseteq Msg /\ RmMsg \subseteq Msg
    BY DEF Msg
  <2>2. cacheEvents \in Seq(CacheMsg) /\ schedEvents \in Seq(SchedMsg) /\ rmEvents \in Seq(RmMsg)
    BY DEF ChannelTypes
  <2> QED
    BY <2>1, <2>2
<1>3. ASSUME NEW t \in Threads
      PROVE  outbox[t] \in Seq(Envelope) /\ Evs(outbox[t]) \in Seq(Msg)
  <2>1. outbox[t] \in Seq(Envelope)
    BY DEF ChannelTypes
  <2>2. PICK box \in Seq(Envelope) : box = outbox[t]
    BY <2>1
  <2>3. Evs(box) \in Seq(Msg)
    <3>1. DOMAIN box = 1 .. Len(box) /\ Len(box) \in Nat /\ \A i \in 1 .. Len(box) : box[i] \in Envelope
      OBVIOUS
    <3> QED
      BY <1>1, <3>1 DEF Evs
  <2> QED
    BY <2>1, <2>2, <2>3
<1> QED
  BY <1>1, <1>2, <1>3 DEF Channel

(* What a flow counts is a natural number. *)
LEMMA FlowNat ==
  ASSUME ChannelTypes, NEW t \in Threads, NEW to \in Ends, NEW M
  PROVE  /\ Count(Channel(to), M) \in Nat /\ Count(Evs(outbox[t]), M) \in Nat
         /\ Flow(t, to, M) \in Nat
<1>1. Channel(to) \in Seq(Msg) /\ Evs(outbox[t]) \in Seq(Msg)
  BY FlowTypes
<1>2. Count(Channel(to), M) \in Nat
  <2>1. PICK c \in Seq(Msg) : c = Channel(to)
    BY <1>1
  <2> QED
    BY <2>1, CountType
<1>3. Count(Evs(outbox[t]), M) \in Nat
  <2>1. PICK c \in Seq(Msg) : c = Evs(outbox[t])
    BY <1>1
  <2> QED
    BY <2>1, CountType
<1> QED
  BY <1>2, <1>3 DEF Flow

(* The events of an outbox without its first envelope. *)
LEMMA EvsTail ==
  ASSUME NEW box \in Seq(Envelope), box # <<>>
  PROVE  /\ Evs(box) # <<>> /\ Head(Evs(box)) = Head(box).ev /\ Tail(Evs(box)) = Evs(Tail(box))
         /\ Head(box) \in Envelope /\ Tail(box) \in Seq(Envelope)
<1>1. /\ DOMAIN box = 1 .. Len(box) /\ Len(box) \in Nat /\ Len(box) > 0
      /\ Head(box) = box[1] /\ Head(box) \in Envelope /\ Tail(box) \in Seq(Envelope)
      /\ DOMAIN Tail(box) = 1 .. Len(box) - 1
      /\ \A i \in 1 .. Len(box) - 1 : Tail(box)[i] = box[i + 1]
  OBVIOUS
<1>2. Evs(box) = [i \in 1 .. Len(box) |-> box[i].ev]
  BY <1>1 DEF Evs
<1>3. Evs(box) \in Seq({ box[i].ev : i \in 1 .. Len(box) }) /\ Len(Evs(box)) = Len(box)
  BY <1>1, <1>2
<1>4. Evs(box) # <<>> /\ Head(Evs(box)) = Head(box).ev
  BY <1>1, <1>2, <1>3
<1>5. Tail(Evs(box)) = [i \in 1 .. Len(box) - 1 |-> box[i + 1].ev]
  BY <1>1, <1>2, <1>3
<1>6. Evs(Tail(box)) = [i \in 1 .. Len(box) - 1 |-> box[i + 1].ev]
  BY <1>1 DEF Evs
<1> QED
  BY <1>1, <1>4, <1>5, <1>6

(* The events at the front of a flow: one taken off, one put on. *)
LEMMA CountAppended ==
  ASSUME NEW c \in Seq(Msg), NEW ev \in Msg, NEW M, NEW b \in BOOLEAN
  PROVE  Count(c \o (IF b THEN <<ev>> ELSE <<>>), M)
           = Count(c, M) + (IF b /\ ev \in M THEN 1 ELSE 0)
<1>1. Count(c, M) \in Nat
  BY CountType
<1>2. CASE b
  <2>1. <<ev>> \in Seq(Msg)
    OBVIOUS
  <2>2. Count(c \o <<ev>>, M) = Count(c, M) + Count(<<ev>>, M)
    BY <2>1, CountConcat
  <2>3. Count(<<ev>>, M) = IF ev \in M THEN 1 ELSE 0
    BY CountShort
  <2> QED
    BY <1>2, <2>2, <2>3
<1>3. CASE ~b
  <2>1. c \o <<>> = c
    OBVIOUS
  <2> QED
    BY <1>1, <1>3, <2>1
<1> QED
  BY <1>2, <1>3

(* Handing over an event changes nothing in the flow it belongs to. *)
LEMMA SendFlow ==
  ASSUME ChannelTypes, Routed, NEW s \in Threads, Send(s),
         NEW t \in Threads, NEW to \in Ends, NEW kinds, OwnRoute(t, to, kinds),
         NEW M, \A ev \in M : ev.kind \in kinds
  PROVE  Flow(t, to, M)' = Flow(t, to, M)
<1> DEFINE e == Head(outbox[s])
           more == IF e.to = to THEN <<e.ev>> ELSE <<>>
<1>1. /\ outbox[s] # <<>>
      /\ outbox' = [outbox EXCEPT ![s] = Tail(@)]
      /\ Channel(to)' = Channel(to) \o more
  BY DEF Send, Channel, Ends
<1>2. outbox[s] \in Seq(Envelope) /\ Channel(to) \in Seq(Msg) /\ Evs(outbox[t]) \in Seq(Msg)
  BY FlowTypes
<1>3. e \in Envelope /\ e.ev \in Msg /\ e.to \in Ends
  BY <1>1, <1>2, FlowTypes
<1>4. e.ev \in M => (s = t <=> e.to = to)
  <2>1. 1 \in DOMAIN outbox[s] /\ e = outbox[s][1]
    BY <1>1, <1>2
  <2>2. <<s, e.to, e.ev.kind>> \in Routes
    BY <2>1 DEF Routed
  <2> QED
    BY <2>2 DEF OwnRoute
<1>5. Count(Channel(to)', M) = Count(Channel(to), M) + (IF e.to = to /\ e.ev \in M THEN 1 ELSE 0)
  <2> DEFINE b == e.to = to
  <2>1. PICK c \in Seq(Msg), ev \in Msg : c = Channel(to) /\ ev = e.ev
    BY <1>2, <1>3
  <2>2. b \in BOOLEAN
    OBVIOUS
  <2>3. Channel(to)' = c \o (IF b THEN <<ev>> ELSE <<>>)
    BY <1>1, <2>1
  <2> HIDE DEF b
  <2>4. Count(c \o (IF b THEN <<ev>> ELSE <<>>), M) = Count(c, M) + (IF b /\ ev \in M THEN 1 ELSE 0)
    BY <2>2, CountAppended
  <2> QED
    BY <2>1, <2>3, <2>4 DEF b
<1>6. Count(Evs(outbox'[t]), M) = Count(Evs(outbox[t]), M) - (IF s = t /\ e.ev \in M THEN 1 ELSE 0)
  <2>1. Count(Evs(outbox[t]), M) \in Nat
    BY FlowNat
  <2>2. CASE s = t
    <3>1. PICK box \in Seq(Envelope) : box = outbox[t]
      BY <1>2, <2>2
    <3>2. outbox'[t] = Tail(box) /\ box # <<>> /\ e = Head(box)
      BY <1>1, <2>2, <3>1 DEF ChannelTypes
    <3>3. Evs(box) # <<>> /\ Head(Evs(box)) = e.ev /\ Tail(Evs(box)) = Evs(outbox'[t])
      BY <3>2, EvsTail
    <3>4. Evs(box) \in Seq(Msg)
      BY <1>2, <3>1
    <3>5. PICK c \in Seq(Msg) : c = Evs(box)
      BY <3>4
    <3>6. c # <<>> /\ Head(c) = e.ev /\ Tail(c) = Evs(outbox'[t])
      BY <3>3, <3>5
    <3>7. /\ Head(c) \in M => Count(c, M) = Count(Tail(c), M) + 1
          /\ Head(c) \notin M => Count(c, M) = Count(Tail(c), M)
          /\ Tail(c) \in Seq(Msg)
      BY <3>6, CountTail
    <3>8. Count(Tail(c), M) \in Nat
      BY <3>7, CountType
    <3>9. Count(c, M) = Count(Evs(outbox[t]), M) /\ Count(Tail(c), M) = Count(Evs(outbox'[t]), M)
      BY <3>1, <3>5, <3>6
    <3> HIDE DEF e
    <3> QED
      BY <2>2, <3>6, <3>7, <3>8, <3>9
  <2>3. CASE s # t
    <3>1. outbox'[t] = outbox[t]
      BY <1>1, <2>3 DEF ChannelTypes
    <3> QED
      BY <2>1, <2>3, <3>1
  <2> QED
    BY <2>2, <2>3
<1>7. Count(Channel(to), M) \in Nat /\ Count(Evs(outbox[t]), M) \in Nat
  BY FlowNat
<1>8. Flow(t, to, M)' = Count(Channel(to)', M) + Count(Evs(outbox'[t]), M)
  BY DEF Flow
<1> HIDE DEF e
<1> QED
  BY <1>4, <1>5, <1>6, <1>7, <1>8 DEF Flow

(* A goroutine that starts a handler has nothing left to send; what it     *)
(* posts is all its outbox holds.                                          *)
LEMMA PostedCount ==
  ASSUME NEW M
  PROVE  /\ Count(Evs(<<>>), M) = 0
         /\ \A e : Count(Evs(<<e>>), M) = IF e.ev \in M THEN 1 ELSE 0
         /\ \A e, f : e.ev \in Msg /\ f.ev \in Msg =>
              Count(Evs(<<e, f>>), M) = (IF e.ev \in M THEN 1 ELSE 0) + (IF f.ev \in M THEN 1 ELSE 0)
<1>1. Evs(<<>>) = <<>> /\ \A e : Evs(<<e>>) = <<e.ev>>
  BY DEF Evs
<1>2. Count(Evs(<<>>), M) = 0 /\ \A e : Count(Evs(<<e>>), M) = IF e.ev \in M THEN 1 ELSE 0
  BY <1>1, CountShort
<1>3. ASSUME NEW e, NEW f, e.ev \in Msg, f.ev \in Msg
      PROVE  Count(Evs(<<e, f>>), M) = (IF e.ev \in M THEN 1 ELSE 0) + (IF f.ev \in M THEN 1 ELSE 0)
  <2>1. PICK x \in Msg, y \in Msg : x = e.ev /\ y = f.ev
    BY <1>3
  <2>2. Evs(<<e, f>>) = <<x, y>>
    BY <2>1 DEF Evs
  <2> DEFINE c == <<x, y>>
  <2>3. c \in Seq(Msg)
    OBVIOUS
  <2>4. c # <<>> /\ Head(c) = x /\ Tail(c) = <<y>>
    OBVIOUS
  <2> HIDE DEF c
  <2>5. /\ Head(c) \in M => Count(c, M) = Count(Tail(c), M) + 1
        /\ Head(c) \notin M => Count(c, M) = Count(Tail(c), M)
    BY <2>3, <2>4, CountTail
  <2>6. Count(Tail(c), M) = IF y \in M THEN 1 ELSE 0
    BY <2>4, CountShort
  <2>7. Count(c, M) = (IF x \in M THEN 1 ELSE 0) + (IF y \in M THEN 1 ELSE 0)
    BY <2>4, <2>5, <2>6
  <2> QED
    BY <2>1, <2>2, <2>7 DEF c
<1> QED
  BY <1>2, <1>3

(* A handler takes the first event of a channel. *)
LEMMA TakeCount ==
  ASSUME NEW c \in Seq(Msg), c # <<>>, NEW M
  PROVE  Count(c, M) = Count(Tail(c), M) + (IF Head(c) \in M THEN 1 ELSE 0)
<1>1. /\ Head(c) \in M => Count(c, M) = Count(Tail(c), M) + 1
      /\ Head(c) \notin M => Count(c, M) = Count(Tail(c), M)
      /\ Tail(c) \in Seq(Msg)
  BY CountTail
<1>2. Count(Tail(c), M) \in Nat
  BY <1>1, CountType
<1> QED
  BY <1>1, <1>2

(* A step of a goroutine's handler: it takes the first event of a channel, *)
(* or of none, and its empty outbox gets what it has to send.              *)
Handled(s, from, msgs) ==
  /\ outbox[s] = <<>>
  /\ outbox' = [outbox EXCEPT ![s] = msgs]
  /\ \A to \in Ends : IF to = from THEN Channel(to) # <<>> /\ Channel(to)' = Tail(Channel(to))
                                   ELSE Channel(to)' = Channel(to)

(* What a handler does to a flow. *)
LEMMA HandledFlow ==
  ASSUME ChannelTypes, NEW s \in Threads, NEW from, NEW msgs, Handled(s, from, msgs),
         NEW t \in Threads, NEW to \in Ends, NEW M
  PROVE  /\ to # from => Channel(to)' = Channel(to)
         /\ t # s /\ to # from => Flow(t, to, M)' = Flow(t, to, M)
         /\ t # s /\ to = from =>
              Flow(t, to, M)' = Flow(t, to, M) - (IF Head(Channel(to)) \in M THEN 1 ELSE 0)
         /\ t = s /\ to # from => Flow(t, to, M)' = Flow(t, to, M) + Count(Evs(msgs), M)
<1>1. /\ outbox[s] = <<>>
      /\ outbox' = [outbox EXCEPT ![s] = msgs]
      /\ IF to = from THEN Channel(to) # <<>> /\ Channel(to)' = Tail(Channel(to))
                      ELSE Channel(to)' = Channel(to)
  BY DEF Handled
<1>2. Channel(to) \in Seq(Msg) /\ Count(Channel(to), M) \in Nat /\ Count(Evs(outbox[t]), M) \in Nat
  BY FlowTypes, FlowNat
<1>3. Flow(t, to, M)' = Count(Channel(to)', M) + Count(Evs(outbox'[t]), M)
  BY DEF Flow
<1>4. t # s => outbox'[t] = outbox[t]
  BY <1>1 DEF ChannelTypes
<1>5. t = s => outbox'[t] = msgs /\ Count(Evs(outbox[t]), M) = 0
  BY <1>1, PostedCount DEF ChannelTypes
<1>6. to = from => Count(Channel(to)', M) = Count(Channel(to), M)
                                            - (IF Head(Channel(to)) \in M THEN 1 ELSE 0)
  <2> SUFFICES ASSUME to = from
               PROVE  Count(Channel(to)', M) = Count(Channel(to), M)
                                               - (IF Head(Channel(to)) \in M THEN 1 ELSE 0)
    OBVIOUS
  <2>1. PICK c \in Seq(Msg) : c = Channel(to)
    BY <1>2
  <2>2. c # <<>> /\ Channel(to)' = Tail(c)
    BY <1>1, <2>1
  <2>3. Count(c, M) = Count(Tail(c), M) + (IF Head(c) \in M THEN 1 ELSE 0)
    BY <2>2, TakeCount
  <2>4. Tail(c) \in Seq(Msg)
    BY <2>2
  <2>5. Count(Tail(c), M) \in Nat
    BY <2>4, CountType
  <2> QED
    BY <2>1, <2>2, <2>3, <2>5
<1>7. to # from => Channel(to)' = Channel(to)
  BY <1>1
<1>8. t # s /\ to # from => Flow(t, to, M)' = Flow(t, to, M)
  BY <1>3, <1>4, <1>7 DEF Flow
<1>9. t # s /\ to = from =>
        Flow(t, to, M)' = Flow(t, to, M) - (IF Head(Channel(to)) \in M THEN 1 ELSE 0)
  BY <1>2, <1>3, <1>4, <1>6 DEF Flow
<1>10. t = s /\ to # from => Flow(t, to, M)' = Flow(t, to, M) + Count(Evs(msgs), M)
  <2> SUFFICES ASSUME t = s, to # from
               PROVE  Flow(t, to, M)' = Flow(t, to, M) + Count(Evs(msgs), M)
    OBVIOUS
  <2>1. Flow(t, to, M)' = Count(Channel(to), M) + Count(Evs(msgs), M)
    BY <1>3, <1>5, <1>7
  <2>2. Flow(t, to, M) = Count(Channel(to), M)
    BY <1>2, <1>5 DEF Flow
  <2> QED
    BY <2>1, <2>2
<1> QED
  BY <1>7, <1>8, <1>9, <1>10

(* What a handler posts must go along a route. *)
LEMMA HandledRouted ==
  ASSUME ChannelTypes, Routed, NEW s \in Threads, NEW from, NEW msgs, Handled(s, from, msgs),
         \A i \in DOMAIN msgs : <<s, msgs[i].to, msgs[i].ev.kind>> \in Routes
  PROVE  Routed'
<1>1. outbox' = [outbox EXCEPT ![s] = msgs] /\ outbox \in [Threads -> Seq(Envelope)]
  BY DEF Handled, ChannelTypes
<1>2. ASSUME NEW t \in Threads, NEW i \in DOMAIN outbox'[t]
      PROVE  <<t, outbox'[t][i].to, outbox'[t][i].ev.kind>> \in Routes
  <2>1. CASE t = s
    <3>1. outbox'[t] = msgs
      BY <1>1, <2>1
    <3> QED
      BY <1>2, <2>1, <3>1
  <2>2. CASE t # s
    <3>1. outbox'[t] = outbox[t]
      BY <1>1, <2>2
    <3> QED
      BY <1>2, <3>1 DEF Routed
  <2> QED
    BY <2>1, <2>2
<1> QED
  BY <1>2 DEF Routed

(* Handing over an event keeps the other ones on their routes. *)
LEMMA SendRouted ==
  ASSUME ChannelTypes, Routed, NEW s \in Threads, Send(s)
  PROVE  Routed'
<1>1. outbox[s] # <<>> /\ outbox' = [outbox EXCEPT ![s] = Tail(@)]
      /\ outbox \in [Threads -> Seq(Envelope)]
  BY DEF Send, ChannelTypes
<1>2. ASSUME NEW t \in Threads, NEW i \in DOMAIN outbox'[t]
      PROVE  <<t, outbox'[t][i].to, outbox'[t][i].ev.kind>> \in Routes
  <2>1. CASE t = s
    <3>1. outbox'[t] = Tail(outbox[t]) /\ outbox[t] \in Seq(Envelope) /\ outbox[t] # <<>>
      BY <1>1, <2>1
    <3>2. PICK box \in Seq(Envelope) : box = outbox[t]
      BY <3>1
    <3>3. i \in DOMAIN Tail(box) => i + 1 \in DOMAIN box /\ Tail(box)[i] = box[i + 1]
      BY <3>1, <3>2
    <3>4. i + 1 \in DOMAIN outbox[t] /\ outbox'[t][i] = outbox[t][i + 1]
      BY <1>2, <3>1, <3>2, <3>3
    <3> QED
      BY <3>4 DEF Routed
  <2>2. CASE t # s
    <3>1. outbox'[t] = outbox[t]
      BY <1>1, <2>2
    <3> QED
      BY <1>2, <3>1 DEF Routed
  <2> QED
    BY <2>1, <2>2
<1> QED
  BY <1>2 DEF Routed

-----------------------------------------------------------------------------
(* The handlers of the four goroutines, as steps of this form.             *)

(* A handler that has nothing to send. *)
LEMMA HandledQuiet ==
  ASSUME ChannelTypes, NEW s \in Threads, outbox[s] = <<>>, UNCHANGED outbox
  PROVE  outbox' = [outbox EXCEPT ![s] = <<>>]
BY DEF ChannelTypes

(* The cache's handlers of the updates of the RM. *)
LEMMA CacheRMHandled ==
  ASSUME ChannelTypes, NEW u \in updates
  PROVE  /\ CacheAddApp(u) =>
              \/ /\ AddNewApplication(u.ev.app, u.ev.queue)
                 /\ Handled("cacheRM", "none", <<ToSched([kind |-> "addApp", app |-> u.ev.app])>>)
              \/ /\ UNCHANGED vars
                 /\ Handled("cacheRM", "none", <<ToRM([kind |-> "rejected", app |-> u.ev.app])>>)
         /\ CacheAsk(u) =>
              \/ Handled("cacheRM", "none", <<ToSched(u.ev)>>)
              \/ Handled("cacheRM", "none", <<ToRM([kind |-> "rejectedAsk", key |-> u.ev.key]),
                                              ToSched(u.ev)>>)
         /\ CachePassOn(u) => Handled("cacheRM", "none", <<ToSched(u.ev)>>)
         /\ CacheRMTake(u) => UNCHANGED schedVars
<1>1. ASSUME CacheRMTake(u), NEW msgs, Post("cacheRM", msgs)
      PROVE  Handled("cacheRM", "none", msgs)
  BY <1>1 DEF CacheRMTake, Post, Handled, Channel, Ends
<1>2. CacheAddApp(u) =>
        \/ /\ AddNewApplication(u.ev.app, u.ev.queue)
           /\ Handled("cacheRM", "none", <<ToSched([kind |-> "addApp", app |-> u.ev.app])>>)
        \/ /\ UNCHANGED vars
           /\ Handled("cacheRM", "none", <<ToRM([kind |-> "rejected", app |-> u.ev.app])>>)
  BY <1>1 DEF CacheAddApp
<1>3. CacheAsk(u) =>
        \/ Handled("cacheRM", "none", <<ToSched(u.ev)>>)
        \/ Handled("cacheRM", "none", <<ToRM([kind |-> "rejectedAsk", key |-> u.ev.key]), ToSched(u.ev)>>)
  <2> DEFINE no == ToRM([kind |-> "rejectedAsk", key |-> u.ev.key])
             ask == ToSched(u.ev)
  <2>1. <<>> \o <<ask>> = <<ask>> /\ <<no>> \o <<ask>> = <<no, ask>>
    <3> DEFINE S == {no, ask}
    <3>1. no \in S /\ ask \in S
      OBVIOUS
    <3> HIDE DEF no, ask, S
    <3> QED
      BY <3>1, PairConcat
  <2>2. CacheAsk(u) => /\ CacheRMTake(u)
                       /\ Post("cacheRM", (IF AppOf[u.ev.key] \in apps THEN <<>> ELSE <<no>>) \o <<ask>>)
    BY DEF CacheAsk
  <2> HIDE DEF no, ask
  <2>3. CacheAsk(u) => CacheRMTake(u) /\ (Post("cacheRM", <<ask>>) \/ Post("cacheRM", <<no, ask>>))
    BY <2>1, <2>2
  <2>4. CacheAsk(u) => \/ Handled("cacheRM", "none", <<ask>>)
                       \/ Handled("cacheRM", "none", <<no, ask>>)
    BY <1>1, <2>3
  <2> QED
    BY <2>4 DEF no, ask
<1>4. CachePassOn(u) => Handled("cacheRM", "none", <<ToSched(u.ev)>>)
  BY <1>1 DEF CachePassOn
<1> QED
  BY <1>2, <1>3, <1>4 DEF CacheRMTake

(* Scheduler.HandleEvent. *)
LEMMA SchedEventHandled ==
  ASSUME ChannelTypes
  PROVE  LET ev == Head(schedEvents)
             Does(msgs) == Handled("schedEvent", "sched", msgs)
         IN
         /\ SchedAddApp => /\ ev.kind = "addApp"
                           /\ \/ /\ ~Scheduled(ev.app) /\ leafQueue[ev.app] \in Leaves
                                 /\ AcceptApplication(ev.app, leafQueue[ev.app])
                                 /\ schedQueue' = [schedQueue EXCEPT ![ev.app] = leafQueue[ev.app]]
                                 /\ Does(<<ToRM([kind |-> "accepted", app |-> ev.app])>>)
                              \/ /\ RejectApplication(ev.app) /\ UNCHANGED schedQueue
                                 /\ Does(<<ToCache([kind |-> "rejectedApp", app |-> ev.app]),
                                           ToRM([kind |-> "rejected", app |-> ev.app])>>)
         /\ SchedRemoveApp => /\ ev.kind = "removeApp"
                              /\ UNCHANGED vars
                              /\ \/ /\ Scheduled(ev.app)
                                    /\ schedQueue' = [schedQueue EXCEPT ![ev.app] = NoQueue]
                                    /\ Does(<<ToCache([kind |-> "removedApp", app |-> ev.app])>>)
                                 \/ UNCHANGED schedVars /\ Does(<<>>)
         /\ SchedAsk => /\ ev.kind = "ask"
                        /\ UNCHANGED <<vars, schedQueue>>
                        /\ \/ Does(<<>>)
                           \/ Does(<<ToRM([kind |-> "rejectedAsk", key |-> ev.key])>>)
         /\ SchedRejected => ev.kind = "rejected" /\ UNCHANGED <<vars, schedQueue>> /\ Does(<<>>)
         /\ SchedRelease => /\ ev.kind = "release"
                            /\ UNCHANGED <<vars, schedQueue>>
                            /\ Does(<<ToCache(ev)>>)
<1> DEFINE ev == Head(schedEvents)
           Does(msgs) == Handled("schedEvent", "sched", msgs)
<1>1. ASSUME NEW kind, SchedTake(kind), NEW msgs, Post("schedEvent", msgs)
      PROVE  Does(msgs)
  BY <1>1 DEF SchedTake, Post, Handled, Channel, Ends
<1>2. ASSUME NEW kind, SchedTake(kind), UNCHANGED outbox
      PROVE  Does(<<>>)
  <2>1. outbox' = [outbox EXCEPT !["schedEvent"] = <<>>]
    BY <1>2, HandledQuiet DEF SchedTake, Threads
  <2> QED
    BY <1>2, <2>1 DEF SchedTake, Handled, Channel, Ends
<1>3. \A kind : SchedTake(kind) => ev.kind = kind
  BY DEF SchedTake
<1> HIDE DEF Does, ev
<1>4. SchedAddApp => /\ ev.kind = "addApp"
                     /\ \/ /\ ~Scheduled(ev.app) /\ leafQueue[ev.app] \in Leaves
                           /\ AcceptApplication(ev.app, leafQueue[ev.app])
                           /\ schedQueue' = [schedQueue EXCEPT ![ev.app] = leafQueue[ev.app]]
                           /\ Does(<<ToRM([kind |-> "accepted", app |-> ev.app])>>)
                        \/ /\ RejectApplication(ev.app) /\ UNCHANGED schedQueue
                           /\ Does(<<ToCache([kind |-> "rejectedApp", app |-> ev.app]),
                                     ToRM([kind |-> "rejected", app |-> ev.app])>>)
  BY <1>1, <1>3 DEF SchedAddApp, ev
<1>5. SchedRemoveApp => /\ ev.kind = "removeApp"
                        /\ UNCHANGED vars
                        /\ \/ /\ Scheduled(ev.app)
                              /\ schedQueue' = [schedQueue EXCEPT ![ev.app] = NoQueue]
                              /\ Does(<<ToCache([kind |-> "removedApp", app |-> ev.app])>>)
                           \/ UNCHANGED schedVars /\ Does(<<>>)
  BY <1>1, <1>2, <1>3 DEF SchedRemoveApp, ev
<1>6. SchedAsk => /\ ev.kind = "ask"
                  /\ UNCHANGED <<vars, schedQueue>>
                  /\ \/ Does(<<>>)
                     \/ Does(<<ToRM([kind |-> "rejectedAsk", key |-> ev.key])>>)
  BY <1>1, <1>2, <1>3 DEF SchedAsk, ev, UpdateSchedulingRequest, schedVars
<1>7. SchedRejected => ev.kind = "rejected" /\ UNCHANGED <<vars, schedQueue>> /\ Does(<<>>)
  BY <1>2, <1>3 DEF SchedRejected, UpdateAskRepeat, schedVars
<1>8. SchedRelease => /\ ev.kind = "release"
                      /\ UNCHANGED <<vars, schedQueue>>
                      /\ Does(<<ToCache(ev)>>)
  BY <1>1, <1>3 DEF SchedRelease, ev, RemoveAllocationAsk, schedVars
<1> QED
  BY <1>4, <1>5, <1>6, <1>7, <1>8 DEF Does, ev

(* The cache's handlers of the events of the scheduler. *)
LEMMA CacheSchedHandled ==
  ASSUME ChannelTypes
  PROVE  LET ev == Head(cacheEvents)
             Does(msgs) == Handled("cacheSched", "cache", msgs)
             released(R) == ToRM([kind |-> "released", uuids |-> { a.uuid : a \in R }])
         IN
         /\ CacheSched => UNCHANGED schedVars
         /\ CacheProposal =>
              /\ ev.kind = "proposal"
              /\ \/ /\ Issued # Uuids /\ AddNewAllocation(ev.p)
                    /\ \A a \in allocations' \ allocations : a.uuid = NextUuid
                    /\ allocKey' = [allocKey EXCEPT ![NextUuid] = ev.key]
                    /\ Does(<<ToRM([kind |-> "allocated", uuid |-> NextUuid])>>)
                 \/ /\ UNCHANGED <<vars, allocKey>>
                    /\ Does(<<ToSched([kind |-> "rejected", key |-> ev.key])>>)
         /\ CacheRelease =>
              /\ ev.kind = "release" /\ UNCHANGED allocKey
              /\ \/ ReleaseAllocations(ev.app, Named(ev)) /\ Does(<<released(Named(ev))>>)
                 \/ UNCHANGED vars /\ Does(<<>>)
         /\ CacheRemovedApp =>
              /\ ev.kind = "removedApp" /\ UNCHANGED allocKey
              /\ \/ RemoveApplication(ev.app)
                 \/ ev.app \notin apps /\ UNCHANGED vars
              /\ \/ appAllocs[ev.app] \cap allocations = {} /\ Does(<<>>)
                 \/ Does(<<released(appAllocs[ev.app] \cap allocations)>>)
         /\ CacheRejectedApp =>
              /\ ev.kind = "rejectedApp" /\ UNCHANGED allocKey
              /\ DropApplication(ev.app)
              /\ UNCHANGED <<partitionState, nodeVars, allocations, queueAllocated, op>>
              /\ Does(<<>>)
<1> DEFINE ev == Head(cacheEvents)
           Does(msgs) == Handled("cacheSched", "cache", msgs)
           released(R) == ToRM([kind |-> "released", uuids |-> { a.uuid : a \in R }])
<1>1. ASSUME NEW kind, CacheTake(kind), NEW msgs, Post("cacheSched", msgs)
      PROVE  Does(msgs)
  BY <1>1 DEF CacheTake, Post, Handled, Channel, Ends
<1>2. ASSUME NEW kind, CacheTake(kind), UNCHANGED outbox
      PROVE  Does(<<>>)
  <2>1. outbox' = [outbox EXCEPT !["cacheSched"] = <<>>]
    BY <1>2, HandledQuiet DEF CacheTake, Threads
  <2> QED
    BY <1>2, <2>1 DEF CacheTake, Handled, Channel, Ends
<1>3. \A kind : CacheTake(kind) => ev.kind = kind
  BY DEF CacheTake
<1> HIDE DEF Does, ev
<1>4. CacheSched => UNCHANGED schedVars
  BY DEF CacheSched, CacheProposal, CacheRelease, CacheRemovedApp, CacheRejectedApp, CacheTake
<1>5. CacheProposal =>
        /\ ev.kind = "proposal"
        /\ \/ /\ Issued # Uuids /\ AddNewAllocation(ev.p)
              /\ \A a \in allocations' \ allocations : a.uuid = NextUuid
              /\ allocKey' = [allocKey EXCEPT ![NextUuid] = ev.key]
              /\ Does(<<ToRM([kind |-> "allocated", uuid |-> NextUuid])>>)
           \/ /\ UNCHANGED <<vars, allocKey>>
              /\ Does(<<ToSched([kind |-> "rejected", key |-> ev.key])>>)
  BY <1>1, <1>3 DEF CacheProposal, ev
<1>6. CacheRelease =>
        /\ ev.kind = "release" /\ UNCHANGED allocKey
        /\ \/ ReleaseAllocations(ev.app, Named(ev)) /\ Does(<<released(Named(ev))>>)
           \/ UNCHANGED vars /\ Does(<<>>)
  BY <1>1, <1>2, <1>3 DEF CacheRelease, ev
<1>7. CacheRemovedApp =>
        /\ ev.kind = "removedApp" /\ UNCHANGED allocKey
        /\ \/ RemoveApplication(ev.app)
           \/ ev.app \notin apps /\ UNCHANGED vars
        /\ \/ appAllocs[ev.app] \cap allocations = {} /\ Does(<<>>)
           \/ Does(<<released(appAllocs[ev.app] \cap allocations)>>)
  <2> DEFINE R == appAllocs[ev.app] \cap allocations
  <2>1. CacheRemovedApp => /\ CacheTake("removedApp") /\ UNCHANGED allocKey
                           /\ \/ RemoveApplication(ev.app)
                              \/ ev.app \notin apps /\ UNCHANGED vars
                           /\ Post("cacheSched", IF R = {} THEN <<>> ELSE <<released(R)>>)
    BY DEF CacheRemovedApp, ev
  <2> HIDE DEF R, released
  <2>2. CacheRemovedApp => \/ R = {} /\ Post("cacheSched", <<>>)
                           \/ Post("cacheSched", <<released(R)>>)
    BY <2>1
  <2>3. CacheRemovedApp => \/ R = {} /\ Does(<<>>)
                           \/ Does(<<released(R)>>)
    BY <1>1, <2>1, <2>2
  <2> QED
    BY <1>3, <2>1, <2>3 DEF R
<1>8. CacheRejectedApp =>
        /\ ev.kind = "rejectedApp" /\ UNCHANGED allocKey
        /\ DropApplication(ev.app)
        /\ UNCHANGED <<partitionState, nodeVars, allocations, queueAllocated, op>>
        /\ Does(<<>>)
  BY <1>2, <1>3 DEF CacheRejectedApp, ev
<1> QED
  BY <1>4, <1>5, <1>6, <1>7, <1>8 DEF Does, ev

(* schedule(): a confirmed allocation becomes a proposal for the cache. *)
LEMMA ConfirmHandled ==
  ASSUME ChannelTypes, NEW x \in placed, ConfirmAllocation(x)
  PROVE  LET k == x.c.key
             p == [app |-> AppOf[k], node |-> x.node, queue |-> x.c.queue, res |-> x.c.res]
         IN
         /\ UNCHANGED <<vars, schedQueue, allocKey>>
         /\ \/ /\ CanUpdateRepeat(k, 0 - 1) /\ UpdateAskRepeat(k, 0 - 1)
               /\ Handled("schedule", "none", <<ToCache([kind |-> "proposal", key |-> k, p |-> p])>>)
            \/ UNCHANGED schedVars /\ Handled("schedule", "none", <<>>)
<1> DEFINE k == x.c.key
           p == [app |-> AppOf[k], node |-> x.node, queue |-> x.c.queue, res |-> x.c.res]
           e == ToCache([kind |-> "proposal", key |-> k, p |-> p])
<1>1. /\ outbox["schedule"] = <<>>
      /\ \/ CanUpdateRepeat(k, 0 - 1) /\ UpdateAskRepeat(k, 0 - 1) /\ Post("schedule", <<e>>)
         \/ UNCHANGED <<schedVars, outbox>>
      /\ UNCHANGED <<vars, batch, updates, cacheEvents, schedEvents, rmEvents, allocKey, rmVars>>
  BY DEF ConfirmAllocation
<1> HIDE DEF e
<1>2. Post("schedule", <<e>>) => Handled("schedule", "none", <<e>>)
  BY <1>1 DEF Post, Handled, Channel, Ends
<1>3. outbox' = outbox => Handled("schedule", "none", <<>>)
  <2> SUFFICES ASSUME outbox' = outbox
               PROVE  Handled("schedule", "none", <<>>)
    OBVIOUS
  <2>1. outbox' = [outbox EXCEPT !["schedule"] = <<>>]
    BY <1>1, HandledQuiet DEF Threads
  <2> QED
    BY <1>1, <2>1 DEF Handled, Channel, Ends
<1>4. UpdateAskRepeat(k, 0 - 1) => schedQueue' = schedQueue
  BY DEF UpdateAskRepeat
<1>5. \/ CanUpdateRepeat(k, 0 - 1) /\ UpdateAskRepeat(k, 0 - 1) /\ Handled("schedule", "none", <<e>>)
      \/ UNCHANGED schedVars /\ Handled("schedule", "none", <<>>)
  BY <1>1, <1>2, <1>3, Zenon
<1>6. UNCHANGED <<vars, schedQueue, allocKey>>
  BY <1>1, <1>4 DEF schedVars
<1> QED
  BY <1>5, <1>6, Zenon DEF e

(* The steps that are no handler's leave the channels between the cache    *)
(* and the scheduler alone.                                                *)
LEMMA OtherSteps ==
  ASSUME \/ RM \/ RmReceive \/ Find \/ Place \/ Quiet \/ UNCHANGED coreVars
  PROVE  UNCHANGED <<vars, schedVars, cacheEvents, schedEvents, outbox, allocKey>>
<1>1. RM => UNCHANGED <<vars, schedVars, cacheEvents, schedEvents, outbox, allocKey>>
  BY DEF RM, RmSubmit, RmRemoveApp, RmAsk, RmRelease, RmSend
<1>2. RmReceive => UNCHANGED <<vars, schedVars, cacheEvents, schedEvents, outbox, allocKey>>
  BY DEF RmReceive
<1>3. Find \/ Place => UNCHANGED <<vars, schedVars, cacheEvents, schedEvents, outbox, allocKey>>
  BY DEF Find, FindAllocationAsks, Place, TryBatchAllocation, channels
<1>4. Quiet \/ UNCHANGED coreVars
        => UNCHANGED <<vars, schedVars, cacheEvents, schedEvents, outbox, allocKey>>
  BY DEF Quiet, coreVars, channels
<1> QED
  BY <1>1, <1>2, <1>3, <1>4

(* One or two envelopes on their routes. *)
LEMMA HandledOne ==
  ASSUME ChannelTypes, Routed, NEW s \in Threads, NEW from
  PROVE  /\ Handled(s, from, <<>>) => Routed'
         /\ \A e : <<s, e.to, e.ev.kind>> \in Routes /\ Handled(s, from, <<e>>) => Routed'
         /\ \A e, f : /\ <<s, e.to, e.ev.kind>> \in Routes /\ <<s, f.to, f.ev.kind>> \in Routes
                      /\ Handled(s, from, <<e, f>>)
                      => Routed'
<1>1. Handled(s, from, <<>>) => Routed'
  BY HandledRouted
<1>2. ASSUME NEW e, <<s, e.to, e.ev.kind>> \in Routes, Handled(s, from, <<e>>)
      PROVE  Routed'
  <2> DEFINE msgs == <<e>>
  <2>1. \A i \in DOMAIN msgs : msgs[i] = e
    OBVIOUS
  <2>2. \A i \in DOMAIN msgs : <<s, msgs[i].to, msgs[i].ev.kind>> \in Routes
    BY <1>2, <2>1
  <2>3. Handled(s, from, msgs)
    BY <1>2
  <2> HIDE DEF msgs
  <2> QED
    BY <2>2, <2>3, HandledRouted
<1>3. ASSUME NEW e, NEW f, <<s, e.to, e.ev.kind>> \in Routes, <<s, f.to, f.ev.kind>> \in Routes,
             Handled(s, from, <<e, f>>)
      PROVE  Routed'
  <2> DEFINE msgs == <<e, f>>
  <2>1. \A i \in DOMAIN msgs : msgs[i] = e \/ msgs[i] = f
    OBVIOUS
  <2>2. \A i \in DOMAIN msgs : <<s, msgs[i].to, msgs[i].ev.kind>> \in Routes
    BY <1>3, <2>1
  <2>3. Handled(s, from, msgs)
    BY <1>3
  <2> HIDE DEF msgs
  <2> QED
    BY <2>2, <2>3, HandledRouted
<1> QED
  BY <1>1, <1>2, <1>3

(* Every step keeps the events on their routes. *)
LEMMA RoutedStep ==
  ASSUME CoreInv, Routed, [CoreNext]_coreVars
  PROVE  Routed'
<1>0. ChannelTypes /\ Threads = {"cacheRM", "cacheSched", "schedEvent", "schedule"}
  BY DEF CoreInv, Threads
<1>1. CASE \/ RM \/ RmReceive \/ Find \/ Place \/ Quiet \/ UNCHANGED coreVars
  BY <1>1, OtherSteps DEF Routed
<1>2. CASE \E t \in Threads : Send(t)
  BY <1>0, <1>2, SendRouted
<1>3. ASSUME NEW u \in updates, CacheAddApp(u) \/ CacheAsk(u) \/ CachePassOn(u)
      PROVE  Routed'
  <2> DEFINE no == ToRM([kind |-> "rejectedAsk", key |-> u.ev.key])
  <2>1. CacheAddApp(u) =>
          \/ Handled("cacheRM", "none", <<ToSched([kind |-> "addApp", app |-> u.ev.app])>>)
          \/ Handled("cacheRM", "none", <<ToRM([kind |-> "rejected", app |-> u.ev.app])>>)
    BY <1>0, CacheRMHandled
  <2>2. CacheAsk(u) => \/ Handled("cacheRM", "none", <<ToSched(u.ev)>>)
                       \/ Handled("cacheRM", "none", <<no, ToSched(u.ev)>>)
    BY <1>0, CacheRMHandled
  <2>3. CachePassOn(u) => Handled("cacheRM", "none", <<ToSched(u.ev)>>)
    BY <1>0, CacheRMHandled
  <2>4. /\ CacheAsk(u) => u.ev.kind = "ask"
        /\ CachePassOn(u) => u.ev.kind \in {"removeApp", "release"}
    BY DEF CacheAsk, CachePassOn
  <2>5. CacheAddApp(u) => Routed'
    BY <1>0, <2>1, HandledOne DEF Routes, ToSched, ToRM
  <2>6. CacheAsk(u) => Routed'
    <3>1. <<"cacheRM", no.to, no.ev.kind>> \in Routes
      BY DEF Routes, ToRM
    <3>2. CacheAsk(u) => <<"cacheRM", ToSched(u.ev).to, ToSched(u.ev).ev.kind>> \in Routes
      BY <2>4 DEF Routes, ToSched
    <3> HIDE DEF no
    <3> QED
      BY <1>0, <2>2, <3>1, <3>2, HandledOne
  <2>7. CachePassOn(u) => Routed'
    BY <1>0, <2>3, <2>4, HandledOne DEF Routes, ToSched
  <2> QED
    BY <1>3, <2>5, <2>6, <2>7
<1>4. CASE SchedEvent
  <2> DEFINE ev == Head(schedEvents)
  <2>1. SchedAddApp => Routed'
    <3>1. SchedAddApp => \/ Handled("schedEvent", "sched", <<ToRM([kind |-> "accepted", app |-> ev.app])>>)
                         \/ Handled("schedEvent", "sched",
                                    <<ToCache([kind |-> "rejectedApp", app |-> ev.app]),
                                      ToRM([kind |-> "rejected", app |-> ev.app])>>)
      BY <1>0, SchedEventHandled
    <3> QED
      BY <1>0, <3>1, HandledOne DEF Routes, ToCache, ToRM
  <2>2. SchedRemoveApp => Routed'
    <3>1. SchedRemoveApp => \/ Handled("schedEvent", "sched", <<ToCache([kind |-> "removedApp", app |-> ev.app])>>)
                            \/ Handled("schedEvent", "sched", <<>>)
      BY <1>0, SchedEventHandled
    <3> QED
      BY <1>0, <3>1, HandledOne DEF Routes, ToCache
  <2>3. SchedAsk => Routed'
    <3>1. SchedAsk => \/ Handled("schedEvent", "sched", <<>>)
                      \/ Handled("schedEvent", "sched", <<ToRM([kind |-> "rejectedAsk", key |-> ev.key])>>)
      BY <1>0, SchedEventHandled
    <3> QED
      BY <1>0, <3>1, HandledOne DEF Routes, ToRM
  <2>4. SchedRejected => Routed'
    BY <1>0, SchedEventHandled, HandledOne
  <2>5. SchedRelease => Routed'
    <3>1. SchedRelease => ev.kind = "release" /\ Handled("schedEvent", "sched", <<ToCache(ev)>>)
      BY <1>0, SchedEventHandled
    <3> QED
      BY <1>0, <3>1, HandledOne DEF Routes, ToCache
  <2> QED
    BY <1>4, <2>1, <2>2, <2>3, <2>4, <2>5 DEF SchedEvent
<1>5. CASE CacheSched
  <2> DEFINE ev == Head(cacheEvents)
             released(R) == ToRM([kind |-> "released", uuids |-> { a.uuid : a \in R }])
  <2>0. \A R : <<"cacheSched", released(R).to, released(R).ev.kind>> \in Routes
    BY DEF Routes, ToRM
  <2>1. CacheProposal => Routed'
    <3>1. CacheProposal => \/ Handled("cacheSched", "cache", <<ToRM([kind |-> "allocated", uuid |-> NextUuid])>>)
                           \/ Handled("cacheSched", "cache", <<ToSched([kind |-> "rejected", key |-> ev.key])>>)
      BY <1>0, CacheSchedHandled
    <3> QED
      BY <1>0, <3>1, HandledOne DEF Routes, ToRM, ToSched
  <2>2. CacheRelease => Routed'
    <3>1. CacheRelease => \/ Handled("cacheSched", "cache", <<>>)
                          \/ \E R : Handled("cacheSched", "cache", <<released(R)>>)
      BY <1>0, CacheSchedHandled
    <3> HIDE DEF released
    <3> QED
      BY <1>0, <2>0, <3>1, HandledOne
  <2>3. CacheRemovedApp => Routed'
    <3>1. CacheRemovedApp => \/ Handled("cacheSched", "cache", <<>>)
                             \/ \E R : Handled("cacheSched", "cache", <<released(R)>>)
      BY <1>0, CacheSchedHandled
    <3> HIDE DEF released
    <3> QED
      BY <1>0, <2>0, <3>1, HandledOne
  <2>4. CacheRejectedApp => Routed'
    BY <1>0, CacheSchedHandled, HandledOne
  <2> QED
    BY <1>5, <2>1, <2>2, <2>3, <2>4 DEF CacheSched
<1>6. ASSUME NEW x \in placed, ConfirmAllocation(x)
      PROVE  Routed'
  <2>1. \/ \E k, p : Handled("schedule", "none", <<ToCache([kind |-> "proposal", key |-> k, p |-> p])>>)
        \/ Handled("schedule", "none", <<>>)
    BY <1>0, <1>6, ConfirmHandled
  <2> QED
    BY <1>0, <2>1, HandledOne DEF Routes, ToCache
<1> QED
  BY <1>1, <1>2, <1>3, <1>4, <1>5, <1>6 DEF CoreNext, CacheRM, Confirm

-----------------------------------------------------------------------------
(* Where an application is: on its way to the scheduler, scheduled, or     *)
(* given up by the scheduler and on its way out of the cache.              *)

Added(app) == { ev \in Msg : ev.kind = "addApp" /\ ev.app = app }
GivenUp(app) == { ev \in Msg : ev.kind \in {"removedApp", "rejectedApp"} /\ ev.app = app }

Holders(app) ==
  Flow("cacheRM", "sched", Added(app)) + (IF Scheduled(app) THEN 1 ELSE 0)
  + Flow("schedEvent", "cache", GivenUp(app))

OnePlace == \A app \in Apps : Holders(app) = IF app \in apps THEN 1 ELSE 0

(* Handing over an event moves no application. *)
LEMMA SendHolders ==
  ASSUME ChannelTypes, Routed, NEW s \in Threads, Send(s), OnePlace
  PROVE  OnePlace'
<1>1. /\ OwnRoute("cacheRM", "sched", {"addApp"})
      /\ OwnRoute("schedEvent", "cache", {"removedApp", "rejectedApp"})
  BY DEF OwnRoute, Routes
<1>2. ASSUME NEW app \in Apps
      PROVE  /\ Flow("cacheRM", "sched", Added(app))' = Flow("cacheRM", "sched", Added(app))
             /\ Flow("schedEvent", "cache", GivenUp(app))' = Flow("schedEvent", "cache", GivenUp(app))
  <2>1. /\ "cacheRM" \in Threads /\ "schedEvent" \in Threads /\ "sched" \in Ends /\ "cache" \in Ends
        /\ \A ev \in Added(app) : ev.kind \in {"addApp"}
        /\ \A ev \in GivenUp(app) : ev.kind \in {"removedApp", "rejectedApp"}
        /\ Added(app)' = Added(app) /\ GivenUp(app)' = GivenUp(app)
    BY DEF Threads, Ends, Added, GivenUp, Msg
  <2>2. PICK A, G : A = Added(app) /\ G = GivenUp(app)
    OBVIOUS
  <2>3. Flow("cacheRM", "sched", A)' = Flow("cacheRM", "sched", A)
    BY <1>1, <2>1, <2>2, SendFlow
  <2>4. Flow("schedEvent", "cache", G)' = Flow("schedEvent", "cache", G)
    BY <1>1, <2>1, <2>2, SendFlow
  <2> QED
    BY <2>1, <2>2, <2>3, <2>4
<1>3. UNCHANGED <<schedQueue, apps>>
  BY DEF Send, vars, appVars, schedVars
<1> QED
  BY <1>2, <1>3 DEF OnePlace, Holders, Scheduled

(* What the handlers of a goroutine do to the two flows. *)
LEMMA HandledHolders ==
  ASSUME ChannelTypes, NEW s \in Threads, NEW from, NEW msgs, Handled(s, from, msgs),
         NEW app \in Apps
  PROVE  LET into == Flow("cacheRM", "sched", Added(app))
             out  == Flow("schedEvent", "cache", GivenUp(app))
         IN
         /\ into \in Nat /\ out \in Nat
         /\ s = "cacheRM" /\ from = "none" =>
              into' = into + Count(Evs(msgs), Added(app)) /\ out' = out
         /\ s = "schedEvent" /\ from = "sched" =>
              /\ into' = into - (IF Head(schedEvents) \in Added(app) THEN 1 ELSE 0)
              /\ out' = out + Count(Evs(msgs), GivenUp(app))
         /\ s = "cacheSched" /\ from = "cache" =>
              /\ into' = into
              /\ out' = out - (IF Head(cacheEvents) \in GivenUp(app) THEN 1 ELSE 0)
         /\ s = "schedule" /\ from = "none" => into' = into /\ out' = out
<1>1. /\ "cacheRM" \in Threads /\ "schedEvent" \in Threads /\ "sched" \in Ends /\ "cache" \in Ends
      /\ Channel("sched") = schedEvents /\ Channel("cache") = cacheEvents
      /\ "none" # "sched" /\ "none" # "cache"
  BY DEF Threads, Ends, Channel
<1>2. PICK A, G : A = Added(app) /\ G = GivenUp(app)
  OBVIOUS
<1>3. Added(app)' = A /\ GivenUp(app)' = G
  BY <1>2 DEF Added, GivenUp, Msg
<1>4. /\ "cacheRM" # s /\ "sched" # from =>
           Flow("cacheRM", "sched", A)' = Flow("cacheRM", "sched", A)
      /\ "cacheRM" # s /\ "sched" = from =>
           Flow("cacheRM", "sched", A)'
             = Flow("cacheRM", "sched", A) - (IF Head(Channel("sched")) \in A THEN 1 ELSE 0)
      /\ "cacheRM" = s /\ "sched" # from =>
           Flow("cacheRM", "sched", A)' = Flow("cacheRM", "sched", A) + Count(Evs(msgs), A)
  BY <1>1, HandledFlow
<1>5. /\ "schedEvent" # s /\ "cache" # from =>
           Flow("schedEvent", "cache", G)' = Flow("schedEvent", "cache", G)
      /\ "schedEvent" # s /\ "cache" = from =>
           Flow("schedEvent", "cache", G)'
             = Flow("schedEvent", "cache", G) - (IF Head(Channel("cache")) \in G THEN 1 ELSE 0)
      /\ "schedEvent" = s /\ "cache" # from =>
           Flow("schedEvent", "cache", G)' = Flow("schedEvent", "cache", G) + Count(Evs(msgs), G)
  BY <1>1, HandledFlow
<1>6. Flow("cacheRM", "sched", A) \in Nat /\ Flow("schedEvent", "cache", G) \in Nat
  BY <1>1, FlowNat
<1> QED
  BY <1>1, <1>2, <1>3, <1>4, <1>5, <1>6

(* Which events are in the two sets. *)
LEMMA HolderEvents ==
  ASSUME NEW app \in Apps
  PROVE  /\ \A b \in Apps :
              /\ ToSched([kind |-> "addApp", app |-> b]).ev \in Added(app) <=> b = app
              /\ ToCache([kind |-> "removedApp", app |-> b]).ev \in GivenUp(app) <=> b = app
              /\ ToCache([kind |-> "rejectedApp", app |-> b]).ev \in GivenUp(app) <=> b = app
              /\ ToRM([kind |-> "rejected", app |-> b]).ev \in Msg \ (Added(app) \cup GivenUp(app))
              /\ ToRM([kind |-> "accepted", app |-> b]).ev \in Msg \ (Added(app) \cup GivenUp(app))
         /\ \A b \in Apps : ToCache([kind |-> "rejectedApp", app |-> b]).ev \in Msg
         /\ \A ev : ev.kind # "addApp" => ev \notin Added(app)
         /\ \A ev : ev.kind \notin {"removedApp", "rejectedApp"} => ev \notin GivenUp(app)
         /\ \A ev \in SchedMsg : ev.kind = "addApp" => (ev \in Added(app) <=> ev.app = app)
         /\ \A ev \in CacheMsg : ev.kind \in {"removedApp", "rejectedApp"} =>
                                   (ev \in GivenUp(app) <=> ev.app = app)
<1>1. ASSUME NEW b \in Apps
      PROVE  /\ ToSched([kind |-> "addApp", app |-> b]).ev \in Added(app) <=> b = app
             /\ ToCache([kind |-> "removedApp", app |-> b]).ev \in GivenUp(app) <=> b = app
             /\ ToCache([kind |-> "rejectedApp", app |-> b]).ev \in GivenUp(app) <=> b = app
             /\ ToRM([kind |-> "rejected", app |-> b]).ev \in Msg \ (Added(app) \cup GivenUp(app))
             /\ ToRM([kind |-> "accepted", app |-> b]).ev \in Msg \ (Added(app) \cup GivenUp(app))
             /\ ToCache([kind |-> "rejectedApp", app |-> b]).ev \in Msg
  BY DEF ToSched, ToCache, ToRM, Added, GivenUp, Msg, SchedMsg, CacheMsg, RmMsg
<1>2. SchedMsg \subseteq Msg /\ CacheMsg \subseteq Msg
  BY DEF Msg
<1>3. /\ \A ev : ev.kind # "addApp" => ev \notin Added(app)
      /\ \A ev : ev.kind \notin {"removedApp", "rejectedApp"} => ev \notin GivenUp(app)
      /\ \A ev \in SchedMsg : ev.kind = "addApp" => (ev \in Added(app) <=> ev.app = app)
      /\ \A ev \in CacheMsg : ev.kind \in {"removedApp", "rejectedApp"} =>
                                (ev \in GivenUp(app) <=> ev.app = app)
  BY <1>2 DEF Added, GivenUp
<1> QED
  BY <1>1, <1>3

(* The cache takes an application in, or refuses it at once. *)
LEMMA CacheRMHolders ==
  ASSUME CoreInv, OnePlace, CacheRM
  PROVE  OnePlace'
<1>0. ChannelTypes /\ apps \in SUBSET Apps /\ schedQueue \in [Apps -> Leaves \cup {NoQueue}]
  BY DEF CoreInv, CacheInv, TypeOK, PendingInv, SchedTypes
<1>1. PICK u \in updates : CacheAddApp(u) \/ CacheAsk(u) \/ CachePassOn(u)
  BY DEF CacheRM
<1>2. u.ev \in UpdateMsg
  BY <1>0 DEF ChannelTypes
<1>3. UNCHANGED schedQueue
  BY <1>1 DEF CacheAddApp, CacheAsk, CachePassOn, CacheRMTake, schedVars
<1>4. ASSUME NEW msgs, Handled("cacheRM", "none", msgs), NEW app \in Apps,
             NEW n \in {0, 1}, Count(Evs(msgs), Added(app)) = n
      PROVE  Holders(app)' = Holders(app) + n /\ Holders(app) \in Nat
  <2>1. "cacheRM" \in Threads
    BY DEF Threads
  <2>2. /\ Flow("cacheRM", "sched", Added(app))' = Flow("cacheRM", "sched", Added(app)) + n
        /\ Flow("schedEvent", "cache", GivenUp(app))' = Flow("schedEvent", "cache", GivenUp(app))
        /\ Flow("cacheRM", "sched", Added(app)) \in Nat /\ Flow("schedEvent", "cache", GivenUp(app)) \in Nat
    BY <1>0, <1>4, <2>1, HandledHolders
  <2>3. Scheduled(app)' = Scheduled(app)
    BY <1>3 DEF Scheduled
  <2> QED
    BY <2>2, <2>3 DEF Holders
<1>5. CASE CacheAddApp(u)
  <2> DEFINE b == u.ev.app
             add == ToSched([kind |-> "addApp", app |-> b])
             no  == ToRM([kind |-> "rejected", app |-> b])
  <2>1. b \in Apps
    BY <1>2, <1>5, UpdateFields DEF CacheAddApp
  <2>2. \/ AddNewApplication(b, u.ev.queue) /\ Handled("cacheRM", "none", <<add>>)
        \/ UNCHANGED vars /\ Handled("cacheRM", "none", <<no>>)
    BY <1>0, <1>5, CacheRMHandled
  <2>0. add.ev = [kind |-> "addApp", app |-> b] /\ no.ev = [kind |-> "rejected", app |-> b]
    BY DEF ToSched, ToRM
  <2> HIDE DEF add, no
  <2>3. \A app \in Apps : add.ev \in Added(app) <=> b = app
    BY <2>0, <2>1 DEF Added, Msg, SchedMsg
  <2>6. \A app \in Apps : no.ev \notin Added(app)
    BY <2>0 DEF Added
  <2> HIDE DEF b
  <2>4. CASE AddNewApplication(b, u.ev.queue) /\ Handled("cacheRM", "none", <<add>>)
    <3>1. b \notin apps /\ apps' = apps \cup {b}
      BY <2>4 DEF AddNewApplication
    <3>2. ASSUME NEW app \in Apps
          PROVE  Holders(app)' = Holders(app) + (IF b = app THEN 1 ELSE 0) /\ Holders(app) \in Nat
      <4>1. Count(Evs(<<add>>), Added(app)) = IF b = app THEN 1 ELSE 0
        BY <2>3, PostedCount
      <4> QED
        BY <1>4, <2>4, <4>1
    <3> QED
      BY <3>1, <3>2 DEF OnePlace
  <2>5. CASE UNCHANGED vars /\ Handled("cacheRM", "none", <<no>>)
    <3>1. apps' = apps
      BY <2>5 DEF vars, appVars
    <3>2. ASSUME NEW app \in Apps
          PROVE  Holders(app)' = Holders(app) + 0 /\ Holders(app) \in Nat
      <4>1. Count(Evs(<<no>>), Added(app)) = 0
        BY <2>6, PostedCount
      <4> QED
        BY <1>4, <2>5, <4>1
    <3> QED
      BY <3>1, <3>2 DEF OnePlace
  <2> QED
    BY <2>2, <2>4, <2>5
<1>6. CASE CacheAsk(u) \/ CachePassOn(u)
  <2> DEFINE no == ToRM([kind |-> "rejectedAsk", key |-> u.ev.key])
             on == ToSched(u.ev)
  <2>1. u.ev.kind # "addApp" /\ u.ev \in SchedMsg
    BY <1>2, <1>6, UpdateFields DEF CacheAsk, CachePassOn
  <2>2. \/ Handled("cacheRM", "none", <<on>>)
        \/ CacheAsk(u) /\ Handled("cacheRM", "none", <<no, on>>)
    BY <1>0, <1>6, CacheRMHandled
  <2>3. \A app \in Apps : on.ev \notin Added(app) /\ no.ev \notin Added(app)
    BY <2>1, HolderEvents DEF ToSched, ToRM
  <2>4. on.ev \in Msg /\ (CacheAsk(u) => no.ev \in Msg)
    BY <1>2, <2>1, UpdateFields DEF Msg, ToSched, ToRM, CacheAsk, RmMsg
  <2>5. apps' = apps
    BY <1>6 DEF CacheAsk, CachePassOn, RunApplication, vars, appVars
  <2> HIDE DEF no, on
  <2>6. \A app \in Apps : Holders(app)' = Holders(app) + 0 /\ Holders(app) \in Nat
    <3>1. CASE Handled("cacheRM", "none", <<on>>)
      <4>1. \A app \in Apps : Count(Evs(<<on>>), Added(app)) = 0
        BY <2>3, PostedCount
      <4> QED
        BY <1>4, <3>1, <4>1
    <3>2. CASE CacheAsk(u) /\ Handled("cacheRM", "none", <<no, on>>)
      <4>1. \A app \in Apps : Count(Evs(<<no, on>>), Added(app)) = 0
        BY <2>3, <2>4, <3>2, PostedCount
      <4> QED
        BY <1>4, <3>2, <4>1
    <3> QED
      BY <2>2, <3>1, <3>2
  <2> QED
    BY <2>5, <2>6 DEF OnePlace
<1> QED
  BY <1>1, <1>5, <1>6

(* The scheduler takes an application in, refuses it or lets go of it. *)
LEMMA SchedEventHolders ==
  ASSUME CoreInv, OnePlace, SchedEvent
  PROVE  OnePlace'
<1> DEFINE ev == Head(schedEvents)
<1>0. ChannelTypes /\ schedQueue \in [Apps -> Leaves \cup {NoQueue}]
  BY DEF CoreInv, PendingInv, SchedTypes
<1>1. ev \in SchedMsg
  BY <1>0 DEF SchedEvent, SchedAddApp, SchedRemoveApp, SchedAsk, SchedRejected, SchedRelease,
              SchedTake, ChannelTypes
<1>2. ASSUME NEW msgs, Handled("schedEvent", "sched", msgs), NEW app \in Apps
      PROVE  /\ Flow("cacheRM", "sched", Added(app))'
                  = Flow("cacheRM", "sched", Added(app)) - (IF ev \in Added(app) THEN 1 ELSE 0)
             /\ Flow("schedEvent", "cache", GivenUp(app))'
                  = Flow("schedEvent", "cache", GivenUp(app)) + Count(Evs(msgs), GivenUp(app))
             /\ Flow("cacheRM", "sched", Added(app)) \in Nat
             /\ Flow("schedEvent", "cache", GivenUp(app)) \in Nat
  <2>1. "schedEvent" \in Threads
    BY DEF Threads
  <2> QED
    BY <1>0, <1>2, <2>1, HandledHolders
<1>3. /\ ev.kind \in {"addApp", "removeApp"} => ev.app \in Apps
      /\ \A app \in Apps : ev.kind = "addApp" => (ev \in Added(app) <=> ev.app = app)
      /\ \A app \in Apps : ev.kind # "addApp" => ev \notin Added(app)
  BY <1>1, SchedFields, HolderEvents
<1>4. CASE SchedAddApp
  <2> DEFINE b == ev.app
             yes == ToRM([kind |-> "accepted", app |-> b])
             out == ToCache([kind |-> "rejectedApp", app |-> b])
             no  == ToRM([kind |-> "rejected", app |-> b])
  <2>1. ev.kind = "addApp"
    BY <1>0, <1>4, SchedEventHandled
  <2>2. b \in Apps /\ \A app \in Apps : ev \in Added(app) <=> b = app
    BY <1>3, <2>1
  <2>3. \/ /\ ~Scheduled(b) /\ leafQueue[b] \in Leaves /\ AcceptApplication(b, leafQueue[b])
           /\ schedQueue' = [schedQueue EXCEPT ![b] = leafQueue[b]]
           /\ Handled("schedEvent", "sched", <<yes>>)
        \/ /\ RejectApplication(b) /\ UNCHANGED schedQueue
           /\ Handled("schedEvent", "sched", <<out, no>>)
    BY <1>0, <1>4, SchedEventHandled
  <2>4. \A app \in Apps : out.ev \in GivenUp(app) <=> b = app
    BY <2>2, HolderEvents
  <2>7. \A app \in Apps : no.ev \in Msg /\ no.ev \notin GivenUp(app) /\ out.ev \in Msg
    BY <2>2, HolderEvents
  <2>8. \A app \in Apps : yes.ev \notin GivenUp(app)
    BY <2>2, HolderEvents
  <2> HIDE DEF yes, out, no, ev
  <2>5. apps' = apps
    BY <2>3 DEF AcceptApplication, RejectApplication
  <2>6. ASSUME NEW app \in Apps
        PROVE  Holders(app)' = Holders(app)
    <3>1. CASE /\ ~Scheduled(b) /\ leafQueue[b] \in Leaves
               /\ schedQueue' = [schedQueue EXCEPT ![b] = leafQueue[b]]
               /\ Handled("schedEvent", "sched", <<yes>>)
      <4>1. Count(Evs(<<yes>>), GivenUp(app)) = 0
        BY <2>8, PostedCount
      <4>2. /\ Flow("cacheRM", "sched", Added(app))'
                  = Flow("cacheRM", "sched", Added(app)) - (IF b = app THEN 1 ELSE 0)
            /\ Flow("schedEvent", "cache", GivenUp(app))'
                  = Flow("schedEvent", "cache", GivenUp(app)) + 0
            /\ Flow("cacheRM", "sched", Added(app)) \in Nat
            /\ Flow("schedEvent", "cache", GivenUp(app)) \in Nat
        BY <1>2, <2>2, <3>1, <4>1
      <4>3. Scheduled(app)' = IF b = app THEN TRUE ELSE Scheduled(app)
        BY <1>0, <2>2, <3>1, QueueAssumption DEF Scheduled
      <4> QED
        BY <3>1, <4>2, <4>3 DEF Holders
    <3>2. CASE UNCHANGED schedQueue /\ Handled("schedEvent", "sched", <<out, no>>)
      <4>1. Count(Evs(<<out, no>>), GivenUp(app))
              = (IF out.ev \in GivenUp(app) THEN 1 ELSE 0) + (IF no.ev \in GivenUp(app) THEN 1 ELSE 0)
        BY <2>7, PostedCount
      <4>5. Count(Evs(<<out, no>>), GivenUp(app)) = IF b = app THEN 1 ELSE 0
        BY <2>4, <2>7, <4>1
      <4>2. /\ Flow("cacheRM", "sched", Added(app))'
                  = Flow("cacheRM", "sched", Added(app)) - (IF b = app THEN 1 ELSE 0)
            /\ Flow("schedEvent", "cache", GivenUp(app))'
                  = Flow("schedEvent", "cache", GivenUp(app)) + (IF b = app THEN 1 ELSE 0)
            /\ Flow("cacheRM", "sched", Added(app)) \in Nat
            /\ Flow("schedEvent", "cache", GivenUp(app)) \in Nat
        BY <1>2, <2>2, <3>2, <4>5
      <4>3. Scheduled(app)' = Scheduled(app)
        BY <3>2 DEF Scheduled
      <4> QED
        BY <4>2, <4>3 DEF Holders
    <3> QED
      BY <2>3, <3>1, <3>2
  <2> QED
    BY <2>5, <2>6 DEF OnePlace
<1>5. CASE SchedRemoveApp
  <2> DEFINE b == ev.app
             out == ToCache([kind |-> "removedApp", app |-> b])
  <2>1. ev.kind = "removeApp" /\ UNCHANGED vars
    BY <1>0, <1>5, SchedEventHandled
  <2>2. b \in Apps /\ \A app \in Apps : ev \notin Added(app)
    BY <1>3, <2>1
  <2>3. \/ /\ Scheduled(b) /\ schedQueue' = [schedQueue EXCEPT ![b] = NoQueue]
           /\ Handled("schedEvent", "sched", <<out>>)
        \/ UNCHANGED schedQueue /\ Handled("schedEvent", "sched", <<>>)
    BY <1>0, <1>5, SchedEventHandled DEF schedVars
  <2>4. \A app \in Apps : out.ev \in GivenUp(app) <=> b = app
    BY <2>2, HolderEvents
  <2> HIDE DEF out, ev
  <2>5. apps' = apps
    BY <2>1 DEF vars, appVars
  <2>6. ASSUME NEW app \in Apps
        PROVE  Holders(app)' = Holders(app)
    <3>1. CASE /\ Scheduled(b) /\ schedQueue' = [schedQueue EXCEPT ![b] = NoQueue]
               /\ Handled("schedEvent", "sched", <<out>>)
      <4>1. Count(Evs(<<out>>), GivenUp(app)) = IF b = app THEN 1 ELSE 0
        BY <2>4, PostedCount
      <4>2. /\ Flow("cacheRM", "sched", Added(app))' = Flow("cacheRM", "sched", Added(app)) - 0
            /\ Flow("schedEvent", "cache", GivenUp(app))'
                  = Flow("schedEvent", "cache", GivenUp(app)) + (IF b = app THEN 1 ELSE 0)
            /\ Flow("cacheRM", "sched", Added(app)) \in Nat
            /\ Flow("schedEvent", "cache", GivenUp(app)) \in Nat
        BY <1>2, <2>2, <3>1, <4>1
      <4>3. Scheduled(app)' = IF b = app THEN FALSE ELSE Scheduled(app)
        BY <1>0, <2>2, <3>1 DEF Scheduled
      <4> QED
        BY <3>1, <4>2, <4>3 DEF Holders
    <3>2. CASE UNCHANGED schedQueue /\ Handled("schedEvent", "sched", <<>>)
      <4>1. Count(Evs(<<>>), GivenUp(app)) = 0
        BY PostedCount
      <4>2. /\ Flow("cacheRM", "sched", Added(app))' = Flow("cacheRM", "sched", Added(app)) - 0
            /\ Flow("schedEvent", "cache", GivenUp(app))' = Flow("schedEvent", "cache", GivenUp(app)) + 0
            /\ Flow("cacheRM", "sched", Added(app)) \in Nat
            /\ Flow("schedEvent", "cache", GivenUp(app)) \in Nat
        BY <1>2, <2>2, <3>2, <4>1
      <4>3. Scheduled(app)' = Scheduled(app)
        BY <3>2 DEF Scheduled
      <4> QED
        BY <4>2, <4>3 DEF Holders
    <3> QED
      BY <2>3, <3>1, <3>2
  <2> QED
    BY <2>5, <2>6 DEF OnePlace
<1>6. CASE SchedAsk \/ SchedRejected \/ SchedRelease
  <2>1. ev.kind \in {"ask", "rejected", "release"} /\ UNCHANGED <<vars, schedQueue>>
    BY <1>0, <1>6, SchedEventHandled
  <2>2. \/ Handled("schedEvent", "sched", <<>>)
        \/ \E e : /\ Handled("schedEvent", "sched", <<e>>)
                  /\ e.ev.kind \in {"rejectedAsk", "release"}
    <3> DEFINE no == ToRM([kind |-> "rejectedAsk", key |-> ev.key])
               on == ToCache(ev)
    <3>1. no.ev.kind = "rejectedAsk" /\ on.ev.kind = ev.kind
      BY DEF ToRM, ToCache
    <3>2. SchedAsk => Handled("schedEvent", "sched", <<>>) \/ Handled("schedEvent", "sched", <<no>>)
      BY <1>0, SchedEventHandled
    <3>3. SchedRejected => Handled("schedEvent", "sched", <<>>)
      BY <1>0, SchedEventHandled
    <3>4. SchedRelease => ev.kind = "release" /\ Handled("schedEvent", "sched", <<on>>)
      BY <1>0, SchedEventHandled
    <3> HIDE DEF no, on
    <3> QED
      BY <1>6, <3>1, <3>2, <3>3, <3>4
  <2>3. \A app \in Apps : ev \notin Added(app)
    BY <1>3, <2>1
  <2> HIDE DEF ev
  <2>4. apps' = apps
    BY <2>1 DEF vars, appVars
  <2>5. ASSUME NEW app \in Apps
        PROVE  Holders(app)' = Holders(app)
    <3>1. PICK msgs : /\ Handled("schedEvent", "sched", msgs)
                      /\ Count(Evs(msgs), GivenUp(app)) = 0
      <4>1. \A e : e.ev.kind \in {"rejectedAsk", "release"} => e.ev \notin GivenUp(app)
        BY DEF GivenUp
      <4>2. Count(Evs(<<>>), GivenUp(app)) = 0
        BY PostedCount
      <4>3. ASSUME NEW e, e.ev \notin GivenUp(app)
            PROVE  Count(Evs(<<e>>), GivenUp(app)) = 0
        <5>1. PICK M : M = GivenUp(app)
          OBVIOUS
        <5>2. Count(Evs(<<e>>), M) = IF e.ev \in M THEN 1 ELSE 0
          BY PostedCount
        <5> QED
          BY <4>3, <5>1, <5>2
      <4>4. CASE Handled("schedEvent", "sched", <<>>)
        BY <4>2, <4>4
      <4>5. ASSUME NEW e, Handled("schedEvent", "sched", <<e>>), e.ev.kind \in {"rejectedAsk", "release"}
            PROVE  \E msgs : /\ Handled("schedEvent", "sched", msgs)
                             /\ Count(Evs(msgs), GivenUp(app)) = 0
        <5>1. e.ev \notin GivenUp(app)
          BY <4>1, <4>5
        <5>2. Count(Evs(<<e>>), GivenUp(app)) = 0
          BY <4>3, <5>1
        <5> QED
          BY <4>5, <5>2
      <4> QED
        BY <2>2, <4>4, <4>5
    <3>2. /\ Flow("cacheRM", "sched", Added(app))' = Flow("cacheRM", "sched", Added(app)) - 0
          /\ Flow("schedEvent", "cache", GivenUp(app))' = Flow("schedEvent", "cache", GivenUp(app)) + 0
          /\ Flow("cacheRM", "sched", Added(app)) \in Nat
          /\ Flow("schedEvent", "cache", GivenUp(app)) \in Nat
      BY <1>2, <2>3, <3>1
    <3>3. Scheduled(app)' = Scheduled(app)
      BY <2>1 DEF Scheduled
    <3> QED
      BY <3>2, <3>3 DEF Holders
  <2> QED
    BY <2>4, <2>5 DEF OnePlace
<1> QED
  BY <1>4, <1>5, <1>6 DEF SchedEvent

(* The cache lets go of an application. *)
LEMMA CacheSchedHolders ==
  ASSUME CoreInv, OnePlace, CacheSched
  PROVE  OnePlace'
<1> DEFINE ev == Head(cacheEvents)
<1>0. ChannelTypes /\ apps \in SUBSET Apps
  BY DEF CoreInv, CacheInv, TypeOK
<1>1. ev \in CacheMsg
  <2>1. cacheEvents # <<>>
    BY DEF CacheSched, CacheProposal, CacheRelease, CacheRemovedApp, CacheRejectedApp, CacheTake
  <2>2. cacheEvents \in Seq(CacheMsg)
    BY <1>0 DEF ChannelTypes
  <2> QED
    BY <2>1, <2>2
<1>2. \E msgs : Handled("cacheSched", "cache", msgs)
  <2>1. CacheProposal => \E msgs : Handled("cacheSched", "cache", msgs)
    BY <1>0, CacheSchedHandled
  <2>2. CacheRelease => \E msgs : Handled("cacheSched", "cache", msgs)
    BY <1>0, CacheSchedHandled
  <2>3. CacheRemovedApp => \E msgs : Handled("cacheSched", "cache", msgs)
    BY <1>0, CacheSchedHandled
  <2>4. CacheRejectedApp => \E msgs : Handled("cacheSched", "cache", msgs)
    BY <1>0, CacheSchedHandled
  <2> QED
    BY <2>1, <2>2, <2>3, <2>4 DEF CacheSched
<1>3. PICK msgs : Handled("cacheSched", "cache", msgs)
  BY <1>2
<1>4. UNCHANGED schedQueue
  BY <1>0, CacheSchedHandled DEF schedVars
<1>5. ASSUME NEW app \in Apps, NEW n \in {0, 1}, n = IF ev \in GivenUp(app) THEN 1 ELSE 0
      PROVE  /\ Holders(app)' = Holders(app) - n
             /\ Holders(app) \in Nat /\ Holders(app) >= n
  <2>1. "cacheSched" \in Threads
    BY DEF Threads
  <2>2. /\ Flow("cacheRM", "sched", Added(app))' = Flow("cacheRM", "sched", Added(app))
        /\ Flow("schedEvent", "cache", GivenUp(app))' = Flow("schedEvent", "cache", GivenUp(app)) - n
        /\ Flow("cacheRM", "sched", Added(app)) \in Nat
        /\ Flow("schedEvent", "cache", GivenUp(app)) \in Nat
    BY <1>0, <1>3, <1>5, <2>1, HandledHolders
  <2>3. Flow("schedEvent", "cache", GivenUp(app)) >= n
    <3>1. cacheEvents # <<>> /\ Channel("cache") = cacheEvents /\ cacheEvents \in Seq(Msg)
      BY <1>0, <1>3, FlowTypes DEF Handled, Ends, Channel
    <3>2. PICK c, G : c \in Seq(Msg) /\ c = cacheEvents /\ G = GivenUp(app)
      BY <3>1
    <3>3. Count(c, G) = Count(Tail(c), G) + (IF Head(c) \in G THEN 1 ELSE 0)
      BY <3>1, <3>2, TakeCount
    <3>4. Tail(c) \in Seq(Msg)
      BY <3>1, <3>2
    <3>5. Count(Tail(c), G) \in Nat
      BY <3>4, CountType
    <3>6. Count(c, G) >= n
      BY <1>5, <3>2, <3>3, <3>5
    <3>7. "schedEvent" \in Threads /\ "cache" \in Ends
      BY DEF Threads, Ends
    <3>8. Count(Channel("cache"), G) \in Nat /\ Count(Evs(outbox["schedEvent"]), G) \in Nat
      BY <1>0, <3>7, FlowNat
    <3>9. Flow("schedEvent", "cache", G) = Count(c, G) + Count(Evs(outbox["schedEvent"]), G)
      BY <3>1, <3>2 DEF Flow
    <3> HIDE DEF ev
    <3> QED
      BY <3>1, <3>2, <3>6, <3>8, <3>9
  <2>4. Scheduled(app)' = Scheduled(app)
    BY <1>4 DEF Scheduled
  <2> QED
    BY <2>2, <2>3, <2>4 DEF Holders
<1>6. CASE CacheProposal \/ CacheRelease
  <2>1. ev.kind \in {"proposal", "release"}
    BY <1>0, <1>6, CacheSchedHandled
  <2>2. \A app \in Apps : ev \notin GivenUp(app)
    BY <2>1 DEF GivenUp
  <2>3. apps' = apps
    BY <1>0, <1>6, CacheSchedHandled DEF AddNewAllocation, Allocate, ReleaseAllocations, vars, appVars
  <2> HIDE DEF ev
  <2>4. \A app \in Apps : Holders(app)' = Holders(app) - 0 /\ Holders(app) \in Nat
    BY <1>5, <2>2
  <2> QED
    BY <2>3, <2>4 DEF OnePlace
<1>7. CASE CacheRemovedApp \/ CacheRejectedApp
  <2>1. /\ ev.kind \in {"removedApp", "rejectedApp"}
        /\ \/ RemoveApplication(ev.app) \/ DropApplication(ev.app)
           \/ ev.app \notin apps /\ UNCHANGED vars
    BY <1>0, <1>7, CacheSchedHandled
  <2>2. ev.app \in Apps /\ \A app \in Apps : ev \in GivenUp(app) <=> ev.app = app
    BY <1>1, <2>1, CacheFields, HolderEvents
  <2>3. apps' = apps \ {ev.app}
    BY <2>1 DEF RemoveApplication, DropApplication, vars, appVars
  <2> HIDE DEF ev
  <2>4. \A app \in Apps : /\ Holders(app)' = Holders(app) - (IF ev.app = app THEN 1 ELSE 0)
                          /\ Holders(app) \in Nat /\ Holders(app) >= (IF ev.app = app THEN 1 ELSE 0)
    BY <1>5, <2>2
  <2>5. ASSUME NEW app \in Apps
        PROVE  Holders(app)' = IF app \in apps' THEN 1 ELSE 0
    BY <2>3, <2>4 DEF OnePlace
  <2> QED
    BY <2>5 DEF OnePlace
<1> QED
  BY <1>6, <1>7 DEF CacheSched

(* What the other steps leave alone. *)
LEMMA SameHolders ==
  ASSUME OnePlace, UNCHANGED <<apps, schedQueue, cacheEvents, schedEvents, outbox>>
  PROVE  OnePlace'
<1>1. \A app \in Apps : /\ Added(app)' = Added(app) /\ GivenUp(app)' = GivenUp(app)
                        /\ Scheduled(app)' = Scheduled(app)
  BY DEF Added, GivenUp, Msg, Scheduled
<1>2. \A t, M : /\ Flow(t, "sched", M)' = Flow(t, "sched", M)
                /\ Flow(t, "cache", M)' = Flow(t, "cache", M)
  BY DEF Flow, Channel
<1> QED
  BY <1>1, <1>2 DEF OnePlace, Holders

(* Confirming an allocation moves no application. *)
LEMMA ConfirmHolders ==
  ASSUME CoreInv, OnePlace, NEW x \in placed, ConfirmAllocation(x)
  PROVE  OnePlace'
<1>0. ChannelTypes /\ "schedule" \in Threads
  BY DEF CoreInv, Threads
<1>1. UNCHANGED <<apps, schedQueue>>
  BY <1>0, ConfirmHandled DEF vars, appVars
<1>2. PICK msgs : Handled("schedule", "none", msgs)
  BY <1>0, ConfirmHandled
<1>3. ASSUME NEW app \in Apps
      PROVE  Holders(app)' = Holders(app)
  <2>1. /\ Flow("cacheRM", "sched", Added(app))' = Flow("cacheRM", "sched", Added(app))
        /\ Flow("schedEvent", "cache", GivenUp(app))' = Flow("schedEvent", "cache", GivenUp(app))
    BY <1>0, <1>2, HandledHolders
  <2> QED
    BY <1>1, <2>1 DEF Holders, Scheduled
<1> QED
  BY <1>1, <1>3 DEF OnePlace

(* The whole invariant: no step of any goroutine loses or doubles an       *)
(* application.                                                            *)
FlowInv == CoreInv /\ Routed /\ OnePlace

(* It is kept by every step, and so by every order of the goroutines. *)
LEMMA FlowStep ==
  ASSUME FlowInv, [CoreNext]_coreVars
  PROVE  FlowInv'
<1>1. CoreInv'
  BY CoreStep DEF FlowInv
<1>2. Routed'
  BY RoutedStep DEF FlowInv
<1>3. OnePlace'
  <2>0. CoreInv /\ ChannelTypes /\ Routed /\ OnePlace
    BY DEF FlowInv, CoreInv
  <2>1. CASE \/ RM \/ RmReceive \/ Find \/ Place \/ Quiet \/ UNCHANGED coreVars
    BY <2>0, <2>1, OtherSteps, SameHolders DEF vars, appVars, schedVars
  <2>2. CASE \E t \in Threads : Send(t)
    BY <2>0, <2>2, SendHolders
  <2>3. CASE CacheRM \/ SchedEvent \/ CacheSched
    BY <2>0, <2>3, CacheRMHolders, SchedEventHolders, CacheSchedHolders
  <2>4. CASE Confirm
    BY <2>0, <2>4, ConfirmHolders DEF Confirm
  <2> QED
    BY <2>1, <2>2, <2>3, <2>4 DEF CoreNext
<1> QED
  BY <1>1, <1>2, <1>3 DEF FlowInv

(* It holds of a core nobody has sent anything to. *)
LEMMA FlowInit == CoreInit => FlowInv
<1> SUFFICES ASSUME CoreInit
             PROVE  FlowInv
  OBVIOUS
<1>1. CoreInv
  BY InitCore
<1>2. /\ \A t \in Threads : outbox[t] = <<>>
      /\ cacheEvents = <<>> /\ schedEvents = <<>> /\ apps = {} /\ \A a \in Apps : ~Scheduled(a)
  BY DEF CoreInit, Scheduled
<1>3. Routed
  BY <1>2 DEF Routed
<1>4. OnePlace
  <2>1. ASSUME NEW app \in Apps
        PROVE  Holders(app) = 0
    <3>1. /\ Channel("sched") = <<>> /\ Channel("cache") = <<>>
          /\ outbox["cacheRM"] = <<>> /\ outbox["schedEvent"] = <<>>
      BY <1>2 DEF Channel, Threads
    <3>2. /\ Flow("cacheRM", "sched", Added(app)) = 0
          /\ Flow("schedEvent", "cache", GivenUp(app)) = 0
      BY <3>1, CountShort, PostedCount DEF Flow
    <3> QED
      BY <1>2, <3>2 DEF Holders
  <2> QED
    BY <1>2, <2>1 DEF OnePlace
<1> QED
  BY <1>1, <1>3, <1>4 DEF FlowInv

(* In every state each application of the cache is in one place: on its way
   to the scheduler, scheduled there, or on its way back to be removed. *)
THEOREM FlowInvariant == CoreSpec => []FlowInv
BY FlowInit, FlowStep, PTL DEF CoreSpec

-----------------------------------------------------------------------------
(* The flows are what AppInOnePlace counts.                                *)

(* A sequence is counted by its numbered elements. *)
LEMMA NumberedCount ==
  ASSUME NEW S, NEW s \in Seq(S), NEW M, NEW T,
         T = { <<i, s[i]>> : i \in PlacesOf(s, M) }
  PROVE  IsFiniteSet(T) /\ Cardinality(T) = Count(s, M)
<1> DEFINE P == PlacesOf(s, M)
           f == [i \in P |-> <<i, s[i]>>]
<1>1. IsFiniteSet(P)
  BY CountType
<1>2. f \in Bijection(P, T)
  <2>1. \A i \in P : f[i] \in T
    BY DEF P
  <2>2. \A i, j \in P : f[i] = f[j] => i = j
    OBVIOUS
  <2>3. \A x \in T : \E i \in P : f[i] = x
    BY DEF P
  <2> HIDE DEF P
  <2> QED
    BY <2>1, <2>2, <2>3 DEF Bijection, Injection, Surjection, IsInjective
<1> HIDE DEF f, P
<1>3. IsFiniteSet(T) /\ Cardinality(T) = Cardinality(P)
  BY <1>1, <1>2, FS_Bijection DEF ExistsBijection
<1> QED
  BY <1>3 DEF Count, P

(* What is on its way, as Transit lines it up. *)
Lined(t, channel) == channel \o [i \in DOMAIN outbox[t] |-> outbox[t][i].ev]

(* The events lined up for a channel are counted by Flow. *)
LEMMA LinedCount ==
  ASSUME ChannelTypes, NEW t \in Threads, NEW to \in Ends, NEW M, NEW T,
         T = { <<i, Lined(t, Channel(to))[i]>> : i \in PlacesOf(Lined(t, Channel(to)), M) }
  PROVE  Cardinality(T) = Flow(t, to, M)
<1>1. PICK c \in Seq(Msg), b \in Seq(Msg) : c = Channel(to) /\ b = Evs(outbox[t])
  BY FlowTypes
<1>2. Lined(t, Channel(to)) = c \o b /\ c \o b \in Seq(Msg)
  BY <1>1 DEF Lined, Evs
<1>3. PICK s \in Seq(Msg) : s = c \o b
  BY <1>2
<1>4. T = { <<i, s[i]>> : i \in PlacesOf(s, M) }
  BY <1>2, <1>3
<1>5. Cardinality(T) = Count(s, M)
  BY <1>4, NumberedCount
<1>6. Count(c \o b, M) = Count(c, M) + Count(b, M)
  BY CountConcat
<1> QED
  BY <1>1, <1>3, <1>5, <1>6 DEF Flow

(* OnePlace counts as AppInOnePlace does. *)
LEMMA OnePlaceImplies == FlowInv => AppInOnePlace
<1> SUFFICES ASSUME FlowInv, NEW app \in Apps
             PROVE  Cardinality({ x \in Transit("cacheRM", schedEvents, "addApp") : x[2].app = app })
                    + (IF Scheduled(app) THEN 1 ELSE 0)
                    + Cardinality({ x \in Transit("schedEvent", cacheEvents, "removedApp")
                                          \cup Transit("schedEvent", cacheEvents, "rejectedApp") :
                                      x[2].app = app })
                    = (IF app \in apps THEN 1 ELSE 0)
  BY DEF AppInOnePlace
<1>0. ChannelTypes /\ {"cacheRM", "schedEvent"} \subseteq Threads /\ {"sched", "cache"} \subseteq Ends
      /\ Channel("sched") = schedEvents /\ Channel("cache") = cacheEvents
  BY DEF FlowInv, CoreInv, Threads, Ends, Channel
<1>1. \A t \in Threads, to \in Ends : \A i \in DOMAIN Lined(t, Channel(to)) : Lined(t, Channel(to))[i] \in Msg
  <2> SUFFICES ASSUME NEW t \in Threads, NEW to \in Ends
               PROVE  \A i \in DOMAIN Lined(t, Channel(to)) : Lined(t, Channel(to))[i] \in Msg
    OBVIOUS
  <2>1. PICK c \in Seq(Msg), b \in Seq(Msg) : c = Channel(to) /\ b = Evs(outbox[t])
    BY <1>0, FlowTypes
  <2>2. Lined(t, Channel(to)) = c \o b
    BY <2>1 DEF Lined, Evs
  <2>3. c \o b \in Seq(Msg)
    OBVIOUS
  <2>4. PICK s \in Seq(Msg) : s = c \o b
    BY <2>3
  <2> QED
    BY <2>2, <2>4
<1>2. Cardinality({ x \in Transit("cacheRM", schedEvents, "addApp") : x[2].app = app })
        = Flow("cacheRM", "sched", Added(app))
  <2> DEFINE s == Lined("cacheRM", Channel("sched"))
             T == { <<i, s[i]>> : i \in PlacesOf(s, Added(app)) }
  <2>1. \A i \in DOMAIN s : s[i] \in Added(app) <=> s[i].kind = "addApp" /\ s[i].app = app
    BY <1>0, <1>1 DEF Added
  <2>2. Transit("cacheRM", schedEvents, "addApp")
          = { <<i, s[i]>> : i \in { j \in DOMAIN s : s[j].kind = "addApp" } }
    BY <1>0 DEF Transit, Lined
  <2>3. Cardinality(T) = Flow("cacheRM", "sched", Added(app))
    BY <1>0, LinedCount
  <2> HIDE DEF s
  <2>4. { x \in { <<i, s[i]>> : i \in { j \in DOMAIN s : s[j].kind = "addApp" } } : x[2].app = app } = T
    BY <2>1 DEF PlacesOf
  <2> QED
    BY <2>2, <2>3, <2>4
<1>3. Cardinality({ x \in Transit("schedEvent", cacheEvents, "removedApp")
                          \cup Transit("schedEvent", cacheEvents, "rejectedApp") : x[2].app = app })
        = Flow("schedEvent", "cache", GivenUp(app))
  <2> DEFINE s == Lined("schedEvent", Channel("cache"))
             K(kind) == { <<i, s[i]>> : i \in { j \in DOMAIN s : s[j].kind = kind } }
             T == { <<i, s[i]>> : i \in PlacesOf(s, GivenUp(app)) }
  <2>1. \A i \in DOMAIN s : s[i] \in GivenUp(app)
                              <=> s[i].kind \in {"removedApp", "rejectedApp"} /\ s[i].app = app
    BY <1>0, <1>1 DEF GivenUp
  <2>2. /\ Transit("schedEvent", cacheEvents, "removedApp") = K("removedApp")
        /\ Transit("schedEvent", cacheEvents, "rejectedApp") = K("rejectedApp")
    BY <1>0 DEF Transit, Lined
  <2>3. Cardinality(T) = Flow("schedEvent", "cache", GivenUp(app))
    BY <1>0, LinedCount
  <2> HIDE DEF s
  <2>4. { x \in K("removedApp") \cup K("rejectedApp") : x[2].app = app } = T
    BY <2>1 DEF PlacesOf
  <2> QED
    BY <2>2, <2>3, <2>4
<1> QED
  BY <1>2, <1>3 DEF FlowInv, OnePlace, Holders

(* Whatever the RM sends and in whatever order the goroutines run: an      *)
(* application the cache knows is in the hands of exactly one, and one it  *)
(* does not know is nowhere.                                               *)
THEOREM AppsInOnePlace == CoreSpec => []AppInOnePlace
BY FlowInvariant, OnePlaceImplies, PTL

-----------------------------------------------------------------------------
(* The units of an ask: pending, proposed, refused and on their way back,  *)
(* or allocated.  The messages of an ask on their way to the scheduler.    *)

Said(k, n) == { ev \in Msg : ev.kind = "ask" /\ ev.key = k /\ ev.n = n }
Proposed(k) == { ev \in Msg : ev.kind = "proposal" /\ ev.key = k }
Refused(k) == { ev \in Msg : ev.kind = "rejected" /\ ev.key = k }

Asking(k, n) == Flow("cacheRM", "sched", Said(k, n))
Proposals(k) == Flow("schedule", "cache", Proposed(k))
Refusals(k) == Flow("cacheSched", "sched", Refused(k))
Out(k) == Proposals(k) + Refusals(k) + IssuedFor(k)

AskWaits(k) == \E u \in updates : u.ev.kind = "ask" /\ u.ev.key = k
Untouched(k) == ~Known(k) /\ Out(k) = 0

(* As long as the RM asks once with a key: nothing has been done for it    *)
(* before its ask arrives, and no unit of it is lost afterwards.           *)
AskOf(k) ==
  /\ asked[k] = 0 => Untouched(k)
  /\ \A u \in updates : u.ev.kind = "ask" /\ u.ev.key = k =>
       /\ u.ev.n = asked[k]
       /\ Untouched(k)
       /\ \A v \in updates : v.ev.kind = "ask" /\ v.ev.key = k => v = u
  /\ \A n \in Repeats : Asking(k, n) > 0 =>
       n = asked[k] /\ Asking(k, n) = 1 /\ Untouched(k) /\ ~AskWaits(k)
  /\ Known(k) => asks[k].pending + Out(k) = asked[k]

AskInv == IsFiniteSet(Issued) /\ \A k \in Keys : AskOf(k)

(* Everything that is counted is a natural number. *)
LEMMA OutNat ==
  ASSUME CoreInv, IsFiniteSet(Issued), NEW k \in Keys
  PROVE  /\ Proposals(k) \in Nat /\ Refusals(k) \in Nat /\ IssuedFor(k) \in Nat /\ Out(k) \in Nat
         /\ \A n : Asking(k, n) \in Nat
<1>0. /\ ChannelTypes /\ {"cacheRM", "schedule", "cacheSched"} \subseteq Threads
      /\ "cache" \in Ends /\ "sched" \in Ends
  BY DEF CoreInv, Threads, Ends
<1>1. Proposals(k) \in Nat /\ Refusals(k) \in Nat
  BY <1>0, FlowNat DEF Proposals, Refusals
<1>2. \A n : Asking(k, n) \in Nat
  BY <1>0, FlowNat DEF Asking
<1>3. IssuedFor(k) \in Nat
  <2>1. { u \in Uuids : allocKey[u] = k } \subseteq Issued
    BY CoreAssumption DEF Issued
  <2>2. IsFiniteSet({ u \in Uuids : allocKey[u] = k })
    BY <2>1, FS_Subset DEF AskInv
  <2> QED
    BY <2>2, FS_CardinalityType DEF IssuedFor
<1> QED
  BY <1>1, <1>2, <1>3 DEF Out

(* Nothing happens to an ask, or it goes away. *)
LEMMA AskSame ==
  ASSUME NEW k \in Keys, AskOf(k), UNCHANGED asked[k], asks'[k] \in {asks[k], NoAsk},
         Out(k)' = Out(k), \A n \in Repeats : Asking(k, n)' = Asking(k, n),
         \A u \in updates' : u.ev.kind = "ask" /\ u.ev.key = k => u \in updates
  PROVE  AskOf(k)'
<1>1. Untouched(k) => Untouched(k)'
  BY DEF Untouched, Known
<1>2. Known(k)' => Known(k) /\ asks'[k] = asks[k]
  BY DEF Known
<1>3. AskWaits(k)' => AskWaits(k)
  BY DEF AskWaits
<1> QED
  BY <1>1, <1>2, <1>3 DEF AskOf

(* Which events are in the three sets: the kinds tell them apart. *)
LEMMA AskKinds ==
  ASSUME NEW k, NEW n
  PROVE  /\ \A ev : ev.kind # "ask" => ev \notin Said(k, n)
         /\ \A ev : ev.kind # "proposal" => ev \notin Proposed(k)
         /\ \A ev : ev.kind # "rejected" => ev \notin Refused(k)
         /\ Said(k, n)' = Said(k, n) /\ Proposed(k)' = Proposed(k) /\ Refused(k)' = Refused(k)
BY DEF Said, Proposed, Refused, Msg

(* What a handler does to the flows of an ask. *)
LEMMA HandledAsk ==
  ASSUME ChannelTypes, NEW s \in Threads, NEW from, NEW msgs, Handled(s, from, msgs),
         NEW k \in Keys, NEW n
  PROVE  /\ s = "cacheRM" /\ from = "none" =>
              /\ Asking(k, n)' = Asking(k, n) + Count(Evs(msgs), Said(k, n))
              /\ Proposals(k)' = Proposals(k) /\ Refusals(k)' = Refusals(k)
         /\ s = "schedEvent" /\ from = "sched" =>
              /\ Asking(k, n)' = Asking(k, n) - (IF Head(schedEvents) \in Said(k, n) THEN 1 ELSE 0)
              /\ Proposals(k)' = Proposals(k)
              /\ Refusals(k)' = Refusals(k) - (IF Head(schedEvents) \in Refused(k) THEN 1 ELSE 0)
         /\ s = "cacheSched" /\ from = "cache" =>
              /\ Asking(k, n)' = Asking(k, n)
              /\ Proposals(k)' = Proposals(k) - (IF Head(cacheEvents) \in Proposed(k) THEN 1 ELSE 0)
              /\ Refusals(k)' = Refusals(k) + Count(Evs(msgs), Refused(k))
         /\ s = "schedule" /\ from = "none" =>
              /\ Asking(k, n)' = Asking(k, n)
              /\ Proposals(k)' = Proposals(k) + Count(Evs(msgs), Proposed(k))
              /\ Refusals(k)' = Refusals(k)
<1>1. /\ {"cacheRM", "schedule", "cacheSched"} \subseteq Threads /\ "sched" \in Ends /\ "cache" \in Ends
      /\ Channel("sched") = schedEvents /\ Channel("cache") = cacheEvents
      /\ "none" # "sched" /\ "none" # "cache"
  BY DEF Threads, Ends, Channel
<1>2. PICK A, P, R : A = Said(k, n) /\ P = Proposed(k) /\ R = Refused(k)
  OBVIOUS
<1>3. Said(k, n)' = A /\ Proposed(k)' = P /\ Refused(k)' = R
  BY <1>2, AskKinds
<1>4. /\ "cacheRM" # s /\ "sched" # from =>
           Flow("cacheRM", "sched", A)' = Flow("cacheRM", "sched", A)
      /\ "cacheRM" # s /\ "sched" = from =>
           Flow("cacheRM", "sched", A)'
             = Flow("cacheRM", "sched", A) - (IF Head(Channel("sched")) \in A THEN 1 ELSE 0)
      /\ "cacheRM" = s /\ "sched" # from =>
           Flow("cacheRM", "sched", A)' = Flow("cacheRM", "sched", A) + Count(Evs(msgs), A)
  BY <1>1, HandledFlow
<1>5. /\ "schedule" # s /\ "cache" # from =>
           Flow("schedule", "cache", P)' = Flow("schedule", "cache", P)
      /\ "schedule" # s /\ "cache" = from =>
           Flow("schedule", "cache", P)'
             = Flow("schedule", "cache", P) - (IF Head(Channel("cache")) \in P THEN 1 ELSE 0)
      /\ "schedule" = s /\ "cache" # from =>
           Flow("schedule", "cache", P)' = Flow("schedule", "cache", P) + Count(Evs(msgs), P)
  BY <1>1, HandledFlow
<1>6. /\ "cacheSched" # s /\ "sched" # from =>
           Flow("cacheSched", "sched", R)' = Flow("cacheSched", "sched", R)
      /\ "cacheSched" # s /\ "sched" = from =>
           Flow("cacheSched", "sched", R)'
             = Flow("cacheSched", "sched", R) - (IF Head(Channel("sched")) \in R THEN 1 ELSE 0)
      /\ "cacheSched" = s /\ "sched" # from =>
           Flow("cacheSched", "sched", R)' = Flow("cacheSched", "sched", R) + Count(Evs(msgs), R)
  BY <1>1, HandledFlow
<1>7. /\ Asking(k, n) = Flow("cacheRM", "sched", A) /\ Asking(k, n)' = Flow("cacheRM", "sched", A)'
      /\ Proposals(k) = Flow("schedule", "cache", P) /\ Proposals(k)' = Flow("schedule", "cache", P)'
      /\ Refusals(k) = Flow("cacheSched", "sched", R) /\ Refusals(k)' = Flow("cacheSched", "sched", R)'
  BY <1>2, <1>3 DEF Asking, Proposals, Refusals
<1> QED
  BY <1>1, <1>2, <1>4, <1>5, <1>6, <1>7

(* The first event of a channel is on its way. *)
LEMMA HeadFlows ==
  ASSUME ChannelTypes, NEW t \in Threads, NEW to \in Ends, NEW M,
         Channel(to) # <<>>, Head(Channel(to)) \in M
  PROVE  Flow(t, to, M) >= 1
<1>1. PICK c \in Seq(Msg) : c = Channel(to)
  BY FlowTypes
<1>2. c # <<>> /\ Head(c) \in M
  BY <1>1
<1>3. Count(c, M) = Count(Tail(c), M) + 1 /\ Tail(c) \in Seq(Msg)
  BY <1>2, CountTail
<1>4. Count(Tail(c), M) \in Nat
  BY <1>3, CountType
<1>5. Count(Evs(outbox[t]), M) \in Nat
  BY FlowNat
<1> QED
  BY <1>1, <1>3, <1>4, <1>5 DEF Flow

(* Handing over an event. *)
LEMMA SendAsk ==
  ASSUME CoreInv, Routed, AskInv, NEW s \in Threads, Send(s)
  PROVE  AskInv'
<1>0. ChannelTypes
  BY DEF CoreInv
<1>1. UNCHANGED <<asks, asked, updates, allocKey>>
  BY DEF Send, schedVars, rmVars
<1>2. /\ OwnRoute("cacheRM", "sched", {"ask"}) /\ OwnRoute("schedule", "cache", {"proposal"})
      /\ OwnRoute("cacheSched", "sched", {"rejected"})
      /\ {"cacheRM", "schedule", "cacheSched"} \subseteq Threads /\ {"sched", "cache"} \subseteq Ends
  BY DEF OwnRoute, Routes, Threads, Ends
<1>3. ASSUME NEW k \in Keys
      PROVE  AskOf(k)'
  <2>1. ASSUME NEW n
        PROVE  Asking(k, n)' = Asking(k, n)
    <3>1. PICK A : A = Said(k, n)
      OBVIOUS
    <3>2. \A ev \in A : ev.kind \in {"ask"}
      BY <3>1 DEF Said
    <3>3. Flow("cacheRM", "sched", A)' = Flow("cacheRM", "sched", A)
      BY <1>0, <1>2, <3>2, SendFlow
    <3>4. Said(k, n)' = Said(k, n)
      BY AskKinds
    <3> QED
      BY <3>1, <3>3, <3>4 DEF Asking
  <2>2. Proposals(k)' = Proposals(k)
    <3>1. PICK A : A = Proposed(k)
      OBVIOUS
    <3>2. \A ev \in A : ev.kind \in {"proposal"}
      BY <3>1 DEF Proposed
    <3>3. Flow("schedule", "cache", A)' = Flow("schedule", "cache", A)
      BY <1>0, <1>2, <3>2, SendFlow
    <3>4. Proposed(k)' = Proposed(k)
      BY AskKinds
    <3> QED
      BY <3>1, <3>3, <3>4 DEF Proposals
  <2>3. Refusals(k)' = Refusals(k)
    <3>1. PICK A : A = Refused(k)
      OBVIOUS
    <3>2. \A ev \in A : ev.kind \in {"rejected"}
      BY <3>1 DEF Refused
    <3>3. Flow("cacheSched", "sched", A)' = Flow("cacheSched", "sched", A)
      BY <1>0, <1>2, <3>2, SendFlow
    <3>4. Refused(k)' = Refused(k)
      BY AskKinds
    <3> QED
      BY <3>1, <3>3, <3>4 DEF Refusals
  <2>4. Out(k)' = Out(k)
    BY <1>1, <2>2, <2>3 DEF Out, IssuedFor
  <2>5. AskOf(k)
    BY DEF AskInv
  <2> QED
    BY <1>1, <2>1, <2>4, <2>5, AskSame
<1> QED
  BY <1>1, <1>3 DEF AskInv, Issued

(* The flows of an ask depend on the channels and the outboxes alone. *)
LEMMA SameFlows ==
  ASSUME UNCHANGED <<cacheEvents, schedEvents, outbox>>
  PROVE  \A k : /\ Proposals(k)' = Proposals(k) /\ Refusals(k)' = Refusals(k)
                /\ \A n : Asking(k, n)' = Asking(k, n)
<1>1. \A t, M : /\ Flow(t, "sched", M)' = Flow(t, "sched", M)
                /\ Flow(t, "cache", M)' = Flow(t, "cache", M)
  BY DEF Flow, Channel
<1>2. \A k, n : Said(k, n)' = Said(k, n) /\ Proposed(k)' = Proposed(k) /\ Refused(k)' = Refused(k)
  BY AskKinds
<1> QED
  BY <1>1, <1>2 DEF Asking, Proposals, Refusals

(* The resource manager sends something else than an ask with this key. *)
LEMMA OtherAsk ==
  ASSUME AskInv, NEW k \in Keys,
         UNCHANGED <<asks, allocKey, cacheEvents, schedEvents, outbox>>, asked'[k] = asked[k],
         \A u \in updates' : u.ev.kind = "ask" /\ u.ev.key = k => u \in updates
  PROVE  AskOf(k)'
<1>1. Out(k)' = Out(k) /\ \A n \in Repeats : Asking(k, n)' = Asking(k, n)
  BY SameFlows DEF Out, IssuedFor
<1>2. AskOf(k)
  BY DEF AskInv
<1> QED
  BY <1>1, <1>2, AskSame

(* The resource manager asks with a key: it has not done so before. *)
LEMMA RmAskOnce ==
  ASSUME CoreInv, AskInv, "askAgain" \notin RmMay, 0 \notin Repeats,
         NEW k \in Keys, NEW r \in Sizes, NEW n \in Repeats, RmAsk(k, r, n)
  PROVE  AskInv'
<1> DEFINE msg == [kind |-> "ask", key |-> k, res |-> r, n |-> n]
           new == [id |-> sent, ev |-> msg]
<1>1. /\ asked[k] = 0 /\ asked' = [asked EXCEPT ![k] = @ + n] /\ updates' = updates \cup {new}
      /\ UNCHANGED <<asks, allocKey, cacheEvents, schedEvents, outbox>>
  BY DEF RmAsk, RmSend, schedVars
<1>2. new.ev = msg /\ msg.kind = "ask" /\ msg.key = k /\ msg.n = n
  OBVIOUS
<1>3. asked \in [Keys -> Nat] /\ n \in Nat /\ n # 0
  BY CoreAssumption DEF CoreInv, RmTypes
<1>4. asked'[k] = n /\ \A j \in Keys \ {k} : asked'[j] = asked[j]
  BY <1>1, <1>3
<1> HIDE DEF new, msg
<1>5. AskOf(k) /\ Untouched(k)
  BY <1>1 DEF AskInv, AskOf
<1>6. \A u \in updates : ~(u.ev.kind = "ask" /\ u.ev.key = k)
  <2>1. ASSUME NEW u \in updates, u.ev.kind = "ask", u.ev.key = k
        PROVE  u.ev.n \in Repeats
    BY <2>1 DEF CoreInv, ChannelTypes, UpdateMsg, AskMsg, ReleaseMsg
  <2> QED
    BY <1>1, <1>5, <2>1 DEF AskOf
<1>7. \A m \in Repeats : ~(Asking(k, m) > 0)
  BY <1>1, <1>5 DEF AskOf
<1>8. Out(k)' = Out(k) /\ \A m \in Repeats : Asking(k, m)' = Asking(k, m)
  BY <1>1, SameFlows DEF Out, IssuedFor
<1>9. Untouched(k)'
  BY <1>1, <1>5, <1>8 DEF Untouched, Known
<1>10. AskOf(k)'
  <2>1. \A u \in updates' : u.ev.kind = "ask" /\ u.ev.key = k => u = new
    BY <1>1, <1>6
  <2>2. \A u \in updates' : u.ev.kind = "ask" /\ u.ev.key = k =>
          /\ u.ev.n = asked'[k] /\ Untouched(k)'
          /\ \A v \in updates' : v.ev.kind = "ask" /\ v.ev.key = k => v = u
    BY <1>2, <1>4, <1>9, <2>1
  <2>3. \A m \in Repeats : ~(Asking(k, m)' > 0)
    BY <1>7, <1>8
  <2>4. ~Known(k)'
    BY <1>9 DEF Untouched
  <2> QED
    BY <1>9, <2>2, <2>3, <2>4 DEF AskOf
<1>11. ASSUME NEW j \in Keys, j # k
       PROVE  AskOf(j)'
  <2>1. \A u \in updates' : u.ev.kind = "ask" /\ u.ev.key = j => u \in updates
    BY <1>1, <1>2, <1>11
  <2> QED
    BY <1>1, <1>4, <1>11, <2>1, OtherAsk
<1>12. IsFiniteSet(Issued)'
  BY <1>1 DEF AskInv, Issued
<1> QED
  BY <1>10, <1>11, <1>12 DEF AskInv

(* The other steps that leave the channels between cache and scheduler. *)
LEMMA OtherAsks ==
  ASSUME CoreInv, AskInv, "askAgain" \notin RmMay, 0 \notin Repeats,
         \/ RM \/ RmReceive \/ Find \/ Place \/ Quiet \/ UNCHANGED coreVars
  PROVE  AskInv'
<1>1. UNCHANGED <<asks, allocKey, cacheEvents, schedEvents, outbox>>
  BY OtherSteps DEF schedVars
<1>2. CASE \E k \in Keys, r \in Sizes, n \in Repeats : RmAsk(k, r, n)
  BY <1>2, RmAskOnce
<1>3. ASSUME asked' = asked, \A u \in updates' : u.ev.kind = "ask" => u \in updates
      PROVE  AskInv'
  <2>1. \A k \in Keys : AskOf(k)'
    BY <1>1, <1>3, OtherAsk
  <2> QED
    BY <1>1, <2>1 DEF AskInv, Issued
<1>4. CASE \/ \E app \in Apps, q \in QueueNames : RmSubmit(app, q)
           \/ \E app \in Apps : RmRemoveApp(app)
           \/ \E app \in Apps, k \in Keys \cup {NoKey, AllKeys}, u \in Uuids \cup {NoUuid, AllUuids} :
                RmRelease(app, k, u)
  <2>1. PICK msg : msg.kind # "ask" /\ RmSend(msg) /\ asked' = asked
    BY <1>4 DEF RmSubmit, RmRemoveApp, RmRelease, Release
  <2>2. updates' = updates \cup {[id |-> sent, ev |-> msg]}
    BY <2>1 DEF RmSend
  <2>3. \A u \in updates' : u.ev.kind = "ask" => u \in updates
    BY <2>1, <2>2
  <2> QED
    BY <1>3, <2>1, <2>3
<1>5. CASE \/ RmReceive \/ Find \/ Place \/ Quiet \/ UNCHANGED coreVars
  <2>1. asked' = asked /\ updates' = updates
    BY <1>5 DEF RmReceive, Find, FindAllocationAsks, Place, TryBatchAllocation, Quiet, coreVars,
                channels, rmVars
  <2> QED
    BY <1>3, <2>1
<1> QED
  BY <1>2, <1>4, <1>5 DEF RM

(* The cache passes an ask on to the scheduler. *)
LEMMA CacheRMAsk ==
  ASSUME CoreInv, AskInv, 0 \notin Repeats, CacheRM
  PROVE  AskInv'
<1>0. ChannelTypes /\ "cacheRM" \in Threads
  BY DEF CoreInv, Threads
<1>1. PICK u \in updates : CacheAddApp(u) \/ CacheAsk(u) \/ CachePassOn(u)
  BY DEF CacheRM
<1>2. /\ updates' = updates \ {u}
      /\ UNCHANGED <<asks, allocKey, asked>>
  BY <1>1 DEF CacheAddApp, CacheAsk, CachePassOn, CacheRMTake, schedVars, rmVars
<1>3. u.ev \in UpdateMsg
  BY <1>0 DEF ChannelTypes
<1>4. ASSUME NEW msgs, Handled("cacheRM", "none", msgs), NEW k \in Keys
      PROVE  /\ Out(k)' = Out(k)
             /\ \A n : Asking(k, n)' = Asking(k, n) + Count(Evs(msgs), Said(k, n))
             /\ \A n : Asking(k, n) \in Nat
  <2>1. \A n : /\ Asking(k, n)' = Asking(k, n) + Count(Evs(msgs), Said(k, n))
               /\ Proposals(k)' = Proposals(k) /\ Refusals(k)' = Refusals(k)
    BY <1>0, <1>4, HandledAsk
  <2>2. \A n : Asking(k, n) \in Nat
    BY OutNat DEF AskInv
  <2> QED
    BY <1>2, <2>1, <2>2 DEF Out, IssuedFor
<1>5. CASE CacheAddApp(u) \/ CachePassOn(u)
  <2>1. PICK e : e.ev.kind # "ask" /\ Handled("cacheRM", "none", <<e>>)
    <3>1. /\ ToSched([kind |-> "addApp", app |-> u.ev.app]).ev.kind # "ask"
          /\ ToRM([kind |-> "rejected", app |-> u.ev.app]).ev.kind # "ask"
          /\ CachePassOn(u) => ToSched(u.ev).ev.kind # "ask"
      BY DEF ToSched, ToRM, CachePassOn
    <3>2. CacheAddApp(u) =>
            \/ Handled("cacheRM", "none", <<ToSched([kind |-> "addApp", app |-> u.ev.app])>>)
            \/ Handled("cacheRM", "none", <<ToRM([kind |-> "rejected", app |-> u.ev.app])>>)
      BY <1>0, CacheRMHandled
    <3>3. CachePassOn(u) => Handled("cacheRM", "none", <<ToSched(u.ev)>>)
      BY <1>0, CacheRMHandled
    <3> QED
      BY <1>5, <3>1, <3>2, <3>3
  <2>2. ASSUME NEW k \in Keys
        PROVE  AskOf(k)'
    <3>1. ASSUME NEW n
          PROVE  Count(Evs(<<e>>), Said(k, n)) = 0
      <4>1. e.ev \notin Said(k, n)
        BY <2>1, AskKinds
      <4>2. PICK M : M = Said(k, n)
        OBVIOUS
      <4>3. Count(Evs(<<e>>), M) = IF e.ev \in M THEN 1 ELSE 0
        BY PostedCount
      <4> QED
        BY <4>1, <4>2, <4>3
    <3>2. Out(k)' = Out(k) /\ \A n \in Repeats : Asking(k, n)' = Asking(k, n)
      <4>1. /\ Out(k)' = Out(k)
            /\ \A n : Asking(k, n)' = Asking(k, n) + Count(Evs(<<e>>), Said(k, n))
            /\ \A n : Asking(k, n) \in Nat
        BY <1>4, <2>1
      <4> QED
        BY <3>1, <4>1
    <3>3. AskOf(k) /\ \A v \in updates' : v \in updates
      BY <1>2 DEF AskInv
    <3> QED
      BY <1>2, <3>2, <3>3, AskSame
  <2> QED
    BY <1>2, <2>2 DEF AskInv, Issued
<1>6. CASE CacheAsk(u)
  <2> DEFINE no == ToRM([kind |-> "rejectedAsk", key |-> u.ev.key])
             on == ToSched(u.ev)
             key == u.ev.key
  <2>1. u.ev.kind = "ask"
    BY <1>6 DEF CacheAsk
  <2>2. u.ev \in SchedMsg /\ key \in Keys /\ u.ev.n \in Repeats
    BY <1>3, <2>1, UpdateFields DEF UpdateMsg, AskMsg, ReleaseMsg
  <2>3. Handled("cacheRM", "none", <<on>>) \/ Handled("cacheRM", "none", <<no, on>>)
    BY <1>0, <1>6, CacheRMHandled
  <2>4. /\ on.ev = u.ev /\ on.ev \in Msg /\ no.ev.kind = "rejectedAsk" /\ no.ev \in Msg
    BY <2>2 DEF ToSched, ToRM, Msg, RmMsg
  <2> HIDE DEF no, on
  <2>5. ASSUME NEW k \in Keys, NEW n
        PROVE  /\ Count(Evs(<<on>>), Said(k, n)) = IF key = k /\ u.ev.n = n THEN 1 ELSE 0
               /\ Count(Evs(<<no, on>>), Said(k, n)) = IF key = k /\ u.ev.n = n THEN 1 ELSE 0
    <3>1. PICK M : M = Said(k, n)
      OBVIOUS
    <3>2. /\ on.ev \in M <=> key = k /\ u.ev.n = n
          /\ no.ev \notin M
      BY <2>1, <2>4, <3>1 DEF Said
    <3>3. Count(Evs(<<on>>), M) = IF on.ev \in M THEN 1 ELSE 0
      BY PostedCount
    <3>4. Count(Evs(<<no, on>>), M) = (IF no.ev \in M THEN 1 ELSE 0) + (IF on.ev \in M THEN 1 ELSE 0)
      BY <2>4, PostedCount
    <3> HIDE DEF key
    <3> QED
      BY <3>1, <3>2, <3>3, <3>4
  <2>6. ASSUME NEW k \in Keys
        PROVE  /\ Out(k)' = Out(k)
               /\ \A n : Asking(k, n)' = Asking(k, n) + (IF key = k /\ u.ev.n = n THEN 1 ELSE 0)
               /\ \A n : Asking(k, n) \in Nat
    <3>1. PICK msgs : /\ Handled("cacheRM", "none", msgs)
                      /\ \A n : Count(Evs(msgs), Said(k, n)) = IF key = k /\ u.ev.n = n THEN 1 ELSE 0
      BY <2>3, <2>5
    <3> QED
      BY <1>4, <3>1
  <2> HIDE DEF key
  <2>7. ASSUME NEW k \in Keys, k # key
        PROVE  AskOf(k)'
    <3>1. Out(k)' = Out(k) /\ \A n \in Repeats : Asking(k, n)' = Asking(k, n)
      BY <2>6, <2>7
    <3>2. AskOf(k) /\ \A v \in updates' : v \in updates
      BY <1>2 DEF AskInv
    <3> QED
      BY <1>2, <3>1, <3>2, AskSame
  <2>8. AskOf(key)'
    <3>1. AskOf(key) /\ u.ev.key = key
      BY <2>2 DEF AskInv, key
    <3>2. /\ u.ev.n = asked[key] /\ Untouched(key)
          /\ \A v \in updates : v.ev.kind = "ask" /\ v.ev.key = key => v = u
      BY <2>1, <3>1 DEF AskOf
    <3>3. AskWaits(key)
      BY <2>1, <3>1 DEF AskWaits
    <3>4. \A n \in Repeats : ~(Asking(key, n) > 0)
      BY <3>1, <3>3 DEF AskOf
    <3>5. \A n \in Repeats : Asking(key, n)' = IF u.ev.n = n THEN 1 ELSE 0
      BY <2>2, <2>6, <3>4
    <3>6. \A v \in updates' : ~(v.ev.kind = "ask" /\ v.ev.key = key)
      BY <1>2, <3>2
    <3>7. ~AskWaits(key)'
      BY <3>6 DEF AskWaits
    <3>8. Untouched(key)'
      BY <1>2, <2>2, <2>6, <3>2 DEF Untouched, Known
    <3>9. ~Known(key)'
      BY <3>8 DEF Untouched
    <3> QED
      BY <1>2, <3>2, <3>5, <3>6, <3>7, <3>8, <3>9 DEF AskOf
  <2> QED
    BY <1>2, <2>7, <2>8 DEF AskInv, Issued
<1> QED
  BY <1>1, <1>5, <1>6

(* The scheduling loop proposes a unit of an ask. *)
LEMMA ConfirmAsk ==
  ASSUME CoreInv, AskInv, NEW x \in placed, ConfirmAllocation(x)
  PROVE  AskInv'
<1> DEFINE key == x.c.key
           p == [app |-> AppOf[key], node |-> x.node, queue |-> x.c.queue, res |-> x.c.res]
           e == ToCache([kind |-> "proposal", key |-> key, p |-> p])
<1>0. /\ ChannelTypes /\ "schedule" \in Threads /\ key \in Keys
      /\ asks \in [Keys -> Ask \cup {NoAsk}] /\ asked \in [Keys -> Nat]
  BY DEF CoreInv, Threads, RoundTypes, Candidate, PendingInv, SchedTypes, RmTypes
<1>1. UNCHANGED <<updates, asked, allocKey>>
  BY DEF ConfirmAllocation, rmVars
<1>2. \/ CanUpdateRepeat(key, 0 - 1) /\ UpdateAskRepeat(key, 0 - 1) /\ Handled("schedule", "none", <<e>>)
      \/ UNCHANGED schedVars /\ Handled("schedule", "none", <<>>)
  BY <1>0, ConfirmHandled
<1>3. e.ev \in Msg /\ e.ev.kind = "proposal" /\ e.ev.key = key
  <2>1. p \in Proposal
    BY <1>0, CoreAssumption, QueueAssumption
    DEF CoreInv, RoundTypes, Candidate, Proposal, QueueNames
  <2> HIDE DEF p
  <2> QED
    BY <1>0, <2>1 DEF ToCache, Msg, CacheMsg
<1> HIDE DEF e, p, key
<1>4. ASSUME NEW msgs, Handled("schedule", "none", msgs), NEW k \in Keys,
             NEW m \in {0, 1}, Count(Evs(msgs), Proposed(k)) = m
      PROVE  /\ Out(k)' = Out(k) + m /\ \A n : Asking(k, n)' = Asking(k, n)
             /\ Out(k) \in Nat
  <2>1. \A n : /\ Asking(k, n)' = Asking(k, n)
               /\ Proposals(k)' = Proposals(k) + m /\ Refusals(k)' = Refusals(k)
    BY <1>0, <1>4, HandledAsk
  <2>2. Proposals(k) \in Nat /\ Refusals(k) \in Nat /\ IssuedFor(k) \in Nat /\ Out(k) \in Nat
    BY OutNat DEF AskInv
  <2>3. IssuedFor(k)' = IssuedFor(k)
    BY <1>1 DEF IssuedFor
  <2> QED
    BY <2>1, <2>2, <2>3 DEF Out
<1>5. CASE UNCHANGED schedVars /\ Handled("schedule", "none", <<>>)
  <2>1. ASSUME NEW k \in Keys
        PROVE  AskOf(k)'
    <3>1. Count(Evs(<<>>), Proposed(k)) = 0
      BY PostedCount
    <3>2. Out(k)' = Out(k) + 0 /\ Out(k) \in Nat /\ \A n : Asking(k, n)' = Asking(k, n)
      BY <1>4, <1>5, <3>1
    <3>3. AskOf(k)
      BY DEF AskInv
    <3> QED
      BY <1>1, <1>5, <3>2, <3>3, AskSame DEF schedVars
  <2> QED
    BY <1>1, <2>1 DEF AskInv, Issued
<1>6. CASE /\ CanUpdateRepeat(key, 0 - 1) /\ UpdateAskRepeat(key, 0 - 1)
           /\ Handled("schedule", "none", <<e>>)
  <2>1. ASSUME NEW k \in Keys
        PROVE  /\ Out(k)' = Out(k) + (IF key = k THEN 1 ELSE 0) /\ Out(k) \in Nat
               /\ \A n : Asking(k, n)' = Asking(k, n)
    <3>1. PICK M : M = Proposed(k)
      OBVIOUS
    <3>2. Count(Evs(<<e>>), M) = IF e.ev \in M THEN 1 ELSE 0
      BY PostedCount
    <3>3. e.ev \in M <=> key = k
      BY <1>3, <3>1 DEF Proposed
    <3> QED
      BY <1>4, <1>6, <3>1, <3>2, <3>3
  <2>2. /\ Known(key) /\ asks[key] \in Ask
        /\ asks' = [asks EXCEPT ![key] = [asks[key] EXCEPT !.pending = @ + (0 - 1)]]
    BY <1>0, <1>6 DEF CanUpdateRepeat, UpdateAskRepeat, Known
  <2>3. asks'[key].pending = asks[key].pending - 1 /\ asks[key].pending \in Nat
    BY <1>0, <2>2 DEF Ask
  <2>4. \A k \in Keys \ {key} : asks'[k] = asks[k]
    BY <1>0, <2>2
  <2>5. ASSUME NEW k \in Keys, k # key
        PROVE  AskOf(k)'
    <3>1. AskOf(k)
      BY DEF AskInv
    <3>2. Out(k)' = Out(k) /\ \A n \in Repeats : Asking(k, n)' = Asking(k, n)
      BY <2>1, <2>5
    <3>3. asks'[k] \in {asks[k], NoAsk} /\ asked'[k] = asked[k] /\ updates' = updates
      BY <1>1, <2>4, <2>5
    <3> QED
      BY <3>1, <3>2, <3>3, AskSame
  <2>6. AskOf(key)'
    <3>1. AskOf(key) /\ ~Untouched(key)
      BY <1>0, <2>2 DEF AskInv, Untouched
    <3>2. Out(key)' = Out(key) + 1 /\ \A n \in Repeats : Asking(key, n)' = Asking(key, n)
      BY <1>0, <2>1
    <3>3. asks[key].pending + Out(key) = asked[key] /\ Out(key) \in Nat
      BY <1>0, <2>1, <2>2, <3>1 DEF AskOf
    <3>4. asks'[key].pending + Out(key)' = asked'[key]
      BY <1>1, <2>3, <3>2, <3>3
    <3> QED
      BY <1>1, <3>1, <3>2, <3>4 DEF AskOf
  <2> QED
    BY <1>1, <2>5, <2>6 DEF AskInv, Issued
<1> QED
  BY <1>2, <1>5, <1>6

(* An ask arrives at the scheduler, which takes it or does not. *)
LEMMA AskArrives ==
  ASSUME CoreInv, AskInv, 0 \notin Repeats, NEW key \in Keys, NEW m \in Repeats,
         UNCHANGED <<updates, asked>>,
         Asking(key, m) >= 1, Out(key)' = Out(key),
         \A n : Asking(key, n)' = Asking(key, n) - (IF m = n THEN 1 ELSE 0),
         \/ \E r \in Sizes : asks' = [asks EXCEPT ![key] = [res |-> r, max |-> m, pending |-> m]]
         \/ asks' = asks
  PROVE  AskOf(key)'
<1>1. AskOf(key) /\ \A n : Asking(key, n) \in Nat
  BY OutNat DEF AskInv
<1>2. asks \in [Keys -> Ask \cup {NoAsk}] /\ asked \in [Keys -> Nat] /\ m \in Nat
  BY CoreAssumption DEF CoreInv, PendingInv, SchedTypes, RmTypes
<1>3. Asking(key, m) > 0
  BY <1>1
<1>4. m = asked[key] /\ Asking(key, m) = 1 /\ Untouched(key) /\ ~AskWaits(key)
  BY <1>1, <1>3 DEF AskOf
<1>5. \A n \in Repeats : ~(Asking(key, n)' > 0)
  <2>1. \A n \in Repeats : n # m => ~(Asking(key, n) > 0)
    BY <1>1, <1>4 DEF AskOf
  <2> QED
    BY <1>1, <1>4, <2>1
<1>6. \A u \in updates' : ~(u.ev.kind = "ask" /\ u.ev.key = key)
  BY <1>4 DEF AskWaits
<1>7. asked'[key] = m /\ m # 0
  BY <1>4
<1>8. Known(key)' => asks'[key].pending = m
  <2>1. CASE \E r \in Sizes : asks' = [asks EXCEPT ![key] = [res |-> r, max |-> m, pending |-> m]]
    BY <1>2, <2>1
  <2>2. CASE asks' = asks
    BY <1>4, <2>2 DEF Known, Untouched
  <2> QED
    BY <2>1, <2>2
<1>9. Out(key) = 0 /\ Out(key)' = 0
  BY <1>4 DEF Untouched
<1>10. Known(key)' => asks'[key].pending + Out(key)' = asked'[key]
  BY <1>2, <1>7, <1>8, <1>9
<1> QED
  BY <1>5, <1>6, <1>7, <1>10 DEF AskOf

(* A unit comes back to the scheduler: it is pending again, or the ask is  *)
(* gone.                                                                   *)
LEMMA UnitBack ==
  ASSUME CoreInv, AskInv, NEW key \in Keys, UNCHANGED <<updates, asked>>,
         Refusals(key) >= 1, Out(key)' = Out(key) - 1,
         \A n : Asking(key, n)' = Asking(key, n),
         \/ /\ CanUpdateRepeat(key, 1)
            /\ asks' = [asks EXCEPT ![key] = [asks[key] EXCEPT !.pending = @ + 1]]
         \/ ~CanUpdateRepeat(key, 1) /\ asks' = asks
  PROVE  AskOf(key)'
<1>1. AskOf(key)
  BY DEF AskInv
<1>2. asks \in [Keys -> Ask \cup {NoAsk}] /\ asked \in [Keys -> Nat] /\ AsksScheduled
  BY DEF CoreInv, PendingInv, SchedTypes, RmTypes
<1>3. /\ Proposals(key) \in Nat /\ Refusals(key) \in Nat /\ IssuedFor(key) \in Nat
      /\ Out(key) \in Nat
  BY OutNat DEF AskInv
<1>4. Out(key) >= 1
  BY <1>3 DEF Out
<1>5. ~Untouched(key)
  BY <1>4 DEF Untouched
<1>6. Known(key)' => asks'[key].pending + Out(key)' = asked'[key]
  <2> SUFFICES ASSUME Known(key)'
               PROVE  asks'[key].pending + Out(key)' = asked'[key]
    OBVIOUS
  <2>1. Known(key)
    BY DEF Known, CanUpdateRepeat
  <2>2. asks[key] \in Ask /\ asks[key].pending \in Nat
    BY <1>2, <2>1 DEF Known, Ask
  <2>3. CanUpdateRepeat(key, 1)
    BY <1>2, <2>1, <2>2 DEF CanUpdateRepeat, AsksScheduled
  <2>4. asks'[key].pending = asks[key].pending + 1
    BY <1>2, <2>2, <2>3 DEF Ask
  <2>5. asks[key].pending + Out(key) = asked[key]
    BY <1>1, <2>1 DEF AskOf
  <2> QED
    BY <1>2, <1>3, <2>2, <2>4, <2>5
<1> QED
  BY <1>1, <1>5, <1>6 DEF AskOf

(* The scheduler gets an ask, gets a refused unit back, or drops asks. *)
LEMMA SchedEventAsk ==
  ASSUME CoreInv, AskInv, 0 \notin Repeats, SchedEvent
  PROVE  AskInv'
<1>0. /\ ChannelTypes /\ {"schedEvent", "cacheRM", "cacheSched"} \subseteq Threads
      /\ Channel("sched") = schedEvents /\ "sched" \in Ends
      /\ asks \in [Keys -> Ask \cup {NoAsk}]
  BY DEF CoreInv, Threads, PendingInv, SchedTypes, Channel, Ends
<1>1. schedEvents # <<>> /\ UNCHANGED <<updates, asked, allocKey>>
  BY DEF SchedEvent, SchedAddApp, SchedRemoveApp, SchedAsk, SchedRejected, SchedRelease, SchedTake, rmVars
<1>2. PICK ev \in SchedMsg : ev = Head(schedEvents)
  <2>1. schedEvents \in Seq(SchedMsg)
    BY <1>0 DEF ChannelTypes
  <2> QED
    BY <1>1, <2>1
<1>3. PICK msgs : Handled("schedEvent", "sched", msgs)
  <2>1. SchedAddApp => \E msgs : Handled("schedEvent", "sched", msgs)
    BY <1>0, SchedEventHandled
  <2>2. SchedRemoveApp => \E msgs : Handled("schedEvent", "sched", msgs)
    BY <1>0, SchedEventHandled
  <2>3. SchedAsk => \E msgs : Handled("schedEvent", "sched", msgs)
    BY <1>0, SchedEventHandled
  <2>4. SchedRejected => \E msgs : Handled("schedEvent", "sched", msgs)
    BY <1>0, SchedEventHandled
  <2>5. SchedRelease => \E msgs : Handled("schedEvent", "sched", msgs)
    BY <1>0, SchedEventHandled
  <2> QED
    BY <2>1, <2>2, <2>3, <2>4, <2>5 DEF SchedEvent
<1>4. ASSUME NEW k \in Keys
      PROVE  /\ Out(k)' = Out(k) - (IF ev \in Refused(k) THEN 1 ELSE 0)
             /\ \A n : Asking(k, n)' = Asking(k, n) - (IF ev \in Said(k, n) THEN 1 ELSE 0)
             /\ Out(k) \in Nat /\ \A n : Asking(k, n) \in Nat
  <2>1. \A n : /\ Asking(k, n)' = Asking(k, n) - (IF ev \in Said(k, n) THEN 1 ELSE 0)
               /\ Proposals(k)' = Proposals(k)
               /\ Refusals(k)' = Refusals(k) - (IF ev \in Refused(k) THEN 1 ELSE 0)
    BY <1>0, <1>2, <1>3, HandledAsk
  <2>2. /\ Proposals(k) \in Nat /\ Refusals(k) \in Nat /\ IssuedFor(k) \in Nat /\ Out(k) \in Nat
        /\ \A n : Asking(k, n) \in Nat
    BY OutNat DEF AskInv
  <2>3. IssuedFor(k)' = IssuedFor(k)
    BY <1>1 DEF IssuedFor
  <2> QED
    BY <2>1, <2>2, <2>3 DEF Out
<1>5. /\ \A k : ev \in Refused(k) => Refusals(k) >= 1
      /\ \A k, n : ev \in Said(k, n) => Asking(k, n) >= 1
  <2>1. Channel("sched") # <<>> /\ ev = Head(Channel("sched"))
    BY <1>0, <1>1, <1>2
  <2>2. ASSUME NEW k, ev \in Refused(k)
        PROVE  Refusals(k) >= 1
    BY <1>0, <2>1, <2>2, HeadFlows DEF Refusals
  <2>3. ASSUME NEW k, NEW n, ev \in Said(k, n)
        PROVE  Asking(k, n) >= 1
    BY <1>0, <2>1, <2>3, HeadFlows DEF Asking
  <2> QED
    BY <2>2, <2>3
<1>6. ASSUME NEW k \in Keys, asks'[k] \in {asks[k], NoAsk}, ev \notin Refused(k), \A n : ev \notin Said(k, n)
      PROVE  AskOf(k)'
  <2>1. Out(k)' = Out(k) /\ \A n \in Repeats : Asking(k, n)' = Asking(k, n)
    BY <1>4, <1>6
  <2>2. AskOf(k)
    BY DEF AskInv
  <2> QED
    BY <1>1, <1>6, <2>1, <2>2, AskSame
<1>7. IsFiniteSet(Issued)'
  BY <1>1 DEF AskInv, Issued
<1>8. CASE SchedAddApp \/ SchedRemoveApp \/ SchedRelease
  <2>1. ev.kind \notin {"ask", "rejected"}
    BY <1>0, <1>2, <1>8, SchedEventHandled
  <2>2. \A k \in Keys : asks'[k] \in {asks[k], NoAsk}
    BY <1>0, <1>8 DEF SchedAddApp, SchedRemoveApp, SchedRelease, RemoveAllocationAsk, schedVars
  <2>3. \A k \in Keys : ev \notin Refused(k) /\ \A n : ev \notin Said(k, n)
    BY <2>1, AskKinds
  <2> QED
    BY <1>6, <1>7, <2>2, <2>3 DEF AskInv
<1>9. CASE SchedAsk
  <2>1. PICK key, r, m : key = ev.key /\ r = ev.res /\ m = ev.n
    OBVIOUS
  <2>2. ev.kind = "ask" /\ key \in Keys /\ r \in Sizes /\ m \in Repeats
    BY <1>0, <1>2, <1>9, <2>1, SchedEventHandled, SchedFields
  <2>3. \A k : ev \notin Refused(k)
    BY <2>2, AskKinds
  <2>4. \A k, n : ev \in Said(k, n) <=> key = k /\ m = n
    BY <1>2, <2>1, <2>2 DEF Said, Msg
  <2>5. \/ asks' = [asks EXCEPT ![key] = [res |-> r, max |-> m, pending |-> m]]
        \/ asks' = asks
    BY <1>2, <1>9, <2>1 DEF SchedAsk, UpdateSchedulingRequest, schedVars
  <2>6. ASSUME NEW k \in Keys, k # key
        PROVE  AskOf(k)'
    <3>1. asks'[k] = asks[k]
      BY <1>0, <2>5, <2>6
    <3>2. \A n : ev \notin Said(k, n)
      BY <2>4, <2>6
    <3> QED
      BY <1>6, <2>3, <3>1, <3>2
  <2>7. Out(key)' = Out(key)
    BY <1>4, <2>2, <2>3
  <2>8. \A n : Asking(key, n)' = Asking(key, n) - (IF m = n THEN 1 ELSE 0)
    BY <1>4, <2>2, <2>4
  <2>9. Asking(key, m) >= 1
    BY <1>5, <2>4
  <2>10. AskOf(key)'
    BY <1>1, <2>2, <2>5, <2>7, <2>8, <2>9, AskArrives
  <2> QED
    BY <1>7, <2>6, <2>10 DEF AskInv
<1>10. CASE SchedRejected
  <2>1. PICK key : key = ev.key
    OBVIOUS
  <2>2. ev.kind = "rejected" /\ key \in Keys
    BY <1>0, <1>2, <1>10, <2>1, SchedEventHandled, SchedFields
  <2>3. \A k, n : ev \notin Said(k, n)
    BY <2>2, AskKinds
  <2>4. \A k : ev \in Refused(k) <=> key = k
    BY <1>2, <2>1, <2>2 DEF Refused, Msg
  <2>5. \/ /\ CanUpdateRepeat(key, 1)
           /\ asks' = [asks EXCEPT ![key] = [asks[key] EXCEPT !.pending = @ + 1]]
        \/ ~CanUpdateRepeat(key, 1) /\ asks' = asks
    BY <1>2, <1>10, <2>1 DEF SchedRejected, UpdateAskRepeat, schedVars
  <2>6. ASSUME NEW k \in Keys, k # key
        PROVE  AskOf(k)'
    <3>1. asks'[k] = asks[k]
      BY <1>0, <2>5, <2>6
    <3>2. ev \notin Refused(k)
      BY <2>4, <2>6
    <3> QED
      BY <1>6, <2>3, <3>1, <3>2
  <2>7. Out(key)' = Out(key) - 1
    BY <1>4, <2>2, <2>4
  <2>8. \A n : Asking(key, n)' = Asking(key, n)
    BY <1>4, <2>2, <2>3
  <2>9. Refusals(key) >= 1
    BY <1>5, <2>4
  <2>10. AskOf(key)'
    BY <1>1, <2>2, <2>5, <2>7, <2>8, <2>9, UnitBack
  <2> QED
    BY <1>7, <2>6, <2>10 DEF AskInv
<1> QED
  BY <1>8, <1>9, <1>10 DEF SchedEvent

(* A uuid is handed out for a key. *)
LEMMA IssueOne ==
  ASSUME KeyTypes, IsFiniteSet(Issued), Issued # Uuids, NEW key \in Keys,
         allocKey' = [allocKey EXCEPT ![NextUuid] = key]
  PROVE  /\ IsFiniteSet(Issued)'
         /\ \A k \in Keys : IssuedFor(k)' = IssuedFor(k) + (IF key = k THEN 1 ELSE 0)
<1>1. PICK w : w = NextUuid
  OBVIOUS
<1>2. w \in Uuids /\ w \notin Issued
  <2>1. \E u : u \in Uuids \ Issued
    BY DEF Issued
  <2> QED
    BY <1>1, <2>1 DEF NextUuid
<1>3. allocKey' = [allocKey EXCEPT ![w] = key] /\ allocKey[w] = NoKey /\ key # NoKey /\ NoKey \notin Keys
  BY <1>1, <1>2, CoreAssumption DEF Issued
<1>4. Issued' = Issued \cup {w}
  BY <1>2, <1>3 DEF Issued, KeyTypes
<1>5. IsFiniteSet(Issued)'
  BY <1>4, FS_AddElement
<1>6. ASSUME NEW k \in Keys
      PROVE  IssuedFor(k)' = IssuedFor(k) + (IF key = k THEN 1 ELSE 0)
  <2> DEFINE I == { u \in Uuids : allocKey[u] = k }
             J == { u \in Uuids : allocKey'[u] = k }
  <2>1. I \subseteq Issued /\ w \notin I
    BY <1>3 DEF Issued
  <2>2. IsFiniteSet(I)
    BY <2>1, FS_Subset
  <2>3. J = IF key = k THEN I \cup {w} ELSE I
    BY <1>2, <1>3 DEF KeyTypes
  <2>4. IssuedFor(k) = Cardinality(I) /\ IssuedFor(k)' = Cardinality(J)
    BY DEF IssuedFor
  <2> HIDE DEF I, J
  <2>5. Cardinality(I \cup {w}) = Cardinality(I) + 1 /\ Cardinality(I) \in Nat
    BY <2>1, <2>2, FS_AddElement, FS_CardinalityType
  <2> QED
    BY <2>3, <2>4, <2>5
<1> QED
  BY <1>5, <1>6

(* The cache answers a proposal, or releases what it is told to. *)
LEMMA CacheSchedAsk ==
  ASSUME CoreInv, AskInv, CacheSched
  PROVE  AskInv'
<1>0. /\ ChannelTypes /\ KeyTypes /\ "cacheSched" \in Threads /\ UNCHANGED <<asks, asked, updates>>
  <2>1. ChannelTypes /\ KeyTypes /\ "cacheSched" \in Threads
    BY DEF CoreInv, Threads
  <2>2. UNCHANGED schedVars
    BY <2>1, CacheSchedHandled
  <2>3. UNCHANGED <<asked, updates>>
    BY DEF CacheSched, CacheProposal, CacheRelease, CacheRemovedApp, CacheRejectedApp, CacheTake, rmVars
  <2> QED
    BY <2>1, <2>2, <2>3 DEF schedVars
<1>1. ASSUME NEW k \in Keys, Out(k)' = Out(k), \A n : Asking(k, n)' = Asking(k, n)
      PROVE  AskOf(k)'
  <2>1. AskOf(k)
    BY DEF AskInv
  <2> QED
    BY <1>0, <1>1, <2>1, AskSame
<1>2. PICK ev : ev = Head(cacheEvents)
  OBVIOUS
<1>3. CASE CacheProposal
  <2>1. PICK key : key = ev.key
    OBVIOUS
  <2>2. ev.kind = "proposal" /\ key \in Keys /\ ev \in Msg
    <3>1. cacheEvents \in Seq(CacheMsg) /\ cacheEvents # <<>>
      BY <1>0, <1>3 DEF ChannelTypes, CacheProposal, CacheTake
    <3>2. ev \in CacheMsg
      BY <1>2, <3>1
    <3>3. ev.kind = "proposal"
      BY <1>0, <1>2, <1>3, CacheSchedHandled
    <3> QED
      BY <2>1, <3>2, <3>3, CacheFields DEF Msg
  <2>3. \A k : ev \in Proposed(k) <=> key = k
    BY <2>1, <2>2 DEF Proposed
  <2>4. ASSUME NEW msgs, Handled("cacheSched", "cache", msgs), NEW k \in Keys,
               NEW r \in {0, 1}, Count(Evs(msgs), Refused(k)) = r, NEW i \in {0, 1},
               IssuedFor(k)' = IssuedFor(k) + i, (IF key = k THEN 1 ELSE 0) = r + i
        PROVE  AskOf(k)'
    <3>1. \A n : /\ Asking(k, n)' = Asking(k, n)
                 /\ Proposals(k)' = Proposals(k) - (IF ev \in Proposed(k) THEN 1 ELSE 0)
                 /\ Refusals(k)' = Refusals(k) + r
      BY <1>0, <1>2, <2>4, HandledAsk
    <3>2. Proposals(k) \in Nat /\ Refusals(k) \in Nat /\ IssuedFor(k) \in Nat
      BY OutNat DEF AskInv
    <3>3. Proposals(k)' = Proposals(k) - (r + i)
      BY <2>3, <2>4, <3>1
    <3>4. Out(k)' = Out(k)
      BY <2>4, <3>1, <3>2, <3>3 DEF Out
    <3> QED
      BY <1>1, <3>1, <3>4
  <2>5. CASE /\ Issued # Uuids /\ allocKey' = [allocKey EXCEPT ![NextUuid] = key]
             /\ Handled("cacheSched", "cache", <<ToRM([kind |-> "allocated", uuid |-> NextUuid])>>)
    <3>1. /\ IsFiniteSet(Issued)'
          /\ \A k \in Keys : IssuedFor(k)' = IssuedFor(k) + (IF key = k THEN 1 ELSE 0)
      BY <1>0, <2>2, <2>5, IssueOne DEF AskInv
    <3>2. ASSUME NEW k \in Keys
          PROVE  AskOf(k)'
      <4>1. PICK e : e = ToRM([kind |-> "allocated", uuid |-> NextUuid])
        OBVIOUS
      <4>2. e.ev \notin Refused(k)
        BY <4>1, AskKinds DEF ToRM
      <4>3. PICK M : M = Refused(k)
        OBVIOUS
      <4>4. Count(Evs(<<e>>), M) = IF e.ev \in M THEN 1 ELSE 0
        BY PostedCount
      <4>5. Count(Evs(<<e>>), Refused(k)) = 0
        BY <4>2, <4>3, <4>4
      <4>6. PICK i \in {0, 1} : i = IF key = k THEN 1 ELSE 0
        OBVIOUS
      <4>7. IssuedFor(k)' = IssuedFor(k) + i /\ (IF key = k THEN 1 ELSE 0) = 0 + i
        BY <3>1, <4>6
      <4> QED
        BY <2>4, <2>5, <4>1, <4>5, <4>7
    <3> QED
      BY <3>1, <3>2 DEF AskInv
  <2>6. CASE /\ UNCHANGED allocKey
             /\ Handled("cacheSched", "cache", <<ToSched([kind |-> "rejected", key |-> key])>>)
    <3>1. ASSUME NEW k \in Keys
          PROVE  AskOf(k)'
      <4>1. PICK e : e = ToSched([kind |-> "rejected", key |-> key])
        OBVIOUS
      <4>2. e.ev \in Refused(k) <=> key = k
        BY <2>2, <4>1 DEF ToSched, Refused, Msg, SchedMsg
      <4>3. PICK M : M = Refused(k)
        OBVIOUS
      <4>4. Count(Evs(<<e>>), M) = IF e.ev \in M THEN 1 ELSE 0
        BY PostedCount
      <4>5. PICK r \in {0, 1} : r = IF key = k THEN 1 ELSE 0
        OBVIOUS
      <4>6. Count(Evs(<<e>>), Refused(k)) = r /\ (IF key = k THEN 1 ELSE 0) = r + 0
        BY <4>2, <4>3, <4>4, <4>5
      <4>7. IssuedFor(k)' = IssuedFor(k) + 0
        <5>1. IssuedFor(k) \in Nat
          BY OutNat DEF AskInv
        <5> QED
          BY <2>6, <5>1 DEF IssuedFor
      <4> QED
        BY <2>4, <2>6, <4>1, <4>6, <4>7
    <3> QED
      BY <2>6, <3>1 DEF AskInv, Issued
  <2> QED
    BY <1>0, <1>2, <1>3, <2>1, <2>5, <2>6, CacheSchedHandled
<1>4. CASE CacheRelease \/ CacheRemovedApp \/ CacheRejectedApp
  <2>1. UNCHANGED allocKey /\ ev.kind # "proposal"
    BY <1>0, <1>2, <1>4, CacheSchedHandled
  <2>2. \/ Handled("cacheSched", "cache", <<>>)
        \/ \E e : e.ev.kind = "released" /\ Handled("cacheSched", "cache", <<e>>)
    <3>1. \A R : ToRM([kind |-> "released", uuids |-> R]).ev.kind = "released"
      BY DEF ToRM
    <3>2. CacheRelease =>
            \/ Handled("cacheSched", "cache", <<>>)
            \/ \E R : Handled("cacheSched", "cache", <<ToRM([kind |-> "released", uuids |-> R])>>)
      BY <1>0, CacheSchedHandled
    <3>3. CacheRemovedApp =>
            \/ Handled("cacheSched", "cache", <<>>)
            \/ \E R : Handled("cacheSched", "cache", <<ToRM([kind |-> "released", uuids |-> R])>>)
      BY <1>0, CacheSchedHandled
    <3>4. CacheRejectedApp => Handled("cacheSched", "cache", <<>>)
      BY <1>0, CacheSchedHandled
    <3> QED
      BY <1>4, <3>1, <3>2, <3>3, <3>4
  <2>3. ASSUME NEW k \in Keys
        PROVE  AskOf(k)'
    <3>1. PICK M : M = Refused(k)
      OBVIOUS
    <3>2. Count(Evs(<<>>), M) = 0 /\ \A e : Count(Evs(<<e>>), M) = IF e.ev \in M THEN 1 ELSE 0
      BY PostedCount
    <3>3. \A e : e.ev.kind = "released" => e.ev \notin M
      BY <3>1, AskKinds
    <3>4. PICK msgs : Handled("cacheSched", "cache", msgs) /\ Count(Evs(msgs), Refused(k)) = 0
      BY <2>2, <3>1, <3>2, <3>3
    <3>5. \A n : /\ Asking(k, n)' = Asking(k, n)
                 /\ Proposals(k)' = Proposals(k) - (IF ev \in Proposed(k) THEN 1 ELSE 0)
                 /\ Refusals(k)' = Refusals(k) + 0
      BY <1>0, <1>2, <3>4, HandledAsk
    <3>6. Proposals(k) \in Nat /\ Refusals(k) \in Nat
      BY OutNat DEF AskInv
    <3>7. ev \notin Proposed(k)
      BY <2>1, AskKinds
    <3>8. Out(k)' = Out(k)
      BY <2>1, <3>5, <3>6, <3>7 DEF Out, IssuedFor
    <3> QED
      BY <1>1, <3>5, <3>8
  <2> QED
    BY <2>1, <2>3 DEF AskInv, Issued
<1> QED
  BY <1>3, <1>4 DEF CacheSched

(* Every step keeps AskInv while no key is asked for twice. *)
LEMMA AskStep ==
  ASSUME CoreInv, Routed, AskInv, "askAgain" \notin RmMay, 0 \notin Repeats, [CoreNext]_coreVars
  PROVE  AskInv'
<1>1. CASE \/ RM \/ RmReceive \/ Find \/ Place \/ Quiet \/ UNCHANGED coreVars
  BY <1>1, OtherAsks
<1>2. CASE \E t \in Threads : Send(t)
  BY <1>2, SendAsk
<1>3. CASE CacheRM
  BY <1>3, CacheRMAsk
<1>4. CASE SchedEvent
  BY <1>4, SchedEventAsk
<1>5. CASE CacheSched
  BY <1>5, CacheSchedAsk
<1>6. CASE Confirm
  BY <1>6, ConfirmAsk DEF Confirm
<1> QED
  BY <1>1, <1>2, <1>3, <1>4, <1>5, <1>6 DEF CoreNext

(* At first nothing is asked for and nothing is on its way. *)
LEMMA AskInit == CoreInit => AskInv
<1> SUFFICES ASSUME CoreInit
             PROVE  AskInv
  OBVIOUS
<1>1. /\ \A t \in Threads : outbox[t] = <<>>
      /\ cacheEvents = <<>> /\ schedEvents = <<>> /\ updates = {}
      /\ \A u \in Uuids : allocKey[u] = NoKey
      /\ \A k \in Keys : asks[k] = NoAsk
  BY DEF CoreInit
<1>2. Issued = {} /\ IsFiniteSet(Issued)
  <2>1. Issued = {}
    BY <1>1 DEF Issued
  <2> QED
    BY <2>1, FS_EmptySet
<1>3. ASSUME NEW k \in Keys
      PROVE  AskOf(k)
  <2>1. /\ Channel("sched") = <<>> /\ Channel("cache") = <<>>
        /\ \A t \in {"cacheRM", "schedule", "cacheSched"} : outbox[t] = <<>>
    BY <1>1 DEF Channel, Threads
  <2>2. \A M : /\ Flow("cacheRM", "sched", M) = 0 /\ Flow("schedule", "cache", M) = 0
               /\ Flow("cacheSched", "sched", M) = 0
    BY <2>1, CountShort, PostedCount DEF Flow
  <2>3. IssuedFor(k) = 0
    <3>1. { u \in Uuids : allocKey[u] = k } = {}
      BY <1>1, CoreAssumption
    <3> QED
      BY <3>1, FS_EmptySet DEF IssuedFor
  <2>4. Out(k) = 0 /\ \A n : Asking(k, n) = 0
    BY <2>2, <2>3 DEF Out, Proposals, Refusals, Asking
  <2>5. ~Known(k)
    BY <1>1 DEF Known
  <2> QED
    BY <1>1, <2>4, <2>5 DEF AskOf, Untouched
<1> QED
  BY <1>2, <1>3 DEF AskInv

(* The events of a kind for a key, and those of them under way. *)
Speaking(kind, k) == { ev \in Msg : ev.kind = kind /\ ev.key = k }
UnderWay(t, to, kind, k) == { x \in Transit(t, Channel(to), kind) : x[2].key = k }

(* Transit counts as Flow does. *)
LEMMA UnderWayCount ==
  ASSUME ChannelTypes, NEW t \in Threads, NEW to \in Ends, NEW kind, NEW k
  PROVE  Cardinality(UnderWay(t, to, kind, k)) = Flow(t, to, Speaking(kind, k))
<1>1. PICK M : M = Speaking(kind, k)
  OBVIOUS
<1>2. PICK c \in Seq(Msg), b \in Seq(Msg) : c = Channel(to) /\ b = Evs(outbox[t])
  BY FlowTypes
<1>3. c \o b \in Seq(Msg)
  BY <1>2
<1>4. PICK s : s \in Seq(Msg) /\ s = c \o b
  BY <1>3
<1>5. s = Lined(t, Channel(to))
  BY <1>2, <1>4 DEF Lined, Evs
<1> DEFINE T == { <<i, s[i]>> : i \in PlacesOf(s, M) }
<1>6. Cardinality(T) = Flow(t, to, M)
  BY <1>5, LinedCount, <1>1
<1>7. Transit(t, Channel(to), kind) = { <<i, s[i]>> : i \in { j \in DOMAIN s : s[j].kind = kind } }
  BY <1>5 DEF Transit, Lined
<1>8. \A i \in DOMAIN s : s[i] \in M <=> s[i].kind = kind /\ s[i].key = k
  BY <1>1, <1>4 DEF Speaking
<1>9. { x \in { <<i, s[i]>> : i \in { j \in DOMAIN s : s[j].kind = kind } } : x[2].key = k } = T
  BY <1>8 DEF PlacesOf
<1> QED
  BY <1>1, <1>6, <1>7, <1>9 DEF UnderWay

(* AskInv counts what AskConserved counts. *)
LEMMA AskImplies ==
  ASSUME FlowInv, AskInv
  PROVE  AskConserved
<1>0. /\ ChannelTypes
      /\ "schedule" \in Threads /\ "cacheSched" \in Threads /\ "sched" \in Ends /\ "cache" \in Ends
      /\ Channel("sched") = schedEvents /\ Channel("cache") = cacheEvents
  BY DEF FlowInv, CoreInv, Threads, Ends, Channel
<1>1. ASSUME NEW k \in Keys
      PROVE  InFlight(k) = Proposals(k) + Refusals(k)
  <2>1. /\ Cardinality(UnderWay("schedule", "cache", "proposal", k))
             = Flow("schedule", "cache", Speaking("proposal", k))
        /\ Cardinality(UnderWay("cacheSched", "sched", "rejected", k))
             = Flow("cacheSched", "sched", Speaking("rejected", k))
    BY <1>0, UnderWayCount
  <2>2. /\ UnderWay("schedule", "cache", "proposal", k)
             = { x \in Transit("schedule", cacheEvents, "proposal") : x[2].key = k }
        /\ UnderWay("cacheSched", "sched", "rejected", k)
             = { x \in Transit("cacheSched", schedEvents, "rejected") : x[2].key = k }
    BY <1>0 DEF UnderWay
  <2>3. Speaking("proposal", k) = Proposed(k) /\ Speaking("rejected", k) = Refused(k)
    BY DEF Speaking, Proposed, Refused
  <2> QED
    BY <2>1, <2>2, <2>3 DEF InFlight, Proposals, Refusals
<1>2. ASSUME NEW k \in Keys, Known(k)
      PROVE  asks[k].pending + InFlight(k) + IssuedFor(k) = asked[k]
  <2>1. asks[k].pending + Out(k) = asked[k]
    BY <1>2 DEF AskInv, AskOf
  <2>2. asks[k].pending \in Nat
    BY <1>2 DEF FlowInv, CoreInv, PendingInv, SchedTypes, Known, Ask
  <2>3. Proposals(k) \in Nat /\ Refusals(k) \in Nat /\ IssuedFor(k) \in Nat
    BY OutNat DEF AskInv, FlowInv
  <2> QED
    BY <1>1, <2>1, <2>2, <2>3 DEF Out
<1> QED
  BY <1>2 DEF AskConserved

(* As long as the RM asks once with a key and never for nothing: no unit   *)
(* of an ask is lost or served twice, however the goroutines of the cache  *)
(* and the scheduler interleave and whatever else the RM does.             *)
THEOREM AsksConserved ==
  ASSUME "askAgain" \notin RmMay, 0 \notin Repeats
  PROVE  CoreSpec => []AskConserved
<1> DEFINE Inv == FlowInv /\ AskInv
<1>1. CoreInit => Inv
  BY FlowInit, AskInit
<1>2. Inv /\ [CoreNext]_coreVars => Inv'
  <2>1. FlowInv /\ AskInv /\ [CoreNext]_coreVars => AskInv'
    BY AskStep DEF FlowInv
  <2> QED
    BY <2>1, FlowStep
<1>3. Inv => AskConserved
  BY AskImplies
<1> HIDE DEF Inv
<1> QED
  BY <1>1, <1>2, <1>3, PTL DEF CoreSpec
==============================================================================
