---------------------- MODULE SchedulerContractProofs ----------------------
(***************************************************************************)
(* What the cache and the resource manager can rely on as long as no       *)
(* application id is used twice.  PromiseInv follows an application from   *)
(* its submission on: nothing is planned, proposed or allocated for it     *)
(* before the scheduler has accepted it, and from then on only in the      *)
(* queue it runs in.  So every step of the core is a step of the partition *)
(* whose callers keep their promises (CacheContractKept), the allocations  *)
(* the resource manager hears of are the ones the cache holds              *)
(* (RmViewConsistent), and the accounts of such a partition are those of   *)
(* the core (AccountsKept).                                                *)
(***************************************************************************)
EXTENDS SchedulerCoreProofs

ProposedTo(app, q) == { ev \in Msg : ev.kind = "proposal" /\ ev.p.app = app /\ ev.p.queue = q }
Declined(app) == { ev \in Msg : ev.kind = "rejectedApp" /\ ev.app = app }

Arrivals(app) == Flow("cacheRM", "sched", Added(app))
Declines(app) == Flow("schedEvent", "cache", Declined(app))
Tenders(app, q) == Flow("schedule", "cache", ProposedTo(app, q))

Candidates == batch \cup { x.c : x \in placed }
Submits(u, app) == u.ev.kind = "addApp" /\ u.ev.app = app
Submitted(app) == \E u \in updates : Submits(u, app)
RunsIn(app, q) == appState[app] \notin {"New", "Rejected"} /\ leafQueue[app] = q

(* The scheduler has done nothing for the application yet. *)
Fresh(app) ==
  /\ ~Scheduled(app) /\ appAllocs[app] = {}
  /\ \A c \in Candidates : AppOf[c.key] # app
  /\ \A q \in Leaves : ~(Tenders(app, q) > 0)

(* From the submission of an application to its end. *)
AppContract(app) ==
  /\ rmApp[app] = "none" => ~Submitted(app)
  /\ rmApp[app] = "none" \/ Submitted(app) => Fresh(app) /\ app \notin apps
  /\ \A u, v \in updates : Submits(u, app) /\ Submits(v, app) => u = v
  /\ Arrivals(app) > 0 => Fresh(app) /\ appState[app] = "New"
  /\ Declines(app) > 0 => Fresh(app) /\ appState[app] = "Rejected"
  /\ Scheduled(app) => RunsIn(app, schedQueue[app])
  /\ app \in apps =>
       /\ \A c \in Candidates : AppOf[c.key] = app => RunsIn(app, c.queue)
       /\ \A q \in Leaves : Tenders(app, q) > 0 => RunsIn(app, q)

PromiseInv == reused \/ \A app \in Apps : AppContract(app)

(* OnePlace, as the proofs below use it. *)
Exclusive ==
  \A app \in Apps :
    /\ Arrivals(app) \in {0, 1}
    /\ Arrivals(app) > 0 => app \in apps /\ ~Scheduled(app) /\ ~(Declines(app) > 0)
    /\ Scheduled(app) => app \in apps /\ ~(Declines(app) > 0)
    /\ Declines(app) > 0 => app \in apps

-----------------------------------------------------------------------------
(* A larger set of events counts for at least as much. *)
LEMMA CountSubset ==
  ASSUME NEW S, NEW s \in Seq(S), NEW M, NEW N, M \subseteq N
  PROVE  Count(s, M) <= Count(s, N)
<1>1. PlacesOf(s, M) \subseteq PlacesOf(s, N)
  BY DEF PlacesOf
<1>2. IsFiniteSet(PlacesOf(s, N))
  BY CountType
<1> QED
  BY <1>1, <1>2, FS_Subset DEF Count

(* An application is in one place at most. *)
LEMMA FlowExclusive ==
  ASSUME FlowInv
  PROVE  Exclusive
<1>1. ChannelTypes /\ {"cacheRM", "schedEvent"} \subseteq Threads /\ {"sched", "cache"} \subseteq Ends
  BY DEF FlowInv, CoreInv, Threads, Ends
<1>2. ASSUME NEW app \in Apps
      PROVE  /\ Arrivals(app) \in {0, 1}
             /\ Arrivals(app) > 0 => app \in apps /\ ~Scheduled(app) /\ ~(Declines(app) > 0)
             /\ Scheduled(app) => app \in apps /\ ~(Declines(app) > 0)
             /\ Declines(app) > 0 => app \in apps
  <2>1. PICK D, G : D = Declined(app) /\ G = GivenUp(app)
    OBVIOUS
  <2>2. D \subseteq G
    BY <2>1 DEF Declined, GivenUp
  <2>3. PICK c \in Seq(Msg), b \in Seq(Msg) : c = Channel("cache") /\ b = Evs(outbox["schedEvent"])
    BY <1>1, FlowTypes
  <2>4. Count(c, D) <= Count(c, G) /\ Count(b, D) <= Count(b, G)
    BY <2>2, CountSubset
  <2>5. /\ Count(c, D) \in Nat /\ Count(b, D) \in Nat /\ Count(c, G) \in Nat /\ Count(b, G) \in Nat
        /\ Arrivals(app) \in Nat
    BY <1>1, CountType, FlowNat DEF Arrivals
  <2>6. /\ Declines(app) = Count(c, D) + Count(b, D)
        /\ Flow("schedEvent", "cache", GivenUp(app)) = Count(c, G) + Count(b, G)
    BY <2>1, <2>3 DEF Declines, Flow
  <2>7. Arrivals(app) + (IF Scheduled(app) THEN 1 ELSE 0) + Flow("schedEvent", "cache", GivenUp(app))
          = IF app \in apps THEN 1 ELSE 0
    BY DEF FlowInv, OnePlace, Holders, Arrivals
  <2>8. PICK gc \in Nat, gb \in Nat, dc \in Nat, db \in Nat, ar \in Nat :
          /\ gc = Count(c, G) /\ gb = Count(b, G) /\ dc = Count(c, D) /\ db = Count(b, D)
          /\ ar = Arrivals(app)
    BY <2>5
  <2>9. dc <= gc /\ db <= gb /\ Declines(app) = dc + db
    BY <2>4, <2>6, <2>8
  <2>10. ar + (IF Scheduled(app) THEN 1 ELSE 0) + (gc + gb) = IF app \in apps THEN 1 ELSE 0
    BY <2>6, <2>7, <2>8
  <2>11. /\ app \in apps /\ Scheduled(app) => ar = 0 /\ dc + db = 0
         /\ app \in apps /\ ~Scheduled(app) => ar \in {0, 1} /\ (ar > 0 => dc + db = 0)
         /\ app \notin apps => ~Scheduled(app) /\ ar = 0 /\ dc + db = 0
    <3>1. PICK n \in {0, 1}, m \in {0, 1} : /\ n = IF Scheduled(app) THEN 1 ELSE 0
                                          /\ m = IF app \in apps THEN 1 ELSE 0
      OBVIOUS
    <3>2. ar + n + (gc + gb) = m /\ dc <= gc /\ db <= gb
      BY <2>9, <2>10, <3>1
    <3>3. /\ n = 1 /\ m = 1 => ar = 0 /\ dc + db = 0
          /\ n = 0 /\ m = 1 => ar \in {0, 1} /\ (ar > 0 => dc + db = 0)
          /\ m = 0 => n = 0 /\ ar = 0 /\ dc + db = 0
      BY <3>2
    <3> QED
      BY <3>1, <3>3
  <2> QED
    BY <2>8, <2>9, <2>11
<1> QED
  BY <1>2 DEF Exclusive

(* Which events are in the sets: kinds, application and queue tell. *)
LEMMA ContractKinds ==
  ASSUME NEW app, NEW q
  PROVE  /\ \A ev : ev.kind # "rejectedApp" => ev \notin Declined(app)
         /\ \A ev : ev.kind # "proposal" => ev \notin ProposedTo(app, q)
         /\ Added(app)' = Added(app) /\ Declined(app)' = Declined(app)
         /\ ProposedTo(app, q)' = ProposedTo(app, q)
BY DEF Added, Declined, ProposedTo, Msg

(* Handing over an event changes none of the flows. *)
LEMMA SendTenders ==
  ASSUME ChannelTypes, Routed, NEW s \in Threads, Send(s), NEW app, NEW q
  PROVE  /\ Arrivals(app)' = Arrivals(app) /\ Declines(app)' = Declines(app)
         /\ Tenders(app, q)' = Tenders(app, q)
<1>1. /\ OwnRoute("cacheRM", "sched", {"addApp"}) /\ OwnRoute("schedEvent", "cache", {"rejectedApp"})
      /\ OwnRoute("schedule", "cache", {"proposal"})
      /\ {"cacheRM", "schedEvent", "schedule"} \subseteq Threads /\ {"sched", "cache"} \subseteq Ends
  BY DEF OwnRoute, Routes, Threads, Ends
<1>2. PICK A, D, P : A = Added(app) /\ D = Declined(app) /\ P = ProposedTo(app, q)
  OBVIOUS
<1>3. /\ \A ev \in A : ev.kind \in {"addApp"}
      /\ \A ev \in D : ev.kind \in {"rejectedApp"}
      /\ \A ev \in P : ev.kind \in {"proposal"}
  BY <1>2 DEF Added, Declined, ProposedTo
<1>4. Flow("cacheRM", "sched", A)' = Flow("cacheRM", "sched", A)
  BY <1>1, <1>3, SendFlow
<1>5. Flow("schedEvent", "cache", D)' = Flow("schedEvent", "cache", D)
  BY <1>1, <1>3, SendFlow
<1>6. Flow("schedule", "cache", P)' = Flow("schedule", "cache", P)
  BY <1>1, <1>3, SendFlow
<1> QED
  BY <1>2, <1>4, <1>5, <1>6, ContractKinds DEF Arrivals, Declines, Tenders

(* What a handler does to the flows. *)
LEMMA HandledTenders ==
  ASSUME ChannelTypes, NEW s \in Threads, NEW from, NEW msgs, Handled(s, from, msgs),
         NEW app, NEW q
  PROVE  /\ Arrivals(app) \in Nat /\ Declines(app) \in Nat /\ Tenders(app, q) \in Nat
         /\ s = "cacheRM" /\ from = "none" =>
              /\ Arrivals(app)' = Arrivals(app) + Count(Evs(msgs), Added(app))
              /\ Declines(app)' = Declines(app) /\ Tenders(app, q)' = Tenders(app, q)
         /\ s = "schedEvent" /\ from = "sched" =>
              /\ Arrivals(app)' = Arrivals(app) - (IF Head(schedEvents) \in Added(app) THEN 1 ELSE 0)
              /\ Declines(app)' = Declines(app) + Count(Evs(msgs), Declined(app))
              /\ Tenders(app, q)' = Tenders(app, q)
         /\ s = "cacheSched" /\ from = "cache" =>
              /\ Arrivals(app)' = Arrivals(app)
              /\ Declines(app)' = Declines(app) - (IF Head(cacheEvents) \in Declined(app) THEN 1 ELSE 0)
              /\ Tenders(app, q)' = Tenders(app, q)
                                    - (IF Head(cacheEvents) \in ProposedTo(app, q) THEN 1 ELSE 0)
         /\ s = "schedule" /\ from = "none" =>
              /\ Arrivals(app)' = Arrivals(app) /\ Declines(app)' = Declines(app)
              /\ Tenders(app, q)' = Tenders(app, q) + Count(Evs(msgs), ProposedTo(app, q))
<1>1. /\ {"cacheRM", "schedEvent", "schedule"} \subseteq Threads /\ "sched" \in Ends /\ "cache" \in Ends
      /\ Channel("sched") = schedEvents /\ Channel("cache") = cacheEvents
      /\ "none" # "sched" /\ "none" # "cache"
  BY DEF Threads, Ends, Channel
<1>2. PICK A, D, P : A = Added(app) /\ D = Declined(app) /\ P = ProposedTo(app, q)
  OBVIOUS
<1>3. Added(app)' = A /\ Declined(app)' = D /\ ProposedTo(app, q)' = P
  BY <1>2, ContractKinds
<1>4. /\ "cacheRM" # s /\ "sched" # from =>
           Flow("cacheRM", "sched", A)' = Flow("cacheRM", "sched", A)
      /\ "cacheRM" # s /\ "sched" = from =>
           Flow("cacheRM", "sched", A)'
             = Flow("cacheRM", "sched", A) - (IF Head(Channel("sched")) \in A THEN 1 ELSE 0)
      /\ "cacheRM" = s /\ "sched" # from =>
           Flow("cacheRM", "sched", A)' = Flow("cacheRM", "sched", A) + Count(Evs(msgs), A)
  BY <1>1, HandledFlow
<1>5. /\ "schedEvent" # s /\ "cache" # from =>
           Flow("schedEvent", "cache", D)' = Flow("schedEvent", "cache", D)
      /\ "schedEvent" # s /\ "cache" = from =>
           Flow("schedEvent", "cache", D)'
             = Flow("schedEvent", "cache", D) - (IF Head(Channel("cache")) \in D THEN 1 ELSE 0)
      /\ "schedEvent" = s /\ "cache" # from =>
           Flow("schedEvent", "cache", D)' = Flow("schedEvent", "cache", D) + Count(Evs(msgs), D)
  BY <1>1, HandledFlow
<1>6. /\ "schedule" # s /\ "cache" # from =>
           Flow("schedule", "cache", P)' = Flow("schedule", "cache", P)
      /\ "schedule" # s /\ "cache" = from =>
           Flow("schedule", "cache", P)'
             = Flow("schedule", "cache", P) - (IF Head(Channel("cache")) \in P THEN 1 ELSE 0)
      /\ "schedule" = s /\ "cache" # from =>
           Flow("schedule", "cache", P)' = Flow("schedule", "cache", P) + Count(Evs(msgs), P)
  BY <1>1, HandledFlow
<1>7. /\ Flow("cacheRM", "sched", A) \in Nat /\ Flow("schedEvent", "cache", D) \in Nat
      /\ Flow("schedule", "cache", P) \in Nat
  BY <1>1, FlowNat
<1>8. /\ Arrivals(app) = Flow("cacheRM", "sched", A) /\ Arrivals(app)' = Flow("cacheRM", "sched", A)'
      /\ Declines(app) = Flow("schedEvent", "cache", D)
      /\ Declines(app)' = Flow("schedEvent", "cache", D)'
      /\ Tenders(app, q) = Flow("schedule", "cache", P)
      /\ Tenders(app, q)' = Flow("schedule", "cache", P)'
  BY <1>2, <1>3 DEF Arrivals, Declines, Tenders
<1> QED
  BY <1>1, <1>2, <1>4, <1>5, <1>6, <1>7, <1>8

(* Steps that leave the channels between cache and scheduler alone. *)
LEMMA SameTenders ==
  ASSUME UNCHANGED <<cacheEvents, schedEvents, outbox>>
  PROVE  \A app, q : /\ Arrivals(app)' = Arrivals(app) /\ Declines(app)' = Declines(app)
                     /\ Tenders(app, q)' = Tenders(app, q)
<1>1. \A t, M : /\ Flow(t, "sched", M)' = Flow(t, "sched", M)
                /\ Flow(t, "cache", M)' = Flow(t, "cache", M)
  BY DEF Flow, Channel
<1> QED
  BY <1>1, ContractKinds DEF Arrivals, Declines, Tenders

-----------------------------------------------------------------------------
(* The steps keep PromiseInv.                                              *)

(* Planned or proposed only where the application runs. *)
Backed(app, q) == ~Fresh(app) /\ (app \in apps => RunsIn(app, q))

(* The state of an application and its queue stay, except that an accepted *)
(* application may run, and one that was there may go.                     *)
Settled(app) ==
  app \in apps' => /\ app \in apps /\ leafQueue'[app] = leafQueue[app]
                   /\ \/ appState'[app] = appState[app]
                      \/ /\ appState[app] \notin {"New", "Rejected"}
                         /\ appState'[app] \notin {"New", "Rejected"}

(* What is planned and proposed already is backed. *)
LEMMA BackedNow ==
  ASSUME NEW app \in Apps, AppContract(app)
  PROVE  /\ \A c \in Candidates : AppOf[c.key] = app => Backed(app, c.queue)
         /\ \A q \in Leaves : Tenders(app, q) > 0 => Backed(app, q)
BY DEF AppContract, Fresh, Backed

(* A step after which the application stands as before, or has gone. *)
LEMMA ContractSame ==
  ASSUME NEW app \in Apps, AppContract(app), Exclusive', Settled(app),
         rmApp'[app] = "none" => rmApp[app] = "none",
         \A u \in updates' : Submits(u, app) => u \in updates,
         Arrivals(app)' > 0 => Arrivals(app) > 0,
         Declines(app)' > 0 => Declines(app) > 0,
         Scheduled(app)' => schedQueue'[app] = schedQueue[app],
         Fresh(app) => appAllocs'[app] = {},
         \A c \in Candidates' : AppOf[c.key] = app => Backed(app, c.queue),
         \A q \in Leaves : Tenders(app, q)' > 0 => Backed(app, q)
  PROVE  AppContract(app)'
<1>1. Scheduled(app)' => Scheduled(app)
  BY DEF Scheduled
<1>2. Fresh(app) => Fresh(app)'
  BY <1>1 DEF Fresh, Backed
<1>3. Submitted(app)' => Submitted(app)
  BY DEF Submitted, Submits
<1>4. app \in apps' => \A q : RunsIn(app, q) => RunsIn(app, q)'
  BY DEF Settled, RunsIn
<1>5. /\ Arrivals(app)' > 0 => app \in apps'
      /\ Scheduled(app)' => app \in apps'
      /\ Declines(app)' > 0 => app \in apps'
  BY DEF Exclusive
<1>6. /\ rmApp'[app] = "none" => ~Submitted(app)'
      /\ rmApp'[app] = "none" \/ Submitted(app)' => Fresh(app)' /\ app \notin apps'
  BY <1>2, <1>3 DEF AppContract, Settled
<1>7. \A u, v \in updates' : Submits(u, app)' /\ Submits(v, app)' => u = v
  BY DEF AppContract, Submits
<1>8. /\ Arrivals(app)' > 0 => Fresh(app)' /\ appState'[app] = "New"
      /\ Declines(app)' > 0 => Fresh(app)' /\ appState'[app] = "Rejected"
  BY <1>2, <1>5 DEF AppContract, Settled
<1>9. Scheduled(app)' => RunsIn(app, schedQueue[app])'
  BY <1>1, <1>4, <1>5 DEF AppContract, RunsIn
<1>10. app \in apps' => /\ \A c \in Candidates' : AppOf[c.key] = app => RunsIn(app, c.queue)'
                        /\ \A q \in Leaves : Tenders(app, q)' > 0 => RunsIn(app, q)'
  BY <1>4 DEF Backed, Settled
<1> QED
  BY <1>6, <1>7, <1>8, <1>9, <1>10 DEF AppContract

(* A step that does not touch the application at all. *)
LEMMA ContractUntouched ==
  ASSUME NEW app \in Apps, AppContract(app), Exclusive',
         UNCHANGED <<vars, schedQueue>>, Candidates' \subseteq Candidates,
         rmApp'[app] = "none" => rmApp[app] = "none",
         \A u \in updates' : Submits(u, app) => u \in updates,
         Arrivals(app)' = Arrivals(app), Declines(app)' = Declines(app),
         \A q \in Leaves : Tenders(app, q)' = Tenders(app, q)
  PROVE  AppContract(app)'
<1>1. Settled(app)
  BY DEF Settled, vars, appVars
<1>2. /\ \A c \in Candidates' : AppOf[c.key] = app => Backed(app, c.queue)
      /\ \A q \in Leaves : Tenders(app, q)' > 0 => Backed(app, q)
  BY BackedNow
<1>3. Fresh(app) => appAllocs'[app] = {}
  BY DEF Fresh, vars, appVars
<1> QED
  BY <1>1, <1>2, <1>3, ContractSame

(* The steps that are no handler's. *)
LEMMA OtherPromise ==
  ASSUME CoreInv, PromiseInv, Exclusive, Exclusive',
         \/ RM \/ RmReceive \/ Find \/ Place \/ Quiet \/ UNCHANGED coreVars
  PROVE  PromiseInv'
<1>1. UNCHANGED <<vars, schedVars, cacheEvents, schedEvents, outbox, allocKey>>
  BY OtherSteps
<1>2. \A app, q : /\ Arrivals(app)' = Arrivals(app) /\ Declines(app)' = Declines(app)
                  /\ Tenders(app, q)' = Tenders(app, q)
  BY <1>1, SameTenders
<1>3. schedQueue' = schedQueue /\ appAllocs' = appAllocs /\ apps' = apps
  BY <1>1 DEF schedVars, vars, appVars
<1>4. ASSUME ~reused'
      PROVE  ~reused /\ \A app \in Apps : AppContract(app)
  <2>1. ~reused
    <3>1. RM => (reused => reused')
      BY DEF RM, RmSubmit, RmRemoveApp, RmAsk, RmRelease
    <3>2. RmReceive \/ Find \/ Place \/ Quiet \/ UNCHANGED coreVars => reused' = reused
      BY DEF RmReceive, Find, FindAllocationAsks, Place, TryBatchAllocation, Quiet, coreVars, rmVars
    <3> QED
      BY <1>4, <3>1, <3>2
  <2> QED
    BY <2>1 DEF PromiseInv
<1>5. CASE Find
  <2> SUFFICES ASSUME ~reused', NEW app \in Apps
               PROVE  AppContract(app)'
    BY DEF PromiseInv
  <2>1. PICK count \in Counts : FindAllocationAsks(count)
    BY <1>5 DEF Find
  <2>2. batch' = Picked(count) /\ placed' = placed /\ UNCHANGED <<updates, rmApp>> /\ MayPick(count)
    BY <2>1 DEF FindAllocationAsks, channels, rmVars
  <2>3. AppContract(app)
    BY <1>4
  <2>4. ASSUME NEW c \in Candidates', AppOf[c.key] = app
        PROVE  Backed(app, c.queue)
    <3>1. CASE c \in Candidates
      BY <2>3, <2>4, <3>1, BackedNow
    <3>2. CASE c \in Picked(count)
      <4>1. PICK k \in Keys : \E i \in 1 .. count[k] :
              c = [key |-> k, queue |-> schedQueue[AppOf[k]], res |-> asks[k].res, i |-> i]
        BY <3>2 DEF Picked
      <4>2. count[k] > 0
        <5>1. count[k] \in Int /\ \E i \in 1 .. count[k] : TRUE
          BY <4>1, CoreAssumption DEF Counts
        <5> QED
          BY <5>1
      <4>3. Known(k) /\ AppOf[k] = app /\ c.queue = schedQueue[app]
        BY <2>2, <2>4, <4>1, <4>2 DEF MayPick
      <4>4. Scheduled(app)
        BY <4>3 DEF CoreInv, PendingInv, AsksScheduled
      <4> QED
        BY <2>3, <4>3, <4>4 DEF AppContract, Backed, Fresh
    <3> QED
      BY <2>2, <3>1, <3>2 DEF Candidates
  <2>5. Settled(app)
    BY <1>1 DEF Settled, vars, appVars
  <2>6. \A q \in Leaves : Tenders(app, q)' > 0 => Backed(app, q)
    BY <1>2, <2>3, BackedNow
  <2>7. Fresh(app) => appAllocs'[app] = {}
    BY <1>3 DEF Fresh
  <2> QED
    BY <1>2, <1>3, <2>2, <2>3, <2>4, <2>5, <2>6, <2>7, ContractSame
<1>6. ASSUME NEW app \in Apps, ~reused', Candidates' \subseteq Candidates,
             rmApp'[app] = "none" => rmApp[app] = "none",
             \A u \in updates' : Submits(u, app) => u \in updates
      PROVE  AppContract(app)'
  BY <1>1, <1>2, <1>3, <1>4, <1>6, ContractUntouched
<1>7. CASE RmReceive \/ Place \/ Quiet \/ UNCHANGED coreVars
  <2>1. Candidates' \subseteq Candidates
    <3>1. CASE Place
      <4>1. PICK P \in Placements(batch) : placed' = P /\ batch' = {}
        BY <3>1 DEF Place, TryBatchAllocation
      <4>2. \A x \in P : x.c \in batch
        BY <4>1 DEF Placements
      <4> QED
        BY <4>1, <4>2 DEF Candidates
    <3>2. CASE RmReceive \/ Quiet \/ UNCHANGED coreVars
      BY <3>2 DEF RmReceive, Quiet, coreVars, roundVars, Candidates
    <3> QED
      BY <1>7, <3>1, <3>2
  <2>2. updates' = updates /\ \A app \in Apps : rmApp'[app] = "none" => rmApp[app] = "none"
    <3>1. CASE RmReceive
      BY <3>1 DEF RmReceive, CoreInv, RmTypes
    <3>2. CASE Place \/ Quiet \/ UNCHANGED coreVars
      BY <3>2 DEF Place, TryBatchAllocation, Quiet, coreVars, channels, rmVars
    <3> QED
      BY <1>7, <3>1, <3>2
  <2> QED
    BY <1>6, <2>1, <2>2 DEF PromiseInv
<1>8. CASE RM
  <2>1. Candidates' = Candidates
    BY <1>8 DEF RM, RmSubmit, RmRemoveApp, RmAsk, RmRelease, RmSend, roundVars, Candidates
  <2>2. CASE \/ \E app \in Apps : RmRemoveApp(app)
             \/ \E k \in Keys, r \in Sizes, n \in Repeats : RmAsk(k, r, n)
             \/ \E app \in Apps, k \in Keys \cup {NoKey, AllKeys}, u \in Uuids \cup {NoUuid, AllUuids} :
                  RmRelease(app, k, u)
    <3>1. PICK msg : /\ msg.kind # "addApp" /\ RmSend(msg)
                     /\ \A app \in Apps : rmApp'[app] = "none" => rmApp[app] = "none"
      BY <2>2 DEF RmRemoveApp, RmAsk, RmRelease, Release, CoreInv, RmTypes
    <3>2. \A u \in updates' : \A app \in Apps : Submits(u, app) => u \in updates
      BY <3>1 DEF RmSend, Submits
    <3> QED
      BY <1>6, <2>1, <3>1, <3>2 DEF PromiseInv
  <2>3. CASE \E app \in Apps, q \in QueueNames : RmSubmit(app, q)
    <3> SUFFICES ASSUME ~reused'
                 PROVE  \A app \in Apps : AppContract(app)'
      BY DEF PromiseInv
    <3>1. PICK app \in Apps, q \in QueueNames : RmSubmit(app, q)
      BY <2>3
    <3>2. PICK new : /\ updates' = updates \cup {new} /\ Submits(new, app)
                     /\ \A b \in Apps : Submits(new, b) => b = app
      <4> DEFINE msg == [kind |-> "addApp", app |-> app, queue |-> q]
                 new == [id |-> sent, ev |-> msg]
      <4>1. updates' = updates \cup {new}
        BY <3>1 DEF RmSubmit, RmSend
      <4>2. new.ev.kind = "addApp" /\ new.ev.app = app
        OBVIOUS
      <4> HIDE DEF new
      <4> QED
        BY <4>1, <4>2 DEF Submits
    <3>3. rmApp[app] = "none" /\ rmApp' = [rmApp EXCEPT ![app] = "submitted"]
      BY <3>1 DEF RmSubmit
    <3>4. rmApp \in [Apps -> {"none", "submitted", "accepted", "rejected", "removed"}]
      BY DEF CoreInv, RmTypes
    <3>5. ASSUME NEW b \in Apps, b # app
          PROVE  AppContract(b)'
      <4>1. \A u \in updates' : Submits(u, b) => u \in updates
        BY <3>2, <3>5
      <4>2. rmApp'[b] = rmApp[b]
        BY <3>3, <3>4, <3>5
      <4> QED
        BY <1>6, <2>1, <4>1, <4>2
    <3>6. AppContract(app)'
      <4>1. AppContract(app)
        BY <1>4
      <4>2. Fresh(app) /\ app \notin apps /\ ~Submitted(app)
        BY <3>3, <4>1 DEF AppContract
      <4>3. Fresh(app)'
        BY <1>2, <1>3, <2>1, <4>2 DEF Fresh, Scheduled
      <4>4. \A u, v \in updates' : Submits(u, app)' /\ Submits(v, app)' => u = v
        BY <3>2, <4>2 DEF Submitted, Submits
      <4>5. rmApp'[app] # "none"
        BY <3>3, <3>4
      <4>6. ~(Arrivals(app)' > 0) /\ ~(Declines(app)' > 0) /\ ~Scheduled(app)'
        BY <1>3, <4>2 DEF Exclusive
      <4> QED
        BY <1>3, <4>2, <4>3, <4>4, <4>5, <4>6 DEF AppContract
    <3> QED
      BY <3>5, <3>6
  <2> QED
    BY <1>8, <2>2, <2>3 DEF RM
<1> QED
  BY <1>5, <1>7, <1>8

(* Handing over an event. *)
LEMMA SendPromise ==
  ASSUME CoreInv, Routed, PromiseInv, Exclusive', NEW s \in Threads, Send(s)
  PROVE  PromiseInv'
<1>1. UNCHANGED <<vars, schedVars, roundVars, updates, rmVars>>
  BY DEF Send
<1>2. \A app, q :
        /\ Arrivals(app)' = Arrivals(app) /\ Declines(app)' = Declines(app)
        /\ Tenders(app, q)' = Tenders(app, q)
  BY SendTenders DEF CoreInv
<1>3. /\ schedQueue' = schedQueue /\ Candidates' = Candidates /\ rmApp' = rmApp /\ reused' = reused
      /\ updates' = updates
  BY <1>1 DEF schedVars, roundVars, rmVars, Candidates
<1>4. ASSUME NEW app \in Apps, AppContract(app)
      PROVE  AppContract(app)'
  <2>1. UNCHANGED <<vars, schedQueue>> /\ Candidates' \subseteq Candidates
    BY <1>1, <1>3
  <2>2. /\ rmApp'[app] = "none" => rmApp[app] = "none"
        /\ \A u \in updates' : Submits(u, app) => u \in updates
    BY <1>3
  <2>3. /\ Arrivals(app)' = Arrivals(app) /\ Declines(app)' = Declines(app)
        /\ \A q \in Leaves : Tenders(app, q)' = Tenders(app, q)
    BY <1>2
  <2> QED
    BY <1>4, <2>1, <2>2, <2>3, ContractUntouched
<1> QED
  BY <1>3, <1>4 DEF PromiseInv

(* A proposal comes from a candidate. *)
LEMMA ConfirmPromise ==
  ASSUME CoreInv, PromiseInv, Exclusive', NEW x \in placed, ConfirmAllocation(x)
  PROVE  PromiseInv'
<1> DEFINE k == x.c.key
           p == [app |-> AppOf[k], node |-> x.node, queue |-> x.c.queue, res |-> x.c.res]
           e == ToCache([kind |-> "proposal", key |-> k, p |-> p])
<1>0. ChannelTypes /\ "schedule" \in Threads
  BY DEF CoreInv, Threads
<1>1. /\ UNCHANGED <<vars, schedQueue>>
      /\ Handled("schedule", "none", <<e>>) \/ Handled("schedule", "none", <<>>)
  BY <1>0, ConfirmHandled
<1>2. UNCHANGED <<batch, updates, rmApp, reused>> /\ placed' = placed \ {x}
  BY DEF ConfirmAllocation, rmVars
<1>3. Candidates' \subseteq Candidates /\ x.c \in Candidates
  BY <1>2 DEF Candidates
<1>4. \A app, q : e.ev \in ProposedTo(app, q) => app = AppOf[x.c.key] /\ q = x.c.queue
  BY DEF ProposedTo, ToCache
<1>5. UNCHANGED <<schedQueue, appAllocs, apps, appState, leafQueue>>
  BY <1>1 DEF vars, appVars
<1> HIDE DEF e, p, k
<1>6. ASSUME NEW app \in Apps, AppContract(app)
      PROVE  AppContract(app)'
  <2>1. Arrivals(app)' = Arrivals(app) /\ Declines(app)' = Declines(app)
    BY <1>0, <1>1, HandledTenders
  <2>2. ASSUME NEW q \in Leaves, Tenders(app, q)' > 0
        PROVE  Backed(app, q)
    <3>1. PICK M : M = ProposedTo(app, q)
      OBVIOUS
    <3>2. Count(Evs(<<>>), M) = 0 /\ Count(Evs(<<e>>), M) = IF e.ev \in M THEN 1 ELSE 0
      BY PostedCount
    <3>3. /\ Tenders(app, q) \in Nat
          /\ \/ Tenders(app, q)' = Tenders(app, q) + Count(Evs(<<e>>), M)
             \/ Tenders(app, q)' = Tenders(app, q) + Count(Evs(<<>>), M)
      BY <1>0, <1>1, <3>1, HandledTenders
    <3>4. Tenders(app, q) > 0 \/ e.ev \in M
      BY <2>2, <3>2, <3>3
    <3>5. CASE Tenders(app, q) > 0
      BY <1>6, <3>5, BackedNow
    <3>6. CASE e.ev \in M
      <4>1. app = AppOf[x.c.key] /\ q = x.c.queue
        BY <1>4, <3>1, <3>6
      <4> QED
        BY <1>3, <1>6, <4>1, BackedNow
    <3> QED
      BY <3>4, <3>5, <3>6
  <2>3. \A c \in Candidates' : AppOf[c.key] = app => Backed(app, c.queue)
    BY <1>3, <1>6, BackedNow
  <2>4. Settled(app) /\ (Fresh(app) => appAllocs'[app] = {})
    BY <1>5 DEF Settled, Fresh
  <2> QED
    BY <1>2, <1>5, <1>6, <2>1, <2>2, <2>3, <2>4, ContractSame
<1> QED
  BY <1>2, <1>6 DEF PromiseInv

(* The cache takes an update of the resource manager. *)
LEMMA CacheRMPromise ==
  ASSUME CoreInv, PromiseInv, Exclusive, Exclusive', CacheRM
  PROVE  PromiseInv'
<1>0. ChannelTypes /\ "cacheRM" \in Threads
  BY DEF CoreInv, Threads
<1>1. PICK u \in updates : CacheAddApp(u) \/ CacheAsk(u) \/ CachePassOn(u)
  BY DEF CacheRM
<1>2. updates' = updates \ {u} /\ UNCHANGED <<schedQueue, roundVars, rmApp, reused>>
  BY <1>1 DEF CacheAddApp, CacheAsk, CachePassOn, CacheRMTake, schedVars, rmVars
<1>3. Candidates' = Candidates
  BY <1>2 DEF roundVars, Candidates
<1>4. u.ev \in UpdateMsg
  BY <1>0 DEF ChannelTypes
<1>5. SUFFICES ASSUME \A app \in Apps : AppContract(app)
               PROVE  \A app \in Apps : AppContract(app)'
  BY <1>2 DEF PromiseInv
<1>6. PICK msgs : /\ Handled("cacheRM", "none", msgs)
                  /\ \A app \in Apps : \/ Count(Evs(msgs), Added(app)) = 0
                                       \/ /\ CacheAddApp(u) /\ u.ev.app = app
                                          /\ AddNewApplication(u.ev.app, u.ev.queue)
  <2> DEFINE on == ToSched([kind |-> "addApp", app |-> u.ev.app])
             no == ToRM([kind |-> "rejected", app |-> u.ev.app])
             noAsk == ToRM([kind |-> "rejectedAsk", key |-> u.ev.key])
  <2>1. /\ \A app : no.ev \notin Added(app) /\ noAsk.ev \notin Added(app)
        /\ \A app : on.ev \in Added(app) => app = u.ev.app
        /\ (CacheAsk(u) \/ CachePassOn(u)) => \A app : ToSched(u.ev).ev \notin Added(app)
    BY DEF ToSched, ToRM, Added, CacheAsk, CachePassOn
  <2>2. CacheAddApp(u) => \/ AddNewApplication(u.ev.app, u.ev.queue) /\ Handled("cacheRM", "none", <<on>>)
                          \/ Handled("cacheRM", "none", <<no>>)
    BY <1>0, CacheRMHandled
  <2>3. CacheAsk(u) => \/ Handled("cacheRM", "none", <<ToSched(u.ev)>>)
                       \/ Handled("cacheRM", "none", <<noAsk, ToSched(u.ev)>>)
    BY <1>0, CacheRMHandled
  <2>4. CachePassOn(u) => Handled("cacheRM", "none", <<ToSched(u.ev)>>)
    BY <1>0, CacheRMHandled
  <2>5. CacheAsk(u) => noAsk.ev \in Msg /\ ToSched(u.ev).ev \in Msg
    BY <1>4, UpdateFields DEF CacheAsk, ToRM, ToSched, Msg, RmMsg
  <2> HIDE DEF on, no, noAsk
  <2>6. /\ \A M, e : e.ev \notin M => Count(Evs(<<e>>), M) = 0
        /\ \A M, e, f : e.ev \in Msg \ M /\ f.ev \in Msg \ M => Count(Evs(<<e, f>>), M) = 0
    <3>1. ASSUME NEW M, NEW e, e.ev \notin M
          PROVE  Count(Evs(<<e>>), M) = 0
      BY <3>1, PostedCount
    <3>2. ASSUME NEW M, NEW e, NEW f, e.ev \in Msg \ M, f.ev \in Msg \ M
          PROVE  Count(Evs(<<e, f>>), M) = 0
      <4>1. Count(Evs(<<e, f>>), M) = (IF e.ev \in M THEN 1 ELSE 0) + (IF f.ev \in M THEN 1 ELSE 0)
        BY <3>2, PostedCount
      <4> QED
        BY <3>2, <4>1
    <3> QED
      BY <3>1, <3>2
  <2>7. CASE CacheAddApp(u)
    <3>1. CASE AddNewApplication(u.ev.app, u.ev.queue) /\ Handled("cacheRM", "none", <<on>>)
      <4>1. \A app : Count(Evs(<<on>>), Added(app)) = 0 \/ app = u.ev.app
        BY <2>1, <2>6
      <4> QED
        BY <2>7, <3>1, <4>1
    <3>2. CASE Handled("cacheRM", "none", <<no>>)
      <4>1. \A app : Count(Evs(<<no>>), Added(app)) = 0
        BY <2>1, <2>6
      <4> QED
        BY <3>2, <4>1
    <3> QED
      BY <2>2, <2>7, <3>1, <3>2
  <2>8. CASE CacheAsk(u)
    <3>1. \A app : Count(Evs(<<ToSched(u.ev)>>), Added(app)) = 0
      BY <2>1, <2>6, <2>8
    <3>2. \A app : Count(Evs(<<noAsk, ToSched(u.ev)>>), Added(app)) = 0
      BY <2>1, <2>5, <2>6, <2>8
    <3> QED
      BY <2>3, <2>8, <3>1, <3>2
  <2>9. CASE CachePassOn(u)
    <3>1. \A app : Count(Evs(<<ToSched(u.ev)>>), Added(app)) = 0
      BY <2>1, <2>6, <2>9
    <3> QED
      BY <2>4, <2>9, <3>1
  <2> QED
    BY <1>1, <2>7, <2>8, <2>9
<1>7. ASSUME NEW app \in Apps
      PROVE  /\ Declines(app)' = Declines(app)
             /\ \A q : Tenders(app, q)' = Tenders(app, q)
             /\ Arrivals(app)' = Arrivals(app) + Count(Evs(msgs), Added(app))
             /\ Arrivals(app) \in Nat
  <2>1. Handled("cacheRM", "none", msgs)
    BY <1>6
  <2> QED
    BY <1>0, <2>1, HandledTenders
<1>8. /\ appAllocs' = appAllocs
      /\ \/ UNCHANGED <<apps, appState, leafQueue>>
         \/ \E app \in Apps : RunApplication(app)
         \/ CacheAddApp(u) /\ AddNewApplication(u.ev.app, u.ev.queue)
  <2>1. CacheAddApp(u) => UNCHANGED vars \/ AddNewApplication(u.ev.app, u.ev.queue)
    BY DEF CacheAddApp
  <2>2. CacheAsk(u) => UNCHANGED vars \/ \E app \in Apps : RunApplication(app)
    <3>1. CacheAsk(u) => u.ev.key \in Keys
      BY <1>4, UpdateFields DEF CacheAsk
    <3> QED
      BY <3>1, CoreAssumption DEF CacheAsk
  <2>3. CachePassOn(u) => UNCHANGED vars
    BY DEF CachePassOn
  <2> QED
    BY <1>1, <2>1, <2>2, <2>3 DEF vars, appVars, AddNewApplication, RunApplication
<1>9. ASSUME NEW app \in Apps,
             ~(CacheAddApp(u) /\ u.ev.app = app /\ AddNewApplication(u.ev.app, u.ev.queue))
      PROVE  AppContract(app)'
  <2>1. AppContract(app)
    BY <1>5
  <2>2. Count(Evs(msgs), Added(app)) = 0
    BY <1>6, <1>9
  <2>3. Arrivals(app)' > 0 => Arrivals(app) > 0
    BY <1>7, <2>2
  <2>4. Settled(app)
    <3>1. appState \in [Apps -> AppStates] /\ leafQueue \in [Apps -> QueueNames]
      BY DEF CoreInv, CacheInv, TypeOK
    <3> QED
      BY <1>8, <1>9, <3>1 DEF Settled, RunApplication, AddNewApplication
  <2>5. /\ \A c \in Candidates' : AppOf[c.key] = app => Backed(app, c.queue)
        /\ \A q \in Leaves : Tenders(app, q)' > 0 => Backed(app, q)
    BY <1>3, <1>7, <2>1, BackedNow
  <2>6. Fresh(app) => appAllocs'[app] = {}
    BY <1>8 DEF Fresh
  <2> QED
    BY <1>2, <1>7, <2>1, <2>3, <2>4, <2>5, <2>6, ContractSame
<1>10. ASSUME NEW app \in Apps, CacheAddApp(u), u.ev.app = app, AddNewApplication(app, u.ev.queue)
       PROVE  AppContract(app)'
  <2>1. AppContract(app) /\ Submits(u, app)
    BY <1>5, <1>10 DEF CacheAddApp, Submits
  <2>2. Fresh(app) /\ app \notin apps /\ rmApp[app] # "none"
    BY <2>1 DEF AppContract, Submitted
  <2>3. Fresh(app)'
    BY <1>2, <1>3, <1>7, <1>8, <2>2 DEF Fresh, Scheduled
  <2>4. ~Submitted(app)' /\ \A v, w \in updates' : Submits(v, app)' /\ Submits(w, app)' => v = w
    BY <1>2, <2>1 DEF AppContract, Submitted, Submits
  <2>5. appState'[app] = "New"
    BY <1>10 DEF AddNewApplication, CoreInv, CacheInv, TypeOK
  <2>6. ~(Declines(app)' > 0) /\ ~Scheduled(app)'
    BY <1>2, <1>7, <2>2 DEF Exclusive, Scheduled
  <2>7. rmApp'[app] # "none"
    BY <1>2, <2>2
  <2>8. /\ \A c \in Candidates' : AppOf[c.key] # app
        /\ \A q \in Leaves : ~(Tenders(app, q)' > 0)
    BY <2>3 DEF Fresh
  <2> QED
    BY <2>3, <2>4, <2>5, <2>6, <2>7, <2>8 DEF AppContract
<1> QED
  BY <1>9, <1>10

(* The scheduler takes an application in, refuses it or lets go of it. *)
LEMMA SchedEventPromise ==
  ASSUME CoreInv, PromiseInv, Exclusive, Exclusive', SchedEvent
  PROVE  PromiseInv'
<1>0. ChannelTypes /\ "schedEvent" \in Threads
  BY DEF CoreInv, Threads
<1>1. UNCHANGED <<batch, placed, updates, rmApp, reused>> /\ schedEvents # <<>>
  BY DEF SchedEvent, SchedAddApp, SchedRemoveApp, SchedAsk, SchedRejected, SchedRelease,
         SchedTake, roundVars, rmVars
<1>2. Candidates' = Candidates
  BY <1>1 DEF Candidates
<1>3. PICK ev \in SchedMsg : ev = Head(schedEvents)
  BY <1>0, <1>1 DEF ChannelTypes
<1>4. ASSUME NEW app \in Apps, NEW msgs, Handled("schedEvent", "sched", msgs)
      PROVE  /\ Arrivals(app) \in Nat /\ Declines(app) \in Nat
             /\ Arrivals(app)' = Arrivals(app) - (IF ev \in Added(app) THEN 1 ELSE 0)
             /\ Declines(app)' = Declines(app) + Count(Evs(msgs), Declined(app))
             /\ \A q : Tenders(app, q)' = Tenders(app, q)
  BY <1>0, <1>3, <1>4, HandledTenders
<1>5. SUFFICES ASSUME \A app \in Apps : AppContract(app)
               PROVE  \A app \in Apps : AppContract(app)'
  BY <1>1 DEF PromiseInv
<1>6. ASSUME NEW app \in Apps, NEW msgs, Handled("schedEvent", "sched", msgs),
             Count(Evs(msgs), Declined(app)) = 0, Settled(app), appAllocs' = appAllocs,
             Scheduled(app)' => schedQueue'[app] = schedQueue[app]
      PROVE  AppContract(app)'
  <2>1. AppContract(app)
    BY <1>5
  <2>2. Declines(app)' = Declines(app) /\ \A q : Tenders(app, q)' = Tenders(app, q)
    BY <1>4, <1>6
  <2>3. Arrivals(app)' > 0 => Arrivals(app) > 0
    <3>1. /\ Arrivals(app) \in Nat
          /\ Arrivals(app)' = Arrivals(app) - (IF ev \in Added(app) THEN 1 ELSE 0)
      BY <1>4, <1>6
    <3>2. PICK n \in {0, 1} : n = IF ev \in Added(app) THEN 1 ELSE 0
      OBVIOUS
    <3> QED
      BY <3>1, <3>2
  <2>4. /\ \A c \in Candidates' : AppOf[c.key] = app => Backed(app, c.queue)
        /\ \A q \in Leaves : Tenders(app, q)' > 0 => Backed(app, q)
    BY <1>2, <2>1, <2>2, BackedNow
  <2>5. Fresh(app) => appAllocs'[app] = {}
    BY <1>6 DEF Fresh
  <2> QED
    BY <1>1, <1>6, <2>1, <2>2, <2>3, <2>4, <2>5, ContractSame
<1>7. CASE SchedAddApp
  <2> DEFINE yes == ToRM([kind |-> "accepted", app |-> ev.app])
             out == ToCache([kind |-> "rejectedApp", app |-> ev.app])
             no  == ToRM([kind |-> "rejected", app |-> ev.app])
  <2>1. ev.kind = "addApp" /\ ev.app \in Apps /\ ev \in Added(ev.app)
    <3>1. ev.kind = "addApp"
      BY <1>0, <1>3, <1>7, SchedEventHandled
    <3> QED
      BY <3>1, SchedFields, HolderEvents
  <2>2. \/ /\ ~Scheduled(ev.app) /\ leafQueue[ev.app] \in Leaves
           /\ AcceptApplication(ev.app, leafQueue[ev.app])
           /\ schedQueue' = [schedQueue EXCEPT ![ev.app] = leafQueue[ev.app]]
           /\ Handled("schedEvent", "sched", <<yes>>)
        \/ /\ RejectApplication(ev.app) /\ UNCHANGED schedQueue
           /\ Handled("schedEvent", "sched", <<out, no>>)
    BY <1>0, <1>3, <1>7, SchedEventHandled
  <2>3. \A app \in Apps : Count(Evs(<<yes>>), Declined(app)) = 0
    <3>1. \A app : yes.ev \notin Declined(app)
      BY DEF ToRM, Declined
    <3> HIDE DEF yes
    <3> QED
      BY <3>1, PostedCount
  <2>4. \A app \in Apps : app # ev.app => Count(Evs(<<out, no>>), Declined(app)) = 0
    <3>1. \A app : no.ev \notin Declined(app) /\ (out.ev \in Declined(app) => app = ev.app)
      BY DEF ToRM, ToCache, Declined
    <3>2. no.ev \in Msg /\ out.ev \in Msg
      BY <2>1, HolderEvents
    <3> HIDE DEF no, out
    <3>3. ASSUME NEW app \in Apps, app # ev.app
          PROVE  Count(Evs(<<out, no>>), Declined(app)) = 0
      <4>1. Count(Evs(<<out, no>>), Declined(app))
              = (IF out.ev \in Declined(app) THEN 1 ELSE 0) + (IF no.ev \in Declined(app) THEN 1 ELSE 0)
        BY <3>2, PostedCount
      <4> QED
        BY <3>1, <3>3, <4>1
    <3> QED
      BY <3>3
  <2> HIDE DEF yes, out, no
  <2>5. PICK msgs : /\ Handled("schedEvent", "sched", msgs)
                    /\ \A app \in Apps : app # ev.app => Count(Evs(msgs), Declined(app)) = 0
    BY <2>2, <2>3, <2>4
  <2>6. appState \in [Apps -> AppStates] /\ leafQueue \in [Apps -> QueueNames]
    BY DEF CoreInv, CacheInv, TypeOK
  <2>7. schedQueue \in [Apps -> Leaves \cup {NoQueue}]
    BY DEF CoreInv, PendingInv, SchedTypes
  <2>8. appAllocs' = appAllocs /\ apps' = apps
    BY <2>2 DEF AcceptApplication, RejectApplication
  <2>9. ASSUME NEW app \in Apps, app # ev.app
        PROVE  AppContract(app)'
    <3>1. Settled(app) /\ (Scheduled(app)' => schedQueue'[app] = schedQueue[app])
      BY <2>1, <2>2, <2>6, <2>7, <2>9 DEF Settled, AcceptApplication, RejectApplication
    <3> QED
      BY <1>6, <2>5, <2>8, <2>9, <3>1
  <2>10. ASSUME NEW app \in Apps, app = ev.app
         PROVE  AppContract(app)'
    <3>1. Arrivals(app) \in {0, 1} /\ Arrivals(app)' \in {0, 1}
      BY DEF Exclusive
    <3>2. Arrivals(app) \in Nat /\ Arrivals(app)' = Arrivals(app) - 1
      <4>1. ev \in Added(app)
        BY <2>1, <2>10
      <4> QED
        BY <1>4, <2>5, <4>1
    <3>3. Arrivals(app) > 0 /\ ~(Arrivals(app)' > 0)
      BY <3>1, <3>2
    <3>4. AppContract(app)
      BY <1>5
    <3>5. Fresh(app) /\ app \in apps /\ appState[app] = "New"
      BY <3>3, <3>4 DEF AppContract, Exclusive
    <3>6. rmApp[app] # "none" /\ ~Submitted(app)
      BY <3>4, <3>5 DEF AppContract
    <3>7. rmApp'[app] # "none" /\ ~Submitted(app)'
          /\ \A u, v \in updates' : Submits(u, app)' /\ Submits(v, app)' => u = v
      BY <1>1, <3>4, <3>6 DEF AppContract, Submitted, Submits
    <3>8. /\ \A c \in Candidates' : AppOf[c.key] # app
          /\ \A q \in Leaves : ~(Tenders(app, q)' > 0)
      <4>1. \A q : Tenders(app, q)' = Tenders(app, q)
        BY <1>4, <2>5
      <4> QED
        BY <1>2, <3>5, <4>1 DEF Fresh
    <3>9. CASE /\ leafQueue[app] \in Leaves /\ AcceptApplication(app, leafQueue[app])
               /\ schedQueue' = [schedQueue EXCEPT ![app] = leafQueue[app]]
      <4>1. Scheduled(app)' /\ schedQueue'[app] = leafQueue[app]
        BY <2>7, <3>9, QueueAssumption DEF Scheduled
      <4>2. ~(Declines(app)' > 0)
        BY <4>1 DEF Exclusive
      <4>3. RunsIn(app, schedQueue[app])'
        BY <2>6, <3>9, <4>1 DEF AcceptApplication, RunsIn
      <4> QED
        BY <3>3, <3>7, <3>8, <4>2, <4>3 DEF AppContract
    <3>10. CASE RejectApplication(app) /\ UNCHANGED schedQueue
      <4>1. ~Scheduled(app)' /\ appState'[app] = "Rejected"
        BY <2>6, <3>5, <3>10 DEF Fresh, Scheduled, RejectApplication
      <4>2. Fresh(app)'
        BY <2>8, <3>5, <3>8, <4>1 DEF Fresh
      <4> QED
        BY <3>3, <3>7, <3>8, <4>1, <4>2 DEF AppContract
    <3> QED
      BY <2>2, <2>10, <3>9, <3>10
  <2> QED
    BY <2>9, <2>10
<1>8. CASE SchedRemoveApp \/ SchedAsk \/ SchedRejected \/ SchedRelease
  <2>1. /\ UNCHANGED vars
        /\ \/ UNCHANGED schedQueue
           \/ SchedRemoveApp /\ schedQueue' = [schedQueue EXCEPT ![ev.app] = NoQueue]
    BY <1>0, <1>3, <1>8, SchedEventHandled DEF schedVars
  <2>2. PICK msgs : /\ Handled("schedEvent", "sched", msgs)
                    /\ \A app \in Apps : Count(Evs(msgs), Declined(app)) = 0
    <3> DEFINE gone == ToCache([kind |-> "removedApp", app |-> ev.app])
               no == ToRM([kind |-> "rejectedAsk", key |-> ev.key])
               on == ToCache(ev)
    <3>1. /\ \A app : gone.ev \notin Declined(app) /\ no.ev \notin Declined(app)
          /\ ev.kind = "release" => \A app : on.ev \notin Declined(app)
      BY DEF ToRM, ToCache, Declined
    <3>2. /\ SchedRemoveApp => \/ Handled("schedEvent", "sched", <<gone>>)
                               \/ Handled("schedEvent", "sched", <<>>)
          /\ SchedAsk => Handled("schedEvent", "sched", <<>>) \/ Handled("schedEvent", "sched", <<no>>)
          /\ SchedRejected => Handled("schedEvent", "sched", <<>>)
          /\ SchedRelease => ev.kind = "release" /\ Handled("schedEvent", "sched", <<on>>)
      BY <1>0, <1>3, SchedEventHandled
    <3> HIDE DEF gone, no, on
    <3>3. \A app : Count(Evs(<<>>), Declined(app)) = 0
      BY PostedCount
    <3>4. ASSUME NEW e, \A app : e.ev \notin Declined(app)
          PROVE  \A app : Count(Evs(<<e>>), Declined(app)) = 0
      BY <3>4, PostedCount
    <3> QED
      BY <1>8, <3>1, <3>2, <3>3, <3>4
  <2>3. ASSUME NEW app \in Apps
        PROVE  AppContract(app)'
    <3>1. Settled(app) /\ appAllocs' = appAllocs
      BY <2>1 DEF Settled, vars, appVars
    <3>2. Scheduled(app)' => schedQueue'[app] = schedQueue[app]
      <4>1. schedQueue \in [Apps -> Leaves \cup {NoQueue}]
        BY DEF CoreInv, PendingInv, SchedTypes
      <4> QED
        BY <2>1, <4>1 DEF Scheduled
    <3> QED
      BY <1>6, <2>2, <3>1, <3>2
  <2> QED
    BY <2>3
<1> QED
  BY <1>7, <1>8 DEF SchedEvent

(* An application that goes, and the others that stay. *)
LEMMA DropKept ==
  ASSUME NEW b \in Apps, DropApplication(b), CacheInv, NEW app \in Apps
  PROVE  Settled(app) /\ (Fresh(app) => appAllocs'[app] = {})
<1>1. /\ appState \in [Apps -> AppStates] /\ leafQueue \in [Apps -> QueueNames]
      /\ appAllocs \in [Apps -> SUBSET Allocation]
  BY DEF CacheInv, TypeOK
<1> QED
  BY <1>1 DEF DropApplication, Settled, Fresh

(* The cache takes what the scheduler sends. *)
LEMMA CacheSchedPromise ==
  ASSUME CoreInv, PromiseInv, Exclusive', CacheSched
  PROVE  PromiseInv'
<1>0. ChannelTypes /\ {"cacheSched", "schedule"} \subseteq Threads /\ "cache" \in Ends
  BY DEF CoreInv, Threads, Ends
<1>1. UNCHANGED <<schedQueue, batch, placed, updates, rmApp, reused>> /\ cacheEvents # <<>>
  BY DEF CacheSched, CacheProposal, CacheRelease, CacheRemovedApp, CacheRejectedApp,
         CacheTake, schedVars, roundVars, rmVars
<1>2. Candidates' = Candidates
  BY <1>1 DEF Candidates
<1>3. PICK ev \in CacheMsg : ev = Head(cacheEvents)
  BY <1>0, <1>1 DEF ChannelTypes
<1>4. PICK msgs : Handled("cacheSched", "cache", msgs)
  <2>1. CacheProposal => \E m : Handled("cacheSched", "cache", m)
    BY <1>0, CacheSchedHandled
  <2>2. CacheRelease => \E m : Handled("cacheSched", "cache", m)
    BY <1>0, CacheSchedHandled
  <2>3. CacheRemovedApp => \E m : Handled("cacheSched", "cache", m)
    BY <1>0, CacheSchedHandled
  <2>4. CacheRejectedApp => \E m : Handled("cacheSched", "cache", m)
    BY <1>0, CacheSchedHandled
  <2> QED
    BY <2>1, <2>2, <2>3, <2>4 DEF CacheSched
<1>5. ASSUME NEW app \in Apps, NEW q
      PROVE  /\ Arrivals(app)' = Arrivals(app)
             /\ Declines(app)' > 0 => Declines(app) > 0
             /\ Tenders(app, q)' > 0 => Tenders(app, q) > 0
  <2>1. /\ Declines(app) \in Nat /\ Tenders(app, q) \in Nat
        /\ Arrivals(app)' = Arrivals(app)
        /\ Declines(app)' = Declines(app) - (IF ev \in Declined(app) THEN 1 ELSE 0)
        /\ Tenders(app, q)' = Tenders(app, q) - (IF ev \in ProposedTo(app, q) THEN 1 ELSE 0)
    BY <1>0, <1>3, <1>4, HandledTenders
  <2>2. PICK n \in {0, 1}, m \in {0, 1} : /\ n = IF ev \in Declined(app) THEN 1 ELSE 0
                                          /\ m = IF ev \in ProposedTo(app, q) THEN 1 ELSE 0
    OBVIOUS
  <2> QED
    BY <2>1, <2>2
<1>6. SUFFICES ASSUME \A app \in Apps : AppContract(app)
               PROVE  \A app \in Apps : AppContract(app)'
  BY <1>1 DEF PromiseInv
<1>7. appAllocs \in [Apps -> SUBSET Allocation]
  BY DEF CoreInv, CacheInv, TypeOK
<1>8. ASSUME NEW app \in Apps
      PROVE  Settled(app) /\ (Fresh(app) => appAllocs'[app] = {})
  <2>1. CASE CacheProposal
    <3>1. CASE UNCHANGED vars
      BY <3>1 DEF Settled, Fresh, vars, appVars
    <3>2. CASE AddNewAllocation(ev.p)
      <4>1. /\ apps' = apps /\ appState' = appState /\ leafQueue' = leafQueue
            /\ \A b \in Apps : b # ev.p.app => appAllocs'[b] = appAllocs[b]
            /\ ev.p.queue \in Leaves
        BY <1>7, <3>2 DEF AddNewAllocation, Allocate, AllocationFor, CanAllocate
      <4>2. ASSUME app = ev.p.app
            PROVE  ~Fresh(app)
        <5>1. ev.kind = "proposal"
          BY <1>0, <1>3, <2>1, CacheSchedHandled
        <5>2. ev \in ProposedTo(app, ev.p.queue)
          BY <4>2, <5>1 DEF ProposedTo, Msg
        <5>3. Channel("cache") = cacheEvents
          BY DEF Channel
        <5>4. Tenders(app, ev.p.queue) >= 1
          BY <1>0, <1>1, <1>3, <5>2, <5>3, HeadFlows DEF Tenders
        <5>5. Tenders(app, ev.p.queue) \in Nat
          BY <1>0, FlowNat DEF Tenders
        <5> QED
          BY <4>1, <5>4, <5>5 DEF Fresh
      <4> QED
        BY <4>1, <4>2 DEF Settled, Fresh
    <3> QED
      BY <1>0, <1>3, <2>1, <3>1, <3>2, CacheSchedHandled
  <2>2. CASE CacheRelease
    <3>1. CASE UNCHANGED vars
      BY <3>1 DEF Settled, Fresh, vars, appVars
    <3>2. CASE ReleaseAllocations(ev.app, Named(ev))
      BY <1>7, <3>2 DEF ReleaseAllocations, Settled, Fresh
    <3> QED
      BY <1>0, <1>3, <2>2, <3>1, <3>2, CacheSchedHandled
  <2>3. CASE CacheRemovedApp
    <3>1. CASE UNCHANGED vars
      BY <3>1 DEF Settled, Fresh, vars, appVars
    <3>2. CASE RemoveApplication(ev.app)
      <4>1. DropApplication(ev.app) /\ ev.app \in Apps /\ CacheInv
        BY <3>2 DEF RemoveApplication, CoreInv, CacheInv, TypeOK
      <4> QED
        BY <4>1, DropKept
    <3> QED
      BY <1>0, <1>3, <2>3, <3>1, <3>2, CacheSchedHandled
  <2>4. CASE CacheRejectedApp
    <3>1. ev.kind = "rejectedApp" /\ DropApplication(ev.app)
      BY <1>0, <1>3, <2>4, CacheSchedHandled
    <3>2. ev.app \in Apps /\ CacheInv
      BY <3>1, CacheFields DEF CoreInv
    <3> QED
      BY <3>1, <3>2, DropKept
  <2> QED
    BY <2>1, <2>2, <2>3, <2>4 DEF CacheSched
<1>9. ASSUME NEW app \in Apps
      PROVE  AppContract(app)'
  <2>1. AppContract(app) /\ Settled(app) /\ (Fresh(app) => appAllocs'[app] = {})
    BY <1>6, <1>8
  <2>2. /\ \A c \in Candidates' : AppOf[c.key] = app => Backed(app, c.queue)
        /\ \A q \in Leaves : Tenders(app, q)' > 0 => Backed(app, q)
    BY <1>2, <1>5, <2>1, BackedNow
  <2>3. /\ Arrivals(app)' > 0 => Arrivals(app) > 0
        /\ Declines(app)' > 0 => Declines(app) > 0
    BY <1>5
  <2> QED
    BY <1>1, <2>1, <2>2, <2>3, ContractSame
<1> QED
  BY <1>9

(* Every step keeps PromiseInv. *)
LEMMA PromiseStep ==
  ASSUME CoreInv, Routed, PromiseInv, Exclusive, Exclusive', [CoreNext]_coreVars
  PROVE  PromiseInv'
<1>1. CASE \/ RM \/ RmReceive \/ Find \/ Place \/ Quiet \/ UNCHANGED coreVars
  BY <1>1, OtherPromise
<1>2. CASE \E t \in Threads : Send(t)
  BY <1>2, SendPromise
<1>3. CASE CacheRM
  BY <1>3, CacheRMPromise
<1>4. CASE CacheSched
  BY <1>4, CacheSchedPromise
<1>5. CASE SchedEvent
  BY <1>5, SchedEventPromise
<1>6. CASE Confirm
  BY <1>6, ConfirmPromise DEF Confirm
<1> QED
  BY <1>1, <1>2, <1>3, <1>4, <1>5, <1>6 DEF CoreNext

(* At the start no application has been submitted. *)
LEMMA PromiseInit == CoreInit => PromiseInv
<1> SUFFICES ASSUME CoreInit, NEW app \in Apps
             PROVE  AppContract(app)
  BY DEF PromiseInv
<1>1. /\ rmApp[app] = "none" /\ updates = {} /\ schedQueue[app] = NoQueue /\ appAllocs[app] = {}
      /\ batch = {} /\ placed = {} /\ apps = {}
      /\ cacheEvents = <<>> /\ schedEvents = <<>> /\ \A t \in Threads : outbox[t] = <<>>
  BY DEF CoreInit
<1>2. Candidates = {} /\ ~Submitted(app) /\ ~Scheduled(app)
  BY <1>1 DEF Candidates, Submitted, Scheduled
<1>3. ASSUME NEW t \in Threads, NEW to \in {"sched", "cache"}, NEW M
      PROVE  ~(Flow(t, to, M) > 0)
  <2>1. Evs(<<>>) = <<>> /\ Channel(to) = <<>>
    BY <1>1 DEF Channel, Evs
  <2>2. Count(<<>>, M) = 0
    BY CountShort
  <2> QED
    BY <1>1, <2>1, <2>2 DEF Flow
<1>4. ~(Arrivals(app) > 0) /\ ~(Declines(app) > 0) /\ \A q : ~(Tenders(app, q) > 0)
  BY <1>3 DEF Arrivals, Declines, Tenders, Threads
<1>5. Fresh(app)
  BY <1>1, <1>2, <1>4 DEF Fresh
<1> QED
  BY <1>1, <1>2, <1>4, <1>5 DEF AppContract, Submitted

(* Whatever the goroutines do, and whatever the resource manager sends as  *)
(* long as it uses no application id twice: the scheduler plans and        *)
(* proposes nothing for an application it has not accepted, and what it    *)
(* plans or proposes is for the queue the application runs in.             *)
THEOREM PromisesKept == CoreSpec => []PromiseInv
<1>1. CoreInit => PromiseInv
  BY PromiseInit
<1>2. /\ PromiseInv /\ FlowInv /\ FlowInv' /\ Exclusive /\ Exclusive' /\ [CoreNext]_coreVars
      => PromiseInv'
  BY PromiseStep DEF FlowInv
<1>3. FlowInv => Exclusive
  BY FlowExclusive
<1> QED
  BY <1>1, <1>2, <1>3, FlowInvariant, PTL DEF CoreSpec

-----------------------------------------------------------------------------
(* Every step of the core is a step of the partition whose callers keep    *)
(* their promises.                                                         *)

(* A step of the partition with a kept promise is one of Cache. *)
LEMMA CacheActions ==
  /\ \A p \in Proposal : AddNewAllocation(p) /\ Promised(p, TRUE, TRUE) => Cache!Next
  /\ \A app \in Apps : \A R \in Releasable(app) : ReleaseAllocations(app, R) => Cache!Next
  /\ \A app \in Apps, q \in QueueNames : AddNewApplication(app, q) => Cache!Next
  /\ \A app \in Apps, q \in Leaves : AcceptApplication(app, q) => Cache!Next
  /\ \A app \in Apps : \/ RejectApplication(app) \/ RunApplication(app)
                       \/ RemoveRejectedApp(app) \/ RemoveApplication(app)
                       => Cache!Next
<1>1. /\ Cache!SizeOf = SizeOf /\ Cache!QueueNames = QueueNames /\ Cache!Proposal = Proposal
      /\ Cache!Idle = Idle
  BY DEF Cache!SizeOf, SizeOf, Cache!Allocation, Allocation, Cache!QueueNames, QueueNames,
         Cache!Proposal, Proposal, Cache!Idle, Idle
<1>2. \A S : Cache!TotalOf(S) = TotalOf(S)
  <2>1. \A S : Cache!Cardinality(S) = Cardinality(S)
    BY DEF Cache!Cardinality, Cardinality
  <2>2. \A S, w : Cache!UnitsOf(S, w) = UnitsOf(S, w)
    BY DEF Cache!UnitsOf, UnitsOf
  <2> QED
    BY <1>1, <2>1, <2>2 DEF Cache!TotalOf, TotalOf, Cache!Weight, Weight
<1>3. \A q, r : /\ Cache!DecAllocatedResource(q, r) = DecAllocatedResource(q, r)
                /\ Cache!IncAllocatedResource(q, r) = IncAllocatedResource(q, r)
                /\ Cache!FitsQueue(q, r, FALSE) = FitsQueue(q, r, FALSE)
  BY DEF Cache!DecAllocatedResource, DecAllocatedResource, Cache!CanDec, CanDec,
         Cache!IncAllocatedResource, IncAllocatedResource, Cache!FitsQueue, FitsQueue,
         Cache!WithinMax, WithinMax, Cache!MaxResource, MaxResource
<1>4. ASSUME NEW p, Allocate(p)
      PROVE  Cache!Allocate(p)
  <2>1. \A u : /\ Cache!AllocationFor(u, p) = AllocationFor(u, p)
               /\ FreshUuid(u) => Cache!FreshUuid(u)
    BY DEF Cache!AllocationFor, AllocationFor, Cache!FreshUuid, FreshUuid
  <2>2. PICK u, a :
          /\ u \in Uuids /\ a = AllocationFor(u, p)
          /\ FreshUuid(u)
          /\ queueAllocated' = IncAllocatedResource(a.queue, a.res)
          /\ nodeAllocs'     = [nodeAllocs EXCEPT ![a.node] = @ \cup {a}]
          /\ nodeAllocated'  = [nodeAllocated EXCEPT ![a.node] = @ + a.res]
          /\ appAllocs'      = [appAllocs EXCEPT ![a.app] = @ \cup {a}]
          /\ appAllocated'   = [appAllocated EXCEPT ![a.app] = @ + a.res]
          /\ allocations'    = allocations \cup {a}
          /\ UNCHANGED <<partitionState, nodes, nodeTotal, total, apps, appState, leafQueue>>
    BY <1>4 DEF Allocate
  <2>3. a = Cache!AllocationFor(u, p) /\ Cache!FreshUuid(u)
    BY <2>1, <2>2
  <2>4. queueAllocated' = Cache!IncAllocatedResource(a.queue, a.res)
    BY <1>3, <2>2
  <2> QED
    BY <2>2, <2>3, <2>4 DEF Cache!Allocate
<1>5. \A p : CanAllocate(p, FALSE) => Cache!CanAllocate(p, FALSE)
  BY <1>3 DEF Cache!CanAllocate, CanAllocate
<1>6. ASSUME NEW p \in Proposal, AddNewAllocation(p), Promised(p, TRUE, TRUE)
      PROVE  Cache!Next
  <2>1. Cache!Promised(p, TRUE, TRUE)
    BY <1>6 DEF Cache!Promised, Promised
  <2>2. Cache!AddNewAllocation(p)
    BY <1>1, <1>4, <1>5, <1>6, <2>1 DEF AddNewAllocation, Cache!AddNewAllocation
  <2> QED
    BY <1>1, <1>6, <2>2 DEF Cache!Next
<1>7. ASSUME NEW app \in Apps, NEW R \in Releasable(app), ReleaseAllocations(app, R)
      PROVE  Cache!Next
  <2>1. R \in Cache!Releasable(app)
    BY <1>7 DEF Releasable, Cache!Releasable
  <2>2. Cache!ReleaseAllocations(app, R)
    BY <1>1, <1>2, <1>3, <1>7 DEF ReleaseAllocations, Cache!ReleaseAllocations
  <2> QED
    BY <1>7, <2>1, <2>2 DEF Cache!Next
<1>8. ASSUME NEW app \in Apps, NEW q \in QueueNames, AddNewApplication(app, q)
      PROVE  Cache!Next
  <2>1. Cache!AddNewApplication(app, q)
    BY <1>1, <1>8 DEF AddNewApplication, Cache!AddNewApplication, nodeVars, Cache!nodeVars
  <2> QED
    BY <1>1, <1>8, <2>1 DEF Cache!Next
<1>9. ASSUME NEW app \in Apps, NEW q \in Leaves, AcceptApplication(app, q)
      PROVE  Cache!Next
  <2>1. Cache!AcceptApplication(app, q)
    BY <1>9 DEF AcceptApplication, Cache!AcceptApplication, nodeVars, Cache!nodeVars
  <2> QED
    BY <1>9, <2>1 DEF Cache!Next
<1>10. ASSUME NEW app \in Apps,
              \/ RejectApplication(app) \/ RunApplication(app)
              \/ RemoveRejectedApp(app) \/ RemoveApplication(app)
       PROVE  Cache!Next
  <2>1. DropApplication(app) => Cache!DropApplication(app)
    BY DEF DropApplication, Cache!DropApplication
  <2>2. RejectApplication(app) => Cache!RejectApplication(app)
    BY DEF RejectApplication, Cache!RejectApplication, nodeVars, Cache!nodeVars
  <2>3. RunApplication(app) => Cache!RunApplication(app)
    BY DEF RunApplication, Cache!RunApplication, nodeVars, Cache!nodeVars
  <2>4. RemoveRejectedApp(app) => Cache!RemoveRejectedApp(app)
    BY <1>1, <2>1 DEF RemoveRejectedApp, Cache!RemoveRejectedApp, nodeVars, Cache!nodeVars
  <2>5. RemoveApplication(app) => Cache!RemoveApplication(app)
    BY <1>1, <1>2, <1>3, <2>1 DEF RemoveApplication, Cache!RemoveApplication
  <2> QED
    BY <1>10, <2>2, <2>3, <2>4, <2>5 DEF Cache!Next
<1> QED
  BY <1>6, <1>7, <1>8, <1>9, <1>10

(* What the cache is about to be told of a proposal or a rejection holds. *)
LEMMA HeadPromise ==
  ASSUME ChannelTypes, Exclusive, \A app \in Apps : AppContract(app),
         cacheEvents # <<>>, NEW ev \in CacheMsg, ev = Head(cacheEvents)
  PROVE  /\ ev.kind = "proposal" /\ ev.p.queue \in Leaves => Promised(ev.p, TRUE, TRUE)
         /\ ev.kind = "rejectedApp" =>
              /\ ev.app \in apps /\ appState[ev.app] = "Rejected" /\ Fresh(ev.app)
<1>1. Channel("cache") = cacheEvents /\ {"schedule", "schedEvent"} \subseteq Threads /\ "cache" \in Ends
  BY DEF Channel, Threads, Ends
<1>2. ASSUME ev.kind = "proposal", ev.p.queue \in Leaves
      PROVE  Promised(ev.p, TRUE, TRUE)
  <2>1. ev.p.app \in Apps
    BY <1>2, CacheFields DEF Proposal
  <2>2. ev \in ProposedTo(ev.p.app, ev.p.queue)
    BY <1>2 DEF ProposedTo, Msg
  <2>3. Tenders(ev.p.app, ev.p.queue) >= 1
    BY <1>1, <2>2, HeadFlows DEF Tenders
  <2>4. Tenders(ev.p.app, ev.p.queue) \in Nat
    BY <1>1, FlowNat DEF Tenders
  <2>5. Tenders(ev.p.app, ev.p.queue) > 0
    BY <2>3, <2>4
  <2>6. ev.p.app \in apps => RunsIn(ev.p.app, ev.p.queue)
    BY <1>2, <2>1, <2>5 DEF AppContract
  <2> QED
    BY <2>6 DEF Promised, RunsIn
<1>3. ASSUME ev.kind = "rejectedApp"
      PROVE  ev.app \in apps /\ appState[ev.app] = "Rejected" /\ Fresh(ev.app)
  <2>1. ev.app \in Apps
    BY <1>3, CacheFields
  <2>2. ev \in Declined(ev.app)
    BY <1>3 DEF Declined, Msg
  <2>3. Declines(ev.app) >= 1
    BY <1>1, <2>2, HeadFlows DEF Declines
  <2>4. Declines(ev.app) \in Nat
    BY <1>1, FlowNat DEF Declines
  <2>5. Declines(ev.app) > 0
    BY <2>3, <2>4
  <2> QED
    BY <2>1, <2>5 DEF Exclusive, AppContract
<1> QED
  BY <1>2, <1>3

(* The step. *)
LEMMA PromisedStep ==
  ASSUME CoreInv, PromiseInv, Exclusive, [CoreNext]_coreVars
  PROVE  reused' \/ Cache!Next \/ UNCHANGED vars
<1>0. ChannelTypes
  BY DEF CoreInv
<1>1. CASE \/ RM \/ RmReceive \/ Find \/ Place \/ Quiet \/ UNCHANGED coreVars
  BY <1>1, OtherSteps
<1>2. CASE \E t \in Threads : Send(t)
  BY <1>2 DEF Send
<1>3. CASE Confirm
  BY <1>0, <1>3, ConfirmHandled DEF Confirm
<1>4. ASSUME NEW u \in updates, CacheAddApp(u) \/ CacheAsk(u) \/ CachePassOn(u)
      PROVE  Cache!Next \/ UNCHANGED vars
  <2>1. u.ev \in UpdateMsg
    BY <1>0 DEF ChannelTypes
  <2>2. CASE CacheAddApp(u)
    <3>1. u.ev.app \in Apps /\ u.ev.queue \in QueueNames
      BY <2>1, <2>2, UpdateFields DEF CacheAddApp
    <3> QED
      BY <2>2, <3>1, CacheActions DEF CacheAddApp
  <2>3. CASE CacheAsk(u)
    <3>1. AppOf[u.ev.key] \in Apps
      BY <2>1, <2>3, UpdateFields, CoreAssumption DEF CacheAsk
    <3> QED
      BY <2>3, <3>1, CacheActions DEF CacheAsk
  <2> QED
    BY <1>4, <2>2, <2>3 DEF CachePassOn
<1>5. CASE SchedEvent
  <2>1. PICK ev : ev = Head(schedEvents)
    OBVIOUS
  <2>2. CASE SchedAddApp
    <3>1. ev.kind = "addApp" /\ ev \in SchedMsg
      BY <1>0, <2>1, <2>2 DEF SchedAddApp, SchedTake, ChannelTypes
    <3>2. ev.app \in Apps
      BY <3>1, SchedFields
    <3>3. \/ leafQueue[ev.app] \in Leaves /\ AcceptApplication(ev.app, leafQueue[ev.app])
          \/ RejectApplication(ev.app)
      BY <1>0, <2>1, <2>2, SchedEventHandled
    <3> QED
      BY <3>2, <3>3, CacheActions
  <2>3. CASE SchedRemoveApp \/ SchedAsk \/ SchedRejected \/ SchedRelease
    BY <1>0, <2>3, SchedEventHandled
  <2> QED
    BY <1>5, <2>2, <2>3 DEF SchedEvent
<1>6. CASE CacheSched
  <2>1. cacheEvents # <<>> /\ cacheEvents \in Seq(CacheMsg) /\ reused' = reused
    BY <1>0, <1>6 DEF CacheSched, CacheProposal, CacheRelease, CacheRemovedApp, CacheRejectedApp,
                      CacheTake, rmVars, ChannelTypes
  <2>2. PICK ev \in CacheMsg : ev = Head(cacheEvents)
    BY <2>1
  <2> SUFFICES ASSUME ~reused
               PROVE  Cache!Next \/ UNCHANGED vars
    BY <2>1
  <2>3. \A app \in Apps : AppContract(app)
    BY DEF PromiseInv
  <2>4. CASE CacheProposal
    <3>1. ev.kind = "proposal" /\ (AddNewAllocation(ev.p) \/ UNCHANGED vars)
      BY <1>0, <2>2, <2>4, CacheSchedHandled
    <3>2. AddNewAllocation(ev.p) => ev.p.queue \in Leaves
      BY DEF AddNewAllocation, CanAllocate
    <3>3. AddNewAllocation(ev.p) => Promised(ev.p, TRUE, TRUE)
      BY <1>0, <2>1, <2>2, <2>3, <3>1, <3>2, HeadPromise
    <3>4. ev.p \in Proposal
      BY <3>1, CacheFields
    <3> QED
      BY <3>1, <3>3, <3>4, CacheActions
  <2>5. CASE CacheRelease
    <3>1. ev.kind = "release" /\ (ReleaseAllocations(ev.app, Named(ev)) \/ UNCHANGED vars)
      BY <1>0, <2>2, <2>5, CacheSchedHandled
    <3>2. ev.app \in Apps /\ ev.uuid \in Uuids \cup {NoUuid, AllUuids}
      BY <3>1, CacheFields
    <3>3. ReleaseAllocations(ev.app, Named(ev)) => Named(ev) \in Releasable(ev.app)
      <4>1. SUFFICES ASSUME ev.app \in apps, Named(ev) # {}
                     PROVE  Named(ev) \in Releasable(ev.app)
        BY DEF ReleaseAllocations
      <4>2. PICK u, b, R :
              /\ u \in Uuids \cup {NoUuid, AllUuids} /\ b \in Apps
              /\ u = ev.uuid /\ b = ev.app /\ R = Named(ev)
        BY <3>2
      <4>3. b \in apps /\ R = { a \in appAllocs[b] : u \in {a.uuid, AllUuids} } /\ R # {}
        BY <4>1, <4>2 DEF Named
      <4>4. CacheInv
        BY DEF CoreInv
      <4> QED
        BY <4>2, <4>3, <4>4, NamedReleasable
    <3> QED
      BY <3>1, <3>2, <3>3, CacheActions
  <2>6. CASE CacheRemovedApp
    <3>1. /\ ev.kind = "removedApp"
          /\ RemoveApplication(ev.app) \/ UNCHANGED vars
      BY <1>0, <2>2, <2>6, CacheSchedHandled
    <3>2. ev.app \in Apps
      BY <3>1, CacheFields
    <3> QED
      BY <3>1, <3>2, CacheActions
  <2>7. CASE CacheRejectedApp
    <3>1. /\ ev.kind = "rejectedApp" /\ DropApplication(ev.app)
          /\ UNCHANGED <<partitionState, nodeVars, allocations, queueAllocated, op>>
      BY <1>0, <2>2, <2>7, CacheSchedHandled
    <3>2. ev.app \in Apps
      BY <3>1, CacheFields
    <3>3. ev.app \in apps /\ appState[ev.app] = "Rejected"
      BY <1>0, <2>1, <2>2, <2>3, <3>1, HeadPromise
    <3>4. RemoveRejectedApp(ev.app)
      BY <3>1, <3>3 DEF RemoveRejectedApp, CoreInv
    <3> QED
      BY <3>2, <3>4, CacheActions
  <2> QED
    BY <1>6, <2>4, <2>5, <2>6, <2>7 DEF CacheSched
<1> QED
  BY <1>1, <1>2, <1>3, <1>4, <1>5, <1>6 DEF CoreNext, CacheRM

(* Whatever the goroutines do: as long as no application id is used twice, *)
(* every step of the core is a step of the partition that gets proposals   *)
(* only for accepted applications, in the queue they run in, and drops     *)
(* rejected applications only while they hold nothing.                     *)
THEOREM ContractKept == CoreSpec => CacheContractKept
<1>1. PromiseInv /\ FlowInv /\ Exclusive /\ [CoreNext]_coreVars => [reused' \/ Cache!Next]_vars
  BY PromisedStep DEF FlowInv
<1>2. FlowInv => Exclusive
  BY FlowExclusive
<1> QED
  BY <1>1, <1>2, FlowInvariant, PromisesKept, PTL DEF CoreSpec, CacheContractKept

-----------------------------------------------------------------------------
(* What the resource manager hears of allocations.                         *)

GivenBy(ev) == IF ev.kind = "allocated" THEN {ev.uuid} ELSE {}
TakenBy(ev) == IF ev.kind = "released" THEN ev.uuids ELSE {}
Gives(s) == UNION { GivenBy(s[i]) : i \in DOMAIN s }
Takes(s) == UNION { TakenBy(s[i]) : i \in DOMAIN s }

(* A release never comes before the allocation it takes back. *)
Ordered(s) == \A i, j \in DOMAIN s : i < j => GivenBy(s[j]) \cap TakenBy(s[i]) = {}

Box == Evs(outbox["cacheSched"])
Believed  == rmAllocs \cup Gives(rmEvents) \cup Gives(Box)
Withdrawn == Takes(rmEvents) \cup Takes(Box)
LiveUuids == { a.uuid : a \in Live }

RmViewInv ==
  /\ Len(outbox["cacheSched"]) <= 1
  /\ Ordered(rmEvents)
  /\ Gives(Box) \cap Takes(rmEvents) = {}
  /\ Believed \cup Withdrawn \cup LiveUuids \subseteq Issued
  /\ reused \/ Believed \ Withdrawn = LiveUuids

(* An event at the end of a sequence. *)
LEMMA NewsLast ==
  ASSUME NEW s \in Seq(Msg), NEW e \in Msg
  PROVE  /\ Gives(s \o <<e>>) = Gives(s) \cup GivenBy(e)
         /\ Takes(s \o <<e>>) = Takes(s) \cup TakenBy(e)
         /\ Ordered(s) /\ GivenBy(e) \cap Takes(s) = {} => Ordered(s \o <<e>>)
<1> DEFINE t == s \o <<e>>
<1>1. /\ Len(s) \in Nat /\ DOMAIN s = 1 .. Len(s) /\ DOMAIN t = 1 .. Len(s) + 1
      /\ \A i \in 1 .. Len(s) : t[i] = s[i]
      /\ t[Len(s) + 1] = e
  OBVIOUS
<1> HIDE DEF t
<1>2. 1 .. Len(s) + 1 = (1 .. Len(s)) \cup {Len(s) + 1}
  BY <1>1
<1>3. Gives(t) = Gives(s) \cup GivenBy(e) /\ Takes(t) = Takes(s) \cup TakenBy(e)
  BY <1>1, <1>2 DEF Gives, Takes
<1>4. ASSUME Ordered(s), GivenBy(e) \cap Takes(s) = {}
      PROVE  Ordered(t)
  <2> SUFFICES ASSUME NEW i \in 1 .. Len(s) + 1, NEW j \in 1 .. Len(s) + 1, i < j
               PROVE  GivenBy(t[j]) \cap TakenBy(t[i]) = {}
    BY <1>1 DEF Ordered
  <2>1. i \in 1 .. Len(s) /\ t[i] = s[i]
    BY <1>1
  <2>2. CASE j = Len(s) + 1
    <3>1. TakenBy(s[i]) \subseteq Takes(s)
      BY <1>1, <2>1 DEF Takes
    <3> QED
      BY <1>1, <1>4, <2>1, <2>2, <3>1
  <2>3. CASE j # Len(s) + 1
    <3>1. j \in 1 .. Len(s)
      BY <1>1, <2>3
    <3> QED
      BY <1>1, <1>4, <2>1, <3>1 DEF Ordered
  <2> QED
    BY <2>2, <2>3
<1> QED
  BY <1>3, <1>4 DEF t

(* The first event of a sequence. *)
LEMMA NewsFirst ==
  ASSUME NEW s \in Seq(Msg), s # <<>>
  PROVE  /\ Gives(s) = GivenBy(Head(s)) \cup Gives(Tail(s))
         /\ Takes(s) = TakenBy(Head(s)) \cup Takes(Tail(s))
         /\ Ordered(s) => Ordered(Tail(s)) /\ Gives(Tail(s)) \cap TakenBy(Head(s)) = {}
<1> DEFINE t == Tail(s)
<1>1. /\ Len(s) \in Nat /\ Len(s) > 0 /\ DOMAIN s = 1 .. Len(s) /\ Head(s) = s[1]
      /\ DOMAIN t = 1 .. Len(s) - 1 /\ \A i \in 1 .. Len(s) - 1 : t[i] = s[i + 1]
  OBVIOUS
<1> HIDE DEF t
<1>2. ASSUME NEW i \in 1 .. Len(s)
      PROVE  i = 1 \/ (i - 1 \in 1 .. Len(s) - 1 /\ s[i] = t[i - 1])
  <2>1. i # 1 => i - 1 \in 1 .. Len(s) - 1 /\ (i - 1) + 1 = i
    BY <1>1
  <2> QED
    BY <1>1, <2>1
<1>3. \A i \in 1 .. Len(s) - 1 : i + 1 \in 1 .. Len(s) /\ t[i] = s[i + 1]
  BY <1>1
<1>4. Gives(s) \subseteq GivenBy(s[1]) \cup Gives(t) /\ Takes(s) \subseteq TakenBy(s[1]) \cup Takes(t)
  BY <1>1, <1>2 DEF Gives, Takes
<1>5. 1 \in DOMAIN s
  BY <1>1
<1>6. GivenBy(s[1]) \cup Gives(t) \subseteq Gives(s) /\ TakenBy(s[1]) \cup Takes(t) \subseteq Takes(s)
  BY <1>1, <1>3, <1>5 DEF Gives, Takes
<1>7. ASSUME Ordered(s)
      PROVE  Ordered(t) /\ Gives(t) \cap TakenBy(s[1]) = {}
  <2>1. \A i, j \in 1 .. Len(s) - 1 : i < j => i + 1 < j + 1
    BY <1>1
  <2>2. Ordered(t)
    BY <1>1, <1>3, <1>7, <2>1 DEF Ordered
  <2>3. \A i \in 1 .. Len(s) - 1 : 1 < i + 1
    BY <1>1
  <2>4. \A i \in DOMAIN t : GivenBy(t[i]) \cap TakenBy(s[1]) = {}
    BY <1>1, <1>3, <1>5, <1>7, <2>3 DEF Ordered
  <2> QED
    BY <2>2, <2>4 DEF Gives
<1> QED
  BY <1>1, <1>4, <1>6, <1>7 DEF t

(* None or one. *)
LEMMA NewsShort ==
  /\ Gives(<<>>) = {} /\ Takes(<<>>) = {}
  /\ Gives(Evs(<<>>)) = {} /\ Takes(Evs(<<>>)) = {}
  /\ \A e : Gives(Evs(<<e>>)) = GivenBy(e.ev) /\ Takes(Evs(<<e>>)) = TakenBy(e.ev)
BY DEF Gives, Takes, Evs

(* What the pairs of a place and an event carry. *)
LEMMA Seconds ==
  ASSUME NEW s, NEW I
  PROVE  /\ { x[2].uuid : x \in { <<i, s[i]>> : i \in I } } = { s[i].uuid : i \in I }
         /\ { x[2].uuids : x \in { <<i, s[i]>> : i \in I } } = { s[i].uuids : i \in I }
<1> DEFINE T == { <<i, s[i]>> : i \in I }
<1>1. \A x \in T : \E i \in I : x[2] = s[i]
  OBVIOUS
<1>2. ASSUME NEW i \in I
      PROVE  \E x \in T : x[2] = s[i]
  <2>1. <<i, s[i]>> \in T /\ <<i, s[i]>>[2] = s[i]
    OBVIOUS
  <2> QED
    BY <2>1
<1> HIDE DEF T
<1>3. { x[2].uuid : x \in T } = { s[i].uuid : i \in I }
  BY <1>1, <1>2
<1>4. { x[2].uuids : x \in T } = { s[i].uuids : i \in I }
  BY <1>1, <1>2
<1> QED
  BY <1>3, <1>4 DEF T

(* The invariant says what RmViewConsistent does. *)
LEMMA RmViewImplies == ChannelTypes /\ RmViewInv => RmViewConsistent
<1> SUFFICES ASSUME ChannelTypes, RmViewInv, ~reused
             PROVE  RmViewConsistent
  BY DEF RmViewConsistent
<1>1. PICK c \in Seq(Msg), b \in Seq(Msg) : c = rmEvents /\ b = Box
  <2>1. Channel("rm") = rmEvents /\ "rm" \in Ends /\ "cacheSched" \in Threads
    BY DEF Channel, Ends, Threads
  <2> QED
    BY <2>1, FlowTypes DEF Box
<1>2. \A kind : Transit("cacheSched", rmEvents, kind)
                  = { <<i, (c \o b)[i]>> : i \in { j \in DOMAIN (c \o b) : (c \o b)[j].kind = kind } }
  BY <1>1 DEF Transit, Box, Evs
<1> DEFINE s == c \o b
<1>3. /\ Len(c) \in Nat /\ Len(b) \in Nat /\ DOMAIN c = 1 .. Len(c) /\ DOMAIN b = 1 .. Len(b)
      /\ DOMAIN s = 1 .. Len(c) + Len(b)
      /\ \A i \in 1 .. Len(c) : s[i] = c[i]
      /\ \A i \in 1 .. Len(b) : s[i + Len(c)] = b[i]
  OBVIOUS
<1>4. \A kind : Transit("cacheSched", rmEvents, kind)
                  = { <<i, s[i]>> : i \in { j \in DOMAIN s : s[j].kind = kind } }
  BY <1>2
<1> HIDE DEF s
<1>5. { x[2].uuid : x \in Transit("cacheSched", rmEvents, "allocated") } = Gives(s)
  <2>1. { x[2].uuid : x \in { <<i, s[i]>> : i \in { j \in DOMAIN s : s[j].kind = "allocated" } } }
          = { s[i].uuid : i \in { j \in DOMAIN s : s[j].kind = "allocated" } }
    BY Seconds
  <2>2. { s[i].uuid : i \in { j \in DOMAIN s : s[j].kind = "allocated" } } = Gives(s)
    BY DEF Gives, GivenBy
  <2> QED
    BY <1>4, <2>1, <2>2
<1>6. UNION { x[2].uuids : x \in Transit("cacheSched", rmEvents, "released") } = Takes(s)
  <2>1. { x[2].uuids : x \in { <<i, s[i]>> : i \in { j \in DOMAIN s : s[j].kind = "released" } } }
          = { s[i].uuids : i \in { j \in DOMAIN s : s[j].kind = "released" } }
    BY Seconds
  <2>2. UNION { s[i].uuids : i \in { j \in DOMAIN s : s[j].kind = "released" } } = Takes(s)
    BY DEF Takes, TakenBy
  <2> QED
    BY <1>4, <2>1, <2>2
<1>7. \A i \in DOMAIN s : \/ i \in DOMAIN c /\ s[i] = c[i]
                          \/ i - Len(c) \in DOMAIN b /\ s[i] = b[i - Len(c)]
  <2> SUFFICES ASSUME NEW i \in 1 .. Len(c) + Len(b), i \notin 1 .. Len(c)
               PROVE  i - Len(c) \in 1 .. Len(b) /\ s[i] = b[i - Len(c)]
    BY <1>3
  <2>1. i - Len(c) \in 1 .. Len(b) /\ (i - Len(c)) + Len(c) = i
    BY <1>3
  <2> QED
    BY <1>3, <2>1
<1>8. /\ \A i \in DOMAIN c : i \in DOMAIN s /\ s[i] = c[i]
      /\ \A i \in DOMAIN b : i + Len(c) \in DOMAIN s /\ s[i + Len(c)] = b[i]
  BY <1>3
<1>9. Gives(s) = Gives(c) \cup Gives(b)
  <2>1. Gives(s) \subseteq Gives(c) \cup Gives(b)
    BY <1>7 DEF Gives
  <2>2. Gives(c) \cup Gives(b) \subseteq Gives(s)
    BY <1>8 DEF Gives
  <2> QED
    BY <2>1, <2>2
<1>10. Takes(s) = Takes(c) \cup Takes(b)
  <2>1. Takes(s) \subseteq Takes(c) \cup Takes(b)
    BY <1>7 DEF Takes
  <2>2. Takes(c) \cup Takes(b) \subseteq Takes(s)
    BY <1>8 DEF Takes
  <2> QED
    BY <2>1, <2>2
<1>11. rmAllocs \cup Gives(s) = Believed /\ Takes(s) = Withdrawn
  BY <1>1, <1>9, <1>10 DEF Believed, Withdrawn
<1> QED
  BY <1>5, <1>6, <1>11 DEF RmViewConsistent, RmViewInv, LiveUuids

(* A step the resource manager will not hear of. *)
LEMMA RmViewSame ==
  ASSUME RmViewInv, UNCHANGED <<rmEvents, rmAllocs, appAllocs, allocKey>>,
         outbox'["cacheSched"] = outbox["cacheSched"], ~reused' => ~reused
  PROVE  RmViewInv'
<1>1. Box' = Box
  BY DEF Box, Evs
<1>2. Believed' = Believed /\ Withdrawn' = Withdrawn
  BY <1>1 DEF Believed, Withdrawn, Gives, Takes
<1>3. LiveUuids' = LiveUuids /\ Issued' = Issued
  BY DEF LiveUuids, Live, Issued
<1>4. (Gives(Box) \cap Takes(rmEvents))' = Gives(Box) \cap Takes(rmEvents)
  BY <1>1 DEF Gives, Takes
<1>5. Ordered(rmEvents)' <=> Ordered(rmEvents)
  BY DEF Ordered
<1> QED
  BY <1>2, <1>3, <1>4, <1>5 DEF RmViewInv

(* Handing over an event: the order in which the cache posts is kept. *)
LEMMA RmViewSend ==
  ASSUME ChannelTypes, Routed, RmViewInv, NEW s \in Threads, Send(s)
  PROVE  RmViewInv'
<1>1. PICK c \in Seq(Msg), box \in Seq(Envelope) : c = rmEvents /\ box = outbox[s]
  <2>1. Channel("rm") = rmEvents /\ "rm" \in Ends
    BY DEF Channel, Ends
  <2> QED
    BY <2>1, FlowTypes
<1>2. box # <<>> /\ outbox' = [outbox EXCEPT ![s] = Tail(box)] /\ outbox'[s] = Tail(box)
  BY <1>1 DEF Send, ChannelTypes
<1>3. UNCHANGED <<rmAllocs, appAllocs, allocKey, reused>>
  BY DEF Send, vars, appVars, rmVars
<1>4. PICK e \in Envelope : e = Head(box)
  BY <1>2, EvsTail
<1>5. e.ev \in Msg /\ <<s, e.to, e.ev.kind>> \in Routes
  <2>1. e.ev \in Msg
    BY FlowTypes
  <2>2. 1 \in DOMAIN box /\ Head(box) = box[1]
    BY <1>2
  <2> QED
    BY <1>1, <1>4, <2>1, <2>2 DEF Routed
<1>6. \/ e.to = "rm" /\ rmEvents' = c \o <<e.ev>>
      \/ e.to # "rm" /\ rmEvents' = c
  BY <1>1, <1>4 DEF Send
<1>7. LiveUuids' = LiveUuids /\ Issued' = Issued
  BY <1>3 DEF LiveUuids, Live, Issued
<1>8. \/ s = "cacheSched" /\ e.to = "rm"
      \/ GivenBy(e.ev) = {} /\ TakenBy(e.ev) = {}
  BY <1>5 DEF Routes, GivenBy, TakenBy
<1>9. PICK g, t : g = GivenBy(e.ev) /\ t = TakenBy(e.ev)
  OBVIOUS
<1>10. CASE s = "cacheSched"
  <2>1. Box = Evs(box) /\ Tail(box) = <<>> /\ Len(outbox'["cacheSched"]) = 0 /\ Box' = Evs(<<>>)
    <3>1. Len(box) <= 1 /\ Box = Evs(box)
      BY <1>1, <1>10 DEF RmViewInv, Box
    <3>2. Tail(box) = <<>>
      BY <1>2, <3>1
    <3>3. outbox'["cacheSched"] = <<>>
      BY <1>2, <1>10, <3>2
    <3>4. Box' = Evs(<<>>)
      BY <3>3 DEF Box, Evs
    <3> QED
      BY <3>1, <3>2, <3>3, <3>4
  <2>2. Gives(Box) = g /\ Takes(Box) = t
    <3>1. box = <<e>>
      <4>1. box = <<e>> \o Tail(box)
        BY <1>2, <1>4
      <4>2. <<e>> \o <<>> = <<e>>
        OBVIOUS
      <4> QED
        BY <2>1, <4>1, <4>2
    <3>2. Box = Evs(<<e>>)
      BY <2>1, <3>1
    <3>3. Gives(Evs(<<e>>)) = GivenBy(e.ev) /\ Takes(Evs(<<e>>)) = TakenBy(e.ev)
      BY NewsShort
    <3> QED
      BY <1>9, <3>2, <3>3
  <2>3. Gives(Box)' = {} /\ Takes(Box)' = {}
    <3>1. Gives(Box)' = Gives(Box') /\ Takes(Box)' = Takes(Box')
      BY DEF Gives, Takes
    <3> QED
      BY <2>1, <3>1, NewsShort
  <2>4. Ordered(c) /\ g \cap Takes(c) = {}
    BY <1>1, <2>2 DEF RmViewInv
  <2>5. PICK d : d = rmEvents'
    OBVIOUS
  <2>6. /\ Gives(d) = Gives(c) \cup g /\ Takes(d) = Takes(c) \cup t /\ Ordered(d)
    <3>1. CASE d = c \o <<e.ev>>
      BY <1>5, <1>9, <2>4, <3>1, NewsLast
    <3>2. CASE e.to # "rm" /\ d = c
      BY <1>8, <1>9, <2>4, <3>2
    <3> QED
      BY <1>6, <2>5, <3>1, <3>2
  <2>7. Gives(rmEvents)' = Gives(c) \cup g /\ Takes(rmEvents)' = Takes(c) \cup t /\ Ordered(rmEvents)'
    <3>1. /\ Gives(rmEvents)' = Gives(rmEvents') /\ Takes(rmEvents)' = Takes(rmEvents')
          /\ Ordered(rmEvents)' <=> Ordered(rmEvents')
      BY DEF Gives, Takes, Ordered
    <3> QED
      BY <2>5, <2>6, <3>1
  <2>8. Believed' = Believed /\ Withdrawn' = Withdrawn
    BY <1>1, <1>3, <2>2, <2>3, <2>7 DEF Believed, Withdrawn
  <2> QED
    BY <1>3, <1>7, <2>1, <2>3, <2>7, <2>8 DEF RmViewInv
<1>11. CASE s # "cacheSched"
  <2>1. g = {} /\ t = {}
    BY <1>8, <1>9, <1>11
  <2>2. outbox'["cacheSched"] = outbox["cacheSched"] /\ Box' = Box
    BY <1>2, <1>11 DEF ChannelTypes, Box, Evs
  <2>3. PICK d : d = rmEvents'
    OBVIOUS
  <2>4. Gives(d) = Gives(c) /\ Takes(d) = Takes(c) /\ (Ordered(c) => Ordered(d))
    <3>1. CASE d = c \o <<e.ev>>
      BY <1>5, <1>9, <2>1, <3>1, NewsLast
    <3> QED
      BY <1>6, <2>3, <3>1
  <2>5. /\ Gives(rmEvents)' = Gives(rmEvents) /\ Takes(rmEvents)' = Takes(rmEvents)
        /\ Ordered(rmEvents) => Ordered(rmEvents)'
        /\ Gives(Box)' = Gives(Box) /\ Takes(Box)' = Takes(Box)
    <3>1. /\ Gives(rmEvents)' = Gives(rmEvents') /\ Takes(rmEvents)' = Takes(rmEvents')
          /\ Ordered(rmEvents)' <=> Ordered(rmEvents')
          /\ Gives(Box)' = Gives(Box') /\ Takes(Box)' = Takes(Box')
      BY DEF Gives, Takes, Ordered
    <3> QED
      BY <1>1, <2>2, <2>3, <2>4, <3>1
  <2>6. Believed' = Believed /\ Withdrawn' = Withdrawn
    BY <1>3, <2>5 DEF Believed, Withdrawn
  <2> QED
    BY <1>3, <1>7, <2>2, <2>5, <2>6 DEF RmViewInv
<1> QED
  BY <1>10, <1>11

(* The resource manager hears of one more event. *)
LEMMA RmViewReceive ==
  ASSUME ChannelTypes, RmViewInv, RmReceive
  PROVE  RmViewInv'
<1>1. PICK c \in Seq(Msg) : c = rmEvents
  <2>1. Channel("rm") = rmEvents /\ "rm" \in Ends
    BY DEF Channel, Ends
  <2> QED
    BY <2>1, FlowTypes
<1>2. c # <<>> /\ rmEvents' = Tail(c)
  BY <1>1 DEF RmReceive
<1>3. UNCHANGED <<appAllocs, allocKey, reused, outbox>>
  BY DEF RmReceive, vars, appVars
<1>4. PICK g, t : g = GivenBy(Head(c)) /\ t = TakenBy(Head(c))
  OBVIOUS
<1>5. rmAllocs' = (rmAllocs \cup g) \ t /\ (g = {} \/ t = {})
  BY <1>1, <1>4 DEF RmReceive, GivenBy, TakenBy
<1>6. Box' = Box /\ LiveUuids' = LiveUuids /\ Issued' = Issued
  BY <1>3 DEF Box, Evs, LiveUuids, Live, Issued
<1>7. PICK d : d = Tail(c)
  OBVIOUS
<1>8. /\ Gives(c) = g \cup Gives(d) /\ Takes(c) = t \cup Takes(d)
      /\ Ordered(c) => Ordered(d) /\ Gives(d) \cap t = {}
  BY <1>2, <1>4, <1>7, NewsFirst
<1>9. /\ Gives(rmEvents)' = Gives(d) /\ Takes(rmEvents)' = Takes(d) /\ (Ordered(d) => Ordered(rmEvents)')
      /\ Gives(Box)' = Gives(Box) /\ Takes(Box)' = Takes(Box)
  <2>1. /\ Gives(rmEvents)' = Gives(rmEvents') /\ Takes(rmEvents)' = Takes(rmEvents')
        /\ Ordered(rmEvents)' <=> Ordered(rmEvents')
        /\ Gives(Box)' = Gives(Box') /\ Takes(Box)' = Takes(Box')
    BY DEF Gives, Takes, Ordered
  <2> QED
    BY <1>2, <1>6, <1>7, <2>1
<1>10. PICK R, B, bt : R = rmAllocs /\ B = Gives(Box) /\ bt = Takes(Box)
  OBVIOUS
<1>11. /\ Believed = R \cup (g \cup Gives(d)) \cup B /\ Withdrawn = (t \cup Takes(d)) \cup bt
       /\ Believed' = ((R \cup g) \ t) \cup Gives(d) \cup B /\ Withdrawn' = Takes(d) \cup bt
  BY <1>1, <1>5, <1>8, <1>9, <1>10 DEF Believed, Withdrawn
<1>12. B \cap t = {} /\ Gives(d) \cap t = {} /\ Ordered(d) /\ B \cap Takes(d) = {}
  BY <1>1, <1>8, <1>10 DEF RmViewInv
<1>13. Believed' \ Withdrawn' = Believed \ Withdrawn
  BY <1>5, <1>11, <1>12
<1>14. Believed' \cup Withdrawn' \subseteq Believed \cup Withdrawn
  BY <1>11
<1> QED
  BY <1>3, <1>6, <1>9, <1>10, <1>12, <1>13, <1>14 DEF RmViewInv

(* What the cache tells of a step that gives g and takes t. *)
LEMMA RmViewHandled ==
  ASSUME ChannelTypes, RmViewInv, NEW msgs, Handled("cacheSched", "cache", msgs), Len(msgs) <= 1,
         UNCHANGED <<rmAllocs, reused>>,
         NEW g, g = Gives(Evs(msgs)), NEW t, t = Takes(Evs(msgs)),
         g \cap Issued = {}, Issued \cup g \subseteq Issued',
         t \subseteq Issued, LiveUuids' \subseteq Issued',
         ~reused => LiveUuids' = (LiveUuids \cup g) \ t
  PROVE  RmViewInv'
<1>1. /\ outbox["cacheSched"] = <<>> /\ outbox'["cacheSched"] = msgs /\ rmEvents' = rmEvents
  BY DEF Handled, ChannelTypes, Threads, Ends, Channel
<1>2. Box = Evs(<<>>) /\ Box' = Evs(msgs)
  BY <1>1 DEF Box, Evs
<1>3. Gives(Box) = {} /\ Takes(Box) = {}
  BY <1>2, NewsShort
<1>4. /\ Gives(Box)' = g /\ Takes(Box)' = t
      /\ Gives(rmEvents)' = Gives(rmEvents) /\ Takes(rmEvents)' = Takes(rmEvents)
      /\ Ordered(rmEvents) => Ordered(rmEvents)'
  <2>1. /\ Gives(rmEvents)' = Gives(rmEvents') /\ Takes(rmEvents)' = Takes(rmEvents')
        /\ Ordered(rmEvents)' <=> Ordered(rmEvents')
        /\ Gives(Box)' = Gives(Box') /\ Takes(Box)' = Takes(Box')
    BY DEF Gives, Takes, Ordered
  <2> QED
    BY <1>1, <1>2, <2>1
<1>5. Believed' = Believed \cup g /\ Withdrawn' = Withdrawn \cup t
  BY <1>3, <1>4 DEF Believed, Withdrawn
<1>6. g \cap Takes(rmEvents) = {} /\ g \cap Withdrawn = {}
  BY DEF RmViewInv, Withdrawn
<1>7. Believed' \cup Withdrawn' \cup LiveUuids' \subseteq Issued'
  BY <1>5 DEF RmViewInv
<1>8. ~reused => Believed' \ Withdrawn' = LiveUuids'
  BY <1>5, <1>6 DEF RmViewInv
<1>9. Len(outbox'["cacheSched"]) <= 1 /\ (Gives(Box) \cap Takes(rmEvents))' = {} /\ Ordered(rmEvents)'
  BY <1>1, <1>4, <1>6 DEF RmViewInv
<1> QED
  BY <1>7, <1>8, <1>9 DEF RmViewInv

(* An application lets go of some of its allocations. *)
LEMMA UuidsWithout ==
  ASSUME CacheInv, NEW app \in Apps, NEW R, R \subseteq appAllocs[app],
         appAllocs' = [appAllocs EXCEPT ![app] = @ \ R]
  PROVE  /\ { a.uuid : a \in R } \subseteq LiveUuids
         /\ LiveUuids' = LiveUuids \ { a.uuid : a \in R }
<1>1. appAllocs \in [Apps -> SUBSET Allocation]
  BY DEF CacheInv, TypeOK
<1>2. \A b \in Apps : \A a \in appAllocs[b] : a.app = b /\ a \in allocations
  BY DEF CacheInv, AppAccounting
<1>3. \A a, b \in allocations : a.uuid = b.uuid => a = b
  BY DEF CacheInv, MapUnique
<1>4. Live' = Live \ R
  <2>1. \A b \in Apps : appAllocs'[b] = IF b = app THEN appAllocs[b] \ R ELSE appAllocs[b]
    BY <1>1
  <2>2. \A b \in Apps : b # app => appAllocs[b] \cap R = {}
    BY <1>2
  <2>3. Live' = UNION { appAllocs'[b] : b \in Apps } /\ Live = UNION { appAllocs[b] : b \in Apps }
    BY DEF Live
  <2>4. Live' \subseteq Live \ R
    BY <2>1, <2>2, <2>3
  <2>5. Live \ R \subseteq Live'
    BY <2>1, <2>3
  <2> QED
    BY <2>4, <2>5
<1>5. R \subseteq Live /\ Live \subseteq allocations
  BY <1>2 DEF Live
<1>6. LiveUuids' = { a.uuid : a \in Live' }
  BY DEF LiveUuids
<1> QED
  BY <1>3, <1>4, <1>5, <1>6 DEF LiveUuids

(* The cache allocates with a uuid of its own. *)
LEMMA LiveWith ==
  ASSUME CoreInv, NEW p \in Proposal, AddNewAllocation(p), NEW k \in Keys, Issued # Uuids,
         \A a \in allocations' \ allocations : a.uuid = NextUuid,
         allocKey' = [allocKey EXCEPT ![NextUuid] = k]
  PROVE  /\ NextUuid \notin Issued /\ Issued' = Issued \cup {NextUuid}
         /\ LiveUuids' = LiveUuids \cup {NextUuid}
<1>1. NextUuid \in Uuids \ Issued
  BY DEF NextUuid, Issued
<1>2. Issued' = Issued \cup {NextUuid}
  <2>1. allocKey \in [Uuids -> Keys \cup {NoKey}] /\ k # NoKey
    BY CoreAssumption DEF CoreInv, KeyTypes
  <2>2. PICK n : n = NextUuid
    OBVIOUS
  <2>3. \A u \in Uuids : allocKey'[u] = IF u = n THEN k ELSE allocKey[u]
    BY <2>1, <2>2
  <2>4. Issued' = { u \in Uuids : allocKey'[u] # NoKey }
    BY DEF Issued
  <2> QED
    BY <1>1, <2>1, <2>2, <2>3, <2>4 DEF Issued
<1>3. PICK a : /\ a \notin allocations /\ allocations' = allocations \cup {a} /\ a.app \in Apps
               /\ appAllocs' = [appAllocs EXCEPT ![a.app] = @ \cup {a}]
  <2>1. PICK u \in Uuids : LET a == AllocationFor(u, p) IN
          /\ FreshUuid(u)
          /\ appAllocs' = [appAllocs EXCEPT ![a.app] = @ \cup {a}]
          /\ allocations' = allocations \cup {a}
    BY DEF AddNewAllocation, Allocate
  <2>2. AllocationFor(u, p).uuid = u /\ AllocationFor(u, p).app \in Apps
    BY DEF AllocationFor, Proposal
  <2> QED
    BY <2>1, <2>2 DEF FreshUuid
<1>4. a.uuid = NextUuid
  BY <1>3
<1>5. appAllocs \in [Apps -> SUBSET Allocation]
  BY DEF CoreInv, CacheInv, TypeOK
<1>6. Live' = Live \cup {a}
  <2>1. \A b \in Apps : \/ appAllocs'[b] = appAllocs[b]
                        \/ b = a.app /\ appAllocs'[b] = appAllocs[b] \cup {a}
    BY <1>3, <1>5
  <2>5. appAllocs'[a.app] = appAllocs[a.app] \cup {a}
    BY <1>3, <1>5
  <2>2. Live' = UNION { appAllocs'[b] : b \in Apps } /\ Live = UNION { appAllocs[b] : b \in Apps }
    BY DEF Live
  <2>3. Live' \subseteq Live \cup {a}
    <3>1. \A b \in Apps : appAllocs'[b] \subseteq appAllocs[b] \cup {a}
      BY <2>1
    <3> QED
      BY <2>2, <3>1
  <2>4. Live \cup {a} \subseteq Live'
    <3>1. a \in appAllocs'[a.app] /\ \A b \in Apps : appAllocs[b] \subseteq appAllocs'[b]
      BY <2>1, <2>5
    <3> QED
      BY <1>3, <2>2, <3>1
  <2> QED
    BY <2>3, <2>4
<1>7. LiveUuids' = { b.uuid : b \in Live' }
  BY DEF LiveUuids
<1> QED
  BY <1>1, <1>2, <1>4, <1>6, <1>7 DEF LiveUuids

(* The cache tells the resource manager what it gives and takes back. *)
LEMMA RmViewCache ==
  ASSUME CoreInv, PromiseInv, Exclusive, RmViewInv, CacheSched
  PROVE  RmViewInv'
<1>0. ChannelTypes /\ CacheInv /\ LiveUuids \subseteq Issued
  BY DEF CoreInv, RmViewInv
<1>1. UNCHANGED <<rmAllocs, reused>> /\ cacheEvents # <<>>
  BY DEF CacheSched, CacheProposal, CacheRelease, CacheRemovedApp, CacheRejectedApp,
         CacheTake, rmVars
<1>2. PICK ev \in CacheMsg : ev = Head(cacheEvents)
  BY <1>0, <1>1 DEF ChannelTypes
<1>3. ASSUME UNCHANGED allocKey, NEW msgs, Handled("cacheSched", "cache", msgs), Len(msgs) <= 1,
             NEW t, Gives(Evs(msgs)) = {}, Takes(Evs(msgs)) = t, t \subseteq LiveUuids,
             LiveUuids' \subseteq LiveUuids, ~reused => LiveUuids' = LiveUuids \ t
      PROVE  RmViewInv'
  <2>1. Issued' = Issued
    BY <1>3 DEF Issued
  <2>2. PICK g : g = {}
    OBVIOUS
  <2>3. /\ g = Gives(Evs(msgs)) /\ t = Takes(Evs(msgs))
        /\ g \cap Issued = {} /\ Issued \cup g \subseteq Issued' /\ t \subseteq Issued
        /\ LiveUuids' \subseteq Issued' /\ (~reused => LiveUuids' = (LiveUuids \cup g) \ t)
    BY <1>0, <1>3, <2>1, <2>2
  <2> QED
    BY <1>0, <1>1, <1>3, <2>3, RmViewHandled
<1>4. Len(<<>>) <= 1 /\ \A e : Len(<<e>>) <= 1
  OBVIOUS
<1>5. UNCHANGED appAllocs => LiveUuids' = LiveUuids
  BY DEF LiveUuids, Live
<1>6. CASE CacheProposal
  <2>1. ev.kind = "proposal"
    BY <1>0, <1>2, <1>6, CacheSchedHandled
  <2>2. ev.key \in Keys /\ ev.p \in Proposal
    BY <2>1, CacheFields
  <2>3. CASE /\ Issued # Uuids /\ AddNewAllocation(ev.p)
             /\ \A a \in allocations' \ allocations : a.uuid = NextUuid
             /\ allocKey' = [allocKey EXCEPT ![NextUuid] = ev.key]
             /\ Handled("cacheSched", "cache", <<ToRM([kind |-> "allocated", uuid |-> NextUuid])>>)
    <3>1. /\ NextUuid \notin Issued /\ Issued' = Issued \cup {NextUuid}
          /\ LiveUuids' = LiveUuids \cup {NextUuid}
      BY <2>2, <2>3, LiveWith
    <3>2. PICK e, u : u = NextUuid /\ e = ToRM([kind |-> "allocated", uuid |-> u])
      OBVIOUS
    <3>3. GivenBy(e.ev) = {u} /\ TakenBy(e.ev) = {}
      BY <3>2 DEF ToRM, GivenBy, TakenBy
    <3>4. Gives(Evs(<<e>>)) = {u} /\ Takes(Evs(<<e>>)) = {}
      BY <3>3, NewsShort
    <3>5. PICK msgs : msgs = <<e>>
      OBVIOUS
    <3>6. PICK g, t : g = {u} /\ t = {}
      OBVIOUS
    <3>7. /\ Handled("cacheSched", "cache", msgs) /\ Len(msgs) <= 1
          /\ g = Gives(Evs(msgs)) /\ t = Takes(Evs(msgs))
      BY <1>4, <2>3, <3>2, <3>4, <3>5, <3>6
    <3>8. /\ g \cap Issued = {} /\ Issued \cup g \subseteq Issued' /\ t \subseteq Issued
          /\ LiveUuids' \subseteq Issued' /\ (~reused => LiveUuids' = (LiveUuids \cup g) \ t)
      BY <1>0, <3>1, <3>2, <3>6
    <3> QED
      BY <1>0, <1>1, <3>7, <3>8, RmViewHandled
  <2>4. CASE /\ UNCHANGED <<vars, allocKey>>
             /\ Handled("cacheSched", "cache", <<ToSched([kind |-> "rejected", key |-> ev.key])>>)
    <3>1. PICK e : e = ToSched([kind |-> "rejected", key |-> ev.key])
      OBVIOUS
    <3>2. GivenBy(e.ev) = {} /\ TakenBy(e.ev) = {}
      BY <3>1 DEF ToSched, GivenBy, TakenBy
    <3>3. Gives(Evs(<<e>>)) = {} /\ Takes(Evs(<<e>>)) = {}
      BY <3>2, NewsShort
    <3>4. LiveUuids' = LiveUuids
      BY <1>5, <2>4 DEF vars, appVars
    <3>5. PICK msgs : msgs = <<e>>
      OBVIOUS
    <3>6. /\ UNCHANGED allocKey /\ Handled("cacheSched", "cache", msgs) /\ Len(msgs) <= 1
          /\ Gives(Evs(msgs)) = {} /\ Takes(Evs(msgs)) = {}
      BY <1>4, <2>4, <3>1, <3>3, <3>5
    <3> QED
      BY <1>3, <3>4, <3>6
  <2> QED
    BY <1>0, <1>2, <1>6, <2>3, <2>4, CacheSchedHandled
<1>7. ASSUME UNCHANGED allocKey, NEW app \in Apps, NEW R, R \subseteq appAllocs[app],
             appAllocs' = [appAllocs EXCEPT ![app] = @ \ R],
             \/ R = {} /\ Handled("cacheSched", "cache", <<>>)
             \/ Handled("cacheSched", "cache", <<ToRM([kind |-> "released", uuids |-> { a.uuid : a \in R }])>>)
      PROVE  RmViewInv'
  <2>1. PICK t : t = { a.uuid : a \in R }
    OBVIOUS
  <2>2. t \subseteq LiveUuids /\ LiveUuids' = LiveUuids \ t
    BY <1>0, <1>7, <2>1, UuidsWithout
  <2>3. PICK e : e = ToRM([kind |-> "released", uuids |-> t])
    OBVIOUS
  <2>4. Gives(Evs(<<e>>)) = {} /\ Takes(Evs(<<e>>)) = t
    <3>1. GivenBy(e.ev) = {} /\ TakenBy(e.ev) = t
      BY <2>3 DEF ToRM, GivenBy, TakenBy
    <3> QED
      BY <3>1, NewsShort
  <2>5. PICK msgs : /\ Handled("cacheSched", "cache", msgs) /\ Len(msgs) <= 1
                    /\ Gives(Evs(msgs)) = {} /\ Takes(Evs(msgs)) = t
    <3>1. CASE R = {} /\ Handled("cacheSched", "cache", <<>>)
      <4>1. t = {}
        BY <2>1, <3>1
      <4> QED
        BY <1>4, <3>1, <4>1, NewsShort
    <3>2. CASE Handled("cacheSched", "cache", <<e>>)
      BY <1>4, <2>4, <3>2
    <3> QED
      BY <1>7, <2>1, <2>3, <3>1, <3>2
  <2> QED
    BY <1>3, <1>7, <2>2, <2>5
<1>8. ASSUME UNCHANGED <<vars, allocKey>>, Handled("cacheSched", "cache", <<>>)
      PROVE  RmViewInv'
  <2>1. LiveUuids' = LiveUuids
    BY <1>5, <1>8 DEF vars, appVars
  <2>2. Gives(Evs(<<>>)) = {} /\ Takes(Evs(<<>>)) = {}
    BY NewsShort
  <2>3. PICK msgs : msgs = <<>>
    OBVIOUS
  <2>4. /\ UNCHANGED allocKey /\ Handled("cacheSched", "cache", msgs) /\ Len(msgs) <= 1
        /\ Gives(Evs(msgs)) = {} /\ Takes(Evs(msgs)) = {}
    BY <1>4, <1>8, <2>2, <2>3
  <2> QED
    BY <1>3, <2>1, <2>4
<1>9. appAllocs \in [Apps -> SUBSET Allocation]
  BY <1>0 DEF CacheInv, TypeOK
<1>10. CASE CacheRelease
  <2>1. /\ ev.kind = "release" /\ UNCHANGED allocKey
        /\ \/ /\ ReleaseAllocations(ev.app, Named(ev))
              /\ Handled("cacheSched", "cache",
                         <<ToRM([kind |-> "released", uuids |-> { a.uuid : a \in Named(ev) }])>>)
           \/ UNCHANGED vars /\ Handled("cacheSched", "cache", <<>>)
    BY <1>0, <1>2, <1>10, CacheSchedHandled
  <2>2. ev.app \in Apps
    BY <2>1, CacheFields
  <2>3. ASSUME ReleaseAllocations(ev.app, Named(ev)),
               Handled("cacheSched", "cache",
                       <<ToRM([kind |-> "released", uuids |-> { a.uuid : a \in Named(ev) }])>>)
        PROVE  RmViewInv'
    <3>1. PICK R : R = Named(ev)
      OBVIOUS
    <3>2. R \subseteq appAllocs[ev.app] /\ appAllocs' = [appAllocs EXCEPT ![ev.app] = @ \ R]
      BY <2>3, <3>1 DEF ReleaseAllocations, Named
    <3> QED
      BY <1>7, <2>1, <2>2, <2>3, <3>1, <3>2
  <2> QED
    BY <1>8, <2>1, <2>3
<1>11. CASE CacheRemovedApp
  <2>1. PICK R : R = appAllocs[ev.app] \cap allocations
    OBVIOUS
  <2>2. /\ ev.kind = "removedApp" /\ UNCHANGED allocKey
        /\ RemoveApplication(ev.app) \/ (ev.app \notin apps /\ UNCHANGED vars)
        /\ \/ R = {} /\ Handled("cacheSched", "cache", <<>>)
           \/ Handled("cacheSched", "cache", <<ToRM([kind |-> "released", uuids |-> { a.uuid : a \in R }])>>)
    BY <1>0, <1>2, <1>11, <2>1, CacheSchedHandled
  <2>3. ev.app \in Apps
    BY <2>2, CacheFields
  <2>4. R = appAllocs[ev.app] /\ (ev.app \notin apps => appAllocs[ev.app] = {})
    BY <1>0, <2>1, <2>3 DEF CacheInv, AppAccounting
  <2>5. appAllocs' = [appAllocs EXCEPT ![ev.app] = @ \ R]
    <3>1. CASE RemoveApplication(ev.app)
      <4>1. appAllocs' = [appAllocs EXCEPT ![ev.app] = {}]
        BY <3>1 DEF RemoveApplication, DropApplication
      <4> QED
        BY <1>9, <2>3, <2>4, <4>1
    <3>2. CASE ev.app \notin apps /\ UNCHANGED vars
      <4>1. appAllocs' = appAllocs
        BY <3>2 DEF vars, appVars
      <4> QED
        BY <1>9, <2>3, <2>4, <3>2, <4>1
    <3> QED
      BY <2>2, <3>1, <3>2
  <2> QED
    BY <1>7, <2>2, <2>3, <2>4, <2>5
<1>12. CASE CacheRejectedApp
  <2>1. /\ ev.kind = "rejectedApp" /\ UNCHANGED allocKey /\ DropApplication(ev.app)
        /\ Handled("cacheSched", "cache", <<>>)
    BY <1>0, <1>2, <1>12, CacheSchedHandled
  <2>2. ev.app \in Apps
    BY <2>1, CacheFields
  <2>3. appAllocs' = [appAllocs EXCEPT ![ev.app] = {}]
    BY <2>1 DEF DropApplication
  <2>4. LiveUuids' \subseteq LiveUuids
    <3>1. PICK R : R = appAllocs[ev.app]
      OBVIOUS
    <3>2. appAllocs' = [appAllocs EXCEPT ![ev.app] = @ \ R]
      BY <1>9, <2>2, <2>3, <3>1
    <3> QED
      BY <1>0, <2>2, <3>1, <3>2, UuidsWithout
  <2>5. ~reused => LiveUuids' = LiveUuids
    <3> SUFFICES ASSUME ~reused
                 PROVE  LiveUuids' = LiveUuids
      OBVIOUS
    <3>1. Fresh(ev.app)
      BY <1>0, <1>1, <1>2, <2>1, HeadPromise DEF PromiseInv
    <3>2. appAllocs' = appAllocs
      BY <1>9, <2>2, <2>3, <3>1 DEF Fresh
    <3> QED
      BY <1>5, <3>2
  <2>6. PICK msgs, t : msgs = <<>> /\ t = {}
    OBVIOUS
  <2>7. /\ UNCHANGED allocKey /\ Handled("cacheSched", "cache", msgs) /\ Len(msgs) <= 1
        /\ Gives(Evs(msgs)) = {} /\ Takes(Evs(msgs)) = t
    BY <1>4, <2>1, <2>6, NewsShort
  <2>8. t \subseteq LiveUuids /\ (~reused => LiveUuids' = LiveUuids \ t)
    BY <2>5, <2>6
  <2> QED
    BY <1>3, <2>4, <2>7, <2>8
<1> QED
  BY <1>6, <1>10, <1>11, <1>12 DEF CacheSched

(* Every step keeps RmViewInv. *)
LEMMA RmViewStep ==
  ASSUME CoreInv, Routed, PromiseInv, Exclusive, RmViewInv, [CoreNext]_coreVars
  PROVE  RmViewInv'
<1>0. ChannelTypes /\ outbox \in [Threads -> Seq(Envelope)] /\ reused \in BOOLEAN
  BY DEF CoreInv, ChannelTypes, RmTypes
<1>1. CASE RM \/ Find \/ Place \/ Quiet \/ UNCHANGED coreVars
  <2>1. UNCHANGED <<vars, outbox, allocKey>>
    BY <1>1, OtherSteps
  <2>2. UNCHANGED <<rmEvents, rmAllocs>> /\ (~reused' => ~reused)
    <3>1. CASE RM
      <4>1. UNCHANGED <<rmEvents, rmAllocs>>
        BY <3>1 DEF RM, RmSubmit, RmRemoveApp, RmAsk, RmRelease, RmSend
      <4>2. ~reused' => ~reused
        <5>1. CASE \E app \in Apps, q \in QueueNames : RmSubmit(app, q)
          <6>1. PICK app \in Apps : reused' = (reused \/ rmApp[app] # "none")
            BY <5>1 DEF RmSubmit
          <6> QED
            BY <6>1, Zenon
        <5>2. CASE UNCHANGED reused
          BY <5>2
        <5>3. \/ \E app \in Apps, q \in QueueNames : RmSubmit(app, q)
              \/ UNCHANGED reused
          BY <3>1 DEF RM, RmRemoveApp, RmAsk, RmRelease
        <5> QED
          BY <5>1, <5>2, <5>3
      <4> QED
        BY <4>1, <4>2
    <3>2. CASE Find \/ Place \/ Quiet \/ UNCHANGED coreVars
      BY <3>2 DEF Find, FindAllocationAsks, Place, TryBatchAllocation, Quiet, coreVars, channels, rmVars
    <3> QED
      BY <1>1, <3>1, <3>2
  <2> QED
    BY <2>1, <2>2, RmViewSame DEF vars, appVars
<1>2. CASE \E t \in Threads : Send(t)
  BY <1>0, <1>2, RmViewSend
<1>3. CASE RmReceive
  BY <1>0, <1>3, RmViewReceive
<1>4. CASE CacheSched
  BY <1>4, RmViewCache
<1>5. CASE CacheRM \/ SchedEvent \/ Confirm
  <2>1. UNCHANGED <<rmEvents, rmAllocs, allocKey, reused>>
    BY <1>5 DEF CacheRM, CacheAddApp, CacheAsk, CachePassOn, CacheRMTake, SchedEvent, SchedAddApp,
                SchedRemoveApp, SchedAsk, SchedRejected, SchedRelease, SchedTake,
                Confirm, ConfirmAllocation, rmVars
  <2>2. UNCHANGED appAllocs
    BY <1>5 DEF CacheRM, CacheAddApp, CacheAsk, CachePassOn, SchedEvent, SchedAddApp,
                SchedRemoveApp, SchedAsk, SchedRejected, SchedRelease, Confirm, ConfirmAllocation,
                AddNewApplication, RunApplication, AcceptApplication, RejectApplication, vars, appVars
  <2>3. \E t \in Threads : \E msgs : t # "cacheSched" /\ outbox' = [outbox EXCEPT ![t] = msgs]
    <3>1. CASE CacheRM
      BY <3>1 DEF CacheRM, CacheAddApp, CacheAsk, CachePassOn, Post, Threads
    <3>2. CASE SchedEvent
      <4>1. outbox' = outbox \/ \E msgs : outbox' = [outbox EXCEPT !["schedEvent"] = msgs]
        BY <3>2 DEF SchedEvent, SchedAddApp, SchedRemoveApp, SchedAsk, SchedRejected, SchedRelease, Post
      <4>2. outbox = [outbox EXCEPT !["schedEvent"] = outbox["schedEvent"]]
        BY <1>0
      <4> QED
        BY <4>1, <4>2 DEF Threads
    <3>3. CASE Confirm
      <4>1. outbox' = outbox \/ \E msgs : outbox' = [outbox EXCEPT !["schedule"] = msgs]
        BY <3>3 DEF Confirm, ConfirmAllocation, Post
      <4>2. outbox = [outbox EXCEPT !["schedule"] = outbox["schedule"]]
        BY <1>0
      <4> QED
        BY <4>1, <4>2 DEF Threads
    <3> QED
      BY <1>5, <3>1, <3>2, <3>3
  <2>4. outbox'["cacheSched"] = outbox["cacheSched"]
    BY <1>0, <2>3 DEF Threads
  <2> QED
    BY <2>1, <2>2, <2>4, RmViewSame
<1> QED
  BY <1>1, <1>2, <1>3, <1>4, <1>5 DEF CoreNext

(* At the start there is nothing to hear of. *)
LEMMA RmViewInit == CoreInit => RmViewInv
<1> SUFFICES ASSUME CoreInit
             PROVE  RmViewInv
  OBVIOUS
<1>1. /\ outbox["cacheSched"] = <<>> /\ rmEvents = <<>> /\ rmAllocs = {}
      /\ \A b \in Apps : appAllocs[b] = {}
  BY DEF CoreInit, Threads
<1>2. LiveUuids = {}
  BY <1>1 DEF LiveUuids, Live
<1>3. Gives(Box) = {} /\ Takes(Box) = {} /\ Gives(rmEvents) = {} /\ Takes(rmEvents) = {}
  BY <1>1, NewsShort DEF Box
<1>4. Ordered(rmEvents)
  BY <1>1 DEF Ordered
<1> QED
  BY <1>1, <1>2, <1>3, <1>4 DEF RmViewInv, Believed, Withdrawn

(* As long as no application id is used twice: once it has received what   *)
(* is on its way, the resource manager believes in exactly the allocations *)
(* the cache holds, whatever the order in which the goroutines of cache    *)
(* and scheduler get to send.                                              *)
THEOREM RmViewKept == CoreSpec => []RmViewConsistent
<1>1. CoreInit => RmViewInv
  BY RmViewInit
<1>2. RmViewInv /\ FlowInv /\ PromiseInv /\ Exclusive /\ [CoreNext]_coreVars => RmViewInv'
  BY RmViewStep DEF FlowInv
<1>3. FlowInv => Exclusive
  BY FlowExclusive
<1>4. FlowInv /\ RmViewInv => RmViewConsistent
  BY RmViewImplies DEF FlowInv, CoreInv
<1> QED
  BY <1>1, <1>2, <1>3, <1>4, FlowInvariant, PromisesKept, PTL DEF CoreSpec

-----------------------------------------------------------------------------
(* The theorems about partitions whose callers keep the contract are about *)
(* the core as well: PartitionCacheProofs, with the promises made.         *)

Kept == INSTANCE PartitionCacheProofs WITH ProposalsFit <- TRUE, ReportsWait <- TRUE,
                                           ReportsOwn <- TRUE

(* The partition that the steps of the core are steps of is that one.      *)
LEMMA SameActions == Cache!Next => Kept!Next
<1>1. \A p : Cache!AddNewAllocation(p) <=> Kept!AddNewAllocation(p)
  BY DEF Cache!AddNewAllocation, Kept!AddNewAllocation, Cache!Allocate, Kept!Allocate,
         Cache!AllocationFor, Kept!AllocationFor, Cache!CanAllocate, Kept!CanAllocate,
         Cache!FitsQueue, Kept!FitsQueue, Cache!FreshUuid, Kept!FreshUuid, Cache!Idle, Kept!Idle,
         Cache!IncAllocatedResource, Kept!IncAllocatedResource, Cache!MaxResource, Kept!MaxResource,
         Cache!Promised, Kept!Promised, Cache!WithinMax, Kept!WithinMax
<1>2. \A app, R : Cache!ReleaseAllocations(app, R) <=> Kept!ReleaseAllocations(app, R)
  BY DEF Cache!Allocation, Kept!Allocation, Cache!CanDec, Kept!CanDec, Cache!DecAllocatedResource,
         Kept!DecAllocatedResource, Cache!Idle, Kept!Idle, Cache!ReleaseAllocations,
         Kept!ReleaseAllocations, Cache!SizeOf, Kept!SizeOf, Cache!TotalOf, Kept!TotalOf,
         Cache!UnitsOf, Kept!UnitsOf, Cache!Weight, Kept!Weight, Cache!Cardinality, Kept!Cardinality
<1>3. \A n, c, reports : Cache!AddNewNode(n, c, reports) <=> Kept!AddNewNode(n, c, reports)
  BY DEF Cache!AddNewNode, Kept!AddNewNode, Cache!Idle, Kept!Idle, Cache!Promised, Kept!Promised,
         Cache!appVars, Kept!appVars
<1>4. Cache!AddReportedAllocation <=> Kept!AddReportedAllocation
  BY DEF Cache!AddReportedAllocation, Kept!AddReportedAllocation, Cache!Allocate, Kept!Allocate,
         Cache!AllocationFor, Kept!AllocationFor, Cache!CanAllocate, Kept!CanAllocate,
         Cache!FitsQueue, Kept!FitsQueue, Cache!FreshUuid, Kept!FreshUuid,
         Cache!IncAllocatedResource, Kept!IncAllocatedResource, Cache!MaxResource, Kept!MaxResource,
         Cache!ReportedProposal, Kept!ReportedProposal, Cache!WithinMax, Kept!WithinMax
<1>5. Cache!RejectReportedAllocation <=> Kept!RejectReportedAllocation
  BY DEF Cache!CanAllocate, Kept!CanAllocate, Cache!FitsQueue, Kept!FitsQueue, Cache!Idle,
         Kept!Idle, Cache!MaxResource, Kept!MaxResource, Cache!RejectReportedAllocation,
         Kept!RejectReportedAllocation, Cache!ReportedProposal, Kept!ReportedProposal,
         Cache!WithinMax, Kept!WithinMax, Cache!appVars, Kept!appVars, Cache!nodeVars, Kept!nodeVars
<1>6. Cache!FinishAddNode <=> Kept!FinishAddNode
  BY DEF Cache!FinishAddNode, Kept!FinishAddNode, Cache!Idle, Kept!Idle, Cache!nodeVars,
         Kept!nodeVars
<1>7. \A n : Cache!RemoveNode(n) <=> Kept!RemoveNode(n)
  BY DEF Cache!Idle, Kept!Idle, Cache!RemoveNode, Kept!RemoveNode, Cache!appVars, Kept!appVars,
         Cache!nodeVars, Kept!nodeVars
<1>8. \A a : Cache!RemoveNodeAllocation(a) <=> Kept!RemoveNodeAllocation(a)
  BY DEF Cache!CanDec, Kept!CanDec, Cache!DecAllocatedResource, Kept!DecAllocatedResource,
         Cache!RemoveNodeAllocation, Kept!RemoveNodeAllocation, Cache!nodeVars, Kept!nodeVars
<1>9. Cache!FinishRemoveNode <=> Kept!FinishRemoveNode
  BY DEF Cache!FinishRemoveNode, Kept!FinishRemoveNode, Cache!Idle, Kept!Idle, Cache!appVars,
         Kept!appVars
<1>10. \A app, q : Cache!AddNewApplication(app, q) <=> Kept!AddNewApplication(app, q)
  BY DEF Cache!AddNewApplication, Kept!AddNewApplication, Cache!Idle, Kept!Idle, Cache!nodeVars,
         Kept!nodeVars
<1>11. \A app, q : Cache!AcceptApplication(app, q) <=> Kept!AcceptApplication(app, q)
  BY DEF Cache!AcceptApplication, Kept!AcceptApplication, Cache!nodeVars, Kept!nodeVars
<1>12. \A app : Cache!RejectApplication(app) <=> Kept!RejectApplication(app)
  BY DEF Cache!RejectApplication, Kept!RejectApplication, Cache!nodeVars, Kept!nodeVars
<1>13. \A app : Cache!RunApplication(app) <=> Kept!RunApplication(app)
  BY DEF Cache!RunApplication, Kept!RunApplication, Cache!nodeVars, Kept!nodeVars
<1>14. \A app : Cache!KillApplication(app) <=> Kept!KillApplication(app)
  BY DEF Cache!KillApplication, Kept!KillApplication, Cache!nodeVars, Kept!nodeVars
<1>15. \A app : Cache!RemoveRejectedApp(app) <=> Kept!RemoveRejectedApp(app)
  BY DEF Cache!DropApplication, Kept!DropApplication, Cache!Idle, Kept!Idle,
         Cache!RemoveRejectedApp, Kept!RemoveRejectedApp, Cache!nodeVars, Kept!nodeVars
<1>16. \A app : Cache!RemoveApplication(app) <=> Kept!RemoveApplication(app)
  BY DEF Cache!Allocation, Kept!Allocation, Cache!CanDec, Kept!CanDec, Cache!DecAllocatedResource,
         Kept!DecAllocatedResource, Cache!DropApplication, Kept!DropApplication, Cache!Idle,
         Kept!Idle, Cache!RemoveApplication, Kept!RemoveApplication, Cache!SizeOf, Kept!SizeOf,
         Cache!TotalOf, Kept!TotalOf, Cache!UnitsOf, Kept!UnitsOf, Cache!Weight, Kept!Weight,
         Cache!Cardinality, Kept!Cardinality
<1>17. Cache!MarkPartitionForRemoval <=> Kept!MarkPartitionForRemoval
  BY DEF Cache!Idle, Kept!Idle, Cache!MarkPartitionForRemoval, Kept!MarkPartitionForRemoval,
         Cache!appVars, Kept!appVars, Cache!nodeVars, Kept!nodeVars
<1>18. \A event : Cache!HandlePartitionEvent(event) <=> Kept!HandlePartitionEvent(event)
  BY DEF Cache!HandlePartitionEvent, Kept!HandlePartitionEvent, Cache!appVars, Kept!appVars,
         Cache!nodeVars, Kept!nodeVars
<1>19. /\ Cache!Proposal = Kept!Proposal /\ Cache!ReportLists = Kept!ReportLists
      /\ Cache!QueueNames = Kept!QueueNames /\ \A app : Cache!Releasable(app) = Kept!Releasable(app)
  BY DEF Cache!Proposal, Kept!Proposal, Cache!QueueNames, Kept!QueueNames, Cache!Releasable,
         Kept!Releasable, Cache!Report, Kept!Report, Cache!ReportLists, Kept!ReportLists
<1> QED
  BY <1>1, <1>2, <1>3, <1>4, <1>5, <1>6, <1>7, <1>8, <1>9, <1>10, <1>11, <1>12, <1>13, <1>14, <1>15,
     <1>16, <1>17, <1>18, <1>19 DEF Cache!Next, Kept!Next

(* Its accounts do not depend on what callers promise.                     *)
LEMMA SameInvariant == CacheInv <=> Kept!CacheInv
  BY DEF Allocation, Kept!Allocation, AppAccounting, Kept!AppAccounting, AppStates, Kept!AppStates,
         CacheInv, Kept!CacheInv, NodeAccounting, Kept!NodeAccounting, Op, Kept!Op, OpConsistent,
         Kept!OpConsistent, OwnNode, Kept!OwnNode, PartitionStates, Kept!PartitionStates,
         QueueNames, Kept!QueueNames, Report, Kept!Report, SizeOf, Kept!SizeOf, SumsDefined,
         Kept!SumsDefined, TotalOf, Kept!TotalOf, TypeOK, Kept!TypeOK, UnitsOf, Kept!UnitsOf,
         MapUnique, Kept!MapUnique, NodesInMap, Kept!NodesInMap, Proposal, Kept!Proposal, Weighable, Kept!Weighable, Weight, Kept!Weight,
         Cardinality, Kept!Cardinality, IsFiniteSet, Kept!IsFiniteSet

(* What it shows is the same for the two instances.                        *)
LEMMA SameProperties ==
  /\ Cache!QueueAccounting <=> Kept!QueueAccounting
  /\ Cache!NoOrphans <=> Kept!NoOrphans
  /\ Cache!ReleaseNeverFails <=> Kept!ReleaseNeverFails
  /\ Cache!RootWithinTotal <=> Kept!RootWithinTotal
  BY DEF Cache!Allocation, Kept!Allocation, Cache!CanDec, Kept!CanDec, Cache!ChargedTo,
         Kept!ChargedTo, Cache!DecNeverFails, Kept!DecNeverFails, Cache!Disciplined,
         Kept!Disciplined, Cache!InRemoval, Kept!InRemoval, Cache!Live, Kept!Live, Cache!NoOrphans,
         Kept!NoOrphans, Cache!QueueAccounting, Kept!QueueAccounting, Cache!ReleaseNeverFails,
         Kept!ReleaseNeverFails, Cache!RootWithinTotal, Kept!RootWithinTotal, Cache!SizeOf,
         Kept!SizeOf, Cache!TotalOf, Kept!TotalOf, Cache!UnitsOf, Kept!UnitsOf, Cache!Weight,
         Kept!Weight, Cache!Cardinality, Kept!Cardinality

(* What PartitionCache assumes of its constants holds for these as well. *)
LEMMA KeptAssumptions == {Placement, TRUE} \subseteq BOOLEAN /\ NoNode \notin Nodes
  BY FlagAssumption

(* The partition inside the core keeps the contract until then. *)
CoreContract == reused \/ Kept!Contract

(* At the start nothing is allocated.                                      *)
LEMMA ContractAtStart == CoreInit => CoreContract
<1> SUFFICES ASSUME CoreInit PROVE Kept!Contract
  BY DEF CoreContract
<1>1. Kept!CacheInv
  BY InitCore, SameInvariant DEF CoreInv
<1>2. op = Kept!Idle
  BY DEF CoreInit, Idle, Kept!Idle
<1> QED
  BY <1>1, <1>2, Kept!EmptyContract, KeptAssumptions, SizeAssumption, QueueAssumption DEF CoreInit

(* An application id that was used twice stays so.                         *)
LEMMA ReusedOn ==
  ASSUME [CoreNext]_coreVars
  PROVE  reused => reused'
<1>1. CASE \E app \in Apps, q \in QueueNames : RmSubmit(app, q)
  <2>1. PICK app \in Apps : reused' = (reused \/ rmApp[app] # "none")
    BY <1>1 DEF RmSubmit
  <2> QED
    BY <2>1, Zenon
<1>2. CASE UNCHANGED reused
  BY <1>2, Zenon
<1>3. RM => \/ \E app \in Apps, q \in QueueNames : RmSubmit(app, q)
            \/ UNCHANGED reused
  BY DEF RM, RmRemoveApp, RmAsk, RmRelease
<1>4. ASSUME \/ RmReceive \/ \E t \in Threads : Send(t)
             \/ CacheRM \/ CacheSched \/ SchedEvent
             \/ Find \/ Place \/ Confirm \/ Quiet \/ UNCHANGED coreVars
      PROVE  UNCHANGED reused
  <2>1. RmReceive \/ (\E t \in Threads : Send(t)) \/ Find \/ Place \/ Confirm \/ Quiet \/ UNCHANGED coreVars
        => UNCHANGED reused
    BY DEF RmReceive, Send, Find, FindAllocationAsks, Place, TryBatchAllocation, Confirm,
           ConfirmAllocation, Quiet, coreVars, rmVars
  <2>2. CacheRM \/ CacheSched => UNCHANGED reused
    BY DEF CacheRM, CacheAddApp, CacheAsk, CachePassOn, CacheRMTake, CacheSched, CacheProposal,
           CacheRelease, CacheRemovedApp, CacheRejectedApp, CacheTake, rmVars
  <2>3. SchedEvent => UNCHANGED reused
    BY DEF SchedEvent, SchedAddApp, SchedRemoveApp, SchedAsk, SchedRejected, SchedRelease, SchedTake,
           rmVars
  <2> QED
    BY <1>4, <2>1, <2>2, <2>3
<1> QED
  BY <1>1, <1>2, <1>3, <1>4 DEF CoreNext

(* What callers with the contract are promised, until then. *)
AccountsKept ==
  reused \/ /\ Cache!QueueAccounting /\ Cache!NoOrphans
            /\ Cache!ReleaseNeverFails /\ Cache!RootWithinTotal

(* What the accounts of a partition with the contract say, of the          *)
(* partition in the core: with goroutines that work on stale copies and    *)
(* proposals that arrive late, every queue is charged exactly what is      *)
(* allocated below it, no node keeps what its application has lost, a      *)
(* release never fails, and the root stays within the cluster.             *)
THEOREM AccountsInCore == CoreSpec => []AccountsKept
<1>1. Kept!Disciplined
  BY DEF Kept!Disciplined
<1>2. CoreContract /\ [CoreNext]_coreVars /\ [reused' \/ Cache!Next]_vars => CoreContract'
  <2>1. ASSUME Kept!Contract, Cache!Next \/ UNCHANGED vars
        PROVE  Kept!Contract'
    <3>1. [Kept!Next]_(Kept!vars)
      BY <2>1, SameActions
         DEF vars, Kept!vars, nodeVars, Kept!nodeVars, appVars, Kept!appVars
    <3> QED
      BY <1>1, <2>1, <3>1, Kept!ContractStep, KeptAssumptions, SizeAssumption, QueueAssumption
  <2> QED
    BY <2>1, ReusedOn DEF CoreContract
<1>3. CoreContract => AccountsKept
  <2> SUFFICES ASSUME Kept!Contract
               PROVE  /\ Kept!QueueAccounting /\ Kept!NoOrphans
                      /\ Kept!ReleaseNeverFails /\ Kept!RootWithinTotal
    BY SameProperties DEF CoreContract, AccountsKept
  <2>1. Kept!QueueAccounting /\ Kept!NoOrphans
    BY <1>1, Kept!ContractIsContractInv, KeptAssumptions, SizeAssumption, QueueAssumption
       DEF Kept!ContractInv
  <2>2. Kept!DecNeverFails /\ queueAllocated[Root] <= total
    BY <1>1, Kept!HeldCanBeReleased, Kept!RootFits,
       KeptAssumptions, SizeAssumption, QueueAssumption
  <2> QED
    BY <2>1, <2>2 DEF Kept!ReleaseNeverFails, Kept!RootWithinTotal
<1> QED
  BY <1>2, <1>3, ContractAtStart, ContractKept, PTL DEF CoreSpec, CacheContractKept
=============================================================================
