---------------------------- MODULE QueueLimits -----------------------------
(***************************************************************************)
(* The limits of the queues of a partition.  A configuration gives queues  *)
(* a maximum and a guaranteed resource; loading it checks and completes    *)
(* them (checkResourceConfigurationsForQueue), a later configuration is    *)
(* checked on its own and then applied to the queues there are             *)
(* (updateQueueProps).                                                     *)
(*                                                                         *)
(* The scheduler and the cache have a counter each for every queue.  The   *)
(* scheduler begins a round by copying those of the cache, one queue after *)
(* the other; it adds to its own what it selects within the headroom of    *)
(* the queues (asks_finder) and sends proposals to the cache.  The cache   *)
(* takes them up later, in their order: it checks them against its         *)
(* counters and charges the queue and its ancestors (IncAllocatedResource),*)
(* while the scheduler is in the next round already.                       *)
(* Resources have several types here; the other modules have one.          *)
(***************************************************************************)
EXTENDS Resources

CONSTANTS
  Queues,      \* every queue after those below it
  Root,
  ParentOf,    \* ParentOf[q]: the queue above q
  Configs,     \* configurations: for every queue [max, guaranteed], NilResource when not set
  Total,       \* PartitionInfo.TotalPartitionResource
  Asks,        \* the resources that are asked for
  MaxReloads,  \* bound: configuration updates
  MaxProposals \* bound: proposals on their way to the cache

QueueSet == Range(Queues)
Children(q) == { c \in QueueSet \ {Root} : ParentOf[c] = q }

ASSUME QueuesAssumption ==
  /\ Queues \in Seq(QueueSet) /\ Root \in QueueSet /\ ParentOf \in [QueueSet \ {Root} -> QueueSet]
  /\ \A i, j \in DOMAIN Queues : Queues[j] # Root /\ ParentOf[Queues[j]] = Queues[i] => j < i
  /\ \A c \in Configs : /\ DOMAIN c = QueueSet
                        /\ c[Root] = [max |-> NilResource, guaranteed |-> NilResource]
  /\ \A i, j \in DOMAIN Queues : Queues[i] = Queues[j] => i = j
  /\ {MaxReloads, MaxProposals} \subseteq Nat

(* Nothing asked for and no total is negative, and twice the total does    *)
(* not wrap around.  A maximum may be negative (the code takes any number),*)
(* but not by so much that what the total has above it wraps around.       *)
ASSUME AmountsAssumption ==
  /\ {Total} \cup Asks \subseteq { r \in Resource : \A k \in DOMAIN r : r[k] >= 0 }
  /\ \A k \in ResourceTypes : Value(Total, k) + Value(Total, k) \in Quantity
  /\ \A c \in Configs, q \in QueueSet : c[q].max # NilResource =>
       /\ c[q].max \in Resource
       /\ \A k \in ResourceTypes : Value(Total, k) - Value(c[q].max, k) <= QuantityLimit

VARIABLES
  limits,     \* QueueInfo.MaxResource and GuaranteedResource
  config,     \* the configuration that was accepted last
  used,       \* QueueInfo.allocatedResource, the cache's counters
  proposing,  \* SchedulingQueue.ProposingResource, the scheduler's counters
  unread,     \* the queues whose counter the round has not copied yet
  current,    \* history: the round began with no proposal on its way, no update since
  proposals,  \* the channel to the cache: [queue, ask, current] in their order
  reloads     \* number of accepted updates

roundVars == <<proposing, unread, current>>
vars == <<limits, config, used, roundVars, proposals, reloads>>

Leaves == { q \in QueueSet : Children(q) = {} }
Path[q \in QueueSet] == IF q = Root THEN <<Root>> ELSE Append(Path[ParentOf[q]], q)

(* The queues that what runs in q counts for. *)
Charged(q) == Range(Path[q])

(* The counters with r added to, or taken from, q and its ancestors. *)
AddTo(counters, q, r) ==
  [p \in QueueSet |-> IF p \in Charged(q) THEN Add(counters[p], r) ELSE counters[p]]
TakeFrom(counters, q, r) ==
  [p \in QueueSet |-> IF p \in Charged(q) THEN Sub(counters[p], r) ELSE counters[p]]

-----------------------------------------------------------------------------
(* Loading a configuration *)

SumGuaranteed(l, q) ==
  FoldSet(LAMBDA c, sum : Add(sum, l[c].guaranteed), Zero, Children(q))

(* Where nothing is guaranteed, it is what the children are guaranteed. *)
CompleteGuaranteed(l, q) ==
  IF l[q].guaranteed # NilResource THEN l[q].guaranteed ELSE SumGuaranteed(l, q)

(* The parent's own maximum, which is itself not completed yet. *)
CompleteMax(l, q) ==
  IF l[q].max = NilResource /\ q # Root THEN l[ParentOf[q]].max ELSE l[q].max

QueueAccepted(l, q) ==
  LET completed == [max |-> CompleteMax(l, q), guaranteed |-> CompleteGuaranteed(l, q)] IN
  /\ FitIn(completed.guaranteed, SumGuaranteed(l, q))
  /\ completed.max # NilResource =>
       /\ q # Root /\ l[ParentOf[q]].max # NilResource => FitIn(l[ParentOf[q]].max, completed.max)
       /\ FitIn(completed.max, completed.guaranteed)

(* checkResourceConfigurationsForQueue: children first; every queue is     *)
(* completed as it is checked.                                             *)
CheckQueue(st, q) ==
  [ok |-> st.ok /\ QueueAccepted(st.limits, q),
   limits |-> [st.limits EXCEPT ![q] = [max |-> CompleteMax(st.limits, q),
                                       guaranteed |-> CompleteGuaranteed(st.limits, q)]]]

Checked(c) ==
  LET upTo[n \in 0 .. Len(Queues)] ==
        IF n = 0 THEN [ok |-> TRUE, limits |-> c] ELSE CheckQueue(upTo[n - 1], Queues[n])
  IN  upTo[Len(Queues)]

(* SetClusterInfoFromConfigFile, after which nodes were added: the root's  *)
(* maximum is their total.  A configuration that is refused leaves no      *)
(* partition at all.                                                       *)
Init ==
  \E c \in Configs :
    /\ Checked(c).ok
    /\ limits = [Checked(c).limits EXCEPT ![Root].max = Total]
    /\ config = c
    /\ used = [q \in QueueSet |-> Zero]
    /\ proposing = [q \in QueueSet |-> Zero]
    /\ unread = {} /\ current = TRUE
    /\ proposals = <<>>
    /\ reloads = 0

(* updateQueueProps: a limit that is no longer configured stays as it was. *)
UpdateQueueProps(old, new) ==
  [max |-> IF new.max # NilResource THEN new.max ELSE old.max,
   guaranteed |-> IF new.guaranteed # NilResource THEN new.guaranteed ELSE old.guaranteed]

(* UpdateClusterInfoFromConfigFile: the new configuration is checked as if *)
(* it were the first one.  What was selected before is out of date.        *)
Reload(c) ==
  /\ reloads < MaxReloads
  /\ c # config /\ Checked(c).ok
  /\ limits' = [q \in QueueSet |-> UpdateQueueProps(limits[q], c[q])]
  /\ config' = c
  /\ reloads' = reloads + 1
  /\ current' = FALSE
  /\ proposals' = [i \in DOMAIN proposals |-> [proposals[i] EXCEPT !.current = FALSE]]
  /\ UNCHANGED <<used, proposing, unread>>

-----------------------------------------------------------------------------
(* A round of the scheduler *)

(* findAllocationAsks begins with resetMayAllocations. *)
StartRound ==
  /\ unread = {}
  /\ unread' = QueueSet
  /\ current' = (proposals = <<>>)
  /\ UNCHANGED <<limits, config, used, proposing, proposals, reloads>>

(* resetMayAllocationsForQueue: a queue before those below it.  Every      *)
(* counter is read under the lock of its own queue only.                   *)
ReadAllocated(q) ==
  /\ q \in unread
  /\ q # Root => ParentOf[q] \notin unread
  /\ proposing' = [proposing EXCEPT ![q] = used[q]]
  /\ unread' = unread \ {q}
  /\ UNCHANGED <<limits, config, used, current, proposals, reloads>>

(* getQueueMaxLimit *)
QueueMaxLimit[q \in QueueSet] ==
  IF q = Root THEN Total
  ELSE ComponentWiseMin(IF limits[q].max # NilResource THEN limits[q].max
                        ELSE QueueMaxLimit[ParentOf[q]], Total)

(* getHeadroomOfQueue, outside of preemption. *)
Headroom[q \in QueueSet] ==
  LET own == Sub(QueueMaxLimit[q], proposing[q]) IN
  IF q = Root THEN own ELSE ComponentWiseMin(own, Headroom[ParentOf[q]])

(* Mutant: the headroom of the queues above is not looked at. *)
AskFitsOwn(q, ask) == FitIn(Sub(QueueMaxLimit[q], proposing[q]), ask)

(* findMayAllocationFromApplication *)
AskFits(q, ask) == FitIn(Headroom[q], ask)

(* findNextAllocationAskCandidate selects an ask and counts it for the     *)
(* queue and its ancestors; if a node is found for it, a proposal follows. *)
(* The code sends those of a round in that order after its last selection, *)
(* which makes the cache take them up later and nothing else.              *)
Select(q, ask, placed) ==
  /\ unread = {}
  /\ AskFits(q, ask)
  /\ Len(proposals) < MaxProposals
  /\ proposing' = AddTo(proposing, q, ask)
  /\ proposals' = IF placed THEN Append(proposals, [queue |-> q, ask |-> ask, current |-> current])
                            ELSE proposals
  /\ UNCHANGED <<limits, config, used, unread, current, reloads>>

-----------------------------------------------------------------------------
(* The cache *)

(* Mutant: only the leaf queue is checked. *)
LeafAccepts(q, ask) ==
  limits[q].max # NilResource => FitIn(limits[q].max, Add(used[q], ask))

(* IncAllocatedResource, from the leaf to the root. *)
ChargeAccepted(q, ask) ==
  \A p \in Charged(q) :
    limits[p].max # NilResource => FitIn(limits[p].max, Add(used[p], ask))

(* The next proposal is accepted: it is charged on every level ... *)
Charge ==
  LET next == Head(proposals) IN
  /\ proposals # <<>>
  /\ ChargeAccepted(next.queue, next.ask)
  /\ used' = AddTo(used, next.queue, next.ask)
  /\ proposals' = Tail(proposals)
  /\ UNCHANGED <<limits, config, roundVars, reloads>>

(* ... or refused, for a limit or for its node or application. *)
Refuse ==
  /\ proposals # <<>>
  /\ proposals' = Tail(proposals)
  /\ UNCHANGED <<limits, config, used, roundVars, reloads>>

(* Something of what a leaf holds is given back; DecAllocatedResource does *)
(* nothing when a level would go below zero.                               *)
Release(q, ask) ==
  /\ FitIn(used[q], ask)
  /\ used' = IF \A p \in Charged(q) : FitIn(used[p], ask) THEN TakeFrom(used, q, ask) ELSE used
  /\ UNCHANGED <<limits, config, roundVars, proposals, reloads>>

Next ==
  \/ \E c \in Configs : Reload(c)
  \/ StartRound
  \/ \E q \in unread : ReadAllocated(q)
  \/ \E q \in Leaves, ask \in Asks, placed \in BOOLEAN : Select(q, ask, placed)
  \/ Charge
  \/ Refuse
  \/ \E q \in Leaves, ask \in Asks : Release(q, ask)

Spec == Init /\ [][Next]_vars

-----------------------------------------------------------------------------
(* Properties *)

(* A queue is within its maximum for one type; the root's is the total. *)
Within(q, k) ==
  limits[q].max # NilResource => Value(used[q], k) <= Max({Value(limits[q].max, k), 0})

(* No counter of the cache is negative or exceeds what the partition has,  *)
(* on any level, also those without a limit: whatever the scheduler        *)
(* proposes on a view that does not have the proposals of the round before *)
(* in it, after refusals, and after an update.                             *)
UsedWithinTotal ==
  \A q \in QueueSet, k \in ResourceTypes :
    Value(used[q], k) \in 0 .. Value(Total, k)

(* A round that begins when the cache has taken up all earlier proposals   *)
(* proposes nothing in vain, unless an update comes in between or has left *)
(* a queue above its maximum: when its turn comes, every proposal passes   *)
(* the checks of the cache from the leaf to the root, whatever was         *)
(* charged, refused or released since the round began.                     *)
SelectionsAccepted ==
  (/\ proposals # <<>> /\ Head(proposals).current
   /\ \A q \in QueueSet, k \in ResourceTypes : Within(q, k))
     => ChargeAccepted(Head(proposals).queue, Head(proposals).ask)
=============================================================================
