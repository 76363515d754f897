-------------------------- MODULE AssumeCacheProofs --------------------------
(***************************************************************************)
(* Proofs about AssumeCache, for every number of pods, nodes and           *)
(* proposals: what the cache holds for one pod only depends on what has    *)
(* happened to that pod and on the nodes the cache has removed, so that    *)
(* the invariant speaks of one pod at a time.                              *)
(***************************************************************************)
EXTENDS AssumeCache, FiniteSetTheorems, TLAPS

-----------------------------------------------------------------------------
(* The inductive invariant.                                                *)

NodeEvent     == [kind : {"add", "update", "delete"}, pod : {NoNode}, node : Nodes]
TaskEvent     == [kind : {"add", "delete"}, pod : Pods, node : Nodes \cup {NoNode}]
AssignedEvent == [kind : {"add", "update", "delete"}, pod : Pods, node : Nodes]

ProposalRecord == [stage : {"idle", "checked", "found", "assumed"}, node : Nodes \cup {NoNode}]

ApiTypes ==
  /\ pod \in [Pods -> {"absent", "pending", "bound", "gone"}]
  /\ podNode \in [Pods -> Nodes \cup {NoNode}] /\ known \in [Pods -> Nodes \cup {NoNode}]
  /\ apiNodes \subseteq Nodes
  /\ proposal \in [Pods -> ProposalRecord]
  /\ tries \in [Pods -> 0 .. MaxTries]

QueueTypes ==
  /\ nodeEvents \in Seq(NodeEvent)
  /\ taskEvents \in Seq(TaskEvent)
  /\ assignedEvents \in Seq(AssignedEvent)

(* What holds of the four variables of the cache. *)
CacheRecord == [nodes   : [Nodes -> {"absent", "bare", "set"}],
                on      : [Nodes -> [Pods -> Nat]],
                pods    : [Pods -> Nodes \cup {NoNode, Uncached}],
                assumed : SUBSET Pods]

CacheOK(c) ==
  /\ c \in CacheRecord
  /\ \A p \in c.assumed : c.pods[p] \in Nodes
  /\ \A n \in Nodes : c.nodes[n] = "absent" => \A p \in Pods : c.on[n][p] = 0

(* The events of a pod that are still in a queue. *)
EventsOf(s, p) == { s[i] : i \in { j \in DOMAIN s : s[j].pod = p } }

AddIn(s, p) == \E e \in EventsOf(s, p) : e.kind = "add"
DeleteIn(s, p) == \E e \in EventsOf(s, p) : e.kind = "delete"

OneAdd(s, p) ==
  \A i, j \in DOMAIN s :
    s[i].pod = p /\ s[j].pod = p /\ s[i].kind = "add" /\ s[j].kind = "add" => i = j

DeleteLast(s, p) ==
  \A i, j \in DOMAIN s : s[i].pod = p /\ s[j].pod = p /\ s[i].kind = "delete" => j <= i

(* A pod has a node once it is bound, and keeps it; the informer has seen  *)
(* that node or no node.                                                   *)
PodLife(p) ==
  /\ pod[p] \in {"absent", "pending"} => podNode[p] = NoNode
  /\ pod[p] = "bound" => podNode[p] \in Nodes
  /\ known[p] \in {NoNode, podNode[p]}
  /\ pod[p] = "absent" => podsMap[p] = Uncached /\ EventsOf(taskEvents, p) = {}

(* The core only proposes a node for a pod the cache has learnt of. *)
Proposed(p) ==
  proposal[p].stage # "idle" =>
    /\ proposal[p].node \in Nodes
    /\ podsMap[p] # Uncached
    /\ pod[p] \in {"pending", "gone"} /\ podNode[p] = NoNode
    /\ proposal[p].stage = "checked" =>
         nodesMap[proposal[p].node] # "absent" \/ proposal[p].node \in lost

(* What the queues hold about a pod: it is added once by each handler, and *)
(* nothing comes after its deletion.  The second handler has nothing of a  *)
(* pod that the informer has not seen with a node.                         *)
Queued(p) ==
  /\ OneAdd(taskEvents, p) /\ OneAdd(assignedEvents, p) /\ DeleteLast(assignedEvents, p)
  /\ \A e \in EventsOf(taskEvents, p) :
       /\ e.node = podNode[p]
       /\ e.kind = "delete" => pod[p] = "gone"
       /\ e.kind = "add" => IF podNode[p] = NoNode THEN podsMap[p] = Uncached
                                                   ELSE p \notin assumedPods
  /\ \A e \in EventsOf(assignedEvents, p) :
       /\ e.node = podNode[p]
       /\ e.kind = "delete" => pod[p] = "gone"
  /\ known[p] = NoNode => EventsOf(assignedEvents, p) = {}

(* A pod the cache does not know has no entry; a pod that the informer has *)
(* seen with a node and that is not cached, or only assumed, is about to   *)
(* be added by the second handler.                                         *)
Learnt(p) ==
  /\ podsMap[p] = Uncached => /\ p \notin assumedPods /\ known[p] = podNode[p]
                              /\ \A n \in Nodes : podsOn[n][p] = 0
  /\ known[p] # NoNode /\ (podsMap[p] = Uncached \/ p \in assumedPods)
       => AddIn(assignedEvents, p)

(* Every entry of a pod in a NodeInfo goes back to a proposal, and one     *)
(* more to the pod being added with its node.                              *)
Counted(p) ==
  /\ \A n \in Nodes : podsOn[n][p] <= tries[p] + 1
  /\ known[p] = NoNode \/ p \in assumedPods => \A n \in Nodes : podsOn[n][p] <= tries[p]
  /\ proposal[p].stage \in {"checked", "found"} => \A n \in Nodes : podsOn[n][p] < tries[p]

Seen(p) ==
  \A n \in Nodes \ lost :
    \/ proposal[p].stage = "assumed" /\ proposal[p].node = n /\ pod[p] = "pending"
    \/ pod[p] = "bound" /\ podNode[p] = n /\ podsMap[p] # Uncached
    => podsOn[n][p] > 0

(* The entries of a pod that was never assumed in vain. *)
Entries(p) ==
  p \notin doubted =>
    /\ podNode[p] = NoNode /\ pod[p] # "gone" =>
         /\ p \in assumedPods => proposal[p].stage = "assumed" /\ podsMap[p] = proposal[p].node
         /\ \A n \in Nodes \ lost :
              podsOn[n][p] = IF p \in assumedPods /\ podsMap[p] = n THEN 1 ELSE 0
    /\ podNode[p] = NoNode /\ pod[p] = "gone" =>
         p \notin assumedPods /\ \A n \in Nodes \ lost : podsOn[n][p] = 0
    /\ podNode[p] # NoNode =>
         /\ p \in assumedPods => podsMap[p] = podNode[p]
         /\ \A n \in Nodes \ lost : podsOn[n][p] <= IF n = podNode[p] THEN 1 ELSE 0

(* Once the deletion of a pod that the informer has seen with its node has *)
(* been delivered, nothing is left.                                        *)
Ended(p) ==
  pod[p] = "gone" /\ known[p] # NoNode /\ ~DeleteIn(assignedEvents, p) =>
    /\ EventsOf(assignedEvents, p) = {}
    /\ p \notin doubted => \A n \in Nodes \ lost : podsOn[n][p] = 0

PodInv(p) == /\ PodLife(p) /\ Proposed(p) /\ Queued(p) /\ Learnt(p)
             /\ Counted(p) /\ Seen(p) /\ Entries(p) /\ Ended(p)

AssumeInv ==
  /\ ApiTypes /\ QueueTypes /\ CacheOK(Cache)
  /\ \A p \in Pods : PodInv(p)

-----------------------------------------------------------------------------
(* The queues.                                                             *)

(* An event that is appended is the last one of its pod. *)
LEMMA AppendEvents ==
  ASSUME NEW S, NEW s \in Seq(S), NEW e \in S, NEW p
  PROVE  /\ e.pod # p => EventsOf(Append(s, e), p) = EventsOf(s, p)
         /\ e.pod = p => EventsOf(Append(s, e), p) = EventsOf(s, p) \cup {e}
         /\ OneAdd(s, p) /\ (e.pod = p /\ e.kind = "add" => ~AddIn(s, p)) => OneAdd(Append(s, e), p)
         /\ DeleteLast(s, p) /\ (e.pod = p => ~DeleteIn(s, p)) => DeleteLast(Append(s, e), p)
<1> DEFINE t == Append(s, e)
<1>1. /\ DOMAIN s = 1 .. Len(s) /\ Len(s) \in Nat
      /\ DOMAIN t = 1 .. Len(s) + 1
      /\ \A i \in 1 .. Len(s) : t[i] = s[i]
      /\ t[Len(s) + 1] = e
  OBVIOUS
<1>2. \A i \in DOMAIN t : i \in DOMAIN s \/ i = Len(s) + 1
  BY <1>1
<1>3. DOMAIN s \subseteq DOMAIN t /\ Len(s) + 1 \in DOMAIN t
  BY <1>1
<1> HIDE DEF t
<1>4. /\ e.pod # p => EventsOf(t, p) = EventsOf(s, p)
      /\ e.pod = p => EventsOf(t, p) = EventsOf(s, p) \cup {e}
  BY <1>1, <1>2, <1>3 DEF EventsOf
<1>5. ASSUME OneAdd(s, p), e.pod = p /\ e.kind = "add" => ~AddIn(s, p)
      PROVE  OneAdd(t, p)
  <2>1. \A i \in DOMAIN s : s[i].pod = p /\ s[i].kind = "add" => ~(e.pod = p /\ e.kind = "add")
    BY <1>5 DEF AddIn, EventsOf
  <2> QED
    BY <1>1, <1>2, <1>5, <2>1 DEF OneAdd
<1>6. ASSUME DeleteLast(s, p), e.pod = p => ~DeleteIn(s, p)
      PROVE  DeleteLast(t, p)
  <2>1. \A i \in DOMAIN s : s[i].pod = p /\ s[i].kind = "delete" => e.pod # p
    BY <1>6 DEF DeleteIn, EventsOf
  <2> QED
    BY <1>1, <1>2, <1>6, <2>1 DEF DeleteLast
<1> QED
  BY <1>4, <1>5, <1>6 DEF t

(* What is left when the first event has been delivered. *)
LEMMA TailEvents ==
  ASSUME NEW S, NEW s \in Seq(S), s # <<>>, NEW p
  PROVE  /\ Head(s) \in S /\ Tail(s) \in Seq(S)
         /\ EventsOf(Tail(s), p) \subseteq EventsOf(s, p)
         /\ Head(s).pod = p => Head(s) \in EventsOf(s, p)
         /\ EventsOf(s, p) \subseteq EventsOf(Tail(s), p) \cup {Head(s)}
         /\ Head(s).pod # p => EventsOf(Tail(s), p) = EventsOf(s, p)
         /\ OneAdd(s, p) => /\ OneAdd(Tail(s), p)
                            /\ Head(s).pod = p /\ Head(s).kind = "add" => ~AddIn(Tail(s), p)
         /\ DeleteLast(s, p) => /\ DeleteLast(Tail(s), p)
                                /\ Head(s).pod = p /\ Head(s).kind = "delete" =>
                                     EventsOf(Tail(s), p) = {}
<1> DEFINE t == Tail(s)
           e == Head(s)
<1>1. /\ DOMAIN s = 1 .. Len(s) /\ Len(s) \in Nat /\ Len(s) > 0
      /\ DOMAIN t = 1 .. Len(s) - 1
      /\ \A i \in 1 .. Len(s) - 1 : t[i] = s[i + 1]
      /\ s[1] = e
      /\ e \in S /\ t \in Seq(S)
  OBVIOUS
<1>2. \A i \in DOMAIN t : i + 1 \in DOMAIN s /\ t[i] = s[i + 1] /\ i \in Int /\ i + 1 # 1
  BY <1>1
<1>3. \A i \in DOMAIN s : i = 1 \/ (i - 1 \in DOMAIN t /\ t[i - 1] = s[i])
  BY <1>1
<1>4. 1 \in DOMAIN s /\ DOMAIN s \subseteq Int
  BY <1>1
<1> HIDE DEF t, e
<1>5. EventsOf(t, p) \subseteq EventsOf(s, p)
  BY <1>2 DEF EventsOf
<1>6. e.pod = p => e \in EventsOf(s, p)
  BY <1>1, <1>4 DEF EventsOf
<1>7. EventsOf(s, p) \subseteq EventsOf(t, p) \cup {e}
  BY <1>1, <1>3 DEF EventsOf
<1>8. e.pod # p => EventsOf(t, p) = EventsOf(s, p)
  BY <1>1, <1>3, <1>5 DEF EventsOf
<1>9. ASSUME OneAdd(s, p)
      PROVE  OneAdd(t, p) /\ (e.pod = p /\ e.kind = "add" => ~AddIn(t, p))
  <2>1. OneAdd(t, p)
    <3> SUFFICES ASSUME NEW i \in DOMAIN t, NEW j \in DOMAIN t, t[i].pod = p, t[j].pod = p,
                        t[i].kind = "add", t[j].kind = "add"
                 PROVE  i = j
      BY DEF OneAdd
    <3>1. i + 1 = j + 1
      BY <1>2, <1>9 DEF OneAdd
    <3> QED
      BY <1>2, <3>1
  <2>2. ASSUME e.pod = p, e.kind = "add", NEW i \in DOMAIN t, t[i].pod = p, t[i].kind = "add"
        PROVE  FALSE
    <3>1. s[i + 1].pod = p /\ s[i + 1].kind = "add" /\ i + 1 \in DOMAIN s
      BY <1>2, <2>2
    <3>2. 1 = i + 1
      BY <1>1, <1>4, <1>9, <2>2, <3>1 DEF OneAdd
    <3> QED
      BY <1>2, <3>2
  <2> QED
    BY <2>1, <2>2 DEF AddIn, EventsOf
<1>10. ASSUME DeleteLast(s, p)
       PROVE  DeleteLast(t, p) /\ (e.pod = p /\ e.kind = "delete" => EventsOf(t, p) = {})
  <2>1. DeleteLast(t, p)
    <3> SUFFICES ASSUME NEW i \in DOMAIN t, NEW j \in DOMAIN t, t[i].pod = p, t[j].pod = p,
                        t[i].kind = "delete"
                 PROVE  j <= i
      BY DEF DeleteLast
    <3>1. j + 1 <= i + 1
      BY <1>2, <1>10 DEF DeleteLast
    <3> QED
      BY <1>2, <3>1
  <2>2. ASSUME e.pod = p, e.kind = "delete", NEW i \in DOMAIN t, t[i].pod = p
        PROVE  FALSE
    <3>1. s[i + 1].pod = p /\ i + 1 \in DOMAIN s
      BY <1>2, <2>2
    <3>2. i + 1 <= 1
      BY <1>1, <1>4, <1>10, <2>2, <3>1 DEF DeleteLast
    <3> QED
      BY <1>1, <3>2
  <2> QED
    BY <2>1, <2>2 DEF EventsOf
<1> QED
  BY <1>1, <1>5, <1>6, <1>7, <1>8, <1>9, <1>10 DEF t, e

-----------------------------------------------------------------------------
(* The operations of the cache: what each does to the entries of one pod.  *)

(* NodeInfo.AddPod, after the NodeInfo was made when there was none. *)
LEMMA AddPodToNodeEffect ==
  ASSUME NEW c, CacheOK(c), NEW p \in Pods, NEW n \in Nodes \cup {NoNode},
         NEW r, r = AddPodToNode(c, p, n)
  PROVE  /\ r \in CacheRecord /\ r.pods = c.pods /\ r.assumed = c.assumed
         /\ \A m \in Nodes : r.nodes[m] = "absent" <=> c.nodes[m] = "absent" /\ m # n
         /\ \A m \in Nodes, q \in Pods :
              r.on[m][q] = IF m = n /\ q = p THEN c.on[m][q] + 1 ELSE c.on[m][q]
<1>1. c \in CacheRecord
  BY DEF CacheOK
<1>2. CASE n = NoNode
  BY <1>1, <1>2, AssumeAssumption DEF AddPodToNode
<1>3. CASE n # NoNode
  <2> DEFINE nodes == [c.nodes EXCEPT ![n] = IF @ = "absent" THEN "bare" ELSE @]
             on == [c.on EXCEPT ![n] = [c.on[n] EXCEPT ![p] = @ + 1]]
  <2>1. n \in Nodes
    BY <1>3
  <2>2. r = [nodes |-> nodes, on |-> on, pods |-> c.pods, assumed |-> c.assumed]
    BY <1>1, <1>3 DEF AddPodToNode, NodeInfoAddPod, CacheRecord
  <2>3. nodes \in [Nodes -> {"absent", "bare", "set"}] /\ on \in [Nodes -> [Pods -> Nat]]
    BY <1>1, <2>1 DEF CacheRecord
  <2>4. \A m \in Nodes : nodes[m] = "absent" <=> c.nodes[m] = "absent" /\ m # n
    BY <1>1, <2>1 DEF CacheRecord
  <2>5. \A m \in Nodes, q \in Pods :
          on[m][q] = IF m = n /\ q = p THEN c.on[m][q] + 1 ELSE c.on[m][q]
    BY <1>1, <2>1 DEF CacheRecord
  <2> HIDE DEF nodes, on
  <2> QED
    BY <1>1, <2>2, <2>3, <2>4, <2>5 DEF CacheRecord
<1> QED
  BY <1>2, <1>3

(* A removal takes an entry when there is one. *)
LEMMA RemovePodEffect ==
  ASSUME NEW c, CacheOK(c), NEW p \in Pods, NEW n \in Nodes \cup {NoNode},
         NEW r, r = RemovePod(c, p, n)
  PROVE  /\ r \in CacheRecord /\ r.pods = c.pods /\ r.assumed = c.assumed /\ r.nodes = c.nodes
         /\ \A m \in Nodes, q \in Pods : m # n \/ q # p => r.on[m][q] = c.on[m][q]
         /\ \A m \in Nodes : m = n /\ c.on[m][p] = 0 => r.on[m][p] = 0
         /\ \A m \in Nodes : m = n /\ c.on[m][p] # 0 => c.on[m][p] = r.on[m][p] + 1
<1>1. c \in CacheRecord
  BY DEF CacheOK
<1>2. CASE RemoveFails(c, p, n)
  <2>1. r = c
    BY <1>2 DEF RemovePod
  <2>2. n \in Nodes => c.on[n][p] \in Nat /\ ~(c.on[n][p] > 0)
    BY <1>1, <1>2, AssumeAssumption DEF RemoveFails, NodeInfoHas, CacheOK, CacheRecord
  <2>3. n \in Nodes => c.on[n][p] = 0
    BY <2>2
  <2> QED
    BY <1>1, <2>1, <2>3
<1>3. CASE ~RemoveFails(c, p, n)
  <2> DEFINE on == [c.on EXCEPT ![n] = [c.on[n] EXCEPT ![p] = @ - 1]]
  <2>1. n \in Nodes /\ c.nodes[n] # "absent" /\ c.on[n][p] > 0
    BY <1>3 DEF RemoveFails, NodeInfoHas
  <2>2. r = [nodes |-> c.nodes, on |-> on, pods |-> c.pods, assumed |-> c.assumed]
    BY <1>1, <1>3 DEF RemovePod, NodeInfoRemovePod, CacheRecord
  <2>3. on \in [Nodes -> [Pods -> Nat]]
    BY <1>1, <2>1 DEF CacheRecord
  <2>4. \A m \in Nodes, q \in Pods :
          on[m][q] = IF m = n /\ q = p /\ c.on[m][q] > 0 THEN c.on[m][q] - 1 ELSE c.on[m][q]
    BY <1>1, <2>1 DEF CacheRecord
  <2> HIDE DEF on
  <2>5. r \in CacheRecord
    BY <1>1, <2>2, <2>3 DEF CacheRecord
  <2>6. \A m \in Nodes : m = n => c.on[m][p] # 0 /\ c.on[m][p] = r.on[m][p] + 1
    BY <1>1, <2>1, <2>2, <2>4 DEF CacheRecord
  <2>7. \A m \in Nodes, q \in Pods : m # n \/ q # p => r.on[m][q] = c.on[m][q]
    BY <2>2, <2>4
  <2> QED
    BY <2>2, <2>5, <2>6, <2>7
<1> QED
  BY <1>2, <1>3

(* ... and the cache stays in order. *)
LEMMA RemovePodOK ==
  ASSUME NEW c, CacheOK(c), NEW p \in Pods, NEW n \in Nodes \cup {NoNode}
  PROVE  CacheOK(RemovePod(c, p, n))
<1>1. PICK r : r = RemovePod(c, p, n)
  OBVIOUS
<1>2. /\ r \in CacheRecord /\ r.pods = c.pods /\ r.assumed = c.assumed /\ r.nodes = c.nodes
      /\ \A m \in Nodes, q \in Pods : m # n \/ q # p => r.on[m][q] = c.on[m][q]
      /\ n \in Nodes => (c.on[n][p] = 0 => r.on[n][p] = 0)
  BY <1>1, RemovePodEffect
<1> QED
  BY <1>1, <1>2 DEF CacheOK

(* SchedulerCache.AddPod: a pod that is new is added, one that was assumed *)
(* on another node is moved, everything else is already there.             *)
LEMMA AddPodEffect ==
  ASSUME NEW c, CacheOK(c), NEW p \in Pods, NEW n \in Nodes \cup {NoNode},
         c.pods[p] = Uncached => p \notin c.assumed,
         p \in c.assumed => n \in Nodes,
         NEW r, r = AddPod(c, p, n)
  PROVE  /\ CacheOK(r)
         /\ \A m \in Nodes : r.nodes[m] = "absent" => c.nodes[m] = "absent"
         /\ \A q \in Pods \ {p} : /\ r.pods[q] = c.pods[q] /\ (q \in r.assumed <=> q \in c.assumed)
                                  /\ \A m \in Nodes : r.on[m][q] = c.on[m][q]
         /\ p \notin r.assumed /\ r.pods[p] # Uncached
         /\ c.pods[p] = Uncached =>
              /\ r.pods[p] = n
              /\ \A m \in Nodes : r.on[m][p] = IF m = n THEN c.on[m][p] + 1 ELSE c.on[m][p]
         /\ p \in c.assumed /\ c.pods[p] # n =>
              /\ r.pods[p] = n
              /\ \A m \in Nodes :
                   r.on[m][p] = IF m = n THEN c.on[m][p] + 1
                                ELSE IF m = c.pods[p] /\ c.on[m][p] > 0 THEN c.on[m][p] - 1
                                ELSE c.on[m][p]
         /\ c.pods[p] # Uncached /\ (p \in c.assumed => c.pods[p] = n) =>
              /\ r.pods[p] = c.pods[p]
              /\ \A m \in Nodes : r.on[m][p] = c.on[m][p]
<1> DEFINE d == [c EXCEPT !.pods[p] = n, !.assumed = @ \ {p}]
           e == RemovePod(d, p, c.pods[p])
<1>1. c \in CacheRecord
  BY DEF CacheOK
<1>2. /\ d \in CacheRecord /\ d.nodes = c.nodes /\ d.on = c.on /\ d.assumed = c.assumed \ {p}
      /\ d.pods = [c.pods EXCEPT ![p] = n]
  BY <1>1 DEF CacheRecord
<1> HIDE DEF d
<1>3. CacheOK(d)
  BY <1>1, <1>2 DEF CacheOK, CacheRecord
<1>4. d.pods[p] = n /\ \A q \in Pods \ {p} : d.pods[q] = c.pods[q]
  BY <1>1, <1>2 DEF CacheRecord
<1>5. n # Uncached
  BY AssumeAssumption
<1>6. CASE c.pods[p] = Uncached
  <2>1. r = AddPodToNode(d, p, n)
    BY <1>6 DEF AddPod, d
  <2>2. /\ r \in CacheRecord /\ r.pods = d.pods /\ r.assumed = d.assumed
        /\ \A m \in Nodes : r.nodes[m] = "absent" <=> d.nodes[m] = "absent" /\ m # n
        /\ \A m \in Nodes, q \in Pods :
             r.on[m][q] = IF m = n /\ q = p THEN d.on[m][q] + 1 ELSE d.on[m][q]
    BY <1>3, <2>1, AddPodToNodeEffect
  <2>3. CacheOK(r)
    BY <1>3, <2>2 DEF CacheOK
  <2> QED
    BY <1>2, <1>4, <1>5, <1>6, <2>2, <2>3
<1>7. CASE c.pods[p] # Uncached /\ p \in c.assumed /\ c.pods[p] # n
  <2>1. r = AddPodToNode(e, p, n)
    BY <1>7 DEF AddPod, d
  <2>2. PICK k \in Nodes : k = c.pods[p]
    BY <1>7 DEF CacheOK
  <2>8. e = RemovePod(d, p, k) /\ k \in Nodes \cup {NoNode}
    BY <2>2
  <2> HIDE DEF e
  <2>3. /\ CacheOK(e) /\ e.pods = d.pods /\ e.assumed = d.assumed /\ e.nodes = d.nodes
        /\ \A m \in Nodes, q \in Pods : m # k \/ q # p => e.on[m][q] = d.on[m][q]
        /\ d.on[k][p] # 0 => d.on[k][p] = e.on[k][p] + 1
        /\ d.on[k][p] = 0 => e.on[k][p] = 0
    <3>1. CacheOK(e)
      BY <1>3, <2>8, RemovePodOK
    <3>2. e.pods = d.pods /\ e.assumed = d.assumed /\ e.nodes = d.nodes
      BY <1>3, <2>8, RemovePodEffect
    <3>3. \A m \in Nodes, q \in Pods : m # k \/ q # p => e.on[m][q] = d.on[m][q]
      BY <1>3, <2>8, RemovePodEffect
    <3>4. d.on[k][p] # 0 => d.on[k][p] = e.on[k][p] + 1
      BY <1>3, <2>8, RemovePodEffect
    <3>5. d.on[k][p] = 0 => e.on[k][p] = 0
      BY <1>3, <2>8, RemovePodEffect
    <3> QED
      BY <3>1, <3>2, <3>3, <3>4, <3>5
  <2>4. /\ r \in CacheRecord /\ r.pods = e.pods /\ r.assumed = e.assumed
        /\ \A m \in Nodes : r.nodes[m] = "absent" <=> e.nodes[m] = "absent" /\ m # n
        /\ \A m \in Nodes, q \in Pods :
             r.on[m][q] = IF m = n /\ q = p THEN e.on[m][q] + 1 ELSE e.on[m][q]
    BY <2>1, <2>3, AddPodToNodeEffect
  <2>5. CacheOK(r)
    BY <2>3, <2>4 DEF CacheOK
  <2>6. \A m \in Nodes : r.on[m][p] = IF m = n THEN c.on[m][p] + 1
                                      ELSE IF m = c.pods[p] /\ c.on[m][p] > 0 THEN c.on[m][p] - 1
                                      ELSE c.on[m][p]
    <3> SUFFICES ASSUME NEW m \in Nodes
                 PROVE  r.on[m][p] = IF m = n THEN c.on[m][p] + 1
                                     ELSE IF m = c.pods[p] /\ c.on[m][p] > 0 THEN c.on[m][p] - 1
                                     ELSE c.on[m][p]
      OBVIOUS
    <3>1. d.on[m][p] = c.on[m][p] /\ c.on[m][p] \in Nat /\ e.on[m][p] \in Nat
      BY <1>1, <1>2, <2>3 DEF CacheOK, CacheRecord
    <3>2. r.on[m][p] = IF m = n THEN e.on[m][p] + 1 ELSE e.on[m][p]
      BY <2>4
    <3>3. m # k => e.on[m][p] = c.on[m][p]
      BY <2>3, <3>1
    <3>4. m = k /\ c.on[m][p] > 0 => e.on[m][p] = c.on[m][p] - 1
      BY <2>3, <3>1
    <3>5. m = k /\ ~(c.on[m][p] > 0) => e.on[m][p] = c.on[m][p]
      BY <2>3, <3>1
    <3> QED
      BY <1>7, <2>2, <3>1, <3>2, <3>3, <3>4, <3>5
  <2>7. \A q \in Pods \ {p} : \A m \in Nodes : r.on[m][q] = c.on[m][q]
    BY <1>2, <2>3, <2>4
  <2> QED
    BY <1>2, <1>4, <1>5, <1>7, <2>3, <2>4, <2>5, <2>6, <2>7
<1>8. CASE c.pods[p] # Uncached /\ p \in c.assumed /\ c.pods[p] = n
  <2>1. r = d
    BY <1>8 DEF AddPod, d
  <2> QED
    BY <1>2, <1>3, <1>4, <1>5, <1>8, <2>1
<1>9. CASE c.pods[p] # Uncached /\ p \notin c.assumed
  <2>1. r = c
    BY <1>9 DEF AddPod
  <2> QED
    BY <1>9, <2>1
<1> QED
  BY <1>6, <1>7, <1>8, <1>9

(* An update of a bound pod replaces its entry. *)
LEMMA UpdatePodEffect ==
  ASSUME NEW c, CacheOK(c), NEW p \in Pods, NEW n \in Nodes, NEW r, r = UpdatePod(c, p, n)
  PROVE  /\ CacheOK(r) /\ r.assumed = c.assumed
         /\ \A m \in Nodes : r.nodes[m] = "absent" => c.nodes[m] = "absent"
         /\ \A q \in Pods \ {p} : r.pods[q] = c.pods[q]
         /\ r.pods[p] = c.pods[p] \/ (r.pods[p] = n /\ p \notin c.assumed /\ c.pods[p] # Uncached)
         /\ \A m \in Nodes, q \in Pods : r.on[m][q] = c.on[m][q]
<1> DEFINE d == RemovePod(c, p, n)
           e == AddPodToNode(d, p, n)
<1>1. CASE c.pods[p] = Uncached \/ p \in c.assumed \/ RemoveFails(c, p, n)
  BY <1>1 DEF UpdatePod
<1>2. CASE ~(c.pods[p] = Uncached \/ p \in c.assumed \/ RemoveFails(c, p, n))
  <2>1. r = [e EXCEPT !.pods[p] = n]
    BY <1>2 DEF UpdatePod
  <2>2. /\ CacheOK(d) /\ d.pods = c.pods /\ d.assumed = c.assumed /\ d.nodes = c.nodes
        /\ \A m \in Nodes, q \in Pods : m # n \/ q # p => d.on[m][q] = c.on[m][q]
        /\ c.on[n][p] # 0 => c.on[n][p] = d.on[n][p] + 1
    BY RemovePodEffect, RemovePodOK
  <2>3. c.on[n][p] \in Nat /\ c.on[n][p] > 0
    BY <1>2 DEF RemoveFails, NodeInfoHas, CacheOK, CacheRecord
  <2> HIDE DEF d
  <2>4. /\ e \in CacheRecord /\ e.pods = d.pods /\ e.assumed = d.assumed
        /\ \A m \in Nodes : e.nodes[m] = "absent" <=> d.nodes[m] = "absent" /\ m # n
        /\ \A m \in Nodes, q \in Pods :
             e.on[m][q] = IF m = n /\ q = p THEN d.on[m][q] + 1 ELSE d.on[m][q]
    BY <2>2, AddPodToNodeEffect
  <2> HIDE DEF e
  <2>5. /\ r \in CacheRecord /\ r.nodes = e.nodes /\ r.on = e.on /\ r.assumed = e.assumed
        /\ r.pods = [c.pods EXCEPT ![p] = n]
    <3>1. e.pods = c.pods /\ e \in CacheRecord
      BY <2>2, <2>4
    <3>2. r = [nodes |-> e.nodes, on |-> e.on, pods |-> [e.pods EXCEPT ![p] = n],
               assumed |-> e.assumed]
      BY <2>1, <3>1 DEF CacheRecord
    <3>3. [e.pods EXCEPT ![p] = n] \in [Pods -> Nodes \cup {NoNode, Uncached}]
      BY <3>1 DEF CacheRecord
    <3> QED
      BY <3>1, <3>2, <3>3 DEF CacheRecord
  <2>6. \A m \in Nodes, q \in Pods : r.on[m][q] = c.on[m][q]
    BY <2>2, <2>3, <2>4, <2>5
  <2>7. c.pods \in [Pods -> Nodes \cup {NoNode, Uncached}]
    BY DEF CacheOK, CacheRecord
  <2>8. r.pods[p] = n /\ \A q \in Pods \ {p} : r.pods[q] = c.pods[q]
    BY <2>5, <2>7
  <2>9. CacheOK(r)
    BY <1>2, <2>2, <2>4, <2>5, <2>6, <2>8 DEF CacheOK, CacheRecord
  <2> QED
    BY <1>2, <2>2, <2>4, <2>5, <2>6, <2>8, <2>9
<1> QED
  BY <1>1, <1>2

(* An assumption adds an entry without looking for another one. *)
LEMMA AssumeEffect ==
  ASSUME NEW c, CacheOK(c), NEW p \in Pods, NEW n \in Nodes,
         NEW r, r = AssumePodInCache(c, p, n)
  PROVE  /\ CacheOK(r)
         /\ \A m \in Nodes : r.nodes[m] = "absent" => c.nodes[m] = "absent"
         /\ \A q \in Pods \ {p} : /\ r.pods[q] = c.pods[q] /\ (q \in r.assumed <=> q \in c.assumed)
                                  /\ \A m \in Nodes : r.on[m][q] = c.on[m][q]
         /\ p \in r.assumed /\ r.pods[p] = n
         /\ \A m \in Nodes : r.on[m][p] = IF m = n THEN c.on[m][p] + 1 ELSE c.on[m][p]
<1> DEFINE e == AddPodToNode(c, p, n)
<1>1. r = [e EXCEPT !.pods[p] = n, !.assumed = @ \cup {p}]
  BY DEF AssumePodInCache
<1>2. /\ e \in CacheRecord /\ e.pods = c.pods /\ e.assumed = c.assumed
      /\ \A m \in Nodes : e.nodes[m] = "absent" <=> c.nodes[m] = "absent" /\ m # n
      /\ \A m \in Nodes, q \in Pods :
           e.on[m][q] = IF m = n /\ q = p THEN c.on[m][q] + 1 ELSE c.on[m][q]
  BY AddPodToNodeEffect
<1> HIDE DEF e
<1>3. /\ r \in CacheRecord /\ r.nodes = e.nodes /\ r.on = e.on /\ r.assumed = c.assumed \cup {p}
      /\ r.pods = [c.pods EXCEPT ![p] = n]
  <2>1. r = [nodes |-> e.nodes, on |-> e.on, pods |-> [e.pods EXCEPT ![p] = n],
             assumed |-> e.assumed \cup {p}]
    BY <1>1, <1>2 DEF CacheRecord
  <2>2. [e.pods EXCEPT ![p] = n] \in [Pods -> Nodes \cup {NoNode, Uncached}]
    BY <1>2 DEF CacheRecord
  <2> QED
    BY <1>2, <2>1, <2>2 DEF CacheRecord
<1>4. c.pods \in [Pods -> Nodes \cup {NoNode, Uncached}]
  BY DEF CacheOK, CacheRecord
<1>5. r.pods[p] = n /\ \A q \in Pods \ {p} : r.pods[q] = c.pods[q]
  BY <1>3, <1>4
<1>6. CacheOK(r)
  BY <1>2, <1>3, <1>5 DEF CacheOK, CacheRecord
<1> QED
  BY <1>2, <1>3, <1>5, <1>6

(* A node that is added or updated keeps its entries, a removed one does   *)
(* not.                                                                    *)
LEMMA NodeSetEffect ==
  ASSUME NEW c, CacheOK(c), NEW n \in Nodes, NEW r, r \in {AddNode(c, n), UpdateNode(c, n)}
  PROVE  /\ CacheOK(r) /\ r.pods = c.pods /\ r.assumed = c.assumed /\ r.on = c.on
         /\ \A m \in Nodes : r.nodes[m] = "absent" => c.nodes[m] = "absent"
<1>1. c \in CacheRecord
  BY DEF CacheOK
<1>2. CASE r = c
  BY <1>2
<1>3. CASE r = [c EXCEPT !.nodes[n] = "set"]
  <2>1. /\ r \in CacheRecord /\ r.pods = c.pods /\ r.assumed = c.assumed
        /\ r.nodes = [c.nodes EXCEPT ![n] = "set"] /\ r.on = c.on
    BY <1>1, <1>3 DEF CacheRecord
  <2>2. \A m \in Nodes : r.nodes[m] = IF m = n THEN "set" ELSE c.nodes[m]
    BY <1>1, <2>1 DEF CacheRecord
  <2> QED
    BY <2>1, <2>2 DEF CacheOK
<1> QED
  BY <1>2, <1>3 DEF AddNode, UpdateNode

(* RemoveNode forgets the node and what it counts, and touches no pod map. *)
LEMMA RemoveNodeEffect ==
  ASSUME NEW c, CacheOK(c), NEW n \in Nodes, NEW r, r = RemoveNode(c, n)
  PROVE  /\ CacheOK(r) /\ r.pods = c.pods /\ r.assumed = c.assumed
         /\ \A m \in Nodes \ {n} : r.nodes[m] = c.nodes[m] /\ r.on[m] = c.on[m]
         /\ \A p \in Pods : r.on[n][p] = 0
<1>1. c \in CacheRecord
  BY DEF CacheOK
<1>2. NoPods \in [Pods -> Nat] /\ \A q \in Pods : NoPods[q] = 0
  BY DEF NoPods
<1>3. /\ r \in CacheRecord /\ r.pods = c.pods /\ r.assumed = c.assumed
      /\ r.nodes = [c.nodes EXCEPT ![n] = "absent"] /\ r.on = [c.on EXCEPT ![n] = NoPods]
  BY <1>1, <1>2 DEF RemoveNode, CacheRecord
<1>4. /\ \A m \in Nodes : r.nodes[m] = IF m = n THEN "absent" ELSE c.nodes[m]
      /\ \A m \in Nodes : r.on[m] = IF m = n THEN NoPods ELSE c.on[m]
  BY <1>1, <1>3 DEF CacheRecord
<1> QED
  BY <1>2, <1>3, <1>4 DEF CacheOK

-----------------------------------------------------------------------------
(* The steps.                                                              *)

(* The four variables are what an operation makes of them. *)
LEMMA CacheAfter ==
  ASSUME NEW r \in CacheRecord, CacheBecomes(r)
  PROVE  Cache' = r
BY DEF CacheBecomes, Cache, CacheRecord

(* The cache record is in order exactly when its variables are. *)
LEMMA CacheTypes ==
  ASSUME CacheOK(Cache)
  PROVE  /\ Cache.nodes = nodesMap /\ Cache.on = podsOn /\ Cache.pods = podsMap
         /\ Cache.assumed = assumedPods
         /\ nodesMap \in [Nodes -> {"absent", "bare", "set"}]
         /\ podsOn \in [Nodes -> [Pods -> Nat]]
         /\ podsMap \in [Pods -> Nodes \cup {NoNode, Uncached}]
         /\ assumedPods \subseteq Pods
         /\ \A p \in assumedPods : podsMap[p] \in Nodes
         /\ \A n \in Nodes : nodesMap[n] = "absent" => \A p \in Pods : podsOn[n][p] = 0
         /\ \A n \in Nodes, p \in Pods : podsOn[n][p] \in Nat
<1>1. /\ Cache.nodes = nodesMap /\ Cache.on = podsOn /\ Cache.pods = podsMap
      /\ Cache.assumed = assumedPods
  BY DEF Cache
<1>2. Cache \in CacheRecord
  BY DEF CacheOK
<1>3. /\ nodesMap \in [Nodes -> {"absent", "bare", "set"}]
      /\ podsOn \in [Nodes -> [Pods -> Nat]]
      /\ podsMap \in [Pods -> Nodes \cup {NoNode, Uncached}]
      /\ assumedPods \subseteq Pods
  BY <1>1, <1>2 DEF CacheRecord
<1> QED
  BY <1>1, <1>3 DEF CacheOK

(* What a step of others may do to a pod: nothing but remove a node, or    *)
(* leave it in doubt.                                                      *)
SamePod(p) ==
  /\ pod'[p] = pod[p] /\ podNode'[p] = podNode[p] /\ known'[p] = known[p]
  /\ proposal'[p] = proposal[p] /\ tries'[p] = tries[p]
  /\ podsMap'[p] = podsMap[p] /\ (p \in assumedPods' <=> p \in assumedPods)
  /\ \A n \in Nodes : /\ podsOn[n][p] \in Nat /\ podsOn'[n][p] \in Nat
                      /\ podsOn'[n][p] <= podsOn[n][p]
                      /\ n \notin lost' => podsOn'[n][p] = podsOn[n][p]
  /\ lost \subseteq lost'
  /\ \A n \in Nodes : nodesMap'[n] = "absent" => nodesMap[n] = "absent" \/ n \in lost'
  /\ p \in doubted => p \in doubted'

SameEvents(p) ==
  /\ EventsOf(taskEvents', p) = EventsOf(taskEvents, p)
  /\ EventsOf(assignedEvents', p) = EventsOf(assignedEvents, p)
  /\ OneAdd(taskEvents', p) /\ OneAdd(assignedEvents', p) /\ DeleteLast(assignedEvents', p)

(* A handler that works on another pod, or only loses a node, keeps what
   holds of this one. *)
LEMMA PodSame ==
  ASSUME NEW p \in Pods, PodInv(p), SamePod(p), SameEvents(p), tries[p] \in Nat
  PROVE  PodInv(p)'
<1> USE DEF SamePod, SameEvents
<1>1. PodLife(p)'
  BY DEF PodInv, PodLife
<1>2. Proposed(p)'
  BY DEF PodInv, Proposed
<1>3. Queued(p)'
  BY DEF PodInv, Queued
<1>4. Learnt(p)'
  BY DEF PodInv, Learnt, AddIn
<1>5. Counted(p)'
  BY DEF PodInv, Counted
<1>6. Seen(p)'
  BY DEF PodInv, Seen
<1>7. Entries(p)'
  BY DEF PodInv, Entries
<1>8. Ended(p)'
  BY DEF PodInv, Ended, DeleteIn
<1> QED
  BY <1>1, <1>2, <1>3, <1>4, <1>5, <1>6, <1>7, <1>8 DEF PodInv

(* The queues: an event of another pod changes nothing for this one. *)
LEMMA EventsSame ==
  ASSUME QueueTypes, NEW p \in Pods, PodInv(p),
         \/ taskEvents' = taskEvents
         \/ \E e \in TaskEvent : e.pod # p /\ taskEvents' = Append(taskEvents, e)
         \/ taskEvents # <<>> /\ Head(taskEvents).pod # p /\ taskEvents' = Tail(taskEvents),
         \/ assignedEvents' = assignedEvents
         \/ \E e \in AssignedEvent : e.pod # p /\ assignedEvents' = Append(assignedEvents, e)
         \/ assignedEvents # <<>> /\ Head(assignedEvents).pod # p /\ assignedEvents' = Tail(assignedEvents)
  PROVE  SameEvents(p)
<1> USE DEF PodInv, Queued
<1>1. EventsOf(taskEvents', p) = EventsOf(taskEvents, p) /\ OneAdd(taskEvents', p)
  <2>1. CASE taskEvents' = taskEvents
    BY <2>1
  <2>2. ASSUME NEW e \in TaskEvent, e.pod # p, taskEvents' = Append(taskEvents, e)
        PROVE  EventsOf(taskEvents', p) = EventsOf(taskEvents, p) /\ OneAdd(taskEvents', p)
    <3>1. taskEvents \in Seq(TaskEvent)
      BY DEF QueueTypes
    <3> QED
      BY <2>2, <3>1, AppendEvents
  <2>3. CASE taskEvents # <<>> /\ Head(taskEvents).pod # p /\ taskEvents' = Tail(taskEvents)
    <3>1. taskEvents \in Seq(TaskEvent)
      BY DEF QueueTypes
    <3> QED
      BY <2>3, <3>1, TailEvents
  <2> QED
    BY <2>1, <2>2, <2>3
<1>2. /\ EventsOf(assignedEvents', p) = EventsOf(assignedEvents, p) /\ OneAdd(assignedEvents', p)
      /\ DeleteLast(assignedEvents', p)
  <2>1. CASE assignedEvents' = assignedEvents
    BY <2>1
  <2>2. ASSUME NEW e \in AssignedEvent, e.pod # p, assignedEvents' = Append(assignedEvents, e)
        PROVE  /\ EventsOf(assignedEvents', p) = EventsOf(assignedEvents, p)
               /\ OneAdd(assignedEvents', p) /\ DeleteLast(assignedEvents', p)
    <3>1. assignedEvents \in Seq(AssignedEvent)
      BY DEF QueueTypes
    <3> QED
      BY <2>2, <3>1, AppendEvents
  <2>3. CASE /\ assignedEvents # <<>> /\ Head(assignedEvents).pod # p
             /\ assignedEvents' = Tail(assignedEvents)
    <3>1. assignedEvents \in Seq(AssignedEvent)
      BY DEF QueueTypes
    <3> QED
      BY <2>3, <3>1, TailEvents
  <2> QED
    BY <2>1, <2>2, <2>3
<1> QED
  BY <1>1, <1>2 DEF SameEvents

(* The handler of nodes. *)
LEMMA NodeEventInv ==
  ASSUME AssumeInv, HandleNodeEvent
  PROVE  AssumeInv'
<1> DEFINE e == Head(nodeEvents)
           r == CASE e.kind = "add"    -> AddNode(Cache, e.node)
                  [] e.kind = "update" -> UpdateNode(Cache, e.node)
                  [] e.kind = "delete" -> RemoveNode(Cache, e.node)
<1>1. e \in NodeEvent /\ nodeEvents' \in Seq(NodeEvent)
  BY DEF HandleNodeEvent, AssumeInv, QueueTypes
<1>2. /\ CacheBecomes(r) /\ lost' = (IF e.kind = "delete" THEN lost \cup {e.node} ELSE lost)
      /\ UNCHANGED <<apiVars, taskEvents, assignedEvents, coreVars, doubted, events>>
  BY DEF HandleNodeEvent
<1>3. e.node \in Nodes /\ e.kind \in {"add", "update", "delete"} /\ CacheOK(Cache)
  BY <1>1 DEF NodeEvent, AssumeInv
<1>4. /\ e.kind = "delete" => r = RemoveNode(Cache, e.node)
      /\ e.kind # "delete" => r \in {AddNode(Cache, e.node), UpdateNode(Cache, e.node)}
  BY <1>3
<1> HIDE DEF r, e
<1>5. /\ CacheOK(r) /\ r.pods = Cache.pods /\ r.assumed = Cache.assumed
      /\ \A m \in Nodes : r.nodes[m] = "absent" => Cache.nodes[m] = "absent" \/ m \in lost'
      /\ \A m \in Nodes, q \in Pods : r.on[m][q] = Cache.on[m][q] \/ (m \in lost' /\ r.on[m][q] = 0)
  <2>1. CASE e.kind = "delete"
    BY <1>2, <1>3, <1>4, <2>1, RemoveNodeEffect
  <2>2. CASE e.kind # "delete"
    BY <1>2, <1>3, <1>4, <2>2, NodeSetEffect
  <2> QED
    BY <2>1, <2>2
<1>6. Cache' = r
  BY <1>2, <1>5, CacheAfter DEF CacheOK
<1>7. CacheOK(Cache)'
  BY <1>5, <1>6, Zenon
<1>8. /\ podsMap' = podsMap /\ assumedPods' = assumedPods
      /\ \A m \in Nodes : nodesMap'[m] = "absent" => nodesMap[m] = "absent" \/ m \in lost'
      /\ \A m \in Nodes, q \in Pods :
           podsOn'[m][q] = podsOn[m][q] \/ (m \in lost' /\ podsOn'[m][q] = 0)
      /\ \A m \in Nodes, q \in Pods : podsOn[m][q] \in Nat
  BY <1>3, <1>5, <1>6, CacheTypes DEF Cache
<1>9. ASSUME NEW p \in Pods
      PROVE  PodInv(p)'
  <2>1. SamePod(p)
    BY <1>2, <1>8 DEF SamePod, apiVars, coreVars
  <2>2. PodInv(p) /\ QueueTypes /\ tries[p] \in Nat
    BY AssumeAssumption DEF AssumeInv, ApiTypes
  <2>3. SameEvents(p)
    BY <1>2, <2>2, EventsSame
  <2> QED
    BY <2>1, <2>2, <2>3, PodSame
<1>10. ApiTypes' /\ QueueTypes'
  BY <1>1, <1>2 DEF AssumeInv, ApiTypes, QueueTypes, apiVars, coreVars
<1> QED
  BY <1>7, <1>9, <1>10 DEF AssumeInv

(* The API server: changes of nodes, which only their handler acts on. *)
LEMMA NodeChangeInv ==
  ASSUME AssumeInv, NEW n \in Nodes, NodeJoins(n) \/ NodeLeaves(n) \/ Heartbeat(n)
  PROVE  AssumeInv'
<1>1. /\ apiNodes' \subseteq Nodes
      /\ \E e \in NodeEvent : nodeEvents' = Append(nodeEvents, e)
      /\ UNCHANGED <<pod, podNode, known, taskEvents, assignedEvents, cacheVars, coreVars, ghostVars>>
  <2>1. \A kind \in {"add", "update", "delete"} : Ev(kind, NoNode, n) \in NodeEvent
    BY DEF Ev, NodeEvent
  <2> QED
    BY <2>1 DEF NodeJoins, NodeLeaves, Heartbeat, apiVars, AssumeInv, ApiTypes
<1>2. CacheOK(Cache) /\ Cache' = Cache
  BY <1>1 DEF AssumeInv, Cache, cacheVars
<1>3. ASSUME NEW p \in Pods
      PROVE  PodInv(p)'
  <2>1. PodInv(p) /\ QueueTypes /\ tries[p] \in Nat
    BY AssumeAssumption DEF AssumeInv, ApiTypes
  <2>2. SamePod(p)
    BY <1>1, <1>2, CacheTypes DEF SamePod, cacheVars, coreVars, ghostVars
  <2>3. SameEvents(p)
    BY <1>1, <2>1, EventsSame
  <2> QED
    BY <2>1, <2>2, <2>3, PodSame
<1>4. ApiTypes' /\ QueueTypes'
  BY <1>1 DEF AssumeInv, ApiTypes, QueueTypes, coreVars
<1> QED
  BY <1>2, <1>3, <1>4, Zenon DEF AssumeInv

(* A pod that does not exist yet has no entry, no event and no proposal. *)
LEMMA CreateInv ==
  ASSUME AssumeInv, NEW p \in Pods, CreatePod(p)
  PROVE  AssumeInv'
<1> DEFINE e == Ev("add", p, NoNode)
<1>1. /\ pod[p] = "absent" /\ pod' = [pod EXCEPT ![p] = "pending"]
      /\ taskEvents' = Append(taskEvents, e)
      /\ UNCHANGED <<podNode, known, apiNodes, nodeEvents, assignedEvents, cacheVars, coreVars,
                     ghostVars, events>>
  BY DEF CreatePod
<1>2. e \in TaskEvent /\ e.pod = p /\ e.kind = "add" /\ e.node = NoNode
  BY DEF Ev, TaskEvent
<1> HIDE DEF e
<1>3. /\ CacheOK(Cache) /\ Cache' = Cache /\ pod \in [Pods -> {"absent", "pending", "bound", "gone"}]
      /\ QueueTypes /\ taskEvents \in Seq(TaskEvent) /\ \A q \in Pods : PodInv(q) /\ tries[q] \in Nat
  BY <1>1, AssumeAssumption DEF AssumeInv, ApiTypes, QueueTypes, Cache, cacheVars
<1>4. ASSUME NEW q \in Pods \ {p}
      PROVE  PodInv(q)'
  <2>1. SamePod(q)
    BY <1>1, <1>3, CacheTypes DEF SamePod, cacheVars, coreVars, ghostVars
  <2>2. SameEvents(q)
    BY <1>1, <1>2, <1>3, EventsSame
  <2> QED
    BY <1>3, <2>1, <2>2, PodSame
<1>5. PodInv(p)'
  <2>1. /\ PodLife(p) /\ Proposed(p) /\ Queued(p) /\ Learnt(p)
        /\ Counted(p) /\ Seen(p) /\ Entries(p) /\ Ended(p)
    BY <1>3 DEF PodInv
  <2>2. /\ pod'[p] = "pending" /\ podNode[p] = NoNode /\ podsMap[p] = Uncached
        /\ EventsOf(taskEvents, p) = {} /\ proposal[p].stage = "idle"
    BY <1>1, <1>3, <2>1 DEF PodLife, Proposed
  <2>3. /\ EventsOf(taskEvents', p) = {e} /\ OneAdd(taskEvents', p)
    <3>1. ~AddIn(taskEvents, p) /\ OneAdd(taskEvents, p)
      BY <2>1, <2>2 DEF AddIn, Queued
    <3>2. taskEvents \in Seq(TaskEvent) /\ taskEvents' = Append(taskEvents, e)
      BY <1>1, <1>3
    <3>3. EventsOf(taskEvents', p) = EventsOf(taskEvents, p) \cup {e} /\ OneAdd(taskEvents', p)
      BY <1>2, <3>1, <3>2, AppendEvents
    <3> QED
      BY <2>2, <3>3
  <2>4. PodLife(p)' /\ Proposed(p)' /\ Learnt(p)' /\ Counted(p)' /\ Seen(p)' /\ Ended(p)'
    BY <1>1, <2>1, <2>2
    DEF PodLife, Proposed, Learnt, Counted, Seen, Ended, cacheVars, coreVars, ghostVars
  <2>5. Queued(p)'
    BY <1>1, <1>2, <2>1, <2>2, <2>3 DEF Queued, cacheVars
  <2>6. Entries(p)'
    BY <1>1, <2>1, <2>2 DEF Entries, cacheVars, coreVars, ghostVars
  <2> QED
    BY <2>4, <2>5, <2>6 DEF PodInv
<1>6. ApiTypes' /\ QueueTypes'
  BY <1>1, <1>2, <1>3 DEF AssumeInv, ApiTypes, QueueTypes, coreVars
<1> QED
  BY <1>3, <1>4, <1>5, <1>6, Zenon DEF AssumeInv

(* The status of a bound pod changes. *)
LEMMA UpdateBoundInv ==
  ASSUME AssumeInv, NEW p \in Pods, UpdateBoundPod(p)
  PROVE  AssumeInv'
<1> DEFINE e == Ev("update", p, podNode[p])
<1>1. /\ pod[p] = "bound" /\ Informed(p)
      /\ assignedEvents' = Append(assignedEvents, e)
      /\ UNCHANGED <<apiVars, nodeEvents, taskEvents, cacheVars, coreVars, ghostVars>>
  BY DEF UpdateBoundPod
<1>2. /\ CacheOK(Cache) /\ Cache' = Cache /\ QueueTypes /\ assignedEvents \in Seq(AssignedEvent)
      /\ \A q \in Pods : PodInv(q) /\ tries[q] \in Nat
  BY <1>1, AssumeAssumption DEF AssumeInv, ApiTypes, QueueTypes, Cache, cacheVars
<1>3. /\ PodLife(p) /\ Proposed(p) /\ Queued(p) /\ Learnt(p)
      /\ Counted(p) /\ Seen(p) /\ Entries(p) /\ Ended(p)
  BY <1>2 DEF PodInv
<1>4. e \in AssignedEvent /\ e.pod = p /\ e.kind = "update" /\ e.node = podNode[p]
  BY <1>1, <1>3 DEF Ev, AssignedEvent, PodLife
<1> HIDE DEF e
<1>5. ASSUME NEW q \in Pods \ {p}
      PROVE  PodInv(q)'
  <2>1. SamePod(q)
    BY <1>1, <1>2, CacheTypes DEF SamePod, apiVars, cacheVars, coreVars, ghostVars
  <2>2. SameEvents(q)
    BY <1>1, <1>2, <1>4, EventsSame
  <2> QED
    BY <1>2, <2>1, <2>2, PodSame
<1>6. /\ EventsOf(assignedEvents', p) = EventsOf(assignedEvents, p) \cup {e}
      /\ OneAdd(assignedEvents', p) /\ DeleteLast(assignedEvents', p)
  <2>1. ~DeleteIn(assignedEvents, p) /\ OneAdd(assignedEvents, p) /\ DeleteLast(assignedEvents, p)
    BY <1>1, <1>3 DEF DeleteIn, Queued
  <2> QED
    BY <1>1, <1>2, <1>4, <2>1, AppendEvents
<1>7. PodInv(p)'
  <2>1. PodLife(p)' /\ Proposed(p)' /\ Counted(p)' /\ Seen(p)' /\ Entries(p)'
    BY <1>1, <1>3 DEF PodLife, Proposed, Counted, Seen, Entries, apiVars, cacheVars, coreVars, ghostVars
  <2>2. Queued(p)'
    BY <1>1, <1>3, <1>4, <1>6, AssumeAssumption DEF Queued, PodLife, Informed, apiVars, cacheVars
  <2>3. Learnt(p)'
    BY <1>1, <1>3, <1>6 DEF Learnt, AddIn, apiVars, cacheVars
  <2>4. Ended(p)'
    BY <1>1 DEF Ended, apiVars
  <2> QED
    BY <2>1, <2>2, <2>3, <2>4 DEF PodInv
<1>8. ApiTypes' /\ QueueTypes'
  BY <1>1, <1>2, <1>4 DEF AssumeInv, ApiTypes, QueueTypes, apiVars, coreVars
<1> QED
  BY <1>2, <1>5, <1>7, <1>8, Zenon DEF AssumeInv

(* The informer lists a bound pod it had not seen with its node. *)
LEMMA RelistInv ==
  ASSUME AssumeInv, NEW p \in Pods, Relist(p)
  PROVE  AssumeInv'
<1> DEFINE e == Ev("add", p, podNode[p])
<1>1. /\ pod[p] = "bound" /\ known[p] # podNode[p]
      /\ known' = [known EXCEPT ![p] = podNode[p]]
      /\ assignedEvents' = Append(assignedEvents, e)
      /\ UNCHANGED <<pod, podNode, apiNodes, nodeEvents, taskEvents, cacheVars, coreVars,
                     ghostVars, events>>
  BY DEF Relist, Informed
<1>2. /\ CacheOK(Cache) /\ Cache' = Cache /\ QueueTypes /\ assignedEvents \in Seq(AssignedEvent)
      /\ known \in [Pods -> Nodes \cup {NoNode}] /\ podNode \in [Pods -> Nodes \cup {NoNode}]
      /\ \A q \in Pods : PodInv(q) /\ tries[q] \in Nat
  BY <1>1, AssumeAssumption DEF AssumeInv, ApiTypes, QueueTypes, Cache, cacheVars
<1>3. /\ PodLife(p) /\ Proposed(p) /\ Queued(p) /\ Learnt(p)
      /\ Counted(p) /\ Seen(p) /\ Entries(p) /\ Ended(p)
  BY <1>2 DEF PodInv
<1>4. /\ podNode[p] \in Nodes /\ known[p] = NoNode /\ EventsOf(assignedEvents, p) = {}
      /\ known'[p] = podNode[p] /\ \A q \in Pods \ {p} : known'[q] = known[q]
      /\ known' \in [Pods -> Nodes \cup {NoNode}]
  BY <1>1, <1>2, <1>3 DEF PodLife, Queued
<1>5. e \in AssignedEvent /\ e.pod = p /\ e.kind = "add" /\ e.node = podNode[p]
  BY <1>4 DEF Ev, AssignedEvent
<1> HIDE DEF e
<1>6. ASSUME NEW q \in Pods \ {p}
      PROVE  PodInv(q)'
  <2>1. SamePod(q)
    BY <1>1, <1>2, <1>4, CacheTypes DEF SamePod, cacheVars, coreVars, ghostVars
  <2>2. SameEvents(q)
    BY <1>1, <1>2, <1>5, EventsSame
  <2> QED
    BY <1>2, <2>1, <2>2, PodSame
<1>7. /\ EventsOf(assignedEvents', p) = EventsOf(assignedEvents, p) \cup {e}
      /\ OneAdd(assignedEvents', p) /\ DeleteLast(assignedEvents', p)
  <2>1. /\ ~AddIn(assignedEvents, p) /\ ~DeleteIn(assignedEvents, p)
        /\ OneAdd(assignedEvents, p) /\ DeleteLast(assignedEvents, p)
        /\ assignedEvents \in Seq(AssignedEvent) /\ assignedEvents' = Append(assignedEvents, e)
    BY <1>1, <1>2, <1>3, <1>4 DEF AddIn, DeleteIn, Queued
  <2> QED
    BY <1>5, <2>1, AppendEvents
<1>8. PodInv(p)'
  <2>1. PodLife(p)' /\ Proposed(p)'
    BY <1>1, <1>3, <1>4 DEF PodLife, Proposed, cacheVars, coreVars, ghostVars
  <2>2. Queued(p)'
    <3>1. \A f \in EventsOf(assignedEvents', p) : f = e
      BY <1>4, <1>7
    <3>2. known'[p] # NoNode
      BY <1>4, AssumeAssumption
    <3> QED
      BY <1>1, <1>3, <1>5, <1>7, <3>1, <3>2 DEF Queued, cacheVars
  <2>3. Learnt(p)'
    BY <1>1, <1>3, <1>4, <1>5, <1>7 DEF Learnt, AddIn, cacheVars
  <2>4. Counted(p)' /\ Seen(p)' /\ Entries(p)'
    BY <1>1, <1>3, <1>4 DEF Counted, Seen, Entries, cacheVars, coreVars, ghostVars
  <2>5. Ended(p)'
    BY <1>1 DEF Ended
  <2> QED
    BY <2>1, <2>2, <2>3, <2>4, <2>5 DEF PodInv
<1>9. ApiTypes' /\ QueueTypes'
  BY <1>1, <1>2, <1>4, <1>5 DEF AssumeInv, ApiTypes, QueueTypes, coreVars
<1> QED
  BY <1>2, <1>6, <1>8, <1>9, Zenon DEF AssumeInv

(* A pod is deleted: it may have been assumed in vain. *)
LEMMA DeleteInv ==
  ASSUME AssumeInv, NEW p \in Pods, DeletePod(p)
  PROVE  AssumeInv'
<1> DEFINE e == Ev("delete", p, podNode[p])
<1>1. /\ pod[p] \in {"pending", "bound"} /\ pod' = [pod EXCEPT ![p] = "gone"]
      /\ taskEvents' = Append(taskEvents, e) \/ taskEvents' = taskEvents
      /\ assignedEvents' = IF known[p] = NoNode THEN assignedEvents
                           ELSE Append(assignedEvents, Ev("delete", p, known[p]))
      /\ doubted' = IF p \in assumedPods /\ pod[p] = "pending" THEN doubted \cup {p} ELSE doubted
      /\ UNCHANGED <<podNode, known, apiNodes, nodeEvents, cacheVars, coreVars, lost, events>>
  BY DEF DeletePod
<1>2. /\ CacheOK(Cache) /\ Cache' = Cache /\ QueueTypes /\ assignedEvents \in Seq(AssignedEvent)
      /\ taskEvents \in Seq(TaskEvent)
      /\ pod \in [Pods -> {"absent", "pending", "bound", "gone"}]
      /\ podNode \in [Pods -> Nodes \cup {NoNode}]
      /\ \A q \in Pods : PodInv(q) /\ tries[q] \in Nat
  BY <1>1, AssumeAssumption DEF AssumeInv, ApiTypes, QueueTypes, Cache, cacheVars
<1>3. /\ PodLife(p) /\ Proposed(p) /\ Queued(p) /\ Learnt(p)
      /\ Counted(p) /\ Seen(p) /\ Entries(p) /\ Ended(p)
  BY <1>2 DEF PodInv
<1>4. /\ e \in TaskEvent /\ e.pod = p /\ e.kind = "delete" /\ e.node = podNode[p]
      /\ known[p] # NoNode => /\ e \in AssignedEvent /\ podNode[p] # NoNode
                              /\ assignedEvents' = Append(assignedEvents, e)
  BY <1>1, <1>2, <1>3 DEF Ev, AssignedEvent, TaskEvent, PodLife
<1> HIDE DEF e
<1>5. ASSUME NEW q \in Pods \ {p}
      PROVE  PodInv(q)'
  <2>1. SamePod(q)
    BY <1>1, <1>2, CacheTypes DEF SamePod, cacheVars, coreVars
  <2>2. SameEvents(q)
    BY <1>1, <1>2, <1>4, EventsSame
  <2> QED
    BY <1>2, <2>1, <2>2, PodSame
<1>6. /\ EventsOf(taskEvents', p) \subseteq EventsOf(taskEvents, p) \cup {e}
      /\ OneAdd(taskEvents', p)
  <2>1. OneAdd(taskEvents, p)
    BY <1>3 DEF Queued
  <2>2. CASE taskEvents' = Append(taskEvents, e)
    <3>1. taskEvents \in Seq(TaskEvent)
      BY <1>2
    <3>2. EventsOf(taskEvents', p) = EventsOf(taskEvents, p) \cup {e} /\ OneAdd(taskEvents', p)
      BY <1>4, <2>1, <2>2, <3>1, AppendEvents
    <3> QED
      BY <3>2
  <2>3. CASE taskEvents' = taskEvents
    BY <2>1, <2>3
  <2> QED
    BY <1>1, <2>2, <2>3
<1>7. /\ OneAdd(assignedEvents', p) /\ DeleteLast(assignedEvents', p)
      /\ known[p] = NoNode => EventsOf(assignedEvents', p) = EventsOf(assignedEvents, p)
      /\ known[p] # NoNode => EventsOf(assignedEvents', p) = EventsOf(assignedEvents, p) \cup {e}
  <2>1. ~DeleteIn(assignedEvents, p) /\ OneAdd(assignedEvents, p) /\ DeleteLast(assignedEvents, p)
    BY <1>1, <1>3 DEF DeleteIn, Queued
  <2>2. CASE known[p] = NoNode
    BY <1>1, <2>1, <2>2
  <2>3. CASE known[p] # NoNode
    <3>1. assignedEvents \in Seq(AssignedEvent) /\ assignedEvents' = Append(assignedEvents, e)
      BY <1>2, <1>4, <2>3
    <3> QED
      BY <1>4, <2>1, <2>3, <3>1, AppendEvents
  <2> QED
    BY <2>2, <2>3
<1>8. pod'[p] = "gone"
  BY <1>1, <1>2
<1>9. PodInv(p)'
  <2>1. PodLife(p)' /\ Proposed(p)' /\ Counted(p)' /\ Seen(p)'
    BY <1>1, <1>3, <1>8 DEF PodLife, Proposed, Counted, Seen, cacheVars, coreVars
  <2>2. Queued(p)'
    BY <1>1, <1>3, <1>4, <1>6, <1>7, <1>8 DEF Queued, cacheVars
  <2>3. Learnt(p)'
    BY <1>1, <1>3, <1>7 DEF Learnt, AddIn, cacheVars
  <2>4. Entries(p)'
    <3>1. CASE podNode[p] = NoNode
      <4>1. pod[p] = "pending"
        BY <1>1, <1>2, <1>3, <3>1, AssumeAssumption DEF PodLife
      <4>2. p \notin doubted' => p \notin doubted /\ p \notin assumedPods
        BY <1>1, <4>1
      <4> QED
        BY <1>1, <1>3, <1>8, <3>1, <4>1, <4>2 DEF Entries, cacheVars
    <3>2. CASE podNode[p] # NoNode
      <4>1. p \notin doubted' => p \notin doubted
        BY <1>1
      <4> QED
        BY <1>1, <1>3, <3>2, <4>1 DEF Entries, cacheVars
    <3> QED
      BY <3>1, <3>2
  <2>5. Ended(p)'
    BY <1>1, <1>4, <1>7 DEF Ended, DeleteIn
  <2> QED
    BY <2>1, <2>2, <2>3, <2>4, <2>5 DEF PodInv
<1>10. ApiTypes' /\ QueueTypes'
  <2>1. ApiTypes'
    BY <1>1 DEF AssumeInv, ApiTypes, coreVars
  <2>2. taskEvents' \in Seq(TaskEvent)
    <3>1. taskEvents' = Append(taskEvents, e) \/ taskEvents' = taskEvents
      BY <1>1
    <3> QED
      BY <1>2, <1>4, <3>1
  <2>3. assignedEvents' \in Seq(AssignedEvent)
    BY <1>1, <1>2, <1>4
  <2> QED
    BY <1>1, <1>2, <2>1, <2>2, <2>3 DEF QueueTypes
<1> QED
  BY <1>2, <1>5, <1>9, <1>10, Zenon DEF AssumeInv

(* The core: a node that fits is in the cache. *)
LEMMA CheckInv ==
  ASSUME AssumeInv, NEW p \in Pods, NEW n \in Nodes, CheckPod(p, n)
  PROVE  AssumeInv'
<1>1. /\ pod[p] = "pending" /\ proposal[p] = Idle /\ tries[p] < MaxTries
      /\ podsMap[p] # Uncached /\ nodesMap[n] = "set"
      /\ proposal' = [proposal EXCEPT ![p] = [stage |-> "checked", node |-> n]]
      /\ tries' = [tries EXCEPT ![p] = @ + 1]
      /\ UNCHANGED <<apiVars, queueVars, cacheVars, ghostVars, events>>
  BY DEF CheckPod, IsPodFitNode
<1>2. /\ CacheOK(Cache) /\ Cache' = Cache /\ QueueTypes /\ tries \in [Pods -> 0 .. MaxTries]
      /\ proposal \in [Pods -> ProposalRecord]
      /\ \A q \in Pods : PodInv(q) /\ tries[q] \in Nat
      /\ MaxTries \in Nat
  BY <1>1, AssumeAssumption DEF AssumeInv, ApiTypes, Cache, cacheVars
<1>3. /\ PodLife(p) /\ Proposed(p) /\ Queued(p) /\ Learnt(p)
      /\ Counted(p) /\ Seen(p) /\ Entries(p) /\ Ended(p)
  BY <1>2 DEF PodInv
<1>4. ASSUME NEW q \in Pods
      PROVE  SameEvents(q)
  BY <1>1, <1>2, EventsSame DEF queueVars
<1>5. ASSUME NEW q \in Pods \ {p}
      PROVE  PodInv(q)'
  <2>1. SamePod(q)
    BY <1>1, <1>2, CacheTypes DEF SamePod, apiVars, cacheVars, ghostVars
  <2> QED
    BY <1>2, <1>4, <2>1, PodSame
<1>6. /\ proposal'[p].stage = "checked" /\ proposal'[p].node = n /\ tries'[p] = tries[p] + 1
      /\ proposal[p].stage = "idle"
  BY <1>1, <1>2 DEF Idle
<1>7. \A m \in Nodes : podsOn[m][p] \in Nat
  BY <1>2, CacheTypes
<1>8. PodInv(p)'
  <2>1. PodLife(p)' /\ Queued(p)' /\ Learnt(p)' /\ Ended(p)'
    BY <1>1, <1>3 DEF PodLife, Queued, Learnt, Ended, apiVars, queueVars, cacheVars, ghostVars
  <2>2. Proposed(p)'
    BY <1>1, <1>3, <1>6 DEF Proposed, PodLife, apiVars, cacheVars, ghostVars
  <2>3. Counted(p)'
    BY <1>1, <1>2, <1>3, <1>6, <1>7 DEF Counted, PodLife, apiVars, cacheVars
  <2>4. Seen(p)'
    BY <1>1, <1>3, <1>6 DEF Seen, apiVars, cacheVars, ghostVars
  <2>5. Entries(p)'
    BY <1>1, <1>3, <1>6 DEF Entries, apiVars, cacheVars, ghostVars
  <2> QED
    BY <2>1, <2>2, <2>3, <2>4, <2>5 DEF PodInv
<1>9. ApiTypes' /\ QueueTypes'
  BY <1>1, <1>2 DEF AssumeInv, ApiTypes, QueueTypes, ProposalRecord, apiVars, queueVars
<1> QED
  BY <1>2, <1>5, <1>8, <1>9, Zenon DEF AssumeInv

(* Nothing is assumed when the cache has lost the node.                    *)
LEMMA FindInv ==
  ASSUME AssumeInv, NEW p \in Pods, FindTarget(p)
  PROVE  AssumeInv'
<1> DEFINE n == proposal[p].node
           found == podsMap[p] # Uncached /\ nodesMap[n] # "absent"
           stage == IF found THEN "found" ELSE "assumed"
<1>1. /\ proposal[p].stage = "checked" /\ proposal' = [proposal EXCEPT ![p].stage = stage]
      /\ UNCHANGED <<apiVars, queueVars, cacheVars, tries, ghostVars, events>>
  BY DEF FindTarget
<1>2. /\ CacheOK(Cache) /\ Cache' = Cache /\ QueueTypes /\ proposal \in [Pods -> ProposalRecord]
      /\ \A q \in Pods : PodInv(q) /\ tries[q] \in Nat
  BY <1>1, AssumeAssumption DEF AssumeInv, ApiTypes, Cache, cacheVars
<1>3. /\ PodLife(p) /\ Proposed(p) /\ Queued(p) /\ Learnt(p)
      /\ Counted(p) /\ Seen(p) /\ Entries(p) /\ Ended(p)
  BY <1>2 DEF PodInv
<1>4. /\ n \in Nodes /\ podsMap[p] # Uncached /\ pod[p] \in {"pending", "gone"}
      /\ podNode[p] = NoNode /\ (nodesMap[n] # "absent" \/ n \in lost)
  BY <1>1, <1>3 DEF Proposed
<1>5. stage \in {"found", "assumed"} /\ (stage = "assumed" => n \in lost)
  BY <1>4
<1> HIDE DEF n, found, stage
<1>6. /\ proposal'[p].stage = stage /\ proposal'[p].node = n
      /\ \A q \in Pods \ {p} : proposal'[q] = proposal[q]
      /\ proposal' \in [Pods -> ProposalRecord]
  BY <1>1, <1>2, <1>5 DEF ProposalRecord, n
<1>7. ASSUME NEW q \in Pods
      PROVE  SameEvents(q)
  BY <1>1, <1>2, EventsSame DEF queueVars
<1>8. ASSUME NEW q \in Pods \ {p}
      PROVE  PodInv(q)'
  <2>1. SamePod(q)
    BY <1>1, <1>2, <1>6, CacheTypes DEF SamePod, apiVars, cacheVars, ghostVars
  <2> QED
    BY <1>2, <1>7, <2>1, PodSame
<1>9. PodInv(p)'
  <2>1. PodLife(p)' /\ Queued(p)' /\ Learnt(p)' /\ Ended(p)'
    BY <1>1, <1>3 DEF PodLife, Queued, Learnt, Ended, apiVars, queueVars, cacheVars, ghostVars
  <2>2. Proposed(p)'
    BY <1>1, <1>4, <1>5, <1>6 DEF Proposed, apiVars, cacheVars, ghostVars
  <2>3. Counted(p)'
    BY <1>1, <1>3, <1>5, <1>6 DEF Counted, apiVars, cacheVars
  <2>4. Seen(p)'
    BY <1>1, <1>3, <1>4, <1>5, <1>6 DEF Seen, apiVars, cacheVars, ghostVars
  <2>5. Entries(p)'
    BY <1>1, <1>3, <1>5, <1>6 DEF Entries, apiVars, cacheVars, ghostVars
  <2> QED
    BY <2>1, <2>2, <2>3, <2>4, <2>5 DEF PodInv
<1>10. ApiTypes' /\ QueueTypes'
  BY <1>1, <1>2, <1>6 DEF AssumeInv, ApiTypes, QueueTypes, apiVars, queueVars
<1> QED
  BY <1>2, <1>8, <1>9, <1>10, Zenon DEF AssumeInv

(* The pod is assumed, on a NodeInfo that may have to be made again. *)
LEMMA AssumePodInv ==
  ASSUME AssumeInv, NEW p \in Pods, AssumePod(p)
  PROVE  AssumeInv'
<1> DEFINE n == proposal[p].node
           r == AssumePodInCache(Cache, p, n)
<1>1. /\ proposal[p].stage = "found"
      /\ UNCHANGED <<apiVars, queueVars, tries, lost, events>>
  BY DEF AssumePod
<1>2. /\ CacheOK(Cache) /\ QueueTypes /\ proposal \in [Pods -> ProposalRecord]
      /\ \A q \in Pods : PodInv(q) /\ tries[q] \in Nat
  BY AssumeAssumption DEF AssumeInv, ApiTypes
<1>3. /\ PodLife(p) /\ Proposed(p) /\ Queued(p) /\ Learnt(p)
      /\ Counted(p) /\ Seen(p) /\ Entries(p) /\ Ended(p)
  BY <1>2 DEF PodInv
<1>4. /\ n \in Nodes /\ podsMap[p] # Uncached /\ pod[p] \in {"pending", "gone"}
      /\ podNode[p] = NoNode /\ known[p] = NoNode
  BY <1>1, <1>3 DEF Proposed, PodLife
<1>5. /\ proposal'[p].stage = "assumed" /\ proposal'[p].node = n
      /\ \A q \in Pods \ {p} : proposal'[q] = proposal[q]
      /\ proposal' \in [Pods -> ProposalRecord]
  <2>1. proposal' = [proposal EXCEPT ![p].stage = "assumed"]
    BY DEF AssumePod
  <2> QED
    BY <1>2, <2>1 DEF ProposalRecord
<1>6. /\ \A m \in Nodes, q \in Pods : podsOn[m][q] \in Nat
      /\ \A q \in Pods : SameEvents(q)
  BY <1>1, <1>2, CacheTypes, EventsSame DEF queueVars
<1>7. ApiTypes' /\ QueueTypes'
  BY <1>1, <1>2, <1>5 DEF AssumeInv, ApiTypes, QueueTypes, apiVars, queueVars
<1> HIDE DEF n, r
<1>8. /\ r = AssumePodInCache(Cache, p, n) /\ CacheBecomes(r)
      /\ doubted' = IF pod[p] = "pending" THEN doubted ELSE doubted \cup {p}
  BY DEF AssumePod, r, n
<1>9. /\ CacheOK(r)
      /\ \A m \in Nodes : r.nodes[m] = "absent" => Cache.nodes[m] = "absent"
      /\ \A q \in Pods \ {p} :
           /\ r.pods[q] = Cache.pods[q] /\ (q \in r.assumed <=> q \in Cache.assumed)
           /\ \A m \in Nodes : r.on[m][q] = Cache.on[m][q]
      /\ p \in r.assumed /\ r.pods[p] = n
      /\ \A m \in Nodes : r.on[m][p] = IF m = n THEN Cache.on[m][p] + 1 ELSE Cache.on[m][p]
  BY <1>2, <1>4, <1>8, AssumeEffect
<1>10. Cache' = r
  BY <1>8, <1>9, CacheAfter DEF CacheOK
<1>11. CacheOK(Cache)'
  BY <1>9, <1>10, Zenon
<1>12. nodesMap' = r.nodes /\ podsOn' = r.on /\ podsMap' = r.pods /\ assumedPods' = r.assumed
  BY <1>10 DEF Cache
<1>13. /\ \A m \in Nodes : nodesMap'[m] = "absent" => nodesMap[m] = "absent"
       /\ \A q \in Pods \ {p} :
            /\ podsMap'[q] = podsMap[q] /\ (q \in assumedPods' <=> q \in assumedPods)
            /\ \A m \in Nodes : podsOn'[m][q] = podsOn[m][q]
       /\ p \in assumedPods' /\ podsMap'[p] = n
       /\ \A m \in Nodes : podsOn'[m][p] = IF m = n THEN podsOn[m][p] + 1 ELSE podsOn[m][p]
  BY <1>2, <1>9, <1>12, CacheTypes
<1>14. ASSUME NEW q \in Pods \ {p}
       PROVE  PodInv(q)'
  <2>1. SamePod(q)
    BY <1>1, <1>5, <1>6, <1>8, <1>13 DEF SamePod, apiVars
  <2> QED
    BY <1>2, <1>6, <2>1, PodSame
<1>15. PodInv(p)'
  <2>1. n # Uncached
    BY <1>4, AssumeAssumption
  <2>2. PodLife(p)' /\ Proposed(p)'
    BY <1>1, <1>3, <1>4, <1>5, <1>13, <2>1 DEF PodLife, Proposed, apiVars
  <2>3. Queued(p)'
    BY <1>1, <1>3, <1>4, <1>13, AssumeAssumption DEF Queued, apiVars, queueVars
  <2>4. Learnt(p)'
    BY <1>1, <1>4, <1>13, <2>1 DEF Learnt, apiVars
  <2>5. Counted(p)'
    BY <1>1, <1>2, <1>3, <1>5, <1>6, <1>13 DEF Counted
  <2>6. Seen(p)'
    BY <1>1, <1>4, <1>5, <1>6, <1>13, AssumeAssumption DEF Seen, apiVars
  <2>7. Entries(p)'
    BY <1>1, <1>3, <1>4, <1>5, <1>6, <1>8, <1>13 DEF Entries, apiVars
  <2>8. Ended(p)'
    BY <1>1, <1>4 DEF Ended, apiVars
  <2> QED
    BY <2>2, <2>3, <2>4, <2>5, <2>6, <2>7, <2>8 DEF PodInv
<1> QED
  BY <1>7, <1>11, <1>14, <1>15 DEF AssumeInv

(* The pod is bound where it was assumed. *)
LEMMA BindInv ==
  ASSUME AssumeInv, NEW p \in Pods, BindPod(p)
  PROVE  AssumeInv'
<1> DEFINE n == proposal[p].node
           e == Ev("add", p, n)
<1>1. /\ proposal[p].stage = "assumed" /\ proposal' = [proposal EXCEPT ![p] = Idle]
      /\ pod[p] = "pending" /\ pod' = [pod EXCEPT ![p] = "bound"]
      /\ podNode' = [podNode EXCEPT ![p] = n]
      /\ \/ known' = [known EXCEPT ![p] = n] /\ assignedEvents' = Append(assignedEvents, e)
         \/ known' = known /\ assignedEvents' = assignedEvents
      /\ UNCHANGED <<apiNodes, nodeEvents, taskEvents, cacheVars, tries, ghostVars, events>>
  BY DEF BindPod
<1>2. /\ CacheOK(Cache) /\ Cache' = Cache /\ QueueTypes /\ assignedEvents \in Seq(AssignedEvent)
      /\ pod \in [Pods -> {"absent", "pending", "bound", "gone"}]
      /\ podNode \in [Pods -> Nodes \cup {NoNode}] /\ known \in [Pods -> Nodes \cup {NoNode}]
      /\ proposal \in [Pods -> ProposalRecord]
      /\ \A q \in Pods : PodInv(q) /\ tries[q] \in Nat
  BY <1>1, AssumeAssumption DEF AssumeInv, ApiTypes, QueueTypes, Cache, cacheVars
<1>3. /\ PodLife(p) /\ Proposed(p) /\ Queued(p) /\ Learnt(p)
      /\ Counted(p) /\ Seen(p) /\ Entries(p) /\ Ended(p)
  BY <1>2 DEF PodInv
<1>4. /\ n \in Nodes /\ podsMap[p] # Uncached /\ podNode[p] = NoNode /\ n # NoNode
      /\ known[p] = NoNode
  BY <1>1, <1>3, AssumeAssumption DEF Proposed, PodLife
<1>5. e \in AssignedEvent /\ e.pod = p /\ e.kind = "add" /\ e.node = n
  BY <1>4 DEF Ev, AssignedEvent
<1>6. /\ pod'[p] = "bound" /\ podNode'[p] = n /\ proposal'[p].stage = "idle"
      /\ \A q \in Pods \ {p} : pod'[q] = pod[q] /\ podNode'[q] = podNode[q] /\ proposal'[q] = proposal[q]
      /\ pod' \in [Pods -> {"absent", "pending", "bound", "gone"}]
      /\ podNode' \in [Pods -> Nodes \cup {NoNode}] /\ known' \in [Pods -> Nodes \cup {NoNode}]
      /\ \A q \in Pods \ {p} : known'[q] = known[q]
      /\ \/ known'[p] = n /\ assignedEvents' = Append(assignedEvents, e)
         \/ known'[p] = NoNode /\ assignedEvents' = assignedEvents
      /\ proposal' \in [Pods -> ProposalRecord]
  BY <1>1, <1>2, <1>4 DEF Idle, ProposalRecord
<1> HIDE DEF e, n
<1>7. ASSUME NEW q \in Pods \ {p}
      PROVE  PodInv(q)'
  <2>1. SamePod(q)
    BY <1>1, <1>2, <1>6, CacheTypes DEF SamePod, cacheVars, ghostVars
  <2>2. SameEvents(q)
    BY <1>1, <1>2, <1>5, EventsSame
  <2> QED
    BY <1>2, <2>1, <2>2, PodSame
<1>8. EventsOf(assignedEvents, p) = {}
  BY <1>3, <1>4 DEF Queued
<1>9. /\ EventsOf(assignedEvents', p) = IF known'[p] = NoNode THEN {} ELSE {e}
      /\ OneAdd(assignedEvents', p) /\ DeleteLast(assignedEvents', p)
  <2>1. /\ ~AddIn(assignedEvents, p) /\ ~DeleteIn(assignedEvents, p)
        /\ OneAdd(assignedEvents, p) /\ DeleteLast(assignedEvents, p)
        /\ assignedEvents \in Seq(AssignedEvent)
    BY <1>1, <1>2, <1>3, <1>8 DEF AddIn, DeleteIn, Queued
  <2>2. CASE known'[p] = n /\ assignedEvents' = Append(assignedEvents, e)
    <3>1. /\ EventsOf(assignedEvents', p) = EventsOf(assignedEvents, p) \cup {e}
          /\ OneAdd(assignedEvents', p) /\ DeleteLast(assignedEvents', p)
      BY <1>5, <2>1, <2>2, AppendEvents
    <3> QED
      BY <1>4, <1>8, <2>2, <3>1
  <2>3. CASE known'[p] = NoNode /\ assignedEvents' = assignedEvents
    BY <1>8, <2>1, <2>3
  <2> QED
    BY <1>6, <2>2, <2>3
<1>10. \A f \in EventsOf(taskEvents, p) : f.kind # "add" /\ f.kind # "delete"
  BY <1>1, <1>3, <1>4 DEF Queued
<1>11. EventsOf(taskEvents, p) = {}
  <2>1. \A f \in EventsOf(taskEvents, p) : f \in TaskEvent
    BY <1>2 DEF EventsOf, QueueTypes
  <2> QED
    BY <1>10, <2>1 DEF TaskEvent
<1>12. PodInv(p)'
  <2>1. PodLife(p)' /\ Proposed(p)'
    BY <1>4, <1>6 DEF PodLife, Proposed
  <2>2. Queued(p)'
    <3>1. OneAdd(taskEvents, p)
      BY <1>3 DEF Queued
    <3>2. OneAdd(taskEvents', p) /\ EventsOf(taskEvents', p) = {}
      BY <1>1, <1>11, <3>1
    <3>3. \A f \in EventsOf(assignedEvents', p) : f = e
      BY <1>8, <1>9
    <3> QED
      BY <1>5, <1>6, <1>9, <3>2, <3>3 DEF Queued
  <2>3. Learnt(p)'
    BY <1>1, <1>3, <1>4, <1>5, <1>9 DEF Learnt, AddIn, cacheVars
  <2>4. Counted(p)'
    BY <1>1, <1>3, <1>4, <1>6 DEF Counted, cacheVars
  <2>5. Seen(p)'
    BY <1>1, <1>3, <1>6 DEF Seen, cacheVars, ghostVars, n
  <2>6. Entries(p)'
    BY <1>1, <1>2, <1>3, <1>4, <1>6, CacheTypes DEF Entries, Seen, cacheVars, ghostVars, n
  <2>7. Ended(p)'
    BY <1>6 DEF Ended
  <2> QED
    BY <2>1, <2>2, <2>3, <2>4, <2>5, <2>6, <2>7 DEF PodInv
<1>13. ApiTypes' /\ QueueTypes'
  <2>1. assignedEvents' \in Seq(AssignedEvent)
    <3>1. assignedEvents' = Append(assignedEvents, e) \/ assignedEvents' = assignedEvents
      BY <1>6
    <3> QED
      BY <1>2, <1>5, <3>1
  <2> QED
    BY <1>1, <1>2, <1>6, <2>1 DEF AssumeInv, ApiTypes, QueueTypes
<1> QED
  BY <1>2, <1>7, <1>12, <1>13, Zenon DEF AssumeInv

(* A proposal comes to nothing. *)
LEMMA DropInv ==
  ASSUME AssumeInv, NEW p \in Pods, DropProposal(p)
  PROVE  AssumeInv'
<1>1. /\ proposal[p].stage = "assumed" /\ proposal' = [proposal EXCEPT ![p] = Idle]
      /\ doubted' = IF p \in assumedPods THEN doubted \cup {p} ELSE doubted
      /\ UNCHANGED <<apiVars, queueVars, cacheVars, tries, lost, events>>
  BY DEF DropProposal
<1>2. /\ CacheOK(Cache) /\ Cache' = Cache /\ QueueTypes
      /\ proposal \in [Pods -> ProposalRecord]
      /\ \A q \in Pods : PodInv(q) /\ tries[q] \in Nat
  BY <1>1, AssumeAssumption DEF AssumeInv, ApiTypes, Cache, cacheVars
<1>3. /\ PodLife(p) /\ Proposed(p) /\ Queued(p) /\ Learnt(p)
      /\ Counted(p) /\ Seen(p) /\ Entries(p) /\ Ended(p)
  BY <1>2 DEF PodInv
<1>4. /\ proposal'[p].stage = "idle" /\ \A q \in Pods \ {p} : proposal'[q] = proposal[q]
      /\ proposal' \in [Pods -> ProposalRecord]
  BY <1>1, <1>2 DEF Idle, ProposalRecord
<1>5. ASSUME NEW q \in Pods \ {p}
      PROVE  PodInv(q)'
  <2>1. SamePod(q)
    BY <1>1, <1>2, <1>4, CacheTypes DEF SamePod, apiVars, cacheVars
  <2>2. SameEvents(q)
    BY <1>1, <1>2, EventsSame DEF queueVars
  <2> QED
    BY <1>2, <2>1, <2>2, PodSame
<1>6. PodInv(p)'
  <2>1. PodLife(p)' /\ Proposed(p)' /\ Queued(p)' /\ Learnt(p)' /\ Counted(p)' /\ Seen(p)'
    BY <1>1, <1>3, <1>4
    DEF PodLife, Proposed, Queued, Learnt, Counted, Seen, apiVars, queueVars, cacheVars
  <2>2. Entries(p)' /\ Ended(p)'
    BY <1>1, <1>3, <1>4 DEF Entries, Ended, apiVars, queueVars, cacheVars
  <2> QED
    BY <2>1, <2>2 DEF PodInv
<1>7. ApiTypes' /\ QueueTypes'
  BY <1>1, <1>2, <1>4 DEF AssumeInv, ApiTypes, QueueTypes, apiVars, queueVars
<1> QED
  BY <1>2, <1>5, <1>6, <1>7, Zenon DEF AssumeInv

(* A removal never adds an entry: what the invariant says of a pod that is *)
(* gone stays true.                                                        *)
LEMMA GoneSame ==
  ASSUME NEW p \in Pods, PodInv(p), pod[p] = "gone", tries[p] \in Nat,
         UNCHANGED <<pod, podNode, known, proposal, tries, doubted, lost>>,
         podsMap' = podsMap, assumedPods' = assumedPods, nodesMap' = nodesMap,
         \A m \in Nodes : /\ podsOn[m][p] \in Nat /\ podsOn'[m][p] \in Nat
                          /\ podsOn'[m][p] <= podsOn[m][p],
         EventsOf(taskEvents', p) \subseteq EventsOf(taskEvents, p), OneAdd(taskEvents', p),
         EventsOf(assignedEvents', p) = EventsOf(assignedEvents, p),
         OneAdd(assignedEvents', p), DeleteLast(assignedEvents', p)
  PROVE  PodInv(p)'
<1>1. /\ PodLife(p) /\ Proposed(p) /\ Queued(p) /\ Learnt(p)
      /\ Counted(p) /\ Seen(p) /\ Entries(p) /\ Ended(p)
  BY DEF PodInv
<1>2. \A m \in Nodes : podsOn[m][p] = 0 => podsOn'[m][p] = 0
  OBVIOUS
<1>3. PodLife(p)' /\ Proposed(p)' /\ Queued(p)'
  BY <1>1 DEF PodLife, Proposed, Queued
<1>4. Learnt(p)' /\ Seen(p)' /\ Ended(p)'
  BY <1>1, <1>2 DEF Learnt, Seen, Ended, AddIn, DeleteIn
<1>5. Counted(p)'
  BY <1>1 DEF Counted
<1>6. Entries(p)'
  BY <1>1, <1>2 DEF Entries
<1> QED
  BY <1>3, <1>4, <1>5, <1>6 DEF PodInv

(* The handler of tasks: a pod it adds is new, or was learnt from the      *)
(* handler of assigned pods.                                               *)
LEMMA TaskEventInv ==
  ASSUME AssumeInv, HandleTaskEvent
  PROVE  AssumeInv'
<1> DEFINE e == Head(taskEvents)
           r == CASE e.kind = "add"    -> AddPod(Cache, e.pod, e.node)
                  [] e.kind = "delete" -> RemovePod(Cache, e.pod, e.node)
<1>1. /\ taskEvents # <<>> /\ CacheBecomes(r) /\ taskEvents' = Tail(taskEvents)
      /\ UNCHANGED <<apiVars, nodeEvents, assignedEvents, coreVars, ghostVars, events>>
  BY DEF HandleTaskEvent
<1>2. /\ CacheOK(Cache) /\ QueueTypes /\ taskEvents \in Seq(TaskEvent)
      /\ \A q \in Pods : PodInv(q) /\ tries[q] \in Nat
  BY AssumeAssumption DEF AssumeInv, ApiTypes, QueueTypes
<1>3. e \in TaskEvent /\ taskEvents' \in Seq(TaskEvent)
  BY <1>1, <1>2, TailEvents
<1>4. PICK p \in Pods, n \in Nodes \cup {NoNode} : p = e.pod /\ n = e.node
  BY <1>3 DEF TaskEvent
<1>5. e.kind \in {"add", "delete"}
  BY <1>3 DEF TaskEvent
<1>6. /\ e.kind = "add" => r = AddPod(Cache, p, n)
      /\ e.kind = "delete" => r = RemovePod(Cache, p, n)
  BY <1>4
<1>7. /\ PodLife(p) /\ Proposed(p) /\ Queued(p) /\ Learnt(p)
      /\ Counted(p) /\ Seen(p) /\ Entries(p) /\ Ended(p)
  BY <1>2 DEF PodInv
<1>8. /\ e \in EventsOf(taskEvents, p)
      /\ EventsOf(taskEvents', p) \subseteq EventsOf(taskEvents, p)
      /\ OneAdd(taskEvents', p) /\ (e.kind = "add" => ~AddIn(taskEvents', p))
  <2>1. OneAdd(taskEvents, p)
    BY <1>7 DEF Queued
  <2> QED
    BY <1>1, <1>2, <1>4, <2>1, TailEvents
<1> HIDE DEF e, r
<1>9. n = podNode[p] /\ (e.kind = "delete" => pod[p] = "gone") /\ pod[p] # "absent"
  BY <1>4, <1>7, <1>8 DEF Queued, PodLife
<1>10. /\ \A m \in Nodes, q \in Pods : podsOn[m][q] \in Nat
       /\ \A q \in Pods \ {p} : SameEvents(q)
  <2>1. \A q \in Pods \ {p} : Head(taskEvents).pod # q
    BY <1>4 DEF e
  <2>2. assignedEvents' = assignedEvents
    BY <1>1
  <2> QED
    BY <1>1, <1>2, <2>1, <2>2, CacheTypes, EventsSame
<1>11. ApiTypes' /\ QueueTypes'
  BY <1>1, <1>2, <1>3 DEF AssumeInv, ApiTypes, QueueTypes, apiVars, coreVars
<1>12. CASE e.kind = "add"
  <2>1. p \notin assumedPods
    BY <1>7, <1>8, <1>9, <1>12 DEF Queued, Learnt
  <2>2. r = AddPod(Cache, p, n) /\ p \notin Cache.assumed
    BY <1>2, <1>6, <1>12, <2>1, CacheTypes
  <2>3. /\ CacheOK(r)
        /\ \A m \in Nodes : r.nodes[m] = "absent" => Cache.nodes[m] = "absent"
        /\ \A q \in Pods \ {p} :
             /\ r.pods[q] = Cache.pods[q] /\ (q \in r.assumed <=> q \in Cache.assumed)
             /\ \A m \in Nodes : r.on[m][q] = Cache.on[m][q]
        /\ p \notin r.assumed /\ r.pods[p] # Uncached
    BY <1>2, <2>2, AddPodEffect
  <2>4. Cache.pods[p] = Uncached =>
          /\ r.pods[p] = n
          /\ \A m \in Nodes : r.on[m][p] = IF m = n THEN Cache.on[m][p] + 1 ELSE Cache.on[m][p]
    BY <1>2, <2>2, AddPodEffect
  <2>5. Cache.pods[p] # Uncached =>
          r.pods[p] = Cache.pods[p] /\ \A m \in Nodes : r.on[m][p] = Cache.on[m][p]
    BY <1>2, <2>2, AddPodEffect
  <2>6. Cache' = r
    BY <1>1, <2>3, CacheAfter DEF CacheOK
  <2>7. CacheOK(Cache)'
    BY <2>3, <2>6, Zenon
  <2>8. nodesMap' = r.nodes /\ podsOn' = r.on /\ podsMap' = r.pods /\ assumedPods' = r.assumed
    BY <2>6 DEF Cache
  <2>9. /\ \A m \in Nodes : nodesMap'[m] = "absent" => nodesMap[m] = "absent"
        /\ \A q \in Pods \ {p} :
             /\ podsMap'[q] = podsMap[q] /\ (q \in assumedPods' <=> q \in assumedPods)
             /\ \A m \in Nodes : podsOn'[m][q] = podsOn[m][q]
        /\ p \notin assumedPods' /\ podsMap'[p] # Uncached
    BY <1>2, <2>3, <2>8, CacheTypes
  <2>10. podsMap[p] = Uncached =>
           \A m \in Nodes : podsOn'[m][p] = IF m = n THEN podsOn[m][p] + 1 ELSE podsOn[m][p]
    BY <1>2, <2>4, <2>8, CacheTypes
  <2>11. podsMap[p] # Uncached =>
           podsMap'[p] = podsMap[p] /\ \A m \in Nodes : podsOn'[m][p] = podsOn[m][p]
    BY <1>2, <2>5, <2>8, CacheTypes
  <2>12. podsMap[p] = Uncached => \A m \in Nodes : podsOn'[m][p] = IF m = n THEN 1 ELSE 0
    BY <1>7, <2>10 DEF Learnt
  <2>13. ASSUME NEW q \in Pods \ {p}
         PROVE  PodInv(q)'
    <3>1. SamePod(q)
      BY <1>1, <1>10, <2>9 DEF SamePod, apiVars, coreVars, ghostVars
    <3> QED
      BY <1>2, <1>10, <3>1, PodSame
  <2>14. PodInv(p)'
    <3>1. UNCHANGED <<pod, podNode, known, proposal, tries, doubted, lost, assignedEvents>>
      BY <1>1 DEF apiVars, coreVars, ghostVars
    <3>2. PodLife(p)' /\ Proposed(p)'
      BY <1>7, <1>9, <2>9, <3>1 DEF PodLife, Proposed
    <3>3. Queued(p)'
      <4>1. \A f \in EventsOf(taskEvents', p) : f \in EventsOf(taskEvents, p) /\ f.kind # "add"
        BY <1>8, <1>12 DEF AddIn
      <4> QED
        BY <1>7, <1>8, <3>1, <4>1 DEF Queued
    <3>4. Learnt(p)'
      BY <2>9 DEF Learnt
    <3>5. Counted(p)'
      <4>1. CASE podsMap[p] = Uncached
        BY <1>2, <1>7, <1>9, <2>9, <2>12, <3>1, <4>1, AssumeAssumption DEF Counted, Proposed, Learnt
      <4>2. CASE podsMap[p] # Uncached
        BY <1>7, <2>9, <2>11, <3>1, <4>2 DEF Counted
      <4> QED
        BY <4>1, <4>2
    <3>6. Seen(p)'
      <4>1. CASE podsMap[p] = Uncached
        BY <1>7, <1>9, <2>12, <3>1, <4>1 DEF Seen, Proposed
      <4>2. CASE podsMap[p] # Uncached
        BY <1>7, <2>11, <3>1, <4>2 DEF Seen
      <4> QED
        BY <4>1, <4>2
    <3>7. Entries(p)'
      <4>1. CASE podsMap[p] = Uncached
        BY <1>9, <2>9, <2>12, <3>1, <4>1, AssumeAssumption DEF Entries
      <4>2. CASE podsMap[p] # Uncached
        BY <1>7, <2>1, <2>9, <2>11, <3>1, <4>2 DEF Entries
      <4> QED
        BY <4>1, <4>2
    <3>8. Ended(p)'
      <4>1. CASE podsMap[p] = Uncached
        BY <1>7, <3>1, <4>1 DEF Ended, Learnt, AddIn
      <4>2. CASE podsMap[p] # Uncached
        BY <1>7, <2>11, <3>1, <4>2 DEF Ended
      <4> QED
        BY <4>1, <4>2
    <3> QED
      BY <3>2, <3>3, <3>4, <3>5, <3>6, <3>7, <3>8 DEF PodInv
  <2> QED
    BY <1>11, <2>7, <2>13, <2>14 DEF AssumeInv
<1>13. CASE e.kind = "delete"
  <2>1. r = RemovePod(Cache, p, n)
    BY <1>6, <1>13
  <2>2. /\ r.pods = Cache.pods /\ r.assumed = Cache.assumed /\ r.nodes = Cache.nodes
        /\ \A m \in Nodes, q \in Pods : m # n \/ q # p => r.on[m][q] = Cache.on[m][q]
        /\ \A m \in Nodes : m = n /\ Cache.on[m][p] = 0 => r.on[m][p] = 0
        /\ \A m \in Nodes : m = n /\ Cache.on[m][p] # 0 => Cache.on[m][p] = r.on[m][p] + 1
    BY <1>2, <2>1, RemovePodEffect
  <2>3. CacheOK(r)
    BY <1>2, <2>1, RemovePodOK
  <2>4. Cache' = r
    BY <1>1, <2>3, CacheAfter DEF CacheOK
  <2>5. CacheOK(Cache)'
    BY <2>3, <2>4, Zenon
  <2>6. nodesMap' = r.nodes /\ podsOn' = r.on /\ podsMap' = r.pods /\ assumedPods' = r.assumed
    BY <2>4 DEF Cache
  <2>7. \A m \in Nodes, q \in Pods : podsOn'[m][q] \in Nat
    BY <2>3, <2>6 DEF CacheOK, CacheRecord
  <2>8. /\ podsMap' = podsMap /\ assumedPods' = assumedPods /\ nodesMap' = nodesMap
        /\ \A q \in Pods \ {p} : \A m \in Nodes : podsOn'[m][q] = podsOn[m][q]
    BY <1>2, <2>2, <2>6, CacheTypes
  <2>9. \A m \in Nodes : podsOn'[m][p] <= podsOn[m][p]
    <3>1. \A m \in Nodes : m # n => podsOn'[m][p] = podsOn[m][p]
      BY <1>2, <2>2, <2>6, CacheTypes
    <3>2. \A m \in Nodes : m = n /\ podsOn[m][p] = 0 => podsOn'[m][p] = 0
      BY <1>2, <2>2, <2>6, CacheTypes
    <3>3. \A m \in Nodes : m = n /\ podsOn[m][p] # 0 => podsOn[m][p] = podsOn'[m][p] + 1
      BY <1>2, <2>2, <2>6, CacheTypes
    <3> QED
      BY <1>10, <2>7, <3>1, <3>2, <3>3
  <2>10. ASSUME NEW q \in Pods \ {p}
         PROVE  PodInv(q)'
    <3>1. SamePod(q)
      BY <1>1, <1>10, <2>8 DEF SamePod, apiVars, coreVars, ghostVars
    <3> QED
      BY <1>2, <1>10, <3>1, PodSame
  <2>11. PodInv(p)'
    <3>1. /\ UNCHANGED <<pod, podNode, known, proposal, tries, doubted, lost>>
          /\ assignedEvents' = assignedEvents
      BY <1>1 DEF apiVars, coreVars, ghostVars
    <3>2. pod[p] = "gone" /\ PodInv(p) /\ tries[p] \in Nat
      BY <1>2, <1>9, <1>13
    <3>3. /\ EventsOf(assignedEvents', p) = EventsOf(assignedEvents, p)
          /\ OneAdd(assignedEvents', p) /\ DeleteLast(assignedEvents', p)
      BY <1>7, <3>1 DEF Queued
    <3> QED
      BY <1>8, <1>10, <2>7, <2>8, <2>9, <3>1, <3>2, <3>3, GoneSame
  <2> QED
    BY <1>11, <2>5, <2>10, <2>11 DEF AssumeInv
<1> QED
  BY <1>5, <1>12, <1>13

(* The handler of assigned pods: it adds the pod that was bound, moves one *)
(* that was assumed elsewhere, and removes it in the end.                  *)
LEMMA AssignedEventInv ==
  ASSUME AssumeInv, HandleAssignedEvent
  PROVE  AssumeInv'
<1> DEFINE e == Head(assignedEvents)
           r == CASE e.kind = "add"    -> AddPod(Cache, e.pod, e.node)
                  [] e.kind = "update" -> UpdatePod(Cache, e.pod, e.node)
                  [] e.kind = "delete" -> RemovePod(Cache, e.pod, e.node)
<1>1. /\ assignedEvents # <<>> /\ CacheBecomes(r) /\ assignedEvents' = Tail(assignedEvents)
      /\ UNCHANGED <<apiVars, nodeEvents, taskEvents, coreVars, ghostVars, events>>
  BY DEF HandleAssignedEvent
<1>2. /\ CacheOK(Cache) /\ QueueTypes /\ assignedEvents \in Seq(AssignedEvent)
      /\ \A q \in Pods : PodInv(q) /\ tries[q] \in Nat
  BY AssumeAssumption DEF AssumeInv, ApiTypes, QueueTypes
<1>3. e \in AssignedEvent /\ assignedEvents' \in Seq(AssignedEvent)
  BY <1>1, <1>2, TailEvents
<1>4. PICK p \in Pods, n \in Nodes : p = e.pod /\ n = e.node
  BY <1>3 DEF AssignedEvent
<1>5. e.kind \in {"add", "update", "delete"}
  BY <1>3 DEF AssignedEvent
<1>6. /\ e.kind = "add" => r = AddPod(Cache, p, n)
      /\ e.kind = "update" => r = UpdatePod(Cache, p, n)
      /\ e.kind = "delete" => r = RemovePod(Cache, p, n)
  BY <1>4
<1>7. /\ PodLife(p) /\ Proposed(p) /\ Queued(p) /\ Learnt(p)
      /\ Counted(p) /\ Seen(p) /\ Entries(p) /\ Ended(p)
  BY <1>2 DEF PodInv
<1>8. /\ e \in EventsOf(assignedEvents, p)
      /\ EventsOf(assignedEvents', p) \subseteq EventsOf(assignedEvents, p)
      /\ EventsOf(assignedEvents, p) \subseteq EventsOf(assignedEvents', p) \cup {e}
      /\ OneAdd(assignedEvents', p) /\ DeleteLast(assignedEvents', p)
      /\ e.kind = "add" => ~AddIn(assignedEvents', p)
      /\ e.kind = "delete" => EventsOf(assignedEvents', p) = {}
  <2>1. OneAdd(assignedEvents, p) /\ DeleteLast(assignedEvents, p)
    BY <1>7 DEF Queued
  <2> QED
    BY <1>1, <1>2, <1>4, <2>1, TailEvents
<1> HIDE DEF e, r
<1>9. /\ n = podNode[p] /\ n # NoNode /\ n # Uncached
      /\ e.kind = "delete" => pod[p] = "gone"
      /\ pod[p] \in {"bound", "gone"} /\ proposal[p].stage = "idle"
      /\ known[p] = podNode[p] /\ known[p] # NoNode
  <2>1. pod[p] \in {"absent", "pending", "bound", "gone"}
    BY DEF AssumeInv, ApiTypes
  <2> QED
    BY <1>4, <1>7, <1>8, <2>1, AssumeAssumption DEF Queued, PodLife, Proposed
<1>10. /\ \A m \in Nodes, q \in Pods : podsOn[m][q] \in Nat
       /\ \A q \in Pods \ {p} : SameEvents(q)
  <2>1. \A q \in Pods \ {p} : Head(assignedEvents).pod # q
    BY <1>4 DEF e
  <2>2. taskEvents' = taskEvents
    BY <1>1
  <2> QED
    BY <1>1, <1>2, <2>1, <2>2, CacheTypes, EventsSame
<1>11. ApiTypes' /\ QueueTypes'
  BY <1>1, <1>2, <1>3 DEF AssumeInv, ApiTypes, QueueTypes, apiVars, coreVars
<1>12. UNCHANGED <<pod, podNode, known, proposal, tries, doubted, lost, taskEvents>>
  BY <1>1 DEF apiVars, coreVars, ghostVars
<1>13. CASE e.kind = "add"
  <2>1. /\ r = AddPod(Cache, p, n)
        /\ Cache.pods[p] = Uncached => p \notin Cache.assumed
    BY <1>2, <1>6, <1>7, <1>13, CacheTypes DEF Learnt
  <2>2. /\ CacheOK(r)
        /\ \A m \in Nodes : r.nodes[m] = "absent" => Cache.nodes[m] = "absent"
        /\ \A q \in Pods \ {p} :
             /\ r.pods[q] = Cache.pods[q] /\ (q \in r.assumed <=> q \in Cache.assumed)
             /\ \A m \in Nodes : r.on[m][q] = Cache.on[m][q]
        /\ p \notin r.assumed /\ r.pods[p] # Uncached
    BY <1>2, <2>1, AddPodEffect
  <2>3. Cache.pods[p] = Uncached =>
          \A m \in Nodes : r.on[m][p] = IF m = n THEN Cache.on[m][p] + 1 ELSE Cache.on[m][p]
    BY <1>2, <2>1, AddPodEffect
  <2>4. p \in Cache.assumed /\ Cache.pods[p] # n =>
          \A m \in Nodes :
            r.on[m][p] = IF m = n THEN Cache.on[m][p] + 1
                         ELSE IF m = Cache.pods[p] /\ Cache.on[m][p] > 0 THEN Cache.on[m][p] - 1
                         ELSE Cache.on[m][p]
    BY <1>2, <2>1, AddPodEffect
  <2>5. Cache.pods[p] # Uncached /\ (p \in Cache.assumed => Cache.pods[p] = n) =>
          r.pods[p] = Cache.pods[p] /\ \A m \in Nodes : r.on[m][p] = Cache.on[m][p]
    BY <1>2, <2>1, AddPodEffect
  <2>6. Cache' = r
    BY <1>1, <2>2, CacheAfter DEF CacheOK
  <2>7. CacheOK(Cache)'
    BY <2>2, <2>6, Zenon
  <2>8. nodesMap' = r.nodes /\ podsOn' = r.on /\ podsMap' = r.pods /\ assumedPods' = r.assumed
    BY <2>6 DEF Cache
  <2>9. /\ \A m \in Nodes : nodesMap'[m] = "absent" => nodesMap[m] = "absent"
        /\ \A q \in Pods \ {p} :
             /\ podsMap'[q] = podsMap[q] /\ (q \in assumedPods' <=> q \in assumedPods)
             /\ \A m \in Nodes : podsOn'[m][q] = podsOn[m][q]
        /\ p \notin assumedPods' /\ podsMap'[p] # Uncached
    BY <1>2, <2>2, <2>8, CacheTypes
  <2>10. podsMap[p] = Uncached => \A m \in Nodes : podsOn'[m][p] = IF m = n THEN 1 ELSE 0
    <3>1. podsMap[p] = Uncached =>
            \A m \in Nodes : podsOn'[m][p] = IF m = n THEN podsOn[m][p] + 1 ELSE podsOn[m][p]
      BY <1>2, <2>3, <2>8, CacheTypes
    <3> QED
      BY <1>7, <3>1 DEF Learnt
  <2>11. p \in assumedPods /\ podsMap[p] # n =>
           \A m \in Nodes : podsOn'[m][p] = IF m = n THEN podsOn[m][p] + 1
                                            ELSE IF m = podsMap[p] /\ podsOn[m][p] > 0
                                            THEN podsOn[m][p] - 1 ELSE podsOn[m][p]
    BY <1>2, <2>4, <2>8, CacheTypes
  <2>12. podsMap[p] # Uncached /\ (p \in assumedPods => podsMap[p] = n) =>
           podsMap'[p] = podsMap[p] /\ \A m \in Nodes : podsOn'[m][p] = podsOn[m][p]
    BY <1>2, <2>5, <2>8, CacheTypes
  <2>13. ASSUME NEW q \in Pods \ {p}
         PROVE  PodInv(q)'
    <3>1. SamePod(q)
      BY <1>10, <1>12, <2>9 DEF SamePod
    <3> QED
      BY <1>2, <1>10, <3>1, PodSame
  <2>14. PodInv(p)'
    <3>1. PodLife(p)' /\ Proposed(p)'
      BY <1>7, <1>9, <1>12 DEF PodLife, Proposed
    <3>2. Queued(p)'
      <4>1. \A f \in EventsOf(assignedEvents', p) : f \in EventsOf(assignedEvents, p)
        BY <1>8
      <4>2. EventsOf(taskEvents', p) = EventsOf(taskEvents, p) /\ (OneAdd(taskEvents', p) <=> OneAdd(taskEvents, p))
        BY <1>12
      <4> QED
        BY <1>7, <1>8, <1>9, <1>12, <2>9, <4>1, <4>2 DEF Queued
    <3>3. Learnt(p)'
      BY <2>9 DEF Learnt
    <3>4. \/ podsMap[p] = Uncached
          \/ p \in assumedPods /\ podsMap[p] # n
          \/ podsMap[p] # Uncached /\ (p \in assumedPods => podsMap[p] = n)
      OBVIOUS
    <3>5. Counted(p)'
      <4>1. \A m \in Nodes : podsOn'[m][p] <= tries[p] + 1
        <5>1. CASE podsMap[p] = Uncached
          BY <1>2, <2>10, <5>1
        <5>2. CASE p \in assumedPods /\ podsMap[p] # n
          <6>1. \A m \in Nodes : podsOn[m][p] <= tries[p] /\ podsOn[m][p] \in Nat
            BY <1>7, <1>10, <5>2 DEF Counted
          <6> QED
            BY <1>2, <2>11, <5>2, <6>1
        <5>3. CASE podsMap[p] # Uncached /\ (p \in assumedPods => podsMap[p] = n)
          BY <1>7, <2>12, <5>3 DEF Counted
        <5> QED
          BY <3>4, <5>1, <5>2, <5>3
      <4> QED
        BY <1>9, <1>12, <2>9, <4>1 DEF Counted
    <3>6. Seen(p)'
      <4>1. \A m \in Nodes \ lost : pod[p] = "bound" /\ podNode[p] = m => podsOn'[m][p] > 0
        <5>1. CASE podsMap[p] = Uncached
          BY <1>9, <2>10, <5>1
        <5>2. CASE p \in assumedPods /\ podsMap[p] # n
          BY <1>9, <1>10, <2>11, <5>2
        <5>3. CASE podsMap[p] # Uncached /\ (p \in assumedPods => podsMap[p] = n)
          BY <1>7, <2>12, <5>3 DEF Seen
        <5> QED
          BY <3>4, <5>1, <5>2, <5>3
      <4> QED
        BY <1>9, <1>12, <4>1 DEF Seen
    <3>7. Entries(p)'
      <4>1. CASE podsMap[p] = Uncached
        BY <1>9, <1>12, <2>9, <2>10, <4>1 DEF Entries
      <4>2. CASE podsMap[p] # Uncached /\ (p \in assumedPods => podsMap[p] = n)
        BY <1>7, <1>9, <1>12, <2>9, <2>12, <4>2 DEF Entries
      <4>3. CASE p \in assumedPods /\ podsMap[p] # n
        BY <1>7, <1>9, <1>12, <4>3 DEF Entries
      <4> QED
        BY <3>4, <4>1, <4>2, <4>3
    <3>8. Ended(p)'
      <4>1. DeleteIn(assignedEvents, p) => DeleteIn(assignedEvents', p)
        BY <1>8, <1>13 DEF DeleteIn
      <4> QED
        BY <1>7, <1>8, <1>12, <4>1 DEF Ended
    <3> QED
      BY <3>1, <3>2, <3>3, <3>5, <3>6, <3>7, <3>8 DEF PodInv
  <2> QED
    BY <1>11, <2>7, <2>13, <2>14 DEF AssumeInv
<1>14. CASE e.kind = "update"
  <2>1. r = UpdatePod(Cache, p, n)
    BY <1>6, <1>14
  <2>2. /\ CacheOK(r) /\ r.assumed = Cache.assumed
        /\ \A m \in Nodes : r.nodes[m] = "absent" => Cache.nodes[m] = "absent"
        /\ \A q \in Pods \ {p} : r.pods[q] = Cache.pods[q]
        /\ \/ r.pods[p] = Cache.pods[p]
           \/ r.pods[p] = n /\ p \notin Cache.assumed /\ Cache.pods[p] # Uncached
        /\ \A m \in Nodes, q \in Pods : r.on[m][q] = Cache.on[m][q]
    BY <1>2, <2>1, UpdatePodEffect
  <2>3. Cache' = r
    BY <1>1, <2>2, CacheAfter DEF CacheOK
  <2>4. CacheOK(Cache)'
    BY <2>2, <2>3, Zenon
  <2>5. nodesMap' = r.nodes /\ podsOn' = r.on /\ podsMap' = r.pods /\ assumedPods' = r.assumed
    BY <2>3 DEF Cache
  <2>6. /\ \A m \in Nodes : nodesMap'[m] = "absent" => nodesMap[m] = "absent"
        /\ assumedPods' = assumedPods
        /\ \A q \in Pods \ {p} : podsMap'[q] = podsMap[q]
        /\ \A m \in Nodes, q \in Pods : podsOn'[m][q] = podsOn[m][q]
        /\ podsMap'[p] = podsMap[p] \/ (p \notin assumedPods /\ podsMap[p] # Uncached)
        /\ podsMap'[p] = podsMap[p] \/ podsMap'[p] = n
    BY <1>2, <2>2, <2>5, CacheTypes
  <2>7. ASSUME NEW q \in Pods \ {p}
        PROVE  PodInv(q)'
    <3>1. SamePod(q)
      BY <1>10, <1>12, <2>6 DEF SamePod
    <3> QED
      BY <1>2, <1>10, <3>1, PodSame
  <2>8. PodInv(p)'
    <3>1. PodLife(p)' /\ Proposed(p)'
      BY <1>7, <1>9, <1>12 DEF PodLife, Proposed
    <3>2. Queued(p)'
      <4>1. \A f \in EventsOf(assignedEvents', p) : f \in EventsOf(assignedEvents, p)
        BY <1>8
      <4>2. EventsOf(taskEvents', p) = EventsOf(taskEvents, p) /\ (OneAdd(taskEvents', p) <=> OneAdd(taskEvents, p))
        BY <1>12
      <4> QED
        BY <1>7, <1>8, <1>9, <1>12, <2>6, <4>1, <4>2 DEF Queued
    <3>3. Learnt(p)'
      <4>1. AddIn(assignedEvents, p) => AddIn(assignedEvents', p)
        BY <1>8, <1>14 DEF AddIn
      <4>2. podsMap'[p] = Uncached => podsMap[p] = Uncached
        BY <1>9, <2>6
      <4> QED
        BY <1>7, <1>12, <2>6, <4>1, <4>2 DEF Learnt
    <3>4. Counted(p)'
      BY <1>7, <1>12, <2>6 DEF Counted
    <3>5. Seen(p)'
      BY <1>7, <1>9, <1>12, <2>6 DEF Seen
    <3>6. Entries(p)'
      BY <1>7, <1>9, <1>12, <2>6 DEF Entries
    <3>7. Ended(p)'
      <4>1. DeleteIn(assignedEvents, p) => DeleteIn(assignedEvents', p)
        BY <1>8, <1>14 DEF DeleteIn
      <4> QED
        BY <1>7, <1>8, <1>12, <4>1 DEF Ended
    <3> QED
      BY <3>1, <3>2, <3>3, <3>4, <3>5, <3>6, <3>7 DEF PodInv
  <2> QED
    BY <1>11, <2>4, <2>7, <2>8 DEF AssumeInv
<1>15. CASE e.kind = "delete"
  <2>1. r = RemovePod(Cache, p, n)
    BY <1>6, <1>15
  <2>2. /\ r.pods = Cache.pods /\ r.assumed = Cache.assumed /\ r.nodes = Cache.nodes
        /\ \A m \in Nodes, q \in Pods : m # n \/ q # p => r.on[m][q] = Cache.on[m][q]
        /\ \A m \in Nodes : m = n /\ Cache.on[m][p] = 0 => r.on[m][p] = 0
        /\ \A m \in Nodes : m = n /\ Cache.on[m][p] # 0 => Cache.on[m][p] = r.on[m][p] + 1
    BY <1>2, <2>1, RemovePodEffect
  <2>3. CacheOK(r)
    BY <1>2, <2>1, RemovePodOK
  <2>4. Cache' = r
    BY <1>1, <2>3, CacheAfter DEF CacheOK
  <2>5. CacheOK(Cache)'
    BY <2>3, <2>4, Zenon
  <2>6. nodesMap' = r.nodes /\ podsOn' = r.on /\ podsMap' = r.pods /\ assumedPods' = r.assumed
    BY <2>4 DEF Cache
  <2>7. \A m \in Nodes, q \in Pods : podsOn'[m][q] \in Nat
    BY <2>3, <2>6 DEF CacheOK, CacheRecord
  <2>8. /\ podsMap' = podsMap /\ assumedPods' = assumedPods /\ nodesMap' = nodesMap
        /\ \A q \in Pods \ {p} : \A m \in Nodes : podsOn'[m][q] = podsOn[m][q]
    BY <1>2, <2>2, <2>6, CacheTypes
  <2>9. \A m \in Nodes : m # n => podsOn'[m][p] = podsOn[m][p]
    BY <1>2, <2>2, <2>6, CacheTypes
  <2>10. \A m \in Nodes : m = n /\ podsOn[m][p] = 0 => podsOn'[m][p] = 0
    BY <1>2, <2>2, <2>6, CacheTypes
  <2>11. \A m \in Nodes : m = n /\ podsOn[m][p] # 0 => podsOn[m][p] = podsOn'[m][p] + 1
    BY <1>2, <2>2, <2>6, CacheTypes
  <2>12. \A m \in Nodes : podsOn'[m][p] <= podsOn[m][p]
    BY <1>10, <2>7, <2>9, <2>10, <2>11
  <2>13. ASSUME NEW q \in Pods \ {p}
         PROVE  PodInv(q)'
    <3>1. SamePod(q)
      BY <1>10, <1>12, <2>8 DEF SamePod
    <3> QED
      BY <1>2, <1>10, <3>1, PodSame
  <2>14. pod[p] = "gone" /\ EventsOf(assignedEvents', p) = {} /\ EventsOf(assignedEvents, p) \subseteq {e}
    BY <1>8, <1>9, <1>15
  <2>15. p \notin assumedPods /\ podsMap[p] # Uncached
    BY <1>7, <1>9, <1>15, <2>14 DEF Learnt, AddIn
  <2>16. PodInv(p)'
    <3>1. PodLife(p)' /\ Proposed(p)'
      BY <1>7, <1>9, <1>12 DEF PodLife, Proposed
    <3>2. Queued(p)'
      <4>1. EventsOf(taskEvents', p) = EventsOf(taskEvents, p) /\ (OneAdd(taskEvents', p) <=> OneAdd(taskEvents, p))
        BY <1>12
      <4> QED
        BY <1>7, <1>8, <1>12, <2>8, <2>14, <4>1 DEF Queued
    <3>3. Learnt(p)'
      BY <2>8, <2>15 DEF Learnt
    <3>4. Counted(p)'
      BY <1>2, <1>7, <1>9, <1>10, <1>12, <2>7, <2>8, <2>12, <2>15 DEF Counted
    <3>5. Seen(p)'
      BY <1>9, <1>12, <2>14 DEF Seen
    <3>6. Entries(p)'
      BY <1>7, <1>9, <1>10, <1>12, <2>7, <2>8, <2>12 DEF Entries
    <3>7. Ended(p)'
      <4>1. p \notin doubted => \A m \in Nodes \ lost : podsOn'[m][p] = 0
        <5> SUFFICES ASSUME p \notin doubted, NEW m \in Nodes \ lost
                     PROVE  podsOn'[m][p] = 0
          OBVIOUS
        <5>1. podsOn[m][p] <= IF m = n THEN 1 ELSE 0
          BY <1>7, <1>9 DEF Entries
        <5> QED
          BY <1>10, <2>7, <2>9, <2>10, <2>11, <5>1
      <4> QED
        BY <1>12, <2>14, <4>1 DEF Ended
    <3> QED
      BY <3>1, <3>2, <3>3, <3>4, <3>5, <3>6, <3>7 DEF PodInv
  <2> QED
    BY <1>11, <2>5, <2>13, <2>16 DEF AssumeInv
<1> QED
  BY <1>5, <1>13, <1>14, <1>15

-----------------------------------------------------------------------------
(* The start.                                                              *)

(* A queue in some order holds every event of its set once. *)
LEMMA SomeOrderAll ==
  ASSUME NEW D, IsFiniteSet(D), NEW S, NEW f \in [D -> S],
         \A x, y \in D : f[x] = f[y] => x = y,
         NEW s \in SomeOrder(f)
  PROVE  /\ s \in Seq(S)
         /\ \A i, j \in DOMAIN s : s[i] = s[j] => i = j
         /\ \A i \in DOMAIN s : \E x \in D : s[i] = f[x]
         /\ \A x \in D : \E i \in DOMAIN s : s[i] = f[x]
<1> DEFINE R == {f[x] : x \in D}
           n == Cardinality(D)
<1>1. n \in Nat
  BY FS_CardinalityType
<1>2. s \in [1 .. n -> R] /\ \A i, j \in DOMAIN s : i # j => s[i] # s[j]
  BY DEF SomeOrder
<1>3. f \in Surjection(D, R) /\ f \in Injection(D, R)
  BY DEF Surjection, Injection, IsInjective
<1>4. IsFiniteSet(R) /\ Cardinality(R) = n
  BY <1>3, FS_Surjection
<1>5. Cardinality(1 .. n) = n
  BY <1>1, FS_Interval
<1>6. s \in Injection(1 .. n, R)
  BY <1>2 DEF Injection, IsInjective
<1> HIDE DEF n
<1>7. s \in Surjection(1 .. n, R)
  BY <1>4, <1>5, <1>6, FS_Injection
<1>8. DOMAIN s = 1 .. n /\ \A x \in D : f[x] \in R /\ f[x] \in S
  BY <1>2
<1>9. \A x \in D : \E i \in DOMAIN s : s[i] = f[x]
  BY <1>7, <1>8 DEF Surjection
<1>10. \A i \in DOMAIN s : \E x \in D : s[i] = f[x]
  BY <1>2
<1>11. s \in Seq(S)
  BY <1>1, <1>2, <1>8
<1> QED
  BY <1>2, <1>9, <1>10, <1>11

(* At a start each queue holds the addition of each pod of its handler. *)
LEMMA FirstQueues ==
  ASSUME Init
  PROVE  /\ QueueTypes
         /\ \A p \in Pods :
              /\ OneAdd(taskEvents, p) /\ OneAdd(assignedEvents, p)
              /\ DeleteLast(assignedEvents, p)
              /\ \A e \in EventsOf(taskEvents, p) :
                   e.kind = "add" /\ e.node = podNode[p] /\ pod[p] # "absent"
              /\ \A e \in EventsOf(assignedEvents, p) :
                      e.kind = "add" /\ e.node = podNode[p] /\ podNode[p] # NoNode
              /\ podNode[p] # NoNode => AddIn(assignedEvents, p)
<1> DEFINE some == {p \in Pods : pod[p] # "absent"}
           bound == {q \in some : podNode[q] # NoNode}
           task == [p \in some |-> Ev("add", p, podNode[p])]
           assigned == [p \in bound |-> Ev("add", p, podNode[p])]
           node == [n \in apiNodes |-> Ev("add", NoNode, n)]
<1>1. /\ taskEvents \in SomeOrder(task) /\ assignedEvents \in SomeOrder(assigned)
      /\ nodeEvents \in SomeOrder(node)
  BY DEF Init, FirstEvents
<1>2. /\ pod \in [Pods -> FirstPods] /\ podNode \in [Pods -> Nodes \cup {NoNode}]
      /\ \A p \in Pods : podNode[p] # NoNode <=> pod[p] = "bound"
      /\ apiNodes \subseteq Nodes
  BY DEF Init
<1>3. IsFiniteSet(some) /\ IsFiniteSet(bound) /\ IsFiniteSet(apiNodes)
  BY <1>2, AssumeAssumption, FS_Subset
<1>4. /\ task \in [some -> TaskEvent] /\ assigned \in [bound -> AssignedEvent]
      /\ node \in [apiNodes -> NodeEvent]
  BY <1>2 DEF TaskEvent, AssignedEvent, NodeEvent, Ev
<1>5. /\ \A p \in some : /\ task[p].kind = "add" /\ task[p].pod = p
                         /\ task[p].node = podNode[p]
      /\ \A p \in bound : /\ assigned[p].kind = "add" /\ assigned[p].pod = p
                          /\ assigned[p].node = podNode[p]
      /\ \A n \in apiNodes : node[n].node = n
  BY DEF Ev
<1>6. bound \subseteq some /\ \A p \in Pods : podNode[p] # NoNode => p \in bound
  BY <1>2
<1>7. /\ some \subseteq Pods /\ \A p \in some : pod[p] # "absent"
      /\ \A p \in bound : podNode[p] # NoNode
  OBVIOUS
<1> HIDE DEF some, bound, task, assigned, node
<1>8. /\ taskEvents \in Seq(TaskEvent)
      /\ \A i, j \in DOMAIN taskEvents : taskEvents[i] = taskEvents[j] => i = j
      /\ \A i \in DOMAIN taskEvents : \E x \in some : taskEvents[i] = task[x]
  <2>1. \A x, y \in some : task[x] = task[y] => x = y
    BY <1>5
  <2> QED
    BY <1>1, <1>3, <1>4, <2>1, SomeOrderAll
<1>9. /\ assignedEvents \in Seq(AssignedEvent)
      /\ \A i, j \in DOMAIN assignedEvents : assignedEvents[i] = assignedEvents[j] => i = j
      /\ \A i \in DOMAIN assignedEvents : \E x \in bound : assignedEvents[i] = assigned[x]
      /\ \A x \in bound : \E i \in DOMAIN assignedEvents : assignedEvents[i] = assigned[x]
  <2>1. \A x, y \in bound : assigned[x] = assigned[y] => x = y
    BY <1>5
  <2>2. PICK D, f, q : D = bound /\ f = assigned /\ q = assignedEvents
    OBVIOUS
  <2>3. /\ IsFiniteSet(D) /\ f \in [D -> AssignedEvent] /\ q \in SomeOrder(f)
        /\ \A x, y \in D : f[x] = f[y] => x = y
    BY <1>1, <1>3, <1>4, <2>1, <2>2
  <2>4. q \in Seq(AssignedEvent)
    BY <2>3, SomeOrderAll
  <2>5. \A i, j \in DOMAIN q : q[i] = q[j] => i = j
    BY <2>3 DEF SomeOrder
  <2>6. \A i \in DOMAIN q : \E x \in D : q[i] = f[x]
    BY <2>3, SomeOrderAll
  <2>7. \A x \in D : \E i \in DOMAIN q : q[i] = f[x]
    BY <2>3, SomeOrderAll
  <2> QED
    BY <2>2, <2>4, <2>5, <2>6, <2>7
<1>10. nodeEvents \in Seq(NodeEvent)
  <2>1. \A x, y \in apiNodes : node[x] = node[y] => x = y
    BY <1>5
  <2> QED
    BY <1>1, <1>3, <1>4, <2>1, SomeOrderAll
<1>11. ASSUME NEW p \in Pods
       PROVE  /\ OneAdd(taskEvents, p)
              /\ \A e \in EventsOf(taskEvents, p) :
                   e.kind = "add" /\ e.node = podNode[p] /\ pod[p] # "absent"
  <2>1. \A i \in DOMAIN taskEvents : taskEvents[i].pod = p => p \in some /\ taskEvents[i] = task[p]
    BY <1>5, <1>8
  <2> QED
    BY <1>5, <1>7, <1>8, <2>1 DEF OneAdd, EventsOf
<1>12. ASSUME NEW p \in Pods
       PROVE  /\ OneAdd(assignedEvents, p) /\ DeleteLast(assignedEvents, p)
              /\ \A e \in EventsOf(assignedEvents, p) :
                      e.kind = "add" /\ e.node = podNode[p] /\ podNode[p] # NoNode
              /\ podNode[p] # NoNode => AddIn(assignedEvents, p)
  <2>1. \A i \in DOMAIN assignedEvents :
          assignedEvents[i].pod = p => p \in bound /\ assignedEvents[i] = assigned[p]
    BY <1>5, <1>9
  <2>2. OneAdd(assignedEvents, p)
    BY <1>9, <2>1 DEF OneAdd
  <2>3. DeleteLast(assignedEvents, p)
    BY <1>5, <2>1 DEF DeleteLast
  <2>4. \A e \in EventsOf(assignedEvents, p) :
             e.kind = "add" /\ e.node = podNode[p] /\ podNode[p] # NoNode
    BY <1>5, <1>7, <2>1 DEF EventsOf
  <2>5. podNode[p] # NoNode => AddIn(assignedEvents, p)
    BY <1>5, <1>6, <1>9 DEF AddIn, EventsOf
  <2> QED
    BY <2>2, <2>3, <2>4, <2>5
<1> QED
  BY <1>8, <1>9, <1>10, <1>11, <1>12 DEF QueueTypes

(* At a start the cache is empty. *)
LEMMA AssumeInit ==
  ASSUME Init
  PROVE  AssumeInv
<1>1. /\ pod \in [Pods -> FirstPods] /\ podNode \in [Pods -> Nodes \cup {NoNode}]
      /\ \A p \in Pods : podNode[p] # NoNode <=> pod[p] = "bound"
      /\ apiNodes \subseteq Nodes
      /\ nodesMap = [n \in Nodes |-> "absent"] /\ podsOn = [n \in Nodes |-> NoPods]
      /\ podsMap = [p \in Pods |-> Uncached] /\ assumedPods = {} /\ known = podNode
      /\ proposal = [p \in Pods |-> Idle] /\ tries = [p \in Pods |-> 0]
      /\ doubted = {} /\ lost = {}
  BY DEF Init
<1>2. /\ \A p \in Pods : podsMap[p] = Uncached /\ proposal[p].stage = "idle" /\ tries[p] = 0
      /\ \A n \in Nodes, p \in Pods : podsOn[n][p] = 0
      /\ \A p \in Pods : pod[p] \in {"absent", "pending", "bound"}
      /\ MaxTries \in Nat /\ FirstPods \subseteq {"absent", "pending", "bound", "gone"}
  BY <1>1, AssumeAssumption DEF NoPods, Idle
<1>3. ApiTypes
  <2>1. Idle \in ProposalRecord
    BY DEF Idle, ProposalRecord
  <2>2. 0 \in 0 .. MaxTries
    BY <1>2
  <2>3. pod \in [Pods -> {"absent", "pending", "bound", "gone"}]
    BY <1>1, <1>2
  <2>4. /\ proposal \in [Pods -> ProposalRecord]
        /\ tries \in [Pods -> 0 .. MaxTries]
    BY <1>1, <2>1, <2>2
  <2> QED
    BY <1>1, <2>3, <2>4 DEF ApiTypes
<1>4. CacheOK(Cache)
  <2>1. NoPods \in [Pods -> Nat]
    BY DEF NoPods
  <2>2. podsOn \in [Nodes -> [Pods -> Nat]]
    BY <1>1, <2>1
  <2>3. /\ nodesMap \in [Nodes -> {"absent", "bare", "set"}]
        /\ podsMap \in [Pods -> Nodes \cup {NoNode, Uncached}] /\ assumedPods \in SUBSET Pods
    BY <1>1
  <2>4. Cache \in CacheRecord
    BY <2>2, <2>3 DEF Cache, CacheRecord
  <2> QED
    BY <1>1, <1>2, <2>4 DEF CacheOK, Cache
<1>5. ASSUME NEW p \in Pods
      PROVE  PodInv(p)
  <2>1. /\ OneAdd(taskEvents, p) /\ OneAdd(assignedEvents, p) /\ DeleteLast(assignedEvents, p)
        /\ \A e \in EventsOf(taskEvents, p) :
             e.kind = "add" /\ e.node = podNode[p] /\ pod[p] # "absent"
        /\ \A e \in EventsOf(assignedEvents, p) :
                e.kind = "add" /\ e.node = podNode[p] /\ podNode[p] # NoNode
        /\ podNode[p] # NoNode => AddIn(assignedEvents, p)
    BY FirstQueues
  <2>2. /\ podsMap[p] = Uncached /\ proposal[p].stage = "idle" /\ tries[p] = 0
        /\ p \notin assumedPods
        /\ \A n \in Nodes : podsOn[n][p] = 0
        /\ pod[p] \in {"absent", "pending", "bound"} /\ (podNode[p] # NoNode <=> pod[p] = "bound")
        /\ podNode[p] \in Nodes \cup {NoNode} /\ known[p] = podNode[p]
    BY <1>1, <1>2
  <2>3. PodLife(p) /\ Proposed(p)
    BY <2>1, <2>2 DEF PodLife, Proposed
  <2>4. Queued(p) /\ Learnt(p)
    BY <2>1, <2>2 DEF Queued, Learnt
  <2>5. Counted(p) /\ Seen(p) /\ Entries(p) /\ Ended(p)
    BY <2>2 DEF Counted, Seen, Entries, Ended
  <2> QED
    BY <2>3, <2>4, <2>5 DEF PodInv
<1> QED
  BY <1>3, <1>4, <1>5, FirstQueues DEF AssumeInv

-----------------------------------------------------------------------------
(* The theorems.                                                           *)

(* Every step keeps the invariant. *)
LEMMA AssumeStep ==
  ASSUME AssumeInv, [Next]_assumeVars
  PROVE  AssumeInv'
<1>1. CASE HandleNodeEvent
  BY <1>1, NodeEventInv
<1>2. CASE HandleTaskEvent
  BY <1>2, TaskEventInv
<1>3. CASE HandleAssignedEvent
  BY <1>3, AssignedEventInv
<1>4. ASSUME NEW p \in Pods, CreatePod(p)
      PROVE  AssumeInv'
  BY <1>4, CreateInv
<1>5. ASSUME NEW p \in Pods, UpdateBoundPod(p)
      PROVE  AssumeInv'
  BY <1>5, UpdateBoundInv
<1>6. ASSUME NEW p \in Pods, DeletePod(p) \/ Relist(p)
      PROVE  AssumeInv'
  BY <1>6, DeleteInv, RelistInv
<1>7. ASSUME NEW p \in Pods, FindTarget(p) \/ AssumePod(p)
      PROVE  AssumeInv'
  BY <1>7, FindInv, AssumePodInv
<1>8. ASSUME NEW p \in Pods, BindPod(p)
      PROVE  AssumeInv'
  BY <1>8, BindInv
<1>9. ASSUME NEW p \in Pods, DropProposal(p)
      PROVE  AssumeInv'
  BY <1>9, DropInv
<1>10. ASSUME NEW p \in Pods, NEW n \in Nodes, CheckPod(p, n)
       PROVE  AssumeInv'
  BY <1>10, CheckInv
<1>11. ASSUME NEW n \in Nodes, NodeJoins(n) \/ NodeLeaves(n) \/ Heartbeat(n)
       PROVE  AssumeInv'
  BY <1>11, NodeChangeInv
<1>12. CASE UNCHANGED assumeVars
  <2>1. UNCHANGED <<apiVars, queueVars, cacheVars, coreVars, ghostVars>>
    BY <1>12 DEF assumeVars
  <2>2. /\ CacheOK(Cache) /\ Cache' = Cache /\ QueueTypes
        /\ \A p \in Pods : PodInv(p) /\ tries[p] \in Nat
    BY <2>1, AssumeAssumption DEF AssumeInv, ApiTypes, Cache, cacheVars
  <2>3. ASSUME NEW p \in Pods
        PROVE  PodInv(p)'
    <3>1. SamePod(p)
      BY <2>1, <2>2, CacheTypes DEF SamePod, apiVars, cacheVars, coreVars, ghostVars
    <3>2. SameEvents(p)
      BY <2>1, <2>2, EventsSame DEF queueVars
    <3> QED
      BY <2>2, <3>1, <3>2, PodSame
  <2>4. ApiTypes' /\ QueueTypes'
    BY <2>1 DEF AssumeInv, ApiTypes, QueueTypes, apiVars, queueVars, coreVars
  <2> QED
    BY <2>2, <2>3, <2>4, Zenon DEF AssumeInv
<1> QED
  BY <1>1, <1>2, <1>3, <1>4, <1>5, <1>6, <1>7, <1>8, <1>9, <1>10, <1>11, <1>12
  DEF Next, Handlers

(* The cache, the queues and the proposals of each pod stay in step, in    *)
(* whatever order the three informers deliver.                             *)
THEOREM AssumeInvariant == Spec => []AssumeInv
<1> QED
  BY AssumeInit, AssumeStep, PTL DEF Spec

(* What the cache can hold: entries are never negative nor more than one   *)
(* for each proposal and one for the bound pod, a node that is not cached  *)
(* has none, and a pod is assumed on a node only.                          *)
THEOREM AssumeTypes == Spec => []AssumeTypeOK
<1>1. ASSUME AssumeInv
      PROVE  AssumeTypeOK
  <2>1. /\ ApiTypes /\ CacheOK(Cache) /\ \A p \in Pods : Counted(p)
    BY <1>1 DEF AssumeInv, PodInv
  <2>2. /\ nodesMap \in [Nodes -> {"absent", "bare", "set"}]
        /\ podsOn \in [Nodes -> [Pods -> Nat]]
        /\ podsMap \in [Pods -> Nodes \cup {NoNode, Uncached}]
        /\ \A p \in assumedPods : podsMap[p] \in Nodes
        /\ \A n \in Nodes : nodesMap[n] = "absent" => \A p \in Pods : podsOn[n][p] = 0
    BY <2>1, CacheTypes
  <2>3. ASSUME NEW n \in Nodes, NEW p \in Pods
        PROVE  podsOn[n][p] \in 0 .. (MaxTries + 1)
    <3>1. tries[p] \in 0 .. MaxTries /\ MaxTries \in Nat /\ podsOn[n][p] \in Nat
      BY <2>1, <2>2, AssumeAssumption DEF ApiTypes
    <3>2. podsOn[n][p] <= tries[p] + 1
      BY <2>1 DEF Counted
    <3> QED
      BY <3>1, <3>2
  <2>4. podsOn \in [Nodes -> [Pods -> 0 .. (MaxTries + 1)]]
    BY <2>2, <2>3
  <2>5. \A n \in Nodes : nodesMap[n] = "absent" => podsOn[n] = NoPods
    BY <2>2 DEF NoPods
  <2> QED
    BY <2>1, <2>2, <2>4, <2>5 DEF AssumeTypeOK, ApiTypes
<1> QED
  BY <1>1, AssumeInvariant, PTL

(* The predicates never overlook a pod that is assumed or bound on a node. *)
THEOREM PlacedSeen == Spec => []PlacedPodsSeen
<1>1. ASSUME AssumeInv
      PROVE  PlacedPodsSeen
  <2>1. \A p \in Pods : Seen(p)
    BY <1>1 DEF AssumeInv, PodInv
  <2> QED
    BY <2>1 DEF PlacedPodsSeen, Seen
<1> QED
  BY <1>1, AssumeInvariant, PTL

(* Once the handlers have had what the informer has seen of a pod, its     *)
(* node shows it once and every other node not at all, unless it was       *)
(* assumed in vain or its binding and its deletion were missed both.       *)
THEOREM CountedExactly == Spec => []CountsExact
<1>1. ASSUME AssumeInv
      PROVE  CountsExact
  <2> SUFFICES ASSUME NEW p \in Pods \ doubted, NEW n \in Nodes \ lost, Settled(p),
                      known[p] = podNode[p]
               PROVE  podsOn[n][p] = IF pod[p] = "bound" /\ podNode[p] = n THEN 1 ELSE 0
    BY DEF CountsExact, Informed
  <2>1. /\ PodLife(p) /\ Learnt(p) /\ Seen(p) /\ Entries(p) /\ Ended(p)
        /\ CacheOK(Cache) /\ ApiTypes
    BY <1>1 DEF AssumeInv, PodInv
  <2>2. podsOn[n][p] \in Nat
    BY <2>1, CacheTypes
  <2>3. proposal[p].stage = "idle" /\ EventsOf(assignedEvents, p) = {}
    BY DEF Settled, Idle, EventsOf
  <2>4. pod[p] \in {"absent", "pending", "bound", "gone"} /\ podNode[p] \in Nodes \cup {NoNode}
    BY <2>1 DEF ApiTypes
  <2>5. CASE podNode[p] = NoNode
    BY <2>1, <2>2, <2>3, <2>5, AssumeAssumption DEF Entries
  <2>6. CASE podNode[p] # NoNode
    <3>1. podsMap[p] # Uncached /\ p \notin assumedPods
      BY <2>1, <2>3, <2>6 DEF Learnt, AddIn
    <3>2. pod[p] \in {"bound", "gone"}
      BY <2>1, <2>4, <2>6 DEF PodLife
    <3>3. CASE pod[p] = "bound"
      BY <2>1, <2>2, <2>6, <3>1, <3>3 DEF Entries, Seen
    <3>4. CASE pod[p] = "gone"
      BY <2>1, <2>3, <2>6, <3>4 DEF Ended, DeleteIn
    <3> QED
      BY <3>2, <3>3, <3>4
  <2> QED
    BY <2>5, <2>6
<1> QED
  BY <1>1, AssumeInvariant, PTL
=============================================================================
