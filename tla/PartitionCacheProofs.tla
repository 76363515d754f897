------------------------ MODULE PartitionCacheProofs ------------------------
(***************************************************************************)
(* Proofs about PartitionCache, for every set of nodes, applications,      *)
(* queues and sizes.  CacheInv needs no assumption on the callers;         *)
(* ContractInv adds what follows when they keep their side of the contract.*)
(***************************************************************************)
EXTENDS PartitionCache, FiniteSetTheorems, FunctionTheorems, TLAPS

-----------------------------------------------------------------------------
(* The laws of Weights: what adding to, removing from and splitting a set  *)
(* does to its sum.                                                        *)

(* A sum that is defined is a natural number. *)
LEMMA WeightType ==
  ASSUME NEW S, NEW w, Weighable(S, w)
  PROVE  Weight(S, w) \in Nat
BY FS_CardinalityType DEF Weight, Weighable

(* The empty sum. *)
LEMMA WeightEmpty ==
  ASSUME NEW w
  PROVE  Weighable({}, w) /\ Weight({}, w) = 0
<1>1. UnitsOf({}, w) = {}
  BY DEF UnitsOf
<1> QED
  BY <1>1, FS_EmptySet DEF Weight, Weighable

(* Only the weights of the elements matter. *)
LEMMA WeightCong ==
  ASSUME NEW S, NEW v, NEW w, \A x \in S : v[x] = w[x]
  PROVE  UnitsOf(S, v) = UnitsOf(S, w) /\ Weight(S, v) = Weight(S, w)
<1>1. UnitsOf(S, v) = UnitsOf(S, w)
  BY DEF UnitsOf
<1> QED
  BY <1>1 DEF Weight

(* One element has as many units as its weight. *)
LEMMA WeightSingleton ==
  ASSUME NEW x, NEW w, w[x] \in Nat
  PROVE  Weighable({x}, w) /\ Weight({x}, w) = w[x]
<1>1. UnitsOf({x}, w) = {x} \X (1 .. w[x])
  BY DEF UnitsOf
<1>2. IsFiniteSet({x}) /\ Cardinality({x}) = 1
  BY FS_Singleton
<1>3. IsFiniteSet(1 .. w[x]) /\ Cardinality(1 .. w[x]) = w[x]
  BY FS_Interval
<1>4. /\ IsFiniteSet({x} \X (1 .. w[x]))
      /\ Cardinality({x} \X (1 .. w[x])) = 1 * w[x]
  BY <1>2, <1>3, FS_Product
<1>5. IsFiniteSet(UnitsOf({x}, w)) /\ Cardinality(UnitsOf({x}, w)) = 1 * w[x]
  BY <1>1, <1>4, Zenon
<1>6. 1 * w[x] = w[x]
  OBVIOUS
<1> QED
  BY <1>5, <1>6, Zenon DEF Weight, Weighable

(* The sum over two disjoint sets is the sum of the sums. *)
LEMMA WeightUnion ==
  ASSUME NEW S, NEW T, NEW w, S \cap T = {}, Weighable(S, w), Weighable(T, w)
  PROVE  /\ Weighable(S \cup T, w)
         /\ Weight(S \cup T, w) = Weight(S, w) + Weight(T, w)
<1>1. UnitsOf(S \cup T, w) = UnitsOf(S, w) \cup UnitsOf(T, w)
  BY DEF UnitsOf
<1>2. UnitsOf(S, w) \cap UnitsOf(T, w) = {}
  BY DEF UnitsOf
<1>3. /\ IsFiniteSet(UnitsOf(S, w) \cup UnitsOf(T, w))
      /\ Cardinality(UnitsOf(S, w) \cup UnitsOf(T, w))
           = Cardinality(UnitsOf(S, w)) + Cardinality(UnitsOf(T, w)) - Cardinality({})
  BY <1>2, FS_Union DEF Weighable
<1>4. Weighable(S \cup T, w)
  BY <1>1, <1>3, Zenon DEF Weighable
<1>5. Weight(S \cup T, w) = Weight(S, w) + Weight(T, w) - Cardinality({})
  BY <1>1, <1>3, Zenon DEF Weight
<1> QED
  BY <1>4, <1>5, FS_EmptySet, WeightType

(* Adding an element adds its weight. *)
LEMMA WeightAdd ==
  ASSUME NEW S, NEW x, NEW w, x \notin S, w[x] \in Nat, Weighable(S, w)
  PROVE  /\ Weighable(S \cup {x}, w)
         /\ Weight(S \cup {x}, w) = Weight(S, w) + w[x]
<1>1. Weighable({x}, w) /\ Weight({x}, w) = w[x]
  BY WeightSingleton
<1> QED
  BY <1>1, WeightUnion

(* A part weighs no more than the whole, and removing it leaves the rest. *)
LEMMA WeightSplit ==
  ASSUME NEW S, NEW T, NEW w, T \subseteq S, Weighable(S, w)
  PROVE  /\ Weighable(T, w)
         /\ Weighable(S \ T, w)
         /\ Weight(S \ T, w) = Weight(S, w) - Weight(T, w)
         /\ Weight(T, w) <= Weight(S, w)
<1>1. UnitsOf(T, w) \subseteq UnitsOf(S, w) /\ UnitsOf(S \ T, w) \subseteq UnitsOf(S, w)
  BY DEF UnitsOf
<1>2. Weighable(T, w) /\ Weighable(S \ T, w)
  BY <1>1, FS_Subset DEF Weighable
<1>3. (S \ T) \cup T = S
  OBVIOUS
<1>4. Weight(S, w) = Weight(S \ T, w) + Weight(T, w)
  BY <1>2, <1>3, WeightUnion
<1> QED
  BY <1>2, <1>4, WeightType

(* Removing an element removes its weight. *)
LEMMA WeightRemove ==
  ASSUME NEW S, NEW x, NEW w, x \in S, w[x] \in Nat, Weighable(S, w)
  PROVE  /\ Weighable(S \ {x}, w)
         /\ Weight(S \ {x}, w) = Weight(S, w) - w[x]
         /\ w[x] <= Weight(S, w)
<1> DEFINE T == {x}
<1>1. T \subseteq S
  OBVIOUS
<1>2. Weight(T, w) = w[x]
  BY WeightSingleton
<1> HIDE DEF T
<1>3. /\ Weighable(S \ T, w)
      /\ Weight(S \ T, w) = Weight(S, w) - Weight(T, w)
      /\ Weight(T, w) <= Weight(S, w)
  BY <1>1, WeightSplit
<1>4. /\ Weighable(S \ T, w)
      /\ Weight(S \ T, w) = Weight(S, w) - w[x]
      /\ w[x] <= Weight(S, w)
  BY <1>2, <1>3
<1> QED
  BY <1>4 DEF T

(* Few things can be numbered: an injection into as many numbers or more. *)
LEMMA Numbering ==
  ASSUME NEW X, IsFiniteSet(X), NEW n \in Nat, Cardinality(X) <= n
  PROVE  \E f \in [X -> 1 .. n] : \A x, y \in X : f[x] = f[y] => x = y
<1> DEFINE c == Cardinality(X)
<1>1. c \in Nat
  BY FS_CardinalityType
<1>2. IsFiniteSet(1 .. c) /\ Cardinality(1 .. c) = c
  BY <1>1, FS_Interval
<1>3. ExistsBijection(X, 1 .. c)
  BY <1>2, FS_SameCardinalityBij
<1>4. PICK f \in Bijection(X, 1 .. c) : TRUE
  BY <1>3, Fun_ExistsBij
<1>5. f \in [X -> 1 .. c] /\ \A x, y \in X : f[x] = f[y] => x = y
  BY DEF Bijection, Injection, IsInjective
<1>6. f \in [X -> 1 .. n]
  BY <1>1, <1>5
<1> QED
  BY <1>5, <1>6

(* When what belongs to each owner weighs no more than the owner, all of   *)
(* it weighs no more than the owners together.                             *)
LEMMA WeightGrouped ==
  ASSUME NEW S, NEW w, NEW G, NEW c, NEW own \in [S -> G], Weighable(G, c),
         \A g \in G : c[g] \in Nat /\ Weighable({ x \in S : own[x] = g }, w)
                      /\ Weight({ x \in S : own[x] = g }, w) <= c[g]
  PROVE  Weighable(S, w) /\ Weight(S, w) <= Weight(G, c)
<1> DEFINE Of(g) == UnitsOf({ x \in S : own[x] = g }, w)
           Numbers(g) == { f \in [Of(g) -> 1 .. c[g]] :
                             \A x, y \in Of(g) : f[x] = f[y] => x = y }
           num == [g \in G |-> CHOOSE f \in Numbers(g) : TRUE]
           glue == [u \in UnitsOf(S, w) |-> <<own[u[1]], num[own[u[1]]][u]>>]
<1>1. ASSUME NEW g \in G
      PROVE  num[g] \in Numbers(g)
  <2>1. IsFiniteSet(Of(g)) /\ Cardinality(Of(g)) <= c[g] /\ c[g] \in Nat
    BY DEF Weighable, Weight
  <2> HIDE DEF Of
  <2>2. \E f \in [Of(g) -> 1 .. c[g]] : \A x, y \in Of(g) : f[x] = f[y] => x = y
    BY <2>1, Numbering
  <2>3. \E f : f \in Numbers(g)
    BY <2>2
  <2> QED
    BY <2>3
<1>2. ASSUME NEW u \in UnitsOf(S, w)
      PROVE  u[1] \in S /\ own[u[1]] \in G /\ u \in Of(own[u[1]])
  BY DEF UnitsOf
<1>3. ASSUME NEW u \in UnitsOf(S, w)
      PROVE  /\ num[own[u[1]]][u] \in 1 .. c[own[u[1]]]
             /\ glue[u] = <<own[u[1]], num[own[u[1]]][u]>>
             /\ glue[u] \in UnitsOf(G, c)
  <2> HIDE DEF num, Of
  <2>1. num[own[u[1]]][u] \in 1 .. c[own[u[1]]]
    BY <1>1, <1>2
  <2>2. <<own[u[1]], num[own[u[1]]][u]>> \in UnitsOf(G, c)
    BY <1>2, <2>1 DEF UnitsOf
  <2> QED
    BY <2>1, <2>2
<1>4. ASSUME NEW u \in UnitsOf(S, w), NEW v \in UnitsOf(S, w), glue[u] = glue[v]
      PROVE  u = v
  <2> HIDE DEF glue, num, Of
  <2>1. own[u[1]] = own[v[1]] /\ num[own[u[1]]][u] = num[own[v[1]]][v]
    BY <1>3, <1>4
  <2> DEFINE g == own[u[1]]
  <2>2. num[g][u] = num[g][v] /\ g \in G /\ u \in Of(g) /\ v \in Of(g)
    BY <1>2, <2>1
  <2> HIDE DEF g
  <2> QED
    BY <1>1, <2>2
<1>5. glue \in [UnitsOf(S, w) -> UnitsOf(G, c)]
  BY <1>3
<1> HIDE DEF glue
<1>6. glue \in Injection(UnitsOf(S, w), UnitsOf(G, c))
  BY <1>4, <1>5, Fun_IsInj
<1>7. IsFiniteSet(UnitsOf(G, c))
  BY DEF Weighable
<1> QED
  BY <1>6, <1>7, FS_Injection DEF Weighable, Weight

(* Finitely many elements of natural weight have a sum. *)
LEMMA FiniteWeighable ==
  ASSUME NEW S, IsFiniteSet(S), NEW w, \A x \in S : w[x] \in Nat
  PROVE  Weighable(S, w)
<1> DEFINE units == [x \in S |-> {x} \X (1 .. w[x])]
           U == { {x} \X (1 .. w[x]) : x \in S }
<1>1. units \in Surjection(S, U)
  <2>1. units \in [S -> U] /\ \A t \in U : \E x \in S : units[x] = t
    OBVIOUS
  <2> QED
    BY <2>1, Fun_IsSurj
<1>2. IsFiniteSet(U)
  BY <1>1, FS_Surjection
<1>3. ASSUME NEW x \in S
      PROVE  IsFiniteSet({x} \X (1 .. w[x]))
  <2>1. IsFiniteSet({x})
    BY FS_Singleton
  <2>2. IsFiniteSet(1 .. w[x])
    BY FS_Interval
  <2> QED
    BY <2>1, <2>2, FS_Product
<1>4. IsFiniteSet(UNION U)
  BY <1>2, <1>3, FS_UNION
<1> QED
  BY <1>4 DEF Weighable, UnitsOf

(* Elements of weight zero do not count. *)
LEMMA WeightZeros ==
  ASSUME NEW S, NEW T, S \subseteq T, NEW w, \A x \in T \ S : w[x] = 0
  PROVE  UnitsOf(S, w) = UnitsOf(T, w) /\ Weight(S, w) = Weight(T, w)
<1>1. ASSUME NEW u \in UnitsOf(T, w)
      PROVE  u \in UnitsOf(S, w)
  BY DEF UnitsOf
<1>2. UnitsOf(S, w) = UnitsOf(T, w)
  BY <1>1 DEF UnitsOf
<1> QED
  BY <1>2 DEF Weight

(* A sum whose terms in T become zero loses what they were. *)
LEMMA WeightZeroed ==
  ASSUME NEW S, NEW T, T \subseteq S, NEW v, NEW w, Weighable(S, w),
         \A x \in S \ T : v[x] = w[x], \A x \in T : v[x] = 0
  PROVE  /\ Weighable(S, v)
         /\ Weight(S, v) = Weight(S, w) - Weight(T, w)
<1> DEFINE L == S \ T
<1>1. /\ L \subseteq S
      /\ \A x \in L : v[x] = w[x]
      /\ \A x \in S \ L : v[x] = 0
  OBVIOUS
<1>2. /\ Weighable(T, w) /\ Weighable(L, w) /\ Weight(L, w) = Weight(S, w) - Weight(T, w)
  BY WeightSplit
<1> HIDE DEF L
<1>3. UnitsOf(L, v) = UnitsOf(L, w) /\ Weight(L, v) = Weight(L, w)
  BY <1>1, WeightCong
<1>4. UnitsOf(L, v) = UnitsOf(S, v) /\ Weight(L, v) = Weight(S, v)
  BY <1>1, WeightZeros
<1>5. Weighable(S, v)
  BY <1>2, <1>3, <1>4, Zenon DEF Weighable
<1>6. Weight(S, v) = Weight(S, w) - Weight(T, w)
  BY <1>2, <1>3, <1>4, Zenon
<1> QED
  BY <1>5, <1>6

(* A sum in which one term changes changes by as much. *)
LEMMA WeightUpdate ==
  ASSUME NEW S, NEW x \in S, NEW v, NEW w, Weighable(S, w), v[x] \in Nat, w[x] \in Nat,
         \A y \in S \ {x} : v[y] = w[y]
  PROVE  /\ Weighable(S, v)
         /\ Weight(S, v) = Weight(S, w) + (v[x] - w[x])
         /\ w[x] <= Weight(S, w) /\ Weight(S, w) \in Nat
<1> DEFINE L == S \ {x}
<1>1. /\ Weighable(L, w)
      /\ Weight(L, w) = Weight(S, w) - w[x]
      /\ w[x] <= Weight(S, w)
  BY WeightRemove
<1>2. x \notin L /\ S = L \cup {x} /\ \A y \in L : v[y] = w[y]
  OBVIOUS
<1> HIDE DEF L
<1>3. UnitsOf(L, v) = UnitsOf(L, w) /\ Weight(L, v) = Weight(L, w)
  BY <1>2, WeightCong
<1>4. Weighable(L, v)
  BY <1>1, <1>3, Zenon DEF Weighable
<1>5. Weighable(L \cup {x}, v) /\ Weight(L \cup {x}, v) = Weight(L, v) + v[x]
  BY <1>2, <1>4, WeightAdd
<1>6. Weight(S, w) \in Nat
  BY WeightType
<1>7. Weighable(S, v) /\ Weight(S, v) = Weight(L, v) + v[x]
  BY <1>2, <1>5, Zenon
<1>8. Weight(S, v) = (Weight(S, w) - w[x]) + v[x]
  BY <1>1, <1>3, <1>7, Zenon
<1> QED
  BY <1>1, <1>6, <1>7, <1>8

-----------------------------------------------------------------------------
(* The accounts of the partition, whatever its callers do *)

(* An allocation has a natural size. *)
LEMMA SizeOfType ==
  ASSUME NEW a \in Allocation
  PROVE  SizeOf[a] = a.res /\ SizeOf[a] \in Nat
BY SizeAssumption DEF SizeOf, Allocation

(* The laws of Weights for sets of allocations. *)
LEMMA TotalEmpty == Weighable({}, SizeOf) /\ TotalOf({}) = 0
BY WeightEmpty DEF TotalOf

(* AddAllocation: the total grows by the resource of the new allocation. *)
LEMMA TotalAdd ==
  ASSUME NEW S, NEW a \in Allocation, a \notin S, Weighable(S, SizeOf)
  PROVE  /\ Weighable(S \cup {a}, SizeOf)
         /\ TotalOf(S \cup {a}) = TotalOf(S) + a.res
<1>1. SizeOf[a] = a.res /\ SizeOf[a] \in Nat
  BY SizeOfType
<1>2. Weighable(S \cup {a}, SizeOf) /\ Weight(S \cup {a}, SizeOf) = Weight(S, SizeOf) + SizeOf[a]
  BY <1>1, WeightAdd, Zenon
<1> QED
  BY <1>1, <1>2, Zenon DEF TotalOf

(* RemoveAllocation: the total shrinks by what the allocation used, and
   never below zero. *)
LEMMA TotalRemove ==
  ASSUME NEW S, NEW a \in Allocation, a \in S, Weighable(S, SizeOf)
  PROVE  /\ Weighable(S \ {a}, SizeOf)
         /\ TotalOf(S \ {a}) = TotalOf(S) - a.res
         /\ a.res <= TotalOf(S)
<1>1. SizeOf[a] = a.res /\ SizeOf[a] \in Nat
  BY SizeOfType
<1>2. /\ Weighable(S \ {a}, SizeOf)
      /\ Weight(S \ {a}, SizeOf) = Weight(S, SizeOf) - SizeOf[a]
      /\ SizeOf[a] <= Weight(S, SizeOf)
  BY <1>1, WeightRemove, Zenon
<1> QED
  BY <1>1, <1>2, Zenon DEF TotalOf

(* ReleaseAllocationsForApplication: what stays is the total less what is
   released. *)
LEMMA TotalSplit ==
  ASSUME NEW S, NEW T, T \subseteq S, Weighable(S, SizeOf)
  PROVE  /\ Weighable(T, SizeOf)
         /\ Weighable(S \ T, SizeOf)
         /\ TotalOf(S \ T) = TotalOf(S) - TotalOf(T)
         /\ TotalOf(T) <= TotalOf(S)
         /\ TotalOf(T) \in Nat /\ TotalOf(S) \in Nat
BY WeightSplit, WeightType DEF TotalOf

(* The initial partition satisfies the invariant. *)
LEMMA InitCache == Init => CacheInv
<1> SUFFICES ASSUME Init PROVE CacheInv
  OBVIOUS
<1>1. TypeOK
  BY SizeAssumption DEF Init, TypeOK, PartitionStates, AppStates, QueueNames, Op, Idle
<1>2. SumsDefined /\ NodeAccounting /\ AppAccounting
  BY WeightEmpty DEF Init, SumsDefined, NodeAccounting, AppAccounting, TotalOf
<1>3. MapUnique /\ NodesInMap /\ OwnNode /\ OpConsistent
  BY DEF Init, MapUnique, NodesInMap, OwnNode, OpConsistent, Idle
<1> QED
  BY <1>1, <1>2, <1>3 DEF CacheInv

(* What IncAllocatedResource and DecAllocatedResource return is a counter  *)
(* for every queue.                                                        *)
LEMMA CounterTypes ==
  ASSUME TypeOK, NEW q \in QueueNames, NEW r \in Nat
  PROVE  /\ q \in Queues => IncAllocatedResource(q, r) \in [Queues -> Nat]
         /\ DecAllocatedResource(q, r) \in [Queues -> Nat]
<1>1. q \in Queues => IncAllocatedResource(q, r) \in [Queues -> Nat]
  BY QueueAssumption DEF TypeOK, IncAllocatedResource
<1>2. ASSUME NEW p \in Queues, q # NoQueue, CanDec(q, r), p \in PathTo[q]
      PROVE  queueAllocated[p] - r \in Nat
  BY <1>2, QueueAssumption DEF TypeOK, CanDec, QueueNames
<1>3. DecAllocatedResource(q, r) \in [Queues -> Nat]
  BY <1>2 DEF TypeOK, DecAllocatedResource
<1> QED
  BY <1>1, <1>3

(* Adding an allocation keeps the accounts, for a proposal and for a       *)
(* report alike.                                                           *)
LEMMA AllocateCache ==
  ASSUME CacheInv, NEW p \in Proposal, NEW nodeReported \in BOOLEAN,
         CanAllocate(p, nodeReported), Allocate(p),
         op.kind # "removeNode", op'.kind = op.kind, op'.node = op.node, op' \in Op
  PROVE  CacheInv'
<1> USE DEF CacheInv
<1>1. PICK u \in Uuids :
        LET a == AllocationFor(u, p) IN
        /\ FreshUuid(u)
        /\ queueAllocated' = IncAllocatedResource(a.queue, a.res)
        /\ nodeAllocs'     = [nodeAllocs EXCEPT ![a.node] = @ \cup {a}]
        /\ nodeAllocated'  = [nodeAllocated EXCEPT ![a.node] = @ + a.res]
        /\ appAllocs'      = [appAllocs EXCEPT ![a.app] = @ \cup {a}]
        /\ appAllocated'   = [appAllocated EXCEPT ![a.app] = @ + a.res]
        /\ allocations'    = allocations \cup {a}
        /\ UNCHANGED <<partitionState, nodes, nodeTotal, total, apps, appState, leafQueue>>
  BY DEF Allocate
<1> DEFINE a == AllocationFor(u, p)
<1>2. /\ a \in Allocation
      /\ a.node \in nodes /\ a.node \in Nodes /\ a.app \in apps /\ a.app \in Apps
      /\ a.res \in Nat /\ a.uuid = u
      /\ nodeAllocated[a.node] + a.res <= nodeTotal[a.node]
  BY SizeAssumption DEF AllocationFor, Proposal, CanAllocate, Allocation, TypeOK
<1>3. /\ FreshUuid(u)
      /\ queueAllocated' = IncAllocatedResource(a.queue, a.res)
      /\ nodeAllocs'     = [nodeAllocs EXCEPT ![a.node] = @ \cup {a}]
      /\ nodeAllocated'  = [nodeAllocated EXCEPT ![a.node] = @ + a.res]
      /\ appAllocs'      = [appAllocs EXCEPT ![a.app] = @ \cup {a}]
      /\ appAllocated'   = [appAllocated EXCEPT ![a.app] = @ + a.res]
      /\ allocations'    = allocations \cup {a}
      /\ UNCHANGED <<partitionState, nodes, nodeTotal, total, apps, appState, leafQueue>>
  BY <1>1
<1> HIDE DEF a
<1>4. /\ a \notin allocations
      /\ \A n \in Nodes : a \notin nodeAllocs[n]
      /\ \A b \in Apps : a \notin appAllocs[b]
  BY <1>2, <1>3 DEF FreshUuid, NodesInMap, AppAccounting
<1>6. queueAllocated' \in [Queues -> Nat]
  BY <1>2, <1>3, CounterTypes, QueueAssumption DEF Allocation, QueueNames
<1>7. TypeOK'
  BY <1>2, <1>3, <1>6 DEF TypeOK
<1>8. /\ Weighable(nodeAllocs[a.node] \cup {a}, SizeOf)
      /\ TotalOf(nodeAllocs[a.node] \cup {a}) = TotalOf(nodeAllocs[a.node]) + a.res
      /\ Weighable(appAllocs[a.app] \cup {a}, SizeOf)
      /\ TotalOf(appAllocs[a.app] \cup {a}) = TotalOf(appAllocs[a.app]) + a.res
  <2>1. Weighable(nodeAllocs[a.node], SizeOf) /\ Weighable(appAllocs[a.app], SizeOf)
    BY <1>2 DEF SumsDefined
  <2>2. a \notin nodeAllocs[a.node] /\ a \notin appAllocs[a.app]
    BY <1>2, <1>4
  <2> QED
    BY <1>2, <2>1, <2>2, TotalAdd, Zenon
<1>9. SumsDefined'
  BY <1>2, <1>3, <1>8 DEF SumsDefined, TypeOK
<1>10. NodeAccounting'
  BY <1>2, <1>3, <1>8 DEF NodeAccounting, TypeOK
<1>11. AppAccounting'
  BY <1>2, <1>3, <1>8 DEF AppAccounting, TypeOK
<1>12. MapUnique' /\ NodesInMap'
  BY <1>2, <1>3 DEF MapUnique, NodesInMap, TypeOK, FreshUuid
<1>13. OwnNode' /\ OpConsistent'
  BY <1>2, <1>3 DEF OwnNode, OpConsistent, TypeOK
<1> QED
  BY <1>7, <1>9, <1>10, <1>11, <1>12, <1>13

(* Taking allocations off the nodes they are on. *)
LEMMA NodesWithout ==
  ASSUME CacheInv, NEW R \in SUBSET Allocation,
         nodeAllocs'    = [n \in Nodes |-> nodeAllocs[n] \ R],
         nodeAllocated' = [n \in Nodes |-> nodeAllocated[n] - TotalOf(nodeAllocs[n] \cap R)],
         UNCHANGED <<nodes, nodeTotal, total>>
  PROVE  /\ nodeAllocs' \in [Nodes -> SUBSET Allocation]
         /\ nodeAllocated' \in [Nodes -> Nat]
         /\ NodeAccounting'
         /\ \A n \in Nodes : Weighable(nodeAllocs'[n], SizeOf)
<1> USE DEF CacheInv
<1>1. ASSUME NEW n \in Nodes
      PROVE  /\ Weighable(nodeAllocs[n] \ R, SizeOf)
             /\ TotalOf(nodeAllocs[n] \ R) = nodeAllocated[n] - TotalOf(nodeAllocs[n] \cap R)
             /\ nodeAllocated[n] - TotalOf(nodeAllocs[n] \cap R) \in Nat
             /\ nodeAllocated[n] - TotalOf(nodeAllocs[n] \cap R) <= nodeAllocated[n]
  <2> DEFINE S == nodeAllocs[n]
             T == nodeAllocs[n] \cap R
  <2>1. T \subseteq S /\ Weighable(S, SizeOf) /\ S \ R = S \ T
    BY DEF SumsDefined
  <2>2. nodeAllocated[n] = TotalOf(S)
    BY DEF NodeAccounting
  <2> HIDE DEF S, T
  <2>3. /\ Weighable(S \ T, SizeOf)
        /\ TotalOf(S \ T) = TotalOf(S) - TotalOf(T)
        /\ TotalOf(T) <= TotalOf(S)
        /\ TotalOf(T) \in Nat /\ TotalOf(S) \in Nat
    BY <2>1, TotalSplit
  <2>4. /\ TotalOf(S \ T) = nodeAllocated[n] - TotalOf(T)
        /\ nodeAllocated[n] - TotalOf(T) \in Nat
        /\ nodeAllocated[n] - TotalOf(T) <= nodeAllocated[n]
    BY <2>2, <2>3
  <2>5. Weighable(S \ R, SizeOf) /\ TotalOf(S \ R) = nodeAllocated[n] - TotalOf(T)
    BY <2>1, <2>3, <2>4, Zenon
  <2> QED
    BY <2>4, <2>5 DEF S, T
<1>2. /\ nodeAllocs' \in [Nodes -> SUBSET Allocation]
      /\ nodeAllocated' \in [Nodes -> Nat]
      /\ \A n \in Nodes : Weighable(nodeAllocs'[n], SizeOf)
  BY <1>1 DEF TypeOK
<1>3. \A n \in Nodes : /\ nodeAllocated'[n] = TotalOf(nodeAllocs'[n])
                       /\ nodeAllocated'[n] <= nodeTotal[n]
                       /\ n \notin nodes => nodeAllocs'[n] = {} /\ nodeTotal[n] = 0
  <2> TAKE n \in Nodes
  <2>1. nodeAllocs'[n] = nodeAllocs[n] \ R
    OBVIOUS
  <2>2. nodeAllocated'[n] = nodeAllocated[n] - TotalOf(nodeAllocs[n] \cap R)
    OBVIOUS
  <2>3. nodeAllocated'[n] = TotalOf(nodeAllocs'[n])
    BY <1>1, <2>1, <2>2, Zenon
  <2>4. nodeAllocated'[n] <= nodeAllocated[n] /\ nodeAllocated'[n] \in Nat
    BY <1>1, <2>2, Zenon
  <2>5. nodeAllocated'[n] <= nodeTotal[n]
    BY <2>4 DEF NodeAccounting, TypeOK
  <2> QED
    BY <2>1, <2>3, <2>5 DEF NodeAccounting
<1>4. NodeAccounting'
  BY <1>3 DEF NodeAccounting, TotalOf
<1> QED
  BY <1>2, <1>4

(* Releasing allocations of an application keeps the accounts. *)
LEMMA ReleaseCache ==
  ASSUME CacheInv, NEW app \in Apps, NEW R \in Releasable(app), ReleaseAllocations(app, R)
  PROVE  CacheInv'
<1> USE DEF CacheInv
<1>1. R \subseteq appAllocs[app] /\ R \subseteq Allocation
  BY DEF Releasable, TypeOK
<1>2. { a \in R : a.node \in nodes /\ a \in nodeAllocs[a.node] } = R
  BY <1>1 DEF AppAccounting
<1>3. /\ op = Idle
      /\ app \in apps
      /\ appAllocs'      = [appAllocs EXCEPT ![app] = @ \ R]
      /\ appAllocated'   = [appAllocated EXCEPT ![app] = @ - TotalOf(R)]
      /\ nodeAllocs'     = [n \in Nodes |-> nodeAllocs[n] \ R]
      /\ nodeAllocated'  = [n \in Nodes |-> nodeAllocated[n] - TotalOf(nodeAllocs[n] \cap R)]
      /\ queueAllocated' = DecAllocatedResource(leafQueue[app], TotalOf(R))
      /\ allocations'    = allocations \ R
      /\ UNCHANGED <<partitionState, nodes, nodeTotal, total, apps, appState, leafQueue, op>>
  BY <1>2 DEF ReleaseAllocations
<1>4. /\ Weighable(appAllocs[app] \ R, SizeOf)
      /\ TotalOf(appAllocs[app] \ R) = appAllocated[app] - TotalOf(R)
      /\ appAllocated[app] - TotalOf(R) \in Nat
      /\ TotalOf(R) \in Nat
  <2> DEFINE S == appAllocs[app]
  <2>1. R \subseteq S /\ Weighable(S, SizeOf) /\ appAllocated[app] = TotalOf(S)
    BY <1>1 DEF SumsDefined, AppAccounting
  <2> HIDE DEF S
  <2>2. /\ Weighable(S \ R, SizeOf)
        /\ TotalOf(S \ R) = appAllocated[app] - TotalOf(R)
        /\ appAllocated[app] - TotalOf(R) \in Nat
        /\ TotalOf(R) \in Nat
    BY <2>1, TotalSplit
  <2> QED
    BY <2>2 DEF S
<1>5. /\ nodeAllocs' \in [Nodes -> SUBSET Allocation]
      /\ nodeAllocated' \in [Nodes -> Nat]
      /\ NodeAccounting'
      /\ \A n \in Nodes : Weighable(nodeAllocs'[n], SizeOf)
  BY <1>1, <1>3, NodesWithout
<1>6. queueAllocated' \in [Queues -> Nat]
  BY <1>3, <1>4, CounterTypes DEF TypeOK
<1>7. TypeOK'
  BY <1>3, <1>4, <1>5, <1>6 DEF TypeOK
<1>8. SumsDefined'
  BY <1>3, <1>4, <1>5 DEF SumsDefined, TypeOK
<1>9. AppAccounting'
  BY <1>1, <1>3, <1>4 DEF AppAccounting, TypeOK
<1>10. MapUnique' /\ NodesInMap' /\ OwnNode'
  BY <1>3 DEF MapUnique, NodesInMap, OwnNode, TypeOK
<1>11. OpConsistent'
  BY <1>3 DEF OpConsistent, Idle
<1> QED
  BY <1>5, <1>7, <1>8, <1>9, <1>10, <1>11

(* A list of reports is a sequence. *)
LEMMA ReportListType ==
  ASSUME NEW reports \in ReportLists
  PROVE  reports \in Seq(Report) /\ { reports[i].app : i \in DOMAIN reports } \subseteq Apps
<1>1. PICK k \in 0 .. MaxReports : reports \in [1 .. k -> Report]
  BY DEF ReportLists
<1>2. k \in Nat
  BY SizeAssumption
<1>3. reports \in Seq(Report)
  BY <1>1, <1>2
<1> QED
  BY <1>1, <1>3 DEF Report, Proposal

(* Registering a node adds its resources to the partition's total. *)
LEMMA AddNewNodeCache ==
  ASSUME CacheInv, NEW n \in Nodes, NEW capacity \in Capacities, NEW reports \in ReportLists,
         AddNewNode(n, capacity, reports)
  PROVE  CacheInv'
<1> USE DEF CacheInv
<1>1. /\ op = Idle
      /\ n \notin nodes
      /\ total'     = total + capacity
      /\ nodes'     = nodes \cup {n}
      /\ nodeTotal' = [nodeTotal EXCEPT ![n] = capacity]
      /\ op' = [Idle EXCEPT !.kind = "addNode", !.node = n, !.reports = reports,
                            !.apps = { reports[i].app : i \in DOMAIN reports }]
      /\ UNCHANGED <<partitionState, nodeAllocs, nodeAllocated, appVars, allocations,
                     queueAllocated>>
  BY DEF AddNewNode
<1>2. capacity \in Nat
  BY SizeAssumption
<1>3. op' \in Op /\ op'.kind = "addNode" /\ op'.node = n
  BY <1>1, ReportListType DEF Op, Idle
<1>4. TypeOK'
  BY <1>1, <1>2, <1>3 DEF TypeOK, appVars
<1>5. Weighable(nodes', nodeTotal') /\ total' = Weight(nodes', nodeTotal')
  <2> DEFINE w == nodeTotal'
  <2>1. w[n] = capacity /\ \A x \in nodes : nodeTotal[x] = w[x]
    BY <1>1 DEF TypeOK
  <2> HIDE DEF w
  <2>2. UnitsOf(nodes, nodeTotal) = UnitsOf(nodes, w) /\ Weight(nodes, nodeTotal) = Weight(nodes, w)
    BY <2>1, WeightCong
  <2>3. Weighable(nodes, w)
    BY <2>2 DEF SumsDefined, Weighable
  <2>4. /\ Weighable(nodes \cup {n}, w)
        /\ Weight(nodes \cup {n}, w) = Weight(nodes, w) + w[n]
    BY <1>1, <1>2, <2>1, <2>3, WeightAdd, Zenon
  <2>5. Weighable(nodes \cup {n}, w) /\ Weight(nodes \cup {n}, w) = total + capacity
    BY <2>1, <2>2, <2>4, Zenon DEF NodeAccounting
  <2> QED
    BY <1>1, <2>5, Zenon DEF w
<1>6. SumsDefined'
  BY <1>1, <1>5 DEF SumsDefined, appVars
<1>7. \A m \in Nodes : /\ nodeAllocated'[m] = TotalOf(nodeAllocs'[m])
                       /\ nodeAllocated'[m] <= nodeTotal'[m]
                       /\ m \notin nodes' => nodeAllocs'[m] = {} /\ nodeTotal'[m] = 0
  <2> TAKE m \in Nodes
  <2>1. nodeAllocated'[m] = TotalOf(nodeAllocs'[m])
    BY <1>1 DEF NodeAccounting
  <2>2. nodeAllocated[m] <= nodeTotal[m] /\ (m \notin nodes => nodeAllocs[m] = {} /\ nodeTotal[m] = 0)
    BY DEF NodeAccounting
  <2> QED
    BY <1>1, <1>2, <2>1, <2>2 DEF TypeOK
<1>8. NodeAccounting'
  BY <1>5, <1>7, Zenon DEF NodeAccounting, TotalOf
<1>9. AppAccounting'
  BY <1>1 DEF AppAccounting, appVars, TotalOf
<1>10. MapUnique' /\ NodesInMap' /\ OwnNode'
  BY <1>1 DEF MapUnique, NodesInMap, OwnNode
<1>11. OpConsistent'
  BY <1>1, <1>3 DEF OpConsistent
<1> QED
  BY <1>4, <1>6, <1>8, <1>9, <1>10, <1>11

(* The steps of addNewNode and RemoveNode that only move the position      *)
(* inside the method, and those that only change application states.       *)
LEMMA QuietCache ==
  ASSUME CacheInv, TypeOK', OpConsistent',
         UNCHANGED <<nodeVars, apps, appAllocs, appAllocated, allocations>>
  PROVE  CacheInv'
<1> USE DEF CacheInv
<1>1. SumsDefined' /\ NodeAccounting'
  BY DEF SumsDefined, NodeAccounting, nodeVars, TotalOf
<1>2. AppAccounting'
  BY DEF AppAccounting, nodeVars, TotalOf
<1>3. MapUnique' /\ NodesInMap' /\ OwnNode'
  BY DEF MapUnique, NodesInMap, OwnNode, nodeVars
<1> QED
  BY <1>1, <1>2, <1>3

(* The rollback of a rejected node and RemoveNode start the same loop. *)
LEMMA StartRemovalCache ==
  ASSUME CacheInv, NEW n \in nodes,
         op' = [Idle EXCEPT !.kind = "removeNode", !.node = n, !.allocs = nodeAllocs[n]],
         UNCHANGED <<partitionState, nodeVars, appVars, allocations, queueAllocated>>
  PROVE  CacheInv'
<1> USE DEF CacheInv
<1>1. n \in Nodes /\ nodeAllocs[n] \in SUBSET Allocation
  BY DEF TypeOK
<1>2. op' \in Op /\ op'.kind = "removeNode" /\ op'.node = n /\ op'.allocs = nodeAllocs[n]
  <2>1. op' = [kind |-> "removeNode", node |-> n, reports |-> <<>>, apps |-> {},
               allocs |-> nodeAllocs[n]]
    BY DEF Idle
  <2>2. <<>> \in Seq(Report) /\ {} \in SUBSET Apps
    OBVIOUS
  <2>3. [kind |-> "removeNode", node |-> n, reports |-> <<>>, apps |-> {},
         allocs |-> nodeAllocs[n]] \in Op
    BY <1>1, <2>2, Zenon DEF Op
  <2> QED
    BY <2>1, <2>3, Zenon
<1>3. TypeOK'
  BY <1>2 DEF TypeOK, nodeVars, appVars
<1>4. OpConsistent'
  BY <1>2 DEF OpConsistent, AppAccounting, nodeVars, appVars
<1> QED
  BY <1>3, <1>4, QuietCache DEF appVars

(* One iteration of the loop of removeNodeInternal. *)
LEMMA RemoveNodeAllocationCache ==
  ASSUME CacheInv, NEW a \in op.allocs, RemoveNodeAllocation(a)
  PROVE  CacheInv'
<1> USE DEF CacheInv
<1> DEFINE known == a.app \in apps /\ a \in appAllocs[a.app]
<1>1. /\ op.kind = "removeNode"
      /\ op' = [op EXCEPT !.allocs = @ \ {a}]
      /\ appAllocs'    = [appAllocs EXCEPT ![a.app] = IF known THEN @ \ {a} ELSE @]
      /\ appAllocated' = [appAllocated EXCEPT ![a.app] = IF known THEN @ - a.res ELSE @]
      /\ queueAllocated' = IF known THEN DecAllocatedResource(leafQueue[a.app], a.res)
                                    ELSE queueAllocated
      /\ UNCHANGED <<partitionState, nodeVars, apps, appState, leafQueue, allocations>>
  BY DEF RemoveNodeAllocation
<1>2. a \in Allocation /\ a.app \in Apps /\ a.res \in Nat
  BY SizeAssumption DEF TypeOK, Op, Allocation
<1>3. /\ op' \in Op /\ op'.kind = "removeNode" /\ op'.node = op.node
      /\ op'.allocs = op.allocs \ {a}
  BY <1>1 DEF TypeOK, Op
<1>4. queueAllocated' \in [Queues -> Nat]
  <2>1. DecAllocatedResource(leafQueue[a.app], a.res) \in [Queues -> Nat]
    BY <1>2, CounterTypes DEF TypeOK
  <2> QED
    BY <1>1, <2>1 DEF TypeOK
<1>5. CASE known
  <2>1. /\ appAllocs'    = [appAllocs EXCEPT ![a.app] = @ \ {a}]
        /\ appAllocated' = [appAllocated EXCEPT ![a.app] = @ - a.res]
    BY <1>1, <1>5
  <2>2. /\ Weighable(appAllocs[a.app] \ {a}, SizeOf)
        /\ TotalOf(appAllocs[a.app] \ {a}) = TotalOf(appAllocs[a.app]) - a.res
        /\ a.res <= TotalOf(appAllocs[a.app])
    <3>1. Weighable(appAllocs[a.app], SizeOf)
      BY <1>2 DEF SumsDefined
    <3> QED
      BY <1>2, <1>5, <3>1, TotalRemove, Zenon
  <2>3. appAllocated[a.app] - a.res \in Nat
    BY <1>2, <2>2 DEF TypeOK, AppAccounting
  <2>4. TypeOK'
    BY <1>1, <1>2, <1>3, <1>4, <2>1, <2>3 DEF TypeOK, nodeVars
  <2>5. SumsDefined' /\ NodeAccounting'
    BY <1>1, <1>2, <2>1, <2>2 DEF SumsDefined, NodeAccounting, nodeVars, TypeOK, TotalOf
  <2>6. AppAccounting'
    BY <1>1, <1>2, <2>1, <2>2 DEF AppAccounting, nodeVars, TypeOK
  <2>7. MapUnique' /\ NodesInMap' /\ OwnNode'
    BY <1>1 DEF MapUnique, NodesInMap, OwnNode, nodeVars
  <2>8. OpConsistent'
    BY <1>1, <1>2, <1>3, <2>1 DEF OpConsistent, nodeVars, TypeOK, AppAccounting
  <2> QED
    BY <2>4, <2>5, <2>6, <2>7, <2>8
<1>6. CASE ~known
  <2>1. appAllocs' = appAllocs /\ appAllocated' = appAllocated
    BY <1>1, <1>2, <1>6 DEF TypeOK
  <2>2. TypeOK'
    BY <1>1, <1>3, <1>4, <2>1 DEF TypeOK, nodeVars
  <2>3. OpConsistent'
    BY <1>1, <1>2, <1>3, <1>6, <2>1 DEF OpConsistent, nodeVars, AppAccounting
  <2> QED
    BY <1>1, <2>1, <2>2, <2>3, QuietCache
<1> QED
  BY <1>5, <1>6

(* The end of removeNodeInternal: the loop has covered everything that     *)
(* applications held on the node, so the node object can go.               *)
LEMMA FinishRemoveNodeCache ==
  ASSUME CacheInv, FinishRemoveNode
  PROVE  CacheInv'
<1> USE DEF CacheInv
<1> DEFINE n == op.node
<1>1. /\ op.kind = "removeNode"
      /\ op.allocs = {}
      /\ total'         = total - nodeTotal[n]
      /\ nodes'         = nodes \ {n}
      /\ nodeTotal'     = [nodeTotal EXCEPT ![n] = 0]
      /\ nodeAllocs'    = [nodeAllocs EXCEPT ![n] = {}]
      /\ nodeAllocated' = [nodeAllocated EXCEPT ![n] = 0]
      /\ op' = Idle
      /\ UNCHANGED <<partitionState, appVars, allocations, queueAllocated>>
  BY DEF FinishRemoveNode
<1>2. n \in nodes /\ n \in Nodes /\ nodeTotal[n] \in Nat
  BY <1>1 DEF OpConsistent, TypeOK
<1>3. \A b \in Apps : \A a \in appAllocs[b] : a.node # n
  BY <1>1 DEF OpConsistent
<1> HIDE DEF n
<1>4. /\ Weighable(nodes', nodeTotal')
      /\ total' = Weight(nodes', nodeTotal')
      /\ nodeTotal[n] <= total
  <2> DEFINE S == nodes \ {n}
  <2>1. /\ Weighable(nodes \ {n}, nodeTotal)
        /\ Weight(nodes \ {n}, nodeTotal) = Weight(nodes, nodeTotal) - nodeTotal[n]
        /\ nodeTotal[n] <= Weight(nodes, nodeTotal)
    BY <1>2, WeightRemove, Zenon DEF SumsDefined
  <2>2. \A x \in S : nodeTotal[x] = nodeTotal'[x]
    BY <1>1 DEF TypeOK
  <2>3. /\ Weighable(S, nodeTotal) /\ Weight(S, nodeTotal) = total - nodeTotal[n]
        /\ nodeTotal[n] <= total
    BY <2>1, Zenon DEF NodeAccounting
  <2> HIDE DEF S
  <2>4. UnitsOf(S, nodeTotal) = UnitsOf(S, nodeTotal') /\ Weight(S, nodeTotal) = Weight(S, nodeTotal')
    BY <2>2, WeightCong
  <2>5. Weighable(S, nodeTotal')
    BY <2>3, <2>4 DEF Weighable
  <2>6. nodes' = S
    BY <1>1 DEF S
  <2> QED
    BY <1>1, <2>3, <2>4, <2>5, <2>6, Zenon
<1>5. TypeOK'
  BY <1>1, <1>2, <1>4 DEF TypeOK, appVars, Op, Idle
<1>6. SumsDefined'
  BY <1>1, <1>4, TotalEmpty DEF SumsDefined, appVars, TypeOK
<1>7. \A m \in Nodes : /\ nodeAllocated'[m] = TotalOf(nodeAllocs'[m])
                       /\ nodeAllocated'[m] <= nodeTotal'[m]
                       /\ m \notin nodes' => nodeAllocs'[m] = {} /\ nodeTotal'[m] = 0
  BY <1>1, TotalEmpty DEF TypeOK, NodeAccounting
<1>8. NodeAccounting'
  BY <1>4, <1>7, Zenon DEF NodeAccounting, TotalOf
<1>9. AppAccounting'
  BY <1>1, <1>3 DEF AppAccounting, appVars, TotalOf, TypeOK
<1>10. MapUnique' /\ NodesInMap' /\ OwnNode'
  BY <1>1 DEF MapUnique, NodesInMap, OwnNode, TypeOK
<1>11. OpConsistent'
  BY <1>1 DEF OpConsistent, Idle
<1> QED
  BY <1>5, <1>6, <1>8, <1>9, <1>10, <1>11

(* A new application starts with nothing. *)
LEMMA AddNewApplicationCache ==
  ASSUME CacheInv, NEW app \in Apps, NEW q \in QueueNames, AddNewApplication(app, q)
  PROVE  CacheInv'
<1> USE DEF CacheInv
<1>1. /\ apps'      = apps \cup {app}
      /\ appState'  = [appState EXCEPT ![app] = "New"]
      /\ leafQueue' = [leafQueue EXCEPT ![app] = q]
      /\ UNCHANGED <<partitionState, nodeVars, appAllocs, appAllocated, allocations,
                     queueAllocated, op>>
  BY DEF AddNewApplication
<1>2. TypeOK'
  BY <1>1 DEF TypeOK, AppStates, nodeVars
<1>3. SumsDefined' /\ NodeAccounting'
  BY <1>1 DEF SumsDefined, NodeAccounting, nodeVars, TotalOf
<1>4. AppAccounting'
  BY <1>1 DEF AppAccounting, nodeVars, TotalOf
<1>5. MapUnique' /\ NodesInMap' /\ OwnNode' /\ OpConsistent'
  BY <1>1 DEF MapUnique, NodesInMap, OwnNode, OpConsistent, nodeVars
<1> QED
  BY <1>2, <1>3, <1>4, <1>5

(* Steps that change the state of the partition or of applications.        *)
LEMMA StateChangeCache ==
  ASSUME CacheInv,
         \/ FinishAddNode
         \/ \E app \in Apps, q \in Leaves : AcceptApplication(app, q)
         \/ \E app \in Apps : RejectApplication(app) \/ RunApplication(app) \/ KillApplication(app)
         \/ MarkPartitionForRemoval
         \/ \E event \in {"Start", "Stop"} : HandlePartitionEvent(event)
         \/ UNCHANGED vars
  PROVE  CacheInv'
<1> USE DEF CacheInv
<1>1. UNCHANGED <<nodeVars, apps, appAllocs, appAllocated, allocations, queueAllocated>>
  BY DEF FinishAddNode, AcceptApplication, RejectApplication, RunApplication, KillApplication,
         MarkPartitionForRemoval, HandlePartitionEvent, vars, appVars
<1>2. partitionState' \in PartitionStates
  BY DEF FinishAddNode, AcceptApplication, RejectApplication, RunApplication, KillApplication,
         MarkPartitionForRemoval, HandlePartitionEvent, vars, TypeOK, PartitionStates
<1>3. appState' \in [Apps -> AppStates] /\ leafQueue' \in [Apps -> QueueNames]
  BY QueueAssumption
     DEF FinishAddNode, AcceptApplication, RejectApplication, RunApplication, KillApplication,
         MarkPartitionForRemoval, HandlePartitionEvent, vars, appVars, TypeOK, AppStates, QueueNames
<1>4. op' = op \/ op' = Idle
  BY DEF FinishAddNode, AcceptApplication, RejectApplication, RunApplication, KillApplication,
         MarkPartitionForRemoval, HandlePartitionEvent, vars
<1>5. Idle \in Op /\ Idle.kind = "idle"
  BY DEF Idle, Op
<1>6. TypeOK'
  BY <1>1, <1>2, <1>3, <1>4, <1>5 DEF TypeOK, nodeVars
<1>7. OpConsistent'
  BY <1>1, <1>4, <1>5 DEF OpConsistent, nodeVars
<1> QED
  BY <1>1, <1>6, <1>7, QuietCache

(* Dropping an application together with a set of its allocations. *)
LEMMA DropApplicationCache ==
  ASSUME CacheInv, NEW app \in Apps, DropApplication(app), op = Idle, op' = op,
         NEW R, R = appAllocs[app] \/ R = {},
         nodeAllocs'    = [n \in Nodes |-> nodeAllocs[n] \ R],
         nodeAllocated' = [n \in Nodes |-> nodeAllocated[n] - TotalOf(nodeAllocs[n] \cap R)],
         allocations'   = allocations \ R,
         queueAllocated' \in [Queues -> Nat],
         UNCHANGED <<partitionState, nodes, nodeTotal, total>>
  PROVE  CacheInv'
<1> USE DEF CacheInv
<1>1. R \in SUBSET Allocation
  BY DEF TypeOK
<1>2. /\ nodeAllocs' \in [Nodes -> SUBSET Allocation]
      /\ nodeAllocated' \in [Nodes -> Nat]
      /\ NodeAccounting'
      /\ \A n \in Nodes : Weighable(nodeAllocs'[n], SizeOf)
  BY <1>1, NodesWithout
<1>3. TypeOK'
  BY <1>2, QueueAssumption DEF TypeOK, DropApplication, AppStates, QueueNames
<1>4. SumsDefined'
  BY <1>2, TotalEmpty DEF SumsDefined, DropApplication, TypeOK
<1>5. \A b \in Apps : \A a \in appAllocs'[b] : b # app /\ a \in appAllocs[b] /\ a \notin R
  BY DEF DropApplication, TypeOK, AppAccounting
<1>6. AppAccounting'
  <2> SUFFICES ASSUME NEW b \in Apps
               PROVE  /\ appAllocated'[b] = TotalOf(appAllocs'[b])
                      /\ b \notin apps' => appAllocs'[b] = {}
                      /\ \A a \in appAllocs'[b] : /\ a.app = b
                                                  /\ a.node \in nodes'
                                                  /\ a \in nodeAllocs'[a.node]
                                                  /\ a \in allocations'
    BY Zenon DEF AppAccounting, TotalOf
  <2>1. appAllocated'[b] = TotalOf(appAllocs'[b]) /\ (b \notin apps' => appAllocs'[b] = {})
    BY TotalEmpty DEF DropApplication, AppAccounting, TypeOK
  <2> QED
    BY <1>5, <2>1 DEF AppAccounting, TypeOK
<1>7. MapUnique' /\ NodesInMap' /\ OwnNode'
  BY DEF MapUnique, NodesInMap, OwnNode, TypeOK
<1>8. OpConsistent'
  BY DEF OpConsistent, Idle
<1> QED
  BY <1>2, <1>3, <1>4, <1>6, <1>7, <1>8

(* Dropping the application alone leaves its allocations where they are. *)
LEMMA DropOnlyCache ==
  ASSUME CacheInv, NEW app \in Apps, op = Idle, DropApplication(app),
         UNCHANGED <<partitionState, nodeVars, allocations, queueAllocated, op>>
  PROVE  CacheInv'
<1> USE DEF CacheInv
<1>1. /\ op = Idle /\ DropApplication(app)
      /\ UNCHANGED <<partitionState, nodeVars, allocations, queueAllocated, op>>
  OBVIOUS
<1> DEFINE R == {}
<1>2. nodeAllocs' = [n \in Nodes |-> nodeAllocs[n] \ R]
  BY <1>1 DEF nodeVars, TypeOK
<1>3. nodeAllocated' = [n \in Nodes |-> nodeAllocated[n] - TotalOf(nodeAllocs[n] \cap R)]
  <2>1. ASSUME NEW n \in Nodes
        PROVE  nodeAllocated[n] - TotalOf(nodeAllocs[n] \cap R) = nodeAllocated[n]
    <3>1. nodeAllocs[n] \cap R = {}
      OBVIOUS
    <3>2. TotalOf(nodeAllocs[n] \cap R) = 0
      BY <3>1, TotalEmpty, Zenon
    <3> QED
      BY <3>2 DEF TypeOK
  <2> QED
    BY <1>1, <2>1 DEF nodeVars, TypeOK
<1>4. allocations' = allocations \ R /\ queueAllocated' \in [Queues -> Nat]
  BY <1>1 DEF TypeOK
<1>5. R = appAllocs[app] \/ R = {}
  OBVIOUS
<1>6. UNCHANGED <<partitionState, nodes, nodeTotal, total>> /\ op' = op
  BY <1>1 DEF nodeVars
<1> HIDE DEF R
<1> QED
  BY <1>1, <1>2, <1>3, <1>4, <1>5, <1>6, DropApplicationCache

(* RemoveRejectedApp is that. *)
LEMMA RemoveRejectedAppCache ==
  ASSUME CacheInv, NEW app \in Apps, RemoveRejectedApp(app)
  PROVE  CacheInv'
BY DropOnlyCache DEF RemoveRejectedApp

(* RemoveApplication finds everything the application holds in the         *)
(* partition wide map and on its node.                                     *)
LEMMA RemoveApplicationCache ==
  ASSUME CacheInv, NEW app \in Apps, RemoveApplication(app)
  PROVE  CacheInv'
<1> USE DEF CacheInv
<1>1. appAllocs[app] \cap allocations = appAllocs[app]
  BY DEF AppAccounting
<1> DEFINE R == appAllocs[app]
<1>2. /\ op = Idle
      /\ nodeAllocs'    = [n \in Nodes |-> nodeAllocs[n] \ R]
      /\ nodeAllocated' = [n \in Nodes |-> nodeAllocated[n] - TotalOf(nodeAllocs[n] \cap R)]
      /\ queueAllocated' = IF R # {} THEN DecAllocatedResource(leafQueue[app], appAllocated[app])
                                     ELSE queueAllocated
      /\ allocations'   = allocations \ R
      /\ DropApplication(app)
      /\ UNCHANGED <<partitionState, nodes, nodeTotal, total, op>>
  BY <1>1 DEF RemoveApplication
<1>3. DecAllocatedResource(leafQueue[app], appAllocated[app]) \in [Queues -> Nat]
  BY CounterTypes DEF TypeOK
<1>4. queueAllocated' \in [Queues -> Nat]
  BY <1>2, <1>3 DEF TypeOK
<1> HIDE DEF R
<1>5. R = appAllocs[app] \/ R = {}
  BY DEF R
<1> QED
  BY <1>2, <1>4, <1>5, DropApplicationCache

(* CacheInv is inductive: every method of the partition keeps it, whatever *)
(* the callers send.                                                       *)
LEMMA CacheStep ==
  ASSUME CacheInv, [Next]_vars
  PROVE  CacheInv'
<1> USE DEF CacheInv
<1>1. ASSUME NEW p \in Proposal, AddNewAllocation(p)
      PROVE  CacheInv'
  <2>1. op = Idle /\ op' = op /\ CanAllocate(p, FALSE) /\ Allocate(p)
    BY <1>1 DEF AddNewAllocation
  <2>2. op.kind # "removeNode" /\ op'.kind = op.kind /\ op'.node = op.node /\ op' \in Op
    BY <2>1 DEF Idle, TypeOK
  <2> QED
    BY <2>1, <2>2, AllocateCache
<1>2. ASSUME NEW app \in Apps, NEW R \in Releasable(app), ReleaseAllocations(app, R)
      PROVE  CacheInv'
  BY <1>2, ReleaseCache
<1>3. ASSUME NEW n \in Nodes, NEW c \in Capacities, NEW reports \in ReportLists,
             AddNewNode(n, c, reports)
      PROVE  CacheInv'
  BY <1>3, AddNewNodeCache
<1>4. ASSUME AddReportedAllocation
      PROVE  CacheInv'
  <2> DEFINE r == Head(op.reports)
             p == ReportedProposal(r)
  <2>1. /\ op.kind = "addNode" /\ op.reports # <<>>
        /\ CanAllocate(p, TRUE) /\ Allocate(p)
        /\ op' = [op EXCEPT !.reports = Tail(@)]
    BY <1>4 DEF AddReportedAllocation
  <2>2. r \in Report /\ op.node \in Nodes /\ Tail(op.reports) \in Seq(Report)
    BY <2>1 DEF TypeOK, Op, OpConsistent
  <2>3. p \in Proposal
    BY <2>2 DEF ReportedProposal, Proposal, Report
  <2>4. op' \in Op /\ op.kind # "removeNode" /\ op'.kind = op.kind /\ op'.node = op.node
    BY <2>1, <2>2 DEF TypeOK, Op
  <2> HIDE DEF p
  <2> QED
    BY <2>1, <2>3, <2>4, AllocateCache
<1>5. ASSUME RejectReportedAllocation
      PROVE  CacheInv'
  <2>1. op.node \in nodes
    BY <1>5 DEF RejectReportedAllocation, OpConsistent
  <2> QED
    BY <1>5, <2>1, StartRemovalCache DEF RejectReportedAllocation
<1>6. ASSUME NEW n \in Nodes, RemoveNode(n)
      PROVE  CacheInv'
  BY <1>6, StartRemovalCache DEF RemoveNode
<1>7. ASSUME NEW a \in op.allocs, RemoveNodeAllocation(a)
      PROVE  CacheInv'
  BY <1>7, RemoveNodeAllocationCache
<1>8. ASSUME FinishRemoveNode
      PROVE  CacheInv'
  BY <1>8, FinishRemoveNodeCache
<1>9. ASSUME NEW app \in Apps, NEW q \in QueueNames, AddNewApplication(app, q)
      PROVE  CacheInv'
  BY <1>9, AddNewApplicationCache
<1>10. ASSUME NEW app \in Apps, RemoveRejectedApp(app)
       PROVE  CacheInv'
  BY <1>10, RemoveRejectedAppCache
<1>11. ASSUME NEW app \in Apps, RemoveApplication(app)
       PROVE  CacheInv'
  BY <1>11, RemoveApplicationCache
<1>12. ASSUME \/ FinishAddNode
              \/ \E app \in Apps, q \in Leaves : AcceptApplication(app, q)
              \/ \E app \in Apps : RejectApplication(app) \/ RunApplication(app) \/ KillApplication(app)
              \/ MarkPartitionForRemoval
              \/ \E event \in {"Start", "Stop"} : HandlePartitionEvent(event)
              \/ UNCHANGED vars
       PROVE  CacheInv'
  BY <1>12, StateChangeCache
<1> HIDE DEF CacheInv
<1> QED
  BY <1>1, <1>2, <1>3, <1>4, <1>5, <1>6, <1>7, <1>8, <1>9, <1>10, <1>11, <1>12, Zenon DEF Next

(* Whatever the callers send, the accounts of a partition stay in step.    *)
THEOREM CacheInvariant == Spec => []CacheInv
BY InitCache, CacheStep, PTL DEF Spec

(* No counter of the cache ever goes below zero. *)
THEOREM CacheTypes == Spec => []TypeOK
<1>1. CacheInv => TypeOK
  BY DEF CacheInv
<1> QED
  BY <1>1, CacheInvariant, PTL

(* The counter of every node is the sum of what the node holds, within     *)
(* what it has.                                                            *)
THEOREM NodesAccounted == Spec => []NodeAccounting
<1>1. CacheInv => NodeAccounting
  BY DEF CacheInv
<1> QED
  BY <1>1, CacheInvariant, PTL

(* What an application holds is on its node and in the partition's map. *)
THEOREM AppsAccounted == Spec => []AppAccounting
<1>1. CacheInv => AppAccounting
  BY DEF CacheInv
<1> QED
  BY <1>1, CacheInvariant, PTL

(* No two allocations that the partition, a node or an application knows   *)
(* share a uuid, although GetNewAllocationUuid only looks at the map of    *)
(* the partition: nothing leaves that map before its node and application. *)
THEOREM UuidsUnique == Spec => []UuidUnique
<1>1. CacheInv => UuidUnique
  <2> SUFFICES ASSUME CacheInv PROVE UuidUnique
    OBVIOUS
  <2>1. UNION { nodeAllocs[n] : n \in Nodes } \subseteq allocations
    BY DEF CacheInv, NodesInMap
  <2>2. UNION { appAllocs[b] : b \in Apps } \subseteq allocations
    BY DEF CacheInv, AppAccounting
  <2>3. Referenced \subseteq allocations
    BY <2>1, <2>2 DEF Referenced
  <2>4. MapUnique
    BY DEF CacheInv
  <2> QED
    BY <2>3, <2>4 DEF MapUnique, UuidUnique
<1> QED
  BY <1>1, CacheInvariant, PTL

-----------------------------------------------------------------------------
(* What the partition guarantees when its callers keep their side of the   *)
(* contract: every queue's counter is exactly what is charged to it, so    *)
(* that a release never fails.  ContractInv is the inductive invariant; it *)
(* is argued on Live, the set of allocations that applications hold.       *)

(* The part of ContractInv about the queues. *)
QueuesCharged ==
  \A q \in Queues : /\ Weighable(ChargedTo(q), SizeOf)
                    /\ queueAllocated[q] = TotalOf(ChargedTo(q))

(* Live is what some application holds, and all of it are allocations. *)
LEMMA LiveType ==
  ASSUME TypeOK
  PROVE  Live \subseteq Allocation /\ \A b \in Apps : appAllocs[b] \subseteq Live
BY DEF TypeOK, Live

(* One more live allocation is charged to every queue on its path. *)
LEMMA ChargeMore ==
  ASSUME TypeOK, QueuesCharged, NEW a \in Allocation, a \notin Live,
         Live' = Live \cup {a},
         queueAllocated' = IncAllocatedResource(a.queue, a.res)
  PROVE  QueuesCharged'
<1> SUFFICES ASSUME NEW q \in Queues
             PROVE  /\ Weighable(ChargedTo(q)', SizeOf)
                    /\ queueAllocated'[q] = TotalOf(ChargedTo(q)')
  BY Zenon DEF QueuesCharged, TotalOf
<1> DEFINE S == ChargedTo(q)
<1>1. Weighable(S, SizeOf) /\ queueAllocated[q] = TotalOf(S) /\ a \notin S
  BY DEF QueuesCharged, ChargedTo
<1>2. CASE q \in PathTo[a.queue]
  <2>1. ChargedTo(q)' = S \cup {a}
    BY <1>2 DEF ChargedTo
  <2>2. queueAllocated'[q] = queueAllocated[q] + a.res
    BY <1>2 DEF IncAllocatedResource
  <2> HIDE DEF S
  <2>3. Weighable(S \cup {a}, SizeOf) /\ TotalOf(S \cup {a}) = TotalOf(S) + a.res
    BY <1>1, TotalAdd, Zenon
  <2> QED
    BY <1>1, <2>1, <2>2, <2>3, Zenon
<1>3. CASE q \notin PathTo[a.queue]
  <2>1. ChargedTo(q)' = S
    BY <1>3 DEF ChargedTo
  <2>2. queueAllocated'[q] = queueAllocated[q]
    BY <1>3 DEF IncAllocatedResource
  <2> QED
    BY <1>1, <2>1, <2>2, Zenon
<1> QED
  BY <1>2, <1>3

(* Giving back live allocations of one leaf queue succeeds on every level, *)
(* and leaves exactly the rest charged.                                    *)
LEMMA ChargeLess ==
  ASSUME TypeOK, QueuesCharged, NEW R, R \subseteq Live, NEW leaf \in Queues,
         \A a \in R : a.queue = leaf,
         Live' = Live \ R,
         queueAllocated' = DecAllocatedResource(leaf, TotalOf(R))
  PROVE  QueuesCharged' /\ CanDec(leaf, TotalOf(R))
<1>1. ASSUME NEW q \in Queues, q \in PathTo[leaf]
      PROVE  /\ Weighable(ChargedTo(q) \ R, SizeOf)
             /\ TotalOf(ChargedTo(q) \ R) = queueAllocated[q] - TotalOf(R)
             /\ TotalOf(R) <= queueAllocated[q]
             /\ ChargedTo(q)' = ChargedTo(q) \ R
  <2> DEFINE S == ChargedTo(q)
  <2>1. /\ R \subseteq S /\ Weighable(S, SizeOf) /\ queueAllocated[q] = TotalOf(S)
        /\ ChargedTo(q)' = S \ R
    BY <1>1 DEF QueuesCharged, ChargedTo
  <2> HIDE DEF S
  <2>2. /\ Weighable(S \ R, SizeOf)
        /\ TotalOf(S \ R) = TotalOf(S) - TotalOf(R)
        /\ TotalOf(R) <= TotalOf(S)
    BY <2>1, TotalSplit
  <2> QED
    BY <2>1, <2>2, Zenon DEF S
<1>2. CanDec(leaf, TotalOf(R))
  BY <1>1, QueueAssumption DEF CanDec
<1>3. ASSUME NEW q \in Queues
      PROVE  /\ Weighable(ChargedTo(q)', SizeOf)
             /\ queueAllocated'[q] = TotalOf(ChargedTo(q)')
  <2>1. CASE q \in PathTo[leaf]
    <3>1. queueAllocated'[q] = queueAllocated[q] - TotalOf(R)
      BY <1>2, <2>1, QueueAssumption DEF DecAllocatedResource
    <3> QED
      BY <1>1, <2>1, <3>1, Zenon
  <2>2. CASE q \notin PathTo[leaf]
    <3>1. queueAllocated'[q] = queueAllocated[q]
      BY <2>2 DEF DecAllocatedResource
    <3>2. ChargedTo(q)' = ChargedTo(q)
      BY <2>2 DEF ChargedTo
    <3>3. Weighable(ChargedTo(q), SizeOf) /\ queueAllocated[q] = TotalOf(ChargedTo(q))
      BY DEF QueuesCharged
    <3> QED
      BY <3>1, <3>2, <3>3, Zenon
  <2> QED
    BY <2>1, <2>2
<1>4. QueuesCharged'
  BY <1>3, Zenon DEF QueuesCharged, TotalOf
<1> QED
  BY <1>2, <1>4

(* Nothing is charged or given back when no allocation comes or goes. *)
LEMMA ChargeSame ==
  ASSUME QueuesCharged, Live' = Live, queueAllocated' = queueAllocated
  PROVE  QueuesCharged'
<1>1. ASSUME NEW q \in Queues
      PROVE  ChargedTo(q)' = ChargedTo(q)
  BY DEF ChargedTo
<1>2. ASSUME NEW q \in Queues
      PROVE  /\ Weighable(ChargedTo(q)', SizeOf)
             /\ queueAllocated'[q] = TotalOf(ChargedTo(q)')
  <2>1. Weighable(ChargedTo(q), SizeOf) /\ queueAllocated[q] = TotalOf(ChargedTo(q))
    BY DEF QueuesCharged
  <2>2. queueAllocated'[q] = queueAllocated[q]
    OBVIOUS
  <2> QED
    BY <1>1, <2>1, <2>2, Zenon
<1> QED
  BY <1>2, Zenon DEF QueuesCharged, TotalOf

(* ContractInv for callers that keep the contract. *)
Contract == CacheInv /\ NoOrphans /\ ChargedToLeafQueue /\ QueuesCharged

(* For such callers it is the invariant of the contract. *)
LEMMA ContractIsContractInv ==
  ASSUME Disciplined
  PROVE  Contract <=> ContractInv
BY DEF Contract, ContractInv, QueuesCharged, QueueAccounting

(* A proposal or a report that keeps the contract, once it is added. *)
LEMMA AllocateContract ==
  ASSUME Disciplined, Contract, NEW p \in Proposal, NEW nodeReported \in BOOLEAN,
         CanAllocate(p, nodeReported), Allocate(p),
         appState[p.app] \notin {"New", "Rejected"}, p.queue = leafQueue[p.app],
         op.kind # "removeNode", op'.kind = op.kind,
         \A i \in DOMAIN op'.reports : \E j \in DOMAIN op.reports : op'.reports[i] = op.reports[j]
  PROVE  NoOrphans' /\ ChargedToLeafQueue' /\ QueuesCharged'
<1> USE DEF Contract, CacheInv
<1>1. PICK u \in Uuids :
        LET a == AllocationFor(u, p) IN
        /\ FreshUuid(u)
        /\ queueAllocated' = IncAllocatedResource(a.queue, a.res)
        /\ nodeAllocs'     = [nodeAllocs EXCEPT ![a.node] = @ \cup {a}]
        /\ appAllocs'      = [appAllocs EXCEPT ![a.app] = @ \cup {a}]
        /\ UNCHANGED <<nodes, apps, appState, leafQueue>>
  BY DEF Allocate
<1> DEFINE a == AllocationFor(u, p)
<1>2. /\ a \in Allocation /\ a.node \in Nodes /\ a.app \in Apps /\ a.uuid = u
      /\ appState[a.app] \notin {"New", "Rejected"} /\ a.queue = leafQueue[a.app]
  BY DEF AllocationFor, Proposal, CanAllocate, Allocation, TypeOK
<1>3. /\ FreshUuid(u)
      /\ queueAllocated' = IncAllocatedResource(a.queue, a.res)
      /\ nodeAllocs'     = [nodeAllocs EXCEPT ![a.node] = @ \cup {a}]
      /\ appAllocs'      = [appAllocs EXCEPT ![a.app] = @ \cup {a}]
      /\ UNCHANGED <<nodes, apps, appState, leafQueue>>
  BY <1>1
<1> HIDE DEF a
<1>4. a \notin Live
  BY <1>2, <1>3 DEF FreshUuid, NodesInMap, AppAccounting, Live
<1>5. Live' = Live \cup {a}
  BY <1>2, <1>3 DEF Live, TypeOK
<1>6. QueuesCharged'
  BY <1>2, <1>3, <1>4, <1>5, ChargeMore
<1>7. NoOrphans'
  BY <1>2, <1>3, <1>5 DEF NoOrphans, InRemoval, TypeOK
<1>8. ChargedToLeafQueue'
  BY <1>2, <1>3 DEF ChargedToLeafQueue, TypeOK
<1> QED
  BY <1>6, <1>7, <1>8

(* An allocation an application holds was charged to a queue that exists,  *)
(* the one the application runs in.                                        *)
LEMMA HeldQueue ==
  ASSUME Disciplined, Contract, NEW app \in Apps, NEW R, R \subseteq appAllocs[app], R # {}
  PROVE  /\ leafQueue[app] \in Queues
         /\ \A a \in R : a.queue = leafQueue[app]
         /\ R \subseteq Live /\ R \subseteq Allocation
<1>1. PICK a \in R : TRUE
  OBVIOUS
<1>2. a \in Allocation /\ a.queue = leafQueue[app] /\ a.queue \in Queues
  BY QueueAssumption DEF Contract, CacheInv, TypeOK, ChargedToLeafQueue, Allocation
<1> QED
  BY <1>2, LiveType DEF Contract, CacheInv, TypeOK, ChargedToLeafQueue

(* No allocation is held by two applications. *)
LEMMA LiveWithout ==
  ASSUME Contract, NEW app \in Apps, NEW R, R \subseteq appAllocs[app],
         appAllocs' = [appAllocs EXCEPT ![app] = @ \ R]
  PROVE  Live' = Live \ R
<1>1. ASSUME NEW b \in Apps, NEW a \in appAllocs[b], a \in R
      PROVE  b = app
  BY <1>1 DEF Contract, CacheInv, AppAccounting
<1> QED
  BY <1>1 DEF Live, Contract, CacheInv, TypeOK

(* A release of some or all allocations of an application. *)
LEMMA ReleaseContract ==
  ASSUME Disciplined, Contract, NEW app \in Apps, NEW R \in Releasable(app),
         ReleaseAllocations(app, R)
  PROVE  NoOrphans' /\ ChargedToLeafQueue' /\ QueuesCharged'
<1> USE DEF Contract, CacheInv
<1>1. R \subseteq appAllocs[app]
  BY DEF Releasable, TypeOK
<1>2. { a \in R : a.node \in nodes /\ a \in nodeAllocs[a.node] } = R
  BY <1>1 DEF AppAccounting
<1>3. /\ op = Idle /\ R # {}
      /\ appAllocs'      = [appAllocs EXCEPT ![app] = @ \ R]
      /\ nodeAllocs'     = [n \in Nodes |-> nodeAllocs[n] \ R]
      /\ queueAllocated' = DecAllocatedResource(leafQueue[app], TotalOf(R))
      /\ UNCHANGED <<nodes, apps, appState, leafQueue, op>>
  BY <1>2 DEF ReleaseAllocations
<1>4. Live' = Live \ R
  BY <1>1, <1>3, LiveWithout
<1>5. QueuesCharged'
  BY <1>1, <1>3, <1>4, HeldQueue, ChargeLess
<1>6. NoOrphans'
  BY <1>3, <1>4 DEF NoOrphans, InRemoval, Idle
<1>7. ChargedToLeafQueue'
  BY <1>3 DEF ChargedToLeafQueue, TypeOK
<1> QED
  BY <1>5, <1>6, <1>7

(* One iteration of removeNodeInternal gives one allocation back. *)
LEMMA RemoveNodeAllocationContract ==
  ASSUME Disciplined, Contract, NEW a \in op.allocs, RemoveNodeAllocation(a)
  PROVE  NoOrphans' /\ ChargedToLeafQueue' /\ QueuesCharged'
<1> USE DEF Contract, CacheInv
<1> DEFINE known == a.app \in apps /\ a \in appAllocs[a.app]
<1>1. /\ op.kind = "removeNode"
      /\ op' = [op EXCEPT !.allocs = @ \ {a}]
      /\ appAllocs'    = [appAllocs EXCEPT ![a.app] = IF known THEN @ \ {a} ELSE @]
      /\ queueAllocated' = IF known THEN DecAllocatedResource(leafQueue[a.app], a.res)
                                    ELSE queueAllocated
      /\ UNCHANGED <<nodeVars, apps, appState, leafQueue>>
  BY DEF RemoveNodeAllocation
<1>2. a \in Allocation /\ a.app \in Apps
  BY DEF TypeOK, Op, Allocation
<1>3. /\ op'.kind = "removeNode" /\ op'.node = op.node
      /\ op'.allocs = op.allocs \ {a} /\ op'.reports = op.reports
      /\ op.node \in Nodes /\ a \in nodeAllocs[op.node]
  BY <1>1 DEF TypeOK, Op, OpConsistent
<1>4. Live' = Live \ {a} /\ QueuesCharged'
  <2>1. CASE known
    <3> DEFINE R == {a}
    <3>1. appAllocs' = [appAllocs EXCEPT ![a.app] = @ \ R] /\ R \subseteq appAllocs[a.app] /\ R # {}
      BY <1>1, <2>1
    <3>2. TotalOf(R) = a.res
      BY <1>2, SizeOfType, WeightSingleton DEF TotalOf
    <3>3. queueAllocated' = DecAllocatedResource(leafQueue[a.app], TotalOf(R))
      BY <1>1, <2>1, <3>2, Zenon
    <3> HIDE DEF R
    <3>4. Live' = Live \ R
      BY <1>2, <3>1, LiveWithout
    <3>5. /\ leafQueue[a.app] \in Queues
          /\ \A x \in R : x.queue = leafQueue[a.app]
          /\ R \subseteq Live
      BY <1>2, <3>1, HeldQueue
    <3>6. TypeOK /\ QueuesCharged
      OBVIOUS
    <3>7. QueuesCharged'
      BY <3>3, <3>4, <3>5, <3>6, ChargeLess, Zenon
    <3> QED
      BY <3>4, <3>7 DEF R
  <2>2. CASE ~known
    <3>1. appAllocs' = appAllocs /\ queueAllocated' = queueAllocated
      BY <1>1, <1>2, <2>2 DEF TypeOK
    <3>2. Live' = Live /\ a \notin Live
      BY <2>2, <3>1 DEF Live, AppAccounting
    <3> QED
      BY <3>1, <3>2, ChargeSame
  <2> QED
    BY <2>1, <2>2
<1>5. NoOrphans'
  BY <1>1, <1>3, <1>4 DEF NoOrphans, InRemoval, nodeVars, OwnNode
<1>6. ChargedToLeafQueue'
  BY <1>1, <1>2, <1>3 DEF ChargedToLeafQueue, TypeOK
<1> QED
  BY <1>4, <1>5, <1>6

(* The start of the loop of removeNodeInternal. *)
LEMMA StartRemovalContract ==
  ASSUME Disciplined, Contract, NEW n \in nodes,
         op' = [Idle EXCEPT !.kind = "removeNode", !.node = n, !.allocs = nodeAllocs[n]],
         UNCHANGED <<partitionState, nodeVars, appVars, allocations, queueAllocated>>,
         op.kind # "removeNode"
  PROVE  NoOrphans' /\ ChargedToLeafQueue' /\ QueuesCharged'
<1> USE DEF Contract, CacheInv
<1>1. op'.reports = <<>>
  BY DEF Idle
<1>2. Live' = Live
  BY DEF Live, appVars
<1>3. NoOrphans'
  BY <1>2 DEF NoOrphans, InRemoval, nodeVars
<1>4. ChargedToLeafQueue'
  BY <1>1 DEF ChargedToLeafQueue, appVars
<1> QED
  BY <1>2, <1>3, <1>4, ChargeSame

(* The end of removeNodeInternal: what the node held is released. *)
LEMMA FinishRemoveNodeContract ==
  ASSUME Disciplined, Contract, FinishRemoveNode
  PROVE  NoOrphans' /\ ChargedToLeafQueue' /\ QueuesCharged'
<1> USE DEF Contract, CacheInv
<1>1. /\ op.kind = "removeNode"
      /\ nodeAllocs' = [nodeAllocs EXCEPT ![op.node] = {}]
      /\ op' = Idle
      /\ UNCHANGED <<appVars, queueAllocated>>
  BY DEF FinishRemoveNode
<1>2. op'.kind = "idle" /\ op'.reports = <<>>
  BY <1>1 DEF Idle
<1>3. Live' = Live
  BY <1>1 DEF Live, appVars
<1>4. ASSUME NEW n \in Nodes, NEW a \in nodeAllocs'[n]
      PROVE  a \in Live
  <2>1. n # op.node /\ a \in nodeAllocs[n]
    BY <1>1, <1>4 DEF TypeOK
  <2>2. a \notin nodeAllocs[op.node]
    BY <1>1, <2>1 DEF OwnNode, OpConsistent, TypeOK
  <2> QED
    BY <1>1, <2>1, <2>2 DEF NoOrphans, InRemoval
<1>5. NoOrphans'
  BY <1>3, <1>4 DEF NoOrphans
<1>6. ChargedToLeafQueue'
  BY <1>1, <1>2 DEF ChargedToLeafQueue, appVars
<1> QED
  BY <1>1, <1>3, <1>5, <1>6, ChargeSame

(* Registering a node charges nothing; its reports keep the contract. *)
LEMMA AddNewNodeContract ==
  ASSUME Disciplined, Contract, NEW n \in Nodes, NEW capacity \in Capacities,
         NEW reports \in ReportLists, AddNewNode(n, capacity, reports)
  PROVE  NoOrphans' /\ ChargedToLeafQueue' /\ QueuesCharged'
<1> USE DEF Contract, CacheInv
<1>1. /\ op = Idle
      /\ op'.kind = "addNode" /\ op'.reports = reports
      /\ UNCHANGED <<nodeAllocs, appVars, queueAllocated>>
      /\ \A i \in DOMAIN reports : Promised(reports[i], ReportsWait, ReportsOwn)
  BY DEF AddNewNode, Idle
<1>2. Live' = Live
  BY <1>1 DEF Live, appVars
<1>3. NoOrphans'
  BY <1>1, <1>2 DEF NoOrphans, InRemoval, Idle
<1>4. ChargedToLeafQueue'
  BY <1>1 DEF ChargedToLeafQueue, appVars, Promised, Disciplined
<1> QED
  BY <1>1, <1>2, <1>3, <1>4, ChargeSame

(* RemoveApplication gives back the application's counter, which is the    *)
(* sum of what it holds.                                                   *)
LEMMA RemoveApplicationContract ==
  ASSUME Disciplined, Contract, NEW app \in Apps, RemoveApplication(app)
  PROVE  NoOrphans' /\ ChargedToLeafQueue' /\ QueuesCharged'
<1> USE DEF Contract, CacheInv
<1> DEFINE R == appAllocs[app]
<1>1. appAllocs[app] \cap allocations = R
  BY DEF AppAccounting
<1>2. /\ op = Idle /\ op' = op
      /\ nodeAllocs' = [n \in Nodes |-> nodeAllocs[n] \ R]
      /\ queueAllocated' = IF R # {} THEN DecAllocatedResource(leafQueue[app], appAllocated[app])
                                     ELSE queueAllocated
      /\ DropApplication(app)
  BY <1>1 DEF RemoveApplication
<1>3. appAllocs' = [appAllocs EXCEPT ![app] = @ \ R] /\ R \subseteq appAllocs[app]
  BY <1>2 DEF DropApplication, TypeOK
<1>4. appAllocated[app] = TotalOf(R)
  BY DEF AppAccounting
<1>5. Live' = Live \ R
  BY <1>3, LiveWithout
<1>6. QueuesCharged'
  <2>1. CASE R = {}
    <3>1. Live' = Live /\ queueAllocated' = queueAllocated
      BY <1>2, <1>5, <2>1
    <3> QED
      BY <3>1, ChargeSame
  <2>2. CASE R # {}
    <3>1. queueAllocated' = DecAllocatedResource(leafQueue[app], TotalOf(R))
      BY <1>2, <1>4, <2>2, Zenon
    <3> HIDE DEF R
    <3>2. /\ leafQueue[app] \in Queues /\ R \subseteq Live
          /\ \A x \in R : x.queue = leafQueue[app]
      BY <1>3, <2>2, HeldQueue
    <3>3. TypeOK /\ QueuesCharged
      OBVIOUS
    <3> QED
      BY <1>5, <3>1, <3>2, <3>3, ChargeLess, Zenon
  <2> QED
    BY <2>1, <2>2
<1>7. NoOrphans'
  BY <1>2, <1>5 DEF NoOrphans, InRemoval, Idle
<1>8. ChargedToLeafQueue'
  BY <1>2 DEF ChargedToLeafQueue, DropApplication, Idle, TypeOK
<1> QED
  BY <1>6, <1>7, <1>8

(* Steps that change no allocation: application states, the partition's    *)
(* own state, and the end of addNewNode.                                   *)
LEMMA StateChangeContract ==
  ASSUME Disciplined, Contract,
         \/ FinishAddNode
         \/ \E app \in Apps, q \in Leaves : AcceptApplication(app, q)
         \/ \E app \in Apps : RejectApplication(app) \/ RunApplication(app) \/ KillApplication(app)
         \/ \E app \in Apps, q \in QueueNames : AddNewApplication(app, q)
         \/ \E app \in Apps : RemoveRejectedApp(app)
         \/ MarkPartitionForRemoval
         \/ \E event \in {"Start", "Stop"} : HandlePartitionEvent(event)
         \/ UNCHANGED vars
  PROVE  NoOrphans' /\ ChargedToLeafQueue' /\ QueuesCharged'
<1> USE DEF Contract, CacheInv
<1>1. nodeAllocs' = nodeAllocs /\ queueAllocated' = queueAllocated
  BY DEF FinishAddNode, AcceptApplication, RejectApplication, RunApplication, KillApplication,
         AddNewApplication, RemoveRejectedApp, MarkPartitionForRemoval, HandlePartitionEvent,
         vars, nodeVars
<1>2. appAllocs' = appAllocs
  <2>1. ASSUME NEW app \in Apps, RemoveRejectedApp(app)
        PROVE  appAllocs' = appAllocs
    BY <2>1 DEF RemoveRejectedApp, DropApplication, ChargedToLeafQueue, TypeOK
  <2> QED
    BY <2>1 DEF FinishAddNode, AcceptApplication, RejectApplication, RunApplication, KillApplication,
         AddNewApplication, MarkPartitionForRemoval, HandlePartitionEvent, vars, appVars
<1>3. Live' = Live
  BY <1>2 DEF Live
<1>4. QueuesCharged'
  BY <1>1, <1>3, ChargeSame
<1>5. op' = op \/ (op' = Idle /\ op.kind = "addNode")
  BY DEF FinishAddNode, AcceptApplication, RejectApplication, RunApplication, KillApplication,
         AddNewApplication, RemoveRejectedApp, MarkPartitionForRemoval, HandlePartitionEvent, vars
<1>6. NoOrphans'
  BY <1>1, <1>3, <1>5 DEF NoOrphans, InRemoval, Idle
<1>7. ASSUME FinishAddNode
      PROVE  ChargedToLeafQueue'
  BY <1>2, <1>7 DEF FinishAddNode, ChargedToLeafQueue, Idle, TypeOK
<1>8. ASSUME NEW app \in Apps, NEW q \in Leaves, AcceptApplication(app, q)
      PROVE  ChargedToLeafQueue'
  BY <1>2, <1>8 DEF AcceptApplication, ChargedToLeafQueue, TypeOK
<1>9. ASSUME NEW app \in Apps, RejectApplication(app) \/ RunApplication(app) \/ KillApplication(app)
      PROVE  ChargedToLeafQueue'
  BY <1>2, <1>9 DEF RejectApplication, RunApplication, KillApplication, ChargedToLeafQueue, TypeOK
<1>10. ASSUME NEW app \in Apps, NEW q \in QueueNames, AddNewApplication(app, q)
       PROVE  ChargedToLeafQueue'
  BY <1>2, <1>10 DEF AddNewApplication, ChargedToLeafQueue, AppAccounting, Idle, TypeOK
<1>11. ASSUME NEW app \in Apps, RemoveRejectedApp(app)
       PROVE  ChargedToLeafQueue'
  BY <1>2, <1>11 DEF RemoveRejectedApp, DropApplication, ChargedToLeafQueue, Idle, TypeOK
<1>12. ASSUME \/ MarkPartitionForRemoval
              \/ \E event \in {"Start", "Stop"} : HandlePartitionEvent(event)
              \/ UNCHANGED vars
       PROVE  ChargedToLeafQueue'
  BY <1>12 DEF MarkPartitionForRemoval, HandlePartitionEvent, vars, appVars, ChargedToLeafQueue
<1>13. ChargedToLeafQueue'
  BY <1>7, <1>8, <1>9, <1>10, <1>11, <1>12
<1> QED
  BY <1>4, <1>6, <1>13

(* Contract is inductive. *)
LEMMA ContractStep ==
  ASSUME Disciplined, Contract, [Next]_vars
  PROVE  Contract'
<1>1. CacheInv /\ CacheInv'
  BY CacheStep DEF Contract
<1> DEFINE Goal == NoOrphans' /\ ChargedToLeafQueue' /\ QueuesCharged'
<1>2. ASSUME NEW p \in Proposal, AddNewAllocation(p)
      PROVE  Goal
  <2>1. /\ op = Idle /\ op' = op /\ CanAllocate(p, FALSE) /\ Allocate(p)
        /\ Promised(p, ProposalsFit, ProposalsFit)
    BY <1>2 DEF AddNewAllocation
  <2>2. op.kind # "removeNode" /\ op'.kind = op.kind /\ op'.reports = op.reports
    BY <2>1 DEF Idle
  <2>3. appState[p.app] \notin {"New", "Rejected"} /\ p.queue = leafQueue[p.app]
    BY <2>1 DEF Promised, Disciplined, CanAllocate
  <2> QED
    BY <2>1, <2>2, <2>3, AllocateContract
<1>3. ASSUME NEW app \in Apps, NEW R \in Releasable(app), ReleaseAllocations(app, R)
      PROVE  Goal
  BY <1>3, ReleaseContract
<1>4. ASSUME NEW n \in Nodes, NEW c \in Capacities, NEW reports \in ReportLists,
             AddNewNode(n, c, reports)
      PROVE  Goal
  BY <1>4, AddNewNodeContract
<1>5. ASSUME AddReportedAllocation
      PROVE  Goal
  <2> DEFINE r == Head(op.reports)
             p == ReportedProposal(r)
  <2>1. /\ op.kind = "addNode" /\ op.reports # <<>>
        /\ CanAllocate(p, TRUE) /\ Allocate(p)
        /\ op' = [op EXCEPT !.reports = Tail(@)]
    BY <1>5 DEF AddReportedAllocation
  <2>2. r \in Report /\ op.node \in Nodes /\ op.reports \in Seq(Report)
    BY <1>1, <2>1 DEF CacheInv, TypeOK, Op, OpConsistent
  <2>3. p \in Proposal /\ p.app = r.app /\ p.queue = r.queue
    BY <2>2 DEF ReportedProposal, Proposal, Report
  <2>4. op.kind # "removeNode" /\ op'.kind = op.kind /\ op'.reports = Tail(op.reports)
    BY <1>1, <2>1 DEF CacheInv, TypeOK, Op
  <2>5. \A i \in DOMAIN op'.reports : \E j \in DOMAIN op.reports : op'.reports[i] = op.reports[j]
    <3> SUFFICES ASSUME NEW i \in DOMAIN op'.reports
                 PROVE  \E j \in DOMAIN op.reports : op'.reports[i] = op.reports[j]
      OBVIOUS
    <3>1. i + 1 \in DOMAIN op.reports /\ op'.reports[i] = op.reports[i + 1]
      BY <2>1, <2>2, <2>4
    <3> QED
      BY <3>1
  <2>6. p.app \in apps
    BY <2>1 DEF CanAllocate
  <2>7. 1 \in DOMAIN op.reports /\ r = op.reports[1]
    BY <2>1, <2>2
  <2>8. appState[p.app] \notin {"New", "Rejected"} /\ p.queue = leafQueue[p.app]
    BY <2>3, <2>6, <2>7 DEF Contract, ChargedToLeafQueue
  <2> HIDE DEF p
  <2> QED
    BY <2>1, <2>3, <2>4, <2>5, <2>8, AllocateContract
<1>6. ASSUME RejectReportedAllocation
      PROVE  Goal
  <2>1. op.node \in nodes /\ op.kind # "removeNode"
    BY <1>1, <1>6 DEF RejectReportedAllocation, CacheInv, OpConsistent
  <2> QED
    BY <1>6, <2>1, StartRemovalContract DEF RejectReportedAllocation
<1>7. ASSUME NEW n \in Nodes, RemoveNode(n)
      PROVE  Goal
  <2>1. op.kind # "removeNode"
    BY <1>7 DEF RemoveNode, Idle
  <2> QED
    BY <1>7, <2>1, StartRemovalContract DEF RemoveNode
<1>8. ASSUME NEW a \in op.allocs, RemoveNodeAllocation(a)
      PROVE  Goal
  BY <1>8, RemoveNodeAllocationContract
<1>9. ASSUME FinishRemoveNode
      PROVE  Goal
  BY <1>9, FinishRemoveNodeContract
<1>10. ASSUME NEW app \in Apps, RemoveApplication(app)
       PROVE  Goal
  BY <1>10, RemoveApplicationContract
<1>11. ASSUME \/ FinishAddNode
              \/ \E app \in Apps, q \in Leaves : AcceptApplication(app, q)
              \/ \E app \in Apps : RejectApplication(app) \/ RunApplication(app) \/ KillApplication(app)
              \/ \E app \in Apps, q \in QueueNames : AddNewApplication(app, q)
              \/ \E app \in Apps : RemoveRejectedApp(app)
              \/ MarkPartitionForRemoval
              \/ \E event \in {"Start", "Stop"} : HandlePartitionEvent(event)
              \/ UNCHANGED vars
       PROVE  Goal
  BY <1>11, StateChangeContract
<1> HIDE DEF Goal
<1>12. Goal
  BY <1>2, <1>3, <1>4, <1>5, <1>6, <1>7, <1>8, <1>9, <1>10, <1>11, Zenon DEF Next
<1> QED
  BY <1>1, <1>12 DEF Contract, Goal

(* The empty partition keeps the contract. *)
LEMMA EmptyContract ==
  ASSUME CacheInv, nodeAllocs = [n \in Nodes |-> {}], appAllocs = [app \in Apps |-> {}],
         queueAllocated = [q \in Queues |-> 0], op = Idle
  PROVE  Contract
<1>1. Live = {}
  BY DEF Live
<1>2. \A q \in Queues : ChargedTo(q) = {} /\ queueAllocated[q] = 0
  BY <1>1 DEF ChargedTo
<1>3. QueuesCharged
  BY <1>2, TotalEmpty, Zenon DEF QueuesCharged
<1>4. NoOrphans /\ ChargedToLeafQueue
  BY DEF NoOrphans, ChargedToLeafQueue, Idle
<1> QED
  BY <1>3, <1>4 DEF Contract

(* So does the partition that is loaded first.                              *)
LEMMA InitContract == Init => Contract
  BY InitCache, EmptyContract DEF Init

(* What an application holds can be given back on every level: a sum over  *)
(* some of the allocations is not larger than the sum over all of them.    *)
LEMMA HeldCanBeReleased ==
  ASSUME Disciplined, Contract
  PROVE  DecNeverFails
<1> SUFFICES ASSUME NEW b \in apps, appAllocs[b] # {}
             PROVE  leafQueue[b] # NoQueue /\ CanDec(leafQueue[b], appAllocated[b])
  BY DEF DecNeverFails
<1> DEFINE R == appAllocs[b]
           leaf == leafQueue[b]
<1>1. b \in Apps
  BY DEF Contract, CacheInv, TypeOK
<1>2. /\ leaf \in Queues /\ R \subseteq Live
      /\ \A a \in R : a.queue = leaf
  BY <1>1, HeldQueue
<1>3. appAllocated[b] = TotalOf(R)
  BY <1>1 DEF Contract, CacheInv, AppAccounting
<1> HIDE DEF R, leaf
<1>4. ASSUME NEW q \in PathTo[leaf]
      PROVE  TotalOf(R) <= queueAllocated[q]
  <2> DEFINE S == ChargedTo(q)
  <2>1. q \in Queues
    BY <1>2, QueueAssumption
  <2>2. R \subseteq S /\ Weighable(S, SizeOf) /\ queueAllocated[q] = TotalOf(S)
    BY <1>1, <1>2, <2>1 DEF Contract, QueuesCharged, ChargedTo
  <2> HIDE DEF S
  <2> QED
    BY <2>2, TotalSplit
<1>5. CanDec(leaf, TotalOf(R))
  BY <1>4 DEF CanDec
<1> QED
  BY <1>2, <1>3, <1>5, QueueAssumption DEF leaf

(* What is live is on a node, and no node holds more than it has.          *)
LEMMA RootFits ==
  ASSUME Disciplined, Contract
  PROVE  queueAllocated[Root] <= total
<1> DEFINE on == [a \in Live |-> a.node]
           here(n) == { a \in Live : on[a] = n }
<1> USE DEF Contract, CacheInv
<1>2. Live \subseteq Allocation
  BY LiveType
<1>3. ChargedTo(Root) = Live
  BY <1>2, QueueAssumption DEF ChargedTo, Allocation
<1>4. queueAllocated[Root] = TotalOf(Live)
  BY <1>3, QueueAssumption DEF QueuesCharged
<1>5. on \in [Live -> nodes]
  BY DEF Live, AppAccounting
<1>6. ASSUME NEW n \in nodes
      PROVE  /\ nodeTotal[n] \in Nat
             /\ Weighable(here(n), SizeOf) /\ Weight(here(n), SizeOf) <= nodeTotal[n]
  <2> DEFINE S == nodeAllocs[n]
             T == here(n)
  <2>1. T \subseteq S
    BY DEF Live, AppAccounting
  <2>2. n \in Nodes /\ Weighable(S, SizeOf) /\ nodeTotal[n] \in Nat
    BY DEF TypeOK, SumsDefined
  <2>3. nodeAllocated[n] = TotalOf(S) /\ nodeAllocated[n] <= nodeTotal[n]
    BY <2>2 DEF NodeAccounting
  <2> HIDE DEF S, T
  <2>4. Weighable(T, SizeOf) /\ TotalOf(T) <= TotalOf(S) /\ TotalOf(T) \in Nat /\ TotalOf(S) \in Nat
    BY <2>1, <2>2, TotalSplit
  <2>5. Weighable(T, SizeOf) /\ Weight(T, SizeOf) <= nodeTotal[n]
    BY <2>2, <2>3, <2>4 DEF TotalOf
  <2> QED
    BY <2>2, <2>5 DEF T
<1>7. Weighable(nodes, nodeTotal) /\ total = Weight(nodes, nodeTotal)
  BY DEF SumsDefined, NodeAccounting
<1> HIDE DEF on
<1>8. Weight(Live, SizeOf) <= Weight(nodes, nodeTotal)
  BY <1>5, <1>6, <1>7, WeightGrouped
<1> QED
  BY <1>4, <1>7, <1>8 DEF TotalOf

(* With disciplined callers the contract holds at all times; without them  *)
(* ContractInv asks for no more than CacheInv.                             *)
THEOREM ContractInvariant == Spec => []ContractInv
<1>1. CASE Disciplined
  <2>1. Contract /\ [Next]_vars => Contract'
    BY <1>1, ContractStep
  <2>2. Contract => ContractInv
    BY <1>1, ContractIsContractInv
  <2> QED
    BY <2>1, <2>2, InitContract, PTL DEF Spec
<1>2. CASE ~Disciplined
  <2>1. CacheInv => ContractInv
    BY <1>2 DEF ContractInv, NoOrphans, ChargedToLeafQueue, QueueAccounting
  <2> QED
    BY <2>1, CacheInvariant, PTL
<1> QED
  BY <1>1, <1>2

(* Every queue's counter is the sum of the live allocations below it. *)
THEOREM QueuesAccounted == Spec => []QueueAccounting
<1>1. ContractInv => QueueAccounting
  BY DEF ContractInv
<1> QED
  BY <1>1, ContractInvariant, PTL

(* No node keeps an allocation that its application has lost. *)
THEOREM NothingOrphaned == Spec => []NoOrphans
<1>1. ContractInv => NoOrphans
  BY DEF ContractInv
<1> QED
  BY <1>1, ContractInvariant, PTL

(* "We should never have an error": with disciplined callers               *)
(* DecAllocatedResource succeeds for everything an application holds.      *)
THEOREM ReleasesSucceed == Spec => []ReleaseNeverFails
<1>1. ContractInv => ReleaseNeverFails
  BY ContractIsContractInv, HeldCanBeReleased DEF ReleaseNeverFails
<1> QED
  BY <1>1, ContractInvariant, PTL

(* With disciplined callers the root is charged no more than the           *)
(* registered nodes have, although reported allocations skip the queue     *)
(* maximum: what is live is on a node, and no node holds more than it has. *)
THEOREM RootBounded == Spec => []RootWithinTotal
<1>1. ContractInv => RootWithinTotal
  BY ContractIsContractInv, RootFits DEF RootWithinTotal
<1> QED
  BY <1>1, ContractInvariant, PTL
=============================================================================
