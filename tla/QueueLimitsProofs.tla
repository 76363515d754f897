------------------------- MODULE QueueLimitsProofs -------------------------
(***************************************************************************)
(* Proofs about QueueLimits, for every hierarchy of queues, any number of  *)
(* resource types and quantities of every width: no counter wraps around or*)
(* exceeds the total, and what the scheduler selects on its own counters,  *)
(* within the headroom of a queue, is what the cache accepts later on the  *)
(* whole way up to the root, as long as the round began with nothing on its*)
(* way.                                                                    *)
(***************************************************************************)
EXTENDS QueueLimits, WellFoundedInduction, SequenceTheorems, TLAPS

-----------------------------------------------------------------------------
(* Quantities and resources *)

(* A sum that wraps around is a quantity again, and a quantity is not      *)
(* wrapped.                                                                *)
LEMMA Wrapped ==
  /\ \A n \in Int : Wrap(n) \in Quantity
  /\ \A n \in Quantity : Wrap(n) = n
<1>1. QuantityLimit \in Nat /\ QuantityLimit > 0
  BY QuantityAssumption
<1>2. \A n \in Int : Wrap(n) \in Quantity
  BY <1>1 DEF Wrap, Quantity
<1>3. ASSUME NEW n \in Quantity
      PROVE  Wrap(n) = n
  <2> DEFINE w == 2 * QuantityLimit
             a == n + QuantityLimit
  <2>1. w \in Nat \ {0} /\ a \in 0 .. w - 1 /\ n \in Int
    BY <1>1 DEF Quantity
  <2> HIDE DEF a, w
  <2>2. a % w = a
    BY <2>1
  <2> QED
    BY <2>1, <2>2, <1>1 DEF Wrap, a, w
<1> QED
  BY <1>2, <1>3

(* A value is a quantity, and 0 for what is no resource type.              *)
LEMMA ValueType ==
  ASSUME NEW r \in Resource, NEW k
  PROVE  Value(r, k) \in Quantity /\ Value(r, k) \in Int /\ (k \notin ResourceTypes => Value(r, k) = 0)
  BY QuantityAssumption DEF Resource, Quantity, Value

(* The value of a combination is the combination of the values, also for   *)
(* types that one side or both do not have.                                *)
LEMMA SumsOf ==
  ASSUME NEW a \in Resource, NEW b \in Resource
  PROVE  /\ Add(a, b) \in Resource /\ Sub(a, b) \in Resource
         /\ \A k : /\ Value(Add(a, b), k) = Wrap(Value(a, k) + Value(b, k))
                   /\ Value(Sub(a, b), k) = Wrap(Value(a, k) - Value(b, k))
         /\ DOMAIN Add(a, b) = DOMAIN a \cup DOMAIN b
<1> DEFINE types == DOMAIN a \cup DOMAIN b
<1>1. types \in SUBSET ResourceTypes
  BY DEF Resource
<1>2. OrZero(a) = a /\ OrZero(b) = b
  BY QuantityAssumption DEF OrZero
<1>3. /\ Add(a, b) = [k \in types |-> Wrap(Value(a, k) + Value(b, k))]
      /\ Sub(a, b) = [k \in types |-> Wrap(Value(a, k) - Value(b, k))]
  BY <1>2 DEF Add, Sub, Combine
<1>4. \A k : Value(a, k) \in Int /\ Value(b, k) \in Int
  BY ValueType
<1>5. Add(a, b) \in [types -> Quantity] /\ Sub(a, b) \in [types -> Quantity]
  BY <1>3, <1>4, Wrapped
<1>6. 0 \in Quantity /\ Wrap(0) = 0
  BY Wrapped, QuantityAssumption DEF Quantity
<1>7. \A k : k \notin types => Value(a, k) = 0 /\ Value(b, k) = 0
  BY DEF Value
<1>8. ASSUME NEW k
      PROVE  /\ Value(Add(a, b), k) = Wrap(Value(a, k) + Value(b, k))
             /\ Value(Sub(a, b), k) = Wrap(Value(a, k) - Value(b, k))
  <2>1. CASE k \in types
    BY <1>3, <2>1 DEF Value
  <2>2. CASE k \notin types
    <3>1. Value(Add(a, b), k) = 0 /\ Value(Sub(a, b), k) = 0
      BY <1>3, <2>2 DEF Value
    <3> QED
      BY <1>6, <1>7, <2>2, <3>1
  <2> QED
    BY <2>1, <2>2
<1>9. DOMAIN Add(a, b) = types
  BY <1>3
<1> QED
  BY <1>1, <1>5, <1>8, <1>9 DEF Resource

(* The smaller of two numbers. *)
LEMMA MinOf ==
  ASSUME NEW x \in Int, NEW y \in Int
  PROVE  Min({x, y}) = IF x <= y THEN x ELSE y
<1>1. CASE x <= y
  BY <1>1 DEF Min
<1>2. CASE ~(x <= y)
  BY <1>2 DEF Min
<1> QED
  BY <1>1, <1>2

(* The larger of two numbers.                                              *)
LEMMA MaxOf ==
  ASSUME NEW x \in Int, NEW y \in Int
  PROVE  Max({x, y}) = IF x >= y THEN x ELSE y
<1>1. CASE x >= y
  BY <1>1 DEF Max
<1>2. CASE ~(x >= y)
  BY <1>2 DEF Max
<1> QED
  BY <1>1, <1>2

(* ComponentWiseMin has the smaller of both values for every type.         *)
LEMMA MinimumOf ==
  ASSUME NEW a \in Resource, NEW b \in Resource
  PROVE  /\ ComponentWiseMin(a, b) \in Resource
         /\ \A k : Value(ComponentWiseMin(a, b), k) =
                     IF Value(a, k) <= Value(b, k) THEN Value(a, k) ELSE Value(b, k)
<1> DEFINE types == DOMAIN a \cup DOMAIN b
           least(k) == IF Value(a, k) <= Value(b, k) THEN Value(a, k) ELSE Value(b, k)
<1>1. types \in SUBSET ResourceTypes
  BY DEF Resource
<1>2. NilResource \notin {a, b}
  BY QuantityAssumption
<1>3. \A k : Value(a, k) \in Int /\ Value(b, k) \in Int /\ Value(a, k) \in Quantity /\ Value(b, k) \in Quantity
  BY ValueType
<1>4. ComponentWiseMin(a, b) = [k \in types |-> Min({Value(a, k), Value(b, k)})]
  BY <1>2 DEF ComponentWiseMin, Combine
<1>5. \A k \in types : Min({Value(a, k), Value(b, k)}) = least(k)
  BY <1>3, MinOf
<1>6. ComponentWiseMin(a, b) = [k \in types |-> least(k)]
  BY <1>4, <1>5
<1>7. ComponentWiseMin(a, b) \in [types -> Quantity]
  BY <1>3, <1>6
<1>8. \A k : k \notin types => Value(a, k) = 0 /\ Value(b, k) = 0
  BY DEF Value
<1>9. \A k : Value(ComponentWiseMin(a, b), k) = least(k)
  BY <1>6, <1>8 DEF Value
<1> QED
  BY <1>1, <1>7, <1>9 DEF Resource

(* Only a positive quantity has to be there.                               *)
LEMMA Fits ==
  ASSUME NEW a \in Resource, NEW b \in Resource
  PROVE  FitIn(a, b) <=> \A k \in DOMAIN b : b[k] <= 0 \/ b[k] <= Value(a, k)
<1>1. OrZero(a) = a /\ OrZero(b) = b
  BY QuantityAssumption DEF OrZero
<1>2. \A k : Value(a, k) \in Int
  BY ValueType
<1>3. \A k \in DOMAIN b : b[k] \in Int
  BY QuantityAssumption DEF Resource, Quantity
<1>4. \A k : Max({Value(a, k), 0}) = IF Value(a, k) >= 0 THEN Value(a, k) ELSE 0
  BY <1>2, MaxOf
<1>5. FitIn(a, b) <=> \A k \in DOMAIN b : b[k] <= Max({Value(a, k), 0})
  BY <1>1 DEF FitIn
<1>6. ASSUME NEW k \in DOMAIN b
      PROVE  b[k] <= Max({Value(a, k), 0}) <=> b[k] <= 0 \/ b[k] <= Value(a, k)
  <2>1. Max({Value(a, k), 0}) = IF Value(a, k) >= 0 THEN Value(a, k) ELSE 0
    BY <1>4
  <2> QED
    BY <1>2, <1>3, <2>1
<1> QED
  BY <1>5, <1>6

-----------------------------------------------------------------------------
(* The hierarchy *)

LEMMA LeastNatural ==
  ASSUME NEW S \in SUBSET Nat, S # {}
  PROVE  \E x \in S : \A y \in S : x <= y
<1> DEFINE R == { ss \in Nat \X Nat : ss[1] < ss[2] }
<1>1. IsWellFoundedOn(R, Nat)
  BY NatLessThanWellFounded DEF OpToRel
<1> HIDE DEF R
<1>2. \E x \in S : \A y \in S : ~ (<<y, x>> \in R)
  BY <1>1, WFMin
<1>3. \A x, y \in S : <<y, x>> \notin R => x <= y
  BY DEF R
<1> QED
  BY <1>2, <1>3

(* Queues are listed after those below them, so some queue of a set, the   *)
(* one that is listed last, has a parent that is not in the set.           *)
LEMMA TopmostQueue ==
  ASSUME NEW S \in SUBSET (QueueSet \ {Root}), S # {}
  PROVE  \E q \in S : ParentOf[q] \notin S
<1> DEFINE back == { n \in Nat : \E i \in DOMAIN Queues : n = Len(Queues) - i /\ Queues[i] \in S }
<1>1. Len(Queues) \in Nat /\ DOMAIN Queues = 1 .. Len(Queues)
  BY QueuesAssumption
<1>2. \A q \in QueueSet : \E i \in DOMAIN Queues : Queues[i] = q
  BY DEF QueueSet, Range
<1>3. back # {} /\ back \in SUBSET Nat
  <2>1. PICK q \in S : TRUE
    OBVIOUS
  <2>2. PICK i \in DOMAIN Queues : Queues[i] = q
    BY <1>2, <2>1
  <2>3. Len(Queues) - i \in Nat
    BY <1>1, <2>2
  <2> QED
    BY <2>1, <2>2, <2>3
<1>4. PICK n \in back : \A m \in back : n <= m
  <2> HIDE DEF back
  <2> QED
    BY <1>3, LeastNatural
<1>5. PICK i \in DOMAIN Queues : n = Len(Queues) - i /\ Queues[i] \in S
  BY <1>4
<1>6. ASSUME ParentOf[Queues[i]] \in S
      PROVE  FALSE
  <2>1. PICK j \in DOMAIN Queues : Queues[j] = ParentOf[Queues[i]]
    BY <1>2, <1>6
  <2>2. i < j
    BY <1>5, <2>1, QueuesAssumption
  <2>3. Len(Queues) - j \in back
    BY <1>1, <1>6, <2>1
  <2> QED
    BY <1>1, <1>4, <1>5, <2>2, <2>3
<1> QED
  BY <1>5, <1>6

(* A set of queues that has the root, and every queue whose parent it has, *)
(* has all.                                                                *)
LEMMA QueuesInduction ==
  ASSUME NEW S \in SUBSET QueueSet, Root \in S,
         \A k \in QueueSet \ {Root} : ParentOf[k] \in S => k \in S
  PROVE  S = QueueSet
<1> DEFINE missing == QueueSet \ S
<1>1. missing \in SUBSET (QueueSet \ {Root})
  OBVIOUS
<1>2. \A n \in missing : ParentOf[n] \in QueueSet
  BY QueuesAssumption
<1> QED
  BY <1>1, <1>2, TopmostQueue

(* So a function may be defined by recursion over the parents: the value   *)
(* of a queue is the one that every set of pairs has that is closed under   *)
(* the rule.                                                               *)
Ruled(T, D, d, g) ==
  /\ <<Root, d>> \in T
  /\ \A n \in QueueSet \ {Root}, v \in D : <<ParentOf[n], v>> \in T => <<n, g[n][v]>> \in T

Values(D, d, g) == { x \in QueueSet \X D : \A T \in SUBSET (QueueSet \X D) : Ruled(T, D, d, g) => x \in T }

(* There is a function with a given value for the root and a given rule for*)
(* the value of a queue from that of its parent.                            *)
LEMMA RecursionOnQueues ==
  ASSUME NEW D, NEW d \in D, NEW g \in [QueueSet -> [D -> D]]
  PROVE  \E f \in [QueueSet -> D] : /\ f[Root] = d
                                 /\ \A k \in QueueSet \ {Root} : f[k] = g[k][f[ParentOf[k]]]
<1> DEFINE V == Values(D, d, g)
           One == { n \in QueueSet : \E v \in D : \A w \in D : <<n, w>> \in V <=> w = v }
<1>0. Root \in QueueSet /\ \A n \in QueueSet \ {Root} : ParentOf[n] \in QueueSet
  BY QueuesAssumption
<1>1. V \subseteq QueueSet \X D
  BY DEF Values
<1>2. Ruled(V, D, d, g)
  <2>1. <<Root, d>> \in V
    BY <1>0 DEF Values, Ruled
  <2>2. ASSUME NEW n \in QueueSet \ {Root}, NEW v \in D, <<ParentOf[n], v>> \in V
        PROVE  <<n, g[n][v]>> \in V
    <3>1. <<n, g[n][v]>> \in QueueSet \X D
      OBVIOUS
    <3>2. ASSUME NEW T \in SUBSET (QueueSet \X D), Ruled(T, D, d, g)
          PROVE  <<n, g[n][v]>> \in T
      <4>1. <<ParentOf[n], v>> \in T
        BY <2>2, <3>2 DEF Values
      <4> QED
        BY <3>2, <4>1 DEF Ruled
    <3> QED
      BY <3>1, <3>2 DEF Values
  <2> QED
    BY <2>1, <2>2 DEF Ruled
<1>3. ASSUME NEW x \in V, Ruled(V \ {x}, D, d, g)
      PROVE  FALSE
  BY <1>1, <1>3 DEF Values
<1>4. Root \in One
  <2>1. ASSUME NEW w \in D, <<Root, w>> \in V, w # d
        PROVE  Ruled(V \ {<<Root, w>>}, D, d, g)
    BY <1>2, <2>1 DEF Ruled
  <2>2. \A w \in D : <<Root, w>> \in V <=> w = d
    BY <1>2, <1>3, <2>1 DEF Ruled
  <2> QED
    BY <1>0, <2>2
<1>5. ASSUME NEW n \in QueueSet \ {Root}, ParentOf[n] \in One
      PROVE  n \in One
  <2>1. PICK v \in D : \A w \in D : <<ParentOf[n], w>> \in V <=> w = v
    BY <1>5
  <2>2. <<n, g[n][v]>> \in V /\ g[n][v] \in D
    BY <1>2, <2>1 DEF Ruled
  <2>3. ASSUME NEW w \in D, <<n, w>> \in V, w # g[n][v]
        PROVE  Ruled(V \ {<<n, w>>}, D, d, g)
    BY <1>2, <2>1, <2>3 DEF Ruled
  <2>4. \A w \in D : <<n, w>> \in V <=> w = g[n][v]
    BY <1>3, <2>2, <2>3
  <2> QED
    BY <2>2, <2>4
<1>6. One = QueueSet
  BY <1>4, <1>5, QueuesInduction
<1> DEFINE f == [n \in QueueSet |-> CHOOSE v \in D : <<n, v>> \in V]
<1>7. ASSUME NEW n \in QueueSet, NEW v \in D, <<n, v>> \in V
      PROVE  f[n] = v
  <2>1. \A w \in D : <<n, w>> \in V <=> w = v
    BY <1>6, <1>7
  <2> QED
    BY <2>1
<1>8. \A n \in QueueSet : f[n] \in D /\ <<n, f[n]>> \in V
  BY <1>6
<1>9. f[Root] = d
  BY <1>0, <1>2, <1>7 DEF Ruled
<1>10. ASSUME NEW n \in QueueSet \ {Root}
       PROVE  f[n] = g[n][f[ParentOf[n]]]
  <2>1. ParentOf[n] \in QueueSet /\ f[ParentOf[n]] \in D /\ <<ParentOf[n], f[ParentOf[n]]>> \in V
    BY <1>0, <1>8
  <2>2. <<n, g[n][f[ParentOf[n]]]>> \in V /\ g[n][f[ParentOf[n]]] \in D
    BY <1>2, <2>1 DEF Ruled
  <2> HIDE DEF f
  <2> QED
    BY <1>7, <2>2
<1>11. f \in [QueueSet -> D]
  BY <1>8
<1> HIDE DEF f
<1> QED
  BY <1>9, <1>10, <1>11

(* The path of a queue is that of its parent and the queue itself.         *)
LEMMA PathUnfold ==
  /\ Path \in [QueueSet -> Seq(QueueSet)]
  /\ Path[Root] = <<Root>>
  /\ \A q \in QueueSet \ {Root} : Path[q] = Append(Path[ParentOf[q]], q)
<1> DEFINE D == Seq(QueueSet)
           root == <<Root>>
           g == [q \in QueueSet |-> [s \in D |-> Append(s, q)]]
           step(f) == [q \in QueueSet |-> IF q = Root THEN <<Root>> ELSE Append(f[ParentOf[q]], q)]
<1>0. Root \in QueueSet /\ \A q \in QueueSet \ {Root} : ParentOf[q] \in QueueSet
  BY QueuesAssumption
<1>1. root \in D /\ g \in [QueueSet -> [D -> D]]
  BY <1>0
<1>2. PICK f \in [QueueSet -> D] : /\ f[Root] = root
                                   /\ \A k \in QueueSet \ {Root} : f[k] = g[k][f[ParentOf[k]]]
  <2> HIDE DEF D, g, root
  <2> QED
    BY <1>1, RecursionOnQueues
<1>3. f = step(f)
  <2>1. ASSUME NEW q \in QueueSet
        PROVE  f[q] = IF q = Root THEN <<Root>> ELSE Append(f[ParentOf[q]], q)
    BY <1>0, <1>2
  <2>2. f = [q \in QueueSet |-> f[q]]
    BY <1>2
  <2> QED
    BY <2>1, <2>2
<1>4. Path = CHOOSE h : h = step(h)
  BY DEF Path
<1>5. Path = step(Path)
  <2> HIDE DEF step
  <2> QED
    BY <1>3, <1>4
<1> DEFINE S == { q \in QueueSet : Path[q] \in D }
<1>6. Root \in S
  BY <1>0, <1>5
<1>7. ASSUME NEW q \in QueueSet \ {Root}, ParentOf[q] \in S
      PROVE  q \in S
  <2> DEFINE above == Path[ParentOf[q]]
  <2>1. Path[q] = Append(above, q)
    BY <1>5
  <2>2. above \in D
    BY <1>7
  <2> HIDE DEF above
  <2>3. Append(above, q) \in D
    BY <2>2
  <2> QED
    BY <2>1, <2>3
<1>8. S = QueueSet
  <2>1. S \in SUBSET QueueSet
    OBVIOUS
  <2> HIDE DEF S
  <2> QED
    BY <1>6, <1>7, <2>1, QueuesInduction
<1>9. \A q \in QueueSet : Path[q] \in D
  BY <1>8
<1> QED
  BY <1>0, <1>5, <1>9

(* The queues that are charged: the queue itself and all above it.        *)
LEMMA ChargedUnfold ==
  /\ Charged(Root) = {Root}
  /\ \A q \in QueueSet : Charged(q) \subseteq QueueSet /\ q \in Charged(q)
  /\ \A q \in QueueSet \ {Root} : Charged(q) = Charged(ParentOf[q]) \cup {q}
<1>1. ASSUME NEW s \in Seq(QueueSet), NEW q \in QueueSet
      PROVE  Range(Append(s, q)) = Range(s) \cup {q} /\ Range(s) \subseteq QueueSet
  <2> DEFINE t == Append(s, q)
  <2>1. /\ Len(s) \in Nat /\ DOMAIN s = 1 .. Len(s) /\ DOMAIN t = 1 .. Len(s) + 1
        /\ t[Len(s) + 1] = q /\ \A i \in DOMAIN s : t[i] = s[i] /\ s[i] \in QueueSet
    OBVIOUS
  <2> HIDE DEF t
  <2>2. DOMAIN t = DOMAIN s \cup {Len(s) + 1}
    BY <2>1
  <2>3. Range(t) = Range(s) \cup {q}
    BY <2>1, <2>2 DEF Range
  <2>4. Range(s) \subseteq QueueSet
    BY <2>1 DEF Range
  <2> QED
    BY <2>3, <2>4 DEF t
<1>2. Root \in QueueSet /\ \A q \in QueueSet \ {Root} : ParentOf[q] \in QueueSet
  BY QueuesAssumption
<1>3. Range(<<Root>>) = {Root}
  BY DEF Range
<1>4. ASSUME NEW q \in QueueSet \ {Root}
      PROVE  Charged(q) = Charged(ParentOf[q]) \cup {q}
  BY <1>1, <1>2, PathUnfold DEF Charged
<1>5. ASSUME NEW q \in QueueSet
      PROVE  Charged(q) \subseteq QueueSet
  BY <1>1, PathUnfold DEF Charged
<1> QED
  BY <1>2, <1>3, <1>4, <1>5, PathUnfold DEF Charged

-----------------------------------------------------------------------------
(* The invariant: every maximum is one that was configured for the queue   *)
(* or one above it, the root's is the total; and what is in use of a type  *)
(* is at most the total has of it, so that no counter wraps around.        *)
Maxima == { r \in Resource : \A k \in ResourceTypes : Value(Total, k) - Value(r, k) <= QuantityLimit }

Limited(l) == DOMAIN l = QueueSet /\ \A q \in QueueSet : l[q].max \in Maxima \cup {NilResource}

LimitsKept == Limited(limits) /\ limits[Root].max = Total

Bounded(counters) ==
  /\ counters \in [QueueSet -> Resource]
  /\ \A q \in QueueSet, k \in ResourceTypes :
       0 <= Value(counters[q], k) /\ Value(counters[q], k) <= Value(Total, k)

LimitInv == LimitsKept /\ Bounded(proposing)

(* The total is one of the maxima that a queue may have, and its values    *)
(* and those of the asks are not negative.                                 *)
LEMMA Amounts ==
  /\ Total \in Maxima /\ Total \in Resource
  /\ \A k : Value(Total, k) >= 0
  /\ Asks \subseteq Resource
  /\ \A ask \in Asks : \A k : Value(ask, k) >= 0
  /\ \A c \in Configs, q \in QueueSet : c[q].max \in Maxima \cup {NilResource}
<1>1. Total \in Resource /\ Asks \subseteq Resource
  BY AmountsAssumption
<1>2. \A r \in {Total} \cup Asks : \A k : Value(r, k) >= 0
  BY AmountsAssumption DEF Value
<1>3. \A k \in ResourceTypes : Value(Total, k) - Value(Total, k) <= QuantityLimit
  BY <1>1, ValueType, QuantityAssumption
<1>4. \A c \in Configs, q \in QueueSet : c[q].max \in Maxima \cup {NilResource}
  BY AmountsAssumption DEF Maxima
<1> QED
  BY <1>1, <1>2, <1>3, <1>4 DEF Maxima

(* getQueueMaxLimit: the maximum of the nearest queue that has one, and    *)
(* the total.                                                              *)
LEMMA MaxLimitUnfold ==
  ASSUME LimitInv
  PROVE  /\ QueueMaxLimit \in [QueueSet -> Resource]
         /\ QueueMaxLimit[Root] = Total
         /\ \A q \in QueueSet \ {Root} :
              QueueMaxLimit[q] = ComponentWiseMin(IF limits[q].max # NilResource THEN limits[q].max
                                                  ELSE QueueMaxLimit[ParentOf[q]], Total)
<1> DEFINE D == Resource
           own(q, above) == ComponentWiseMin(IF limits[q].max # NilResource THEN limits[q].max ELSE above, Total)
           g == [q \in QueueSet |-> [r \in D |-> own(q, r)]]
           step(f) == [q \in QueueSet |-> IF q = Root THEN Total ELSE own(q, f[ParentOf[q]])]
<1>0. Root \in QueueSet /\ \A q \in QueueSet \ {Root} : ParentOf[q] \in QueueSet
  BY QueuesAssumption
<1>1. ASSUME NEW q \in QueueSet, NEW r \in Resource
      PROVE  own(q, r) \in Resource
  <2>1. (IF limits[q].max # NilResource THEN limits[q].max ELSE r) \in Resource
    BY DEF LimitInv, LimitsKept, Limited, Maxima
  <2> QED
    BY <2>1, Amounts, MinimumOf
<1>2. Total \in D /\ g \in [QueueSet -> [D -> D]]
  BY <1>1, Amounts
<1>3. QueueMaxLimit = CHOOSE h : h = step(h)
  BY DEF QueueMaxLimit
<1> HIDE DEF own
<1>4. PICK f \in [QueueSet -> D] : /\ f[Root] = Total
                                   /\ \A k \in QueueSet \ {Root} : f[k] = g[k][f[ParentOf[k]]]
  <2> HIDE DEF D, g
  <2> QED
    BY <1>2, RecursionOnQueues
<1>5. f = step(f)
  <2>1. ASSUME NEW q \in QueueSet
        PROVE  f[q] = IF q = Root THEN Total ELSE own(q, f[ParentOf[q]])
    BY <1>0, <1>4
  <2>2. f = [q \in QueueSet |-> f[q]]
    BY <1>4
  <2> QED
    BY <2>1, <2>2
<1>6. QueueMaxLimit = step(QueueMaxLimit)
  <2> HIDE DEF step
  <2> QED
    BY <1>3, <1>5
<1> DEFINE S == { q \in QueueSet : QueueMaxLimit[q] \in D }
<1>7. Root \in S
  BY <1>0, <1>2, <1>6
<1>8. ASSUME NEW q \in QueueSet \ {Root}, ParentOf[q] \in S
      PROVE  q \in S
  <2>1. QueueMaxLimit[q] = own(q, QueueMaxLimit[ParentOf[q]])
    BY <1>6
  <2> QED
    BY <1>1, <1>8, <2>1
<1>9. S = QueueSet
  <2>1. S \in SUBSET QueueSet
    OBVIOUS
  <2> HIDE DEF S
  <2> QED
    BY <1>7, <1>8, <2>1, QueuesInduction
<1>10. \A q \in QueueSet : QueueMaxLimit[q] \in D
  BY <1>9
<1> QED
  BY <1>0, <1>6, <1>10 DEF own

(* The limit that is passed down is at most the total and the maximum of   *)
(* the queue itself, and what the total has above it does not wrap around. *)
LEMMA MaxLimitBounds ==
  ASSUME LimitInv, NEW q \in QueueSet
  PROVE  /\ QueueMaxLimit[q] \in Maxima
         /\ \A k : /\ Value(QueueMaxLimit[q], k) <= Value(Total, k)
                   /\ limits[q].max # NilResource => Value(QueueMaxLimit[q], k) <= Value(limits[q].max, k)
<1> DEFINE S == { p \in QueueSet : QueueMaxLimit[p] \in Maxima }
<1>0. Total \in Resource /\ Total \in Maxima /\ \A p \in QueueSet : limits[p].max \in Maxima \cup {NilResource}
  BY Amounts DEF LimitInv, LimitsKept, Limited
<1>1. ASSUME NEW p \in QueueSet, p # Root
      PROVE  /\ QueueMaxLimit[ParentOf[p]] \in Maxima => QueueMaxLimit[p] \in Maxima
             /\ \A k : /\ Value(QueueMaxLimit[p], k) <= Value(Total, k)
                       /\ limits[p].max # NilResource => Value(QueueMaxLimit[p], k) <= Value(limits[p].max, k)
  <2> DEFINE from == IF limits[p].max # NilResource THEN limits[p].max ELSE QueueMaxLimit[ParentOf[p]]
  <2>1. QueueMaxLimit[p] = ComponentWiseMin(from, Total)
    BY <1>1, MaxLimitUnfold
  <2>2. ParentOf[p] \in QueueSet
    BY <1>1, QueuesAssumption
  <2>3. from \in Resource /\ (QueueMaxLimit[ParentOf[p]] \in Maxima => from \in Maxima)
    BY <1>0, <2>2, MaxLimitUnfold DEF Maxima
  <2>4. limits[p].max # NilResource => from = limits[p].max
    OBVIOUS
  <2> HIDE DEF from
  <2>5. /\ QueueMaxLimit[p] \in Resource
        /\ \A k : Value(QueueMaxLimit[p], k) = IF Value(from, k) <= Value(Total, k) THEN Value(from, k) ELSE Value(Total, k)
    BY <1>0, <2>1, <2>3, MinimumOf
  <2>6. \A k : Value(from, k) \in Int /\ Value(Total, k) \in Int
    BY <1>0, <2>3, ValueType
  <2>7. \A k : Value(QueueMaxLimit[p], k) <= Value(Total, k) /\ Value(QueueMaxLimit[p], k) <= Value(from, k)
    BY <2>5, <2>6
  <2>8. from \in Maxima => QueueMaxLimit[p] \in Maxima
    BY <1>0, <2>5 DEF Maxima
  <2> QED
    BY <2>3, <2>4, <2>7, <2>8
<1>2. /\ QueueMaxLimit[Root] = Total /\ Root \in QueueSet
      /\ limits[Root].max = Total
  BY MaxLimitUnfold, QueuesAssumption DEF LimitInv, LimitsKept
<1>3. S = QueueSet
  <2>1. S \in SUBSET QueueSet /\ Root \in S
    BY <1>0, <1>2
  <2>2. ASSUME NEW p \in QueueSet \ {Root}, ParentOf[p] \in S
        PROVE  p \in S
    BY <1>1, <2>2
  <2> HIDE DEF S
  <2> QED
    BY <2>1, <2>2, QueuesInduction
<1>4. CASE q = Root
  <2>1. \A k : Value(Total, k) \in Int
    BY <1>0, ValueType
  <2> QED
    BY <1>0, <1>2, <1>4, <2>1
<1>5. CASE q # Root
  BY <1>1, <1>3, <1>5
<1> QED
  BY <1>4, <1>5

(* What a queue has left is not wrapped.                                   *)
Left(q, k) == Value(QueueMaxLimit[q], k) - Value(proposing[q], k)

(* What getHeadroomOfQueue starts from: no difference between a limit and  *)
(* what is in use leaves the range of a quantity.                          *)
LEMMA OwnHeadroom ==
  ASSUME LimitInv, NEW q \in QueueSet
  PROVE  /\ Sub(QueueMaxLimit[q], proposing[q]) \in Resource
         /\ \A k : Value(Sub(QueueMaxLimit[q], proposing[q]), k) = Left(q, k) /\ Left(q, k) \in Int
<1>1. QueueMaxLimit[q] \in Resource /\ proposing[q] \in Resource /\ Total \in Resource
  BY MaxLimitUnfold, Amounts DEF LimitInv, Bounded
<1>2. ASSUME NEW k
      PROVE  Left(q, k) \in Quantity /\ Left(q, k) \in Int
  <2>1. /\ Value(QueueMaxLimit[q], k) \in Quantity /\ Value(proposing[q], k) \in Quantity /\ Value(Total, k) \in Quantity
        /\ k \notin ResourceTypes => Value(QueueMaxLimit[q], k) = 0 /\ Value(proposing[q], k) = 0
    BY <1>1, ValueType
  <2>2. Value(QueueMaxLimit[q], k) <= Value(Total, k)
    BY MaxLimitBounds
  <2>3. k \in ResourceTypes => /\ 0 <= Value(proposing[q], k) /\ Value(proposing[q], k) <= Value(Total, k)
                               /\ Value(Total, k) - Value(QueueMaxLimit[q], k) <= QuantityLimit
    BY MaxLimitBounds DEF Maxima, LimitInv, Bounded
  <2> DEFINE most == Value(QueueMaxLimit[q], k)
             inUse == Value(proposing[q], k)
             total == Value(Total, k)
  <2>4. most \in Int /\ inUse \in Int /\ total \in Int /\ total < QuantityLimit /\ QuantityLimit \in Nat \ {0}
    BY <2>1, QuantityAssumption DEF Quantity
  <2>5. CASE k \in ResourceTypes
    <3>1. 0 <= inUse /\ inUse <= total /\ total - most <= QuantityLimit /\ most <= total
      BY <2>2, <2>3, <2>5
    <3> HIDE DEF most, inUse, total
    <3>2. most - inUse \in Int /\ -QuantityLimit <= most - inUse /\ most - inUse < QuantityLimit
      BY <2>4, <3>1
    <3>3. most - inUse \in Quantity
      BY <2>4, <3>2 DEF Quantity
    <3> QED
      BY <3>2, <3>3 DEF Left, most, inUse
  <2>6. CASE k \notin ResourceTypes
    <3>1. Left(q, k) = 0
      BY <2>1, <2>6 DEF Left
    <3> QED
      BY <3>1, <2>4 DEF Quantity
  <2> QED
    BY <2>5, <2>6
<1>3. \A k : Value(Sub(QueueMaxLimit[q], proposing[q]), k) = Wrap(Left(q, k))
  <2>1. ASSUME NEW a \in Resource, NEW b \in Resource, NEW k
        PROVE  Value(Sub(a, b), k) = Wrap(Value(a, k) - Value(b, k))
    BY SumsOf
  <2>2. \A a, b \in Resource : \A k : Value(Sub(a, b), k) = Wrap(Value(a, k) - Value(b, k))
    BY <2>1
  <2>3. QueueMaxLimit[q] \in Resource /\ proposing[q] \in Resource
    BY <1>1
  <2> QED
    BY <2>2, <2>3, Zenon DEF Left
<1>4. \A k : Wrap(Left(q, k)) = Left(q, k)
  BY <1>2, Wrapped
<1> QED
  BY <1>1, <1>2, <1>3, <1>4, SumsOf

(* getHeadroomOfQueue: what the queue has left and what its parent has.    *)
LEMMA HeadroomUnfold ==
  ASSUME LimitInv
  PROVE  /\ Headroom \in [QueueSet -> Resource]
         /\ Headroom[Root] = Sub(QueueMaxLimit[Root], proposing[Root])
         /\ \A q \in QueueSet \ {Root} :
              Headroom[q] = ComponentWiseMin(Sub(QueueMaxLimit[q], proposing[q]), Headroom[ParentOf[q]])
<1> DEFINE D == Resource
           own(q) == Sub(QueueMaxLimit[q], proposing[q])
           root == own(Root)
           g == [q \in QueueSet |-> [r \in D |-> ComponentWiseMin(own(q), r)]]
           step(f) == [q \in QueueSet |-> IF q = Root THEN own(q) ELSE ComponentWiseMin(own(q), f[ParentOf[q]])]
<1>0. Root \in QueueSet /\ \A q \in QueueSet \ {Root} : ParentOf[q] \in QueueSet
  BY QueuesAssumption
<1>1. \A q \in QueueSet : own(q) \in Resource
  BY OwnHeadroom
<1>3. Headroom = CHOOSE h : h = step(h)
  BY DEF Headroom
<1> HIDE DEF own
<1>2. root \in D /\ g \in [QueueSet -> [D -> D]]
  BY <1>0, <1>1, MinimumOf
<1>4. PICK f \in [QueueSet -> D] : /\ f[Root] = root
                                   /\ \A k \in QueueSet \ {Root} : f[k] = g[k][f[ParentOf[k]]]
  <2> HIDE DEF D, g, root
  <2> QED
    BY <1>2, RecursionOnQueues
<1>5. f = step(f)
  <2>1. ASSUME NEW q \in QueueSet
        PROVE  f[q] = IF q = Root THEN own(q) ELSE ComponentWiseMin(own(q), f[ParentOf[q]])
    BY <1>0, <1>4
  <2>2. f = [q \in QueueSet |-> f[q]]
    BY <1>4
  <2> QED
    BY <2>1, <2>2
<1>6. Headroom = step(Headroom)
  <2> HIDE DEF step
  <2> QED
    BY <1>3, <1>5
<1> DEFINE S == { q \in QueueSet : Headroom[q] \in D }
<1>7. Root \in S
  BY <1>0, <1>1, <1>6
<1>8. ASSUME NEW q \in QueueSet \ {Root}, ParentOf[q] \in S
      PROVE  q \in S
  <2>1. Headroom[q] = ComponentWiseMin(own(q), Headroom[ParentOf[q]])
    BY <1>6
  <2> QED
    BY <1>1, <1>8, <2>1, MinimumOf
<1>9. S = QueueSet
  <2>1. S \in SUBSET QueueSet
    OBVIOUS
  <2> HIDE DEF S
  <2> QED
    BY <1>7, <1>8, <2>1, QueuesInduction
<1>10. \A q \in QueueSet : Headroom[q] \in D
  BY <1>9
<1> QED
  BY <1>0, <1>6, <1>10 DEF own

(* The headroom of a queue is covered by every queue that is charged.      *)
LEMMA HeadroomCovers ==
  ASSUME LimitInv, NEW q \in QueueSet
  PROVE  \A p \in Charged(q) : \A k : Value(Headroom[q], k) <= Left(p, k)
<1> DEFINE S == { r \in QueueSet : \A p \in Charged(r) : \A k : Value(Headroom[r], k) <= Left(p, k) }
<1>0. Root \in QueueSet /\ \A r \in QueueSet \ {Root} : ParentOf[r] \in QueueSet
  BY QueuesAssumption
<1>1. Root \in S
  BY <1>0, HeadroomUnfold, OwnHeadroom, ChargedUnfold
<1>2. ASSUME NEW r \in QueueSet \ {Root}, ParentOf[r] \in S
      PROVE  r \in S
  <2> DEFINE own == Sub(QueueMaxLimit[r], proposing[r])
             above == Headroom[ParentOf[r]]
  <2>1. own \in Resource /\ above \in Resource /\ Headroom[r] = ComponentWiseMin(own, above)
    BY <1>0, HeadroomUnfold, OwnHeadroom
  <2>2. \A k : Value(own, k) = Left(r, k)
    BY OwnHeadroom
  <2>3. \A p \in Charged(ParentOf[r]) : \A k : Value(above, k) <= Left(p, k)
    BY <1>2
  <2>4. \A p \in Charged(ParentOf[r]) : p \in QueueSet
    BY <1>0, ChargedUnfold
  <2>5. \A p \in QueueSet : \A k : Left(p, k) \in Int
    BY OwnHeadroom
  <2> HIDE DEF own, above
  <2>6. \A k : Value(own, k) \in Int /\ Value(above, k) \in Int
    BY <2>1, ValueType
  <2>7. \A k : Value(Headroom[r], k) = IF Value(own, k) <= Value(above, k) THEN Value(own, k) ELSE Value(above, k)
    BY <2>1, MinimumOf
  <2>8. \A k : Value(Headroom[r], k) <= Value(own, k) /\ Value(Headroom[r], k) <= Value(above, k) /\ Value(Headroom[r], k) \in Int
    BY <2>6, <2>7
  <2>9. ASSUME NEW p \in Charged(r), NEW k
        PROVE  Value(Headroom[r], k) <= Left(p, k)
    <3>1. CASE p = r
      BY <2>2, <2>8, <3>1
    <3>2. CASE p \in Charged(ParentOf[r])
      BY <2>3, <2>4, <2>5, <2>6, <2>8, <3>2
    <3> QED
      BY <3>1, <3>2, ChargedUnfold
  <2> QED
    BY <2>9
<1>3. S = QueueSet
  <2>1. S \in SUBSET QueueSet
    OBVIOUS
  <2> HIDE DEF S
  <2> QED
    BY <1>1, <1>2, <2>1, QueuesInduction
<1> QED
  BY <1>3

-----------------------------------------------------------------------------
(* Loading a configuration *)

(* A set of positions with 0, and with the next of each one before the     *)
(* last, has all.                                                          *)
LEMMA UpwardInduction ==
  ASSUME NEW n \in Nat, NEW G,
         0 \in G, \A i \in 1 .. n : i - 1 \in G => i \in G
  PROVE  0 .. n \subseteq G
<1> DEFINE bad == { k \in 0 .. n : k \notin G }
<1>1. bad \in SUBSET Nat
  OBVIOUS
<1>2. ASSUME bad # {}
      PROVE  FALSE
  <2> HIDE DEF bad
  <2>1. PICK k \in bad : \A j \in bad : k <= j
    BY <1>1, <1>2, LeastNatural
  <2> USE DEF bad
  <2>2. k \in 0 .. n /\ k \notin G
    BY <2>1
  <2>3. k \in 1 .. n /\ k - 1 \in 0 .. n /\ ~(k <= k - 1)
    BY <2>2
  <2>4. k - 1 \in G
    BY <2>1, <2>3
  <2> QED
    BY <2>2, <2>3, <2>4
<1> QED
  BY <1>2

(* The configuration as it is after the first queues were checked, each    *)
(* state from the one before it.                                           *)
CheckedUpTo(c, f, S) ==
  [n \in S |-> IF n = 0 THEN [ok |-> TRUE, limits |-> c] ELSE CheckQueue(f[n - 1], Queues[n])]

(* The recursion of Checked has a solution.                                *)
LEMMA CheckedSolved ==
  ASSUME NEW c
  PROVE  \E f : f = CheckedUpTo(c, f, 0 .. Len(Queues)) /\ Checked(c) = f[Len(Queues)]
<1> DEFINE len == Len(Queues)
           solved(i) == \E f : f = CheckedUpTo(c, f, 0 .. i)
           G == { i \in 0 .. len : solved(i) }
<1>1. len \in Nat
  BY QueuesAssumption
<1> HIDE DEF len
<1>2. solved(0)
  <2> DEFINE f == [i \in 0 .. 0 |-> [ok |-> TRUE, limits |-> c]]
  <2>1. \A i \in 0 .. 0 : i = 0
    OBVIOUS
  <2>2. f = CheckedUpTo(c, f, 0 .. 0)
    BY <2>1 DEF CheckedUpTo
  <2> QED
    BY <2>2
<1>3. ASSUME NEW m \in 1 .. len, solved(m - 1)
      PROVE  solved(m)
  <2>1. PICK f : f = CheckedUpTo(c, f, 0 .. m - 1)
    BY <1>3
  <2> DEFINE g == [i \in 0 .. m |-> IF i = m THEN CheckQueue(f[m - 1], Queues[m]) ELSE f[i]]
  <2>2. ASSUME NEW i \in 0 .. m
        PROVE  g[i] = IF i = 0 THEN [ok |-> TRUE, limits |-> c] ELSE CheckQueue(g[i - 1], Queues[i])
    <3>1. CASE i = m
      <4>1. m - 1 \in 0 .. m /\ m - 1 # m /\ m # 0
        BY <1>1
      <4>2. g[m - 1] = f[m - 1]
        BY <4>1
      <4> QED
        BY <3>1, <4>1, <4>2
    <3>2. CASE i # m
      <4>1. i \in 0 .. m - 1 /\ g[i] = f[i]
        BY <1>1, <3>2
      <4>2. f[i] = IF i = 0 THEN [ok |-> TRUE, limits |-> c] ELSE CheckQueue(f[i - 1], Queues[i])
        BY <2>1, <4>1 DEF CheckedUpTo
      <4>3. i = 0 \/ (i - 1 \in 0 .. m /\ i - 1 # m)
        BY <1>1, <4>1
      <4>4. i = 0 \/ g[i - 1] = f[i - 1]
        BY <4>3
      <4> QED
        BY <4>1, <4>2, <4>4
    <3> QED
      BY <3>1, <3>2
  <2>3. g = [i \in 0 .. m |-> IF i = 0 THEN [ok |-> TRUE, limits |-> c] ELSE CheckQueue(g[i - 1], Queues[i])]
    BY <2>2
  <2>4. g = CheckedUpTo(c, g, 0 .. m)
    BY <2>3, Zenon DEF CheckedUpTo
  <2> QED
    BY <2>4
<1>4. 0 .. len \subseteq G
  <2> HIDE DEF solved
  <2>1. 0 \in G
    BY <1>1, <1>2
  <2>2. \A i \in 1 .. len : i - 1 \in G => i \in G
    BY <1>1, <1>3
  <2> HIDE DEF G
  <2> QED
    BY <1>1, <2>1, <2>2, UpwardInduction
<1>5. solved(len)
  BY <1>1, <1>4
<1>6. \E f : f = CheckedUpTo(c, f, 0 .. Len(Queues))
  BY <1>5 DEF len
<1> DEFINE upTo == CHOOSE f : f = CheckedUpTo(c, f, 0 .. Len(Queues))
<1>7. upTo = CheckedUpTo(c, upTo, 0 .. Len(Queues))
  BY <1>6
<1>8. Checked(c) = upTo[Len(Queues)]
  BY DEF Checked, CheckedUpTo
<1> QED
  BY <1>7, <1>8

(* A queue that is completed takes over the maximum of its parent or keeps *)
(* its own.                                                                *)
LEMMA CompletedKeepsLimits ==
  ASSUME NEW st, Limited(st.limits), "max" \in DOMAIN st.limits[Root], NEW q \in QueueSet
  PROVE  LET l == CheckQueue(st, q).limits IN Limited(l) /\ "max" \in DOMAIN l[Root]
<1> DEFINE old == st.limits
           own == [max |-> CompleteMax(old, q), guaranteed |-> CompleteGuaranteed(old, q)]
           l == [old EXCEPT ![q] = own]
<1>1. CheckQueue(st, q).limits = l
  BY DEF CheckQueue
<1>2. CompleteMax(old, q) \in Maxima \cup {NilResource}
  BY QueuesAssumption DEF CompleteMax, Limited
<1>3. own.max \in Maxima \cup {NilResource} /\ "max" \in DOMAIN own
  BY <1>2
<1> HIDE DEF own
<1>4. DOMAIN l = QueueSet /\ \A p \in QueueSet : l[p] = IF p = q THEN own ELSE old[p]
  BY DEF Limited
<1>5. Root \in QueueSet
  BY QueuesAssumption
<1> HIDE DEF l
<1>6. Limited(l) /\ "max" \in DOMAIN l[Root]
  BY <1>3, <1>4, <1>5 DEF Limited
<1> QED
  BY <1>1, <1>6

(* What a configuration is completed to has maxima that are configured.    *)
LEMMA CheckedKeepsLimits ==
  ASSUME NEW c \in Configs
  PROVE  Limited(Checked(c).limits) /\ "max" \in DOMAIN Checked(c).limits[Root]
<1> DEFINE len == Len(Queues)
<1>1. PICK f : f = CheckedUpTo(c, f, 0 .. len) /\ Checked(c) = f[len]
  BY CheckedSolved
<1> DEFINE G == { n \in 0 .. len : Limited(f[n].limits) /\ "max" \in DOMAIN f[n].limits[Root] }
<1>2. len \in Nat /\ \A n \in 1 .. len : Queues[n] \in QueueSet
  BY QueuesAssumption
<1> HIDE DEF len
<1>3. 0 \in G
  <2>1. 0 \in 0 .. len /\ f[0] = [ok |-> TRUE, limits |-> c]
    BY <1>1, <1>2 DEF CheckedUpTo
  <2>2. DOMAIN c = QueueSet /\ c[Root] = [max |-> NilResource, guaranteed |-> NilResource]
    BY QueuesAssumption
  <2>3. Limited(c) /\ "max" \in DOMAIN c[Root]
    BY <2>2, Amounts DEF Limited
  <2> QED
    BY <2>1, <2>3
<1>4. ASSUME NEW n \in 1 .. len, n - 1 \in G
      PROVE  n \in G
  <2>1. f[n] = CheckQueue(f[n - 1], Queues[n])
    <3>1. n \in 0 .. len /\ n # 0
      BY <1>2
    <3> QED
      BY <1>1, <3>1 DEF CheckedUpTo
  <2>2. Limited(f[n - 1].limits) /\ "max" \in DOMAIN f[n - 1].limits[Root]
    BY <1>4
  <2> QED
    BY <1>2, <2>1, <2>2, CompletedKeepsLimits
<1>5. len \in G
  <2> HIDE DEF G
  <2>1. 0 .. len \subseteq G
    BY <1>2, <1>3, <1>4, UpwardInduction
  <2> QED
    BY <1>2, <2>1
<1> QED
  BY <1>1, <1>5

-----------------------------------------------------------------------------
(* What is charged above a leaf is the sum of what is charged to leaves    *)

(* What the queue at place n adds to the counter of p, type k.             *)
LeafPart(counters, p, k, n) ==
  IF Queues[n] \in Leaves /\ p \in Charged(Queues[n]) THEN Value(counters[Queues[n]], k) ELSE 0

(* sum[n] is what the first n queues add; all of them make the counter.    *)
SumsUp(sum, counters, p, k) ==
  /\ sum \in [0 .. Len(Queues) -> Int]
  /\ sum[0] = 0
  /\ \A n \in 1 .. Len(Queues) : sum[n] = sum[n - 1] + LeafPart(counters, p, k, n)
  /\ sum[Len(Queues)] = Value(counters[p], k)

Accounted(counters) ==
  \A p \in QueueSet, k \in ResourceTypes : \E sum : SumsUp(sum, counters, p, k)

(* Everything counts for the root.                                         *)
LEMMA RootCharged ==
  ASSUME NEW q \in QueueSet
  PROVE  Root \in Charged(q)
<1> DEFINE S == { r \in QueueSet : Root \in Charged(r) }
<1>1. Root \in S
  BY ChargedUnfold, QueuesAssumption
<1>2. ASSUME NEW r \in QueueSet \ {Root}, ParentOf[r] \in S
      PROVE  r \in S
  BY <1>2, ChargedUnfold
<1>3. S = QueueSet
  <2>1. S \in SUBSET QueueSet
    OBVIOUS
  <2> HIDE DEF S
  <2> QED
    BY <1>1, <1>2, <2>1, QueuesInduction
<1> QED
  BY <1>3

(* No leaf is above another queue.                                         *)
LEMMA LeavesApart ==
  ASSUME NEW p \in Leaves, NEW q \in QueueSet, p \in Charged(q)
  PROVE  p = q
<1> DEFINE S == { r \in QueueSet : p \in Charged(r) => p = r }
<1>0. \A r \in QueueSet \ {Root} : ParentOf[r] \in QueueSet
  BY QueuesAssumption
<1>1. Root \in S
  BY ChargedUnfold, QueuesAssumption
<1>2. ASSUME NEW r \in QueueSet \ {Root}, ParentOf[r] \in S
      PROVE  r \in S
  <2>1. r \in Children(ParentOf[r])
    BY DEF Children
  <2>2. p # ParentOf[r]
    BY <2>1 DEF Leaves
  <2> QED
    BY <1>2, <2>2, ChargedUnfold
<1>3. S = QueueSet
  <2>1. S \in SUBSET QueueSet
    OBVIOUS
  <2> HIDE DEF S
  <2> QED
    BY <1>1, <1>2, <2>1, QueuesInduction
<1> QED
  BY <1>3

(* So no queue has more than the root, as long as no leaf has less than 0. *)
LEMMA RootHasMost ==
  ASSUME NEW c \in [QueueSet -> Resource], Accounted(c), NEW k \in ResourceTypes,
         \A q \in Leaves : Value(c[q], k) >= 0,
         NEW p \in QueueSet
  PROVE  Value(c[p], k) <= Value(c[Root], k)
<1> DEFINE len == Len(Queues)
<1>1. len \in Nat /\ \A n \in 1 .. len : Queues[n] \in QueueSet
  BY QueuesAssumption
<1>2. Root \in QueueSet
  BY QueuesAssumption
<1>3. PICK f : SumsUp(f, c, p, k)
  BY DEF Accounted
<1>4. PICK g : SumsUp(g, c, Root, k)
  BY <1>2 DEF Accounted
<1> DEFINE G == { n \in 0 .. len : f[n] <= g[n] }
<1>5. /\ f \in [0 .. len -> Int] /\ f[0] = 0 /\ f[len] = Value(c[p], k)
      /\ \A n \in 1 .. len : f[n] = f[n - 1] + LeafPart(c, p, k, n)
      /\ g \in [0 .. len -> Int] /\ g[0] = 0 /\ g[len] = Value(c[Root], k)
      /\ \A n \in 1 .. len : g[n] = g[n - 1] + LeafPart(c, Root, k, n)
  BY <1>3, <1>4 DEF SumsUp
<1>6. ASSUME NEW n \in 1 .. len
      PROVE  /\ LeafPart(c, p, k, n) <= LeafPart(c, Root, k, n)
             /\ LeafPart(c, p, k, n) \in Int /\ LeafPart(c, Root, k, n) \in Int
  <2>1. Queues[n] \in QueueSet /\ Root \in Charged(Queues[n]) /\ c[Queues[n]] \in Resource
    BY <1>1, RootCharged
  <2>2. Value(c[Queues[n]], k) \in Int
    BY <2>1, ValueType
  <2> QED
    BY <2>1, <2>2 DEF LeafPart
<1> HIDE DEF len
<1>7. 0 \in G
  BY <1>1, <1>5
<1>8. ASSUME NEW n \in 1 .. len, n - 1 \in G
      PROVE  n \in G
  <2>1. /\ f[n - 1] \in Int /\ g[n - 1] \in Int /\ f[n - 1] <= g[n - 1]
        /\ n \in 0 .. len
    BY <1>1, <1>5, <1>8
  <2>2. f[n] = f[n - 1] + LeafPart(c, p, k, n) /\ g[n] = g[n - 1] + LeafPart(c, Root, k, n)
    BY <1>5
  <2>3. f[n] <= g[n]
    BY <1>6, <2>1, <2>2
  <2> QED
    BY <2>1, <2>3
<1>9. len \in G
  <2> HIDE DEF G
  <2>1. 0 .. len \subseteq G
    BY <1>1, <1>7, <1>8, UpwardInduction
  <2> QED
    BY <1>1, <2>1
<1> QED
  BY <1>5, <1>9

(* Charging a leaf and all above it keeps the accounts, and so does giving *)
(* something back.                                                         *)
LEMMA AccountsMove ==
  ASSUME NEW c \in [QueueSet -> Resource], NEW e \in [QueueSet -> Resource], Accounted(c),
         NEW q \in Leaves, NEW d \in [ResourceTypes -> Int],
         \A p \in QueueSet, k \in ResourceTypes :
           Value(e[p], k) = Value(c[p], k) + (IF p \in Charged(q) THEN d[k] ELSE 0)
  PROVE  Accounted(e)
<1> DEFINE len == Len(Queues)
<1>1. len \in Nat /\ \A n \in 1 .. len : Queues[n] \in QueueSet
  BY QueuesAssumption
<1>2. PICK i \in 1 .. len : Queues[i] = q
  BY QueuesAssumption DEF QueueSet, Range, Leaves
<1>3. \A n \in 1 .. len : Queues[n] = q <=> n = i
  BY <1>2, QueuesAssumption
<1>4. q \in QueueSet /\ q \in Charged(q)
  BY ChargedUnfold DEF Leaves
<1>5. ASSUME NEW p \in QueueSet, NEW k \in ResourceTypes
      PROVE  \E sum : SumsUp(sum, e, p, k)
  <2>1. PICK f : SumsUp(f, c, p, k)
    BY DEF Accounted
  <2> DEFINE more == IF p \in Charged(q) THEN d[k] ELSE 0
             g == [n \in 0 .. len |-> IF i <= n THEN f[n] + more ELSE f[n]]
  <2>2. more \in Int
    OBVIOUS
  <2>3. /\ f \in [0 .. len -> Int] /\ f[0] = 0 /\ f[len] = Value(c[p], k)
        /\ \A n \in 1 .. len : f[n] = f[n - 1] + LeafPart(c, p, k, n)
    BY <2>1 DEF SumsUp
  <2>4. Value(e[p], k) = Value(c[p], k) + more
    OBVIOUS
  <2>5. ASSUME NEW n \in 1 .. len
        PROVE  /\ LeafPart(e, p, k, n) = LeafPart(c, p, k, n) + (IF n = i THEN more ELSE 0)
               /\ LeafPart(c, p, k, n) \in Int
    <3> DEFINE r == Queues[n]
    <3>1. r \in QueueSet /\ c[r] \in Resource /\ e[r] \in Resource
      BY <1>1
    <3>2. Value(c[r], k) \in Int /\ Value(e[r], k) \in Int
      BY <3>1, ValueType
    <3>3. Value(e[r], k) = Value(c[r], k) + (IF r \in Charged(q) THEN d[k] ELSE 0)
      BY <3>1
    <3>4. r \in Leaves => (r \in Charged(q) <=> n = i)
      BY <1>3, <1>4, LeavesApart
    <3> QED
      BY <1>3, <3>2, <3>3, <3>4 DEF LeafPart
  <2> HIDE DEF more, len
  <2>6. g \in [0 .. len -> Int] /\ g[0] = 0 /\ g[len] = f[len] + more
    BY <1>1, <1>2, <2>2, <2>3
  <2>7. ASSUME NEW n \in 1 .. len
        PROVE  g[n] = g[n - 1] + LeafPart(e, p, k, n)
    <3>1. n - 1 \in 0 .. len /\ n \in 0 .. len /\ i \in Int
      BY <1>1, <1>2
    <3>2. f[n] = f[n - 1] + LeafPart(c, p, k, n) /\ f[n - 1] \in Int /\ f[n] \in Int
      BY <2>3, <3>1
    <3>3. /\ g[n] = IF i <= n THEN f[n] + more ELSE f[n]
          /\ g[n - 1] = IF i <= n - 1 THEN f[n - 1] + more ELSE f[n - 1]
      BY <3>1
    <3> HIDE DEF g
    <3> QED
      BY <2>2, <2>5, <3>1, <3>2, <3>3
  <2>8. SumsUp(g, e, p, k)
    BY <2>3, <2>4, <2>6, <2>7 DEF SumsUp, len
  <2> QED
    BY <2>8
<1> QED
  BY <1>5 DEF Accounted

-----------------------------------------------------------------------------
(* Selections, charges and releases                                        *)

(* What fits the headroom of a queue does not wrap around in any counter it*)
(* is charged to, and stays within the limit of that queue for every type  *)
(* that is asked for.                                                      *)
LEMMA SelectionFits ==
  ASSUME LimitInv, NEW q \in QueueSet, NEW ask \in Asks, AskFits(q, ask), NEW p \in Charged(q)
  PROVE  /\ p \in QueueSet /\ Add(proposing[p], ask) \in Resource
         /\ \A k : /\ Value(Add(proposing[p], ask), k) = Value(proposing[p], k) + Value(ask, k)
                   /\ Value(ask, k) > 0 => Value(Add(proposing[p], ask), k) <= Value(QueueMaxLimit[p], k)
<1>1. p \in QueueSet /\ ask \in Resource /\ proposing[p] \in Resource /\ Headroom[q] \in Resource
      /\ QueueMaxLimit[p] \in Resource /\ Total \in Resource
  BY ChargedUnfold, Amounts, HeadroomUnfold, MaxLimitUnfold DEF LimitInv, Bounded
<1>2. Add(proposing[p], ask) \in Resource
  BY <1>1, SumsOf
<1>3. ASSUME NEW k
      PROVE  /\ Value(Add(proposing[p], ask), k) = Value(proposing[p], k) + Value(ask, k)
             /\ Value(ask, k) > 0 => Value(Add(proposing[p], ask), k) <= Value(QueueMaxLimit[p], k)
  <2> DEFINE u == Value(proposing[p], k)
             a == Value(ask, k)
             most == Value(QueueMaxLimit[p], k)
             total == Value(Total, k)
             left == Value(Headroom[q], k)
  <2>1. /\ u \in Int /\ a \in Int /\ most \in Int /\ total \in Int /\ left \in Int
        /\ u \in Quantity /\ total \in Quantity
    BY <1>1, ValueType
  <2>2. a >= 0
    BY Amounts
  <2>3. u >= 0
    <3>1. k \in ResourceTypes => u >= 0
      BY <1>1, <2>1 DEF LimitInv, Bounded
    <3>2. k \notin ResourceTypes => u = 0
      BY <1>1, ValueType
    <3> QED
      BY <3>1, <3>2
  <2>4. left <= most - u
    BY HeadroomCovers DEF Left
  <2>5. a > 0 => a <= left
    <3>1. \A i \in DOMAIN ask : ask[i] <= 0 \/ ask[i] <= Value(Headroom[q], i)
      BY <1>1, Fits DEF AskFits
    <3> QED
      BY <2>1, <3>1 DEF Value
  <2>6. most <= total
    BY <1>1, MaxLimitBounds
  <2>7. Value(Add(proposing[p], ask), k) = Wrap(u + a)
    <3>1. \A x, y \in Resource : Value(Add(x, y), k) = Wrap(Value(x, k) + Value(y, k))
      BY SumsOf
    <3> QED
      BY <1>1, <3>1, Zenon
  <2> HIDE DEF u, a, most, total, left
  <2>8. u + a \in Quantity /\ (a > 0 => u + a <= most)
    <3>1. CASE a = 0
      BY <2>1, <3>1
    <3>2. CASE a > 0
      <4>1. u + a \in Int /\ u + a <= most /\ u + a <= total /\ u + a >= 0
        BY <2>1, <2>3, <2>4, <2>5, <2>6, <3>2
      <4>2. u + a \in Quantity
        BY <2>1, <4>1, QuantityAssumption DEF Quantity
      <4> QED
        BY <4>1, <4>2
    <3> QED
      BY <2>1, <2>2, <3>1, <3>2
  <2>9. Wrap(u + a) = u + a
    BY <2>8, Wrapped
  <2> QED
    BY <2>7, <2>8, <2>9 DEF u, a, most
<1> QED
  BY <1>1, <1>2, <1>3

(* So nothing is selected of which the partition does not have enough.     *)
LEMMA SelectionInTotal ==
  ASSUME LimitInv, NEW q \in QueueSet, NEW ask \in Asks, AskFits(q, ask), NEW k \in ResourceTypes
  PROVE  Value(ask, k) <= Value(Total, k)
<1>1. q \in Charged(q) /\ ask \in Resource /\ Total \in Resource /\ proposing[q] \in Resource
      /\ QueueMaxLimit[q] \in Resource
  BY ChargedUnfold, Amounts, MaxLimitUnfold DEF LimitInv, Bounded
<1>2. /\ Value(ask, k) \in Int /\ Value(Total, k) \in Int /\ Value(proposing[q], k) \in Int
      /\ Value(QueueMaxLimit[q], k) \in Int
  BY <1>1, ValueType
<1>3. Value(proposing[q], k) >= 0 /\ Value(Total, k) >= 0
  BY Amounts DEF LimitInv, Bounded
<1>4. Value(QueueMaxLimit[q], k) <= Value(Total, k)
  BY MaxLimitBounds
<1>5. Value(ask, k) > 0 => Value(proposing[q], k) + Value(ask, k) <= Value(QueueMaxLimit[q], k)
  <2>1. /\ Value(Add(proposing[q], ask), k) = Value(proposing[q], k) + Value(ask, k)
        /\ Value(ask, k) > 0 => Value(Add(proposing[q], ask), k) <= Value(QueueMaxLimit[q], k)
    BY <1>1, SelectionFits
  <2> QED
    BY <2>1
<1> QED
  BY <1>2, <1>3, <1>4, <1>5

(* Adding something that the partition has to counters that are within its *)
(* total does not wrap around.                                             *)
LEMMA Added ==
  ASSUME NEW c, Bounded(c), NEW q \in QueueSet, NEW ask \in Asks,
         \A k \in ResourceTypes : Value(ask, k) <= Value(Total, k)
  PROVE  /\ AddTo(c, q, ask) \in [QueueSet -> Resource]
         /\ \A p \in QueueSet, k \in ResourceTypes :
              Value(AddTo(c, q, ask)[p], k) = Value(c[p], k) + (IF p \in Charged(q) THEN Value(ask, k) ELSE 0)
<1>1. ask \in Resource /\ Total \in Resource /\ \A p \in QueueSet : c[p] \in Resource
  BY Amounts DEF Bounded
<1>2. \A p \in QueueSet : Add(c[p], ask) \in Resource
  BY <1>1, SumsOf
<1>3. AddTo(c, q, ask) \in [QueueSet -> Resource]
  BY <1>1, <1>2 DEF AddTo
<1>4. ASSUME NEW p \in QueueSet, NEW k \in ResourceTypes
      PROVE  Value(AddTo(c, q, ask)[p], k) = Value(c[p], k) + (IF p \in Charged(q) THEN Value(ask, k) ELSE 0)
  <2> DEFINE u == Value(c[p], k)
             a == Value(ask, k)
             total == Value(Total, k)
  <2>1. u \in Int /\ a \in Int /\ total \in Int
    BY <1>1, ValueType
  <2>2. 0 <= u /\ u <= total /\ 0 <= a /\ a <= total
    BY Amounts DEF Bounded
  <2>3. total + total \in Quantity
    BY AmountsAssumption
  <2>4. AddTo(c, q, ask)[p] = IF p \in Charged(q) THEN Add(c[p], ask) ELSE c[p]
    BY DEF AddTo
  <2>5. Value(Add(c[p], ask), k) = Wrap(u + a)
    <3>1. \A x, y \in Resource : Value(Add(x, y), k) = Wrap(Value(x, k) + Value(y, k))
      BY SumsOf
    <3> QED
      BY <1>1, <3>1, Zenon
  <2> HIDE DEF u, a, total
  <2>6. u + a \in Quantity
    BY <2>1, <2>2, <2>3, QuantityAssumption DEF Quantity
  <2>7. Wrap(u + a) = u + a
    BY <2>6, Wrapped
  <2>8. CASE p \in Charged(q)
    BY <2>4, <2>5, <2>7, <2>8 DEF u, a
  <2>9. CASE p \notin Charged(q)
    <3>1. AddTo(c, q, ask)[p] = c[p] /\ u + 0 = u
      BY <2>1, <2>4, <2>9
    <3> QED
      BY <2>9, <3>1 DEF u
  <2> QED
    BY <2>8, <2>9
<1> QED
  BY <1>3, <1>4

(* What fits every counter on the way up does not wrap around when it is   *)
(* given back.                                                             *)
LEMMA Taken ==
  ASSUME NEW c, Bounded(c), NEW q \in QueueSet, NEW ask \in Asks,
         \A p \in Charged(q) : FitIn(c[p], ask)
  PROVE  /\ TakeFrom(c, q, ask) \in [QueueSet -> Resource]
         /\ \A p \in QueueSet, k \in ResourceTypes :
              /\ Value(TakeFrom(c, q, ask)[p], k) = Value(c[p], k) - (IF p \in Charged(q) THEN Value(ask, k) ELSE 0)
              /\ Value(TakeFrom(c, q, ask)[p], k) >= 0
<1>1. ask \in Resource /\ Total \in Resource /\ \A p \in QueueSet : c[p] \in Resource
  BY Amounts DEF Bounded
<1>2. \A p \in QueueSet : Sub(c[p], ask) \in Resource
  BY <1>1, SumsOf
<1>3. TakeFrom(c, q, ask) \in [QueueSet -> Resource]
  BY <1>1, <1>2 DEF TakeFrom
<1>4. ASSUME NEW p \in QueueSet, NEW k \in ResourceTypes
      PROVE  /\ Value(TakeFrom(c, q, ask)[p], k) = Value(c[p], k) - (IF p \in Charged(q) THEN Value(ask, k) ELSE 0)
             /\ Value(TakeFrom(c, q, ask)[p], k) >= 0
  <2> DEFINE u == Value(c[p], k)
             a == Value(ask, k)
  <2>1. u \in Int /\ a \in Int /\ u \in Quantity
    BY <1>1, ValueType
  <2>2. 0 <= u /\ 0 <= a
    BY Amounts DEF Bounded
  <2>3. TakeFrom(c, q, ask)[p] = IF p \in Charged(q) THEN Sub(c[p], ask) ELSE c[p]
    BY DEF TakeFrom
  <2>4. CASE p \in Charged(q)
    <3>1. Value(Sub(c[p], ask), k) = Wrap(u - a)
      <4>1. \A x, y \in Resource : Value(Sub(x, y), k) = Wrap(Value(x, k) - Value(y, k))
        BY SumsOf
      <4> QED
        BY <1>1, <4>1, Zenon
    <3>2. \A i \in DOMAIN ask : ask[i] <= 0 \/ ask[i] <= Value(c[p], i)
      BY <1>1, <2>4, Fits
    <3>3. a > 0 => a <= u
      BY <2>1, <3>2 DEF Value
    <3> HIDE DEF u, a
    <3>4. u - a \in Quantity /\ u - a >= 0
      BY <2>1, <2>2, <3>3, QuantityAssumption DEF Quantity
    <3>5. Wrap(u - a) = u - a
      BY <3>4, Wrapped
    <3> QED
      BY <2>3, <2>4, <3>1, <3>4, <3>5 DEF u, a
  <2>5. CASE p \notin Charged(q)
    <3>1. TakeFrom(c, q, ask)[p] = c[p] /\ u - 0 = u
      BY <2>1, <2>3, <2>5
    <3> QED
      BY <2>2, <2>5, <3>1 DEF u
  <2> QED
    BY <2>4, <2>5
<1> QED
  BY <1>3, <1>4

-----------------------------------------------------------------------------
(* The cache's counters: they are within the total because the root's is,  *)
(* which no other exceeds.                                                 *)
UsedInv == Bounded(used) /\ Accounted(used)

Proposal == [queue : Leaves, ask : Asks, current : BOOLEAN]

ProposalsTyped ==
  /\ unread \in SUBSET QueueSet /\ current \in BOOLEAN
  /\ proposals \in Seq(Proposal)
  /\ \A i \in 1 .. Len(proposals), k \in ResourceTypes : Value(proposals[i].ask, k) <= Value(Total, k)

(* Counters that are in order and that the root keeps within the total.    *)
LEMMA RootBounds ==
  ASSUME NEW c \in [QueueSet -> Resource], Accounted(c),
         \A q \in QueueSet, k \in ResourceTypes : Value(c[q], k) >= 0,
         \A k \in ResourceTypes : Value(c[Root], k) <= Value(Total, k)
  PROVE  Bounded(c)
<1>1. ASSUME NEW p \in QueueSet, NEW k \in ResourceTypes
      PROVE  Value(c[p], k) <= Value(Total, k)
  <2>1. Value(c[p], k) <= Value(c[Root], k)
    BY RootHasMost DEF Leaves
  <2>2. c[p] \in Resource /\ c[Root] \in Resource /\ Total \in Resource
    BY Amounts, QueuesAssumption
  <2>3. Value(c[p], k) \in Int /\ Value(c[Root], k) \in Int /\ Value(Total, k) \in Int
    BY <2>2, ValueType
  <2> QED
    BY <2>1, <2>3
<1> QED
  BY <1>1 DEF Bounded

(* A proposal is charged without a counter passing the total.              *)
LEMMA ChargeKeepsUsed ==
  ASSUME UsedInv, LimitsKept, NEW q \in Leaves, NEW ask \in Asks,
         \A k \in ResourceTypes : Value(ask, k) <= Value(Total, k),
         ChargeAccepted(q, ask), used' = AddTo(used, q, ask)
  PROVE  /\ UsedInv'
         /\ \A p \in QueueSet, k \in ResourceTypes :
              Value(used'[p], k) = Value(used[p], k) + (IF p \in Charged(q) THEN Value(ask, k) ELSE 0)
<1> DEFINE d == [k \in ResourceTypes |-> Value(ask, k)]
<1>1. q \in QueueSet /\ ask \in Resource /\ Root \in QueueSet /\ Total \in Resource
  BY Amounts, QueuesAssumption DEF Leaves
<1>2. /\ used' \in [QueueSet -> Resource]
      /\ \A p \in QueueSet, k \in ResourceTypes :
           Value(used'[p], k) = Value(used[p], k) + (IF p \in Charged(q) THEN Value(ask, k) ELSE 0)
  BY <1>1, Added DEF UsedInv
<1>3. d \in [ResourceTypes -> Int]
  BY <1>1, ValueType
<1>4. Accounted(used')
  <2>1. \A p \in QueueSet, k \in ResourceTypes :
          Value(used'[p], k) = Value(used[p], k) + (IF p \in Charged(q) THEN d[k] ELSE 0)
    BY <1>2
  <2>2. used \in [QueueSet -> Resource] /\ Accounted(used)
    BY DEF UsedInv, Bounded
  <2> HIDE DEF d
  <2> QED
    BY <1>2, <1>3, <2>1, <2>2, AccountsMove
<1>5. ASSUME NEW p \in QueueSet, NEW k \in ResourceTypes
      PROVE  Value(used'[p], k) >= 0
  <2>1. used[p] \in Resource /\ Value(used[p], k) >= 0 /\ Value(ask, k) >= 0
    BY Amounts DEF UsedInv, Bounded
  <2>2. Value(used[p], k) \in Int /\ Value(ask, k) \in Int
    BY <1>1, <2>1, ValueType
  <2> QED
    BY <1>2, <2>1, <2>2
<1>6. ASSUME NEW k \in ResourceTypes
      PROVE  Value(used'[Root], k) <= Value(Total, k)
  <2> DEFINE sum == used'[Root]
  <2>1. Root \in Charged(q)
    BY <1>1, RootCharged
  <2>2. sum = Add(used[Root], ask)
    BY <1>1, <2>1 DEF AddTo
  <2>3. limits[Root].max = Total /\ Total # NilResource
    BY <1>1, QuantityAssumption DEF LimitsKept
  <2>4. FitIn(Total, sum)
    BY <2>1, <2>2, <2>3 DEF ChargeAccepted
  <2>5. sum \in Resource
    BY <1>1, <1>2
  <2> HIDE DEF sum
  <2>6. \A i \in DOMAIN sum : sum[i] <= 0 \/ sum[i] <= Value(Total, i)
    BY <1>1, <2>4, <2>5, Fits
  <2>7. Value(sum, k) \in Int /\ Value(Total, k) \in Int /\ Value(Total, k) >= 0
    BY <1>1, <2>5, Amounts, ValueType
  <2>8. Value(sum, k) <= Value(Total, k)
    BY <2>6, <2>7 DEF Value
  <2> QED
    BY <2>8 DEF sum
<1>7. Bounded(used')
  BY <1>2, <1>4, <1>5, <1>6, RootBounds
<1> QED
  BY <1>2, <1>4, <1>7 DEF UsedInv, Bounded, Accounted, SumsUp, LeafPart

(* Giving back keeps the accounts, and no counter rises.                   *)
LEMMA ReleaseKeepsUsed ==
  ASSUME UsedInv, NEW q \in Leaves, NEW ask \in Asks, Release(q, ask)
  PROVE  /\ UsedInv'
         /\ \A p \in QueueSet, k \in ResourceTypes : Value(used'[p], k) <= Value(used[p], k)
<1>0. /\ q \in QueueSet /\ ask \in Resource /\ Root \in QueueSet /\ Total \in Resource
      /\ \A p \in QueueSet : used[p] \in Resource
  BY Amounts, QueuesAssumption DEF Leaves, UsedInv, Bounded
<1>1. CASE \A p \in Charged(q) : FitIn(used[p], ask)
  <2> DEFINE d == [k \in ResourceTypes |-> -Value(ask, k)]
  <2>1. used' = TakeFrom(used, q, ask)
    BY <1>1 DEF Release
  <2>2. /\ used' \in [QueueSet -> Resource]
        /\ \A p \in QueueSet, k \in ResourceTypes :
             /\ Value(used'[p], k) = Value(used[p], k) - (IF p \in Charged(q) THEN Value(ask, k) ELSE 0)
             /\ Value(used'[p], k) >= 0
    BY <1>0, <1>1, <2>1, Taken DEF UsedInv
  <2>3. \A k \in ResourceTypes : Value(ask, k) \in Int /\ Value(ask, k) >= 0
    BY <1>0, ValueType, Amounts
  <2>4. \A p \in QueueSet, k \in ResourceTypes : Value(used[p], k) \in Int /\ Value(used'[p], k) \in Int
    BY <1>0, <2>2, ValueType
  <2>5. d \in [ResourceTypes -> Int]
    BY <2>3
  <2>6. \A p \in QueueSet, k \in ResourceTypes :
          Value(used'[p], k) = Value(used[p], k) + (IF p \in Charged(q) THEN d[k] ELSE 0)
    BY <2>2, <2>3, <2>4
  <2>7. Accounted(used')
    <3>1. used \in [QueueSet -> Resource] /\ Accounted(used)
      BY DEF UsedInv, Bounded
    <3> HIDE DEF d
    <3> QED
      BY <2>2, <2>5, <2>6, <3>1, AccountsMove
  <2>8. \A p \in QueueSet, k \in ResourceTypes : Value(used'[p], k) <= Value(used[p], k)
    BY <2>2, <2>3, <2>4
  <2>9. \A k \in ResourceTypes : Value(used'[Root], k) <= Value(Total, k)
    <3>1. \A k \in ResourceTypes : Value(used[Root], k) <= Value(Total, k) /\ Value(Total, k) \in Int
      BY <1>0, ValueType DEF UsedInv, Bounded
    <3> QED
      BY <1>0, <2>4, <2>8, <3>1
  <2>10. Bounded(used')
    BY <2>2, <2>7, <2>9, RootBounds
  <2> QED
    BY <2>7, <2>8, <2>10 DEF UsedInv, Bounded, Accounted, SumsUp, LeafPart
<1>2. CASE ~\A p \in Charged(q) : FitIn(used[p], ask)
  <2>1. used' = used
    BY <1>2 DEF Release
  <2>2. \A p \in QueueSet, k \in ResourceTypes : Value(used[p], k) \in Int
    BY <1>0, ValueType
  <2> QED
    BY <2>1, <2>2 DEF UsedInv, Bounded, Accounted, SumsUp, LeafPart
<1> QED
  BY <1>1, <1>2

-----------------------------------------------------------------------------
(* What the scheduler had counted when it selected: as long as its rounds  *)
(* begin with all proposals taken up, its counters cover those of the cache*)
(* with every proposal that is on its way.  counted[i] is for each queue   *)
(* and type what was counted right after the i-th of these was selected,   *)
(* and counted[0] is what the cache has.                                   *)
Counts == [QueueSet -> [ResourceTypes -> Int]]

CountsOf(counters) == [p \in QueueSet |-> [k \in ResourceTypes |-> Value(counters[p], k)]]

(* A selection adds what was asked for, within the maximum of every queue. *)
Leads(before, s, after) ==
  \A p \in QueueSet, k \in ResourceTypes :
    /\ before[p][k] + (IF p \in Charged(s.queue) THEN Value(s.ask, k) ELSE 0) <= after[p][k]
    /\ p \in Charged(s.queue) /\ Value(s.ask, k) > 0 => after[p][k] <= Value(QueueMaxLimit[p], k)

Covers(counted) ==
  /\ counted \in [0 .. Len(proposals) -> Counts]
  /\ counted[0] = CountsOf(used)
  /\ \A i \in 1 .. Len(proposals) : proposals[i].current =>
       /\ Leads(counted[i - 1], proposals[i], counted[i])
       /\ i > 1 => proposals[i - 1].current
  /\ current =>
       /\ \A i \in 1 .. Len(proposals) : proposals[i].current
       /\ unread # {} => Len(proposals) = 0
       /\ \A p \in QueueSet \ unread, k \in ResourceTypes :
            counted[Len(proposals)][p][k] <= Value(proposing[p], k)

Covered == \E counted : Covers(counted)

RoundInv == LimitInv /\ UsedInv /\ ProposalsTyped /\ Covered

(* The values of counters are numbers.                                     *)
LEMMA CountsType ==
  ASSUME NEW c \in [QueueSet -> Resource]
  PROVE  CountsOf(c) \in Counts
BY ValueType DEF CountsOf, Counts

(* What is passed down from the limits does not change before they do.     *)
LEMMA SameMaxLimit ==
  ASSUME limits' = limits
  PROVE  QueueMaxLimit' = QueueMaxLimit
BY DEF QueueMaxLimit

(* The proposal that is next passes the checks of the cache.               *)
LEMMA NextIsAccepted ==
  ASSUME RoundInv
  PROVE  SelectionsAccepted
<1> SUFFICES ASSUME proposals # <<>>, Head(proposals).current,
                    \A q \in QueueSet, k \in ResourceTypes : Within(q, k),
                    NEW p \in Charged(Head(proposals).queue), limits[p].max # NilResource
             PROVE  FitIn(limits[p].max, Add(used[p], Head(proposals).ask))
  BY Zenon DEF SelectionsAccepted, ChargeAccepted
<1> DEFINE q == proposals[1].queue
           ask == proposals[1].ask
           sum == AddTo(used, q, ask)[p]
           max == limits[p].max
<1>1. /\ 1 \in 1 .. Len(proposals) /\ Head(proposals) = proposals[1] /\ proposals[1] \in Proposal
  BY DEF RoundInv, ProposalsTyped
<1>2. /\ q \in Leaves /\ q \in QueueSet /\ ask \in Asks
      /\ \A k \in ResourceTypes : Value(ask, k) <= Value(Total, k)
  BY <1>1 DEF RoundInv, ProposalsTyped, Proposal, Leaves
<1>3. PICK v : Covers(v)
  BY DEF RoundInv, Covered
<1>4. Leads(CountsOf(used), proposals[1], v[1]) /\ v[1] \in Counts
  <2>1. /\ v \in [0 .. Len(proposals) -> Counts] /\ v[0] = CountsOf(used)
        /\ \A i \in 1 .. Len(proposals) : proposals[i].current => Leads(v[i - 1], proposals[i], v[i])
    BY <1>3, Zenon DEF Covers
  <2>2. proposals[1].current /\ 1 - 1 = 0
    BY <1>1
  <2>3. Leads(v[0], proposals[1], v[1])
    <3>1. Leads(v[1 - 1], proposals[1], v[1])
      BY <1>1, <2>1, <2>2, Zenon
    <3> QED
      BY <2>2, <3>1, Zenon
  <2>4. v[1] \in Counts
    BY <1>1, <2>1
  <2> QED
    BY <2>1, <2>3, <2>4, Zenon
<1>5. p \in QueueSet /\ p \in Charged(q)
  BY <1>1, <1>2, ChargedUnfold
<1>6. /\ AddTo(used, q, ask) \in [QueueSet -> Resource]
      /\ \A k \in ResourceTypes : Value(sum, k) = Value(used[p], k) + Value(ask, k)
  BY <1>2, <1>5, Added DEF RoundInv, UsedInv
<1>7. sum = Add(used[p], ask) /\ sum \in Resource
  BY <1>5, <1>6 DEF AddTo
<1>8. /\ max \in Resource /\ used[p] \in Resource /\ ask \in Resource /\ QueueMaxLimit[p] \in Resource
      /\ \A k : Value(QueueMaxLimit[p], k) <= Value(max, k)
  BY <1>2, <1>5, Amounts, MaxLimitUnfold, MaxLimitBounds
     DEF RoundInv, LimitInv, LimitsKept, Limited, Maxima, UsedInv, Bounded
<1>9. ASSUME NEW k \in DOMAIN sum
      PROVE  sum[k] <= 0 \/ sum[k] <= Value(max, k)
  <2>1. k \in ResourceTypes /\ sum[k] = Value(sum, k)
    BY <1>7 DEF Resource, Value
  <2>2. /\ Value(used[p], k) \in Int /\ Value(ask, k) \in Int /\ Value(max, k) \in Int
        /\ Value(QueueMaxLimit[p], k) \in Int /\ v[1][p][k] \in Int
    BY <1>4, <1>5, <1>8, <2>1, ValueType DEF Counts
  <2>3. Value(ask, k) >= 0
    BY <1>2, Amounts
  <2>4. Value(used[p], k) <= 0 \/ Value(used[p], k) <= Value(max, k)
    <3>1. Max({Value(max, k), 0}) = IF Value(max, k) >= 0 THEN Value(max, k) ELSE 0
      BY <2>2, MaxOf
    <3>2. Value(used[p], k) <= Max({Value(max, k), 0})
      BY <1>5, <2>1 DEF Within
    <3> QED
      BY <2>2, <3>1, <3>2
  <2>5. Value(sum, k) = Value(used[p], k) + Value(ask, k)
    BY <1>6, <2>1
  <2>6. /\ Value(used[p], k) + Value(ask, k) <= v[1][p][k]
        /\ Value(ask, k) > 0 => v[1][p][k] <= Value(QueueMaxLimit[p], k)
    BY <1>4, <1>5, <2>1 DEF Leads, CountsOf
  <2>7. Value(QueueMaxLimit[p], k) <= Value(max, k)
    BY <1>8
  <2> HIDE DEF sum, max, q, ask
  <2> QED
    BY <2>1, <2>2, <2>3, <2>4, <2>5, <2>6, <2>7
<1>10. FitIn(max, sum)
  BY <1>7, <1>8, <1>9, Fits
<1> QED
  BY <1>1, <1>7, <1>10

(* A selection in a round that covers the cache covers it with the new     *)
(* proposal too.                                                           *)
LEMMA SelectKeepsCovered ==
  ASSUME RoundInv, NEW q \in Leaves, NEW ask \in Asks, NEW placed \in BOOLEAN, Select(q, ask, placed)
  PROVE  RoundInv'
<1> DEFINE s == [queue |-> q, ask |-> ask, current |-> current]
           n == Len(proposals)
<1>1. /\ q \in QueueSet /\ AskFits(q, ask) /\ unread = {} /\ current' = current /\ unread' = unread
      /\ limits' = limits /\ used' = used /\ proposing' = AddTo(proposing, q, ask)
      /\ proposals' = IF placed THEN Append(proposals, s) ELSE proposals
  BY DEF Select, Leaves
<1>2. \A k \in ResourceTypes : Value(ask, k) <= Value(Total, k)
  BY <1>1, SelectionInTotal DEF RoundInv
<1>3. /\ proposing' \in [QueueSet -> Resource]
      /\ \A p \in QueueSet, k \in ResourceTypes :
           Value(proposing'[p], k) = Value(proposing[p], k) + (IF p \in Charged(q) THEN Value(ask, k) ELSE 0)
  BY <1>1, <1>2, Added DEF RoundInv, LimitInv
<1>4. ask \in Resource /\ Total \in Resource /\ \A p \in QueueSet : proposing[p] \in Resource /\ QueueMaxLimit[p] \in Resource
  BY Amounts, MaxLimitUnfold DEF RoundInv, LimitInv, Bounded
<1>5. ASSUME NEW p \in QueueSet, NEW k \in ResourceTypes
      PROVE  /\ Value(proposing[p], k) \in Int /\ Value(proposing'[p], k) \in Int
             /\ Value(ask, k) \in Int /\ Value(QueueMaxLimit[p], k) \in Int /\ Value(Total, k) \in Int
             /\ Value(ask, k) >= 0 /\ Value(QueueMaxLimit[p], k) <= Value(Total, k)
             /\ 0 <= Value(proposing[p], k) /\ Value(proposing[p], k) <= Value(Total, k)
  BY <1>3, <1>4, ValueType, Amounts, MaxLimitBounds DEF RoundInv, LimitInv, Bounded
<1>6. ASSUME NEW p \in Charged(q), NEW k \in ResourceTypes, Value(ask, k) > 0
      PROVE  p \in QueueSet /\ Value(proposing'[p], k) <= Value(QueueMaxLimit[p], k)
  <2>1. p \in QueueSet
    BY <1>1, ChargedUnfold
  <2>2. proposing'[p] = Add(proposing[p], ask)
    BY <1>1, <2>1 DEF AddTo
  <2>3. Value(Add(proposing[p], ask), k) <= Value(QueueMaxLimit[p], k)
    BY <1>1, <1>6, SelectionFits DEF RoundInv
  <2> QED
    BY <2>1, <2>2, <2>3
<1>7. ASSUME NEW p \in QueueSet, NEW k \in ResourceTypes
      PROVE  0 <= Value(proposing'[p], k) /\ Value(proposing'[p], k) <= Value(Total, k)
  <2>1. CASE p \in Charged(q) /\ Value(ask, k) > 0
    BY <1>3, <1>5, <1>6, <2>1
  <2>2. CASE ~(p \in Charged(q) /\ Value(ask, k) > 0)
    BY <1>3, <1>5, <2>2
  <2> QED
    BY <2>1, <2>2
<1>8. LimitInv'
  BY <1>1, <1>3, <1>7 DEF RoundInv, LimitInv, LimitsKept, Bounded
<1>9. UsedInv'
  BY <1>1 DEF RoundInv, UsedInv, Bounded, Accounted, SumsUp, LeafPart
<1>10. n \in Nat /\ proposals \in Seq(Proposal)
  BY DEF RoundInv, ProposalsTyped
<1>11. PICK v : Covers(v)
  BY DEF RoundInv, Covered
<1>12. QueueMaxLimit' = QueueMaxLimit
  BY <1>1, SameMaxLimit
<1>13. CASE ~placed
  <2>1. proposals' = proposals
    BY <1>1, <1>13
  <2>2. ProposalsTyped'
    BY <1>1, <2>1 DEF RoundInv, ProposalsTyped
  <2>3. ASSUME current, NEW p \in QueueSet, NEW k \in ResourceTypes
        PROVE  v[n][p][k] <= Value(proposing'[p], k)
    <3>1. v[n] \in Counts /\ v[n][p][k] <= Value(proposing[p], k)
      BY <1>1, <1>10, <1>11, <2>3 DEF Covers
    <3>2. v[n][p][k] \in Int
      BY <3>1 DEF Counts
    <3> QED
      BY <1>3, <1>5, <3>1, <3>2
  <2>4. Covers(v)'
    BY <1>1, <1>11, <1>12, <2>1, <2>3 DEF Covers, Leads, CountsOf
  <2> QED
    BY <1>8, <1>9, <2>2, <2>4 DEF RoundInv, Covered
<1>14. CASE placed
  <2>1. proposals' = Append(proposals, s)
    BY <1>1, <1>14
  <2>2. Covered' /\ ProposalsTyped'
    <3>1. s \in Proposal
      BY DEF Proposal, RoundInv, ProposalsTyped
    <3>2. /\ proposals' \in Seq(Proposal) /\ Len(proposals') = n + 1
          /\ \A i \in 1 .. n : proposals'[i] = proposals[i]
          /\ proposals'[n + 1] = s
      <4> HIDE DEF s
      <4> QED
        BY <1>10, <2>1, <3>1, AppendProperties
    <3>3. ProposalsTyped'
      <4>1. ASSUME NEW i \in 1 .. n + 1, NEW k \in ResourceTypes
            PROVE  Value(proposals'[i].ask, k) <= Value(Total, k)
        <5>1. CASE i = n + 1
          BY <1>2, <3>2, <5>1
        <5>2. CASE i # n + 1
          <6>1. i \in 1 .. n
            BY <1>10, <5>2
          <6> QED
            BY <3>2, <6>1 DEF RoundInv, ProposalsTyped
        <5> QED
          BY <5>1, <5>2
      <4> QED
        BY <1>1, <3>2, <4>1 DEF RoundInv, ProposalsTyped
    <3>4. PICK new \in Counts :
            \A p \in QueueSet, k \in ResourceTypes : new[p][k] = Value(proposing'[p], k)
      <4>1. CountsOf(proposing') \in Counts
        BY <1>3, CountsType
      <4>2. \A p \in QueueSet, k \in ResourceTypes : CountsOf(proposing')[p][k] = Value(proposing'[p], k)
        BY DEF CountsOf
      <4> QED
        BY <4>1, <4>2
    <3>5. \A p \in QueueSet, k \in ResourceTypes : new[p][k] = Value(proposing'[p], k)
      BY <3>4
    <3>6. v \in [0 .. n -> Counts]
      BY <1>11 DEF Covers
    <3>7. PICK w \in [0 .. n + 1 -> Counts] : w[n + 1] = new /\ \A i \in 0 .. n : w[i] = v[i]
      <4> DEFINE longer == [i \in 0 .. n + 1 |-> IF i = n + 1 THEN new ELSE v[i]]
      <4>1. /\ longer \in [0 .. n + 1 -> Counts] /\ longer[n + 1] = new
            /\ \A i \in 0 .. n : longer[i] = v[i]
        BY <1>10, <3>4, <3>6
      <4> QED
        BY <4>1
    <3> HIDE DEF n
    <3>8. w[0] = CountsOf(used')
      BY <1>1, <1>10, <1>11, <3>7 DEF Covers
    <3>9. ASSUME current
          PROVE  Leads(w[n], s, new)
      <4>1. w[n] = v[n] /\ v[n] \in Counts
        BY <1>10, <3>6, <3>7
      <4>2. ASSUME NEW p \in QueueSet, NEW k \in ResourceTypes
            PROVE  v[n][p][k] \in Int /\ v[n][p][k] <= Value(proposing[p], k)
        BY <1>1, <1>11, <3>9, <4>1 DEF Covers, Counts, n
      <4>3. ASSUME NEW p \in QueueSet, NEW k \in ResourceTypes
            PROVE  v[n][p][k] + (IF p \in Charged(q) THEN Value(ask, k) ELSE 0) <= new[p][k]
        BY <1>3, <1>5, <3>5, <4>2
      <4> QED
        BY <1>6, <3>5, <4>1, <4>3 DEF Leads
    <3>10. ASSUME NEW i \in 1 .. n + 1, proposals'[i].current
           PROVE  Leads(w[i - 1], proposals[i], w[i])' /\ (i > 1 => proposals'[i - 1].current)
      <4>0. current' = current
        BY <1>1
      <4>1. CASE i = n + 1
        <5>0. i - 1 = n /\ proposals'[i] = s /\ s.current = current
          BY <1>10, <3>2, <4>1
        <5>1. current /\ i - 1 = n /\ proposals'[i] = s
          BY <3>10, <5>0
        <5>2. Leads(w[n], s, new)
          BY <3>9, <5>1
        <5>3. i > 1 => proposals'[i - 1].current
          <6>1. i > 1 => n \in 1 .. n
            BY <1>10, <4>1
          <6>2. i > 1 => proposals[n].current
            BY <1>11, <5>1, <6>1 DEF Covers, n
          <6> QED
            BY <3>2, <5>1, <6>1, <6>2
        <5>4. Leads(w[i - 1], proposals'[i], w[i])
          BY <3>7, <4>1, <5>1, <5>2
        <5> QED
          BY <1>12, <5>3, <5>4 DEF Leads
      <4>2. CASE i # n + 1
        <5>1. i \in 1 .. n /\ i - 1 \in 0 .. n /\ i \in 0 .. n
          BY <1>10, <4>2
        <5>2. proposals'[i] = proposals[i] /\ w[i] = v[i] /\ w[i - 1] = v[i - 1]
          BY <3>2, <3>7, <5>1
        <5>3. Leads(v[i - 1], proposals[i], v[i]) /\ (i > 1 => proposals[i - 1].current)
          BY <1>11, <3>10, <5>1, <5>2 DEF Covers, n
        <5>4. i > 1 => i - 1 \in 1 .. n
          BY <5>1
        <5>5. Leads(w[i - 1], proposals'[i], w[i])
          BY <5>2, <5>3
        <5> QED
          BY <1>12, <3>2, <5>3, <5>4, <5>5 DEF Leads
      <4> QED
        BY <4>1, <4>2
    <3>11. ASSUME current
           PROVE  /\ \A i \in 1 .. n + 1 : proposals'[i].current
                  /\ \A p \in QueueSet, k \in ResourceTypes : w[n + 1][p][k] <= Value(proposing'[p], k)
      <4>1. ASSUME NEW i \in 1 .. n + 1
            PROVE  proposals'[i].current
        <5>1. CASE i = n + 1
          BY <3>2, <3>11, <5>1
        <5>2. CASE i # n + 1
          <6>1. i \in 1 .. n
            BY <1>10, <5>2
          <6> QED
            BY <1>11, <3>2, <3>11, <6>1 DEF Covers, n
        <5> QED
          BY <5>1, <5>2
      <4>2. ASSUME NEW p \in QueueSet, NEW k \in ResourceTypes
            PROVE  w[n + 1][p][k] <= Value(proposing'[p], k)
        BY <1>5, <3>5, <3>7
      <4> QED
        BY <4>1, <4>2
    <3>12. Covers(w)'
      BY <1>1, <3>2, <3>7, <3>8, <3>10, <3>11 DEF Covers
    <3> QED
      BY <3>3, <3>12 DEF Covered
  <2> QED
    BY <1>8, <1>9, <2>2 DEF RoundInv
<1> QED
  BY <1>13, <1>14

(* What leads to something leads there from less, too.                     *)
LEMMA LeadsFromLess ==
  ASSUME NEW x \in Counts, NEW y \in Counts, NEW z \in Counts, NEW s \in Proposal, Leads(x, s, y),
         \A p \in QueueSet, k \in ResourceTypes : z[p][k] <= x[p][k]
  PROVE  Leads(z, s, y)
<1>1. s.ask \in Resource
  BY Amounts DEF Proposal
<1>2. \A k \in ResourceTypes : Value(s.ask, k) \in Int
  BY <1>1, ValueType
<1>3. ASSUME NEW p \in QueueSet, NEW k \in ResourceTypes
      PROVE  x[p][k] \in Int /\ y[p][k] \in Int /\ z[p][k] \in Int
  BY DEF Counts
<1>4. ASSUME NEW p \in QueueSet, NEW k \in ResourceTypes
      PROVE  z[p][k] + (IF p \in Charged(s.queue) THEN Value(s.ask, k) ELSE 0) <= y[p][k]
  <2>1. x[p][k] + (IF p \in Charged(s.queue) THEN Value(s.ask, k) ELSE 0) <= y[p][k]
    BY DEF Leads
  <2>2. z[p][k] <= x[p][k]
    OBVIOUS
  <2> QED
    BY <1>2, <1>3, <2>1, <2>2
<1> QED
  BY <1>4 DEF Leads

(* When the counters of the cache fall and nothing else changes, they are  *)
(* still covered.                                                          *)
LEMMA LessIsCovered ==
  ASSUME RoundInv, UNCHANGED <<limits, roundVars, proposals>>, used' \in [QueueSet -> Resource],
         \A p \in QueueSet, k \in ResourceTypes : Value(used'[p], k) <= Value(used[p], k)
  PROVE  Covered'
<1> DEFINE n == Len(proposals)
<1>1. n \in Nat /\ proposals \in Seq(Proposal)
  BY DEF RoundInv, ProposalsTyped
<1>2. PICK v : Covers(v)
  BY DEF RoundInv, Covered
<1>3. PICK new \in Counts : new = CountsOf(used')
  BY CountsType
<1>4. v \in [0 .. n -> Counts] /\ v[0] = CountsOf(used)
  BY <1>2 DEF Covers
<1>5. PICK w \in [0 .. n -> Counts] : w[0] = new /\ \A i \in 1 .. n : w[i] = v[i]
  <2> DEFINE f == [i \in 0 .. n |-> IF i = 0 THEN new ELSE v[i]]
  <2>1. f \in [0 .. n -> Counts] /\ f[0] = new /\ \A i \in 1 .. n : f[i] = v[i]
    BY <1>1, <1>4
  <2> QED
    BY <2>1
<1>6. /\ v[0] \in Counts
      /\ \A p \in QueueSet, k \in ResourceTypes : new[p][k] <= v[0][p][k] /\ new[p][k] \in Int /\ v[0][p][k] \in Int
  <2>1. \A p \in QueueSet, k \in ResourceTypes : new[p][k] <= v[0][p][k]
    BY <1>3, <1>4 DEF CountsOf
  <2> QED
    BY <1>1, <1>4, <2>1 DEF Counts
<1>7. QueueMaxLimit' = QueueMaxLimit
  BY SameMaxLimit
<1>8. ASSUME NEW i \in 1 .. n, proposals[i].current
      PROVE  Leads(w[i - 1], proposals[i], w[i]) /\ (i > 1 => proposals[i - 1].current)
  <2>1. /\ Leads(v[i - 1], proposals[i], v[i]) /\ (i > 1 => proposals[i - 1].current)
        /\ proposals[i] \in Proposal /\ i - 1 \in 0 .. n
    BY <1>1, <1>2, <1>8 DEF Covers
  <2>2. CASE i = 1
    <3>1. v[0] \in Counts /\ v[1] \in Counts /\ w[0] = new /\ w[1] = v[1] /\ i - 1 = 0
      BY <1>4, <1>5, <1>6, <2>2
    <3>2. Leads(v[0], proposals[i], v[1])
      BY <2>1, <2>2, <3>1
    <3>3. Leads(new, proposals[i], v[1])
      BY <1>6, <2>1, <3>1, <3>2, LeadsFromLess
    <3> QED
      BY <2>1, <2>2, <3>1, <3>3
  <2>3. CASE i # 1
    <3>1. i - 1 \in 1 .. n
      BY <1>1, <2>3
    <3> QED
      BY <1>5, <2>1, <3>1
  <2> QED
    BY <2>2, <2>3
<1>9. ASSUME current, NEW p \in QueueSet \ unread, NEW k \in ResourceTypes
      PROVE  w[n][p][k] <= Value(proposing[p], k)
  <2>1. v[n][p][k] <= Value(proposing[p], k)
    BY <1>2, <1>9 DEF Covers
  <2>2. CASE n = 0
    <3>1. proposing[p] \in Resource
      BY DEF RoundInv, LimitInv, Bounded
    <3>2. Value(proposing[p], k) \in Int
      BY <3>1, ValueType
    <3>3. w[n][p][k] <= v[n][p][k] /\ w[n][p][k] \in Int /\ v[n][p][k] \in Int
      BY <1>5, <1>6, <2>2
    <3> QED
      BY <2>1, <3>2, <3>3
  <2>3. CASE n # 0
    BY <1>1, <1>5, <2>1, <2>3
  <2> QED
    BY <2>2, <2>3
<1>10. Covers(w)'
  <2>1. /\ proposals' = proposals /\ current' = current /\ unread' = unread /\ proposing' = proposing
        /\ w \in [0 .. Len(proposals) -> Counts] /\ w[0] = CountsOf(used')
    BY <1>3, <1>5 DEF roundVars
  <2>2. current => /\ \A i \in 1 .. Len(proposals) : proposals[i].current
                   /\ unread # {} => Len(proposals) = 0
    BY <1>2 DEF Covers
  <2>3. \A i \in 1 .. Len(proposals) : proposals[i].current =>
          Leads(w[i - 1], proposals[i], w[i])' /\ (i > 1 => proposals[i - 1].current)
    BY <1>7, <1>8, <2>1 DEF Leads
  <2> QED
    BY <1>9, <2>1, <2>2, <2>3 DEF Covers
<1> QED
  BY <1>10 DEF Covered

(* When the first proposal is taken up and no counter of the cache rises by*)
(* more than it asked for, they are still covered.                         *)
LEMMA DropIsCovered ==
  ASSUME RoundInv, UNCHANGED <<limits, roundVars>>, used' \in [QueueSet -> Resource],
         proposals # <<>>, proposals' = Tail(proposals),
         \A p \in QueueSet, k \in ResourceTypes :
           Value(used'[p], k) <=
             Value(used[p], k) + (IF p \in Charged(Head(proposals).queue) THEN Value(Head(proposals).ask, k) ELSE 0)
  PROVE  Covered' /\ ProposalsTyped'
<1> DEFINE n == Len(proposals)
           rest == Tail(proposals)
<1>1. /\ n \in Nat /\ n >= 1 /\ rest \in Seq(Proposal) /\ Len(rest) = n - 1
      /\ Head(proposals) = proposals[1] /\ \A i \in 1 .. n - 1 : rest[i] = proposals[i + 1]
      /\ \A i \in 1 .. n : proposals[i] \in Proposal
  <2>1. proposals \in Seq(Proposal)
    BY DEF RoundInv, ProposalsTyped
  <2>2. n \in Nat /\ n >= 1 /\ \A i \in 1 .. n : proposals[i] \in Proposal
    BY <2>1
  <2> QED
    BY <2>1, <2>2, HeadTailProperties
<1> HIDE DEF rest, n
<1>2. PICK v : Covers(v)
  BY DEF RoundInv, Covered
<1>3. PICK new \in Counts : new = CountsOf(used')
  BY CountsType
<1>4. v \in [0 .. n -> Counts] /\ v[0] = CountsOf(used)
  BY <1>2 DEF Covers, n
<1>5. PICK w \in [0 .. n - 1 -> Counts] : w[0] = new /\ \A i \in 1 .. n - 1 : w[i] = v[i + 1]
  <2> DEFINE f == [i \in 0 .. n - 1 |-> IF i = 0 THEN new ELSE v[i + 1]]
  <2>1. \A i \in 0 .. n - 1 : i + 1 \in 0 .. n
    BY <1>1
  <2>2. 0 \in 0 .. n - 1 /\ \A i \in 1 .. n - 1 : i \in 0 .. n - 1 /\ i # 0
    BY <1>1
  <2>3. f \in [0 .. n - 1 -> Counts] /\ f[0] = new /\ \A i \in 1 .. n - 1 : f[i] = v[i + 1]
    BY <1>4, <2>1, <2>2
  <2> QED
    BY <2>3
<1>6. ASSUME proposals[1].current, NEW p \in QueueSet, NEW k \in ResourceTypes
      PROVE  new[p][k] <= v[1][p][k]
  <2>1. 1 \in 1 .. n /\ 1 \in 0 .. n /\ 0 \in 0 .. n
    BY <1>1
  <2>2. Leads(v[0], proposals[1], v[1])
    <3>1. Leads(v[1 - 1], proposals[1], v[1])
      BY <1>2, <1>6, <2>1 DEF Covers, n
    <3> QED
      BY <3>1
  <2>3. v[0][p][k] + (IF p \in Charged(proposals[1].queue) THEN Value(proposals[1].ask, k) ELSE 0) <= v[1][p][k]
    BY <2>2 DEF Leads
  <2>4. new[p][k] <= v[0][p][k] + (IF p \in Charged(proposals[1].queue) THEN Value(proposals[1].ask, k) ELSE 0)
    BY <1>1, <1>3, <1>4 DEF CountsOf
  <2>5. proposals[1].ask \in Resource
    BY <1>1, <2>1, Amounts DEF Proposal
  <2>6. v[0] \in Counts /\ v[1] \in Counts /\ new \in Counts
    BY <1>4, <2>1
  <2>7. v[0][p][k] \in Int /\ v[1][p][k] \in Int /\ new[p][k] \in Int
    BY <2>6 DEF Counts
  <2>8. Value(proposals[1].ask, k) \in Int
    BY <2>5, ValueType
  <2> QED
    BY <2>3, <2>4, <2>7, <2>8
<1>7. ASSUME NEW i \in 1 .. n
      PROVE  proposals[i].current => /\ Leads(v[i - 1], proposals[i], v[i])
                                     /\ i > 1 => proposals[i - 1].current
  BY <1>2 DEF Covers, n
<1>8. ASSUME NEW i \in 1 .. n - 1, rest[i].current
      PROVE  Leads(w[i - 1], rest[i], w[i]) /\ (i > 1 => rest[i - 1].current)
  <2>1. i + 1 \in 1 .. n /\ i \in 1 .. n /\ i \in 0 .. n /\ (i + 1) - 1 = i /\ i + 1 > 1 /\ i + 1 \in 0 .. n
    BY <1>1
  <2>2. rest[i] = proposals[i + 1] /\ w[i] = v[i + 1]
    BY <1>1, <1>5
  <2>3. Leads(v[(i + 1) - 1], proposals[i + 1], v[i + 1]) /\ proposals[(i + 1) - 1].current
    BY <1>7, <1>8, <2>1, <2>2
  <2>4. Leads(v[i], rest[i], w[i]) /\ proposals[i].current
    BY <2>1, <2>2, <2>3
  <2>5. CASE i = 1
    <3>1. v[1] \in Counts /\ v[2] \in Counts /\ rest[i] \in Proposal
      BY <1>1, <1>4, <2>1, <2>2, <2>5
    <3>2. Leads(v[1], rest[i], v[2]) /\ w[i] = v[2]
      BY <2>2, <2>4, <2>5
    <3>3. Leads(new, rest[i], v[2])
      BY <1>6, <2>4, <2>5, <3>1, <3>2, LeadsFromLess
    <3>4. w[i - 1] = new
      BY <1>5, <2>5
    <3> QED
      BY <2>5, <3>2, <3>3, <3>4
  <2>6. CASE i # 1
    <3>1. i - 1 \in 1 .. n - 1 /\ (i - 1) + 1 = i
      BY <1>1, <2>6
    <3>2. w[i - 1] = v[i] /\ rest[i - 1] = proposals[i]
      BY <1>1, <1>5, <3>1
    <3> QED
      BY <2>4, <3>2
  <2> QED
    BY <2>5, <2>6
<1>9. ASSUME current
      PROVE  /\ \A i \in 1 .. n - 1 : rest[i].current
             /\ unread = {}
             /\ \A p \in QueueSet \ unread, k \in ResourceTypes : w[n - 1][p][k] <= Value(proposing[p], k)
  <2>1. /\ \A i \in 1 .. n : proposals[i].current
        /\ unread # {} => n = 0
        /\ \A p \in QueueSet \ unread, k \in ResourceTypes : v[n][p][k] <= Value(proposing[p], k)
    BY <1>2, <1>9 DEF Covers, n
  <2>2. unread = {}
    BY <1>1, <2>1
  <2>3. \A i \in 1 .. n - 1 : rest[i].current
    <3>1. \A i \in 1 .. n - 1 : i + 1 \in 1 .. n
      BY <1>1
    <3> QED
      BY <1>1, <2>1, <3>1
  <2>4. ASSUME NEW p \in QueueSet, NEW k \in ResourceTypes
        PROVE  w[n - 1][p][k] <= Value(proposing[p], k)
    <3>0. v[n][p][k] <= Value(proposing[p], k)
      BY <2>1, <2>2
    <3>1. CASE n = 1
      <4>1. proposing[p] \in Resource
        BY DEF RoundInv, LimitInv, Bounded
      <4>2. Value(proposing[p], k) \in Int
        BY <4>1, ValueType
      <4>3. proposals[1].current /\ 1 \in 0 .. n
        BY <1>1, <2>1
      <4>4. v[1] \in Counts /\ new \in Counts
        BY <1>4, <4>3
      <4>5. v[1][p][k] \in Int /\ new[p][k] \in Int
        BY <4>4 DEF Counts
      <4>6. new[p][k] <= v[1][p][k]
        BY <1>6, <4>3
      <4>7. w[n - 1] = new
        BY <1>5, <3>1
      <4> QED
        BY <3>0, <3>1, <4>2, <4>5, <4>6, <4>7
    <3>2. CASE n # 1
      <4>1. n - 1 \in 1 .. n - 1 /\ (n - 1) + 1 = n
        BY <1>1, <3>2
      <4>2. w[n - 1] = v[n]
        BY <1>5, <4>1
      <4> QED
        BY <3>0, <4>2
    <3> QED
      BY <3>1, <3>2
  <2> QED
    BY <2>2, <2>3, <2>4
<1>10. /\ proposals' = rest /\ current' = current /\ unread' = unread /\ proposing' = proposing
       /\ Len(rest) = n - 1
  BY <1>1 DEF roundVars, rest
<1>11. Covers(w)'
  <2>1. QueueMaxLimit' = QueueMaxLimit
    BY SameMaxLimit
  <2>2. \A i \in 1 .. n - 1 : rest[i].current =>
          Leads(w[i - 1], proposals[i], w[i])' /\ (i > 1 => rest[i - 1].current)
    BY <1>8, <1>10, <2>1 DEF Leads
  <2>3. w \in [0 .. n - 1 -> Counts] /\ w[0] = CountsOf(used')
    BY <1>3, <1>5
  <2> QED
    BY <1>9, <1>10, <2>2, <2>3 DEF Covers
<1>12. ProposalsTyped'
  <2>1. \A i \in 1 .. n - 1, k \in ResourceTypes : Value(rest[i].ask, k) <= Value(Total, k)
    <3>1. ASSUME NEW i \in 1 .. n - 1, NEW k \in ResourceTypes
          PROVE  Value(rest[i].ask, k) <= Value(Total, k)
      <4>1. i + 1 \in 1 .. n /\ rest[i] = proposals[i + 1]
        BY <1>1
      <4> QED
        BY <4>1 DEF RoundInv, ProposalsTyped, n
    <3> QED
      BY <3>1
  <2> QED
    BY <1>1, <1>10, <2>1 DEF RoundInv, ProposalsTyped
<1> QED
  BY <1>11, <1>12 DEF Covered

-----------------------------------------------------------------------------
(* The other steps *)

(* The invariant holds when the partition is made from its configuration.  *)
LEMMA LimitInit ==
  ASSUME Init
  PROVE  RoundInv
<1>1. PICK c \in Configs :
        /\ limits = [Checked(c).limits EXCEPT ![Root].max = Total]
        /\ used = [q \in QueueSet |-> Zero] /\ proposing = [q \in QueueSet |-> Zero]
        /\ unread = {} /\ current = TRUE /\ proposals = <<>>
  BY DEF Init
<1> DEFINE old == Checked(c).limits
<1>2. Limited(old) /\ "max" \in DOMAIN old[Root] /\ Root \in QueueSet
  BY CheckedKeepsLimits, QueuesAssumption
<1> HIDE DEF old
<1>3. limits = [old EXCEPT ![Root] = [old[Root] EXCEPT !.max = Total]]
  BY <1>1 DEF old
<1>4. [old[Root] EXCEPT !.max = Total].max = Total
  BY <1>2
<1>5. /\ DOMAIN limits = QueueSet /\ limits[Root].max = Total
      /\ \A q \in QueueSet \ {Root} : limits[q] = old[q]
  BY <1>2, <1>3, <1>4 DEF Limited
<1>6. LimitsKept
  BY <1>2, <1>5, Amounts DEF LimitsKept, Limited
<1>7. Zero \in Resource /\ \A k : Value(Zero, k) = 0
  <2>1. Zero \in [{} -> Quantity]
    BY DEF Zero
  <2>2. {} \in SUBSET ResourceTypes
    OBVIOUS
  <2> QED
    BY <2>1, <2>2 DEF Resource, Value, Zero
<1>8. Bounded(proposing) /\ Bounded(used)
  BY <1>1, <1>7, Amounts, ValueType DEF Bounded
<1>9. Accounted(used)
  <2>1. ASSUME NEW p \in QueueSet, NEW k \in ResourceTypes
        PROVE  \E sum : SumsUp(sum, used, p, k)
    <3> DEFINE len == Len(Queues)
               zeros == [n \in 0 .. len |-> 0]
    <3>1. len \in Nat /\ \A n \in 1 .. len : Queues[n] \in QueueSet
      BY QueuesAssumption
    <3>2. \A q \in QueueSet : Value(used[q], k) = 0
      BY <1>1, <1>7
    <3>3. \A n \in 1 .. len : LeafPart(used, p, k, n) = 0
      BY <3>1, <3>2 DEF LeafPart
    <3>4. /\ zeros \in [0 .. len -> Int] /\ zeros[0] = 0 /\ zeros[len] = 0
          /\ \A n \in 1 .. len : zeros[n] = zeros[n - 1] + 0
      BY <3>1
    <3>5. SumsUp(zeros, used, p, k)
      BY <3>2, <3>3, <3>4 DEF SumsUp
    <3> QED
      BY <3>5
  <2> QED
    BY <2>1 DEF Accounted
<1>10. ProposalsTyped
  BY <1>1, EmptySeq DEF ProposalsTyped
<1>11. Covered
  <2> DEFINE v == [i \in 0 .. 0 |-> CountsOf(used)]
  <2>1. used \in [QueueSet -> Resource]
    BY <1>8 DEF Bounded
  <2>2. CountsOf(used) \in Counts
    BY <2>1, CountsType
  <2>3. v \in [0 .. 0 -> Counts] /\ v[0] = CountsOf(used)
    BY <2>2
  <2>4. Len(proposals) = 0
    BY <1>1
  <2>5. \A p \in QueueSet, k \in ResourceTypes : CountsOf(used)[p][k] = 0 /\ Value(proposing[p], k) = 0
    BY <1>1, <1>7 DEF CountsOf
  <2> HIDE DEF v
  <2>6. Covers(v)
    BY <1>1, <2>3, <2>4, <2>5 DEF Covers
  <2> QED
    BY <2>6 DEF Covered
<1> QED
  BY <1>6, <1>8, <1>9, <1>10, <1>11 DEF RoundInv, LimitInv, UsedInv

(* An update replaces a maximum only by another one that is configured, and*)
(* never the root's; no proposal and no round counts as up to date after it*)
LEMMA ReloadKeepsInv ==
  ASSUME RoundInv, NEW c \in Configs, Reload(c)
  PROVE  RoundInv'
<1>1. /\ limits' = [q \in QueueSet |-> UpdateQueueProps(limits[q], c[q])]
      /\ used' = used /\ proposing' = proposing /\ unread' = unread /\ current' = FALSE
      /\ proposals' = [i \in DOMAIN proposals |-> [proposals[i] EXCEPT !.current = FALSE]]
  BY DEF Reload
<1>2. \A q \in QueueSet : limits'[q].max = IF c[q].max # NilResource THEN c[q].max ELSE limits[q].max
  BY <1>1 DEF UpdateQueueProps
<1>3. \A q \in QueueSet : limits'[q].max \in Maxima \cup {NilResource}
  BY <1>2, Amounts DEF RoundInv, LimitInv, LimitsKept, Limited
<1>4. c[Root].max = NilResource /\ Root \in QueueSet
  BY QueuesAssumption
<1>5. limits'[Root].max = Total
  BY <1>2, <1>4 DEF RoundInv, LimitInv, LimitsKept
<1>6. DOMAIN limits' = QueueSet
  BY <1>1
<1>7. LimitInv'
  BY <1>1, <1>3, <1>5, <1>6 DEF RoundInv, LimitInv, LimitsKept, Limited, Bounded
<1>8. UsedInv'
  BY <1>1 DEF RoundInv, UsedInv, Bounded, Accounted, SumsUp, LeafPart
<1> DEFINE n == Len(proposals)
<1>9. /\ n \in Nat /\ DOMAIN proposals = 1 .. n /\ \A i \in 1 .. n : proposals[i] \in Proposal
  BY DEF RoundInv, ProposalsTyped
<1>10. \A i \in 1 .. n : /\ proposals'[i] = [proposals[i] EXCEPT !.current = FALSE]
                         /\ proposals'[i] \in Proposal
                         /\ proposals'[i].ask = proposals[i].ask /\ ~proposals'[i].current
  BY <1>1, <1>9 DEF Proposal
<1>11. proposals' \in Seq(Proposal) /\ Len(proposals') = n
  <2>1. proposals' \in [1 .. n -> Proposal]
    BY <1>1, <1>9, <1>10
  <2> QED
    BY <1>9, <2>1
<1>12. ProposalsTyped'
  BY <1>1, <1>10, <1>11 DEF RoundInv, ProposalsTyped
<1>13. Covered'
  <2>1. PICK v : Covers(v)
    BY DEF RoundInv, Covered
  <2>2. v \in [0 .. n -> Counts] /\ v[0] = CountsOf(used)
    BY <2>1 DEF Covers
  <2>3. Covers(v)'
    BY <1>1, <1>10, <1>11, <2>2 DEF Covers
  <2> QED
    BY <2>3 DEF Covered
<1> QED
  BY <1>7, <1>8, <1>12, <1>13 DEF RoundInv

(* A round that begins with nothing on its way has nothing to cover but the*)
(* counters of the cache, which it has still to read.                      *)
LEMMA StartKeepsInv ==
  ASSUME RoundInv, StartRound
  PROVE  RoundInv'
<1>1. /\ unread' = QueueSet /\ current' = (proposals = <<>>)
      /\ limits' = limits /\ used' = used /\ proposing' = proposing /\ proposals' = proposals
  BY DEF StartRound
<1>2. LimitInv' /\ UsedInv'
  BY <1>1 DEF RoundInv, LimitInv, LimitsKept, UsedInv, Bounded, Accounted, SumsUp, LeafPart
<1>3. current' \in BOOLEAN
  BY <1>1
<1>4. ProposalsTyped'
  BY <1>1, <1>3 DEF RoundInv, ProposalsTyped
<1>5. Covered'
  <2>1. PICK v : Covers(v)
    BY DEF RoundInv, Covered
  <2>2. QueueMaxLimit' = QueueMaxLimit
    BY <1>1, SameMaxLimit
  <2>3. current' => Len(proposals') = 0
    BY <1>1
  <2>4. /\ v \in [0 .. Len(proposals) -> Counts] /\ v[0] = CountsOf(used)
        /\ \A i \in 1 .. Len(proposals) : proposals[i].current =>
             /\ Leads(v[i - 1], proposals[i], v[i])
             /\ i > 1 => proposals[i - 1].current
    BY <2>1 DEF Covers
  <2>5. \A i \in 1 .. Len(proposals') : proposals'[i].current =>
          Leads(v[i - 1], proposals[i], v[i])' /\ (i > 1 => proposals'[i - 1].current)
    BY <1>1, <2>2, <2>4 DEF Leads
  <2>6. current' => \A i \in 1 .. Len(proposals') : proposals'[i].current
    BY <2>3
  <2>7. QueueSet \ unread' = {}
    BY <1>1
  <2>8. Covers(v)'
    BY <1>1, <2>3, <2>4, <2>5, <2>6, <2>7 DEF Covers
  <2> QED
    BY <2>8 DEF Covered
<1> QED
  BY <1>2, <1>4, <1>5 DEF RoundInv

(* A counter that is read is what the cache has, and is within the total.  *)
LEMMA ReadKeepsInv ==
  ASSUME RoundInv, NEW q \in unread, ReadAllocated(q)
  PROVE  RoundInv'
<1>1. /\ proposing' = [proposing EXCEPT ![q] = used[q]] /\ unread' = unread \ {q} /\ current' = current
      /\ limits' = limits /\ used' = used /\ proposals' = proposals
  BY DEF ReadAllocated
<1>2. unread \subseteq QueueSet /\ q \in QueueSet /\ unread # {}
  BY DEF RoundInv, ProposalsTyped
<1>3. Bounded(proposing) /\ Bounded(used)
  BY DEF RoundInv, LimitInv, UsedInv
<1>4. /\ proposing' \in [QueueSet -> Resource]
      /\ \A p \in QueueSet : proposing'[p] = IF p = q THEN used[q] ELSE proposing[p]
  BY <1>1, <1>2, <1>3 DEF Bounded
<1>5. Bounded(proposing')
  BY <1>3, <1>4 DEF Bounded
<1>6. LimitInv'
  BY <1>1, <1>5 DEF RoundInv, LimitInv, LimitsKept, Bounded
<1>7. UsedInv'
  BY <1>1 DEF RoundInv, UsedInv, Bounded, Accounted, SumsUp, LeafPart
<1>8. ProposalsTyped'
  BY <1>1 DEF RoundInv, ProposalsTyped
<1>9. Covered'
  <2>1. PICK v : Covers(v)
    BY DEF RoundInv, Covered
  <2>2. QueueMaxLimit' = QueueMaxLimit
    BY <1>1, SameMaxLimit
  <2>3. /\ v \in [0 .. Len(proposals) -> Counts] /\ v[0] = CountsOf(used)
        /\ \A i \in 1 .. Len(proposals) : proposals[i].current =>
             /\ Leads(v[i - 1], proposals[i], v[i])
             /\ i > 1 => proposals[i - 1].current
    BY <2>1 DEF Covers
  <2>4. current => /\ Len(proposals) = 0
                   /\ \A i \in 1 .. Len(proposals) : proposals[i].current
                   /\ \A p \in QueueSet \ unread, k \in ResourceTypes : v[0][p][k] <= Value(proposing[p], k)
    BY <1>2, <2>1 DEF Covers
  <2>5. \A i \in 1 .. Len(proposals) : proposals[i].current =>
          Leads(v[i - 1], proposals[i], v[i])' /\ (i > 1 => proposals[i - 1].current)
    BY <1>1, <2>2, <2>3 DEF Leads
  <2>6. ASSUME current, NEW p \in QueueSet \ unread', NEW k \in ResourceTypes
        PROVE  v[0][p][k] <= Value(proposing'[p], k)
    <3>1. CASE p = q
      <4>1. v[0][p][k] = Value(used[p], k) /\ proposing'[p] = used[p] /\ used[p] \in Resource
        BY <1>3, <1>4, <2>3, <3>1 DEF CountsOf, Bounded
      <4>2. Value(used[p], k) \in Int
        BY <4>1, ValueType
      <4> QED
        BY <4>1, <4>2
    <3>2. CASE p # q
      BY <1>1, <1>4, <2>4, <2>6, <3>2
    <3> QED
      BY <3>1, <3>2
  <2>7. Covers(v)'
    BY <1>1, <2>3, <2>4, <2>5, <2>6 DEF Covers
  <2> QED
    BY <2>7 DEF Covered
<1> QED
  BY <1>6, <1>7, <1>8, <1>9 DEF RoundInv

(* A charge raises the counters by what the scheduler had counted already. *)
LEMMA ChargeKeepsInv ==
  ASSUME RoundInv, Charge
  PROVE  RoundInv'
<1> DEFINE s == Head(proposals)
<1>1. /\ proposals # <<>> /\ ChargeAccepted(s.queue, s.ask) /\ used' = AddTo(used, s.queue, s.ask)
      /\ proposals' = Tail(proposals) /\ UNCHANGED <<limits, roundVars>>
  BY DEF Charge, ChargeAccepted
<1>2. s.queue \in Leaves /\ s.ask \in Asks /\ \A k \in ResourceTypes : Value(s.ask, k) <= Value(Total, k)
  <2>1. 1 \in 1 .. Len(proposals) /\ s = proposals[1] /\ proposals[1] \in Proposal
    BY <1>1 DEF RoundInv, ProposalsTyped
  <2> QED
    BY <2>1 DEF RoundInv, ProposalsTyped, Proposal
<1> HIDE DEF s
<1>3. /\ UsedInv'
      /\ \A p \in QueueSet, k \in ResourceTypes :
           Value(used'[p], k) = Value(used[p], k) + (IF p \in Charged(s.queue) THEN Value(s.ask, k) ELSE 0)
  BY <1>1, <1>2, ChargeKeepsUsed DEF RoundInv, LimitInv
<1>4. ASSUME NEW p \in QueueSet, NEW k \in ResourceTypes
      PROVE  Value(used'[p], k) <= Value(used[p], k) + (IF p \in Charged(s.queue) THEN Value(s.ask, k) ELSE 0)
  <2>1. used'[p] \in Resource
    BY <1>3 DEF UsedInv, Bounded
  <2>2. Value(used'[p], k) \in Int
    BY <2>1, ValueType
  <2> QED
    BY <1>3, <2>2
<1>5. used' \in [QueueSet -> Resource]
  BY <1>3 DEF UsedInv, Bounded
<1>6. Covered' /\ ProposalsTyped'
  BY <1>1, <1>4, <1>5, DropIsCovered DEF s
<1>7. LimitInv'
  BY <1>1 DEF RoundInv, LimitInv, LimitsKept, Bounded, roundVars
<1> QED
  BY <1>3, <1>6, <1>7 DEF RoundInv

(* A refusal leaves the counters where they are.                           *)
LEMMA RefuseKeepsInv ==
  ASSUME RoundInv, Refuse
  PROVE  RoundInv'
<1>1. proposals # <<>> /\ proposals' = Tail(proposals) /\ used' = used /\ UNCHANGED <<limits, roundVars>>
  BY DEF Refuse
<1>2. used' \in [QueueSet -> Resource]
  BY <1>1 DEF RoundInv, UsedInv, Bounded
<1>3. Head(proposals) \in Proposal
  BY <1>1 DEF RoundInv, ProposalsTyped
<1>4. Head(proposals).ask \in Asks /\ Head(proposals).ask \in Resource
  BY <1>3, Amounts DEF Proposal
<1>5. ASSUME NEW p \in QueueSet, NEW k \in ResourceTypes
      PROVE  Value(used'[p], k) <=
               Value(used[p], k) + (IF p \in Charged(Head(proposals).queue) THEN Value(Head(proposals).ask, k) ELSE 0)
  <2>1. used[p] \in Resource
    BY <1>1, <1>2
  <2>2. Value(used[p], k) \in Int /\ Value(Head(proposals).ask, k) \in Int /\ Value(Head(proposals).ask, k) >= 0
    BY <1>4, <2>1, Amounts, ValueType
  <2> QED
    BY <1>1, <2>2
<1>6. Covered' /\ ProposalsTyped'
  BY <1>1, <1>2, <1>5, DropIsCovered
<1>7. LimitInv' /\ UsedInv'
  BY <1>1 DEF RoundInv, LimitInv, LimitsKept, UsedInv, Bounded, Accounted, SumsUp, LeafPart, roundVars
<1> QED
  BY <1>6, <1>7 DEF RoundInv

(* What is given back lowers the counters.                                 *)
LEMMA ReleaseKeepsInv ==
  ASSUME RoundInv, NEW q \in Leaves, NEW ask \in Asks, Release(q, ask)
  PROVE  RoundInv'
<1>1. UNCHANGED <<limits, roundVars, proposals>>
  BY DEF Release
<1>2. UsedInv' /\ \A p \in QueueSet, k \in ResourceTypes : Value(used'[p], k) <= Value(used[p], k)
  BY ReleaseKeepsUsed DEF RoundInv
<1>3. used' \in [QueueSet -> Resource]
  BY <1>2 DEF UsedInv, Bounded
<1>4. Covered'
  BY <1>1, <1>2, <1>3, LessIsCovered
<1>5. LimitInv' /\ ProposalsTyped'
  BY <1>1 DEF RoundInv, LimitInv, LimitsKept, ProposalsTyped, Bounded, roundVars
<1> QED
  BY <1>2, <1>4, <1>5 DEF RoundInv

(* Every step keeps the invariant.                                         *)
LEMMA LimitNext ==
  ASSUME RoundInv, [Next]_vars
  PROVE  RoundInv'
<1>1. ASSUME NEW c \in Configs, Reload(c)
      PROVE  RoundInv'
  BY <1>1, ReloadKeepsInv
<1>2. CASE StartRound
  BY <1>2, StartKeepsInv
<1>3. ASSUME NEW q \in unread, ReadAllocated(q)
      PROVE  RoundInv'
  BY <1>3, ReadKeepsInv
<1>4. ASSUME NEW q \in Leaves, NEW ask \in Asks, NEW placed \in BOOLEAN, Select(q, ask, placed)
      PROVE  RoundInv'
  BY <1>4, SelectKeepsCovered
<1>5. CASE Charge
  BY <1>5, ChargeKeepsInv
<1>6. CASE Refuse
  BY <1>6, RefuseKeepsInv
<1>7. ASSUME NEW q \in Leaves, NEW ask \in Asks, Release(q, ask)
      PROVE  RoundInv'
  BY <1>7, ReleaseKeepsInv
<1>8. CASE UNCHANGED vars
  <2>1. UNCHANGED <<limits, used, roundVars, proposals>>
    BY <1>8 DEF vars
  <2>2. \A p \in QueueSet, k \in ResourceTypes : Value(used[p], k) \in Int
    <3>1. \A p \in QueueSet : used[p] \in Resource
      BY DEF RoundInv, UsedInv, Bounded
    <3> QED
      BY <3>1, ValueType
  <2>3. used' \in [QueueSet -> Resource] /\ \A p \in QueueSet, k \in ResourceTypes : Value(used'[p], k) <= Value(used[p], k)
    BY <2>1, <2>2 DEF RoundInv, UsedInv, Bounded
  <2>4. Covered'
    BY <2>1, <2>3, LessIsCovered
  <2>5. LimitInv' /\ UsedInv' /\ ProposalsTyped'
    BY <2>1 DEF RoundInv, LimitInv, LimitsKept, UsedInv, ProposalsTyped, Bounded, Accounted, SumsUp, LeafPart, roundVars
  <2> QED
    BY <2>4, <2>5 DEF RoundInv
<1> QED
  BY <1>1, <1>2, <1>3, <1>4, <1>5, <1>6, <1>7, <1>8 DEF Next

-----------------------------------------------------------------------------
(* Theorems *)

(* Every maximum is a configured one and the root's is the total; what the *)
(* cache has charged to a queue is the sum of what it has charged to the   *)
(* leaves below it; no counter of the cache or the scheduler is negative or*)
(* exceeds the total, so that none wraps around; and as long as a round    *)
(* began with nothing on its way, the scheduler's counters cover those of  *)
(* the cache with all that it has proposed since.                          *)
THEOREM LimitInvariant == Spec => []RoundInv
<1>1. Init => RoundInv
  BY LimitInit
<1>2. RoundInv /\ [Next]_vars => RoundInv'
  BY LimitNext
<1> QED
  BY <1>1, <1>2, PTL DEF Spec

(* IncAllocatedResource and DecAllocatedResource leave no counter of a     *)
(* queue below zero or above what the partition has, whatever the scheduler*)
(* proposes and in whatever state the limits are.                          *)
THEOREM UsedIsWithinTotal == Spec => []UsedWithinTotal
<1>1. ASSUME RoundInv
      PROVE  UsedWithinTotal
  <2> SUFFICES ASSUME NEW q \in QueueSet, NEW k \in ResourceTypes
               PROVE  Value(used[q], k) \in 0 .. Value(Total, k)
    BY DEF UsedWithinTotal
  <2>1. /\ used[q] \in Resource /\ Total \in Resource
        /\ 0 <= Value(used[q], k) /\ Value(used[q], k) <= Value(Total, k)
    BY <1>1, Amounts DEF RoundInv, UsedInv, Bounded
  <2>2. Value(used[q], k) \in Int /\ Value(Total, k) \in Int
    BY <2>1, ValueType
  <2> QED
    BY <2>1, <2>2
<1>2. RoundInv => UsedWithinTotal
  BY <1>1
<1> QED
  BY <1>2, LimitInvariant, PTL

(* What the scheduler selects within the headroom it passes down from the  *)
(* root is accepted by the cache on the way up to the root when its turn   *)
(* comes, if the round began with nothing on its way and neither an update *)
(* came in between nor a queue is above its maximum.                       *)
THEOREM SelectionsAreAccepted == Spec => []SelectionsAccepted
<1>1. RoundInv => SelectionsAccepted
  BY NextIsAccepted
<1> QED
  BY <1>1, LimitInvariant, PTL
=============================================================================
