----------------------------- MODULE Resources ------------------------------
(***************************************************************************)
(* resources.Resource and the functions on it                              *)
(* (yunikorn-core/pkg/common/resources/resources.go).  A resource maps     *)
(* some resource types to quantities; a type that is missing counts as 0,  *)
(* but is not the same as an entry with 0.  A nil pointer is NilResource.  *)
(* Quantities are integers of a fixed width that wrap around silently.     *)
(* Shares are float64 in the code and exact fractions here: what is closer *)
(* than a float64 can tell apart is equal in the code.                     *)
(***************************************************************************)
EXTENDS Integers, Sequences, FiniteSetsExt, SequencesExt

CONSTANTS
  ResourceTypes,  \* resource names: memory, vcore, ...
  QuantityLimit,  \* quantities are in -QuantityLimit .. QuantityLimit - 1 (2^63 in the code)
  NilResource

Quantity == -QuantityLimit .. (QuantityLimit - 1)
Resource == UNION { [S -> Quantity] : S \in SUBSET ResourceTypes }

ASSUME QuantityAssumption == QuantityLimit \in Nat \ {0} /\ NilResource \notin Resource

Wrap(n) == ((n + QuantityLimit) % (2 * QuantityLimit)) - QuantityLimit

Zero == [k \in {} |-> 0]
OrZero(r) == IF r = NilResource THEN Zero ELSE r
Value(r, k) == IF k \in DOMAIN r THEN r[k] ELSE 0

(* A resource on the types of both, by the values of both. *)
Combine(left, right, op(_, _)) ==
  [k \in DOMAIN left \cup DOMAIN right |-> op(Value(left, k), Value(right, k))]

(* Mutant: types that only right has are left out of the sum. *)
AddKnownTypes(left, right) ==
  [k \in DOMAIN OrZero(left) |-> Wrap(OrZero(left)[k] + Value(OrZero(right), k))]

Add(left, right) ==
  LET plus(a, b) == Wrap(a + b) IN Combine(OrZero(left), OrZero(right), plus)

Sub(left, right) ==
  LET minus(a, b) == Wrap(a - b) IN Combine(OrZero(left), OrZero(right), minus)

SubEliminateNegative(left, right) ==
  LET d == Sub(left, right) IN [k \in DOMAIN d |-> Max({d[k], 0})]

(* MultiplyBy, for the whole numbers it is called with. *)
MultiplyBy(left, n) == [k \in DOMAIN OrZero(left) |-> OrZero(left)[k] * n]

Clone(r) == [k \in { k \in DOMAIN r : r[k] # 0 } |-> r[k]]

ComponentWiseMin(left, right) ==
  IF NilResource \in {left, right} THEN Zero
  ELSE LET least(a, b) == Min({a, b}) IN Combine(left, right, least)

ComponentWiseMax(left, right) ==
  IF NilResource \in {left, right} THEN Zero
  ELSE LET most(a, b) == Max({a, b}) IN Combine(left, right, most)

(* Mutant: one type that fits is enough. *)
FitInSomeType(larger, smaller) ==
  \/ OrZero(smaller) = Zero
  \/ \E k \in DOMAIN OrZero(smaller) :
       OrZero(smaller)[k] <= Max({Value(OrZero(larger), k), 0})

(* Only what is negative in larger counts as 0. *)
FitIn(larger, smaller) ==
  \A k \in DOMAIN OrZero(smaller) :
    OrZero(smaller)[k] <= Max({Value(OrZero(larger), k), 0})

Equals(left, right) ==
  \/ left = right
  \/ /\ NilResource \notin {left, right}
     /\ \A k \in DOMAIN left \cup DOMAIN right : Value(left, k) = Value(right, k)

StrictlyGreaterThanOrEquals(larger, smaller) ==
  \A k \in DOMAIN OrZero(larger) \cup DOMAIN OrZero(smaller) :
    Value(OrZero(larger), k) >= Value(OrZero(smaller), k)

(* The differences are added up, and what is in both is added twice. *)
StrictlyGreaterThan(larger, smaller) ==
  LET l == OrZero(larger)
      s == OrZero(smaller)
      diff(k) == Value(l, k) - Value(s, k)
      delta == MapThenSumSet(diff, DOMAIN l) + MapThenSumSet(diff, DOMAIN s)
  IN  StrictlyGreaterThanOrEquals(larger, smaller) /\ Wrap(delta) > 0

(* Mutant: one positive type is enough. *)
SomeGreaterThanZero(larger) == \E k \in DOMAIN OrZero(larger) : OrZero(larger)[k] > 0

StrictlyGreaterThanZero(larger) ==
  LET l == OrZero(larger) IN
  (\A k \in DOMAIN l : l[k] >= 0) /\ (\E k \in DOMAIN l : l[k] > 0)

IsZero(r) == \A k \in DOMAIN OrZero(r) : OrZero(r)[k] = 0

-----------------------------------------------------------------------------
(* Shares: what part of a total a resource is, type by type *)

(* A fraction has a positive second part, or 0 for +Inf. *)
Infinity == <<1, 0>>
ShareLess(a, b) ==
  /\ a # Infinity
  /\ b = Infinity \/ a[1] * b[2] < b[1] * a[2]

(* The total is increased by 1e-4, "to get rid of 0 denominator (mostly)". *)
Share(total, res, k) ==
  CASE res[k] = 0 -> <<0, 1>>
    [] res[k] # 0 /\ total = NilResource -> <<res[k], 1>>
    [] res[k] # 0 /\ total # NilResource /\ Value(total, k) >= 0 ->
         <<10000 * res[k], 10000 * Value(total, k) + 1>>
    [] OTHER -> Infinity

(* The largest share first; types with quantity 0 have a share of 0. *)
GetShares(total, res) ==
  LET places == 1 .. Cardinality(DOMAIN res)
      type == CHOOSE t \in Bijection(places, DOMAIN res) :
                \A i, j \in places : i < j =>
                  ~ShareLess(Share(total, res, t[i]), Share(total, res, t[j]))
  IN  [i \in places |-> Share(total, res, type[i])]

(* Mutant: only shares that both sides have are compared. *)
CompareCommonShares(l, r) ==
  LET differ == { i \in DOMAIN l \cap DOMAIN r : ShareLess(l[i], r[i]) \/ ShareLess(r[i], l[i]) }
  IN  IF differ = {} THEN 0
      ELSE IF ShareLess(l[Min(differ)], r[Min(differ)]) THEN -1 ELSE 1

(* From the largest share down; where one side has none left the other is  *)
(* compared with 0.                                                        *)
CompareShares(l, r) ==
  LET at(s, i) == IF i \in DOMAIN s THEN s[i] ELSE <<0, 1>>
      differ == { i \in DOMAIN l \cup DOMAIN r :
                    ShareLess(at(l, i), at(r, i)) \/ ShareLess(at(r, i), at(l, i)) }
  IN  IF differ = {} THEN 0
      ELSE IF ShareLess(at(l, Min(differ)), at(r, Min(differ))) THEN -1 ELSE 1

CompFairnessRatio(a1, b1, a2, b2) == CompareShares(GetShares(b1, a1), GetShares(b2, a2))

CompFairnessRatioAssumesUnitPartition(a1, a2) ==
  CompareShares(GetShares(NilResource, a1), GetShares(NilResource, a2))

-----------------------------------------------------------------------------
(* The order in which queues, applications and nodes are tried *)

(* sort.SliceStable of up to 20 elements: insertion from the left, where   *)
(* an element moves down as long as it is less than its neighbour; less    *)
(* has the pairs of elements of which the first is.                        *)
Inserted(sorted, x, less) ==
  LET stay == { j \in DOMAIN sorted : <<x, sorted[j]>> \notin less } IN
  InsertAt(sorted, (IF stay = {} THEN 0 ELSE Max(stay)) + 1, x)

SliceStable(s, less) ==
  LET upTo[n \in 0 .. Len(s)] == IF n = 0 THEN <<>> ELSE Inserted(upTo[n - 1], s[n], less)
  IN  upTo[Len(s)]

Pairs(s) == Range(s) \X Range(s)

(* Both sides are compared by the guaranteed resource of the left one. *)
QueueLess(l, r) == CompFairnessRatio(l.proposing, l.guaranteed, r.proposing, l.guaranteed) < 0

SortQueue(queues) == SliceStable(queues, { p \in Pairs(queues) : QueueLess(p[1], p[2]) })

FairLess(l, r, global) == CompFairnessRatio(l.mayAllocated, global, r.mayAllocated, global) < 0

SortApplications(apps, sortType, global) ==
  CASE sortType = "fair" -> SliceStable(apps, { p \in Pairs(apps) : FairLess(p[1], p[2], global) })
    [] sortType = "fifo" ->
         SliceStable(apps, { p \in Pairs(apps) : p[1].submissionTime < p[2].submissionTime })

(* Most available first. *)
MoreAvailable(l, r) == CompFairnessRatioAssumesUnitPartition(l, r) > 0

SortNodes(nodes) == SliceStable(nodes, { p \in Pairs(nodes) : MoreAvailable(p[1], p[2]) })

=============================================================================
