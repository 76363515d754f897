----------------------------- MODULE Decisions ------------------------------
(***************************************************************************)
(* What the calculations of Resources and Placement promise, on every      *)
(* input of a family.  A behaviour takes one input and stops.              *)
(***************************************************************************)
EXTENDS Resources, Placement

CONSTANTS
  Ledgers,      \* resources that are charged and returned, over the whole range
  Amounts,      \* resources that are compared and sorted
  AmountLimit,  \* no quantity in them is larger
  Totals,       \* what shares are taken of
  AclTexts,     \* ACLs as they are written in a configuration
  Users,        \* [name, account, groups]: account is the name, split at its dots
  Trees,        \* queue trees
  RuleLists,    \* placement rules
  Submissions   \* [user, queue, tag]

(* Differences of amounts, added up over all types twice                   *)
(* (StrictlyGreaterThan), stay in the range of quantities.                 *)
ASSUME AmountsAssumption ==
  /\ IsFiniteSet(ResourceTypes)
  /\ AmountLimit \in Nat /\ 4 * Cardinality(ResourceTypes) * AmountLimit < QuantityLimit
  /\ Amounts \subseteq { r \in Resource : \A k \in DOMAIN r : r[k] \in -AmountLimit .. AmountLimit }
  /\ Totals \subseteq Resource \cup {NilResource}

(* The tree is closed upwards, texts have been split, and every chain has  *)
(* its own rule.                                                           *)
ASSUME InputsAssumption ==
  /\ Ledgers \subseteq Resource
  /\ AclTexts \subseteq Seq(Seq(STRING))
  /\ \A tree \in Trees :
       /\ RootName \in DOMAIN tree
       /\ \A n \in DOMAIN tree : n \in Seq(STRING) \ {<<>>} /\ NameAndAbove(n) \subseteq DOMAIN tree
  /\ RuleLists \subseteq Seq(Seq(PlacementRule) \ {<<>>})
  /\ \A app \in Submissions : {app.user.account, app.queue, app.tag} \subseteq Seq(STRING)

VARIABLE input

None == [about |-> "nothing"]

PickLedgers ==
  \E a, b \in Ledgers : input' = [about |-> "ledgers", a |-> a, b |-> b]

PickAmounts ==
  \E a, b, c \in Amounts, t \in Totals :
    input' = [about |-> "amounts", a |-> a, b |-> b, c |-> c, total |-> t]

PickAcl ==
  \E t \in AclTexts, u \in Users :
    CheckACL(t) /\ ~NewACLFails(t) /\ input' = [about |-> "acl", text |-> t, user |-> u]

PickPlacement ==
  \E tree \in Trees, rules \in RuleLists, app \in Submissions :
    /\ \A i \in DOMAIN rules : ChainAccepted(rules[i])
    /\ input' = [about |-> "placement", tree |-> tree, rules |-> rules, app |-> app]

Init == input = None
Next == input = None /\ (PickLedgers \/ PickAmounts \/ PickAcl \/ PickPlacement)
Spec == Init /\ [][Next]_input

-----------------------------------------------------------------------------
(* Resources *)

(* Whatever is added and taken away again leaves what there was, type by   *)
(* type, also when a quantity wraps around on the way, and also for types  *)
(* that only one side knows: the totals of queues, nodes, applications and *)
(* pending asks come back to where they started.                           *)
AccountsReturn ==
  input.about = "ledgers" =>
    LET a == input.a
        b == input.b IN
    /\ Equals(Sub(Add(a, b), b), a) /\ Equals(Add(Sub(a, b), b), a)
    /\ IsZero(Sub(Clone(a), a))

NonNegative(r) == \A k \in DOMAIN r : r[k] >= 0

(* The different ways in which the scheduler asks whether there is enough, *)
(* and who has more, agree with each other, for types that are missing on  *)
(* either side and for any total that shares are taken of.  Resources that *)
(* are equal have the same rank, unless they are negative, when an entry   *)
(* of 0 is larger than no entry.                                           *)
ComparisonsAgree ==
  input.about = "amounts" =>
    LET a == input.a
        b == input.b
        cmp(x, y) == CompFairnessRatio(x, input.total, y, input.total) IN
    /\ StrictlyGreaterThan(a, b) <=> StrictlyGreaterThanOrEquals(a, b) /\ ~Equals(a, b)
    /\ StrictlyGreaterThan(a, b) <=> StrictlyGreaterThanZero(Sub(a, b))
    /\ StrictlyGreaterThanOrEquals(a, b) => FitIn(a, b)
    /\ FitIn(a, b) <=> IsZero(SubEliminateNegative(b, ComponentWiseMax(a, Zero)))
    /\ Equals(SubEliminateNegative(a, b), ComponentWiseMax(Sub(a, b), Zero))
    /\ Equals(Add(ComponentWiseMin(a, b), ComponentWiseMax(a, b)), Add(a, b))
    /\ Equals(MultiplyBy(a, 2), Add(a, a))
    /\ cmp(a, b) = -cmp(b, a)
    /\ NonNegative(a) /\ NonNegative(b) /\ Equals(a, b) => cmp(a, b) = 0

(* After sorting no application, node or queue stands behind one that it   *)
(* should come before, neighbour or not: shares order resources without    *)
(* contradictions.  Queues: as long as all of them are guaranteed the      *)
(* same; SortQueue compares each pair by the guarantee of one of them.     *)
SortedFairly ==
  input.about = "amounts" =>
    LET rs == <<input.a, input.b, input.c>>
        t == input.total
        apps == SortApplications([i \in 1 .. 3 |-> [mayAllocated |-> rs[i], submissionTime |-> i % 2]],
                                 "fair", t)
        fifo == SortApplications([i \in 1 .. 3 |-> [mayAllocated |-> rs[i], submissionTime |-> i % 2]],
                                 "fifo", t)
        nodes == SortNodes(rs)
        queues == SortQueue([i \in 1 .. 3 |-> [proposing |-> rs[i], guaranteed |-> t]])
    IN  \A i, j \in 1 .. 3 : i < j =>
          /\ CompFairnessRatio(apps[i].mayAllocated, t, apps[j].mayAllocated, t) <= 0
          /\ fifo[i].submissionTime <= fifo[j].submissionTime
          /\ CompFairnessRatioAssumesUnitPartition(nodes[i], nodes[j]) >= 0
          /\ CompFairnessRatio(queues[i].proposing, t, queues[j].proposing, t) <= 0

-----------------------------------------------------------------------------
(* Placement *)

(* An ACL gives access to the users and groups that are written in it, to  *)
(* everyone if a list is just the wildcard, and to nobody else, however it *)
(* is padded with spaces.                                                  *)
AclAsWritten ==
  input.about = "acl" =>
    LET users == IF input.text = <<>> THEN <<>> ELSE input.text[1]
        groups == IF Len(input.text) = 2 THEN input.text[2] ELSE <<>>
        listed(field, names) == \E i \in DOMAIN field : field[i] \in names \cap ValidNames
    IN  CheckAccess(NewACL(input.text), input.user) <=>
          \/ WildCard \in {users, groups}
          \/ listed(users, {input.user.name})
          \/ listed(groups, ToSet(input.user.groups))

Placed == PlaceApplication(input.tree, input.rules, input.app)

(* A filter is there for those that are not to pass: all that are listed   *)
(* or all that are not, and everyone if it denies without a list.          *)
FilteredOut(filter, user) ==
  IF filter.type = "deny" THEN EmptyFilter(filter) \/ IsListed(filter, user)
  ELSE ~EmptyFilter(filter) /\ ~IsListed(filter, user)

(* A rule and those of its parent rules that are asked for a queue: one    *)
(* whose value is a full name does not ask its parent.                     *)
RulesAsked(chain, app) == { k \in DOMAIN chain : \A j \in 1 .. k - 1 : ~IsQualified(chain[j], app) }

(* The rule that places an application is the first of the list that does  *)
(* not pass it on, and the user may submit where it leads, by an ACL on    *)
(* the way up from the first queue that existed.  Neither that rule nor a  *)
(* parent rule that it asks filters the user out, by a list of who may or  *)
(* by a list of who may not; and a queue that did not exist is only made   *)
(* if that very rule may create it, and never below a leaf.                *)
PlacedWithAccess ==
  input.about = "placement" /\ Placed.out = "queue" =>
    \E i \in DOMAIN input.rules :
      LET chain == input.rules[i] IN
      /\ TryChain(input.tree, chain, input.app) = Placed
      /\ \A j \in 1 .. i - 1 : TryChain(input.tree, input.rules[j], input.app).out = "none"
      /\ \E q \in NameAndAbove(Placed.queue) \cap DOMAIN input.tree :
           \/ CheckAccess(input.tree[q].submitACL, input.app.user)
           \/ CheckAccess(input.tree[q].adminACL, input.app.user)
      /\ \A k \in RulesAsked(chain, input.app) : ~FilteredOut(chain[k].filter, input.app.user)
      /\ Placed.queue \notin DOMAIN input.tree =>
           chain[1].create /\ ~input.tree[Nearest(input.tree, Placed.queue)].leaf

(* The next application of the same user with the same request is placed   *)
(* in the same queue, which then exists: the queues that a rule creates    *)
(* (one rule, with its parent rules) do not get into its way.  They do get *)
(* into the way of an earlier rule that now finds a leaf for its parent.   *)
PlacedAgain ==
  input.about = "placement" /\ Len(input.rules) = 1 /\ Placed.out = "queue" =>
    PlaceApplication(WithQueue(input.tree, Placed.queue), input.rules, input.app) = Placed
=============================================================================
