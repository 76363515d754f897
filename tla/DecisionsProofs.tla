-------------------------- MODULE DecisionsProofs --------------------------
(***************************************************************************)
(* Proofs about the calculations of Resources and Placement, for quantities*)
(* of every width, ACLs of any length, trees of any depth and any number of*)
(* rules with any number of parent rules, any number of resource types, and*)
(* sequences of any length that are sorted.  A behaviour takes one input,  *)
(* so a property of the behaviours is one of the calculation on every input*)
(* that InputsAssumption and AmountsAssumption admit.                      *)
(***************************************************************************)
EXTENDS Decisions, SequenceTheorems, FiniteSetTheorems, WellFoundedInduction, TLAPS

-----------------------------------------------------------------------------
(* Quantities that wrap around *)

Width == 2 * QuantityLimit

(* A sum that wraps around is a quantity again.                            *)
LEMMA WrapType == \A n \in Int : Wrap(n) \in Quantity
  BY QuantityAssumption DEF Wrap, Quantity

(* What % and \div have to do with each other, stated without a product of *)
(* unknowns for the provers.                                               *)
LEMMA Division ==
  ASSUME NEW a \in Int, NEW m \in Nat \ {0}
  PROVE  a % m = a - m * (a \div m) /\ a \div m \in Int
OBVIOUS

(* Wrapping around changes a number by whole ranges of quantities.         *)
LEMMA WrapCongruent == \A n \in Int : \E k \in Int : Wrap(n) = n + k * Width
<1> TAKE n \in Int
<1> DEFINE a == n + QuantityLimit
           d == a \div Width
<1>1. Width \in Nat \ {0} /\ a \in Int /\ QuantityLimit \in Nat
  BY QuantityAssumption DEF Width
<1>2. a % Width = a - Width * d /\ d \in Int
  BY <1>1, Division
<1>3. Wrap(n) = (a % Width) - QuantityLimit
  BY DEF Wrap, Width
<1> HIDE DEF d
<1>4. a - Width * d - QuantityLimit = n + (0 - d) * Width
  BY <1>1, <1>2
<1>5. Wrap(n) = n + (0 - d) * Width
  BY <1>2, <1>3, <1>4
<1> QED
  BY <1>2, <1>5

(* Two quantities that differ by whole ranges are the same.                *)
LEMMA QuantityUnique ==
  ASSUME NEW x \in Quantity, NEW y \in Quantity, NEW k \in Int, x = y + k * Width
  PROVE  x = y
<1> DEFINE kw == k * Width
<1>1. Width \in Nat /\ Width > 0 /\ kw \in Int
  BY QuantityAssumption DEF Width
<1>2. CASE k >= 1
  <2>1. kw >= Width
    BY <1>1, <1>2
  <2> QED
    BY <2>1, <1>1, QuantityAssumption DEF Quantity, Width
<1>3. CASE k <= -1
  <2>1. kw <= 0 - Width
    BY <1>1, <1>3
  <2> QED
    BY <2>1, <1>1, QuantityAssumption DEF Quantity, Width
<1>4. CASE k = 0
  BY <1>4, <1>1, QuantityAssumption DEF Quantity
<1> QED
  BY <1>2, <1>3, <1>4

(* A quantity comes back when something is added and taken away again,     *)
(* wherever the sum wrapped around.                                        *)
LEMMA WrapsBack ==
  ASSUME NEW x \in Quantity, NEW y \in Quantity
  PROVE  /\ Wrap(x) = x
         /\ Wrap(Wrap(x + y) - y) = x
         /\ Wrap(Wrap(x - y) + y) = x
<1>0. x \in Int /\ y \in Int /\ Width \in Int
  BY QuantityAssumption DEF Quantity, Width
<1>1. ASSUME NEW n \in Int, NEW j \in Int, n = x + j * Width
      PROVE  Wrap(n) = x
  <2>1. PICK k \in Int : Wrap(n) = n + k * Width
    BY WrapCongruent
  <2>2. Wrap(n) = x + (j + k) * Width
    BY <2>1, <1>0, <1>1
  <2> QED
    BY <2>2, WrapType, QuantityUnique
<1>2. Wrap(x) = x
  <2>1. x = x + 0 * Width
    BY <1>0
  <2> QED
    BY <1>0, <1>1, <2>1
<1>3. Wrap(Wrap(x + y) - y) = x
  <2>1. x + y \in Int
    BY <1>0
  <2>2. PICK k \in Int : Wrap(x + y) = (x + y) + k * Width
    BY <2>1, WrapCongruent
  <2>3. Wrap(x + y) \in Int /\ k * Width \in Int
    BY <1>0, <2>1, <2>2
  <2>4. Wrap(x + y) - y = x + k * Width /\ Wrap(x + y) - y \in Int
    BY <1>0, <2>2, <2>3
  <2> QED
    BY <1>1, <2>4
<1>4. Wrap(Wrap(x - y) + y) = x
  <2>1. x - y \in Int
    BY <1>0
  <2>2. PICK k \in Int : Wrap(x - y) = (x - y) + k * Width
    BY <2>1, WrapCongruent
  <2>3. Wrap(x - y) \in Int /\ k * Width \in Int
    BY <1>0, <2>1, <2>2
  <2>4. Wrap(x - y) + y = x + k * Width /\ Wrap(x - y) + y \in Int
    BY <1>0, <2>2, <2>3
  <2> QED
    BY <1>1, <2>4
<1> QED
  BY <1>2, <1>3, <1>4

-----------------------------------------------------------------------------
(* Resources, type by type *)

LEMMA ValueType ==
  ASSUME NEW r \in Resource, NEW k
  PROVE  Value(r, k) \in Quantity
  BY QuantityAssumption DEF Resource, Quantity, Value

(* Add and Sub return resources, and their values are sums and differences *)
(* that wrap around, for a type on one side only as well.                  *)
LEMMA SumsOf ==
  ASSUME NEW a \in Resource, NEW b \in Resource
  PROVE  /\ Add(a, b) \in Resource /\ Sub(a, b) \in Resource
         /\ \A k : /\ Value(Add(a, b), k) = Wrap(Value(a, k) + Value(b, k))
                   /\ Value(Sub(a, b), k) = Wrap(Value(a, k) - Value(b, k))
<1> DEFINE types == DOMAIN a \cup DOMAIN b
<1>1. types \in SUBSET ResourceTypes
  BY DEF Resource
<1>2. OrZero(a) = a /\ OrZero(b) = b
  BY QuantityAssumption DEF OrZero
<1>3. /\ Add(a, b) = [k \in types |-> Wrap(Value(a, k) + Value(b, k))]
      /\ Sub(a, b) = [k \in types |-> Wrap(Value(a, k) - Value(b, k))]
  BY <1>2 DEF Add, Sub, Combine
<1>4. \A k : Value(a, k) \in Int /\ Value(b, k) \in Int
  BY ValueType, QuantityAssumption DEF Quantity
<1>5. Add(a, b) \in [types -> Quantity] /\ Sub(a, b) \in [types -> Quantity]
  BY <1>3, <1>4, WrapType
<1>6. 0 \in Quantity /\ Wrap(0) = 0
  BY WrapsBack, QuantityAssumption DEF Quantity
<1>7. \A k : k \notin types => Value(a, k) = 0 /\ Value(b, k) = 0
  BY DEF Value
<1>8. ASSUME NEW k
      PROVE  /\ Value(Add(a, b), k) = Wrap(Value(a, k) + Value(b, k))
             /\ Value(Sub(a, b), k) = Wrap(Value(a, k) - Value(b, k))
  <2>1. CASE k \in types
    BY <1>3, <2>1 DEF Value
  <2>2. CASE k \notin types
    <3>1. Value(Add(a, b), k) = 0 /\ Value(Sub(a, b), k) = 0
      BY <1>3, <2>2 DEF Value
    <3> QED
      BY <1>6, <1>7, <2>2, <3>1
  <2> QED
    BY <2>1, <2>2
<1> QED
  BY <1>1, <1>5, <1>8 DEF Resource

(* Resources with the same values are equal to Equals, whichever types     *)
(* have an entry.                                                          *)
LEMMA EqualValues ==
  ASSUME NEW a \in Resource, NEW b \in Resource, \A k : Value(a, k) = Value(b, k)
  PROVE  Equals(a, b)
  BY QuantityAssumption DEF Equals

(* What is added and taken away again, or taken away and put back, is      *)
(* gone.                                                                   *)
LEMMA LedgersReturn ==
  ASSUME NEW a \in Resource, NEW b \in Resource
  PROVE  /\ Equals(Sub(Add(a, b), b), a) /\ Equals(Add(Sub(a, b), b), a)
         /\ IsZero(Sub(Clone(a), a))
<1>1. \A k : Value(a, k) \in Quantity /\ Value(b, k) \in Quantity
  BY ValueType
<1>2. Equals(Sub(Add(a, b), b), a)
  <2>1. Add(a, b) \in Resource /\ Sub(Add(a, b), b) \in Resource
    BY SumsOf
  <2>2. \A k : Value(Sub(Add(a, b), b), k) = Wrap(Wrap(Value(a, k) + Value(b, k)) - Value(b, k))
    BY <2>1, SumsOf
  <2> QED
    BY <1>1, <2>1, <2>2, WrapsBack, EqualValues
<1>3. Equals(Add(Sub(a, b), b), a)
  <2>1. Sub(a, b) \in Resource /\ Add(Sub(a, b), b) \in Resource
    BY SumsOf
  <2>2. \A k : Value(Add(Sub(a, b), b), k) = Wrap(Wrap(Value(a, k) - Value(b, k)) + Value(b, k))
    BY <2>1, SumsOf
  <2> QED
    BY <1>1, <2>1, <2>2, WrapsBack, EqualValues
<1>4. IsZero(Sub(Clone(a), a))
  <2> DEFINE some == { k \in DOMAIN a : a[k] # 0 }
  <2>11. PICK S \in SUBSET ResourceTypes : a \in [S -> Quantity]
    BY DEF Resource
  <2>12. some \in SUBSET ResourceTypes /\ Clone(a) = [k \in some |-> a[k]]
    BY <2>11 DEF Clone
  <2>13. Clone(a) \in [some -> Quantity]
    BY <2>11, <2>12
  <2>1. Clone(a) \in Resource /\ \A k : Value(Clone(a), k) = Value(a, k)
    BY <2>12, <2>13 DEF Resource, Value
  <2>2. Sub(Clone(a), a) \in Resource
    BY <2>1, SumsOf
  <2>3. \A k : Value(Sub(Clone(a), a), k) = Wrap(Value(a, k) - Value(a, k))
    BY <2>1, SumsOf
  <2>4. Wrap(0) = 0
    BY WrapsBack, QuantityAssumption DEF Quantity
  <2>5. \A k : Value(a, k) - Value(a, k) = 0
    BY <1>1, QuantityAssumption DEF Quantity
  <2>6. \A k : Value(Sub(Clone(a), a), k) = 0
    BY <2>3, <2>4, <2>5
  <2>7. OrZero(Sub(Clone(a), a)) = Sub(Clone(a), a)
    BY <2>2, QuantityAssumption DEF OrZero
  <2> QED
    BY <2>6, <2>7 DEF IsZero, Value
<1> QED
  BY <1>2, <1>3, <1>4

-----------------------------------------------------------------------------
(* ACLs *)

Listed(field, names) == \E i \in DOMAIN field : field[i] \in names \cap ValidNames

(* The valid entries of a field, as the property says it.                  *)
LEMMA EntriesListed ==
  ASSUME NEW field, NEW names
  PROVE  ValidEntries(field) \cap names # {} <=> Listed(field, names)
  BY DEF ValidEntries, ToSet, Listed

(* NewACL, whose second field is read after the first may have allowed     *)
(* all, allows just those that are written.                                *)
LEMMA AccessAsWritten ==
  ASSUME NEW text \in Seq(Seq(STRING)), ~NewACLFails(text), NEW user
  PROVE  LET users == IF text = <<>> THEN <<>> ELSE text[1]
             groups == IF Len(text) = 2 THEN text[2] ELSE <<>>
         IN  CheckAccess(NewACL(text), user) <=>
               \/ WildCard \in {users, groups}
               \/ Listed(users, {user.name})
               \/ Listed(groups, ToSet(user.groups))
<1> DEFINE all == IF JustWildCard(text) THEN [NoACL EXCEPT !.allAllowed = TRUE] ELSE NoACL
           names == {user.name}
           members == ToSet(user.groups)
           fields == {"users", "groups", "allAllowed"}
<1>1. DOMAIN all = fields /\ (JustWildCard(text) => all.allAllowed)
  BY DEF NoACL
<1>2. WildCard # <<>>
  BY DEF WildCard
<1>3. ~Listed(<<>>, names) /\ ~Listed(<<>>, members)
  BY DEF Listed
(* What the first field does, and the second after it. *)
<1>4. ASSUME NEW field
      PROVE  LET acl == SetUsers(all, field) IN
             /\ DOMAIN acl = fields
             /\ field = WildCard \/ JustWildCard(text) => acl.allAllowed
             /\ field # WildCard /\ ~JustWildCard(text) =>
                  ~acl.allAllowed /\ acl.users = ValidEntries(field) /\ acl.groups = {}
  BY <1>1 DEF SetUsers, NoACL
<1>5. ASSUME NEW acl, NEW field, DOMAIN acl = fields
      PROVE  LET both == SetGroups(acl, field) IN
             /\ acl.allAllowed \/ field = WildCard => both.allAllowed
             /\ ~acl.allAllowed /\ field # WildCard =>
                  ~both.allAllowed /\ both.users = acl.users /\ both.groups = ValidEntries(field)
  BY <1>5 DEF SetGroups
<1>6. CASE text = <<>>
  <2>1. NewACL(text) = NoACL /\ Len(text) # 2
    BY <1>6 DEF NewACL
  <2>2. ~CheckAccess(NewACL(text), user)
    BY <2>1 DEF CheckAccess, NoACL
  <2> QED
    BY <1>2, <1>3, <1>6, <2>1, <2>2
<1>7. CASE Len(text) = 1
  <2>1. text # <<>> /\ DOMAIN text = {1}
    BY <1>7
  <2>2. NewACL(text) = SetUsers(all, text[1])
    BY <1>7, <2>1 DEF NewACL
  <2>3. JustWildCard(text) => text[1] = WildCard
    BY <2>1 DEF JustWildCard
  <2> HIDE DEF all
  <2>4. CheckAccess(NewACL(text), user) <=>
          text[1] = WildCard \/ ValidEntries(text[1]) \cap names # {}
    BY <1>4, <2>2, <2>3 DEF CheckAccess
  <2>5. CheckAccess(NewACL(text), user) <=> text[1] = WildCard \/ Listed(text[1], names)
    BY <2>4, EntriesListed
  <2> QED
    BY <1>2, <1>3, <1>7, <2>1, <2>5
<1>8. CASE Len(text) = 2
  <2>1. text # <<>> /\ DOMAIN text = {1, 2}
    BY <1>8
  <2>2. NewACL(text) = SetGroups(SetUsers(all, text[1]), text[2])
    BY <1>8, <2>1 DEF NewACL
  <2>3. JustWildCard(text) => WildCard \in {text[1], text[2]}
    BY <2>1 DEF JustWildCard
  <2> HIDE DEF all
  <2>4. CheckAccess(NewACL(text), user) <=>
          \/ WildCard \in {text[1], text[2]}
          \/ ValidEntries(text[1]) \cap names # {} \/ ValidEntries(text[2]) \cap members # {}
    <3>1. CASE text[1] = WildCard
      BY <1>4, <1>5, <2>2, <3>1 DEF CheckAccess
    <3>2. CASE text[2] = WildCard
      BY <1>4, <1>5, <2>2, <3>2 DEF CheckAccess
    <3>3. CASE WildCard \notin {text[1], text[2]}
      BY <1>4, <1>5, <2>2, <2>3, <3>3 DEF CheckAccess
    <3> QED
      BY <3>1, <3>2, <3>3
  <2>5. CheckAccess(NewACL(text), user) <=>
          \/ WildCard \in {text[1], text[2]}
          \/ Listed(text[1], names) \/ Listed(text[2], members)
    BY <2>4, EntriesListed
  <2> QED
    BY <1>8, <2>1, <2>5
<1>9. Len(text) = 0 => text = <<>>
  OBVIOUS
<1>10. PICK n \in Nat : n = Len(text) /\ ~(n > 2)
  BY DEF NewACLFails
<1>11. n = 0 \/ n = 1 \/ n = 2
  BY <1>10
<1> QED
  BY <1>6, <1>7, <1>8, <1>9, <1>10, <1>11

-----------------------------------------------------------------------------
(* Chains of rules *)

LEMMA LeastNatural ==
  ASSUME NEW S \in SUBSET Nat, S # {}
  PROVE  \E x \in S : \A y \in S : x <= y
<1> DEFINE R == { ss \in Nat \X Nat : ss[1] < ss[2] }
<1>1. IsWellFoundedOn(R, Nat)
  BY NatLessThanWellFounded DEF OpToRel
<1> HIDE DEF R
<1>2. \E x \in S : \A y \in S : ~ (<<y, x>> \in R)
  BY <1>1, WFMin
<1>3. \A x, y \in S : <<y, x>> \notin R => x <= y
  BY DEF R
<1> QED
  BY <1>2, <1>3

(* A set of positions with the last one, and with every one before one of  *)
(* them, has all.                                                          *)
LEMMA DownwardInduction ==
  ASSUME NEW n \in Nat, NEW G,
         n + 1 \in G, \A i \in 1 .. n : i + 1 \in G => i \in G
  PROVE  1 .. n + 1 \subseteq G
<1> DEFINE bad == { k \in Nat : k <= n /\ n + 1 - k \notin G }
<1>1. bad \in SUBSET Nat
  OBVIOUS
<1>2. ASSUME bad # {}
      PROVE  FALSE
  <2> HIDE DEF bad
  <2>1. PICK k \in bad : \A j \in bad : k <= j
    BY <1>1, <1>2, LeastNatural
  <2> USE DEF bad
  <2>2. k \in Nat /\ k <= n /\ n + 1 - k \notin G
    BY <2>1
  <2>3. k # 0
    BY <2>2
  <2>4. k - 1 \in Nat /\ k - 1 <= n /\ ~(k <= k - 1)
    BY <2>2, <2>3
  <2>5. n + 1 - (k - 1) \in G
    BY <2>1, <2>4
  <2>6. n + 1 - k \in 1 .. n /\ (n + 1 - k) + 1 = n + 1 - (k - 1)
    BY <2>2, <2>3
  <2> QED
    BY <2>2, <2>5, <2>6
<1>3. ASSUME NEW i \in 1 .. n + 1
      PROVE  i \in G
  <2>1. n + 1 - i \in Nat /\ n + 1 - i <= n /\ n + 1 - (n + 1 - i) = i
    OBVIOUS
  <2> QED
    BY <1>2, <2>1
<1> QED
  BY <1>3

(* The results of the rules, each from the one behind it.                  *)
Results(tree, chain, app, f, S) ==
  [i \in S |-> IF i > Len(chain) THEN NoParent ELSE PlaceByRule(tree, chain[i], app, f[i + 1])]

Run(tree, chain, app, f) == f = Results(tree, chain, app, f, 1 .. Len(chain) + 1)

(* The recursion of PlaceByChain has a solution. *)
LEMMA ChainSolved ==
  ASSUME NEW tree, NEW R, NEW chain \in Seq(R), NEW app
  PROVE  \E f : Run(tree, chain, app, f) /\ PlaceByChain(tree, chain, app) = f[1]
<1> DEFINE n == Len(chain)
           solved(i) == \E f : f = Results(tree, chain, app, f, i .. n + 1)
           G == { i \in 1 .. n + 1 : solved(i) }
<1>1. n \in Nat
  OBVIOUS
<1> HIDE DEF n
<1>2. solved(n + 1)
  <2> DEFINE f == [i \in n + 1 .. n + 1 |-> NoParent]
  <2>1. f = Results(tree, chain, app, f, n + 1 .. n + 1)
    BY <1>1 DEF Results, n
  <2> QED
    BY <2>1
<1>3. ASSUME NEW m \in 1 .. n, solved(m + 1)
      PROVE  solved(m)
  <2>1. PICK f : f = Results(tree, chain, app, f, m + 1 .. n + 1)
    BY <1>3
  <2>2. m .. n + 1 = {m} \cup (m + 1 .. n + 1) /\ m \notin m + 1 .. n + 1
    BY <1>1
  <2> DEFINE g == [i \in m .. n + 1 |->
                     IF i = m THEN PlaceByRule(tree, chain[i], app, f[i + 1]) ELSE f[i]]
  <2>3. ASSUME NEW i \in m .. n + 1
        PROVE  g[i] = IF i > n THEN NoParent ELSE PlaceByRule(tree, chain[i], app, g[i + 1])
    <3>1. CASE i = m
      <4>1. m + 1 \in m .. n + 1 /\ m + 1 # m /\ ~(m > n)
        BY <1>1, <2>2
      <4>2. g[m + 1] = f[m + 1]
        BY <2>2, <4>1
      <4> QED
        BY <3>1, <4>1, <4>2
    <3>2. CASE i # m
      <4>1. i \in m + 1 .. n + 1 /\ g[i] = f[i]
        BY <2>2, <3>2
      <4>2. f[i] = IF i > n THEN NoParent ELSE PlaceByRule(tree, chain[i], app, f[i + 1])
        BY <2>1, <4>1 DEF Results, n
      <4>3. i > n \/ (i + 1 \in m .. n + 1 /\ i + 1 # m)
        BY <1>1, <4>1
      <4>4. i > n \/ g[i + 1] = f[i + 1]
        BY <2>2, <4>3
      <4> QED
        BY <4>1, <4>2, <4>4
    <3> QED
      BY <3>1, <3>2
  <2>4. g = Results(tree, chain, app, g, m .. n + 1)
    BY <2>3 DEF Results, n
  <2> QED
    BY <2>4
<1>4. 1 .. n + 1 \subseteq G
  <2> HIDE DEF solved
  <2>1. n + 1 \in G
    BY <1>1, <1>2
  <2>2. \A i \in 1 .. n : i + 1 \in G => i \in G
    BY <1>1, <1>3
  <2> QED
    BY <1>1, <2>1, <2>2, DownwardInduction
<1>5. solved(1)
  BY <1>1, <1>4
<1>6. \E f : f = Results(tree, chain, app, f, 1 .. Len(chain) + 1)
  BY <1>5 DEF n
<1> DEFINE place == CHOOSE f : f = Results(tree, chain, app, f, 1 .. Len(chain) + 1)
<1>7. Run(tree, chain, app, place)
  BY <1>6 DEF Run
<1>8. PlaceByChain(tree, chain, app) = place[1]
  BY DEF PlaceByChain, Results
<1> QED
  BY <1>7, <1>8

-----------------------------------------------------------------------------
(* What one rule returns *)

(* Parts of names: those that are written, and those made from a name with *)
(* dots.                                                                   *)
Typed(app) == {app.user.account, app.queue, app.tag} \subseteq Seq(STRING)
Parts(app) == STRING \cup {"root"} \cup { ReplaceDot(name)[1] : name \in {app.user.account, app.queue, app.tag} }
Sound(app, r) == r.out = "queue" => r.queue \in Seq(Parts(app)) \ {<<>>}

(* A name with something behind it is a name.                              *)
LEMMA ConcatSound ==
  ASSUME NEW S, NEW x \in Seq(S) \ {<<>>}, NEW y \in Seq(S)
  PROVE  x \o y \in Seq(S) \ {<<>>}
<1>1. x \o y \in Seq(S) /\ Len(x \o y) = Len(x) + Len(y) /\ Len(x) \in Nat /\ Len(y) \in Nat
  BY ConcatProperties
<1>2. Len(x) # 0
  OBVIOUS
<1> QED
  BY <1>1, <1>2

(* Values of rules, and the names made from them, are names made of parts. *)
LEMMA ValuesSound ==
  ASSUME NEW app, Typed(app), NEW rule \in PlacementRule
  PROVE  /\ RuleValue(rule, app) \in Seq(Parts(app))
         /\ RelativeName(rule, app) \in Seq(Parts(app))
         /\ RootName \in Seq(Parts(app)) \ {<<>>}
<1>1. Seq(STRING) \subseteq Seq(Parts(app))
  BY SeqMonotonic DEF Parts
<1>2. RuleValue(rule, app) \in Seq(STRING)
  BY DEF RuleValue, PlacementRule, Typed
<1>3. RootName \in Seq(Parts(app)) \ {<<>>}
  <2>2. "root" \in Parts(app)
    BY DEF Parts
  <2>3. RootName = <<"root">>
    BY DEF RootName
  <2>4. \A S : \A x \in S : <<x>> \in Seq(S) \ {<<>>}
    OBVIOUS
  <2> QED
    BY <2>2, <2>3, <2>4
<1>4. CASE rule.kind = "fixed"
  <2>1. RelativeName(rule, app) = rule.value /\ rule.value \in Seq(STRING)
    BY <1>4 DEF RelativeName, PlacementRule
  <2> QED
    BY <1>1, <1>2, <1>3, <2>1
<1>5. CASE rule.kind # "fixed"
  <2> DEFINE v == RuleValue(rule, app)
  <2>1. RelativeName(rule, app) = ReplaceDot(v) /\ v \in {app.user.account, app.queue, app.tag}
    BY <1>5 DEF RelativeName, RuleValue, PlacementRule
  <2>2. ReplaceDot(v) = <<ReplaceDot(v)[1]>>
    BY DEF ReplaceDot
  <2>3. ReplaceDot(v)[1] \in Parts(app)
    BY <2>1 DEF Parts
  <2>4. \A S : \A x \in S : <<x>> \in Seq(S)
    OBVIOUS
  <2>5. ReplaceDot(v) \in Seq(Parts(app))
    BY <2>2, <2>3, <2>4
  <2> QED
    BY <1>1, <1>2, <1>3, <2>1, <2>5
<1> QED
  BY <1>1, <1>2, <1>3, <1>4, <1>5

(* A rule that returns a queue returns a name, lets the user through, and  *)
(* found the queue or may create it; and no rule returns what stands for a *)
(* missing parent.                                                         *)
LEMMA RuleSound ==
  ASSUME NEW tree, NEW app, Typed(app), NEW rule \in PlacementRule, NEW parent, Sound(app, parent)
  PROVE  LET r == PlaceByRule(tree, rule, app, parent) IN
         /\ Sound(app, r)
         /\ r # NoParent
         /\ r.out = "queue" =>
              AllowUser(rule.filter, app.user) /\ (rule.create \/ Exists(tree, r.queue))
<1> DEFINE Good(r) == /\ Sound(app, r)
                      /\ r # NoParent
                      /\ r.out = "queue" => rule.create \/ Exists(tree, r.queue)
           r == PlaceByRule(tree, rule, app, parent)
<1>1. ASSUME NEW name \in Seq(Parts(app)) \ {<<>>}
      PROVE  Good(CreateOrNone(tree, rule, name))
  BY DEF CreateOrNone, QueueResult, Outcome, NoParent, Sound
<1>2. \A out \in {"none", "error", "panic"} : Good(Outcome(out))
  BY DEF Outcome, NoParent, Sound
<1>3. CASE RuleValue(rule, app) = <<>> \/ ~AllowUser(rule.filter, app.user)
  <2>1. r = Outcome("none") /\ r.out # "queue"
    BY <1>3 DEF PlaceByRule, Outcome
  <2> QED
    BY <1>2, <2>1
<1>4. CASE ~(RuleValue(rule, app) = <<>> \/ ~AllowUser(rule.filter, app.user))
  <2>1. CASE IsQualified(rule, app)
    BY <1>1, <1>4, <2>1, ValuesSound DEF PlaceByRule
  <2>2. CASE ~IsQualified(rule, app) /\ parent = NoParent
    BY <1>1, <1>4, <2>2, ValuesSound, ConcatSound DEF PlaceByRule
  <2>3. CASE ~IsQualified(rule, app) /\ parent # NoParent
    <3> DEFINE name == IF Qualified(parent.queue) THEN parent.queue ELSE RootName \o parent.queue
    <3>1. r = BelowParent(tree, rule, app, parent)
      BY <1>4, <2>3 DEF PlaceByRule
    <3>2. CASE parent.out # "queue"
      <4>1. r = parent
        BY <3>1, <3>2 DEF BelowParent
      <4> QED
        BY <2>3, <3>2, <4>1 DEF Sound
    <3>3. CASE parent.out = "queue"
      <4>1. name \in Seq(Parts(app)) \ {<<>>}
        BY <3>3, ValuesSound, ConcatSound DEF Sound
      <4>2. Good(CreateOrNone(tree, rule, name \o RelativeName(rule, app)))
        BY <1>1, <4>1, ValuesSound, ConcatSound
      <4>3. \/ r = Outcome("panic")
            \/ r = Outcome("error")
            \/ r = CreateOrNone(tree, rule, name \o RelativeName(rule, app))
        BY <3>1, <3>3 DEF BelowParent
      <4> QED
        BY <1>2, <1>4, <4>2, <4>3
    <3> QED
      BY <3>2, <3>3
  <2> QED
    BY <2>1, <2>2, <2>3
<1> QED
  BY <1>3, <1>4

(* Every rule of a run returns a sound result. *)
LEMMA RunSound ==
  ASSUME NEW tree, NEW app, Typed(app), NEW chain \in Seq(PlacementRule),
         NEW f, Run(tree, chain, app, f)
  PROVE  \A i \in 1 .. Len(chain) + 1 : Sound(app, f[i])
<1> DEFINE n == Len(chain)
           G == { i \in 1 .. n + 1 : Sound(app, f[i]) }
<1>1. n \in Nat /\ \A i \in 1 .. n : chain[i] \in PlacementRule
  OBVIOUS
<1>2. \A i \in 1 .. n + 1 :
        f[i] = IF i > n THEN NoParent ELSE PlaceByRule(tree, chain[i], app, f[i + 1])
  BY DEF Run, Results
<1> HIDE DEF n
<1>3. n + 1 \in G
  <2>1. n + 1 \in 1 .. n + 1 /\ n + 1 > n
    BY <1>1
  <2>2. f[n + 1] = NoParent
    BY <1>2, <2>1
  <2>3. Sound(app, NoParent)
    BY DEF Sound, NoParent, Outcome
  <2> QED
    BY <2>1, <2>2, <2>3
<1>4. ASSUME NEW i \in 1 .. n, i + 1 \in G
      PROVE  i \in G
  <2>1. f[i] = PlaceByRule(tree, chain[i], app, f[i + 1]) /\ Sound(app, f[i + 1])
    BY <1>1, <1>2, <1>4
  <2> QED
    BY <1>1, <2>1, RuleSound
<1>5. 1 .. n + 1 \subseteq G
  BY <1>1, <1>3, <1>4, DownwardInduction
<1> QED
  BY <1>5 DEF n

(* In a run that leads to a queue every rule that was asked lets the user  *)
(* through: a rule that asks its parent passes on what is not a queue.     *)
AskedFrom(chain, app, i) ==
  { k \in i .. Len(chain) : \A j \in i .. k - 1 : ~IsQualified(chain[j], app) }

LEMMA RunAllows ==
  ASSUME NEW tree, NEW app, Typed(app), NEW chain \in Seq(PlacementRule),
         NEW f, Run(tree, chain, app, f)
  PROVE  \A i \in 1 .. Len(chain) + 1 : f[i].out = "queue" =>
           \A k \in AskedFrom(chain, app, i) : AllowUser(chain[k].filter, app.user)
<1> DEFINE n == Len(chain)
           Through(i) == \A k \in AskedFrom(chain, app, i) : AllowUser(chain[k].filter, app.user)
           G == { i \in 1 .. n + 1 : f[i].out = "queue" => Through(i) }
<1>1. n \in Nat /\ \A i \in 1 .. n : chain[i] \in PlacementRule
  OBVIOUS
<1>2. \A i \in 1 .. n + 1 :
        f[i] = IF i > n THEN NoParent ELSE PlaceByRule(tree, chain[i], app, f[i + 1])
  BY DEF Run, Results
<1>3. \A i \in 1 .. n + 1 : Sound(app, f[i])
  BY RunSound
<1>4. \A i : AskedFrom(chain, app, i) = { k \in i .. n : \A j \in i .. k - 1 : ~IsQualified(chain[j], app) }
  BY DEF AskedFrom
<1> HIDE DEF n
<1>5. n + 1 \in G
  <2>1. n + 1 \in 1 .. n + 1 /\ n + 1 .. n = {}
    BY <1>1
  <2>2. AskedFrom(chain, app, n + 1) = {}
    BY <1>4, <2>1
  <2> QED
    BY <2>1, <2>2
<1>6. ASSUME NEW i \in 1 .. n, i + 1 \in G
      PROVE  i \in G
  <2> SUFFICES ASSUME f[i].out = "queue", NEW k \in AskedFrom(chain, app, i)
               PROVE  AllowUser(chain[k].filter, app.user)
    BY <1>1, <1>6
  <2>1. /\ i \in 1 .. n + 1 /\ i + 1 \in 1 .. n + 1 /\ ~(i > n) /\ i \in i .. i
        /\ f[i] = PlaceByRule(tree, chain[i], app, f[i + 1]) /\ Sound(app, f[i + 1])
    BY <1>1, <1>2, <1>3
  <2>2. AllowUser(chain[i].filter, app.user) /\ RuleValue(chain[i], app) # <<>>
    BY <2>1 DEF PlaceByRule, Outcome
  <2>3. k \in i .. n /\ \A j \in i .. k - 1 : ~IsQualified(chain[j], app)
    BY <1>4
  <2>4. CASE k = i
    BY <2>2, <2>4
  <2>5. CASE k # i
    <3>1. /\ k \in i + 1 .. n /\ i \in i .. k - 1 /\ i + 1 \in 1 .. n
          /\ \A j \in i + 1 .. k - 1 : j \in i .. k - 1
      BY <1>1, <2>3, <2>5
    <3>2. ~IsQualified(chain[i], app) /\ k \in AskedFrom(chain, app, i + 1)
      BY <1>4, <2>3, <3>1
    <3>3. f[i + 1] # NoParent
      <4>1. f[i + 1] = PlaceByRule(tree, chain[i + 1], app, f[i + 2])
        BY <1>1, <1>2, <2>1, <3>1
      <4>2. Sound(app, f[i + 2]) /\ chain[i + 1] \in PlacementRule
        BY <1>1, <1>3, <3>1
      <4> QED
        BY <4>1, <4>2, RuleSound
    <3>4. f[i] = BelowParent(tree, chain[i], app, f[i + 1])
      BY <2>1, <2>2, <3>2, <3>3 DEF PlaceByRule
    <3>5. f[i + 1].out = "queue"
      BY <3>4 DEF BelowParent
    <3> QED
      BY <1>6, <3>2, <3>5
  <2> QED
    BY <2>4, <2>5
<1>7. 1 .. n + 1 \subseteq G
  BY <1>1, <1>5, <1>6, DownwardInduction
<1> QED
  BY <1>7 DEF n

-----------------------------------------------------------------------------
(* Queues and what is above them *)

TreeTyped(tree) ==
  /\ RootName \in DOMAIN tree
  /\ \A n \in DOMAIN tree : n \in Seq(STRING) \ {<<>>} /\ NameAndAbove(n) \subseteq DOMAIN tree

(* The name that getQueue looks up starts at the root, and is the name     *)
(* itself if that is qualified.                                            *)
LEMMA NormalName ==
  ASSUME NEW P, "root" \in P, NEW name \in Seq(P) \ {<<>>}
  PROVE  /\ Normal(name) \in Seq(P) \ {<<>>}
         /\ RootName \in NameAndAbove(Normal(name))
         /\ Qualified(name) => Normal(name) = name
<1>1. RootName = <<"root">> /\ RootName \in Seq(P) /\ Len(RootName) = 1
  BY DEF RootName
<1>2. Tail(name) \in Seq(P)
  BY HeadTailProperties
<1>3. RootName \o Tail(name) \in Seq(P)
  BY <1>1, <1>2, ConcatProperties
<1>4. Len(RootName \o Tail(name)) = 1 + Len(Tail(name)) /\ Len(Tail(name)) \in Nat
  BY <1>1, <1>2, ConcatProperties
<1>5. (RootName \o Tail(name))[1] = "root"
  BY <1>1, <1>2, ConcatProperties
<1>6. Normal(name) \in Seq(P) /\ Len(Normal(name)) \in Nat \ {0} /\ Normal(name)[1] = "root"
  BY <1>1, <1>3, <1>4, <1>5 DEF Normal
<1>7. RootName \in NameAndAbove(Normal(name))
  <2>1. SubSeq(Normal(name), 1, 1) \in Seq(P) /\ Len(SubSeq(Normal(name), 1, 1)) = 1
        /\ SubSeq(Normal(name), 1, 1)[1] = "root"
    BY <1>6, SubSeqProperties
  <2>2. SubSeq(Normal(name), 1, 1) = RootName
    <3> DEFINE t == SubSeq(Normal(name), 1, 1)
    <3> HIDE DEF t
    <3>1. t \in Seq(P) /\ Len(t) = 1 /\ t[1] = "root"
      BY <2>1 DEF t
    <3>2. t = <<"root">>
      BY <3>1
    <3> QED
      BY <1>1, <3>2 DEF t
  <2> QED
    BY <1>6, <2>2 DEF NameAndAbove
<1>8. ASSUME Qualified(name)
      PROVE  Normal(name) = name
  <2>9. PICK n \in Nat : n = Len(name)
    BY LenProperties
  <2>10. Len(name) > 1 /\ name[1] = "root"
    BY <1>8, Zenon DEF Qualified
  <2>1. Len(name) > 1 /\ name[1] = "root" /\ Len(name) # 1
    BY <2>9, <2>10
  <2>11. Normal(name) = RootName \o Tail(name)
    BY <2>1 DEF Normal
  <2>2. Len(Normal(name)) = Len(name)
    BY <1>4, <2>11, HeadTailProperties
  <2>3. ASSUME NEW i \in 1 .. Len(name)
        PROVE  Normal(name)[i] = name[i]
    <3>1. CASE i = 1
      BY <1>6, <2>1, <3>1
    <3>2. CASE i # 1
      <4>1. i - 1 \in 1 .. Len(Tail(name)) /\ i \in 1 .. 1 + Len(Tail(name)) /\ ~(i <= 1)
        BY <3>2, HeadTailProperties
      <4>2. Normal(name)[i] = Tail(name)[i - 1]
        BY <1>1, <1>2, <2>11, <4>1, ConcatProperties
      <4> QED
        BY <4>1, <4>2, HeadTailProperties
    <3> QED
      BY <3>1, <3>2
  <2> QED
    BY <1>6, <2>2, <2>3, SeqEqual
<1> QED
  BY <1>6, <1>7, <1>8

(* What is above a queue above is above.                                   *)
LEMMA AboveAbove ==
  ASSUME NEW P, NEW name \in Seq(P), NEW mid \in NameAndAbove(name)
  PROVE  NameAndAbove(mid) \subseteq NameAndAbove(name)
<1>1. PICK j \in 1 .. Len(name) : mid = SubSeq(name, 1, j)
  BY DEF NameAndAbove
<1>2. mid \in Seq(P) /\ Len(mid) = j
  BY <1>1, SubSeqProperties
<1>3. ASSUME NEW i \in 1 .. j
      PROVE  SubSeq(mid, 1, i) = SubSeq(name, 1, i)
  <2>1. 1 \in 1 .. Len(name) /\ 1 \in 1 .. j - 1 + 1 /\ i \in 1 .. j - 1 + 1 /\ 1 + 1 - 1 = 1 /\ 1 + i - 1 = i
    BY <1>3
  <2> QED
    BY <1>1, <1>2, <2>1, SubSeqOfSubSeq
<1> QED
  BY <1>2, <1>3 DEF NameAndAbove

(* The nearest queue is there, and no longer name above is. *)
LEMMA NearestQueue ==
  ASSUME NEW P, "root" \in P, NEW name \in Seq(P) \ {<<>>}, NEW tree,
         RootName \in DOMAIN tree
  PROVE  /\ Nearest(tree, name) \in NameAndAbove(Normal(name)) \cap DOMAIN tree
         /\ \A m \in NameAndAbove(Normal(name)) \cap DOMAIN tree : Len(m) <= Len(Nearest(tree, name))
<1> DEFINE full == Normal(name)
           there == { n \in NameAndAbove(full) : n \in DOMAIN tree }
           gaps == { Len(full) - Len(n) : n \in there }
<1>1. full \in Seq(P) /\ RootName \in there
  BY NormalName
<1> HIDE DEF full
<1>2. \A n \in there : Len(n) \in 1 .. Len(full)
  <2> TAKE n \in there
  <2>1. PICK j \in 1 .. Len(full) : n = SubSeq(full, 1, j)
    BY DEF NameAndAbove
  <2> QED
    BY <1>1, <2>1, SubSeqProperties
<1> HIDE DEF there
<1>3. gaps \in SUBSET Nat /\ gaps # {}
  BY <1>1, <1>2
<1>4. PICK g \in gaps : \A h \in gaps : g <= h
  <2> HIDE DEF gaps
  <2> QED
    BY <1>3, LeastNatural
<1>5. PICK n \in there : g = Len(full) - Len(n)
  BY <1>4
<1>6. \A m \in there : Len(m) <= Len(n)
  <2> TAKE m \in there
  <2>1. Len(full) - Len(m) \in gaps
    OBVIOUS
  <2>2. g <= Len(full) - Len(m)
    BY <1>4, <2>1
  <2>3. Len(full) \in Nat /\ Len(m) \in Nat /\ Len(n) \in Nat
    BY <1>1, <1>2
  <2> QED
    BY <1>5, <2>2, <2>3
<1>7. Nearest(tree, name) = CHOOSE k \in there : \A m \in there : Len(m) <= Len(k)
  BY DEF Nearest, there, full
<1>8. Nearest(tree, name) \in there /\ \A m \in there : Len(m) <= Len(Nearest(tree, name))
  BY <1>6, <1>7
<1> QED
  BY <1>8 DEF there, full

-----------------------------------------------------------------------------
(* Where an application is placed *)

(* The first chain that decides places the application. *)
LEMMA OneChainDecides ==
  ASSUME NEW R, NEW rules \in Seq(R), NEW tree, NEW app,
         PlaceApplication(tree, rules, app).out = "queue"
  PROVE  \E i \in DOMAIN rules :
           /\ PlaceApplication(tree, rules, app) = TryChain(tree, rules[i], app)
           /\ \A j \in 1 .. i - 1 : TryChain(tree, rules[j], app).out = "none"
<1> DEFINE result == [i \in DOMAIN rules |-> TryChain(tree, rules[i], app)]
           deciding == { i \in DOMAIN rules : result[i].out # "none" }
<1>1. deciding \in SUBSET Nat
  BY LenProperties
<1>2. PlaceApplication(tree, rules, app) =
        IF deciding = {} THEN Outcome("error") ELSE result[Min(deciding)]
  BY DEF PlaceApplication
<1> HIDE DEF deciding, result
<1>3. deciding # {}
  <2>1. Outcome("error").out # "queue"
    BY DEF Outcome
  <2> QED
    BY <1>2, <2>1
<1>4. PICK i \in deciding : \A j \in deciding : i <= j
  BY <1>1, <1>3, LeastNatural
<1>5. Min(deciding) \in deciding /\ \A j \in deciding : Min(deciding) <= j
  BY <1>4 DEF Min
<1> DEFINE first == Min(deciding)
<1>6. first \in DOMAIN rules /\ DOMAIN rules = 1 .. Len(rules) /\ Len(rules) \in Nat
  BY <1>5, LenProperties DEF deciding
<1>7. PlaceApplication(tree, rules, app) = TryChain(tree, rules[first], app)
  BY <1>2, <1>3, <1>6 DEF result
<1> HIDE DEF first
<1>8. \A j \in 1 .. first - 1 : j \in DOMAIN rules /\ j \notin deciding
  BY <1>5, <1>6 DEF first
<1>9. \A j \in 1 .. first - 1 : TryChain(tree, rules[j], app).out = "none"
  BY <1>8 DEF deciding, result
<1> QED
  BY <1>6, <1>7, <1>9

(* An application that a chain places went through the first rule of the   *)
(* chain, and through the ACLs of the queue it is placed in or of the      *)
(* nearest one above.                                                      *)
LEMMA ChainPlaces ==
  ASSUME NEW tree, TreeTyped(tree), NEW app, Typed(app),
         NEW chain \in Seq(PlacementRule) \ {<<>>}, TryChain(tree, chain, app).out = "queue"
  PROVE  LET r == PlaceByChain(tree, chain, app) IN
         /\ r.out = "queue" /\ r.queue \in Seq(Parts(app)) \ {<<>>}
         /\ TryChain(tree, chain, app) = QueueResult(Normal(r.queue))
         /\ CheckSubmitAccess(tree, Nearest(tree, r.queue), app.user)
         /\ \A k \in RulesAsked(chain, app) : AllowUser(chain[k].filter, app.user)
         /\ Normal(r.queue) \notin DOMAIN tree =>
              /\ chain[1].create /\ Normal(r.queue) = r.queue
              /\ ~tree[Nearest(tree, r.queue)].leaf
<1> DEFINE r == PlaceByChain(tree, chain, app)
<1>1. PICK f : Run(tree, chain, app, f) /\ r = f[1]
  BY ChainSolved
<1>2. Len(chain) \in Nat /\ Len(chain) # 0 /\ chain[1] \in PlacementRule
  BY LenProperties
<1>3. 1 \in 1 .. Len(chain) + 1 /\ 2 \in 1 .. Len(chain) + 1 /\ ~(1 > Len(chain)) /\ 1 + 1 = 2
  BY <1>2
<1>4. Sound(app, f[1]) /\ Sound(app, f[2])
  BY <1>1, <1>3, RunSound
<1>5. f[1] = PlaceByRule(tree, chain[1], app, f[2])
  BY <1>1, <1>3 DEF Run, Results
<1> HIDE DEF r
<1>6. r.out = "queue"
  BY DEF TryChain, r
<1>7. r.queue \in Seq(Parts(app)) \ {<<>>}
  BY <1>1, <1>4, <1>6 DEF Sound
<1>8. chain[1].create \/ Exists(tree, r.queue)
  BY <1>1, <1>2, <1>4, <1>5, <1>6, RuleSound
<1>15. \A k \in RulesAsked(chain, app) : AllowUser(chain[k].filter, app.user)
  <2>1. f[1].out = "queue" => \A k \in AskedFrom(chain, app, 1) : AllowUser(chain[k].filter, app.user)
    BY <1>1, <1>3, RunAllows
  <2>2. RulesAsked(chain, app) = AskedFrom(chain, app, 1)
    BY DEF RulesAsked, AskedFrom
  <2> QED
    BY <1>1, <1>6, <2>1, <2>2
<1>9. CheckSubmitAccess(tree, Nearest(tree, r.queue), app.user)
  BY <1>6 DEF TryChain, Outcome, r
<1>10. TryChain(tree, chain, app) =
         IF Exists(tree, r.queue) THEN QueueResult(Normal(r.queue)) ELSE CreateQueues(tree, r.queue)
  BY <1>6, <1>9 DEF TryChain, r
<1>11. ASSUME ~Exists(tree, r.queue)
       PROVE  /\ TryChain(tree, chain, app) = QueueResult(r.queue) /\ Qualified(r.queue)
              /\ ~tree[Nearest(tree, r.queue)].leaf
  BY <1>10, <1>11 DEF CreateQueues, Outcome
<1>12. "root" \in Parts(app)
  BY DEF Parts
<1>13. Qualified(r.queue) => Normal(r.queue) = r.queue
  BY <1>7, <1>12, NormalName
<1>14. TryChain(tree, chain, app) = QueueResult(Normal(r.queue))
  BY <1>10, <1>11, <1>13
<1>16. Normal(r.queue) \notin DOMAIN tree =>
         /\ chain[1].create /\ Normal(r.queue) = r.queue
         /\ ~tree[Nearest(tree, r.queue)].leaf
  BY <1>8, <1>11, <1>13 DEF Exists
<1> QED
  BY <1>6, <1>7, <1>9, <1>14, <1>15, <1>16 DEF r

(* The queue whose ACL let the user in is on the way up from where the     *)
(* application is placed.                                                  *)
LEMMA AccessChecked ==
  ASSUME NEW tree, TreeTyped(tree), NEW app, Typed(app),
         NEW chain \in Seq(PlacementRule) \ {<<>>}, TryChain(tree, chain, app).out = "queue"
  PROVE  \E q \in NameAndAbove(TryChain(tree, chain, app).queue) \cap DOMAIN tree :
           /\ q \in NameAndAbove(Nearest(tree, PlaceByChain(tree, chain, app).queue))
           /\ \/ CheckAccess(tree[q].submitACL, app.user)
              \/ CheckAccess(tree[q].adminACL, app.user)
<1> DEFINE r == PlaceByChain(tree, chain, app)
           near == Nearest(tree, r.queue)
           full == Normal(r.queue)
<1>1. /\ r.queue \in Seq(Parts(app)) \ {<<>>} /\ CheckSubmitAccess(tree, near, app.user)
      /\ TryChain(tree, chain, app).queue = full
  BY ChainPlaces DEF QueueResult
<1>2. "root" \in Parts(app)
  BY DEF Parts
<1> HIDE DEF r
<1>3. full \in Seq(Parts(app)) /\ near \in NameAndAbove(full) \cap DOMAIN tree
  BY <1>1, <1>2, NormalName, NearestQueue DEF TreeTyped
<1>4. NameAndAbove(near) \subseteq NameAndAbove(full) \cap DOMAIN tree
  BY <1>3, AboveAbove DEF TreeTyped
<1> QED
  BY <1>1, <1>4 DEF CheckSubmitAccess, r

(* Whom allowUser lets through is not filtered out. *)
LEMMA FilterKept ==
  ASSUME NEW conf \in Filter, NEW user, AllowUser(conf, user)
  PROVE  ~FilteredOut(conf, user)
<1>1. ~EmptyFilter(conf) => (IsListed(conf, user) = Allows(conf))
  BY Zenon DEF AllowUser
<1>2. CASE conf.type = "deny"
  <2>1. ~Allows(conf)
    BY <1>2 DEF Allows
  <2>2. ~EmptyFilter(conf)
    BY <2>1 DEF AllowUser
  <2>3. ~IsListed(conf, user)
    BY <1>1, <2>1, <2>2, Zenon
  <2> QED
    BY <1>2, <2>2, <2>3 DEF FilteredOut
<1>3. CASE conf.type # "deny"
  <2>1. Allows(conf)
    BY <1>3 DEF Allows
  <2>2. EmptyFilter(conf) \/ IsListed(conf, user)
    BY <1>1, <2>1, Zenon
  <2> QED
    BY <1>3, <2>2 DEF FilteredOut
<1> QED
  BY <1>2, <1>3

(* More queues in the tree do not change the result of a rule that leads   *)
(* to a queue.                                                             *)
Extends(more, tree) == /\ DOMAIN tree \subseteq DOMAIN more
                       /\ \A n \in DOMAIN tree : more[n] = tree[n]

(* PlaceByRule with more queues and the same result from the parent rules. *)
LEMMA RuleAgain ==
  ASSUME NEW tree, NEW more, Extends(more, tree), NEW app, NEW rule, NEW parent, NEW again,
         parent.out = "queue" => again = parent, parent = NoParent <=> again = NoParent,
         PlaceByRule(tree, rule, app, parent).out = "queue"
  PROVE  PlaceByRule(more, rule, app, again) = PlaceByRule(tree, rule, app, parent)
<1> DEFINE r == PlaceByRule(tree, rule, app, parent)
<1>1. ASSUME NEW name
      PROVE  /\ Exists(tree, name) => Exists(more, name)
             /\ CreateOrNone(tree, rule, name).out = "queue" =>
                  CreateOrNone(more, rule, name) = CreateOrNone(tree, rule, name)
  BY DEF Extends, Exists, CreateOrNone, Outcome
<1>2. ~(RuleValue(rule, app) = <<>> \/ ~AllowUser(rule.filter, app.user))
  <2>1. Outcome("none").out # "queue"
    BY DEF Outcome
  <2> QED
    BY <2>1 DEF PlaceByRule
<1>3. CASE IsQualified(rule, app)
  BY <1>1, <1>2, <1>3 DEF PlaceByRule
<1>4. CASE ~IsQualified(rule, app) /\ parent = NoParent
  BY <1>1, <1>2, <1>4 DEF PlaceByRule
<1>5. CASE ~IsQualified(rule, app) /\ parent # NoParent
  <2> DEFINE name == IF Qualified(parent.queue) THEN parent.queue ELSE RootName \o parent.queue
             below == name \o RelativeName(rule, app)
  <2>1. /\ r = BelowParent(tree, rule, app, parent)
        /\ PlaceByRule(more, rule, app, again) = BelowParent(more, rule, app, again)
    BY <1>2, <1>5 DEF PlaceByRule
  <2>2. parent.out = "queue" /\ again = parent
    BY <2>1 DEF BelowParent
  <2>3. Outcome("panic").out # "queue" /\ Outcome("error").out # "queue"
    BY DEF Outcome
  <2>4. Exists(tree, name) /\ ~tree[Normal(name)].leaf /\ r = CreateOrNone(tree, rule, below)
    BY <2>1, <2>2, <2>3 DEF BelowParent
  <2>5. Exists(more, name) /\ ~more[Normal(name)].leaf
    BY <1>1, <2>4 DEF Extends, Exists
  <2>6. BelowParent(more, rule, app, again) = CreateOrNone(more, rule, below)
    BY <2>2, <2>5 DEF BelowParent
  <2> QED
    BY <1>1, <2>1, <2>4, <2>6
<1> QED
  BY <1>3, <1>4, <1>5

(* A chain that led to a queue leads to the same one when there are more   *)
(* queues.                                                                 *)
LEMMA ChainAgain ==
  ASSUME NEW tree, NEW more, Extends(more, tree), NEW app, Typed(app),
         NEW chain \in Seq(PlacementRule) \ {<<>>}, PlaceByChain(tree, chain, app).out = "queue"
  PROVE  PlaceByChain(more, chain, app) = PlaceByChain(tree, chain, app)
<1> DEFINE n == Len(chain)
<1>1. PICK f : Run(tree, chain, app, f) /\ PlaceByChain(tree, chain, app) = f[1]
  BY ChainSolved
<1>2. PICK g : Run(more, chain, app, g) /\ PlaceByChain(more, chain, app) = g[1]
  BY ChainSolved
<1> DEFINE same(i) == /\ f[i].out = "queue" => g[i] = f[i]
                      /\ f[i] = NoParent <=> g[i] = NoParent
           G == { i \in 1 .. n + 1 : same(i) }
<1>3. n \in Nat /\ \A i \in 1 .. n : chain[i] \in PlacementRule
  BY LenProperties
<1>4. \A i \in 1 .. n + 1 : Sound(app, f[i]) /\ Sound(app, g[i])
  BY <1>1, <1>2, RunSound
<1>5. \A i \in 1 .. n + 1 :
        /\ f[i] = IF i > n THEN NoParent ELSE PlaceByRule(tree, chain[i], app, f[i + 1])
        /\ g[i] = IF i > n THEN NoParent ELSE PlaceByRule(more, chain[i], app, g[i + 1])
  BY <1>1, <1>2 DEF Run, Results
<1> HIDE DEF n
<1>6. n + 1 \in G
  <2>1. n + 1 \in 1 .. n + 1 /\ n + 1 > n
    BY <1>3
  <2>2. f[n + 1] = NoParent /\ g[n + 1] = NoParent
    BY <1>5, <2>1
  <2> QED
    BY <2>1, <2>2
<1>7. ASSUME NEW i \in 1 .. n, i + 1 \in G
      PROVE  i \in G
  <2>1. i \in 1 .. n + 1 /\ i + 1 \in 1 .. n + 1 /\ ~(i > n) /\ chain[i] \in PlacementRule
    BY <1>3, <1>7
  <2>2. /\ f[i] = PlaceByRule(tree, chain[i], app, f[i + 1])
        /\ g[i] = PlaceByRule(more, chain[i], app, g[i + 1])
    BY <1>5, <2>1
  <2>3. f[i] # NoParent /\ g[i] # NoParent
    BY <1>4, <2>1, <2>2, RuleSound
  <2>4. same(i + 1)
    BY <1>7
  <2>5. f[i].out = "queue" => g[i] = f[i]
    BY <2>2, <2>4, RuleAgain
  <2> QED
    BY <2>1, <2>3, <2>5
<1>8. 1 .. n + 1 \subseteq G
  <2> HIDE DEF G
  <2> QED
    BY <1>3, <1>6, <1>7, DownwardInduction
<1>9. 1 \in G
  BY <1>3, <1>8
<1> QED
  BY <1>1, <1>2, <1>9

(* So does the round of PlaceApplication: the queue exists now, and the    *)
(* ACL that let the user in is still on the way up.                        *)
LEMMA ChainPlacesAgain ==
  ASSUME NEW tree, TreeTyped(tree), NEW app, Typed(app),
         NEW chain \in Seq(PlacementRule) \ {<<>>}, TryChain(tree, chain, app).out = "queue"
  PROVE  TryChain(WithQueue(tree, TryChain(tree, chain, app).queue), chain, app)
           = TryChain(tree, chain, app)
<1> DEFINE r == PlaceByChain(tree, chain, app)
           full == Normal(r.queue)
           more == WithQueue(tree, full)
<1>1. /\ r.out = "queue" /\ r.queue \in Seq(Parts(app)) \ {<<>>}
      /\ TryChain(tree, chain, app) = QueueResult(full)
  BY ChainPlaces
<1>2. TryChain(tree, chain, app).queue = full
  BY <1>1 DEF QueueResult
<1>3. "root" \in Parts(app)
  BY DEF Parts
<1>4. full \in Seq(Parts(app)) \ {<<>>}
  BY <1>1, <1>3, NormalName
<1>5. Extends(more, tree) /\ DOMAIN more = DOMAIN tree \cup NameAndAbove(full)
  BY DEF WithQueue, Extends
<1>6. PlaceByChain(more, chain, app) = r
  BY <1>1, <1>5, ChainAgain
<1> HIDE DEF r
<1>7. full \in NameAndAbove(full)
  <2>1. Len(full) \in 1 .. Len(full) /\ SubSeq(full, 1, Len(full)) = full
    BY <1>4, SubSeqFull, LenProperties
  <2> QED
    BY <2>1 DEF NameAndAbove
<1>8. Nearest(more, r.queue) = full
  <2> DEFINE near == Nearest(more, r.queue)
  <2>1. near \in NameAndAbove(full) /\ Len(full) <= Len(near)
    BY <1>1, <1>3, <1>5, <1>7, NearestQueue DEF TreeTyped
  <2> HIDE DEF near
  <2>2. PICK j \in 1 .. Len(full) : near = SubSeq(full, 1, j)
    BY <2>1 DEF NameAndAbove
  <2>3. Len(near) = j /\ Len(full) \in Nat
    BY <1>4, <2>2, SubSeqProperties, LenProperties
  <2>4. j = Len(full)
    BY <2>1, <2>2, <2>3
  <2> QED
    BY <1>4, <2>2, <2>4, SubSeqFull DEF near
<1>9. CheckSubmitAccess(more, full, app.user)
  <2>1. \E q \in NameAndAbove(full) \cap DOMAIN tree :
          CheckAccess(tree[q].submitACL, app.user) \/ CheckAccess(tree[q].adminACL, app.user)
    BY <1>2, AccessChecked
  <2> QED
    BY <1>5, <2>1 DEF CheckSubmitAccess, Extends
<1>10. Exists(more, r.queue)
  BY <1>5, <1>7 DEF Exists
<1>11. TryChain(more, chain, app) = QueueResult(full)
  BY <1>1, <1>6, <1>8, <1>9, <1>10 DEF TryChain
<1> QED
  BY <1>1, <1>2, <1>11

-----------------------------------------------------------------------------
(* Comparisons of amounts *)

(* A set of positions with 0, and with the next of each one before the     *)
(* last, has all.                                                          *)
LEMMA UpwardInduction ==
  ASSUME NEW n \in Nat, NEW G,
         0 \in G, \A i \in 1 .. n : i - 1 \in G => i \in G
  PROVE  0 .. n \subseteq G
<1> DEFINE bad == { k \in 0 .. n : k \notin G }
<1>1. bad \in SUBSET Nat
  OBVIOUS
<1>2. ASSUME bad # {}
      PROVE  FALSE
  <2> HIDE DEF bad
  <2>1. PICK k \in bad : \A j \in bad : k <= j
    BY <1>1, <1>2, LeastNatural
  <2> USE DEF bad
  <2>2. k \in 0 .. n /\ k \notin G
    BY <2>1
  <2>3. k \in 1 .. n /\ k - 1 \in 0 .. n /\ ~(k <= k - 1)
    BY <2>2
  <2>4. k - 1 \in G
    BY <2>1, <2>3
  <2> QED
    BY <2>2, <2>3, <2>4
<1> QED
  BY <1>2

(* The fold of StrictlyGreaterThan: what a has more than b, added up over  *)
(* each of some sets of types from that of a smaller one.                  *)
Differences(a, b, f, D) ==
  [T \in D |-> IF T = {} THEN 0
               ELSE LET x == CHOOSE x \in T : TRUE IN (Value(a, x) - Value(b, x)) + f[T \ {x}]]

Differ(a, b, S) == MapThenSumSet(LAMBDA k : Value(a, k) - Value(b, k), S)

(* The recursion of the fold has a solution.                               *)
LEMMA FoldSolved ==
  ASSUME NEW a, NEW b, NEW S, IsFiniteSet(S)
  PROVE  \E f : f = Differences(a, b, f, SUBSET S) /\ Differ(a, b, S) = f[S]
<1> DEFINE upTo(n) == { T \in SUBSET S : Cardinality(T) <= n }
           solved(n) == \E f : f = Differences(a, b, f, upTo(n))
           size == Cardinality(S)
           G == { n \in 0 .. size : solved(n) }
<1>1. /\ size \in Nat
      /\ \A T \in SUBSET S : /\ IsFiniteSet(T) /\ Cardinality(T) \in Nat /\ Cardinality(T) <= size
                             /\ (Cardinality(T) = 0 <=> T = {})
  BY FS_CardinalityType, FS_Subset, FS_EmptySet
<1>2. \A T \in SUBSET S : T # {} =>
        LET x == CHOOSE x \in T : TRUE IN
        /\ x \in T /\ T \ {x} \in SUBSET S /\ Cardinality(T \ {x}) = Cardinality(T) - 1
  BY <1>1, FS_RemoveElement
<1> HIDE DEF size
<1>3. 0 \in G
  <2> DEFINE f == [T \in upTo(0) |-> 0]
  <2>1. \A T \in upTo(0) : T = {}
    BY <1>1
  <2>2. f = Differences(a, b, f, upTo(0))
    BY <2>1 DEF Differences
  <2>3. solved(0)
    BY <2>2
  <2> HIDE DEF solved
  <2> QED
    BY <2>3, <1>1
<1>4. ASSUME NEW n \in 1 .. size, n - 1 \in G
      PROVE  n \in G
  <2>1. PICK f : f = Differences(a, b, f, upTo(n - 1))
    BY <1>4
  <2> DEFINE value(h, T) == IF T = {} THEN 0
                            ELSE LET x == CHOOSE x \in T : TRUE IN (Value(a, x) - Value(b, x)) + h[T \ {x}]
             g == [T \in upTo(n) |-> value(f, T)]
  <2>2. ASSUME NEW T \in upTo(n)
        PROVE  g[T] = value(g, T)
    <3>1. CASE T = {}
      BY <3>1
    <3>2. CASE T # {}
      <4> DEFINE x == CHOOSE x \in T : TRUE
                 rest == T \ {x}
      <4>1. T \in SUBSET S /\ Cardinality(T) <= n
        OBVIOUS
      <4>2. rest \in SUBSET S /\ Cardinality(rest) = Cardinality(T) - 1 /\ Cardinality(T) \in Nat
        BY <1>1, <1>2, <3>2, <4>1
      <4>3. rest \in upTo(n - 1) /\ rest \in upTo(n)
        BY <4>1, <4>2
      <4> HIDE DEF rest, upTo
      <4>4. f[rest] = value(f, rest)
        <5>1. \A R \in upTo(n - 1) : f[R] = value(f, R)
          BY <2>1 DEF Differences
        <5> QED
          BY <4>3, <5>1
      <4>5. g[rest] = value(f, rest)
        BY <4>3
      <4>6. g[rest] = f[rest]
        BY <4>4, <4>5
      <4>7. value(f, T) = (Value(a, x) - Value(b, x)) + f[rest] /\ value(g, T) = (Value(a, x) - Value(b, x)) + g[rest]
        BY <3>2 DEF rest
      <4> QED
        BY <4>6, <4>7
    <3> QED
      BY <3>1, <3>2
  <2> HIDE DEF upTo
  <2>3. g = [T \in upTo(n) |-> value(g, T)]
    <3>1. g = [T \in upTo(n) |-> g[T]]
      OBVIOUS
    <3> HIDE DEF g, value
    <3> QED
      BY <2>2, <3>1
  <2>4. g = Differences(a, b, g, upTo(n))
    BY <2>3 DEF Differences
  <2>5. solved(n)
    BY <2>4
  <2> HIDE DEF solved
  <2> QED
    BY <2>5, <1>1
<1>5. solved(size)
  <2> HIDE DEF G
  <2>1. 0 .. size \subseteq G
    BY <1>1, <1>3, <1>4, UpwardInduction
  <2>2. size \in G
    BY <1>1, <2>1
  <2> QED
    BY <2>2 DEF G
<1>6. upTo(size) = SUBSET S
  BY <1>1
<1>7. \E f : f = Differences(a, b, f, SUBSET S)
  BY <1>5, <1>6
<1> DEFINE iter == CHOOSE f : f = Differences(a, b, f, SUBSET S)
<1>8. iter = Differences(a, b, iter, SUBSET S)
  BY <1>7
<1>9. Differ(a, b, S) = iter[S]
  BY DEF Differ, MapThenSumSet, MapThenFoldSet, Differences
<1> QED
  BY <1>8, <1>9

(* When a has at least as much as b, the sum is zero only for equal values,*)
(* and it is bounded.                                                      *)
LEMMA DifferencesAdded ==
  ASSUME NEW a \in Resource, NEW b \in Resource, NEW S, IsFiniteSet(S), NEW most \in Nat,
         \A k \in S : Value(a, k) - Value(b, k) \in 0 .. most
  PROVE  /\ Differ(a, b, S) \in Nat
         /\ Differ(a, b, S) <= Cardinality(S) * most
         /\ Differ(a, b, S) = 0 <=> \A k \in S : Value(a, k) = Value(b, k)
<1>1. PICK f : f = Differences(a, b, f, SUBSET S) /\ Differ(a, b, S) = f[S]
  BY FoldSolved
<1> DEFINE size == Cardinality(S)
           fine(T) == /\ f[T] \in Nat /\ f[T] <= Cardinality(T) * most
                      /\ f[T] = 0 <=> \A k \in T : Value(a, k) = Value(b, k)
           G == { n \in 0 .. size : \A T \in SUBSET S : Cardinality(T) = n => fine(T) }
<1>2. /\ size \in Nat
      /\ \A T \in SUBSET S : /\ IsFiniteSet(T) /\ Cardinality(T) \in Nat /\ Cardinality(T) <= size
                             /\ (Cardinality(T) = 0 <=> T = {})
  BY FS_CardinalityType, FS_Subset, FS_EmptySet
<1>3. \A T \in SUBSET S : f[T] = IF T = {} THEN 0
        ELSE LET x == CHOOSE x \in T : TRUE IN (Value(a, x) - Value(b, x)) + f[T \ {x}]
  BY <1>1 DEF Differences
<1>4. \A k : Value(a, k) \in Int /\ Value(b, k) \in Int
  BY ValueType, QuantityAssumption DEF Quantity
<1>5. 0 \in G
  <2>1. f[{}] = 0 /\ Cardinality({}) = 0
    BY <1>3, FS_EmptySet
  <2>2. fine({})
    BY <2>1
  <2>3. \A T \in SUBSET S : Cardinality(T) = 0 => T = {}
    BY <1>2
  <2> HIDE DEF fine
  <2> QED
    BY <1>2, <2>2, <2>3
<1>6. ASSUME NEW n \in 1 .. size, n - 1 \in G
      PROVE  n \in G
  <2>1. ASSUME NEW T \in SUBSET S, Cardinality(T) = n
        PROVE  fine(T)
    <3> DEFINE x == CHOOSE x \in T : TRUE
               rest == T \ {x}
    <3>1. T # {}
      BY <1>2, <2>1
    <3>2. x \in T /\ rest \in SUBSET S /\ T = rest \cup {x}
      BY <3>1
    <3>3. Cardinality(rest) = n - 1
      BY <1>2, <2>1, <3>2, FS_RemoveElement
    <3>4. f[T] = (Value(a, x) - Value(b, x)) + f[rest]
      BY <1>3, <3>1
    <3> HIDE DEF x, rest
    <3>5. fine(rest)
      BY <1>6, <3>2, <3>3
    <3> DEFINE d == Value(a, x) - Value(b, x)
    <3>6. d \in 0 .. most /\ (d = 0 <=> Value(a, x) = Value(b, x))
      BY <1>4, <3>2
    <3> HIDE DEF d
    <3>7. f[T] = d + f[rest] /\ d \in Nat /\ f[rest] \in Nat /\ d <= most
      BY <3>4, <3>5, <3>6 DEF d
    <3>8. f[T] \in Nat /\ (f[T] = 0 <=> d = 0 /\ f[rest] = 0)
      BY <3>7
    <3>9. f[T] <= n * most
      <4>1. f[rest] <= (n - 1) * most
        BY <3>3, <3>5
      <4>2. (n - 1) * most + most = n * most /\ n * most \in Nat /\ (n - 1) * most \in Nat
        BY <1>2
      <4> HIDE DEF fine, G
      <4> QED
        BY <3>7, <4>1, <4>2
    <3>10. f[T] = 0 <=> \A k \in T : Value(a, k) = Value(b, k)
      BY <3>2, <3>5, <3>6, <3>8
    <3> QED
      BY <2>1, <3>8, <3>9, <3>10
  <2> HIDE DEF fine
  <2> QED
    BY <1>2, <2>1
<1>7. size \in G
  <2> HIDE DEF G
  <2>1. 0 .. size \subseteq G
    BY <1>2, <1>5, <1>6, UpwardInduction
  <2> QED
    BY <1>2, <2>1
<1>8. fine(S)
  <2> HIDE DEF fine
  <2> QED
    BY <1>7
<1> QED
  BY <1>1, <1>8

(* The larger of two numbers ...                                           *)
LEMMA LargerOf ==
  ASSUME NEW x \in Int, NEW y \in Int
  PROVE  Max({x, y}) = IF x >= y THEN x ELSE y
<1>1. CASE x >= y
  BY <1>1 DEF Max
<1>2. CASE ~(x >= y)
  BY <1>2 DEF Max
<1> QED
  BY <1>1, <1>2

(* ... and the smaller one.                                              *)
LEMMA SmallerOf ==
  ASSUME NEW x \in Int, NEW y \in Int
  PROVE  Min({x, y}) = IF x <= y THEN x ELSE y
<1>1. CASE x <= y
  BY <1>1 DEF Min
<1>2. CASE ~(x <= y)
  BY <1>2 DEF Min
<1> QED
  BY <1>1, <1>2

(* ComponentWiseMax and ComponentWiseMin have the larger and the smaller   *)
(* of both values for every type.                                          *)
LEMMA ExtremesOf ==
  ASSUME NEW r \in Resource, NEW s \in Resource
  PROVE  /\ ComponentWiseMax(r, s) \in Resource /\ ComponentWiseMin(r, s) \in Resource
         /\ DOMAIN ComponentWiseMax(r, s) = DOMAIN r \cup DOMAIN s
         /\ \A k : /\ Value(ComponentWiseMax(r, s), k) = IF Value(r, k) >= Value(s, k) THEN Value(r, k) ELSE Value(s, k)
                   /\ Value(ComponentWiseMin(r, s), k) = IF Value(r, k) <= Value(s, k) THEN Value(r, k) ELSE Value(s, k)
<1> DEFINE types == DOMAIN r \cup DOMAIN s
           hi(k) == IF Value(r, k) >= Value(s, k) THEN Value(r, k) ELSE Value(s, k)
           lo(k) == IF Value(r, k) <= Value(s, k) THEN Value(r, k) ELSE Value(s, k)
<1>1. types \in SUBSET ResourceTypes
  BY DEF Resource
<1>2. NilResource \notin {r, s}
  BY QuantityAssumption
<1>3. \A k : /\ Value(r, k) \in Quantity /\ Value(s, k) \in Quantity
             /\ Value(r, k) \in Int /\ Value(s, k) \in Int
  BY ValueType, QuantityAssumption DEF Quantity
<1>4. /\ ComponentWiseMax(r, s) = [k \in types |-> Max({Value(r, k), Value(s, k)})]
      /\ ComponentWiseMin(r, s) = [k \in types |-> Min({Value(r, k), Value(s, k)})]
  BY <1>2 DEF ComponentWiseMax, ComponentWiseMin, Combine
<1>5. \A k : Max({Value(r, k), Value(s, k)}) = hi(k) /\ Min({Value(r, k), Value(s, k)}) = lo(k)
  BY <1>3, LargerOf, SmallerOf
<1>6. /\ ComponentWiseMax(r, s) = [k \in types |-> hi(k)]
      /\ ComponentWiseMin(r, s) = [k \in types |-> lo(k)]
  BY <1>4, <1>5
<1>7. /\ ComponentWiseMax(r, s) \in [types -> Quantity]
      /\ ComponentWiseMin(r, s) \in [types -> Quantity]
  BY <1>3, <1>6
<1>8. \A k : k \notin types => Value(r, k) = 0 /\ Value(s, k) = 0
  BY DEF Value
<1>9. \A k : Value(ComponentWiseMax(r, s), k) = hi(k) /\ Value(ComponentWiseMin(r, s), k) = lo(k)
  BY <1>6, <1>8 DEF Value
<1> QED
  BY <1>1, <1>6, <1>7, <1>9 DEF Resource

(* SubEliminateNegative keeps what is positive.                            *)
LEMMA RemainderOf ==
  ASSUME NEW r \in Resource, NEW s \in Resource
  PROVE  /\ SubEliminateNegative(r, s) \in Resource
         /\ \A k : Value(SubEliminateNegative(r, s), k) =
                     IF Value(Sub(r, s), k) >= 0 THEN Value(Sub(r, s), k) ELSE 0
<1> DEFINE d == Sub(r, s)
           keep(k) == IF Value(d, k) >= 0 THEN Value(d, k) ELSE 0
<1>1. d \in Resource
  BY SumsOf
<1>2. SubEliminateNegative(r, s) = [k \in DOMAIN d |-> Max({d[k], 0})]
  BY DEF SubEliminateNegative
<1> HIDE DEF d
<1>3. \A k : Value(d, k) \in Quantity /\ Value(d, k) \in Int
  BY <1>1, ValueType, QuantityAssumption DEF Quantity
<1>4. \A k \in DOMAIN d : d[k] = Value(d, k)
  BY DEF Value
<1>5. \A k \in DOMAIN d : Max({d[k], 0}) = keep(k)
  BY <1>3, <1>4, LargerOf
<1>6. SubEliminateNegative(r, s) = [k \in DOMAIN d |-> keep(k)]
  BY <1>2, <1>5
<1>7. 0 \in Quantity
  BY QuantityAssumption DEF Quantity
<1>8. SubEliminateNegative(r, s) \in [DOMAIN d -> Quantity] /\ DOMAIN d \in SUBSET ResourceTypes
  BY <1>1, <1>3, <1>6, <1>7 DEF Resource
<1>9. \A k : Value(SubEliminateNegative(r, s), k) = keep(k)
  BY <1>6 DEF Value
<1> QED
  BY <1>8, <1>9 DEF Resource, d

Amount == { r \in Resource : \A k \in DOMAIN r : r[k] \in -AmountLimit .. AmountLimit }

(* The values of an amount, for types with and without an entry.           *)
LEMMA AmountValues ==
  ASSUME NEW r \in Amount
  PROVE  /\ r \in Resource /\ OrZero(r) = r /\ r # NilResource
         /\ IsFiniteSet(DOMAIN r) /\ DOMAIN r \subseteq ResourceTypes
         /\ Cardinality(DOMAIN r) \in Nat /\ Cardinality(DOMAIN r) <= Cardinality(ResourceTypes)
         /\ \A k : /\ Value(r, k) \in Int /\ -AmountLimit <= Value(r, k) /\ Value(r, k) <= AmountLimit
                   /\ Value(r, k) = IF k \in DOMAIN r THEN r[k] ELSE 0
<1>1. r \in Resource /\ r # NilResource /\ OrZero(r) = r
  BY QuantityAssumption DEF Amount, OrZero
<1>2. DOMAIN r \subseteq ResourceTypes
  BY <1>1 DEF Resource
<1>3. /\ IsFiniteSet(DOMAIN r) /\ Cardinality(DOMAIN r) \in Nat
      /\ Cardinality(DOMAIN r) <= Cardinality(ResourceTypes)
  BY <1>2, AmountsAssumption, FS_Subset, FS_CardinalityType
<1>4. \A k : Value(r, k) = IF k \in DOMAIN r THEN r[k] ELSE 0
  BY DEF Value
<1>5. \A k : Value(r, k) \in Int /\ -AmountLimit <= Value(r, k) /\ Value(r, k) <= AmountLimit
  BY <1>4, AmountsAssumption DEF Amount
<1> QED
  BY <1>1, <1>2, <1>3, <1>4, <1>5

(* Sums and differences of amounts do not wrap around.                     *)
LEMMA AmountsDoNotWrap ==
  ASSUME NEW a \in Amount, NEW b \in Amount, NEW k
  PROVE  /\ Wrap(Value(a, k) + Value(b, k)) = Value(a, k) + Value(b, k)
         /\ Wrap(Value(a, k) - Value(b, k)) = Value(a, k) - Value(b, k)
<1> DEFINE n == Cardinality(ResourceTypes)
           x == Value(a, k)
           y == Value(b, k)
<1>1. n \in Nat /\ AmountLimit \in Nat /\ 4 * n * AmountLimit < QuantityLimit /\ QuantityLimit \in Nat \ {0}
  BY AmountsAssumption, QuantityAssumption, FS_CardinalityType
<1>2. /\ x \in Int /\ y \in Int /\ -AmountLimit <= x /\ x <= AmountLimit /\ -AmountLimit <= y /\ y <= AmountLimit
      /\ k \notin ResourceTypes => x = 0 /\ y = 0
  BY AmountValues
<1>3. k \in ResourceTypes => n # 0
  BY AmountsAssumption, FS_EmptySet
<1> HIDE DEF n, x, y
<1>4. n # 0 => 4 * AmountLimit < QuantityLimit
  <2> SUFFICES ASSUME n # 0 PROVE 4 * AmountLimit < QuantityLimit
    OBVIOUS
  <2> DEFINE rest == (n - 1) * AmountLimit
  <2>1. rest \in Nat
    BY <1>1
  <2>2. n * AmountLimit = rest + AmountLimit /\ 4 * n * AmountLimit = 4 * (n * AmountLimit)
    BY <1>1
  <2> HIDE DEF rest
  <2>3. 4 * n * AmountLimit = 4 * rest + 4 * AmountLimit
    BY <1>1, <2>1, <2>2
  <2> QED
    BY <1>1, <2>1, <2>3
<1>5. x + y \in Quantity /\ x - y \in Quantity
  <2>1. CASE k \in ResourceTypes
    BY <1>1, <1>2, <1>3, <1>4, <2>1 DEF Quantity
  <2>2. CASE k \notin ResourceTypes
    BY <1>1, <1>2, <2>2 DEF Quantity
  <2> QED
    BY <2>1, <2>2
<1>6. Wrap(x + y) = x + y /\ Wrap(x - y) = x - y
  <2>1. 0 \in Quantity
    BY <1>1 DEF Quantity
  <2> QED
    BY <1>5, <2>1, WrapsBack
<1> QED
  BY <1>6 DEF x, y

(* The tests of who has more and whether something fits, as conditions on  *)
(* the values.                                                             *)
LEMMA TestsByValue ==
  ASSUME NEW a \in Amount, NEW b \in Amount
  PROVE  /\ StrictlyGreaterThanOrEquals(a, b) <=> \A k : Value(a, k) >= Value(b, k)
         /\ Equals(a, b) <=> \A k : Value(a, k) = Value(b, k)
         /\ FitIn(a, b) <=> \A k : Value(b, k) <= 0 \/ Value(b, k) <= Value(a, k)
<1>1. \A r \in {a, b} : /\ r \in Resource /\ OrZero(r) = r /\ r # NilResource
                        /\ \A k : /\ Value(r, k) \in Int
                                  /\ Value(r, k) = IF k \in DOMAIN r THEN r[k] ELSE 0
  BY AmountValues
<1>2. StrictlyGreaterThanOrEquals(a, b) <=> \A k : Value(a, k) >= Value(b, k)
  BY <1>1 DEF StrictlyGreaterThanOrEquals
<1>3. Equals(a, b) <=> \A k : Value(a, k) = Value(b, k)
  BY <1>1 DEF Equals
<1>4. FitIn(a, b) <=> \A k : Value(b, k) <= 0 \/ Value(b, k) <= Value(a, k)
  <2>1. FitIn(a, b) <=> \A k \in DOMAIN b : Value(b, k) <= Max({Value(a, k), 0})
    BY <1>1 DEF FitIn
  <2>2. \A k : Max({Value(a, k), 0}) = IF Value(a, k) >= 0 THEN Value(a, k) ELSE 0
    BY <1>1, LargerOf
  <2> DEFINE fits(k) == Value(b, k) <= 0 \/ Value(b, k) <= Value(a, k)
  <2>3. \A k : k \notin DOMAIN b => fits(k)
    BY <1>1
  <2>4. \A k : Value(b, k) <= Max({Value(a, k), 0}) <=> fits(k)
    BY <1>1, <2>2
  <2> HIDE DEF fits
  <2>5. FitIn(a, b) <=> \A k : fits(k)
    BY <2>1, <2>3, <2>4, Zenon
  <2> QED
    BY <2>5 DEF fits
<1> QED
  BY <1>2, <1>3, <1>4

(* StrictlyGreaterThan by value: the sum that it tests is positive when    *)
(* something is larger, and cannot wrap around.                            *)
LEMMA GreaterByValue ==
  ASSUME NEW a \in Amount, NEW b \in Amount
  PROVE  StrictlyGreaterThan(a, b) <=>
           (\A k : Value(a, k) >= Value(b, k)) /\ (\E k : Value(a, k) # Value(b, k))
<1> DEFINE more == \A k : Value(a, k) >= Value(b, k)
           l == OrZero(a)
           s == OrZero(b)
           delta == Differ(l, s, DOMAIN l) + Differ(l, s, DOMAIN s)
<1>1. l = a /\ s = b /\ a \in Resource /\ b \in Resource
  BY AmountValues
<1>2. StrictlyGreaterThan(a, b) <=> more /\ Wrap(delta) > 0
  <2>1. StrictlyGreaterThan(a, b) <=> StrictlyGreaterThanOrEquals(a, b) /\ Wrap(delta) > 0
    BY DEF StrictlyGreaterThan, Differ
  <2> QED
    BY <2>1, TestsByValue
<1>3. ASSUME more
      PROVE  Wrap(delta) > 0 <=> \E k : Value(a, k) # Value(b, k)
  <2> DEFINE m == 2 * AmountLimit
             da == Differ(l, s, DOMAIN l)
             db == Differ(l, s, DOMAIN s)
             n == Cardinality(ResourceTypes)
             na == Cardinality(DOMAIN a)
             nb == Cardinality(DOMAIN b)
  <2>1. AmountLimit \in Nat /\ n \in Nat /\ 4 * n * AmountLimit < QuantityLimit /\ QuantityLimit \in Nat
    BY AmountsAssumption, QuantityAssumption, FS_CardinalityType
  <2>2. \A k : Value(a, k) - Value(b, k) \in 0 .. m
    BY <1>3, <2>1, AmountValues
  <2>3. IsFiniteSet(DOMAIN a) /\ IsFiniteSet(DOMAIN b) /\ m \in Nat /\ na \in Nat /\ nb \in Nat /\ na <= n /\ nb <= n
    BY <2>1, AmountValues
  <2> HIDE DEF l, s
  <2>4. /\ da \in Nat /\ da <= na * m
        /\ da = 0 <=> \A k \in DOMAIN a : Value(a, k) = Value(b, k)
    BY <1>1, <2>2, <2>3, DifferencesAdded
  <2>5. /\ db \in Nat /\ db <= nb * m
        /\ db = 0 <=> \A k \in DOMAIN b : Value(a, k) = Value(b, k)
    BY <1>1, <2>2, <2>3, DifferencesAdded
  <2>6. \A k : k \notin DOMAIN a /\ k \notin DOMAIN b => Value(a, k) = Value(b, k)
    BY DEF Value
  <2> HIDE DEF m, da, db, n, na, nb
  <2>7. na * m <= n * m /\ nb * m <= n * m /\ na * m \in Nat /\ nb * m \in Nat /\ n * m \in Nat
    <3>1. \A i, j, x \in Nat : i <= j => i * x <= j * x /\ i * x \in Nat
      OBVIOUS
    <3> QED
      BY <2>3, <2>1, <3>1
  <2>8. 2 * (n * m) < QuantityLimit
    BY <2>1 DEF m
  <2>9. da + db \in Nat /\ da + db < QuantityLimit
    BY <2>1, <2>4, <2>5, <2>7, <2>8
  <2>10. da + db \in Quantity /\ 0 \in Quantity
    BY <2>1, <2>9, QuantityAssumption DEF Quantity
  <2>11. Wrap(da + db) = da + db
    BY <2>10, WrapsBack
  <2>12. Wrap(da + db) > 0 <=> ~(da = 0 /\ db = 0)
    BY <2>4, <2>5, <2>11
  <2> QED
    BY <2>4, <2>5, <2>6, <2>12 DEF da, db
<1> QED
  BY <1>2, <1>3

(* The operations on amounts agree with each other.                        *)
LEMMA AmountsAgree ==
  ASSUME NEW a \in Amount, NEW b \in Amount
  PROVE  /\ StrictlyGreaterThan(a, b) <=> StrictlyGreaterThanOrEquals(a, b) /\ ~Equals(a, b)
         /\ StrictlyGreaterThan(a, b) <=> StrictlyGreaterThanZero(Sub(a, b))
         /\ StrictlyGreaterThanOrEquals(a, b) => FitIn(a, b)
         /\ FitIn(a, b) <=> IsZero(SubEliminateNegative(b, ComponentWiseMax(a, Zero)))
         /\ Equals(SubEliminateNegative(a, b), ComponentWiseMax(Sub(a, b), Zero))
         /\ Equals(Add(ComponentWiseMin(a, b), ComponentWiseMax(a, b)), Add(a, b))
         /\ Equals(MultiplyBy(a, 2), Add(a, a))
<1>1. \A r \in {a, b} : /\ r \in Resource /\ OrZero(r) = r /\ r # NilResource
                        /\ \A k : /\ Value(r, k) \in Int
                                  /\ Value(r, k) = IF k \in DOMAIN r THEN r[k] ELSE 0
  BY AmountValues
<1>2. StrictlyGreaterThan(a, b) <=> StrictlyGreaterThanOrEquals(a, b) /\ ~Equals(a, b)
  BY GreaterByValue, TestsByValue
<1>3. StrictlyGreaterThanOrEquals(a, b) => FitIn(a, b)
  BY <1>1, TestsByValue
<1>4. /\ Sub(a, b) \in Resource /\ Add(a, b) \in Resource
      /\ \A k : /\ Value(Sub(a, b), k) = Value(a, k) - Value(b, k)
                /\ Value(Add(a, b), k) = Value(a, k) + Value(b, k)
  BY <1>1, SumsOf, AmountsDoNotWrap
<1>5. StrictlyGreaterThan(a, b) <=> StrictlyGreaterThanZero(Sub(a, b))
  <2> DEFINE d == Sub(a, b)
  <2>1. OrZero(d) = d
    BY <1>4, QuantityAssumption DEF OrZero
  <2>2. StrictlyGreaterThanZero(d) <=> (\A k \in DOMAIN d : Value(d, k) >= 0) /\ (\E k \in DOMAIN d : Value(d, k) > 0)
    BY <2>1 DEF StrictlyGreaterThanZero, Value
  <2>3. \A k : k \notin DOMAIN d => Value(d, k) = 0
    BY DEF Value
  <2> HIDE DEF d
  <2>4. StrictlyGreaterThanZero(d) <=> (\A k : Value(d, k) >= 0) /\ (\E k : Value(d, k) > 0)
    BY <2>2, <2>3
  <2>5. \A k : /\ Value(d, k) >= 0 <=> Value(a, k) >= Value(b, k)
               /\ Value(d, k) > 0 <=> Value(a, k) > Value(b, k)
    BY <1>1, <1>4 DEF d
  <2> QED
    BY <1>1, <2>4, <2>5, GreaterByValue DEF d
<1>6. Zero \in Resource /\ DOMAIN Zero = {} /\ \A k : Value(Zero, k) = 0
  <2>1. Zero \in [{} -> Quantity] /\ {} \in SUBSET ResourceTypes /\ DOMAIN Zero = {}
    BY DEF Zero
  <2> QED
    BY <2>1 DEF Resource, Value
<1>7. ASSUME NEW r \in Resource, NEW s \in Resource
      PROVE  /\ ComponentWiseMax(r, s) \in Resource /\ ComponentWiseMin(r, s) \in Resource
             /\ DOMAIN ComponentWiseMax(r, s) = DOMAIN r \cup DOMAIN s
             /\ \A k : /\ Value(ComponentWiseMax(r, s), k) = IF Value(r, k) >= Value(s, k) THEN Value(r, k) ELSE Value(s, k)
                       /\ Value(ComponentWiseMin(r, s), k) = IF Value(r, k) <= Value(s, k) THEN Value(r, k) ELSE Value(s, k)
  BY ExtremesOf
<1>8. \A r \in Resource : \A k :
         Value(ComponentWiseMax(r, Zero), k) = IF Value(r, k) >= Value(Zero, k) THEN Value(r, k) ELSE Value(Zero, k)
  BY <1>6, <1>7
<1>9. ASSUME NEW r \in Resource, NEW s \in Resource
      PROVE  /\ SubEliminateNegative(r, s) \in Resource
             /\ \A k : Value(SubEliminateNegative(r, s), k) =
                         IF Value(Sub(r, s), k) >= 0 THEN Value(Sub(r, s), k) ELSE 0
  BY RemainderOf
<1>10. FitIn(a, b) <=> IsZero(SubEliminateNegative(b, ComponentWiseMax(a, Zero)))
  <2> DEFINE up == ComponentWiseMax(a, Zero)
             rest == SubEliminateNegative(b, up)
  <2>1. \A k : Value(up, k) = IF Value(a, k) >= 0 THEN Value(a, k) ELSE 0
    <3>1. \A k : Value(up, k) = IF Value(a, k) >= Value(Zero, k) THEN Value(a, k) ELSE Value(Zero, k)
      BY <1>1, <1>8
    <3> QED
      BY <1>6, <3>1, Zenon
  <2>2. up \in Amount
    <3>1. up \in Resource /\ \A k \in DOMAIN up : up[k] = Value(up, k)
      BY <1>1, <1>6, <1>7 DEF Value
    <3>2. \A k : Value(up, k) \in -AmountLimit .. AmountLimit
      <4>1. AmountLimit \in Nat
        BY AmountsAssumption
      <4>2. \A k : Value(a, k) \in Int /\ -AmountLimit <= Value(a, k) /\ Value(a, k) <= AmountLimit
        BY AmountValues
      <4> HIDE DEF up
      <4> QED
        BY <2>1, <4>1, <4>2
    <3> HIDE DEF up
    <3> QED
      BY <3>1, <3>2 DEF Amount
  <2> HIDE DEF up
  <2>3. \A k : Value(Sub(b, up), k) = Value(b, k) - Value(up, k)
    BY <1>1, <2>2, SumsOf, AmountsDoNotWrap DEF Amount
  <2>4. /\ rest \in Resource
        /\ \A k : Value(rest, k) = IF Value(Sub(b, up), k) >= 0 THEN Value(Sub(b, up), k) ELSE 0
    BY <1>1, <1>9, <2>2 DEF Amount
  <2>5. IsZero(rest) <=> \A k : Value(rest, k) = 0
    BY <2>4, QuantityAssumption DEF IsZero, OrZero, Value
  <2> HIDE DEF rest
  <2>6. ASSUME NEW k
        PROVE  Value(rest, k) = 0 <=> Value(b, k) <= 0 \/ Value(b, k) <= Value(a, k)
    <3>1. Value(a, k) \in Int /\ Value(b, k) \in Int
      BY <1>1
    <3> QED
      BY <2>1, <2>3, <2>4, <3>1
  <2> QED
    BY <2>5, <2>6, TestsByValue DEF up, rest
<1>11. Equals(SubEliminateNegative(a, b), ComponentWiseMax(Sub(a, b), Zero))
  <2>1. Zero \in Resource /\ SubEliminateNegative(a, b) \in Resource /\ ComponentWiseMax(Sub(a, b), Zero) \in Resource
    BY <1>1, <1>4, <1>6, <1>7, <1>9
  <2> DEFINE d == Sub(a, b)
             keep(k) == IF Value(d, k) >= 0 THEN Value(d, k) ELSE 0
  <2>3. \A k : Value(SubEliminateNegative(a, b), k) = keep(k)
    BY <1>1, <1>9
  <2>4. \A k : Value(ComponentWiseMax(d, Zero), k) = IF Value(d, k) >= Value(Zero, k) THEN Value(d, k) ELSE Value(Zero, k)
    BY <1>4, <1>8
  <2>5. \A k : Value(ComponentWiseMax(d, Zero), k) = keep(k)
    BY <1>6, <2>4, Zenon
  <2>2. \A k : Value(SubEliminateNegative(a, b), k) = Value(ComponentWiseMax(Sub(a, b), Zero), k)
    BY <2>3, <2>5, Zenon
  <2> QED
    BY <2>1, <2>2, EqualValues
<1>12. Equals(Add(ComponentWiseMin(a, b), ComponentWiseMax(a, b)), Add(a, b))
  <2> DEFINE lo == ComponentWiseMin(a, b)
             hi == ComponentWiseMax(a, b)
  <2>1. /\ lo \in Resource /\ hi \in Resource
        /\ \A k : /\ Value(hi, k) = IF Value(a, k) >= Value(b, k) THEN Value(a, k) ELSE Value(b, k)
                  /\ Value(lo, k) = IF Value(a, k) <= Value(b, k) THEN Value(a, k) ELSE Value(b, k)
    BY <1>1, <1>7
  <2> HIDE DEF lo, hi
  <2>2. \A k : Value(lo, k) + Value(hi, k) = Value(a, k) + Value(b, k)
    BY <1>1, <2>1
  <2>3. Add(lo, hi) \in Resource /\ \A k : Value(Add(lo, hi), k) = Wrap(Value(lo, k) + Value(hi, k))
    BY <2>1, SumsOf
  <2>4. \A k : Value(Add(a, b), k) = Wrap(Value(a, k) + Value(b, k))
    BY <1>1, SumsOf
  <2>5. \A k : Value(Add(lo, hi), k) = Value(Add(a, b), k)
    BY <2>2, <2>3, <2>4
  <2> QED
    BY <1>4, <2>3, <2>5, EqualValues DEF lo, hi
<1>13. Equals(MultiplyBy(a, 2), Add(a, a))
  <2>1. MultiplyBy(a, 2) = [k \in DOMAIN a |-> a[k] * 2]
    BY <1>1 DEF MultiplyBy
  <2>2. \A k : Value(Add(a, a), k) = Value(a, k) + Value(a, k) /\ Add(a, a) \in Resource
    BY <1>1, SumsOf, AmountsDoNotWrap
  <2>3. \A k : Value(MultiplyBy(a, 2), k) = Value(a, k) + Value(a, k)
    BY <1>1, <2>1 DEF Value
  <2>4. \A k : Value(MultiplyBy(a, 2), k) = Value(Add(a, a), k)
    BY <2>2, <2>3
  <2>5. MultiplyBy(a, 2) \in Resource
    <3>1. \A k \in DOMAIN a : a[k] * 2 = Value(Add(a, a), k)
      BY <1>1, <2>2
    <3>2. \A k : Value(Add(a, a), k) \in Quantity
      BY <2>2, ValueType
    <3>3. MultiplyBy(a, 2) \in [DOMAIN a -> Quantity] /\ DOMAIN a \in SUBSET ResourceTypes
      BY <2>1, <3>1, <3>2, AmountValues
    <3> QED
      BY <3>3 DEF Resource
  <2> QED
    BY <2>2, <2>4, <2>5, EqualValues
<1> QED
  BY <1>2, <1>3, <1>5, <1>10, <1>11, <1>12, <1>13

-----------------------------------------------------------------------------
(* The order of shares, and of sequences of shares *)

Fraction == (Int \X (Nat \ {0})) \cup {Infinity}

(* A product of two inequalities between fractions, without a division.    *)
LEMMA CrossMultiplied ==
  ASSUME NEW p \in Int, NEW q \in Nat \ {0}, NEW r \in Int, NEW s \in Nat \ {0},
         NEW t \in Int, NEW u \in Nat \ {0}, p * s <= r * q, r * u <= t * s
  PROVE  p * u <= t * q
<1>1. ASSUME NEW x \in Int, NEW y \in Int, NEW n \in Nat, x <= y
      PROVE  x * n <= y * n
  BY <1>1
<1>2. (p * s) * u <= (r * q) * u /\ (r * u) * q <= (t * s) * q
  <2>1. p * s \in Int /\ r * q \in Int /\ r * u \in Int /\ t * s \in Int
    OBVIOUS
  <2> HIDE DEF Fraction
  <2> QED
    BY <1>1, <2>1
<1>3. (p * u) * s <= (t * q) * s
  <2>1. (p * s) * u = (p * u) * s /\ (r * q) * u = (r * u) * q /\ (t * s) * q = (t * q) * s
    OBVIOUS
  <2>2. (p * s) * u \in Int /\ (r * q) * u \in Int /\ (t * s) * q \in Int
    OBVIOUS
  <2> QED
    BY <1>2, <2>1, <2>2
<1>4. ASSUME NEW x \in Int, NEW y \in Int, x * s <= y * s
      PROVE  x <= y
  BY <1>4
<1>5. p * u \in Int /\ t * q \in Int
  OBVIOUS
<1> QED
  BY <1>3, <1>4, <1>5

(* ShareLess is an order in which only shares of the same size are not     *)
(* comparable.                                                             *)
LEMMA ShareOrder ==
  /\ \A x, y \in Fraction : ShareLess(x, y) => ~ShareLess(y, x)
  /\ \A x, y, z \in Fraction : ~ShareLess(y, x) /\ ~ShareLess(z, y) => ~ShareLess(z, x)
<1>1. \A x \in Fraction : x # Infinity => x[1] \in Int /\ x[2] \in Nat \ {0}
  BY DEF Fraction, Infinity
<1>2. ASSUME NEW x \in Fraction, NEW y \in Fraction, ShareLess(x, y), ShareLess(y, x)
      PROVE  FALSE
  <2>1. x # Infinity /\ y # Infinity /\ x[1] * y[2] < y[1] * x[2] /\ y[1] * x[2] < x[1] * y[2]
    BY <1>2 DEF ShareLess
  <2>2. x[1] * y[2] \in Int /\ y[1] * x[2] \in Int
    BY <1>1, <2>1
  <2> QED
    BY <2>1, <2>2
<1>3. ASSUME NEW x \in Fraction, NEW y \in Fraction, NEW z \in Fraction,
             ~ShareLess(y, x), ~ShareLess(z, y)
      PROVE  ~ShareLess(z, x)
  <2>1. CASE z = Infinity
    BY <2>1 DEF ShareLess
  <2>2. CASE z # Infinity
    <3>1. y # Infinity /\ x # Infinity
      BY <1>3, <2>2 DEF ShareLess
    <3>2. ~(y[1] * x[2] < x[1] * y[2]) /\ ~(z[1] * y[2] < y[1] * z[2])
      BY <1>3, <2>2, <3>1 DEF ShareLess
    <3>3. /\ x[1] \in Int /\ y[1] \in Int /\ z[1] \in Int
          /\ x[2] \in Nat \ {0} /\ y[2] \in Nat \ {0} /\ z[2] \in Nat \ {0}
      BY <1>1, <2>2, <3>1
    <3>4. x[1] * y[2] <= y[1] * x[2] /\ y[1] * z[2] <= z[1] * y[2]
      <4>1. /\ x[1] * y[2] \in Int /\ y[1] * x[2] \in Int
            /\ y[1] * z[2] \in Int /\ z[1] * y[2] \in Int
        BY <3>3
      <4> QED
        BY <3>2, <4>1
    <3>5. x[1] * z[2] <= z[1] * x[2]
      BY <3>3, <3>4, CrossMultiplied
    <3>6. x[1] * z[2] \in Int /\ z[1] * x[2] \in Int
      BY <3>3
    <3> QED
      BY <2>2, <3>1, <3>5, <3>6 DEF ShareLess
  <2> QED
    BY <2>1, <2>2
<1> QED
  BY <1>2, <1>3

NoShare == <<0, 1>>
At(s, i) == IF i \in DOMAIN s THEN s[i] ELSE NoShare
Apart(l, r) == { i \in DOMAIN l \cup DOMAIN r : ShareLess(At(l, i), At(r, i)) \/ ShareLess(At(r, i), At(l, i)) }

(* Shares of the same size.                                                *)
Same(x, y) == ~ShareLess(x, y) /\ ~ShareLess(y, x)

(* Where a sequence has no share left it has a share of 0.                 *)
LEMMA NoShareType ==
  /\ NoShare \in Fraction
  /\ \A s \in Seq(Fraction) : DOMAIN s \subseteq Nat \ {0} /\ \A i : At(s, i) \in Fraction
<1>1. NoShare \in Fraction
  BY DEF NoShare, Fraction
<1>2. \A s \in Seq(Fraction) : DOMAIN s \subseteq Nat \ {0} /\ \A i \in DOMAIN s : s[i] \in Fraction
  OBVIOUS
<1> QED
  BY <1>1, <1>2 DEF At

(* CompareShares decides at the first position at which the sequences      *)
(* differ.                                                                 *)
LEMMA ComparedFirst ==
  ASSUME NEW l \in Seq(Fraction), NEW r \in Seq(Fraction)
  PROVE  \/ CompareShares(l, r) = 0 /\ \A i \in Nat : Same(At(l, i), At(r, i))
         \/ \E d \in Nat :
              /\ \A i \in 0 .. d - 1 : Same(At(l, i), At(r, i))
              /\ \/ CompareShares(l, r) = -1 /\ ShareLess(At(l, d), At(r, d))
                 \/ CompareShares(l, r) = 1 /\ ShareLess(At(r, d), At(l, d))
<1>1. CompareShares(l, r) = IF Apart(l, r) = {} THEN 0
                            ELSE IF ShareLess(At(l, Min(Apart(l, r))), At(r, Min(Apart(l, r)))) THEN -1 ELSE 1
  BY DEF CompareShares, Apart, At, NoShare
<1>2. Apart(l, r) \in SUBSET Nat
  BY NoShareType DEF Apart
<1>3. \A i \in Nat : i \notin Apart(l, r) => Same(At(l, i), At(r, i))
  <2>1. ~ShareLess(NoShare, NoShare)
    BY NoShareType, ShareOrder
  <2>2. ASSUME NEW i \in Nat, i \notin DOMAIN l \cup DOMAIN r
        PROVE  At(l, i) = NoShare /\ At(r, i) = NoShare
    BY <2>2 DEF At
  <2> QED
    BY <2>1, <2>2 DEF Apart, Same
<1>4. CASE Apart(l, r) = {}
  BY <1>1, <1>3, <1>4
<1>5. CASE Apart(l, r) # {}
  <2>1. PICK d \in Apart(l, r) : \A i \in Apart(l, r) : d <= i
    BY <1>2, <1>5, LeastNatural
  <2>2. Min(Apart(l, r)) = d
    <3>1. \A e \in Apart(l, r) : (\A i \in Apart(l, r) : e <= i) => e = d
      BY <1>2, <2>1
    <3> QED
      BY <2>1, <3>1 DEF Min
  <2>3. \A i \in 0 .. d - 1 : Same(At(l, i), At(r, i))
    <3>1. \A i \in 0 .. d - 1 : i \in Nat /\ ~(d <= i)
      BY <1>2, <2>1
    <3> QED
      BY <1>3, <2>1, <3>1
  <2>4. ShareLess(At(l, d), At(r, d)) \/ ShareLess(At(r, d), At(l, d))
    BY <2>1 DEF Apart
  <2>5. d \in Nat
    BY <1>2, <2>1
  <2>6. CompareShares(l, r) = IF ShareLess(At(l, d), At(r, d)) THEN -1 ELSE 1
    BY <1>1, <1>5, <2>2
  <2> QED
    BY <2>3, <2>4, <2>5, <2>6
<1> QED
  BY <1>4, <1>5

(* CompareShares is one of -1, 0 and 1, changes its sign with the order of *)
(* its arguments, and "not after" is transitive.                           *)
LEMMA SharesOrdered ==
  ASSUME NEW l \in Seq(Fraction), NEW r \in Seq(Fraction)
  PROVE  /\ CompareShares(l, r) \in {-1, 0, 1}
         /\ CompareShares(l, r) = -CompareShares(r, l)
         /\ (\A i \in Nat : Same(At(l, i), At(r, i))) => CompareShares(l, r) = 0
         /\ \A m \in Seq(Fraction) :
              CompareShares(l, r) <= 0 /\ CompareShares(r, m) <= 0 => CompareShares(l, m) <= 0
<1>1. \A x, y \in Fraction : Same(x, y) <=> Same(y, x)
  BY DEF Same
<1>2. \A s \in Seq(Fraction) : \A i : At(s, i) \in Fraction
  BY NoShareType
<1>3. ASSUME NEW a \in Seq(Fraction), NEW b \in Seq(Fraction), NEW d \in Nat,
             \A i \in 0 .. d - 1 : Same(At(a, i), At(b, i)), ShareLess(At(a, d), At(b, d))
      PROVE  CompareShares(a, b) = -1
  <2>1. ~Same(At(a, d), At(b, d))
    BY <1>3 DEF Same
  <2>2. CASE CompareShares(a, b) = 0 /\ \A i \in Nat : Same(At(a, i), At(b, i))
    BY <2>1, <2>2
  <2>3. ASSUME NEW e \in Nat, \A i \in 0 .. e - 1 : Same(At(a, i), At(b, i)),
               CompareShares(a, b) = 1 /\ ShareLess(At(b, e), At(a, e))
        PROVE  FALSE
    <3>1. ~Same(At(a, e), At(b, e))
      BY <2>3 DEF Same
    <3>2. ~(d < e) /\ ~(e < d)
      BY <1>3, <2>1, <2>3, <3>1
    <3>3. d = e
      BY <3>2
    <3> QED
      BY <1>3, <1>2, <2>3, <3>3, ShareOrder
  <2> QED
    BY <2>2, <2>3, ComparedFirst
<1>4. ASSUME NEW a \in Seq(Fraction), NEW b \in Seq(Fraction), \A i \in Nat : Same(At(a, i), At(b, i))
      PROVE  CompareShares(a, b) = 0
  BY <1>4, ComparedFirst DEF Same
<1>5. ASSUME NEW a \in Seq(Fraction), NEW b \in Seq(Fraction), NEW d \in Nat,
             \A i \in 0 .. d - 1 : Same(At(a, i), At(b, i)), ShareLess(At(b, d), At(a, d))
      PROVE  CompareShares(a, b) = 1
  <2>1. ~Same(At(a, d), At(b, d))
    BY <1>5 DEF Same
  <2>2. CASE CompareShares(a, b) = 0 /\ \A i \in Nat : Same(At(a, i), At(b, i))
    BY <2>1, <2>2
  <2>3. ASSUME NEW e \in Nat, \A i \in 0 .. e - 1 : Same(At(a, i), At(b, i)),
               CompareShares(a, b) = -1 /\ ShareLess(At(a, e), At(b, e))
        PROVE  FALSE
    <3>1. ~Same(At(a, e), At(b, e))
      BY <2>3 DEF Same
    <3>2. ~(d < e) /\ ~(e < d)
      BY <1>5, <2>1, <2>3, <3>1
    <3>3. d = e
      BY <3>2
    <3> QED
      BY <1>5, <1>2, <2>3, <3>3, ShareOrder
  <2> QED
    BY <2>2, <2>3, ComparedFirst
<1>6. CompareShares(l, r) \in {-1, 0, 1}
  BY ComparedFirst
<1>7. CompareShares(l, r) = -CompareShares(r, l)
  <2> DEFINE opposite(x, y) == x = -y
  <2>0. opposite(0, 0) /\ opposite(-1, 1) /\ opposite(1, -1)
    <3>1. \A x, y \in Int : x + y = 0 => opposite(x, y)
      OBVIOUS
    <3>2. 0 \in Int /\ 1 \in Int /\ -1 \in Int /\ 0 + 0 = 0 /\ -1 + 1 = 0 /\ 1 + (-1) = 0
      OBVIOUS
    <3> HIDE DEF opposite
    <3> QED
      BY <3>1, <3>2
  <2> HIDE DEF opposite
  <2>1. ASSUME CompareShares(l, r) = 0 /\ \A i \in Nat : Same(At(l, i), At(r, i))
        PROVE  opposite(CompareShares(l, r), CompareShares(r, l))
    <3>1. \A i \in Nat : Same(At(r, i), At(l, i))
      BY <1>1, <1>2, <2>1
    <3>2. CompareShares(r, l) = 0
      BY <1>4, <3>1
    <3> QED
      BY <2>0, <2>1, <3>2
  <2>2. ASSUME NEW d \in Nat, \A i \in 0 .. d - 1 : Same(At(l, i), At(r, i)),
               \/ CompareShares(l, r) = -1 /\ ShareLess(At(l, d), At(r, d))
               \/ CompareShares(l, r) = 1 /\ ShareLess(At(r, d), At(l, d))
        PROVE  opposite(CompareShares(l, r), CompareShares(r, l))
    <3>1. \A i \in 0 .. d - 1 : Same(At(r, i), At(l, i))
      BY <1>1, <1>2, <2>2
    <3>2. CASE CompareShares(l, r) = -1 /\ ShareLess(At(l, d), At(r, d))
      <4>1. CompareShares(r, l) = 1
        BY <1>5, <3>1, <3>2
      <4> QED
        BY <2>0, <3>2, <4>1
    <3>3. CASE CompareShares(l, r) = 1 /\ ShareLess(At(r, d), At(l, d))
      <4>1. ShareLess(At(r, d), At(l, d))
        BY <3>3
      <4>2. CompareShares(r, l) = -1
        BY <1>3, <3>1, <4>1
      <4>3. CompareShares(l, r) = 1
        BY <3>3
      <4> QED
        BY <2>0, <4>2, <4>3
    <3> QED
      BY <2>2, <3>2, <3>3
  <2>3. opposite(CompareShares(l, r), CompareShares(r, l))
    BY <2>1, <2>2, ComparedFirst
  <2> QED
    BY <2>3 DEF opposite
<1>8. ASSUME NEW m \in Seq(Fraction), CompareShares(l, r) <= 0, CompareShares(r, m) <= 0
      PROVE  CompareShares(l, m) <= 0
  <2>1. \A x, y, z \in Fraction : ~ShareLess(y, x) /\ ~ShareLess(z, y) => ~ShareLess(z, x)
    BY ShareOrder
  <2>2. \A x, y, z \in Fraction : Same(x, y) /\ Same(y, z) => Same(x, z)
    BY <2>1 DEF Same
  <2>3. \A x, y, z \in Fraction :
          (ShareLess(x, y) /\ ~ShareLess(z, y)) \/ (~ShareLess(y, x) /\ ShareLess(y, z)) => ShareLess(x, z)
    BY <2>1, ShareOrder
  <2> DEFINE before(a, b, d) == /\ \A i \in 0 .. d - 1 : Same(At(a, i), At(b, i))
                                /\ ShareLess(At(a, d), At(b, d))
  <2>4. \/ \A i \in Nat : Same(At(l, i), At(r, i))
        \/ \E d \in Nat : before(l, r, d)
    BY <1>8, ComparedFirst
  <2>5. \/ \A i \in Nat : Same(At(r, i), At(m, i))
        \/ \E d \in Nat : before(r, m, d)
    BY <1>8, ComparedFirst
  <2>6. ASSUME NEW d \in Nat, \A i \in 0 .. d - 1 : Same(At(l, i), At(r, i)) /\ Same(At(r, i), At(m, i)),
               \/ ShareLess(At(l, d), At(r, d)) /\ ~ShareLess(At(m, d), At(r, d))
               \/ ~ShareLess(At(r, d), At(l, d)) /\ ShareLess(At(r, d), At(m, d))
        PROVE  CompareShares(l, m) <= 0
    <3>1. \A i \in 0 .. d - 1 : Same(At(l, i), At(m, i))
      BY <1>2, <2>2, <2>6
    <3>2. ShareLess(At(l, d), At(m, d))
      BY <1>2, <2>3, <2>6
    <3>3. CompareShares(l, m) = -1
      BY <1>3, <3>1, <3>2
    <3> QED
      BY <3>3
  <2>7. CASE (\A i \in Nat : Same(At(l, i), At(r, i))) /\ (\A i \in Nat : Same(At(r, i), At(m, i)))
    <3>1. \A i \in Nat : Same(At(l, i), At(m, i))
      BY <1>2, <2>2, <2>7
    <3>2. CompareShares(l, m) = 0
      BY <1>4, <3>1
    <3> QED
      BY <3>2
  <2>8. ASSUME NEW d \in Nat, before(l, r, d), \A i \in Nat : Same(At(r, i), At(m, i))
        PROVE  CompareShares(l, m) <= 0
    <3>1. ~ShareLess(At(m, d), At(r, d)) /\ \A i \in 0 .. d - 1 : Same(At(r, i), At(m, i))
      BY <2>8 DEF Same
    <3> QED
      BY <2>6, <2>8, <3>1
  <2>9. ASSUME NEW e \in Nat, before(r, m, e), \A i \in Nat : Same(At(l, i), At(r, i))
        PROVE  CompareShares(l, m) <= 0
    <3>1. ~ShareLess(At(r, e), At(l, e)) /\ \A i \in 0 .. e - 1 : Same(At(l, i), At(r, i))
      BY <2>9 DEF Same
    <3> QED
      BY <2>6, <2>9, <3>1
  <2>10. ASSUME NEW d \in Nat, before(l, r, d), NEW e \in Nat, before(r, m, e)
         PROVE  CompareShares(l, m) <= 0
    <3>1. CASE d <= e
      <4>1. ~ShareLess(At(m, d), At(r, d))
        <5>1. CASE d = e
          BY <1>2, <2>10, <5>1, ShareOrder
        <5>2. CASE d # e
          <6>1. d \in 0 .. e - 1
            BY <3>1, <5>2
          <6> QED
            BY <2>10, <6>1 DEF Same
        <5> QED
          BY <5>1, <5>2
      <4>2. \A i \in 0 .. d - 1 : i \in 0 .. e - 1
        BY <3>1
      <4> QED
        BY <2>6, <2>10, <4>1, <4>2
    <3>2. CASE e < d
      <4>1. e \in 0 .. d - 1 /\ \A i \in 0 .. e - 1 : i \in 0 .. d - 1
        BY <3>2
      <4>2. ~ShareLess(At(r, e), At(l, e))
        BY <2>10, <4>1 DEF Same
      <4> QED
        BY <2>6, <2>10, <4>1, <4>2
    <3> QED
      BY <3>1, <3>2
  <2> HIDE DEF before
  <2> QED
    BY <2>4, <2>5, <2>7, <2>8, <2>9, <2>10
<1> QED
  BY <1>4, <1>6, <1>7, <1>8

-----------------------------------------------------------------------------
(* Orders given by the pairs in which the first is less *)

WeakOrder(less, S) ==
  /\ \A x, y \in S : <<x, y>> \in less => <<y, x>> \notin less
  /\ \A x, y, z \in S : <<y, x>> \notin less /\ <<z, y>> \notin less => <<z, x>> \notin less

(* A finite set has an element that no other one is less than.             *)
LEMMA SmallestElement ==
  ASSUME NEW S, IsFiniteSet(S), S # {}, NEW less, WeakOrder(less, S)
  PROVE  \E x \in S : \A y \in S : <<y, x>> \notin less
<1> DEFINE size == Cardinality(S)
           smallest(T) == \E x \in T : \A y \in T : <<y, x>> \notin less
           G == { n \in 0 .. size : \A T \in SUBSET S : T # {} /\ Cardinality(T) = n => smallest(T) }
<1>1. /\ size \in Nat
      /\ \A T \in SUBSET S : IsFiniteSet(T) /\ (Cardinality(T) = 0 <=> T = {})
  BY FS_CardinalityType, FS_Subset, FS_EmptySet
<1> HIDE DEF size, smallest
<1>2. 0 \in G
  BY <1>1
<1>3. ASSUME NEW n \in 1 .. size, n - 1 \in G
      PROVE  n \in G
  <2>1. ASSUME NEW T \in SUBSET S, T # {}, Cardinality(T) = n
        PROVE  smallest(T)
    <3>1. PICK x \in T : TRUE
      BY <2>1
    <3> DEFINE rest == T \ {x}
    <3>2. rest \in SUBSET S /\ Cardinality(rest) = n - 1 /\ x \in S /\ T = rest \cup {x}
      BY <1>1, <2>1, FS_RemoveElement
    <3> HIDE DEF rest
    <3>3. <<x, x>> \notin less
      BY <3>2 DEF WeakOrder
    <3>4. CASE rest = {}
      BY <3>1, <3>2, <3>3, <3>4 DEF smallest
    <3>5. CASE rest # {}
      <4>1. smallest(rest)
        BY <1>3, <3>2, <3>5
      <4>2. PICK y \in rest : \A z \in rest : <<z, y>> \notin less
        BY <4>1 DEF smallest
      <4>3. CASE <<x, y>> \in less
        <5>1. <<y, x>> \notin less
          BY <3>2, <4>3 DEF WeakOrder
        <5>2. \A z \in rest : <<z, x>> \notin less
          BY <3>2, <4>2, <5>1 DEF WeakOrder
        <5> QED
          BY <3>1, <3>2, <3>3, <5>2 DEF smallest
      <4>4. CASE <<x, y>> \notin less
        BY <3>2, <4>2, <4>4 DEF smallest
      <4> QED
        BY <4>3, <4>4
    <3> QED
      BY <3>4, <3>5
  <2> QED
    BY <1>1, <2>1
<1>4. size \in G
  <2> HIDE DEF G
  <2>1. 0 .. size \subseteq G
    BY <1>1, <1>2, <1>3, UpwardInduction
  <2> QED
    BY <1>1, <2>1
<1>5. smallest(S)
  BY <1>1, <1>4 DEF size
<1> QED
  BY <1>5 DEF smallest

(* A finite set can be put in a row in which nothing is less than what     *)
(* comes after it.                                                         *)
LEMMA DescendingRow ==
  ASSUME NEW S, IsFiniteSet(S), NEW less, WeakOrder(less, S)
  PROVE  \E t \in Bijection(1 .. Cardinality(S), S) :
           \A i, j \in 1 .. Cardinality(S) : i < j => <<t[i], t[j]>> \notin less
<1> DEFINE size == Cardinality(S)
           descends(t, n, T) ==
             /\ t \in Bijection(1 .. n, T)
             /\ \A i, j \in 1 .. n : i < j => <<t[i], t[j]>> \notin less
           row(T) == \E t : descends(t, Cardinality(T), T)
           G == { n \in 0 .. size : \A T \in SUBSET S : Cardinality(T) = n => row(T) }
<1>1. /\ size \in Nat
      /\ \A T \in SUBSET S : IsFiniteSet(T) /\ (Cardinality(T) = 0 <=> T = {})
  BY FS_CardinalityType, FS_Subset, FS_EmptySet
<1> HIDE DEF size
<1>2. \A t, n, T : descends(t, n, T) <=>
        /\ t \in [1 .. n -> T] /\ \A x \in T : \E i \in 1 .. n : t[i] = x
        /\ \A i, j \in 1 .. n : /\ t[i] = t[j] => i = j
                                /\ i < j => <<t[i], t[j]>> \notin less
  BY DEF Bijection, Injection, Surjection, IsInjective
<1> HIDE DEF descends
<1>3. 0 \in G
  <2> DEFINE t == [i \in 1 .. 0 |-> {}]
  <2>1. 1 .. 0 = {} /\ t \in [1 .. 0 -> {}]
    OBVIOUS
  <2> HIDE DEF t
  <2>2. descends(t, 0, {})
    BY <1>2, <2>1
  <2> QED
    BY <1>1, <2>2
<1>4. ASSUME NEW n \in 1 .. size, n - 1 \in G
      PROVE  n \in G
  <2>1. ASSUME NEW T \in SUBSET S, Cardinality(T) = n
        PROVE  row(T)
    <3>1. T # {} /\ IsFiniteSet(T) /\ WeakOrder(less, T)
      BY <1>1, <2>1 DEF WeakOrder
    <3>2. PICK x \in T : \A y \in T : <<y, x>> \notin less
      BY <3>1, SmallestElement
    <3> DEFINE rest == T \ {x}
    <3>3. rest \in SUBSET S /\ Cardinality(rest) = n - 1
      BY <2>1, <3>1, FS_RemoveElement
    <3>4. PICK t : descends(t, n - 1, rest)
      BY <1>4, <3>3
    <3>5. /\ t \in [1 .. n - 1 -> rest] /\ \A y \in rest : \E i \in 1 .. n - 1 : t[i] = y
          /\ \A i, j \in 1 .. n - 1 : /\ t[i] = t[j] => i = j
                                      /\ i < j => <<t[i], t[j]>> \notin less
      BY <1>2, <3>4
    <3> DEFINE u == [i \in 1 .. n |-> IF i = n THEN x ELSE t[i]]
    <3>6. /\ n \in Nat /\ n \in 1 .. n /\ u[n] = x
          /\ \A i \in 1 .. n - 1 : i \in 1 .. n /\ i # n /\ u[i] = t[i] /\ u[i] \in rest
          /\ \A i \in 1 .. n : i = n \/ i \in 1 .. n - 1
      BY <1>1, <3>5
    <3>7. u \in [1 .. n -> T]
      BY <3>6
    <3> HIDE DEF u
    <3>8. \A y \in T : \E i \in 1 .. n : u[i] = y
      BY <3>5, <3>6
    <3>9. ASSUME NEW i \in 1 .. n, NEW j \in 1 .. n
          PROVE  (u[i] = u[j] => i = j) /\ (i < j => <<u[i], u[j]>> \notin less)
      <4>1. CASE i = n \/ j = n
        BY <3>2, <3>6, <3>7, <4>1
      <4>2. CASE i \in 1 .. n - 1 /\ j \in 1 .. n - 1
        BY <3>5, <3>6, <4>2
      <4> QED
        BY <3>6, <4>1, <4>2
    <3>10. descends(u, n, T)
      BY <1>2, <3>7, <3>8, <3>9
    <3> QED
      BY <2>1, <3>10
  <2> HIDE DEF row
  <2> QED
    BY <1>1, <2>1
<1>5. size \in G
  <2> HIDE DEF G
  <2>1. 0 .. size \subseteq G
    BY <1>1, <1>3, <1>4, UpwardInduction
  <2> QED
    BY <1>1, <2>1
<1>6. row(S)
  <2> HIDE DEF row
  <2> QED
    BY <1>5 DEF size
<1> QED
  BY <1>6 DEF descends

-----------------------------------------------------------------------------
(* The shares of a resource *)

(* The shares of an amount are fractions, those of equal values the same,  *)
(* and not negative if the amount is not.                                  *)
LEMMA ShareType ==
  ASSUME NEW a \in Amount, NEW total \in Resource \cup {NilResource}
  PROVE  /\ \A k \in DOMAIN a : Share(total, a, k) \in Fraction
         /\ \A k \in DOMAIN a : a[k] = 0 => Share(total, a, k) = NoShare
         /\ \A b \in Amount : \A k \in DOMAIN a \cap DOMAIN b : a[k] = b[k] => Share(total, a, k) = Share(total, b, k)
         /\ \A k \in DOMAIN a : a[k] >= 0 => ~ShareLess(Share(total, a, k), NoShare)
<1>1. \A k \in DOMAIN a : a[k] \in Int
  BY AmountsAssumption DEF Amount
<1>2. total # NilResource => \A k : Value(total, k) \in Int
  BY ValueType, QuantityAssumption DEF Quantity
<1>3. \A b \in Amount : \A k \in DOMAIN a \cap DOMAIN b : a[k] = b[k] => Share(total, a, k) = Share(total, b, k)
  BY DEF Share
<1>4. ASSUME NEW k \in DOMAIN a
      PROVE  /\ Share(total, a, k) \in Fraction
             /\ a[k] = 0 => Share(total, a, k) = NoShare
             /\ a[k] >= 0 => ~ShareLess(Share(total, a, k), NoShare)
  <2> DEFINE n == a[k]
             v == Value(total, k)
  <2>1. n \in Int
    BY <1>1
  <2>2. CASE n = 0
    <3>1. Share(total, a, k) = NoShare
      BY <2>2 DEF Share, NoShare
    <3> QED
      BY <3>1, NoShareType, ShareOrder
  <2>3. CASE n # 0 /\ total = NilResource
    <3>1. Share(total, a, k) = <<n, 1>>
      BY <2>3 DEF Share
    <3>2. <<n, 1>> \in Fraction
      BY <2>1 DEF Fraction
    <3>3. n >= 0 => ~ShareLess(<<n, 1>>, NoShare)
      BY <2>1 DEF ShareLess, NoShare, Infinity
    <3> QED
      BY <2>3, <3>1, <3>2, <3>3
  <2>4. CASE n # 0 /\ total # NilResource /\ v >= 0
    <3>1. Share(total, a, k) = <<10000 * n, 10000 * v + 1>>
      BY <2>4 DEF Share
    <3> DEFINE p == 10000 * n
               q == 10000 * v + 1
    <3>2. p \in Int /\ q \in Nat \ {0} /\ (n >= 0 => p >= 0)
      BY <1>2, <2>1, <2>4
    <3> HIDE DEF p, q
    <3>3. <<p, q>> \in Fraction
      BY <3>2 DEF Fraction
    <3>4. n >= 0 => ~ShareLess(<<p, q>>, NoShare)
      BY <3>2 DEF ShareLess, NoShare, Infinity
    <3> QED
      BY <2>4, <3>1, <3>3, <3>4 DEF p, q
  <2>5. CASE n # 0 /\ total # NilResource /\ ~(v >= 0)
    <3>1. Share(total, a, k) = Infinity
      BY <2>5 DEF Share
    <3> QED
      BY <2>5, <3>1 DEF ShareLess, Fraction
  <2> QED
    BY <2>2, <2>3, <2>4, <2>5
<1> QED
  BY <1>3, <1>4

(* GetShares has the share of each type at one place, the largest first.   *)
LEMMA SharesDescend ==
  ASSUME NEW a \in Amount, NEW total \in Resource \cup {NilResource}
  PROVE  /\ GetShares(total, a) \in Seq(Fraction)
         /\ \E n \in Nat : \E t \in Bijection(1 .. n, DOMAIN a) :
              /\ GetShares(total, a) = [i \in 1 .. n |-> Share(total, a, t[i])]
              /\ \A i, j \in 1 .. n : i < j => ~ShareLess(Share(total, a, t[i]), Share(total, a, t[j]))
<1> DEFINE D == DOMAIN a
           n == Cardinality(D)
           sh(k) == Share(total, a, k)
           less == { p \in D \X D : ShareLess(sh(p[1]), sh(p[2])) }
           sorted(t) == \A i, j \in 1 .. n : i < j => ~ShareLess(sh(t[i]), sh(t[j]))
           type == CHOOSE t \in Bijection(1 .. n, D) : sorted(t)
<1>1. IsFiniteSet(D) /\ n \in Nat
  BY AmountValues
<1>2. \A k \in D : sh(k) \in Fraction
  BY ShareType
<1>3. GetShares(total, a) = [i \in 1 .. n |-> sh(type[i])]
  BY DEF GetShares
<1> HIDE DEF D, n, sh
<1>4. \A x, y \in D : <<x, y>> \in less <=> ShareLess(sh(x), sh(y))
  OBVIOUS
<1> HIDE DEF less
<1>5. WeakOrder(less, D)
  <2>1. \A x, y \in D : <<x, y>> \in less => <<y, x>> \notin less
    BY <1>2, <1>4, ShareOrder
  <2>2. \A x, y, z \in D : <<y, x>> \notin less /\ <<z, y>> \notin less => <<z, x>> \notin less
    BY <1>2, <1>4, ShareOrder
  <2> QED
    BY <2>1, <2>2 DEF WeakOrder
<1>6. PICK t \in Bijection(1 .. n, D) : \A i, j \in 1 .. n : i < j => <<t[i], t[j]>> \notin less
  BY <1>1, <1>5, DescendingRow DEF n
<1>7. \A u \in Bijection(1 .. n, D) : u \in [1 .. n -> D]
  BY DEF Bijection, Injection
<1>8. \A u \in Bijection(1 .. n, D) : \A i \in 1 .. n : u[i] \in D
  BY <1>7
<1>9. sorted(t)
  BY <1>4, <1>6, <1>8
<1> HIDE DEF sorted
<1>10. type \in Bijection(1 .. n, D) /\ sorted(type)
  BY <1>9
<1> HIDE DEF type
<1>11. GetShares(total, a) \in Seq(Fraction)
  <2>1. [i \in 1 .. n |-> sh(type[i])] \in [1 .. n -> Fraction]
    BY <1>2, <1>8, <1>10
  <2> QED
    BY <1>1, <1>3, <2>1
<1> QED
  BY <1>1, <1>3, <1>10, <1>11 DEF sorted, sh, D

(* Resources that are equal and not negative: at no place is one of them   *)
(* behind the other, as the types with a larger share than that of the     *)
(* place are the same, and fill the places before it.                      *)
LEMMA EqualPlaces ==
  ASSUME NEW a \in Amount, NEW b \in Amount, NEW total \in Resource \cup {NilResource},
         NonNegative(a), NonNegative(b), \A k : Value(a, k) = Value(b, k), NEW d \in Nat
  PROVE  ~ShareLess(At(GetShares(total, a), d), At(GetShares(total, b), d))
<1> DEFINE l == GetShares(total, a)
           r == GetShares(total, b)
           sa(k) == Share(total, a, k)
           sb(k) == Share(total, b, k)
<1>1. PICK n \in Nat : \E t \in Bijection(1 .. n, DOMAIN a) :
         /\ l = [i \in 1 .. n |-> sa(t[i])]
         /\ \A i, j \in 1 .. n : i < j => ~ShareLess(sa(t[i]), sa(t[j]))
  BY SharesDescend
<1>2. PICK m \in Nat : \E u \in Bijection(1 .. m, DOMAIN b) :
         /\ r = [i \in 1 .. m |-> sb(u[i])]
         /\ \A i, j \in 1 .. m : i < j => ~ShareLess(sb(u[i]), sb(u[j]))
  BY SharesDescend
<1>3. PICK t \in Bijection(1 .. n, DOMAIN a) :
        /\ l = [i \in 1 .. n |-> sa(t[i])]
        /\ \A i, j \in 1 .. n : i < j => ~ShareLess(sa(t[i]), sa(t[j]))
  BY <1>1
<1>4. PICK u \in Bijection(1 .. m, DOMAIN b) :
        /\ r = [i \in 1 .. m |-> sb(u[i])]
        /\ \A i, j \in 1 .. m : i < j => ~ShareLess(sb(u[i]), sb(u[j]))
  BY <1>2
<1>5. /\ t \in [1 .. n -> DOMAIN a] /\ \A k \in DOMAIN a : \E i \in 1 .. n : t[i] = k
      /\ u \in [1 .. m -> DOMAIN b] /\ \A i, j \in 1 .. m : u[i] = u[j] => i = j
  BY DEF Bijection, Injection, Surjection, IsInjective
<1>6. /\ \A k \in DOMAIN a : sa(k) \in Fraction /\ ~ShareLess(sa(k), NoShare)
      /\ \A k \in DOMAIN b : sb(k) \in Fraction /\ (b[k] = 0 => sb(k) = NoShare)
      /\ \A k \in DOMAIN a \cap DOMAIN b : sa(k) = sb(k)
  <2>1. \A k \in DOMAIN a \cap DOMAIN b : a[k] = b[k]
    BY DEF Value
  <2> QED
    BY <2>1, ShareType DEF NonNegative
<1>7. \A k \in DOMAIN b : k \in DOMAIN a \/ sb(k) = NoShare
  <2>1. \A k \in DOMAIN b : k \in DOMAIN a \/ b[k] = 0
    BY DEF Value
  <2> QED
    BY <1>6, <2>1
<1> HIDE DEF sa, sb, l, r
<1>8. \A i : At(l, i) = IF i \in 1 .. n THEN sa(t[i]) ELSE NoShare
  BY <1>3 DEF At
<1>9. \A i : At(r, i) = IF i \in 1 .. m THEN sb(u[i]) ELSE NoShare
  BY <1>4 DEF At
<1>10. \A i : At(l, i) \in Fraction /\ ~ShareLess(At(l, i), NoShare)
  BY <1>5, <1>6, <1>8, NoShareType, ShareOrder
<1>11. ASSUME ShareLess(At(l, d), At(r, d))
      PROVE  FALSE
  <2>1. d \in 1 .. m /\ At(r, d) = sb(u[d])
    BY <1>9, <1>10, <1>11
  <2>2. \A i \in 1 .. d : i \in 1 .. m /\ u[i] \in DOMAIN b /\ sb(u[i]) \in Fraction
    BY <1>5, <1>6, <2>1
  <2>3. \A i \in 1 .. d : ~ShareLess(sb(u[i]), sb(u[d]))
    <3>1. ~ShareLess(sb(u[d]), sb(u[d]))
      BY <2>1, <2>2, ShareOrder
    <3>2. \A i \in 1 .. d : i = d \/ i < d
      OBVIOUS
    <3> QED
      BY <1>4, <2>1, <2>2, <3>1, <3>2
  <2>4. \A x, y, z \in Fraction : ShareLess(x, y) /\ ~ShareLess(z, y) => ShareLess(x, z)
    BY ShareOrder
  <2>5. \A i \in 1 .. d : ShareLess(At(l, d), sb(u[i]))
    BY <1>10, <1>11, <2>1, <2>2, <2>3, <2>4
  <2>6. \A i \in 1 .. d : u[i] \in DOMAIN a /\ sa(u[i]) = sb(u[i])
    BY <1>6, <1>7, <1>10, <2>2, <2>5
  <2> DEFINE place(i) == CHOOSE j \in 1 .. n : t[j] = u[i]
             f == [i \in 1 .. d |-> place(i)]
  <2>7. \A i \in 1 .. d : place(i) \in 1 .. n /\ t[place(i)] = u[i]
    BY <1>5, <2>6
  <2> HIDE DEF place
  <2>8. ASSUME NEW i \in 1 .. d
        PROVE  place(i) \in 1 .. d - 1
    <3>1. ShareLess(At(l, d), sa(t[place(i)]))
      BY <2>5, <2>6, <2>7
    <3>2. CASE d \in 1 .. n
      <4>1. At(l, d) = sa(t[d])
        BY <1>8, <3>2
      <4>2. place(i) # d
        BY <1>10, <3>1, <4>1, ShareOrder
      <4>3. ~(d < place(i))
        BY <1>3, <2>7, <3>1, <3>2, <4>1
      <4> QED
        BY <2>7, <4>2, <4>3
    <3>3. CASE d \notin 1 .. n
      BY <2>1, <2>7, <3>3
    <3> QED
      BY <3>2, <3>3
  <2>9. f \in [1 .. d -> 1 .. d - 1]
    BY <2>8
  <2>10. /\ IsFiniteSet(1 .. d) /\ IsFiniteSet(1 .. d - 1)
         /\ Cardinality(1 .. d - 1) < Cardinality(1 .. d)
    <3>1. d \in Nat \ {0} /\ d - 1 \in Nat /\ d \in Int /\ d - 1 \in Int /\ 1 \in Int
      BY <2>1
    <3>2. IsFiniteSet(1 .. d) /\ Cardinality(1 .. d) = d
      <4>1. IsFiniteSet(1 .. d) /\ Cardinality(1 .. d) = IF 1 > d THEN 0 ELSE d - 1 + 1
        BY <3>1, FS_Interval
      <4> QED
        BY <3>1, <4>1
    <3>3. IsFiniteSet(1 .. d - 1) /\ Cardinality(1 .. d - 1) = d - 1
      <4>1. IsFiniteSet(1 .. d - 1) /\ Cardinality(1 .. d - 1) = IF 1 > d - 1 THEN 0 ELSE (d - 1) - 1 + 1
        BY <3>1, FS_Interval
      <4> QED
        BY <3>1, <4>1
    <3> QED
      BY <3>1, <3>2, <3>3
  <2>11. PICK i \in 1 .. d, j \in 1 .. d : i # j /\ f[i] = f[j]
    <3> HIDE DEF f
    <3> QED
      BY <2>9, <2>10, FS_PigeonHole
  <2>12. u[i] = u[j]
    BY <2>7, <2>11
  <2> QED
    BY <1>5, <2>2, <2>11, <2>12
<1> QED
  BY <1>11 DEF l, r

(* CompFairnessRatio against one total orders amounts.                     *)
LEMMA RatiosOrdered ==
  ASSUME NEW total \in Resource \cup {NilResource}, NEW a \in Amount, NEW b \in Amount
  PROVE  /\ CompFairnessRatio(a, total, b, total) \in {-1, 0, 1}
         /\ CompFairnessRatio(a, total, b, total) = -CompFairnessRatio(b, total, a, total)
         /\ \A c \in Amount :
              /\ CompFairnessRatio(a, total, b, total) <= 0
              /\ CompFairnessRatio(b, total, c, total) <= 0
              => CompFairnessRatio(a, total, c, total) <= 0
         /\ NonNegative(a) /\ NonNegative(b) /\ Equals(a, b) => CompFairnessRatio(a, total, b, total) = 0
<1>1. \A x \in Amount : GetShares(total, x) \in Seq(Fraction)
  BY SharesDescend
<1>2. \A x, y \in Amount : CompFairnessRatio(x, total, y, total) = CompareShares(GetShares(total, x), GetShares(total, y))
  BY DEF CompFairnessRatio
<1>3. /\ CompFairnessRatio(a, total, b, total) \in {-1, 0, 1}
      /\ CompFairnessRatio(a, total, b, total) = -CompFairnessRatio(b, total, a, total)
  BY <1>1, <1>2, SharesOrdered
<1>4. \A c \in Amount :
        /\ CompFairnessRatio(a, total, b, total) <= 0
        /\ CompFairnessRatio(b, total, c, total) <= 0
        => CompFairnessRatio(a, total, c, total) <= 0
  BY <1>1, <1>2, SharesOrdered
<1>5. ASSUME NonNegative(a), NonNegative(b), Equals(a, b)
      PROVE  CompFairnessRatio(a, total, b, total) = 0
  <2>1. \A k : Value(a, k) = Value(b, k)
    BY <1>5, TestsByValue
  <2>2. \A i \in Nat : Same(At(GetShares(total, a), i), At(GetShares(total, b), i))
    <3>1. \A i \in Nat : ~ShareLess(At(GetShares(total, a), i), At(GetShares(total, b), i))
      BY <1>5, <2>1, EqualPlaces
    <3>2. \A i \in Nat : ~ShareLess(At(GetShares(total, b), i), At(GetShares(total, a), i))
      BY <1>5, <2>1, EqualPlaces
    <3> QED
      BY <3>1, <3>2 DEF Same
  <2> QED
    BY <1>1, <1>2, <2>2, SharesOrdered
<1> QED
  BY <1>3, <1>4, <1>5

-----------------------------------------------------------------------------
(* Sorting *)

(* No element is less than one that stands before it.                      *)
Ascends(s, less) == \A i, j \in DOMAIN s : i < j => <<s[j], s[i]>> \notin less

(* One sequence behind another.                                            *)
LEMMA Joined ==
  ASSUME NEW S, NEW s \in Seq(S), NEW t \in Seq(S)
  PROVE  /\ s \o t \in Seq(S) /\ Len(s \o t) = Len(s) + Len(t)
         /\ \A i \in 1 .. Len(s \o t) : (s \o t)[i] = IF i <= Len(s) THEN s[i] ELSE t[i - Len(s)]
OBVIOUS

(* An element that is inserted into a row leaves it in order.              *)
LEMMA InsertedInOrder ==
  ASSUME NEW S, NEW less, WeakOrder(less, S), NEW s \in Seq(S), NEW x \in S, Ascends(s, less)
  PROVE  /\ Inserted(s, x, less) \in Seq(S)
         /\ Len(Inserted(s, x, less)) = Len(s) + 1
         /\ Ascends(Inserted(s, x, less), less)
<1> DEFINE stay == { j \in DOMAIN s : <<x, s[j]>> \notin less }
           p == IF stay = {} THEN 0 ELSE Max(stay)
           n == Len(s)
           u == Inserted(s, x, less)
<1>1. n \in Nat /\ DOMAIN s = 1 .. n /\ \A i \in 1 .. n : s[i] \in S
  OBVIOUS
<1>2. /\ p \in 0 .. n
      /\ p = 0 \/ <<x, s[p]>> \notin less
      /\ \A j \in p + 1 .. n : <<x, s[j]>> \in less
  <2>1. stay \in SUBSET (1 .. n) /\ \A j \in 1 .. n : j \in stay <=> <<x, s[j]>> \notin less
    BY <1>1
  <2> HIDE DEF stay
  <2>2. CASE stay = {}
    BY <1>1, <2>1, <2>2
  <2>3. CASE stay # {}
    <3>1. PICK m \in stay : \A j \in stay : j <= m
      <4> DEFINE below == { n - j : j \in stay }
      <4>1. below \in SUBSET Nat /\ below # {}
        BY <1>1, <2>1, <2>3
      <4> HIDE DEF n
      <4>2. PICK k \in below : \A j \in below : k <= j
        <5> HIDE DEF below
        <5> QED
          BY <4>1, LeastNatural
      <4>3. PICK m \in stay : k = n - m
        BY <4>2
      <4>4. \A j \in stay : n - m <= n - j
        BY <4>2, <4>3
      <4>5. \A j \in stay : j <= m
        <5>1. \A i, j \in 1 .. n : n - i <= n - j => j <= i
          BY <1>1
        <5> QED
          BY <2>1, <4>4, <5>1
      <4> QED
        BY <4>5
    <3>2. Max(stay) = m
      <4>1. \A k \in stay : (\A j \in stay : j <= k) => k = m
        BY <1>1, <2>1, <3>1
      <4>2. \A j \in stay : m >= j
        BY <1>1, <2>1, <3>1
      <4>3. \A k \in stay : (\A j \in stay : k >= j) => k = m
        BY <1>1, <2>1, <4>1
      <4> QED
        BY <3>1, <4>2, <4>3 DEF Max
    <3>3. p = m
      BY <2>3, <3>2
    <3>4. \A j \in p + 1 .. n : j \in 1 .. n /\ j \notin stay
      BY <1>1, <2>1, <3>1, <3>3
    <3> QED
      BY <1>1, <2>1, <3>1, <3>3, <3>4
  <2> QED
    BY <2>2, <2>3
<1>3. u = SubSeq(s, 1, p) \o <<x>> \o SubSeq(s, p + 1, n)
  <2>1. u = InsertAt(s, p + 1, x)
    BY DEF Inserted
  <2>2. (p + 1) - 1 = p
    BY <1>2
  <2> HIDE DEF p, u
  <2> QED
    BY <2>1, <2>2 DEF InsertAt
<1> HIDE DEF p, n, u, stay
<1>4. /\ SubSeq(s, 1, p) \in Seq(S) /\ Len(SubSeq(s, 1, p)) = p
      /\ \A i \in 1 .. p : SubSeq(s, 1, p)[i] = s[i]
  BY <1>1, <1>2
<1>5. /\ SubSeq(s, p + 1, n) \in Seq(S) /\ Len(SubSeq(s, p + 1, n)) = n - p
      /\ \A i \in 1 .. n - p : SubSeq(s, p + 1, n)[i] = s[p + i]
  BY <1>1, <1>2
<1>6. /\ u \in Seq(S) /\ Len(u) = n + 1
      /\ \A i \in 1 .. p : u[i] = s[i]
      /\ u[p + 1] = x
      /\ \A i \in p + 2 .. n + 1 : u[i] = s[i - 1]
  <2> DEFINE front == SubSeq(s, 1, p)
             back == SubSeq(s, p + 1, n)
  <2> HIDE DEF front, back
  <2>1. /\ front \in Seq(S) /\ Len(front) = p /\ back \in Seq(S) /\ Len(back) = n - p
        /\ p \in Nat /\ n \in Nat /\ p <= n /\ <<x>> \in Seq(S) /\ Len(<<x>>) = 1 /\ <<x>>[1] = x
    BY <1>1, <1>2, <1>4, <1>5 DEF front, back
  <2>2. u = (front \o <<x>>) \o back
    BY <1>3 DEF front, back
  <2>3. /\ front \o <<x>> \in Seq(S) /\ Len(front \o <<x>>) = p + 1
        /\ \A i \in 1 .. p : (front \o <<x>>)[i] = front[i]
        /\ (front \o <<x>>)[p + 1] = x
    <3> DEFINE both == front \o <<x>>
               one == <<x>>
    <3>1. /\ both \in Seq(S) /\ Len(both) = Len(front) + Len(one)
          /\ \A i \in 1 .. Len(both) : both[i] = IF i <= Len(front) THEN front[i] ELSE one[i - Len(front)]
      BY <2>1, Joined, Zenon
    <3>2. Len(front) = p /\ Len(one) = 1 /\ one[1] = x /\ p \in Nat
      BY <2>1
    <3> HIDE DEF both, one
    <3>3. Len(both) = p + 1 /\ \A i \in 1 .. p : i \in 1 .. Len(both) /\ i <= Len(front)
      BY <3>1, <3>2
    <3>4. p + 1 \in 1 .. Len(both) /\ ~(p + 1 <= Len(front)) /\ (p + 1) - Len(front) = 1
      BY <3>2, <3>3
    <3>5. both \in Seq(S) /\ Len(both) = p + 1 /\ (\A i \in 1 .. p : both[i] = front[i]) /\ both[p + 1] = x
      BY <3>1, <3>2, <3>3, <3>4
    <3> QED
      BY <3>5 DEF both
  <2> DEFINE start == front \o <<x>>
  <2> HIDE DEF start
  <2>4. /\ start \in Seq(S) /\ Len(start) = p + 1 /\ u = start \o back
        /\ \A i \in 1 .. p : start[i] = front[i]
        /\ start[p + 1] = x
    BY <2>2, <2>3 DEF start
  <2>5. /\ u \in Seq(S) /\ Len(u) = n + 1
        /\ \A i \in 1 .. p + 1 : u[i] = start[i]
        /\ \A i \in p + 2 .. n + 1 : u[i] = back[i - (p + 1)]
    <3>1. u \in Seq(S) /\ Len(u) = (p + 1) + (n - p)
      <4>1. u \in Seq(S) /\ Len(u) = Len(start) + Len(back)
        BY <2>1, <2>4, Joined, Zenon
      <4> QED
        BY <2>1, <2>4, <4>1
    <3>2. \A i \in 1 .. Len(u) : u[i] = IF i <= p + 1 THEN start[i] ELSE back[i - (p + 1)]
      BY <2>4, Joined
    <3>3. Len(u) = n + 1
      BY <2>1, <3>1
    <3>4. /\ \A i \in 1 .. p + 1 : i \in 1 .. n + 1 /\ i <= p + 1
          /\ \A i \in p + 2 .. n + 1 : i \in 1 .. n + 1 /\ ~(i <= p + 1)
      BY <2>1
    <3> QED
      BY <2>4, <3>1, <3>2, <3>3, <3>4
  <2>6. \A i \in 1 .. p : u[i] = s[i]
    BY <1>4, <2>1, <2>4, <2>5 DEF front
  <2>7. u[p + 1] = x
    BY <2>1, <2>4, <2>5
  <2>8. \A i \in p + 2 .. n + 1 : u[i] = s[i - 1]
    <3>1. \A i \in p + 2 .. n + 1 : i - (p + 1) \in 1 .. n - p /\ p + (i - (p + 1)) = i - 1
      BY <2>1
    <3> QED
      BY <1>5, <2>5, <3>1 DEF back
  <2> QED
    BY <2>5, <2>6, <2>7, <2>8
<1>7. \A i, j \in 1 .. n : i < j => <<s[j], s[i]>> \notin less
  BY <1>1 DEF Ascends
<1>8. /\ \A y, z \in S : <<y, z>> \in less => <<z, y>> \notin less
      /\ \A w, y, z \in S : <<y, w>> \notin less /\ <<z, y>> \notin less => <<z, w>> \notin less
  BY DEF WeakOrder
<1>9. \A i \in 1 .. p : <<x, s[i]>> \notin less
  <2>1. SUFFICES ASSUME NEW i \in 1 .. p
                 PROVE  <<x, s[i]>> \notin less
    OBVIOUS
  <2>2. p \in 1 .. n /\ i \in 1 .. n /\ <<x, s[p]>> \notin less /\ (i = p \/ i < p)
    BY <1>1, <1>2
  <2> QED
    BY <1>1, <1>7, <1>8, <2>2
<1>10. ASSUME NEW i \in 1 .. n + 1, NEW j \in 1 .. n + 1, i < j
       PROVE  <<u[j], u[i]>> \notin less
  <2>1. CASE j \in 1 .. p
    BY <1>1, <1>2, <1>6, <1>7, <1>10, <2>1
  <2>2. CASE j = p + 1
    <3>1. i \in 1 .. p
      BY <1>1, <1>2, <1>10, <2>2
    <3> QED
      BY <1>6, <1>9, <2>2, <3>1
  <2>3. CASE j \in p + 2 .. n + 1 /\ i \in 1 .. p
    <3>1. u[j] = s[j - 1] /\ u[i] = s[i] /\ j - 1 \in 1 .. n /\ i \in 1 .. n /\ i < j - 1
      BY <1>1, <1>2, <1>6, <2>3
    <3> QED
      BY <1>7, <3>1
  <2>4. CASE j \in p + 2 .. n + 1 /\ i = p + 1
    <3>1. u[j] = s[j - 1] /\ u[i] = x /\ j - 1 \in p + 1 .. n /\ j - 1 \in 1 .. n
      BY <1>1, <1>2, <1>6, <2>4
    <3> QED
      BY <1>1, <1>2, <1>8, <3>1
  <2>5. CASE j \in p + 2 .. n + 1 /\ i \in p + 2 .. n + 1
    <3>1. u[j] = s[j - 1] /\ u[i] = s[i - 1] /\ j - 1 \in 1 .. n /\ i - 1 \in 1 .. n /\ i - 1 < j - 1
      BY <1>1, <1>2, <1>6, <1>10, <2>5
    <3> QED
      BY <1>7, <3>1
  <2> QED
    BY <1>1, <1>2, <2>1, <2>2, <2>3, <2>4, <2>5
<1>11. DOMAIN u = 1 .. n + 1
  BY <1>1, <1>6
<1> QED
  BY <1>6, <1>10, <1>11 DEF Ascends, u, n

(* The sequence after its first elements were inserted, each from the one  *)
(* before it.                                                              *)
InsertedUpTo(s, less, f, N) ==
  [n \in N |-> IF n = 0 THEN <<>> ELSE Inserted(f[n - 1], s[n], less)]

(* The recursion of SliceStable has a solution.                            *)
LEMMA SliceStableSolved ==
  ASSUME NEW s, NEW less, Len(s) \in Nat
  PROVE  \E f : f = InsertedUpTo(s, less, f, 0 .. Len(s)) /\ SliceStable(s, less) = f[Len(s)]
<1> DEFINE len == Len(s)
           solved(i) == \E f : f = InsertedUpTo(s, less, f, 0 .. i)
           G == { i \in 0 .. len : solved(i) }
<1>1. len \in Nat
  OBVIOUS
<1> HIDE DEF len
<1>2. solved(0)
  <2> DEFINE f == [i \in 0 .. 0 |-> <<>>]
  <2>1. \A i \in 0 .. 0 : i = 0
    OBVIOUS
  <2>2. f = InsertedUpTo(s, less, f, 0 .. 0)
    BY <2>1 DEF InsertedUpTo
  <2> QED
    BY <2>2
<1>3. ASSUME NEW m \in 1 .. len, solved(m - 1)
      PROVE  solved(m)
  <2>1. PICK f : f = InsertedUpTo(s, less, f, 0 .. m - 1)
    BY <1>3
  <2> DEFINE g == [i \in 0 .. m |-> IF i = m THEN Inserted(f[m - 1], s[m], less) ELSE f[i]]
  <2>2. ASSUME NEW i \in 0 .. m
        PROVE  g[i] = IF i = 0 THEN <<>> ELSE Inserted(g[i - 1], s[i], less)
    <3>1. CASE i = m
      <4>1. m - 1 \in 0 .. m /\ m - 1 # m /\ m # 0
        BY <1>1
      <4>2. g[m - 1] = f[m - 1]
        BY <4>1
      <4> QED
        BY <3>1, <4>1, <4>2
    <3>2. CASE i # m
      <4>1. i \in 0 .. m - 1 /\ g[i] = f[i]
        BY <1>1, <3>2
      <4>2. f[i] = IF i = 0 THEN <<>> ELSE Inserted(f[i - 1], s[i], less)
        BY <2>1, <4>1 DEF InsertedUpTo
      <4>3. i = 0 \/ (i - 1 \in 0 .. m /\ i - 1 # m)
        BY <1>1, <4>1
      <4>4. i = 0 \/ g[i - 1] = f[i - 1]
        BY <4>3
      <4> QED
        BY <4>1, <4>2, <4>4
    <3> QED
      BY <3>1, <3>2
  <2>3. g = [i \in 0 .. m |-> IF i = 0 THEN <<>> ELSE Inserted(g[i - 1], s[i], less)]
    BY <2>2
  <2>4. g = InsertedUpTo(s, less, g, 0 .. m)
    BY <2>3, Zenon DEF InsertedUpTo
  <2> QED
    BY <2>4
<1>4. 0 .. len \subseteq G
  <2> HIDE DEF solved
  <2>1. 0 \in G
    BY <1>1, <1>2
  <2>2. \A i \in 1 .. len : i - 1 \in G => i \in G
    BY <1>1, <1>3
  <2> HIDE DEF G
  <2> QED
    BY <1>1, <2>1, <2>2, UpwardInduction
<1>5. solved(len)
  BY <1>1, <1>4
<1>6. \E f : f = InsertedUpTo(s, less, f, 0 .. Len(s))
  BY <1>5 DEF len
<1> DEFINE upTo == CHOOSE f : f = InsertedUpTo(s, less, f, 0 .. Len(s))
<1>7. upTo = InsertedUpTo(s, less, upTo, 0 .. Len(s))
  BY <1>6
<1>8. SliceStable(s, less) = upTo[Len(s)]
  BY DEF SliceStable, InsertedUpTo
<1> QED
  BY <1>7, <1>8

(* A sequence that is sorted by a weak order of its elements is in order.  *)
LEMMA SortedInOrder ==
  ASSUME NEW S, NEW less, WeakOrder(less, S), NEW s \in Seq(S)
  PROVE  /\ SliceStable(s, less) \in Seq(S)
         /\ Len(SliceStable(s, less)) = Len(s)
         /\ Ascends(SliceStable(s, less), less)
<1> DEFINE n == Len(s)
<1>1. n \in Nat /\ \A i \in 1 .. n : s[i] \in S
  OBVIOUS
<1>2. PICK f : f = InsertedUpTo(s, less, f, 0 .. n) /\ SliceStable(s, less) = f[n]
  BY <1>1, SliceStableSolved
<1> HIDE DEF n
<1> DEFINE G == { i \in 0 .. n : f[i] \in Seq(S) /\ Len(f[i]) = i /\ Ascends(f[i], less) }
<1>3. \A i \in 0 .. n : f[i] = IF i = 0 THEN <<>> ELSE Inserted(f[i - 1], s[i], less)
  BY <1>2 DEF InsertedUpTo
<1>4. 0 \in G
  <2>1. f[0] = <<>> /\ 0 \in 0 .. n
    BY <1>1, <1>3
  <2>2. <<>> \in Seq(S) /\ Len(<<>>) = 0 /\ DOMAIN <<>> = {}
    OBVIOUS
  <2> QED
    BY <2>1, <2>2 DEF Ascends
<1>5. ASSUME NEW i \in 1 .. n, i - 1 \in G
      PROVE  i \in G
  <2>1. /\ f[i - 1] \in Seq(S) /\ Len(f[i - 1]) = i - 1 /\ Ascends(f[i - 1], less)
        /\ s[i] \in S /\ i \in 0 .. n /\ f[i] = Inserted(f[i - 1], s[i], less) /\ (i - 1) + 1 = i
    BY <1>1, <1>3, <1>5
  <2> DEFINE u == Inserted(f[i - 1], s[i], less)
  <2>2. u \in Seq(S) /\ Len(u) = Len(f[i - 1]) + 1 /\ Ascends(u, less)
    <3>1. \A r \in Seq(S), x \in S : Ascends(r, less) =>
            LET v == Inserted(r, x, less) IN v \in Seq(S) /\ Len(v) = Len(r) + 1 /\ Ascends(v, less)
      BY InsertedInOrder
    <3> QED
      BY <2>1, <3>1
  <2>3. f[i] \in Seq(S) /\ Len(f[i]) = i /\ Ascends(f[i], less)
    BY <2>1, <2>2
  <2> QED
    BY <2>1, <2>3
<1>6. n \in G
  <2> HIDE DEF G
  <2>1. 0 .. n \subseteq G
    BY <1>1, <1>4, <1>5, UpwardInduction
  <2> QED
    BY <1>1, <2>1
<1> QED
  BY <1>2, <1>6 DEF n

(* What sorting by a weak order of the elements of s makes of s.           *)
LEMMA RowSorted ==
  ASSUME NEW S, NEW s \in Seq(S), NEW less, WeakOrder(less, Range(s))
  PROVE  LET u == SliceStable(s, less) IN
         /\ u \in Seq(S) /\ Len(u) = Len(s)
         /\ \A i, j \in 1 .. Len(s) : i < j =>
              u[i] \in Range(s) /\ u[j] \in Range(s) /\ <<u[j], u[i]>> \notin less
<1> DEFINE R == Range(s)
           u == SliceStable(s, less)
<1>1. s \in Seq(R) /\ R \subseteq S
  <2>1. s \in [1 .. Len(s) -> R] /\ Len(s) \in Nat
    BY DEF Range
  <2>2. R \subseteq S
    BY DEF Range
  <2> HIDE DEF R
  <2> QED
    BY <2>1, <2>2
<1> HIDE DEF R, u
<1>2. u \in Seq(R) /\ Len(u) = Len(s) /\ Ascends(u, less)
  BY <1>1, SortedInOrder DEF R, u
<1>3. DOMAIN u = 1 .. Len(s) /\ \A i \in 1 .. Len(s) : u[i] \in R
  BY <1>2
<1>4. u \in Seq(S)
  BY <1>1, <1>2
<1> QED
  BY <1>2, <1>3, <1>4 DEF Ascends, R, u

(* The ratios of amounts, as an order.                                     *)
LEMMA RatiosAreOrder ==
  ASSUME NEW total \in Resource \cup {NilResource}, NEW a \in Amount, NEW b \in Amount
  PROVE  /\ CompFairnessRatio(a, total, b, total) < 0 <=> CompFairnessRatio(b, total, a, total) > 0
         /\ CompFairnessRatio(a, total, b, total) < 0 => ~(CompFairnessRatio(b, total, a, total) < 0)
         /\ ~(CompFairnessRatio(a, total, b, total) < 0) => CompFairnessRatio(b, total, a, total) <= 0
         /\ \A c \in Amount :
              /\ ~(CompFairnessRatio(b, total, a, total) < 0)
              /\ ~(CompFairnessRatio(c, total, b, total) < 0)
              => ~(CompFairnessRatio(c, total, a, total) < 0)
<1> DEFINE cmp(x, y) == CompFairnessRatio(x, total, y, total)
<1>1. \A x, y \in Amount : cmp(x, y) \in {-1, 0, 1} /\ cmp(x, y) = -cmp(y, x)
  BY RatiosOrdered
<1>2. \A x, y, z \in Amount : cmp(x, y) <= 0 /\ cmp(y, z) <= 0 => cmp(x, z) <= 0
  BY RatiosOrdered
<1> HIDE DEF cmp
<1>3. \A m, n \in {-1, 0, 1} : m = -n => /\ m < 0 <=> n > 0
                                         /\ m < 0 => ~(n < 0)
                                         /\ ~(m < 0) <=> n <= 0
  OBVIOUS
<1>4. \A x, y \in Amount : /\ cmp(x, y) < 0 <=> cmp(y, x) > 0
                           /\ cmp(x, y) < 0 => ~(cmp(y, x) < 0)
                           /\ ~(cmp(x, y) < 0) <=> cmp(y, x) <= 0
  BY <1>1, <1>3
<1>5. \A c \in Amount : ~(cmp(b, a) < 0) /\ ~(cmp(c, b) < 0) => ~(cmp(c, a) < 0)
  BY <1>2, <1>4
<1> QED
  BY <1>4, <1>5 DEF cmp

(* Applications are in the order of their shares, or of their submission.  *)
THEOREM ApplicationsSorted ==
  ASSUME NEW total \in Resource \cup {NilResource}, NEW S, NEW apps \in Seq(S),
         \A x \in S : x.mayAllocated \in Amount /\ x.submissionTime \in Int
  PROVE  /\ LET u == SortApplications(apps, "fair", total) IN
            /\ u \in Seq(S) /\ Len(u) = Len(apps)
            /\ \A i, j \in 1 .. Len(apps) : i < j =>
                 CompFairnessRatio(u[i].mayAllocated, total, u[j].mayAllocated, total) <= 0
         /\ LET u == SortApplications(apps, "fifo", total) IN
            /\ u \in Seq(S) /\ Len(u) = Len(apps)
            /\ \A i, j \in 1 .. Len(apps) : i < j => u[i].submissionTime <= u[j].submissionTime
<1> DEFINE R == Range(apps)
           fair == { p \in Pairs(apps) : FairLess(p[1], p[2], total) }
           fifo == { p \in Pairs(apps) : p[1].submissionTime < p[2].submissionTime }
<1>1. \A x \in R : x \in S /\ x.mayAllocated \in Amount /\ x.submissionTime \in Int
  BY DEF Range
<1>2. \A x, y \in R : /\ <<x, y>> \in fair <=> CompFairnessRatio(x.mayAllocated, total, y.mayAllocated, total) < 0
                      /\ <<x, y>> \in fifo <=> x.submissionTime < y.submissionTime
  BY DEF Pairs, FairLess
<1>3. /\ SortApplications(apps, "fair", total) = SliceStable(apps, fair)
      /\ SortApplications(apps, "fifo", total) = SliceStable(apps, fifo)
  BY DEF SortApplications
<1> HIDE DEF R, fair, fifo
<1>4. WeakOrder(fair, R)
  BY <1>1, <1>2, RatiosAreOrder DEF WeakOrder
<1>5. WeakOrder(fifo, R)
  BY <1>1, <1>2 DEF WeakOrder
<1>6. LET u == SliceStable(apps, fair) IN
      /\ u \in Seq(S) /\ Len(u) = Len(apps)
      /\ \A i, j \in 1 .. Len(apps) : i < j =>
           CompFairnessRatio(u[i].mayAllocated, total, u[j].mayAllocated, total) <= 0
  <2> DEFINE u == SliceStable(apps, fair)
  <2>1. /\ u \in Seq(S) /\ Len(u) = Len(apps)
        /\ \A i, j \in 1 .. Len(apps) : i < j => u[i] \in R /\ u[j] \in R /\ <<u[j], u[i]>> \notin fair
    BY <1>4, RowSorted DEF R
  <2> HIDE DEF u
  <2>2. \A i, j \in 1 .. Len(apps) : i < j =>
          CompFairnessRatio(u[i].mayAllocated, total, u[j].mayAllocated, total) <= 0
    BY <1>1, <1>2, <2>1, RatiosAreOrder
  <2> QED
    BY <2>1, <2>2 DEF u
<1>7. LET u == SliceStable(apps, fifo) IN
      /\ u \in Seq(S) /\ Len(u) = Len(apps)
      /\ \A i, j \in 1 .. Len(apps) : i < j => u[i].submissionTime <= u[j].submissionTime
  <2> DEFINE u == SliceStable(apps, fifo)
  <2>1. /\ u \in Seq(S) /\ Len(u) = Len(apps)
        /\ \A i, j \in 1 .. Len(apps) : i < j => u[i] \in R /\ u[j] \in R /\ <<u[j], u[i]>> \notin fifo
    BY <1>5, RowSorted DEF R
  <2> HIDE DEF u
  <2>2. \A i, j \in 1 .. Len(apps) : i < j => u[i].submissionTime <= u[j].submissionTime
    <3>1. \A x, y \in R : <<y, x>> \notin fifo => x.submissionTime <= y.submissionTime
      BY <1>1, <1>2
    <3> QED
      BY <2>1, <3>1
  <2> QED
    BY <2>1, <2>2 DEF u
<1> QED
  BY <1>3, <1>6, <1>7

(* Nodes with the most available resources come first.                     *)
THEOREM NodesSorted ==
  ASSUME NEW nodes \in Seq(Amount)
  PROVE  LET u == SortNodes(nodes) IN
         /\ u \in Seq(Amount) /\ Len(u) = Len(nodes)
         /\ \A i, j \in 1 .. Len(nodes) : i < j => CompFairnessRatioAssumesUnitPartition(u[i], u[j]) >= 0
<1> DEFINE R == Range(nodes)
           more == { p \in Pairs(nodes) : MoreAvailable(p[1], p[2]) }
           cmp(x, y) == CompFairnessRatio(x, NilResource, y, NilResource)
           u == SliceStable(nodes, more)
<1>1. R \subseteq Amount
  BY DEF Range
<1>2. \A x, y : CompFairnessRatioAssumesUnitPartition(x, y) = cmp(x, y)
  BY DEF CompFairnessRatioAssumesUnitPartition, CompFairnessRatio
<1>3. \A x, y \in R : <<x, y>> \in more <=> cmp(x, y) > 0
  BY <1>2 DEF Pairs, MoreAvailable
<1>4. SortNodes(nodes) = u
  BY DEF SortNodes
<1> HIDE DEF R, more
<1>5. \A x, y \in Amount : /\ cmp(x, y) \in {-1, 0, 1}
                           /\ cmp(x, y) > 0 <=> cmp(y, x) < 0
                           /\ cmp(x, y) < 0 => ~(cmp(y, x) < 0)
  BY RatiosAreOrder, RatiosOrdered
<1>6. \A x, y, z \in Amount : ~(cmp(y, x) < 0) /\ ~(cmp(z, y) < 0) => ~(cmp(z, x) < 0)
  BY RatiosAreOrder
<1> HIDE DEF cmp
<1>7. WeakOrder(more, R)
  <2>1. \A x, y \in R : <<x, y>> \in more => <<y, x>> \notin more
    BY <1>1, <1>3, <1>5
  <2>2. \A x, y, z \in R : <<y, x>> \notin more /\ <<z, y>> \notin more => <<z, x>> \notin more
    BY <1>1, <1>3, <1>5, <1>6
  <2> QED
    BY <2>1, <2>2 DEF WeakOrder
<1>8. /\ u \in Seq(Amount) /\ Len(u) = Len(nodes)
      /\ \A i, j \in 1 .. Len(nodes) : i < j => u[i] \in R /\ u[j] \in R /\ <<u[j], u[i]>> \notin more
  BY <1>7, RowSorted DEF R
<1> HIDE DEF u
<1>9. \A i, j \in 1 .. Len(nodes) : i < j => cmp(u[i], u[j]) >= 0
  <2>1. \A x, y \in R : <<y, x>> \notin more => cmp(x, y) >= 0
    BY <1>1, <1>3, <1>5
  <2> QED
    BY <1>8, <2>1
<1> QED
  BY <1>2, <1>4, <1>8, <1>9

(* Queues with the same guaranteed resource are in the order of the shares *)
(* of what they are about to have.                                         *)
THEOREM QueuesSorted ==
  ASSUME NEW total \in Resource \cup {NilResource}, NEW S, NEW queues \in Seq(S),
         \A x \in S : x.proposing \in Amount /\ x.guaranteed = total
  PROVE  LET u == SortQueue(queues) IN
         /\ u \in Seq(S) /\ Len(u) = Len(queues)
         /\ \A i, j \in 1 .. Len(queues) : i < j =>
              CompFairnessRatio(u[i].proposing, total, u[j].proposing, total) <= 0
<1> DEFINE R == Range(queues)
           less == { p \in Pairs(queues) : QueueLess(p[1], p[2]) }
           cmp(x, y) == CompFairnessRatio(x, total, y, total)
           u == SliceStable(queues, less)
<1>1. \A x \in R : x.proposing \in Amount /\ x.guaranteed = total
  BY DEF Range
<1>2. \A x, y \in R : <<x, y>> \in less <=> cmp(x.proposing, y.proposing) < 0
  BY <1>1 DEF Pairs, QueueLess
<1>3. SortQueue(queues) = u
  BY DEF SortQueue
<1> HIDE DEF R, less
<1>4. \A x, y \in Amount : /\ cmp(x, y) < 0 => ~(cmp(y, x) < 0)
                           /\ ~(cmp(x, y) < 0) => cmp(y, x) <= 0
  BY RatiosAreOrder
<1>5. \A x, y, z \in Amount : ~(cmp(y, x) < 0) /\ ~(cmp(z, y) < 0) => ~(cmp(z, x) < 0)
  BY RatiosAreOrder
<1> HIDE DEF cmp
<1>6. WeakOrder(less, R)
  <2>1. \A x, y \in R : <<x, y>> \in less => <<y, x>> \notin less
    BY <1>1, <1>2, <1>4
  <2>2. \A x, y, z \in R : <<y, x>> \notin less /\ <<z, y>> \notin less => <<z, x>> \notin less
    BY <1>1, <1>2, <1>5
  <2> QED
    BY <2>1, <2>2 DEF WeakOrder
<1>7. /\ u \in Seq(S) /\ Len(u) = Len(queues)
      /\ \A i, j \in 1 .. Len(queues) : i < j => u[i] \in R /\ u[j] \in R /\ <<u[j], u[i]>> \notin less
  BY <1>6, RowSorted DEF R
<1> HIDE DEF u
<1>8. \A i, j \in 1 .. Len(queues) : i < j => cmp(u[i].proposing, u[j].proposing) <= 0
  <2>1. \A x, y \in R : <<y, x>> \notin less => cmp(x.proposing, y.proposing) <= 0
    BY <1>1, <1>2, <1>4
  <2> QED
    BY <1>7, <2>1
<1> QED
  BY <1>3, <1>7, <1>8 DEF cmp

-----------------------------------------------------------------------------
(* The inputs of a behaviour, and what follows for each of them *)

IsLedgers == \E a, b \in Ledgers : input = [about |-> "ledgers", a |-> a, b |-> b]

IsAmounts ==
  \E a, b, c \in Amounts, t \in Totals :
    input = [about |-> "amounts", a |-> a, b |-> b, c |-> c, total |-> t]

IsAcl ==
  \E t \in AclTexts, u \in Users :
    ~NewACLFails(t) /\ input = [about |-> "acl", text |-> t, user |-> u]

IsPlacement ==
  \E tree \in Trees, rules \in RuleLists, app \in Submissions :
    input = [about |-> "placement", tree |-> tree, rules |-> rules, app |-> app]

InputInv == input = None \/ IsLedgers \/ IsAmounts \/ IsAcl \/ IsPlacement

(* Every input is one of the family: what the configuration lets through,  *)
(* and nothing is taken after it.                                          *)
THEOREM InputInvariant == Spec => []InputInv
<1>1. Init => InputInv
  BY DEF Init, InputInv
<1>2. InputInv /\ [Next]_input => InputInv'
  <2> SUFFICES ASSUME InputInv, [Next]_input PROVE InputInv'
    OBVIOUS
  <2>1. CASE PickLedgers
    BY <2>1, Zenon DEF PickLedgers, InputInv, IsLedgers
  <2>2. CASE PickAmounts
    BY <2>2, Zenon DEF PickAmounts, InputInv, IsAmounts
  <2>3. CASE PickAcl
    BY <2>3, Zenon DEF PickAcl, InputInv, IsAcl
  <2>4. CASE PickPlacement
    BY <2>4, Zenon DEF PickPlacement, InputInv, IsPlacement
  <2>5. CASE UNCHANGED input
    BY <2>5, Zenon DEF InputInv, IsLedgers, IsAmounts, IsAcl, IsPlacement
  <2> QED
    BY <2>1, <2>2, <2>3, <2>4, <2>5 DEF Next
<1> QED
  BY <1>1, <1>2, PTL DEF Spec

(* The record that was taken says which disjunct it is. *)
LEMMA InputKinds ==
  ASSUME InputInv
  PROVE  /\ input.about = "ledgers" => IsLedgers
         /\ input.about = "amounts" => IsAmounts
         /\ input.about = "acl" => IsAcl
         /\ input.about = "placement" => IsPlacement
<1>1. input = None => input.about = "nothing"
  BY DEF None
<1>2. IsLedgers => input.about = "ledgers"
  BY DEF IsLedgers
<1>3. IsAmounts => input.about = "amounts"
  BY DEF IsAmounts
<1>4. IsAcl => input.about = "acl"
  BY DEF IsAcl
<1>5. IsPlacement => input.about = "placement"
  BY DEF IsPlacement
<1> HIDE DEF IsLedgers, IsAmounts, IsAcl, IsPlacement
<1> QED
  BY <1>1, <1>2, <1>3, <1>4, <1>5 DEF InputInv

(* What is added to a resource and taken away again leaves it as it was,   *)
(* for quantities of every width, wherever the sums wrap around.           *)
THEOREM AccountsAlwaysReturn == Spec => []AccountsReturn
<1>1. InputInv => AccountsReturn
  <2> SUFFICES ASSUME InputInv, input.about = "ledgers" PROVE AccountsReturn
    BY DEF AccountsReturn
  <2>1. PICK a \in Ledgers, b \in Ledgers : input = [about |-> "ledgers", a |-> a, b |-> b]
    BY InputKinds DEF IsLedgers
  <2>2. a \in Resource /\ b \in Resource /\ input.a = a /\ input.b = b
    BY <2>1, InputsAssumption
  <2> QED
    BY <2>2, LedgersReturn DEF AccountsReturn
<1> QED
  BY <1>1, InputInvariant, PTL

(* An ACL gives access to those that are written in it and to nobody else, *)
(* for ACLs of any length, however they are padded.                        *)
THEOREM AclsMeanWhatIsWritten == Spec => []AclAsWritten
<1>1. InputInv => AclAsWritten
  <2> SUFFICES ASSUME InputInv, input.about = "acl" PROVE AclAsWritten
    BY DEF AclAsWritten
  <2>1. PICK t \in AclTexts, u \in Users :
          ~NewACLFails(t) /\ input = [about |-> "acl", text |-> t, user |-> u]
    BY InputKinds DEF IsAcl
  <2>2. t \in Seq(Seq(STRING)) /\ input.text = t /\ input.user = u
    BY <2>1, InputsAssumption
  <2> QED
    BY <2>1, <2>2, AccessAsWritten, Zenon DEF AclAsWritten, Listed
<1> QED
  BY <1>1, InputInvariant, PTL

(* Every application that is placed, by rules and parent rules of any      *)
(* number in a tree of any depth, has access where the first rule that     *)
(* decides leads it; neither that rule nor a parent rule that it asked     *)
(* filters the user out; a queue is only made if that rule may, and never  *)
(* below a leaf.                                                           *)
THEOREM PlacementsHaveAccess == Spec => []PlacedWithAccess
<1>1. InputInv => PlacedWithAccess
  <2> SUFFICES ASSUME InputInv, input.about = "placement", Placed.out = "queue"
               PROVE  PlacedWithAccess
    BY DEF PlacedWithAccess
  <2>1. PICK tree \in Trees, rules \in RuleLists, app \in Submissions :
          input = [about |-> "placement", tree |-> tree, rules |-> rules, app |-> app]
    BY InputKinds DEF IsPlacement
  <2>2. /\ input.tree = tree /\ input.rules = rules /\ input.app = app
        /\ TreeTyped(tree) /\ Typed(app) /\ rules \in Seq(Seq(PlacementRule) \ {<<>>})
    BY <2>1, InputsAssumption DEF TreeTyped, Typed
  <2>3. Placed = PlaceApplication(tree, rules, app)
    BY <2>2 DEF Placed
  <2> HIDE DEF Placed
  <2>4. PICK i \in DOMAIN rules : /\ Placed = TryChain(tree, rules[i], app)
                                  /\ \A j \in 1 .. i - 1 : TryChain(tree, rules[j], app).out = "none"
    BY <2>2, <2>3, OneChainDecides
  <2>5. rules[i] \in Seq(PlacementRule) \ {<<>>}
    BY <2>2, <2>4
  <2> DEFINE r == PlaceByChain(tree, rules[i], app)
             chain == rules[i]
  <2>6. /\ Placed = QueueResult(Normal(r.queue))
        /\ \A k \in RulesAsked(chain, app) : AllowUser(chain[k].filter, app.user)
        /\ Normal(r.queue) \notin DOMAIN tree =>
             /\ chain[1].create /\ Normal(r.queue) = r.queue
             /\ ~tree[Nearest(tree, r.queue)].leaf
    BY <2>2, <2>4, <2>5, ChainPlaces
  <2>7. \A k \in RulesAsked(chain, app) : chain[k].filter \in Filter
    <3>1. \A k \in DOMAIN chain : chain[k] \in PlacementRule
      BY <2>5
    <3> QED
      BY <3>1 DEF PlacementRule, RulesAsked
  <2>8. \E q \in NameAndAbove(Placed.queue) \cap DOMAIN tree :
           CheckAccess(tree[q].submitACL, app.user) \/ CheckAccess(tree[q].adminACL, app.user)
    BY <2>2, <2>4, <2>5, AccessChecked
  <2>9. \A k \in RulesAsked(chain, app) : ~FilteredOut(chain[k].filter, app.user)
    BY <2>6, <2>7, FilterKept
  <2>10. Placed.queue \notin DOMAIN tree =>
           chain[1].create /\ ~tree[Nearest(tree, Placed.queue)].leaf
    BY <2>6 DEF QueueResult
  <2> QED
    BY <2>2, <2>4, <2>8, <2>9, <2>10, Zenon DEF PlacedWithAccess
<1> QED
  BY <1>1, InputInvariant, PTL

(* With one rule, and any number of parent rules, the next application     *)
(* with the same request goes where the first one went, although the tree  *)
(* then has the queues that were made for the first one.                   *)
THEOREM PlacementsRepeat == Spec => []PlacedAgain
<1>1. InputInv => PlacedAgain
  <2> SUFFICES ASSUME InputInv, input.about = "placement", Len(input.rules) = 1,
                      Placed.out = "queue"
               PROVE  PlacedAgain
    BY DEF PlacedAgain
  <2>1. PICK tree \in Trees, rules \in RuleLists, app \in Submissions :
          input = [about |-> "placement", tree |-> tree, rules |-> rules, app |-> app]
    BY InputKinds DEF IsPlacement
  <2>2. /\ input.tree = tree /\ input.rules = rules /\ input.app = app
        /\ TreeTyped(tree) /\ Typed(app) /\ rules \in Seq(Seq(PlacementRule) \ {<<>>})
    BY <2>1, InputsAssumption DEF TreeTyped, Typed
  <2>3. Placed = PlaceApplication(tree, rules, app)
    BY <2>2 DEF Placed
  <2> HIDE DEF Placed
  <2>4. PICK i \in DOMAIN rules : Placed = TryChain(tree, rules[i], app)
    BY <2>2, <2>3, OneChainDecides
  <2>5. DOMAIN rules = {1} /\ i = 1 /\ rules[1] \in Seq(PlacementRule) \ {<<>>}
    <3>1. Len(rules) = 1
      BY <2>2
    <3>2. DOMAIN rules = 1 .. 1 /\ \A j \in 1 .. 1 : rules[j] \in Seq(PlacementRule) \ {<<>>}
      BY <2>2, <3>1, LenProperties
    <3>3. 1 .. 1 = {1}
      OBVIOUS
    <3> QED
      BY <2>4, <3>2, <3>3
  <2> DEFINE more == WithQueue(tree, Placed.queue)
             result == [j \in DOMAIN rules |-> TryChain(more, rules[j], app)]
             deciding == { j \in DOMAIN rules : result[j].out # "none" }
  <2>6. TryChain(more, rules[1], app) = Placed
    BY <2>2, <2>4, <2>5, ChainPlacesAgain
  <2>7. deciding = {1} /\ result[1] = Placed
    BY <2>5, <2>6
  <2>8. Min({1}) = 1
    BY DEF Min
  <2>9. PlaceApplication(more, rules, app) =
          IF deciding = {} THEN Outcome("error") ELSE result[Min(deciding)]
    BY DEF PlaceApplication
  <2> HIDE DEF deciding, result
  <2>10. PlaceApplication(more, rules, app) = Placed
    BY <2>7, <2>8, <2>9
  <2> QED
    BY <2>2, <2>10 DEF PlacedAgain
<1> QED
  BY <1>1, InputInvariant, PTL

(* The tests of who has more, and the sums, differences and ratios behind  *)
(* them agree with each other, for any number of types and amounts.        *)
THEOREM ComparisonsAlwaysAgree == Spec => []ComparisonsAgree
<1>1. InputInv => ComparisonsAgree
  <2> SUFFICES ASSUME InputInv, input.about = "amounts" PROVE ComparisonsAgree
    BY DEF ComparisonsAgree
  <2>1. PICK a \in Amounts, b \in Amounts, c \in Amounts, t \in Totals :
          input = [about |-> "amounts", a |-> a, b |-> b, c |-> c, total |-> t]
    BY InputKinds DEF IsAmounts
  <2>2. /\ a \in Amount /\ b \in Amount /\ t \in Resource \cup {NilResource}
        /\ input.a = a /\ input.b = b /\ input.total = t
    BY <2>1, AmountsAssumption DEF Amount
  <2>3. /\ CompFairnessRatio(a, t, b, t) = -CompFairnessRatio(b, t, a, t)
        /\ NonNegative(a) /\ NonNegative(b) /\ Equals(a, b) => CompFairnessRatio(a, t, b, t) = 0
    BY <2>2, RatiosOrdered
  <2> QED
    BY <2>2, <2>3, AmountsAgree, Zenon DEF ComparisonsAgree
<1> QED
  BY <1>1, InputInvariant, PTL

(* After sorting nothing stands behind what it should come before.         *)
THEOREM SortsAreFair == Spec => []SortedFairly
<1>1. InputInv => SortedFairly
  <2> SUFFICES ASSUME InputInv, input.about = "amounts" PROVE SortedFairly
    BY DEF SortedFairly
  <2>1. PICK a \in Amounts, b \in Amounts, c \in Amounts, t \in Totals :
          input = [about |-> "amounts", a |-> a, b |-> b, c |-> c, total |-> t]
    BY InputKinds DEF IsAmounts
  <2>2. /\ {a, b, c} \subseteq Amount /\ t \in Resource \cup {NilResource}
        /\ input.a = a /\ input.b = b /\ input.c = c /\ input.total = t
    BY <2>1, AmountsAssumption DEF Amount
  <2> DEFINE rs == <<a, b, c>>
             Apps == [mayAllocated : Amount, submissionTime : Int]
             Queues == [proposing : Amount, guaranteed : {t}]
             as == [i \in 1 .. 3 |-> [mayAllocated |-> rs[i], submissionTime |-> i % 2]]
             qs == [i \in 1 .. 3 |-> [proposing |-> rs[i], guaranteed |-> t]]
  <2>3. rs \in Seq(Amount) /\ Len(rs) = 3 /\ \A i \in 1 .. 3 : rs[i] \in Amount
    BY <2>2
  <2> HIDE DEF rs
  <2>4. ASSUME NEW S, NEW s \in [1 .. 3 -> S]
        PROVE  s \in Seq(S) /\ Len(s) = 3
    <3>1. s \in Seq(S)
      OBVIOUS
    <3>2. Len(s) \in Nat /\ 1 .. Len(s) = 1 .. 3
      BY <3>1, LenProperties
    <3>3. Len(s) = 3
      <4>1. 3 \in 1 .. Len(s) /\ (Len(s) # 0 => Len(s) \in 1 .. 3)
        BY <3>2
      <4> QED
        BY <3>2, <4>1
    <3> QED
      BY <3>1, <3>3
  <2>5. as \in Seq(Apps) /\ Len(as) = 3
    <3>1. as \in [1 .. 3 -> Apps]
      BY <2>3
    <3> HIDE DEF as, Apps
    <3> QED
      BY <2>4, <3>1
  <2>6. qs \in Seq(Queues) /\ Len(qs) = 3
    <3>1. qs \in [1 .. 3 -> Queues]
      BY <2>3
    <3> HIDE DEF qs, Queues
    <3> QED
      BY <2>4, <3>1
  <2>7. /\ \A x \in Apps : x.mayAllocated \in Amount /\ x.submissionTime \in Int
        /\ \A x \in Queues : x.proposing \in Amount /\ x.guaranteed = t
    OBVIOUS
  <2> HIDE DEF as, qs, Apps, Queues
  <2> DEFINE apps == SortApplications(as, "fair", t)
             fifo == SortApplications(as, "fifo", t)
             nodes == SortNodes(rs)
             queues == SortQueue(qs)
  <2>8. \A i, j \in 1 .. 3 : i < j =>
          /\ CompFairnessRatio(apps[i].mayAllocated, t, apps[j].mayAllocated, t) <= 0
          /\ fifo[i].submissionTime <= fifo[j].submissionTime
    BY <2>2, <2>5, <2>7, ApplicationsSorted
  <2>9. \A i, j \in 1 .. 3 : i < j => CompFairnessRatioAssumesUnitPartition(nodes[i], nodes[j]) >= 0
    BY <2>3, NodesSorted
  <2>10. \A i, j \in 1 .. 3 : i < j => CompFairnessRatio(queues[i].proposing, t, queues[j].proposing, t) <= 0
    BY <2>2, <2>6, <2>7, QueuesSorted
  <2> HIDE DEF apps, fifo, nodes, queues
  <2>11. \A i, j \in 1 .. 3 : i < j =>
           /\ CompFairnessRatio(apps[i].mayAllocated, t, apps[j].mayAllocated, t) <= 0
           /\ fifo[i].submissionTime <= fifo[j].submissionTime
           /\ CompFairnessRatioAssumesUnitPartition(nodes[i], nodes[j]) >= 0
           /\ CompFairnessRatio(queues[i].proposing, t, queues[j].proposing, t) <= 0
    BY <2>8, <2>9, <2>10
  <2> QED
    BY <2>2, <2>11, Zenon DEF SortedFairly, apps, fifo, nodes, queues, as, qs, rs
<1> QED
  BY <1>1, InputInvariant, PTL

=============================================================================
