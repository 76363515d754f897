----------------------------- MODULE Placement ------------------------------
(***************************************************************************)
(* Where an application is placed, and who may submit it there:            *)
(*   ACLs of queues        common/security/acl.go, checkACL,               *)
(*                         QueueInfo.CheckSubmitAccess;                    *)
(*   filters of rules      scheduler/placement/filter.go,                  *)
(*                         checkPlacementFilter;                           *)
(*   rules and their chain scheduler/placement/{user,provided,tag,fixed}   *)
(*                         _rule.go, placement.go.                         *)
(* All of it is calculation on the configuration, the tree of queues and   *)
(* one application; QueueTree has the goroutines that change the tree      *)
(* meanwhile.  A queue name is the sequence of its parts.                  *)
(***************************************************************************)
EXTENDS Integers, Sequences, FiniteSets, SequencesExt

CONSTANTS
  ValidNames,   \* user and group names that match the regular expressions for names
  ValidQueues   \* parts of queue names that match QueueNameRegExp

-----------------------------------------------------------------------------
(* ACLs.  The text of an ACL is the sequence of its fields, separated by   *)
(* single spaces; a field is the sequence of its entries, separated by     *)
(* commas.  The empty field is <<"">>, the empty text <<>>.                *)

EmptyField == <<"">>
Written(text) == { i \in DOMAIN text : text[i] # EmptyField }
WildCard == <<"*">>

(* configs.checkACL ignores repeated spaces. *)
CheckACL(text) == Cardinality(Written(text)) <= 2

ValidEntries(field) == { e \in ToSet(field) : e \in ValidNames }

NoACL == [users |-> {}, groups |-> {}, allAllowed |-> FALSE]

(* Mutant: a wildcard for groups is not seen. *)
SetListedGroups(acl, field) == [acl EXCEPT !.groups = ValidEntries(field)]

SetUsers(acl, field) ==
  IF field = WildCard THEN [acl EXCEPT !.allAllowed = TRUE]
  ELSE [acl EXCEPT !.users = ValidEntries(field)]

SetGroups(acl, field) ==
  IF acl.allAllowed THEN acl
  ELSE IF field = WildCard THEN [acl EXCEPT !.users = {}, !.allAllowed = TRUE]
  ELSE [acl EXCEPT !.groups = ValidEntries(field)]

(* NewACL counts every space; it is only called for up to two fields. *)
NewACLFails(text) == Len(text) > 2

JustWildCard(text) == \E i \in DOMAIN text : Written(text) = {i} /\ text[i] = WildCard

NewACL(text) ==
  LET all == IF JustWildCard(text) THEN [NoACL EXCEPT !.allAllowed = TRUE] ELSE NoACL IN
  CASE text = <<>> -> NoACL
    [] Len(text) = 1 -> SetUsers(all, text[1])
    [] Len(text) = 2 -> SetGroups(SetUsers(all, text[1]), text[2])

CheckAccess(acl, user) ==
  acl.allAllowed \/ user.name \in acl.users \/ ToSet(user.groups) \cap acl.groups # {}

-----------------------------------------------------------------------------
(* Queues.  A tree maps the names of its queues to                         *)
(* [leaf, submitACL, adminACL]; the root is always there.                  *)

RootName == <<"root">>

(* getQueue does not look at the first part, nor at a name of one part. *)
Normal(name) == IF Len(name) = 1 THEN RootName ELSE RootName \o Tail(name)
Exists(tree, name) == Normal(name) \in DOMAIN tree

(* A queue and what is above it. *)
NameAndAbove(name) == { SubSeq(name, 1, i) : i \in 1 .. Len(name) }

(* Mutant: the ACLs of the queues above are not looked at. *)
CheckOwnAccess(tree, name, user) ==
  CheckAccess(tree[name].submitACL, user) \/ CheckAccess(tree[name].adminACL, user)

CheckSubmitAccess(tree, name, user) ==
  \E q \in NameAndAbove(name) :
    CheckAccess(tree[q].submitACL, user) \/ CheckAccess(tree[q].adminACL, user)

(* The queue itself or the first one above it that exists. *)
Nearest(tree, name) ==
  LET there == { n \in NameAndAbove(Normal(name)) : n \in DOMAIN tree } IN
  CHOOSE n \in there : \A m \in there : Len(m) <= Len(n)

-----------------------------------------------------------------------------
(* Filters.  An entry is [name, special, compiles, regexp]: the text,      *)
(* whether it holds one of the characters of SpecialRegExp, whether it is  *)
(* a regular expression, and the names it matches as one.                  *)

FilterEntry == [name : STRING, special : BOOLEAN, compiles : BOOLEAN, regexp : SUBSET STRING]
Filter == [type : STRING, users : Seq(FilterEntry), groups : Seq(FilterEntry)]

CheckFilterList(list) ==
  Len(list) = 1 =>
    list[1].name \in ValidNames \/ (list[1].special /\ list[1].compiles)

(* checkPlacementFilter also accepts a type in capitals, which newFilter   *)
(* takes for allow; types are in small letters here.                       *)
CheckPlacementFilter(conf) == CheckFilterList(conf.users) /\ CheckFilterList(conf.groups)

(* newFilter, one list: a single special entry is an expression; other     *)
(* entries count when they are names.                                      *)
Matched(list, name) ==
  IF Len(list) = 1 /\ list[1].special
  THEN list[1].compiles /\ name \in list[1].regexp
  ELSE name \in ValidNames /\ \E i \in DOMAIN list : list[i].name = name

EmptyFilter(conf) == conf.users = <<>> /\ conf.groups = <<>>
Allows(conf) == conf.type # "deny"

(* The user, or one of the groups, is in the lists of the filter. *)
IsListed(conf, user) ==
  Matched(conf.users, user.name) \/ \E g \in ToSet(user.groups) : Matched(conf.groups, g)

(* Mutant: who is not listed may pass, also when the filter says who may. *)
AllowUnlisted(conf, user) ==
  IF EmptyFilter(conf) THEN Allows(conf) ELSE IsListed(conf, user) => Allows(conf)

(* Filter.allowUser *)
AllowUser(conf, user) ==
  IF EmptyFilter(conf) THEN Allows(conf) ELSE IsListed(conf, user) = Allows(conf)

-----------------------------------------------------------------------------
(* Rules.  A rule with its parent rules is a sequence that starts with the *)
(* rule itself; a rule is [kind, create, filter, value].  The result is    *)
(* [out, queue]: out is "queue", "none", "error" or "panic".               *)

PlacementRule == [kind : {"user", "provided", "tag", "fixed"}, create : BOOLEAN,
                  filter : Filter, value : Seq(STRING)]

NoQueue == <<>>
Outcome(out) == [out |-> out, queue |-> NoQueue]
QueueResult(name) == [out |-> "queue", queue |-> name]

Qualified(name) == Len(name) > 1 /\ name[1] = "root"

ReplaceDot(name) ==
  <<FoldLeft(LAMBDA s, part : s \o "_dot_" \o part, Head(name), Tail(name))>>

(* What the rule goes by: the name, the queue or the tag of the            *)
(* application, or its own value.                                          *)
RuleValue(rule, app) ==
  CASE rule.kind = "user" -> app.user.account
    [] rule.kind = "provided" -> app.queue
    [] rule.kind = "tag" -> app.tag
    [] rule.kind = "fixed" -> rule.value

(* Dots stay in the value of a fixed rule. *)
RelativeName(rule, app) ==
  IF rule.kind = "fixed" THEN rule.value ELSE ReplaceDot(RuleValue(rule, app))

(* Names that start with "root". *)
RootLike == {"root", "rootless"}

(* A value that needs no parent.  For a fixed rule the prefix "root" is    *)
(* enough, with or without a dot.                                          *)
IsQualified(rule, app) ==
  CASE rule.kind = "user" -> FALSE
    [] rule.kind \in {"provided", "tag"} -> Qualified(RuleValue(rule, app))
    [] rule.kind = "fixed" -> rule.value[1] \in RootLike

(* The end of placeApplication: without create the queue must be there. *)
CreateOrNone(tree, rule, name) ==
  IF rule.create \/ Exists(tree, name) THEN QueueResult(name) ELSE Outcome("none")

(* The parent queue that the parent rule returned is looked up and used    *)
(* without a check that it was found.                                      *)
BelowParent(tree, rule, app, parent) ==
  LET name == IF Qualified(parent.queue) THEN parent.queue ELSE RootName \o parent.queue IN
  CASE parent.out # "queue" -> parent
    [] parent.out = "queue" /\ ~Exists(tree, name) -> Outcome("panic")
    [] parent.out = "queue" /\ Exists(tree, name) ->
         IF tree[Normal(name)].leaf THEN Outcome("error")
         ELSE CreateOrNone(tree, rule, name \o RelativeName(rule, app))

(* rule.placeApplication, given what the parent rules return. *)
NoParent == Outcome("no parent")

PlaceByRule(tree, rule, app, parent) ==
  CASE RuleValue(rule, app) = <<>> \/ ~AllowUser(rule.filter, app.user) -> Outcome("none")
    [] OTHER ->
         IF IsQualified(rule, app) THEN CreateOrNone(tree, rule, RuleValue(rule, app))
         ELSE IF parent = NoParent
         THEN CreateOrNone(tree, rule, RootName \o RelativeName(rule, app))
         ELSE BelowParent(tree, rule, app, parent)

PlaceByChain(tree, chain, app) ==
  LET place[i \in 1 .. Len(chain) + 1] ==
        IF i > Len(chain) THEN NoParent ELSE PlaceByRule(tree, chain[i], app, place[i + 1])
  IN  place[1]

(* fixedRule.initialise *)
ChainAccepted(chain) ==
  \A i \in DOMAIN chain :
    /\ CheckPlacementFilter(chain[i].filter)
    /\ chain[i].kind = "fixed" /\ chain[i].value[1] \in RootLike => i = Len(chain)

(* CreateQueues: the new parts are checked one by one, after all; a part   *)
(* that is refused is logged, and SetQueue then gets no queue.             *)
CreateQueues(tree, name) ==
  IF ~Qualified(name) \/ tree[Nearest(tree, name)].leaf THEN Outcome("error")
  ELSE IF \A i \in Len(Nearest(tree, name)) + 1 .. Len(name) : name[i] \in ValidQueues
  THEN QueueResult(name)
  ELSE Outcome("panic")

(* The tree with the queue and what is missing above it; new queues have   *)
(* no ACL.                                                                 *)
WithQueue(tree, name) ==
  [n \in DOMAIN tree \cup NameAndAbove(name) |->
     IF n \in DOMAIN tree THEN tree[n]
     ELSE [leaf |-> n = name, submitACL |-> NoACL, adminACL |-> NoACL]]

(* One round of the loop of PlaceApplication; "none" means the next rule. *)
TryChain(tree, chain, app) ==
  LET result == PlaceByChain(tree, chain, app) IN
  IF result.out # "queue" THEN result
  ELSE IF ~CheckSubmitAccess(tree, Nearest(tree, result.queue), app.user) THEN Outcome("none")
  ELSE IF Exists(tree, result.queue) THEN QueueResult(Normal(result.queue))
  ELSE CreateQueues(tree, result.queue)

(* PlaceApplication: the first rule that does not answer "none" decides. *)
PlaceApplication(tree, rules, app) ==
  LET result == [i \in DOMAIN rules |-> TryChain(tree, rules[i], app)]
      deciding == { i \in DOMAIN rules : result[i].out # "none" }
  IN  IF deciding = {} THEN Outcome("error") ELSE result[Min(deciding)]

=============================================================================
