---------------------------- MODULE MCDecisions -----------------------------
EXTENDS Decisions

On(types, quantities) == UNION { [S -> quantities] : S \in SUBSET types }

MCLedgers == On({"memory", "vcore"}, {-QuantityLimit, 1 - QuantityLimit, -1, 0, 1, QuantityLimit - 1})
MCAmounts == On({"memory", "vcore"}, -1 .. 1) \cup On({"memory", "vcore"}, 1 .. 2)
MCTotals == {NilResource} \cup [{"memory", "vcore"} -> {0, 2}]

MCFields == {<<"">>, <<"*">>, <<"alice">>, <<"dev">>, <<"alice", "*">>, <<"dev", "1x">>, <<"bob.x">>}
MCAclTexts == UNION { [1 .. n -> MCFields] : n \in 0 .. 2 }

Alice == [name |-> "alice", account |-> <<"alice">>, groups |-> <<"staff", "dev">>]
Bob   == [name |-> "bob.x", account |-> <<"bob", "x">>, groups |-> <<"staff">>]
MCUsers == {Alice, Bob}

Queue(leaf, submit) == [leaf |-> leaf, submitACL |-> NewACL(submit), adminACL |-> NoACL]
MCTrees ==
  { [q \in {<<"root">>, <<"root", "prod">>, <<"root", "dev">>} |->
       CASE q = <<"root">> -> Queue(FALSE, top)
         [] q = <<"root", "prod">> -> Queue(TRUE, <<<<"alice">>>>)
         [] q = <<"root", "dev">> -> Queue(FALSE, <<<<"">>, <<"staff">>>>)] :
    top \in {<<>>, <<<<"*">>>>} }

MCSubmissions ==
  [user : MCUsers, queue : {<<>>, <<"prod">>, <<"root", "dev", "q">>, <<"x", "y">>},
   tag : {<<>>, <<"dev">>}]

Entry(name, special, regexp) ==
  [name |-> name, special |-> special, compiles |-> TRUE, regexp |-> regexp]
NoFilter == [type |-> "", users |-> <<>>, groups |-> <<>>]
NotAlice == [type |-> "deny", users |-> <<Entry("alice", FALSE, {})>>,
             groups |-> <<>>]
Devs == [type |-> "allow", users |-> <<>>,
         groups |-> <<Entry("d.*", TRUE, {"dev"})>>]

Rule(kind, create, filter, value) ==
  [kind |-> kind, create |-> create, filter |-> filter, value |-> value]
Rules(filters) ==
  { Rule(kind, create, filter, <<>>) :
      kind \in {"user", "provided", "tag"}, create \in BOOLEAN, filter \in filters }
  \cup { Rule("fixed", create, filter, value) :
           create \in BOOLEAN, filter \in filters,
           value \in {<<"root", "prod">>, <<"dev">>, <<"rootless">>} }

(* A rule, alone or with a parent rule, and possibly a rule behind it. *)
MCChains == { <<r>> : r \in Rules({NoFilter, NotAlice, Devs}) }
            \cup (Rules({NoFilter, NotAlice}) \X Rules({NoFilter, Devs}))
MCRuleLists ==
  { <<c>> : c \in MCChains }
  \cup (MCChains \X { <<Rule("fixed", FALSE, NoFilter, <<"root", "prod">>)>>,
                      <<Rule("user", TRUE, NoFilter, <<>>)>> })
=============================================================================
