----------------------------- MODULE MCTuning -----------------------------
(* Instances of Tuning for TLC: orders, and items that name one and an     *)
(* amount; a hop whose index costs more than it saves, a predicate of two  *)
(* properties, an exact filter with a sort, and sums of two properties,    *)
(* where the leaf budget is one item and a measure may outgrow its estimate. *)
EXTENDS Tuning, TLC

MCNumbers == ("1" :> 1 @@ "3" :> 3)
MCRank == ("a" :> 4 @@ "b" :> 5 @@ "1" :> 1 @@ "3" :> 3)

Row(kind, key, props) == [what |-> "row", kind |-> kind, key |-> key, props |-> props]
Item(key, up, amt) == Row("item", key, ("up" :> up @@ "amt" :> amt))
Desc(sums, indexes, dropped) == [sums |-> sums, indexes |-> indexes, dropped |-> dropped]
Items(d) == [what |-> "desc", kind |-> "item", desc |-> d]

MCSeeds ==
  {<<Items(Desc({}, {}, {})), Row("order", "a", <<>>), Item("a", "a", "1")>>,
   <<Items(Desc({"amt"}, {"up"}, {})), Row("order", "a", <<>>), Item("a", "a", "3")>>,
   <<Items(Desc({"amt"}, {"amt", "up"}, {})), Row("order", "a", <<>>), Item("a", "a", "3"),
     Item("b", "a", "1")>>}

MCOffered == {Item("c", "c", "1")}
MCDescriptors == [order |-> {}, item |-> {Desc({}, {"up"}, {"amt"}), Desc({}, {}, {})}]

Down == [far |-> "item", join |-> "up", incoming |-> FALSE, pred |-> NoPred]
Eq(prop, value) == [op |-> "eq", prop |-> prop, value |-> value]
Both == [op |-> "and", args |-> {Eq("up", "a"), [op |-> "range", prop |-> "amt", min |-> "1", max |-> "3"]}]
Open == [hideKinds |-> {}, hideIds |-> {}, filters |-> {}]

Q(root, hops, pred, sumProp) ==
  [root |-> root, hops |-> hops, sumKind |-> "item", sumProp |-> sumProp, pred |-> pred,
   acl |-> Open, group |-> {}, exact |-> FALSE, sorts |-> {}]

MCRequests ==
  {Q("order", <<Down>>, NoPred, "amt"), Q("item", <<>>, Both, "up"),
   Q("order", <<[Down EXCEPT !.pred = Eq("amt", "1")]>>, NoPred, "up"),
   [Q("item", <<>>, Eq("up", "b"), "amt") EXCEPT !.exact = TRUE, !.sorts = {"amt"}]}

MCPredicates == {Both, Eq("up", "a"), Eq("amt", "1"), Eq("up", "b")} \cup Both.args
=============================================================================
