----------------------------- MODULE MCEvaluate -----------------------------
(* Instances of Evaluate for TLC: orders a and b, one of which names the   *)
(* other, and items with the same keys that name an order and an amount;   *)
(* an item descriptor with a sum and an index, one without, one that drops *)
(* the join; requests with up to two hops in both directions, predicates   *)
(* an index can and cannot answer, and the three kinds of restriction.     *)
EXTENDS Requests, TLC

MCNumbers == ("1" :> 1 @@ "3" :> 3)
MCRank == ("a" :> 4 @@ "b" :> 5 @@ "1" :> 1 @@ "3" :> 3 @@ "x" :> 6)

R(kind, key, props) == [kind |-> kind, key |-> key, props |-> props]
MCOffered ==
  {R("order", "a", <<>>), R("order", "b", ("up" :> "a")),
   R("item", "a", ("up" :> "a" @@ "amt" :> "1")),
   R("item", "a", ("up" :> "b" @@ "amt" :> "3")),
   R("item", "b", ("up" :> "a" @@ "amt" :> "3")),
   R("item", "b", ("up" :> "b" @@ "amt" :> "x"))}

MCDescriptors ==
  [order |-> {},
   item |-> {[sums |-> {"amt"}, indexes |-> {"amt"}, dropped |-> {}],
             [sums |-> {}, indexes |-> {}, dropped |-> {}],
             [sums |-> {"amt"}, indexes |-> {"amt"}, dropped |-> {"up"}]}]

Down == [far |-> "item", join |-> "up", incoming |-> FALSE, pred |-> NoPred]
Up == [far |-> "order", join |-> "up", incoming |-> TRUE, pred |-> NoPred]
Across == [far |-> "order", join |-> "up", incoming |-> FALSE, pred |-> NoPred]
Eq(prop, value) == [op |-> "eq", prop |-> prop, value |-> value]
Either == [op |-> "or", args |-> {Eq("amt", "1"), [op |-> "range", prop |-> "amt", min |-> "3", max |-> Absent]}]
Both == [op |-> "and", args |-> {[op |-> "not", arg |-> Eq("amt", "3")],
                                 [op |-> "range", prop |-> "amt", min |-> "1", max |-> "3"]}]
Unset == [op |-> "or", args |-> {[op |-> "missing", prop |-> "up"],
                                 [op |-> "neq", prop |-> "up", value |-> "a"]}]
Mixed == [op |-> "or", args |-> {Eq("amt", "1"), [op |-> "missing", prop |-> "up"]}]

Open == [hideKinds |-> {}, hideIds |-> {}, filters |-> {}]
NoItemA == [Open EXCEPT !.hideIds = {<<"item", "a">>}]
NoItems == [Open EXCEPT !.hideKinds = {"item"}]
OnlyUnderB == [Open EXCEPT !.filters = {[kind |-> "item", prop |-> "up", values |-> {"b"}]}]
OrdersOverA == [Open EXCEPT !.filters = {[kind |-> "order", prop |-> "up", values |-> {"a"}]}]

Q(root, hops, pred, acl, group) ==
  [root |-> root, hops |-> hops, sumKind |-> "item", sumProp |-> "amt",
   pred |-> pred, acl |-> acl, group |-> group]
With(hop, pred) == [hop EXCEPT !.pred = pred]

MCRequests ==
  {Q("order", <<Down>>, NoPred, acl, {"up"}) : acl \in {Open, NoItemA, OnlyUnderB, OrdersOverA}} \cup
  {Q("order", <<Down>>, Unset, Open, {}), Q("order", <<With(Down, Either)>>, NoPred, NoItemA, {}),
   Q("order", <<With(Down, Mixed)>>, NoPred, OnlyUnderB, {"up"}),
   Q("order", <<Across, Down>>, NoPred, NoItems, {}), Q("item", <<Up, Down>>, NoPred, Open, {"up", "amt"}),
   Q("item", <<Up>>, Both, Open, {"amt"}), Q("item", <<>>, Either, OnlyUnderB, {"up"}),
   Q("item", <<>>, NoPred, Open, {"up"}), Q("order", <<Up, Down>>, NoPred, Open, {})}

MCTypes == (<<"item", "flag">> :> "boolean")
MCParsed == ("boolean" :> {"true"} @@ "string" :> DOMAIN MCRank \cup {"true"})

(* What the wire may carry: one deny and where it can bite, and documents  *)
(* that are malformed.                                                     *)
Plain(root, hops) ==
  [deny |-> <<>>, restriction |-> NoRestriction, filter |-> NoPred, pred |-> NoPred,
   root |-> root, hops |-> hops, sumKind |-> "item", sumProp |-> "amt",
   group |-> <<>>, distinct |-> Absent]
Denying(kind, prop, ask) == [ask EXCEPT !.deny = <<<<kind, prop>>>>]
Bare(ask) == [ask EXCEPT !.sumKind = "order"]
Filter(kind, prop, values) == [kind |-> kind, prop |-> prop, values |-> values]
Doc(props, filters) == [denyProps |-> props, hideKinds |-> <<>>, hideIds |-> <<<<"item", "b">>>>, filters |-> filters]
Flagged == [op |-> "and", args |-> {Eq("flag", "true"), [op |-> "not", arg |-> Eq("amt", "1")]}]

MCAsks ==
  {Denying("order", "up", Plain("item", <<Up, Down>>)), Denying("item", "up", Plain("item", <<Up>>)),
   Denying("item", "up", Plain("order", <<Across>>)), Denying("item", "up", Plain("order", <<Across, Down>>)),
   Denying("item", "amt", Bare(Plain("order", <<Down>>))),
   Denying("item", "amt", Bare(Plain("order", <<With(Down, Mixed)>>))),
   Denying("item", "amt", [Bare(Plain("item", <<>>)) EXCEPT !.pred = Flagged]),
   Denying("order", "up", [Plain("order", <<Down>>) EXCEPT !.group = <<"up">>]),
   Denying("order", "up", [Plain("item", <<Up>>) EXCEPT !.group = <<"up", "amt">>, !.distinct = "up"]),
   [Plain("item", <<Up>>) EXCEPT !.filter = Eq("amt", "3"),
      !.restriction = Doc(<<<<"order", "up">>>>, <<Filter("item", "up", <<"b">>)>>)],
   [Plain("item", <<Up>>) EXCEPT !.restriction = Doc(<<<<"item", "up">>>>, <<Filter("item", "up", <<"b">>)>>)],
   [Plain("item", <<Up>>) EXCEPT !.pred = [op |-> "range", prop |-> "flag", min |-> "true", max |-> Absent]]}

Parts(preds) ==
  preds \cup UNION {IF "args" \in DOMAIN p THEN p.args ELSE IF "arg" \in DOMAIN p THEN {p.arg} ELSE {}
                    : p \in preds}
MCPredicates ==
  Parts(Parts(({req.pred : req \in MCRequests} \cup {ask.pred : ask \in MCAsks}
                 \cup {ask.filter : ask \in MCAsks}
                 \cup UNION {{hop.pred : hop \in ToSet(req.hops)} : req \in MCRequests \cup MCAsks})
                \ {NoPred}))
=============================================================================
