----------------------------- MODULE Evaluate -----------------------------
(***************************************************************************)
(* Evaluate (src/src/compute.rs, objectset.rs, acl.rs) over the join       *)
(* projection of JoinMaps: roots, hops, predicates, the restriction of the *)
(* request, a count and a sum.  The code answers one request in one of     *)
(* four ways, by rollups, by leaf folds, by narrowed roots or path by      *)
(* path, and takes a declared index where it may; all of them are here,    *)
(* beside what a request means.                                            *)
(*                                                                         *)
(* A path is the tuple of its keys: the code keeps (root, leaf) pairs with *)
(* repeats, one for each tuple.  Values have one canonical form and all    *)
(* parse; Rank is their typed order.                                       *)
(***************************************************************************)
EXTENDS JoinMaps

CONSTANTS
  Requests,   \* root, hops, sumKind, sumProp, pred, acl, and group, the root
              \* properties of the breakdown
  Predicates, \* the predicates of requests, with their arguments
  Rank,       \* value -> its place in the order of its type
  NoPred,     \* no predicate
  Absent      \* a property a row does not have

-----------------------------------------------------------------------------
(* The view of a request: dropped properties and the restriction.          *)

(* omits_current_property.                                                 *)
Omits(kind, prop) == desc[kind] # NoDescriptor /\ prop \in desc[kind].dropped

Indexes(kind) == IF desc[kind] = NoDescriptor THEN {} ELSE desc[kind].indexes

(* query_prop.                                                             *)
Prop(kind, key, prop) ==
  IF \/ Omits(kind, prop) \/ <<kind, key>> \notin DOMAIN maps.owned
     \/ prop \notin DOMAIN maps.owned[<<kind, key>>]
  THEN Absent ELSE maps.owned[<<kind, key>>][prop]

(* object_visible: hidden kinds, hidden identities, and every row-filter   *)
(* term of the kind.                                                       *)
ObjectVisible(acl, kind, key) ==
  /\ kind \notin acl.hideKinds
  /\ <<kind, key>> \notin acl.hideIds
  /\ \A term \in acl.filters : term.kind = kind => Prop(kind, key, term.prop) \in term.values

HidesInKind(acl, kind) ==
  \/ kind \in acl.hideKinds
  \/ \E id \in acl.hideIds : id[1] = kind
  \/ \E term \in acl.filters : term.kind = kind

HidesObjects(acl) == acl.hideKinds \cup acl.hideIds \cup acl.filters # {}

VisibleInView(acl, kind, keys) == {key \in keys : ObjectVisible(acl, kind, key)}

-----------------------------------------------------------------------------
(* Predicates and the indexes that stand in for them.                      *)

(* in_range: either bound may be absent.                                   *)
InRange(value, pred) ==
  /\ pred.min # Absent => Rank[pred.min] <= Rank[value]
  /\ pred.max # Absent => Rank[value] <= Rank[pred.max]

(* matches_predicate.                                                      *)
Matches(kind, key, pred) ==
  LET matches[p \in Predicates] ==
        CASE p.op = "eq" -> Prop(kind, key, p.prop) = p.value
          [] p.op = "neq" -> Prop(kind, key, p.prop) \notin {Absent, p.value}
          [] p.op = "range" -> /\ Prop(kind, key, p.prop) # Absent
                               /\ InRange(Prop(kind, key, p.prop), p)
          [] p.op = "missing" -> Prop(kind, key, p.prop) = Absent
          [] p.op = "and" -> \A arg \in p.args : matches[arg]
          [] p.op = "or" -> \E arg \in p.args : matches[arg]
          [] p.op = "not" -> ~matches[p.arg]
  IN matches[pred]

FilterIds(kind, keys, pred) == {key \in keys : Matches(kind, key, pred)}

(* pred_is_index_tree.                                                     *)
IsIndexTree(pred, indexed) ==
  LET isTree[p \in Predicates] ==
        \/ p.op \in {"eq", "range"} /\ p.prop \in indexed
        \/ p.op \in {"and", "or"} /\ \A arg \in p.args : isTree[arg]
  IN isTree[pred]

RangeIds(m, kind, pred) ==
  UNION {Children(m, kind, pred.prop, v) : v \in {w \in DOMAIN Rank : InRange(w, pred)}}

(* Mutant of IndexIds: one argument of a conjunction is enough.            *)
IndexIdsAny(m, kind, pred) ==
  LET ids[p \in Predicates] ==
        CASE p.op = "eq" -> Children(m, kind, p.prop, p.value)
          [] p.op = "range" -> RangeIds(m, kind, p)
          [] p.op \in {"and", "or"} -> UNION {ids[arg] : arg \in p.args}
  IN ids[pred]

(* index_ids, which is asked for index trees: equality and ranges from     *)
(* by_prop, which knows the visible rows and no drops.                     *)
IndexIds(m, kind, pred) ==
  LET ids[p \in Predicates] ==
        CASE p.op = "eq" -> Children(m, kind, p.prop, p.value)
          [] p.op = "range" -> RangeIds(m, kind, p)
          [] p.op = "and" -> {key \in VisibleKeys(m, kind) : \A arg \in p.args : key \in ids[arg]}
          [] p.op = "or" -> UNION {ids[arg] : arg \in p.args}
  IN {key \in VisibleKeys(m, kind) : key \in ids[pred]}

(* root_ids: exact-match filters are equality predicates here.             *)
RootIds(req) ==
  LET all == VisibleKeys(maps, req.root) IN
  IF req.pred = NoPred THEN VisibleInView(req.acl, req.root, all)
  ELSE IF IsIndexTree(req.pred, Indexes(req.root))
  THEN VisibleInView(req.acl, req.root, IndexIds(maps, req.root, req.pred))
  ELSE FilterIds(req.root, VisibleInView(req.acl, req.root, all), req.pred)

-----------------------------------------------------------------------------
(* Hops.                                                                   *)

Frontier(req, i) == IF i = 0 THEN req.root ELSE req.hops[i].far
ResultKind(req) == Frontier(req, Len(req.hops))

(* hop_join_owner.                                                         *)
JoinOwner(req, i) == IF req.hops[i].incoming THEN Frontier(req, i - 1) ELSE req.hops[i].far

(* hop_targets: the rows one hop reaches from a key, by the join value the *)
(* key holds or by the index of those that hold the key.                   *)
HopTargets(kind, parent, hop) ==
  IF hop.incoming
  THEN {key \in VisibleKeys(maps, hop.far) :
          <<kind, parent>> \in DOMAIN maps.owned /\ hop.join \in DOMAIN maps.owned[<<kind, parent>>]
            /\ maps.owned[<<kind, parent>>][hop.join] = key}
  ELSE Children(maps, hop.far, hop.join, parent)

(* join_parents.                                                           *)
JoinParents(kind, hop, child) ==
  IF hop.incoming THEN Children(maps, kind, hop.join, child)
  ELSE {key \in VisibleKeys(maps, kind) :
          <<hop.far, child>> \in DOMAIN maps.owned /\ hop.join \in DOMAIN maps.owned[<<hop.far, child>>]
            /\ maps.owned[<<hop.far, child>>][hop.join] = key}

(* Mutant of PushedDown: the restriction is not asked about candidates.    *)
PushedDownUnseen(req, kind, hop, paths) ==
  {Append(x[1], x[2]) : x \in
     {y \in paths \X IndexIds(maps, hop.far, hop.pred) : Last(y[1]) \in JoinParents(kind, hop, y[2])}}

(* One hop from the candidates of its predicate back to the frontier.      *)
PushedDown(req, kind, hop, paths) ==
  {Append(x[1], x[2]) : x \in
     {y \in paths \X VisibleInView(req.acl, hop.far, IndexIds(maps, hop.far, hop.pred)) :
        Last(y[1]) \in JoinParents(kind, hop, y[2])}}

(* One hop forward, every child looked at.                                 *)
Forward(req, kind, hop, paths) ==
  {Append(x[1], x[2]) : x \in
     {y \in paths \X Keys :
        /\ y[2] \in HopTargets(kind, Last(y[1]), hop)
        /\ ObjectVisible(req.acl, hop.far, y[2])
        /\ hop.pred # NoPred => Matches(hop.far, y[2], hop.pred)}}

(* surviving_paths.                                                        *)
SurvivingPaths(req, roots) ==
  FoldLeftDomain(LAMBDA paths, i :
      LET hop == req.hops[i]  kind == Frontier(req, i - 1) IN
      IF Omits(JoinOwner(req, i), hop.join) THEN {}
      ELSE IF hop.pred # NoPred /\ IsIndexTree(hop.pred, Indexes(hop.far))
      THEN PushedDown(req, kind, hop, paths)
      ELSE Forward(req, kind, hop, paths),
    {<<root>> : root \in roots}, req.hops)

(* apply_hop over all hops but the last: no view, no predicate.            *)
BarePaths(req, roots, n) ==
  FoldLeftDomain(LAMBDA paths, i :
      {Append(x[1], x[2]) : x \in
         {y \in paths \X Keys : y[2] \in HopTargets(Frontier(req, i - 1), Last(y[1]), req.hops[i])}},
    {<<root>> : root \in roots}, SubSeq(req.hops, 1, n))

Roots(paths) == {p[1] : p \in paths}
Leaves(paths) == {Last(p) : p \in paths}
AmountOf(kind, key, prop) ==
  IF <<kind, key>> \in DOMAIN maps.owned THEN Amount(maps.owned[<<kind, key>>], prop) ELSE 0
SumOver(paths, f(_)) == Wrap(MapThenSumSet(f, paths))

-----------------------------------------------------------------------------
(* The ways evaluate_local answers: a count of roots, a sum, the results.  *)

(* walk_hops.                                                              *)
Walk(req) ==
  LET paths == SurvivingPaths(req, RootIds(req)) IN
  [count |-> Cardinality(Roots(paths)),
   sum |-> IF ResultKind(req) # req.sumKind \/ Omits(req.sumKind, req.sumProp) THEN 0
           ELSE SumOver(paths, LAMBDA p : AmountOf(req.sumKind, Last(p), req.sumProp)),
   ids |-> Leaves(paths)]

(* fold_rollups: the parents with a row of the table.                      *)
FoldRollups(req, hop, paths) ==
  LET at(p) == <<hop.far, hop.join, req.sumProp, Last(p)>>
      table == IF HasTable(maps.rollups, <<hop.far, hop.join, req.sumProp>>)
               THEN maps.rollups ELSE maps.lazy
      counted == {p \in paths : at(p) \in DOMAIN table} IN
  [count |-> Cardinality(Roots(counted)), sum |-> SumOver(counted, LAMBDA p : table[at(p)].total)]

(* fold_leaves and fold_follow: the children of the last parents.          *)
FoldLeaves(req, paths) ==
  LET full == BarePaths(req, Roots(paths), Len(req.hops)) IN
  [count |-> Cardinality(Roots(full)),
   sum |-> IF ResultKind(req) # req.sumKind THEN 0
           ELSE SumOver(full, LAMBDA p : AmountOf(req.sumKind, Last(p), req.sumProp))]

(* count_and_sum.                                                          *)
CountAndSum(req, roots) ==
  LET n == Len(req.hops)
      hop == req.hops[n]
      paths == BarePaths(req, roots, n - 1) IN
  IF /\ n > 0 /\ ~hop.incoming /\ hop.far = req.sumKind
     /\ HasTable(Over(maps.rollups, maps.lazy), <<hop.far, hop.join, req.sumProp>>)
  THEN FoldRollups(req, hop, paths) ELSE FoldLeaves(req, BarePaths(req, roots, 0))

(* A fold from roots that were narrowed before it.                         *)
Narrowed(req, roots) ==
  LET folded == CountAndSum(req, roots) IN
  [count |-> folded.count,
   sum |-> IF Omits(req.sumKind, req.sumProp) THEN 0 ELSE folded.sum,
   ids |-> Leaves(BarePaths(req, roots, Len(req.hops)))]

(* Mutant of MustWalk: what is hidden behind a hop does not matter.        *)
MustWalkForPredicates(req) == \E i \in 1..Len(req.hops) : req.hops[i].pred # NoPred

(* A restriction or a predicate behind a hop, or a dropped join, takes     *)
(* each path on its own.                                                   *)
MustWalk(req) ==
  \E i \in 1..Len(req.hops) :
    \/ Omits(JoinOwner(req, i), req.hops[i].join)
    \/ HidesInKind(req.acl, req.hops[i].far)
    \/ req.hops[i].pred # NoPred

(* evaluate_local, behind ensure_lazy_measure.                             *)
EvaluateLocal(req) ==
  IF MustWalk(req) THEN Walk(req)
  ELSE IF req.pred # NoPred \/ HidesObjects(req.acl) THEN Narrowed(req, RootIds(req))
  ELSE Narrowed(req, VisibleKeys(maps, req.root))

-----------------------------------------------------------------------------
(* Breakdowns: groups keyed by root properties.                            *)

GroupKey(req, root) == [prop \in req.group |-> Prop(req.root, root, prop)]

(* Mutant of GroupFold: a root counts once for each of its paths.          *)
GroupFoldPaths(req, paths) ==
  [count |-> Cardinality(paths),
   sum |-> SumOver(paths, LAMBDA p : AmountOf(req.sumKind, Last(p), req.sumProp))]

(* GroupFold: what the surviving paths of one group add up to.             *)
GroupFold(req, paths) ==
  [count |-> Cardinality(Roots(paths)),
   sum |-> IF ResultKind(req) # req.sumKind \/ Omits(req.sumKind, req.sumProp) THEN 0
           ELSE SumOver(paths, LAMBDA p : AmountOf(req.sumKind, Last(p), req.sumProp))]

(* breakdown_groups: every surviving path falls into the group of its root.*)
Groups(req) ==
  LET paths == SurvivingPaths(req, RootIds(req)) IN
  [key \in {GroupKey(req, p[1]) : p \in paths} |->
     GroupFold(req, {p \in paths : GroupKey(req, p[1]) = key})]

-----------------------------------------------------------------------------
(* What a request means, from the rows alone.                              *)

Linked(req, i, from, to) ==
  LET hop == req.hops[i] IN
  /\ <<hop.far, to>> \in DOMAIN maps.owned
  /\ ObjectVisible(req.acl, hop.far, to)
  /\ hop.pred # NoPred => Matches(hop.far, to, hop.pred)
  /\ IF hop.incoming THEN Prop(Frontier(req, i - 1), from, hop.join) = to
     ELSE Prop(hop.far, to, hop.join) = from

Meant(req) ==
  LET n == Len(req.hops)
      paths == {t \in [1..n + 1 -> Keys] :
                  /\ <<req.root, t[1]>> \in DOMAIN maps.owned
                  /\ ObjectVisible(req.acl, req.root, t[1])
                  /\ req.pred # NoPred => Matches(req.root, t[1], req.pred)
                  /\ \A i \in 1..n : Linked(req, i, t[i], t[i + 1])}
      amount(t) == LET value == Prop(req.sumKind, t[n + 1], req.sumProp) IN
                   IF ResultKind(req) = req.sumKind /\ value \in DOMAIN Numbers
                   THEN Numbers[value] ELSE 0 IN
  [count |-> Cardinality({t[1] : t \in paths}),
   sum |-> Wrap(MapThenSumSet(amount, paths)),
   ids |-> {t[n + 1] : t \in paths}]

-----------------------------------------------------------------------------
(* Properties.                                                             *)

(* Whichever way evaluate takes, it answers what the request means: the    *)
(* rollups, the leaf folds, the narrowed roots, the pushed-down indexes    *)
(* and the path walk agree, under dropped properties and restrictions, in  *)
(* every state the writers, first-use builds and reopens reach.  And a     *)
(* breakdown splits the answer it is asked beside: its groups have the     *)
(* count and, wrapped, the sum of the request.                             *)
AnswersExact ==
  \A req \in Requests :
    LET groups == Groups(req)
        meant == Meant(req) IN
    /\ EvaluateLocal(req) = meant
    /\ MapThenSumSet(LAMBDA key : groups[key].count, DOMAIN groups) = meant.count
    /\ Wrap(MapThenSumSet(LAMBDA key : groups[key].sum, DOMAIN groups)) = meant.sum

=============================================================================
