------------------------------ MODULE Requests ------------------------------
(***************************************************************************)
(* What an evaluate must pass before it reads a row: the restriction the   *)
(* wire carries is built, fail closed (crates/mikura-host/src/lib.rs,      *)
(* src/src/acl.rs), and LocalCompute::evaluate checks every property the   *)
(* request names against the denies and every constant against the type    *)
(* of its property (src/src/compute.rs).                                   *)
(*                                                                         *)
(* "" is an empty token.  Pages have their own checks, in Paging.          *)
(***************************************************************************)
EXTENDS Evaluate

CONSTANTS
  Asks,           \* requests of the wire: deny, restriction, filter, pred, root,
                  \* hops, sumKind, sumProp, group (a sequence) and distinct
  NoRestriction,  \* the wire has none
  Refused,        \* an error instead of a restriction
  DeclaredTypes,  \* <<kind, property>> -> the type its descriptor declares
  Parsed,         \* type -> the constants that are canonical for it
  HideKindsBound, HideIdentitiesBound, RowFilterValuesBound,
  RowFilterKindsBound, RowFilterTermsBound

-----------------------------------------------------------------------------
(* The restriction.                                                        *)

AllowAll == [denied |-> {}, hideKinds |-> {}, hideIds |-> {}, filters |-> {}]

FiltersOn(acl, pair) == \E term \in acl.filters : <<term.kind, term.prop>> = pair

InsertDeny(acl, pair) ==
  IF \/ "" \in {pair[1], pair[2]} \/ FiltersOn(acl, pair) \/ pair \in acl.denied
  THEN Refused ELSE [acl EXCEPT !.denied = @ \cup {pair}]

InsertHideKind(acl, kind) ==
  IF kind = "" \/ kind \in acl.hideKinds \/ Cardinality(acl.hideKinds) >= HideKindsBound
  THEN Refused ELSE [acl EXCEPT !.hideKinds = @ \cup {kind}]

InsertHideIdentity(acl, id) ==
  IF \/ "" \in {id[1], id[2]} \/ id \in acl.hideIds
     \/ Cardinality(acl.hideIds) >= HideIdentitiesBound
  THEN Refused ELSE [acl EXCEPT !.hideIds = @ \cup {id}]

(* values is a sequence on the wire.                                       *)
InsertRowFilter(acl, term) ==
  LET kinds == {t.kind : t \in acl.filters}
      terms == {t \in acl.filters : t.kind = term.kind} IN
  IF \/ "" \in {term.kind, term.prop} \cup ToSet(term.values)
     \/ <<term.kind, term.prop>> \in acl.denied
     \/ Len(term.values) \notin 1..RowFilterValuesBound
     \/ ~IsInjective(term.values)
     \/ term.kind \notin kinds /\ Cardinality(kinds) >= RowFilterKindsBound
     \/ FiltersOn(acl, <<term.kind, term.prop>>)
     \/ Cardinality(terms) >= RowFilterTermsBound
  THEN Refused
  ELSE [acl EXCEPT !.filters = @ \cup {[term EXCEPT !.values = ToSet(@)]}]

(* Insert one by one; the first error is the answer.                       *)
InsertEach(acl, items, Insert(_, _)) ==
  FoldLeft(LAMBDA a, item : IF a = Refused THEN Refused ELSE Insert(a, item), acl, items)

RestrictionFromWire(ask) ==
  LET r == ask.restriction IN
  IF r = NoRestriction THEN InsertEach(AllowAll, ask.deny, InsertDeny)
  ELSE IF ask.deny # <<>> THEN Refused
  ELSE LET denied == InsertEach(AllowAll, r.denyProps, InsertDeny)
           kinds == InsertEach(denied, r.hideKinds, InsertHideKind)
           ids == InsertEach(kinds, r.hideIds, InsertHideIdentity) IN
       InsertEach(ids, r.filters, InsertRowFilter)

(* PropertyAcl::check.                                                     *)
Readable(acl, kind, prop) == <<kind, prop>> \notin acl.denied

-----------------------------------------------------------------------------
(* The checks.                                                             *)

RECURSIVE Properties(_)
(* Predicate::properties.                                                  *)
Properties(pred) ==
  IF pred.op \in {"and", "or"} THEN UNION {Properties(arg) : arg \in pred.args}
  ELSE IF pred.op = "not" THEN Properties(pred.arg)
  ELSE {pred.prop}

RECURSIVE WellShaped(_)
(* check_predicate_shape.                                                  *)
WellShaped(pred) ==
  IF pred.op \in {"and", "or"} THEN pred.args # {} /\ \A arg \in pred.args : WellShaped(arg)
  ELSE IF pred.op = "not" THEN WellShaped(pred.arg)
  ELSE pred.prop # ""

PropertyType(kind, prop) ==
  IF desc[kind] = NoDescriptor \/ <<kind, prop>> \notin DOMAIN DeclaredTypes
  THEN "string" ELSE DeclaredTypes[<<kind, prop>>]

Parses(type, value) == value \in Parsed[type]

(* A series is searched by time.                                           *)
RangeFits(type, pred) ==
  LET bound == IF type = "time_series" THEN "timestamp" ELSE type IN
  /\ type \notin {"boolean", "vector", "geo_point", "geo_shape", "media"}
  /\ \A value \in {pred.min, pred.max} \ {Absent} : Parses(bound, value)

RECURSIVE TypesFit(_, _)
(* check_predicate_types, behind the shape.                                *)
TypesFit(kind, pred) ==
  CASE pred.op \in {"eq", "neq"} -> Parses(PropertyType(kind, pred.prop), pred.value)
    [] pred.op = "range" -> RangeFits(PropertyType(kind, pred.prop), pred)
    [] pred.op = "missing" -> TRUE
    [] pred.op \in {"and", "or"} -> \A arg \in pred.args : TypesFit(kind, arg)
    [] pred.op = "not" -> TypesFit(kind, pred.arg)

(* Mutant of PredicateFits: the outermost property is the one checked.     *)
PredicateFitsOutside(acl, kind, pred) ==
  pred # NoPred =>
    /\ "prop" \in DOMAIN pred => Readable(acl, kind, pred.prop)
    /\ WellShaped(pred) /\ TypesFit(kind, pred)

(* check_predicate_acl and check_predicate_types.                          *)
PredicateFits(acl, kind, pred) ==
  pred # NoPred =>
    /\ \A prop \in Properties(pred) : Readable(acl, kind, prop)
    /\ WellShaped(pred) /\ TypesFit(kind, pred)

(* check_breakdown.                                                        *)
BreakdownFits(ask, acl) ==
  /\ Len(ask.group) <= 2 /\ IsInjective(ask.group)
  /\ \A prop \in ToSet(ask.group) \cup ({ask.distinct} \ {Absent}) :
       prop # "" /\ Readable(acl, ask.root, prop)

(* Mutant of HopFits: the far kind is taken to hold the join.              *)
HopFitsFar(ask, acl, i) ==
  /\ Readable(acl, ask.hops[i].far, ask.hops[i].join)
  /\ PredicateFits(acl, ask.hops[i].far, ask.hops[i].pred)

HopFits(ask, acl, i) ==
  /\ Readable(acl, JoinOwner(ask, i), ask.hops[i].join)
  /\ PredicateFits(acl, ask.hops[i].far, ask.hops[i].pred)

(* LocalCompute::evaluate, before evaluate_local.                          *)
Admits(ask, acl) ==
  /\ Readable(acl, ask.sumKind, ask.sumProp)
  /\ ask.filter = NoPred \/ ask.pred = NoPred
  /\ ask.filter # NoPred => Readable(acl, ask.root, ask.filter.prop)
  /\ PredicateFits(acl, ask.root, ask.pred)
  /\ BreakdownFits(ask, acl)
  /\ \A i \in DOMAIN ask.hops : HopFits(ask, acl, i)

(* An empty filter is refused by the host's evaluate.                      *)
FilterFits(ask) == ask.filter # NoPred => "" \notin {ask.filter.prop, ask.filter.value}

(* The request evaluate_local is called with.                              *)
EvaluateRequest(ask, acl) ==
  [root |-> ask.root, hops |-> ask.hops, sumKind |-> ask.sumKind, sumProp |-> ask.sumProp,
   pred |-> IF ask.filter = NoPred THEN ask.pred ELSE ask.filter,
   acl |-> acl, group |-> ToSet(ask.group)]

-----------------------------------------------------------------------------
(* Properties.                                                             *)

(* The rows as they would be had nobody ever stored a denied property.     *)
Struck(denied) ==
  [at \in DOMAIN maps.owned |->
     Restrict(maps.owned[at], {prop \in DOMAIN maps.owned[at] : <<at[1], prop>> \notin denied})]

Blind(denied) == INSTANCE Evaluate WITH maps <- [maps EXCEPT !.owned = Struck(denied)]

(* DeniedUnseen (ADR 0014): an evaluate that is admitted answers as if the *)
(* denied properties were not stored: they move no count, no sum, no group *)
(* and no result, as a filter, inside a nested predicate, as the join of a *)
(* hop in either direction, or as a measure.                               *)
DeniedUnseen ==
  \A ask \in Asks :
    LET acl == RestrictionFromWire(ask)
        req == EvaluateRequest(ask, acl) IN
    acl # Refused /\ FilterFits(ask) /\ Admits(ask, acl) =>
      /\ Blind(acl.denied)!Meant(req) = Meant(req)
      /\ Blind(acl.denied)!Groups(req) = Groups(req)

=============================================================================
