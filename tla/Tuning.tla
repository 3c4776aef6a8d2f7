------------------------------- MODULE Tuning -------------------------------
(***************************************************************************)
(* The tuning advisor (src/src/tuning.rs) over Evaluate: a clerk records   *)
(* requests, asks for suggestions and applies them within a budget of      *)
(* bytes.  An applied suggestion is a new descriptor generation; an add is *)
(* probed before and after it, and taken back when it did not help.        *)
(*                                                                         *)
(* auto_apply has the store to itself, and a crash may end it anywhere: it *)
(* is a step for each append and each probe.  Latencies and the estimates  *)
(* made from them decide nothing and are left out; a sort is the set of    *)
(* its properties, and `exact` tells the exact-match filter of a request   *)
(* from an equality predicate.                                             *)
(***************************************************************************)
EXTENDS Evaluate

CONSTANTS
  Seeds,        \* what the log holds when a run starts, all of it persisted
  Budgets,      \* MemoryBudget::max_bytes
  MeasureBytes, \* MEASURE_CACHE_BYTES
  MaxSamples,   \* bound: requests in the recorder's window
  MaxRounds     \* bound: calls of auto_apply

ASSUME BudgetAssumption ==
  Budgets \subseteq Nat /\ MeasureBytes \in Nat /\ MaxSamples \in Nat /\ MaxRounds \in Nat
ASSUME SeedsAssumption ==
  /\ \A seed \in Seeds : seed \in Seq(ToSet(seed))
  /\ \A op \in UNION {ToSet(seed) : seed \in Seeds} :
       \/ op \in [what : {"desc"}, kind : Kinds,
                 desc : [sums : SUBSET Props, indexes : SUBSET Props, dropped : SUBSET Props]]
       \/ /\ op \in [what : {"row"}, kind : Kinds, key : Keys, props : {op.props}]
          /\ DOMAIN op.props \subseteq Props /\ IsFiniteSet(DOMAIN op.props)
ASSUME KindsAssumption ==
  \A req \in Requests :
    /\ req.root \in Kinds /\ req.sumKind \in Kinds
    /\ req.hops \in Seq(ToSet(req.hops)) /\ \A hop \in ToSet(req.hops) : hop.far \in Kinds

VARIABLES
  samples,   \* the recorder's window
  suggested, \* what suggest answered last
  tuner,     \* the call of auto_apply under way
  rounds     \* how many there were

tuningVars == <<joinVars, samples, suggested, tuner, rounds>>

Idle == [at |-> "idle"]

-----------------------------------------------------------------------------
(* What a request costs.                                                   *)

(* The hop evaluate may answer from a table of the measure.                *)
OntoMeasure(req) ==
  /\ req.hops # <<>>
  /\ LET last == Last(req.hops) IN
     ~last.incoming /\ last.far = req.sumKind /\ last.join # req.sumProp

(* request_uses_rollups.                                                   *)
UsesRollups(req) ==
  /\ OntoMeasure(req)
  /\ \A i \in DOMAIN req.hops :
       req.hops[i].pred = NoPred /\ ~HidesInKind(req.acl, req.hops[i].far)

Measured(req) == <<req.sumKind, req.sumProp>> \in maps.declared \cup maps.cached

(* measure_table_ready, and measure_is_cached.                             *)
TableReady(req) ==
  Measured(req) \/ (desc[req.sumKind] # NoDescriptor /\ req.sumProp \in desc[req.sumKind].sums)
MeasureIsCached(req) == UsesRollups(req) /\ TableReady(req)

(* What the walk of a request costs is read from the rows and the indexes. *)
Seen == [owned |-> maps.owned, indexes |-> [kind \in Kinds |-> Indexes(kind)]]

RootCost(seen, req) ==
  Cardinality(
    IF req.pred # NoPred /\ (req.exact \/ IsIndexTree(req.pred, seen.indexes[req.root]))
    THEN IndexIds(seen, req.root, req.pred) ELSE VisibleKeys(seen, req.root))

(* A hop whose predicate an index answers costs its matches, any other     *)
(* predicate the frontier so far.                                          *)
HopsCost(seen, req) ==
  FoldLeft(LAMBDA acc, hop :
      IF hop.pred = NoPred THEN acc
      ELSE IF IsIndexTree(hop.pred, seen.indexes[hop.far])
      THEN LET n == Cardinality(IndexIds(seen, hop.far, hop.pred)) IN
           [scanned |-> acc.scanned + n, frontier |-> n]
      ELSE [acc EXCEPT !.scanned = @ + acc.frontier],
    [scanned |-> RootCost(seen, req), frontier |-> RootCost(seen, req)], req.hops).scanned

(* scan_cost.                                                              *)
ScanCost(req) ==
  HopsCost(Seen, req) + (IF UsesRollups(req) /\ ~TableReady(req)
                         THEN Cardinality(VisibleKeys(maps, req.sumKind)) ELSE 0)

(* inspect_cost.                                                           *)
InspectCost(req) == [scanned |-> ScanCost(req), cached |-> MeasureIsCached(req)]

-----------------------------------------------------------------------------
(* Suggestions.                                                            *)

PredProperties(pred, kind) ==
  LET names[p \in Predicates] ==
        CASE p.op \in {"and", "or"} -> UNION {names[arg] : arg \in p.args}
          [] p.op = "not" -> names[p.arg]
          [] OTHER -> {<<kind, p.prop>>}
  IN IF pred = NoPred THEN {} ELSE names[pred]

PredCanIndex(pred) ==
  LET can[p \in Predicates] ==
        \/ p.op \in {"eq", "range"}
        \/ p.op \in {"and", "or"} /\ \A arg \in p.args : can[arg]
  IN pred # NoPred /\ can[pred]

Preds(req) == {<<req.root, req.pred>>} \cup {<<hop.far, hop.pred>> : hop \in ToSet(req.hops)}

(* shape_of: the names a request filters by, sorts by and walks over.      *)
FilterProperties(req) == UNION {PredProperties(p[2], p[1]) : p \in Preds(req)}
SortProperties(req) == {ResultKind(req)} \X req.sorts
WalkedKinds(window) == UNION {{p[1] : p \in Preds(req)} : req \in window}

Declared(kind) == IF desc[kind] = NoDescriptor THEN {} ELSE Props \ desc[kind].dropped
Sums(kind) == IF desc[kind] = NoDescriptor THEN {} ELSE desc[kind].sums

(* The bytes of a measure: a row for each join value that is visible.      *)
LiveBytes(kind, prop) == MeasureBytes * Cardinality(FullAts(maps, kind, prop))

Suggestion(what, kind, prop, bytes) ==
  [what |-> what, kind |-> kind, prop |-> prop, bytes |-> bytes]

SuggestAddIndexes(window) ==
  LET names == UNION {UNION {PredProperties(p[2], p[1]) : p \in
                              {q \in Preds(req) : PredCanIndex(q[2])
                                                    /\ ~(req.exact /\ q = <<req.root, req.pred>>)}}
                      : req \in window} IN
  {Suggestion("add_index", n[1], n[2], 0) :
     n \in {m \in Kinds \X Props : m \in names /\ m[2] \in Declared(m[1]) \ Indexes(m[1])}}

(* Mutant of SuggestDropIndexes: what a hop filters by is no use.          *)
DropUnlessRoot(window) ==
  LET used == UNION {PredProperties(req.pred, req.root) \cup SortProperties(req) : req \in window} IN
  {Suggestion("drop_index", n[1], n[2], 0) :
     n \in {m \in WalkedKinds(window) \X Props : m[2] \in Indexes(m[1]) /\ m \notin used}}

SuggestDropIndexes(window) ==
  LET used == UNION {FilterProperties(req) \cup SortProperties(req) : req \in window} IN
  {Suggestion("drop_index", n[1], n[2], 0) :
     n \in {m \in WalkedKinds(window) \X Props : m[2] \in Indexes(m[1]) /\ m \notin used}}

SuggestCacheMeasures(window) ==
  {Suggestion("cache_measure", req.sumKind, req.sumProp, LiveBytes(req.sumKind, req.sumProp)) :
     req \in {r \in window : /\ UsesRollups(r)
                             /\ r.sumProp \in Declared(r.sumKind) \ Sums(r.sumKind)}}

SuggestDropMeasures(window) ==
  LET used == {<<req.sumKind, req.sumProp>> : req \in window} IN
  {Suggestion("drop_measure", n[1], n[2], 0) :
     n \in {m \in {req.sumKind : req \in window} \X Props : m[2] \in Sums(m[1]) /\ m \notin used}}

(* Reviewable only: a clerk copies the far properties itself.              *)
SuggestDenormalize(window) ==
  UNION {{Suggestion("denormalize", Frontier(req, i - 1), req.hops[i].join, 0) :
            i \in DOMAIN req.hops} : req \in window}

(* suggest.                                                                *)
Suggestions(window) ==
  SuggestAddIndexes(window) \cup SuggestDropIndexes(window) \cup SuggestCacheMeasures(window)
    \cup SuggestDropMeasures(window) \cup SuggestDenormalize(window)

-----------------------------------------------------------------------------
(* One suggestion applied.                                                 *)

Drops == {"drop_index", "drop_measure"}

Edited(d, s) ==
  CASE s.what = "add_index" -> [d EXCEPT !.indexes = @ \cup {s.prop}]
    [] s.what = "drop_index" -> [d EXCEPT !.indexes = @ \ {s.prop}]
    [] s.what = "cache_measure" -> [d EXCEPT !.sums = @ \cup {s.prop}]
    [] s.what = "drop_measure" -> [d EXCEPT !.sums = @ \ {s.prop}]

Opposite == [add_index |-> "drop_index", cache_measure |-> "drop_measure"]

(* Mutant of Inverted: an index is taken back as a measure.                *)
InvertedAsMeasure(s) == [s EXCEPT !.what = "drop_measure"]

(* invert, for the adds.                                                   *)
Inverted(s) == [s EXCEPT !.what = Opposite[@]]

(* edit_schema fails on a kind without a descriptor, or when the edited    *)
(* one would name what is not declared any more.                           *)
CanEdit(s) == desc[s.kind] # NoDescriptor /\ (s.what \in Drops \/ s.prop \in Declared(s.kind))

(* apply and rollback: a new generation of the descriptor.                 *)
EditSchema(s) ==
  LET op == [what |-> "desc", kind |-> s.kind, desc |-> Edited(desc[s.kind], s)] IN
  /\ CanEdit(s)
  /\ desc' = [desc EXCEPT ![s.kind] = op.desc]
  /\ maps' = Applied(maps, op)
  /\ tail' = Append(tail, op)
  /\ UNCHANGED <<building, disk, writes>>

(* The append of an edit fails with nothing written, or with the edit live *)
(* when it is the flush of the record or the sidecar behind it that does.  *)
AppendFails(s) == CanEdit(s) /\ (UNCHANGED joinVars \/ EditSchema(s))

(* What evaluate does about the measure of a request, as EnterCachedSum    *)
(* and BuildCachedSum do: it fails, or builds the table first, or answers. *)
Refused(req) ==
  /\ OntoMeasure(req) /\ ~Measured(req)
  /\ \/ Cardinality(VisibleKeys(maps, req.sumKind)) > LeafBudget
     \/ /\ \E key \in VisibleKeys(maps, req.sumKind) :
              HasAmount(maps.owned[<<req.sumKind, key>>], req.sumProp)
        /\ Cardinality(maps.cached) >= MaxCached

Unbuilt(req) ==
  /\ OntoMeasure(req) /\ ~Measured(req)
  /\ \E key \in VisibleKeys(maps, req.sumKind) :
       HasAmount(maps.owned[<<req.sumKind, key>>], req.sumProp)
  /\ FullAts(maps, req.sumKind, req.sumProp) # {}

Answered(req) == ~Refused(req) /\ ~Unbuilt(req)

(* probe_for: the first sample that could tell.                            *)
Tells(req, s) ==
  IF s.what = "add_index" THEN <<s.kind, s.prop>> \in FilterProperties(req)
  ELSE req.sumKind = s.kind /\ req.sumProp = s.prop /\ UsesRollups(req)

HasProbe(s) == \E i \in DOMAIN samples : Tells(samples[i], s)
Probe(s) == samples[Min({i \in DOMAIN samples : Tells(samples[i], s)})]

ShouldRollback(s, before, after) ==
  IF s.what = "add_index" THEN after.scanned > before.scanned ELSE ~after.cached

(* Mutant of AddBytes: what the suggestion was made with.                  *)
EstimatedBytes(s) == s.bytes

AddBytes(s) == IF s.what = "cache_measure" THEN LiveBytes(s.kind, s.prop) ELSE 0

-----------------------------------------------------------------------------
(* auto_apply.                                                             *)

Names(set) == {<<s.what, s.kind, s.prop>> : s \in set}

AutoApply(budget) ==
  /\ tuner = Idle /\ building = {} /\ rounds < MaxRounds /\ suggested # {}
  /\ rounds' = rounds + 1
  /\ tuner' = [at |-> "next", todo |-> {s \in suggested : s.what # "denormalize"},
               budget |-> budget, used |-> 0, kept |-> {}, undone |-> {}, skipped |-> {},
               now |-> Idle, bytes |-> 0, before |-> [scanned |-> 0, cached |-> FALSE],
               failed |-> FALSE, cut |-> FALSE, start |-> desc,
               fresh |-> Names(suggested) = Names(Suggestions(ToSet(samples)))]
  /\ UNCHANGED <<joinVars, samples, suggested>>

(* Drops come first; within them, and within the adds, any order.          *)
Turn(s) ==
  /\ tuner.at = "next" /\ s \in tuner.todo
  /\ (\E t \in tuner.todo : t.what \in Drops) => s.what \in Drops

Tuner(round) == tuner' = round /\ UNCHANGED <<samples, suggested, rounds>>

TuneDrop(s) ==
  /\ Turn(s) /\ s.what \in Drops
  /\ EditSchema(s)
  /\ Tuner([tuner EXCEPT !.todo = @ \ {s}, !.kept = @ \cup {s}])

OverBudget(s) == tuner.used + AddBytes(s) > tuner.budget

TuneSkip(s) ==
  /\ Turn(s) /\ s.what \notin Drops
  /\ OverBudget(s) \/ ~HasProbe(s)
  /\ Tuner([tuner EXCEPT !.todo = @ \ {s}, !.skipped = @ \cup {s}])
  /\ UNCHANGED joinVars

TuneAdd(s) ==
  /\ Turn(s) /\ s.what \notin Drops
  /\ ~OverBudget(s) /\ HasProbe(s)
  /\ Tuner([tuner EXCEPT !.at = "before", !.now = s, !.bytes = AddBytes(s), !.todo = @ \ {s}])
  /\ UNCHANGED joinVars

(* apply_measured: the probe before, the change, the probe after.          *)
Probing == tuner.at \in {"before", "after", "last"}

TuneBuild ==
  LET req == Probe(tuner.now)
      ats == FullAts(maps, req.sumKind, req.sumProp) IN
  /\ Probing /\ ~Refused(req) /\ Unbuilt(req)
  /\ maps' = [maps EXCEPT !.cached = @ \cup {<<req.sumKind, req.sumProp>>},
                          !.lazy = Over([at \in ats |-> Recomputed(maps, at)], @), !.dirty = TRUE]
  /\ UNCHANGED <<desc, building, disk, tail, writes, samples, suggested, tuner, rounds>>

TuneBefore ==
  /\ tuner.at = "before" /\ Answered(Probe(tuner.now))
  /\ Tuner([tuner EXCEPT !.at = "apply", !.before = InspectCost(Probe(tuner.now))])
  /\ UNCHANGED joinVars

TuneApply ==
  /\ tuner.at = "apply"
  /\ EditSchema(tuner.now)
  /\ Tuner([tuner EXCEPT !.at = "after"])

TuneAfter ==
  /\ tuner.at = "after" /\ Answered(Probe(tuner.now))
  /\ IF ShouldRollback(tuner.now, tuner.before, InspectCost(Probe(tuner.now)))
     THEN Tuner([tuner EXCEPT !.at = "undo"])
     ELSE Tuner([tuner EXCEPT !.at = "next", !.used = @ + tuner.bytes,
                             !.kept = @ \cup {tuner.now}])
  /\ UNCHANGED joinVars

TuneUndo ==
  /\ tuner.at = "undo"
  /\ EditSchema(Inverted(tuner.now))
  /\ Tuner([tuner EXCEPT !.at = IF tuner.failed THEN "end" ELSE "last"])

TuneLast ==
  /\ tuner.at = "last" /\ Answered(Probe(tuner.now))
  /\ Tuner([tuner EXCEPT !.at = "next", !.undone = @ \cup {tuner.now}])
  /\ UNCHANGED joinVars

(* The first error ends the call; a probe that fails after the change      *)
(* takes the change back first.  Any probe may fail: the backend of an     *)
(* object set is its own.                                                  *)
TuneFail ==
  /\ \/ tuner.at = "next" /\ \E s \in tuner.todo : Turn(s) /\ s.what \in Drops /\ ~CanEdit(s)
     \/ tuner.at = "apply" /\ ~CanEdit(tuner.now)
     \/ Probing
  /\ Tuner([tuner EXCEPT !.at = IF @ = "after" THEN "undo" ELSE "end", !.failed = TRUE])
  /\ UNCHANGED joinVars

TuneCut ==
  /\ \/ tuner.at = "next" /\ \E s \in tuner.todo : Turn(s) /\ s.what \in Drops /\ AppendFails(s)
     \/ tuner.at = "apply" /\ AppendFails(tuner.now)
     \/ tuner.at = "undo" /\ AppendFails(Inverted(tuner.now))
  /\ Tuner([tuner EXCEPT !.at = "end", !.failed = TRUE, !.cut = TRUE])

TuneEnd ==
  /\ tuner.at = "next" /\ tuner.todo = {}
  /\ Tuner([tuner EXCEPT !.at = "end"])
  /\ UNCHANGED joinVars

TuneReturn ==
  /\ tuner.at = "end"
  /\ tuner' = Idle
  /\ UNCHANGED <<joinVars, samples, suggested, rounds>>

-----------------------------------------------------------------------------
(* QueryRecorder::record, once evaluate has met what its measure needs.    *)
Record(req) ==
  /\ tuner = Idle /\ Len(samples) < MaxSamples
  /\ Answered(req)
  /\ samples' = Append(samples, req)
  /\ UNCHANGED <<joinVars, suggested, tuner, rounds>>

Suggest ==
  /\ tuner = Idle /\ suggested # Suggestions(ToSet(samples))
  /\ suggested' = Suggestions(ToSet(samples))
  /\ UNCHANGED <<joinVars, samples, tuner, rounds>>

Elsewhere(step) == tuner = Idle /\ step /\ UNCHANGED <<samples, suggested, tuner, rounds>>

(* The process ends with its recorder, whatever it is at.                  *)
Crash(kept) ==
  /\ Reopen(kept)
  /\ samples' = <<>> /\ suggested' = {} /\ tuner' = Idle
  /\ UNCHANGED rounds

TuningInit ==
  /\ \E seed \in Seeds :
       LET loaded == AdoptLazyRollups(Replayed(Adopt(Nothing), seed)) IN
       /\ maps = loaded
       /\ desc = Described(Nothing.desc, seed)
       /\ disk = [owned |-> loaded.owned, measures |-> loaded.rollups, desc |-> desc]
  /\ building = {} /\ tail = <<>> /\ writes = 0
  /\ samples = <<>> /\ suggested = {} /\ tuner = Idle /\ rounds = 0

TuningNext ==
  \/ \E row \in Offered : Elsewhere(Install(row))
  \/ \E kind \in Kinds, key \in Keys : Elsewhere(Hide(kind, key))
  \/ \E kind \in Kinds : \E d \in Descriptors[kind] \cup {NoDescriptor} : Elsewhere(Describe(kind, d))
  \/ \E kind \in Kinds, sum \in Props : Elsewhere(EnterCachedSum(kind, sum))
  \/ \E kind \in Kinds, sum \in Props : Elsewhere(BuildCachedSum(kind, sum))
  \/ Elsewhere(Persist)
  \/ \E kept \in 0..Len(tail) : Crash(kept)
  \/ \E req \in Requests : Record(req)
  \/ Suggest
  \/ \E budget \in Budgets : AutoApply(budget)
  \/ \E s \in suggested : TuneDrop(s)
  \/ \E s \in suggested : TuneSkip(s)
  \/ \E s \in suggested : TuneAdd(s)
  \/ TuneBuild \/ TuneBefore \/ TuneApply \/ TuneAfter \/ TuneUndo \/ TuneLast
  \/ TuneFail \/ TuneCut \/ TuneEnd \/ TuneReturn

TuningSpec == TuningInit /\ [][TuningNext]_tuningVars

-----------------------------------------------------------------------------
(* Properties.                                                             *)

KeptIn(what, kind) == {s.prop : s \in {t \in tuner.kept : t.what = what /\ t.kind = kind}}

WithKept ==
  [kind \in Kinds |->
     IF tuner.start[kind] = NoDescriptor THEN NoDescriptor
     ELSE [tuner.start[kind] EXCEPT
             !.indexes = (@ \ KeptIn("drop_index", kind)) \cup KeptIn("add_index", kind),
             !.sums = (@ \ KeptIn("drop_measure", kind)) \cup KeptIn("cache_measure", kind)]]

(* The descriptors are those of the changes kept, and this one more.       *)
OneMore(s) ==
  /\ tuner.start[s.kind] # NoDescriptor
  /\ desc = [WithKept EXCEPT ![s.kind] = Edited(@, s)]

(* The rows of the measures among these changes fit the budget.            *)
WithinBudget(changes) ==
  LET measures == {<<s.kind, s.prop>> : s \in {t \in changes : t.what = "cache_measure"}} IN
  MeasureBytes * Cardinality({at \in DOMAIN maps.rollups : <<at[1], at[3]>> \in measures})
    <= tuner.budget

(* RoundKeepsBounds (ADR 0045): whatever a round ends by, the rows of the  *)
(* measures it leaves fit the budget it was given, whatever was written    *)
(* after they were suggested; and the descriptors are those it began with  *)
(* and the changes it kept, or, only where an error ended it, one change   *)
(* more or less: the one an append failed at may be left whole, and one    *)
(* taken back after a failed probe takes along what already had its name.  *)
RoundKeepsBounds ==
  tuner.at = "end" =>
    /\ WithinBudget(tuner.kept)
    /\ \/ desc = WithKept
       \/ tuner.cut /\ \E s \in suggested :
            s.what # "denormalize" /\ OneMore(s) /\ WithinBudget(tuner.kept \cup {s})
       \/ tuner.failed /\ \E s \in suggested :
            s.what \in DOMAIN Opposite /\ OneMore([s EXCEPT !.what = Opposite[@]])

(* TuningSettles: a round over suggestions that are not out of date leaves       *)
(* nothing to suggest to the same window, but what the round took back or  *)
(* had no budget for: no add makes a drop worth suggesting, or a drop an   *)
(* add, so that rounds do not turn descriptors back and forth.             *)
TuningSettles ==
  tuner.at = "end" /\ ~tuner.failed /\ tuner.fresh =>
    Names({s \in Suggestions(ToSet(samples)) : s.what # "denormalize"})
      \subseteq Names(tuner.undone \cup tuner.skipped)

(* TuningKeepsAnswers (ADR 0045): no step of a round changes an answer.    *)
TuningKeepsAnswers ==
  [][tuner # Idle /\ tuner' # Idle =>
       \A req \in Requests : EvaluateLocal(req)' = EvaluateLocal(req)]_tuningVars

=============================================================================
