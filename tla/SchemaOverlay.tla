--------------------------- MODULE SchemaOverlay ---------------------------
(***************************************************************************)
(* Versioned descriptors, declared migrations, property overlays and the   *)
(* instance they meet on (src/src/schema.rs, src/src/overlay.rs and the    *)
(* schema half of src/src/store/mod.rs), for one kind and one key of it.   *)
(*                                                                         *)
(* A record on the log is a descriptor, an overlay or a generation of the  *)
(* instance.  Every call runs under the store lock; what it wrote is       *)
(* committed with it, or left for a later commit when its own commit fails *)
(* or the caller asked for none.                                           *)
(*                                                                         *)
(* A property value is a name for a string; Fits says which of them a type *)
(* takes.  The time a source gives is a field of its write, not one of the *)
(* properties, and links, sums and indexes of a descriptor are left out:   *)
(* no migration changes an instance for them.                              *)
(***************************************************************************)
EXTENDS Integers, SequencesExt

CONSTANTS
  Names,       \* property names
  Values,      \* property values
  Types,       \* property types
  Templates,   \* what descriptors declare: [types, plan]
  Fits(_, _),  \* Fits(t, v): type t takes value v
  Sources,     \* what a source writes: [props, time]
  Patches,     \* what a clerk admits: [props, cleared, at]
  Ids,         \* Action ids of overlays
  NoRow, NoId,
  MaxLog       \* bound: records on the log

(* What the properties of a row are, and the rows of the log.              *)
PropSets == UNION {[names -> Values] : names \in SUBSET Names}
TypeMaps == UNION {[names -> Types] : names \in SUBSET Names}
Plans == [audit : BOOLEAN, newest : SUBSET Names]
PatchSets == [props : PropSets, cleared : SUBSET Names, at : Int]

Descs == [version : Nat \ {0}, types : TypeMaps, plan : Plans,
          rename : SUBSET (Names \X Names), drop : SUBSET Names, cast : SUBSET Names]

SchemaRows == [row : {"schema"}, hidden : BOOLEAN, desc : Descs]
InstRows == [row : {"inst"}, hidden : BOOLEAN, props : PropSets, id : Ids \cup {NoId},
             version : Nat \ {0}]
OverRows == [row : {"over"}, hidden : BOOLEAN, patch : PatchSets, lost : PropSets,
             id : Ids \cup {NoId}]

ASSUME BoundAssumption == MaxLog \in Nat
ASSUME InputAssumption ==
  /\ Templates \subseteq [types : TypeMaps, plan : Plans]
  /\ Sources \subseteq [props : PropSets, time : Int]
  /\ Patches \subseteq PatchSets
ASSUME AbsentAssumption ==
  NoRow \notin SchemaRows \cup InstRows \cup OverRows /\ NoId \notin Ids

VARIABLES
  log,       \* the records written, committed or not
  committed, \* how many of them a reopen finds
  live       \* schema, inst and over: the live rows; hist: version -> descriptor

vars == <<log, committed, live>>

NoTime == 0

Restricted(f, names) == [n \in DOMAIN f \cap names |-> f[n]]

(* f with the names of g it does not have.                                 *)
Beside(f, g) == [n \in DOMAIN f \cup DOMAIN g |-> IF n \in DOMAIN f THEN f[n] ELSE g[n]]

-----------------------------------------------------------------------------
(* Descriptors.                                                            *)

(* A descriptor: the types of its properties, and how it migrates the      *)
(* previous one.  The casts and drops it must name follow from both.       *)
Declared(desc) == DOMAIN desc.types
Froms(desc) == {r[1] : r \in desc.rename}
Mapped(desc, n) == IF n \in Froms(desc) THEN (CHOOSE r \in desc.rename : r[1] = n)[2] ELSE n

ExpectedDrop(prev, next) == {n \in Declared(prev) : Mapped(next, n) \notin Declared(next)}

ExpectedCast(prev, next) ==
  {m \in Declared(next) : \E n \in Declared(prev) :
                            Mapped(next, n) = m /\ prev.types[n] # next.types[m]}

(* Mutant of CheckReplacement: a target may have been declared before.     *)
CheckAnyTarget(prev, next) ==
  /\ \A r \in next.rename : r[1] # r[2] /\ r[1] \in Declared(prev) /\ r[2] \in Declared(next)
                            /\ r[1] \notin Declared(next)
  /\ next.drop = ExpectedDrop(prev, next)
  /\ next.cast = ExpectedCast(prev, next)

(* check_replacement.                                                      *)
CheckReplacement(prev, next) ==
  /\ \A r \in next.rename : /\ r[1] # r[2]
                            /\ r[1] \in Declared(prev) \ Declared(next)
                            /\ r[2] \in Declared(next) \ Declared(prev)
  /\ \A r, s \in next.rename : r[1] = s[1] <=> r[2] = s[2]
  /\ next.drop = ExpectedDrop(prev, next)
  /\ next.cast = ExpectedCast(prev, next)

Migrates(desc) == desc.rename # {} \/ desc.cast # {} \/ desc.drop # {}

(* SchemaMigration::apply with the dropped keys kept.  A target that is    *)
(* there already, or a value the new type does not take, is an error.      *)
Renamed(desc, props) ==
  [m \in {Mapped(desc, n) : n \in DOMAIN props} |->
     props[CHOOSE n \in DOMAIN props : Mapped(desc, n) = m]]

CanMigrate(desc, props) ==
  /\ \A r \in desc.rename : ~{r[1], r[2]} \subseteq DOMAIN props
  /\ \A m \in desc.cast \cap DOMAIN Renamed(desc, props) :
       Fits(desc.types[m], Renamed(desc, props)[m])

(* SchemaMigration::reverse.                                               *)
Reversed(desc, props) ==
  LET targets == {r[2] : r \in desc.rename} \cap DOMAIN props
      back(m) == (CHOOSE r \in desc.rename : r[2] = m)[1]
  IN Beside([n \in {back(m) : m \in targets} |-> props[Mapped(desc, n)]],
            Restricted(props, Names \ targets))

(* validate: the property set is closed, and every value fits its type.    *)
Valid(desc, props) ==
  /\ DOMAIN props \subseteq Declared(desc)
  /\ \A n \in DOMAIN props : Fits(desc.types[n], props[n])

-----------------------------------------------------------------------------
(* The live projection.                                                    *)

EmptyLive == [schema |-> NoRow, inst |-> NoRow, over |-> NoRow, hist |-> <<>>]

Shown(row) == row # NoRow /\ ~row.hidden
HiddenNow(l) == l.inst # NoRow /\ l.inst.hidden
Versions(l) == DOMAIN l.hist
Latest(l) == l.hist[Max(Versions(l))]
Remembered(hist, desc) ==
  [v \in DOMAIN hist \cup {desc.version} |-> IF v = desc.version THEN desc ELSE hist[v]]

(* Mutant of Remap: the dropped properties are forgotten.                  *)
RemapDropping(inst, desc, hist) ==
  LET earlier == {v \in DOMAIN hist : v < desc.version}
      kept == IF earlier = {} THEN DOMAIN inst.props
              ELSE Declared(hist[Max(earlier)]) \cup Froms(desc)
      moved == Restricted(inst.props, kept)
  IN IF CanMigrate(desc, moved) THEN [inst EXCEPT !.props = Renamed(desc, moved)] ELSE inst

(* remap_kind.  Properties that the previous descriptor did not declare,   *)
(* dropped ones, step aside while the others are renamed and cast.         *)
Remap(inst, desc, hist) ==
  LET earlier == {v \in DOMAIN hist : v < desc.version}
      kept == IF earlier = {} THEN DOMAIN inst.props
              ELSE Declared(hist[Max(earlier)]) \cup Froms(desc)
      moved == Restricted(inst.props, kept)
  IN IF ~CanMigrate(desc, moved) THEN inst
     ELSE [inst EXCEPT !.props =
             Beside(Renamed(desc, moved), Restricted(inst.props, Names \ kept))]

(* apply_record: what one record of the log does to the projection.        *)
ApplyRecord(l, r) ==
  CASE r.row = "schema" ->
         LET hist == IF r.hidden THEN l.hist ELSE Remembered(l.hist, r.desc)
         IN [l EXCEPT !.schema = r, !.hist = hist,
                      !.inst = IF r.hidden \/ ~Migrates(r.desc) \/ @ = NoRow THEN @
                               ELSE Remap(@, r.desc, hist)]
    [] r.row = "over" -> [l EXCEPT !.over = r]
    [] r.row = "inst" -> [l EXCEPT !.inst = r]

Replay(l, records) == FoldLeft(ApplyRecord, l, records)

LiveSchemaHidden(l) == l.schema # NoRow /\ l.schema.hidden

(* current_kind_properties: a hidden descriptor declares nothing, and a    *)
(* caller then takes every property of the row.                            *)
CurrentKindProperties(l, stored) ==
  IF LiveSchemaHidden(l) THEN stored ELSE Declared(Latest(l))

(* omits_current_property: what the current reads leave out.               *)
Omitted(l) ==
  IF Versions(l) = {} \/ LiveSchemaHidden(l) THEN {}
  ELSE (UNION {l.hist[v].drop : v \in Versions(l)}) \ Declared(Latest(l))

(* apply_schema_view with no version named: what was dropped and not       *)
(* declared again is left out.                                             *)
CurrentView(l, props) == Restricted(props, Names \ Omitted(l))

(* load: the current version.  load_at_schema: an earlier one.             *)
Load(l) == CurrentView(l, l.inst.props)

(* Mutant of LoadAt: only the named version's own migration is undone.     *)
LoadAtOne(l, v) ==
  Restricted(IF v + 1 \in Versions(l) THEN Reversed(l.hist[v + 1], l.inst.props) ELSE l.inst.props,
             Declared(l.hist[v]))

LoadAt(l, v) ==
  LET newest == Max(Versions(l))
      undo[w \in v..newest] ==
        IF w = newest THEN l.inst.props ELSE Reversed(l.hist[w + 1], undo[w + 1])
  IN IF v = newest THEN Load(l) ELSE Restricted(undo[v], Declared(l.hist[v]))

-----------------------------------------------------------------------------
(* History: a generation as it is on the log, under today's names.         *)

(* One descriptor's renames, unless the target is stored already.          *)
Ahead(desc, props) ==
  LET moving == {r \in desc.rename : r[1] \in DOMAIN props /\ r[2] \notin DOMAIN props} IN
  Beside([m \in {r[2] : r \in moving} |-> props[(CHOOSE r \in moving : r[2] = m)[1]]],
         Restricted(props, Names \ {r[1] : r \in moving}))

(* Mutant of RenameForward: only the last descriptor's renames.            *)
RenameForwardOne(hist, gen) ==
  IF DOMAIN hist = {} \/ Max(DOMAIN hist) <= gen.version THEN gen.props
  ELSE Ahead(hist[Max(DOMAIN hist)], gen.props)

(* rename_forward.                                                         *)
RenameForward(hist, gen) ==
  LET newest == Max(DOMAIN hist \cup {gen.version})
      under[v \in gen.version..newest] ==
        IF v = gen.version THEN gen.props ELSE Ahead(hist[v], under[v - 1])
  IN under[newest]

(* present_version, without a restriction.                                 *)
PresentVersion(l, gen) == CurrentView(l, RenameForward(l.hist, gen))

(* stored_versions: the committed generations by their place on the log,   *)
(* each with what it came from.                                            *)
Generations(records) == {i \in DOMAIN records : records[i].row = "inst"}

Before(records, i) == {j \in Generations(records) : j < i}
PreviousId(records, i) ==
  IF Before(records, i) = {} THEN NoId ELSE records[Max(Before(records, i))].id

StoredVersions(records) ==
  [i \in Generations(records) |->
     [gen |-> records[i], number |-> Cardinality(Before(records, i)) + 1,
      origin |-> IF records[i].hidden THEN "hide"
                 ELSE IF records[i].id \notin {NoId, PreviousId(records, i)} THEN "edit"
                 ELSE "source"]]

(* history: all of them.                                                   *)
History(l, records) ==
  LET stored == StoredVersions(records)
  IN [i \in DOMAIN stored |-> PresentVersion(l, stored[i].gen)]

(* load_as_of: the one in effect at a commit point, or at a generation.    *)
LoadAsOf(l, records, at) ==
  LET stored == StoredVersions(records)
      by(i) == IF at.by = "commit" THEN i ELSE stored[i].number
  IN PresentVersion(l, stored[Max({i \in DOMAIN stored : by(i) <= at.n})].gen)

-----------------------------------------------------------------------------
(* The writes.  Each appends records; a refused one appends none, unless a *)
(* step before the refusal already has.                                    *)

Schema(hidden, desc) == [row |-> "schema", hidden |-> hidden, desc |-> desc]
(* An instance names the version it was admitted under, or 1 under none.   *)
Inst(l, props, id) ==
  [row |-> "inst", hidden |-> FALSE, props |-> props, id |-> id,
   version |-> IF Shown(l.schema) THEN l.schema.desc.version ELSE 1]
Over(hidden, patch, lost, id) ==
  [row |-> "over", hidden |-> hidden, patch |-> patch, lost |-> lost, id |-> id]

NoPatch == [props |-> <<>>, cleared |-> {}, at |-> NoTime]

(* The call's records reach the log and the projection together; its own   *)
(* commit covers everything before it.                                     *)
Writes(records, commits) ==
  /\ Len(log) + Len(records) <= MaxLog
  /\ log' = log \o records
  /\ live' = Replay(live, records)
  /\ committed' = IF commits THEN Len(log') ELSE committed

(* plan_overlay_migrations: a visible overlay goes along, or the           *)
(* descriptor is refused.                                                  *)
Touched(patch) == DOMAIN patch.props \cup patch.cleared

CarriedPatch(patch, next) ==
  [patch EXCEPT !.props = Renamed(next, @), !.cleared = {Mapped(next, n) : n \in @}]

CarriesOverlay(l, next) ==
  (Migrates(next) /\ Shown(l.over)) =>
    /\ Touched(l.over.patch) \cap next.drop = {}
    /\ CanMigrate(next, l.over.patch.props)
    /\ Touched(CarriedPatch(l.over.patch, next)) \subseteq Declared(next)

(* Mutant of MigratedOverlay: the overlay stays as it was.                 *)
UnmigratedOverlay(l, next) == <<>>

(* The audit of the overlay follows the renames (remapped_audit).          *)
MigratedOverlay(l, next) ==
  IF ~Migrates(next) \/ ~Shown(l.over) \/ CarriedPatch(l.over.patch, next) = l.over.patch THEN <<>>
  ELSE << [l.over EXCEPT !.patch = CarriedPatch(@, next), !.lost = Renamed(next, @)] >>

(* Mutant of CarriesInstance: dropped properties are not looked at.        *)
CarriesDeclared(l, next) ==
  (next.cast # {} \/ next.rename # {}) /\ l.inst # NoRow =>
    CanMigrate(next, IF Shown(l.schema)
                     THEN Restricted(l.inst.props, Declared(Latest(l)) \cup Froms(next))
                     ELSE l.inst.props)

(* plan_instance_migrations, hidden instances included: a rename onto a    *)
(* dropped property that is still stored is refused as well.               *)
CarriesInstance(l, next) ==
  (next.cast # {} \/ next.rename # {}) /\ l.inst # NoRow =>
    LET current == CurrentKindProperties(l, DOMAIN l.inst.props)
    IN /\ \A r \in next.rename : r[2] \in current \/ r[2] \notin DOMAIN l.inst.props
       /\ CanMigrate(next, Restricted(l.inst.props, current \cup Froms(next)))

DescOf(version, t, rename, drop, cast) ==
  [version |-> version, types |-> t.types, plan |-> t.plan,
   rename |-> rename, drop |-> drop, cast |-> cast]

Offered(prev, version, t) ==
  {DescOf(version, t, r, x, ExpectedCast(prev, DescOf(version, t, r, x, {}))) :
     r \in SUBSET (Declared(prev) \X Declared(t)), x \in SUBSET Declared(prev)}

Descriptors(l, version) ==
  IF Versions(l) = {} THEN {DescOf(version, t, {}, {}, {}) : t \in Templates}
  ELSE {d \in UNION {Offered(Latest(l), version, t) : t \in Templates} :
          CheckReplacement(Latest(l), d)}

(* A visible descriptor row: the first one, or a replacement of the latest *)
(* version, hidden since or not.  Its overlay goes with it.                *)
PutSchema ==
  \E next \in Descriptors(live, IF Versions(live) = {} THEN 1 ELSE Max(Versions(live)) + 1) :
    /\ Versions(live) # {} => CarriesOverlay(live, next) /\ CarriesInstance(live, next)
    /\ Writes(<<Schema(FALSE, next)>> \o MigratedOverlay(live, next), TRUE)

HideSchema ==
  /\ Shown(live.schema)
  /\ Writes(<<[live.schema EXCEPT !.hidden = TRUE]>>, TRUE)

Admits(l, props) == Shown(l.schema) => Valid(l.schema.desc, props)

(* apply_with: each property goes to the overlay, unless newest says the   *)
(* source's write is later.  What loses is recorded if the descriptor      *)
(* names a strategy.                                                       *)
Wins(plan, source, patch, n) == n \in plan.newest => patch.at >= source.time

Mergeable(plan, source, patch) ==
  Touched(patch) \cap plan.newest # {} => patch.at # NoTime /\ source.time # NoTime

Merged(plan, source, patch) ==
  LET won == {n \in Touched(patch) : Wins(plan, source, patch, n)}
  IN Beside(Restricted(patch.props, won), Restricted(source.props, Names \ (won \cap patch.cleared)))

Losers(plan, source, patch) ==
  LET won(n) == Wins(plan, source, patch, n)
      lostSource == {n \in Touched(patch) \cap DOMAIN source.props :
                       won(n) /\ (n \in DOMAIN patch.props => patch.props[n] # source.props[n])}
      lostPatch == {n \in DOMAIN patch.props :
                      ~won(n) /\ ~(n \in DOMAIN source.props /\ patch.props[n] = source.props[n])}
  IN Beside(Restricted(source.props, lostSource), Restricted(patch.props, lostPatch))

DefeatedClears(plan, source, patch) ==
  {n \in patch.cleared \cap DOMAIN source.props : ~Wins(plan, source, patch, n)}

Implicit == [audit |-> FALSE, newest |-> {}]
PlanOf(l) == IF Shown(l.schema) THEN l.schema.desc.plan ELSE Implicit

MeetsOverlay(l) == Shown(l.over) /\ ~HiddenNow(l)

(* append_uncommitted of a source snapshot.  The instance takes the Action *)
(* id of the overlay that merged into it.                                  *)
SourceWrite ==
  \E source \in Sources :
    LET patch == live.over.patch
        plan == PlanOf(live)
        merged == IF MeetsOverlay(live) THEN Merged(plan, source, patch) ELSE source.props
        audited == /\ MeetsOverlay(live) /\ plan.audit
                   /\ \/ DOMAIN Losers(plan, source, patch) # {}
                      \/ DefeatedClears(plan, source, patch) # {}
    IN /\ MeetsOverlay(live) => Mergeable(plan, source, patch)
       /\ Admits(live, merged)
       /\ Writes(<<Inst(live, merged, IF MeetsOverlay(live) THEN live.over.id ELSE NoId)>>
                   \o (IF audited THEN <<Over(FALSE, patch, Losers(plan, source, patch), live.over.id)>>
                       ELSE <<>>),
                 FALSE)

(* apply_action: a whole-record replace, with no merge.                    *)
Replace ==
  \E source \in Sources :
    /\ Admits(live, source.props)
    /\ Writes(<<Inst(live, source.props, NoId)>>, TRUE)

(* Mutant of HiddenOverlay: the overlay stays.                             *)
KeptOverlay(l) == <<>>

(* A hide of the instance hides its overlay, with an empty patch.          *)
HiddenOverlay(l) == IF Shown(l.over) THEN <<Over(TRUE, NoPatch, <<>>, NoId)>> ELSE <<>>

(* What is hidden is what a load answers, without the dropped properties,  *)
(* and it names version 1 whatever the descriptor is.  It may be hidden    *)
(* already.                                                                *)
HideInstance ==
  /\ live.inst # NoRow
  /\ Writes(<<[row |-> "inst", hidden |-> TRUE, props |-> Load(live), id |-> live.inst.id,
               version |-> 1]>> \o HiddenOverlay(live), TRUE)

Claimed(id) == \E i \in 1..Len(log) : log[i].row # "schema" /\ log[i].id = id

(* The instance that a patch makes of what a load answers.                 *)
Rematerialized(l, patch) ==
  Merged(Implicit, [props |-> IF Shown(l.inst) THEN Load(l) ELSE <<>>, time |-> NoTime], patch)

(* apply_overlay with a new id.  The overlay is written first, whatever it *)
(* names: it stays when the instance it makes is refused, and of a hidden  *)
(* instance it makes none.  A retry of an id writes nothing.               *)
ApplyOverlay ==
  \E patch \in Patches, id \in Ids :
    LET made == Rematerialized(live, patch)
        overlay == Over(FALSE, patch, <<>>, id)
    IN /\ ~Claimed(id)
       /\ Touched(patch) \cap PlanOf(live).newest # {} => patch.at # NoTime
       /\ IF HiddenNow(live) THEN Writes(<<overlay>>, TRUE)
          ELSE IF Admits(live, made) THEN Writes(<<overlay, Inst(live, made, id)>>, TRUE)
          ELSE Writes(<<overlay>>, FALSE)

Commit ==
  /\ committed < Len(log) /\ committed' = Len(log)
  /\ UNCHANGED <<log, live>>

-----------------------------------------------------------------------------
(* Restoring.                                                              *)

(* The descriptor history that a read of the log finds.                    *)
Recalled(hist, r) ==
  IF r.row = "schema" /\ ~r.hidden THEN Remembered(hist, r.desc) ELSE hist

HistOf(hist, records) == FoldLeft(Recalled, hist, records)

First(n) == SubSeq(log, 1, n)
After(n) == SubSeq(log, n + 1, Len(log))

(* install_projection with a join sidecar of the first s records, which    *)
(* has no descriptor history.  With a log checkpoint the whole history is  *)
(* there before the tail is replayed; without one the tail is replayed     *)
(* with none, and the log is read for it afterwards.                       *)
FromSidecar(s, hist) ==
  [Replay([Replay(EmptyLive, First(s)) EXCEPT !.hist = hist], After(s)) EXCEPT
     !.hist = HistOf(<<>>, log)]

(* A crash, or the abort of a batch that failed: the tail is gone, and     *)
(* replay_from_log reads the rest.                                         *)
Crash ==
  /\ committed < Len(log)
  /\ log' = First(committed)
  /\ live' = Replay(EmptyLive, First(committed))
  /\ UNCHANGED committed

Init == log = <<>> /\ committed = 0 /\ live = EmptyLive

Next ==
  \/ PutSchema \/ HideSchema
  \/ SourceWrite \/ Replace \/ HideInstance \/ ApplyOverlay
  \/ Commit \/ Crash

Spec == Init /\ [][Next]_vars

-----------------------------------------------------------------------------
(* NamedReadsStable: an instance that was not written since reads at an    *)
(* earlier schema version as it read while that version was current,       *)
(* through any later renames, casts, drops and redeclarations.             *)
ReadsAsIn(i) ==
  LET then == Replay(EmptyLive, First(i))
      version == Max(Versions(then))
  IN (Shown(then.schema) /\ then.inst # NoRow) =>
       LoadAt(live, version) =
         IF version = Max(Versions(live)) THEN Load(live)
         ELSE Restricted(Load(then), Declared(Latest(then)))

Unwritten(i) == \A j \in i+1..Len(log) : log[j].row # "inst"
NeverHidden == \A j \in 1..Len(log) : log[j].row = "schema" => ~log[j].hidden

NamedReadsStable == NeverHidden => \A i \in 1..Len(log) : Unwritten(i) => ReadsAsIn(i)

(* NamedReadsReverse (ADR 0035): the same also when the descriptor was     *)
(* hidden before it was replaced.                                          *)
NamedReadsReverse == \A i \in 1..Len(log) : Unwritten(i) => ReadsAsIn(i)

(* HistoryReplays: a generation that is not a hide is, as of its commit    *)
(* point, what load would answer had nothing been written since, if the    *)
(* descriptors that came later would all have taken it along: though load  *)
(* has followed the migrations on the live row one by one, and the history *)
(* reads the log and renames at the end.                                   *)
WithoutWrite(l, r) == IF r.row = "inst" THEN l ELSE ApplyRecord(l, r)

HadItStayed(i, k) ==
  FoldLeft(WithoutWrite, Replay(EmptyLive, First(i)), SubSeq(log, i + 1, k))

TakenAlong(i) ==
  \A k \in i+1..Len(log) :
    log[k].row = "schema" /\ Versions(HadItStayed(i, k - 1)) # {} =>
      CarriesInstance(HadItStayed(i, k - 1), log[k].desc)

AsIfItStayed(i) ==
  LET answer == Load(HadItStayed(i, Len(log)))
  IN /\ LoadAsOf(live, log, [by |-> "commit", n |-> i]) = answer
     /\ LoadAsOf(live, log, [by |-> "generation", n |-> Cardinality(Before(log, i + 1))]) = answer

InEffect(i) == log[Max(Before(log, i + 1))]

HistoryReplays ==
  NeverHidden /\ committed = Len(log) =>
    \A i \in 1..committed :
      Before(log, i + 1) # {} /\ ~InEffect(i).hidden /\ TakenAlong(i) => AsIfItStayed(i)

(* HidesReplay (history.rs:70): the same of every generation.              *)
HidesReplay ==
  NeverHidden /\ committed = Len(log) =>
    \A i \in 1..committed : Before(log, i + 1) # {} /\ TakenAlong(i) => AsIfItStayed(i)

(* EditOnce (history.rs:20): one governed write is one edit.               *)
EditOnce ==
  LET stored == StoredVersions(First(committed)) IN
  \A i, j \in DOMAIN stored :
    stored[i].origin = "edit" /\ stored[j].origin = "edit" /\ stored[i].gen.id = stored[j].gen.id
      => i = j

(* HistoryAsLoaded (history.rs:70): the same when the descriptor was hidden *)
(* while the generation was written.                                       *)
HistoryAsLoaded ==
  committed = Len(log) /\ Shown(live.inst) =>
    History(live, log)[Max(Generations(log))] = Load(live)

(* Where the overlay with an Action id was written first, and what its     *)
(* call found there.                                                       *)
FirstOf(id) == CHOOSE j \in 1..Len(log) :
  log[j].row = "over" /\ log[j].id = id /\ \A k \in 1..j-1 : log[k].row = "over" => log[k].id # id

FoundBy(id) == Replay(EmptyLive, First(FirstOf(id) - 1))

(* OverlayFits: an overlay whose call was answered under a visible         *)
(* descriptor overrides, and records as lost, declared properties only,    *)
(* however often the descriptor was replaced, hidden or restored since.    *)
(* It may clear a name that was not declared when it was admitted.         *)
Accepts(l, patch) == Shown(l.schema) /\ ~HiddenNow(l) /\ Admits(l, Rematerialized(l, patch))
Strays(l, patch) == patch.cleared \ Declared(l.schema.desc)

OverlayFits ==
  Shown(live.schema) /\ Shown(live.over) =>
    LET found == FoundBy(live.over.id)
        patch == log[FirstOf(live.over.id)].patch
    IN Accepts(found, patch) =>
         /\ DOMAIN live.over.patch.props \subseteq Declared(live.schema.desc)
         /\ Touched(live.over.patch) \cup DOMAIN live.over.lost
              \subseteq Declared(live.schema.desc) \cup Strays(found, patch)

(* OverlayDeclared (glossary.md:21): no overlay overrides what is not      *)
(* declared, whatever its call was answered.                               *)
OverlayDeclared ==
  Shown(live.schema) /\ Shown(live.over) =>
    DOMAIN live.over.patch.props \subseteq Declared(live.schema.desc)

(* RecreateIsFresh (ADR 0009): a source write never brings back an overlay *)
(* that was admitted for the instance before it was last recreated.  One   *)
(* for an instance that was hidden is not meant.                           *)
Recreates(r) ==
  /\ log[r].row = "inst" /\ ~log[r].hidden
  /\ \E h \in 1..r-1 : /\ log[h].row = "inst" /\ log[h].hidden
                       /\ \A j \in h+1..r-1 : log[j].row # "inst"

Brings(i) == log[i].row = "inst" /\ ~log[i].hidden /\ log[i].id # NoId

RecreateIsFresh ==
  \A i \in 1..Len(log) :
    Brings(i) /\ ~HiddenNow(FoundBy(log[i].id)) =>
      \A r \in 1..i : Recreates(r) => FirstOf(log[i].id) > r

(* RecreateAppliesNone (mod.rs:885): the same of every overlay.            *)
RecreateAppliesNone ==
  \A i \in 1..Len(log) :
    Brings(i) => \A r \in 1..i : Recreates(r) => FirstOf(log[i].id) > r

(* OverlayFollows: an overlay keeps to its descriptor and to its instance.  *)
OverlayFollows == OverlayFits /\ RecreateIsFresh

(* ReopenIsLive: whichever sidecar a reopen starts from, and with a        *)
(* checkpoint or without, it ends with the rows and the descriptor history *)
(* that the process has.                                                   *)
ReopenIsLive ==
  \A s \in 0..Len(log) : \A hist \in {<<>>, HistOf(<<>>, log)} : FromSidecar(s, hist) = live
=============================================================================
