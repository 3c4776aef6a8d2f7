----------------------------- MODULE JoinMaps -----------------------------
(***************************************************************************)
(* The join projection of one namespace (src/src/joins.rs): the visible    *)
(* rows, and the parent rollups that let evaluate answer a last-hop sum    *)
(* without walking its leaves.  The rollups of a schema's sums and of sums *)
(* an evaluate met first are maintained by differences on every insert and *)
(* removal, rebuilt when a descriptor changes, written beside the rows and *)
(* carried over a reopen by a replay of what followed.                     *)
(*                                                                         *)
(* Strings are interned one to one, so a string stands for its id; by_kind,*)
(* by_prop and amounts index `owned` exactly and are read from it.  A      *)
(* table is never kept empty, so the tables are the rows they have: a row  *)
(* is at <<leaf kind, join property, sum property, parent key>>.           *)
(***************************************************************************)
EXTENDS Integers, FiniteSets, FiniteSetsExt, SequencesExt, Functions

CONSTANTS
  Kinds, Keys, Props,
  Numbers,       \* the values that parse as integers, with their integer
  Offered,       \* rows the writers install: kind, key, props
  Descriptors,   \* per kind, the schema descriptors: sums, indexes, dropped
  NoDescriptor,  \* the kind has none, or it is hidden
  HalfRange,     \* sums wrap into -HalfRange .. HalfRange - 1 (i64)
  LeafBudget,    \* MAX_LAZY_MEASURE_LEAVES
  MaxCached,     \* MAX_CACHED_SUMS
  MaxWrites      \* bound: rows and descriptors written

ASSUME RangeAssumption == HalfRange \in Nat \ {0}
ASSUME NumbersAssumption ==
  \A v \in DOMAIN Numbers : Numbers[v] \in -HalfRange..HalfRange - 1
ASSUME RowsAssumption ==
  \A row \in Offered :
    /\ row.kind \in Kinds /\ row.key \in Keys
    /\ DOMAIN row.props \subseteq Props /\ IsFiniteSet(DOMAIN row.props)
ASSUME DescriptorsAssumption ==
  /\ \A kind \in Kinds : \A d \in Descriptors[kind] :
       d \in [sums : SUBSET Props, indexes : SUBSET Props, dropped : SUBSET Props]
  /\ NoDescriptor \notin [sums : SUBSET Props, indexes : SUBSET Props, dropped : SUBSET Props]
ASSUME SizeAssumption == LeafBudget \in Nat /\ MaxCached \in Nat /\ MaxWrites \in Nat

VARIABLES
  maps,      \* owned, declared, cached, rollups, lazy, dirty
  desc,      \* the live descriptor of each kind
  building,  \* pairs an evaluate has entered in cached and not yet built
  disk,      \* the projection last persisted: owned, measures, desc
  tail,      \* what was written to the log since
  writes     \* how many writes there were

joinVars == <<maps, desc, building, disk, tail, writes>>

-----------------------------------------------------------------------------
(* A map with the entries of another on top.                               *)
Over(top, map) ==
  [x \in DOMAIN top \cup DOMAIN map |-> IF x \in DOMAIN top THEN top[x] ELSE map[x]]

-----------------------------------------------------------------------------
(* What the indexes answer.                                                *)

Wrap(n) == ((n + HalfRange) % (2 * HalfRange)) - HalfRange

VisibleKeys(m, kind) == {key \in Keys : <<kind, key>> \in DOMAIN m.owned}
KeyIsVisible(m, key) == \E kind \in Kinds : <<kind, key>> \in DOMAIN m.owned

(* by_prop: the visible keys of a kind that hold the value.                *)
Children(m, kind, prop, value) ==
  {key \in VisibleKeys(m, kind) :
     /\ prop \in DOMAIN m.owned[<<kind, key>>]
     /\ m.owned[<<kind, key>>][prop] = value}

(* amounts: the integer a row contributes, and whether it has one.         *)
HasAmount(props, prop) == prop \in DOMAIN props /\ props[prop] \in DOMAIN Numbers
Amount(props, prop) == IF HasAmount(props, prop) THEN Numbers[props[prop]] ELSE 0

LeafSums(m, leaf) == {sum \in Props : <<leaf, sum>> \in m.declared \cup m.cached}

(* The rollup of one parent, from the rows.                                *)
Recomputed(m, at) ==
  LET children == Children(m, at[1], at[2], at[4]) IN
  [count |-> Cardinality(children),
   total |-> Wrap(MapThenSumSet(LAMBDA c : Amount(m.owned[<<at[1], c>>], at[3]), children))]

(* The rows a full build of the pair makes.                                *)
FullAts(m, leaf, sum) ==
  {at \in {leaf} \X (Props \ {sum}) \X {sum} \X Keys :
     KeyIsVisible(m, at[4]) /\ Children(m, leaf, at[2], at[4]) # {}}

SameTable(a, b) == \A i \in 1..3 : a[i] = b[i]
HasTable(rows, at) == \E a \in DOMAIN rows : SameTable(a, at)
WithoutRows(rows, ats) == Restrict(rows, DOMAIN rows \ ats)
RowsOf(rows, leaf, sums) == {at \in DOMAIN rows : at[1] = leaf /\ at[3] \in sums}

(* Declared pairs and tables that were persisted live in rollups, others   *)
(* in lazy_rollups.                                                        *)
InRollups(m, at) == <<at[1], at[3]>> \in m.declared \/ HasTable(m.rollups, at)

-----------------------------------------------------------------------------
(* Rows.                                                                   *)

(* bump_table on each row: a count that is not positive removes the row.   *)
BumpEach(rows, ats, sign, props) ==
  LET was(at) == IF at \in DOMAIN rows THEN rows[at] ELSE [count |-> 0, total |-> 0]
      kept == {at \in DOMAIN rows \cup ats : at \notin ats \/ was(at).count + sign > 0} IN
  [at \in kept |->
     IF at \in ats
     THEN [count |-> was(at).count + sign,
           total |-> Wrap(was(at).total + sign * Amount(props, at[3]))]
     ELSE rows[at]]

(* bump_rollup.                                                            *)
Bump(m, ats, sign, props) ==
  LET declared == {at \in ats : InRollups(m, at)} IN
  [m EXCEPT !.rollups = BumpEach(@, declared, sign, props),
            !.lazy = BumpEach(@, ats \ declared, sign, props)]

(* The rows a leaf contributes to, one for each join value and sum.        *)
Contributions(m, kind, props) ==
  {<<kind, p[1], p[2], props[p[1]]>> :
     p \in {q \in (DOMAIN props) \X LeafSums(m, kind) : q[1] # q[2]}}

AddLeafContribution(m, kind, key) ==
  LET props == m.owned[<<kind, key>>] IN
  Bump(m, {at \in Contributions(m, kind, props) : KeyIsVisible(m, at[4])}, 1, props)

SubLeafContribution(m, kind, props) == Bump(m, Contributions(m, kind, props), -1, props)

DropParentRollups(m, parent) ==
  LET others(rows) == {at \in DOMAIN rows : at[4] # parent} IN
  [m EXCEPT !.rollups = Restrict(@, others(@)), !.lazy = Restrict(@, others(@))]

(* Mutant of RestoreParentRollups: only the declared pairs come back.      *)
RestoreDeclaredRollups(m, parent) ==
  LET ats == {at \in UNION {FullAts(m, p[1], p[2]) : p \in m.declared} : at[4] = parent} IN
  [m EXCEPT !.rollups = Over([at \in ats |-> Recomputed(m, at)], @)]

(* A key that is visible again has its rows of every pair rebuilt from the *)
(* children that were there before it.                                     *)
RestoreParentRollups(m, parent) ==
  LET ats == {<<p[1], join, p[2], parent>> : p \in m.declared \cup m.cached, join \in Props}
      live == {at \in ats : at[2] # at[3] /\ Children(m, at[1], at[2], parent) # {}}
      declared == {at \in live : InRollups(m, at)} IN
  [m EXCEPT !.rollups = Over([at \in declared |-> Recomputed(m, at)], @),
            !.lazy = Over([at \in live \ declared |-> Recomputed(m, at)], @)]

(* Mutant of RemoveRow: the leaf that goes leaves its parent's row alone.     *)
RemoveRowOnly(m, kind, key) ==
  IF <<kind, key>> \notin DOMAIN m.owned THEN m
  ELSE LET gone == [m EXCEPT !.owned = Restrict(@, DOMAIN @ \ {<<kind, key>>})] IN
       IF KeyIsVisible(gone, key) THEN gone ELSE DropParentRollups(gone, key)

(* Mutant of RemoveRow: the parent rows go although another kind has the key. *)
RemoveWithParent(m, kind, key) ==
  IF <<kind, key>> \notin DOMAIN m.owned THEN m
  ELSE LET props == m.owned[<<kind, key>>]
           subbed == SubLeafContribution(m, kind, props) IN
       DropParentRollups([subbed EXCEPT !.owned = Restrict(@, DOMAIN @ \ {<<kind, key>>})], key)

(* remove: the leaf's own contribution, its row, then the rows it was a    *)
(* parent of, which stay when another kind still shows the key.            *)
RemoveRow(m, kind, key) ==
  IF <<kind, key>> \notin DOMAIN m.owned THEN m
  ELSE LET props == m.owned[<<kind, key>>]
           subbed == SubLeafContribution(m, kind, props)
           gone == [subbed EXCEPT !.owned = Restrict(@, DOMAIN @ \ {<<kind, key>>})] IN
       IF KeyIsVisible(gone, key) THEN RestoreParentRollups(gone, key)
       ELSE DropParentRollups(gone, key)

(* insert_visible, after the remove of install_live.                       *)
InsertVisible(m, kind, key, props) ==
  LET removed == RemoveRow(m, kind, key)
      owned == [removed EXCEPT !.owned = Over([id \in {<<kind, key>>} |-> props], @)] IN
  RestoreParentRollups(AddLeafContribution(owned, kind, key), key)

-----------------------------------------------------------------------------
(* Measures.                                                               *)

(* rebuild_leaf_rollups: the declared and the cached sums of the kind.     *)
RebuildLeafRollups(m, leaf) ==
  LET ats == UNION {FullAts(m, leaf, sum) : sum \in LeafSums(m, leaf)}
      cleared(rows) == WithoutRows(rows, RowsOf(rows, leaf, Props)) IN
  [m EXCEPT !.rollups = Over([at \in ats |-> Recomputed(m, at)], cleared(@)),
            !.lazy = cleared(@)]

DropCachedPairs(m, leaf, sums) ==
  [m EXCEPT !.cached = {p \in @ : ~(p[1] = leaf /\ p[2] \in sums)},
            !.lazy = WithoutRows(@, RowsOf(@, leaf, sums))]

(* adopt_declared_sums: nothing is rebuilt.                                *)
AdoptDeclaredSums(m, leaf, sums) ==
  DropCachedPairs(
    [m EXCEPT !.declared = {p \in @ : p[1] # leaf} \cup ({leaf} \X sums)], leaf, sums)

(* Mutant of SetDeclaredSums: the tables are taken as they are.            *)
SetDeclaredOnly(m, leaf, sums) == AdoptDeclaredSums(m, leaf, sums)

SetDeclaredSums(m, leaf, sums) == RebuildLeafRollups(AdoptDeclaredSums(m, leaf, sums), leaf)

ClearDeclaredSums(m, leaf) ==
  LET cleared == [m EXCEPT !.declared = {p \in @ : p[1] # leaf}] IN
  IF LeafSums(cleared, leaf) = {}
  THEN [DropCachedPairs(cleared, leaf, Props) EXCEPT
          !.rollups = WithoutRows(@, RowsOf(@, leaf, Props))]
  ELSE RebuildLeafRollups(cleared, leaf)

(* refresh_leaf_measures: a descriptor became the live one, or went.       *)
RefreshLeafMeasures(m, kind, d) ==
  IF d = NoDescriptor THEN ClearDeclaredSums(m, kind) ELSE SetDeclaredSums(m, kind, d.sums)

(* write_measures: both maps; a table both have is written once.           *)
WriteMeasures(m) ==
  Over(m.rollups, Restrict(m.lazy, {at \in DOMAIN m.lazy : ~HasTable(m.rollups, at)}))

(* adopt_lazy_rollups.                                                     *)
AdoptLazyRollups(m) ==
  [m EXCEPT !.rollups = WriteMeasures(m), !.lazy = <<>>, !.dirty = FALSE]

(* read_measures and insert_visible_ids: the rows are read with their      *)
(* rollups.                                                                *)
ReadMeasures(image) ==
  [owned |-> image.owned, declared |-> {}, cached |-> {}, rollups |-> image.measures,
   lazy |-> <<>>, dirty |-> FALSE]

(* recover_cached_sums: rollups of no declared sum are those of a cache.   *)
RecoverCachedSums(m) ==
  [m EXCEPT !.cached = {<<at[1], at[3]>> : at \in DOMAIN m.rollups} \ m.declared]

(* adopt_declared_measures: the sums of the visible descriptors, over maps *)
(* that have no cache and no first-use table yet.                          *)
AdoptDeclaredMeasures(m, descs) ==
  RecoverCachedSums(
    [m EXCEPT !.declared =
       UNION {{kind} \X descs[kind].sums : kind \in {k \in Kinds : descs[k] # NoDescriptor}}])

Adopt(image) == AdoptDeclaredMeasures(ReadMeasures(image), image.desc)

(* What one record of the log does to the maps.                            *)
Applied(m, op) ==
  IF op.what = "row" THEN InsertVisible(m, op.kind, op.key, op.props)
  ELSE IF op.what = "hide" THEN RemoveRow(m, op.kind, op.key)
  ELSE RefreshLeafMeasures(m, op.kind, op.desc)

-----------------------------------------------------------------------------
(* Steps.  Writers and persists hold the store's lock exclusively, an      *)
(* evaluate shares it: nothing is written while a build is under way.      *)

Write(op) ==
  /\ building = {}
  /\ writes < MaxWrites
  /\ maps' = Applied(maps, op)
  /\ tail' = Append(tail, op)
  /\ writes' = writes + 1
  /\ UNCHANGED <<building, disk>>

Install(row) ==
  /\ Write([what |-> "row", kind |-> row.kind, key |-> row.key, props |-> row.props])
  /\ UNCHANGED desc

Hide(kind, key) ==
  /\ <<kind, key>> \in DOMAIN maps.owned
  /\ Write([what |-> "hide", kind |-> kind, key |-> key])
  /\ UNCHANGED desc

Describe(kind, d) ==
  /\ desc[kind] # d
  /\ Write([what |-> "desc", kind |-> kind, desc |-> d])
  /\ desc' = [desc EXCEPT ![kind] = d]

(* ensure_cached_sum, up to the entry in cached_sums: an evaluate of a sum *)
(* that is not measured, over a leaf within the budget and below the cap;  *)
(* beyond them the evaluate fails and nothing changes.                     *)
EnterCachedSum(leaf, sum) ==
  /\ <<leaf, sum>> \notin maps.declared \cup maps.cached
  /\ Cardinality(VisibleKeys(maps, leaf)) <= LeafBudget
  /\ \E key \in VisibleKeys(maps, leaf) : HasAmount(maps.owned[<<leaf, key>>], sum)
  /\ Cardinality(maps.cached) < MaxCached
  /\ maps' = [maps EXCEPT !.cached = @ \cup {<<leaf, sum>>}]
  /\ building' = building \cup {<<leaf, sum>>}
  /\ UNCHANGED <<desc, disk, tail, writes>>

MaterializeLazy(leaf, sum) == FullAts(maps, leaf, sum)

(* materialize_lazy_rollups and the entry of the tables it built; a pair   *)
(* without a table is not cached.                                          *)
BuildCachedSum(leaf, sum) ==
  LET ats == MaterializeLazy(leaf, sum) IN
  /\ <<leaf, sum>> \in building
  /\ maps' = IF ats = {} THEN [maps EXCEPT !.cached = @ \ {<<leaf, sum>>}]
             ELSE [maps EXCEPT !.lazy = Over([at \in ats |-> Recomputed(maps, at)], @),
                               !.dirty = TRUE]
  /\ building' = building \ {<<leaf, sum>>}
  /\ UNCHANGED <<desc, disk, tail, writes>>

(* A checkpoint of the projection: first-use tables move to rollups.       *)
Persist ==
  /\ building = {}
  /\ tail # <<>> \/ maps.dirty
  /\ disk' = [owned |-> maps.owned, measures |-> WriteMeasures(maps), desc |-> desc]
  /\ tail' = <<>>
  /\ maps' = AdoptLazyRollups(maps)
  /\ UNCHANGED <<desc, building, writes>>

(* Mutant of Replayed: the descriptors of the tail are only adopted.       *)
ReplayedRowsOnly(m, ops) ==
  FoldLeft(LAMBDA acc, op : IF op.what = "desc" /\ op.desc # NoDescriptor
                            THEN AdoptDeclaredSums(acc, op.kind, op.desc.sums)
                            ELSE Applied(acc, op), m, ops)

Replayed(m, ops) == FoldLeft(Applied, m, ops)

(* The live descriptors behind the records of a log.                       *)
DescribedBy(descs, op) ==
  IF op.what = "desc" THEN [descs EXCEPT ![op.kind] = op.desc] ELSE descs

Described(descs, ops) == FoldLeft(DescribedBy, descs, ops)

(* The store is opened again: the persisted projection, then the records   *)
(* behind it, from the delta frames or the log; what was not committed is  *)
(* lost.  install_projection persists what it replayed from the log.       *)
Reopen(kept) ==
  LET ops == SubSeq(tail, 1, kept)
      loaded == Replayed(Adopt(disk), ops)
      described == Described(disk.desc, ops) IN
  /\ building' = {}
  /\ desc' = described
  /\ \/ /\ maps' = loaded
        /\ tail' = ops
        /\ UNCHANGED disk
     \/ /\ maps' = AdoptLazyRollups(loaded)
        /\ tail' = <<>>
        /\ disk' = [owned |-> loaded.owned, measures |-> WriteMeasures(loaded),
                    desc |-> described]
  /\ UNCHANGED writes

Nothing == [owned |-> <<>>, measures |-> <<>>, desc |-> [kind \in Kinds |-> NoDescriptor]]

JoinInit ==
  /\ maps = Adopt(Nothing)
  /\ desc = Nothing.desc
  /\ building = {}
  /\ disk = Nothing
  /\ tail = <<>>
  /\ writes = 0

JoinNext ==
  \/ \E row \in Offered : Install(row)
  \/ \E kind \in Kinds, key \in Keys : Hide(kind, key)
  \/ \E kind \in Kinds : \E d \in Descriptors[kind] \cup {NoDescriptor} : Describe(kind, d)
  \/ \E kind \in Kinds, sum \in Props : EnterCachedSum(kind, sum)
  \/ \E kind \in Kinds, sum \in Props : BuildCachedSum(kind, sum)
  \/ Persist
  \/ \E kept \in 0..Len(tail) : Reopen(kept)

JoinSpec == JoinInit /\ [][JoinNext]_joinVars

-----------------------------------------------------------------------------
(* Properties.                                                             *)

(* Every rollup is what a walk over the leaves would count now, and a      *)
(* table evaluate would fold has a row for every visible parent with a     *)
(* child, in one of the two maps: after leaves that moved, were hidden and *)
(* came back, parents that came after their children, keys two kinds       *)
(* share, sums declared, dropped and met first by an evaluate, and reopens *)
(* from a checkpoint of the projection with a tail (joins.rs keeps them by *)
(* differences, keyed by the parent's key alone).                          *)
MeasuresExact ==
  LET rows == DOMAIN maps.rollups \cup DOMAIN maps.lazy IN
  /\ \A at \in DOMAIN maps.rollups :
       ~HasTable(maps.lazy, at) /\ maps.rollups[at] = Recomputed(maps, at)
  /\ \A at \in DOMAIN maps.lazy : maps.lazy[at] = Recomputed(maps, at)
  /\ \A at \in rows :
       /\ KeyIsVisible(maps, at[4])
       /\ <<at[1], at[3]>> \in maps.declared \cup maps.cached
       /\ \A b \in FullAts(maps, at[1], at[3]) : SameTable(b, at) => b \in rows

=============================================================================
