------------------------ MODULE SchemaOverlayProofs ------------------------
(***************************************************************************)
(* Proofs about SchemaOverlay, for every set of names, values, types,      *)
(* descriptors, sources and patches, and a log of any length.              *)
(***************************************************************************)
EXTENDS SchemaOverlay, FoldLemmas

Records == SchemaRows \cup InstRows \cup OverRows
Hists == UNION {[versions -> Descs] : versions \in SUBSET (Nat \ {0})}
Lives == [schema : SchemaRows \cup {NoRow}, inst : InstRows \cup {NoRow},
          over : OverRows \cup {NoRow}, hist : Hists]

-----------------------------------------------------------------------------
(* Property sets.                                                          *)

LEMMA PropsAre ==
  ASSUME NEW props \in PropSets
  PROVE  /\ DOMAIN props \subseteq Names /\ \A n \in DOMAIN props : props[n] \in Values
         /\ props = [n \in DOMAIN props |-> props[n]]
<1>1. PICK names \in SUBSET Names : props \in [names -> Values]
  BY DEF PropSets
<1> QED BY <1>1

LEMMA PropsFrom ==
  ASSUME NEW names \in SUBSET Names, NEW props \in [names -> Values]
  PROVE  props \in PropSets /\ DOMAIN props = names
BY DEF PropSets

(* Two functions with the same domain and values are equal.                *)
LEMMA SameProps ==
  ASSUME NEW f, NEW g, f = [n \in DOMAIN f |-> f[n]], g = [n \in DOMAIN g |-> g[n]],
         DOMAIN f = DOMAIN g, \A n \in DOMAIN f : f[n] = g[n]
  PROVE  f = g
OBVIOUS

LEMMA EmptyProps == <<>> \in PropSets /\ DOMAIN <<>> = {}
<1>1. <<>> \in [{} -> Values]
  OBVIOUS
<1> QED BY <1>1 DEF PropSets

LEMMA RestrictedIs ==
  ASSUME NEW f, NEW names
  PROVE  /\ DOMAIN Restricted(f, names) = DOMAIN f \cap names
         /\ \A n \in DOMAIN f \cap names : Restricted(f, names)[n] = f[n]
         /\ Restricted(f, names) = [n \in DOMAIN Restricted(f, names) |-> Restricted(f, names)[n]]
BY DEF Restricted

LEMMA RestrictedTyped ==
  ASSUME NEW f \in PropSets, NEW names
  PROVE  Restricted(f, names) \in PropSets
<1>1. Restricted(f, names) \in [DOMAIN f \cap names -> Values]
  BY PropsAre DEF Restricted
<1> QED BY <1>1, PropsAre, PropsFrom

(* What takes in every name takes in all of it.                            *)
LEMMA RestrictedAll ==
  ASSUME NEW f \in PropSets, NEW names, DOMAIN f \subseteq names
  PROVE  Restricted(f, names) = f
<1>1. DOMAIN f \cap names = DOMAIN f /\ f = [n \in DOMAIN f |-> f[n]]
  BY PropsAre
<1> DEFINE g == Restricted(f, names)
<1>2. /\ DOMAIN g = DOMAIN f \cap names /\ g = [n \in DOMAIN g |-> g[n]]
      /\ \A n \in DOMAIN f \cap names : g[n] = f[n]
  BY RestrictedIs
<1> HIDE DEF g
<1>3. f = g
  BY <1>1, <1>2, SameProps
<1> QED BY <1>3 DEF g

LEMMA BesideIs ==
  ASSUME NEW f, NEW g
  PROVE  /\ DOMAIN Beside(f, g) = DOMAIN f \cup DOMAIN g
         /\ \A n \in DOMAIN f \cup DOMAIN g :
              Beside(f, g)[n] = IF n \in DOMAIN f THEN f[n] ELSE g[n]
         /\ Beside(f, g) = [n \in DOMAIN Beside(f, g) |-> Beside(f, g)[n]]
BY DEF Beside

LEMMA BesideTyped ==
  ASSUME NEW f \in PropSets, NEW g \in PropSets
  PROVE  Beside(f, g) \in PropSets
<1>1. Beside(f, g) \in [DOMAIN f \cup DOMAIN g -> Values]
  BY PropsAre DEF Beside
<1> QED BY <1>1, PropsAre, PropsFrom

-----------------------------------------------------------------------------
(* What a descriptor does to the names.                                    *)

LEMMA DescParts ==
  ASSUME NEW desc \in Descs
  PROVE  /\ desc.version \in Nat \ {0} /\ desc.plan \in Plans
         /\ desc.types \in TypeMaps /\ Declared(desc) \subseteq Names
         /\ desc.rename \subseteq Names \X Names
         /\ desc.drop \subseteq Names /\ desc.cast \subseteq Names
BY DEF Descs, TypeMaps, Declared

LEMMA RenamePair ==
  ASSUME NEW desc \in Descs, NEW r \in desc.rename
  PROVE  r[1] \in Names /\ r[2] \in Names /\ r = <<r[1], r[2]>> /\ r[1] \in Froms(desc)
BY DescParts DEF Froms

LEMMA MappedIs ==
  ASSUME NEW desc \in Descs, NEW n
  PROVE  /\ n \notin Froms(desc) => Mapped(desc, n) = n
         /\ n \in Froms(desc) => \E r \in desc.rename : r[1] = n /\ r[2] = Mapped(desc, n)
         /\ n \in Names => Mapped(desc, n) \in Names
<1>1. ASSUME n \in Froms(desc)
      PROVE  \E r \in desc.rename : r[1] = n /\ r[2] = Mapped(desc, n)
  <2>1. \E r \in desc.rename : r[1] = n
    BY <1>1 DEF Froms
  <2> QED BY <1>1, <2>1 DEF Mapped
<1>2. n \notin Froms(desc) => Mapped(desc, n) = n
  BY DEF Mapped
<1> QED BY <1>1, <1>2, RenamePair

LEMMA RenamedDomain ==
  ASSUME NEW desc, NEW props
  PROVE  /\ DOMAIN Renamed(desc, props) = {Mapped(desc, n) : n \in DOMAIN props}
         /\ Renamed(desc, props) = [m \in DOMAIN Renamed(desc, props) |-> Renamed(desc, props)[m]]
BY DEF Renamed

LEMMA RenamedAt ==
  ASSUME NEW desc, NEW props, NEW m \in DOMAIN Renamed(desc, props)
  PROVE  \E n \in DOMAIN props : Mapped(desc, n) = m /\ Renamed(desc, props)[m] = props[n]
<1> DEFINE c == CHOOSE n \in DOMAIN props : Mapped(desc, n) = m
<1>1. Renamed(desc, props)[m] = props[c]
  BY DEF Renamed
<1>2. \E n \in DOMAIN props : Mapped(desc, n) = m
  BY DEF Renamed
<1>3. c \in DOMAIN props /\ Mapped(desc, c) = m
  BY <1>2
<1> HIDE DEF c
<1> QED BY <1>1, <1>3

LEMMA RenamedTyped ==
  ASSUME NEW desc \in Descs, NEW props \in PropSets
  PROVE  Renamed(desc, props) \in PropSets
<1> DEFINE names == {Mapped(desc, n) : n \in DOMAIN props}
<1>1. names \in SUBSET Names
  BY PropsAre, MappedIs
<1>2. /\ DOMAIN Renamed(desc, props) = names
      /\ Renamed(desc, props) = [m \in DOMAIN Renamed(desc, props) |-> Renamed(desc, props)[m]]
  BY RenamedDomain
<1>3. ASSUME NEW m \in DOMAIN Renamed(desc, props)
      PROVE  Renamed(desc, props)[m] \in Values
  <2>1. PICK n \in DOMAIN props : Renamed(desc, props)[m] = props[n]
    BY RenamedAt
  <2> QED BY <2>1, PropsAre
<1>4. Renamed(desc, props) \in [names -> Values]
  <2> HIDE DEF names
  <2> QED BY <1>2, <1>3
<1> HIDE DEF names
<1> QED BY <1>1, <1>4, PropsFrom

LEMMA RemapTyped ==
  ASSUME NEW inst \in InstRows, NEW desc \in Descs, NEW hist
  PROVE  /\ Remap(inst, desc, hist) \in InstRows
         /\ Remap(inst, desc, hist).hidden = inst.hidden
         /\ Remap(inst, desc, hist).id = inst.id
         /\ Remap(inst, desc, hist).version = inst.version
<1> DEFINE earlier == {v \in DOMAIN hist : v < desc.version}
           kept == IF earlier = {} THEN DOMAIN inst.props
                   ELSE Declared(hist[Max(earlier)]) \cup Froms(desc)
           moved == Restricted(inst.props, kept)
           props == Beside(Renamed(desc, moved), Restricted(inst.props, Names \ kept))
<1>1. inst.props \in PropSets
  BY DEF InstRows
<1>2. moved \in PropSets /\ Restricted(inst.props, Names \ kept) \in PropSets
  BY <1>1, RestrictedTyped
<1>3. props \in PropSets
  <2> HIDE DEF moved, kept
  <2> QED BY <1>2, RenamedTyped, BesideTyped
<1>4. Remap(inst, desc, hist) \in {inst, [inst EXCEPT !.props = props]}
  BY DEF Remap
<1> HIDE DEF props
<1> QED BY <1>3, <1>4 DEF InstRows

-----------------------------------------------------------------------------
(* The live projection after one record more.                              *)

LEMMA HistParts ==
  ASSUME NEW hist \in Hists
  PROVE  /\ DOMAIN hist \subseteq Nat \ {0}
         /\ \A v \in DOMAIN hist : hist[v] \in Descs
         /\ hist = [v \in DOMAIN hist |-> hist[v]]
<1>1. PICK versions \in SUBSET (Nat \ {0}) : hist \in [versions -> Descs]
  BY DEF Hists
<1> QED BY <1>1

LEMMA SameHist ==
  ASSUME NEW g \in Hists, NEW h \in Hists, DOMAIN g = DOMAIN h,
         \A v \in DOMAIN g : g[v] = h[v]
  PROVE  g = h
<1>1. g = [v \in DOMAIN g |-> g[v]] /\ h = [v \in DOMAIN h |-> h[v]]
  BY HistParts
<1> QED BY <1>1

LEMMA NoHist == <<>> \in Hists /\ DOMAIN <<>> = {}
<1>1. <<>> \in [{} -> Descs]
  OBVIOUS
<1> QED BY <1>1 DEF Hists

LEMMA RememberedIs ==
  ASSUME NEW hist \in Hists, NEW desc \in Descs
  PROVE  /\ Remembered(hist, desc) \in Hists
         /\ DOMAIN Remembered(hist, desc) = DOMAIN hist \cup {desc.version}
         /\ Remembered(hist, desc)[desc.version] = desc
         /\ \A v \in DOMAIN hist \ {desc.version} : Remembered(hist, desc)[v] = hist[v]
<1> DEFINE versions == DOMAIN hist \cup {desc.version}
<1>1. versions \in SUBSET (Nat \ {0})
  BY HistParts, DescParts
<1>2. Remembered(hist, desc) \in [versions -> Descs]
  BY HistParts DEF Remembered
<1> QED BY <1>1, <1>2 DEF Hists, Remembered

LEMMA RowKinds ==
  /\ \A r \in SchemaRows : r.row = "schema" /\ r # NoRow
  /\ \A r \in InstRows : r.row = "inst" /\ r # NoRow
  /\ \A r \in OverRows : r.row = "over" /\ r # NoRow
  /\ \A r \in Records : /\ r.row = "schema" => r \in SchemaRows
                        /\ r.row = "inst" => r \in InstRows
                        /\ r.row = "over" => r \in OverRows
                        /\ r.row \in {"schema", "inst", "over"}
<1>1. \A r \in SchemaRows : r.row = "schema"
  BY DEF SchemaRows
<1>2. \A r \in InstRows : r.row = "inst"
  BY DEF InstRows
<1>3. \A r \in OverRows : r.row = "over"
  BY DEF OverRows
<1> QED BY <1>1, <1>2, <1>3, AbsentAssumption DEF Records

LEMMA LiveParts ==
  ASSUME NEW l \in Lives
  PROVE  /\ l.schema \in SchemaRows \cup {NoRow} /\ l.inst \in InstRows \cup {NoRow}
         /\ l.over \in OverRows \cup {NoRow} /\ l.hist \in Hists
BY DEF Lives

LEMMA SameLive ==
  ASSUME NEW l \in Lives, NEW m \in Lives,
         l.schema = m.schema, l.inst = m.inst, l.over = m.over, l.hist = m.hist
  PROVE  l = m
BY DEF Lives

LEMMA EmptyLiveIs ==
  /\ EmptyLive \in Lives
  /\ EmptyLive.schema = NoRow /\ EmptyLive.inst = NoRow /\ EmptyLive.over = NoRow
  /\ EmptyLive.hist = <<>>
BY NoHist DEF EmptyLive, Lives

LEMMA ApplyOver ==
  ASSUME NEW l \in Lives, NEW r \in OverRows
  PROVE  /\ ApplyRecord(l, r) \in Lives
         /\ ApplyRecord(l, r).schema = l.schema /\ ApplyRecord(l, r).inst = l.inst
         /\ ApplyRecord(l, r).over = r /\ ApplyRecord(l, r).hist = l.hist
<1>1. ApplyRecord(l, r) = [l EXCEPT !.over = r]
  BY RowKinds DEF ApplyRecord
<1> QED BY <1>1 DEF Lives

LEMMA ApplyInst ==
  ASSUME NEW l \in Lives, NEW r \in InstRows
  PROVE  /\ ApplyRecord(l, r) \in Lives
         /\ ApplyRecord(l, r).schema = l.schema /\ ApplyRecord(l, r).inst = r
         /\ ApplyRecord(l, r).over = l.over /\ ApplyRecord(l, r).hist = l.hist
<1>1. ApplyRecord(l, r) = [l EXCEPT !.inst = r]
  BY RowKinds DEF ApplyRecord
<1> QED BY <1>1 DEF Lives

HistAfter(l, r) == IF r.hidden THEN l.hist ELSE Remembered(l.hist, r.desc)

InstAfter(l, r) ==
  IF r.hidden \/ ~Migrates(r.desc) \/ l.inst = NoRow THEN l.inst
  ELSE Remap(l.inst, r.desc, HistAfter(l, r))

LEMMA ApplySchema ==
  ASSUME NEW l \in Lives, NEW r \in SchemaRows
  PROVE  /\ ApplyRecord(l, r) \in Lives
         /\ ApplyRecord(l, r).schema = r /\ ApplyRecord(l, r).inst = InstAfter(l, r)
         /\ ApplyRecord(l, r).over = l.over /\ ApplyRecord(l, r).hist = HistAfter(l, r)
<1> DEFINE hist == HistAfter(l, r)
           inst == InstAfter(l, r)
<1>1. ApplyRecord(l, r) = [l EXCEPT !.schema = r, !.hist = hist, !.inst = inst]
  BY RowKinds DEF ApplyRecord, HistAfter, InstAfter
<1>2. r.desc \in Descs
  BY DEF SchemaRows
<1>3. hist \in Hists
  BY <1>2, LiveParts, RememberedIs DEF HistAfter
<1>4. inst \in InstRows \cup {NoRow}
  BY <1>2, LiveParts, RemapTyped DEF InstAfter
<1> HIDE DEF hist, inst
<1>5. ApplyRecord(l, r) \in Lives
  BY <1>1, <1>3, <1>4 DEF Lives
<1>6. /\ ApplyRecord(l, r).schema = r /\ ApplyRecord(l, r).inst = inst
      /\ ApplyRecord(l, r).over = l.over /\ ApplyRecord(l, r).hist = hist
  BY <1>1 DEF Lives
<1> QED BY <1>5, <1>6 DEF hist, inst

LEMMA ApplyTyped ==
  ASSUME NEW l \in Lives, NEW r \in Records
  PROVE  ApplyRecord(l, r) \in Lives
BY ApplyOver, ApplyInst, ApplySchema DEF Records

ApplyStep == [p \in Lives \X Records |-> ApplyRecord(p[1], p[2])]

LEMMA ReplayFolds ==
  ASSUME NEW l \in Lives, NEW seq \in Seq(Records)
  PROVE  Replay(l, seq) = Folded(l, ApplyStep, seq)
<1> DEFINE N == Len(seq)
           F(g) == g = [s \in SUBSET (1..N) |->
                          IF s = {} THEN l ELSE ApplyRecord(g[s \ {Max(s)}], seq[Max(s)])]
<1>1. N \in Nat /\ DOMAIN seq = 1..N /\ \A i \in 1..N : seq[i] \in Records
  BY LenProperties, ElementOfSeq
<1>2. ApplyStep \in [Lives \X Records -> Lives]
  BY ApplyTyped DEF ApplyStep
<1>3. \A a \in Lives, r \in Records : ApplyStep[<<a, r>>] = ApplyRecord(a, r)
  BY DEF ApplyStep
<1>4. ASSUME NEW g, FoldsTo(g, l, ApplyStep, seq, N) PROVE F(g)
  <2>1. \A s \in SUBSET (1..N) :
          /\ g[s] \in Lives
          /\ s # {} => Max(s) \in 1..N /\ s \ {Max(s)} \in SUBSET (1..N)
    BY <1>2, <1>4, FoldsToTyped
  <2>2. \A s \in SUBSET (1..N) : s # {} =>
          ApplyStep[<<g[s \ {Max(s)}], seq[Max(s)]>>] = ApplyRecord(g[s \ {Max(s)}], seq[Max(s)])
    BY <1>1, <1>3, <2>1
  <2> HIDE DEF N
  <2> QED BY <1>4, <2>2 DEF FoldsTo
<1>5. ASSUME NEW g, F(g) PROVE FoldsTo(g, l, ApplyStep, seq, N)
  <2>1. g = [s \in SUBSET (1..N) |-> g[s]] /\ g[{}] = l
    BY <1>5
  <2>2. \A s \in SUBSET (1..N) :
          s # {} /\ g[s \ {Max(s)}] \in Lives /\ seq[Max(s)] \in Records
            => g[s] = ApplyStep[<<g[s \ {Max(s)}], seq[Max(s)]>>]
    BY <1>3, <1>5
  <2> QED BY <1>2, <2>1, <2>2, FoldsToFrom
<1> DEFINE h == CHOOSE g : F(g)
<1>6. F(h)
  <2>1. \E g : F(g)
    BY <1>1, <1>4, FoldsExist
  <2> HIDE DEF F
  <2> QED BY <2>1
<1>7. Replay(l, seq) = h[1..N]
  BY <1>1 DEF Replay, FoldLeft, MapThenFoldSet
<1> HIDE DEF F, h
<1>8. Folded(l, ApplyStep, seq) = h[1..N]
  BY <1>1, <1>5, <1>6, FoldedIs
<1> QED BY <1>7, <1>8

LEMMA ReplayEmpty ==
  ASSUME NEW l \in Lives
  PROVE  Replay(l, <<>>) = l
<1>1. <<>> \in Seq(Records)
  OBVIOUS
<1> QED BY <1>1, ReplayFolds, FoldedEmpty

LEMMA ReplayAppend ==
  ASSUME NEW l \in Lives, NEW seq \in Seq(Records), NEW rec \in Records
  PROVE  /\ Replay(l, seq) \in Lives
         /\ Replay(l, Append(seq, rec)) = ApplyRecord(Replay(l, seq), rec)
<1>1. ApplyStep \in [Lives \X Records -> Lives]
  BY ApplyTyped DEF ApplyStep
<1> DEFINE a == Folded(l, ApplyStep, seq)
<1>2. a \in Lives
  BY <1>1, FoldedTyped
<1>3. Replay(l, seq) = a
  BY ReplayFolds
<1>4. Append(seq, rec) \in Seq(Records)
  BY AppendProperties
<1>5. Replay(l, Append(seq, rec)) = Folded(l, ApplyStep, Append(seq, rec))
  BY <1>4, ReplayFolds
<1>6. Folded(l, ApplyStep, Append(seq, rec)) = ApplyStep[<<a, rec>>]
  BY FoldedAppend
<1> HIDE DEF a
<1>7. ApplyStep[<<a, rec>>] = ApplyRecord(a, rec)
  BY <1>2 DEF ApplyStep
<1> QED BY <1>2, <1>3, <1>5, <1>6, <1>7

LEMMA ReplayTyped ==
  ASSUME NEW l \in Lives, NEW seq \in Seq(Records)
  PROVE  Replay(l, seq) \in Lives
<1>1. ApplyStep \in [Lives \X Records -> Lives]
  BY ApplyTyped DEF ApplyStep
<1>2. Folded(l, ApplyStep, seq) \in Lives
  BY <1>1, FoldedTyped
<1> QED BY <1>2, ReplayFolds

-----------------------------------------------------------------------------
(* Prefixes of a log.                                                      *)

LEMMA PiecesGrow ==
  ASSUME NEW S, NEW seq \in Seq(S), NEW a \in 1..Len(seq) + 1, NEW k \in a - 1..Len(seq)
  PROVE  /\ SubSeq(seq, a, k) \in Seq(S) /\ Len(SubSeq(seq, a, k)) = k - a + 1
         /\ \A i \in 1..k - a + 1 : SubSeq(seq, a, k)[i] = seq[a + i - 1]
         /\ k = a - 1 => SubSeq(seq, a, k) = <<>>
         /\ k < Len(seq) => /\ SubSeq(seq, a, k + 1) = Append(SubSeq(seq, a, k), seq[k + 1])
                            /\ seq[k + 1] \in S
<1>1. Len(seq) \in Nat /\ \A i \in 1..Len(seq) : seq[i] \in S
  BY LenProperties, ElementOfSeq
<1> QED BY <1>1

LEMMA WholePiece ==
  ASSUME NEW S, NEW seq \in Seq(S)
  PROVE  SubSeq(seq, 1, Len(seq)) = seq
OBVIOUS

At(records, k) == Replay(EmptyLive, SubSeq(records, 1, k))

LEMMA AtIs ==
  ASSUME NEW records \in Seq(Records), NEW k \in 0..Len(records)
  PROVE  /\ At(records, k) \in Lives
         /\ k = 0 => At(records, k) = EmptyLive
         /\ k = Len(records) => At(records, k) = Replay(EmptyLive, records)
         /\ k < Len(records) => /\ records[k + 1] \in Records
                                /\ At(records, k + 1) = ApplyRecord(At(records, k), records[k + 1])
<1>1. Len(records) \in Nat
  BY LenProperties
<1>2. SubSeq(records, 1, k) \in Seq(Records)
  BY <1>1, PiecesGrow
<1>3. k = 0 => SubSeq(records, 1, k) = <<>>
  BY <1>1, PiecesGrow
<1>4. SubSeq(records, 1, Len(records)) = records
  BY WholePiece
<1>5. k < Len(records) => /\ SubSeq(records, 1, k + 1) = Append(SubSeq(records, 1, k), records[k + 1])
                          /\ records[k + 1] \in Records
  BY <1>1, PiecesGrow
<1> QED BY <1>2, <1>3, <1>4, <1>5, EmptyLiveIs, ReplayEmpty, ReplayTyped, ReplayAppend DEF At

(* A prefix of a prefix, and of a log with more behind it.                 *)
LEMMA AtPrefix ==
  ASSUME NEW records \in Seq(Records), NEW n \in 0..Len(records), NEW k \in 0..n
  PROVE  /\ SubSeq(records, 1, n) \in Seq(Records) /\ Len(SubSeq(records, 1, n)) = n
         /\ \A i \in 1..n : SubSeq(records, 1, n)[i] = records[i]
         /\ At(SubSeq(records, 1, n), k) = At(records, k)
<1>1. Len(records) \in Nat
  BY LenProperties
<1>2. /\ SubSeq(records, 1, n) \in Seq(Records) /\ Len(SubSeq(records, 1, n)) = n
      /\ \A i \in 1..n : SubSeq(records, 1, n)[i] = records[i]
  BY <1>1, PiecesGrow
<1>3. SubSeq(SubSeq(records, 1, n), 1, k) = SubSeq(records, 1, k)
  BY <1>1
<1> QED BY <1>2, <1>3 DEF At

LEMMA AtAppend ==
  ASSUME NEW records \in Seq(Records), NEW rec \in Records, NEW k \in 0..Len(records)
  PROVE  /\ Append(records, rec) \in Seq(Records)
         /\ Len(Append(records, rec)) = Len(records) + 1
         /\ Append(records, rec)[Len(records) + 1] = rec
         /\ \A i \in 1..Len(records) : Append(records, rec)[i] = records[i]
         /\ At(Append(records, rec), k) = At(records, k)
         /\ At(Append(records, rec), Len(records) + 1) = ApplyRecord(Replay(EmptyLive, records), rec)
<1> DEFINE more == Append(records, rec)
<1>1. /\ more \in Seq(Records) /\ Len(more) = Len(records) + 1 /\ Len(records) \in Nat
      /\ more[Len(records) + 1] = rec /\ \A i \in 1..Len(records) : more[i] = records[i]
  BY AppendProperties, LenProperties
<1>2. SubSeq(more, 1, k) = SubSeq(records, 1, k)
  BY <1>1
<1>3. SubSeq(more, 1, Len(records) + 1) = more
  BY <1>1, WholePiece
<1> HIDE DEF more
<1>4. At(more, Len(records) + 1) = Replay(EmptyLive, more)
  BY <1>3 DEF At
<1>5. Replay(EmptyLive, more) = ApplyRecord(Replay(EmptyLive, records), rec)
  BY EmptyLiveIs, ReplayAppend DEF more
<1> QED BY <1>1, <1>2, <1>4, <1>5 DEF At, more

-----------------------------------------------------------------------------
(* The descriptors of a log: each one follows the one before it, was       *)
(* checked against it, and took along the instance that it found.  A       *)
(* generation that is no hide names the version it was written under.      *)

Newest(l) == IF Versions(l) = {} THEN 0 ELSE Max(Versions(l))

Follows(l, desc) ==
  /\ desc.version = Newest(l) + 1
  /\ Versions(l) = {} => desc.rename = {} /\ desc.drop = {} /\ desc.cast = {}
  /\ Versions(l) # {} => CheckReplacement(Latest(l), desc) /\ CarriesInstance(l, desc)

Stamp(l) == IF Shown(l.schema) THEN l.schema.desc.version ELSE 1

AdmittedAfter(l, rec) ==
  /\ rec.row = "schema" => IF rec.hidden THEN Shown(l.schema) /\ rec.desc = l.schema.desc
                           ELSE Follows(l, rec.desc)
  /\ rec.row = "inst" /\ ~rec.hidden => rec.version = Stamp(l)

Admitted(records) == \A k \in 1..Len(records) : AdmittedAfter(At(records, k - 1), records[k])

(* Versions count from 1, and the descriptor row is the newest of them.    *)
Sound(l) ==
  \E n \in Nat :
    /\ Versions(l) = 1..n /\ \A v \in 1..n : l.hist[v].version = v
    /\ l.schema = NoRow <=> n = 0
    /\ n > 0 => l.schema.desc = l.hist[n]

LEMMA SoundIs ==
  ASSUME NEW l \in Lives, Sound(l)
  PROVE  /\ Newest(l) \in Nat /\ Versions(l) = 1..Newest(l)
         /\ \A v \in 1..Newest(l) : l.hist[v].version = v /\ l.hist[v] \in Descs
         /\ l.schema = NoRow <=> Newest(l) = 0
         /\ Versions(l) = {} <=> Newest(l) = 0
         /\ Newest(l) > 0 => /\ l.schema.desc = Latest(l) /\ Latest(l) = l.hist[Newest(l)]
                             /\ Latest(l) \in Descs
<1>1. PICK n \in Nat :
        /\ Versions(l) = 1..n /\ \A v \in 1..n : l.hist[v].version = v
        /\ l.schema = NoRow <=> n = 0
        /\ n > 0 => l.schema.desc = l.hist[n]
  BY DEF Sound
<1>2. n > 0 => Max(1..n) = n
  BY MaxIs
<1>3. Newest(l) = n
  BY <1>1, <1>2 DEF Newest
<1>4. n > 0 => Latest(l) = l.hist[n]
  BY <1>1, <1>2 DEF Latest
<1>5. \A v \in 1..n : l.hist[v] \in Descs
  BY <1>1, LiveParts, HistParts DEF Versions
<1> QED BY <1>1, <1>3, <1>4, <1>5

LEMMA SoundFrom ==
  ASSUME NEW l, NEW n \in Nat, Versions(l) = 1..n, \A v \in 1..n : l.hist[v].version = v,
         l.schema = NoRow <=> n = 0, n > 0 => l.schema.desc = l.hist[n]
  PROVE  Sound(l)
BY DEF Sound

(* One record more.                                                        *)
LEMMA SoundStep ==
  ASSUME NEW l \in Lives, Sound(l), NEW rec \in Records, AdmittedAfter(l, rec)
  PROVE  /\ Sound(ApplyRecord(l, rec))
         /\ rec.row = "schema" /\ ~rec.hidden =>
              /\ Newest(ApplyRecord(l, rec)) = Newest(l) + 1
              /\ Latest(ApplyRecord(l, rec)) = rec.desc
              /\ \A v \in 1..Newest(l) : ApplyRecord(l, rec).hist[v] = l.hist[v]
         /\ ~(rec.row = "schema" /\ ~rec.hidden) =>
              ApplyRecord(l, rec).hist = l.hist /\ Newest(ApplyRecord(l, rec)) = Newest(l)
<1> DEFINE m == ApplyRecord(l, rec)
           n == Newest(l)
<1>1. /\ n \in Nat /\ Versions(l) = 1..n /\ \A v \in 1..n : l.hist[v].version = v
      /\ l.schema = NoRow <=> n = 0
      /\ n > 0 => l.schema.desc = l.hist[n]
  BY SoundIs
<1>2. m \in Lives
  BY ApplyTyped
<1>3. CASE rec.row = "schema" /\ ~rec.hidden
  <2>1. rec \in SchemaRows /\ rec.desc \in Descs /\ rec.desc.version = n + 1
    BY <1>3, RowKinds DEF AdmittedAfter, Follows, SchemaRows
  <2>2. m.schema = rec /\ m.hist = Remembered(l.hist, rec.desc)
    BY <1>3, <2>1, ApplySchema DEF HistAfter
  <2>3. /\ DOMAIN m.hist = 1..(n + 1) /\ m.hist[n + 1] = rec.desc
        /\ \A v \in 1..n : m.hist[v] = l.hist[v]
    <3>1. l.hist \in Hists /\ DOMAIN l.hist = 1..n
      BY <1>1, LiveParts DEF Versions
    <3>2. /\ DOMAIN m.hist = 1..n \cup {n + 1} /\ m.hist[n + 1] = rec.desc
          /\ \A v \in 1..n \ {n + 1} : m.hist[v] = l.hist[v]
      <4> DEFINE h == l.hist
                 d == rec.desc
      <4>1. h \in Hists /\ DOMAIN h = 1..n /\ d \in Descs /\ d.version = n + 1
        BY <2>1, <3>1
      <4>2. m.hist = Remembered(h, d)
        BY <2>2
      <4> HIDE DEF m, n, h, d
      <4>3. /\ DOMAIN Remembered(h, d) = DOMAIN h \cup {d.version}
            /\ Remembered(h, d)[d.version] = d
            /\ \A v \in DOMAIN h \ {d.version} : Remembered(h, d)[v] = h[v]
        BY <4>1, RememberedIs
      <4>4. /\ DOMAIN m.hist = 1..n \cup {n + 1} /\ m.hist[n + 1] = d
            /\ \A v \in 1..n \ {n + 1} : m.hist[v] = h[v]
        BY <4>1, <4>2, <4>3
      <4> QED BY <4>4 DEF h, d
    <3> HIDE DEF m, n
    <3>3. 1..n \cup {n + 1} = 1..(n + 1) /\ 1..n \ {n + 1} = 1..n
      BY <1>1
    <3> QED BY <3>2, <3>3
  <2>4. rec # NoRow
    BY <2>1, RowKinds
  <2> HIDE DEF m, n
  <2>5. n + 1 \in Nat /\ Versions(m) = 1..(n + 1) /\ \A v \in 1..(n + 1) : m.hist[v].version = v
    <3>1. n + 1 \in Nat /\ Versions(m) = 1..(n + 1)
      BY <1>1, <2>3 DEF Versions
    <3>2. ASSUME NEW v \in 1..(n + 1) PROVE m.hist[v].version = v
      <4>1. CASE v = n + 1
        BY <2>1, <2>3, <4>1
      <4>2. CASE v # n + 1
        <5>1. v \in 1..n
          BY <1>1, <4>2
        <5> QED BY <1>1, <2>3, <5>1
      <4> QED BY <4>1, <4>2
    <3> QED BY <3>1, <3>2
  <2>6. Sound(m)
    <3>1. m.schema # NoRow /\ n + 1 # 0 /\ m.schema.desc = m.hist[n + 1]
      BY <1>1, <2>2, <2>3, <2>4
    <3> QED BY <2>5, <3>1, SoundFrom
  <2>7. Newest(m) = n + 1
    <3>1. Max(1..(n + 1)) = n + 1 /\ 1..(n + 1) # {}
      BY <1>1, MaxOfPositions
    <3> QED BY <2>5, <3>1 DEF Newest
  <2>8. Latest(m) = rec.desc
    <3>1. Max(1..(n + 1)) = n + 1
      BY <1>1, MaxOfPositions
    <3> QED BY <2>3, <2>5, <3>1 DEF Latest
  <2> QED BY <1>3, <2>3, <2>6, <2>7, <2>8 DEF m, n
<1>4. CASE rec.row = "schema" /\ rec.hidden
  <2>1. rec \in SchemaRows /\ rec # NoRow
    BY <1>4, RowKinds
  <2>2. m.schema = rec /\ m.hist = l.hist
    BY <1>4, <2>1, ApplySchema DEF HistAfter
  <2>3. l.schema # NoRow /\ rec.desc = l.schema.desc
    BY <1>4 DEF AdmittedAfter, Shown
  <2> HIDE DEF m
  <2>4. Sound(m)
    <3>1. Versions(m) = 1..n /\ (\A v \in 1..n : m.hist[v].version = v)
      BY <1>1, <2>2 DEF Versions
    <3>2. m.schema = NoRow <=> n = 0
      BY <1>1, <2>1, <2>2, <2>3
    <3>3. n > 0 => m.schema.desc = m.hist[n]
      BY <1>1, <2>2, <2>3
    <3> QED BY <1>1, <3>1, <3>2, <3>3, SoundFrom
  <2>5. Newest(m) = n
    BY <2>2 DEF Newest, Versions
  <2> QED BY <1>4, <2>2, <2>4, <2>5 DEF m
<1>5. CASE rec.row # "schema"
  <2>1. m.schema = l.schema /\ m.hist = l.hist
    BY <1>5, RowKinds, ApplyOver, ApplyInst
  <2> HIDE DEF m
  <2>2. Sound(m)
    BY <2>1 DEF Sound, Versions
  <2>3. Newest(m) = n
    BY <2>1 DEF Newest, Versions
  <2> QED BY <1>5, <2>1, <2>2, <2>3 DEF m
<1> QED BY <1>3, <1>4, <1>5

LEMMA AdmittedSound ==
  ASSUME NEW records \in Seq(Records), Admitted(records), NEW k \in 0..Len(records)
  PROVE  Sound(At(records, k))
<1> DEFINE T == {i \in Nat : i <= Len(records) => Sound(At(records, i))}
<1>1. Len(records) \in Nat
  BY LenProperties
<1>2. 0 \in T
  <2>1. At(records, 0) = EmptyLive
    BY <1>1, AtIs
  <2>2. Versions(EmptyLive) = 1..0 /\ EmptyLive.schema = NoRow
    <3>1. DOMAIN EmptyLive.hist = {}
      BY EmptyLiveIs, NoHist
    <3>2. 1..0 = {}
      OBVIOUS
    <3> QED BY <3>1, <3>2, EmptyLiveIs DEF Versions
  <2>3. Sound(EmptyLive)
    <3> DEFINE e == EmptyLive
    <3>1. \A v \in 1..0 : e.hist[v].version = v
      OBVIOUS
    <3>2. Versions(e) = 1..0 /\ e.schema = NoRow
      BY <2>2
    <3>0. 0 \in Nat /\ ~(0 > 0)
      OBVIOUS
    <3> HIDE DEF e
    <3>3. Sound(e)
      BY <3>0, <3>1, <3>2 DEF Sound
    <3> QED BY <3>3 DEF e
  <2> QED BY <2>1, <2>3
<1>3. ASSUME NEW i \in T PROVE i + 1 \in T
  <2> SUFFICES ASSUME i + 1 <= Len(records) PROVE Sound(At(records, i + 1))
    OBVIOUS
  <2>1. Sound(At(records, i)) /\ i \in 0..Len(records) /\ i < Len(records)
    BY <1>1
  <2>2. /\ At(records, i) \in Lives /\ records[i + 1] \in Records
        /\ At(records, i + 1) = ApplyRecord(At(records, i), records[i + 1])
    BY <2>1, AtIs
  <2>3. AdmittedAfter(At(records, i), records[i + 1])
    <3>1. i + 1 \in 1..Len(records) /\ (i + 1) - 1 = i
      BY <2>1
    <3> QED BY <3>1 DEF Admitted
  <2> QED BY <2>1, <2>2, <2>3, SoundStep
<1> HIDE DEF T
<1>4. T = Nat
  <2>1. T \subseteq Nat BY DEF T
  <2> QED BY <1>2, <1>3, <2>1, NatSetInduction
<1> QED BY <1>4 DEF T

-----------------------------------------------------------------------------
(* The rows that the writes make.                                          *)

LEMMA MergedTyped ==
  ASSUME NEW plan, NEW source, NEW patch, source.props \in PropSets, patch.props \in PropSets
  PROVE  Merged(plan, source, patch) \in PropSets /\ Losers(plan, source, patch) \in PropSets
<1> DEFINE won == {n \in Touched(patch) : Wins(plan, source, patch, n)}
           a == Restricted(patch.props, won)
           b == Restricted(source.props, Names \ (won \cap patch.cleared))
<1>1. a \in PropSets /\ b \in PropSets
  BY RestrictedTyped
<1>2. Beside(a, b) \in PropSets
  <2> HIDE DEF a, b
  <2> QED BY <1>1, BesideTyped
<1>3. Merged(plan, source, patch) \in PropSets
  BY <1>2 DEF Merged
<1> DEFINE wins(n) == Wins(plan, source, patch, n)
           lostSource == {n \in Touched(patch) \cap DOMAIN source.props :
                            wins(n) /\ (n \in DOMAIN patch.props => patch.props[n] # source.props[n])}
           lostPatch == {n \in DOMAIN patch.props :
                           ~wins(n) /\ ~(n \in DOMAIN source.props /\ patch.props[n] = source.props[n])}
           c == Restricted(source.props, lostSource)
           d == Restricted(patch.props, lostPatch)
<1>4. c \in PropSets /\ d \in PropSets
  BY RestrictedTyped
<1>5. Beside(c, d) \in PropSets
  <2> HIDE DEF c, d
  <2> QED BY <1>4, BesideTyped
<1>6. Losers(plan, source, patch) \in PropSets
  BY <1>5 DEF Losers
<1> QED BY <1>3, <1>6

LEMMA CarriedTyped ==
  ASSUME NEW patch \in PatchSets, NEW desc \in Descs
  PROVE  /\ CarriedPatch(patch, desc) \in PatchSets
         /\ CarriedPatch(patch, desc).props = Renamed(desc, patch.props)
         /\ CarriedPatch(patch, desc).cleared = {Mapped(desc, n) : n \in patch.cleared}
         /\ CarriedPatch(patch, desc).at = patch.at
<1>1. patch.props \in PropSets /\ patch.cleared \subseteq Names /\ patch.at \in Int
  BY DEF PatchSets
<1> DEFINE props == Renamed(desc, patch.props)
           cleared == {Mapped(desc, n) : n \in patch.cleared}
<1>2. props \in PropSets /\ cleared \in SUBSET Names
  BY <1>1, RenamedTyped, MappedIs
<1>3. CarriedPatch(patch, desc) = [patch EXCEPT !.props = props, !.cleared = cleared]
  BY DEF CarriedPatch
<1> HIDE DEF props, cleared
<1>4. /\ CarriedPatch(patch, desc) \in PatchSets
      /\ CarriedPatch(patch, desc).props = props
      /\ CarriedPatch(patch, desc).cleared = cleared
      /\ CarriedPatch(patch, desc).at = patch.at
  BY <1>2, <1>3 DEF PatchSets
<1> QED BY <1>4 DEF props, cleared

LEMMA MigratedTyped ==
  ASSUME NEW l \in Lives, NEW desc \in Descs, MigratedOverlay(l, desc) # <<>>
  PROVE  /\ Shown(l.over) /\ l.over \in OverRows
         /\ \E rec \in OverRows :
              /\ MigratedOverlay(l, desc) = <<rec>> /\ ~rec.hidden /\ rec.id = l.over.id
              /\ rec.patch = CarriedPatch(l.over.patch, desc)
              /\ rec.lost = Renamed(desc, l.over.lost)
<1>1. Shown(l.over)
  BY DEF MigratedOverlay
<1>2. l.over \in OverRows /\ ~l.over.hidden
  BY <1>1, LiveParts DEF Shown
<1> DEFINE patch == CarriedPatch(l.over.patch, desc)
           lost == Renamed(desc, l.over.lost)
           rec == [l.over EXCEPT !.patch = patch, !.lost = lost]
<1>3. patch \in PatchSets /\ lost \in PropSets
  <2>1. l.over.patch \in PatchSets /\ l.over.lost \in PropSets
    BY <1>2 DEF OverRows
  <2> QED BY <2>1, CarriedTyped, RenamedTyped
<1>4. MigratedOverlay(l, desc) = <<rec>>
  BY <1>1 DEF MigratedOverlay
<1> HIDE DEF patch, lost
<1>5. /\ rec \in OverRows /\ rec.hidden = l.over.hidden /\ rec.id = l.over.id
      /\ rec.patch = patch /\ rec.lost = lost
  BY <1>2, <1>3 DEF OverRows
<1> HIDE DEF rec
<1>6. \E r \in OverRows :
        /\ MigratedOverlay(l, desc) = <<r>> /\ ~r.hidden /\ r.id = l.over.id
        /\ r.patch = patch /\ r.lost = lost
  BY <1>2, <1>4, <1>5
<1> QED BY <1>1, <1>2, <1>6 DEF patch, lost

LEMMA InstTyped ==
  ASSUME NEW l \in Lives, NEW props \in PropSets, NEW id \in Ids \cup {NoId}
  PROVE  Inst(l, props, id) \in InstRows
<1> DEFINE version == IF Shown(l.schema) THEN l.schema.desc.version ELSE 1
<1>1. version \in Nat \ {0}
  <2>1. CASE Shown(l.schema)
    <3>1. l.schema \in SchemaRows
      BY <2>1, LiveParts DEF Shown
    <3>2. l.schema.desc \in Descs
      BY <3>1 DEF SchemaRows
    <3> QED BY <2>1, <3>2, DescParts
  <2>2. CASE ~Shown(l.schema)
    BY <2>2
  <2> QED BY <2>1, <2>2
<1> HIDE DEF version
<1>2. Inst(l, props, id) = [row |-> "inst", hidden |-> FALSE, props |-> props, id |-> id,
                            version |-> version]
  BY DEF Inst, version
<1> QED BY <1>1, <1>2 DEF InstRows

LEMMA OverTyped ==
  ASSUME NEW hidden \in BOOLEAN, NEW patch \in PatchSets, NEW lost \in PropSets,
         NEW id \in Ids \cup {NoId}
  PROVE  Over(hidden, patch, lost, id) \in OverRows
BY DEF Over, OverRows

LEMMA SchemaTyped ==
  ASSUME NEW hidden \in BOOLEAN, NEW desc \in Descs
  PROVE  Schema(hidden, desc) \in SchemaRows
BY DEF Schema, SchemaRows

LEMMA NoPatchTyped == NoPatch \in PatchSets
BY EmptyProps DEF NoPatch, NoTime, PatchSets

LEMMA LoadTyped ==
  ASSUME NEW l \in Lives, l.inst # NoRow
  PROVE  /\ l.inst \in InstRows /\ l.inst.props \in PropSets /\ Load(l) \in PropSets
         /\ Load(l) = Restricted(l.inst.props, Names \ Omitted(l))
<1>1. l.inst \in InstRows
  BY LiveParts
<1>2. l.inst.props \in PropSets
  BY <1>1 DEF InstRows
<1>3. Load(l) = Restricted(l.inst.props, Names \ Omitted(l))
  BY DEF Load, CurrentView
<1> QED BY <1>1, <1>2, <1>3, RestrictedTyped

LEMMA DescOfIs ==
  ASSUME NEW version \in Nat \ {0}, NEW t \in Templates, NEW r \in SUBSET (Names \X Names),
         NEW x \in SUBSET Names, NEW c \in SUBSET Names
  PROVE  /\ DescOf(version, t, r, x, c) \in Descs
         /\ DescOf(version, t, r, x, c).version = version
         /\ DescOf(version, t, r, x, c).rename = r /\ DescOf(version, t, r, x, c).drop = x
         /\ DescOf(version, t, r, x, c).cast = c
BY InputAssumption DEF DescOf, Descs

LEMMA OfferedIs ==
  ASSUME NEW prev \in Descs, NEW version \in Nat \ {0}, NEW t \in Templates,
         NEW d \in Offered(prev, version, t)
  PROVE  d \in Descs /\ d.version = version
<1> DEFINE expected(r, x) == ExpectedCast(prev, DescOf(version, t, r, x, {}))
<1>1. PICK r \in SUBSET (Declared(prev) \X Declared(t)), x \in SUBSET Declared(prev) :
        d = DescOf(version, t, r, x, expected(r, x))
  BY DEF Offered
<1>2. Declared(t) \subseteq Names
  BY InputAssumption DEF Declared, TypeMaps
<1>3. r \in SUBSET (Names \X Names) /\ x \in SUBSET Names
  BY <1>2, DescParts
<1>4. expected(r, x) \in SUBSET Names
  BY <1>2 DEF ExpectedCast, Declared, DescOf
<1> HIDE DEF expected
<1> QED BY <1>1, <1>3, <1>4, DescOfIs

(* A descriptor that is offered is checked against the latest one.         *)
LEMMA DescriptorsAre ==
  ASSUME NEW l \in Lives, Sound(l), NEW version \in Nat \ {0}, NEW d \in Descriptors(l, version)
  PROVE  /\ d \in Descs /\ d.version = version
         /\ Versions(l) = {} => d.rename = {} /\ d.drop = {} /\ d.cast = {}
         /\ Versions(l) # {} => CheckReplacement(Latest(l), d)
<1>1. CASE Versions(l) = {}
  <2>1. PICK t \in Templates : d = DescOf(version, t, {}, {}, {})
    BY <1>1 DEF Descriptors
  <2>2. {} \in SUBSET (Names \X Names) /\ {} \in SUBSET Names
    OBVIOUS
  <2> QED BY <1>1, <2>1, <2>2, DescOfIs
<1>2. CASE Versions(l) # {}
  <2>1. Latest(l) \in Descs
    BY <1>2, SoundIs
  <2>2. d \in UNION {Offered(Latest(l), version, t) : t \in Templates}
    BY <1>2 DEF Descriptors
  <2>3. PICK t \in Templates : d \in Offered(Latest(l), version, t)
    BY <2>2
  <2>4. CheckReplacement(Latest(l), d)
    BY <1>2 DEF Descriptors
  <2> QED BY <1>2, <2>1, <2>3, <2>4, OfferedIs
<1> QED BY <1>1, <1>2

-----------------------------------------------------------------------------
(* The log is what the calls admitted, and the rows are its replay.        *)

LogInv ==
  /\ log \in Seq(Records)
  /\ committed \in 0..Len(log)
  /\ live = Replay(EmptyLive, log)
  /\ Admitted(log)

LEMMA LiveIs ==
  ASSUME LogInv
  PROVE  live \in Lives /\ Sound(live) /\ live = At(log, Len(log)) /\ Len(log) \in Nat
<1>1. Len(log) \in Nat
  BY LenProperties DEF LogInv
<1>2. live = At(log, Len(log)) /\ At(log, Len(log)) \in Lives
  BY <1>1, AtIs DEF LogInv
<1>3. Sound(At(log, Len(log)))
  BY <1>1, AdmittedSound DEF LogInv
<1> QED BY <1>1, <1>2, <1>3

LEMMA AdmittedMore ==
  ASSUME NEW records \in Seq(Records), Admitted(records), NEW rec \in Records,
         AdmittedAfter(Replay(EmptyLive, records), rec)
  PROVE  Admitted(Append(records, rec))
<1> DEFINE more == Append(records, rec)
<1>1. /\ more \in Seq(Records) /\ Len(more) = Len(records) + 1 /\ Len(records) \in Nat
      /\ more[Len(records) + 1] = rec /\ \A i \in 1..Len(records) : more[i] = records[i]
  BY AppendProperties, LenProperties
<1>2. \A k \in 0..Len(records) : At(more, k) = At(records, k)
  BY AtAppend
<1>3. At(records, Len(records)) = Replay(EmptyLive, records)
  BY <1>1, AtIs
<1> HIDE DEF more
<1>4. ASSUME NEW k \in 1..Len(more) PROVE AdmittedAfter(At(more, k - 1), more[k])
  <2>1. CASE k = Len(records) + 1
    <3>1. k - 1 = Len(records) /\ Len(records) \in 0..Len(records)
      BY <1>1, <2>1
    <3>2. At(more, k - 1) = Replay(EmptyLive, records)
      BY <1>2, <1>3, <3>1
    <3> QED BY <1>1, <2>1, <3>2
  <2>2. CASE k # Len(records) + 1
    <3>1. k \in 1..Len(records) /\ k - 1 \in 0..Len(records)
      BY <1>1, <2>2
    <3> QED BY <1>1, <1>2, <3>1 DEF Admitted
  <2> QED BY <2>1, <2>2
<1> QED BY <1>4 DEF Admitted, more

LEMMA AdmittedPrefix ==
  ASSUME NEW records \in Seq(Records), Admitted(records), NEW n \in 0..Len(records)
  PROVE  Admitted(SubSeq(records, 1, n))
<1> DEFINE less == SubSeq(records, 1, n)
<1>1. Len(records) \in Nat
  BY LenProperties
<1>2. n \in 0..n
  BY <1>1
<1>3. Len(less) = n /\ \A i \in 1..n : less[i] = records[i]
  BY <1>2, AtPrefix
<1>4. \A k \in 0..n : At(less, k) = At(records, k)
  BY AtPrefix
<1> HIDE DEF less
<1>5. ASSUME NEW k \in 1..n PROVE AdmittedAfter(At(less, k - 1), less[k])
  <2>1. k \in 1..Len(records) /\ k - 1 \in 0..n
    BY <1>1
  <2> QED BY <1>3, <1>4, <2>1 DEF Admitted
<1> QED BY <1>3, <1>5 DEF Admitted, less

(* One record, or two.                                                     *)
LEMMA WritesOne ==
  ASSUME LogInv, NEW a \in Records, AdmittedAfter(live, a), NEW commits \in BOOLEAN,
         Writes(<<a>>, commits)
  PROVE  /\ LogInv' /\ log' = Append(log, a) /\ live' = ApplyRecord(live, a)
         /\ committed' = IF commits THEN Len(log) + 1 ELSE committed
<1>1. Append(<<>>, a) = <<a>> /\ log \o <<a>> = Append(log, a) /\ <<>> \in Seq(Records)
  BY DEF LogInv
<1>2. live \in Lives /\ Len(log) \in Nat
  BY LiveIs
<1>3. log' = Append(log, a) /\ live' = Replay(live, Append(<<>>, a))
  BY <1>1 DEF Writes
<1>4. live' = ApplyRecord(live, a)
  BY <1>1, <1>2, <1>3, ReplayAppend, ReplayEmpty
<1>5. Replay(EmptyLive, Append(log, a)) = ApplyRecord(live, a)
  BY EmptyLiveIs, ReplayAppend DEF LogInv
<1>6. Admitted(Append(log, a))
  BY AdmittedMore DEF LogInv
<1>7. Append(log, a) \in Seq(Records) /\ Len(Append(log, a)) = Len(log) + 1
  BY AppendProperties DEF LogInv
<1>8. committed' = IF commits THEN Len(log) + 1 ELSE committed
  BY <1>3, <1>7 DEF Writes
<1>9. committed' \in 0..(Len(log) + 1)
  BY <1>2, <1>8 DEF LogInv
<1> QED BY <1>3, <1>4, <1>5, <1>6, <1>7, <1>8, <1>9 DEF LogInv

LEMMA WritesTwo ==
  ASSUME LogInv, NEW a \in Records, AdmittedAfter(live, a), NEW b \in Records,
         AdmittedAfter(ApplyRecord(live, a), b), NEW commits \in BOOLEAN,
         Writes(<<a>> \o <<b>>, commits)
  PROVE  /\ LogInv' /\ log' = Append(Append(log, a), b)
         /\ live' = ApplyRecord(ApplyRecord(live, a), b)
         /\ committed' = IF commits THEN Len(log) + 2 ELSE committed
<1> DEFINE one == Append(log, a)
           two == Append(one, b)
<1>1. /\ <<a>> \o <<b>> = Append(Append(<<>>, a), b) /\ log \o (<<a>> \o <<b>>) = two
      /\ <<>> \in Seq(Records) /\ Append(<<>>, a) \in Seq(Records)
  BY DEF LogInv
<1>2. live \in Lives /\ Len(log) \in Nat
  BY LiveIs
<1> DEFINE records == <<a>> \o <<b>>
<1>3. /\ log' = two /\ live' = Replay(live, Append(Append(<<>>, a), b))
      /\ committed' = IF commits THEN Len(log') ELSE committed
  <2>1. Writes(records, commits)
    OBVIOUS
  <2>2. records = Append(Append(<<>>, a), b) /\ log \o records = two
    BY <1>1
  <2> HIDE DEF records, two
  <2>3. /\ log' = log \o records /\ live' = Replay(live, records)
        /\ committed' = IF commits THEN Len(log') ELSE committed
    BY <2>1 DEF Writes
  <2> QED BY <2>2, <2>3
<1>4. live' = ApplyRecord(ApplyRecord(live, a), b)
  <2> DEFINE none == <<>>
             first == Append(none, a)
  <2>1. none \in Seq(Records) /\ first \in Seq(Records) /\ Replay(live, none) = live
    BY <1>1, <1>2, ReplayEmpty
  <2>2. live' = Replay(live, Append(first, b))
    BY <1>3
  <2> HIDE DEF none
  <2>3. Replay(live, first) = ApplyRecord(live, a)
    BY <1>2, <2>1, ReplayAppend
  <2> HIDE DEF first
  <2>4. Replay(live, Append(first, b)) = ApplyRecord(Replay(live, first), b)
    BY <1>2, <2>1, ReplayAppend
  <2> QED BY <2>2, <2>3, <2>4
<1>5. Replay(EmptyLive, one) = ApplyRecord(live, a)
  BY EmptyLiveIs, ReplayAppend DEF LogInv
<1>6. /\ one \in Seq(Records) /\ Len(one) = Len(log) + 1
      /\ two \in Seq(Records) /\ Len(two) = Len(log) + 2
  BY <1>2, AppendProperties DEF LogInv
<1>7. Admitted(one)
  BY AdmittedMore DEF LogInv
<1> HIDE DEF one
<1>8. Replay(EmptyLive, two) = ApplyRecord(ApplyRecord(live, a), b)
  BY <1>5, <1>6, EmptyLiveIs, ReplayAppend
<1>9. AdmittedAfter(Replay(EmptyLive, one), b)
  BY <1>5
<1>10. Admitted(two)
  BY <1>6, <1>7, <1>9, AdmittedMore
<1>11. committed' = IF commits THEN Len(log) + 2 ELSE committed
  BY <1>3, <1>6
<1>12. committed' \in 0..(Len(log) + 2)
  BY <1>2, <1>11 DEF LogInv
<1> HIDE DEF two
<1>13. LogInv'
  BY <1>3, <1>4, <1>6, <1>8, <1>10, <1>12 DEF LogInv
<1> QED BY <1>3, <1>4, <1>11, <1>13 DEF two, one

(* What a call wrote, one record or two.                                   *)
Wrote(a) ==
  /\ a \in Records /\ LogInv' /\ log' = Append(log, a) /\ live' = ApplyRecord(live, a)
  /\ committed' \in {committed, Len(log) + 1}

WroteBoth(a, b) ==
  /\ a \in Records /\ b \in Records /\ LogInv'
  /\ log' = Append(Append(log, a), b) /\ live' = ApplyRecord(ApplyRecord(live, a), b)
  /\ committed' \in {committed, Len(log) + 2}

LEMMA NothingAfter ==
  ASSUME NEW a
  PROVE  <<a>> \o <<>> = <<a>>
OBVIOUS

LEMMA PairIs ==
  ASSUME NEW a, NEW b
  PROVE  <<a, b>> = <<a>> \o <<b>>
<1> DEFINE S == {a, b}
           s == <<a>> \o <<b>>
<1>1. <<a, b>> \in Seq(S) /\ Len(<<a, b>>) = 2 /\ <<a, b>>[1] = a /\ <<a, b>>[2] = b
  OBVIOUS
<1>2. <<a>> \in Seq(S) /\ <<b>> \in Seq(S) /\ Len(<<a>>) = 1 /\ Len(<<b>>) = 1
  OBVIOUS
<1>3. s \in Seq(S) /\ Len(s) = 2 /\ s[1] = a /\ s[2] = b
  BY <1>2, ConcatProperties
<1> HIDE DEF s
<1>4. \A i \in 1..2 : <<a, b>>[i] = s[i]
  <2>1. \A i \in 1..2 : i = 1 \/ i = 2
    OBVIOUS
  <2> QED BY <1>1, <1>3, <2>1
<1>5. <<a, b>> = s
  BY <1>1, <1>3, <1>4, SeqEqual
<1> QED BY <1>5 DEF s

LEMMA WroteOne ==
  ASSUME LogInv, NEW a \in Records, AdmittedAfter(live, a), NEW commits \in BOOLEAN,
         Writes(<<a>> \o <<>>, commits)
  PROVE  Wrote(a)
<1>1. Writes(<<a>>, commits)
  BY NothingAfter
<1> QED BY <1>1, WritesOne DEF Wrote

LEMMA WroteTwo ==
  ASSUME LogInv, NEW a \in Records, AdmittedAfter(live, a), NEW b \in Records,
         AdmittedAfter(ApplyRecord(live, a), b), NEW commits \in BOOLEAN,
         Writes(<<a>> \o <<b>>, commits)
  PROVE  WroteBoth(a, b)
BY WritesTwo DEF WroteBoth

LEMMA OverAdmitted ==
  ASSUME NEW l, NEW rec \in OverRows
  PROVE  rec \in Records /\ AdmittedAfter(l, rec)
BY RowKinds DEF Records, AdmittedAfter

LEMMA InstAdmitted ==
  ASSUME NEW l, NEW rec \in InstRows, rec.hidden \/ rec.version = Stamp(l)
  PROVE  rec \in Records /\ AdmittedAfter(l, rec)
BY RowKinds DEF Records, AdmittedAfter

PutSchemaWrote ==
  \E next \in Descs :
    /\ Follows(live, next)
    /\ Versions(live) # {} => CarriesOverlay(live, next)
    /\ \/ MigratedOverlay(live, next) = <<>> /\ Wrote(Schema(FALSE, next))
       \/ \E b \in OverRows : /\ MigratedOverlay(live, next) = <<b>> /\ Versions(live) # {}
                              /\ WroteBoth(Schema(FALSE, next), b)

LEMMA PutSchemaWrites ==
  ASSUME LogInv, PutSchema
  PROVE  PutSchemaWrote
<1> DEFINE version == IF Versions(live) = {} THEN 1 ELSE Max(Versions(live)) + 1
<1>0. live \in Lives /\ Sound(live)
  BY LiveIs
<1>1. version = Newest(live) + 1 /\ version \in Nat \ {0}
  BY <1>0, SoundIs DEF Newest
<1>2. PICK next \in Descriptors(live, version) :
        /\ Versions(live) # {} => CarriesOverlay(live, next) /\ CarriesInstance(live, next)
        /\ Writes(<<Schema(FALSE, next)>> \o MigratedOverlay(live, next), TRUE)
  BY DEF PutSchema
<1> HIDE DEF version
<1>3. /\ next \in Descs /\ next.version = version
      /\ Versions(live) = {} => next.rename = {} /\ next.drop = {} /\ next.cast = {}
      /\ Versions(live) # {} => CheckReplacement(Latest(live), next)
  BY <1>0, <1>1, DescriptorsAre
<1>4. Follows(live, next)
  BY <1>1, <1>2, <1>3 DEF Follows
<1> DEFINE a == Schema(FALSE, next)
<1>5. a \in Records /\ a.row = "schema" /\ ~a.hidden /\ a.desc = next
  BY <1>3, SchemaTyped DEF Records, Schema
<1> HIDE DEF a
<1>6. AdmittedAfter(live, a)
  BY <1>4, <1>5 DEF AdmittedAfter
<1>7. CASE MigratedOverlay(live, next) = <<>>
  <2>1. Writes(<<a>> \o <<>>, TRUE)
    BY <1>2, <1>7 DEF a
  <2>2. Wrote(a)
    BY <1>5, <1>6, <2>1, WroteOne
  <2> QED BY <1>2, <1>3, <1>4, <1>7, <2>2 DEF PutSchemaWrote, a
<1>8. CASE MigratedOverlay(live, next) # <<>>
  <2>1. PICK b \in OverRows : MigratedOverlay(live, next) = <<b>>
    BY <1>0, <1>3, <1>8, MigratedTyped
  <2>2. b \in Records /\ AdmittedAfter(ApplyRecord(live, a), b)
    BY OverAdmitted
  <2>3. Writes(<<a>> \o <<b>>, TRUE)
    BY <1>2, <2>1 DEF a
  <2>4. WroteBoth(a, b)
    BY <1>5, <1>6, <2>2, <2>3, WroteTwo
  <2>5. Versions(live) # {}
    <3>1. next.cast # {} \/ next.rename # {} \/ next.drop # {}
      BY <1>8 DEF MigratedOverlay, Migrates
    <3> QED BY <1>3, <3>1
  <2> QED BY <1>2, <1>3, <1>4, <2>1, <2>4, <2>5 DEF PutSchemaWrote, a
<1> QED BY <1>7, <1>8

HideSchemaWrote ==
  /\ Shown(live.schema) /\ live.schema \in SchemaRows
  /\ \E a \in SchemaRows : a.hidden /\ a.desc = live.schema.desc /\ Wrote(a)

LEMMA HideSchemaWrites ==
  ASSUME LogInv, HideSchema
  PROVE  HideSchemaWrote
<1> DEFINE a == [live.schema EXCEPT !.hidden = TRUE]
<1>1. live \in Lives
  BY LiveIs
<1>2. Shown(live.schema) /\ live.schema \in SchemaRows
  BY <1>1, LiveParts DEF HideSchema, Shown
<1>3. a \in SchemaRows /\ a.row = "schema" /\ a.hidden /\ a.desc = live.schema.desc
  BY <1>2 DEF SchemaRows
<1>4. Writes(<<a>> \o <<>>, TRUE)
  <2>1. Writes(<<a>>, TRUE)
    BY DEF HideSchema
  <2> HIDE DEF a
  <2> QED BY <2>1, NothingAfter
<1> HIDE DEF a
<1>5. a \in Records /\ AdmittedAfter(live, a)
  BY <1>2, <1>3 DEF Records, AdmittedAfter
<1>6. Wrote(a)
  BY <1>4, <1>5, WroteOne
<1> QED BY <1>2, <1>3, <1>6 DEF HideSchemaWrote

(* A source write that meets the overlay carries its Action id, and may    *)
(* rewrite the overlay with what lost; one that does not carries none.     *)
SourceWriteWrote ==
  \E source \in Sources, a \in InstRows :
    /\ ~a.hidden /\ a.id = IF MeetsOverlay(live) THEN live.over.id ELSE NoId
    /\ \/ Wrote(a)
       \/ \E b \in OverRows :
            /\ WroteBoth(a, b) /\ MeetsOverlay(live)
            /\ ~b.hidden /\ b.patch = live.over.patch /\ b.id = live.over.id
            /\ b.lost = Losers(PlanOf(live), source, live.over.patch)
            /\ Admits(live, Merged(PlanOf(live), source, live.over.patch))

LEMMA SourceWriteWrites ==
  ASSUME LogInv, SourceWrite
  PROVE  SourceWriteWrote
<1> DEFINE meets == MeetsOverlay(live)
           patch == live.over.patch
           plan == PlanOf(live)
           merged(source) == IF meets THEN Merged(plan, source, patch) ELSE source.props
           audited(source) == /\ meets /\ plan.audit
                              /\ \/ DOMAIN Losers(plan, source, patch) # {}
                                 \/ DefeatedClears(plan, source, patch) # {}
           id == IF meets THEN live.over.id ELSE NoId
           tail(source) == IF audited(source)
                           THEN <<Over(FALSE, patch, Losers(plan, source, patch), live.over.id)>>
                           ELSE <<>>
<1>0. live \in Lives
  BY LiveIs
<1>1. PICK source \in Sources :
        /\ Admits(live, merged(source))
        /\ Writes(<<Inst(live, merged(source), id)>> \o tail(source), FALSE)
  BY DEF SourceWrite
<1>2. meets => live.over \in OverRows /\ patch \in PatchSets /\ patch.props \in PropSets
              /\ live.over.id \in Ids \cup {NoId}
  <2>1. meets => live.over \in OverRows
    BY <1>0, LiveParts DEF MeetsOverlay, Shown
  <2>2. \A r \in OverRows : r.patch \in PatchSets /\ r.patch.props \in PropSets
                            /\ r.id \in Ids \cup {NoId}
    BY DEF OverRows, PatchSets
  <2> QED BY <2>1, <2>2
<1>3. source.props \in PropSets
  BY InputAssumption
<1>4. meets => Merged(plan, source, patch) \in PropSets /\ Losers(plan, source, patch) \in PropSets
  <2> HIDE DEF meets, patch, plan
  <2> QED BY <1>2, <1>3, MergedTyped
<1>5. merged(source) \in PropSets /\ id \in Ids \cup {NoId}
  <2> HIDE DEF meets, patch, plan
  <2> QED BY <1>2, <1>3, <1>4
<1> DEFINE a == Inst(live, merged(source), id)
           b == Over(FALSE, patch, Losers(plan, source, patch), live.over.id)
<1>6. a \in InstRows
  <2> HIDE DEF merged, id
  <2> QED BY <1>0, <1>5, InstTyped
<1>7. ~a.hidden /\ a.id = id /\ a.version = Stamp(live)
  BY DEF Inst, Stamp
<1>8. a \in Records /\ AdmittedAfter(live, a)
  <2> HIDE DEF a
  <2> QED BY <1>6, <1>7, InstAdmitted
<1>9. CASE ~audited(source)
  <2>1. Writes(<<a>> \o <<>>, FALSE)
    BY <1>1, <1>9
  <2> HIDE DEF a
  <2>2. Wrote(a)
    BY <1>8, <2>1, WroteOne
  <2> QED BY <1>6, <1>7, <2>2 DEF SourceWriteWrote
<1>10. CASE audited(source)
  <2>0. meets
    BY <1>10
  <2>1. Writes(<<a>> \o <<b>>, FALSE)
    BY <1>1, <1>10
  <2>2. b \in OverRows
    <3> HIDE DEF meets, patch, plan
    <3> QED BY <1>2, <1>4, <2>0, OverTyped
  <2>3. ~b.hidden /\ b.patch = patch /\ b.id = live.over.id /\ b.lost = Losers(plan, source, patch)
    BY DEF Over
  <2>4. Admits(live, Merged(plan, source, patch))
    BY <1>1, <2>0
  <2> HIDE DEF a, b
  <2>5. b \in Records /\ AdmittedAfter(ApplyRecord(live, a), b)
    BY <2>2, OverAdmitted
  <2>6. WroteBoth(a, b)
    BY <1>8, <2>1, <2>5, WroteTwo
  <2> QED BY <1>6, <1>7, <2>0, <2>2, <2>3, <2>4, <2>6 DEF SourceWriteWrote
<1> QED BY <1>9, <1>10

ReplaceWrote == \E a \in InstRows : ~a.hidden /\ a.id = NoId /\ Wrote(a)

LEMMA ReplaceWrites ==
  ASSUME LogInv, Replace
  PROVE  ReplaceWrote
<1>0. live \in Lives
  BY LiveIs
<1>1. PICK source \in Sources : Writes(<<Inst(live, source.props, NoId)>>, TRUE)
  BY DEF Replace
<1> DEFINE a == Inst(live, source.props, NoId)
<1>2. a \in InstRows
  <2>1. source.props \in PropSets
    BY InputAssumption
  <2> QED BY <1>0, <2>1, InstTyped
<1>3. ~a.hidden /\ a.id = NoId /\ a.version = Stamp(live)
  BY DEF Inst, Stamp
<1>4. Writes(<<a>>, TRUE)
  BY <1>1
<1> HIDE DEF a
<1>5. a \in Records /\ AdmittedAfter(live, a)
  BY <1>2, <1>3, InstAdmitted
<1>6. Wrote(a)
  <2>1. Writes(<<a>> \o <<>>, TRUE)
    BY <1>4, NothingAfter
  <2> QED BY <1>5, <2>1, WroteOne
<1> QED BY <1>2, <1>3, <1>6 DEF ReplaceWrote

(* A hide names what a load answers, and takes a shown overlay along.      *)
HideInstanceWrote ==
  /\ live.inst \in InstRows
  /\ \E a \in InstRows :
       /\ a.hidden /\ a.props = Load(live) /\ a.id = live.inst.id
       /\ \/ ~Shown(live.over) /\ Wrote(a)
          \/ \E b \in OverRows : b.hidden /\ b.id = NoId /\ WroteBoth(a, b)

LEMMA HideInstanceWrites ==
  ASSUME LogInv, HideInstance
  PROVE  HideInstanceWrote
<1> DEFINE props == Load(live)
           id == live.inst.id
           a == [row |-> "inst", hidden |-> TRUE, props |-> props, id |-> id, version |-> 1]
           b == Over(TRUE, NoPatch, <<>>, NoId)
<1>0. live \in Lives /\ live.inst # NoRow
  BY LiveIs DEF HideInstance
<1>1. live.inst \in InstRows /\ props \in PropSets
  BY <1>0, LoadTyped
<1>2. id \in Ids \cup {NoId}
  BY <1>1 DEF InstRows
<1>3. Writes(<<a>> \o HiddenOverlay(live), TRUE)
  BY DEF HideInstance
<1> HIDE DEF props, id
<1>4. a \in InstRows /\ a.hidden /\ a.props = props /\ a.id = id
  BY <1>1, <1>2 DEF InstRows
<1> HIDE DEF a
<1>5. a \in Records /\ AdmittedAfter(live, a)
  BY <1>4, InstAdmitted
<1>6. CASE ~Shown(live.over)
  <2>1. Writes(<<a>> \o <<>>, TRUE)
    BY <1>3, <1>6 DEF HiddenOverlay
  <2>2. Wrote(a)
    BY <1>5, <2>1, WroteOne
  <2> QED BY <1>1, <1>4, <1>6, <2>2 DEF HideInstanceWrote, props, id
<1>7. CASE Shown(live.over)
  <2>1. Writes(<<a>> \o <<b>>, TRUE)
    BY <1>3, <1>7 DEF HiddenOverlay
  <2>2. b \in OverRows
    BY NoPatchTyped, EmptyProps, OverTyped
  <2>3. b.hidden /\ b.id = NoId
    BY DEF Over
  <2> HIDE DEF b
  <2>4. b \in Records /\ AdmittedAfter(ApplyRecord(live, a), b)
    BY <2>2, OverAdmitted
  <2>5. WroteBoth(a, b)
    BY <1>5, <2>1, <2>4, WroteTwo
  <2> QED BY <1>1, <1>4, <2>2, <2>3, <2>5 DEF HideInstanceWrote, props, id
<1> QED BY <1>6, <1>7

ApplyOverlayWrote ==
  \E patch \in Patches, id \in Ids, a \in OverRows :
    /\ ~Claimed(id)
    /\ ~a.hidden /\ a.id = id /\ a.patch = patch /\ a.lost = <<>>
    /\ \/ Wrote(a)
       \/ \E b \in InstRows : ~b.hidden /\ b.id = id /\ WroteBoth(a, b)

LEMMA ApplyOverlayWrites ==
  ASSUME LogInv, ApplyOverlay
  PROVE  ApplyOverlayWrote
<1> DEFINE source == IF Shown(live.inst) THEN Load(live) ELSE <<>>
           made(patch) == Rematerialized(live, patch)
           overlay(patch, id) == Over(FALSE, patch, <<>>, id)
<1>0. live \in Lives
  BY LiveIs
<1>1. PICK patch \in Patches, id \in Ids :
        /\ ~Claimed(id)
        /\ IF HiddenNow(live) THEN Writes(<<overlay(patch, id)>>, TRUE)
           ELSE IF Admits(live, made(patch))
                THEN Writes(<<overlay(patch, id), Inst(live, made(patch), id)>>, TRUE)
           ELSE Writes(<<overlay(patch, id)>>, FALSE)
  BY DEF ApplyOverlay
<1>2. source \in PropSets
  BY <1>0, LoadTyped, EmptyProps DEF Shown
<1>3. made(patch) \in PropSets
  <2> DEFINE s == [props |-> source, time |-> NoTime]
  <2>1. patch.props \in PropSets
    BY InputAssumption DEF PatchSets
  <2>2. s.props \in PropSets
    BY <1>2
  <2> HIDE DEF s, source
  <2>3. Merged(Implicit, s, patch) \in PropSets
    BY <2>1, <2>2, MergedTyped
  <2> QED BY <2>3 DEF s, Rematerialized, source
<1> DEFINE a == overlay(patch, id)
           b == Inst(live, made(patch), id)
<1>4. a \in OverRows /\ ~a.hidden /\ a.id = id /\ a.patch = patch /\ a.lost = <<>>
  <2>1. patch \in PatchSets
    BY InputAssumption
  <2>2. a \in OverRows
    BY <2>1, EmptyProps, OverTyped
  <2> QED BY <2>2 DEF Over
<1>5. b \in InstRows /\ ~b.hidden /\ b.id = id /\ b.version = Stamp(live)
  <2>1. b \in InstRows
    <3> HIDE DEF made
    <3> QED BY <1>0, <1>3, InstTyped
  <2> QED BY <2>1 DEF Inst, Stamp
<1>6. \/ \E commits \in BOOLEAN : Writes(<<a>>, commits)
      \/ Writes(<<a, b>>, TRUE)
  <2> HIDE DEF made, overlay
  <2> QED BY <1>1
<1> HIDE DEF a, b
<1>7. /\ a \in Records /\ AdmittedAfter(live, a)
      /\ b \in Records /\ AdmittedAfter(ApplyRecord(live, a), b)
  <2>1. ApplyRecord(live, a).schema = live.schema
    BY <1>0, <1>4, ApplyOver
  <2>2. b.version = Stamp(ApplyRecord(live, a))
    BY <1>5, <2>1 DEF Stamp
  <2> QED BY <1>4, <1>5, <2>2, OverAdmitted, InstAdmitted
<1>8. ASSUME NEW commits \in BOOLEAN, Writes(<<a>>, commits) PROVE Wrote(a)
  <2>1. Writes(<<a>> \o <<>>, commits)
    BY <1>8, NothingAfter
  <2> QED BY <1>7, <2>1, WroteOne
<1>9. ASSUME Writes(<<a, b>>, TRUE) PROVE WroteBoth(a, b)
  <2>1. <<a, b>> = <<a>> \o <<b>>
    BY PairIs
  <2>2. Writes(<<a>> \o <<b>>, TRUE)
    BY <1>9, <2>1
  <2> QED BY <1>7, <2>2, WroteTwo
<1> QED BY <1>1, <1>4, <1>5, <1>6, <1>8, <1>9 DEF ApplyOverlayWrote

LEMMA CrashKeeps ==
  ASSUME LogInv, Crash
  PROVE  /\ LogInv' /\ committed' = committed /\ log' = SubSeq(log, 1, committed)
         /\ Len(log') = committed /\ live' = At(log, committed)
<1> DEFINE less == SubSeq(log, 1, committed)
<1>1. Len(log) \in Nat /\ committed \in 0..Len(log) /\ committed \in Nat /\ log \in Seq(Records)
  BY LiveIs DEF LogInv
<1>2. log' = less /\ committed' = committed /\ live' = At(log, committed)
  BY DEF Crash, First, At
<1>3. less \in Seq(Records) /\ Len(less) = committed
  <2>1. committed \in 0..committed
    BY <1>1
  <2> QED BY <1>1, <2>1, AtPrefix
<1>4. At(log, committed) = Replay(EmptyLive, less)
  BY DEF At
<1>5. Admitted(less)
  BY <1>1, AdmittedPrefix DEF LogInv
<1>6. committed \in 0..committed
  BY <1>1
<1> HIDE DEF less
<1>7. LogInv'
  BY <1>2, <1>3, <1>4, <1>5, <1>6 DEF LogInv
<1> QED BY <1>2, <1>3, <1>7 DEF less

LEMMA CommitKeeps ==
  ASSUME LogInv, Commit
  PROVE  LogInv'
<1>1. committed' = Len(log) /\ log' = log /\ live' = live /\ Len(log) \in Nat
  BY LiveIs DEF Commit
<1> QED BY <1>1 DEF LogInv

LEMMA LogInvInit == Init => LogInv
<1> SUFFICES ASSUME Init PROVE LogInv
  OBVIOUS
<1>1. log = <<>> /\ committed = 0 /\ live = EmptyLive /\ Len(<<>>) = 0 /\ <<>> \in Seq(Records)
  BY DEF Init
<1>2. Replay(EmptyLive, <<>>) = EmptyLive
  BY EmptyLiveIs, ReplayEmpty
<1>3. Admitted(<<>>)
  BY DEF Admitted
<1> QED BY <1>1, <1>2, <1>3 DEF LogInv

LEMMA LogInvNext == LogInv /\ [Next]_vars => LogInv'
<1> SUFFICES ASSUME LogInv, [Next]_vars PROVE LogInv'
  OBVIOUS
<1>1. CASE PutSchema
  BY <1>1, PutSchemaWrites DEF PutSchemaWrote, Wrote, WroteBoth
<1>2. CASE HideSchema
  BY <1>2, HideSchemaWrites DEF HideSchemaWrote, Wrote
<1>3. CASE SourceWrite
  BY <1>3, SourceWriteWrites DEF SourceWriteWrote, Wrote, WroteBoth
<1>4. CASE Replace
  BY <1>4, ReplaceWrites DEF ReplaceWrote, Wrote
<1>5. CASE HideInstance
  BY <1>5, HideInstanceWrites DEF HideInstanceWrote, Wrote, WroteBoth
<1>6. CASE ApplyOverlay
  BY <1>6, ApplyOverlayWrites DEF ApplyOverlayWrote, Wrote, WroteBoth
<1>7. CASE Commit
  BY <1>7, CommitKeeps
<1>8. CASE Crash
  BY <1>8, CrashKeeps
<1>9. CASE UNCHANGED vars
  BY <1>9 DEF vars, LogInv
<1> QED BY <1>1, <1>2, <1>3, <1>4, <1>5, <1>6, <1>7, <1>8, <1>9 DEF Next

(* The log is what the calls admitted, each descriptor one version after   *)
(* the last and checked against it, and the rows are its replay.           *)
THEOREM LogInvHolds == Spec => []LogInv
<1>1. Init => LogInv
  BY LogInvInit
<1>2. LogInv /\ [Next]_vars => LogInv'
  BY LogInvNext
<1> QED BY <1>1, <1>2, PTL DEF Spec

-----------------------------------------------------------------------------
(* A descriptor that was checked and that took the instance along renames  *)
(* its properties one by one, dropped ones included, and loses none.       *)

OneToOne(desc) == \A r, s \in desc.rename : r[1] = s[1] <=> r[2] = s[2]

Clear(desc, props) == \A r \in desc.rename : ~(r[1] \in DOMAIN props /\ r[2] \in DOMAIN props)

LEMMA RestrictedHas ==
  ASSUME NEW f, NEW names
  PROVE  /\ DOMAIN Restricted(f, names) = DOMAIN f \cap names
         /\ \A n \in DOMAIN Restricted(f, names) : Restricted(f, names)[n] = f[n]
BY DEF Restricted

LEMMA RenamedHas ==
  ASSUME NEW desc, NEW props
  PROVE  /\ \A n \in DOMAIN props : Mapped(desc, n) \in DOMAIN Renamed(desc, props)
         /\ \A m \in DOMAIN Renamed(desc, props) : \E n \in DOMAIN props : m = Mapped(desc, n)
BY DEF Renamed

LEMMA ClearMapsApart ==
  ASSUME NEW desc \in Descs, OneToOne(desc), NEW props, Clear(desc, props),
         NEW n \in DOMAIN props, NEW k \in DOMAIN props, Mapped(desc, n) = Mapped(desc, k)
  PROVE  n = k
<1>1. CASE n \in Froms(desc) /\ k \in Froms(desc)
  <2>1. PICK r \in desc.rename : r[1] = n /\ r[2] = Mapped(desc, n)
    BY <1>1, MappedIs
  <2>2. PICK s \in desc.rename : s[1] = k /\ s[2] = Mapped(desc, k)
    BY <1>1, MappedIs
  <2> QED BY <2>1, <2>2 DEF OneToOne
<1>2. CASE n \in Froms(desc) /\ k \notin Froms(desc)
  <2>1. PICK r \in desc.rename : r[1] = n /\ r[2] = Mapped(desc, n)
    BY <1>2, MappedIs
  <2>2. r[2] = k
    BY <1>2, <2>1, MappedIs
  <2> QED BY <2>1, <2>2 DEF Clear
<1>3. CASE n \notin Froms(desc) /\ k \in Froms(desc)
  <2>1. PICK r \in desc.rename : r[1] = k /\ r[2] = Mapped(desc, k)
    BY <1>3, MappedIs
  <2>2. r[2] = n
    BY <1>3, <2>1, MappedIs
  <2> QED BY <2>1, <2>2 DEF Clear
<1>4. CASE n \notin Froms(desc) /\ k \notin Froms(desc)
  BY <1>4, MappedIs
<1> QED BY <1>1, <1>2, <1>3, <1>4

LEMMA ClearRenames ==
  ASSUME NEW desc \in Descs, OneToOne(desc), NEW props, Clear(desc, props),
         NEW n \in DOMAIN props
  PROVE  /\ Mapped(desc, n) \in DOMAIN Renamed(desc, props)
         /\ Renamed(desc, props)[Mapped(desc, n)] = props[n]
<1> DEFINE m == Mapped(desc, n)
<1>1. m \in DOMAIN Renamed(desc, props)
  BY RenamedHas
<1>2. PICK k \in DOMAIN props : Mapped(desc, k) = m /\ Renamed(desc, props)[m] = props[k]
  BY <1>1, RenamedAt
<1>3. k = n
  BY <1>2, ClearMapsApart
<1> QED BY <1>1, <1>2, <1>3

(* Without renames nothing moves.                                          *)
LEMMA NoRenames ==
  ASSUME NEW desc \in Descs, desc.rename = {}, NEW props \in PropSets
  PROVE  Renamed(desc, props) = props /\ Clear(desc, props) /\ OneToOne(desc) /\ Froms(desc) = {}
<1>1. Froms(desc) = {} /\ Clear(desc, props) /\ OneToOne(desc)
  BY DEF Froms, Clear, OneToOne
<1>2. \A n : Mapped(desc, n) = n
  BY <1>1, MappedIs
<1>3. DOMAIN Renamed(desc, props) = DOMAIN props
  BY <1>2, RenamedHas
<1>4. \A n \in DOMAIN props : Renamed(desc, props)[n] = props[n]
  BY <1>1, <1>2, ClearRenames
<1>5. Renamed(desc, props) = [m \in DOMAIN Renamed(desc, props) |-> Renamed(desc, props)[m]]
  BY RenamedDomain
<1>6. props = [n \in DOMAIN props |-> props[n]]
  BY PropsAre
<1> DEFINE g == Renamed(desc, props)
<1>7. DOMAIN g = DOMAIN props /\ g = [m \in DOMAIN g |-> g[m]] /\ \A n \in DOMAIN props : g[n] = props[n]
  BY <1>3, <1>4, <1>5
<1> HIDE DEF g
<1>8. g = props
  BY <1>6, <1>7, SameProps
<1> QED BY <1>1, <1>8 DEF g

(* Renaming a part of the properties that takes in what is renamed, and    *)
(* putting the others beside it, renames them all.                         *)
LEMMA RenamedBeside ==
  ASSUME NEW desc \in Descs, OneToOne(desc), NEW props \in PropSets, Clear(desc, props),
         NEW kept, Froms(desc) \cap DOMAIN props \subseteq kept
  PROVE  Beside(Renamed(desc, Restricted(props, kept)), Restricted(props, Names \ kept))
           = Renamed(desc, props)
<1> DEFINE moved == Restricted(props, kept)
           aside == Restricted(props, Names \ kept)
           f == Renamed(desc, moved)
           g == Renamed(desc, props)
           h == Beside(f, aside)
<1>1. DOMAIN moved = DOMAIN props \cap kept /\ \A n \in DOMAIN moved : moved[n] = props[n]
  BY RestrictedHas
<1>2. /\ DOMAIN aside = DOMAIN props \cap (Names \ kept) /\ \A n \in DOMAIN aside : aside[n] = props[n]
  BY RestrictedHas
<1>3. DOMAIN props \subseteq Names
  BY PropsAre
<1>4. Clear(desc, moved)
  BY <1>1 DEF Clear
<1>5. \A n \in DOMAIN aside : Mapped(desc, n) = n
  BY <1>2, MappedIs
<1>6. \A n \in DOMAIN moved : Mapped(desc, n) \in DOMAIN f /\ f[Mapped(desc, n)] = props[n]
  <2> HIDE DEF moved
  <2> QED BY <1>1, <1>4, ClearRenames
<1>7. \A n \in DOMAIN props : Mapped(desc, n) \in DOMAIN g /\ g[Mapped(desc, n)] = props[n]
  BY ClearRenames
<1>8. DOMAIN f = {Mapped(desc, n) : n \in DOMAIN moved} /\ DOMAIN g = {Mapped(desc, n) : n \in DOMAIN props}
  BY RenamedDomain
<1>9. g = [m \in DOMAIN g |-> g[m]]
  BY RenamedDomain
<1>10. /\ DOMAIN h = DOMAIN f \cup DOMAIN aside
       /\ \A n \in DOMAIN f \cup DOMAIN aside : h[n] = IF n \in DOMAIN f THEN f[n] ELSE aside[n]
       /\ h = [m \in DOMAIN h |-> h[m]]
  <2> HIDE DEF f, aside
  <2>1. h = Beside(f, aside)
    OBVIOUS
  <2> HIDE DEF h
  <2>2. /\ DOMAIN h = DOMAIN f \cup DOMAIN aside
        /\ \A n \in DOMAIN f \cup DOMAIN aside : h[n] = IF n \in DOMAIN f THEN f[n] ELSE aside[n]
    BY <2>1 DEF Beside
  <2>3. h = [m \in DOMAIN h |-> h[m]]
    BY <2>1 DEF Beside
  <2> QED BY <2>2, <2>3
<1> HIDE DEF moved, aside, f, g, h
<1>11. ASSUME NEW m \in DOMAIN h
       PROVE  m \in DOMAIN g /\ h[m] = g[m]
  <2>1. CASE m \in DOMAIN f
    <3>1. PICK n \in DOMAIN moved : m = Mapped(desc, n)
      BY <1>8, <2>1
    <3> QED BY <1>1, <1>6, <1>7, <1>10, <2>1, <3>1
  <2>2. CASE m \notin DOMAIN f
    <3>1. m \in DOMAIN aside /\ m \in DOMAIN props /\ Mapped(desc, m) = m
      BY <1>2, <1>5, <1>10, <2>2
    <3>2. m \in DOMAIN g /\ g[m] = props[m]
      BY <1>7, <3>1
    <3> QED BY <1>2, <1>10, <2>2, <3>1, <3>2
  <2> QED BY <2>1, <2>2
<1>12. ASSUME NEW m \in DOMAIN g
       PROVE  m \in DOMAIN h
  <2>1. PICK n \in DOMAIN props : m = Mapped(desc, n)
    BY <1>8
  <2>2. CASE n \in kept
    BY <1>1, <1>6, <1>10, <2>1, <2>2
  <2>3. CASE n \notin kept
    BY <1>2, <1>3, <1>5, <1>10, <2>1, <2>3
  <2> QED BY <2>2, <2>3
<1>13. DOMAIN h = DOMAIN g
  BY <1>11, <1>12
<1>14. h = g
  BY <1>9, <1>10, <1>11, <1>13, SameProps
<1> QED BY <1>14 DEF h, g, f, moved, aside

LEMMA CarriesIs ==
  ASSUME NEW l \in Lives, NEW desc \in Descs, CheckReplacement(Latest(l), desc),
         CarriesInstance(l, desc), l.inst # NoRow
  PROVE  /\ OneToOne(desc) /\ Clear(desc, l.inst.props)
         /\ ~LiveSchemaHidden(l) => \A r \in desc.rename : r[2] \notin DOMAIN l.inst.props
         /\ desc.cast # {} =>
              CanMigrate(desc, Restricted(l.inst.props,
                           (IF LiveSchemaHidden(l) THEN DOMAIN l.inst.props ELSE Declared(Latest(l)))
                             \cup Froms(desc)))
<1> DEFINE props == l.inst.props
           current == IF LiveSchemaHidden(l) THEN DOMAIN props ELSE Declared(Latest(l))
           carried == Restricted(props, current \cup Froms(desc))
<1>1. OneToOne(desc) /\ \A r \in desc.rename : r[2] \notin Declared(Latest(l))
  BY DEF CheckReplacement, OneToOne
<1>2. (desc.cast # {} \/ desc.rename # {}) =>
        /\ \A r \in desc.rename : r[2] \in current \/ r[2] \notin DOMAIN props
        /\ CanMigrate(desc, carried)
  BY DEF CarriesInstance, CurrentKindProperties
<1>3. DOMAIN carried = DOMAIN props \cap (current \cup Froms(desc))
  BY RestrictedIs
<1> HIDE DEF carried
<1>4. CASE LiveSchemaHidden(l)
  <2>1. DOMAIN carried = DOMAIN props
    BY <1>3, <1>4
  <2>2. Clear(desc, props)
    <3> SUFFICES ASSUME NEW r \in desc.rename, r[1] \in DOMAIN props, r[2] \in DOMAIN props
                 PROVE  FALSE
      BY DEF Clear
    <3>1. CanMigrate(desc, carried)
      BY <1>2
    <3>2. ~{r[1], r[2]} \subseteq DOMAIN carried
      BY <3>1 DEF CanMigrate
    <3> QED BY <2>1, <3>2
  <2> QED BY <1>1, <1>2, <1>4, <2>2 DEF carried
<1>5. CASE ~LiveSchemaHidden(l)
  <2>1. \A r \in desc.rename : r[2] \notin DOMAIN props
    BY <1>1, <1>2, <1>5
  <2>2. Clear(desc, props)
    BY <2>1 DEF Clear
  <2> QED BY <1>1, <1>2, <1>5, <2>1, <2>2 DEF carried
<1> QED BY <1>4, <1>5

(* remap_kind renames the whole instance, whether it knows the version     *)
(* before, or none of the earlier ones.                                    *)
LEMMA RemapRenames ==
  ASSUME NEW l \in Lives, NEW desc \in Descs, CheckReplacement(Latest(l), desc),
         CarriesInstance(l, desc), l.inst # NoRow, NEW hist,
         LET earlier == {v \in DOMAIN hist : v < desc.version}
         IN earlier = {} \/ hist[Max(earlier)] = Latest(l)
  PROVE  Remap(l.inst, desc, hist) = [l.inst EXCEPT !.props = Renamed(desc, l.inst.props)]
<1> DEFINE props == l.inst.props
           prev == Latest(l)
           current == IF LiveSchemaHidden(l) THEN DOMAIN props ELSE Declared(prev)
           carried == Restricted(props, current \cup Froms(desc))
           earlier == {v \in DOMAIN hist : v < desc.version}
           kept == IF earlier = {} THEN DOMAIN props
                   ELSE Declared(hist[Max(earlier)]) \cup Froms(desc)
           moved == Restricted(props, kept)
<1>1. props \in PropSets
  BY LoadTyped
<1>2. /\ OneToOne(desc) /\ Clear(desc, props)
      /\ ~LiveSchemaHidden(l) => \A r \in desc.rename : r[2] \notin DOMAIN props
      /\ desc.cast # {} => CanMigrate(desc, carried)
  BY CarriesIs
<1>3. kept \in {DOMAIN props, Declared(prev) \cup Froms(desc)}
  OBVIOUS
<1> HIDE DEF kept
<1>4. DOMAIN moved = DOMAIN props \cap kept /\ \A n \in DOMAIN moved : moved[n] = props[n]
  BY RestrictedHas
<1>5. /\ DOMAIN carried = DOMAIN props \cap (current \cup Froms(desc))
      /\ \A n \in DOMAIN carried : carried[n] = props[n]
  BY RestrictedHas
<1>6. Remap(l.inst, desc, hist) =
        IF ~CanMigrate(desc, moved) THEN l.inst
        ELSE [l.inst EXCEPT !.props =
                Beside(Renamed(desc, moved), Restricted(props, Names \ kept))]
  BY DEF Remap, kept
<1> HIDE DEF moved, carried
<1>7. Clear(desc, moved) /\ Clear(desc, carried)
  BY <1>2, <1>4, <1>5 DEF Clear
<1>8. CanMigrate(desc, moved)
  <2>1. ASSUME NEW r \in desc.rename PROVE ~{r[1], r[2]} \subseteq DOMAIN moved
    BY <1>7 DEF Clear
  <2>2. ASSUME NEW m \in desc.cast \cap DOMAIN Renamed(desc, moved)
        PROVE  Fits(desc.types[m], Renamed(desc, moved)[m])
    <3>1. PICK n \in DOMAIN moved : Mapped(desc, n) = m /\ Renamed(desc, moved)[m] = moved[n]
      BY RenamedAt
    <3>2. PICK k \in Declared(prev) : Mapped(desc, k) = m
      BY DEF CheckReplacement, ExpectedCast
    <3>3. n \in DOMAIN carried
      <4>1. CASE n \in Froms(desc) \/ LiveSchemaHidden(l)
        BY <1>4, <1>5, <4>1
      <4>2. CASE n \notin Froms(desc) /\ ~LiveSchemaHidden(l)
        <5>1. n = m
          BY <3>1, <4>2, MappedIs
        <5>2. CASE k \in Froms(desc)
          <6>1. PICK r \in desc.rename : r[1] = k /\ r[2] = m
            BY <3>2, <5>2, MappedIs
          <6> QED BY <1>2, <1>4, <4>2, <5>1, <6>1
        <5>3. CASE k \notin Froms(desc)
          <6>1. k = n
            BY <3>2, <5>1, <5>3, MappedIs
          <6> QED BY <1>4, <1>5, <4>2, <6>1
        <5> QED BY <5>2, <5>3
      <4> QED BY <4>1, <4>2
    <3>4. m \in DOMAIN Renamed(desc, carried) /\ Renamed(desc, carried)[m] = carried[n]
      BY <1>2, <1>7, <3>1, <3>3, ClearRenames
    <3>5. CanMigrate(desc, carried)
      BY <1>2
    <3>6. Fits(desc.types[m], Renamed(desc, carried)[m])
      BY <3>4, <3>5 DEF CanMigrate
    <3> QED BY <1>4, <1>5, <3>1, <3>3, <3>4, <3>6
  <2> QED BY <2>1, <2>2 DEF CanMigrate
<1>9. Froms(desc) \cap DOMAIN props \subseteq kept
  BY <1>3
<1>10. Beside(Renamed(desc, moved), Restricted(props, Names \ kept)) = Renamed(desc, props)
  BY <1>1, <1>2, <1>9, RenamedBeside DEF moved
<1> QED BY <1>6, <1>8, <1>10

(* What a descriptor that was admitted does to the instance.               *)
MovedInst(inst, desc) == [inst EXCEPT !.props = Renamed(desc, inst.props)]

LEMMA MovedIs ==
  ASSUME NEW inst \in InstRows, NEW desc \in Descs
  PROVE  /\ MovedInst(inst, desc) \in InstRows
         /\ MovedInst(inst, desc).props = Renamed(desc, inst.props)
         /\ MovedInst(inst, desc).hidden = inst.hidden
         /\ MovedInst(inst, desc).id = inst.id
         /\ MovedInst(inst, desc).version = inst.version
<1> DEFINE props == Renamed(desc, inst.props)
<1>1. inst.props \in PropSets
  BY DEF InstRows
<1>2. props \in PropSets
  BY <1>1, RenamedTyped
<1>3. MovedInst(inst, desc) = [inst EXCEPT !.props = props]
  BY DEF MovedInst
<1> HIDE DEF props
<1>4. /\ MovedInst(inst, desc) \in InstRows /\ MovedInst(inst, desc).props = props
      /\ MovedInst(inst, desc).hidden = inst.hidden /\ MovedInst(inst, desc).id = inst.id
      /\ MovedInst(inst, desc).version = inst.version
  BY <1>2, <1>3 DEF InstRows
<1> QED BY <1>4 DEF props

LEMMA FollowerMoves ==
  ASSUME NEW l \in Lives, Sound(l), NEW desc \in Descs, Follows(l, desc), l.inst # NoRow,
         NEW hist, LET earlier == {v \in DOMAIN hist : v < desc.version}
                   IN earlier = {} \/ hist[Max(earlier)] = Latest(l)
  PROVE  /\ OneToOne(desc) /\ Clear(desc, l.inst.props)
         /\ (IF Migrates(desc) THEN Remap(l.inst, desc, hist) ELSE l.inst) = MovedInst(l.inst, desc)
         /\ ~LiveSchemaHidden(l) => \A r \in desc.rename : r[2] \notin DOMAIN l.inst.props
<1>1. l.inst \in InstRows /\ l.inst.props \in PropSets
  BY LoadTyped
<1>2. CASE ~Migrates(desc)
  <2>1. desc.rename = {}
    BY <1>2 DEF Migrates
  <2>2. Renamed(desc, l.inst.props) = l.inst.props /\ Clear(desc, l.inst.props) /\ OneToOne(desc)
    BY <1>1, <2>1, NoRenames
  <2>3. [l.inst EXCEPT !.props = l.inst.props] = l.inst
    BY <1>1 DEF InstRows
  <2> QED BY <1>2, <2>1, <2>2, <2>3 DEF MovedInst
<1>3. CASE Migrates(desc)
  <2>1. Versions(l) # {}
    BY <1>3 DEF Migrates, Follows
  <2>2. CheckReplacement(Latest(l), desc) /\ CarriesInstance(l, desc)
    BY <2>1 DEF Follows
  <2> QED BY <1>3, <2>2, CarriesIs, RemapRenames DEF MovedInst
<1> QED BY <1>2, <1>3

-----------------------------------------------------------------------------
(* The history that a read of the log finds is the one the process has.    *)

LEMMA RecalledTyped ==
  ASSUME NEW hist \in Hists, NEW rec \in Records
  PROVE  Recalled(hist, rec) \in Hists
<1>1. CASE rec.row = "schema"
  <2>1. rec.desc \in Descs
    BY <1>1, RowKinds DEF SchemaRows
  <2> QED BY <2>1, RememberedIs DEF Recalled
<1>2. CASE rec.row # "schema"
  BY <1>2 DEF Recalled
<1> QED BY <1>1, <1>2

RecallStep == [p \in Hists \X Records |-> Recalled(p[1], p[2])]

LEMMA HistFolds ==
  ASSUME NEW hist \in Hists, NEW seq \in Seq(Records)
  PROVE  HistOf(hist, seq) = Folded(hist, RecallStep, seq)
<1> DEFINE N == Len(seq)
           F(g) == g = [s \in SUBSET (1..N) |->
                          IF s = {} THEN hist ELSE Recalled(g[s \ {Max(s)}], seq[Max(s)])]
<1>1. N \in Nat /\ DOMAIN seq = 1..N /\ \A i \in 1..N : seq[i] \in Records
  BY LenProperties, ElementOfSeq
<1>2. RecallStep \in [Hists \X Records -> Hists]
  BY RecalledTyped DEF RecallStep
<1>3. \A a \in Hists, r \in Records : RecallStep[<<a, r>>] = Recalled(a, r)
  BY DEF RecallStep
<1>4. ASSUME NEW g, FoldsTo(g, hist, RecallStep, seq, N) PROVE F(g)
  <2>1. \A s \in SUBSET (1..N) :
          /\ g[s] \in Hists
          /\ s # {} => Max(s) \in 1..N /\ s \ {Max(s)} \in SUBSET (1..N)
    BY <1>2, <1>4, FoldsToTyped
  <2>2. \A s \in SUBSET (1..N) : s # {} =>
          RecallStep[<<g[s \ {Max(s)}], seq[Max(s)]>>] = Recalled(g[s \ {Max(s)}], seq[Max(s)])
    BY <1>1, <1>3, <2>1
  <2> HIDE DEF N
  <2> QED BY <1>4, <2>2 DEF FoldsTo
<1>5. ASSUME NEW g, F(g) PROVE FoldsTo(g, hist, RecallStep, seq, N)
  <2>1. g = [s \in SUBSET (1..N) |-> g[s]] /\ g[{}] = hist
    BY <1>5
  <2>2. \A s \in SUBSET (1..N) :
          s # {} /\ g[s \ {Max(s)}] \in Hists /\ seq[Max(s)] \in Records
            => g[s] = RecallStep[<<g[s \ {Max(s)}], seq[Max(s)]>>]
    BY <1>3, <1>5
  <2> QED BY <1>2, <2>1, <2>2, FoldsToFrom
<1> DEFINE h == CHOOSE g : F(g)
<1>6. F(h)
  <2>1. \E g : F(g)
    BY <1>1, <1>4, FoldsExist
  <2> HIDE DEF F
  <2> QED BY <2>1
<1>7. HistOf(hist, seq) = h[1..N]
  BY <1>1 DEF HistOf, FoldLeft, MapThenFoldSet
<1> HIDE DEF F, h
<1>8. Folded(hist, RecallStep, seq) = h[1..N]
  BY <1>1, <1>5, <1>6, FoldedIs
<1> QED BY <1>7, <1>8

LEMMA HistAppend ==
  ASSUME NEW hist \in Hists, NEW seq \in Seq(Records), NEW rec \in Records
  PROVE  /\ HistOf(hist, <<>>) = hist
         /\ HistOf(hist, Append(seq, rec)) = Recalled(HistOf(hist, seq), rec)
<1>1. RecallStep \in [Hists \X Records -> Hists]
  BY RecalledTyped DEF RecallStep
<1> DEFINE a == Folded(hist, RecallStep, seq)
<1>2. a \in Hists
  BY <1>1, FoldedTyped
<1>3. HistOf(hist, seq) = a
  BY HistFolds
<1>4. Append(seq, rec) \in Seq(Records) /\ <<>> \in Seq(Records)
  BY AppendProperties
<1>5. HistOf(hist, Append(seq, rec)) = Folded(hist, RecallStep, Append(seq, rec))
  BY <1>4, HistFolds
<1>6. Folded(hist, RecallStep, Append(seq, rec)) = RecallStep[<<a, rec>>]
  BY FoldedAppend
<1>7. HistOf(hist, <<>>) = hist
  BY <1>4, HistFolds, FoldedEmpty
<1> HIDE DEF a
<1>8. RecallStep[<<a, rec>>] = Recalled(a, rec)
  BY <1>2 DEF RecallStep
<1> QED BY <1>3, <1>5, <1>6, <1>7, <1>8

LEMMA ApplyRecalls ==
  ASSUME NEW l \in Lives, NEW rec \in Records
  PROVE  ApplyRecord(l, rec).hist = Recalled(l.hist, rec)
<1>1. CASE rec.row = "schema"
  BY <1>1, RowKinds, ApplySchema DEF Recalled, HistAfter
<1>2. CASE rec.row # "schema"
  BY <1>2, RowKinds, ApplyOver, ApplyInst DEF Recalled
<1> QED BY <1>1, <1>2

LEMMA HistIsLive ==
  ASSUME NEW records \in Seq(Records)
  PROVE  HistOf(<<>>, records) = Replay(EmptyLive, records).hist
<1> DEFINE T == {s \in Seq(Records) : HistOf(<<>>, s) = Replay(EmptyLive, s).hist}
<1>1. <<>> \in T
  <2>1. <<>> \in Seq(Records)
    OBVIOUS
  <2>2. HistOf(<<>>, <<>>) = <<>>
    <3>1. Folded(<<>>, RecallStep, <<>>) = <<>>
      BY FoldedEmpty
    <3> QED BY <2>1, <3>1, NoHist, HistFolds
  <2>3. Replay(EmptyLive, <<>>).hist = <<>>
    BY EmptyLiveIs, ReplayEmpty
  <2> QED BY <2>1, <2>2, <2>3
<1>2. ASSUME NEW s \in T, NEW rec \in Records PROVE Append(s, rec) \in T
  <2>1. Append(s, rec) \in Seq(Records) /\ s \in Seq(Records)
    BY AppendProperties
  <2>2. HistOf(<<>>, Append(s, rec)) = Recalled(HistOf(<<>>, s), rec)
    BY NoHist, HistAppend
  <2>3. Replay(EmptyLive, Append(s, rec)) = ApplyRecord(Replay(EmptyLive, s), rec)
    BY EmptyLiveIs, ReplayAppend
  <2>4. ApplyRecord(Replay(EmptyLive, s), rec).hist = Recalled(Replay(EmptyLive, s).hist, rec)
    BY EmptyLiveIs, ReplayTyped, ApplyRecalls
  <2> QED BY <2>1, <2>2, <2>3, <2>4
<1> HIDE DEF T
<1>3. T = Seq(Records)
  <2>1. T \subseteq Seq(Records) BY DEF T
  <2> QED BY <1>1, <1>2, <2>1, SeqSetInduction
<1> QED BY <1>3 DEF T

(* Versions are never forgotten.                                           *)
LEMMA HistGrows ==
  ASSUME NEW records \in Seq(Records), Admitted(records),
         NEW k \in 0..Len(records), NEW j \in k..Len(records)
  PROVE  /\ Newest(At(records, k)) <= Newest(At(records, j))
         /\ \A v \in 1..Newest(At(records, k)) : At(records, j).hist[v] = At(records, k).hist[v]
<1> DEFINE N(i) == Newest(At(records, i))
           T == {i \in Nat : k + i <= Len(records) =>
                   /\ N(k) <= N(k + i)
                   /\ \A v \in 1..N(k) : At(records, k + i).hist[v] = At(records, k).hist[v]}
<1>1. Len(records) \in Nat /\ k \in Nat
  BY LenProperties
<1>2. \A i \in 0..Len(records) : At(records, i) \in Lives /\ Sound(At(records, i)) /\ N(i) \in Nat
  BY <1>1, AtIs, AdmittedSound, SoundIs
<1>3. 0 \in T
  <2>1. k + 0 = k /\ N(k) \in Nat
    BY <1>1, <1>2
  <2> HIDE DEF N
  <2> QED BY <2>1
<1>4. ASSUME NEW i \in T PROVE i + 1 \in T
  <2> SUFFICES ASSUME k + (i + 1) <= Len(records)
               PROVE  /\ N(k) <= N(k + (i + 1))
                      /\ \A v \in 1..N(k) :
                           At(records, k + (i + 1)).hist[v] = At(records, k).hist[v]
    OBVIOUS
  <2> DEFINE a == k + i
             l == At(records, a)
             m == At(records, a + 1)
  <2>1. a \in 0..Len(records) /\ a < Len(records) /\ a + 1 = k + (i + 1) /\ a + 1 \in 0..Len(records)
        /\ a + 1 \in 1..Len(records) /\ (a + 1) - 1 = a
    BY <1>1
  <2>2. N(k) <= N(a) /\ \A v \in 1..N(k) : l.hist[v] = At(records, k).hist[v]
    BY <2>1
  <2> HIDE DEF a
  <2>3. l \in Lives /\ Sound(l) /\ records[a + 1] \in Records /\ m = ApplyRecord(l, records[a + 1])
    BY <1>2, <2>1, AtIs
  <2>4. AdmittedAfter(l, records[a + 1])
    BY <2>1 DEF Admitted
  <2>5. Newest(l) <= Newest(m) /\ \A v \in 1..Newest(l) : m.hist[v] = l.hist[v]
    <3>1. Newest(l) \in Nat
      BY <1>2, <2>1
    <3> HIDE DEF l
    <3>2. \/ Newest(m) = Newest(l) + 1 /\ \A v \in 1..Newest(l) : m.hist[v] = l.hist[v]
          \/ Newest(m) = Newest(l) /\ m.hist = l.hist
      BY <2>3, <2>4, SoundStep
    <3> QED BY <3>1, <3>2
  <2>6. N(k) \in Nat /\ N(a) \in Nat /\ N(a + 1) \in Nat /\ N(a) = Newest(l) /\ N(a + 1) = Newest(m)
    BY <1>1, <1>2, <2>1
  <2> HIDE DEF l, m, N
  <2>7. N(k) <= N(a + 1) /\ \A v \in 1..N(k) : m.hist[v] = At(records, k).hist[v]
    <3>1. N(k) <= N(a + 1)
      BY <2>2, <2>5, <2>6
    <3>2. ASSUME NEW v \in 1..N(k) PROVE m.hist[v] = At(records, k).hist[v]
      <4>1. v \in 1..Newest(l)
        BY <2>2, <2>6
      <4> QED BY <2>2, <2>5, <4>1
    <3> QED BY <3>1, <3>2
  <2> QED BY <2>1, <2>7 DEF m
<1> HIDE DEF T
<1>5. T = Nat
  <2>1. T \subseteq Nat BY DEF T
  <2> QED BY <1>3, <1>4, <2>1, NatSetInduction
<1>6. j - k \in Nat /\ k + (j - k) = j
  BY <1>1
<1>7. j - k \in T
  BY <1>5, <1>6
<1> HIDE DEF N
<1>8. N(k) <= N(j) /\ \A v \in 1..N(k) : At(records, j).hist[v] = At(records, k).hist[v]
  BY <1>6, <1>7 DEF T
<1> QED BY <1>8 DEF N

-----------------------------------------------------------------------------
(* A reopen: the rows of a sidecar, and the tail of the log replayed over  *)
(* them with less history, or with more, than the process had.             *)

Beneath(hist, l) ==
  \/ \A v \in DOMAIN hist : v > Newest(l)
  \/ Newest(l) \in DOMAIN hist /\ hist[Newest(l)] = Latest(l)

SameRows(a, l) == a.schema = l.schema /\ a.inst = l.inst /\ a.over = l.over

LEMMA BeneathIs ==
  ASSUME NEW l \in Lives, Sound(l), NEW hist \in Hists, Beneath(hist, l),
         NEW desc \in Descs, desc.version = Newest(l) + 1
  PROVE  LET all == Remembered(hist, desc)
             earlier == {v \in DOMAIN all : v < desc.version}
         IN earlier = {} \/ all[Max(earlier)] = Latest(l)
<1> DEFINE all == Remembered(hist, desc)
           n == Newest(l)
           earlier == {v \in DOMAIN all : v < n + 1}
<1>1. n \in Nat
  BY SoundIs
<1>2. /\ DOMAIN all = DOMAIN hist \cup {n + 1} /\ DOMAIN hist \subseteq Nat \ {0}
      /\ \A v \in DOMAIN hist \ {n + 1} : all[v] = hist[v]
  <2>1. /\ DOMAIN all = DOMAIN hist \cup {desc.version}
        /\ \A v \in DOMAIN hist \ {desc.version} : all[v] = hist[v]
    BY RememberedIs
  <2>2. desc.version = n + 1 /\ DOMAIN hist \subseteq Nat \ {0}
    BY HistParts
  <2> HIDE DEF all, n
  <2> QED BY <2>1, <2>2
<1>3. Beneath(hist, l)
  OBVIOUS
<1> HIDE DEF all, n
<1>4. CASE \A v \in DOMAIN hist : v > n
  <2>1. earlier = {}
    BY <1>1, <1>2, <1>4
  <2> QED BY <2>1 DEF n, all
<1>5. CASE n \in DOMAIN hist /\ hist[n] = Latest(l)
  <2>1. n \in earlier /\ earlier \in SUBSET Nat /\ \A v \in earlier : v <= n
    BY <1>1, <1>2, <1>5
  <2> HIDE DEF earlier
  <2>2. Max(earlier) = n
    BY <1>1, <2>1, MaxIs
  <2>3. all[n] = hist[n]
    BY <1>1, <1>2, <1>5
  <2> QED BY <1>5, <2>2, <2>3 DEF earlier, n, all
<1> QED BY <1>3, <1>4, <1>5 DEF Beneath, n

LEMMA SideStep ==
  ASSUME NEW l \in Lives, Sound(l), NEW a \in Lives, SameRows(a, l), Beneath(a.hist, l),
         NEW rec \in Records, AdmittedAfter(l, rec)
  PROVE  /\ ApplyRecord(a, rec) \in Lives
         /\ SameRows(ApplyRecord(a, rec), ApplyRecord(l, rec))
         /\ Beneath(ApplyRecord(a, rec).hist, ApplyRecord(l, rec))
<1> DEFINE b == ApplyRecord(a, rec)
           m == ApplyRecord(l, rec)
<1>1. b \in Lives /\ m \in Lives /\ a.hist \in Hists
  BY ApplyTyped, LiveParts
<1>2. CASE rec.row = "schema" /\ ~rec.hidden
  <2>1. rec \in SchemaRows /\ rec.desc \in Descs /\ Follows(l, rec.desc)
    BY <1>2, RowKinds DEF AdmittedAfter, SchemaRows
  <2> DEFINE desc == rec.desc
             more == Remembered(a.hist, desc)
             full == Remembered(l.hist, desc)
  <2>2. desc.version = Newest(l) + 1
    BY <2>1 DEF Follows
  <2>3. /\ b.schema = rec /\ b.over = a.over /\ b.hist = more
        /\ b.inst = IF ~Migrates(desc) \/ a.inst = NoRow THEN a.inst ELSE Remap(a.inst, desc, more)
    BY <1>2, <2>1, ApplySchema DEF HistAfter, InstAfter
  <2>4. /\ m.schema = rec /\ m.over = l.over /\ m.hist = full
        /\ m.inst = IF ~Migrates(desc) \/ l.inst = NoRow THEN l.inst ELSE Remap(l.inst, desc, full)
    BY <1>2, <2>1, ApplySchema DEF HistAfter, InstAfter
  <2>5. Newest(m) = Newest(l) + 1 /\ Latest(m) = desc
    BY <1>2, SoundStep
  <2>6. Newest(m) \in DOMAIN b.hist /\ b.hist[Newest(m)] = Latest(m)
    <3>1. /\ DOMAIN more = DOMAIN a.hist \cup {desc.version} /\ more[desc.version] = desc
      BY <1>1, <2>1, RememberedIs
    <3> QED BY <2>2, <2>3, <2>5, <3>1
  <2>7. Beneath(l.hist, l)
    <3>1. CASE Newest(l) = 0
      <4>1. DOMAIN l.hist = {}
        BY <3>1, SoundIs DEF Versions
      <4> QED BY <4>1 DEF Beneath
    <3>2. CASE Newest(l) # 0
      <4>1. Newest(l) > 0 /\ Newest(l) \in DOMAIN l.hist /\ l.hist[Newest(l)] = Latest(l)
        BY <3>2, SoundIs DEF Versions
      <4> QED BY <4>1 DEF Beneath
    <3> QED BY <3>1, <3>2
  <2>8. b.inst = m.inst
    <3>1. CASE l.inst = NoRow
      BY <2>3, <2>4, <3>1 DEF SameRows
    <3>2. CASE l.inst # NoRow
      <4>1. l.hist \in Hists
        BY LiveParts
      <4>2. (IF Migrates(desc) THEN Remap(l.inst, desc, full) ELSE l.inst) = MovedInst(l.inst, desc)
        BY <2>1, <2>2, <2>7, <3>2, <4>1, BeneathIs, FollowerMoves
      <4>3. (IF Migrates(desc) THEN Remap(l.inst, desc, more) ELSE l.inst) = MovedInst(l.inst, desc)
        BY <1>1, <2>1, <2>2, <3>2, BeneathIs, FollowerMoves
      <4> QED BY <2>3, <2>4, <3>2, <4>2, <4>3 DEF SameRows
    <3> QED BY <3>1, <3>2
  <2> HIDE DEF b, m
  <2>9. SameRows(b, m) /\ Beneath(b.hist, m)
    BY <2>3, <2>4, <2>6, <2>8 DEF SameRows, Beneath
  <2> QED BY <1>1, <2>9 DEF b, m
<1>3. CASE rec.row = "schema" /\ rec.hidden
  <2>1. rec \in SchemaRows
    BY <1>3, RowKinds
  <2>2. b.schema = rec /\ b.inst = a.inst /\ b.over = a.over /\ b.hist = a.hist
    BY <1>3, <2>1, ApplySchema DEF HistAfter, InstAfter
  <2>3. m.schema = rec /\ m.inst = l.inst /\ m.over = l.over /\ m.hist = l.hist
    BY <1>3, <2>1, ApplySchema DEF HistAfter, InstAfter
  <2> HIDE DEF b, m
  <2> QED BY <1>1, <2>2, <2>3 DEF SameRows, Beneath, Newest, Latest, Versions, b, m
<1>4. CASE rec.row = "inst"
  <2>1. rec \in InstRows
    BY <1>4, RowKinds
  <2>2. b.schema = a.schema /\ b.inst = rec /\ b.over = a.over /\ b.hist = a.hist
    BY <2>1, ApplyInst
  <2>3. m.schema = l.schema /\ m.inst = rec /\ m.over = l.over /\ m.hist = l.hist
    BY <2>1, ApplyInst
  <2> HIDE DEF b, m
  <2> QED BY <1>1, <2>2, <2>3 DEF SameRows, Beneath, Newest, Latest, Versions, b, m
<1>5. CASE rec.row = "over"
  <2>1. rec \in OverRows
    BY <1>5, RowKinds
  <2>2. b.schema = a.schema /\ b.inst = a.inst /\ b.over = rec /\ b.hist = a.hist
    BY <2>1, ApplyOver
  <2>3. m.schema = l.schema /\ m.inst = l.inst /\ m.over = rec /\ m.hist = l.hist
    BY <2>1, ApplyOver
  <2> HIDE DEF b, m
  <2> QED BY <1>1, <2>2, <2>3 DEF SameRows, Beneath, Newest, Latest, Versions, b, m
<1> QED BY <1>2, <1>3, <1>4, <1>5, RowKinds

LEMMA SideFollows ==
  ASSUME NEW records \in Seq(Records), Admitted(records), NEW s \in 0..Len(records),
         NEW a \in Lives, SameRows(a, At(records, s)), Beneath(a.hist, At(records, s))
  PROVE  /\ Replay(a, SubSeq(records, s + 1, Len(records))) \in Lives
         /\ SameRows(Replay(a, SubSeq(records, s + 1, Len(records))), Replay(EmptyLive, records))
<1> DEFINE side(k) == Replay(a, SubSeq(records, s + 1, k))
           T == {i \in Nat : s + i <= Len(records) =>
                   /\ side(s + i) \in Lives /\ SameRows(side(s + i), At(records, s + i))
                   /\ Beneath(side(s + i).hist, At(records, s + i))}
<1>1. Len(records) \in Nat /\ s \in Nat
  BY LenProperties
<1>2. 0 \in T
  <2>1. SubSeq(records, s + 1, s) = <<>>
    BY <1>1, PiecesGrow
  <2>2. side(s) = a
    BY <2>1, ReplayEmpty
  <2>3. s + 0 = s
    BY <1>1
  <2> HIDE DEF side
  <2> QED BY <2>2, <2>3
<1>3. ASSUME NEW i \in T PROVE i + 1 \in T
  <2> SUFFICES ASSUME s + (i + 1) <= Len(records)
               PROVE  /\ side(s + (i + 1)) \in Lives
                      /\ SameRows(side(s + (i + 1)), At(records, s + (i + 1)))
                      /\ Beneath(side(s + (i + 1)).hist, At(records, s + (i + 1)))
    OBVIOUS
  <2> DEFINE k == s + i
             piece == SubSeq(records, s + 1, k)
             l == At(records, k)
  <2>1. /\ k \in 0..Len(records) /\ k < Len(records) /\ k + 1 = s + (i + 1)
        /\ k + 1 \in 1..Len(records) /\ (k + 1) - 1 = k /\ k <= Len(records)
        /\ s + 1 \in 1..Len(records) + 1 /\ k \in (s + 1) - 1..Len(records)
    BY <1>1
  <2>2. side(k) \in Lives /\ SameRows(side(k), l) /\ Beneath(side(k).hist, l)
    BY <2>1
  <2> HIDE DEF k
  <2>3. /\ piece \in Seq(Records) /\ records[k + 1] \in Records
        /\ SubSeq(records, s + 1, k + 1) = Append(piece, records[k + 1])
    BY <2>1, PiecesGrow
  <2> HIDE DEF piece
  <2>4. side(k + 1) = ApplyRecord(side(k), records[k + 1])
    <3>1. side(k + 1) = Replay(a, Append(piece, records[k + 1]))
      BY <2>3
    <3>2. side(k) = Replay(a, piece)
      BY DEF piece
    <3> HIDE DEF side
    <3> QED BY <2>3, <3>1, <3>2, ReplayAppend
  <2>5. l \in Lives /\ Sound(l) /\ At(records, k + 1) = ApplyRecord(l, records[k + 1])
    BY <2>1, AtIs, AdmittedSound
  <2>6. AdmittedAfter(l, records[k + 1])
    BY <2>1 DEF Admitted
  <2> DEFINE b == side(k)
             rec == records[k + 1]
  <2>7. b \in Lives /\ SameRows(b, l) /\ Beneath(b.hist, l) /\ rec \in Records
    BY <2>2, <2>3
  <2> HIDE DEF l, b, rec
  <2>8. /\ ApplyRecord(b, rec) \in Lives /\ SameRows(ApplyRecord(b, rec), ApplyRecord(l, rec))
        /\ Beneath(ApplyRecord(b, rec).hist, ApplyRecord(l, rec))
    BY <2>5, <2>6, <2>7, SideStep DEF rec
  <2>9. side(k + 1) = ApplyRecord(b, rec) /\ At(records, k + 1) = ApplyRecord(l, rec)
    BY <2>4, <2>5 DEF b, rec
  <2> HIDE DEF side
  <2> QED BY <2>1, <2>8, <2>9
<1> HIDE DEF T
<1>4. T = Nat
  <2>1. T \subseteq Nat BY DEF T
  <2> QED BY <1>2, <1>3, <2>1, NatSetInduction
<1>5. Len(records) - s \in T /\ s + (Len(records) - s) = Len(records)
  BY <1>1, <1>4
<1> HIDE DEF side
<1>6. side(Len(records)) \in Lives /\ SameRows(side(Len(records)), At(records, Len(records)))
  BY <1>1, <1>5 DEF T
<1>7. At(records, Len(records)) = Replay(EmptyLive, records)
  BY <1>1, AtIs
<1> QED BY <1>6, <1>7 DEF side

LEMMA ReopenFollows == LogInv => ReopenIsLive
<1> SUFFICES ASSUME LogInv, NEW s \in 0..Len(log), NEW hist \in {<<>>, HistOf(<<>>, log)}
             PROVE  FromSidecar(s, hist) = live
  BY DEF ReopenIsLive
<1>1. live \in Lives /\ live = Replay(EmptyLive, log) /\ Len(log) \in Nat /\ log \in Seq(Records)
      /\ Admitted(log) /\ live = At(log, Len(log))
  BY LiveIs DEF LogInv
<1>2. HistOf(<<>>, log) = live.hist
  BY <1>1, HistIsLive
<1> DEFINE l == At(log, s)
           a == [l EXCEPT !.hist = hist]
<1>3. l \in Lives /\ Sound(l)
  BY <1>1, AtIs, AdmittedSound
<1>4. hist \in Hists
  BY <1>1, <1>2, NoHist, LiveParts
<1>5. a \in Lives /\ SameRows(a, l) /\ a.hist = hist
  <2> HIDE DEF l
  <2> QED BY <1>3, <1>4 DEF Lives, SameRows
<1>6. Beneath(hist, l)
  <2>1. CASE hist = <<>>
    BY <2>1, NoHist DEF Beneath
  <2>2. CASE hist = live.hist
    <3>1. CASE Newest(l) = 0
      <4>1. DOMAIN hist \subseteq Nat \ {0}
        BY <1>4, HistParts
      <4> QED BY <3>1, <4>1 DEF Beneath
    <3>2. CASE Newest(l) # 0
      <4>1. Newest(l) \in Nat /\ Newest(l) > 0 /\ Latest(l) = l.hist[Newest(l)]
        BY <1>3, <3>2, SoundIs
      <4>2. Newest(l) <= Newest(live) /\ \A v \in 1..Newest(l) : live.hist[v] = l.hist[v]
        <5>1. Len(log) \in s..Len(log)
          BY <1>1
        <5> QED BY <1>1, <5>1, HistGrows
      <4>3. Newest(l) \in DOMAIN live.hist
        <5>1. Sound(live)
          BY LiveIs
        <5>2. DOMAIN live.hist = 1..Newest(live) /\ Newest(live) \in Nat
          BY <1>1, <5>1, SoundIs DEF Versions
        <5> QED BY <4>1, <4>2, <5>2
      <4> QED BY <2>2, <4>1, <4>2, <4>3 DEF Beneath
    <3> QED BY <3>1, <3>2
  <2> QED BY <1>2, <2>1, <2>2
<1> DEFINE b == Replay(a, SubSeq(log, s + 1, Len(log)))
<1>7. b \in Lives /\ SameRows(b, live)
  <2> HIDE DEF a, l
  <2>1. SameRows(a, At(log, s)) /\ Beneath(a.hist, At(log, s))
    BY <1>5, <1>6 DEF l
  <2> QED BY <1>1, <1>5, <2>1, SideFollows
<1>8. FromSidecar(s, hist) = [b EXCEPT !.hist = live.hist]
  BY <1>2 DEF FromSidecar, First, After, At
<1> HIDE DEF b
<1> DEFINE c == [b EXCEPT !.hist = live.hist]
<1>9. c \in Lives /\ c.schema = b.schema /\ c.inst = b.inst /\ c.over = b.over /\ c.hist = live.hist
  BY <1>1, <1>7, LiveParts DEF Lives
<1> HIDE DEF c
<1>10. c = live
  BY <1>1, <1>7, <1>9, SameLive DEF SameRows
<1> QED BY <1>8, <1>10 DEF c

(* Whichever sidecar a reopen starts from, with a log checkpoint or        *)
(* without, it ends with the rows and the history that the process has.    *)
THEOREM ReopenHolds == Spec => []ReopenIsLive
<1>1. LogInv => ReopenIsLive
  BY ReopenFollows
<1> QED BY <1>1, LogInvHolds, PTL

-----------------------------------------------------------------------------
(* Reading at an earlier version undoes the migrations since, one by one.  *)

LEMMA LiveBeneath ==
  ASSUME NEW l \in Lives, Sound(l)
  PROVE  Beneath(l.hist, l)
<1>1. CASE Newest(l) = 0
  <2>1. DOMAIN l.hist = {}
    BY <1>1, SoundIs DEF Versions
  <2> QED BY <2>1 DEF Beneath
<1>2. CASE Newest(l) # 0
  <2>1. Newest(l) \in DOMAIN l.hist /\ l.hist[Newest(l)] = Latest(l)
    BY <1>2, SoundIs DEF Versions
  <2> QED BY <2>1 DEF Beneath
<1> QED BY <1>1, <1>2

LEMMA SchemaMoves ==
  ASSUME NEW l \in Lives, Sound(l), l.inst # NoRow, NEW rec \in SchemaRows, ~rec.hidden,
         AdmittedAfter(l, rec)
  PROVE  /\ rec.desc \in Descs /\ OneToOne(rec.desc) /\ Clear(rec.desc, l.inst.props)
         /\ ApplyRecord(l, rec).inst = MovedInst(l.inst, rec.desc)
         /\ ~LiveSchemaHidden(l) => \A r \in rec.desc.rename : r[2] \notin DOMAIN l.inst.props
<1> DEFINE desc == rec.desc
           full == Remembered(l.hist, desc)
<1>1. desc \in Descs /\ Follows(l, desc) /\ l.hist \in Hists
  BY RowKinds, LiveParts DEF AdmittedAfter, SchemaRows
<1>2. ApplyRecord(l, rec).inst = IF Migrates(desc) THEN Remap(l.inst, desc, full) ELSE l.inst
  BY ApplySchema DEF HistAfter, InstAfter
<1>3. desc.version = Newest(l) + 1
  BY <1>1 DEF Follows
<1>4. Beneath(l.hist, l)
  BY LiveBeneath
<1> HIDE DEF desc
<1>5. LET earlier == {v \in DOMAIN full : v < desc.version}
      IN earlier = {} \/ full[Max(earlier)] = Latest(l)
  BY <1>1, <1>3, <1>4, BeneathIs
<1> HIDE DEF full
<1>6. /\ OneToOne(desc) /\ Clear(desc, l.inst.props)
      /\ (IF Migrates(desc) THEN Remap(l.inst, desc, full) ELSE l.inst) = MovedInst(l.inst, desc)
      /\ ~LiveSchemaHidden(l) => \A r \in desc.rename : r[2] \notin DOMAIN l.inst.props
  BY <1>1, <1>5, FollowerMoves
<1> QED BY <1>1, <1>2, <1>6 DEF desc

(* Undoing a rename gives the properties back.                             *)
LEMMA ReversedRenamed ==
  ASSUME NEW desc \in Descs, OneToOne(desc), NEW props \in PropSets, Clear(desc, props),
         \A r \in desc.rename : r[2] \notin DOMAIN props
  PROVE  Reversed(desc, Renamed(desc, props)) = props
<1> DEFINE q == Renamed(desc, props)
           targets == {r[2] : r \in desc.rename} \cap DOMAIN q
           back(m) == (CHOOSE r \in desc.rename : r[2] = m)[1]
           sources == {back(m) : m \in targets}
           f == [n \in sources |-> q[Mapped(desc, n)]]
           aside == Restricted(q, Names \ targets)
           h == Beside(f, aside)
<1>1. Reversed(desc, q) = h
  BY DEF Reversed
<1>2. DOMAIN props \subseteq Names /\ props = [n \in DOMAIN props |-> props[n]]
  BY PropsAre
<1>3. \A n \in DOMAIN props : Mapped(desc, n) \in DOMAIN q /\ q[Mapped(desc, n)] = props[n]
  BY ClearRenames
<1>4. \A m \in DOMAIN q : \E n \in DOMAIN props : m = Mapped(desc, n)
  BY RenamedHas
<1>5. /\ DOMAIN aside = DOMAIN q \cap (Names \ targets)
      /\ \A n \in DOMAIN aside : aside[n] = q[n]
  <2> HIDE DEF q, targets
  <2> QED BY RestrictedHas
<1>6. DOMAIN f = sources /\ \A n \in sources : f[n] = q[Mapped(desc, n)]
  <2> HIDE DEF sources, q
  <2> QED OBVIOUS
<1>7. /\ DOMAIN h = DOMAIN f \cup DOMAIN aside
      /\ \A n \in DOMAIN f \cup DOMAIN aside : h[n] = IF n \in DOMAIN f THEN f[n] ELSE aside[n]
      /\ h = [n \in DOMAIN h |-> h[n]]
  <2> HIDE DEF f, aside
  <2>1. h = Beside(f, aside)
    OBVIOUS
  <2> HIDE DEF h
  <2>2. /\ DOMAIN h = DOMAIN f \cup DOMAIN aside
        /\ \A n \in DOMAIN f \cup DOMAIN aside : h[n] = IF n \in DOMAIN f THEN f[n] ELSE aside[n]
    BY <2>1 DEF Beside
  <2>3. h = [n \in DOMAIN h |-> h[n]]
    BY <2>1 DEF Beside
  <2> QED BY <2>2, <2>3
<1>8. ASSUME NEW m \in targets
      PROVE  back(m) \in DOMAIN props /\ back(m) \in Froms(desc) /\ Mapped(desc, back(m)) = m
  <2> DEFINE c == CHOOSE r \in desc.rename : r[2] = m
  <2>1. c \in desc.rename /\ c[2] = m
    BY DEF targets
  <2>2. back(m) = c[1]
    OBVIOUS
  <2> HIDE DEF c, back
  <2>3. c[1] \in Froms(desc)
    BY <2>1 DEF Froms
  <2>4. PICK s \in desc.rename : s[1] = c[1] /\ s[2] = Mapped(desc, c[1])
    BY <2>3, MappedIs
  <2>5. Mapped(desc, c[1]) = m
    BY <2>1, <2>4 DEF OneToOne
  <2>6. PICK n \in DOMAIN props : m = Mapped(desc, n)
    BY <1>4 DEF targets
  <2>7. n \in Froms(desc)
    <3> SUFFICES ASSUME n \notin Froms(desc) PROVE FALSE
      OBVIOUS
    <3>1. n = m
      BY <2>6, MappedIs
    <3> QED BY <2>1, <3>1
  <2>8. PICK t \in desc.rename : t[1] = n /\ t[2] = m
    BY <2>6, <2>7, MappedIs
  <2>9. c[1] = n
    BY <2>1, <2>8 DEF OneToOne
  <2> QED BY <2>2, <2>3, <2>5, <2>9
<1>9. ASSUME NEW n \in DOMAIN props, n \in Froms(desc) PROVE n \in sources
  <2>1. PICK r \in desc.rename : r[1] = n /\ r[2] = Mapped(desc, n)
    BY <1>9, MappedIs
  <2>2. r[2] \in targets
    BY <1>3, <2>1
  <2> DEFINE c == CHOOSE s \in desc.rename : s[2] = r[2]
  <2>3. c \in desc.rename /\ c[2] = r[2]
    OBVIOUS
  <2>4. c[1] = n
    BY <2>1, <2>3 DEF OneToOne
  <2>5. back(r[2]) = n
    BY <2>4
  <2> HIDE DEF back, c, targets
  <2> QED BY <2>2, <2>5
<1> HIDE DEF back
<1>10. \A n \in sources : n \in DOMAIN props /\ n \in Froms(desc)
  BY <1>8
<1> HIDE DEF q, sources, f, aside, h
<1>11. ASSUME NEW n \in DOMAIN h PROVE n \in DOMAIN props /\ h[n] = props[n]
  <2>1. CASE n \in DOMAIN f
    <3>1. n \in sources /\ h[n] = q[Mapped(desc, n)]
      BY <1>6, <1>7, <2>1
    <3> QED BY <1>3, <1>10, <3>1
  <2>2. CASE n \notin DOMAIN f
    <3>1. n \in DOMAIN q /\ n \notin targets /\ h[n] = q[n]
      BY <1>5, <1>7, <2>2
    <3>2. PICK k \in DOMAIN props : n = Mapped(desc, k)
      BY <1>4, <3>1
    <3>3. k \notin Froms(desc)
      <4> SUFFICES ASSUME k \in Froms(desc) PROVE FALSE
        OBVIOUS
      <4>1. PICK r \in desc.rename : r[1] = k /\ r[2] = n
        BY <3>2, MappedIs
      <4> QED BY <3>1, <4>1 DEF targets
    <3>4. k = n
      BY <3>2, <3>3, MappedIs
    <3> QED BY <1>3, <3>1, <3>2, <3>4
  <2> QED BY <2>1, <2>2
<1>12. ASSUME NEW n \in DOMAIN props PROVE n \in DOMAIN h
  <2>1. CASE n \in Froms(desc)
    BY <1>6, <1>7, <1>9, <2>1
  <2>2. CASE n \notin Froms(desc)
    <3>1. Mapped(desc, n) = n /\ n \in DOMAIN q
      BY <1>3, <2>2, MappedIs
    <3>2. n \notin targets
      BY DEF targets
    <3> QED BY <1>2, <1>5, <1>7, <3>1, <3>2
  <2> QED BY <2>1, <2>2
<1>13. DOMAIN h = DOMAIN props
  BY <1>11, <1>12
<1>14. h = props
  BY <1>2, <1>7, <1>11, <1>13, SameProps
<1> QED BY <1>1, <1>14 DEF q

Undoes(f, l, v) ==
  f = [w \in v..Newest(l) |->
         IF w = Newest(l) THEN l.inst.props ELSE Reversed(l.hist[w + 1], f[w + 1])]

LEMMA UndoesAgree ==
  ASSUME NEW l, Newest(l) \in Nat, NEW v \in Nat, v <= Newest(l),
         NEW f, NEW g, Undoes(f, l, v), Undoes(g, l, v)
  PROVE  f[v] = g[v]
<1> DEFINE n == Newest(l)
           is(h) == \A w \in v..n : h[w] = IF w = n THEN l.inst.props ELSE Reversed(l.hist[w + 1], h[w + 1])
           T == {d \in Nat : d <= n - v => f[n - d] = g[n - d]}
<1>0. n \in Nat /\ v <= n /\ is(f) /\ is(g)
  BY DEF Undoes
<1> HIDE DEF n
<1>1. 0 \in T
  <2>1. n - 0 = n /\ n \in v..n
    BY <1>0
  <2>2. f[n] = l.inst.props /\ g[n] = l.inst.props
    BY <1>0, <2>1
  <2> HIDE DEF is
  <2> QED BY <2>1, <2>2
<1>2. ASSUME NEW d \in T PROVE d + 1 \in T
  <2> SUFFICES ASSUME d + 1 <= n - v PROVE f[n - (d + 1)] = g[n - (d + 1)]
    OBVIOUS
  <2> DEFINE w == n - (d + 1)
  <2>1. w \in v..n /\ w # n /\ w + 1 = n - d /\ d <= n - v
    <3> HIDE DEF is
    <3> QED BY <1>0
  <2> HIDE DEF w
  <2>2. f[w] = Reversed(l.hist[w + 1], f[w + 1]) /\ g[w] = Reversed(l.hist[w + 1], g[w + 1])
    BY <1>0, <2>1
  <2>3. f[w + 1] = g[w + 1]
    BY <2>1
  <2> QED BY <2>2, <2>3 DEF w
<1> HIDE DEF T, is
<1>3. T = Nat
  <2>1. T \subseteq Nat BY DEF T
  <2> QED BY <1>1, <1>2, <2>1, NatSetInduction
<1>4. n - v \in Nat /\ n - (n - v) = v /\ n - v <= n - v
  BY <1>0
<1>5. n - v \in T
  BY <1>3, <1>4
<1> QED BY <1>4, <1>5 DEF T

LEMMA LoadAtIs ==
  ASSUME NEW l \in Lives, Sound(l), NEW v \in Nat \ {0}, v < Newest(l), NEW f, Undoes(f, l, v)
  PROVE  LoadAt(l, v) = Restricted(f[v], Declared(l.hist[v]))
<1>1. Newest(l) \in Nat /\ Newest(l) = Max(Versions(l)) /\ v # Newest(l)
  BY SoundIs DEF Newest
<1> DEFINE n == Newest(l)
           F(g) == g = [w \in v..n |->
                          IF w = n THEN l.inst.props ELSE Reversed(l.hist[w + 1], g[w + 1])]
           h == CHOOSE g : F(g)
<1>2. LoadAt(l, v) = Restricted(h[v], Declared(l.hist[v]))
  BY <1>1 DEF LoadAt
<1>3. F(f)
  BY DEF Undoes
<1>4. F(h)
  <2> HIDE DEF F
  <2> QED BY <1>3
<1>5. Undoes(h, l, v)
  <2> HIDE DEF h
  <2> QED BY <1>4 DEF Undoes
<1> HIDE DEF h, F
<1>6. h[v] = f[v]
  BY <1>1, <1>5, UndoesAgree
<1> QED BY <1>2, <1>6

(* One record more that is no instance, while the descriptor is shown.     *)
LEMMA UndoesStep ==
  ASSUME NEW l \in Lives, Sound(l), l.inst # NoRow, ~LiveSchemaHidden(l),
         NEW rec \in Records, AdmittedAfter(l, rec), rec.row # "inst",
         rec.row = "schema" => ~rec.hidden,
         NEW v \in Nat, v <= Newest(l), NEW f, Undoes(f, l, v)
  PROVE  /\ ApplyRecord(l, rec).inst # NoRow /\ ~LiveSchemaHidden(ApplyRecord(l, rec))
         /\ v <= Newest(ApplyRecord(l, rec))
         /\ \E g : Undoes(g, ApplyRecord(l, rec), v) /\ g[v] = f[v]
<1> DEFINE m == ApplyRecord(l, rec)
           n == Newest(l)
<1>0. n \in Nat
  BY SoundIs
<1>1. CASE rec.row = "schema"
  <2>1. rec \in SchemaRows /\ ~rec.hidden
    BY <1>1, RowKinds
  <2> DEFINE desc == rec.desc
             props == l.inst.props
  <2>2. l.inst \in InstRows /\ props \in PropSets
    BY LoadTyped
  <2>3. /\ desc \in Descs /\ OneToOne(desc) /\ Clear(desc, props)
        /\ m.inst = MovedInst(l.inst, desc)
        /\ \A r \in desc.rename : r[2] \notin DOMAIN props
    BY <2>1, SchemaMoves
  <2>4. m.inst \in InstRows /\ m.inst.props = Renamed(desc, props)
    BY <2>2, <2>3, MovedIs
  <2>5. m.inst # NoRow
    BY <2>4, RowKinds
  <2>6. m.schema = rec
    BY <2>1, ApplySchema
  <2>7. /\ Newest(m) = n + 1 /\ Latest(m) = desc /\ \A w \in 1..n : m.hist[w] = l.hist[w]
        /\ Sound(m)
    BY <1>1, <2>1, SoundStep
  <2>8. m.hist[n + 1] = desc
    <3>1. m \in Lives
      BY ApplyTyped
    <3> HIDE DEF m, desc
    <3> QED BY <1>0, <2>7, <3>1, SoundIs
  <2>9. Reversed(desc, m.inst.props) = props
    BY <2>2, <2>3, <2>4, ReversedRenamed
  <2> DEFINE g == [w \in v..(n + 1) |-> IF w = n + 1 THEN m.inst.props ELSE f[w]]
  <2> HIDE DEF m, n, desc, props
  <2>10. \A w \in v..n : f[w] = IF w = n THEN props ELSE Reversed(l.hist[w + 1], f[w + 1])
    BY DEF Undoes, n, props
  <2>11. ASSUME NEW w \in v..(n + 1)
         PROVE  g[w] = IF w = n + 1 THEN m.inst.props ELSE Reversed(m.hist[w + 1], g[w + 1])
    <3>1. CASE w = n + 1
      BY <3>1
    <3>2. CASE w = n
      <4>1. w + 1 \in v..(n + 1) /\ w # n + 1 /\ w \in v..n
        BY <1>0, <3>2
      <4>2. g[w + 1] = m.inst.props /\ g[w] = f[w]
        BY <3>2, <4>1
      <4>3. f[w] = props
        BY <2>10, <3>2, <4>1
      <4> HIDE DEF g
      <4> QED BY <2>8, <2>9, <3>2, <4>1, <4>2, <4>3
    <3>3. CASE w # n + 1 /\ w # n
      <4>1. w \in v..n /\ w + 1 \in v..(n + 1) /\ w + 1 # n + 1 /\ w + 1 \in 1..n
        BY <1>0, <3>3
      <4>2. g[w + 1] = f[w + 1] /\ g[w] = f[w]
        BY <4>1, <3>3
      <4>3. f[w] = Reversed(l.hist[w + 1], f[w + 1])
        BY <2>10, <3>3, <4>1
      <4> HIDE DEF g
      <4> QED BY <2>7, <3>3, <4>1, <4>2, <4>3
    <3> QED BY <3>1, <3>2, <3>3
  <2>12. g = [w \in v..(n + 1) |-> g[w]]
    OBVIOUS
  <2>13. g[v] = f[v]
    <3>1. v \in v..(n + 1) /\ v # n + 1
      BY <1>0 DEF n
    <3> QED BY <3>1
  <2> HIDE DEF g
  <2>14. g = [w \in v..Newest(m) |->
                IF w = Newest(m) THEN m.inst.props ELSE Reversed(m.hist[w + 1], g[w + 1])]
    BY <2>7, <2>11, <2>12
  <2>15. Undoes(g, m, v)
    BY <2>14 DEF Undoes
  <2>16. v <= Newest(m)
    BY <1>0, <2>7 DEF n
  <2>17. ~LiveSchemaHidden(m)
    BY <2>1, <2>6 DEF LiveSchemaHidden
  <2> QED BY <2>5, <2>13, <2>15, <2>16, <2>17 DEF m
<1>2. CASE rec.row = "over"
  <2>1. m.inst = l.inst /\ m.schema = l.schema /\ m.hist = l.hist
    BY <1>2, RowKinds, ApplyOver
  <2> HIDE DEF m
  <2>2. Newest(m) = Newest(l)
    BY <2>1 DEF Newest, Versions
  <2>3. Undoes(f, m, v)
    BY <2>1, <2>2 DEF Undoes
  <2> QED BY <2>1, <2>2, <2>3 DEF LiveSchemaHidden, m
<1> QED BY <1>1, <1>2, RowKinds

LEMMA UndoesTo ==
  ASSUME NEW records \in Seq(Records), Admitted(records),
         NEW i \in 0..Len(records), NEW k \in i..Len(records),
         \A j \in i+1..Len(records) :
           records[j].row # "inst" /\ (records[j].row = "schema" => ~records[j].hidden),
         At(records, i).inst # NoRow, ~LiveSchemaHidden(At(records, i))
  PROVE  /\ At(records, k).inst # NoRow /\ ~LiveSchemaHidden(At(records, k))
         /\ Newest(At(records, i)) <= Newest(At(records, k))
         /\ \E f : /\ Undoes(f, At(records, k), Newest(At(records, i)))
                   /\ f[Newest(At(records, i))] = At(records, i).inst.props
<1> DEFINE v == Newest(At(records, i))
           props == At(records, i).inst.props
           holds(l) == /\ l.inst # NoRow /\ ~LiveSchemaHidden(l) /\ v <= Newest(l)
                       /\ \E f : Undoes(f, l, v) /\ f[v] = props
           T == {d \in Nat : i + d <= Len(records) => holds(At(records, i + d))}
<1>1. Len(records) \in Nat /\ i \in Nat
  BY LenProperties
<1>2. \A d \in 0..Len(records) : At(records, d) \in Lives /\ Sound(At(records, d))
  BY <1>1, AtIs, AdmittedSound
<1>3. v \in Nat
  BY <1>2, SoundIs
<1>4. 0 \in T
  <2> DEFINE l == At(records, i)
             f == [w \in v..v |-> props]
  <2>1. v \in v..v /\ \A w \in v..v : w = v
    BY <1>3
  <2> HIDE DEF v
  <2>2. f[v] = props /\ f = [w \in v..v |-> f[w]] /\ \A w \in v..v : f[w] = props
    BY <2>1
  <2> HIDE DEF f
  <2>3. f = [w \in v..v |-> IF w = v THEN props ELSE Reversed(l.hist[w + 1], f[w + 1])]
    BY <2>1, <2>2
  <2>4. Undoes(f, l, v)
    BY <2>3 DEF Undoes, v
  <2>5. v <= Newest(l)
    BY <1>3 DEF v
  <2>6. holds(l)
    BY <2>2, <2>4, <2>5
  <2>7. i + 0 = i
    BY <1>1
  <2> HIDE DEF holds
  <2> QED BY <2>6, <2>7
<1>5. ASSUME NEW d \in T PROVE d + 1 \in T
  <2> SUFFICES ASSUME i + (d + 1) <= Len(records) PROVE holds(At(records, i + (d + 1)))
    OBVIOUS
  <2> DEFINE a == i + d
             l == At(records, a)
             rec == records[a + 1]
  <2>1. /\ a \in 0..Len(records) /\ a < Len(records) /\ a + 1 = i + (d + 1)
        /\ a + 1 \in 1..Len(records) /\ (a + 1) - 1 = a /\ a + 1 \in i+1..Len(records)
        /\ a <= Len(records)
    BY <1>1
  <2>2. holds(l)
    <3> HIDE DEF holds
    <3> QED BY <2>1
  <2> HIDE DEF a
  <2>3. l \in Lives /\ Sound(l) /\ rec \in Records /\ At(records, a + 1) = ApplyRecord(l, rec)
    BY <1>2, <2>1, AtIs
  <2>4. AdmittedAfter(l, rec) /\ rec.row # "inst" /\ (rec.row = "schema" => ~rec.hidden)
    BY <2>1 DEF Admitted
  <2> HIDE DEF l, rec, v, props
  <2>5. PICK f : Undoes(f, l, v) /\ f[v] = props
    BY <2>2
  <2>6. holds(ApplyRecord(l, rec))
    BY <1>3, <2>2, <2>3, <2>4, <2>5, UndoesStep
  <2> HIDE DEF holds
  <2> QED BY <2>1, <2>3, <2>6
<1> HIDE DEF T
<1>6. T = Nat
  <2>1. T \subseteq Nat BY DEF T
  <2> QED BY <1>4, <1>5, <2>1, NatSetInduction
<1>7. k - i \in T /\ i + (k - i) = k
  BY <1>1, <1>6
<1> HIDE DEF holds
<1>8. holds(At(records, k))
  BY <1>1, <1>7 DEF T
<1> QED BY <1>8 DEF holds, v, props

LEMMA ReadsFollow == LogInv => NamedReadsStable
<1> SUFFICES ASSUME LogInv, NeverHidden, NEW i \in 1..Len(log), Unwritten(i),
                    Shown(At(log, i).schema), At(log, i).inst # NoRow,
                    Newest(At(log, i)) # Newest(live)
             PROVE  LoadAt(live, Newest(At(log, i)))
                      = Restricted(Load(At(log, i)), Declared(Latest(At(log, i))))
  <2> SUFFICES ASSUME LogInv, NeverHidden, NEW i \in 1..Len(log), Unwritten(i)
               PROVE  ReadsAsIn(i)
    BY DEF NamedReadsStable
  <2> DEFINE then == At(log, i)
             v == Max(Versions(then))
  <2>1. then = Replay(EmptyLive, First(i))
    BY DEF At, First
  <2>2. SUFFICES ASSUME Shown(then.schema), then.inst # NoRow
                 PROVE  LoadAt(live, v) = IF v = Max(Versions(live)) THEN Load(live)
                                          ELSE Restricted(Load(then), Declared(Latest(then)))
    <3> HIDE DEF then
    <3> QED BY <2>1 DEF ReadsAsIn
  <2>3. live \in Lives /\ Sound(live) /\ Len(log) \in Nat /\ log \in Seq(Records) /\ Admitted(log)
        /\ live = At(log, Len(log))
    BY LiveIs DEF LogInv
  <2>4. then \in Lives /\ Sound(then)
    BY <2>3, AtIs, AdmittedSound
  <2>5. then.schema # NoRow
    BY <2>2 DEF Shown
  <2>6. Newest(then) = v /\ Newest(then) # 0 /\ Newest(then) \in Nat
    BY <2>4, <2>5, SoundIs DEF Newest
  <2>7. Newest(then) <= Newest(live) /\ Newest(live) \in Nat
    <3>1. i \in 0..Len(log) /\ Len(log) \in i..Len(log)
      BY <2>3
    <3> QED BY <2>3, <3>1, HistGrows, SoundIs
  <2>8. Newest(live) = Max(Versions(live))
    <3>1. Newest(live) # 0
      BY <2>6, <2>7
    <3> QED BY <2>3, <3>1, SoundIs DEF Newest
  <2>9. CASE v = Max(Versions(live))
    BY <2>9 DEF LoadAt
  <2>10. CASE v # Max(Versions(live))
    BY <2>2, <2>6, <2>8, <2>10
  <2> QED BY <2>9, <2>10
<1> DEFINE then == At(log, i)
           v == Newest(then)
           names == Declared(Latest(then))
           props == then.inst.props
<1>1. live \in Lives /\ Sound(live) /\ Len(log) \in Nat /\ log \in Seq(Records) /\ Admitted(log)
      /\ live = At(log, Len(log))
  BY LiveIs DEF LogInv
<1>2. i \in 0..Len(log) /\ Len(log) \in i..Len(log)
  BY <1>1
<1>3. then \in Lives /\ Sound(then)
  BY <1>1, <1>2, AtIs, AdmittedSound
<1>4. then.schema # NoRow /\ ~LiveSchemaHidden(then)
  BY DEF Shown, LiveSchemaHidden
<1>5. v \in Nat \ {0} /\ Latest(then) = then.hist[v] /\ Versions(then) # {}
  BY <1>3, <1>4, SoundIs
<1>6. /\ v <= Newest(live) /\ live.inst # NoRow
      /\ \E f : Undoes(f, live, v) /\ f[v] = props
  <2>1. \A j \in i+1..Len(log) :
          log[j].row # "inst" /\ (log[j].row = "schema" => ~log[j].hidden)
    BY <1>1 DEF Unwritten, NeverHidden
  <2> QED BY <1>1, <1>2, <1>4, <2>1, UndoesTo
<1>7. PICK f : Undoes(f, live, v) /\ f[v] = props
  BY <1>6
<1>8. v < Newest(live) /\ Newest(live) \in Nat
  BY <1>1, <1>5, <1>6, SoundIs
<1>9. live.hist[v] = then.hist[v]
  <2>1. \A w \in 1..v : live.hist[w] = then.hist[w]
    BY <1>1, <1>2, HistGrows
  <2> QED BY <1>5, <2>1
<1>10. LoadAt(live, v) = Restricted(props, names)
  <2> HIDE DEF v
  <2> QED BY <1>1, <1>5, <1>7, <1>8, <1>9, LoadAtIs
<1>11. Restricted(Load(then), names) = Restricted(props, names)
  <2> DEFINE omitted == Omitted(then)
             a == Restricted(props, Names \ omitted)
             b == Restricted(a, names)
             c == Restricted(props, names)
  <2>1. omitted \cap names = {}
    <3> HIDE DEF then, v
    <3> DEFINE drops == UNION {then.hist[w].drop : w \in Versions(then)}
    <3>1. Omitted(then) = drops \ Declared(Latest(then))
      <4>1. ~(Versions(then) = {} \/ LiveSchemaHidden(then))
        BY <1>4, <1>5
      <4> QED BY <4>1, Zenon DEF Omitted
    <3> HIDE DEF drops
    <3> QED BY <3>1
  <2>2. Load(then) = a /\ props \in PropSets
    BY <1>3, LoadTyped
  <2>3. DOMAIN props \subseteq Names
    BY <2>2, PropsAre
  <2> HIDE DEF omitted, props, names, then
  <2>4. DOMAIN a = DOMAIN props \cap (Names \ omitted) /\ \A n \in DOMAIN a : a[n] = props[n]
    BY RestrictedHas
  <2> HIDE DEF a
  <2>5. DOMAIN b = DOMAIN a \cap names /\ \A n \in DOMAIN b : b[n] = a[n]
    BY RestrictedHas
  <2>6. DOMAIN c = DOMAIN props \cap names /\ \A n \in DOMAIN c : c[n] = props[n]
    BY RestrictedHas
  <2>7. b = [n \in DOMAIN b |-> b[n]] /\ c = [n \in DOMAIN c |-> c[n]]
    BY RestrictedIs
  <2> HIDE DEF b, c
  <2>8. DOMAIN b = DOMAIN c
    BY <2>1, <2>3, <2>4, <2>5, <2>6
  <2>9. b = c
    BY <2>4, <2>5, <2>6, <2>7, <2>8, SameProps
  <2> QED BY <2>2, <2>9 DEF b, c
<1> QED BY <1>10, <1>11

(* An instance that was not written since reads at an earlier schema       *)
(* version as it read while that version was current.                      *)
THEOREM NamedReadsHold == Spec => []NamedReadsStable
<1>1. LogInv => NamedReadsStable
  BY ReadsFollow
<1> QED BY <1>1, LogInvHolds, PTL

-----------------------------------------------------------------------------
(* History renames a generation forward at the end, as the rows were one   *)
(* migration after the other.                                              *)

LEMMA LargestIn ==
  ASSUME NEW N \in Nat, NEW s \in SUBSET (1..N), s # {}
  PROVE  Max(s) \in s /\ \A j \in s : j <= Max(s)
<1> DEFINE T == {n \in Nat : \A t \in SUBSET (1..n) : t # {} => \E m \in t : \A j \in t : j <= m}
<1>1. 0 \in T
  <2>1. \A t \in SUBSET (1..0) : t = {}
    OBVIOUS
  <2> QED BY <2>1
<1>2. ASSUME NEW n \in T PROVE n + 1 \in T
  <2> SUFFICES ASSUME NEW t \in SUBSET (1..(n + 1)), t # {}
               PROVE  \E m \in t : \A j \in t : j <= m
    OBVIOUS
  <2>1. CASE n + 1 \in t
    <3>1. \A j \in t : j <= n + 1
      OBVIOUS
    <3> QED BY <2>1, <3>1
  <2>2. CASE n + 1 \notin t
    <3>1. t \in SUBSET (1..n)
      BY <2>2
    <3> QED BY <3>1
  <2> QED BY <2>1, <2>2
<1> HIDE DEF T
<1>3. T = Nat
  <2>1. T \subseteq Nat BY DEF T
  <2> QED BY <1>1, <1>2, <2>1, NatSetInduction
<1>4. PICK m \in s : \A j \in s : j <= m
  BY <1>3 DEF T
<1>5. Max(s) = m
  BY <1>4, MaxIs
<1> QED BY <1>4, <1>5

LEMMA AheadRenames ==
  ASSUME NEW desc \in Descs, OneToOne(desc), NEW props \in PropSets, Clear(desc, props)
  PROVE  Ahead(desc, props) = Renamed(desc, props)
<1> DEFINE moving == {r \in desc.rename : r[1] \in DOMAIN props /\ r[2] \notin DOMAIN props}
           tos == {r[2] : r \in moving}
           froms == {r[1] : r \in moving}
           from(m) == (CHOOSE r \in moving : r[2] = m)[1]
           f == [m \in tos |-> props[from(m)]]
           aside == Restricted(props, Names \ froms)
           g == Renamed(desc, props)
           h == Beside(f, aside)
<1>1. Ahead(desc, props) = h
  BY DEF Ahead
<1>2. DOMAIN props \subseteq Names
  BY PropsAre
<1>3. \A n \in DOMAIN props : Mapped(desc, n) \in DOMAIN g /\ g[Mapped(desc, n)] = props[n]
  BY ClearRenames
<1>4. (\A m \in DOMAIN g : \E n \in DOMAIN props : m = Mapped(desc, n))
  BY RenamedHas
<1>5. g = [m \in DOMAIN g |-> g[m]]
  BY RenamedDomain
<1>6. moving = {r \in desc.rename : r[1] \in DOMAIN props}
  BY DEF Clear
<1>7. /\ DOMAIN aside = DOMAIN props \cap (Names \ froms)
      /\ \A n \in DOMAIN aside : aside[n] = props[n]
  <2> HIDE DEF froms
  <2> QED BY RestrictedHas
<1>8. DOMAIN f = tos /\ \A m \in tos : f[m] = props[from(m)]
  <2> HIDE DEF tos, from
  <2> QED OBVIOUS
<1>9. /\ DOMAIN h = DOMAIN f \cup DOMAIN aside
      /\ \A n \in DOMAIN f \cup DOMAIN aside : h[n] = IF n \in DOMAIN f THEN f[n] ELSE aside[n]
      /\ h = [n \in DOMAIN h |-> h[n]]
  <2> HIDE DEF f, aside
  <2>1. h = Beside(f, aside)
    OBVIOUS
  <2> HIDE DEF h
  <2>2. /\ DOMAIN h = DOMAIN f \cup DOMAIN aside
        /\ \A n \in DOMAIN f \cup DOMAIN aside : h[n] = IF n \in DOMAIN f THEN f[n] ELSE aside[n]
    BY <2>1 DEF Beside
  <2>3. h = [n \in DOMAIN h |-> h[n]]
    BY <2>1 DEF Beside
  <2> QED BY <2>2, <2>3
<1>10. \A n \in DOMAIN props : n \in Froms(desc) <=> n \in froms
  BY <1>6 DEF Froms
<1>11. ASSUME NEW m \in tos
       PROVE  from(m) \in DOMAIN props /\ Mapped(desc, from(m)) = m
  <2> DEFINE c == CHOOSE r \in moving : r[2] = m
  <2>1. c \in moving /\ c[2] = m
    <3> HIDE DEF moving
    <3> QED OBVIOUS
  <2>2. from(m) = c[1]
    OBVIOUS
  <2> HIDE DEF c, from
  <2>3. c \in desc.rename /\ c[1] \in DOMAIN props /\ c[1] \in Froms(desc)
    BY <2>1 DEF Froms
  <2>4. PICK s \in desc.rename : s[1] = c[1] /\ s[2] = Mapped(desc, c[1])
    BY <2>3, MappedIs
  <2> QED BY <2>1, <2>2, <2>3, <2>4 DEF OneToOne
<1> HIDE DEF f, aside, g, h, from
<1>12. ASSUME NEW m \in DOMAIN h PROVE m \in DOMAIN g /\ h[m] = g[m]
  <2>1. CASE m \in DOMAIN f
    <3> HIDE DEF tos
    <3> QED BY <1>3, <1>8, <1>9, <1>11, <2>1
  <2>2. CASE m \notin DOMAIN f
    <3>1. m \in DOMAIN props /\ m \notin froms /\ h[m] = props[m]
      BY <1>7, <1>9, <2>2
    <3>2. Mapped(desc, m) = m
      BY <1>10, <3>1, MappedIs
    <3> QED BY <1>3, <3>1, <3>2
  <2> QED BY <2>1, <2>2
<1>13. ASSUME NEW m \in DOMAIN g PROVE m \in DOMAIN h
  <2>1. PICK n \in DOMAIN props : m = Mapped(desc, n)
    BY <1>4
  <2>2. CASE n \in Froms(desc)
    <3>1. PICK r \in desc.rename : r[1] = n /\ r[2] = m
      BY <2>1, <2>2, MappedIs
    <3>2. r \in moving
      BY <1>6, <3>1
    <3> QED BY <1>8, <1>9, <3>1, <3>2
  <2>3. CASE n \notin Froms(desc)
    <3>1. m = n /\ n \notin froms
      BY <1>10, <2>1, <2>3, MappedIs
    <3> QED BY <1>2, <1>7, <1>9, <3>1
  <2> QED BY <2>2, <2>3
<1>14. DOMAIN h = DOMAIN g
  BY <1>12, <1>13
<1>15. h = g
  BY <1>5, <1>9, <1>12, <1>14, SameProps
<1> QED BY <1>1, <1>15 DEF g

Forward(f, hist, version, props, n) ==
  f = [v \in version..n |-> IF v = version THEN props ELSE Ahead(hist[v], f[v - 1])]

LEMMA ForwardAgree ==
  ASSUME NEW hist, NEW version \in Nat, NEW props, NEW n \in Nat, version <= n,
         NEW f, NEW g, Forward(f, hist, version, props, n), Forward(g, hist, version, props, n)
  PROVE  f[n] = g[n]
<1> DEFINE is(h) == \A v \in version..n : h[v] = IF v = version THEN props ELSE Ahead(hist[v], h[v - 1])
           T == {d \in Nat : version + d <= n => f[version + d] = g[version + d]}
<1>0. is(f) /\ is(g)
  BY DEF Forward
<1>1. 0 \in T
  <2>1. version + 0 = version /\ version \in version..n
    OBVIOUS
  <2>2. f[version] = props /\ g[version] = props
    BY <1>0, <2>1
  <2> HIDE DEF is
  <2> QED BY <2>1, <2>2
<1>2. ASSUME NEW d \in T PROVE d + 1 \in T
  <2> SUFFICES ASSUME version + (d + 1) <= n
               PROVE  f[version + (d + 1)] = g[version + (d + 1)]
    OBVIOUS
  <2> DEFINE v == version + (d + 1)
  <2>1. v \in version..n /\ v # version /\ v - 1 = version + d /\ version + d <= n
    <3> HIDE DEF is
    <3> QED OBVIOUS
  <2> HIDE DEF v
  <2>2. f[v] = Ahead(hist[v], f[v - 1]) /\ g[v] = Ahead(hist[v], g[v - 1])
    BY <1>0, <2>1
  <2>3. f[v - 1] = g[v - 1]
    BY <2>1
  <2> QED BY <2>2, <2>3 DEF v
<1> HIDE DEF T, is
<1>3. T = Nat
  <2>1. T \subseteq Nat BY DEF T
  <2> QED BY <1>1, <1>2, <2>1, NatSetInduction
<1>4. n - version \in Nat /\ version + (n - version) = n
  OBVIOUS
<1>5. n - version \in T
  BY <1>3, <1>4
<1> QED BY <1>4, <1>5 DEF T

(* The generation, renamed as far as the descriptors of a state, is the    *)
(* instance of that state.                                                 *)
Top(l) == IF Newest(l) = 0 THEN 1 ELSE Newest(l)

Carried(l, gen) ==
  /\ gen.version <= Top(l)
  /\ \E f : Forward(f, l.hist, gen.version, gen.props, Top(l)) /\ f[Top(l)] = l.inst.props

LEMMA CarriedIs ==
  ASSUME NEW l \in Lives, Sound(l), NEW gen \in InstRows, Carried(l, gen)
  PROVE  RenameForward(l.hist, gen) = l.inst.props
<1> DEFINE n == Top(l)
           F(g) == g = [v \in gen.version..n |->
                          IF v = gen.version THEN gen.props ELSE Ahead(l.hist[v], g[v - 1])]
           h == CHOOSE g : F(g)
<1>1. gen.version \in Nat \ {0}
  BY DEF InstRows
<1>2. n \in Nat /\ gen.version <= n
  BY SoundIs DEF Top, Carried
<1>3. Max(DOMAIN l.hist \cup {gen.version}) = n
  <2> DEFINE S == DOMAIN l.hist \cup {gen.version}
  <2>1. DOMAIN l.hist = 1..Newest(l) /\ Newest(l) \in Nat
    BY SoundIs DEF Versions
  <2>2. S \in SUBSET Nat /\ n \in S /\ \A i \in S : i <= n
    BY <1>1, <1>2, <2>1 DEF Top
  <2> HIDE DEF S, n
  <2>3. Max(S) = n
    BY <2>2, MaxIs
  <2> QED BY <2>3 DEF S
<1>4. PICK f : Forward(f, l.hist, gen.version, gen.props, n) /\ f[n] = l.inst.props
  BY DEF Carried
<1> HIDE DEF n
<1>5. RenameForward(l.hist, gen) = h[n]
  BY <1>3 DEF RenameForward
<1>6. F(f)
  BY <1>4 DEF Forward
<1>7. F(h)
  <2> HIDE DEF F
  <2> QED BY <1>6
<1>8. Forward(h, l.hist, gen.version, gen.props, n)
  <2> HIDE DEF h
  <2> QED BY <1>7 DEF Forward
<1> HIDE DEF h, F
<1>9. h[n] = f[n]
  BY <1>1, <1>2, <1>4, <1>8, ForwardAgree
<1> QED BY <1>4, <1>5, <1>9

(* At its write.                                                           *)
LEMMA CarriedFirst ==
  ASSUME NEW l \in Lives, Sound(l), ~LiveSchemaHidden(l),
         NEW gen \in InstRows, ~gen.hidden, AdmittedAfter(l, gen)
  PROVE  Carried(ApplyRecord(l, gen), gen)
<1> DEFINE m == ApplyRecord(l, gen)
           n == Top(m)
<1>1. m.schema = l.schema /\ m.inst = gen /\ m.hist = l.hist
  BY ApplyInst
<1>2. Newest(m) = Newest(l)
  BY <1>1 DEF Newest, Versions
<1>3. gen.version = Stamp(l)
  BY RowKinds DEF AdmittedAfter
<1>4. gen.version = n /\ n \in Nat
  <2>1. CASE Newest(l) = 0
    <3>1. l.schema = NoRow
      BY <2>1, SoundIs
    <3> QED BY <1>2, <1>3, <2>1, <3>1 DEF Top, Stamp, Shown
  <2>2. CASE Newest(l) # 0
    <3>1. /\ Newest(l) \in Nat /\ Newest(l) > 0 /\ l.schema # NoRow
          /\ l.schema.desc = l.hist[Newest(l)]
      BY <2>2, SoundIs
    <3>2. l.hist[Newest(l)].version = Newest(l)
      BY <3>1, SoundIs
    <3> QED BY <1>2, <1>3, <2>2, <3>1, <3>2 DEF Top, Stamp, Shown, LiveSchemaHidden
  <2> QED BY <2>1, <2>2
<1> DEFINE f == [v \in n..n |-> gen.props]
<1> HIDE DEF m, n
<1>5. n \in n..n /\ \A v \in n..n : v = n
  BY <1>4
<1>6. f[n] = gen.props /\ f = [v \in n..n |-> f[v]] /\ \A v \in n..n : f[v] = gen.props
  BY <1>5
<1> HIDE DEF f
<1>7. f = [v \in n..n |-> IF v = n THEN gen.props ELSE Ahead(m.hist[v], f[v - 1])]
  BY <1>5, <1>6
<1>8. Forward(f, m.hist, gen.version, gen.props, n)
  BY <1>4, <1>7 DEF Forward
<1>9. gen.version <= n
  BY <1>4
<1> QED BY <1>1, <1>6, <1>8, <1>9 DEF Carried, n, m

(* One record more that is no instance, while the descriptor is shown.     *)
LEMMA CarriedStep ==
  ASSUME NEW l \in Lives, Sound(l), l.inst # NoRow, ~LiveSchemaHidden(l),
         NEW rec \in Records, AdmittedAfter(l, rec), rec.row # "inst",
         rec.row = "schema" => ~rec.hidden, NEW gen \in InstRows, Carried(l, gen)
  PROVE  /\ ApplyRecord(l, rec).inst # NoRow /\ ~LiveSchemaHidden(ApplyRecord(l, rec))
         /\ Carried(ApplyRecord(l, rec), gen)
<1> DEFINE m == ApplyRecord(l, rec)
           n == Newest(l)
           gv == gen.version
<1>0. n \in Nat /\ gv \in Nat \ {0} /\ gv <= Top(l)
  BY SoundIs DEF Carried, InstRows
<1>1. PICK f : Forward(f, l.hist, gv, gen.props, Top(l)) /\ f[Top(l)] = l.inst.props
  BY DEF Carried
<1>2. CASE rec.row = "schema"
  <2>1. rec \in SchemaRows /\ ~rec.hidden
    BY <1>2, RowKinds
  <2> DEFINE desc == rec.desc
             props == l.inst.props
  <2>2. l.inst \in InstRows /\ props \in PropSets
    BY LoadTyped
  <2>3. /\ desc \in Descs /\ OneToOne(desc) /\ Clear(desc, props)
        /\ m.inst = MovedInst(l.inst, desc)
    BY <2>1, SchemaMoves
  <2>4. m.inst \in InstRows /\ m.inst.props = Renamed(desc, props)
    BY <2>2, <2>3, MovedIs
  <2>5. m.inst # NoRow
    BY <2>4, RowKinds
  <2>6. ~LiveSchemaHidden(m)
    <3>1. m.schema = rec
      BY <2>1, ApplySchema
    <3> QED BY <2>1, <3>1 DEF LiveSchemaHidden
  <2>7. /\ Newest(m) = n + 1 /\ Latest(m) = desc /\ \A w \in 1..n : m.hist[w] = l.hist[w]
        /\ Sound(m)
    BY <1>2, <2>1, SoundStep
  <2>8. m.hist[n + 1] = desc
    <3>1. m \in Lives
      BY ApplyTyped
    <3> HIDE DEF m, desc
    <3> QED BY <1>0, <2>7, <3>1, SoundIs
  <2>9. CASE n = 0
    <3>1. desc.rename = {}
      <4>1. Versions(l) = {}
        BY <2>9, SoundIs
      <4> QED BY <1>2, <2>1, <4>1 DEF AdmittedAfter, Follows
    <3>2. Renamed(desc, props) = props
      BY <2>2, <2>3, <3>1, NoRenames
    <3>3. Top(l) = 1 /\ Top(m) = 1 /\ gv = 1
      BY <1>0, <2>7, <2>9 DEF Top
    <3> HIDE DEF m, n, desc, props, gv
    <3>4. \A v \in 1..1 : v = 1
      OBVIOUS
    <3>5. f = [v \in 1..1 |-> IF v = 1 THEN gen.props ELSE Ahead(l.hist[v], f[v - 1])]
      BY <1>1, <3>3 DEF Forward
    <3>6. f = [v \in 1..1 |-> IF v = 1 THEN gen.props ELSE Ahead(m.hist[v], f[v - 1])]
      BY <3>4, <3>5
    <3>7. Forward(f, m.hist, gv, gen.props, Top(m)) /\ f[Top(m)] = m.inst.props
      BY <1>1, <2>4, <3>2, <3>3, <3>6 DEF Forward, props
    <3>8. Carried(m, gen)
      BY <3>3, <3>7 DEF Carried, gv
    <3> QED BY <2>5, <2>6, <3>8 DEF m
  <2>10. CASE n # 0
    <3>1. Top(l) = n /\ Top(m) = n + 1
      BY <1>0, <2>7, <2>10 DEF Top
    <3>2. Ahead(desc, props) = m.inst.props
      BY <2>2, <2>3, <2>4, AheadRenames
    <3> DEFINE g == [v \in gv..(n + 1) |-> IF v = n + 1 THEN m.inst.props ELSE f[v]]
    <3>3. \A v \in gv..n : f[v] = IF v = gv THEN gen.props ELSE Ahead(l.hist[v], f[v - 1])
      <4> HIDE DEF n, gv
      <4> QED BY <1>1, <3>1 DEF Forward
    <3>4. f[n] = props
      <4> HIDE DEF n
      <4> QED BY <1>1, <3>1
    <3> HIDE DEF m, n, desc, props, gv
    <3>5. gv <= n
      BY <1>0, <3>1
    <3>6. ASSUME NEW v \in gv..(n + 1)
          PROVE  g[v] = IF v = gv THEN gen.props ELSE Ahead(m.hist[v], g[v - 1])
      <4>1. CASE v = n + 1
        <5>1. v - 1 = n /\ n \in gv..(n + 1) /\ n # n + 1 /\ v # gv
          BY <1>0, <3>5, <4>1
        <5>2. g[n] = f[n] /\ g[v] = m.inst.props
          BY <4>1, <5>1
        <5> HIDE DEF g
        <5> QED BY <2>8, <3>2, <3>4, <4>1, <5>1, <5>2
      <4>2. CASE v # n + 1
        <5>1. v \in gv..n
          BY <1>0, <4>2
        <5>2. g[v] = f[v]
          BY <4>2
        <5>3. CASE v = gv
          <6> HIDE DEF g
          <6> QED BY <3>3, <5>1, <5>2, <5>3
        <5>4. CASE v # gv
          <6>1. v - 1 \in gv..(n + 1) /\ v - 1 # n + 1 /\ v \in 1..n
            BY <1>0, <5>1, <5>4
          <6>2. g[v - 1] = f[v - 1]
            BY <6>1
          <6> HIDE DEF g
          <6> QED BY <2>7, <3>3, <5>1, <5>2, <5>4, <6>1, <6>2
        <5> QED BY <5>3, <5>4
      <4> QED BY <4>1, <4>2
    <3>7. g = [v \in gv..(n + 1) |-> g[v]]
      OBVIOUS
    <3>8. g[n + 1] = m.inst.props
      <4>1. n + 1 \in gv..(n + 1)
        BY <1>0, <3>5
      <4> QED BY <4>1
    <3> HIDE DEF g
    <3>9. Forward(g, m.hist, gv, gen.props, Top(m)) /\ g[Top(m)] = m.inst.props
      BY <3>1, <3>6, <3>7, <3>8 DEF Forward
    <3>10. gv <= Top(m)
      BY <1>0, <3>1, <3>5
    <3>11. Carried(m, gen)
      BY <3>9, <3>10 DEF Carried, gv
    <3> QED BY <2>5, <2>6, <3>11 DEF m
  <2> QED BY <2>9, <2>10
<1>3. CASE rec.row = "over"
  <2>1. m.inst = l.inst /\ m.schema = l.schema /\ m.hist = l.hist
    BY <1>3, RowKinds, ApplyOver
  <2> HIDE DEF m
  <2>2. Top(m) = Top(l)
    BY <2>1 DEF Newest, Versions, Top
  <2>3. Carried(m, gen)
    BY <2>1, <2>2 DEF Carried
  <2> QED BY <2>1, <2>3 DEF LiveSchemaHidden, m
<1> QED BY <1>2, <1>3, RowKinds

(* The generations up to a point, by place and by number.                  *)
LEMMA BeforeIs ==
  ASSUME NEW records \in Seq(Records), NEW i \in 0..Len(records) + 1
  PROVE  /\ Before(records, i) \in SUBSET (1..Len(records))
         /\ IsFiniteSet(Before(records, i)) /\ Cardinality(Before(records, i)) \in Nat
         /\ \A j \in 1..Len(records) :
              j \in Before(records, i) <=> records[j].row = "inst" /\ j < i
<1>1. Len(records) \in Nat /\ DOMAIN records = 1..Len(records)
  BY LenProperties
<1>2. Before(records, i) \in SUBSET (1..Len(records))
  BY <1>1 DEF Before, Generations
<1>3. IsFiniteSet(1..Len(records))
  BY <1>1, FS_Interval
<1>4. IsFiniteSet(Before(records, i))
  BY <1>2, <1>3, FS_Subset
<1>5. Cardinality(Before(records, i)) \in Nat
  BY <1>4, FS_CardinalityType
<1> QED BY <1>1, <1>2, <1>4, <1>5 DEF Before, Generations

LEMMA NumberedUpTo ==
  ASSUME NEW records \in Seq(Records), NEW i \in 1..Len(records), NEW j \in Generations(records)
  PROVE  Cardinality(Before(records, j)) + 1 <= Cardinality(Before(records, i + 1)) <=> j <= i
<1> DEFINE A == Before(records, j)
           B == Before(records, i + 1)
<1>0. Len(records) \in Nat /\ j \in 1..Len(records) /\ records[j].row = "inst"
  BY LenProperties DEF Generations
<1>1. j \in 0..Len(records) + 1 /\ i + 1 \in 0..Len(records) + 1
  BY <1>0
<1>2. /\ A \in SUBSET (1..Len(records)) /\ IsFiniteSet(A) /\ Cardinality(A) \in Nat
      /\ \A k \in 1..Len(records) : k \in A <=> records[k].row = "inst" /\ k < j
  BY <1>1, BeforeIs
<1>3. /\ B \in SUBSET (1..Len(records)) /\ IsFiniteSet(B) /\ Cardinality(B) \in Nat
      /\ \A k \in 1..Len(records) : k \in B <=> records[k].row = "inst" /\ k < i + 1
  BY <1>1, BeforeIs
<1> HIDE DEF A, B
<1>4. CASE j <= i
  <2>1. A \cup {j} \subseteq B /\ j \notin A
    BY <1>0, <1>2, <1>3, <1>4
  <2>2. Cardinality(A \cup {j}) = Cardinality(A) + 1
    BY <1>2, <2>1, FS_AddElement
  <2>3. Cardinality(A \cup {j}) <= Cardinality(B)
    BY <1>3, <2>1, FS_Subset
  <2> QED BY <1>4, <2>2, <2>3 DEF A, B
<1>5. CASE ~(j <= i)
  <2>1. B \subseteq A
    BY <1>0, <1>2, <1>3, <1>5
  <2>2. Cardinality(B) <= Cardinality(A)
    BY <1>2, <2>1, FS_Subset
  <2>3. ~(Cardinality(A) + 1 <= Cardinality(B))
    BY <1>2, <1>3, <2>2
  <2> QED BY <1>5, <2>3 DEF A, B
<1> QED BY <1>4, <1>5

LEMMA StoredIs ==
  ASSUME NEW records, NEW j \in Generations(records)
  PROVE  /\ DOMAIN StoredVersions(records) = Generations(records)
         /\ StoredVersions(records)[j].gen = records[j]
         /\ StoredVersions(records)[j].number = Cardinality(Before(records, j)) + 1
BY DEF StoredVersions

(* load_as_of by a commit point and by a generation number.                *)
LEMMA LoadAsOfIs ==
  ASSUME NEW l, NEW records \in Seq(Records), NEW i \in 1..Len(records),
         Before(records, i + 1) # {}
  PROVE  /\ LoadAsOf(l, records, [by |-> "commit", n |-> i])
              = PresentVersion(l, records[Max(Before(records, i + 1))])
         /\ LoadAsOf(l, records, [by |-> "generation", n |-> Cardinality(Before(records, i + 1))])
              = PresentVersion(l, records[Max(Before(records, i + 1))])
<1> DEFINE stored == StoredVersions(records)
           B == Before(records, i + 1)
           g == Max(B)
           c == [by |-> "commit", n |-> i]
           d == [by |-> "generation", n |-> Cardinality(B)]
           first == {k \in DOMAIN stored : k <= i}
           second == {k \in DOMAIN stored : stored[k].number <= Cardinality(B)}
<1>1. Len(records) \in Nat /\ i + 1 \in 0..Len(records) + 1 /\ Generations(records) \subseteq 1..Len(records)
  BY LenProperties DEF Generations
<1>2. /\ B \in SUBSET (1..Len(records))
      /\ \A j \in 1..Len(records) : j \in B <=> records[j].row = "inst" /\ j < i + 1
  BY <1>1, BeforeIs
<1>3. g \in B
  <2>1. B # {} /\ Len(records) \in Nat
    BY <1>1
  <2> HIDE DEF B
  <2> QED BY <1>2, <2>1, LargestIn
<1>4. \A j \in 1..Len(records) : j \in Generations(records) <=> records[j].row = "inst"
  BY DEF Generations
<1>5. g \in Generations(records)
  <2> HIDE DEF g, B
  <2> QED BY <1>2, <1>3, <1>4
<1>6. DOMAIN stored = Generations(records) /\ stored[g].gen = records[g]
  <2> HIDE DEF g
  <2> QED BY <1>5, StoredIs
<1>7. first = B
  <2>1. ASSUME NEW k PROVE k \in first <=> k \in B
    <3>1. k \in first <=> k \in Generations(records) /\ k <= i
      BY <1>6
    <3>2. k \in Generations(records) => k \in 1..Len(records)
      BY <1>1
    <3>3. k \in 1..Len(records) => (k <= i <=> k < i + 1)
      BY <1>1
    <3> HIDE DEF first, B
    <3> QED BY <1>2, <1>4, <3>1, <3>2, <3>3
  <2> HIDE DEF first, B
  <2> QED BY <2>1
<1>8. second = B
  <2>1. \A j \in Generations(records) : stored[j].number = Cardinality(Before(records, j)) + 1
    BY StoredIs
  <2>2. \A j \in Generations(records) : stored[j].number <= Cardinality(B) <=> j <= i
    BY <2>1, NumberedUpTo
  <2>3. ASSUME NEW k PROVE k \in second <=> k \in B
    <3>1. k \in second <=> k \in Generations(records) /\ stored[k].number <= Cardinality(B)
      BY <1>6
    <3>2. k \in Generations(records) => k \in 1..Len(records)
      BY <1>1
    <3>3. k \in 1..Len(records) => (k <= i <=> k < i + 1)
      BY <1>1
    <3>4. k \in second <=> k \in Generations(records) /\ k <= i
      <4> HIDE DEF second, B, stored
      <4> QED BY <2>2, <3>1
    <3> HIDE DEF second, B, stored
    <3> QED BY <1>2, <1>4, <3>4, <3>2, <3>3
  <2> HIDE DEF second, B, stored
  <2> QED BY <2>3
<1>9. LoadAsOf(l, records, c) = PresentVersion(l, stored[Max(first)].gen)
  BY DEF LoadAsOf
<1>10. LoadAsOf(l, records, d) = PresentVersion(l, stored[Max(second)].gen)
  BY DEF LoadAsOf
<1> HIDE DEF first, second, stored, B, c, d
<1> QED BY <1>6, <1>7, <1>8, <1>9, <1>10 DEF B, c, d

(* The projection had the instance not been written since.                 *)
LEMMA WithoutTyped ==
  ASSUME NEW l \in Lives, NEW rec \in Records
  PROVE  WithoutWrite(l, rec) \in Lives
BY ApplyTyped DEF WithoutWrite

StayStep == [p \in Lives \X Records |-> WithoutWrite(p[1], p[2])]

LEMMA StayFolds ==
  ASSUME NEW l \in Lives, NEW seq \in Seq(Records)
  PROVE  FoldLeft(WithoutWrite, l, seq) = Folded(l, StayStep, seq)
<1> DEFINE N == Len(seq)
           F(g) == g = [s \in SUBSET (1..N) |->
                          IF s = {} THEN l ELSE WithoutWrite(g[s \ {Max(s)}], seq[Max(s)])]
<1>1. N \in Nat /\ DOMAIN seq = 1..N /\ \A i \in 1..N : seq[i] \in Records
  BY LenProperties, ElementOfSeq
<1>2. StayStep \in [Lives \X Records -> Lives]
  BY WithoutTyped DEF StayStep
<1>3. \A a \in Lives, r \in Records : StayStep[<<a, r>>] = WithoutWrite(a, r)
  BY DEF StayStep
<1>4. ASSUME NEW g, FoldsTo(g, l, StayStep, seq, N) PROVE F(g)
  <2>1. \A s \in SUBSET (1..N) :
          /\ g[s] \in Lives
          /\ s # {} => Max(s) \in 1..N /\ s \ {Max(s)} \in SUBSET (1..N)
    BY <1>2, <1>4, FoldsToTyped
  <2>2. \A s \in SUBSET (1..N) : s # {} =>
          StayStep[<<g[s \ {Max(s)}], seq[Max(s)]>>] = WithoutWrite(g[s \ {Max(s)}], seq[Max(s)])
    BY <1>1, <1>3, <2>1
  <2> HIDE DEF N
  <2> QED BY <1>4, <2>2 DEF FoldsTo
<1>5. ASSUME NEW g, F(g) PROVE FoldsTo(g, l, StayStep, seq, N)
  <2>1. g = [s \in SUBSET (1..N) |-> g[s]] /\ g[{}] = l
    BY <1>5
  <2>2. \A s \in SUBSET (1..N) :
          s # {} /\ g[s \ {Max(s)}] \in Lives /\ seq[Max(s)] \in Records
            => g[s] = StayStep[<<g[s \ {Max(s)}], seq[Max(s)]>>]
    BY <1>3, <1>5
  <2> QED BY <1>2, <2>1, <2>2, FoldsToFrom
<1> DEFINE h == CHOOSE g : F(g)
<1>6. F(h)
  <2>1. \E g : F(g)
    BY <1>1, <1>4, FoldsExist
  <2> HIDE DEF F
  <2> QED BY <2>1
<1>7. FoldLeft(WithoutWrite, l, seq) = h[1..N]
  BY <1>1 DEF FoldLeft, MapThenFoldSet
<1> HIDE DEF F, h
<1>8. Folded(l, StayStep, seq) = h[1..N]
  BY <1>1, <1>5, <1>6, FoldedIs
<1> QED BY <1>7, <1>8

LEMMA StayIs ==
  ASSUME log \in Seq(Records), NEW i \in 0..Len(log), NEW k \in i..Len(log)
  PROVE  /\ HadItStayed(i, k) \in Lives
         /\ k = i => HadItStayed(i, k) = At(log, i)
         /\ k < Len(log) => HadItStayed(i, k + 1) = WithoutWrite(HadItStayed(i, k), log[k + 1])
<1> DEFINE base == At(log, i)
           piece == SubSeq(log, i + 1, k)
<1>1. Len(log) \in Nat /\ i + 1 \in 1..Len(log) + 1 /\ k \in (i + 1) - 1..Len(log)
      /\ (i + 1) - 1 = i
  BY LenProperties
<1>2. base \in Lives
  BY AtIs
<1>3. /\ piece \in Seq(Records) /\ (k = i => piece = <<>>)
      /\ k < Len(log) => /\ SubSeq(log, i + 1, k + 1) = Append(piece, log[k + 1])
                         /\ log[k + 1] \in Records
  BY <1>1, PiecesGrow
<1>4. \A j : HadItStayed(i, j) = FoldLeft(WithoutWrite, base, SubSeq(log, i + 1, j))
  BY DEF HadItStayed, At, First
<1>5. StayStep \in [Lives \X Records -> Lives]
  BY WithoutTyped DEF StayStep
<1> HIDE DEF base, piece
<1> DEFINE a == Folded(base, StayStep, piece)
<1>6. a \in Lives
  BY <1>2, <1>3, <1>5, FoldedTyped
<1>7. HadItStayed(i, k) = a
  BY <1>2, <1>3, <1>4, StayFolds DEF piece
<1>8. ASSUME k < Len(log)
      PROVE  HadItStayed(i, k + 1) = WithoutWrite(a, log[k + 1])
  <2> DEFINE rec == log[k + 1]
  <2>1. rec \in Records /\ SubSeq(log, i + 1, k + 1) = Append(piece, rec)
    BY <1>3, <1>8
  <2> HIDE DEF rec
  <2>2. Append(piece, rec) \in Seq(Records)
    BY <1>3, <2>1, AppendProperties
  <2>3. HadItStayed(i, k + 1) = Folded(base, StayStep, Append(piece, rec))
    BY <1>2, <1>4, <2>1, <2>2, StayFolds
  <2>4. Folded(base, StayStep, Append(piece, rec)) = StayStep[<<a, rec>>]
    BY <1>3, <2>1, FoldedAppend
  <2> HIDE DEF a
  <2>5. StayStep[<<a, rec>>] = WithoutWrite(a, rec)
    BY <1>6, <2>1 DEF StayStep
  <2> QED BY <2>3, <2>4, <2>5 DEF rec
<1>9. ASSUME k = i PROVE HadItStayed(i, k) = base
  <2>1. a = base
    BY <1>3, <1>9, FoldedEmpty
  <2> QED BY <1>7, <2>1
<1> HIDE DEF a
<1> QED BY <1>6, <1>7, <1>8, <1>9 DEF base

(* A descriptor that no record hides is not hidden.                        *)
LEMMA NeverHiddenAt ==
  ASSUME NEW records \in Seq(Records),
         \A j \in 1..Len(records) : records[j].row = "schema" => ~records[j].hidden,
         NEW k \in 0..Len(records)
  PROVE  ~LiveSchemaHidden(At(records, k))
<1> DEFINE T == {d \in Nat : d <= Len(records) => ~LiveSchemaHidden(At(records, d))}
<1>1. Len(records) \in Nat
  BY LenProperties
<1>2. 0 \in T
  <2>1. At(records, 0) = EmptyLive
    BY <1>1, AtIs
  <2> QED BY <2>1, EmptyLiveIs DEF LiveSchemaHidden
<1>3. ASSUME NEW d \in T PROVE d + 1 \in T
  <2> SUFFICES ASSUME d + 1 <= Len(records) PROVE ~LiveSchemaHidden(At(records, d + 1))
    OBVIOUS
  <2> DEFINE l == At(records, d)
             rec == records[d + 1]
  <2>1. d \in 0..Len(records) /\ d < Len(records) /\ d + 1 \in 1..Len(records)
    BY <1>1
  <2>2. /\ l \in Lives /\ rec \in Records /\ At(records, d + 1) = ApplyRecord(l, rec)
        /\ ~LiveSchemaHidden(l) /\ (rec.row = "schema" => ~rec.hidden)
    BY <2>1, AtIs
  <2> HIDE DEF l, rec
  <2>3. CASE rec \in SchemaRows
    BY <2>2, <2>3, RowKinds, ApplySchema DEF LiveSchemaHidden
  <2>4. CASE rec \in InstRows
    BY <2>2, <2>4, ApplyInst DEF LiveSchemaHidden
  <2>5. CASE rec \in OverRows
    BY <2>2, <2>5, ApplyOver DEF LiveSchemaHidden
  <2> QED BY <2>2, <2>3, <2>4, <2>5 DEF Records
<1> HIDE DEF T
<1>4. T = Nat
  <2>1. T \subseteq Nat BY DEF T
  <2> QED BY <1>2, <1>3, <2>1, NatSetInduction
<1> QED BY <1>4 DEF T

(* The generation that was written last is carried along the log up to the *)
(* point it is in effect at.                                               *)
LEMMA CarriedTo ==
  ASSUME NEW records \in Seq(Records), Admitted(records),
         \A j \in 1..Len(records) : records[j].row = "schema" => ~records[j].hidden,
         NEW g \in 1..Len(records), NEW gen \in InstRows, records[g] = gen, ~gen.hidden,
         NEW i \in g..Len(records), \A j \in g+1..i : records[j].row # "inst"
  PROVE  /\ At(records, i).inst # NoRow /\ ~LiveSchemaHidden(At(records, i))
         /\ Carried(At(records, i), gen)
<1> DEFINE holds(l) == l.inst # NoRow /\ ~LiveSchemaHidden(l) /\ Carried(l, gen)
           T == {d \in Nat : g + d <= i => holds(At(records, g + d))}
<1>1. Len(records) \in Nat /\ g \in Nat /\ i \in Nat /\ i <= Len(records)
  BY LenProperties
<1>2. \A d \in 0..Len(records) : At(records, d) \in Lives /\ Sound(At(records, d))
  BY <1>1, AtIs, AdmittedSound
<1>3. 0 \in T
  <2> DEFINE l == At(records, g - 1)
  <2>1. g - 1 \in 0..Len(records) /\ g - 1 < Len(records) /\ (g - 1) + 1 = g /\ g + 0 = g
    BY <1>1
  <2>2. l \in Lives /\ Sound(l) /\ At(records, g) = ApplyRecord(l, gen)
    BY <1>2, <2>1, AtIs
  <2>3. AdmittedAfter(l, gen)
    BY DEF Admitted
  <2>4. ~LiveSchemaHidden(l)
    BY <1>1, <2>1, NeverHiddenAt
  <2> HIDE DEF l
  <2>5. Carried(ApplyRecord(l, gen), gen)
    BY <2>2, <2>3, <2>4, CarriedFirst
  <2>6. ApplyRecord(l, gen).inst = gen /\ ApplyRecord(l, gen).schema = l.schema /\ gen # NoRow
    BY <2>2, ApplyInst, RowKinds
  <2> HIDE DEF T
  <2>7. holds(ApplyRecord(l, gen))
    BY <2>4, <2>5, <2>6 DEF LiveSchemaHidden
  <2> HIDE DEF holds
  <2> QED BY <2>1, <2>2, <2>7 DEF T
<1>4. ASSUME NEW d \in T PROVE d + 1 \in T
  <2> SUFFICES ASSUME g + (d + 1) <= i PROVE holds(At(records, g + (d + 1)))
    OBVIOUS
  <2> DEFINE a == g + d
             l == At(records, a)
             rec == records[a + 1]
  <2>1. /\ a \in 0..Len(records) /\ a < Len(records) /\ a + 1 = g + (d + 1)
        /\ a + 1 \in 1..Len(records) /\ (a + 1) - 1 = a /\ a + 1 \in g+1..i
        /\ a <= i
    BY <1>1
  <2>2. holds(l)
    <3> HIDE DEF holds
    <3> QED BY <2>1
  <2> HIDE DEF a
  <2>3. l \in Lives /\ Sound(l) /\ rec \in Records /\ At(records, a + 1) = ApplyRecord(l, rec)
    BY <1>2, <2>1, AtIs
  <2>4. AdmittedAfter(l, rec) /\ rec.row # "inst" /\ (rec.row = "schema" => ~rec.hidden)
    BY <2>1 DEF Admitted
  <2> HIDE DEF l, rec
  <2>5. holds(ApplyRecord(l, rec))
    BY <2>2, <2>3, <2>4, CarriedStep
  <2> HIDE DEF holds
  <2> QED BY <2>1, <2>3, <2>5
<1> HIDE DEF T
<1>5. T = Nat
  <2>1. T \subseteq Nat BY DEF T
  <2> QED BY <1>3, <1>4, <2>1, NatSetInduction
<1>6. i - g \in T /\ g + (i - g) = i
  BY <1>1, <1>5
<1> HIDE DEF holds
<1>7. holds(At(records, i))
  BY <1>1, <1>6 DEF T
<1> QED BY <1>7 DEF holds

(* And further, as if it had stayed, if the descriptors take it along.     *)
LEMMA CarriedOn ==
  ASSUME LogInv, NeverHidden, NEW i \in 1..Len(log), TakenAlong(i), NEW gen \in InstRows,
         At(log, i).inst # NoRow, ~LiveSchemaHidden(At(log, i)), Carried(At(log, i), gen)
  PROVE  LET h == HadItStayed(i, Len(log))
         IN /\ h \in Lives /\ h.inst # NoRow /\ Carried(h, gen)
            /\ h.schema = live.schema /\ h.hist = live.hist
<1> DEFINE holds(l) == l.inst # NoRow /\ ~LiveSchemaHidden(l) /\ Carried(l, gen)
           T == {d \in Nat : i + d <= Len(log) =>
                   /\ holds(HadItStayed(i, i + d))
                   /\ HadItStayed(i, i + d).schema = At(log, i + d).schema
                   /\ HadItStayed(i, i + d).hist = At(log, i + d).hist}
<1>1. Len(log) \in Nat /\ i \in Nat /\ log \in Seq(Records) /\ Admitted(log) /\ i \in 0..Len(log)
  BY LiveIs DEF LogInv
<1>2. \A d \in 0..Len(log) : At(log, d) \in Lives /\ Sound(At(log, d))
  BY <1>1, AtIs, AdmittedSound
<1>3. 0 \in T
  <2>1. i + 0 = i /\ i \in i..Len(log)
    BY <1>1
  <2>2. HadItStayed(i, i) = At(log, i)
    BY <1>1, <2>1, StayIs
  <2>3. holds(At(log, i))
    OBVIOUS
  <2> HIDE DEF holds
  <2> QED BY <2>1, <2>2, <2>3
<1>4. ASSUME NEW d \in T PROVE d + 1 \in T
  <2> SUFFICES ASSUME i + (d + 1) <= Len(log)
               PROVE  /\ holds(HadItStayed(i, i + (d + 1)))
                      /\ HadItStayed(i, i + (d + 1)).schema = At(log, i + (d + 1)).schema
                      /\ HadItStayed(i, i + (d + 1)).hist = At(log, i + (d + 1)).hist
    OBVIOUS
  <2> DEFINE a == i + d
             l == At(log, a)
             h == HadItStayed(i, a)
             rec == log[a + 1]
  <2>1. /\ a \in 0..Len(log) /\ a \in i..Len(log) /\ a < Len(log) /\ a + 1 = i + (d + 1)
        /\ a + 1 \in 1..Len(log) /\ (a + 1) - 1 = a /\ a + 1 \in i+1..Len(log) /\ a <= Len(log)
    BY <1>1
  <2>2. holds(h) /\ h.schema = l.schema /\ h.hist = l.hist
    <3> HIDE DEF holds
    <3> QED BY <2>1
  <2> HIDE DEF a
  <2>3. l \in Lives /\ Sound(l) /\ rec \in Records /\ At(log, a + 1) = ApplyRecord(l, rec)
    BY <1>1, <1>2, <2>1, AtIs
  <2>4. h \in Lives /\ HadItStayed(i, a + 1) = WithoutWrite(h, rec)
    BY <1>1, <2>1, StayIs
  <2>5. AdmittedAfter(l, rec) /\ (rec.row = "schema" => ~rec.hidden)
    BY <1>1, <2>1 DEF Admitted, NeverHidden
  <2>6. rec.row = "schema" /\ Versions(h) # {} => CarriesInstance(h, rec.desc)
    <3>1. log[a + 1].row = "schema" /\ Versions(HadItStayed(i, (a + 1) - 1)) # {} =>
            CarriesInstance(HadItStayed(i, (a + 1) - 1), log[a + 1].desc)
      BY <2>1 DEF TakenAlong
    <3> QED BY <2>1, <3>1
  <2> HIDE DEF l, h, rec
  <2>7. Versions(h) = Versions(l) /\ Newest(h) = Newest(l) /\ Latest(h) = Latest(l)
    BY <2>2 DEF Versions, Newest, Latest
  <2>8. Sound(h)
    BY <2>2, <2>3, <2>7 DEF Sound
  <2>9. CASE rec.row = "inst"
    <3>1. rec \in InstRows
      BY <2>3, <2>9, RowKinds
    <3>2. ApplyRecord(l, rec).schema = l.schema /\ ApplyRecord(l, rec).hist = l.hist
      BY <2>3, <3>1, ApplyInst
    <3>3. HadItStayed(i, a + 1) = h
      BY <2>4, <2>9 DEF WithoutWrite
    <3> HIDE DEF holds
    <3> QED BY <2>1, <2>2, <2>3, <3>2, <3>3
  <2>10. CASE rec.row # "inst"
    <3>1. AdmittedAfter(h, rec)
      BY <2>5, <2>6, <2>7, <2>10 DEF AdmittedAfter, Follows
    <3>2. holds(ApplyRecord(h, rec))
      BY <2>2, <2>3, <2>4, <2>5, <2>8, <2>10, <3>1, CarriedStep
    <3>3. ApplyRecord(h, rec).hist = ApplyRecord(l, rec).hist
      BY <2>2, <2>3, <2>4, ApplyRecalls
    <3>4. ApplyRecord(h, rec).schema = ApplyRecord(l, rec).schema
      <4>1. CASE rec \in SchemaRows
        BY <2>3, <2>4, <4>1, ApplySchema
      <4>2. CASE rec \in OverRows
        BY <2>2, <2>3, <2>4, <4>2, ApplyOver
      <4> QED BY <2>3, <2>10, <4>1, <4>2, RowKinds DEF Records
    <3>5. HadItStayed(i, a + 1) = ApplyRecord(h, rec)
      BY <2>4, <2>10 DEF WithoutWrite
    <3> HIDE DEF holds
    <3> QED BY <2>1, <2>3, <3>2, <3>3, <3>4, <3>5
  <2> QED BY <2>9, <2>10
<1> HIDE DEF T
<1>5. T = Nat
  <2>1. T \subseteq Nat BY DEF T
  <2> QED BY <1>3, <1>4, <2>1, NatSetInduction
<1>6. Len(log) - i \in T /\ i + (Len(log) - i) = Len(log) /\ Len(log) \in i..Len(log)
  BY <1>1, <1>5
<1> DEFINE h == HadItStayed(i, Len(log))
<1> HIDE DEF holds
<1>7. holds(h) /\ h.schema = At(log, Len(log)).schema /\ h.hist = At(log, Len(log)).hist
  BY <1>1, <1>6 DEF T
<1>8. h \in Lives /\ live = At(log, Len(log))
  BY <1>1, <1>6, StayIs, LiveIs
<1> HIDE DEF h
<1>9. /\ h \in Lives /\ h.inst # NoRow /\ Carried(h, gen)
      /\ h.schema = live.schema /\ h.hist = live.hist
  BY <1>7, <1>8 DEF holds
<1> QED BY <1>9 DEF h

LEMMA HistoryFollows == LogInv => HistoryReplays
<1> SUFFICES ASSUME LogInv, NeverHidden, NEW i \in 1..Len(log), Before(log, i + 1) # {},
                    ~InEffect(i).hidden, TakenAlong(i)
             PROVE  AsIfItStayed(i)
  BY DEF HistoryReplays
<1> DEFINE B == Before(log, i + 1)
           g == Max(B)
           gen == log[g]
           h == HadItStayed(i, Len(log))
<1>1. live \in Lives /\ Sound(live) /\ Len(log) \in Nat /\ log \in Seq(Records) /\ Admitted(log)
  BY LiveIs DEF LogInv
<1>2. i + 1 \in 0..Len(log) + 1
  BY <1>1
<1>3. /\ B \in SUBSET (1..Len(log)) /\ B # {}
      /\ \A j \in 1..Len(log) : j \in B <=> log[j].row = "inst" /\ j < i + 1
  BY <1>1, <1>2, BeforeIs
<1>4. g \in B /\ \A j \in B : j <= g
  <2> HIDE DEF B
  <2> QED BY <1>1, <1>3, LargestIn
<1> HIDE DEF B
<1>5. g \in 1..Len(log) /\ gen.row = "inst" /\ g < i + 1
  BY <1>3, <1>4
<1>6. gen \in InstRows /\ ~gen.hidden
  <2>1. gen \in Records
    BY <1>1, <1>5, ElementOfSeq
  <2> QED BY <1>5, <2>1, RowKinds DEF InEffect, B
<1>7. \A j \in g+1..i : log[j].row # "inst"
  BY <1>1, <1>3, <1>4, <1>5
<1>8. \A j \in 1..Len(log) : log[j].row = "schema" => ~log[j].hidden
  BY DEF NeverHidden
<1>9. i \in g..Len(log)
  BY <1>1, <1>5
<1> HIDE DEF g
<1>10. At(log, i).inst # NoRow /\ ~LiveSchemaHidden(At(log, i)) /\ Carried(At(log, i), gen)
  BY <1>1, <1>5, <1>6, <1>7, <1>8, <1>9, CarriedTo
<1> HIDE DEF gen
<1>11. /\ h \in Lives /\ h.inst # NoRow /\ Carried(h, gen)
       /\ h.schema = live.schema /\ h.hist = live.hist
  BY <1>6, <1>10, CarriedOn
<1> HIDE DEF h
<1>12. Sound(h)
  BY <1>1, <1>11 DEF Sound, Versions
<1>13. RenameForward(live.hist, gen) = h.inst.props
  BY <1>6, <1>11, <1>12, CarriedIs
<1>14. Omitted(h) = Omitted(live)
  BY <1>11 DEF Omitted, Versions, LiveSchemaHidden, Latest
<1>15. PresentVersion(live, gen) = Load(h)
  BY <1>13, <1>14 DEF PresentVersion, Load, CurrentView
<1>16. /\ LoadAsOf(live, log, [by |-> "commit", n |-> i]) = PresentVersion(live, gen)
       /\ LoadAsOf(live, log, [by |-> "generation", n |-> Cardinality(Before(log, i + 1))])
            = PresentVersion(live, gen)
  BY <1>1, <1>3, LoadAsOfIs DEF gen, g, B
<1> QED BY <1>15, <1>16 DEF AsIfItStayed, h

(* A generation that is not a hide is, as of its commit point, what load   *)
(* would answer had nothing been written since.                            *)
THEOREM HistoryHolds == Spec => []HistoryReplays
<1>1. LogInv => HistoryReplays
  BY HistoryFollows
<1> QED BY <1>1, LogInvHolds, PTL

-----------------------------------------------------------------------------
(* An overlay and the place of its admission.                              *)

IsFirst(records, f, id) ==
  /\ records[f].row = "over" /\ records[f].id = id
  /\ \A j \in 1..f-1 : records[j].row = "over" => records[j].id # id

Recreated(records, r) ==
  /\ records[r].row = "inst" /\ ~records[r].hidden
  /\ \E h \in 1..r-1 : /\ records[h].row = "inst" /\ records[h].hidden
                       /\ \A j \in h+1..r-1 : records[j].row # "inst"

FreshAfter(records, f, k) == \A r \in 1..k : Recreated(records, r) => r < f

(* The overlay was admitted for an instance that was hidden.               *)
ForHidden(records, f) == HiddenNow(At(records, f - 1))

(* A generation that names an overlay was written after the overlay was    *)
(* admitted, and the instance was not recreated in between, unless it was  *)
(* hidden at the admission.                                                *)
Fresh(records) ==
  \A i \in 1..Len(records) :
    (records[i].row = "inst" /\ ~records[i].hidden /\ records[i].id # NoId) =>
      \E f \in 1..i-1 : /\ IsFirst(records, f, records[i].id)
                        /\ ForHidden(records, f) \/ FreshAfter(records, f, i)

ClaimedAt(records, l, f) ==
  /\ f \in 1..Len(records) /\ IsFirst(records, f, l.over.id)
  /\ ForHidden(records, f) \/ (FreshAfter(records, f, Len(records)) /\ ~HiddenNow(l))

(* A patch that overrides declared names only, and clears besides them at  *)
(* most the given ones.                                                    *)
KeepsTo(patch, desc, strays) ==
  /\ DOMAIN patch.props \subseteq Declared(desc)
  /\ Touched(patch) \subseteq Declared(desc) \cup strays

Within(l, strays) == Versions(l) # {} /\ KeepsTo(l.over.patch, Latest(l), strays)

(* What its call was answered under bounds the overlay.                    *)
Bounded(records, l, f) ==
  Accepts(At(records, f - 1), records[f].patch) =>
    Within(l, Strays(At(records, f - 1), records[f].patch))

(* A shown overlay, where it was admitted, and that it keeps to the        *)
(* descriptor if it was accepted under one.                                *)
OverGood(records, l) ==
  Shown(l.over) =>
    /\ DOMAIN l.over.lost \subseteq Touched(l.over.patch)
    /\ \E f \in 1..Len(records) : ClaimedAt(records, l, f) /\ Bounded(records, l, f)

OverInv ==
  /\ Fresh(log)
  /\ OverGood(log, live)
  /\ OverGood(SubSeq(log, 1, committed), At(log, committed))

(* What two logs that begin alike agree on.                                *)
LEMMA SameStart ==
  ASSUME NEW n \in Nat, NEW p, NEW q, \A i \in 1..n : p[i] = q[i]
  PROVE  /\ \A f \in 1..n : \A id : IsFirst(p, f, id) <=> IsFirst(q, f, id)
         /\ \A r \in 1..n : Recreated(p, r) <=> Recreated(q, r)
         /\ \A f, k \in 0..n : FreshAfter(p, f, k) <=> FreshAfter(q, f, k)
<1>1. ASSUME NEW f \in 1..n, NEW id PROVE IsFirst(p, f, id) <=> IsFirst(q, f, id)
  <2>1. \A j \in 1..f-1 : j \in 1..n
    OBVIOUS
  <2> QED BY <2>1 DEF IsFirst
<1>2. ASSUME NEW r \in 1..n PROVE Recreated(p, r) <=> Recreated(q, r)
  <2>1. \A j \in 1..r-1 : j \in 1..n /\ p[j] = q[j]
    OBVIOUS
  <2>2. \A h \in 1..r-1 : \A j \in h+1..r-1 : j \in 1..r-1
    OBVIOUS
  <2>3. p[r] = q[r]
    OBVIOUS
  <2> QED BY <2>1, <2>2, <2>3 DEF Recreated
<1>3. ASSUME NEW f \in 0..n, NEW k \in 0..n PROVE FreshAfter(p, f, k) <=> FreshAfter(q, f, k)
  <2>1. \A r \in 1..k : r \in 1..n
    OBVIOUS
  <2> QED BY <1>2, <2>1 DEF FreshAfter
<1> QED BY <1>1, <1>2, <1>3

(* A record that is no generation leaves the instance hidden or shown.     *)
LEMMA InstStays ==
  ASSUME NEW l \in Lives, NEW rec \in Records, rec.row # "inst"
  PROVE  /\ ApplyRecord(l, rec).inst = NoRow <=> l.inst = NoRow
         /\ l.inst # NoRow => ApplyRecord(l, rec).inst.hidden = l.inst.hidden
<1>1. CASE rec.row = "over"
  BY <1>1, RowKinds, ApplyOver
<1>2. CASE rec.row = "schema"
  <2>1. rec \in SchemaRows /\ rec.desc \in Descs
    BY <1>2, RowKinds DEF SchemaRows
  <2>2. ApplyRecord(l, rec).inst = InstAfter(l, rec)
    BY <2>1, ApplySchema
  <2>3. l.inst # NoRow => l.inst \in InstRows
    BY LiveParts
  <2>4. ASSUME l.inst # NoRow
        PROVE  Remap(l.inst, rec.desc, HistAfter(l, rec)) \in InstRows
               /\ Remap(l.inst, rec.desc, HistAfter(l, rec)).hidden = l.inst.hidden
    BY <2>1, <2>3, <2>4, RemapTyped
  <2>5. \A r \in InstRows : r # NoRow
    BY RowKinds
  <2> QED BY <2>2, <2>3, <2>4, <2>5 DEF InstAfter
<1> QED BY <1>1, <1>2, RowKinds

(* The instance is hidden as its last generation was.                      *)
LEMMA LastGeneration ==
  ASSUME NEW records \in Seq(Records), NEW h \in 1..Len(records), records[h].row = "inst",
         NEW k \in h..Len(records), \A j \in h+1..k : records[j].row # "inst"
  PROVE  At(records, k).inst # NoRow /\ At(records, k).inst.hidden = records[h].hidden
<1> DEFINE P(i) == At(records, i).inst # NoRow /\ At(records, i).inst.hidden = records[h].hidden
           T == {i \in Nat : h <= i /\ i <= k => P(i)}
<1>1. Len(records) \in Nat /\ h \in Nat /\ k \in Nat
  BY LenProperties
<1>2. 0 \in T
  BY <1>1
<1>3. ASSUME NEW i \in T PROVE i + 1 \in T
  <2> SUFFICES ASSUME h <= i + 1, i + 1 <= k PROVE P(i + 1)
    OBVIOUS
  <2>1. /\ i \in 0..Len(records) /\ i < Len(records) /\ i + 1 \in 1..Len(records)
    BY <1>1
  <2>2. /\ At(records, i) \in Lives /\ records[i + 1] \in Records
        /\ At(records, i + 1) = ApplyRecord(At(records, i), records[i + 1])
    BY <2>1, AtIs
  <2> DEFINE l == At(records, i)
             rec == records[i + 1]
  <2>3. l \in Lives /\ rec \in Records /\ At(records, i + 1) = ApplyRecord(l, rec)
    BY <2>2
  <2>4. CASE h = i + 1
    <3>1. rec \in InstRows /\ rec = records[h]
      BY <2>3, <2>4, RowKinds
    <3>2. ApplyRecord(l, rec).inst = rec /\ rec # NoRow
      <4> HIDE DEF l, rec
      <4> QED BY <2>3, <3>1, ApplyInst, RowKinds
    <3> QED BY <2>3, <3>1, <3>2
  <2>5. CASE h # i + 1
    <3>1. P(i) /\ i + 1 \in h+1..k
      BY <1>1, <1>3, <2>1, <2>5
    <3>2. rec.row # "inst" /\ l.inst # NoRow /\ l.inst.hidden = records[h].hidden
      BY <3>1
    <3> HIDE DEF l, rec
    <3>3. ApplyRecord(l, rec).inst # NoRow /\ ApplyRecord(l, rec).inst.hidden = l.inst.hidden
      BY <2>3, <3>2, InstStays
    <3> QED BY <2>3, <3>2, <3>3
  <2> QED BY <2>4, <2>5
<1> HIDE DEF T
<1>4. T = Nat
  <2>1. T \subseteq Nat BY DEF T
  <2> QED BY <1>2, <1>3, <2>1, NatSetInduction
<1>5. P(k)
  <2>1. k \in T /\ h <= k
    BY <1>1, <1>4
  <2> QED BY <1>1, <2>1 DEF T
<1> QED BY <1>5 DEF P

(* The instance is recreated where it is hidden.                           *)
LEMMA RecreatedHidden ==
  ASSUME NEW records \in Seq(Records), NEW rec \in Records,
         Recreated(Append(records, rec), Len(records) + 1)
  PROVE  HiddenNow(Replay(EmptyLive, records))
<1> DEFINE more == Append(records, rec)
           n == Len(records)
<1>1. n \in Nat /\ \A i \in 1..n : more[i] = records[i]
  BY LenProperties, AppendProperties
<1>2. Recreated(more, n + 1) /\ (n + 1) - 1 = n
  BY <1>1
<1> HIDE DEF more
<1>3. PICK h \in 1..n : /\ more[h].row = "inst" /\ more[h].hidden
                        /\ \A j \in h+1..n : more[j].row # "inst"
  BY <1>2 DEF Recreated
<1>4. \A j \in h+1..n : j \in 1..n
  BY <1>1
<1>5. /\ records[h].row = "inst" /\ records[h].hidden
      /\ \A j \in h+1..n : records[j].row # "inst"
  BY <1>1, <1>3, <1>4
<1>6. n \in h..n
  BY <1>1
<1>7. At(records, n).inst # NoRow /\ At(records, n).inst.hidden = records[h].hidden
  BY <1>5, <1>6, LastGeneration
<1>8. At(records, n) = Replay(EmptyLive, records)
  BY <1>1, AtIs
<1> QED BY <1>5, <1>7, <1>8 DEF HiddenNow

(* The admission of an overlay is where it was, whatever is written, as    *)
(* long as the overlay keeps its Action id and no instance is hidden.      *)
LEMMA ClaimKept ==
  ASSUME NEW records \in Seq(Records), NEW l, l = Replay(EmptyLive, records), NEW f,
         ClaimedAt(records, l, f), NEW rec \in Records,
         ApplyRecord(l, rec).over.id = l.over.id, ~(rec.row = "inst" /\ rec.hidden)
  PROVE  /\ ClaimedAt(Append(records, rec), ApplyRecord(l, rec), f)
         /\ At(Append(records, rec), f - 1) = At(records, f - 1)
         /\ Append(records, rec)[f] = records[f]
<1> DEFINE more == Append(records, rec)
           n == Len(records)
           m == ApplyRecord(l, rec)
<1>1. /\ n \in Nat /\ Len(more) = n + 1 /\ \A i \in 1..n : more[i] = records[i]
  BY LenProperties, AppendProperties
<1>2. l \in Lives
  BY EmptyLiveIs, ReplayTyped
<1>3. /\ f \in 1..n /\ IsFirst(records, f, l.over.id)
      /\ ForHidden(records, f) \/ (FreshAfter(records, f, n) /\ ~HiddenNow(l))
  BY DEF ClaimedAt
<1>4. ~HiddenNow(l) => ~Recreated(more, n + 1)
  BY RecreatedHidden
<1>5. ASSUME ~HiddenNow(l) PROVE ~HiddenNow(m)
  <2>1. CASE rec.row = "inst"
    <3>1. rec \in InstRows /\ ~rec.hidden
      BY <2>1, RowKinds
    <3>2. m.inst = rec
      BY <1>2, <3>1, ApplyInst
    <3> QED BY <3>1, <3>2 DEF HiddenNow
  <2>2. CASE rec.row # "inst"
    <3>1. m.inst = NoRow <=> l.inst = NoRow
      BY <1>2, <2>2, InstStays
    <3>2. l.inst # NoRow => m.inst.hidden = l.inst.hidden
      BY <1>2, <2>2, InstStays
    <3> HIDE DEF m
    <3> QED BY <1>5, <3>1, <3>2 DEF HiddenNow
  <2> QED BY <2>1, <2>2
<1>6. f - 1 \in 0..n /\ At(more, f - 1) = At(records, f - 1) /\ more[f] = records[f]
  <2>1. f - 1 \in 0..n
    BY <1>1, <1>3
  <2> QED BY <1>1, <1>3, <2>1, AtAppend
<1>7. m.over.id = l.over.id
  OBVIOUS
<1> HIDE DEF more, m
<1>8. IsFirst(more, f, l.over.id)
  <2>1. \A g \in 1..n : \A id : IsFirst(more, g, id) <=> IsFirst(records, g, id)
    BY <1>1, SameStart
  <2> QED BY <1>3, <2>1
<1>9. ASSUME FreshAfter(records, f, n), ~HiddenNow(l) PROVE FreshAfter(more, f, n + 1)
  <2>1. \A r \in 1..n : Recreated(more, r) <=> Recreated(records, r)
    BY <1>1, SameStart
  <2>2. \A r \in 1..n + 1 : r \in 1..n \/ r = n + 1
    BY <1>1
  <2> QED BY <1>4, <1>9, <2>1, <2>2 DEF FreshAfter
<1>10. ClaimedAt(more, m, f)
  <2>1. f \in 1..Len(more)
    BY <1>1, <1>3
  <2>2. ForHidden(more, f) <=> ForHidden(records, f)
    BY <1>6 DEF ForHidden
  <2>3. ForHidden(more, f) \/ (FreshAfter(more, f, n + 1) /\ ~HiddenNow(m))
    BY <1>3, <1>5, <1>9, <2>2
  <2> QED BY <1>1, <1>7, <1>8, <2>1, <2>3 DEF ClaimedAt
<1> QED BY <1>6, <1>10 DEF more, m

LEMMA FreshMore ==
  ASSUME NEW records \in Seq(Records), Fresh(records), NEW rec \in Records,
         rec.row = "inst" /\ ~rec.hidden /\ rec.id # NoId =>
           \E f \in 1..Len(records) :
             /\ IsFirst(Append(records, rec), f, rec.id)
             /\ \/ ForHidden(Append(records, rec), f)
                \/ FreshAfter(Append(records, rec), f, Len(records) + 1)
  PROVE  Fresh(Append(records, rec))
<1> DEFINE more == Append(records, rec)
           n == Len(records)
<1>1. /\ n \in Nat /\ Len(more) = n + 1 /\ more[n + 1] = rec
      /\ \A i \in 1..n : more[i] = records[i]
  BY LenProperties, AppendProperties
<1>2. rec.row = "inst" /\ ~rec.hidden /\ rec.id # NoId =>
        \E f \in 1..n : /\ IsFirst(more, f, rec.id)
                        /\ ForHidden(more, f) \/ FreshAfter(more, f, n + 1)
  OBVIOUS
<1>5. \A k \in 0..n : At(more, k) = At(records, k)
  BY AtAppend
<1> HIDE DEF more
<1>3. ASSUME NEW i \in 1..Len(more), more[i].row = "inst", ~more[i].hidden, more[i].id # NoId
      PROVE  \E f \in 1..i-1 : /\ IsFirst(more, f, more[i].id)
                               /\ ForHidden(more, f) \/ FreshAfter(more, f, i)
  <2>1. CASE i = n + 1
    <3>1. i - 1 = n /\ more[i] = rec
      BY <1>1, <2>1
    <3> QED BY <1>2, <1>3, <2>1, <3>1
  <2>2. CASE i # n + 1
    <3>1. i \in 1..n /\ more[i] = records[i] /\ i \in 0..n
      BY <1>1, <2>2
    <3>2. PICK f \in 1..i-1 : /\ IsFirst(records, f, records[i].id)
                              /\ ForHidden(records, f) \/ FreshAfter(records, f, i)
      BY <1>3, <3>1 DEF Fresh
    <3>3. f \in 1..n /\ f \in 0..n /\ f - 1 \in 0..n
      BY <1>1, <3>1, <3>2
    <3>4. IsFirst(more, f, more[i].id)
      BY <1>1, <3>1, <3>2, <3>3, SameStart
    <3>5. FreshAfter(records, f, i) <=> FreshAfter(more, f, i)
      BY <1>1, <3>1, <3>3, SameStart
    <3>6. ForHidden(records, f) <=> ForHidden(more, f)
      BY <1>5, <3>3 DEF ForHidden
    <3> QED BY <3>2, <3>4, <3>5, <3>6
  <2> QED BY <2>1, <2>2
<1>4. Fresh(more)
  BY <1>3 DEF Fresh
<1> QED BY <1>4 DEF more

(* What loses to an overlay, or what an overlay loses, it touches.         *)
LEMMA LosersTouched ==
  ASSUME NEW plan, NEW source, NEW patch
  PROVE  DOMAIN Losers(plan, source, patch) \subseteq Touched(patch)
<1> DEFINE won(n) == Wins(plan, source, patch, n)
           lostSource == {n \in Touched(patch) \cap DOMAIN source.props :
                            won(n) /\ (n \in DOMAIN patch.props => patch.props[n] # source.props[n])}
           lostPatch == {n \in DOMAIN patch.props :
                           ~won(n) /\ ~(n \in DOMAIN source.props /\ patch.props[n] = source.props[n])}
           c == Restricted(source.props, lostSource)
           d == Restricted(patch.props, lostPatch)
<1>1. Losers(plan, source, patch) = Beside(c, d)
  BY DEF Losers
<1>2. lostSource \subseteq Touched(patch) /\ lostPatch \subseteq Touched(patch)
  BY DEF Touched
<1> HIDE DEF lostSource, lostPatch
<1>3. DOMAIN c \subseteq Touched(patch) /\ DOMAIN d \subseteq Touched(patch)
  <2>1. DOMAIN c = DOMAIN source.props \cap lostSource /\ DOMAIN d = DOMAIN patch.props \cap lostPatch
    BY RestrictedHas
  <2> QED BY <1>2, <2>1
<1> HIDE DEF c, d
<1>4. DOMAIN Beside(c, d) = DOMAIN c \cup DOMAIN d
  BY BesideIs
<1> QED BY <1>1, <1>3, <1>4

(* An overlay that a descriptor leaves as it was keeps to it.              *)
LEMMA StaysWithin ==
  ASSUME NEW l \in Lives, Sound(l), Shown(l.over), NEW strays, Within(l, strays), NEW next \in Descs,
         Follows(l, next), CarriesOverlay(l, next), MigratedOverlay(l, next) = <<>>
  PROVE  KeepsTo(l.over.patch, next, strays)
<1>1. Versions(l) # {} /\ KeepsTo(l.over.patch, Latest(l), strays)
  BY DEF Within
<1>2. CheckReplacement(Latest(l), next)
  BY <1>1 DEF Follows
<1>3. CASE ~Migrates(next)
  <2>1. next.rename = {} /\ next.drop = {}
    BY <1>3 DEF Migrates
  <2>2. \A n : Mapped(next, n) = n
    BY <2>1, MappedIs DEF Froms
  <2>3. ExpectedDrop(Latest(l), next) = {}
    BY <1>2, <2>1 DEF CheckReplacement
  <2>4. Declared(Latest(l)) \subseteq Declared(next)
    BY <2>2, <2>3 DEF ExpectedDrop
  <2> QED BY <1>1, <2>4 DEF KeepsTo
<1>4. CASE Migrates(next)
  <2>1. CarriedPatch(l.over.patch, next) = l.over.patch
    BY <1>4 DEF MigratedOverlay
  <2>2. Touched(CarriedPatch(l.over.patch, next)) \subseteq Declared(next)
    BY <1>4 DEF CarriesOverlay
  <2> QED BY <2>1, <2>2 DEF KeepsTo, Touched
<1> QED BY <1>3, <1>4

(* What was recorded as lost follows the renames that the patch follows.   *)
LEMMA LostFollows ==
  ASSUME NEW patch \in PatchSets, NEW lost, DOMAIN lost \subseteq Touched(patch), NEW desc \in Descs
  PROVE  DOMAIN Renamed(desc, lost) \subseteq Touched(CarriedPatch(patch, desc))
<1>1. /\ CarriedPatch(patch, desc).props = Renamed(desc, patch.props)
      /\ CarriedPatch(patch, desc).cleared = {Mapped(desc, n) : n \in patch.cleared}
  BY CarriedTyped
<1>2. ASSUME NEW m \in DOMAIN Renamed(desc, lost)
      PROVE  m \in Touched(CarriedPatch(patch, desc))
  <2>1. PICK n \in DOMAIN lost : m = Mapped(desc, n)
    BY RenamedHas
  <2>2. CASE n \in DOMAIN patch.props
    <3>1. m \in DOMAIN Renamed(desc, patch.props)
      BY <2>1, <2>2, RenamedHas
    <3> QED BY <1>1, <3>1 DEF Touched
  <2>3. CASE n \in patch.cleared
    BY <1>1, <2>1, <2>3 DEF Touched
  <2> QED BY <2>2, <2>3 DEF Touched
<1> QED BY <1>2

LEMMA LatestIs ==
  ASSUME NEW l \in Lives, Sound(l), Shown(l.schema)
  PROVE  Versions(l) # {} /\ l.schema.desc = Latest(l)
<1>1. l.schema # NoRow
  BY DEF Shown
<1>2. /\ Newest(l) \in Nat
      /\ l.schema = NoRow <=> Newest(l) = 0
      /\ Versions(l) = {} <=> Newest(l) = 0
      /\ Newest(l) > 0 => l.schema.desc = Latest(l)
  BY SoundIs
<1> QED BY <1>1, <1>2

(* A record that is no new descriptor leaves the descriptors alone, and    *)
(* one that is adds itself.                                                *)
LEMMA DescriptorsAfter ==
  ASSUME NEW l \in Lives, Sound(l), NEW rec \in Records,
         rec.row = "schema" => AdmittedAfter(l, rec)
  PROVE  /\ rec.row = "schema" /\ ~rec.hidden =>
              Versions(ApplyRecord(l, rec)) # {} /\ Latest(ApplyRecord(l, rec)) = rec.desc
         /\ ~(rec.row = "schema" /\ ~rec.hidden) =>
              Versions(ApplyRecord(l, rec)) = Versions(l) /\ Latest(ApplyRecord(l, rec)) = Latest(l)
<1> DEFINE m == ApplyRecord(l, rec)
<1>1. ASSUME rec.row = "schema", ~rec.hidden PROVE Versions(m) # {} /\ Latest(m) = rec.desc
  <2>1. Sound(m) /\ Newest(m) = Newest(l) + 1 /\ Latest(m) = rec.desc
    BY <1>1, SoundStep
  <2>2. m \in Lives
    BY ApplyTyped
  <2>3. Newest(l) \in Nat
    BY SoundIs
  <2> HIDE DEF m
  <2>4. Versions(m) = {} <=> Newest(m) = 0
    BY <2>1, <2>2, SoundIs
  <2> QED BY <2>1, <2>3, <2>4
<1>2. ASSUME ~(rec.row = "schema" /\ ~rec.hidden) PROVE Versions(m) = Versions(l) /\ Latest(m) = Latest(l)
  <2>1. m.hist = l.hist
    <3>1. CASE rec.row = "schema"
      BY <1>2, <3>1, SoundStep
    <3>2. CASE rec.row # "schema"
      BY <3>2, RowKinds, ApplyInst, ApplyOver
    <3> QED BY <3>1, <3>2
  <2> HIDE DEF m
  <2> QED BY <2>1 DEF Versions, Latest
<1> QED BY <1>1, <1>2

(* One record, or two, that leave the log fresh and the overlay good.      *)

LEMMA GoodAfter ==
  ASSUME LogInv, OverInv, LogInv', Fresh(log'), OverGood(log', live'),
         \/ committed' = Len(log')
         \/ committed' = committed /\ SubSeq(log', 1, committed) = SubSeq(log, 1, committed)
  PROVE  OverInv'
<1>1. CASE committed' = Len(log')
  <2>1. log' \in Seq(Records) /\ live' = Replay(EmptyLive, log')
    BY DEF LogInv
  <2>2. SubSeq(log', 1, Len(log')) = log'
    BY <2>1, WholePiece
  <2>3. At(log', Len(log')) = live'
    BY <2>1, <2>2 DEF At
  <2>4. OverGood(SubSeq(log', 1, committed'), At(log', committed'))
    BY <1>1, <2>2, <2>3
  <2> QED BY <2>4 DEF OverInv
<1>2. CASE committed' = committed /\ SubSeq(log', 1, committed) = SubSeq(log, 1, committed)
  <2>1. At(log', committed) = At(log, committed)
    BY <1>2 DEF At
  <2>2. OverGood(SubSeq(log', 1, committed'), At(log', committed'))
    BY <1>2, <2>1 DEF OverInv
  <2> QED BY <2>2 DEF OverInv
<1> QED BY <1>1, <1>2

LEMMA GoodOne ==
  ASSUME LogInv, OverInv, NEW a, Wrote(a), Fresh(Append(log, a)),
         OverGood(Append(log, a), ApplyRecord(live, a))
  PROVE  OverInv'
<1>1. /\ a \in Records /\ LogInv' /\ log' = Append(log, a) /\ live' = ApplyRecord(live, a)
      /\ committed' \in {committed, Len(log) + 1}
  BY DEF Wrote
<1>2. log \in Seq(Records) /\ committed \in 0..Len(log) /\ Len(log) \in Nat
  BY LiveIs DEF LogInv
<1>3. Len(log') = Len(log) + 1 /\ SubSeq(log', 1, committed) = SubSeq(log, 1, committed)
  BY <1>1, <1>2, AppendProperties
<1> QED BY <1>1, <1>3, GoodAfter

LEMMA GoodTwo ==
  ASSUME LogInv, OverInv, NEW a, NEW b, WroteBoth(a, b), Fresh(Append(Append(log, a), b)),
         OverGood(Append(Append(log, a), b), ApplyRecord(ApplyRecord(live, a), b))
  PROVE  OverInv'
<1>1. /\ a \in Records /\ b \in Records /\ LogInv'
      /\ log' = Append(Append(log, a), b) /\ live' = ApplyRecord(ApplyRecord(live, a), b)
      /\ committed' \in {committed, Len(log) + 2}
  BY DEF WroteBoth
<1> DEFINE one == Append(log, a)
<1>2. log \in Seq(Records) /\ committed \in 0..Len(log) /\ Len(log) \in Nat
  BY LiveIs DEF LogInv
<1>3. /\ one \in Seq(Records) /\ Len(one) = Len(log) + 1
      /\ SubSeq(one, 1, committed) = SubSeq(log, 1, committed)
  BY <1>1, <1>2, AppendProperties
<1>4. log' = Append(one, b)
  BY <1>1
<1> HIDE DEF one
<1>5. Len(log') = Len(log) + 2 /\ SubSeq(log', 1, committed) = SubSeq(one, 1, committed)
  BY <1>1, <1>2, <1>3, <1>4, AppendProperties
<1> QED BY <1>1, <1>3, <1>5, GoodAfter


LEMMA GoodStays ==
  ASSUME NEW records \in Seq(Records), NEW l \in Lives, Sound(l), l = Replay(EmptyLive, records),
         OverGood(records, l), NEW a \in Records, a.row = "schema" => AdmittedAfter(l, a),
         a.row # "over",
         ~(a.row = "inst" /\ a.hidden),
         a.row = "schema" /\ ~a.hidden /\ Shown(l.over) =>
           \A strays : Within(l, strays) => KeepsTo(l.over.patch, a.desc, strays)
  PROVE  OverGood(Append(records, a), ApplyRecord(l, a))
<1> DEFINE more == Append(records, a)
           m == ApplyRecord(l, a)
<1>1. Len(records) \in Nat /\ Len(more) = Len(records) + 1
  BY LenProperties, AppendProperties
<1>2. m.over = l.over
  BY RowKinds, ApplySchema, ApplyInst
<1>3. CASE Shown(l.over)
  <2>1. PICK f \in 1..Len(records) : ClaimedAt(records, l, f) /\ Bounded(records, l, f)
    BY <1>3 DEF OverGood
  <2>2. ApplyRecord(l, a).over.id = l.over.id
    BY <1>2
  <2>3. /\ ClaimedAt(more, m, f) /\ At(more, f - 1) = At(records, f - 1)
        /\ more[f] = records[f]
    BY <2>1, <2>2, ClaimKept
  <2>4. ASSUME NEW strays, Within(l, strays) PROVE Within(m, strays)
    <3>1. ASSUME a.row = "schema", ~a.hidden PROVE Within(m, strays)
      <4>1. Versions(m) # {} /\ Latest(m) = a.desc
        BY <3>1, DescriptorsAfter
      <4> HIDE DEF m
      <4> QED BY <1>2, <1>3, <2>4, <3>1, <4>1 DEF Within
    <3>2. ASSUME ~(a.row = "schema" /\ ~a.hidden) PROVE Within(m, strays)
      <4>1. Versions(m) = Versions(l) /\ Latest(m) = Latest(l)
        BY <3>2, DescriptorsAfter
      <4> HIDE DEF m
      <4> QED BY <1>2, <2>4, <4>1 DEF Within
    <3> QED BY <3>1, <3>2
  <2>5. DOMAIN l.over.lost \subseteq Touched(l.over.patch)
    BY <1>3 DEF OverGood
  <2>6. f \in 1..Len(more)
    BY <1>1
  <2> HIDE DEF m, more
  <2>8. Bounded(more, m, f)
    BY <2>1, <2>3, <2>4 DEF Bounded
  <2>7. OverGood(more, m)
    BY <1>2, <2>3, <2>5, <2>6, <2>8 DEF OverGood
  <2> QED BY <2>7 DEF m, more
<1>4. CASE ~Shown(l.over)
  <2> HIDE DEF m, more
  <2>1. OverGood(more, m)
    BY <1>2, <1>4 DEF OverGood
  <2> QED BY <2>1 DEF m, more
<1> QED BY <1>3, <1>4

(* A second record that rewrites the overlay.                              *)
LEMMA GoodRewritten ==
  ASSUME NEW records \in Seq(Records), NEW l \in Lives, Sound(l), l = Replay(EmptyLive, records),
         OverGood(records, l), Shown(l.over),
         NEW a \in Records, a.row # "over", ~(a.row = "inst" /\ a.hidden),
         NEW b \in OverRows, b.id = l.over.id, DOMAIN b.lost \subseteq Touched(b.patch),
         \A strays : Within(l, strays) => Within(ApplyRecord(ApplyRecord(l, a), b), strays)
  PROVE  OverGood(Append(Append(records, a), b), ApplyRecord(ApplyRecord(l, a), b))
<1> DEFINE one == Append(records, a)
           k == ApplyRecord(l, a)
           two == Append(one, b)
           m == ApplyRecord(k, b)
<1>1. /\ Len(records) \in Nat /\ one \in Seq(Records) /\ Len(one) = Len(records) + 1
      /\ b \in Records /\ b.row = "over"
  BY LenProperties, AppendProperties, RowKinds DEF Records
<1>2. k.over = l.over /\ k \in Lives /\ k = Replay(EmptyLive, one)
  <2>1. k.over = l.over
    BY RowKinds, ApplySchema, ApplyInst
  <2> QED BY <2>1, ApplyTyped, EmptyLiveIs, ReplayAppend
<1>3. PICK f \in 1..Len(records) : ClaimedAt(records, l, f) /\ Bounded(records, l, f)
  BY DEF OverGood
<1>4. ClaimedAt(one, k, f) /\ At(one, f - 1) = At(records, f - 1) /\ one[f] = records[f]
  <2>1. ApplyRecord(l, a).over.id = l.over.id
    BY <1>2
  <2> QED BY <1>3, <2>1, ClaimKept
<1>5. \A strays : Within(l, strays) => Within(m, strays)
  OBVIOUS
<1> HIDE DEF one, k
<1>6. Len(two) = Len(records) + 2
  BY <1>1, AppendProperties
<1>7. m.over = b
  BY <1>2, ApplyOver
<1>8. ClaimedAt(two, m, f) /\ At(two, f - 1) = At(one, f - 1) /\ two[f] = one[f]
  <2>1. ApplyRecord(k, b).over.id = k.over.id
    BY <1>2, <1>7
  <2> QED BY <1>1, <1>2, <1>4, <2>1, ClaimKept
<1> HIDE DEF two, m
<1>9. OverGood(two, m)
  <2>1. f \in 1..Len(two)
    BY <1>1, <1>6
  <2>2. Bounded(two, m, f)
    BY <1>3, <1>4, <1>5, <1>8 DEF Bounded
  <2> QED BY <1>7, <1>8, <2>1, <2>2 DEF OverGood
<1> QED BY <1>9 DEF one, k, two, m

(* A generation that carries the Action id of the overlay is fresh.        *)
LEMMA FreshByOverlay ==
  ASSUME NEW records \in Seq(Records), Fresh(records), NEW l, l = Replay(EmptyLive, records),
         OverGood(records, l), NEW a \in InstRows, ~a.hidden,
         a.id # NoId => Shown(l.over) /\ a.id = l.over.id
  PROVE  Fresh(Append(records, a))
<1>1. a \in Records /\ a.row = "inst" /\ l \in Lives
  BY RowKinds, EmptyLiveIs, ReplayTyped DEF Records
<1>2. ASSUME a.id # NoId
      PROVE  \E f \in 1..Len(records) :
               /\ IsFirst(Append(records, a), f, a.id)
               /\ \/ ForHidden(Append(records, a), f)
                  \/ FreshAfter(Append(records, a), f, Len(records) + 1)
  <2>1. Shown(l.over) /\ a.id = l.over.id
    BY <1>2
  <2>2. PICK f \in 1..Len(records) : ClaimedAt(records, l, f)
    BY <2>1 DEF OverGood
  <2>3. ApplyRecord(l, a).over.id = l.over.id
    BY <1>1, ApplyInst
  <2>4. ClaimedAt(Append(records, a), ApplyRecord(l, a), f)
    BY <1>1, <2>2, <2>3, ClaimKept
  <2>5. Len(Append(records, a)) = Len(records) + 1
    BY <1>1, AppendProperties
  <2>6. /\ IsFirst(Append(records, a), f, a.id)
        /\ \/ ForHidden(Append(records, a), f)
           \/ FreshAfter(Append(records, a), f, Len(records) + 1)
    BY <2>1, <2>3, <2>4, <2>5 DEF ClaimedAt
  <2> QED BY <2>6
<1>3. a.row = "inst" /\ ~a.hidden /\ a.id # NoId =>
        \E f \in 1..Len(records) :
          /\ IsFirst(Append(records, a), f, a.id)
          /\ \/ ForHidden(Append(records, a), f)
             \/ FreshAfter(Append(records, a), f, Len(records) + 1)
  BY <1>2
<1> QED BY <1>1, <1>3, FreshMore

LEMMA FreshByOther ==
  ASSUME NEW records \in Seq(Records), Fresh(records), NEW a \in Records,
         a.row # "inst" \/ a.hidden
  PROVE  Fresh(Append(records, a))
<1>1. ~(a.row = "inst" /\ ~a.hidden)
  OBVIOUS
<1> QED BY <1>1, FreshMore

(* What is set beside another record's properties keeps its own.           *)
LEMMA BesideKeeps ==
  ASSUME NEW f, NEW g
  PROVE  DOMAIN f \subseteq DOMAIN Beside(f, g)
BY DEF Beside

LEMMA RestrictedKeeps ==
  ASSUME NEW f, NEW names, DOMAIN f \subseteq names
  PROVE  DOMAIN f \subseteq DOMAIN Restricted(f, names)
BY DEF Restricted

(* Without a plan every property of the patch wins.                        *)
LEMMA MergedKeepsPatch ==
  ASSUME NEW source, NEW patch
  PROVE  DOMAIN patch.props \subseteq DOMAIN Merged(Implicit, source, patch)
<1> DEFINE won == {n \in Touched(patch) : Wins(Implicit, source, patch, n)}
<1>1. won = Touched(patch)
  <2>1. \A n : Wins(Implicit, source, patch, n)
    BY DEF Wins, Implicit
  <2> QED BY <2>1
<1>2. DOMAIN patch.props \subseteq won
  BY <1>1 DEF Touched
<1> HIDE DEF won
<1>3. DOMAIN patch.props \subseteq DOMAIN Restricted(patch.props, won)
  BY <1>2, RestrictedKeeps
<1>4. Merged(Implicit, source, patch) =
        Beside(Restricted(patch.props, won),
               Restricted(source.props, Names \ (won \cap patch.cleared)))
  BY DEF Merged, won
<1>5. DOMAIN Restricted(patch.props, won) \subseteq DOMAIN Merged(Implicit, source, patch)
  BY <1>4, BesideKeeps
<1> QED BY <1>3, <1>5

LEMMA RematerializedHas ==
  ASSUME NEW l, NEW patch
  PROVE  DOMAIN patch.props \subseteq DOMAIN Rematerialized(l, patch)
BY MergedKeepsPatch DEF Rematerialized

(* The overlay that is admitted is good from its first record on.          *)
LEMMA GoodAdmitted ==
  ASSUME LogInv, NEW patch, NEW id \in Ids, NEW a \in OverRows,
         ~Claimed(id), a.id = id, a.patch = patch, a.lost = <<>>
  PROVE  OverGood(Append(log, a), ApplyRecord(live, a))
<1> DEFINE more == Append(log, a)
           m == ApplyRecord(live, a)
           n == Len(log)
<1>1. /\ log \in Seq(Records) /\ n \in Nat /\ live \in Lives /\ Sound(live)
      /\ live = At(log, n) /\ a \in Records /\ a.row = "over"
  BY LiveIs, RowKinds DEF LogInv, Records
<1>2. Len(more) = n + 1 /\ more[n + 1] = a /\ \A i \in 1..n : more[i] = log[i]
  BY <1>1, AppendProperties
<1>3. m.over = a /\ m.inst = live.inst
  BY <1>1, ApplyOver
<1>4. Versions(m) = Versions(live) /\ Latest(m) = Latest(live)
  BY <1>1, DescriptorsAfter
<1>5. At(more, n) = live
  <2>1. n \in 0..n
    BY <1>1
  <2> QED BY <1>1, <2>1, AtAppend
<1> HIDE DEF more, m
<1>6. IsFirst(more, n + 1, id)
  <2>1. \A j \in 1..n : log[j].row = "over" => log[j].id # id
    BY DEF Claimed
  <2>2. \A j \in 1..(n + 1) - 1 : j \in 1..n
    BY <1>1
  <2> QED BY <1>1, <1>2, <2>1, <2>2 DEF IsFirst
<1>7. FreshAfter(more, n + 1, n + 1)
  <2>1. ~Recreated(more, n + 1)
    BY <1>1, <1>2 DEF Recreated
  <2>2. \A r \in 1..n + 1 : r < n + 1 \/ r = n + 1
    BY <1>1
  <2> QED BY <2>1, <2>2 DEF FreshAfter
<1>8. (n + 1) - 1 = n /\ n + 1 \in 1..Len(more)
  BY <1>1, <1>2
<1>9. ClaimedAt(more, m, n + 1)
  <2>1. ForHidden(more, n + 1) <=> HiddenNow(live)
    BY <1>5, <1>8 DEF ForHidden
  <2>2. HiddenNow(m) <=> HiddenNow(live)
    BY <1>3 DEF HiddenNow
  <2> QED BY <1>2, <1>3, <1>6, <1>7, <1>8, <2>1, <2>2 DEF ClaimedAt
<1>10. ASSUME Accepts(live, patch) PROVE Within(m, Strays(live, patch))
  <2>1. Shown(live.schema) /\ Valid(live.schema.desc, Rematerialized(live, patch))
    BY <1>10 DEF Accepts, Admits
  <2>2. Versions(live) # {} /\ live.schema.desc = Latest(live)
    BY <1>1, <2>1, LatestIs
  <2>3. DOMAIN patch.props \subseteq Declared(live.schema.desc)
    BY <2>1, RematerializedHas DEF Valid
  <2>4. KeepsTo(patch, live.schema.desc, Strays(live, patch))
    BY <2>3 DEF KeepsTo, Touched, Strays
  <2> QED BY <1>3, <1>4, <2>2, <2>4 DEF Within
<1>11. DOMAIN m.over.lost \subseteq Touched(m.over.patch)
  BY <1>3, EmptyProps
<1>12. Bounded(more, m, n + 1)
  BY <1>2, <1>5, <1>8, <1>10 DEF Bounded
<1>13. OverGood(more, m)
  BY <1>8, <1>9, <1>11, <1>12 DEF OverGood
<1> QED BY <1>13 DEF more, m

LEMMA NoneGood ==
  ASSUME NEW records, NEW l, ~Shown(l.over)
  PROVE  OverGood(records, l)
BY DEF OverGood

LEMMA LogIs ==
  ASSUME LogInv, OverInv
  PROVE  /\ log \in Seq(Records) /\ live \in Lives /\ Sound(live)
         /\ live = Replay(EmptyLive, log) /\ Fresh(log) /\ OverGood(log, live)
BY LiveIs DEF LogInv, OverInv

LEMMA OneMore ==
  ASSUME LogInv, NEW a \in Records
  PROVE  /\ Append(log, a) \in Seq(Records) /\ ApplyRecord(live, a) \in Lives
         /\ ApplyRecord(live, a) = Replay(EmptyLive, Append(log, a))
<1>1. log \in Seq(Records) /\ live \in Lives /\ live = Replay(EmptyLive, log)
  BY LiveIs DEF LogInv
<1> QED BY <1>1, AppendProperties, ApplyTyped, EmptyLiveIs, ReplayAppend

LEMMA PutSchemaGood ==
  ASSUME LogInv, OverInv, PutSchema
  PROVE  OverInv'
<1>0. /\ log \in Seq(Records) /\ live \in Lives /\ Sound(live)
      /\ live = Replay(EmptyLive, log) /\ Fresh(log) /\ OverGood(log, live)
  BY LogIs
<1>1. PICK next \in Descs :
        /\ Follows(live, next)
        /\ Versions(live) # {} => CarriesOverlay(live, next)
        /\ \/ MigratedOverlay(live, next) = <<>> /\ Wrote(Schema(FALSE, next))
           \/ \E b \in OverRows : /\ MigratedOverlay(live, next) = <<b>> /\ Versions(live) # {}
                                  /\ WroteBoth(Schema(FALSE, next), b)
  BY PutSchemaWrites DEF PutSchemaWrote
<1> DEFINE a == Schema(FALSE, next)
<1>2. a \in Records /\ a.row = "schema" /\ ~a.hidden /\ a.desc = next
  BY SchemaTyped DEF Records, Schema
<1> HIDE DEF a
<1>3. AdmittedAfter(live, a)
  BY <1>1, <1>2 DEF AdmittedAfter
<1>4. Fresh(Append(log, a))
  BY <1>0, <1>2, FreshByOther
<1>5. CASE MigratedOverlay(live, next) = <<>> /\ Wrote(a)
  <2>1. ASSUME Shown(live.over), NEW strays, Within(live, strays)
        PROVE  KeepsTo(live.over.patch, next, strays)
    <3>1. Versions(live) # {}
      BY <2>1 DEF Within
    <3> QED BY <1>0, <1>1, <1>5, <2>1, <3>1, StaysWithin
  <2>2. OverGood(Append(log, a), ApplyRecord(live, a))
    BY <1>0, <1>2, <1>3, <2>1, GoodStays
  <2> QED BY <1>4, <1>5, <2>2, GoodOne
<1>6. ASSUME NEW b \in OverRows, MigratedOverlay(live, next) = <<b>>, Versions(live) # {},
             WroteBoth(a, b)
      PROVE  OverInv'
  <2>1. MigratedOverlay(live, next) # <<>> /\ Migrates(next)
    BY <1>6 DEF MigratedOverlay
  <2>2. /\ Shown(live.over) /\ live.over \in OverRows
        /\ \E rec \in OverRows :
             /\ MigratedOverlay(live, next) = <<rec>> /\ ~rec.hidden /\ rec.id = live.over.id
             /\ rec.patch = CarriedPatch(live.over.patch, next)
             /\ rec.lost = Renamed(next, live.over.lost)
    BY <1>0, <2>1, MigratedTyped
  <2>3. PICK rec \in OverRows :
          /\ MigratedOverlay(live, next) = <<rec>> /\ rec.id = live.over.id
          /\ rec.patch = CarriedPatch(live.over.patch, next)
          /\ rec.lost = Renamed(next, live.over.lost)
    BY <2>2
  <2>4. b = rec
    BY <1>6, <2>3
  <2>5. DOMAIN b.lost \subseteq Touched(b.patch)
    <3>1. live.over.patch \in PatchSets
      BY <2>2 DEF OverRows
    <3>2. DOMAIN live.over.lost \subseteq Touched(live.over.patch)
      BY <1>0, <2>2 DEF OverGood
    <3> QED BY <2>3, <2>4, <3>1, <3>2, LostFollows
  <2>6. Touched(b.patch) \subseteq Declared(next)
    BY <1>1, <1>6, <2>1, <2>2, <2>3, <2>4 DEF CarriesOverlay
  <2> DEFINE k == ApplyRecord(live, a)
             m == ApplyRecord(k, b)
  <2>7. k \in Lives /\ Sound(k) /\ Versions(k) # {} /\ Latest(k) = next
    BY <1>0, <1>2, <1>3, ApplyTyped, SoundStep, DescriptorsAfter
  <2>8. b \in Records /\ b.row = "over"
    BY RowKinds DEF Records
  <2> HIDE DEF k
  <2>9. m.over = b /\ Versions(m) = Versions(k) /\ Latest(m) = Latest(k)
    BY <2>7, <2>8, ApplyOver, DescriptorsAfter
  <2> HIDE DEF m
  <2>10. \A strays : Within(m, strays)
    BY <2>6, <2>7, <2>9 DEF Within, KeepsTo, Touched
  <2>11. \A strays : Within(live, strays) => Within(ApplyRecord(ApplyRecord(live, a), b), strays)
    BY <2>10 DEF m, k
  <2>12. OverGood(Append(Append(log, a), b), ApplyRecord(ApplyRecord(live, a), b))
    BY <1>0, <1>2, <2>2, <2>3, <2>4, <2>5, <2>11, GoodRewritten
  <2>13. Fresh(Append(Append(log, a), b))
    BY <1>2, <1>4, <2>8, OneMore, FreshByOther
  <2> QED BY <1>6, <2>12, <2>13, GoodTwo
<1> QED BY <1>1, <1>5, <1>6 DEF a

LEMMA SourceWriteGood ==
  ASSUME LogInv, OverInv, SourceWrite
  PROVE  OverInv'
<1>0. /\ log \in Seq(Records) /\ live \in Lives /\ Sound(live)
      /\ live = Replay(EmptyLive, log) /\ Fresh(log) /\ OverGood(log, live)
  BY LogIs
<1>1. PICK source \in Sources, a \in InstRows :
        /\ ~a.hidden /\ a.id = IF MeetsOverlay(live) THEN live.over.id ELSE NoId
        /\ \/ Wrote(a)
           \/ \E b \in OverRows :
                /\ WroteBoth(a, b) /\ MeetsOverlay(live)
                /\ b.patch = live.over.patch /\ b.id = live.over.id
                /\ b.lost = Losers(PlanOf(live), source, live.over.patch)
  BY SourceWriteWrites DEF SourceWriteWrote
<1>2. a \in Records /\ a.row = "inst"
  BY RowKinds DEF Records
<1>3. a.id # NoId => Shown(live.over) /\ a.id = live.over.id
  BY <1>1 DEF MeetsOverlay
<1>4. Fresh(Append(log, a))
  BY <1>0, <1>1, <1>3, FreshByOverlay
<1>5. CASE Wrote(a)
  <2>1. OverGood(Append(log, a), ApplyRecord(live, a))
    BY <1>0, <1>1, <1>2, GoodStays
  <2> QED BY <1>4, <1>5, <2>1, GoodOne
<1>6. ASSUME NEW b \in OverRows, WroteBoth(a, b), MeetsOverlay(live),
             b.patch = live.over.patch, b.id = live.over.id,
             b.lost = Losers(PlanOf(live), source, live.over.patch)
      PROVE  OverInv'
  <2>1. Shown(live.over)
    BY <1>6 DEF MeetsOverlay
  <2>2. DOMAIN b.lost \subseteq Touched(b.patch)
    BY <1>6, LosersTouched
  <2>3. b \in Records /\ b.row = "over"
    BY RowKinds DEF Records
  <2> DEFINE k == ApplyRecord(live, a)
             m == ApplyRecord(k, b)
  <2>4. k \in Lives /\ k.hist = live.hist
    BY <1>0, ApplyInst
  <2> HIDE DEF k
  <2>5. m.over = b /\ m.hist = k.hist
    BY <2>4, ApplyOver
  <2> HIDE DEF m
  <2>6. \A strays : Within(live, strays) => Within(m, strays)
    BY <1>6, <2>4, <2>5 DEF Within, Versions, Latest
  <2>7. \A strays : Within(live, strays) => Within(ApplyRecord(ApplyRecord(live, a), b), strays)
    BY <2>6 DEF m, k
  <2>8. OverGood(Append(Append(log, a), b), ApplyRecord(ApplyRecord(live, a), b))
    BY <1>0, <1>1, <1>2, <1>6, <2>1, <2>2, <2>7, GoodRewritten
  <2>9. Fresh(Append(Append(log, a), b))
    BY <1>2, <1>4, <2>3, OneMore, FreshByOther
  <2> QED BY <1>6, <2>8, <2>9, GoodTwo
<1> QED BY <1>1, <1>5, <1>6

LEMMA HideInstanceGood ==
  ASSUME LogInv, OverInv, HideInstance
  PROVE  OverInv'
<1>0. log \in Seq(Records) /\ live \in Lives /\ Fresh(log)
  BY LogIs
<1>1. PICK a \in InstRows :
        /\ a.hidden
        /\ \/ ~Shown(live.over) /\ Wrote(a)
           \/ \E b \in OverRows : b.hidden /\ WroteBoth(a, b)
  BY HideInstanceWrites DEF HideInstanceWrote
<1>2. a \in Records
  BY DEF Records
<1>3. Fresh(Append(log, a))
  BY <1>0, <1>1, <1>2, FreshByOther
<1>4. ApplyRecord(live, a).over = live.over /\ ApplyRecord(live, a) \in Lives
  BY <1>0, ApplyInst
<1>5. CASE ~Shown(live.over) /\ Wrote(a)
  <2>1. OverGood(Append(log, a), ApplyRecord(live, a))
    BY <1>4, <1>5, NoneGood
  <2> QED BY <1>3, <1>5, <2>1, GoodOne
<1>6. ASSUME NEW b \in OverRows, b.hidden, WroteBoth(a, b)
      PROVE  OverInv'
  <2>1. b \in Records /\ b.row = "over"
    BY RowKinds DEF Records
  <2>2. ApplyRecord(ApplyRecord(live, a), b).over = b
    BY <1>4, ApplyOver
  <2>3. ~Shown(ApplyRecord(ApplyRecord(live, a), b).over)
    BY <1>6, <2>2 DEF Shown
  <2>4. OverGood(Append(Append(log, a), b), ApplyRecord(ApplyRecord(live, a), b))
    BY <2>3, NoneGood
  <2>5. Fresh(Append(Append(log, a), b))
    BY <1>2, <1>3, <2>1, OneMore, FreshByOther
  <2> QED BY <1>6, <2>4, <2>5, GoodTwo
<1> QED BY <1>1, <1>5, <1>6

LEMMA ApplyOverlayGood ==
  ASSUME LogInv, OverInv, ApplyOverlay
  PROVE  OverInv'
<1>0. /\ log \in Seq(Records) /\ live \in Lives /\ Sound(live)
      /\ live = Replay(EmptyLive, log) /\ Fresh(log) /\ OverGood(log, live)
  BY LogIs
<1>1. PICK patch \in Patches, id \in Ids, a \in OverRows :
        /\ ~Claimed(id)
        /\ ~a.hidden /\ a.id = id /\ a.patch = patch /\ a.lost = <<>>
        /\ \/ Wrote(a)
           \/ \E b \in InstRows : ~b.hidden /\ b.id = id /\ WroteBoth(a, b)
  BY ApplyOverlayWrites DEF ApplyOverlayWrote
<1>2. a \in Records /\ a.row = "over" /\ a # NoRow
  BY RowKinds DEF Records
<1>3. Fresh(Append(log, a))
  BY <1>0, <1>2, FreshByOther
<1>4. OverGood(Append(log, a), ApplyRecord(live, a))
  BY <1>1, GoodAdmitted
<1>5. CASE Wrote(a)
  BY <1>3, <1>4, <1>5, GoodOne
<1>6. ASSUME NEW b \in InstRows, ~b.hidden, b.id = id, WroteBoth(a, b)
      PROVE  OverInv'
  <2> DEFINE one == Append(log, a)
             k == ApplyRecord(live, a)
  <2>1. one \in Seq(Records) /\ k \in Lives /\ k = Replay(EmptyLive, one)
    BY <1>2, OneMore
  <2>2. k.over = a /\ Sound(k)
    <3>1. AdmittedAfter(live, a)
      BY OverAdmitted
    <3> QED BY <1>0, <1>2, <3>1, ApplyOver, SoundStep
  <2>3. Fresh(one) /\ OverGood(one, k)
    BY <1>3, <1>4
  <2> HIDE DEF one, k
  <2>4. b.id # NoId => Shown(k.over) /\ b.id = k.over.id
    BY <1>1, <1>2, <1>6, <2>2 DEF Shown
  <2>5. Fresh(Append(one, b))
    BY <1>6, <2>1, <2>3, <2>4, FreshByOverlay
  <2>6. b \in Records /\ b.row = "inst"
    BY RowKinds DEF Records
  <2>7. OverGood(Append(one, b), ApplyRecord(k, b))
    BY <1>6, <2>1, <2>2, <2>3, <2>6, GoodStays
  <2> QED BY <1>6, <2>5, <2>7, GoodTwo DEF one, k
<1> QED BY <1>1, <1>5, <1>6

LEMMA OtherWritesGood ==
  ASSUME LogInv, OverInv, HideSchema \/ Replace
  PROVE  OverInv'
<1>0. /\ log \in Seq(Records) /\ live \in Lives /\ Sound(live)
      /\ live = Replay(EmptyLive, log) /\ Fresh(log) /\ OverGood(log, live)
  BY LogIs
<1>1. CASE HideSchema
  <2>1. PICK a \in SchemaRows : a.hidden /\ a.desc = live.schema.desc /\ Wrote(a)
    BY <1>1, HideSchemaWrites DEF HideSchemaWrote
  <2>2. a \in Records /\ a.row = "schema" /\ AdmittedAfter(live, a)
    BY <1>1, <2>1, RowKinds, HideSchemaWrites DEF Records, AdmittedAfter, HideSchemaWrote
  <2>3. Fresh(Append(log, a)) /\ OverGood(Append(log, a), ApplyRecord(live, a))
    BY <1>0, <2>1, <2>2, FreshByOther, GoodStays
  <2> QED BY <2>1, <2>3, GoodOne
<1>2. CASE Replace
  <2>1. PICK a \in InstRows : ~a.hidden /\ a.id = NoId /\ Wrote(a)
    BY <1>2, ReplaceWrites DEF ReplaceWrote
  <2>2. a \in Records /\ a.row = "inst"
    BY RowKinds DEF Records
  <2>3. Fresh(Append(log, a))
    BY <1>0, <2>1, FreshByOverlay
  <2>4. OverGood(Append(log, a), ApplyRecord(live, a))
    BY <1>0, <2>1, <2>2, GoodStays
  <2> QED BY <2>1, <2>3, <2>4, GoodOne
<1> QED BY <1>1, <1>2

LEMMA CrashGood ==
  ASSUME LogInv, OverInv, Crash
  PROVE  OverInv'
<1> DEFINE less == SubSeq(log, 1, committed)
<1>1. /\ LogInv' /\ committed' = committed /\ log' = less
      /\ Len(log') = committed /\ live' = At(log, committed)
  BY CrashKeeps
<1>2. log \in Seq(Records) /\ committed \in 0..Len(log) /\ Len(log) \in Nat
  BY LiveIs DEF LogInv
<1>3. committed \in 0..committed
  BY <1>2
<1>4. /\ less \in Seq(Records) /\ Len(less) = committed
      /\ \A i \in 1..committed : less[i] = log[i]
  BY <1>2, <1>3, AtPrefix
<1>5. OverGood(less, At(log, committed))
  BY DEF OverInv
<1>7. \A k \in 0..committed : At(less, k) = At(log, k)
  BY <1>2, AtPrefix
<1> HIDE DEF less
<1>6. Fresh(less)
  <2>1. ASSUME NEW i \in 1..committed, less[i].row = "inst", ~less[i].hidden, less[i].id # NoId
        PROVE  \E f \in 1..i-1 : /\ IsFirst(less, f, less[i].id)
                                 /\ ForHidden(less, f) \/ FreshAfter(less, f, i)
    <3>1. i \in 1..Len(log) /\ log[i] = less[i]
      BY <1>2, <1>4
    <3>2. PICK f \in 1..i-1 : /\ IsFirst(log, f, log[i].id)
                              /\ ForHidden(log, f) \/ FreshAfter(log, f, i)
      BY <2>1, <3>1 DEF OverInv, Fresh
    <3>3. committed \in Nat /\ f \in 1..committed /\ f \in 0..committed /\ i \in 0..committed
      BY <1>2
    <3>4. IsFirst(less, f, log[i].id) <=> IsFirst(log, f, log[i].id)
      <4>1. \A g \in 1..committed : \A id : IsFirst(less, g, id) <=> IsFirst(log, g, id)
        BY <1>4, <3>3, SameStart
      <4> QED BY <3>3, <4>1
    <3>5. FreshAfter(less, f, i) <=> FreshAfter(log, f, i)
      BY <1>4, <3>3, SameStart
    <3>6. f - 1 \in 0..committed
      BY <3>3
    <3>7. ForHidden(less, f) <=> ForHidden(log, f)
      BY <1>7, <3>6 DEF ForHidden
    <3> QED BY <3>1, <3>2, <3>4, <3>5, <3>7
  <2> QED BY <1>4, <2>1 DEF Fresh
<1>8. Fresh(log') /\ OverGood(log', live') /\ committed' = Len(log')
  BY <1>1, <1>5, <1>6
<1> QED BY <1>1, <1>8, GoodAfter

LEMMA CommitGood ==
  ASSUME LogInv, OverInv, Commit
  PROVE  OverInv'
<1>1. committed' = Len(log') /\ log' = log /\ live' = live
  BY DEF Commit
<1>2. Fresh(log') /\ OverGood(log', live')
  BY <1>1 DEF OverInv
<1> QED BY <1>1, <1>2, CommitKeeps, GoodAfter

LEMMA OverInvInit == Init => OverInv
<1> SUFFICES ASSUME Init PROVE OverInv
  OBVIOUS
<1>1. log = <<>> /\ committed = 0 /\ live = EmptyLive
  BY DEF Init
<1>2. 1..Len(<<>>) = {}
  OBVIOUS
<1>3. Fresh(log)
  BY <1>1, <1>2 DEF Fresh
<1>4. ~Shown(EmptyLive.over)
  BY EmptyLiveIs DEF Shown
<1>5. At(log, committed) = EmptyLive
  <2>1. <<>> \in Seq(Records) /\ 0 \in 0..Len(<<>>)
    OBVIOUS
  <2>2. At(<<>>, 0) = EmptyLive
    BY <2>1, AtIs
  <2> QED BY <1>1, <2>2
<1> QED BY <1>1, <1>3, <1>4, <1>5, NoneGood DEF OverInv

LEMMA OverInvNext == LogInv /\ OverInv /\ [Next]_vars => OverInv'
<1> SUFFICES ASSUME LogInv, OverInv, [Next]_vars PROVE OverInv'
  OBVIOUS
<1>1. CASE PutSchema
  BY <1>1, PutSchemaGood
<1>2. CASE HideSchema \/ Replace
  BY <1>2, OtherWritesGood
<1>3. CASE SourceWrite
  BY <1>3, SourceWriteGood
<1>4. CASE HideInstance
  BY <1>4, HideInstanceGood
<1>5. CASE ApplyOverlay
  BY <1>5, ApplyOverlayGood
<1>6. CASE Commit
  BY <1>6, CommitGood
<1>7. CASE Crash
  BY <1>7, CrashGood
<1>8. CASE UNCHANGED vars
  <2>1. log' = log /\ committed' = committed /\ live' = live
    BY <1>8 DEF vars
  <2> QED BY <2>1 DEF OverInv
<1> QED BY <1>1, <1>2, <1>3, <1>4, <1>5, <1>6, <1>7, <1>8 DEF Next

(* The place that FirstOf picks.                                           *)
LEMMA FirstIs ==
  ASSUME log \in Seq(Records), NEW f \in 1..Len(log), NEW id, IsFirst(log, f, id)
  PROVE  FirstOf(id) = f /\ FoundBy(id) = At(log, f - 1)
<1> DEFINE first(j) == /\ log[j].row = "over" /\ log[j].id = id
                       /\ \A k \in 1..j-1 : log[k].row = "over" => log[k].id # id
<1>1. Len(log) \in Nat
  BY LenProperties
<1>2. first(f)
  BY DEF IsFirst
<1>3. \A j \in 1..Len(log) : first(j) => j = f
  <2>1. \A j \in 1..Len(log) : first(j) => ~(j \in 1..f-1) /\ ~(f \in 1..j-1)
    BY <1>2
  <2> HIDE DEF first
  <2> QED BY <1>1, <2>1
<1>4. FirstOf(id) = f
  <2>1. FirstOf(id) = CHOOSE j \in 1..Len(log) : first(j)
    BY DEF FirstOf
  <2> HIDE DEF first
  <2> QED BY <1>2, <1>3, <2>1
<1> QED BY <1>4 DEF FoundBy, At, First

LEMMA OverlayKeeps == LogInv /\ OverInv => OverlayFollows
<1> SUFFICES ASSUME LogInv, OverInv PROVE OverlayFollows
  OBVIOUS
<1>0. /\ log \in Seq(Records) /\ live \in Lives /\ Sound(live) /\ Len(log) \in Nat
      /\ Fresh(log) /\ OverGood(log, live)
  BY LogIs, LiveIs
<1>1. ASSUME Shown(live.schema), Shown(live.over),
             Accepts(FoundBy(live.over.id), log[FirstOf(live.over.id)].patch)
      PROVE  /\ DOMAIN live.over.patch.props \subseteq Declared(live.schema.desc)
             /\ Touched(live.over.patch) \cup DOMAIN live.over.lost
                  \subseteq Declared(live.schema.desc)
                    \cup Strays(FoundBy(live.over.id), log[FirstOf(live.over.id)].patch)
  <2>1. PICK f \in 1..Len(log) : ClaimedAt(log, live, f) /\ Bounded(log, live, f)
    BY <1>0, <1>1 DEF OverGood
  <2>2. FirstOf(live.over.id) = f /\ FoundBy(live.over.id) = At(log, f - 1)
    BY <1>0, <2>1, FirstIs DEF ClaimedAt
  <2>3. Within(live, Strays(At(log, f - 1), log[f].patch))
    BY <1>1, <2>1, <2>2 DEF Bounded
  <2>4. DOMAIN live.over.lost \subseteq Touched(live.over.patch)
    BY <1>0, <1>1 DEF OverGood
  <2>5. live.schema.desc = Latest(live)
    BY <1>0, <1>1, LatestIs
  <2> QED BY <2>2, <2>3, <2>4, <2>5 DEF Within, KeepsTo
<1>2. ASSUME NEW i \in 1..Len(log), Brings(i), ~HiddenNow(FoundBy(log[i].id)),
             NEW r \in 1..i, Recreates(r)
      PROVE  FirstOf(log[i].id) > r
  <2>1. PICK f \in 1..i-1 : /\ IsFirst(log, f, log[i].id)
                            /\ ForHidden(log, f) \/ FreshAfter(log, f, i)
    BY <1>0, <1>2 DEF Fresh, Brings
  <2>2. f \in 1..Len(log)
    BY <1>0
  <2>3. FirstOf(log[i].id) = f /\ FoundBy(log[i].id) = At(log, f - 1)
    BY <1>0, <2>1, <2>2, FirstIs
  <2>4. FreshAfter(log, f, i)
    BY <1>2, <2>1, <2>3 DEF ForHidden
  <2>5. Recreated(log, r)
    BY <1>2 DEF Recreates, Recreated
  <2>6. r < f
    BY <2>4, <2>5 DEF FreshAfter
  <2> QED BY <1>0, <2>3, <2>6
<1>3. OverlayFits
  BY <1>1 DEF OverlayFits
<1>4. RecreateIsFresh
  BY <1>2 DEF RecreateIsFresh
<1> QED BY <1>3, <1>4 DEF OverlayFollows

(* An overlay whose call was answered under a visible descriptor overrides *)
(* declared properties only, and touches or records as lost besides them   *)
(* at most the names it cleared undeclared, through any replacements,      *)
(* hides and restores of the descriptor; and a generation never carries an *)
(* overlay admitted before the instance was last recreated, unless the     *)
(* instance was hidden at the admission.  Refused calls, whose overlay the *)
(* code has appended, are among the steps.                                 *)
THEOREM OverlayHolds == Spec => []OverlayFollows
<1>1. Init => LogInv /\ OverInv
  BY LogInvInit, OverInvInit
<1>2. LogInv /\ OverInv /\ [Next]_vars => (LogInv /\ OverInv)'
  BY LogInvNext, OverInvNext
<1>3. LogInv /\ OverInv => OverlayFollows
  BY OverlayKeeps
<1> QED BY <1>1, <1>2, <1>3, PTL DEF Spec
=============================================================================
