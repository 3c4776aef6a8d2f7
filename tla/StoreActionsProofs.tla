------------------------- MODULE StoreActionsProofs -------------------------
(***************************************************************************)
(* Proofs about StoreActions, for every set of identities, Action ids,     *)
(* bodies, offers, batches, feeds and change sets, and a log of any        *)
(* length: what a replay rebuilds, by induction over the log, and from it  *)
(* that the maps are the log after every step.                             *)
(***************************************************************************)
EXTENDS StoreActions, FoldLemmas

LiveMaps ==
  {rows \in [Keys \cup {Marker} -> Rows \cup {Absent}] :
     \A k \in Keys : rows[k] # Absent => rows[k].body \in Bodies}

Catalogs == [Ids -> Claimed \cup {Absent}]

(* The row of a record.                                                    *)
RowOf(rec) == [gen |-> rec.gen, body |-> rec.body, hidden |-> rec.hidden, id |-> rec.id]

USE IdentityAssumption, EditAssumption, AbsentAssumption

-----------------------------------------------------------------------------
(* What the folds do with one record more.                                 *)

LEMMA RecordParts ==
  ASSUME NEW rec \in Records
  PROVE  /\ rec.key \in Keys \cup {Marker} /\ rec.body \in Bodies \cup {Marker}
         /\ rec.hidden \in BOOLEAN /\ rec.id \in Ids \cup {NoId}
         /\ rec.gen \in Nat /\ rec.members \in Edits
         /\ rec.key \in Keys => rec.body \in Bodies
         /\ rec.key = Marker => rec.id \in Ids /\ rec.body = Marker /\ ~rec.hidden
<1>1. NoEdits \in Edits
  BY DEF NoEdits, Edits
<1> QED BY <1>1 DEF Records

LEMMA RowTyped ==
  ASSUME NEW rec \in Records
  PROVE  RowOf(rec) \in Rows /\ RowOf(rec) # Absent
BY RecordParts DEF RowOf, Rows

LEMMA InstallIs ==
  ASSUME NEW rows \in LiveMaps, NEW rec \in Records
  PROVE  /\ Install(rows, rec) \in LiveMaps
         /\ \A k \in Keys \cup {Marker} :
              Install(rows, rec)[k] = IF k = rec.key THEN RowOf(rec) ELSE rows[k]
<1>1. rec.key \in Keys \cup {Marker} /\ (rec.key \in Keys => RowOf(rec).body \in Bodies)
  BY RecordParts DEF RowOf
<1>2. RowOf(rec) \in Rows
  BY RowTyped
<1>3. Install(rows, rec) = [rows EXCEPT ![rec.key] = RowOf(rec)]
  BY DEF Install, RowOf
<1> QED BY <1>1, <1>2, <1>3 DEF LiveMaps

LEMMA NothingLiveTyped == NothingLive \in LiveMaps
BY DEF NothingLive, LiveMaps

InstallStep == [p \in LiveMaps \X Records |-> Install(p[1], p[2])]

LEMMA InstallFolds ==
  ASSUME NEW rows \in LiveMaps, NEW seq \in Seq(Records)
  PROVE  FoldLeft(Install, rows, seq) = Folded(rows, InstallStep, seq)
<1> DEFINE N == Len(seq)
           F(g) == g = [s \in SUBSET (1..N) |->
                          IF s = {} THEN rows ELSE Install(g[s \ {Max(s)}], seq[Max(s)])]
<1>1. N \in Nat /\ DOMAIN seq = 1..N /\ \A i \in 1..N : seq[i] \in Records
  BY LenProperties, ElementOfSeq
<1>2. InstallStep \in [LiveMaps \X Records -> LiveMaps]
  BY InstallIs DEF InstallStep
<1>3. \A a \in LiveMaps, r \in Records : InstallStep[<<a, r>>] = Install(a, r)
  BY DEF InstallStep
<1>4. ASSUME NEW g, FoldsTo(g, rows, InstallStep, seq, N) PROVE F(g)
  <2>1. \A s \in SUBSET (1..N) :
          /\ g[s] \in LiveMaps
          /\ s # {} => Max(s) \in 1..N /\ s \ {Max(s)} \in SUBSET (1..N)
    BY <1>2, <1>4, FoldsToTyped
  <2>2. \A s \in SUBSET (1..N) : s # {} =>
          InstallStep[<<g[s \ {Max(s)}], seq[Max(s)]>>] = Install(g[s \ {Max(s)}], seq[Max(s)])
    BY <1>1, <1>3, <2>1
  <2> HIDE DEF N
  <2> QED BY <1>4, <2>2 DEF FoldsTo
<1>5. ASSUME NEW g, F(g) PROVE FoldsTo(g, rows, InstallStep, seq, N)
  <2>1. g = [s \in SUBSET (1..N) |-> g[s]] /\ g[{}] = rows
    BY <1>5
  <2>2. \A s \in SUBSET (1..N) :
          s # {} /\ g[s \ {Max(s)}] \in LiveMaps /\ seq[Max(s)] \in Records
            => g[s] = InstallStep[<<g[s \ {Max(s)}], seq[Max(s)]>>]
    BY <1>3, <1>5
  <2> QED BY <1>2, <2>1, <2>2, FoldsToFrom
<1> DEFINE h == CHOOSE g : F(g)
<1>6. F(h)
  <2>1. \E g : F(g)
    BY <1>1, <1>4, FoldsExist
  <2> HIDE DEF F
  <2> QED BY <2>1
<1>7. FoldLeft(Install, rows, seq) = h[1..N]
  BY <1>1 DEF FoldLeft, MapThenFoldSet
<1> HIDE DEF F, h
<1>8. Folded(rows, InstallStep, seq) = h[1..N]
  BY <1>1, <1>5, <1>6, FoldedIs
<1> QED BY <1>7, <1>8

LEMMA FoldInstallAppend ==
  ASSUME NEW rows \in LiveMaps, NEW seq \in Seq(Records), NEW rec \in Records
  PROVE  /\ FoldLeft(Install, rows, seq) \in LiveMaps
         /\ FoldLeft(Install, rows, Append(seq, rec)) = Install(FoldLeft(Install, rows, seq), rec)
<1>1. InstallStep \in [LiveMaps \X Records -> LiveMaps]
  BY InstallIs DEF InstallStep
<1> DEFINE a == Folded(rows, InstallStep, seq)
<1>2. a \in LiveMaps
  BY <1>1, FoldedTyped
<1>3. FoldLeft(Install, rows, seq) = a
  BY InstallFolds
<1>4. Append(seq, rec) \in Seq(Records)
  BY AppendProperties
<1>5. FoldLeft(Install, rows, Append(seq, rec)) = Folded(rows, InstallStep, Append(seq, rec))
  BY <1>4, InstallFolds
<1>6. Folded(rows, InstallStep, Append(seq, rec)) = InstallStep[<<a, rec>>]
  BY FoldedAppend
<1> HIDE DEF a
<1>7. InstallStep[<<a, rec>>] = Install(a, rec)
  BY <1>2 DEF InstallStep
<1> QED BY <1>2, <1>3, <1>5, <1>6, <1>7

(* The rows over those of base: an identity of the sequence has the row of *)
(* its last record there, another one the row it had.                      *)
RowsOver(rows, base, seq) ==
  \A k \in Keys \cup {Marker} :
    \/ rows[k] = base[k] /\ \A i \in 1..Len(seq) : seq[i].key # k
    \/ \E i \in 1..Len(seq) :
         /\ seq[i].key = k /\ rows[k] = RowOf(seq[i])
         /\ \A j \in i + 1..Len(seq) : seq[j].key # k

RowsAre(rows, seq) == RowsOver(rows, NothingLive, seq)

LEMMA RowsAppend ==
  ASSUME NEW rows \in LiveMaps, NEW base, NEW seq \in Seq(Records), NEW rec \in Records,
         RowsOver(rows, base, seq)
  PROVE  RowsOver(Install(rows, rec), base, Append(seq, rec))
<1> DEFINE t == Append(seq, rec)
           n == Len(seq)
<1>1. n \in Nat /\ Len(t) = n + 1 /\ t[n + 1] = rec /\ \A i \in 1..n : t[i] = seq[i]
  BY AppendProperties, LenProperties
<1> HIDE DEF t
<1> SUFFICES ASSUME NEW k \in Keys \cup {Marker}
    PROVE  \/ Install(rows, rec)[k] = base[k] /\ \A i \in 1..Len(t) : t[i].key # k
           \/ \E i \in 1..Len(t) :
                /\ t[i].key = k /\ Install(rows, rec)[k] = RowOf(t[i])
                /\ \A j \in i + 1..Len(t) : t[j].key # k
  BY DEF RowsOver, t
<1>2. CASE rec.key = k
  <2>1. Install(rows, rec)[k] = RowOf(t[n + 1]) /\ t[n + 1].key = k
    BY <1>1, <1>2, InstallIs
  <2> QED BY <1>1, <2>1
<1>3. CASE rec.key # k
  <2>1. Install(rows, rec)[k] = rows[k]
    BY <1>3, InstallIs
  <2>2. CASE rows[k] = base[k] /\ \A i \in 1..n : seq[i].key # k
    BY <1>1, <1>3, <2>1, <2>2
  <2>3. ASSUME NEW i \in 1..n, seq[i].key = k, rows[k] = RowOf(seq[i]),
               \A j \in i + 1..n : seq[j].key # k
        PROVE  \E m \in 1..Len(t) :
                 /\ t[m].key = k /\ Install(rows, rec)[k] = RowOf(t[m])
                 /\ \A j \in m + 1..Len(t) : t[j].key # k
    <3>1. i \in 1..Len(t) /\ t[i] = seq[i]
      BY <1>1
    <3>2. ASSUME NEW j \in i + 1..Len(t) PROVE t[j].key # k
      BY <1>1, <1>3, <2>3
    <3> QED BY <2>1, <2>3, <3>1, <3>2
  <2> QED BY <2>2, <2>3 DEF RowsOver
<1> QED BY <1>2, <1>3

LEMMA FoldInstallRows ==
  ASSUME NEW base \in LiveMaps, NEW seq \in Seq(Records)
  PROVE  /\ FoldLeft(Install, base, seq) \in LiveMaps
         /\ RowsOver(FoldLeft(Install, base, seq), base, seq)
<1> DEFINE F(s) == FoldLeft(Install, base, s)
           T == {s \in Seq(Records) : F(s) \in LiveMaps /\ RowsOver(F(s), base, s)}
<1>1. <<>> \in T
  <2>1. <<>> \in Seq(Records) /\ 1..Len(<<>>) = {}
    OBVIOUS
  <2>2. F(<<>>) = base
    BY <2>1, InstallFolds, FoldedEmpty
  <2> HIDE DEF F
  <2>3. RowsOver(base, base, <<>>)
    BY <2>1 DEF RowsOver
  <2> QED BY <2>1, <2>2, <2>3
<1>2. ASSUME NEW s \in T, NEW e \in Records PROVE Append(s, e) \in T
  <2>1. F(Append(s, e)) = Install(F(s), e)
    BY FoldInstallAppend
  <2>2. Append(s, e) \in Seq(Records)
    BY AppendProperties
  <2> HIDE DEF F
  <2> QED BY <2>1, <2>2, RowsAppend, InstallIs
<1> HIDE DEF T
<1>3. T = Seq(Records)
  <2>1. T \subseteq Seq(Records) BY DEF T
  <2> QED BY <1>1, <1>2, <2>1, SeqSetInduction
<1> QED BY <1>3 DEF T

(* A replay gives each identity the row of its last record.                *)
LEMMA LiveOfRows ==
  ASSUME NEW seq \in Seq(Records)
  PROVE  LiveOf(seq) \in LiveMaps /\ RowsAre(LiveOf(seq), seq)
BY FoldInstallRows, NothingLiveTyped DEF LiveOf, RowsAre

-----------------------------------------------------------------------------
(* The Action catalog.                                                     *)

LEMMA ClaimTyped ==
  ASSUME NEW rec \in Records
  PROVE  ClaimOf(rec) \in Claimed /\ ClaimOf(rec) # Absent
<1>1. ClaimOf(rec) \in Claimed
  BY RecordParts DEF ClaimOf, Claimed
<1> QED BY <1>1

LEMMA ExtendKeeps ==
  ASSUME NEW claim \in Claimed, NEW rec \in Records
  PROVE  /\ Extend(claim, rec) \in Claimed
         /\ Extend(claim, rec).key = claim.key
         /\ Extend(claim, rec).body = claim.body
         /\ Extend(claim, rec).hidden = claim.hidden
<1>1. CASE claim.key # Marker
  BY <1>1 DEF Extend, Claimed
<1>2. CASE claim.key = Marker /\ ~(~rec.hidden /\ rec.key \in DOMAIN claim.members
                                     /\ claim.members[rec.key] = Put)
  BY <1>2 DEF Extend
<1>3. CASE claim.key = Marker /\ ~rec.hidden /\ rec.key \in DOMAIN claim.members
             /\ claim.members[rec.key] = Put
  <2>1. PICK D \in SUBSET Keys : claim.members \in [D -> Bodies \cup {Hide, Put}]
    BY DEF Claimed, Edits
  <2>2. rec.key \in D /\ rec.body \in Bodies
    BY <1>3, <2>1, RecordParts
  <2> DEFINE m == [claim.members EXCEPT ![rec.key] = rec.body]
  <2>3. m \in [D -> Bodies \cup {Hide, Put}]
    BY <2>1, <2>2
  <2>4. m \in Edits
    BY <2>3 DEF Edits
  <2>5. Extend(claim, rec) = [claim EXCEPT !.members = m]
    BY <1>3 DEF Extend
  <2> HIDE DEF m
  <2> QED BY <2>4, <2>5 DEF Claimed
<1> QED BY <1>1, <1>2, <1>3

LEMMA RememberIs ==
  ASSUME NEW catalog \in Catalogs, NEW rec \in Records
  PROVE  /\ Remember(catalog, rec) \in Catalogs
         /\ \A id \in Ids :
              Remember(catalog, rec)[id] =
                IF id # rec.id THEN catalog[id]
                ELSE IF catalog[id] = Absent THEN ClaimOf(rec) ELSE Extend(catalog[id], rec)
<1>1. CASE rec.id = NoId
  BY <1>1 DEF Remember
<1>2. CASE rec.id # NoId
  <2>1. rec.id \in Ids
    BY <1>2, RecordParts
  <2> DEFINE c == IF catalog[rec.id] = Absent THEN ClaimOf(rec) ELSE Extend(catalog[rec.id], rec)
  <2>2. c \in Claimed
    BY <2>1, ClaimTyped, ExtendKeeps DEF Catalogs
  <2>3. Remember(catalog, rec) = [catalog EXCEPT ![rec.id] = c]
    BY <1>2 DEF Remember
  <2> QED BY <2>1, <2>2, <2>3 DEF Catalogs
<1> QED BY <1>1, <1>2

RememberStep == [p \in Catalogs \X Records |-> Remember(p[1], p[2])]

LEMMA RememberFolds ==
  ASSUME NEW catalog \in Catalogs, NEW seq \in Seq(Records)
  PROVE  FoldLeft(Remember, catalog, seq) = Folded(catalog, RememberStep, seq)
<1> DEFINE N == Len(seq)
           F(g) == g = [s \in SUBSET (1..N) |->
                          IF s = {} THEN catalog ELSE Remember(g[s \ {Max(s)}], seq[Max(s)])]
<1>1. N \in Nat /\ DOMAIN seq = 1..N /\ \A i \in 1..N : seq[i] \in Records
  BY LenProperties, ElementOfSeq
<1>2. RememberStep \in [Catalogs \X Records -> Catalogs]
  BY RememberIs DEF RememberStep
<1>3. \A a \in Catalogs, r \in Records : RememberStep[<<a, r>>] = Remember(a, r)
  BY DEF RememberStep
<1>4. ASSUME NEW g, FoldsTo(g, catalog, RememberStep, seq, N) PROVE F(g)
  <2>1. \A s \in SUBSET (1..N) :
          /\ g[s] \in Catalogs
          /\ s # {} => Max(s) \in 1..N /\ s \ {Max(s)} \in SUBSET (1..N)
    BY <1>2, <1>4, FoldsToTyped
  <2>2. \A s \in SUBSET (1..N) : s # {} =>
          RememberStep[<<g[s \ {Max(s)}], seq[Max(s)]>>] = Remember(g[s \ {Max(s)}], seq[Max(s)])
    BY <1>1, <1>3, <2>1
  <2> HIDE DEF N
  <2> QED BY <1>4, <2>2 DEF FoldsTo
<1>5. ASSUME NEW g, F(g) PROVE FoldsTo(g, catalog, RememberStep, seq, N)
  <2>1. g = [s \in SUBSET (1..N) |-> g[s]] /\ g[{}] = catalog
    BY <1>5
  <2>2. \A s \in SUBSET (1..N) :
          s # {} /\ g[s \ {Max(s)}] \in Catalogs /\ seq[Max(s)] \in Records
            => g[s] = RememberStep[<<g[s \ {Max(s)}], seq[Max(s)]>>]
    BY <1>3, <1>5
  <2> QED BY <1>2, <2>1, <2>2, FoldsToFrom
<1> DEFINE h == CHOOSE g : F(g)
<1>6. F(h)
  <2>1. \E g : F(g)
    BY <1>1, <1>4, FoldsExist
  <2> HIDE DEF F
  <2> QED BY <2>1
<1>7. FoldLeft(Remember, catalog, seq) = h[1..N]
  BY <1>1 DEF FoldLeft, MapThenFoldSet
<1> HIDE DEF F, h
<1>8. Folded(catalog, RememberStep, seq) = h[1..N]
  BY <1>1, <1>5, <1>6, FoldedIs
<1> QED BY <1>7, <1>8

LEMMA NothingClaimedTyped == NothingClaimed \in Catalogs
BY DEF NothingClaimed, Catalogs

LEMMA ClaimsOfEmpty == ClaimsOf(<<>>) = NothingClaimed
<1>1. <<>> \in Seq(Records)
  OBVIOUS
<1> QED BY <1>1, RememberFolds, NothingClaimedTyped, FoldedEmpty DEF ClaimsOf

LEMMA ClaimsOfAppend ==
  ASSUME NEW seq \in Seq(Records), NEW rec \in Records
  PROVE  /\ ClaimsOf(seq) \in Catalogs
         /\ ClaimsOf(Append(seq, rec)) = Remember(ClaimsOf(seq), rec)
<1>1. RememberStep \in [Catalogs \X Records -> Catalogs]
  BY RememberIs DEF RememberStep
<1> DEFINE a == Folded(NothingClaimed, RememberStep, seq)
<1>2. a \in Catalogs
  BY <1>1, FoldedTyped, NothingClaimedTyped
<1>3. ClaimsOf(seq) = a
  BY RememberFolds, NothingClaimedTyped DEF ClaimsOf
<1>4. Append(seq, rec) \in Seq(Records)
  BY AppendProperties
<1>5. ClaimsOf(Append(seq, rec)) = Folded(NothingClaimed, RememberStep, Append(seq, rec))
  BY <1>4, RememberFolds, NothingClaimedTyped DEF ClaimsOf
<1>6. Folded(NothingClaimed, RememberStep, Append(seq, rec)) = RememberStep[<<a, rec>>]
  BY FoldedAppend
<1> HIDE DEF a
<1>7. RememberStep[<<a, rec>>] = Remember(a, rec)
  BY <1>2 DEF RememberStep
<1> QED BY <1>2, <1>3, <1>5, <1>6, <1>7

(* A claim for each id of the sequence, with what its first record says.   *)
Knows(catalog, seq) ==
  \A id \in Ids :
    \/ catalog[id] = Absent /\ \A i \in 1..Len(seq) : seq[i].id # id
    \/ \E i \in 1..Len(seq) :
         /\ seq[i].id = id /\ \A j \in 1..i - 1 : seq[j].id # id
         /\ catalog[id] # Absent
         /\ catalog[id].key = seq[i].key
         /\ catalog[id].body = seq[i].body
         /\ catalog[id].hidden = seq[i].hidden

LEMMA KnowsAppend ==
  ASSUME NEW catalog \in Catalogs, NEW seq \in Seq(Records), NEW rec \in Records,
         Knows(catalog, seq)
  PROVE  Knows(Remember(catalog, rec), Append(seq, rec))
<1> DEFINE t == Append(seq, rec)
           n == Len(seq)
           c == Remember(catalog, rec)
<1>1. n \in Nat /\ Len(t) = n + 1 /\ t[n + 1] = rec /\ \A i \in 1..n : t[i] = seq[i]
  BY AppendProperties, LenProperties
<1>2. \A id \in Ids :
        c[id] = IF id # rec.id THEN catalog[id]
                ELSE IF catalog[id] = Absent THEN ClaimOf(rec) ELSE Extend(catalog[id], rec)
  BY RememberIs
<1> HIDE DEF t, c
<1> SUFFICES ASSUME NEW id \in Ids
    PROVE  \/ c[id] = Absent /\ \A i \in 1..Len(t) : t[i].id # id
           \/ \E i \in 1..Len(t) :
                /\ t[i].id = id /\ \A j \in 1..i - 1 : t[j].id # id
                /\ c[id] # Absent
                /\ c[id].key = t[i].key /\ c[id].body = t[i].body /\ c[id].hidden = t[i].hidden
  BY DEF Knows, t, c
<1>3. CASE catalog[id] = Absent /\ \A i \in 1..n : seq[i].id # id
  <2>1. CASE rec.id = id
    <3>1. c[id] = ClaimOf(rec) /\ c[id] # Absent
      BY <1>2, <1>3, <2>1, ClaimTyped
    <3>2. c[id].key = rec.key /\ c[id].body = rec.body /\ c[id].hidden = rec.hidden
      BY <3>1 DEF ClaimOf
    <3>3. n + 1 \in 1..Len(t) /\ t[n + 1].id = id /\ \A j \in 1..(n + 1) - 1 : t[j].id # id
      BY <1>1, <1>3, <2>1
    <3> QED BY <1>1, <3>1, <3>2, <3>3
  <2>2. CASE rec.id # id
    BY <1>1, <1>2, <1>3, <2>2
  <2> QED BY <2>1, <2>2
<1>4. ASSUME NEW i \in 1..n, seq[i].id = id, \A j \in 1..i - 1 : seq[j].id # id,
             catalog[id] # Absent, catalog[id].key = seq[i].key,
             catalog[id].body = seq[i].body, catalog[id].hidden = seq[i].hidden
      PROVE  \E m \in 1..Len(t) :
               /\ t[m].id = id /\ \A j \in 1..m - 1 : t[j].id # id
               /\ c[id] # Absent
               /\ c[id].key = t[m].key /\ c[id].body = t[m].body /\ c[id].hidden = t[m].hidden
  <2>1. catalog[id] \in Claimed
    BY <1>4 DEF Catalogs
  <2>2. /\ c[id] # Absent /\ c[id].key = catalog[id].key
        /\ c[id].body = catalog[id].body /\ c[id].hidden = catalog[id].hidden
    <3>1. CASE id = rec.id
      <4>1. c[id] = Extend(catalog[id], rec)
        BY <1>2, <1>4, <3>1
      <4> DEFINE claim == catalog[id]
                 e == Extend(claim, rec)
      <4>2. /\ e \in Claimed /\ e.key = claim.key /\ e.body = claim.body
            /\ e.hidden = claim.hidden
        <5>1. claim \in Claimed
          BY <2>1
        <5> HIDE DEF claim
        <5> QED BY <5>1, ExtendKeeps
      <4> HIDE DEF e
      <4>3. c[id] = e /\ e # Absent
        BY <4>1, <4>2 DEF e
      <4> QED BY <4>2, <4>3
    <3>2. CASE id # rec.id
      BY <1>2, <1>4, <3>2
    <3> QED BY <3>1, <3>2
  <2>3. i \in 1..Len(t) /\ t[i] = seq[i] /\ \A j \in 1..i - 1 : t[j] = seq[j]
    BY <1>1
  <2> QED BY <1>4, <2>2, <2>3
<1> QED BY <1>3, <1>4 DEF Knows

(* A replay knows the ids of what it read.                                 *)
LEMMA ClaimsOfKnows ==
  ASSUME NEW seq \in Seq(Records)
  PROVE  ClaimsOf(seq) \in Catalogs /\ Knows(ClaimsOf(seq), seq)
<1> DEFINE T == {s \in Seq(Records) : ClaimsOf(s) \in Catalogs /\ Knows(ClaimsOf(s), s)}
<1>1. <<>> \in T
  <2>1. Knows(NothingClaimed, <<>>)
    BY DEF Knows, NothingClaimed
  <2> QED BY <2>1, ClaimsOfEmpty, NothingClaimedTyped
<1>2. ASSUME NEW s \in T, NEW e \in Records PROVE Append(s, e) \in T
  <2>1. ClaimsOf(Append(s, e)) = Remember(ClaimsOf(s), e)
    BY ClaimsOfAppend
  <2>2. Append(s, e) \in Seq(Records)
    BY AppendProperties
  <2> QED BY <2>1, <2>2, KnowsAppend, RememberIs
<1> HIDE DEF T
<1>3. T = Seq(Records)
  <2>1. T \subseteq Seq(Records) BY DEF T
  <2> QED BY <1>1, <1>2, <2>1, SeqSetInduction
<1> QED BY <1>3 DEF T
-----------------------------------------------------------------------------
(* What the calls are given and what they make of it.                      *)

(* A record a call inside atomically has not written yet.                  *)
Pendings ==
  [key : Keys, body : Bodies \cup {Hide}, hidden : BOOLEAN, id : Ids \cup {NoId},
   gen : {0}, members : {NoEdits}]
    \cup [key : {Marker}, body : {Marker}, hidden : {FALSE}, id : Ids, gen : Nat, members : Edits]

NextGen(key) == IF live[key] = Absent THEN 1 ELSE live[key].gen + 1

LEMMA RecordTyped ==
  ASSUME NEW key \in Keys, NEW body \in Bodies, NEW hidden \in BOOLEAN,
         NEW id \in Ids \cup {NoId}
  PROVE  Record(key, body, hidden, id) \in Offers
BY DEF Record, Offers

LEMMA AssignGenIs ==
  ASSUME NEW rec \in Offers, live \in LiveMaps
  PROVE  /\ AssignGen(rec) \in Records
         /\ AssignGen(rec).key = rec.key /\ rec.key \in Keys
         /\ AssignGen(rec).body = rec.body /\ AssignGen(rec).hidden = rec.hidden
         /\ AssignGen(rec).id = rec.id /\ AssignGen(rec).gen = NextGen(rec.key)
<1>1. rec.key \in Keys
  BY DEF Offers
<1>2. NextGen(rec.key) \in Nat
  <2>1. live[rec.key] \in Rows \cup {Absent}
    BY <1>1 DEF LiveMaps
  <2> QED BY <2>1 DEF NextGen, Rows
<1>3. AssignGen(rec) = [rec EXCEPT !.gen = NextGen(rec.key)]
  BY DEF AssignGen, NextGen
<1> QED BY <1>1, <1>2, <1>3 DEF Offers, Records

LEMMA ResolvedIs ==
  ASSUME NEW next \in Pendings, live \in LiveMaps,
         next.key # Marker /\ next.body = Hide => live[next.key] # Absent
  PROVE  /\ Resolved(next) \in Records
         /\ Resolved(next).key = next.key /\ Resolved(next).id = next.id
         /\ Resolved(next).hidden = next.hidden /\ Resolved(next).members = next.members
         /\ next.key \in Keys => Resolved(next).gen = NextGen(next.key)
<1>1. CASE next.key = Marker
  BY <1>1 DEF Resolved, Pendings, Records
<1>2. CASE next.key # Marker
  <2> DEFINE r == IF next.body = Hide THEN [next EXCEPT !.body = live[next.key].body] ELSE next
  <2>1. /\ next.key \in Keys /\ next.body \in Bodies \cup {Hide} /\ next.hidden \in BOOLEAN
        /\ next.id \in Ids \cup {NoId} /\ next.gen = 0 /\ next.members = NoEdits
        /\ next = [key |-> next.key, body |-> next.body, hidden |-> next.hidden,
                    id |-> next.id, gen |-> 0, members |-> NoEdits]
    BY <1>2 DEF Pendings
  <2>2. next.body = Hide => live[next.key].body \in Bodies
    BY <1>2, <2>1 DEF LiveMaps
  <2>3. /\ r \in Offers /\ r.key = next.key /\ r.id = next.id /\ r.hidden = next.hidden
        /\ r.members = next.members
    <3>1. CASE next.body = Hide
      <4>1. r = [key |-> next.key, body |-> live[next.key].body, hidden |-> next.hidden,
                 id |-> next.id, gen |-> 0, members |-> NoEdits]
        BY <2>1, <3>1
      <4> QED BY <2>1, <2>2, <3>1, <4>1 DEF Offers
    <3>2. CASE next.body # Hide
      <4>1. r = next
        BY <3>2
      <4> HIDE DEF r
      <4> QED BY <2>1, <3>2, <4>1 DEF Offers
    <3> QED BY <3>1, <3>2
  <2>4. Resolved(next) = AssignGen(r)
    BY <1>2 DEF Resolved
  <2> HIDE DEF r
  <2>5. AssignGen(r).members = r.members
    BY <2>3 DEF AssignGen, Offers
  <2> QED BY <2>1, <2>3, <2>4, <2>5, AssignGenIs
<1> QED BY <1>1, <1>2

LEMMA OffersPend == Offers \subseteq Pendings
BY DEF Offers, Pendings

-----------------------------------------------------------------------------
(* fold_last_wins: the identities in the order they first appear, and the  *)
(* last record of each.                                                    *)

Snapshots == UNION {[D -> Offers] : D \in SUBSET Keys}

LastWinsFolds == [order : Seq(Keys), chosen : Snapshots]

LastWins(fold, rec) ==
  [order |-> IF rec.key \in DOMAIN fold.chosen THEN fold.order ELSE Append(fold.order, rec.key),
   chosen |-> [k \in DOMAIN fold.chosen \cup {rec.key} |->
                 IF k = rec.key THEN rec ELSE fold.chosen[k]]]

LastWinsStep == [p \in LastWinsFolds \X Offers |-> LastWins(p[1], p[2])]

NoFold == [order |-> <<>>, chosen |-> [k \in {} |-> Absent]]

LEMMA LastWinsTyped ==
  ASSUME NEW fold \in LastWinsFolds, NEW rec \in Offers
  PROVE  /\ LastWins(fold, rec) \in LastWinsFolds
         /\ DOMAIN LastWins(fold, rec).chosen = DOMAIN fold.chosen \cup {rec.key}
         /\ \A k \in DOMAIN LastWins(fold, rec).chosen :
              LastWins(fold, rec).chosen[k] = IF k = rec.key THEN rec ELSE fold.chosen[k]
<1>1. rec.key \in Keys /\ fold.order \in Seq(Keys)
  BY DEF Offers, LastWinsFolds
<1>2. PICK D \in SUBSET Keys : fold.chosen \in [D -> Offers]
  BY DEF LastWinsFolds, Snapshots
<1> DEFINE c == [k \in DOMAIN fold.chosen \cup {rec.key} |->
                  IF k = rec.key THEN rec ELSE fold.chosen[k]]
           o == IF rec.key \in DOMAIN fold.chosen THEN fold.order ELSE Append(fold.order, rec.key)
<1>3. c = [k \in {rec.key} \cup D |-> IF k = rec.key THEN rec ELSE fold.chosen[k]]
  BY <1>2
<1>4. c \in [{rec.key} \cup D -> Offers]
  BY <1>2, <1>3
<1>5. c \in Snapshots
  BY <1>1, <1>2, <1>4 DEF Snapshots
<1>6. o \in Seq(Keys)
  BY <1>1, AppendProperties
<1>7. LastWins(fold, rec) = [order |-> o, chosen |-> c]
  BY DEF LastWins
<1>8. DOMAIN fold.chosen = D
  BY <1>2
<1> HIDE DEF o, c
<1>9. LastWins(fold, rec).chosen = c /\ LastWins(fold, rec) \in LastWinsFolds
  BY <1>5, <1>6, <1>7 DEF LastWinsFolds
<1> QED BY <1>3, <1>8, <1>9

LEMMA NoFoldTyped == NoFold \in LastWinsFolds
<1>1. [k \in {} |-> Absent] \in [{} -> Offers]
  OBVIOUS
<1>2. [k \in {} |-> Absent] \in Snapshots
  BY <1>1 DEF Snapshots
<1>3. <<>> \in Seq(Keys)
  OBVIOUS
<1> QED BY <1>2, <1>3 DEF NoFold, LastWinsFolds

LEMMA LastWinsFold ==
  ASSUME NEW seq \in Seq(Offers)
  PROVE  FoldLastWins(seq) = Folded(NoFold, LastWinsStep, seq)
<1> DEFINE N == Len(seq)
           F(g) == g = [s \in SUBSET (1..N) |->
                          IF s = {} THEN NoFold ELSE LastWins(g[s \ {Max(s)}], seq[Max(s)])]
<1>1. N \in Nat /\ DOMAIN seq = 1..N /\ \A i \in 1..N : seq[i] \in Offers
  BY LenProperties, ElementOfSeq
<1>2. LastWinsStep \in [LastWinsFolds \X Offers -> LastWinsFolds]
  BY LastWinsTyped DEF LastWinsStep
<1>3. \A a \in LastWinsFolds, r \in Offers : LastWinsStep[<<a, r>>] = LastWins(a, r)
  BY DEF LastWinsStep
<1>4. ASSUME NEW g, FoldsTo(g, NoFold, LastWinsStep, seq, N) PROVE F(g)
  <2>1. \A s \in SUBSET (1..N) :
          /\ g[s] \in LastWinsFolds
          /\ s # {} => Max(s) \in 1..N /\ s \ {Max(s)} \in SUBSET (1..N)
    BY <1>2, <1>4, FoldsToTyped, NoFoldTyped
  <2>2. \A s \in SUBSET (1..N) : s # {} =>
          LastWinsStep[<<g[s \ {Max(s)}], seq[Max(s)]>>] = LastWins(g[s \ {Max(s)}], seq[Max(s)])
    BY <1>1, <1>3, <2>1
  <2> HIDE DEF N
  <2> QED BY <1>4, <2>2 DEF FoldsTo
<1>5. ASSUME NEW g, F(g) PROVE FoldsTo(g, NoFold, LastWinsStep, seq, N)
  <2>1. g = [s \in SUBSET (1..N) |-> g[s]] /\ g[{}] = NoFold
    BY <1>5
  <2>2. \A s \in SUBSET (1..N) :
          s # {} /\ g[s \ {Max(s)}] \in LastWinsFolds /\ seq[Max(s)] \in Offers
            => g[s] = LastWinsStep[<<g[s \ {Max(s)}], seq[Max(s)]>>]
    BY <1>3, <1>5
  <2> QED BY <1>2, <2>1, <2>2, FoldsToFrom, NoFoldTyped
<1> DEFINE h == CHOOSE g : F(g)
<1>6. F(h)
  <2>1. \E g : F(g)
    BY <1>1, <1>4, FoldsExist
  <2> HIDE DEF F
  <2> QED BY <2>1
<1>7. FoldLastWins(seq) = h[1..N]
  BY <1>1 DEF FoldLastWins, FoldLeft, MapThenFoldSet, LastWins, NoFold
<1> HIDE DEF F, h
<1>8. Folded(NoFold, LastWinsStep, seq) = h[1..N]
  BY <1>1, <1>5, <1>6, FoldedIs
<1> QED BY <1>7, <1>8


FoldSound(fold) ==
  /\ fold \in LastWinsFolds
  /\ IsFiniteSet(DOMAIN fold.chosen)
  /\ \A k \in DOMAIN fold.chosen : fold.chosen[k].key = k
  /\ \A i \in 1..Len(fold.order) : fold.order[i] \in DOMAIN fold.chosen

LEMMA FoldLastWinsSound ==
  ASSUME NEW seq \in Seq(Offers)
  PROVE  FoldSound(FoldLastWins(seq))
<1> DEFINE T == {s \in Seq(Offers) : FoldSound(Folded(NoFold, LastWinsStep, s))}
<1>1. <<>> \in T
  <2>1. FoldSound(NoFold)
    <3>1. NoFold.chosen = [k \in {} |-> Absent] /\ NoFold.order = <<>>
      BY DEF NoFold
    <3>2. DOMAIN NoFold.chosen = {} /\ 1..Len(NoFold.order) = {}
      BY <3>1
    <3>3. IsFiniteSet({})
      BY FS_EmptySet
    <3> QED BY <3>2, <3>3, NoFoldTyped DEF FoldSound
  <2>2. <<>> \in Seq(Offers)
    OBVIOUS
  <2> QED BY <2>1, <2>2, FoldedEmpty
<1>2. ASSUME NEW s \in T, NEW e \in Offers PROVE Append(s, e) \in T
  <2> DEFINE f == Folded(NoFold, LastWinsStep, s)
  <2>1. Folded(NoFold, LastWinsStep, Append(s, e)) = LastWinsStep[<<f, e>>]
    BY FoldedAppend
  <2>2. Append(s, e) \in Seq(Offers)
    BY AppendProperties
  <2>3. FoldSound(f)
    OBVIOUS
  <2> HIDE DEF f
  <2> DEFINE g == LastWins(f, e)
  <2>4. LastWinsStep[<<f, e>>] = g
    BY <2>3 DEF LastWinsStep, FoldSound
  <2>5. /\ g \in LastWinsFolds /\ DOMAIN g.chosen = DOMAIN f.chosen \cup {e.key}
        /\ \A k \in DOMAIN g.chosen : g.chosen[k] = IF k = e.key THEN e ELSE f.chosen[k]
    BY <2>3, LastWinsTyped DEF FoldSound
  <2>6. g.order = IF e.key \in DOMAIN f.chosen THEN f.order ELSE Append(f.order, e.key)
    BY DEF LastWins
  <2>7. f.order \in Seq(Keys) /\ e.key \in Keys
    BY <2>3 DEF FoldSound, LastWinsFolds, Offers
  <2> HIDE DEF g
  <2>8. IsFiniteSet(DOMAIN g.chosen)
    <3>1. IsFiniteSet(DOMAIN f.chosen)
      BY <2>3 DEF FoldSound
    <3>2. IsFiniteSet(DOMAIN f.chosen \cup {e.key})
      BY <3>1, FS_AddElement
    <3> QED BY <2>5, <3>2
  <2>9. \A i \in 1..Len(g.order) : g.order[i] \in DOMAIN g.chosen
    <3>1. CASE e.key \in DOMAIN f.chosen
      BY <2>3, <2>5, <2>6, <3>1 DEF FoldSound
    <3>2. CASE e.key \notin DOMAIN f.chosen
      <4> DEFINE n == Len(f.order)
      <4>1. /\ n \in Nat /\ Len(g.order) = n + 1 /\ g.order[n + 1] = e.key
            /\ \A i \in 1..n : g.order[i] = f.order[i]
        BY <2>6, <2>7, <3>2, AppendProperties, LenProperties
      <4>2. \A i \in 1..n : f.order[i] \in DOMAIN f.chosen
        BY <2>3 DEF FoldSound
      <4> HIDE DEF n
      <4>3. ASSUME NEW i \in 1..(n + 1) PROVE g.order[i] \in DOMAIN g.chosen
        <5>1. CASE i = n + 1
          BY <2>5, <4>1, <5>1
        <5>2. CASE i \in 1..n
          BY <2>5, <4>1, <4>2, <5>2
        <5> QED BY <4>1, <5>1, <5>2
      <4> QED BY <4>1, <4>3
    <3> QED BY <3>1, <3>2
  <2>10. \A k \in DOMAIN g.chosen : g.chosen[k].key = k
    BY <2>3, <2>5 DEF FoldSound
  <2>11. FoldSound(g)
    BY <2>5, <2>8, <2>9, <2>10 DEF FoldSound
  <2> QED BY <2>1, <2>2, <2>4, <2>11
<1> HIDE DEF T
<1>3. T = Seq(Offers)
  <2>1. T \subseteq Seq(Offers) BY DEF T
  <2> QED BY <1>1, <1>2, <2>1, SeqSetInduction
<1> QED BY <1>3, LastWinsFold DEF T

LEMMA SoundChosen ==
  ASSUME NEW fold, FoldSound(fold), NEW k \in DOMAIN fold.chosen
  PROVE  fold.chosen[k] \in Offers /\ fold.chosen[k].key = k /\ k \in Keys
<1>1. PICK D \in SUBSET Keys : fold.chosen \in [D -> Offers]
  BY DEF FoldSound, LastWinsFolds, Snapshots
<1> QED BY <1>1 DEF FoldSound

LEMMA MergeTyped ==
  ASSUME NEW source \in Seq(Offers), NEW edits \in Seq(Offers)
  PROVE  MergeSourceAndEdits(source, edits) \in Seq(Offers)
<1> DEFINE fold == FoldLastWins(source \o edits)
           n == Len(fold.order)
           m == [i \in DOMAIN fold.order |-> fold.chosen[fold.order[i]]]
<1>1. source \o edits \in Seq(Offers)
  BY ConcatProperties
<1>2. FoldSound(fold)
  BY <1>1, FoldLastWinsSound
<1>3. MergeSourceAndEdits(source, edits) = m
  BY DEF MergeSourceAndEdits
<1> HIDE DEF fold
<1>4. fold.order \in Seq(Keys)
  BY <1>2 DEF FoldSound, LastWinsFolds
<1>5. n \in Nat /\ DOMAIN fold.order = 1..n
  BY <1>4, LenProperties
<1>6. \A i \in 1..n : fold.chosen[fold.order[i]] \in Offers
  BY <1>2, SoundChosen DEF FoldSound
<1>7. m \in [1..n -> Offers]
  BY <1>5, <1>6
<1> QED BY <1>3, <1>5, <1>7, SeqDef

(* The diff of two snapshots: one record for each identity that is new,    *)
(* changed or gone.                                                        *)
LEMMA ChangelogIs ==
  ASSUME NEW previous \in Seq(Offers), NEW current \in Seq(Offers)
  PROVE  LET old == FoldSnapshot(previous)
             new == FoldSnapshot(current)
             touched == {k \in Keys : Changed(old, new, k) \/ Gone(old, new, k)}
             changes == SnapshotChangelog(previous, current)
             keys == SetToSeq(touched)
         IN /\ changes \in Seq(Offers)
            /\ DOMAIN changes = DOMAIN keys
            /\ \A i \in DOMAIN changes :
                 /\ changes[i] = IF Gone(old, new, keys[i])
                                 THEN [old[keys[i]] EXCEPT !.hidden = TRUE] ELSE new[keys[i]]
                 /\ changes[i].key = keys[i]
            /\ \A i, j \in DOMAIN changes : changes[i].key = changes[j].key => i = j
            /\ \A k \in touched : \E i \in DOMAIN changes : changes[i].key = k
            /\ \A i \in DOMAIN changes : changes[i].key \in touched
<1> DEFINE old == FoldSnapshot(previous)
           new == FoldSnapshot(current)
           touched == {k \in Keys : Changed(old, new, k) \/ Gone(old, new, k)}
           changes == SnapshotChangelog(previous, current)
           keys == SetToSeq(touched)
           n == Len(keys)
           fp == FoldLastWins(previous)
           fc == FoldLastWins(current)
           E(k) == IF Gone(old, new, k) THEN [old[k] EXCEPT !.hidden = TRUE] ELSE new[k]
<1>1. FoldSound(fp) /\ FoldSound(fc) /\ old = fp.chosen /\ new = fc.chosen
  BY FoldLastWinsSound DEF FoldSnapshot
<1>2. changes = [i \in DOMAIN keys |-> E(keys[i])]
  BY DEF SnapshotChangelog
<1> HIDE DEF fp, fc, old, new, changes
<1>3. \A k \in DOMAIN old : old[k] \in Offers /\ old[k].key = k
  BY <1>1, SoundChosen
<1>4. \A k \in DOMAIN new : new[k] \in Offers /\ new[k].key = k
  BY <1>1, SoundChosen
<1>5. \A k \in touched : (k \in DOMAIN old /\ Gone(old, new, k)) \/ (k \in DOMAIN new /\ ~Gone(old, new, k))
  BY DEF Changed, Gone
<1>6. IsFiniteSet(touched)
  <2>1. IsFiniteSet(DOMAIN old \cup DOMAIN new)
    BY <1>1, FS_Union DEF FoldSound
  <2>2. touched \subseteq DOMAIN old \cup DOMAIN new
    BY <1>5
  <2> QED BY <2>1, <2>2, FS_Subset
<1> HIDE DEF touched
<1>7. /\ keys \in Seq(touched)
      /\ \A i, j \in DOMAIN keys : keys[i] = keys[j] => i = j
      /\ \A x \in touched : \E i \in DOMAIN keys : keys[i] = x
  BY <1>6, SetToSeqLists
<1> HIDE DEF keys
<1>8. n \in Nat /\ DOMAIN keys = 1..n /\ \A i \in 1..n : keys[i] \in touched
  BY <1>7, LenProperties, ElementOfSeq
<1>9. ASSUME NEW k \in touched PROVE E(k) \in Offers /\ E(k).key = k
  <2>1. CASE Gone(old, new, k)
    <3>1. k \in DOMAIN old
      BY <1>5, <2>1
    <3>2. old[k] \in Offers /\ old[k].key = k
      BY <1>3, <3>1
    <3>3. [old[k] EXCEPT !.hidden = TRUE] \in Offers /\ [old[k] EXCEPT !.hidden = TRUE].key = k
      BY <3>2 DEF Offers
    <3> QED BY <2>1, <3>3
  <2>2. CASE ~Gone(old, new, k)
    BY <1>4, <1>5, <2>2
  <2> QED BY <2>1, <2>2
<1>10. \A i \in 1..n : changes[i] = E(keys[i])
  BY <1>2, <1>8
<1> HIDE DEF E
<1>11. \A i \in 1..n : changes[i] \in Offers /\ changes[i].key = keys[i]
  BY <1>8, <1>9, <1>10
<1>12. changes \in [1..n -> Offers]
  BY <1>2, <1>8, <1>11
<1>13. changes \in Seq(Offers) /\ DOMAIN changes = 1..n
  BY <1>8, <1>12, SeqDef
<1>14. /\ \A i \in DOMAIN changes : changes[i] = E(keys[i]) /\ changes[i].key = keys[i]
       /\ \A i, j \in DOMAIN changes : changes[i].key = changes[j].key => i = j
       /\ \A k \in touched : \E i \in DOMAIN changes : changes[i].key = k
       /\ \A i \in DOMAIN changes : changes[i].key \in touched
  BY <1>7, <1>8, <1>10, <1>11, <1>13
<1> QED BY <1>8, <1>13, <1>14 DEF old, new, touched, changes, keys, E

LEMMA OffersAreRecords == Offers \subseteq Records
<1> SUFFICES ASSUME NEW r \in Offers PROVE r \in Records
  OBVIOUS
<1>1. /\ r.key \in Keys /\ r.body \in Bodies /\ r.hidden \in BOOLEAN
      /\ r.id \in Ids \cup {NoId} /\ r.gen = 0 /\ r.members = NoEdits
      /\ r = [key |-> r.key, body |-> r.body, hidden |-> r.hidden, id |-> r.id,
              gen |-> r.gen, members |-> r.members]
  BY DEF Offers
<1>2. r.gen \in Nat
  BY <1>1
<1> QED BY <1>1, <1>2 DEF Records

(* The changelog of two snapshots, installed over the rows of the first,   *)
(* shows the second.                                                       *)
LEMMA ChangelogShows ==
  ASSUME NEW previous \in Seq(Offers), NEW current \in Seq(Offers), NEW rows \in LiveMaps,
         Shows(rows, FoldSnapshot(previous))
  PROVE  Shows(FoldLeft(Install, rows, SnapshotChangelog(previous, current)),
               FoldSnapshot(current))
<1> DEFINE old == FoldSnapshot(previous)
           new == FoldSnapshot(current)
           touched == {k \in Keys : Changed(old, new, k) \/ Gone(old, new, k)}
           changes == SnapshotChangelog(previous, current)
           final == FoldLeft(Install, rows, changes)
           n == Len(changes)
           E(k) == IF Gone(old, new, k) THEN [old[k] EXCEPT !.hidden = TRUE] ELSE new[k]
<1>1. /\ changes \in Seq(Offers)
      /\ \A i \in DOMAIN changes : changes[i] = E(changes[i].key)
      /\ \A i, j \in DOMAIN changes : changes[i].key = changes[j].key => i = j
      /\ \A k \in touched : \E i \in DOMAIN changes : changes[i].key = k
      /\ \A i \in DOMAIN changes : changes[i].key \in touched
  <2> DEFINE keys == SetToSeq(touched)
  <2>1. /\ changes \in Seq(Offers)
        /\ DOMAIN changes = DOMAIN keys
        /\ \A i \in DOMAIN changes :
             /\ changes[i] = IF Gone(old, new, keys[i])
                             THEN [old[keys[i]] EXCEPT !.hidden = TRUE] ELSE new[keys[i]]
             /\ changes[i].key = keys[i]
        /\ \A i, j \in DOMAIN changes : changes[i].key = changes[j].key => i = j
        /\ \A k \in touched : \E i \in DOMAIN changes : changes[i].key = k
        /\ \A i \in DOMAIN changes : changes[i].key \in touched
    BY ChangelogIs, Zenon
  <2> HIDE DEF keys, changes, touched, old, new
  <2>2. \A i \in DOMAIN changes : changes[i] = E(changes[i].key)
    BY <2>1
  <2> HIDE DEF E
  <2> QED BY <2>1, <2>2
<1>2. /\ \A k \in DOMAIN old : old[k] \in Offers /\ old[k].key = k /\ k \in Keys
      /\ \A k \in DOMAIN new : new[k] \in Offers /\ new[k].key = k /\ k \in Keys
  BY FoldLastWinsSound, SoundChosen DEF FoldSnapshot
<1> HIDE DEF changes, old, new
<1>3. n \in Nat /\ DOMAIN changes = 1..n /\ \A i \in 1..n : changes[i] \in Records
  BY <1>1, LenProperties, ElementOfSeq, OffersAreRecords
<1>4. final \in LiveMaps /\ RowsOver(final, rows, changes)
  <2>1. changes \in Seq(Records)
    BY <1>1, OffersAreRecords, SeqMonotonic
  <2> QED BY <2>1, FoldInstallRows
<1> HIDE DEF final
<1>5. \A k \in Keys \cap touched : final[k] = RowOf(E(k))
  <2> SUFFICES ASSUME NEW k \in Keys, k \in touched PROVE final[k] = RowOf(E(k))
    OBVIOUS
  <2>1. PICK i \in 1..n : changes[i].key = k
    BY <1>1, <1>3
  <2>2. PICK j \in 1..n : changes[j].key = k /\ final[k] = RowOf(changes[j])
    BY <1>4, <2>1 DEF RowsOver
  <2>3. changes[j] = E(k)
    BY <1>1, <1>3, <2>2
  <2> HIDE DEF E
  <2> QED BY <2>2, <2>3
<1>6. \A k \in Keys \ touched : final[k] = rows[k]
  BY <1>1, <1>3, <1>4 DEF RowsOver
<1>7. ASSUME NEW k \in Keys, k \in DOMAIN new
      PROVE  /\ final[k] # Absent
             /\ <<final[k].body, final[k].hidden, final[k].id>> =
                  <<new[k].body, new[k].hidden, new[k].id>>
  <2>0. ~Gone(old, new, k)
    BY <1>7 DEF Gone
  <2>1. CASE Changed(old, new, k)
    <3>1. final[k] = RowOf(new[k])
      BY <1>5, <2>0, <2>1
    <3>2. new[k] \in Records
      BY <1>2, <1>7, OffersAreRecords
    <3>3. RowOf(new[k]) # Absent
      BY <3>2, RowTyped
    <3>4. /\ RowOf(new[k]).body = new[k].body /\ RowOf(new[k]).hidden = new[k].hidden
          /\ RowOf(new[k]).id = new[k].id
      BY DEF RowOf
    <3> QED BY <3>1, <3>3, <3>4
  <2>2. CASE ~Changed(old, new, k)
    <3>1. k \in DOMAIN old /\ SourcePayloadEq(old[k], new[k])
      BY <1>7, <2>2 DEF Changed
    <3>2. final[k] = rows[k]
      BY <1>6, <2>0, <2>2
    <3>3. /\ rows[k] # Absent
          /\ <<rows[k].body, rows[k].hidden, rows[k].id>> =
               <<old[k].body, old[k].hidden, old[k].id>>
      BY <3>1 DEF Shows, old
    <3> QED BY <3>1, <3>2, <3>3 DEF SourcePayloadEq
  <2> QED BY <2>1, <2>2
<1>8. ASSUME NEW k \in Keys, k \notin DOMAIN new
      PROVE  final[k] = Absent \/ final[k].hidden
  <2>0. ~Changed(old, new, k)
    BY <1>8 DEF Changed
  <2>1. CASE Gone(old, new, k)
    <3>1. final[k] = RowOf([old[k] EXCEPT !.hidden = TRUE])
      BY <1>5, <2>1
    <3>2. old[k] \in Offers
      BY <1>2, <2>1 DEF Gone
    <3>3. RowOf([old[k] EXCEPT !.hidden = TRUE]).hidden
      BY <3>2 DEF RowOf, Offers
    <3> QED BY <3>1, <3>3
  <2>2. CASE ~Gone(old, new, k)
    <3>1. final[k] = rows[k]
      BY <1>6, <2>0, <2>2
    <3>2. CASE k \in DOMAIN old
      <4>1. old[k].hidden
        BY <1>8, <2>2, <3>2 DEF Gone
      <4>2. <<rows[k].body, rows[k].hidden, rows[k].id>> =
               <<old[k].body, old[k].hidden, old[k].id>>
        BY <3>2 DEF Shows, old
      <4> QED BY <3>1, <4>1, <4>2
    <3>3. CASE k \notin DOMAIN old
      BY <3>1, <3>3 DEF Shows, old
    <3> QED BY <3>2, <3>3
  <2> QED BY <2>1, <2>2
<1>9. Shows(final, new)
  <2>1. \A k \in Keys :
          IF k \in DOMAIN new
          THEN /\ final[k] # Absent
               /\ <<final[k].body, final[k].hidden, final[k].id>> =
                    <<new[k].body, new[k].hidden, new[k].id>>
          ELSE final[k] = Absent \/ final[k].hidden
    BY <1>7, <1>8
  <2> QED BY <2>1 DEF Shows
<1> QED BY <1>9 DEF final, changes, new

-----------------------------------------------------------------------------
(* The records of a change set: the marker, then each edit once.           *)
LEMMA SetRecordsAre ==
  ASSUME NEW id \in Ids, NEW set \in ChangeSets
  PROVE  LET recs == SetRecords(id, set.edits)
         IN /\ recs \in Seq(Pendings) /\ 1 <= Len(recs)
            /\ recs[1].key = Marker
            /\ \A i \in 2..Len(recs) :
                 /\ recs[i].key \in DOMAIN set.edits /\ recs[i].key \in Keys
                 /\ recs[i].body = set.edits[recs[i].key]
            /\ \A i \in 1..Len(recs) : recs[i].id = id
            /\ \A i, j \in 1..Len(recs) : recs[i].key = recs[j].key => i = j
            /\ \A k \in DOMAIN recs[1].members : \E i \in 2..Len(recs) : recs[i].key = k
<1> DEFINE edits == set.edits
           recs == SetRecords(id, edits)
           keys == SetToSeq(DOMAIN edits)
           n == Len(keys)
           R(i) == Record(keys[i], edits[keys[i]], edits[keys[i]] = Hide, id)
           tail == [i \in 1..n |-> R(i)]
           m == [k \in DOMAIN edits |-> IF edits[k] = Hide THEN Hide ELSE Put]
<1>1. /\ IsFiniteSet(DOMAIN edits) /\ DOMAIN edits \subseteq Keys
      /\ \A k \in DOMAIN edits : edits[k] \in Bodies \cup {Hide}
  BY ChangeSetAssumption
<1>2. MarkerOf(id, edits) = [key |-> Marker, body |-> Marker, hidden |-> FALSE, id |-> id,
                             gen |-> 1, members |-> m]
  BY DEF MarkerOf
<1>3. recs = <<MarkerOf(id, edits)>> \o tail
  BY DEF SetRecords
<1> HIDE DEF edits, recs
<1>4. /\ keys \in Seq(DOMAIN edits)
      /\ \A i, j \in DOMAIN keys : keys[i] = keys[j] => i = j
      /\ \A k \in DOMAIN edits : \E i \in DOMAIN keys : keys[i] = k
  BY <1>1, SetToSeqLists
<1> HIDE DEF keys
<1>5. n \in Nat /\ DOMAIN keys = 1..n /\ \A i \in 1..n : keys[i] \in DOMAIN edits
  BY <1>4, LenProperties, ElementOfSeq
<1>6. MarkerOf(id, edits) \in Pendings /\ DOMAIN m = DOMAIN edits
  <2>1. m \in [DOMAIN edits -> Bodies \cup {Hide, Put}]
    OBVIOUS
  <2>2. m \in Edits
    BY <1>1, <2>1 DEF Edits
  <2> HIDE DEF m
  <2> QED BY <1>2, <2>1, <2>2 DEF Pendings
<1>7. ASSUME NEW i \in 1..n
      PROVE  /\ R(i) \in Pendings /\ R(i).key = keys[i] /\ R(i).id = id
             /\ R(i).body = edits[keys[i]]
  <2>1. keys[i] \in Keys /\ edits[keys[i]] \in Bodies \cup {Hide}
    BY <1>1, <1>5
  <2>2. R(i) = [key |-> keys[i], body |-> edits[keys[i]], hidden |-> edits[keys[i]] = Hide,
                id |-> id, gen |-> 0, members |-> NoEdits]
    BY DEF Record
  <2> HIDE DEF R
  <2> DEFINE b == edits[keys[i]]
             h == b = Hide
             k == keys[i]
  <2>3. h \in BOOLEAN /\ b \in Bodies \cup {Hide} /\ k \in Keys
    BY <2>1
  <2>4. R(i) = [key |-> k, body |-> b, hidden |-> h, id |-> id, gen |-> 0, members |-> NoEdits]
    BY <2>2
  <2> HIDE DEF b, h, k
  <2>5. R(i).key = k /\ R(i).id = id /\ R(i).body = b
    BY <2>4
  <2>6. R(i) \in Pendings
    <3>1. PICK r : r = [key |-> k, body |-> b, hidden |-> h, id |-> id, gen |-> 0,
                        members |-> NoEdits]
      OBVIOUS
    <3>2. r \in [key : Keys, body : Bodies \cup {Hide}, hidden : BOOLEAN,
                 id : Ids \cup {NoId}, gen : {0}, members : {NoEdits}]
      BY <2>3, <3>1
    <3>3. r \in Pendings
      BY <3>2 DEF Pendings
    <3> QED BY <2>4, <3>1, <3>3
  <2> QED BY <2>5, <2>6 DEF b, k
<1> HIDE DEF R
<1>8. tail \in [1..n -> Pendings]
  BY <1>7
<1>9. tail \in Seq(Pendings) /\ Len(tail) = n
  BY <1>5, <1>8, SeqDef, LenProperties
<1>10. <<MarkerOf(id, edits)>> \in Seq(Pendings) /\ Len(<<MarkerOf(id, edits)>>) = 1
       /\ <<MarkerOf(id, edits)>>[1] = MarkerOf(id, edits)
  BY <1>6
<1>11. /\ recs \in Seq(Pendings) /\ Len(recs) = n + 1
       /\ recs[1] = MarkerOf(id, edits)
       /\ \A i \in 2..n + 1 : recs[i] = tail[i - 1]
  <2> DEFINE one == <<MarkerOf(id, edits)>>
  <2>1. one \in Seq(Pendings) /\ Len(one) = 1 /\ one[1] = MarkerOf(id, edits)
    BY <1>10
  <2> HIDE DEF one, tail
  <2>2. /\ one \o tail \in Seq(Pendings) /\ Len(one \o tail) = 1 + n
        /\ \A i \in 1..1 + n : (one \o tail)[i] = IF i <= 1 THEN one[i] ELSE tail[i - 1]
    <3>1. tail \in Seq(Pendings) /\ Len(tail) = n /\ n \in Nat
      BY <1>5, <1>9
    <3> HIDE DEF n
    <3>2. /\ one \o tail \in Seq(Pendings) /\ Len(one \o tail) = Len(one) + Len(tail)
          /\ \A i \in 1..Len(one) + Len(tail) :
               (one \o tail)[i] = IF i <= Len(one) THEN one[i] ELSE tail[i - Len(one)]
      BY <2>1, <3>1, ConcatProperties
    <3> QED BY <2>1, <3>1, <3>2
  <2>3. recs = one \o tail
    BY <1>3 DEF one
  <2> QED BY <1>5, <2>1, <2>2, <2>3
<1>12. \A i \in 2..n + 1 : recs[i] = R(i - 1)
  BY <1>5, <1>11
<1> HIDE DEF tail, m
<1>13. recs[1].key = Marker /\ recs[1].id = id /\ recs[1].members = m
  BY <1>2, <1>11
<1>14. ASSUME NEW i \in 2..n + 1
       PROVE  /\ recs[i].key = keys[i - 1] /\ recs[i].id = id
              /\ recs[i].body = edits[keys[i - 1]]
              /\ keys[i - 1] \in DOMAIN edits /\ keys[i - 1] \in Keys /\ i - 1 \in 1..n
  <2>1. i - 1 \in 1..n
    BY <1>5
  <2>2. recs[i] = R(i - 1)
    BY <1>12
  <2> QED BY <1>1, <1>5, <1>7, <2>1, <2>2
<1>15. \A i, j \in 1..n + 1 : recs[i].key = recs[j].key => i = j
  <2> SUFFICES ASSUME NEW i \in 1..n + 1, NEW j \in 1..n + 1, recs[i].key = recs[j].key
      PROVE  i = j
    OBVIOUS
  <2>1. CASE i = 1 \/ j = 1
    BY <1>5, <1>13, <1>14, <2>1
  <2>2. CASE i # 1 /\ j # 1
    <3>1. i \in 2..n + 1 /\ j \in 2..n + 1
      BY <1>5, <2>2
    <3>2. keys[i - 1] = keys[j - 1] /\ i - 1 \in DOMAIN keys /\ j - 1 \in DOMAIN keys
      BY <1>5, <1>14, <3>1
    <3>3. i - 1 = j - 1
      BY <1>4, <3>2
    <3> QED BY <1>5, <3>1, <3>3
  <2> QED BY <2>1, <2>2
<1>16. \A k \in DOMAIN edits : \E i \in 2..n + 1 : recs[i].key = k
  <2> SUFFICES ASSUME NEW k \in DOMAIN edits PROVE \E i \in 2..n + 1 : recs[i].key = k
    OBVIOUS
  <2>1. PICK i \in 1..n : keys[i] = k
    BY <1>4, <1>5
  <2>2. i + 1 \in 2..n + 1 /\ (i + 1) - 1 = i
    BY <1>5
  <2> QED BY <1>14, <2>1, <2>2
<1>17. \A i \in 1..n + 1 : recs[i].id = id
  BY <1>5, <1>13, <1>14
<1>18. /\ recs \in Seq(Pendings) /\ Len(recs) = n + 1 /\ n + 1 >= 1
       /\ recs[1].key = Marker /\ DOMAIN recs[1].members = DOMAIN edits
       /\ \A i \in 2..n + 1 :
            /\ recs[i].key \in DOMAIN edits /\ recs[i].key \in Keys
            /\ recs[i].body = edits[recs[i].key]
  BY <1>5, <1>6, <1>11, <1>13, <1>14
<1> QED BY <1>15, <1>16, <1>17, <1>18 DEF edits, recs

-----------------------------------------------------------------------------
(* The invariant.                                                          *)

TypeInv ==
  /\ up \in BOOLEAN /\ failed \in BOOLEAN /\ fromLog \in BOOLEAN
  /\ log \in Seq(Records) /\ super \in 0..Len(log) /\ stamp \in 0..super
  /\ live \in LiveMaps /\ claims \in Catalogs
  /\ todo \in Seq(Pendings) /\ inside \in {"no", "batch", "set"}
  /\ setId \in Ids \cup {NoId}

(* A call inside atomically runs in a process that accepts writes; a       *)
(* stopped process leaves the committed log and nothing else.              *)
CallInv ==
  /\ inside # "no" => up /\ ~failed
  /\ inside = "no" => todo = <<>>
  /\ inside = "batch" => todo \in Seq(Offers)
  /\ ~up => ~failed /\ Len(log) = super /\ inside = "no"

RowsInv == up /\ ~failed => RowsAre(live, log)

(* A catalog that was read knows the log.  One that was not remembers ids  *)
(* of the committed log only: every write that claims an id reads first,   *)
(* and a hide copies an id that is there.                                  *)
CatInv ==
  up /\ ~failed =>
    IF fromLog THEN Knows(claims, log)
    ELSE \A id \in Ids :
           /\ \A i \in super + 1..Len(log) :
                log[i].id = id => \E j \in 1..super : log[j].id = id
           /\ claims[id] # Absent => \E j \in 1..super : log[j].id = id

-----------------------------------------------------------------------------
(* The catalog a claim consults.                                           *)

LEMMA CatalogTyped ==
  ASSUME TypeInv
  PROVE  /\ Catalog \in Catalogs
         /\ SubSeq(log, 1, super) \in Seq(Records) /\ Len(SubSeq(log, 1, super)) = super
         /\ \A i \in 1..super : SubSeq(log, 1, super)[i] = log[i]
         /\ ClaimsOf(SubSeq(log, 1, super)) \in Catalogs
         /\ ~fromLog =>
              \A id \in Ids :
                /\ ClaimsOf(SubSeq(log, 1, super))[id] = Absent => Catalog[id] = claims[id]
                /\ ClaimsOf(SubSeq(log, 1, super))[id] # Absent =>
                     /\ Catalog[id] # Absent
                     /\ Catalog[id].key = ClaimsOf(SubSeq(log, 1, super))[id].key
                     /\ Catalog[id].body = ClaimsOf(SubSeq(log, 1, super))[id].body
                     /\ Catalog[id].hidden = ClaimsOf(SubSeq(log, 1, super))[id].hidden
<1> DEFINE pre == SubSeq(log, 1, super)
           logged == ClaimsOf(pre)
<1>1. log \in Seq(Records) /\ super \in Nat /\ Len(log) \in Nat /\ super <= Len(log)
      /\ claims \in Catalogs
  BY LenProperties DEF TypeInv
<1>2. pre \in Seq(Records) /\ Len(pre) = super /\ \A i \in 1..super : pre[i] = log[i]
  BY <1>1, SubSeqProperties
<1> HIDE DEF pre
<1>3. logged \in Catalogs
  BY <1>2, ClaimsOfKnows
<1> HIDE DEF logged
<1> DEFINE merged(id) == IF logged[id] = Absent THEN claims[id]
                         ELSE IF claims[id] = Absent THEN logged[id]
                         ELSE [logged[id] EXCEPT !.hideApplied = @ \/ claims[id].hideApplied]
<1>4. ASSUME NEW id \in Ids
      PROVE  /\ merged(id) \in Claimed \cup {Absent}
             /\ logged[id] # Absent =>
                  /\ merged(id) # Absent
                  /\ merged(id).key = logged[id].key /\ merged(id).body = logged[id].body
                  /\ merged(id).hidden = logged[id].hidden
  <2>1. claims[id] \in Claimed \cup {Absent} /\ logged[id] \in Claimed \cup {Absent}
    BY <1>1, <1>3 DEF Catalogs
  <2>2. CASE logged[id] # Absent /\ claims[id] # Absent
    <3> DEFINE l == logged[id]
               h == l.hideApplied \/ claims[id].hideApplied
               e == [l EXCEPT !.hideApplied = h]
    <3>1. l \in Claimed /\ claims[id] \in Claimed
      BY <2>1, <2>2
    <3>2. h \in BOOLEAN
      OBVIOUS
    <3>3. merged(id) = e
      BY <2>2
    <3> HIDE DEF l, h, merged
    <3>4. e \in Claimed /\ e.key = l.key /\ e.body = l.body /\ e.hidden = l.hidden
      BY <3>1, <3>2 DEF Claimed
    <3> HIDE DEF e
    <3> QED BY <3>3, <3>4 DEF l
  <2>3. CASE logged[id] = Absent \/ claims[id] = Absent
    BY <2>1, <2>3
  <2> QED BY <2>2, <2>3
<1>5. ~fromLog => Catalog = [id \in Ids |-> merged(id)]
  BY DEF Catalog, logged, pre
<1>6. fromLog => Catalog = claims
  BY DEF Catalog
<1> HIDE DEF merged
<1>7. Catalog \in Catalogs
  BY <1>1, <1>4, <1>5, <1>6 DEF Catalogs
<1>8. ~fromLog => \A id \in Ids : Catalog[id] = merged(id)
  BY <1>5
<1>9. \A id \in Ids : logged[id] = Absent => merged(id) = claims[id]
  BY DEF merged
<1> QED BY <1>2, <1>3, <1>4, <1>7, <1>8, <1>9 DEF logged, pre

(* The catalog is the log, whether the store has read the log or merges    *)
(* what it reads now with what it remembered since it opened.              *)
LEMMA CatalogKnows ==
  ASSUME TypeInv, CatInv, up, ~failed
  PROVE  Catalog \in Catalogs /\ Knows(Catalog, log)
<1> DEFINE pre == SubSeq(log, 1, super)
           logged == ClaimsOf(pre)
<1>1. Catalog \in Catalogs
  BY CatalogTyped
<1>2. CASE fromLog
  BY <1>1, <1>2 DEF CatInv, Catalog
<1>3. CASE ~fromLog
  <2>1. super \in Nat /\ Len(log) \in Nat /\ super <= Len(log)
    BY LenProperties DEF TypeInv
  <2>2. /\ pre \in Seq(Records) /\ Len(pre) = super
        /\ \A i \in 1..super : pre[i] = log[i]
        /\ \A id \in Ids :
             /\ logged[id] = Absent => Catalog[id] = claims[id]
             /\ logged[id] # Absent =>
                  /\ Catalog[id] # Absent
                  /\ Catalog[id].key = logged[id].key /\ Catalog[id].body = logged[id].body
                  /\ Catalog[id].hidden = logged[id].hidden
    BY <1>3, CatalogTyped
  <2> HIDE DEF pre
  <2>3. Knows(logged, pre)
    BY <2>2, ClaimsOfKnows
  <2> HIDE DEF logged
  <2>4. ASSUME NEW id \in Ids
        PROVE  \/ Catalog[id] = Absent /\ \A i \in 1..Len(log) : log[i].id # id
               \/ \E i \in 1..Len(log) :
                    /\ log[i].id = id /\ \A j \in 1..i - 1 : log[j].id # id
                    /\ Catalog[id] # Absent
                    /\ Catalog[id].key = log[i].key /\ Catalog[id].body = log[i].body
                    /\ Catalog[id].hidden = log[i].hidden
    <3>1. /\ \A i \in super + 1..Len(log) :
               log[i].id = id => \E j \in 1..super : log[j].id = id
          /\ claims[id] # Absent => \E j \in 1..super : log[j].id = id
      BY <1>3 DEF CatInv
    <3>2. CASE logged[id] = Absent
      <4>1. \A i \in 1..super : pre[i].id # id
        BY <2>2, <2>3, <3>2 DEF Knows
      <4>2. \A i \in 1..super : log[i].id # id
        BY <2>2, <4>1
      <4> QED BY <2>1, <2>2, <3>1, <3>2, <4>2
    <3>3. CASE logged[id] # Absent
      <4>1. PICK i \in 1..super :
              /\ pre[i].id = id /\ \A j \in 1..i - 1 : pre[j].id # id
              /\ logged[id].key = pre[i].key /\ logged[id].body = pre[i].body
              /\ logged[id].hidden = pre[i].hidden
        BY <2>2, <2>3, <3>3 DEF Knows
      <4>2. \A j \in 1..i : pre[j] = log[j]
        BY <2>1, <2>2
      <4>3. i \in 1..Len(log) /\ pre[i] = log[i] /\ \A j \in 1..i - 1 : log[j].id # id
        BY <2>1, <4>1, <4>2
      <4> QED BY <2>2, <3>3, <4>1, <4>3
    <3> QED BY <3>2, <3>3
  <2> QED BY <1>1, <2>4 DEF Knows
<1> QED BY <1>2, <1>3

(* A claim that is new is of an id the log does not have, or hides what    *)
(* the id has put there.                                                   *)
LEMMA ClaimIsNew ==
  ASSUME TypeInv, CatInv, up, ~failed, NEW rec \in Offers, Claim(rec) = "new", rec.id # NoId
  PROVE  \/ \A i \in 1..Len(log) : log[i].id # rec.id
         \/ rec.hidden /\ \E i \in 1..Len(log) : log[i].id = rec.id
<1>1. Knows(Catalog, log) /\ rec.id \in Ids
  BY CatalogKnows DEF Offers
<1>2. Catalog[rec.id] = Absent \/ rec.hidden
  BY DEF Claim
<1> QED BY <1>1, <1>2 DEF Knows

-----------------------------------------------------------------------------
(* What a step of the calls does to the log and the maps.                  *)

(* A record is put on the log and applied to the maps.                     *)
PutStep(rec, catalog) ==
  /\ up /\ up' /\ ~failed
  /\ rec \in Records
  /\ log' = Append(log, rec) /\ live' = Install(live, rec)
  /\ claims' = Remember(catalog, rec)
  /\ super' \in super..Len(log) + 1
  /\ rec.key # Marker => rec.gen = NextGen(rec.key)
  /\ \/ catalog = claims /\ fromLog' = fromLog
     \/ catalog = Catalog /\ fromLog' = TRUE
  /\ \/ rec.id = NoId
     \/ fromLog' /\ \A i \in 1..Len(log) : log[i].id # rec.id
     \/ rec.hidden /\ \E i \in 1..Len(log) : log[i].id = rec.id
     \/ inside = "set"
  /\ IF inside = "set"
     THEN todo # <<>> /\ rec = Resolved(todo[1]) /\ catalog = claims /\ fromLog' = fromLog
     ELSE rec.key # Marker
  /\ inside # "no" => super' = super /\ ~failed' /\ inside' = inside

(* The log and the rows stay; the commit point may move.                   *)
KeepStep ==
  /\ log' = log /\ live' = live /\ up' = up
  /\ super' \in super..Len(log)
  /\ failed => failed' /\ super' = super
  /\ \/ claims' = claims /\ fromLog' = fromLog
     \/ claims' = NothingClaimed /\ ~fromLog /\ fromLog' = fromLog
     \/ claims' = Catalog /\ fromLog' = TRUE
  /\ inside = "set" =>
       todo = <<>> /\ super' \in {super, Len(log)} /\ (failed' \/ super' = Len(log))

(* The process stops, opens or rolls back: the log is the committed one    *)
(* and the maps are rebuilt from it, or the store is stopped or poisoned.  *)
StopStep ==
  /\ super' = super
  /\ log' \in {log, SubSeq(log, 1, super)}
  /\ live' \in LiveMaps /\ claims' \in Catalogs
  /\ up' \in BOOLEAN /\ fromLog' \in BOOLEAN
  /\ inside' = "no" /\ todo' = <<>>
  /\ ~up' => ~failed' /\ log' = SubSeq(log, 1, super)
  /\ up' /\ ~failed' =>
       /\ log' = SubSeq(log, 1, super) /\ live' = LiveOf(log')
       /\ \/ claims' = ClaimsOf(log') /\ fromLog' = TRUE
          \/ claims' = ClaimsOf(SubSeq(log, stamp + 1, super)) /\ fromLog' = FALSE

FileStep == (\E rec, catalog : PutStep(rec, catalog)) \/ KeepStep \/ StopStep

(* What the call inside atomically is and has left to write.               *)
EntersBatch ==
  inside' = "batch" /\ setId' = NoId /\ todo' \in Seq(Offers) /\ up' /\ ~failed'

EntersSet(id, set) ==
  /\ inside' = "set" /\ setId' = id /\ todo' = SetRecords(id, set.edits)
  /\ up /\ up' /\ ~failed /\ ~failed' /\ log' = log /\ live' = live /\ super' = Len(log)
  /\ fromLog' = TRUE /\ Catalog[id] = Absent
  /\ \A k \in DOMAIN set.edits : set.edits[k] = Hide => live[k] # Absent

Writes ==
  /\ inside # "no" /\ todo # <<>> /\ todo' = Tail(todo)
  /\ inside = "set" => \E rec : PutStep(rec, claims)
  /\ UNCHANGED <<up, super, failed, inside, setId>>

CallStep ==
  \/ inside = "no" /\ up /\ up' /\ UNCHANGED callVars
  \/ Leave /\ up /\ up'
  \/ StopStep /\ setId' \in {setId, NoId}
  \/ EntersBatch
  \/ \E id \in Ids, set \in ChangeSets : EntersSet(id, set)
  \/ Writes

HistStep ==
  /\ seen' \in {seen, seen \cup {log'[i] : i \in 1..super'}}
  /\ acked' \subseteq acked \cup {log'[i] : i \in 1..super'}

Step ==
  /\ FileStep /\ CallStep /\ HistStep
  /\ stamp' \in {stamp, super'} /\ failed' \in BOOLEAN

(* A record that is put where the calls of one record put it.              *)
Fits(rec, catalog) ==
  /\ rec \in Records /\ rec.key # Marker /\ rec.gen = NextGen(rec.key)
  /\ \/ catalog = claims /\ fromLog' = fromLog
     \/ catalog = Catalog /\ fromLog' = TRUE
  /\ ~failed =>
       \/ rec.id = NoId
       \/ fromLog' /\ \A i \in 1..Len(log) : log[i].id # rec.id
       \/ rec.hidden /\ \E i \in 1..Len(log) : log[i].id = rec.id

LEMMA WriteAloneSteps ==
  ASSUME TypeInv, CallInv, Idle, NEW rec, NEW catalog, NEW ids, Fits(rec, catalog),
         WriteAlone(rec, catalog, ids), Witness, UNCHANGED <<up, callVars>>
  PROVE  Step
<1>1. super \in Nat /\ Len(log) \in Nat /\ super <= Len(log) /\ stamp \in Nat
      /\ log \in Seq(Records) /\ failed \in BOOLEAN
  BY LenProperties DEF TypeInv
<1>2. up /\ up' /\ inside = "no" /\ UNCHANGED callVars /\ rec \in Records /\ CallStep
  BY DEF Idle, Fits, CallStep
<1>3. Len(Append(log, rec)) = Len(log) + 1 /\ Append(log, rec)[Len(log) + 1] = rec
  BY <1>1, <1>2, AppendProperties
<1>4. CASE PutOnLog(rec, catalog)
  <2>1. log' = Append(log, rec) /\ live' = Install(live, rec) /\ claims' = Remember(catalog, rec)
        /\ ~failed
    BY <1>4 DEF PutOnLog
  <2>2. Len(log') = Len(log) + 1 /\ log'[Len(log) + 1] = rec
    BY <1>3, <2>1
  <2>3. super' \in super..Len(log) + 1 /\ failed' \in BOOLEAN /\ stamp' \in {stamp, super'}
    <3>1. ~AppendFails
      BY <1>1, <2>1, <2>2 DEF AppendFails
    <3>2. CommitDone \/ CommitFails
      BY <3>1 DEF WriteAlone
    <3>3. CASE CommitDone
      BY <1>1, <2>2, <3>3 DEF CommitDone, CommitMoves
    <3>4. CASE CommitFails
      <4>1. super' \in {super, Len(log), Len(log) + 1} /\ failed' \in BOOLEAN /\ stamp' = stamp
        BY <2>2, <3>4 DEF CommitFails
      <4> QED BY <1>1, <4>1
    <3> QED BY <3>2, <3>3, <3>4
  <2>4. acked' \subseteq acked \cup {log'[i] : i \in 1..super'}
    <3>1. CASE acked' = acked
      BY <3>1
    <3>2. CASE acked' # acked
      <4>1. acked' = acked \cup {rec} /\ super' = Len(log) + 1
        BY <3>2, <2>2 DEF WriteAlone, CommitDone, CommitMoves
      <4> QED BY <1>1, <2>2, <4>1
    <3> QED BY <3>1, <3>2
  <2>5. PutStep(rec, catalog)
    BY <1>2, <2>1, <2>3 DEF PutStep, Fits
  <2> QED BY <1>2, <2>3, <2>4, <2>5 DEF Step, FileStep, HistStep, Witness
<1>5. CASE ~PutOnLog(rec, catalog)
  <2>1. AppendFails /\ claims' = catalog /\ UNCHANGED <<stamp, acked, told>>
    BY <1>5 DEF WriteAlone
  <2>2. log' = log /\ live' = live /\ super' \in super..Len(log) /\ failed' \in BOOLEAN
        /\ (failed => failed' /\ super' = super)
    BY <1>1, <2>1 DEF AppendFails
  <2>3. KeepStep
    BY <1>2, <2>1, <2>2 DEF KeepStep, Fits
  <2> QED BY <1>2, <2>1, <2>2, <2>3 DEF Step, FileStep, HistStep, Witness
<1> QED BY <1>4, <1>5

LEMMA ApplyActionSteps ==
  ASSUME TypeInv, CallInv, CatInv, NEW action \in Actions, ApplyAction(action)
  PROVE  Step
<1> DEFINE rec == Record(action.key, action.body, FALSE, action.id)
<1>1. /\ action.id \in Ids /\ action.key \in Keys /\ action.body \in Bodies
      /\ Idle /\ Witness /\ UNCHANGED <<up, callVars>>
  BY ActionAssumption DEF ApplyAction
<1>2. rec \in Offers /\ rec.id = action.id
  <2>1. rec \in Offers
    BY <1>1, RecordTyped
  <2>2. rec.id = action.id
    BY DEF Record
  <2> QED BY <2>1, <2>2
<1>3. CASE Claim(rec) = "new" /\ GenerationIs(action.key, action.expected)
  <2>1. WriteAlone(AssignGen(rec), Catalog, {action.id}) /\ fromLog' = TRUE
    BY <1>3 DEF ApplyAction
  <2> HIDE DEF rec
  <2>2. /\ AssignGen(rec) \in Records /\ AssignGen(rec).key # Marker
        /\ AssignGen(rec).gen = NextGen(AssignGen(rec).key) /\ AssignGen(rec).id = rec.id
        /\ AssignGen(rec).hidden = rec.hidden
    BY <1>2, AssignGenIs DEF TypeInv
  <2>3. ~failed => \/ rec.id = NoId
                   \/ \A i \in 1..Len(log) : log[i].id # rec.id
                   \/ rec.hidden /\ \E i \in 1..Len(log) : log[i].id = rec.id
    BY <1>1, <1>2, <1>3, ClaimIsNew DEF Idle
  <2>4. Fits(AssignGen(rec), Catalog)
    BY <2>1, <2>2, <2>3 DEF Fits
  <2> QED BY <1>1, <2>1, <2>4, WriteAloneSteps
<1>4. CASE ~(Claim(rec) = "new" /\ GenerationIs(action.key, action.expected))
  <2>1. CatalogRead /\ UNCHANGED <<fileVars, failed, live, acked>>
    BY <1>4 DEF ApplyAction
  <2> HIDE DEF rec
  <2>2. KeepStep
    BY <1>1, <2>1, LenProperties DEF KeepStep, CatalogRead, fileVars, Idle, TypeInv
  <2>3. CallStep
    BY <1>1 DEF CallStep, Idle
  <2>4. HistStep
    BY <1>1, <2>1 DEF HistStep, Witness
  <2> QED BY <2>1, <2>2, <2>3, <2>4 DEF Step, FileStep, TypeInv, fileVars
<1> QED BY <1>3, <1>4

LEMMA AppendUncommittedSteps ==
  ASSUME TypeInv, CallInv, CatInv, NEW offer \in Offered, AppendUncommitted(offer)
  PROVE  Step
<1> DEFINE rec == AssignGen(offer)
           catalog == IF offer.id = NoId THEN claims ELSE Catalog
<1>1. /\ offer \in Offers /\ Idle /\ Witness /\ UNCHANGED <<up, stamp, callVars, acked, told>>
      /\ IF offer.id = NoId THEN UNCHANGED fromLog ELSE fromLog' = TRUE
  BY SourceAssumption DEF AppendUncommitted
<1>2. CallStep
  BY <1>1 DEF CallStep, Idle
<1>3. HistStep
  BY <1>1 DEF HistStep, Witness
<1>4. /\ super \in Nat /\ Len(log) \in Nat /\ super <= Len(log) /\ failed \in BOOLEAN
      /\ live \in LiveMaps
  BY LenProperties DEF TypeInv
<1>5. /\ rec \in Records /\ rec.key # Marker /\ rec.gen = NextGen(rec.key)
      /\ rec.id = offer.id /\ rec.hidden = offer.hidden
  BY <1>1, <1>4, AssignGenIs
<1>6. \/ catalog = claims /\ fromLog' = fromLog
      \/ catalog = Catalog /\ fromLog' = TRUE
  BY <1>1
<1>7. CASE Claim(offer) = "new"
  <2>1. \/ PutOnLog(rec, catalog) /\ super' \in {super, Len(log)} /\ UNCHANGED failed
        \/ AppendFails /\ claims' = catalog
    BY <1>7 DEF AppendUncommitted
  <2>2. CASE PutOnLog(rec, catalog) /\ super' \in {super, Len(log)} /\ UNCHANGED failed
    <3>1. \/ rec.id = NoId
          \/ fromLog' /\ \A i \in 1..Len(log) : log[i].id # rec.id
          \/ rec.hidden /\ \E i \in 1..Len(log) : log[i].id = rec.id
      BY <1>1, <1>5, <1>7, <2>2, ClaimIsNew DEF PutOnLog, Idle
    <3> HIDE DEF rec, catalog
    <3>2. PutStep(rec, catalog)
      BY <1>1, <1>4, <1>5, <1>6, <2>2, <3>1 DEF PutStep, PutOnLog, Idle
    <3> QED BY <1>1, <1>2, <1>3, <1>4, <2>2, <3>2 DEF Step, FileStep
  <2>3. CASE AppendFails /\ claims' = catalog
    <3> HIDE DEF rec, catalog
    <3>1. KeepStep /\ failed' \in BOOLEAN
      BY <1>1, <1>4, <1>6, <2>3 DEF KeepStep, AppendFails, Idle
    <3> QED BY <1>1, <1>2, <1>3, <3>1 DEF Step, FileStep
  <2> QED BY <2>1, <2>2, <2>3
<1>8. CASE Claim(offer) # "new"
  <2>1. claims' = catalog /\ UNCHANGED <<log, super, failed, live>>
    BY <1>8 DEF AppendUncommitted
  <2> HIDE DEF rec, catalog
  <2>2. KeepStep
    BY <1>1, <1>4, <1>6, <2>1 DEF KeepStep, Idle
  <2> QED BY <1>1, <1>2, <1>3, <1>4, <2>1, <2>2 DEF Step, FileStep
<1> QED BY <1>7, <1>8

LEMMA CommitSteps ==
  ASSUME TypeInv, CallInv, Commit
  PROVE  Step
<1>1. /\ Idle /\ Witness /\ log' = log /\ UNCHANGED <<up, live, claims, fromLog, callVars, told>>
  BY DEF Commit
<1>2. super \in Nat /\ Len(log) \in Nat /\ super <= Len(log) /\ failed \in BOOLEAN
  BY LenProperties DEF TypeInv
<1>3. CallStep
  BY <1>1 DEF CallStep, Idle
<1>4. /\ super' \in super..Len(log) /\ (failed => failed' /\ super' = super)
      /\ stamp' \in {stamp, super'} /\ failed' \in BOOLEAN
      /\ acked' \subseteq acked \cup {log'[i] : i \in 1..super'}
  <2>1. CASE failed
    BY <1>2, <2>1 DEF Commit
  <2>2. CASE ~failed /\ CommitDone
    BY <1>1, <1>2, <2>2 DEF Commit, CommitDone, CommitMoves
  <2>3. CASE ~failed /\ CommitFails /\ UNCHANGED acked
    <3>1. super' \in {super, Len(log)} /\ failed' \in BOOLEAN /\ stamp' = stamp
      BY <1>1, <2>3 DEF CommitFails
    <3> QED BY <1>2, <2>3, <3>1
  <2> QED BY <2>1, <2>2, <2>3 DEF Commit
<1>5. KeepStep
  BY <1>1, <1>4 DEF KeepStep, Idle
<1> QED BY <1>1, <1>3, <1>4, <1>5 DEF Step, FileStep, HistStep, Witness

LEMMA HideRowSteps ==
  ASSUME TypeInv, CallInv, RowsInv, NEW key \in Keys, HideRow(key)
  PROVE  Step
<1> DEFINE rec == Record(key, live[key].body, TRUE, live[key].id)
<1>1. /\ Idle /\ Witness /\ UNCHANGED <<up, fromLog, callVars>> /\ live[key] # Absent
      /\ WriteAlone(AssignGen(rec), claims, {})
  BY DEF HideRow
<1>2. live \in LiveMaps /\ live[key] \in Rows /\ live[key].body \in Bodies
      /\ live[key].id \in Ids \cup {NoId}
  BY <1>1 DEF TypeInv, LiveMaps, Rows
<1>3. rec \in Offers
  BY <1>2, RecordTyped
<1>4. rec.key = key /\ rec.hidden /\ rec.id = live[key].id
  BY DEF Record
<1> HIDE DEF rec
<1>5. /\ AssignGen(rec) \in Records /\ AssignGen(rec).key # Marker
      /\ AssignGen(rec).gen = NextGen(AssignGen(rec).key) /\ AssignGen(rec).id = rec.id
      /\ AssignGen(rec).hidden = rec.hidden
  BY <1>2, <1>3, AssignGenIs
<1>6. ~failed => rec.id = NoId \/ \E i \in 1..Len(log) : log[i].id = rec.id
  <2> SUFFICES ASSUME ~failed PROVE \E i \in 1..Len(log) : log[i].id = rec.id
    OBVIOUS
  <2>1. live[key] # NothingLive[key]
    BY <1>1 DEF NothingLive
  <2>2. PICK i \in 1..Len(log) : live[key] = RowOf(log[i])
    BY <1>1, <2>1 DEF RowsInv, RowsAre, RowsOver, Idle
  <2>3. log[i].id = live[key].id
    BY <2>2 DEF RowOf
  <2> QED BY <1>4, <2>3
<1>7. Fits(AssignGen(rec), claims)
  BY <1>1, <1>4, <1>5, <1>6 DEF Fits
<1> QED BY <1>1, <1>7, WriteAloneSteps

LEMMA CatalogUnreadSteps ==
  ASSUME TypeInv, CallInv, CatalogUnread
  PROVE  Step
<1>1. /\ Idle /\ ~fromLog /\ claims' = NothingClaimed
      /\ UNCHANGED <<up, log, super, stamp, failed, live, fromLog, callVars, acked, told, seen>>
  BY DEF CatalogUnread, fileVars, historyVars
<1>2. super \in super..Len(log) /\ failed \in BOOLEAN
  BY LenProperties DEF TypeInv
<1>3. KeepStep /\ CallStep /\ HistStep
  BY <1>1, <1>2 DEF KeepStep, CallStep, HistStep, Idle
<1> QED BY <1>1, <1>2, <1>3 DEF Step, FileStep

(* What Enter leaves: the call has begun over a log that is committed, or  *)
(* the commit of what was buffered before it has failed.                   *)
LEMMA EnterIs ==
  ASSUME TypeInv, CallInv, Idle, NEW kind, NEW records, NEW id, Enter(kind, records, id),
         up' = up, acked' = acked
  PROVE  /\ log' = log /\ live' = live /\ super' \in super..Len(log)
         /\ failed => failed' /\ super' = super
         /\ stamp' \in {stamp, super'} /\ failed' \in BOOLEAN
         /\ HistStep
         /\ \/ /\ ~failed /\ ~failed' /\ super' = Len(log)
               /\ todo' = records /\ inside' = kind /\ setId' = id
            \/ UNCHANGED callVars
<1>1. super \in Nat /\ Len(log) \in Nat /\ super <= Len(log) /\ failed \in BOOLEAN
  BY LenProperties DEF TypeInv
<1>2. log' = log /\ live' = live /\ HistStep
  BY DEF Enter, HistStep, Witness
<1>3. CASE /\ ~failed
           /\ IF Pending THEN CommitDone ELSE UNCHANGED <<super, stamp, failed>>
           /\ todo' = records /\ inside' = kind /\ setId' = id
  <2>1. super' = Len(log) /\ ~failed' /\ failed' \in BOOLEAN /\ stamp' \in {stamp, super'}
    BY <1>1, <1>2, <1>3 DEF Pending, CommitDone, CommitMoves
  <2> QED BY <1>1, <1>2, <1>3, <2>1
<1>4. CASE /\ Pending
           /\ IF failed THEN UNCHANGED <<super, failed, stamp>> ELSE CommitFails
           /\ UNCHANGED callVars
  <2>1. super' \in {super, Len(log)} /\ (failed => failed' /\ super' = super)
        /\ failed' \in BOOLEAN /\ stamp' = stamp
    BY <1>1, <1>2, <1>4 DEF CommitFails
  <2> QED BY <1>1, <1>2, <1>4, <2>1
<1> QED BY <1>3, <1>4 DEF Enter

LEMMA AppendBatchSteps ==
  ASSUME TypeInv, CallInv, NEW records \in Seq(Offers), AppendBatch(records)
  PROVE  Step
<1>1. /\ Idle /\ Enter("batch", records, NoId) /\ UNCHANGED <<up, claims, fromLog, acked, told>>
  BY DEF AppendBatch
<1>2. /\ log' = log /\ live' = live /\ super' \in super..Len(log)
      /\ failed => failed' /\ super' = super
      /\ stamp' \in {stamp, super'} /\ failed' \in BOOLEAN
      /\ HistStep
      /\ \/ /\ ~failed /\ ~failed' /\ super' = Len(log)
            /\ todo' = records /\ inside' = "batch" /\ setId' = NoId
         \/ UNCHANGED callVars
  BY <1>1, EnterIs
<1>3. KeepStep
  BY <1>1, <1>2 DEF KeepStep, Idle
<1>4. CallStep
  BY <1>1, <1>2 DEF CallStep, EntersBatch, Idle
<1> QED BY <1>2, <1>3, <1>4 DEF Step, FileStep

LEMMA ApplyChangeSetSteps ==
  ASSUME TypeInv, CallInv, NEW id \in Ids, NEW set \in ChangeSets, ApplyChangeSet(id, set)
  PROVE  Step
<1>1. /\ Idle /\ CatalogRead /\ UNCHANGED <<up, acked>>
      /\ \A k \in DOMAIN set.edits : set.edits[k] = Hide => live[k] # Absent
  BY DEF ApplyChangeSet
<1>2. super \in Nat /\ Len(log) \in Nat /\ super <= Len(log) /\ failed \in BOOLEAN
  BY LenProperties DEF TypeInv
<1>3. CASE /\ Catalog[id] = Absent
           /\ \A k \in DOMAIN set.edits : GenerationIs(k, set.expected[k])
  <2>1. Enter("set", SetRecords(id, set.edits), id)
    BY <1>3 DEF ApplyChangeSet
  <2>2. /\ log' = log /\ live' = live /\ super' \in super..Len(log)
        /\ failed => failed' /\ super' = super
        /\ stamp' \in {stamp, super'} /\ failed' \in BOOLEAN
        /\ HistStep
        /\ \/ /\ ~failed /\ ~failed' /\ super' = Len(log)
              /\ todo' = SetRecords(id, set.edits) /\ inside' = "set" /\ setId' = id
           \/ UNCHANGED callVars
    BY <1>1, <2>1, EnterIs
  <2>3. KeepStep
    BY <1>1, <2>2 DEF KeepStep, Idle, CatalogRead
  <2>4. CallStep
    BY <1>1, <1>3, <2>2 DEF CallStep, EntersSet, Idle, CatalogRead
  <2> QED BY <2>2, <2>3, <2>4 DEF Step, FileStep
<1>4. CASE ~(/\ Catalog[id] = Absent
             /\ \A k \in DOMAIN set.edits : GenerationIs(k, set.expected[k]))
  <2>1. UNCHANGED <<log, super, stamp, failed, live, callVars, seen>>
    BY <1>4 DEF ApplyChangeSet, fileVars
  <2>2. KeepStep
    BY <1>1, <1>2, <2>1 DEF KeepStep, Idle, CatalogRead
  <2>3. CallStep /\ HistStep
    BY <1>1, <2>1 DEF CallStep, HistStep, Idle
  <2> QED BY <1>2, <2>1, <2>2, <2>3 DEF Step, FileStep
<1> QED BY <1>3, <1>4

(* A change set that is being written.  Its id is on no record in front of *)
(* the commit point, and behind it are the marker and the members written  *)
(* so far; what is left are the other members, each for an identity of its *)
(* own; an identity to be hidden has a row.                                *)
SetInv ==
  inside = "set" =>
    /\ fromLog /\ setId \in Ids
    /\ \A i \in 1..Len(todo) :
         /\ todo[i].id = setId
         /\ todo[i].key # Marker /\ todo[i].body = Hide => live[todo[i].key] # Absent
         /\ \A j \in super + 1..Len(log) : log[j].key # todo[i].key
    /\ \A i, j \in 1..Len(todo) : todo[i].key = todo[j].key => i = j
    /\ \A i \in 1..super : log[i].id # setId
    /\ \A i \in super + 1..Len(log) :
         /\ log[i].id = setId
         /\ log[i].key = Marker <=> i = super + 1
    /\ IF Len(log) = super
       THEN /\ 1 <= Len(todo) /\ todo[1].key = Marker
            /\ \A k \in DOMAIN todo[1].members : \E i \in 2..Len(todo) : todo[i].key = k
       ELSE \A k \in DOMAIN log[super + 1].members :
              \/ \E i \in super + 2..Len(log) : log[i].key = k
              \/ \E i \in 1..Len(todo) : todo[i].key = k

LEMMA WriteNextSteps ==
  ASSUME TypeInv, CallInv, CatInv, SetInv, WriteNext
  PROVE  Step
<1> DEFINE next == todo[1]
           claiming == inside = "batch" /\ next.id # NoId
           catalog == IF claiming THEN Catalog ELSE claims
<1>1. /\ up /\ todo # <<>> /\ todo' = Tail(todo)
      /\ UNCHANGED <<up, super, stamp, failed, inside, setId, acked, told, seen>>
      /\ IF ~claiming \/ Claim(next) = "new"
         THEN PutOnLog(Resolved(next), catalog)
         ELSE Claim(next) = "replay" /\ claims' = catalog /\ UNCHANGED <<log, live>>
      /\ IF claiming THEN fromLog' = TRUE ELSE UNCHANGED fromLog
  BY DEF WriteNext, historyVars
<1>2. /\ super \in Nat /\ Len(log) \in Nat /\ super <= Len(log) /\ live \in LiveMaps
      /\ failed \in BOOLEAN /\ todo \in Seq(Pendings) /\ inside \in {"no", "batch", "set"}
  BY LenProperties DEF TypeInv
<1>3. next \in Pendings /\ 1 \in 1..Len(todo)
  BY <1>1, <1>2, EmptySeq, LenProperties, ElementOfSeq
<1>4. inside # "no" /\ ~failed /\ up
  BY <1>1 DEF CallInv
<1>5. inside = "batch" => next \in Offers
  BY <1>3, ElementOfSeq DEF CallInv
<1>6. next.key # Marker /\ next.body = Hide => live[next.key] # Absent
  <2>1. CASE inside = "batch"
    BY <1>5, <2>1 DEF Offers
  <2>2. CASE inside = "set"
    BY <1>3, <2>2 DEF SetInv
  <2> QED BY <1>2, <1>4, <2>1, <2>2
<1>7. /\ Resolved(next) \in Records
      /\ Resolved(next).key = next.key /\ Resolved(next).id = next.id
      /\ Resolved(next).hidden = next.hidden
      /\ next.key \in Keys => Resolved(next).gen = NextGen(next.key)
  BY <1>2, <1>3, <1>6, ResolvedIs
<1>8. next.key \in Keys \cup {Marker} /\ (inside = "batch" => next.key \in Keys)
  BY <1>3, <1>5 DEF Pendings, Offers
<1>9. HistStep
  BY <1>1 DEF HistStep
<1>10. /\ \/ catalog = claims /\ fromLog' = fromLog
          \/ catalog = Catalog /\ fromLog' = TRUE
       /\ inside = "set" => catalog = claims /\ fromLog' = fromLog
  BY <1>1
<1>11. CASE ~claiming \/ Claim(next) = "new"
  <2>1. PutOnLog(Resolved(next), catalog)
    BY <1>1, <1>11
  <2>2. \/ next.id = NoId
        \/ fromLog' /\ \A i \in 1..Len(log) : log[i].id # next.id
        \/ next.hidden /\ \E i \in 1..Len(log) : log[i].id = next.id
        \/ inside = "set"
    <3>1. CASE claiming
      <4>1. Claim(next) = "new" /\ fromLog' = TRUE /\ next \in Offers /\ next.id # NoId
        BY <1>1, <1>5, <1>11, <3>1
      <4> HIDE DEF next
      <4> QED BY <1>4, <4>1, ClaimIsNew
    <3>2. CASE ~claiming
      BY <1>2, <1>4, <3>2
    <3> QED BY <3>1, <3>2
  <2> DEFINE rec == Resolved(next)
  <2>3. /\ rec \in Records /\ (rec.key # Marker => rec.gen = NextGen(rec.key))
        /\ rec.id = next.id /\ rec.hidden = next.hidden /\ rec.key = next.key
    BY <1>7, <1>8
  <2>4. rec = Resolved(todo[1])
    OBVIOUS
  <2> HIDE DEF rec, catalog
  <2>5. PutStep(rec, catalog)
    BY <1>1, <1>2, <1>4, <1>8, <1>10, <2>1, <2>2, <2>3, <2>4 DEF PutStep, PutOnLog, rec
  <2>6. CallStep
    <3>1. inside = "set" => PutStep(rec, claims)
      BY <1>10, <2>5
    <3> QED BY <1>1, <1>4, <3>1 DEF CallStep, Writes
  <2> QED BY <1>1, <1>2, <1>9, <2>5, <2>6 DEF Step, FileStep
<1>12. CASE ~(~claiming \/ Claim(next) = "new")
  <2>1. inside = "batch" /\ claims' = catalog /\ log' = log /\ live' = live
    BY <1>1, <1>12
  <2> HIDE DEF catalog, next
  <2>2. KeepStep
    BY <1>1, <1>2, <1>4, <1>10, <2>1 DEF KeepStep
  <2>3. CallStep
    BY <1>1, <1>4, <2>1 DEF CallStep, Writes
  <2> QED BY <1>1, <1>2, <1>9, <2>2, <2>3 DEF Step, FileStep
<1> QED BY <1>11, <1>12

LEMMA CutTyped ==
  ASSUME TypeInv
  PROVE  /\ LiveOf(SubSeq(log, 1, super)) \in LiveMaps
         /\ ClaimsOf(SubSeq(log, 1, super)) \in Catalogs
         /\ SubSeq(log, stamp + 1, super) \in Seq(Records)
         /\ ClaimsOf(SubSeq(log, stamp + 1, super)) \in Catalogs
         /\ Len(SubSeq(log, stamp + 1, super)) = super - stamp
         /\ \A i \in 1..super - stamp : SubSeq(log, stamp + 1, super)[i] = log[stamp + i]
<1>1. log \in Seq(Records) /\ super \in Nat /\ Len(log) \in Nat /\ super <= Len(log)
      /\ stamp \in Nat /\ stamp <= super
  BY LenProperties DEF TypeInv
<1>2. SubSeq(log, 1, super) \in Seq(Records)
  BY CatalogTyped
<1>3. SubSeq(log, stamp + 1, super) \in Seq(Records)
      /\ Len(SubSeq(log, stamp + 1, super)) = super - stamp
      /\ \A i \in 1..super - stamp : SubSeq(log, stamp + 1, super)[i] = log[stamp + i]
  <2>1. CASE stamp = super
    <3>1. SubSeq(log, stamp + 1, super) = <<>>
      BY <1>1, <2>1, SubSeqProperties, EmptySeq
    <3> QED BY <1>1, <2>1, <3>1
  <2>2. CASE stamp # super
    BY <1>1, <2>2, SubSeqProperties
  <2> QED BY <2>1, <2>2
<1> QED BY <1>2, <1>3, LiveOfRows, ClaimsOfKnows

LEMMA AtomicallyFailsSteps ==
  ASSUME TypeInv, CallInv, AtomicallyFails
  PROVE  Step
<1>1. /\ up /\ inside # "no" /\ Abort /\ up' = up /\ UNCHANGED <<acked, told, seen>>
  BY DEF AtomicallyFails, historyVars
<1>2. /\ up \in BOOLEAN /\ failed \in BOOLEAN /\ fromLog \in BOOLEAN
      /\ live \in LiveMaps /\ claims \in Catalogs
  BY DEF TypeInv
<1>3. ~failed /\ Leave /\ super' = super /\ HistStep
  BY <1>1 DEF Abort, HistStep
<1>4. CASE log' = SubSeq(log, 1, super) /\ Rebuild(super) /\ UNCHANGED failed
  <2>1. StopStep
    BY <1>1, <1>2, <1>3, <1>4, CutTyped DEF StopStep, Rebuild, Leave
  <2> QED BY <1>1, <1>2, <1>3, <1>4, <2>1 DEF Step, FileStep, CallStep, Rebuild
<1>5. CASE /\ log' \in {log, SubSeq(log, 1, super)}
           /\ failed' = TRUE
           /\ live' \in {live, NothingLive}
           /\ claims' \in {claims, NothingClaimed}
           /\ UNCHANGED <<stamp, fromLog>>
  <2>1. StopStep
    BY <1>1, <1>2, <1>3, <1>5, NothingLiveTyped, NothingClaimedTyped DEF StopStep, Leave
  <2> QED BY <1>1, <1>2, <1>3, <1>5, <2>1 DEF Step, FileStep, CallStep
<1> QED BY <1>1, <1>4, <1>5 DEF Abort

LEMMA CommitAtomicallySteps ==
  ASSUME TypeInv, CallInv, CommitAtomically
  PROVE  Step
<1>1. /\ up /\ inside # "no" /\ todo = <<>> /\ UNCHANGED <<up, log, live, claims, fromLog>>
      /\ Leave /\ Witness
  BY DEF CommitAtomically
<1>2. super \in Nat /\ Len(log) \in Nat /\ super <= Len(log) /\ failed \in BOOLEAN /\ ~failed
  BY <1>1, LenProperties DEF TypeInv, CallInv
<1>3. /\ super' \in super..Len(log) /\ stamp' \in {stamp, super'} /\ failed' \in BOOLEAN
      /\ super' \in {super, Len(log)}
      /\ failed' \/ super' = Len(log)
      /\ acked' \subseteq acked \cup {log'[i] : i \in 1..super'}
  <2>1. CASE CommitDone
    <3>1. super' = Len(log) /\ failed' = failed /\ stamp' \in {stamp, super'}
      BY <1>1, <2>1 DEF CommitDone, CommitMoves
    <3>2. CASE acked' = acked \cup {log[i] : i \in super + 1..Len(log)}
      BY <1>1, <1>2, <3>1, <3>2
    <3>3. CASE acked' # acked \cup {log[i] : i \in super + 1..Len(log)}
      BY <1>1, <1>2, <3>1, <3>3 DEF CommitAtomically
    <3> QED BY <3>2, <3>3
  <2>2. CASE ~CommitDone
    <3>1. super' \in {super, Len(log)} /\ failed' = TRUE /\ stamp' = stamp /\ acked' = acked
      BY <2>2 DEF CommitAtomically
    <3> QED BY <1>2, <3>1
  <2> QED BY <2>1, <2>2
<1>4. KeepStep
  BY <1>1, <1>2, <1>3 DEF KeepStep
<1> QED BY <1>1, <1>3, <1>4 DEF Step, FileStep, CallStep, HistStep, Witness

LEMMA CrashSteps ==
  ASSUME TypeInv, CallInv, Crash
  PROVE  Step
<1>1. StopStep
  BY NothingLiveTyped, NothingClaimedTyped DEF StopStep, Crash, Leave
<1>2. HistStep /\ stamp' = stamp /\ failed' \in BOOLEAN /\ setId' = NoId
  BY DEF HistStep, Crash, historyVars, Leave
<1> QED BY <1>1, <1>2 DEF Step, FileStep, CallStep

LEMMA ReopenSteps ==
  ASSUME TypeInv, CallInv, Reopen
  PROVE  Step
<1>1. /\ ~up /\ up' = TRUE /\ Rebuild(super)
      /\ UNCHANGED <<log, super, failed, callVars, acked, told, seen>>
  BY DEF Reopen, historyVars
<1>2. ~failed /\ Len(log) = super /\ inside = "no" /\ todo = <<>> /\ failed \in BOOLEAN
  BY <1>1 DEF CallInv, TypeInv
<1>3. log = SubSeq(log, 1, super)
  <2>1. /\ SubSeq(log, 1, super) \in Seq(Records) /\ log \in Seq(Records)
        /\ Len(SubSeq(log, 1, super)) = Len(log)
        /\ \A i \in 1..super : SubSeq(log, 1, super)[i] = log[i]
    BY <1>2, CatalogTyped DEF TypeInv
  <2> QED BY <1>2, <2>1, SeqEqual
<1>4. StopStep
  BY <1>1, <1>2, <1>3, CutTyped DEF StopStep, Rebuild, callVars
<1>5. HistStep /\ stamp' = super' /\ setId' = setId
  BY <1>1 DEF HistStep, Rebuild, callVars
<1> QED BY <1>1, <1>2, <1>4, <1>5 DEF Step, FileStep, CallStep

-----------------------------------------------------------------------------
(* The invariant, and what a step does to the file.                        *)

(* A set is whole in front of the commit point, and behind it a marker is  *)
(* only that of the set being written.                                     *)
WholeInv ==
  /\ SetsWhole
  /\ ~failed /\ inside # "set" => \A i \in super + 1..Len(log) : log[i].key # Marker

(* The generations of an identity grow along the log.                      *)
GenerationsGrow ==
  \A i, j \in 1..Len(log) :
    i < j /\ log[i].key = log[j].key /\ log[i].key # Marker => log[i].gen < log[j].gen

(* What was readable or acknowledged is in front of the commit point.      *)
HistInv == seen \cup acked \subseteq {log[i] : i \in 1..super}

Inv ==
  /\ TypeInv /\ CallInv /\ RowsInv /\ CatInv /\ SetInv
  /\ WholeInv /\ GenerationsGrow /\ HistInv /\ OneEffectPerId

LEMMA NextSteps ==
  ASSUME TypeInv, CallInv, RowsInv, CatInv, SetInv, Next
  PROVE  Step
<1>1. CASE \E action \in Actions : ApplyAction(action)
  BY <1>1, ApplyActionSteps
<1>2. CASE \E offer \in Offered : AppendUncommitted(offer)
  BY <1>2, AppendUncommittedSteps
<1>3. CASE \E key \in Keys : HideRow(key)
  BY <1>3, HideRowSteps
<1>4. CASE \E records \in Batches : AppendBatch(records)
  BY <1>4, SourceAssumption, AppendBatchSteps
<1>5. CASE \E feed \in Feeds : MergeIngest(feed[1], feed[2])
  <2>1. PICK feed \in Feeds : MergeIngest(feed[1], feed[2])
    BY <1>5
  <2>2. MergeSourceAndEdits(feed[1], feed[2]) \in Seq(Offers)
    BY SourceAssumption, MergeTyped
  <2> QED BY <2>1, <2>2, AppendBatchSteps DEF MergeIngest
<1>6. CASE \E feed \in Feeds : ChangelogIngest(feed[1], feed[2])
  <2>1. PICK feed \in Feeds : ChangelogIngest(feed[1], feed[2])
    BY <1>6
  <2>2. SnapshotChangelog(feed[1], feed[2]) \in Seq(Offers)
    BY SourceAssumption, ChangelogIs
  <2> QED BY <2>1, <2>2, AppendBatchSteps DEF ChangelogIngest
<1>7. CASE \E id \in Ids, set \in ChangeSets : ApplyChangeSet(id, set)
  BY <1>7, ApplyChangeSetSteps
<1> QED BY <1>1, <1>2, <1>3, <1>4, <1>5, <1>6, <1>7, CommitSteps, CatalogUnreadSteps,
           WriteNextSteps, AtomicallyFailsSteps, CommitAtomicallySteps, CrashSteps, ReopenSteps
           DEF Next

LEMMA PutIs ==
  ASSUME TypeInv, NEW rec, NEW catalog, PutStep(rec, catalog)
  PROVE  /\ log' = Append(log, rec) /\ log' \in Seq(Records) /\ Len(log) \in Nat
         /\ Len(log') = Len(log) + 1 /\ log'[Len(log) + 1] = rec
         /\ \A i \in 1..Len(log) : log'[i] = log[i]
         /\ super \in 0..Len(log) /\ super' \in super..Len(log) + 1
         /\ live' \in LiveMaps /\ catalog \in Catalogs /\ claims' \in Catalogs
         /\ rec \in Records /\ rec.key \in Keys \cup {Marker}
         /\ \A k \in Keys \cup {Marker} : live'[k] = IF k = rec.key THEN RowOf(rec) ELSE live[k]
<1>1. log \in Seq(Records) /\ Len(log) \in Nat /\ live \in LiveMaps /\ claims \in Catalogs
      /\ super \in 0..Len(log)
  BY LenProperties DEF TypeInv
<1>2. /\ rec \in Records /\ log' = Append(log, rec) /\ live' = Install(live, rec)
      /\ claims' = Remember(catalog, rec) /\ super' \in super..Len(log) + 1
      /\ catalog = claims \/ catalog = Catalog
  BY DEF PutStep
<1>3. catalog \in Catalogs
  BY <1>1, <1>2, CatalogTyped
<1>4. rec.key \in Keys \cup {Marker}
  BY <1>2, RecordParts
<1>5. /\ Append(log, rec) \in Seq(Records) /\ Len(Append(log, rec)) = Len(log) + 1
      /\ Append(log, rec)[Len(log) + 1] = rec
      /\ \A i \in 1..Len(log) : Append(log, rec)[i] = log[i]
  BY <1>1, <1>2, AppendProperties
<1>6. claims' \in Catalogs
  BY <1>2, <1>3, RememberIs
<1>7. live' \in LiveMaps
      /\ \A k \in Keys \cup {Marker} : live'[k] = IF k = rec.key THEN RowOf(rec) ELSE live[k]
  BY <1>1, <1>2, InstallIs
<1> QED BY <1>1, <1>2, <1>3, <1>4, <1>5, <1>6, <1>7

LEMMA StopIs ==
  ASSUME TypeInv, StopStep
  PROVE  /\ log' \in Seq(Records) /\ Len(log) \in Nat /\ super \in 0..Len(log)
         /\ Len(log') \in Nat /\ Len(log') <= Len(log) /\ super' = super /\ super <= Len(log')
         /\ \A i \in 1..Len(log') : log'[i] = log[i]
         /\ log' = SubSeq(log, 1, super) => Len(log') = super
<1>1. log \in Seq(Records) /\ Len(log) \in Nat /\ super \in 0..Len(log)
  BY LenProperties DEF TypeInv
<1>2. CASE log' = log
  <2>1. log = SubSeq(log, 1, super) => Len(log) = super
    BY CatalogTyped
  <2> QED BY <1>1, <1>2, <2>1 DEF StopStep
<1>3. CASE log' = SubSeq(log, 1, super)
  <2>1. /\ log' \in Seq(Records) /\ Len(log') = super
        /\ \A i \in 1..super : log'[i] = log[i]
    BY <1>3, CatalogTyped
  <2> QED BY <1>1, <2>1 DEF StopStep
<1> QED BY <1>2, <1>3 DEF StopStep

(* The commit point never moves back, and the records in front of it stay. *)
LEMMA CommittedStays ==
  ASSUME TypeInv, FileStep
  PROVE  /\ log' \in Seq(Records) /\ super \in Nat /\ super' \in Nat
         /\ super <= super' /\ super' <= Len(log') /\ Len(log') \in Nat
         /\ \A i \in 1..super : log'[i] = log[i]
         /\ live' \in LiveMaps /\ claims' \in Catalogs /\ fromLog' \in BOOLEAN /\ up' \in BOOLEAN
<1>1. log \in Seq(Records) /\ Len(log) \in Nat /\ super \in 0..Len(log) /\ live \in LiveMaps
      /\ claims \in Catalogs /\ up \in BOOLEAN /\ fromLog \in BOOLEAN
  BY LenProperties DEF TypeInv
<1>2. ASSUME NEW rec, NEW catalog, PutStep(rec, catalog)
      PROVE  /\ log' \in Seq(Records) /\ super' \in Nat
             /\ super <= super' /\ super' <= Len(log') /\ Len(log') \in Nat
             /\ \A i \in 1..super : log'[i] = log[i]
             /\ live' \in LiveMaps /\ claims' \in Catalogs /\ fromLog' \in BOOLEAN
             /\ up' \in BOOLEAN
  <2>1. (fromLog' = fromLog \/ fromLog' = TRUE) /\ up' \in BOOLEAN
    BY <1>1, <1>2 DEF PutStep, TypeInv
  <2>2. fromLog' \in BOOLEAN
    BY <1>1, <2>1
  <2> QED BY <1>1, <1>2, <2>1, <2>2, PutIs
<1>3. CASE KeepStep
  <2>1. /\ log' = log /\ live' = live /\ up' = up /\ super' \in super..Len(log)
        /\ claims' \in {claims, NothingClaimed, Catalog} /\ (fromLog' = fromLog \/ fromLog' = TRUE)
    BY <1>3 DEF KeepStep
  <2>2. fromLog' \in BOOLEAN
    BY <1>1, <2>1
  <2>3. claims' \in Catalogs
    BY <1>1, <2>1, NothingClaimedTyped, CatalogTyped
  <2> QED BY <1>1, <2>1, <2>2, <2>3
<1>4. CASE StopStep
  BY <1>1, <1>4, StopIs DEF StopStep
<1> QED BY <1>1, <1>2, <1>3, <1>4 DEF FileStep

-----------------------------------------------------------------------------
(* Every part of the invariant is kept.                                    *)

LEMMA PendingSeqs == Seq(Offers) \subseteq Seq(Pendings)
<1> SUFFICES ASSUME NEW s \in Seq(Offers) PROVE s \in Seq(Pendings)
  OBVIOUS
<1>1. Len(s) \in Nat /\ s \in [1..Len(s) -> Offers]
  BY LenProperties
<1>2. s \in [1..Len(s) -> Pendings]
  BY <1>1, OffersPend
<1> QED BY <1>1, <1>2, SeqDef

LEMMA TailIs ==
  ASSUME NEW S, NEW s \in Seq(S), s # <<>>
  PROVE  /\ Tail(s) \in Seq(S) /\ Len(s) \in Nat /\ 1 <= Len(s)
         /\ Len(Tail(s)) = Len(s) - 1
         /\ \A i \in 1..Len(s) - 1 : Tail(s)[i] = s[i + 1]
         /\ s[1] \in S
<1>1. Len(s) \in Nat /\ Len(s) # 0 /\ 1 \in 1..Len(s)
  BY LenProperties, EmptySeq
<1> QED BY <1>1, HeadTailProperties, ElementOfSeq

LEMMA TypeNext ==
  ASSUME TypeInv, CallInv, Step
  PROVE  TypeInv'
<1>1. FileStep /\ CallStep /\ stamp' \in {stamp, super'} /\ failed' \in BOOLEAN
  BY DEF Step
<1>2. /\ log' \in Seq(Records) /\ super \in Nat /\ super' \in Nat
      /\ super <= super' /\ super' <= Len(log') /\ Len(log') \in Nat
      /\ live' \in LiveMaps /\ claims' \in Catalogs /\ fromLog' \in BOOLEAN /\ up' \in BOOLEAN
  BY <1>1, CommittedStays
<1>3. stamp' \in 0..super'
  BY <1>1, <1>2 DEF TypeInv
<1>4. /\ todo \in Seq(Pendings) /\ inside \in {"no", "batch", "set"} /\ setId \in Ids \cup {NoId}
  BY DEF TypeInv
<1>5. /\ todo' \in Seq(Pendings) /\ inside' \in {"no", "batch", "set"}
      /\ setId' \in Ids \cup {NoId}
  <2>1. CASE inside = "no" /\ up /\ up' /\ UNCHANGED callVars
    BY <1>4, <2>1 DEF callVars
  <2>2. CASE Leave /\ up /\ up'
    BY <2>2 DEF Leave
  <2>3. CASE StopStep /\ setId' \in {setId, NoId}
    BY <1>4, <2>3 DEF StopStep
  <2>4. CASE EntersBatch
    BY <2>4, PendingSeqs DEF EntersBatch
  <2>5. CASE \E id \in Ids, set \in ChangeSets : EntersSet(id, set)
    <3>1. PICK id \in Ids, set \in ChangeSets : EntersSet(id, set)
      BY <2>5
    <3>2. SetRecords(id, set.edits) \in Seq(Pendings)
      BY SetRecordsAre
    <3> QED BY <3>1, <3>2 DEF EntersSet
  <2>6. CASE Writes
    BY <1>4, <2>6, TailIs DEF Writes
  <2> QED BY <1>1, <2>1, <2>2, <2>3, <2>4, <2>5, <2>6 DEF CallStep
<1> QED BY <1>1, <1>2, <1>3, <1>5 DEF TypeInv

LEMMA CallNext ==
  ASSUME TypeInv, CallInv, Step
  PROVE  CallInv'
<1>1. CallStep
  BY DEF Step
<1>2. CASE inside = "no" /\ up /\ up' /\ UNCHANGED callVars
  BY <1>2 DEF callVars, CallInv
<1>3. CASE Leave /\ up /\ up'
  BY <1>3 DEF Leave, CallInv
<1>4. CASE StopStep /\ setId' \in {setId, NoId}
  BY <1>4, StopIs DEF StopStep, CallInv
<1>5. CASE EntersBatch
  BY <1>5 DEF EntersBatch, CallInv
<1>6. CASE \E id \in Ids, set \in ChangeSets : EntersSet(id, set)
  BY <1>6 DEF EntersSet, CallInv
<1>7. CASE Writes
  <2>1. inside # "no" /\ up /\ ~failed /\ up' = up /\ failed' = failed /\ inside' = inside
        /\ todo # <<>> /\ todo' = Tail(todo)
    BY <1>7 DEF Writes, CallInv
  <2>2. inside = "batch" => todo' \in Seq(Offers)
    BY <2>1, TailIs DEF CallInv
  <2> QED BY <2>1, <2>2 DEF CallInv
<1> QED BY <1>1, <1>2, <1>3, <1>4, <1>5, <1>6, <1>7 DEF CallStep

LEMMA RowsNext ==
  ASSUME TypeInv, RowsInv, FileStep
  PROVE  RowsInv'
<1>1. log \in Seq(Records) /\ live \in LiveMaps
  BY DEF TypeInv
<1>2. ASSUME NEW rec, NEW catalog, PutStep(rec, catalog)
      PROVE  RowsInv'
  <2>1. RowsOver(live, NothingLive, log)
    BY <1>2 DEF PutStep, RowsInv, RowsAre
  <2>2. rec \in Records /\ log' = Append(log, rec) /\ live' = Install(live, rec)
    BY <1>2 DEF PutStep
  <2>3. RowsOver(Install(live, rec), NothingLive, Append(log, rec))
    BY <1>1, <2>1, <2>2, RowsAppend
  <2>4. RowsAre(live', log')
    BY <2>2, <2>3 DEF RowsAre
  <2> QED BY <2>4 DEF RowsInv
<1>3. CASE KeepStep
  BY <1>3 DEF KeepStep, RowsInv
<1>4. CASE StopStep
  <2> SUFFICES ASSUME up', ~failed' PROVE RowsAre(live', log')
    BY DEF RowsInv
  <2>1. live' = LiveOf(log') /\ log' \in Seq(Records)
    BY <1>4, StopIs DEF StopStep
  <2> QED BY <2>1, LiveOfRows
<1> QED BY <1>2, <1>3, <1>4 DEF FileStep

LEMMA CatNext ==
  ASSUME TypeInv, CallInv, CatInv, SetInv, FileStep
  PROVE  CatInv'
<1>1. /\ log \in Seq(Records) /\ Len(log) \in Nat /\ super \in Nat /\ super <= Len(log)
      /\ claims \in Catalogs /\ stamp \in Nat /\ stamp <= super /\ fromLog \in BOOLEAN
  BY LenProperties DEF TypeInv
<1>2. ASSUME NEW rec, NEW catalog, PutStep(rec, catalog)
      PROVE  CatInv'
  <2>1. /\ up /\ ~failed /\ rec \in Records /\ claims' = Remember(catalog, rec)
        /\ \/ catalog = claims /\ fromLog' = fromLog
           \/ catalog = Catalog /\ fromLog' = TRUE
        /\ \/ rec.id = NoId
           \/ fromLog' /\ \A i \in 1..Len(log) : log[i].id # rec.id
           \/ rec.hidden /\ \E i \in 1..Len(log) : log[i].id = rec.id
           \/ inside = "set"
    BY <1>2 DEF PutStep
  <2>2. /\ log' = Append(log, rec)
        /\ Len(log') = Len(log) + 1 /\ log'[Len(log) + 1] = rec
        /\ \A i \in 1..Len(log) : log'[i] = log[i]
        /\ super' \in super..Len(log) + 1
        /\ catalog \in Catalogs
    BY <1>2, PutIs
  <2>3. CASE fromLog'
    <3>1. Knows(Catalog, log) /\ (fromLog => Knows(claims, log))
      BY <2>1, CatalogKnows DEF CatInv
    <3>2. Knows(catalog, log)
      BY <2>1, <2>3, <3>1
    <3>3. Knows(claims', log')
      BY <1>1, <2>1, <2>2, <3>2, KnowsAppend
    <3> QED BY <2>3, <3>3 DEF CatInv
  <2>4. CASE ~fromLog'
    <3>1. catalog = claims /\ ~fromLog
      BY <2>1, <2>4
    <3>2. \A id \in Ids :
            /\ \A i \in super + 1..Len(log) :
                 log[i].id = id => \E j \in 1..super : log[j].id = id
            /\ claims[id] # Absent => \E j \in 1..super : log[j].id = id
      BY <2>1, <3>1 DEF CatInv
    <3>3. rec.id # NoId => \E j \in 1..super : log[j].id = rec.id
      <4>1. rec.id # NoId => \E i \in 1..Len(log) : log[i].id = rec.id
        BY <2>1, <2>4, <3>1 DEF SetInv
      <4>2. rec.id # NoId => rec.id \in Ids
        BY <2>1, RecordParts
      <4> QED BY <1>1, <3>2, <4>1, <4>2
    <3>4. ASSUME NEW id \in Ids
          PROVE  /\ \A i \in super' + 1..Len(log') :
                      log'[i].id = id => \E j \in 1..super' : log'[j].id = id
                 /\ claims'[id] # Absent => \E j \in 1..super' : log'[j].id = id
      <4>1. (\E j \in 1..super : log[j].id = id) => \E j \in 1..super' : log'[j].id = id
        BY <1>1, <2>2
      <4>2. ASSUME NEW i \in super + 1..Len(log) + 1, log'[i].id = id
            PROVE  \E j \in 1..super : log[j].id = id
        <5>1. CASE i = Len(log) + 1
          BY <2>2, <3>3, <4>2, <5>1
        <5>2. CASE i # Len(log) + 1
          <6>1. i \in super + 1..Len(log) /\ i \in 1..Len(log)
            BY <1>1, <5>2
          <6>2. log[i].id = id
            BY <2>2, <4>2, <6>1
          <6> QED BY <3>2, <6>1, <6>2
        <5> QED BY <5>1, <5>2
      <4>3. ASSUME claims'[id] # Absent PROVE \E j \in 1..super : log[j].id = id
        <5>1. claims'[id] = IF id # rec.id THEN claims[id]
                            ELSE IF claims[id] = Absent THEN ClaimOf(rec)
                                 ELSE Extend(claims[id], rec)
          BY <1>1, <2>1, <3>1, RememberIs
        <5>2. CASE id # rec.id
          BY <3>2, <4>3, <5>1, <5>2
        <5>3. CASE id = rec.id
          BY <3>3, <5>3
        <5> QED BY <5>2, <5>3
      <4>4. super' + 1..Len(log') \subseteq super + 1..Len(log) + 1
        BY <1>1, <2>2
      <4> QED BY <4>1, <4>2, <4>3, <4>4
    <3> QED BY <2>4, <3>4 DEF CatInv
  <2> QED BY <2>3, <2>4
<1>3. CASE KeepStep
  <2> SUFFICES ASSUME up', ~failed' PROVE CatInv'
    BY DEF CatInv
  <2>1. /\ up /\ ~failed /\ log' = log /\ super' \in super..Len(log)
        /\ \/ claims' = claims /\ fromLog' = fromLog
           \/ claims' = NothingClaimed /\ ~fromLog /\ fromLog' = fromLog
           \/ claims' = Catalog /\ fromLog' = TRUE
    BY <1>3 DEF KeepStep
  <2>2. CASE claims' = Catalog /\ fromLog' = TRUE
    BY <2>1, <2>2, CatalogKnows DEF CatInv
  <2>3. CASE fromLog' = fromLog /\ fromLog /\ claims' = claims
    BY <2>1, <2>3 DEF CatInv
  <2>4. CASE fromLog' = fromLog /\ ~fromLog /\ claims' \in {claims, NothingClaimed}
    <3>1. \A id \in Ids :
            /\ \A i \in super + 1..Len(log) :
                 log[i].id = id => \E j \in 1..super : log[j].id = id
            /\ claims[id] # Absent => \E j \in 1..super : log[j].id = id
      BY <2>1, <2>4 DEF CatInv
    <3>2. \A id \in Ids : claims'[id] # Absent => claims[id] # Absent
      BY <2>4 DEF NothingClaimed
    <3>3. \A id \in Ids :
            /\ \A i \in super' + 1..Len(log') :
                 log'[i].id = id => \E j \in 1..super' : log'[j].id = id
            /\ claims'[id] # Absent => \E j \in 1..super' : log'[j].id = id
      <4>1. 1..super \subseteq 1..super' /\ super' + 1..Len(log) \subseteq super + 1..Len(log)
        BY <1>1, <2>1
      <4> QED BY <2>1, <3>1, <3>2, <4>1
    <3> QED BY <2>4, <3>3 DEF CatInv
  <2> QED BY <1>1, <2>1, <2>2, <2>3, <2>4
<1>4. CASE StopStep
  <2> SUFFICES ASSUME up', ~failed' PROVE CatInv'
    BY DEF CatInv
  <2>1. /\ log' = SubSeq(log, 1, super) /\ super' = super
        /\ \/ claims' = ClaimsOf(log') /\ fromLog' = TRUE
           \/ claims' = ClaimsOf(SubSeq(log, stamp + 1, super)) /\ fromLog' = FALSE
    BY <1>4 DEF StopStep
  <2>2. /\ log' \in Seq(Records) /\ Len(log') = super
        /\ \A i \in 1..super : log'[i] = log[i]
    BY <1>4, <2>1, StopIs
  <2>3. CASE fromLog'
    <3>1. Knows(claims', log')
      BY <2>1, <2>2, <2>3, ClaimsOfKnows
    <3> QED BY <2>3, <3>1 DEF CatInv
  <2>4. CASE ~fromLog'
    <3> DEFINE s == SubSeq(log, stamp + 1, super)
    <3>1. /\ s \in Seq(Records) /\ Len(s) = super - stamp
          /\ \A i \in 1..super - stamp : s[i] = log[stamp + i]
      BY CutTyped
    <3>2. claims' = ClaimsOf(s)
      BY <2>1, <2>4
    <3> HIDE DEF s
    <3>3. Knows(claims', s)
      BY <3>1, <3>2, ClaimsOfKnows
    <3>4. ASSUME NEW id \in Ids, claims'[id] # Absent
          PROVE  \E j \in 1..super' : log'[j].id = id
      <4>1. PICK i \in 1..Len(s) : s[i].id = id
        BY <3>3, <3>4 DEF Knows
      <4>2. stamp + i \in 1..super /\ log[stamp + i].id = id
        BY <1>1, <3>1, <4>1
      <4> QED BY <2>1, <2>2, <4>2
    <3>5. super' + 1..Len(log') = {}
      BY <1>1, <2>1, <2>2
    <3> QED BY <2>4, <3>4, <3>5 DEF CatInv
  <2> QED BY <2>3, <2>4
<1> QED BY <1>2, <1>3, <1>4 DEF FileStep

LEMMA GenNext ==
  ASSUME TypeInv, RowsInv, GenerationsGrow, FileStep
  PROVE  GenerationsGrow'
<1>1. log \in Seq(Records) /\ Len(log) \in Nat
  BY LenProperties DEF TypeInv
<1>2. ASSUME NEW rec, NEW catalog, PutStep(rec, catalog)
      PROVE  GenerationsGrow'
  <2> DEFINE n == Len(log)
  <2>1. /\ Len(log') = n + 1 /\ log'[n + 1] = rec /\ \A i \in 1..n : log'[i] = log[i]
        /\ rec.key \in Keys \cup {Marker}
    BY <1>2, PutIs
  <2>2. RowsAre(live, log) /\ (rec.key # Marker => rec.gen = NextGen(rec.key))
    BY <1>2 DEF PutStep, RowsInv
  <2>3. \A i \in 1..n : log[i] \in Records /\ log[i].gen \in Nat
    BY <1>1, ElementOfSeq, RecordParts
  <2>4. ASSUME NEW i \in 1..n, log[i].key = rec.key, rec.key # Marker
        PROVE  log[i].gen < rec.gen
    <3>1. PICK last \in 1..n :
            /\ log[last].key = rec.key /\ live[rec.key] = RowOf(log[last])
            /\ \A j \in last + 1..n : log[j].key # rec.key
      BY <2>1, <2>2, <2>4 DEF RowsAre, RowsOver
    <3>2. live[rec.key] # Absent /\ live[rec.key].gen = log[last].gen
      BY <2>3, <3>1, RowTyped DEF RowOf
    <3>3. rec.gen = log[last].gen + 1
      BY <2>2, <2>4, <3>2 DEF NextGen
    <3>4. log[i].gen <= log[last].gen
      <4>1. ~(i \in last + 1..n)
        BY <2>4, <3>1
      <4>2. i = last \/ i < last
        BY <1>1, <4>1
      <4>3. i < last => log[i].gen < log[last].gen
        BY <2>4, <3>1 DEF GenerationsGrow
      <4> QED BY <2>3, <4>2, <4>3
    <3> QED BY <2>3, <3>3, <3>4
  <2>5. ASSUME NEW i \in 1..n + 1, NEW j \in 1..n + 1, i < j,
               log'[i].key = log'[j].key, log'[i].key # Marker
        PROVE  log'[i].gen < log'[j].gen
    <3>1. i \in 1..n
      BY <1>1, <2>5
    <3>2. CASE j = n + 1
      BY <2>1, <2>4, <2>5, <3>1, <3>2
    <3>3. CASE j # n + 1
      <4>1. j \in 1..n
        BY <1>1, <3>3
      <4> QED BY <2>1, <2>5, <3>1, <4>1 DEF GenerationsGrow
    <3> QED BY <3>2, <3>3
  <2> HIDE DEF n
  <2> QED BY <2>1, <2>5 DEF GenerationsGrow
<1>3. CASE KeepStep
  BY <1>3 DEF KeepStep, GenerationsGrow
<1>4. CASE StopStep
  <2>1. Len(log') \in Nat /\ Len(log') <= Len(log) /\ \A i \in 1..Len(log') : log'[i] = log[i]
    BY <1>4, StopIs
  <2>2. 1..Len(log') \subseteq 1..Len(log)
    BY <1>1, <2>1
  <2> QED BY <2>1, <2>2 DEF GenerationsGrow
<1> QED BY <1>2, <1>3, <1>4 DEF FileStep

LEMMA HistNext ==
  ASSUME TypeInv, HistInv, FileStep, HistStep
  PROVE  HistInv'
<1>1. /\ super \in Nat /\ super' \in Nat /\ super <= super' /\ \A i \in 1..super : log'[i] = log[i]
  BY CommittedStays
<1>2. {log[i] : i \in 1..super} \subseteq {log'[i] : i \in 1..super'}
  <2> SUFFICES ASSUME NEW i \in 1..super PROVE log[i] \in {log'[j] : j \in 1..super'}
    OBVIOUS
  <2>1. i \in 1..super' /\ log'[i] = log[i]
    BY <1>1
  <2> QED BY <2>1
<1>3. /\ seen' \in {seen, seen \cup {log'[i] : i \in 1..super'}}
      /\ acked' \subseteq acked \cup {log'[i] : i \in 1..super'}
  BY DEF HistStep
<1> DEFINE new == {log'[i] : i \in 1..super'}
           old == {log[i] : i \in 1..super}
<1>4. seen \subseteq old /\ acked \subseteq old
  BY DEF HistInv
<1>5. HistInv' <=> seen' \cup acked' \subseteq new
  BY DEF HistInv
<1> HIDE DEF new, old
<1> QED BY <1>2, <1>3, <1>4, <1>5 DEF new, old

(* An id takes effect once: a visible record joins a record of its id only *)
(* as a member of the set that is being written.                           *)
LEMMA EffectNext ==
  ASSUME TypeInv, CallInv, SetInv, OneEffectPerId, FileStep
  PROVE  OneEffectPerId'
<1>1. /\ log \in Seq(Records) /\ Len(log) \in Nat /\ super \in Nat /\ super <= Len(log)
      /\ live \in LiveMaps
  BY LenProperties DEF TypeInv
<1>2. ASSUME NEW rec, NEW catalog, PutStep(rec, catalog)
      PROVE  OneEffectPerId'
  <2> DEFINE n == Len(log)
  <2>1. /\ Len(log') = n + 1 /\ log'[n + 1] = rec /\ \A i \in 1..n : log'[i] = log[i]
    BY <1>2, PutIs
  <2>2. ASSUME NEW i \in 1..n, log[i].id = rec.id, rec.id # NoId, ~rec.hidden
        PROVE  log[i].key # rec.key /\ \E m \in 1..i : log[m].key = Marker /\ log[m].id = log[i].id
    <3>1. inside = "set" /\ todo # <<>> /\ rec = Resolved(todo[1])
      BY <1>2, <2>2 DEF PutStep
    <3>2. todo[1] \in Pendings /\ 1 \in 1..Len(todo)
      BY <3>1, TailIs DEF TypeInv
    <3>3. todo[1].key # Marker /\ todo[1].body = Hide => live[todo[1].key] # Absent
      BY <3>1, <3>2 DEF SetInv
    <3>4. rec.key = todo[1].key /\ rec.id = todo[1].id
      BY <1>1, <3>1, <3>2, <3>3, ResolvedIs
    <3>5. rec.id = setId
      BY <3>1, <3>2, <3>4 DEF SetInv
    <3>6. i \in super + 1..n
      <4>1. ~(i \in 1..super)
        BY <2>2, <3>1, <3>5 DEF SetInv
      <4> QED BY <1>1, <4>1
    <3>7. log[i].key # rec.key
      BY <3>1, <3>2, <3>4, <3>6 DEF SetInv
    <3>8. super + 1 \in 1..i /\ super + 1 \in super + 1..n
      BY <1>1, <3>6
    <3>9. log[super + 1].key = Marker /\ log[super + 1].id = setId
      BY <3>1, <3>8 DEF SetInv
    <3> QED BY <2>2, <3>5, <3>7, <3>8, <3>9
  <2>3. ASSUME NEW i \in 1..n + 1, NEW j \in 1..n + 1, i < j, log'[i].id = log'[j].id,
               log'[i].id # NoId, ~log'[i].hidden, ~log'[j].hidden
        PROVE  /\ log'[i].key # log'[j].key
               /\ \E m \in 1..i : log'[m].key = Marker /\ log'[m].id = log'[i].id
    <3>1. i \in 1..n /\ 1..i \subseteq 1..n
      BY <1>1, <2>3
    <3>2. CASE j = n + 1
      <4>1. log'[i] = log[i] /\ log'[j] = rec
        BY <2>1, <3>1, <3>2
      <4>2. /\ log[i].key # rec.key
            /\ \E m \in 1..i : log[m].key = Marker /\ log[m].id = log[i].id
        BY <2>2, <2>3, <3>1, <4>1
      <4>3. PICK m \in 1..i : log[m].key = Marker /\ log[m].id = log[i].id
        BY <4>2
      <4>4. log'[m] = log[m]
        BY <2>1, <3>1
      <4> QED BY <4>1, <4>2, <4>3, <4>4
    <3>3. CASE j # n + 1
      <4>1. j \in 1..n /\ log'[i] = log[i] /\ log'[j] = log[j]
        BY <1>1, <2>1, <3>1, <3>3
      <4>2. /\ log[i].key # log[j].key
            /\ \E m \in 1..i : log[m].key = Marker /\ log[m].id = log[i].id
        BY <2>3, <3>1, <4>1 DEF OneEffectPerId
      <4>3. PICK m \in 1..i : log[m].key = Marker /\ log[m].id = log[i].id
        BY <4>2
      <4>4. log'[m] = log[m]
        BY <2>1, <3>1
      <4> QED BY <4>1, <4>2, <4>3, <4>4
    <3> QED BY <3>2, <3>3
  <2> HIDE DEF n
  <2> QED BY <2>1, <2>3 DEF OneEffectPerId
<1>3. CASE KeepStep
  BY <1>3 DEF KeepStep, OneEffectPerId
<1>4. CASE StopStep
  <2>1. Len(log') \in Nat /\ Len(log') <= Len(log) /\ \A i \in 1..Len(log') : log'[i] = log[i]
    BY <1>4, StopIs
  <2>2. 1..Len(log') \subseteq 1..Len(log) /\ \A i \in 1..Len(log') : 1..i \subseteq 1..Len(log')
    BY <1>1, <2>1
  <2>3. ASSUME NEW i \in 1..Len(log'), NEW j \in 1..Len(log'), i < j, log'[i].id = log'[j].id,
               log'[i].id # NoId, ~log'[i].hidden, ~log'[j].hidden
        PROVE  /\ log'[i].key # log'[j].key
               /\ \E m \in 1..i : log'[m].key = Marker /\ log'[m].id = log'[i].id
    <3>1. /\ log[i].key # log[j].key
          /\ \E m \in 1..i : log[m].key = Marker /\ log[m].id = log[i].id
      BY <2>1, <2>2, <2>3 DEF OneEffectPerId
    <3> QED BY <2>1, <2>2, <3>1
  <2> QED BY <2>3 DEF OneEffectPerId
<1> QED BY <1>2, <1>3, <1>4 DEF FileStep

LEMMA WholeNext ==
  ASSUME TypeInv, CallInv, SetInv, WholeInv, FileStep
  PROVE  WholeInv'
<1>1. /\ Len(log) \in Nat /\ super \in Nat /\ super <= Len(log)
  BY LenProperties DEF TypeInv
<1>2. /\ super' \in Nat /\ super <= super' /\ super' <= Len(log') /\ Len(log') \in Nat
      /\ \A i \in 1..super : log'[i] = log[i]
  BY CommittedStays
<1>3. ASSUME NEW m \in 1..super, log'[m].key = Marker, NEW k \in DOMAIN log'[m].members
      PROVE  \E i \in m + 1..super' : log'[i].key = k /\ log'[i].id = log'[m].id
  <2>1. log'[m] = log[m]
    BY <1>2
  <2>2. PICK i \in m + 1..super : log[i].key = k /\ log[i].id = log[m].id
    BY <1>3, <2>1 DEF WholeInv, SetsWhole
  <2>3. i \in 1..super /\ i \in m + 1..super'
    BY <1>1, <1>2
  <2> QED BY <1>2, <2>1, <2>2, <2>3
<1>4. ASSUME \A m \in super + 1..super' :
               log'[m].key = Marker =>
                 \A k \in DOMAIN log'[m].members :
                   \E i \in m + 1..super' : log'[i].key = k /\ log'[i].id = log'[m].id
      PROVE  SetsWhole'
  <2> SUFFICES ASSUME NEW m \in 1..super', log'[m].key = Marker,
                      NEW k \in DOMAIN log'[m].members
               PROVE  \E i \in m + 1..super' : log'[i].key = k /\ log'[i].id = log'[m].id
    BY DEF SetsWhole
  <2>1. m \in 1..super \/ m \in super + 1..super'
    BY <1>1, <1>2
  <2> QED BY <1>3, <1>4, <2>1
<1>5. ASSUME NEW rec, NEW catalog, PutStep(rec, catalog)
      PROVE  WholeInv'
  <2>1. /\ Len(log') = Len(log) + 1 /\ log'[Len(log) + 1] = rec
        /\ \A i \in 1..Len(log) : log'[i] = log[i]
    BY <1>5, PutIs
  <2>2. CASE inside = "set"
    <3>1. super' = super /\ inside' = "set"
      BY <1>5, <2>2 DEF PutStep
    <3>2. super + 1..super' = {}
      BY <1>1, <3>1
    <3> QED BY <1>4, <3>1, <3>2 DEF WholeInv
  <2>3. CASE inside # "set"
    <3>1. rec.key # Marker /\ \A i \in super + 1..Len(log) : log[i].key # Marker
      BY <1>5, <2>3 DEF PutStep, WholeInv
    <3>2. ASSUME NEW i \in super + 1..Len(log) + 1 PROVE log'[i].key # Marker
      <4>1. CASE i = Len(log) + 1
        BY <2>1, <3>1, <4>1
      <4>2. CASE i # Len(log) + 1
        <5>1. i \in super + 1..Len(log) /\ i \in 1..Len(log)
          BY <1>1, <4>2
        <5> QED BY <2>1, <3>1, <5>1
      <4> QED BY <4>1, <4>2
    <3>3. super + 1..super' \subseteq super + 1..Len(log) + 1
          /\ super' + 1..Len(log') \subseteq super + 1..Len(log) + 1
      BY <1>1, <1>2, <2>1
    <3> QED BY <1>4, <3>2, <3>3 DEF WholeInv
  <2> QED BY <2>2, <2>3
<1>6. CASE KeepStep
  <2>1. log' = log /\ super' \in super..Len(log) /\ (failed => failed' /\ super' = super)
    BY <1>6 DEF KeepStep
  <2>2. CASE failed
    <3>1. super' = super /\ failed'
      BY <2>1, <2>2
    <3>2. super + 1..super' = {}
      BY <1>1, <3>1
    <3> QED BY <1>4, <3>1, <3>2 DEF WholeInv
  <2>3. CASE ~failed /\ inside # "set"
    <3>1. \A i \in super + 1..Len(log) : log[i].key # Marker
      BY <2>3 DEF WholeInv
    <3>2. super + 1..super' \subseteq super + 1..Len(log)
          /\ super' + 1..Len(log') \subseteq super + 1..Len(log)
      BY <1>1, <1>2, <2>1
    <3> QED BY <1>4, <2>1, <3>1, <3>2 DEF WholeInv
  <2>4. CASE inside = "set"
    <3>1. /\ todo = <<>> /\ super' \in {super, Len(log)} /\ (failed' \/ super' = Len(log))
          /\ Len(todo) = 0
      BY <1>6, <2>4 DEF KeepStep
    <3>2. ASSUME NEW m \in super + 1..super', log'[m].key = Marker,
                 NEW k \in DOMAIN log'[m].members
          PROVE  \E i \in m + 1..super' : log'[i].key = k /\ log'[i].id = log'[m].id
      <4>1. super' = Len(log) /\ Len(log) # super /\ m \in super + 1..Len(log)
        BY <1>1, <3>1
      <4>2. m = super + 1
        BY <2>1, <2>4, <3>2, <4>1 DEF SetInv
      <4>3. PICK i \in super + 2..Len(log) : log[i].key = k
        BY <2>1, <2>4, <3>1, <3>2, <4>1, <4>2 DEF SetInv
      <4>4. i \in m + 1..super' /\ i \in super + 1..Len(log)
        BY <1>1, <4>1, <4>2
      <4>5. log[i].id = setId /\ log[m].id = setId
        BY <2>4, <4>1, <4>4 DEF SetInv
      <4> QED BY <2>1, <4>3, <4>4, <4>5
    <3>3. ~failed' => super' + 1..Len(log') = {}
      BY <1>1, <2>1, <3>1
    <3> QED BY <1>4, <3>2, <3>3 DEF WholeInv
  <2> QED BY <2>2, <2>3, <2>4
<1>7. CASE StopStep
  <2>1. super' = super /\ (log' = SubSeq(log, 1, super) => Len(log') = super)
    BY <1>7, StopIs
  <2>2. super + 1..super' = {}
    BY <1>1, <2>1
  <2>3. ~failed' => Len(log') = super
    BY <1>7, <2>1 DEF StopStep
  <2>4. ~failed' => super' + 1..Len(log') = {}
    BY <1>1, <2>1, <2>3
  <2> QED BY <1>4, <2>2, <2>4 DEF WholeInv
<1> QED BY <1>5, <1>6, <1>7 DEF FileStep

LEMMA SetNext ==
  ASSUME TypeInv, CallInv, CatInv, SetInv, Step
  PROVE  SetInv'
<1> SUFFICES ASSUME inside' = "set" PROVE SetInv'
  BY DEF SetInv
<1>1. /\ Len(log) \in Nat /\ super \in Nat /\ super <= Len(log) /\ live \in LiveMaps
      /\ todo \in Seq(Pendings)
  BY LenProperties DEF TypeInv
<1>2. (\E id \in Ids, set \in ChangeSets : EntersSet(id, set)) \/ Writes
  BY DEF Step, CallStep, CallInv, Leave, StopStep, EntersBatch, callVars
<1>3. ASSUME NEW id \in Ids, NEW set \in ChangeSets, EntersSet(id, set)
      PROVE  SetInv'
  <2> DEFINE recs == SetRecords(id, set.edits)
  <2>1. /\ setId' = id /\ todo' = recs /\ log' = log /\ live' = live /\ super' = Len(log)
        /\ up /\ ~failed /\ fromLog' = TRUE /\ Catalog[id] = Absent
        /\ \A k \in DOMAIN set.edits : set.edits[k] = Hide => live[k] # Absent
    BY <1>3 DEF EntersSet
  <2>2. /\ recs \in Seq(Pendings) /\ 1 <= Len(recs) /\ recs[1].key = Marker
        /\ \A i \in 2..Len(recs) :
             /\ recs[i].key \in DOMAIN set.edits /\ recs[i].key \in Keys
             /\ recs[i].body = set.edits[recs[i].key]
        /\ \A i \in 1..Len(recs) : recs[i].id = id
        /\ \A i, j \in 1..Len(recs) : recs[i].key = recs[j].key => i = j
        /\ \A k \in DOMAIN recs[1].members : \E i \in 2..Len(recs) : recs[i].key = k
    BY SetRecordsAre
  <2>3. \A i \in 1..Len(log) : log[i].id # id
    BY <2>1, CatalogKnows DEF Knows
  <2> HIDE DEF recs
  <2>4. super' + 1..Len(log') = {} /\ Len(recs) \in Nat
    BY <1>1, <2>1, <2>2, LenProperties
  <2>5. ASSUME NEW i \in 1..Len(recs), recs[i].key # Marker, recs[i].body = Hide
        PROVE  live[recs[i].key] # Absent
    <3>1. i \in 2..Len(recs)
      BY <2>2, <2>4, <2>5
    <3> QED BY <2>1, <2>2, <2>5, <3>1
  <2> QED BY <2>1, <2>2, <2>3, <2>4, <2>5 DEF SetInv
<1>4. CASE Writes
  <2>1. /\ inside = "set" /\ setId' = setId /\ super' = super /\ todo # <<>> /\ todo' = Tail(todo)
    BY <1>4 DEF Writes
  <2>2. PICK rec : PutStep(rec, claims)
    BY <1>4, <2>1 DEF Writes
  <2>3. rec = Resolved(todo[1]) /\ fromLog' = fromLog
    BY <2>1, <2>2 DEF PutStep
  <2> DEFINE n == Len(log)
  <2>4. /\ Len(log') = n + 1 /\ log'[n + 1] = rec /\ \A i \in 1..n : log'[i] = log[i]
        /\ rec \in Records
        /\ \A k \in Keys \cup {Marker} : live'[k] = IF k = rec.key THEN RowOf(rec) ELSE live[k]
    BY <2>2, PutIs
  <2>5. /\ Len(todo) \in Nat /\ 1 <= Len(todo) /\ Len(todo') = Len(todo) - 1
        /\ \A i \in 1..Len(todo) - 1 : todo'[i] = todo[i + 1]
        /\ todo[1] \in Pendings
    BY <1>1, <2>1, TailIs
  <2>6. /\ fromLog /\ setId \in Ids
        /\ \A i \in 1..Len(todo) :
             /\ todo[i].id = setId
             /\ todo[i].key # Marker /\ todo[i].body = Hide => live[todo[i].key] # Absent
             /\ \A j \in super + 1..n : log[j].key # todo[i].key
        /\ \A i, j \in 1..Len(todo) : todo[i].key = todo[j].key => i = j
        /\ \A i \in 1..super : log[i].id # setId
        /\ \A i \in super + 1..n : log[i].id = setId /\ (log[i].key = Marker <=> i = super + 1)
    BY <2>1 DEF SetInv
  <2>7. 1 \in 1..Len(todo)
    BY <2>5
  <2>8. rec.key = todo[1].key /\ rec.id = setId /\ rec.members = todo[1].members
    BY <1>1, <2>3, <2>5, <2>6, <2>7, ResolvedIs
  <2>9. ASSUME NEW i \in 1..Len(todo')
        PROVE  /\ i + 1 \in 2..Len(todo) /\ i + 1 \in 1..Len(todo) /\ todo'[i] = todo[i + 1]
               /\ todo[i + 1].key \in Keys \cup {Marker}
    <3>1. i + 1 \in 2..Len(todo) /\ i + 1 \in 1..Len(todo) /\ todo'[i] = todo[i + 1]
      BY <2>5
    <3>2. todo[i + 1] \in Pendings
      BY <1>1, <3>1, ElementOfSeq
    <3> QED BY <3>1, <3>2 DEF Pendings
  <2>10. super + 1..Len(log') = super + 1..n + 1 /\ n + 1 \in super + 1..n + 1
         /\ super + 1..n \subseteq 1..n /\ 1..super \subseteq 1..n
         /\ \A i \in super + 1..n + 1 : i = n + 1 \/ i \in super + 1..n
    BY <1>1, <2>4
  <2> HIDE DEF n
  <2>11. ASSUME NEW i \in 1..Len(todo')
         PROVE  /\ todo'[i].id = setId
                /\ todo'[i].key # Marker /\ todo'[i].body = Hide => live'[todo'[i].key] # Absent
                /\ \A j \in super + 1..n + 1 : log'[j].key # todo'[i].key
    <3>1. i + 1 \in 1..Len(todo) /\ todo'[i] = todo[i + 1] /\ i + 1 # 1
          /\ todo[i + 1].key \in Keys \cup {Marker}
      BY <2>5, <2>9
    <3>2. rec.key # todo[i + 1].key
      BY <2>6, <2>7, <2>8, <3>1
    <3>3. live'[todo[i + 1].key] = live[todo[i + 1].key]
      BY <2>4, <3>1, <3>2
    <3>4. \A j \in super + 1..n : log'[j].key # todo[i + 1].key
      BY <2>4, <2>6, <2>10, <3>1
    <3> QED BY <2>4, <2>6, <2>10, <3>1, <3>2, <3>3, <3>4
  <2>12. \A i, j \in 1..Len(todo') : todo'[i].key = todo'[j].key => i = j
    <3> SUFFICES ASSUME NEW i \in 1..Len(todo'), NEW j \in 1..Len(todo'),
                        todo'[i].key = todo'[j].key
                 PROVE  i = j
      OBVIOUS
    <3>1. i + 1 = j + 1
      BY <2>6, <2>9
    <3> QED BY <2>5, <3>1
  <2>13. \A i \in 1..super : log'[i].id # setId
    BY <2>4, <2>6, <2>10
  <2>14. ASSUME NEW i \in super + 1..n + 1
         PROVE  log'[i].id = setId /\ (log'[i].key = Marker <=> i = super + 1)
    <3>1. CASE i \in super + 1..n
      BY <2>4, <2>6, <2>10, <3>1
    <3>2. CASE i = n + 1 /\ n = super
      <4>1. rec.key = Marker
        BY <2>1, <2>8, <3>2 DEF SetInv, n
      <4> QED BY <2>4, <2>8, <3>2, <4>1
    <3>3. CASE i = n + 1 /\ n # super
      <4>1. super + 1 \in super + 1..n
        BY <1>1, <3>3 DEF n
      <4>2. log[super + 1].key = Marker /\ log[super + 1].key # todo[1].key
        BY <2>6, <2>7, <4>1
      <4>3. i # super + 1
        BY <1>1, <3>3 DEF n
      <4> QED BY <2>4, <2>8, <3>3, <4>2, <4>3
    <3> QED BY <2>10, <3>1, <3>2, <3>3
  <2>15. ASSUME NEW k \in DOMAIN log'[super + 1].members
         PROVE  \/ \E i \in super + 2..n + 1 : log'[i].key = k
                \/ \E i \in 1..Len(todo') : todo'[i].key = k
    <3>1. ASSUME NEW i \in 2..Len(todo), todo[i].key = k
          PROVE  \E j \in 1..Len(todo') : todo'[j].key = k
      <4>1. i - 1 \in 1..Len(todo') /\ todo'[i - 1] = todo[(i - 1) + 1] /\ (i - 1) + 1 = i
        BY <2>5
      <4> QED BY <3>1, <4>1
    <3>2. CASE n = super
      <4>1. log'[super + 1].members = todo[1].members
        BY <2>4, <2>8, <3>2
      <4>2. PICK i \in 2..Len(todo) : todo[i].key = k
        BY <2>1, <2>15, <3>2, <4>1 DEF SetInv, n
      <4> QED BY <3>1, <4>2
    <3>3. CASE n # super
      <4>1. super + 1 \in 1..n /\ n + 1 \in super + 2..n + 1
            /\ super + 2..n \subseteq super + 2..n + 1 /\ super + 2..n \subseteq 1..n
        BY <1>1, <3>3 DEF n
      <4>2. \/ \E i \in super + 2..n : log[i].key = k
            \/ \E i \in 1..Len(todo) : todo[i].key = k
        BY <2>1, <2>4, <2>15, <3>3, <4>1 DEF SetInv, n
      <4>3. CASE \E i \in super + 2..n : log[i].key = k
        BY <2>4, <4>1, <4>3
      <4>4. CASE \E i \in 1..Len(todo) : todo[i].key = k
        <5>1. PICK i \in 1..Len(todo) : todo[i].key = k
          BY <4>4
        <5>2. CASE i = 1
          BY <2>4, <2>8, <4>1, <5>1, <5>2
        <5>3. CASE i # 1
          <6>1. i \in 2..Len(todo)
            BY <2>5, <5>3
          <6> QED BY <3>1, <5>1, <6>1
        <5> QED BY <5>2, <5>3
      <4> QED BY <4>2, <4>3, <4>4
    <3> QED BY <3>2, <3>3
  <2>16. Len(log') # super'
    BY <1>1, <2>1, <2>4 DEF n
  <2> QED BY <2>1, <2>3, <2>4, <2>6, <2>11, <2>12, <2>13, <2>14, <2>15, <2>16 DEF SetInv
<1> QED BY <1>2, <1>3, <1>4

LEMMA InitInv ==
  ASSUME Init
  PROVE  Inv
<1>1. TypeInv
  <2>1. <<>> \in Seq(Records) /\ Len(<<>>) = 0 /\ 0 \in 0..0 /\ <<>> \in Seq(Pendings)
    OBVIOUS
  <2>2. live \in LiveMaps /\ claims \in Catalogs
    BY NothingLiveTyped, NothingClaimedTyped DEF Init
  <2>3. log \in Seq(Records) /\ super \in 0..Len(log) /\ stamp \in 0..super
        /\ todo \in Seq(Pendings)
    BY <2>1 DEF Init
  <2> QED BY <2>2, <2>3 DEF Init, TypeInv
<1>2. RowsAre(NothingLive, <<>>) /\ Knows(NothingClaimed, <<>>)
  BY DEF RowsAre, RowsOver, Knows, NothingClaimed
<1>3. /\ CallInv /\ RowsInv /\ CatInv /\ SetInv
  BY <1>2 DEF Init, CallInv, RowsInv, CatInv, SetInv
<1>4. WholeInv /\ GenerationsGrow /\ HistInv /\ OneEffectPerId
  BY DEF Init, WholeInv, SetsWhole, GenerationsGrow, HistInv, OneEffectPerId
<1> QED BY <1>1, <1>3, <1>4 DEF Inv

LEMMA NextInv ==
  ASSUME Inv, [Next]_vars
  PROVE  Inv'
<1>1. /\ TypeInv /\ CallInv /\ RowsInv /\ CatInv /\ SetInv
      /\ WholeInv /\ GenerationsGrow /\ HistInv /\ OneEffectPerId
  BY DEF Inv
<1>2. CASE Next
  <2>1. Step
    BY <1>1, <1>2, NextSteps
  <2>2. FileStep /\ HistStep
    BY <2>1 DEF Step
  <2> QED BY <1>1, <2>1, <2>2, TypeNext, CallNext, RowsNext, CatNext, SetNext, WholeNext, GenNext,
             HistNext, EffectNext DEF Inv
<1>3. CASE UNCHANGED vars
  <2>1. UNCHANGED <<up, log, super, stamp, failed, live, claims, fromLog, todo, inside, setId,
                    acked, seen>>
    BY <1>3 DEF vars, fileVars, storeVars, callVars, historyVars
  <2>2. (TypeInv /\ CallInv /\ RowsInv /\ CatInv /\ SetInv)'
    BY <1>1, <2>1 DEF TypeInv, CallInv, RowsInv, CatInv, SetInv
  <2>3. (WholeInv /\ GenerationsGrow /\ HistInv /\ OneEffectPerId)'
    BY <1>1, <2>1 DEF WholeInv, SetsWhole, GenerationsGrow, HistInv, OneEffectPerId
  <2> QED BY <2>2, <2>3 DEF Inv
<1> QED BY <1>2, <1>3

(* Every reachable state of the write path has the types of its state, the *)
(* maps of its log, whole change sets, growing generations and one effect  *)
(* for each Action id.                                                     *)
THEOREM StoreInvariant == Spec => []Inv
<1>1. Init => Inv
  BY InitInv
<1>2. Inv /\ [Next]_vars => Inv'
  BY NextInv
<1> QED BY <1>1, <1>2, PTL DEF Spec

-----------------------------------------------------------------------------
(* The properties.                                                         *)

(* The commit point never moves back, and no record in front of it is ever *)
(* rewritten, by a write, a failed call, a crash or a reopen: what was     *)
(* readable stays (LogWriter's contract, as the Store uses it).            *)
CommittedLogGrows ==
  super <= super' /\ \A i \in 1..super : log'[i] = log[i]

THEOREM StoreCommittedLogGrows == Spec => [][CommittedLogGrows]_vars
<1>1. Inv /\ [Next]_vars => [CommittedLogGrows]_vars
  <2> SUFFICES ASSUME Inv, Next PROVE CommittedLogGrows
    OBVIOUS
  <2>1. FileStep
    BY NextSteps DEF Inv, Step
  <2> QED BY <2>1, CommittedStays DEF Inv, CommittedLogGrows
<1> QED BY <1>1, StoreInvariant, PTL DEF Spec

(* Rows and Action ids are what the log says, and a diff of snapshots      *)
(* leads from the one to the other (install_live, action_claim,            *)
(* abort_uncommitted, open; snapshot_changelog).                           *)
THEOREM StoreMapsAreTheLog == Spec => []MapsAreTheLog
<1>1. ASSUME Inv PROVE LiveIsTheLog
  <2> SUFFICES ASSUME up, ~failed, NEW k \in Keys
               PROVE  IF Newest(k) = {} THEN live[k] = Absent
                      ELSE \A i \in Newest(k) :
                             live[k] = [gen |-> log[i].gen, body |-> log[i].body,
                                        hidden |-> log[i].hidden, id |-> log[i].id]
    BY DEF LiveIsTheLog
  <2>1. Len(log) \in Nat /\ RowsOver(live, NothingLive, log)
    BY <1>1, LenProperties DEF Inv, TypeInv, RowsInv, RowsAre
  <2>2. CASE live[k] = NothingLive[k] /\ \A i \in 1..Len(log) : log[i].key # k
    BY <2>2 DEF Newest, NothingLive
  <2>3. ASSUME NEW i \in 1..Len(log), log[i].key = k, live[k] = RowOf(log[i]),
               \A j \in i + 1..Len(log) : log[j].key # k
        PROVE  Newest(k) = {i}
    <3>1. i \in Newest(k)
      BY <2>3 DEF Newest
    <3>2. ASSUME NEW j \in Newest(k) PROVE j = i
      <4>1. j \in 1..Len(log) /\ log[j].key = k /\ \A m \in j + 1..Len(log) : log[m].key # k
        BY DEF Newest
      <4>2. ~(j \in i + 1..Len(log)) /\ ~(i \in j + 1..Len(log))
        BY <2>3, <4>1
      <4> QED BY <2>1, <4>1, <4>2
    <3> QED BY <3>1, <3>2
  <2>4. \/ live[k] = NothingLive[k] /\ \A i \in 1..Len(log) : log[i].key # k
        \/ \E i \in 1..Len(log) :
             /\ log[i].key = k /\ live[k] = RowOf(log[i])
             /\ \A j \in i + 1..Len(log) : log[j].key # k
    BY <2>1 DEF RowsOver
  <2> QED BY <2>2, <2>3, <2>4 DEF RowOf
<1>2. ASSUME Inv PROVE CatalogIsTheLog
  <2> SUFFICES ASSUME up, ~failed, NEW id \in Ids
               PROVE  LET uses == {i \in 1..Len(log) : log[i].id = id} IN
                      IF uses = {} THEN Catalog[id] = Absent
                      ELSE LET first == CHOOSE i \in uses : \A j \in uses : i <= j IN
                           /\ Catalog[id] # Absent
                           /\ Catalog[id].key = log[first].key
                           /\ Catalog[id].body = log[first].body
                           /\ Catalog[id].hidden = log[first].hidden
    BY DEF CatalogIsTheLog
  <2> DEFINE uses == {i \in 1..Len(log) : log[i].id = id}
             first == CHOOSE i \in uses : \A j \in uses : i <= j
  <2>1. Knows(Catalog, log) /\ Len(log) \in Nat
    BY <1>2, CatalogKnows, LenProperties DEF Inv, TypeInv
  <2>2. CASE Catalog[id] = Absent /\ \A i \in 1..Len(log) : log[i].id # id
    BY <2>2
  <2>3. ASSUME NEW i \in 1..Len(log), log[i].id = id, \A j \in 1..i - 1 : log[j].id # id
        PROVE  uses # {} /\ first = i
    <3>1. i \in uses /\ \A j \in uses : i <= j
      BY <2>1, <2>3
    <3>2. first \in uses /\ \A j \in uses : first <= j
      BY <3>1
    <3> QED BY <2>1, <3>1, <3>2
  <2>4. \/ Catalog[id] = Absent /\ \A i \in 1..Len(log) : log[i].id # id
        \/ \E i \in 1..Len(log) :
             /\ log[i].id = id /\ \A j \in 1..i - 1 : log[j].id # id
             /\ Catalog[id] # Absent
             /\ Catalog[id].key = log[i].key
             /\ Catalog[id].body = log[i].body
             /\ Catalog[id].hidden = log[i].hidden
    BY <2>1 DEF Knows
  <2> QED BY <2>2, <2>3, <2>4
<1>3. ASSUME Inv PROVE ChangelogFollows
  <2> SUFFICES ASSUME NEW feed \in Feeds, Shows(live, FoldSnapshot(feed[1]))
               PROVE  Shows(FoldLeft(Install, live, SnapshotChangelog(feed[1], feed[2])),
                            FoldSnapshot(feed[2]))
    BY DEF ChangelogFollows
  <2>1. live \in LiveMaps /\ feed[1] \in Seq(Offers) /\ feed[2] \in Seq(Offers)
    BY <1>3, SourceAssumption DEF Inv, TypeInv
  <2> QED BY <2>1, ChangelogShows
<1>4. Inv => MapsAreTheLog
  BY <1>1, <1>2, <1>3 DEF MapsAreTheLog
<1> QED BY <1>4, StoreInvariant, PTL

(* An Action id takes effect once, whatever was retried, aborted, lost or  *)
(* reopened in between (action_claim, ensure_action_commits).              *)
THEOREM StoreOneEffectPerId == Spec => []OneEffectPerId
<1>1. Inv => OneEffectPerId
  BY DEF Inv
<1> QED BY <1>1, StoreInvariant, PTL

(* No two records that were ever readable share an identity and a          *)
(* generation (assign_gen over the live map; the commit point).            *)
THEOREM StoreGenerationNamesOneVersion == Spec => []GenerationNamesOneVersion
<1>1. ASSUME Inv PROVE GenerationNamesOneVersion
  <2>1. /\ log \in Seq(Records) /\ super \in Nat /\ Len(log) \in Nat /\ super <= Len(log)
        /\ GenerationsGrow /\ seen \subseteq {log[i] : i \in 1..super}
    BY <1>1, LenProperties DEF Inv, TypeInv, HistInv
  <2>2. \A i \in 1..Len(log) : log[i].gen \in Nat
    BY <2>1, ElementOfSeq, RecordParts
  <2>3. seen \cup {log[i] : i \in 1..Len(log)} \subseteq {log[i] : i \in 1..Len(log)}
    BY <2>1
  <2>4. ASSUME NEW i \in 1..Len(log), NEW j \in 1..Len(log),
               log[i].key = log[j].key, log[i].key # Marker, log[i].gen = log[j].gen
        PROVE  log[i] = log[j]
    <3>1. ~(i < j) /\ ~(j < i)
      BY <2>1, <2>2, <2>4 DEF GenerationsGrow
    <3> QED BY <3>1
  <2> SUFFICES ASSUME NEW r \in seen \cup {log[i] : i \in 1..Len(log)},
                      NEW s \in seen \cup {log[i] : i \in 1..Len(log)},
                      r.key = s.key, r.key # Marker, r.gen = s.gen
               PROVE  r = s
    BY DEF GenerationNamesOneVersion
  <2>5. PICK i \in 1..Len(log) : r = log[i]
    BY <2>3
  <2>6. PICK j \in 1..Len(log) : s = log[j]
    BY <2>3
  <2> QED BY <2>4, <2>5, <2>6
<1> QED BY <1>1, StoreInvariant, PTL

(* A change set is on the committed log with all its members or not at     *)
(* all (atomically, abort_uncommitted).                                    *)
THEOREM StoreSetsWhole == Spec => []SetsWhole
<1>1. Inv => SetsWhole
  BY DEF Inv, WholeInv
<1> QED BY <1>1, StoreInvariant, PTL

(* A write that was acknowledged is in front of the commit point and stays *)
(* there (commit, atomically).                                             *)
THEOREM StoreAckedWritesCommitted == Spec => []AckedWritesCommitted
<1>1. Inv => AckedWritesCommitted
  BY DEF Inv, HistInv, AckedWritesCommitted
<1> QED BY <1>1, StoreInvariant, PTL
=============================================================================
