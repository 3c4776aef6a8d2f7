-------------------------- MODULE KeyCatalogProofs --------------------------
(***************************************************************************)
(* Proofs about KeyCatalog.  The files are right because of what a process *)
(* knows when it writes them, and a process knows what it installed from   *)
(* the files: the invariant joins the two.  It is stated of the parts of   *)
(* the state a call works on, so that it can be followed through the steps *)
(* of one call, with the environment (grants, revocations, what compaction *)
(* left to the checkpoint) as a parameter.                                 *)
(***************************************************************************)
EXTENDS KeyCatalog, FoldLemmas

Catalogs == UNION {[S -> Nat] : S \in SUBSET Names}
SealedPages == [tenant : Tenants, dek : Nat, recs : Seq(Nat)]
Writers == [catalog : Catalogs, deks : Catalogs, revoked : SUBSET Names, withheld : SUBSET Names,
            page : [tenant : Names, recs : Seq(Nat)], pending : Seq(SealedPages), failed : BOOLEAN]
Projs == [rows : [Tenants -> Nat], acts : [Tenants -> SUBSET Nat],
          fromLog : BOOLEAN, hasCkpt : BOOLEAN, dirty : BOOLEAN]
Files == [catalog : Catalogs, pages : Seq(SealedPages)]
PartSet == [dek : Nat, row : Nat, acts : SUBSET Nat]
Snapshots == [stamp : Nat, key : Nat, parts : UNION {[S -> PartSet] : S \in SUBSET Tenants}]
States == [w : Writers, p : Projs, f : Files, n : Nat]
Envs == [granted : SUBSET Names, shredded : SUBSET Nat, gone : [Tenants -> SUBSET Nat]]

Env == [granted |-> granted, shredded |-> shredded, gone |-> gone]

-----------------------------------------------------------------------------
(* The invariant.                                                          *)

(* The records of a tenant on the page that is being filled, and all of    *)
(* them, committed and pending.                                            *)
OnPage(page, t) == IF page.tenant = t THEN Range(page.recs) ELSE {}
Recs(s, t) == On(s.f.pages, t) \cup On(s.w.pending, t) \cup OnPage(s.w.page, t)

(* r is the last of the records in S, 0 if there is none.                  *)
IsLast(r, S) == r \in S \cup {0} /\ \A x \in S : x <= r

Extends(c, d) == \A n \in DOMAIN d : n \in DOMAIN c /\ c[n] = d[n]

SealedBy(pages, catalog, N) ==
  \A i \in 1..Len(pages) :
    /\ pages[i].tenant \in DOMAIN catalog
    /\ pages[i].dek = catalog[pages[i].tenant]
    /\ Range(pages[i].recs) \subseteq 1..N

FileInv(E, f, N) ==
  /\ f \in Files /\ StoreKey \in DOMAIN f.catalog
  /\ SealedBy(f.pages, f.catalog, N)
  /\ \A t \in Tenants : E.gone[t] # {} => t \in DOMAIN f.catalog /\ On(f.pages, t) # {}

(* What a writer knows of the keys, and what it has sealed with them.      *)
WriterInv(E, w, f, N) ==
  /\ w \in Writers
  /\ Extends(w.catalog, f.catalog) /\ Extends(w.catalog, w.deks)
  /\ DOMAIN w.catalog \subseteq DOMAIN w.deks \cup w.revoked \cup w.withheld
  /\ StoreKey \notin w.revoked
  /\ \A n \in w.revoked \cap DOMAIN w.catalog : w.catalog[n] \in E.shredded
  /\ SealedBy(w.pending, w.catalog, N)
  /\ w.page.recs # <<>> => w.page.tenant \in DOMAIN w.catalog \cap Tenants
  /\ Range(w.page.recs) \subseteq 1..N

KeyInv(E, s, N) ==
  s \in States /\ N \in Nat /\ FileInv(E, s.f, N) /\ WriterInv(E, s.w, s.f, N)

(* The tenants a process serves, and those nobody can serve again.         *)
Usable(E, w, t) ==
  /\ t \notin w.revoked \cup w.withheld
  /\ t \in DOMAIN w.catalog /\ t \in E.granted /\ w.catalog[t] \notin E.shredded
Destroyed(E, f, t) == t \in DOMAIN f.catalog /\ f.catalog[t] \in E.shredded

(* The projection has all of a tenant.                                     *)
Whole(E, s, t) ==
  /\ IsLast(s.p.rows[t], Recs(s, t))
  /\ s.p.acts[t] \subseteq Recs(s, t) \cup E.gone[t]
  /\ Faults = {} /\ s.w.withheld = {} => Recs(s, t) \cup E.gone[t] \subseteq s.p.acts[t]

(* A process that was refused no grant and has nothing to persist has all  *)
(* of every tenant that is left, also of one whose grant expired since.    *)
ProjInv(E, s) ==
  ~s.w.failed =>
    /\ Live(s.p) \subseteq DOMAIN s.w.catalog
    /\ HasPending(s.w) \/ Live(s.p) \subseteq DOMAIN s.f.catalog
    /\ HasPending(s.w) => s.p.dirty
    /\ Faults = {} => s.p.fromLog
    /\ \A t \in Tenants : Usable(E, s.w, t) => Whole(E, s, t)
    /\ ~s.p.dirty /\ s.p.hasCkpt /\ s.w.withheld = {} =>
         \A t \in Tenants : ~Destroyed(E, s.f, t) => Whole(E, s, t)

Good(E, s, N) == KeyInv(E, s, N) /\ ProjInv(E, s)

(* A snapshot says of each tenant that is left what the log said when it   *)
(* was taken.                                                              *)
UpTo(pages, stamp) == SubSeq(pages, 1, stamp)
PartRow(c, t) == IF t \in DOMAIN c.parts THEN c.parts[t].row ELSE 0
PartAct(c, t) == IF t \in DOMAIN c.parts THEN c.parts[t].acts ELSE {}

SnapInv(E, c, f) ==
  c # NoFile =>
    /\ c \in Snapshots /\ c.stamp <= Len(f.pages) /\ c.key = f.catalog[StoreKey]
    /\ \A t \in DOMAIN c.parts : t \in DOMAIN f.catalog /\ c.parts[t].dek = f.catalog[t]
    /\ \A t \in Tenants : ~Destroyed(E, f, t) =>
         IsLast(PartRow(c, t), On(UpTo(f.pages, c.stamp), t))

CkptInv(E, c, f) ==
  c # NoFile =>
    \A t \in Tenants : ~Destroyed(E, f, t) =>
      /\ PartAct(c, t) \subseteq On(UpTo(f.pages, c.stamp), t) \cup E.gone[t]
      /\ Faults = {} => On(UpTo(f.pages, c.stamp), t) \cup E.gone[t] \subseteq PartAct(c, t)

(* The .joins is never ahead of the .ckpt, but while both are written.     *)
PairInv(sn, publishing) ==
  Faults = {} /\ sn.joins # NoFile /\ ~publishing =>
    sn.ckpt # NoFile /\ sn.joins.stamp <= sn.ckpt.stamp

FilesInv(E, sn, f) ==
  /\ sn = [joins |-> sn.joins, ckpt |-> sn.ckpt]
  /\ SnapInv(E, sn.joins, f) /\ SnapInv(E, sn.ckpt, f) /\ CkptInv(E, sn.ckpt, f)
  /\ sn.ckpt = NoFile => \A t \in Tenants : E.gone[t] = {}

(* Nothing waits while a persist runs, and a snapshot that is published    *)
(* is of a projection that is whole.                                       *)
Ready(s) == ~s.w.failed /\ ~HasPending(s.w)
Publishable(s, sn) ==
  /\ s.p.hasCkpt /\ ~s.p.dirty /\ s.w.withheld = {}
  /\ PairInv(sn, FALSE) \/ Live(s.p) \cup {StoreKey} \subseteq DOMAIN s.w.deks

PcInv(c, j, s, sn) ==
  /\ c \in {"closed", "install", "idle", "persist", "publish"}
  /\ j \in {"commit", "install", "abort", "close"}
  /\ c \in {"install", "persist", "publish"} => Ready(s)
  /\ c = "publish" => Publishable(s, sn)

Inv ==
  /\ Env \in Envs /\ records \in Nat /\ minted \in Nat /\ proj \in Projs
  /\ FileInv(Env, file, records) /\ FilesInv(Env, snap, file)
  /\ PairInv(snap, pc = "publish") /\ PcInv(pc, job, State, snap)
  /\ pc # "closed" => KeyInv(Env, State, records)
  /\ pc \in {"idle", "persist", "publish"} => ProjInv(Env, State)

-----------------------------------------------------------------------------
(* Last records, pages and the records on them.                            *)

LEMMA LargestExists ==
  ASSUME NEW N \in Nat, NEW S \in SUBSET (0..N), S # {}
  PROVE  \E m \in S : \A x \in S : x <= m
<1> DEFINE T == {n \in Nat : \A A \in SUBSET (0..n) : A # {} => \E m \in A : \A x \in A : x <= m}
<1>1. 0 \in T
  <2> SUFFICES ASSUME NEW A \in SUBSET (0..0), A # {} PROVE \E m \in A : \A x \in A : x <= m
    OBVIOUS
  <2>1. \A x \in A : x = 0
    OBVIOUS
  <2>2. PICK m \in A : TRUE
    OBVIOUS
  <2> QED BY <2>1, <2>2
<1>2. ASSUME NEW n \in T PROVE n + 1 \in T
  <2> SUFFICES ASSUME NEW A \in SUBSET (0..(n + 1)), A # {}
               PROVE  \E m \in A : \A x \in A : x <= m
    OBVIOUS
  <2>1. CASE n + 1 \in A
    <3>1. \A x \in A : x <= n + 1
      OBVIOUS
    <3> QED BY <2>1, <3>1
  <2>2. CASE n + 1 \notin A
    <3>1. A \in SUBSET (0..n)
      BY <2>2
    <3> QED BY <3>1
  <2> QED BY <2>1, <2>2
<1>3. T \subseteq Nat
  OBVIOUS
<1> HIDE DEF T
<1>4. T = Nat
  BY <1>1, <1>2, <1>3, NatSetInduction
<1> QED BY <1>4 DEF T

LEMMA LastIsMax ==
  ASSUME NEW S \in SUBSET Nat, NEW r, IsLast(r, S)
  PROVE  r \in Nat /\ Max({0} \cup S) = r
<1>1. r \in Nat /\ {0} \cup S \in SUBSET Nat /\ r \in {0} \cup S
      /\ \A x \in {0} \cup S : x <= r
  BY DEF IsLast
<1> QED BY <1>1, MaxIs

(* What a replay makes of a row.                                           *)
LEMMA MaxIsLast ==
  ASSUME NEW N \in Nat, NEW S \in SUBSET (1..N),
         NEW S0 \in SUBSET Nat, NEW r, IsLast(r, S0)
  PROVE  IsLast(Max({r} \cup S), S0 \cup S)
<1>1. r \in Nat
  BY DEF IsLast
<1>2. \E M \in Nat : {r} \cup S \in SUBSET (0..M)
  <2>1. CASE r <= N
    BY <1>1, <2>1
  <2>2. CASE ~(r <= N)
    <3>1. {r} \cup S \in SUBSET (0..r)
      BY <1>1, <2>2
    <3> QED BY <1>1, <3>1
  <2> QED BY <2>1, <2>2
<1>3. PICK m \in {r} \cup S : \A x \in {r} \cup S : x <= m
  BY <1>2, LargestExists
<1>4. Max({r} \cup S) = m
  <2>1. {r} \cup S \in SUBSET Nat
    BY <1>1
  <2> QED BY <1>3, <2>1, MaxIs
<1>5. IsLast(m, S0 \cup S)
  <2>1. m \in Nat /\ r <= m /\ \A x \in S : x <= m
    BY <1>1, <1>3
  <2>2. \A x \in S0 : x <= m
    <3> SUFFICES ASSUME NEW x \in S0 PROVE x <= m
      OBVIOUS
    <3>1. x <= r /\ x \in Nat
      BY DEF IsLast
    <3> QED BY <1>1, <2>1, <3>1
  <2>3. m \in S0 \cup S \cup {0}
    BY <1>3 DEF IsLast
  <2> QED BY <2>1, <2>2, <2>3 DEF IsLast
<1> QED BY <1>4, <1>5

LEMMA OnIs ==
  ASSUME NEW X, NEW pages \in Seq(X), NEW t, NEW x
  PROVE  x \in On(pages, t) <=>
           \E i \in 1..Len(pages) : pages[i].tenant = t /\ x \in Range(pages[i].recs)
<1>1. DOMAIN pages = 1..Len(pages)
  BY LenProperties
<1> QED BY <1>1 DEF On

LEMMA OnEmpty == \A t : On(<<>>, t) = {}
<1> SUFFICES ASSUME NEW t PROVE On(<<>>, t) = {}
  OBVIOUS
<1>1. DOMAIN <<>> = {}
  BY EmptySeq, LenProperties
<1> QED BY <1>1 DEF On

LEMMA OnConcat ==
  ASSUME NEW X, NEW a \in Seq(X), NEW b \in Seq(X), NEW t
  PROVE  On(a \o b, t) = On(a, t) \cup On(b, t)
<1>1. /\ a \o b \in Seq(X) /\ Len(a) \in Nat /\ Len(b) \in Nat
      /\ Len(a \o b) = Len(a) + Len(b)
      /\ \A i \in 1..Len(a) : (a \o b)[i] = a[i]
      /\ \A i \in 1..Len(b) : (a \o b)[Len(a) + i] = b[i]
      /\ \A i \in 1..Len(a) + Len(b) :
           i \in 1..Len(a) \/ (i - Len(a) \in 1..Len(b) /\ (a \o b)[i] = b[i - Len(a)])
  BY ConcatProperties, LenProperties
<1> DEFINE c == a \o b
<1>c. c \in Seq(X)
  BY <1>1
<1> HIDE DEF c
<1>2. \A x : x \in On(c, t) <=>
        \E i \in 1..Len(c) : c[i].tenant = t /\ x \in Range(c[i].recs)
  BY <1>c, OnIs
<1>3. \A x : x \in On(a, t) <=>
        \E i \in 1..Len(a) : a[i].tenant = t /\ x \in Range(a[i].recs)
  BY OnIs
<1>4. \A x : x \in On(b, t) <=>
        \E i \in 1..Len(b) : b[i].tenant = t /\ x \in Range(b[i].recs)
  BY OnIs
<1>5. ASSUME NEW x \in On(c, t) PROVE x \in On(a, t) \cup On(b, t)
  <2>1. PICK i \in 1..Len(c) : c[i].tenant = t /\ x \in Range(c[i].recs)
    BY <1>2
  <2>2. CASE i \in 1..Len(a)
    BY <1>1, <1>3, <2>1, <2>2 DEF c
  <2>3. CASE i - Len(a) \in 1..Len(b) /\ c[i] = b[i - Len(a)]
    BY <1>4, <2>1, <2>3
  <2> QED BY <1>1, <2>1, <2>2, <2>3 DEF c
<1>6. ASSUME NEW x \in On(a, t) PROVE x \in On(c, t)
  <2>1. PICK i \in 1..Len(a) : a[i].tenant = t /\ x \in Range(a[i].recs)
    BY <1>3
  <2>2. i \in 1..Len(c) /\ c[i] = a[i]
    BY <1>1 DEF c
  <2> QED BY <1>2, <2>1, <2>2
<1>7. ASSUME NEW x \in On(b, t) PROVE x \in On(c, t)
  <2>1. PICK i \in 1..Len(b) : b[i].tenant = t /\ x \in Range(b[i].recs)
    BY <1>4
  <2>2. Len(a) + i \in 1..Len(c) /\ c[Len(a) + i] = b[i]
    BY <1>1 DEF c
  <2> QED BY <1>2, <2>1, <2>2
<1> QED BY <1>5, <1>6, <1>7 DEF c

LEMMA OnAppend ==
  ASSUME NEW X, NEW a \in Seq(X), NEW p \in X, NEW t
  PROVE  On(Append(a, p), t) = On(a, t) \cup (IF p.tenant = t THEN Range(p.recs) ELSE {})
<1>1. /\ Append(a, p) \in Seq(X) /\ Len(a) \in Nat
      /\ Len(Append(a, p)) = Len(a) + 1
      /\ \A i \in 1..Len(a) : Append(a, p)[i] = a[i]
      /\ Append(a, p)[Len(a) + 1] = p
  BY AppendProperties, LenProperties
<1> DEFINE c == Append(a, p)
<1>c. c \in Seq(X)
  BY <1>1
<1> HIDE DEF c
<1>2. \A x : x \in On(c, t) <=>
        \E i \in 1..Len(c) : c[i].tenant = t /\ x \in Range(c[i].recs)
  BY <1>c, OnIs
<1>3. \A x : x \in On(a, t) <=>
        \E i \in 1..Len(a) : a[i].tenant = t /\ x \in Range(a[i].recs)
  BY OnIs
<1>4. ASSUME NEW x PROVE x \in On(c, t) <=> x \in On(a, t) \/ (p.tenant = t /\ x \in Range(p.recs))
  <2>1. \A i \in 1..Len(c) : i \in 1..Len(a) \/ i = Len(a) + 1
    BY <1>1 DEF c
  <2>2. 1..Len(a) \subseteq 1..Len(c) /\ Len(a) + 1 \in 1..Len(c)
    BY <1>1 DEF c
  <2> QED BY <1>1, <1>2, <1>3, <2>1, <2>2 DEF c
<1> QED BY <1>4 DEF c

(* Pages behind a stamp and those up to it.                                *)
LEMMA OnParts ==
  ASSUME NEW X, NEW pages \in Seq(X), NEW k \in 0..Len(pages), NEW t
  PROVE  /\ On(UpTo(pages, k), t) \cup On(After(pages, k), t) = On(pages, t)
         /\ UpTo(pages, k) \in Seq(X) /\ After(pages, k) \in Seq(X)
         /\ k = Len(pages) => On(After(pages, k), t) = {} /\ UpTo(pages, k) = pages
         /\ k = 0 => On(UpTo(pages, k), t) = {} /\ After(pages, k) = pages
<1> DEFINE n == Len(pages)
<1>1. n \in Nat /\ \A i \in 1..n : pages[i] \in X
  BY LenProperties, ElementOfSeq
<1>2. /\ UpTo(pages, k) \in Seq(X) /\ Len(UpTo(pages, k)) = k
      /\ \A i \in 1..k : UpTo(pages, k)[i] = pages[i]
  <2>1. \A i \in 1..k : pages[i] \in X
    BY <1>1
  <2> QED BY <1>1, <2>1, SubSeqProperties DEF UpTo
<1>3. /\ After(pages, k) \in Seq(X) /\ Len(After(pages, k)) = n - k
      /\ \A i \in 1..n - k : After(pages, k)[i] = pages[k + i]
  <2>1. \A i \in k + 1..n : pages[i] \in X
    BY <1>1
  <2>2. /\ After(pages, k) \in Seq(X)
        /\ Len(After(pages, k)) = IF k + 1 <= n THEN n - (k + 1) + 1 ELSE 0
        /\ \A i \in 1..n - (k + 1) + 1 : After(pages, k)[i] = pages[(k + 1) + i - 1]
    BY <1>1, <2>1, SubSeqProperties DEF After
  <2>3. \A i \in 1..n - k : (k + 1) + i - 1 = k + i /\ i \in 1..n - (k + 1) + 1
    BY <1>1
  <2> QED BY <1>1, <2>2, <2>3
<1> DEFINE a == UpTo(pages, k)
           b == After(pages, k)
<1>4. pages = a \o b
  <2> HIDE DEF a, b
  <2>1. /\ a \o b \in Seq(X) /\ Len(a \o b) = n
        /\ \A i \in 1..n : (a \o b)[i] = IF i <= k THEN a[i] ELSE b[i - k]
    BY <1>1, <1>2, <1>3, ConcatProperties DEF a, b
  <2>2. \A i \in 1..n : (a \o b)[i] = pages[i]
    <3> SUFFICES ASSUME NEW i \in 1..n PROVE (a \o b)[i] = pages[i]
      OBVIOUS
    <3>1. CASE i <= k
      BY <1>2, <2>1, <3>1 DEF a
    <3>2. CASE ~(i <= k)
      <4>1. i - k \in 1..n - k /\ k + (i - k) = i
        BY <1>1, <3>2
      <4> QED BY <1>3, <2>1, <3>2, <4>1 DEF b
    <3> QED BY <3>1, <3>2
  <2> QED BY <1>1, <2>1, <2>2, SeqEqual
<1>5. k = n => b = <<>> /\ a = pages
  <2> SUFFICES ASSUME k = n PROVE b = <<>> /\ a = pages
    OBVIOUS
  <2>1. b = <<>>
    BY <1>3, EmptySeq
  <2>2. a = pages
    BY <1>1, <1>2, SeqEqual
  <2> QED BY <2>1, <2>2
<1>6. k = 0 => a = <<>> /\ b = pages
  <2> SUFFICES ASSUME k = 0 PROVE a = <<>> /\ b = pages
    OBVIOUS
  <2>1. a = <<>>
    BY <1>2, EmptySeq
  <2>2. b = pages
    BY <1>1, <1>3, SeqEqual
  <2> QED BY <2>1, <2>2
<1> HIDE DEF a, b
<1>7. On(pages, t) = On(a, t) \cup On(b, t)
  <2>1. a \in Seq(X) /\ b \in Seq(X)
    BY <1>2, <1>3 DEF a, b
  <2> QED BY <1>4, <2>1, OnConcat
<1> QED BY <1>2, <1>3, <1>5, <1>6, <1>7, OnEmpty DEF a, b

(* What lies on sealed pages is numbered, and on pages of the catalog.     *)
LEMMA OnSealed ==
  ASSUME NEW pages \in Seq(SealedPages), NEW c, NEW N, SealedBy(pages, c, N), NEW t
  PROVE  On(pages, t) \subseteq 1..N /\ (t \notin DOMAIN c => On(pages, t) = {})
BY OnIs DEF SealedBy

LEMMA EmptyRange == Range(<<>>) = {}
BY EmptySeq, LenProperties DEF Range

LEMMA RangeAppend ==
  ASSUME NEW X, NEW q \in Seq(X), NEW r \in X
  PROVE  Range(Append(q, r)) = Range(q) \cup {r}
<1>1. /\ Append(q, r) \in Seq(X) /\ Len(q) \in Nat
      /\ Len(Append(q, r)) = Len(q) + 1
      /\ \A i \in 1..Len(q) : Append(q, r)[i] = q[i]
      /\ Append(q, r)[Len(q) + 1] = r
      /\ DOMAIN q = 1..Len(q) /\ DOMAIN Append(q, r) = 1..Len(Append(q, r))
  BY AppendProperties, LenProperties
<1>2. \A i \in 1..Len(q) + 1 : i \in 1..Len(q) \/ i = Len(q) + 1
  BY <1>1
<1>3. 1..Len(q) \subseteq 1..Len(q) + 1 /\ Len(q) + 1 \in 1..Len(q) + 1
  BY <1>1
<1> HIDE DEF Range
<1>4. Range(Append(q, r)) = {Append(q, r)[i] : i \in 1..Len(q) + 1}
  BY <1>1 DEF Range
<1>5. Range(q) = {q[i] : i \in 1..Len(q)}
  BY <1>1 DEF Range
<1> QED BY <1>1, <1>2, <1>3, <1>4, <1>5

-----------------------------------------------------------------------------
(* Catalogs, and the parts of a state.                                     *)

LEMMA CatalogParts ==
  ASSUME NEW c \in Catalogs
  PROVE  DOMAIN c \subseteq Names /\ c \in [DOMAIN c -> Nat]
BY DEF Catalogs

LEMMA PutIs ==
  ASSUME NEW c \in Catalogs, NEW n \in Names, NEW v \in Nat
  PROVE  /\ Put(c, n, v) \in Catalogs /\ DOMAIN Put(c, n, v) = DOMAIN c \cup {n}
         /\ Put(c, n, v)[n] = v /\ \A x \in DOMAIN c : x # n => Put(c, n, v)[x] = c[x]
<1>1. DOMAIN c \cup {n} \in SUBSET Names /\ \A x \in DOMAIN c : c[x] \in Nat
  BY CatalogParts
<1>2. Put(c, n, v) \in [DOMAIN c \cup {n} -> Nat]
  BY <1>1 DEF Put
<1> QED BY <1>1, <1>2 DEF Put, Catalogs

LEMMA OnlyIs ==
  ASSUME NEW c \in Catalogs, NEW S
  PROVE  /\ Only(c, S) \in Catalogs /\ DOMAIN Only(c, S) = DOMAIN c \cap S
         /\ \A x \in DOMAIN c \cap S : Only(c, S)[x] = c[x]
<1>1. DOMAIN c \cap S \in SUBSET Names /\ \A x \in DOMAIN c : c[x] \in Nat
  BY CatalogParts
<1>2. Only(c, S) \in [DOMAIN c \cap S -> Nat]
  BY <1>1 DEF Only
<1> QED BY <1>1, <1>2 DEF Only, Catalogs

LEMMA SealedGrows ==
  ASSUME NEW pages, NEW c, NEW d, NEW N \in Nat, NEW M \in Nat, N <= M,
         SealedBy(pages, c, N), Extends(d, c)
  PROVE  SealedBy(pages, d, M)
<1>1. 1..N \subseteq 1..M
  OBVIOUS
<1> QED BY <1>1 DEF SealedBy, Extends

LEMMA StateParts ==
  ASSUME NEW s \in States
  PROVE  /\ s = [w |-> s.w, p |-> s.p, f |-> s.f, n |-> s.n]
         /\ s.w \in Writers /\ s.p \in Projs /\ s.f \in Files /\ s.n \in Nat
         /\ s.w.catalog \in Catalogs /\ s.w.deks \in Catalogs /\ s.f.catalog \in Catalogs
         /\ s.w.pending \in Seq(SealedPages) /\ s.f.pages \in Seq(SealedPages)
         /\ s.w.page.recs \in Seq(Nat) /\ s.w.page \in [tenant : Names, recs : Seq(Nat)]
         /\ s.p.rows \in [Tenants -> Nat] /\ s.p.acts \in [Tenants -> SUBSET Nat]
         /\ s.w.failed \in BOOLEAN
BY DEF States, Writers, Projs, Files

LEMMA MoreRecords ==
  ASSUME NEW E, NEW s, NEW N \in Nat, Good(E, s, N)
  PROVE  Good(E, s, N + 1)
<1>1. SealedBy(s.f.pages, s.f.catalog, N + 1) /\ SealedBy(s.w.pending, s.w.catalog, N + 1)
  <2>1. Extends(s.f.catalog, s.f.catalog) /\ Extends(s.w.catalog, s.w.catalog)
    BY DEF Extends
  <2> QED BY <2>1, SealedGrows DEF Good, KeyInv, FileInv, WriterInv
<1>2. Range(s.w.page.recs) \subseteq 1..N + 1
  BY DEF Good, KeyInv, WriterInv
<1> QED BY <1>1, <1>2 DEF Good, KeyInv, FileInv, WriterInv

LEMMA EnvParts ==
  ASSUME Env \in Envs
  PROVE  /\ Env.granted = granted /\ Env.shredded = shredded /\ Env.gone = gone
         /\ granted \subseteq Names /\ shredded \subseteq Nat /\ gone \in [Tenants -> SUBSET Nat]
BY DEF Env, Envs

LEMMA StatusIs ==
  ASSUME NEW n, NEW d
  PROVE  /\ Status(n, d) = "ready" <=> n \in granted /\ d \notin shredded
         /\ Status(n, d) = "withheld" <=> n \notin granted
         /\ Status(n, d) = "shredded" <=> n \in granted /\ d \in shredded
BY DEF Status

LEMMA WithIs ==
  ASSUME NEW c, NEW n
  PROVE  /\ n \in With(c, "ready") <=> n \in DOMAIN c /\ n \in granted /\ c[n] \notin shredded
         /\ n \in With(c, "withheld") <=> n \in DOMAIN c /\ n \notin granted
         /\ n \in With(c, "shredded") <=> n \in DOMAIN c /\ n \in granted /\ c[n] \in shredded
BY DEF With, Status

(* What is known of a tenant's records.                                    *)
LEMMA RecsIn ==
  ASSUME NEW E, NEW s, NEW N, KeyInv(E, s, N), NEW t \in Tenants
  PROVE  /\ Recs(s, t) \subseteq 1..N
         /\ t \notin DOMAIN s.w.catalog => Recs(s, t) = {} /\ E.gone[t] = {}
         /\ t \notin DOMAIN s.f.catalog => On(s.f.pages, t) = {} /\ E.gone[t] = {}
         /\ ~HasPending(s.w) => Recs(s, t) = On(s.f.pages, t)
         /\ DOMAIN s.f.catalog \subseteq DOMAIN s.w.catalog
<1>1. s \in States /\ SealedBy(s.f.pages, s.f.catalog, N) /\ SealedBy(s.w.pending, s.w.catalog, N)
      /\ Extends(s.w.catalog, s.f.catalog) /\ Range(s.w.page.recs) \subseteq 1..N
      /\ (s.w.page.recs # <<>> => s.w.page.tenant \in DOMAIN s.w.catalog \cap Tenants)
      /\ (E.gone[t] # {} => t \in DOMAIN s.f.catalog)
  BY DEF KeyInv, FileInv, WriterInv
<1>2. /\ On(s.f.pages, t) \subseteq 1..N /\ (t \notin DOMAIN s.f.catalog => On(s.f.pages, t) = {})
      /\ On(s.w.pending, t) \subseteq 1..N /\ (t \notin DOMAIN s.w.catalog => On(s.w.pending, t) = {})
  BY <1>1, StateParts, OnSealed
<1>3. DOMAIN s.f.catalog \subseteq DOMAIN s.w.catalog
  BY <1>1 DEF Extends
<1>4. s.w.page.recs = <<>> => OnPage(s.w.page, t) = {}
  BY EmptyRange DEF OnPage
<1>5. t \notin DOMAIN s.w.catalog => OnPage(s.w.page, t) = {}
  BY <1>1, <1>4 DEF OnPage
<1>6. OnPage(s.w.page, t) \subseteq 1..N
  BY <1>1 DEF OnPage
<1>7. ~HasPending(s.w) => On(s.w.pending, t) = {} /\ OnPage(s.w.page, t) = {}
  BY <1>4, OnEmpty DEF HasPending
<1> QED BY <1>1, <1>2, <1>3, <1>5, <1>6, <1>7 DEF Recs

LEMMA NotLive ==
  ASSUME NEW p \in Projs, NEW t \in Tenants
  PROVE  t \notin Live(p) <=> p.rows[t] = 0 /\ p.acts[t] = {}
BY DEF Live

LEMMA DroppedIs ==
  ASSUME NEW p \in Projs, NEW w \in Writers
  PROVE  /\ Dropped(p, w) \in Projs
         /\ \A t \in Tenants :
              IF t \in w.revoked \cup w.withheld
              THEN Dropped(p, w).rows[t] = 0 /\ Dropped(p, w).acts[t] = {}
              ELSE Dropped(p, w).rows[t] = p.rows[t] /\ Dropped(p, w).acts[t] = p.acts[t]
         /\ Dropped(p, w).fromLog = p.fromLog /\ Dropped(p, w).hasCkpt = p.hasCkpt
         /\ Dropped(p, w).dirty = p.dirty
         /\ Live(Dropped(p, w)) \subseteq Live(p)
<1> DEFINE out == w.revoked \cup w.withheld
           q == Dropped(p, w)
           rows == [t \in Tenants |-> IF t \in out THEN 0 ELSE p.rows[t]]
           acts == [t \in Tenants |-> IF t \in out THEN {} ELSE p.acts[t]]
<1>1. rows \in [Tenants -> Nat] /\ acts \in [Tenants -> SUBSET Nat]
  BY DEF Projs
<1>2. q = [p EXCEPT !.rows = rows, !.acts = acts]
  BY DEF Dropped
<1> HIDE DEF rows, acts, q
<1>3. q \in Projs /\ q.rows = rows /\ q.acts = acts /\ q.fromLog = p.fromLog
      /\ q.hasCkpt = p.hasCkpt /\ q.dirty = p.dirty
  BY <1>1, <1>2 DEF Projs
<1>4. \A t \in Tenants : IF t \in out THEN q.rows[t] = 0 /\ q.acts[t] = {}
                         ELSE q.rows[t] = p.rows[t] /\ q.acts[t] = p.acts[t]
  BY <1>3 DEF rows, acts
<1>5. Live(q) \subseteq Live(p)
  BY <1>4 DEF Live
<1> QED BY <1>3, <1>4, <1>5 DEF q

-----------------------------------------------------------------------------
(* The steps of a call.  Each is shown first by what it leaves of each     *)
(* part of the state, then to keep what is known.                          *)

LEMMA RevalidatedIs ==
  ASSUME NEW w \in Writers
  PROVE  LET e == Revalidated(w)
         IN /\ e \in Writers
            /\ e.catalog = w.catalog /\ e.page = w.page /\ e.pending = w.pending
            /\ e.failed = w.failed /\ e.deks = Only(w.deks, With(w.catalog, "ready"))
            /\ e.withheld = w.withheld \cup With(w.catalog, "withheld")
            /\ e.revoked = w.revoked \cup With(w.catalog, "shredded")
<1> DEFINE deks == Only(w.deks, With(w.catalog, "ready"))
           withheld == w.withheld \cup With(w.catalog, "withheld")
           revoked == w.revoked \cup With(w.catalog, "shredded")
<1>1. deks \in Catalogs
  BY OnlyIs DEF Writers
<1>2. withheld \in SUBSET Names /\ revoked \in SUBSET Names
  <2>1. DOMAIN w.catalog \subseteq Names
    BY CatalogParts DEF Writers
  <2> QED BY <2>1 DEF With, Writers
<1>3. Revalidated(w) = [w EXCEPT !.deks = deks, !.withheld = withheld, !.revoked = revoked]
  BY DEF Revalidated
<1> HIDE DEF deks, withheld, revoked
<1> QED BY <1>1, <1>2, <1>3 DEF Writers, deks, withheld, revoked

(* What a writer is sure of when it has just asked the provider.           *)
Fresh(w) ==
  \A n \in DOMAIN w.catalog \ (w.revoked \cup w.withheld) :
    n \in granted /\ w.catalog[n] \notin shredded

Revalidation(v, s) ==
  /\ v.ok \in BOOLEAN /\ v.s \in States /\ v.s.f = s.f /\ v.s.n = s.n
  /\ IF v.ok THEN /\ v.s.w = Revalidated(s.w) /\ v.s.p = Dropped(s.p, v.s.w)
                  /\ ~StoreShredded(s.w)
     ELSE v.s = s

LEMMA RevalidateIs ==
  ASSUME NEW s \in States
  PROVE  Revalidation(Revalidate(s), s)
<1> DEFINE w == Revalidated(s.w)
           p == Dropped(s.p, w)
<1>1. w \in Writers /\ p \in Projs
  BY RevalidatedIs, DroppedIs, StateParts
<1>2. Revalidate(s) = IF StoreShredded(s.w) THEN Fail(s) ELSE Ok([s EXCEPT !.w = w, !.p = p])
  BY DEF Revalidate
<1> HIDE DEF w, p
<1>3. LET e == [s EXCEPT !.w = w, !.p = p]
      IN e \in States /\ e.w = w /\ e.p = p /\ e.f = s.f /\ e.n = s.n
  BY <1>1 DEF States
<1> QED BY <1>2, <1>3 DEF Revalidation, Ok, Fail, w, p

(* A rollback and a persist go on with what revalidation left: the tenants *)
(* it does not drop are those it has seen usable.                          *)
LEMMA RevalidateKeeps ==
  ASSUME NEW N, NEW s, NEW v, Env \in Envs, Good(Env, s, N), Revalidation(v, s)
  PROVE  /\ Good(Env, v.s, N)
         /\ v.s.w.catalog = s.w.catalog /\ v.s.w.page = s.w.page
         /\ v.s.w.pending = s.w.pending /\ v.s.w.failed = s.w.failed
         /\ v.ok => /\ Fresh(v.s.w)
                    /\ \A t \in Tenants \cap (v.s.w.revoked \cup v.s.w.withheld) : t \notin Live(v.s.p)
         /\ v.s.p.fromLog = s.p.fromLog /\ v.s.p.hasCkpt = s.p.hasCkpt
         /\ v.s.p.dirty = s.p.dirty
<1>1. CASE ~v.ok
  BY <1>1 DEF Revalidation
<1>2. CASE v.ok
  <2> DEFINE e == v.s
             w == s.w
  <2>1. s \in States /\ e \in States /\ KeyInv(Env, s, N)
    BY DEF Good, KeyInv, Revalidation
  <2>2. e.f = s.f /\ e.w = Revalidated(w) /\ e.p = Dropped(s.p, e.w)
    BY <1>2 DEF Revalidation
  <2>3. w \in Writers /\ e.w \in Writers /\ s.p \in Projs /\ w.deks \in Catalogs
        /\ w.catalog \in Catalogs
    BY <2>1, StateParts
  <2> HIDE DEF e, w
  <2>4. /\ e.w.catalog = w.catalog /\ e.w.page = w.page /\ e.w.pending = w.pending
        /\ e.w.failed = w.failed /\ e.w.deks = Only(w.deks, With(w.catalog, "ready"))
        /\ e.w.withheld = w.withheld \cup With(w.catalog, "withheld")
        /\ e.w.revoked = w.revoked \cup With(w.catalog, "shredded")
    BY <2>2, <2>3, RevalidatedIs
  <2>5. /\ \A t \in Tenants :
              IF t \in e.w.revoked \cup e.w.withheld
              THEN e.p.rows[t] = 0 /\ e.p.acts[t] = {}
              ELSE e.p.rows[t] = s.p.rows[t] /\ e.p.acts[t] = s.p.acts[t]
        /\ e.p.fromLog = s.p.fromLog /\ e.p.hasCkpt = s.p.hasCkpt /\ e.p.dirty = s.p.dirty
        /\ Live(e.p) \subseteq Live(s.p) /\ e.p \in Projs
    <3> DEFINE x == e.w
               y == s.p
               q == Dropped(y, x)
    <3>1. e.p = q /\ x \in Writers /\ y \in Projs
      BY <2>2, <2>3
    <3> HIDE DEF x, y
    <3>2. /\ \A t \in Tenants :
               IF t \in x.revoked \cup x.withheld
               THEN q.rows[t] = 0 /\ q.acts[t] = {}
               ELSE q.rows[t] = y.rows[t] /\ q.acts[t] = y.acts[t]
          /\ q.fromLog = y.fromLog /\ q.hasCkpt = y.hasCkpt /\ q.dirty = y.dirty
          /\ Live(q) \subseteq Live(y) /\ q \in Projs
      BY ONLY <3>1, DroppedIs, SMTT(30)
    <3> QED BY <3>1, <3>2 DEF x, y
  <2>6. /\ DOMAIN e.w.deks = DOMAIN w.deks \cap With(w.catalog, "ready")
        /\ \A x \in DOMAIN e.w.deks : e.w.deks[x] = w.deks[x]
    <3> DEFINE c == w.deks
               S == With(w.catalog, "ready")
    <3>1. c \in Catalogs
      BY <2>3
    <3>2. e.w.deks = Only(c, S)
      BY <2>4
    <3> HIDE DEF c, S
    <3>3. /\ DOMAIN Only(c, S) = DOMAIN c \cap S
          /\ \A x \in DOMAIN c \cap S : Only(c, S)[x] = c[x]
      BY <3>1, OnlyIs
    <3>4. DOMAIN e.w.deks = DOMAIN c \cap S /\ \A x \in DOMAIN e.w.deks : e.w.deks[x] = c[x]
      BY <3>2, <3>3
    <3> QED BY <3>4 DEF c, S
  <2>7. Fresh(e.w)
    BY <2>4, WithIs DEF Fresh
  <2>8. KeyInv(Env, e, N)
    <3>1. Extends(e.w.catalog, e.f.catalog) /\ Extends(e.w.catalog, e.w.deks)
      BY <2>1, <2>2, <2>4, <2>6 DEF KeyInv, WriterInv, Extends, w
    <3>2. DOMAIN e.w.catalog \subseteq DOMAIN e.w.deks \cup e.w.revoked \cup e.w.withheld
      <4>1. DOMAIN w.catalog \subseteq DOMAIN w.deks \cup w.revoked \cup w.withheld
        BY <2>1 DEF KeyInv, WriterInv, w
      <4> QED BY <2>4, <2>6, <4>1, WithIs
    <3>3. \A n \in e.w.revoked \cap DOMAIN e.w.catalog : e.w.catalog[n] \in Env.shredded
      <4>1. \A n \in w.revoked \cap DOMAIN w.catalog : w.catalog[n] \in Env.shredded
        BY <2>1 DEF KeyInv, WriterInv, w
      <4> QED BY <2>4, <4>1, WithIs, EnvParts
    <3>4. StoreKey \notin e.w.revoked
      <4>1. StoreKey \notin With(w.catalog, "shredded")
        BY <1>2 DEF With, StoreShredded, Revalidation, w
      <4> QED BY <2>1, <2>4, <4>1 DEF KeyInv, WriterInv, w
    <3> QED BY <2>1, <2>2, <2>3, <2>4, <3>1, <3>2, <3>3, <3>4 DEF KeyInv, WriterInv, w
  <2>9. \A t \in Tenants : Recs(e, t) = Recs(s, t)
    BY <2>2, <2>4 DEF Recs, w
  <2>10. ASSUME NEW t \in Tenants, Whole(Env, s, t), t \notin e.w.revoked \cup e.w.withheld
         PROVE  Whole(Env, e, t)
    <3>1. e.p.rows[t] = s.p.rows[t] /\ e.p.acts[t] = s.p.acts[t] /\ Recs(e, t) = Recs(s, t)
      BY <2>5, <2>9, <2>10
    <3>2. e.w.withheld = {} => s.w.withheld = {}
      BY <2>4 DEF w
    <3> QED BY <2>10, <3>1, <3>2 DEF Whole
  <2>11. ProjInv(Env, e)
    <3> SUFFICES ASSUME ~e.w.failed
                 PROVE  /\ Live(e.p) \subseteq DOMAIN e.w.catalog
                        /\ HasPending(e.w) \/ Live(e.p) \subseteq DOMAIN e.f.catalog
                        /\ HasPending(e.w) => e.p.dirty
                        /\ Faults = {} => e.p.fromLog
                        /\ \A t \in Tenants : Usable(Env, e.w, t) => Whole(Env, e, t)
                        /\ ~e.p.dirty /\ e.p.hasCkpt /\ e.w.withheld = {} =>
                             \A t \in Tenants : ~Destroyed(Env, e.f, t) => Whole(Env, e, t)
      BY DEF ProjInv
    <3>1. /\ Live(s.p) \subseteq DOMAIN w.catalog
          /\ HasPending(w) \/ Live(s.p) \subseteq DOMAIN s.f.catalog
          /\ HasPending(w) => s.p.dirty
          /\ Faults = {} => s.p.fromLog
          /\ \A t \in Tenants : Usable(Env, w, t) => Whole(Env, s, t)
          /\ ~s.p.dirty /\ s.p.hasCkpt /\ w.withheld = {} =>
               \A t \in Tenants : ~Destroyed(Env, s.f, t) => Whole(Env, s, t)
      BY <2>4 DEF Good, ProjInv, w
    <3>2. HasPending(e.w) <=> HasPending(w)
      BY <2>4 DEF HasPending
    <3>3. ASSUME NEW t \in Tenants, Usable(Env, e.w, t) PROVE Whole(Env, e, t)
      <4>1. Usable(Env, w, t) /\ t \notin e.w.revoked \cup e.w.withheld
        BY <2>4, <3>3 DEF Usable
      <4> QED BY <2>10, <3>1, <4>1
    <3>4. ASSUME ~e.p.dirty, e.p.hasCkpt, e.w.withheld = {},
                 NEW t \in Tenants, ~Destroyed(Env, e.f, t)
          PROVE  Whole(Env, e, t)
      <4>1. Whole(Env, s, t) /\ ~HasPending(s.w)
        BY <2>2, <2>4, <2>5, <3>1, <3>4 DEF w
      <4>2. CASE t \notin e.w.revoked
        BY <2>10, <3>4, <4>1, <4>2
      <4>3. CASE t \in e.w.revoked
        <5>1. t \in DOMAIN e.f.catalog => e.f.catalog[t] = e.w.catalog[t] /\ t \in DOMAIN e.w.catalog
          BY <2>8 DEF KeyInv, WriterInv, Extends
        <5>2. t \notin DOMAIN e.f.catalog
          BY <2>8, <3>4, <4>3, <5>1 DEF KeyInv, WriterInv, Destroyed
        <5>3. Recs(e, t) = {} /\ Env.gone[t] = {}
          <6>1. ~HasPending(e.w)
            BY <3>2, <4>1 DEF w
          <6> QED BY <2>8, <5>2, <6>1, RecsIn
        <5>4. e.p.rows[t] = 0 /\ e.p.acts[t] = {}
          BY <2>5, <4>3
        <5> QED BY <5>3, <5>4 DEF Whole, IsLast
      <4> QED BY <4>2, <4>3
    <3> QED BY <2>2, <2>4, <2>5, <3>1, <3>2, <3>3, <3>4
  <2>12. \A t \in Tenants \cap (e.w.revoked \cup e.w.withheld) : t \notin Live(e.p)
    BY <2>5, NotLive
  <2> QED BY <2>4, <2>5, <2>7, <2>8, <2>11, <2>12 DEF e, w, Good
<1> QED BY <1>1, <1>2 DEF Revalidation

-----------------------------------------------------------------------------
(* A log that grew.                                                        *)

Grows(g, f) ==
  /\ Extends(g.catalog, f.catalog) /\ Len(f.pages) <= Len(g.pages)
  /\ \A i \in 1..Len(f.pages) : g.pages[i] = f.pages[i]

LEMMA GrowsSelf ==
  ASSUME NEW f \in Files
  PROVE  Grows(f, f)
<1>1. Len(f.pages) \in Nat
  BY LenProperties DEF Files
<1> QED BY <1>1 DEF Grows, Extends

LEMMA GrowsOn ==
  ASSUME NEW f \in Files, NEW g \in Files, NEW h \in Files, Grows(h, g), Grows(g, f)
  PROVE  Grows(h, f)
<1>1. Len(f.pages) \in Nat /\ Len(g.pages) \in Nat /\ Len(h.pages) \in Nat
  BY LenProperties DEF Files
<1> QED BY <1>1 DEF Grows, Extends

LEMMA SealedConcat ==
  ASSUME NEW X, NEW a \in Seq(X), NEW b \in Seq(X), NEW c, NEW N,
         SealedBy(a, c, N), SealedBy(b, c, N)
  PROVE  SealedBy(a \o b, c, N)
<1>1. Len(a) \in Nat /\ Len(b) \in Nat /\ Len(a \o b) = Len(a) + Len(b)
  BY ConcatProperties, LenProperties
<1>2. ASSUME NEW i \in 1..Len(a \o b)
      PROVE  \/ i \in 1..Len(a) /\ (a \o b)[i] = a[i]
             \/ i - Len(a) \in 1..Len(b) /\ (a \o b)[i] = b[i - Len(a)]
  <2>1. i \in 1..Len(a) + Len(b)
    BY <1>1
  <2>2. (a \o b)[i] = IF i <= Len(a) THEN a[i] ELSE b[i - Len(a)]
    BY <2>1, ConcatProperties
  <2> QED BY <1>1, <2>1, <2>2
<1> QED BY <1>2 DEF SealedBy

LEMMA SealedAppend ==
  ASSUME NEW X, NEW a \in Seq(X), NEW p \in X, NEW c, NEW N, SealedBy(a, c, N),
         p.tenant \in DOMAIN c, p.dek = c[p.tenant], Range(p.recs) \subseteq 1..N
  PROVE  SealedBy(Append(a, p), c, N)
<1>1. Len(a) \in Nat /\ Len(Append(a, p)) = Len(a) + 1 /\ Append(a, p)[Len(a) + 1] = p
      /\ \A i \in 1..Len(a) : Append(a, p)[i] = a[i]
  BY AppendProperties, LenProperties
<1>2. \A i \in 1..Len(Append(a, p)) : i \in 1..Len(a) \/ i = Len(a) + 1
  BY <1>1
<1> HIDE DEF SealedBy
<1>3. ASSUME NEW i \in 1..Len(Append(a, p))
      PROVE  /\ Append(a, p)[i].tenant \in DOMAIN c
             /\ Append(a, p)[i].dek = c[Append(a, p)[i].tenant]
             /\ Range(Append(a, p)[i].recs) \subseteq 1..N
  <2>1. CASE i \in 1..Len(a)
    <3>1. Append(a, p)[i] = a[i]
      BY <1>1, <2>1
    <3> QED BY <2>1, <3>1 DEF SealedBy
  <2>2. CASE i = Len(a) + 1
    BY <1>1, <2>2
  <2> QED BY <1>2, <2>1, <2>2
<1> QED BY <1>3 DEF SealedBy

-----------------------------------------------------------------------------
(* ensure_tenant_dek                                                       *)

MintedIs(e, s, t) ==
  /\ e \in States /\ e.f = s.f /\ e.p = s.p
  /\ e.w.catalog = Put(s.w.catalog, t, s.n + 1) /\ e.w.deks = Put(s.w.deks, t, s.n + 1)
  /\ e.w.revoked = s.w.revoked /\ e.w.withheld = s.w.withheld /\ e.w.page = s.w.page
  /\ e.w.pending = s.w.pending /\ e.w.failed = s.w.failed

LEMMA MintedShape ==
  ASSUME NEW s \in States, NEW t \in Names
  PROVE  MintedIs(Minted(s, t), s, t)
<1> DEFINE c == Put(s.w.catalog, t, s.n + 1)
           d == Put(s.w.deks, t, s.n + 1)
           m == s.n + 1
<1>1. s.w.catalog \in Catalogs /\ s.w.deks \in Catalogs /\ m \in Nat
  BY StateParts
<1>2. c \in Catalogs /\ d \in Catalogs
  BY <1>1, PutIs
<1>3. Minted(s, t) = [s EXCEPT !.n = m, !.w.catalog = c, !.w.deks = d]
  BY DEF Minted
<1> HIDE DEF c, d, m
<1>4. LET e == [s EXCEPT !.n = m, !.w.catalog = c, !.w.deks = d]
      IN /\ e \in States /\ e.f = s.f /\ e.p = s.p /\ e.w.catalog = c /\ e.w.deks = d
         /\ e.w.revoked = s.w.revoked /\ e.w.withheld = s.w.withheld /\ e.w.page = s.w.page
         /\ e.w.pending = s.w.pending /\ e.w.failed = s.w.failed
  BY <1>1, <1>2 DEF States, Writers
<1> QED BY <1>3, <1>4 DEF c, d, m, MintedIs

LEMMA MintedKeeps ==
  ASSUME NEW N, NEW s, NEW t \in Tenants, NEW e, Good(Env, s, N), MintedIs(e, s, t),
         t \notin DOMAIN s.w.catalog, t \notin s.w.revoked
  PROVE  Good(Env, e, N)
<1>1. s \in States /\ e \in States /\ KeyInv(Env, s, N) /\ N \in Nat /\ t \in Names
  BY DEF Good, KeyInv, MintedIs, Names
<1>2. /\ s.w.catalog \in Catalogs /\ s.w.deks \in Catalogs /\ s.n + 1 \in Nat
      /\ e.w \in Writers /\ s.p \in Projs
  BY <1>1, StateParts
<1> DEFINE c == s.w.catalog
           d == s.w.deks
           m == s.n + 1
<1>c. c \in Catalogs /\ d \in Catalogs /\ m \in Nat
  BY <1>2
<1>d. e.w.catalog = Put(c, t, m) /\ e.w.deks = Put(d, t, m)
  BY DEF MintedIs
<1> HIDE DEF c, d, m
<1>3. /\ DOMAIN e.w.catalog = DOMAIN s.w.catalog \cup {t}
      /\ \A x \in DOMAIN s.w.catalog \cup {t} :
           e.w.catalog[x] = IF x = t THEN s.n + 1 ELSE s.w.catalog[x]
  <2>1. /\ DOMAIN Put(c, t, m) = DOMAIN c \cup {t}
        /\ Put(c, t, m)[t] = m /\ \A x \in DOMAIN c : x # t => Put(c, t, m)[x] = c[x]
    BY <1>1, <1>c, PutIs, SMTT(30)
  <2> QED BY <1>d, <2>1 DEF c, m
<1>4. /\ DOMAIN e.w.deks = DOMAIN s.w.deks \cup {t}
      /\ \A x \in DOMAIN s.w.deks \cup {t} :
           e.w.deks[x] = IF x = t THEN s.n + 1 ELSE s.w.deks[x]
  <2>1. /\ DOMAIN Put(d, t, m) = DOMAIN d \cup {t}
        /\ Put(d, t, m)[t] = m /\ \A x \in DOMAIN d : x # t => Put(d, t, m)[x] = d[x]
    BY <1>1, <1>c, PutIs, SMTT(30)
  <2> QED BY <1>d, <2>1 DEF d, m
<1>5. e.f = s.f /\ e.p = s.p /\ e.w.revoked = s.w.revoked /\ e.w.withheld = s.w.withheld
      /\ e.w.page = s.w.page /\ e.w.pending = s.w.pending /\ e.w.failed = s.w.failed
  BY DEF MintedIs
<1>6. /\ Extends(s.w.catalog, s.f.catalog) /\ Extends(s.w.catalog, s.w.deks)
      /\ DOMAIN s.w.catalog \subseteq DOMAIN s.w.deks \cup s.w.revoked \cup s.w.withheld
      /\ \A n \in s.w.revoked \cap DOMAIN s.w.catalog : s.w.catalog[n] \in Env.shredded
      /\ SealedBy(s.w.pending, s.w.catalog, N)
      /\ s.w.page.recs # <<>> => s.w.page.tenant \in DOMAIN s.w.catalog \cap Tenants
      /\ Range(s.w.page.recs) \subseteq 1..N /\ FileInv(Env, s.f, N)
  BY <1>1 DEF KeyInv, WriterInv
<1>7. Extends(e.w.catalog, s.w.catalog)
  BY <1>3 DEF Extends
<1>8. Extends(e.w.catalog, e.f.catalog) /\ Extends(e.w.catalog, e.w.deks)
  BY <1>3, <1>4, <1>5, <1>6 DEF Extends
<1>9. SealedBy(e.w.pending, e.w.catalog, N)
  BY <1>1, <1>5, <1>6, <1>7, SealedGrows
<1>10. KeyInv(Env, e, N)
  BY <1>1, <1>2, <1>3, <1>4, <1>5, <1>6, <1>8, <1>9 DEF KeyInv, WriterInv
<1>11. \A u \in Tenants : Recs(e, u) = Recs(s, u)
  BY <1>5 DEF Recs
<1>12. \A u \in Tenants : Whole(Env, s, u) => Whole(Env, e, u)
  BY <1>5, <1>11 DEF Whole
<1>13. ~s.w.failed => Live(s.p) \subseteq DOMAIN s.w.catalog
  BY DEF Good, ProjInv
<1>14. ~s.w.failed => Whole(Env, e, t)
  <2> SUFFICES ASSUME ~s.w.failed PROVE Whole(Env, e, t)
    OBVIOUS
  <2>1. Recs(e, t) = {} /\ Env.gone[t] = {}
    BY <1>1, <1>11, RecsIn
  <2>2. s.p.rows[t] = 0 /\ s.p.acts[t] = {}
    BY <1>2, <1>13, NotLive
  <2> QED BY <1>5, <2>1, <2>2 DEF Whole, IsLast
<1>15. \A u \in Tenants \ {t} : Usable(Env, e.w, u) => Usable(Env, s.w, u)
  BY <1>3, <1>5 DEF Usable
<1>16. DOMAIN s.w.catalog \subseteq DOMAIN e.w.catalog
  BY <1>3
<1>17. HasPending(e.w) = HasPending(s.w)
  BY <1>5 DEF HasPending
<1>18. ProjInv(Env, e)
  BY <1>5, <1>12, <1>13, <1>14, <1>15, <1>16, <1>17 DEF Good, ProjInv
<1> QED BY <1>10, <1>18 DEF Good

LEMMA EnsureDekKeeps ==
  ASSUME NEW N, NEW s, NEW t \in Tenants, NEW e, Good(Env, s, N), e = EnsureDek(s, t)
  PROVE  /\ Good(Env, e.s, N) /\ e.s.f = s.f /\ e.s.p = s.p
         /\ e.s.w.page = s.w.page /\ e.s.w.pending = s.w.pending /\ e.s.w.failed = s.w.failed
         /\ e.s.w.withheld = s.w.withheld
         /\ e.ok \in BOOLEAN /\ (e.ok => t \in DOMAIN e.s.w.deks)
<1>1. s \in States /\ t \in Names
  BY DEF Good, KeyInv, Names
<1>2. CASE t \in s.w.revoked
  BY <1>2 DEF EnsureDek, Fail
<1>3. CASE t \notin s.w.revoked /\ t \in DOMAIN s.w.deks
  BY <1>3 DEF EnsureDek, Ok
<1>4. CASE /\ t \notin s.w.revoked /\ t \notin DOMAIN s.w.deks
           /\ t \in s.w.withheld \cup DOMAIN s.w.catalog \/ t \notin granted
  BY <1>4 DEF EnsureDek, Fail
<1>5. CASE /\ t \notin s.w.revoked /\ t \notin DOMAIN s.w.deks
           /\ t \notin s.w.withheld \cup DOMAIN s.w.catalog /\ t \in granted
  <2>1. e = [s |-> Minted(s, t), ok |-> TRUE]
    BY <1>5 DEF EnsureDek, Ok
  <2>2. MintedIs(e.s, s, t) /\ e.ok
    BY <1>1, <2>1, MintedShape
  <2>3. Good(Env, e.s, N)
    BY <1>5, <2>2, MintedKeeps
  <2>4. t \in DOMAIN e.s.w.deks
    <3> DEFINE d == s.w.deks
               m == s.n + 1
    <3>1. d \in Catalogs /\ m \in Nat /\ e.s.w.deks = Put(d, t, m)
      BY <1>1, <2>2, StateParts DEF MintedIs
    <3> HIDE DEF d, m
    <3>2. DOMAIN Put(d, t, m) = DOMAIN d \cup {t}
      BY <1>1, <3>1, PutIs
    <3> QED BY <3>1, <3>2
  <2> QED BY <2>2, <2>3, <2>4 DEF MintedIs
<1> QED BY <1>2, <1>3, <1>4, <1>5

-----------------------------------------------------------------------------
(* commit_pending                                                          *)

CommittedIs(e, s) ==
  /\ e \in States /\ e.f.catalog = s.w.catalog /\ e.f.pages = s.f.pages \o s.w.pending
  /\ e.p = s.p /\ e.w.pending = <<>>
  /\ e.w.catalog = s.w.catalog /\ e.w.deks = s.w.deks /\ e.w.revoked = s.w.revoked
  /\ e.w.withheld = s.w.withheld /\ e.w.page = s.w.page /\ e.w.failed = s.w.failed

LEMMA CommittedShape ==
  ASSUME NEW s \in States
  PROVE  CommittedIs([s EXCEPT !.f = [catalog |-> s.w.catalog, pages |-> @.pages \o s.w.pending],
                               !.w.pending = <<>>], s)
<1> DEFINE q == s.f.pages \o s.w.pending
           g == [catalog |-> s.w.catalog, pages |-> q]
           none == <<>>
           e == [s EXCEPT !.f = g, !.w.pending = none]
<1>0. q \in Seq(SealedPages) /\ none \in Seq(SealedPages)
  BY StateParts, ConcatProperties, EmptySeq
<1> HIDE DEF q
<1>1. g \in Files /\ g.catalog = s.w.catalog /\ g.pages = q
  BY <1>0, StateParts DEF Files
<1> HIDE DEF g, none
<1>2. /\ e \in States /\ e.f = g /\ e.p = s.p /\ e.w.pending = none
      /\ e.w.catalog = s.w.catalog /\ e.w.deks = s.w.deks /\ e.w.revoked = s.w.revoked
      /\ e.w.withheld = s.w.withheld /\ e.w.page = s.w.page /\ e.w.failed = s.w.failed
  BY <1>0, <1>1 DEF States, Writers
<1>3. e = [s EXCEPT !.f = [catalog |-> s.w.catalog, pages |-> @.pages \o s.w.pending],
                    !.w.pending = <<>>]
  BY DEF g, none, q
<1> HIDE DEF e
<1>4. CommittedIs(e, s)
  BY <1>1, <1>2 DEF none, q, CommittedIs
<1> QED BY <1>3, <1>4

FailedIs(e, s) ==
  /\ e \in States /\ e.f = s.f /\ e.p = s.p /\ e.w.failed = TRUE
  /\ e.w.catalog = s.w.catalog /\ e.w.deks = s.w.deks /\ e.w.revoked = s.w.revoked
  /\ e.w.withheld = s.w.withheld /\ e.w.page = s.w.page /\ e.w.pending = s.w.pending

LEMMA FailedShape ==
  ASSUME NEW s \in States
  PROVE  FailedIs([s EXCEPT !.w.failed = TRUE], s)
<1> DEFINE e == [s EXCEPT !.w.failed = TRUE]
<1>1. /\ e \in States /\ e.f = s.f /\ e.p = s.p /\ e.w.failed = TRUE
      /\ e.w.catalog = s.w.catalog /\ e.w.deks = s.w.deks /\ e.w.revoked = s.w.revoked
      /\ e.w.withheld = s.w.withheld /\ e.w.page = s.w.page /\ e.w.pending = s.w.pending
  BY DEF States, Writers
<1> QED BY <1>1 DEF FailedIs

(* Nothing is expected of the projection of a writer that failed.          *)
LEMMA FailedKeeps ==
  ASSUME NEW N, NEW s, NEW e, KeyInv(Env, s, N), FailedIs(e, s)
  PROVE  Good(Env, e, N)
<1>1. e.w \in Writers
  BY StateParts DEF FailedIs
<1>2. KeyInv(Env, e, N)
  BY <1>1 DEF KeyInv, WriterInv, FailedIs
<1> QED BY <1>2 DEF Good, ProjInv, FailedIs

LEMMA CommittedKeeps ==
  ASSUME NEW N, NEW s, NEW e, Good(Env, s, N), CommittedIs(e, s), s.w.pending # <<>>
  PROVE  Good(Env, e, N) /\ Grows(e.f, s.f)
<1>1. s \in States /\ e \in States /\ KeyInv(Env, s, N) /\ N \in Nat
  BY DEF Good, KeyInv, CommittedIs
<1>2. /\ s.f.pages \in Seq(SealedPages) /\ s.w.pending \in Seq(SealedPages)
      /\ e.w \in Writers /\ e.f \in Files /\ s.f.catalog \in Catalogs /\ s.w.catalog \in Catalogs
  BY <1>1, StateParts
<1>3. e.f.catalog = s.w.catalog /\ e.f.pages = s.f.pages \o s.w.pending
  BY DEF CommittedIs
<1>4. /\ e.p = s.p /\ e.w.pending = <<>> /\ e.w.catalog = s.w.catalog /\ e.w.deks = s.w.deks
      /\ e.w.revoked = s.w.revoked /\ e.w.withheld = s.w.withheld /\ e.w.page = s.w.page
      /\ e.w.failed = s.w.failed
  BY DEF CommittedIs
<1>5. /\ Extends(s.w.catalog, s.f.catalog) /\ Extends(s.w.catalog, s.w.deks)
      /\ DOMAIN s.w.catalog \subseteq DOMAIN s.w.deks \cup s.w.revoked \cup s.w.withheld
      /\ \A n \in s.w.revoked \cap DOMAIN s.w.catalog : s.w.catalog[n] \in Env.shredded
      /\ SealedBy(s.w.pending, s.w.catalog, N)
      /\ s.w.page.recs # <<>> => s.w.page.tenant \in DOMAIN s.w.catalog \cap Tenants
      /\ Range(s.w.page.recs) \subseteq 1..N
      /\ SealedBy(s.f.pages, s.f.catalog, N) /\ StoreKey \in DOMAIN s.f.catalog
      /\ \A t \in Tenants : Env.gone[t] # {} => t \in DOMAIN s.f.catalog /\ On(s.f.pages, t) # {}
  BY <1>1 DEF KeyInv, WriterInv, FileInv
<1>6. \A t : On(e.f.pages, t) = On(s.f.pages, t) \cup On(s.w.pending, t)
  BY <1>2, <1>3, OnConcat
<1>7. FileInv(Env, e.f, N)
  <2>1. SealedBy(s.f.pages, s.w.catalog, N)
    BY <1>1, <1>5, SealedGrows
  <2>2. SealedBy(e.f.pages, e.f.catalog, N)
    BY <1>2, <1>3, <1>5, <2>1, SealedConcat
  <2>3. \A n \in DOMAIN s.f.catalog : n \in DOMAIN e.f.catalog
    BY <1>3, <1>5 DEF Extends
  <2> QED BY <1>2, <1>5, <1>6, <2>2, <2>3 DEF FileInv
<1>8. KeyInv(Env, e, N)
  <2>1. SealedBy(e.w.pending, e.w.catalog, N)
    BY <1>4, EmptySeq DEF SealedBy
  <2>2. Extends(e.w.catalog, e.f.catalog)
    BY <1>3, <1>4 DEF Extends
  <2> QED BY <1>1, <1>2, <1>4, <1>5, <1>7, <2>1, <2>2 DEF KeyInv, WriterInv
<1>9. \A t \in Tenants : Recs(e, t) = Recs(s, t)
  BY <1>4, <1>6, OnEmpty DEF Recs
<1>10. \A t \in Tenants : Whole(Env, s, t) => Whole(Env, e, t)
  BY <1>4, <1>9 DEF Whole
<1>11. HasPending(s.w)
  BY DEF HasPending
<1>12. ProjInv(Env, e)
  BY <1>3, <1>4, <1>10, <1>11 DEF Good, ProjInv, Usable
<1>13. Grows(e.f, s.f)
  <2>1. /\ Len(s.f.pages) \in Nat /\ Len(s.w.pending) \in Nat
        /\ Len(e.f.pages) = Len(s.f.pages) + Len(s.w.pending)
    BY <1>2, <1>3, ConcatProperties, LenProperties
  <2>2. \A i \in 1..Len(s.f.pages) : e.f.pages[i] = s.f.pages[i]
    <3> DEFINE a == s.f.pages
               b == s.w.pending
    <3>1. a \in Seq(SealedPages) /\ b \in Seq(SealedPages) /\ e.f.pages = a \o b
      BY <1>2, <1>3
    <3> HIDE DEF a, b
    <3>2. Len(a) \in Nat /\ Len(b) \in Nat
      BY <3>1, LenProperties
    <3>3. \A i \in 1..Len(a) : (a \o b)[i] = a[i]
      BY <3>1, <3>2, ConcatProperties
    <3> QED BY <3>1, <3>3 DEF a
  <2>3. Len(s.f.pages) <= Len(e.f.pages)
    <3> DEFINE a == Len(s.f.pages)
               b == Len(s.w.pending)
               c == Len(e.f.pages)
    <3>1. a \in Nat /\ b \in Nat /\ c = a + b
      BY <2>1
    <3> HIDE DEF a, b, c
    <3>2. a <= c
      BY <3>1
    <3> QED BY <3>2 DEF a, c
  <2>4. Extends(e.f.catalog, s.f.catalog)
    BY <1>3, <1>5
  <2> QED BY <2>2, <2>3, <2>4 DEF Grows
<1> QED BY <1>8, <1>12, <1>13 DEF Good

(* What every step that may commit leaves of the writer.                   *)
KeysStay(e, s) ==
  /\ e.w.catalog = s.w.catalog /\ e.w.deks = s.w.deks /\ e.w.revoked = s.w.revoked
  /\ e.w.withheld = s.w.withheld /\ e.p = s.p

LEMMA CommitPendingKeeps ==
  ASSUME NEW N, NEW s, NEW e, Good(Env, s, N), e = CommitPending(s)
  PROVE  /\ Good(Env, e.s, N) /\ Grows(e.s.f, s.f) /\ KeysStay(e.s, s)
         /\ e.s.w.page = s.w.page /\ e.ok \in BOOLEAN
         /\ e.ok => e.s.w.pending = <<>> /\ e.s.w.failed = s.w.failed
<1>1. s \in States /\ s.f \in Files /\ KeyInv(Env, s, N)
  BY StateParts DEF Good, KeyInv
<1>2. CASE s.w.pending = <<>>
  BY <1>1, <1>2, GrowsSelf DEF CommitPending, Ok, KeysStay
<1>3. CASE s.w.pending # <<>> /\ Cardinality(DOMAIN s.w.catalog) > CatalogRoom + 1
  <2>1. e = [s |-> [s EXCEPT !.w.failed = TRUE], ok |-> FALSE]
    BY <1>3 DEF CommitPending, Fail
  <2>2. FailedIs(e.s, s) /\ e.ok = FALSE
    BY <1>1, <2>1, FailedShape
  <2> QED BY <1>1, <2>2, FailedKeeps, GrowsSelf DEF FailedIs, KeysStay
<1>4. CASE s.w.pending # <<>> /\ ~(Cardinality(DOMAIN s.w.catalog) > CatalogRoom + 1)
  <2> DEFINE c == [s EXCEPT !.f = [catalog |-> s.w.catalog, pages |-> @.pages \o s.w.pending],
                            !.w.pending = <<>>]
  <2>1. CommittedIs(c, s)
    BY <1>1, CommittedShape
  <2>2. e = Ok(c)
    BY <1>4 DEF CommitPending
  <2> HIDE DEF c
  <2>3. CommittedIs(e.s, s) /\ e.ok = TRUE
    BY <2>1, <2>2 DEF Ok
  <2> QED BY <1>4, <2>3, CommittedKeeps DEF CommittedIs, KeysStay
<1> QED BY <1>2, <1>3, <1>4

-----------------------------------------------------------------------------
(* flush_page and flush                                                    *)

FlushedIs(e, s, page) ==
  /\ e \in States /\ e.f = s.f /\ e.p = s.p
  /\ e.w.pending = Append(s.w.pending, page) /\ e.w.page = EmptyPage
  /\ e.w.catalog = s.w.catalog /\ e.w.deks = s.w.deks /\ e.w.revoked = s.w.revoked
  /\ e.w.withheld = s.w.withheld /\ e.w.failed = s.w.failed

LEMMA EmptyPageIs ==
  /\ EmptyPage \in [tenant : Names, recs : Seq(Nat)]
  /\ EmptyPage.recs = <<>> /\ \A t : OnPage(EmptyPage, t) = {}
<1>1. <<>> \in Seq(Nat)
  BY EmptySeq
<1>2. EmptyPage \in [tenant : Names, recs : Seq(Nat)] /\ EmptyPage.recs = <<>>
  BY <1>1 DEF EmptyPage, Names
<1> QED BY <1>2, EmptyRange DEF OnPage

LEMMA FlushedShape ==
  ASSUME NEW s \in States, NEW page \in SealedPages
  PROVE  FlushedIs([s EXCEPT !.w.pending = Append(@, page), !.w.page = EmptyPage], s, page)
<1> DEFINE q == Append(s.w.pending, page)
           none == EmptyPage
           e == [s EXCEPT !.w.pending = q, !.w.page = none]
<1>1. q \in Seq(SealedPages) /\ none \in [tenant : Names, recs : Seq(Nat)]
  BY StateParts, AppendProperties, EmptyPageIs
<1> HIDE DEF q, none
<1>2. /\ e \in States /\ e.f = s.f /\ e.p = s.p /\ e.w.pending = q /\ e.w.page = none
      /\ e.w.catalog = s.w.catalog /\ e.w.deks = s.w.deks /\ e.w.revoked = s.w.revoked
      /\ e.w.withheld = s.w.withheld /\ e.w.failed = s.w.failed
  BY <1>1 DEF States, Writers
<1> QED BY <1>2 DEF q, none, FlushedIs

LEMMA FlushedKeeps ==
  ASSUME NEW N, NEW s, NEW e, Good(Env, s, N), s.w.page.recs # <<>>,
         s.w.page.tenant \in DOMAIN s.w.deks,
         FlushedIs(e, s, SealPage(s.w.page.tenant, s.w.deks[s.w.page.tenant], s.w.page.recs))
  PROVE  Good(Env, e, N)
<1> DEFINE page == SealPage(s.w.page.tenant, s.w.deks[s.w.page.tenant], s.w.page.recs)
<1>1. s \in States /\ e \in States /\ KeyInv(Env, s, N) /\ N \in Nat
  BY DEF Good, KeyInv, FlushedIs
<1>2. /\ s.w.pending \in Seq(SealedPages) /\ e.w \in Writers /\ s.w.deks \in Catalogs
      /\ s.w.page.recs \in Seq(Nat)
  BY <1>1, StateParts
<1>3. /\ Extends(s.w.catalog, s.f.catalog) /\ Extends(s.w.catalog, s.w.deks)
      /\ DOMAIN s.w.catalog \subseteq DOMAIN s.w.deks \cup s.w.revoked \cup s.w.withheld
      /\ \A n \in s.w.revoked \cap DOMAIN s.w.catalog : s.w.catalog[n] \in Env.shredded
      /\ SealedBy(s.w.pending, s.w.catalog, N)
      /\ s.w.page.tenant \in DOMAIN s.w.catalog \cap Tenants
      /\ Range(s.w.page.recs) \subseteq 1..N /\ FileInv(Env, s.f, N)
  BY <1>1 DEF KeyInv, WriterInv
<1>4. page.tenant = s.w.page.tenant /\ page.dek = s.w.deks[s.w.page.tenant]
      /\ page.recs = s.w.page.recs
  BY DEF SealPage
<1>5. page \in SealedPages
  <2>1. s.w.deks[s.w.page.tenant] \in Nat
    BY <1>2, CatalogParts
  <2> QED BY <1>2, <1>3, <2>1 DEF SealPage, SealedPages
<1>6. /\ e.f = s.f /\ e.p = s.p /\ e.w.pending = Append(s.w.pending, page)
      /\ e.w.page = EmptyPage /\ e.w.catalog = s.w.catalog /\ e.w.deks = s.w.deks
      /\ e.w.revoked = s.w.revoked /\ e.w.withheld = s.w.withheld /\ e.w.failed = s.w.failed
  BY DEF FlushedIs
<1> HIDE DEF page
<1>7. SealedBy(e.w.pending, e.w.catalog, N)
  <2>1. page.tenant \in DOMAIN s.w.catalog /\ page.dek = s.w.catalog[page.tenant]
    BY <1>3, <1>4 DEF Extends
  <2> QED BY <1>2, <1>3, <1>4, <1>5, <1>6, <2>1, SealedAppend
<1>8. KeyInv(Env, e, N)
  <2>1. e.w.page.recs = <<>> /\ Range(e.w.page.recs) \subseteq 1..N
    BY <1>6, EmptyPageIs, EmptyRange
  <2> QED BY <1>1, <1>2, <1>3, <1>6, <1>7, <2>1 DEF KeyInv, WriterInv
<1>9. \A t \in Tenants : Recs(e, t) = Recs(s, t)
  <2> SUFFICES ASSUME NEW t \in Tenants PROVE Recs(e, t) = Recs(s, t)
    OBVIOUS
  <2>1. On(e.w.pending, t) = On(s.w.pending, t) \cup OnPage(s.w.page, t)
    BY <1>2, <1>4, <1>5, <1>6, OnAppend DEF OnPage
  <2>2. OnPage(e.w.page, t) = {}
    BY <1>6, EmptyPageIs
  <2> QED BY <1>6, <2>1, <2>2 DEF Recs
<1>10. \A t \in Tenants : Whole(Env, s, t) => Whole(Env, e, t)
  BY <1>6, <1>9 DEF Whole
<1>11. HasPending(s.w) /\ HasPending(e.w)
  <2>1. e.w.pending # <<>>
    <3>1. Len(e.w.pending) = Len(s.w.pending) + 1 /\ Len(s.w.pending) \in Nat
      BY <1>2, <1>5, <1>6, AppendProperties, LenProperties
    <3> QED BY <3>1, EmptySeq
  <2> QED BY <2>1 DEF HasPending
<1>12. ProjInv(Env, e)
  BY <1>6, <1>10, <1>11 DEF Good, ProjInv, Usable
<1> QED BY <1>8, <1>12 DEF Good

LEMMA FlushPageKeeps ==
  ASSUME NEW N, NEW s, NEW hold, NEW e, Good(Env, s, N), e = FlushPage(s, hold)
  PROVE  /\ Good(Env, e.s, N) /\ Grows(e.s.f, s.f) /\ KeysStay(e.s, s) /\ e.ok \in BOOLEAN
         /\ e.ok => e.s.w.page.recs = <<>> /\ e.s.w.failed = s.w.failed
<1>1. s \in States /\ s.f \in Files /\ KeyInv(Env, s, N)
  BY StateParts DEF Good, KeyInv
<1>2. CASE s.w.page.recs = <<>>
  BY <1>1, <1>2, GrowsSelf DEF FlushPage, Ok, KeysStay
<1>3. CASE s.w.page.recs # <<>> /\ s.w.page.tenant \notin DOMAIN s.w.deks
  BY <1>1, <1>3, GrowsSelf DEF FlushPage, Fail, KeysStay
<1>4. CASE s.w.page.recs # <<>> /\ s.w.page.tenant \in DOMAIN s.w.deks
  <2> DEFINE page == SealPage(s.w.page.tenant, s.w.deks[s.w.page.tenant], s.w.page.recs)
             next == [s EXCEPT !.w.pending = Append(@, page), !.w.page = EmptyPage]
  <2>1. e = IF ~hold /\ Len(next.w.pending) >= GroupSize THEN CommitPending(next) ELSE Ok(next)
    BY <1>4 DEF FlushPage
  <2>2. page \in SealedPages
    <3>1. s.w.page.tenant \in Tenants /\ s.w.deks \in Catalogs /\ s.w.page.recs \in Seq(Nat)
      BY <1>1, <1>4, StateParts DEF KeyInv, WriterInv
    <3>2. s.w.deks[s.w.page.tenant] \in Nat
      BY <1>4, <3>1, CatalogParts
    <3> QED BY <3>1, <3>2 DEF SealPage, SealedPages
  <2>3. FlushedIs(next, s, page)
    BY <1>1, <2>2, FlushedShape
  <2> HIDE DEF next
  <2>4. Good(Env, next, N)
    BY <1>4, <2>3, FlushedKeeps
  <2>5. /\ next.f = s.f /\ KeysStay(next, s) /\ next.w.page.recs = <<>>
        /\ next.w.failed = s.w.failed
    BY <2>3, EmptyPageIs DEF FlushedIs, KeysStay
  <2>6. CASE ~hold /\ Len(next.w.pending) >= GroupSize
    <3>1. e = CommitPending(next)
      BY <2>1, <2>6
    <3>2. /\ Good(Env, e.s, N) /\ Grows(e.s.f, next.f) /\ KeysStay(e.s, next)
          /\ e.s.w.page = next.w.page /\ e.ok \in BOOLEAN
          /\ e.ok => e.s.w.pending = <<>> /\ e.s.w.failed = next.w.failed
      BY <2>4, <3>1, CommitPendingKeeps
    <3> QED BY <2>5, <3>2 DEF KeysStay
  <2>7. CASE ~(~hold /\ Len(next.w.pending) >= GroupSize)
    <3>1. e.s = next /\ e.ok = TRUE
      BY <2>1, <2>7 DEF Ok
    <3> QED BY <1>1, <2>4, <2>5, <3>1, GrowsSelf
  <2> QED BY <2>6, <2>7
<1> QED BY <1>2, <1>3, <1>4

LEMMA FlushKeeps ==
  ASSUME NEW N, NEW s, NEW e, Good(Env, s, N), e = Flush(s)
  PROVE  /\ Good(Env, e.s, N) /\ Grows(e.s.f, s.f) /\ KeysStay(e.s, s) /\ e.ok \in BOOLEAN
         /\ e.ok => Ready(e.s)
<1>1. s \in States /\ s.f \in Files
  BY StateParts DEF Good, KeyInv
<1>2. CASE s.w.failed
  BY <1>1, <1>2, GrowsSelf DEF Flush, Fail, KeysStay
<1>3. CASE ~s.w.failed
  <2> DEFINE f == FlushPage(s, FALSE)
  <2>1. e = IF f.ok THEN CommitPending(f.s) ELSE f
    BY <1>3 DEF Flush
  <2>2. /\ Good(Env, f.s, N) /\ Grows(f.s.f, s.f) /\ KeysStay(f.s, s) /\ f.ok \in BOOLEAN
        /\ f.ok => f.s.w.page.recs = <<>> /\ f.s.w.failed = s.w.failed
    BY FlushPageKeeps
  <2> HIDE DEF f
  <2>3. CASE f.ok
    <3>1. /\ Good(Env, e.s, N) /\ Grows(e.s.f, f.s.f) /\ KeysStay(e.s, f.s)
          /\ e.s.w.page = f.s.w.page /\ e.ok \in BOOLEAN
          /\ e.ok => e.s.w.pending = <<>> /\ e.s.w.failed = f.s.w.failed
      BY <2>1, <2>2, <2>3, CommitPendingKeeps
    <3>2. f.s.f \in Files /\ e.s.f \in Files
      BY <2>2, <3>1, StateParts DEF Good, KeyInv
    <3>3. Grows(e.s.f, s.f)
      BY <1>1, <2>2, <3>1, <3>2, GrowsOn
    <3> QED BY <1>3, <2>2, <2>3, <3>1, <3>3 DEF KeysStay, Ready, HasPending
  <2>4. CASE ~f.ok
    BY <2>1, <2>2, <2>4
  <2> QED BY <2>3, <2>4
<1> QED BY <1>2, <1>3

-----------------------------------------------------------------------------
(* append_record and append_uncommitted                                    *)

(* An append as a whole: the record on the page, the row and the Action id.*)
AppendedIs(e, s, t, r) ==
  /\ e \in States /\ e.f = s.f
  /\ e.w.page.tenant = (IF s.w.page.recs = <<>> THEN t ELSE s.w.page.tenant)
  /\ e.w.page.recs = Append(s.w.page.recs, r)
  /\ e.w.catalog = s.w.catalog /\ e.w.deks = s.w.deks /\ e.w.revoked = s.w.revoked
  /\ e.w.withheld = s.w.withheld /\ e.w.pending = s.w.pending /\ e.w.failed = s.w.failed
  /\ e.p.rows = [s.p.rows EXCEPT ![t] = r] /\ e.p.acts = [s.p.acts EXCEPT ![t] = @ \cup {r}]
  /\ e.p.dirty = TRUE /\ e.p.fromLog = s.p.fromLog

AppliedIs(e, s, t, r) ==
  /\ e \in States /\ e.f = s.f /\ e.w = s.w
  /\ e.p.rows = [s.p.rows EXCEPT ![t] = r] /\ e.p.acts = [s.p.acts EXCEPT ![t] = @ \cup {r}]
  /\ e.p.dirty = TRUE /\ e.p.fromLog = s.p.fromLog

LEMMA ApplyRecordShape ==
  ASSUME NEW s \in States, NEW t \in Tenants, NEW r \in Nat
  PROVE  AppliedIs(ApplyRecord(s, t, r), s, t, r)
<1> DEFINE rows == [s.p.rows EXCEPT ![t] = r]
           acts == [s.p.acts EXCEPT ![t] = @ \cup {r}]
           e == ApplyRecord(s, t, r)
<1>1. rows \in [Tenants -> Nat] /\ acts \in [Tenants -> SUBSET Nat]
  BY StateParts
<1>2. /\ e.f = s.f /\ e.w = s.w /\ e.n = s.n /\ e.p.rows = rows /\ e.p.acts = acts
      /\ e.p.dirty = TRUE /\ e.p.fromLog = s.p.fromLog /\ e.p.hasCkpt = s.p.hasCkpt
      /\ e \in [w : Writers, p : [rows : [Tenants -> Nat], acts : [Tenants -> SUBSET Nat],
                                  fromLog : BOOLEAN, hasCkpt : BOOLEAN, dirty : BOOLEAN],
                f : Files, n : Nat]
  BY <1>1 DEF States, Projs, ApplyRecord
<1> HIDE DEF e, rows, acts
<1>3. e \in States
  BY <1>2 DEF States, Projs
<1>4. AppliedIs(e, s, t, r)
  BY <1>2, <1>3 DEF AppliedIs, rows, acts
<1> QED BY <1>4 DEF e

LEMMA AppendedShape ==
  ASSUME NEW s \in States, NEW t \in Tenants, NEW r \in Nat
  PROVE  AppendedIs(ApplyRecord(Buffered(s, t, r), t, r), s, t, r)
<1> DEFINE u == IF s.w.page.recs = <<>> THEN t ELSE s.w.page.tenant
           q == Append(s.w.page.recs, r)
           page == [tenant |-> u, recs |-> q]
           b == [s EXCEPT !.w.page = page]
<1>1. u \in Names /\ q \in Seq(Nat)
  BY StateParts, AppendProperties DEF Names
<1>2. b = Buffered(s, t, r)
  BY DEF Buffered
<1> HIDE DEF u, q
<1>3. page \in [tenant : Names, recs : Seq(Nat)] /\ page.tenant = u /\ page.recs = q
  BY <1>1
<1> HIDE DEF page
<1>4. /\ b \in States /\ b.f = s.f /\ b.p = s.p /\ b.w.page = page
      /\ b.w.catalog = s.w.catalog /\ b.w.deks = s.w.deks /\ b.w.revoked = s.w.revoked
      /\ b.w.withheld = s.w.withheld /\ b.w.pending = s.w.pending /\ b.w.failed = s.w.failed
  BY <1>3 DEF States, Writers
<1> HIDE DEF b
<1>5. AppliedIs(ApplyRecord(b, t, r), b, t, r)
  BY <1>4, ApplyRecordShape
<1>6. AppendedIs(ApplyRecord(b, t, r), s, t, r)
  BY <1>3, <1>4, <1>5 DEF AppliedIs, AppendedIs, u, q
<1> QED BY <1>2, <1>6

LEMMA AppendedKeeps ==
  ASSUME NEW N, NEW s, NEW t \in Tenants, NEW e, Good(Env, s, N), ~s.w.failed,
         t \in DOMAIN s.w.deks, s.w.page.recs = <<>> \/ s.w.page.tenant = t,
         AppendedIs(e, s, t, N + 1)
  PROVE  Good(Env, e, N + 1)
<1> DEFINE r == N + 1
<1>1. s \in States /\ e \in States /\ KeyInv(Env, s, N) /\ N \in Nat
      /\ Good(Env, s, r) /\ KeyInv(Env, s, r) /\ r \in Nat
  BY MoreRecords DEF Good, KeyInv, AppendedIs
<1>2. /\ e.w \in Writers /\ s.w.page.recs \in Seq(Nat) /\ s.p.rows \in [Tenants -> Nat]
      /\ s.p.acts \in [Tenants -> SUBSET Nat] /\ e.p \in Projs /\ s.p \in Projs
  BY <1>1, StateParts
<1>3. /\ e.f = s.f /\ e.w.page.tenant = t /\ e.w.page.recs = Append(s.w.page.recs, r)
      /\ e.w.catalog = s.w.catalog /\ e.w.deks = s.w.deks /\ e.w.revoked = s.w.revoked
      /\ e.w.withheld = s.w.withheld /\ e.w.pending = s.w.pending /\ e.w.failed = s.w.failed
      /\ e.p.rows = [s.p.rows EXCEPT ![t] = r] /\ e.p.acts = [s.p.acts EXCEPT ![t] = @ \cup {r}]
      /\ e.p.dirty = TRUE /\ e.p.fromLog = s.p.fromLog
  BY DEF AppendedIs
<1>4. r = N + 1
  OBVIOUS
<1> HIDE DEF r
<1>5. Range(e.w.page.recs) = Range(s.w.page.recs) \cup {r}
  <2> DEFINE q == s.w.page.recs
  <2>1. q \in Seq(Nat) /\ r \in Nat /\ e.w.page.recs = Append(q, r)
    BY <1>1, <1>2, <1>3
  <2> HIDE DEF q
  <2>2. Range(Append(q, r)) = Range(q) \cup {r}
    BY <2>1, RangeAppend
  <2> QED BY <2>1, <2>2 DEF q
<1>6. t \in DOMAIN e.w.catalog
  BY <1>1, <1>3 DEF KeyInv, WriterInv, Extends
<1>7. KeyInv(Env, e, r)
  <2>1. r \in 1..r
    BY <1>1, <1>4
  <2>2. Range(s.w.page.recs) \subseteq 1..r
    BY <1>1 DEF KeyInv, WriterInv
  <2>3. Range(e.w.page.recs) \subseteq 1..r
    BY <1>5, <2>1, <2>2
  <2> QED BY <1>1, <1>2, <1>3, <1>6, <2>3 DEF KeyInv, WriterInv
<1>8. ASSUME NEW u \in Tenants
      PROVE  Recs(e, u) = IF u = t THEN Recs(s, u) \cup {r} ELSE Recs(s, u)
  <2>1. s.w.page.recs = <<>> => Range(s.w.page.recs) = {}
    BY EmptyRange
  <2>2. OnPage(e.w.page, u) = IF u = t THEN OnPage(s.w.page, u) \cup {r} ELSE OnPage(s.w.page, u)
    BY <1>3, <1>5, <2>1 DEF OnPage
  <2> QED BY <1>3, <2>2 DEF Recs
<1>9. ASSUME NEW u \in Tenants \ {t}, Whole(Env, s, u) PROVE Whole(Env, e, u)
  <2>1. e.p.rows[u] = s.p.rows[u] /\ e.p.acts[u] = s.p.acts[u]
    BY <1>2, <1>3
  <2> QED BY <1>3, <1>8, <1>9, <2>1 DEF Whole
<1>10. Usable(Env, e.w, t) => Whole(Env, e, t)
  <2> SUFFICES ASSUME Usable(Env, s.w, t) PROVE Whole(Env, e, t)
    BY <1>3 DEF Usable
  <2>1. Whole(Env, s, t)
    BY DEF Good, ProjInv
  <2>2. e.p.rows[t] = r /\ e.p.acts[t] = s.p.acts[t] \cup {r}
    BY <1>2, <1>3
  <2>3. Recs(e, t) = Recs(s, t) \cup {r} /\ Recs(s, t) \subseteq 1..N
    BY <1>1, <1>8, RecsIn
  <2>4. IsLast(r, Recs(s, t) \cup {r})
    <3>1. \A x \in 1..N : x <= r
      BY <1>1, <1>4
    <3> QED BY <1>1, <2>3, <3>1 DEF IsLast
  <2> QED BY <1>3, <2>1, <2>2, <2>3, <2>4 DEF Whole
<1>11. Live(e.p) \subseteq Live(s.p) \cup {t}
  BY <1>2, <1>3 DEF Live
<1>12. HasPending(e.w)
  <2>1. Len(e.w.page.recs) = Len(s.w.page.recs) + 1 /\ Len(s.w.page.recs) \in Nat
    BY <1>1, <1>2, <1>3, AppendProperties, LenProperties
  <2> QED BY <2>1, EmptySeq DEF HasPending
<1>13. \A u \in Tenants : Usable(Env, e.w, u) <=> Usable(Env, s.w, u)
  BY <1>3 DEF Usable
<1>14. ProjInv(Env, e)
  <2>1. /\ Live(s.p) \subseteq DOMAIN s.w.catalog /\ (Faults = {} => s.p.fromLog)
        /\ \A u \in Tenants : Usable(Env, s.w, u) => Whole(Env, s, u)
    BY DEF Good, ProjInv
  <2>2. \A u \in Tenants : Usable(Env, e.w, u) => Whole(Env, e, u)
    BY <1>9, <1>10, <1>13, <2>1
  <2>3. Live(e.p) \subseteq DOMAIN e.w.catalog
    BY <1>3, <1>6, <1>11, <2>1
  <2> QED BY <1>3, <1>12, <2>1, <2>2, <2>3 DEF ProjInv
<1> QED BY <1>7, <1>14 DEF Good, r

(* ensure_action_commits adds what the log has, of those it may read.      *)
LearnedIs(e, s) ==
  /\ e \in States /\ e.w = s.w /\ e.f = s.f /\ e.n = s.n
  /\ e.p.rows = s.p.rows /\ e.p.hasCkpt = s.p.hasCkpt /\ e.p.dirty = s.p.dirty
  /\ s.p.fromLog => e.p.fromLog
  /\ \A t \in Tenants : /\ s.p.acts[t] \subseteq e.p.acts[t]
                        /\ e.p.acts[t] \subseteq s.p.acts[t] \cup On(s.f.pages, t)

LEMMA ClaimedShape ==
  ASSUME NEW s \in States, NEW N, FileInv(Env, s.f, N), N \in Nat
  PROVE  /\ LearnedIs(Claimed(s), s) /\ Claimed(s).p.fromLog
         /\ \A t \in Tenants : t \notin With(s.f.catalog, "ready") => Claimed(s).p.acts[t] = s.p.acts[t]
<1>1. CASE s.p.fromLog
  BY <1>1 DEF Claimed, LearnedIs
<1>2. CASE ~s.p.fromLog
  <2> DEFINE S == With(s.f.catalog, "ready")
             acts == Learned(s.p.acts, s.f.pages, S)
             e == [s EXCEPT !.p.acts = acts, !.p.fromLog = TRUE]
  <2>1. \A t \in Tenants : On(s.f.pages, t) \subseteq Nat
    <3>1. \A t \in Tenants : On(s.f.pages, t) \subseteq 1..N
      BY StateParts, OnSealed DEF FileInv
    <3> QED BY <3>1
  <2>2. acts \in [Tenants -> SUBSET Nat]
    BY <2>1, StateParts DEF Learned
  <2>3. \A t \in Tenants : acts[t] = IF t \in S THEN s.p.acts[t] \cup On(s.f.pages, t) ELSE s.p.acts[t]
    BY DEF Learned
  <2>4. Claimed(s) = e
    BY <1>2 DEF Claimed
  <2> HIDE DEF acts, S
  <2>5. /\ e \in States /\ e.w = s.w /\ e.f = s.f /\ e.n = s.n /\ e.p.rows = s.p.rows
        /\ e.p.hasCkpt = s.p.hasCkpt /\ e.p.dirty = s.p.dirty /\ e.p.fromLog = TRUE
        /\ e.p.acts = acts
    BY <2>2 DEF States, Projs
  <2> HIDE DEF e
  <2>6. \A t \in Tenants : /\ s.p.acts[t] \subseteq e.p.acts[t]
                           /\ e.p.acts[t] \subseteq s.p.acts[t] \cup On(s.f.pages, t)
                           /\ t \notin S => e.p.acts[t] = s.p.acts[t]
    BY <2>3, <2>5
  <2> QED BY <2>4, <2>5, <2>6 DEF LearnedIs, S
<1> QED BY <1>1, <1>2

LEMMA LearnedKeeps ==
  ASSUME NEW N, NEW s, NEW e, Good(Env, s, N), LearnedIs(e, s)
  PROVE  Good(Env, e, N)
<1>1. s \in States /\ KeyInv(Env, s, N) /\ KeyInv(Env, e, N)
  BY DEF Good, KeyInv, LearnedIs
<1>2. \A t \in Tenants : Recs(e, t) = Recs(s, t) /\ On(s.f.pages, t) \subseteq Recs(s, t)
  BY DEF Recs, LearnedIs
<1>3. \A t \in Tenants : Whole(Env, s, t) => Whole(Env, e, t)
  BY <1>2 DEF Whole, LearnedIs
<1>4. Live(e.p) \subseteq Live(s.p) \cup DOMAIN s.f.catalog
  <2> SUFFICES ASSUME NEW t \in Live(e.p), t \notin DOMAIN s.f.catalog PROVE t \in Live(s.p)
    OBVIOUS
  <2>1. t \in Tenants /\ (e.p.rows[t] # 0 \/ e.p.acts[t] # {})
    BY DEF Live
  <2>2. On(s.f.pages, t) = {}
    BY <1>1, <2>1, RecsIn
  <2>3. s.p.rows[t] # 0 \/ s.p.acts[t] # {}
    BY <2>1, <2>2 DEF LearnedIs
  <2> QED BY <2>1, <2>3 DEF Live
<1>5. DOMAIN s.f.catalog \subseteq DOMAIN s.w.catalog
  BY <1>1 DEF KeyInv, WriterInv, Extends
<1>6. ProjInv(Env, e)
  BY <1>3, <1>4, <1>5 DEF Good, ProjInv, LearnedIs
<1> QED BY <1>1, <1>6 DEF Good

LEMMA AppendRecordIs ==
  ASSUME NEW N, NEW s, NEW t \in Tenants, NEW r, NEW hold, NEW a,
         Good(Env, s, N), a = AppendRecord(s, t, r, hold)
  PROVE  /\ a.ok \in BOOLEAN
         /\ \E x : /\ Good(Env, x, N) /\ Grows(x.f, s.f)
                   /\ a.ok => /\ a.s = Buffered(x, t, r) /\ x.w.failed = s.w.failed
                              /\ t \in DOMAIN x.w.deks
                              /\ x.w.page.recs = <<>> \/ x.w.page.tenant = t
                   /\ ~a.ok => a.s = x
<1> DEFINE e == EnsureDek(s, t)
           new == e.ok /\ StartsNewPage(e.s.w.page, t)
           f == IF new THEN FlushPage(e.s, hold) ELSE e
<1>1. a = IF f.ok THEN Ok(Buffered(f.s, t, r)) ELSE f
  BY DEF AppendRecord
<1>2. /\ Good(Env, e.s, N) /\ e.s.f = s.f /\ e.s.w.failed = s.w.failed
      /\ e.ok \in BOOLEAN /\ (e.ok => t \in DOMAIN e.s.w.deks)
  BY EnsureDekKeeps
<1>3. s.f \in Files /\ Grows(e.s.f, s.f)
  BY <1>2, StateParts, GrowsSelf DEF Good, KeyInv
<1>4. /\ Good(Env, f.s, N) /\ Grows(f.s.f, s.f) /\ f.ok \in BOOLEAN
      /\ f.ok => /\ f.s.w.failed = s.w.failed /\ t \in DOMAIN f.s.w.deks
                 /\ f.s.w.page.recs = <<>> \/ f.s.w.page.tenant = t
  <2>1. CASE new
    <3>1. f = FlushPage(e.s, hold) /\ e.ok
      BY <2>1
    <3> HIDE DEF f, e
    <3>2. /\ Good(Env, f.s, N) /\ Grows(f.s.f, e.s.f) /\ KeysStay(f.s, e.s) /\ f.ok \in BOOLEAN
          /\ f.ok => f.s.w.page.recs = <<>> /\ f.s.w.failed = e.s.w.failed
      BY <1>2, <3>1, FlushPageKeeps
    <3> QED BY <1>2, <3>1, <3>2 DEF KeysStay
  <2>2. CASE ~new
    <3>1. f = e
      BY <2>2
    <3>2. e.ok => e.s.w.page.recs = <<>> \/ e.s.w.page.tenant = t
      BY <2>2 DEF StartsNewPage
    <3> HIDE DEF f, e
    <3> QED BY <1>2, <1>3, <3>1, <3>2
  <2> QED BY <2>1, <2>2
<1> HIDE DEF f
<1>5. CASE f.ok
  <2>1. a.s = Buffered(f.s, t, r) /\ a.ok = TRUE
    BY <1>1, <1>5 DEF Ok
  <2> QED BY <1>4, <1>5, <2>1
<1>6. CASE ~f.ok
  <2>1. a = f
    BY <1>1, <1>6
  <2> QED BY <1>4, <1>6, <2>1
<1> QED BY <1>5, <1>6

LEMMA AppendUncommittedKeeps ==
  ASSUME NEW N, NEW s, NEW t \in Tenants, NEW hold, NEW e, Env \in Envs,
         Good(Env, s, N), e = AppendUncommitted(s, t, N + 1, hold)
  PROVE  Good(Env, e.s, N + 1) /\ Grows(e.s.f, s.f) /\ e.ok \in BOOLEAN
<1> DEFINE v == Revalidate(s)
           b == AppendRecord(Claimed(v.s), t, N + 1, hold)
           a == IF s.w.failed THEN Fail(v.s) ELSE IF v.ok THEN b ELSE v
<1>1. e = IF a.ok THEN Ok(ApplyRecord(a.s, t, N + 1)) ELSE a
  BY DEF AppendUncommitted
<1>2. s \in States /\ s.f \in Files /\ N \in Nat /\ N + 1 \in Nat
  BY StateParts DEF Good, KeyInv
<1>3. Revalidation(v, s)
  BY <1>2, RevalidateIs
<1>4. /\ Good(Env, v.s, N) /\ v.s.f = s.f /\ v.s.w.failed = s.w.failed /\ v.ok \in BOOLEAN
  <2> HIDE DEF v
  <2> QED BY <1>3, RevalidateKeeps DEF Revalidation
<1>5. Grows(v.s.f, s.f) /\ Good(Env, v.s, N + 1)
  BY <1>2, <1>4, GrowsSelf, MoreRecords
<1>6. CASE s.w.failed \/ ~v.ok
  <2>1. a.ok = FALSE /\ a.s = v.s
    BY <1>4, <1>6 DEF Fail
  <2>2. e = a
    BY <1>1, <2>1
  <2> HIDE DEF a, v
  <2> QED BY <1>5, <2>1, <2>2
<1>7. CASE ~s.w.failed /\ v.ok
  <2> DEFINE c == Claimed(v.s)
  <2>1. a = b
    BY <1>7
  <2> HIDE DEF v
  <2>2. LearnedIs(c, v.s)
    BY <1>2, <1>4, ClaimedShape DEF Good, KeyInv
  <2>3. Good(Env, c, N) /\ c.f = s.f /\ c.w.failed = FALSE
    <3>1. c.w = v.s.w /\ c.f = v.s.f
      BY <2>2 DEF LearnedIs
    <3>2. v.s.w.failed = FALSE
      BY <1>2, <1>4, <1>7, StateParts
    <3> HIDE DEF c
    <3> QED BY <1>4, <2>2, <3>1, <3>2, LearnedKeeps
  <2>4. b = AppendRecord(c, t, N + 1, hold)
    OBVIOUS
  <2> HIDE DEF a, b, c
  <2>5. b.ok \in BOOLEAN
    BY <2>3, <2>4, AppendRecordIs
  <2>6. PICK x : /\ Good(Env, x, N) /\ Grows(x.f, c.f)
                 /\ b.ok => /\ b.s = Buffered(x, t, N + 1) /\ x.w.failed = c.w.failed
                            /\ t \in DOMAIN x.w.deks
                            /\ x.w.page.recs = <<>> \/ x.w.page.tenant = t
                 /\ ~b.ok => b.s = x
    BY <2>3, <2>4, AppendRecordIs
  <2>7. CASE ~b.ok
    <3>1. e = b /\ b.s = x
      BY <1>1, <2>1, <2>6, <2>7
    <3> QED BY <1>2, <2>3, <2>5, <2>6, <3>1, MoreRecords
  <2>8. CASE b.ok
    <3> DEFINE y == ApplyRecord(Buffered(x, t, N + 1), t, N + 1)
    <3>1. e = Ok(y)
      BY <1>1, <2>1, <2>6, <2>8
    <3>2. x \in States
      BY <2>6 DEF Good, KeyInv
    <3>3. AppendedIs(y, x, t, N + 1)
      BY <1>2, <3>2, AppendedShape
    <3> HIDE DEF y
    <3>4. Good(Env, y, N + 1)
      BY <2>3, <2>6, <2>8, <3>3, AppendedKeeps
    <3>5. y.f = x.f
      BY <3>3 DEF AppendedIs
    <3>6. e.s = y /\ e.ok = TRUE
      BY <3>1 DEF Ok
    <3>7. Grows(y.f, s.f)
      BY <2>3, <2>6, <3>5
    <3> QED BY <3>4, <3>6, <3>7
  <2> QED BY <2>5, <2>7, <2>8
<1> QED BY <1>4, <1>6, <1>7

-----------------------------------------------------------------------------
(* A batch of one that is staged: its page and its row at once.            *)

LEMMA RangeOne == \A r : Range(<<r>>) = {r}
<1> SUFFICES ASSUME NEW r PROVE Range(<<r>>) = {r}
  OBVIOUS
<1>1. <<r>> \in Seq({r}) /\ Len(<<r>>) = 1 /\ <<r>>[1] = r
  OBVIOUS
<1>2. DOMAIN <<r>> = 1..1
  BY <1>1, LenProperties
<1> QED BY <1>1, <1>2 DEF Range

StagedIs(e, s, t, r) ==
  /\ e \in States /\ e.w = s.w /\ e.f.catalog = s.w.catalog
  /\ e.f.pages = Append(s.f.pages, SealPage(t, s.w.deks[t], <<r>>))
  /\ e.p.rows = [s.p.rows EXCEPT ![t] = r] /\ e.p.acts = [s.p.acts EXCEPT ![t] = @ \cup {r}]
  /\ e.p.dirty = TRUE /\ e.p.fromLog = s.p.fromLog

LEMMA StagedShape ==
  ASSUME NEW s \in States, NEW t \in Tenants, NEW r \in Nat, t \in DOMAIN s.w.deks
  PROVE  StagedIs(Staged(s, t, r), s, t, r)
<1> DEFINE page == SealPage(t, s.w.deks[t], <<r>>)
           q == Append(s.f.pages, page)
           g == [catalog |-> s.w.catalog, pages |-> q]
           b == [s EXCEPT !.f = g]
<1>1. page \in SealedPages
  <2>1. s.w.deks[t] \in Nat /\ <<r>> \in Seq(Nat)
    BY StateParts, CatalogParts
  <2> QED BY <2>1 DEF SealPage, SealedPages
<1>2. ApplyRecord(b, t, r) = Staged(s, t, r)
  BY DEF Staged
<1> HIDE DEF page
<1>3. q \in Seq(SealedPages)
  BY <1>1, StateParts, AppendProperties
<1> HIDE DEF q
<1>4. g \in Files /\ g.catalog = s.w.catalog /\ g.pages = q
  BY <1>3, StateParts DEF Files
<1> HIDE DEF g
<1>5. b \in States /\ b.f = g /\ b.w = s.w /\ b.p = s.p
  BY <1>4 DEF States
<1> HIDE DEF b
<1>6. AppliedIs(ApplyRecord(b, t, r), b, t, r)
  BY <1>5, ApplyRecordShape
<1>7. StagedIs(ApplyRecord(b, t, r), s, t, r)
  BY <1>4, <1>5, <1>6 DEF AppliedIs, StagedIs, q, page
<1> QED BY <1>2, <1>7

LEMMA StagedKeeps ==
  ASSUME NEW N, NEW s, NEW t \in Tenants, NEW e, Good(Env, s, N), Ready(s),
         t \in DOMAIN s.w.deks, StagedIs(e, s, t, N + 1)
  PROVE  Good(Env, e, N + 1) /\ Grows(e.f, s.f) /\ Ready(e)
<1> DEFINE r == N + 1
           page == SealPage(t, s.w.deks[t], <<r>>)
<1>1. s \in States /\ e \in States /\ KeyInv(Env, s, N) /\ N \in Nat
      /\ KeyInv(Env, s, r) /\ r \in Nat
  BY MoreRecords DEF Good, KeyInv, StagedIs
<1>2. /\ s.f.pages \in Seq(SealedPages) /\ e.f \in Files /\ s.p.rows \in [Tenants -> Nat]
      /\ s.p.acts \in [Tenants -> SUBSET Nat] /\ s.w.deks \in Catalogs
  BY <1>1, StateParts
<1>3. /\ e.w = s.w /\ e.f.catalog = s.w.catalog /\ e.f.pages = Append(s.f.pages, page)
      /\ e.p.rows = [s.p.rows EXCEPT ![t] = r] /\ e.p.acts = [s.p.acts EXCEPT ![t] = @ \cup {r}]
      /\ e.p.dirty = TRUE /\ e.p.fromLog = s.p.fromLog
  BY DEF StagedIs
<1>4. /\ page \in SealedPages /\ page.tenant = t /\ page.dek = s.w.deks[t]
      /\ Range(page.recs) = {r}
  <2>1. s.w.deks[t] \in Nat /\ <<r>> \in Seq(Nat)
    BY <1>1, <1>2, CatalogParts
  <2>2. page.recs = <<r>>
    BY DEF SealPage
  <2> HIDE DEF r
  <2> QED BY <2>1, <2>2, RangeOne DEF SealPage, SealedPages
<1>5. r = N + 1
  OBVIOUS
<1> HIDE DEF r, page
<1>6. /\ Extends(s.w.catalog, s.f.catalog) /\ Extends(s.w.catalog, s.w.deks)
      /\ SealedBy(s.f.pages, s.f.catalog, r) /\ StoreKey \in DOMAIN s.f.catalog
      /\ \A u \in Tenants : Env.gone[u] # {} => u \in DOMAIN s.f.catalog /\ On(s.f.pages, u) # {}
  BY <1>1 DEF KeyInv, WriterInv, FileInv
<1>7. \A u \in Tenants : On(e.f.pages, u) = On(s.f.pages, u) \cup IF u = t THEN {r} ELSE {}
  <2> SUFFICES ASSUME NEW u \in Tenants
               PROVE  On(e.f.pages, u) = On(s.f.pages, u) \cup IF u = t THEN {r} ELSE {}
    OBVIOUS
  <2> DEFINE a == s.f.pages
  <2>1. a \in Seq(SealedPages) /\ e.f.pages = Append(a, page)
    BY <1>2, <1>3
  <2> HIDE DEF a
  <2>2. On(Append(a, page), u) = On(a, u) \cup (IF page.tenant = u THEN Range(page.recs) ELSE {})
    BY <1>4, <2>1, OnAppend
  <2> QED BY <1>4, <2>1, <2>2 DEF a
<1>8. FileInv(Env, e.f, r)
  <2>1. SealedBy(s.f.pages, s.w.catalog, r)
    BY <1>1, <1>6, SealedGrows
  <2>2. SealedBy(e.f.pages, e.f.catalog, r)
    <3>1. page.tenant \in DOMAIN s.w.catalog /\ page.dek = s.w.catalog[page.tenant]
      BY <1>4, <1>6 DEF Extends
    <3>2. {r} \subseteq 1..r
      BY <1>1, <1>5
    <3> DEFINE a == s.f.pages
    <3>3. a \in Seq(SealedPages) /\ e.f.pages = Append(a, page) /\ SealedBy(a, s.w.catalog, r)
      BY <1>2, <1>3, <2>1
    <3> HIDE DEF a
    <3>4. SealedBy(Append(a, page), s.w.catalog, r)
      BY <1>4, <3>1, <3>2, <3>3, SealedAppend
    <3> QED BY <1>3, <3>3, <3>4
  <2>3. DOMAIN s.f.catalog \subseteq DOMAIN e.f.catalog
    BY <1>3, <1>6 DEF Extends
  <2> QED BY <1>2, <1>6, <1>7, <2>2, <2>3 DEF FileInv
<1>9. KeyInv(Env, e, r)
  <2>1. Extends(e.w.catalog, e.f.catalog)
    BY <1>3 DEF Extends
  <2> QED BY <1>1, <1>3, <1>8, <2>1 DEF KeyInv, WriterInv
<1>10. \A u \in Tenants : Recs(e, u) = Recs(s, u) \cup IF u = t THEN {r} ELSE {}
  BY <1>3, <1>7 DEF Recs
<1>11. ASSUME NEW u \in Tenants \ {t}, Whole(Env, s, u) PROVE Whole(Env, e, u)
  <2>1. e.p.rows[u] = s.p.rows[u] /\ e.p.acts[u] = s.p.acts[u]
    BY <1>2, <1>3
  <2> QED BY <1>3, <1>10, <1>11, <2>1 DEF Whole
<1>12. ASSUME Whole(Env, s, t) PROVE Whole(Env, e, t)
  <2>1. e.p.rows[t] = r /\ e.p.acts[t] = s.p.acts[t] \cup {r}
    BY <1>2, <1>3
  <2>2. Recs(e, t) = Recs(s, t) \cup {r} /\ Recs(s, t) \subseteq 1..N
    BY <1>1, <1>10, RecsIn
  <2>3. IsLast(r, Recs(s, t) \cup {r})
    <3>1. \A x \in 1..N : x <= r
      BY <1>1, <1>5
    <3> QED BY <1>1, <2>2, <3>1 DEF IsLast
  <2> QED BY <1>3, <1>12, <2>1, <2>2, <2>3 DEF Whole
<1>13. ProjInv(Env, e)
  <2>1. /\ Live(s.p) \subseteq DOMAIN s.w.catalog /\ (Faults = {} => s.p.fromLog)
        /\ \A u \in Tenants : Usable(Env, s.w, u) => Whole(Env, s, u)
    BY DEF Good, ProjInv, Ready
  <2>2. \A u \in Tenants : Usable(Env, e.w, u) => Whole(Env, e, u)
    BY <1>3, <1>11, <1>12, <2>1
  <2>3. Live(e.p) \subseteq Live(s.p) \cup {t} /\ t \in DOMAIN s.w.catalog
    BY <1>2, <1>3, <1>6 DEF Live, Extends
  <2> QED BY <1>3, <2>1, <2>2, <2>3 DEF ProjInv
<1>14. Grows(e.f, s.f)
  <2> DEFINE a == s.f.pages
             n == Len(a)
  <2>1. a \in Seq(SealedPages) /\ e.f.pages = Append(a, page)
    BY <1>2, <1>3
  <2> HIDE DEF a
  <2>2. n \in Nat /\ Len(Append(a, page)) = n + 1 /\ \A i \in 1..n : Append(a, page)[i] = a[i]
    BY <1>4, <2>1, AppendProperties, LenProperties
  <2>3. n <= n + 1
    BY <2>2
  <2>4. Extends(e.f.catalog, s.f.catalog)
    BY <1>3, <1>6
  <2> QED BY <2>1, <2>2, <2>3, <2>4 DEF Grows, a
<1> QED BY <1>3, <1>9, <1>13, <1>14 DEF Good, Ready, r

-----------------------------------------------------------------------------
(* The snapshots of a log that grew still say what they said.              *)

LEMMA UpToGrows ==
  ASSUME NEW f \in Files, NEW g \in Files, Grows(g, f), NEW k \in Nat, k <= Len(f.pages)
  PROVE  UpTo(g.pages, k) = UpTo(f.pages, k) /\ k <= Len(g.pages)
<1> DEFINE a == f.pages
           b == g.pages
           m == Len(a)
           n == Len(b)
<1>1. a \in Seq(SealedPages) /\ b \in Seq(SealedPages)
  BY DEF Files
<1>2. m \in Nat /\ n \in Nat /\ m <= n /\ \A i \in 1..m : b[i] = a[i]
  BY <1>1, LenProperties DEF Grows
<1>3. k <= m
  OBVIOUS
<1>4. 1 \in 1..m+1 /\ 1 \in 1..n+1 /\ k \in 0..m /\ k \in 0..n
  BY <1>2, <1>3
<1> HIDE DEF a, b
<1>5. /\ SubSeq(a, 1, k) \in Seq(SealedPages) /\ Len(SubSeq(a, 1, k)) = k
      /\ \A i \in 1..k : SubSeq(a, 1, k)[i] = a[i]
  <2>1. \A i \in 1..k : i \in 1..m
    BY <1>2, <1>3
  <2> QED BY <1>1, <1>2, <1>3, <2>1, SMTT(30)
<1>6. /\ SubSeq(b, 1, k) \in Seq(SealedPages) /\ Len(SubSeq(b, 1, k)) = k
      /\ \A i \in 1..k : SubSeq(b, 1, k)[i] = b[i]
  <2>1. \A i \in 1..k : i \in 1..n
    BY <1>2, <1>3
  <2> QED BY <1>1, <1>2, <1>3, <2>1, SMTT(30)
<1>7. \A i \in 1..k : SubSeq(b, 1, k)[i] = SubSeq(a, 1, k)[i]
  BY <1>2, <1>3, <1>5, <1>6
<1>8. SubSeq(b, 1, k) = SubSeq(a, 1, k)
  BY <1>5, <1>6, <1>7, SeqEqual
<1> QED BY <1>2, <1>3, <1>8 DEF UpTo, a, b

LEMMA FilesGrow ==
  ASSUME NEW E, NEW sn, NEW f \in Files, NEW g \in Files, Grows(g, f), FilesInv(E, sn, f),
         StoreKey \in DOMAIN f.catalog
  PROVE  FilesInv(E, sn, g)
<1>1. \A t : ~Destroyed(E, g, t) => ~Destroyed(E, f, t)
  BY DEF Grows, Extends, Destroyed
<1>2. \A n \in DOMAIN f.catalog : n \in DOMAIN g.catalog /\ g.catalog[n] = f.catalog[n]
  BY DEF Grows, Extends
<1>3. ASSUME NEW c, c # NoFile, SnapInv(E, c, f)
      PROVE  c.stamp \in Nat /\ c.stamp <= Len(g.pages) /\ UpTo(g.pages, c.stamp) = UpTo(f.pages, c.stamp)
  <2> DEFINE k == c.stamp
  <2>1. k \in Nat /\ k <= Len(f.pages)
    BY <1>3 DEF SnapInv, Snapshots
  <2> HIDE DEF k
  <2>2. UpTo(g.pages, k) = UpTo(f.pages, k) /\ k <= Len(g.pages)
    BY <2>1, UpToGrows
  <2> QED BY <2>1, <2>2 DEF k
<1>4. ASSUME NEW c, SnapInv(E, c, f) PROVE SnapInv(E, c, g)
  BY <1>1, <1>2, <1>3, <1>4 DEF SnapInv
<1>5. ASSUME NEW c, SnapInv(E, c, f), CkptInv(E, c, f) PROVE CkptInv(E, c, g)
  BY <1>1, <1>3, <1>5 DEF CkptInv
<1> QED BY <1>4, <1>5 DEF FilesInv

-----------------------------------------------------------------------------
(* A call that ends in state e.                                            *)

LEMMA StateIs ==
  ASSUME NEW e \in States, Becomes(e)
  PROVE  State' = e
<1>1. e = [w |-> e.w, p |-> e.p, f |-> e.f, n |-> e.n]
  BY StateParts
<1> QED BY <1>1 DEF Becomes, State

LEMMA StateHas ==
  /\ State.w = writer /\ State.p = proj /\ State.f = file /\ State.n = minted
BY DEF State

LEMMA IdleGood ==
  ASSUME Inv, pc \in {"idle", "persist", "publish"}
  PROVE  Good(Env, State, records) /\ Env \in Envs /\ State \in States /\ records \in Nat
BY DEF Inv, Good, KeyInv

-----------------------------------------------------------------------------
(* How an action ends: with a process that goes on, or without one.        *)

LEMMA GoesOn ==
  ASSUME NEW N, NEW e, Env \in Envs, UNCHANGED <<granted, shredded, gone>>, Becomes(e),
         Good(Env, e, N), records' = N, FilesInv(Env, snap', e.f),
         PairInv(snap', pc' = "publish"), pc' # "closed", PcInv(pc', job', e, snap')
  PROVE  Inv'
<1>1. Env' = Env
  BY DEF Env
<1>2. e \in States /\ N \in Nat /\ FileInv(Env, e.f, N) /\ KeyInv(Env, e, N) /\ ProjInv(Env, e)
  BY DEF Good, KeyInv
<1>3. State' = e /\ file' = e.f /\ minted' = e.n /\ minted' \in Nat
  BY <1>2, StateIs, StateParts DEF Becomes
<1>4. proj' \in Projs
  BY <1>2, StateParts DEF Becomes
<1> QED BY <1>1, <1>2, <1>3, <1>4 DEF Inv

LEMMA Stops ==
  ASSUME Env' \in Envs, FileInv(Env', file', records'), FilesInv(Env', snap', file'),
         PairInv(snap', FALSE), records' \in Nat, minted' \in Nat, Stop
  PROVE  Inv'
<1>1. pc' = "closed" /\ job' = "commit"
  BY DEF Stop
<1>2. NoProj \in Projs
  BY DEF NoProj, Projs, NoRows, NoActs
<1> QED BY <1>1, <1>2 DEF Inv, PcInv, Stop

LEMMA JustStops ==
  ASSUME Inv, Stop, pc = "publish" => Faults # {},
         UNCHANGED <<granted, shredded, minted, records, file, snap, gone>>
  PROVE  Inv'
<1>1. Env' = Env
  BY DEF Env
<1>2. PairInv(snap, FALSE)
  BY DEF Inv, PairInv
<1> QED BY <1>1, <1>2, Stops DEF Inv

(* A call that leaves the snapshots alone.                                 *)
LEMMA CallKeeps ==
  ASSUME NEW N, NEW e, Inv, UNCHANGED <<granted, shredded, gone, snap>>, Becomes(e),
         Good(Env, e, N), records' = N, Grows(e.f, file), pc # "publish",
         pc' # "closed", PcInv(pc', job', e, snap)
  PROVE  Inv'
<1>1. FilesInv(Env, snap, e.f)
  <2>1. e.f \in Files
    BY StateParts DEF Good, KeyInv
  <2>2. file \in Files /\ StoreKey \in DOMAIN file.catalog /\ FilesInv(Env, snap, file)
    BY DEF Inv, FileInv
  <2> QED BY <2>1, <2>2, FilesGrow
<1>2. PairInv(snap, pc' = "publish") /\ Env \in Envs
  BY DEF Inv, PairInv
<1> QED BY <1>1, <1>2, GoesOn

(* What is persisted is of a writer that has nothing pending.              *)
LEMMA PersistDoneKeeps ==
  ASSUME NEW e, Inv, Good(Env, e, records), e.f = file, e.n = minted,
         FilesInv(Env, snap', file), PairInv(snap', FALSE),
         UNCHANGED <<granted, shredded, gone, records, file, minted>>, PersistDone(e.w, e.p)
  PROVE  Inv'
<1>1. CASE job = "close"
  <2>1. Env' = Env
    BY DEF Env
  <2> QED BY <1>1, <2>1, Stops DEF PersistDone, Inv
<1>2. CASE job # "close"
  <2>1. Becomes(e) /\ pc' = "idle" /\ job' = "commit"
    BY <1>2 DEF PersistDone, Becomes
  <2>2. Env \in Envs /\ PairInv(snap', pc' = "publish") /\ PcInv(pc', job', e, snap')
    BY <2>1 DEF Inv, PcInv, PairInv
  <2> QED BY <2>1, <2>2, GoesOn
<1> QED BY <1>1, <1>2

LEMMA PersistErrorKeeps ==
  ASSUME NEW e, Inv, Good(Env, e, records), e.f = file, e.n = minted, PairInv(snap, FALSE),
         UNCHANGED <<granted, shredded, gone, records, file, minted, snap>>, PersistError(e.w, e.p)
  PROVE  Inv'
<1>1. CASE job \in {"close", "install"}
  <2>1. Env' = Env /\ Stop
    BY <1>1 DEF Env, PersistError
  <2> QED BY <2>1, Stops DEF Inv
<1>2. CASE job = "abort"
  <2> DEFINE u == [e EXCEPT !.w.failed = TRUE]
  <2>1. e \in States /\ KeyInv(Env, e, records)
    BY DEF Good, KeyInv
  <2>2. FailedIs(u, e)
    BY <2>1, FailedShape
  <2>3. u.w = [e.w EXCEPT !.failed = TRUE] /\ u.p = e.p /\ u.n = e.n
    BY <2>1 DEF States
  <2> HIDE DEF u
  <2>4. Good(Env, u, records)
    BY <2>1, <2>2, FailedKeeps
  <2>5. PersistDone(u.w, u.p)
    BY <1>2, <2>3 DEF PersistError
  <2>6. u.f = file
    BY <2>2 DEF FailedIs
  <2>7. FilesInv(Env, snap', file) /\ PairInv(snap', FALSE)
    BY DEF Inv
  <2> QED BY <2>3, <2>4, <2>5, <2>6, <2>7, PersistDoneKeeps
<1>3. CASE job \notin {"close", "install", "abort"}
  <2>1. PersistDone(e.w, e.p)
    BY <1>3 DEF PersistError
  <2>2. FilesInv(Env, snap', file) /\ PairInv(snap', FALSE)
    BY DEF Inv
  <2> QED BY <2>1, <2>2, PersistDoneKeeps
<1> QED BY <1>1, <1>2, <1>3

-----------------------------------------------------------------------------
(* The actions of an open store.                                           *)

LEMMA Opened ==
  ASSUME Inv, pc # "closed"
  PROVE  /\ KeyInv(Env, State, records) /\ Env \in Envs /\ State \in States /\ records \in Nat
         /\ State.w = writer /\ State.p = proj /\ State.f = file /\ State.n = minted
         /\ writer \in Writers /\ proj \in Projs /\ file \in Files /\ minted \in Nat
         /\ pc # "install" => Good(Env, State, records)
<1>1. KeyInv(Env, State, records)
  BY DEF Inv
<1>2. State \in States /\ records \in Nat /\ Env \in Envs
  BY <1>1 DEF KeyInv, Inv
<1>3. pc # "install" => Good(Env, State, records)
  BY DEF Inv, PcInv, Good
<1> QED BY <1>1, <1>2, <1>3, StateHas, StateParts

LEMMA AppendOneKeeps ==
  ASSUME Inv, NEW t \in Tenants, AppendOne(t)
  PROVE  Inv'
<1>1. Good(Env, State, records) /\ State.f = file /\ records \in Nat /\ Env \in Envs
      /\ pc = "idle" /\ job \in {"commit", "install", "abort", "close"}
  BY Opened DEF AppendOne, Inv, PcInv
<1>2. PICK hold \in BOOLEAN : Becomes(AppendUncommitted(State, t, records + 1, hold).s)
  BY DEF AppendOne
<1> DEFINE a == AppendUncommitted(State, t, records + 1, hold)
           e == a.s
<1>3. Good(Env, e, records + 1) /\ Grows(e.f, file)
  BY <1>1, AppendUncommittedKeeps
<1>4. Becomes(e)
  BY <1>2
<1> HIDE DEF a, e
<1>5. UNCHANGED <<granted, shredded, snap, gone, pc, job>> /\ records' = records + 1
  BY DEF AppendOne
<1>6. PcInv(pc', job', e, snap)
  BY <1>1, <1>5 DEF PcInv
<1> QED BY <1>1, <1>3, <1>4, <1>5, <1>6, CallKeeps

LEMMA CommitKeeps ==
  ASSUME Inv, Commit
  PROVE  Inv'
<1>1. Good(Env, State, records) /\ State.f = file /\ records \in Nat /\ Env \in Envs
      /\ pc = "idle" /\ job \in {"commit", "install", "abort", "close"}
  BY Opened DEF Commit, Inv, PcInv
<1> DEFINE c == Flush(State)
<1>2. /\ Becomes(c.s) /\ UNCHANGED <<granted, shredded, snap, gone, records>>
      /\ IF c.ok THEN AfterCommit(c.s.p, "commit") ELSE UNCHANGED <<pc, job>>
  BY DEF Commit
<1>3. Good(Env, c.s, records) /\ Grows(c.s.f, file) /\ (c.ok => Ready(c.s))
  BY <1>1, FlushKeeps
<1> HIDE DEF c
<1>4. pc' \in {"idle", "persist"} /\ job' \in {"commit", "install", "abort", "close"}
      /\ (pc' = "persist" => Ready(c.s))
  BY <1>1, <1>2, <1>3 DEF AfterCommit
<1>5. PcInv(pc', job', c.s, snap)
  BY <1>4 DEF PcInv
<1> QED BY <1>1, <1>2, <1>3, <1>4, <1>5, CallKeeps

LEMMA SplitCommitKeeps ==
  ASSUME Inv, NEW t \in Tenants, SplitCommit(t)
  PROVE  Inv'
<1>1. Good(Env, State, records) /\ State.f = file /\ records \in Nat /\ Env \in Envs
      /\ State \in States /\ State.w = writer /\ pc = "idle"
  BY Opened DEF SplitCommit
<1> DEFINE e == Staged(State, t, records + 1)
<1>2. t \in DOMAIN State.w.deks /\ Ready(State)
  BY DEF SplitCommit, Stageable, Ready
<1>3. StagedIs(e, State, t, records + 1)
  BY <1>1, <1>2, StagedShape
<1>4. Becomes(e) /\ UNCHANGED <<granted, shredded, snap, gone>> /\ records' = records + 1
      /\ AfterCommit([proj EXCEPT !.dirty = TRUE], "commit")
  BY DEF SplitCommit
<1> HIDE DEF e
<1>5. Good(Env, e, records + 1) /\ Grows(e.f, file) /\ Ready(e)
  BY <1>1, <1>2, <1>3, StagedKeeps
<1>6. pc' \in {"idle", "persist"} /\ job' = "commit"
  BY <1>4 DEF AfterCommit
<1>7. PcInv(pc', job', e, snap)
  BY <1>5, <1>6 DEF PcInv
<1> QED BY <1>1, <1>4, <1>5, <1>6, <1>7, CallKeeps

LEMMA TakeCheckpointKeeps ==
  ASSUME Inv, TakeCheckpoint
  PROVE  Inv'
<1>1. Good(Env, State, records) /\ State.w = writer /\ State.p = proj /\ State.f = file
      /\ State.n = minted /\ State \in States /\ pc = "idle" /\ FileInv(Env, file, records)
      /\ records \in Nat /\ file \in Files
  BY Opened DEF TakeCheckpoint, Inv
<1> DEFINE e == Claimed(State)
<1>2. LearnedIs(e, State)
  BY <1>1, ClaimedShape
<1>3. proj' = e.p
  BY DEF TakeCheckpoint
<1>4. /\ pc' = IF proj.dirty \/ ~proj.hasCkpt THEN "persist" ELSE "publish"
      /\ job' = "commit" /\ Ready(State) /\ writer.withheld = {}
      /\ UNCHANGED <<granted, shredded, minted, records, file, snap, writer, gone>>
  BY <1>1 DEF TakeCheckpoint, Ready
<1> HIDE DEF e
<1>5. Good(Env, e, records)
  BY <1>1, <1>2, LearnedKeeps
<1>6. /\ e.f = file /\ e.w = writer /\ e.n = minted /\ e.p.dirty = proj.dirty
      /\ e.p.hasCkpt = proj.hasCkpt
  BY <1>1, <1>2 DEF LearnedIs
<1>7. Becomes(e)
  BY <1>3, <1>4, <1>6 DEF Becomes
<1>8. Grows(e.f, file)
  BY <1>1, <1>6, GrowsSelf
<1>9. PcInv(pc', job', e, snap)
  <2>1. PairInv(snap, FALSE)
    BY <1>1 DEF Inv
  <2> QED BY <1>1, <1>4, <1>6, <2>1 DEF PcInv, Publishable, Ready
<1> QED BY <1>1, <1>4, <1>5, <1>7, <1>8, <1>9, CallKeeps

LEMMA CloseKeeps ==
  ASSUME Inv, Close
  PROVE  Inv'
<1>1. Good(Env, State, records) /\ State.w = writer /\ State.p = proj /\ State.f = file
      /\ State.n = minted /\ State \in States /\ pc = "idle" /\ file \in Files
  BY Opened DEF Close
<1>2. /\ pc' = "persist" /\ job' = "close" /\ Ready(State)
      /\ UNCHANGED <<granted, shredded, minted, records, file, snap, writer, proj, gone>>
  BY <1>1 DEF Close, Ready
<1>3. Becomes(State) /\ Grows(State.f, file)
  BY <1>1, <1>2, GrowsSelf DEF Becomes
<1>4. PcInv(pc', job', State, snap)
  BY <1>2 DEF PcInv
<1> QED BY <1>1, <1>2, <1>3, <1>4, CallKeeps

-----------------------------------------------------------------------------
(* The snapshots.                                                          *)

LEMMA SealedShape ==
  ASSUME NEW p \in Projs, NEW d \in Catalogs, NEW k \in Nat, Live(p) \cup {StoreKey} \subseteq DOMAIN d,
         NEW c, c = Sealed(p, d, k)
  PROVE  /\ c \in Snapshots /\ c # NoFile /\ c.stamp = k /\ c.key = d[StoreKey]
         /\ DOMAIN c.parts = Live(p) /\ \A t \in Live(p) : c.parts[t].dek = d[t]
         /\ \A t \in Tenants : PartRow(c, t) = p.rows[t] /\ PartAct(c, t) = p.acts[t]
<1> DEFINE L == Live(p)
           parts == [t \in L |-> [dek |-> d[t], row |-> p.rows[t], acts |-> p.acts[t]]]
<1>1. p.rows \in [Tenants -> Nat] /\ p.acts \in [Tenants -> SUBSET Nat]
  BY DEF Projs
<1>2. L \subseteq Tenants
  BY DEF Live
<1>3. \A n \in DOMAIN d : d[n] \in Nat
  BY CatalogParts
<1>4. c = [stamp |-> k, key |-> d[StoreKey], parts |-> parts]
  BY DEF Sealed
<1>5. parts \in [L -> PartSet]
  BY <1>1, <1>2, <1>3 DEF PartSet
<1>6. parts \in UNION {[S -> PartSet] : S \in SUBSET Tenants}
  BY <1>2, <1>5
<1>7. \A t \in L : parts[t].dek = d[t] /\ parts[t].row = p.rows[t] /\ parts[t].acts = p.acts[t]
  OBVIOUS
<1>8. DOMAIN parts = L
  OBVIOUS
<1> HIDE DEF parts
<1>9. /\ c \in Snapshots /\ c.stamp = k /\ c.key = d[StoreKey] /\ c.parts = parts
  BY <1>3, <1>4, <1>6 DEF Snapshots
<1>10. c # NoFile
  BY <1>9, SnapshotAssumption DEF Snapshots, PartSet
<1>11. ASSUME NEW t \in Tenants
       PROVE  PartRow(c, t) = p.rows[t] /\ PartAct(c, t) = p.acts[t]
  <2>1. CASE t \in L
    BY <1>7, <1>8, <1>9, <2>1 DEF PartRow, PartAct
  <2>2. CASE t \notin L
    <3>1. p.rows[t] = 0 /\ p.acts[t] = {}
      BY <2>2 DEF Live
    <3> QED BY <1>8, <1>9, <2>2, <3>1 DEF PartRow, PartAct
  <2> QED BY <2>1, <2>2
<1> QED BY <1>7, <1>8, <1>9, <1>10, <1>11

LEMMA SealedIs ==
  ASSUME NEW N, NEW s, Good(Env, s, N), Ready(s), s.w.withheld = {}, ~s.p.dirty, s.p.hasCkpt,
         Live(s.p) \cup {StoreKey} \subseteq DOMAIN s.w.deks,
         NEW c, c = Sealed(s.p, s.w.deks, Len(s.f.pages))
  PROVE  /\ c \in Snapshots /\ c # NoFile /\ c.stamp = Len(s.f.pages)
         /\ SnapInv(Env, c, s.f) /\ CkptInv(Env, c, s.f)
<1>1. s \in States /\ KeyInv(Env, s, N) /\ ProjInv(Env, s)
  BY DEF Good, KeyInv
<1>2. /\ s.w.deks \in Catalogs /\ s.p.rows \in [Tenants -> Nat]
      /\ s.p.acts \in [Tenants -> SUBSET Nat] /\ s.f.pages \in Seq(SealedPages)
  BY <1>1, StateParts
<1>3. /\ Extends(s.w.catalog, s.f.catalog) /\ Extends(s.w.catalog, s.w.deks)
      /\ StoreKey \in DOMAIN s.f.catalog
  BY <1>1 DEF KeyInv, WriterInv, FileInv
<1>4. /\ Live(s.p) \subseteq DOMAIN s.f.catalog
      /\ \A t \in Tenants : ~Destroyed(Env, s.f, t) => Whole(Env, s, t)
  BY <1>1 DEF ProjInv, Ready
<1> DEFINE k == Len(s.f.pages)
           d == s.w.deks
<1>5. k \in Nat /\ s.p \in Projs
  BY <1>1, <1>2, LenProperties, StateParts
<1>6. /\ c \in Snapshots /\ c # NoFile /\ c.stamp = k /\ c.key = d[StoreKey]
      /\ DOMAIN c.parts = Live(s.p) /\ \A t \in Live(s.p) : c.parts[t].dek = d[t]
      /\ \A t \in Tenants : PartRow(c, t) = s.p.rows[t] /\ PartAct(c, t) = s.p.acts[t]
  <2> DEFINE p == s.p
  <2>1. c = Sealed(p, d, k) /\ p \in Projs /\ d \in Catalogs /\ Live(p) \cup {StoreKey} \subseteq DOMAIN d
    BY <1>2, <1>5
  <2> HIDE DEF k, d, p
  <2>2. /\ c \in Snapshots /\ c # NoFile /\ c.stamp = k /\ c.key = d[StoreKey]
        /\ DOMAIN c.parts = Live(p) /\ \A t \in Live(p) : c.parts[t].dek = d[t]
        /\ \A t \in Tenants : PartRow(c, t) = p.rows[t] /\ PartAct(c, t) = p.acts[t]
    BY ONLY <1>5, <2>1, SealedShape
  <2> QED BY <2>2 DEF p
<1>7. \A n \in DOMAIN d : n \in DOMAIN s.f.catalog => d[n] = s.f.catalog[n]
  BY <1>3 DEF Extends
<1>8. UpTo(s.f.pages, c.stamp) = s.f.pages
  <2> DEFINE a == s.f.pages
  <2>1. a \in Seq(SealedPages) /\ Len(a) \in 0..Len(a) /\ c.stamp = Len(a)
    BY <1>2, <1>5, <1>6
  <2> HIDE DEF a
  <2>2. UpTo(a, Len(a)) = a
    BY <2>1, OnParts
  <2> QED BY <2>1, <2>2 DEF a
<1>9. \A t \in Tenants : Recs(s, t) = On(s.f.pages, t)
  BY <1>1, RecsIn DEF Ready
<1>10. SnapInv(Env, c, s.f)
  <2>1. c.stamp <= Len(s.f.pages) /\ c.key = s.f.catalog[StoreKey]
    BY <1>3, <1>5, <1>6, <1>7
  <2>2. \A t \in DOMAIN c.parts : t \in DOMAIN s.f.catalog /\ c.parts[t].dek = s.f.catalog[t]
    BY <1>4, <1>6, <1>7
  <2>3. \A t \in Tenants : ~Destroyed(Env, s.f, t) =>
          IsLast(PartRow(c, t), On(UpTo(s.f.pages, c.stamp), t))
    BY <1>4, <1>6, <1>8, <1>9 DEF Whole
  <2> QED BY <1>6, <2>1, <2>2, <2>3 DEF SnapInv
<1>11. CkptInv(Env, c, s.f)
  BY <1>4, <1>6, <1>8, <1>9 DEF Whole, CkptInv
<1> QED BY <1>6, <1>10, <1>11

(* A persist that writes takes the projection for the whole: nobody is     *)
(* withheld, and who is not served was destroyed or never was.             *)
PersistedIs(e, s) ==
  /\ e \in States /\ e.w = s.w /\ e.f = s.f /\ e.n = s.n
  /\ e.p.rows = s.p.rows /\ e.p.acts = s.p.acts /\ e.p.fromLog = s.p.fromLog
  /\ e.p.hasCkpt = TRUE /\ e.p.dirty = FALSE

LEMMA PersistedShape ==
  ASSUME NEW s \in States
  PROVE  PersistedIs([s EXCEPT !.p = [s.p EXCEPT !.hasCkpt = TRUE, !.dirty = FALSE]], s)
<1> DEFINE q == [s.p EXCEPT !.hasCkpt = TRUE, !.dirty = FALSE]
           e == [s EXCEPT !.p = q]
<1>1. q \in Projs /\ q.rows = s.p.rows /\ q.acts = s.p.acts /\ q.fromLog = s.p.fromLog
      /\ q.hasCkpt = TRUE /\ q.dirty = FALSE
  BY StateParts DEF Projs
<1> HIDE DEF q
<1>2. e \in States /\ e.w = s.w /\ e.f = s.f /\ e.n = s.n /\ e.p = q
  BY <1>1 DEF States
<1> HIDE DEF e
<1>3. PersistedIs(e, s)
  BY <1>1, <1>2 DEF PersistedIs
<1> QED BY <1>3 DEF e, q

LEMMA PersistedKeeps ==
  ASSUME NEW N, NEW s, NEW e, Env \in Envs, Good(Env, s, N), PersistedIs(e, s), Ready(s), Fresh(s.w),
         s.w.withheld = {}, \A t \in Tenants \cap s.w.revoked : t \notin Live(s.p)
  PROVE  Good(Env, e, N) /\ Ready(e) /\ e.w.withheld = {} /\ Live(e.p) = Live(s.p)
<1>1. s \in States /\ KeyInv(Env, s, N) /\ KeyInv(Env, e, N) /\ s.p \in Projs
  BY StateParts DEF Good, KeyInv, PersistedIs
<1>2. Live(e.p) = Live(s.p)
  BY DEF Live, PersistedIs
<1>3. \A t \in Tenants : Recs(e, t) = Recs(s, t)
  BY DEF Recs, PersistedIs
<1>4. \A t \in Tenants : Whole(Env, s, t) => Whole(Env, e, t)
  BY <1>3 DEF Whole, PersistedIs
<1>5. /\ Live(s.p) \subseteq DOMAIN s.w.catalog /\ Live(s.p) \subseteq DOMAIN s.f.catalog
      /\ Faults = {} => s.p.fromLog
      /\ \A t \in Tenants : Usable(Env, s.w, t) => Whole(Env, s, t)
  BY DEF Good, ProjInv, Ready
<1>6. ASSUME NEW t \in Tenants, ~Destroyed(Env, s.f, t) PROVE Whole(Env, s, t)
  <2>1. CASE t \in DOMAIN s.w.catalog \ s.w.revoked
    <3>1. t \in granted /\ s.w.catalog[t] \notin shredded
      BY <2>1 DEF Fresh
    <3> QED BY <1>5, <2>1, <3>1, EnvParts DEF Usable
  <2>2. CASE t \notin DOMAIN s.w.catalog \/ t \in s.w.revoked
    <3>1. s.p.rows[t] = 0 /\ s.p.acts[t] = {}
      BY <1>1, <1>5, <2>2, NotLive
    <3>2. t \notin DOMAIN s.f.catalog
      <4> SUFFICES ASSUME t \in DOMAIN s.f.catalog PROVE FALSE
        OBVIOUS
      <4>1. t \in DOMAIN s.w.catalog /\ s.w.catalog[t] = s.f.catalog[t]
        BY <1>1 DEF KeyInv, WriterInv, Extends
      <4>2. s.w.catalog[t] \in Env.shredded
        BY <1>1, <2>2, <4>1 DEF KeyInv, WriterInv
      <4> QED BY <1>6, <4>1, <4>2 DEF Destroyed
    <3>3. Recs(s, t) = {} /\ Env.gone[t] = {}
      BY <1>1, <3>2, RecsIn DEF Ready
    <3> QED BY <3>1, <3>3 DEF Whole, IsLast
  <2> QED BY <2>1, <2>2
<1>7. ProjInv(Env, e)
  <2>1. \A t \in Tenants : ~Destroyed(Env, e.f, t) => Whole(Env, e, t)
    BY <1>4, <1>6 DEF PersistedIs
  <2>2. \A t \in Tenants : Usable(Env, e.w, t) => Whole(Env, e, t)
    BY <1>4, <1>5 DEF PersistedIs
  <2>3. ~HasPending(e.w)
    BY DEF Ready, PersistedIs
  <2> QED BY <1>2, <1>5, <2>1, <2>2, <2>3 DEF ProjInv, PersistedIs
<1> QED BY <1>1, <1>2, <1>7 DEF Good, Ready, PersistedIs

LEMMA PersistKeeps ==
  ASSUME Inv, Persist
  PROVE  Inv'
<1> DEFINE v == Revalidate(State)
           w == v.s.w
           p == v.s.p
<1>1. Good(Env, State, records) /\ State.w = writer /\ State.p = proj /\ State.f = file
      /\ State.n = minted /\ State \in States /\ pc = "persist" /\ Env \in Envs
      /\ records \in Nat /\ job \in {"commit", "install", "abort", "close"}
  BY Opened DEF Persist, Inv, PcInv
<1>2. Ready(State) /\ PairInv(snap, FALSE) /\ FilesInv(Env, snap, file)
  BY <1>1 DEF Inv, PcInv
<1>3. /\ UNCHANGED <<granted, shredded, minted, records, file, gone>>
      /\ IF ~v.ok THEN PersistError(writer, proj) /\ UNCHANGED snap
         ELSE IF ~MayRewrite(w) THEN PersistDone(w, p) /\ UNCHANGED snap
         ELSE IF ~(Live(p) \cup {StoreKey} \subseteq DOMAIN w.deks)
         THEN PersistError(w, p) /\ UNCHANGED snap
         ELSE /\ snap' = [snap EXCEPT !.joins = Sealed(p, w.deks, Len(file.pages))]
              /\ LET q == [p EXCEPT !.hasCkpt = TRUE, !.dirty = FALSE]
                 IN IF q.fromLog
                    THEN pc' = "publish" /\ writer' = w /\ proj' = q /\ UNCHANGED job
                    ELSE PersistDone(w, q)
  BY DEF Persist
<1>4. Revalidation(v, State)
  BY <1>1, RevalidateIs
<1> HIDE DEF v
<1>5. v.s \in States /\ v.s.f = file /\ v.s.n = minted
  BY <1>1, <1>4 DEF Revalidation
<1>6. /\ Good(Env, v.s, records) /\ v.s.w.page = State.w.page
      /\ v.s.w.pending = State.w.pending /\ v.s.w.failed = State.w.failed
      /\ v.ok => /\ Fresh(v.s.w)
                 /\ \A t \in Tenants \cap (v.s.w.revoked \cup v.s.w.withheld) : t \notin Live(v.s.p)
  BY <1>1, <1>4, RevalidateKeeps
<1>7. Ready(v.s)
  BY <1>2, <1>6 DEF Ready, HasPending
<1>8. CASE ~v.ok
  BY <1>1, <1>2, <1>3, <1>8, PersistErrorKeeps
<1>9. CASE v.ok /\ ~MayRewrite(w)
  BY <1>2, <1>3, <1>5, <1>6, <1>9, PersistDoneKeeps
<1>10. CASE v.ok /\ MayRewrite(w) /\ ~(Live(p) \cup {StoreKey} \subseteq DOMAIN w.deks)
  BY <1>2, <1>3, <1>5, <1>6, <1>10, PersistErrorKeeps
<1>11. CASE v.ok /\ MayRewrite(w) /\ Live(p) \cup {StoreKey} \subseteq DOMAIN w.deks
  <2> DEFINE q == [v.s.p EXCEPT !.hasCkpt = TRUE, !.dirty = FALSE]
             e == [v.s EXCEPT !.p = q]
             c == Sealed(p, w.deks, Len(file.pages))
  <2>1. PersistedIs(e, v.s)
    BY <1>5, PersistedShape
  <2>2. e.p = q
    BY <1>5 DEF States
  <2>3. snap' = [snap EXCEPT !.joins = c]
    BY <1>3, <1>11
  <2>4. IF q.fromLog THEN pc' = "publish" /\ writer' = w /\ proj' = q /\ UNCHANGED job
        ELSE PersistDone(w, q)
    BY <1>3, <1>11
  <2>5. c = Sealed(e.p, e.w.deks, Len(e.f.pages))
    BY <1>5, <2>1 DEF Sealed, Live, PersistedIs
  <2> HIDE DEF q, e, c
  <2>6. v.s.w.withheld = {}
    BY <1>11 DEF MayRewrite
  <2>7. Good(Env, e, records) /\ Ready(e) /\ e.w.withheld = {} /\ Live(e.p) = Live(v.s.p)
    BY <1>1, <1>6, <1>7, <1>11, <2>1, <2>6, PersistedKeeps
  <2>8. e.f = file /\ e.n = minted /\ e.w = v.s.w /\ ~e.p.dirty /\ e.p.hasCkpt
    BY <1>5, <2>1 DEF PersistedIs
  <2>9. Live(e.p) \cup {StoreKey} \subseteq DOMAIN e.w.deks
    BY <1>11, <2>7, <2>8
  <2>10. SnapInv(Env, c, file)
    BY <2>5, <2>7, <2>8, <2>9, SealedIs
  <2>11. snap'.joins = c /\ snap'.ckpt = snap.ckpt /\ snap' = [joins |-> c, ckpt |-> snap.ckpt]
    <3>1. snap = [joins |-> snap.joins, ckpt |-> snap.ckpt]
      BY <1>2 DEF FilesInv
    <3> QED BY <2>3, <3>1
  <2>12. FilesInv(Env, snap', file)
    BY <1>2, <2>10, <2>11 DEF FilesInv
  <2>13. CASE e.p.fromLog
    <3>1. pc' = "publish" /\ job' = job /\ Becomes(e)
      BY <1>3, <2>2, <2>4, <2>8, <2>13 DEF Becomes
    <3>2. PairInv(snap', pc' = "publish")
      BY <3>1 DEF PairInv
    <3>3. PcInv(pc', job', e, snap')
      BY <1>1, <2>7, <2>8, <2>9, <3>1 DEF PcInv, Publishable
    <3> QED BY <1>1, <1>3, <2>7, <2>8, <2>12, <3>1, <3>2, <3>3, GoesOn
  <2>14. CASE ~e.p.fromLog
    <3>1. PersistDone(e.w, e.p)
      BY <2>2, <2>4, <2>8, <2>14
    <3>2. PairInv(snap', FALSE)
      <4>1. Faults # {}
        BY <2>7, <2>14 DEF Good, ProjInv, Ready
      <4> QED BY <4>1 DEF PairInv
    <3> QED BY <1>3, <2>7, <2>8, <2>12, <3>1, <3>2, PersistDoneKeeps
  <2> QED BY <2>13, <2>14
<1> QED BY <1>8, <1>9, <1>10, <1>11

LEMMA PublishKeeps ==
  ASSUME Inv, Publish
  PROVE  Inv'
<1>1. Good(Env, State, records) /\ State.w = writer /\ State.p = proj /\ State.f = file
      /\ State.n = minted /\ State \in States /\ pc = "publish" /\ Env \in Envs
      /\ records \in Nat /\ file \in Files
  BY Opened DEF Publish
<1>2. Ready(State) /\ Publishable(State, snap) /\ FilesInv(Env, snap, file)
  BY <1>1 DEF Inv, PcInv
<1>3. UNCHANGED <<granted, shredded, minted, records, file, gone>>
  BY DEF Publish
<1>4. CASE Live(proj) \cup {StoreKey} \subseteq DOMAIN writer.deks
  <2> DEFINE c == Sealed(State.p, State.w.deks, Len(State.f.pages))
  <2>1. snap' = [snap EXCEPT !.ckpt = c] /\ PersistDone(writer, proj)
    BY <1>1, <1>4 DEF Publish
  <2>2. Live(State.p) \cup {StoreKey} \subseteq DOMAIN State.w.deks
    BY <1>1, <1>4
  <2> HIDE DEF c
  <2>3. /\ c # NoFile /\ c.stamp = Len(file.pages) /\ SnapInv(Env, c, file) /\ CkptInv(Env, c, file)
    BY <1>1, <1>2, <2>2, SealedIs DEF Publishable, c
  <2>4. snap'.joins = snap.joins /\ snap'.ckpt = c /\ snap' = [joins |-> snap.joins, ckpt |-> c]
    <3>1. snap = [joins |-> snap.joins, ckpt |-> snap.ckpt]
      BY <1>2 DEF FilesInv
    <3> QED BY <2>1, <3>1
  <2>5. FilesInv(Env, snap', file)
    BY <1>2, <2>3, <2>4 DEF FilesInv
  <2>6. PairInv(snap', FALSE)
    BY <1>2, <2>3, <2>4 DEF PairInv, FilesInv, SnapInv
  <2>7. PersistDone(State.w, State.p)
    BY <1>1, <2>1
  <2> QED BY <1>1, <1>3, <2>5, <2>6, <2>7, PersistDoneKeeps
<1>5. CASE ~(Live(proj) \cup {StoreKey} \subseteq DOMAIN writer.deks)
  <2>1. PersistError(State.w, State.p) /\ UNCHANGED snap
    BY <1>1, <1>5 DEF Publish
  <2>2. PairInv(snap, FALSE)
    BY <1>1, <1>2, <1>5 DEF Publishable
  <2> QED BY <1>1, <1>3, <2>1, <2>2, PersistErrorKeeps
<1> QED BY <1>4, <1>5

LEMMA PersistIoFailsKeeps ==
  ASSUME Inv, PersistIoFails
  PROVE  Inv'
<1>1. pc \in {"persist", "publish"} /\ (pc = "publish" => Faults # {})
  BY DEF PersistIoFails
<1>2. Good(Env, State, records) /\ State.w = writer /\ State.p = proj /\ State.f = file
      /\ State.n = minted
  BY <1>1, Opened
<1>3. PairInv(snap, FALSE)
  BY <1>1 DEF Inv, PairInv
<1>4. PersistError(State.w, State.p)
      /\ UNCHANGED <<granted, shredded, minted, records, file, snap, gone>>
  BY <1>2 DEF PersistIoFails
<1> QED BY <1>2, <1>3, <1>4, PersistErrorKeeps

LEMMA CrashKeeps ==
  ASSUME Inv, Crash
  PROVE  Inv'
BY JustStops DEF Crash

-----------------------------------------------------------------------------
(* What is installed from the files by somebody with the DEKs d who may    *)
(* read the tenants in S.                                                  *)

CkptOpens(d) == snap.ckpt # NoFile /\ Opens(snap.ckpt, d)
HasBase(d) == snap.joins # NoFile \/ CkptOpens(d)
BaseFile == IF snap.joins # NoFile THEN snap.joins ELSE snap.ckpt
Base(d) == IF HasBase(d) THEN BaseFile.stamp ELSE 0
FromLog(d) == CkptOpens(d) \/ snap.joins = NoFile
Current(pages) == snap.joins # NoFile /\ snap.joins.stamp = Len(pages)
BaseRows(d) == IF HasBase(d) THEN PartRows(BaseFile, d) ELSE NoRows

LEMMA InstalledIs ==
  ASSUME NEW pages, NEW d, NEW S
  PROVE  /\ Installed(pages, d, S).rows = Replayed(BaseRows(d), After(pages, Base(d)), S)
         /\ Installed(pages, d, S).acts =
              IF CkptOpens(d)
              THEN Learned(PartActs(snap.ckpt, d), After(pages, snap.ckpt.stamp), S)
              ELSE Learned(NoActs, After(pages, Base(d)), S)
BY DEF Installed, CkptOpens, HasBase, BaseFile, Base, BaseRows

LEMMA InstalledHas ==
  ASSUME NEW pages, NEW d, NEW S
  PROVE  /\ Installed(pages, d, S).fromLog <=> FromLog(d)
         /\ Installed(pages, d, S).hasCkpt <=> Current(pages)
         /\ Installed(pages, d, S).dirty = FALSE
BY DEF Installed, CkptOpens, FromLog, Current

LEMMA InstalledType ==
  ASSUME NEW pages, NEW d, NEW S, Installed(pages, d, S).rows \in [Tenants -> Nat],
         Installed(pages, d, S).acts \in [Tenants -> SUBSET Nat]
  PROVE  Installed(pages, d, S) \in Projs
<1> DEFINE log == Installed(pages, d, S).fromLog
           has == Installed(pages, d, S).hasCkpt
           i == [rows |-> Installed(pages, d, S).rows, acts |-> Installed(pages, d, S).acts,
                 fromLog |-> log, hasCkpt |-> has, dirty |-> FALSE]
<1>1. log \in BOOLEAN /\ has \in BOOLEAN
  BY DEF Installed
<1>2. Installed(pages, d, S) = i
  BY DEF Installed
<1>3. i \in Projs
  <2> HIDE DEF log, has
  <2> QED BY <1>1 DEF Projs
<1> HIDE DEF i
<1> QED BY <1>2, <1>3

(* Whose DEKs are those of the log, and who reads what nobody destroyed.   *)
Installs(f, d, S, N) ==
  /\ N \in Nat /\ FileInv(Env, f, N) /\ FilesInv(Env, snap, f) /\ Installable(d)
  /\ \A n \in DOMAIN d : n \in DOMAIN f.catalog => d[n] = f.catalog[n]
  /\ \A t \in S : t \in DOMAIN f.catalog /\ ~Destroyed(Env, f, t)

LEMMA SnapOpens ==
  ASSUME NEW f, NEW d, NEW c, c # NoFile, SnapInv(Env, c, f),
         StoreKey \in DOMAIN d, StoreKey \in DOMAIN f.catalog,
         \A n \in DOMAIN d : n \in DOMAIN f.catalog => d[n] = f.catalog[n]
  PROVE  Opens(c, d)
BY DEF SnapInv, Opens

LEMMA PartsOf ==
  ASSUME NEW c \in Snapshots, NEW d, NEW t \in Tenants
  PROVE  /\ PartRows(c, d)[t] \in Nat /\ PartActs(c, d)[t] \in SUBSET Nat /\ c.stamp \in Nat
         /\ t \in DOMAIN d => PartRows(c, d)[t] = PartRow(c, t) /\ PartActs(c, d)[t] = PartAct(c, t)
         /\ t \notin DOMAIN c.parts => PartRows(c, d)[t] = 0 /\ PartActs(c, d)[t] = {}
<1> DEFINE parts == c.parts
<1>1. c.stamp \in Nat /\ parts \in [DOMAIN parts -> PartSet]
  BY DEF Snapshots
<1>2. \A u \in DOMAIN parts : parts[u].row \in Nat /\ parts[u].acts \in SUBSET Nat
  BY <1>1 DEF PartSet
<1> QED BY <1>1, <1>2 DEF PartRows, PartActs, PartRow, PartAct

LEMMA BaseIs ==
  ASSUME NEW f, NEW d, NEW S, NEW N, Installs(f, d, S, N), NEW t \in Tenants
  PROVE  /\ Base(d) \in 0..Len(f.pages) /\ BaseRows(d)[t] \in Nat
         /\ t \in DOMAIN d /\ ~Destroyed(Env, f, t) =>
              IsLast(BaseRows(d)[t], On(UpTo(f.pages, Base(d)), t))
         /\ t \notin DOMAIN f.catalog => BaseRows(d)[t] = 0
         /\ snap.joins # NoFile => HasBase(d) /\ Base(d) = snap.joins.stamp
         /\ ~HasBase(d) => Base(d) = 0
<1>1. f.pages \in Seq(SealedPages) /\ Len(f.pages) \in Nat
  BY LenProperties DEF Installs, FileInv, Files
<1>2. CASE HasBase(d)
  <2> DEFINE c == BaseFile
  <2>1. c # NoFile /\ SnapInv(Env, c, f) /\ Base(d) = c.stamp /\ BaseRows(d) = PartRows(c, d)
    BY <1>2 DEF BaseFile, HasBase, CkptOpens, Installs, FilesInv, Base, BaseRows
  <2> HIDE DEF c
  <2>2. c \in Snapshots /\ c.stamp <= Len(f.pages)
    BY <2>1 DEF SnapInv
  <2>3. /\ PartRows(c, d)[t] \in Nat /\ c.stamp \in Nat
        /\ t \in DOMAIN d => PartRows(c, d)[t] = PartRow(c, t)
        /\ t \notin DOMAIN c.parts => PartRows(c, d)[t] = 0
    BY <2>2, PartsOf
  <2>4. /\ ~Destroyed(Env, f, t) => IsLast(PartRow(c, t), On(UpTo(f.pages, c.stamp), t))
        /\ t \notin DOMAIN f.catalog => t \notin DOMAIN c.parts
    BY <2>1 DEF SnapInv
  <2>5. snap.joins # NoFile => c = snap.joins
    BY DEF BaseFile, c
  <2>6. c.stamp \in 0..Len(f.pages)
    BY <1>1, <2>2, <2>3
  <2> QED BY <1>2, <2>1, <2>3, <2>4, <2>5, <2>6
<1>3. CASE ~HasBase(d)
  <2>1. Base(d) = 0 /\ BaseRows(d)[t] = 0 /\ snap.joins = NoFile
    BY <1>3 DEF Base, BaseRows, NoRows, HasBase
  <2> DEFINE a == f.pages
  <2>2. a \in Seq(SealedPages) /\ 0 \in 0..Len(a)
    BY <1>1
  <2> HIDE DEF a
  <2>3. On(UpTo(a, 0), t) = {}
    BY <2>2, OnParts
  <2>4. IsLast(0, On(UpTo(a, 0), t))
    BY <2>3 DEF IsLast
  <2> QED BY <1>1, <1>3, <2>1, <2>2, <2>4 DEF a
<1> QED BY <1>2, <1>3

LEMMA InstalledRows ==
  ASSUME NEW f, NEW d, NEW S, NEW N, Installs(f, d, S, N), NEW t \in Tenants,
         NEW i, i = Installed(f.pages, d, S)
  PROVE  /\ i.rows[t] \in Nat
         /\ t \in S /\ t \in DOMAIN d => IsLast(i.rows[t], On(f.pages, t))
         /\ t \notin S => i.rows[t] = BaseRows(d)[t]
<1> DEFINE r == BaseRows(d)[t]
           k == Base(d)
           a == f.pages
           b == After(a, k)
           row == i.rows[t]
<1>1. /\ k \in 0..Len(a) /\ r \in Nat
      /\ t \in DOMAIN d /\ ~Destroyed(Env, f, t) => IsLast(r, On(UpTo(a, k), t))
  BY BaseIs
<1>2. row = IF t \in S THEN Max({r} \cup On(b, t)) ELSE r
  <2>1. i.rows = Replayed(BaseRows(d), b, S)
    BY InstalledIs
  <2> HIDE DEF b
  <2> QED BY <2>1 DEF Replayed
<1>3. a \in Seq(SealedPages) /\ SealedBy(a, f.catalog, N) /\ N \in Nat
      /\ (t \in S => ~Destroyed(Env, f, t))
  BY DEF Installs, FileInv, Files
<1> HIDE DEF r, k, a, row
<1>4. On(UpTo(a, k), t) \cup On(b, t) = On(a, t)
  BY <1>1, <1>3, OnParts
<1>5. On(a, t) \in SUBSET (1..N)
  <2>1. On(a, t) \subseteq 1..N
    BY <1>3, OnSealed
  <2> QED BY <2>1
<1> HIDE DEF b
<1>6. On(b, t) \in SUBSET (1..N) /\ On(UpTo(a, k), t) \in SUBSET Nat
  BY <1>3, <1>4, <1>5
<1>7. t \in S => row \in Nat
  <2>1. IsLast(r, {r}) /\ {r} \in SUBSET Nat
    BY <1>1 DEF IsLast
  <2>2. IsLast(Max({r} \cup On(b, t)), {r} \cup On(b, t))
    BY <1>3, <1>6, <2>1, MaxIsLast
  <2> QED BY <1>1, <1>2, <1>6, <2>2 DEF IsLast
<1>8. ASSUME t \in S, t \in DOMAIN d PROVE IsLast(row, On(a, t))
  <2>1. IsLast(r, On(UpTo(a, k), t))
    BY <1>1, <1>3, <1>8
  <2>2. IsLast(Max({r} \cup On(b, t)), On(UpTo(a, k), t) \cup On(b, t))
    BY <1>3, <1>6, <2>1, MaxIsLast
  <2> QED BY <1>2, <1>4, <1>8, <2>2
<1> QED BY <1>1, <1>2, <1>7, <1>8 DEF row, a, r

(* The Action ids of a tenant: none that is not its, and all of them where *)
(* log and checkpoint were read, unless a snapshot was lost half-written.  *)
ActsRight(acts, f, d, S, t) ==
  /\ acts[t] \in SUBSET Nat
  /\ t \in DOMAIN d /\ ~Destroyed(Env, f, t) => acts[t] \subseteq On(f.pages, t) \cup Env.gone[t]
  /\ t \notin DOMAIN f.catalog => acts[t] = {}
  /\ StoreKey \in DOMAIN d /\ Faults = {} /\ t \in DOMAIN d /\ FromLog(d) /\ t \in S =>
       On(f.pages, t) \cup Env.gone[t] \subseteq acts[t]
  /\ StoreKey \in DOMAIN d /\ ~FromLog(d) => Env.gone[t] = {}
  /\ Faults = {} /\ t \in DOMAIN d /\ ~Destroyed(Env, f, t) /\ FromLog(d) /\ Current(f.pages)
       /\ PairInv(snap, FALSE) =>
       On(f.pages, t) \cup Env.gone[t] \subseteq acts[t]

LEMMA InstalledActs ==
  ASSUME NEW f, NEW d, NEW S, NEW N, Installs(f, d, S, N), NEW t \in Tenants
  PROVE  ActsRight(Installed(f.pages, d, S).acts, f, d, S, t)
<1> DEFINE acts == Installed(f.pages, d, S).acts
<1> DEFINE a == f.pages
           c == snap.ckpt
           k == IF CkptOpens(d) THEN c.stamp ELSE Base(d)
           b == After(a, k)
           first == IF CkptOpens(d) THEN PartActs(c, d) ELSE NoActs
<1>1. acts = Learned(first, b, S)
  BY InstalledIs
<1>2. a \in Seq(SealedPages) /\ SealedBy(a, f.catalog, N) /\ N \in Nat /\ Len(a) \in Nat
      /\ StoreKey \in DOMAIN f.catalog /\ FilesInv(Env, snap, f) /\ (t \in S => t \in DOMAIN f.catalog)
      /\ (t \in S => ~Destroyed(Env, f, t)) /\ (Env.gone[t] # {} => t \in DOMAIN f.catalog)
  BY LenProperties DEF Installs, FileInv, Files
<1>3. CkptOpens(d) => c # NoFile /\ c \in Snapshots /\ SnapInv(Env, c, f) /\ CkptInv(Env, c, f)
  BY <1>2 DEF CkptOpens, FilesInv, SnapInv
<1>4. k \in 0..Len(a)
  <2>1. CASE CkptOpens(d)
    <3>1. k = c.stamp
      BY <2>1
    <3>2. c.stamp \in Nat /\ c.stamp <= Len(a)
      BY <1>3, <2>1 DEF SnapInv, Snapshots
    <3> HIDE DEF k, a, c
    <3> QED BY <1>2, <3>1, <3>2
  <2>2. CASE ~CkptOpens(d)
    <3>1. k = Base(d)
      BY <2>2
    <3> HIDE DEF k, a
    <3>2. Base(d) \in 0..Len(f.pages)
      BY BaseIs
    <3> QED BY <3>1, <3>2 DEF a
  <2> QED BY <2>1, <2>2
<1>5. acts[t] = IF t \in S THEN first[t] \cup On(b, t) ELSE first[t]
  <2> HIDE DEF acts, first, b
  <2> QED BY <1>1 DEF Learned
<1>6. /\ first[t] \in SUBSET Nat
      /\ t \notin DOMAIN f.catalog => first[t] = {}
      /\ ~CkptOpens(d) => first[t] = {}
      /\ CkptOpens(d) /\ t \in DOMAIN d => first[t] = PartAct(c, t)
  <2>1. CASE CkptOpens(d)
    <3> HIDE DEF c
    <3>1. /\ PartActs(c, d)[t] \in SUBSET Nat
          /\ t \in DOMAIN d => PartActs(c, d)[t] = PartAct(c, t)
          /\ t \notin DOMAIN c.parts => PartActs(c, d)[t] = {}
      BY <1>3, <2>1, PartsOf
    <3>2. t \notin DOMAIN f.catalog => t \notin DOMAIN c.parts
      BY <1>3, <2>1 DEF SnapInv
    <3> QED BY <2>1, <3>1, <3>2
  <2>2. CASE ~CkptOpens(d)
    BY <2>2 DEF NoActs
  <2> QED BY <2>1, <2>2
<1>7. StoreKey \in DOMAIN d /\ ~CkptOpens(d) => c = NoFile /\ Env.gone[t] = {}
  <2>1. SnapInv(Env, c, f) /\ (c = NoFile => Env.gone[t] = {})
    BY <1>2 DEF FilesInv
  <2>2. \A n \in DOMAIN d : n \in DOMAIN f.catalog => d[n] = f.catalog[n]
    BY DEF Installs
  <2>3. StoreKey \in DOMAIN d /\ c # NoFile => Opens(c, d)
    BY <1>2, <2>1, <2>2, SnapOpens
  <2> QED BY <2>1, <2>3 DEF CkptOpens
<1>8. ~CkptOpens(d) /\ snap.joins = NoFile => k = 0
  BY BaseIs DEF HasBase
<1>9. /\ CkptOpens(d) /\ ~Destroyed(Env, f, t) =>
           /\ PartAct(c, t) \subseteq On(UpTo(a, k), t) \cup Env.gone[t]
           /\ Faults = {} => On(UpTo(a, k), t) \cup Env.gone[t] \subseteq PartAct(c, t)
  BY <1>3 DEF CkptInv
<1>10. Faults = {} /\ CkptOpens(d) /\ Current(a) /\ PairInv(snap, FALSE) => k = Len(a)
  <2> SUFFICES ASSUME Faults = {}, CkptOpens(d), Current(a), PairInv(snap, FALSE)
               PROVE  k = Len(a)
    OBVIOUS
  <2>1. snap.joins # NoFile /\ snap.joins.stamp = Len(a)
    BY DEF Current
  <2>2. snap.joins.stamp <= c.stamp
    BY <2>1 DEF PairInv
  <2>3. k = c.stamp
    OBVIOUS
  <2> HIDE DEF a, c, k
  <2> QED BY <1>2, <1>4, <2>1, <2>2, <2>3
<1> HIDE DEF acts, a, c, k, first
<1>11. /\ On(UpTo(a, k), t) \cup On(b, t) = On(a, t)
       /\ k = 0 => On(UpTo(a, k), t) = {}
       /\ k = Len(a) => On(b, t) = {}
  BY <1>2, <1>4, OnParts
<1>12. On(a, t) \subseteq 1..N /\ (t \notin DOMAIN f.catalog => On(a, t) = {})
  BY <1>2, OnSealed
<1>13. On(a, t) \in SUBSET Nat
  BY <1>2, <1>12
<1> HIDE DEF b
<1>14. acts[t] \in SUBSET Nat
  BY <1>5, <1>6, <1>11, <1>13
<1>15. t \in DOMAIN d /\ ~Destroyed(Env, f, t) => acts[t] \subseteq On(a, t) \cup Env.gone[t]
  BY <1>5, <1>6, <1>9, <1>11
<1>16. t \notin DOMAIN f.catalog => acts[t] = {}
  BY <1>2, <1>5, <1>6
<1>17. StoreKey \in DOMAIN d /\ Faults = {} /\ t \in DOMAIN d /\ FromLog(d) /\ t \in S =>
         On(a, t) \cup Env.gone[t] \subseteq acts[t]
  BY <1>1, <1>2, <1>5, <1>6, <1>7, <1>8, <1>9, <1>11 DEF FromLog
<1>18. StoreKey \in DOMAIN d /\ ~FromLog(d) => Env.gone[t] = {}
  BY <1>1, <1>7 DEF FromLog
<1>19. Faults = {} /\ t \in DOMAIN d /\ ~Destroyed(Env, f, t) /\ FromLog(d) /\ Current(a)
         /\ PairInv(snap, FALSE) => On(a, t) \cup Env.gone[t] \subseteq acts[t]
  BY <1>1, <1>5, <1>6, <1>9, <1>10, <1>11 DEF FromLog, Current
<1>20. ActsRight(acts, f, d, S, t)
  BY <1>14, <1>15, <1>16, <1>17, <1>18, <1>19 DEF ActsRight, a
<1> QED BY <1>20 DEF acts

(* A process installs all of every tenant it may read, and all of the      *)
(* tenants that are left when the sidecar is up to date.                   *)
LEMMA InstallKeeps ==
  ASSUME NEW N, NEW s, NEW e, NEW i, Env \in Envs, KeyInv(Env, s, N), FilesInv(Env, snap, s.f),
         PairInv(snap, FALSE), ~HasPending(s.w), Installable(s.w.deks),
         i = Installed(s.f.pages, s.w.deks, With(s.f.catalog, "ready")),
         e = [w |-> s.w, p |-> Dropped(i, s.w), f |-> s.f, n |-> s.n]
  PROVE  Good(Env, e, N) /\ (e.p.hasCkpt <=> i.hasCkpt)
<1> DEFINE f == s.f
           w == s.w
           d == w.deks
           S == With(f.catalog, "ready")
<1>1. s \in States /\ FileInv(Env, f, N) /\ WriterInv(Env, w, f, N) /\ N \in Nat
  BY DEF KeyInv
<1>2. w \in Writers /\ f \in Files /\ s.n \in Nat
  BY <1>1, StateParts
<1>3. /\ Extends(w.catalog, f.catalog) /\ Extends(w.catalog, d) /\ StoreKey \notin w.revoked
      /\ DOMAIN w.catalog \subseteq DOMAIN d \cup w.revoked \cup w.withheld
      /\ \A n \in w.revoked \cap DOMAIN w.catalog : w.catalog[n] \in Env.shredded
      /\ StoreKey \in DOMAIN f.catalog
      /\ \A t \in Tenants : Env.gone[t] # {} => t \in DOMAIN f.catalog
  BY <1>1 DEF WriterInv, FileInv
<1>4. \A n : n \in S <=> n \in DOMAIN f.catalog /\ n \in granted /\ f.catalog[n] \notin shredded
  BY WithIs
<1>5. Env.granted = granted /\ Env.shredded = shredded
  BY EnvParts
<1>6. Installs(f, d, S, N)
  <2>1. \A n \in DOMAIN d : n \in DOMAIN f.catalog => d[n] = f.catalog[n]
    BY <1>3 DEF Extends
  <2>2. \A t \in S : t \in DOMAIN f.catalog /\ ~Destroyed(Env, f, t)
    BY <1>4, <1>5 DEF Destroyed
  <2> QED BY <1>1, <2>1, <2>2 DEF Installs
<1>7. i = Installed(f.pages, d, S)
  OBVIOUS
<1>8. e.w = w /\ e.p = Dropped(i, w) /\ e.f = f /\ e.n = s.n
      /\ e = [w |-> e.w, p |-> e.p, f |-> e.f, n |-> e.n]
  OBVIOUS
<1>9. \A t \in Tenants : t \notin DOMAIN f.catalog => On(f.pages, t) = {} /\ Env.gone[t] = {}
  BY <1>1, RecsIn
<1>10. \A t \in Tenants : Recs(s, t) = On(f.pages, t)
  BY RecsIn
<1> HIDE DEF f, w, d, S
<1>11. /\ i.dirty = FALSE
       /\ (i.fromLog <=> FromLog(d)) /\ (i.hasCkpt <=> Current(f.pages))
  BY ONLY <1>7, InstalledHas
<1>12. ASSUME NEW t \in Tenants
       PROVE  /\ i.rows[t] \in Nat
              /\ t \in S /\ t \in DOMAIN d => IsLast(i.rows[t], On(f.pages, t))
              /\ t \notin S => i.rows[t] = BaseRows(d)[t]
  BY <1>6, <1>7, InstalledRows
<1>13. ASSUME NEW t \in Tenants
       PROVE  /\ i.acts[t] \in SUBSET Nat
              /\ t \in DOMAIN d /\ ~Destroyed(Env, f, t) =>
                   i.acts[t] \subseteq On(f.pages, t) \cup Env.gone[t]
              /\ t \notin DOMAIN f.catalog => i.acts[t] = {}
              /\ StoreKey \in DOMAIN d /\ Faults = {} /\ t \in DOMAIN d /\ FromLog(d) /\ t \in S =>
                   On(f.pages, t) \cup Env.gone[t] \subseteq i.acts[t]
              /\ Faults = {} /\ t \in DOMAIN d /\ ~Destroyed(Env, f, t) /\ FromLog(d)
                   /\ Current(f.pages) /\ PairInv(snap, FALSE) =>
                   On(f.pages, t) \cup Env.gone[t] \subseteq i.acts[t]
  <2>1. ActsRight(Installed(f.pages, d, S).acts, f, d, S, t)
    BY <1>6, InstalledActs
  <2>2. ActsRight(i.acts, f, d, S, t)
    BY <1>7, <2>1
  <2> QED BY ONLY <2>2 DEF ActsRight
<1>14. ASSUME NEW t \in Tenants
       PROVE  /\ t \in DOMAIN d /\ ~Destroyed(Env, f, t) =>
                   IsLast(BaseRows(d)[t], On(UpTo(f.pages, Base(d)), t))
              /\ t \notin DOMAIN f.catalog => BaseRows(d)[t] = 0
              /\ snap.joins # NoFile => Base(d) = snap.joins.stamp
              /\ Base(d) \in 0..Len(f.pages)
  BY <1>6, BaseIs
<1>15. i \in Projs
  <2>1. i.rows \in [Tenants -> Nat] /\ i.acts \in [Tenants -> SUBSET Nat]
    <3>1. i.rows = Replayed(BaseRows(d), After(f.pages, Base(d)), S)
      BY <1>7, InstalledIs
    <3>2. i.acts = IF CkptOpens(d)
                   THEN Learned(PartActs(snap.ckpt, d), After(f.pages, snap.ckpt.stamp), S)
                   ELSE Learned(NoActs, After(f.pages, Base(d)), S)
      BY <1>7, InstalledIs
    <3> DEFINE rows == i.rows
               acts == i.acts
    <3>3. rows = [t \in Tenants |-> rows[t]]
      BY <3>1 DEF Replayed
    <3>4. acts = [t \in Tenants |-> acts[t]]
      BY <3>2 DEF Learned
    <3>5. \A t \in Tenants : rows[t] \in Nat /\ acts[t] \in SUBSET Nat
      BY <1>12, <1>13
    <3> HIDE DEF rows, acts
    <3>6. rows \in [Tenants -> Nat] /\ acts \in [Tenants -> SUBSET Nat]
      BY <3>3, <3>4, <3>5
    <3> QED BY <3>6 DEF rows, acts
  <2> QED BY <1>7, <2>1, InstalledType
<1>16. /\ e.p \in Projs
       /\ \A t \in Tenants :
            IF t \in w.revoked \cup w.withheld
            THEN e.p.rows[t] = 0 /\ e.p.acts[t] = {}
            ELSE e.p.rows[t] = i.rows[t] /\ e.p.acts[t] = i.acts[t]
       /\ e.p.fromLog = i.fromLog /\ e.p.hasCkpt = i.hasCkpt /\ e.p.dirty = i.dirty
  BY <1>2, <1>8, <1>15, DroppedIs
<1>17. e \in States /\ KeyInv(Env, e, N)
  <2>1. e \in States
    BY <1>2, <1>8, <1>16 DEF States
  <2> QED BY <1>1, <1>8, <2>1 DEF KeyInv
<1>18. \A t \in Tenants : Recs(e, t) = On(f.pages, t)
  BY <1>8, <1>10 DEF Recs, f, w
<1>19. ASSUME NEW t \in Tenants, t \notin DOMAIN f.catalog
       PROVE  t \notin Live(e.p) /\ Whole(Env, e, t)
  <2>1. t \notin S
    BY <1>4, <1>19
  <2>2. i.rows[t] = 0 /\ i.acts[t] = {}
    BY <1>12, <1>13, <1>14, <1>19, <2>1
  <2>3. e.p.rows[t] = 0 /\ e.p.acts[t] = {}
    BY <1>16, <2>2
  <2>4. t \notin Live(e.p)
    BY <1>16, <2>3, NotLive
  <2>5. Recs(e, t) = {} /\ Env.gone[t] = {}
    BY <1>9, <1>18, <1>19
  <2>6. Whole(Env, e, t)
    BY ONLY <2>3, <2>5 DEF Whole, IsLast
  <2> QED BY <2>4, <2>6
<1>20. Faults = {} /\ StoreKey \in DOMAIN d => i.fromLog
  <2>1. \A n \in DOMAIN d : n \in DOMAIN f.catalog => d[n] = f.catalog[n]
    BY <1>6 DEF Installs
  <2>2. snap.ckpt # NoFile /\ StoreKey \in DOMAIN d => Opens(snap.ckpt, d)
    <3>1. SnapInv(Env, snap.ckpt, f)
      BY DEF FilesInv, f
    <3> QED BY <1>3, <2>1, <3>1, SnapOpens
  <2> QED BY <1>11, <2>2 DEF CkptOpens, PairInv, FromLog
<1>21. Faults = {} => i.fromLog
  BY <1>11, <1>20 DEF Installable, Opens, FromLog, d, w
<1>22. w.withheld = {} => StoreKey \in DOMAIN d
  BY <1>3 DEF Extends
<1>23. ASSUME NEW t \in Tenants, Usable(Env, w, t)
       PROVE  Whole(Env, e, t)
  <2>1. CASE t \notin DOMAIN f.catalog
    BY <1>19, <2>1
  <2>2. CASE t \in DOMAIN f.catalog
    <3>1. w.catalog[t] = f.catalog[t] /\ t \in DOMAIN d /\ t \notin w.revoked \cup w.withheld
      BY <1>3, <1>23, <2>2 DEF Usable, Extends
    <3>2. t \in S /\ ~Destroyed(Env, f, t)
      BY <1>4, <1>5, <1>23, <2>2, <3>1 DEF Usable, Destroyed
    <3>3. e.p.rows[t] = i.rows[t] /\ e.p.acts[t] = i.acts[t]
      BY <1>16, <3>1
    <3>4. IsLast(e.p.rows[t], On(f.pages, t))
      BY <1>12, <3>1, <3>2, <3>3
    <3>5. e.p.acts[t] \subseteq On(f.pages, t) \cup Env.gone[t]
      BY <1>13, <3>1, <3>2, <3>3
    <3>6. Faults = {} /\ w.withheld = {} => On(f.pages, t) \cup Env.gone[t] \subseteq e.p.acts[t]
      BY <1>11, <1>13, <1>20, <1>22, <3>1, <3>2, <3>3
    <3> QED BY <1>8, <1>18, <3>4, <3>5, <3>6 DEF Whole
  <2> QED BY <2>1, <2>2
<1>24. ASSUME i.hasCkpt, w.withheld = {}, NEW t \in Tenants, ~Destroyed(Env, f, t)
       PROVE  Whole(Env, e, t)
  <2>1. CASE t \notin DOMAIN f.catalog
    BY <1>19, <2>1
  <2>2. CASE t \in DOMAIN f.catalog
    <3>1. w.catalog[t] = f.catalog[t] /\ t \in DOMAIN w.catalog
      BY <1>3, <2>2 DEF Extends
    <3>2. t \in DOMAIN d /\ t \notin w.revoked \cup w.withheld
      BY <1>3, <1>24, <2>2, <3>1 DEF Destroyed
    <3>3. e.p.rows[t] = i.rows[t] /\ e.p.acts[t] = i.acts[t]
      BY <1>16, <3>2
    <3>4. Base(d) = Len(f.pages)
      BY <1>11, <1>14, <1>24 DEF Current
    <3>5. IsLast(BaseRows(d)[t], On(UpTo(f.pages, Len(f.pages)), t))
      BY <1>14, <1>24, <3>2, <3>4
    <3>6. UpTo(f.pages, Len(f.pages)) = f.pages
      <4> DEFINE a == f.pages
      <4>1. a \in Seq(SealedPages) /\ Len(a) \in 0..Len(a)
        BY <1>2, LenProperties DEF Files
      <4> HIDE DEF a
      <4>2. UpTo(a, Len(a)) = a
        BY <4>1, OnParts
      <4> QED BY <4>2 DEF a
    <3>7. IsLast(e.p.rows[t], On(f.pages, t))
      BY <1>12, <3>2, <3>3, <3>5, <3>6
    <3>8. e.p.acts[t] \subseteq On(f.pages, t) \cup Env.gone[t]
      BY <1>13, <1>24, <3>2, <3>3
    <3>9. Faults = {} => On(f.pages, t) \cup Env.gone[t] \subseteq e.p.acts[t]
      BY <1>11, <1>13, <1>21, <1>24, <3>2, <3>3
    <3> QED BY <1>8, <1>18, <3>7, <3>8, <3>9 DEF Whole
  <2> QED BY <2>1, <2>2
<1>25. ProjInv(Env, e)
  <2>1. Live(e.p) \subseteq DOMAIN f.catalog
    BY <1>19 DEF Live
  <2>2. DOMAIN f.catalog \subseteq DOMAIN w.catalog
    BY <1>3 DEF Extends
  <2>3. ~HasPending(e.w)
    BY <1>8 DEF w
  <2> QED BY <1>8, <1>16, <1>21, <1>23, <1>24, <2>1, <2>2, <2>3 DEF ProjInv
<1> QED BY <1>16, <1>17, <1>25 DEF Good

LEMMA InstallStepKeeps ==
  ASSUME Inv, Install
  PROVE  Inv'
<1>1. KeyInv(Env, State, records) /\ State.w = writer /\ State.p = proj /\ State.f = file
      /\ State.n = minted /\ Env \in Envs /\ records \in Nat /\ pc = "install"
  BY Opened DEF Install
<1>2. Ready(State) /\ PairInv(snap, FALSE) /\ FilesInv(Env, snap, file)
  BY <1>1 DEF Inv, PcInv
<1>3. UNCHANGED <<granted, shredded, minted, records, file, snap, gone>>
  BY DEF Install
<1> DEFINE i == Installed(file.pages, writer.deks, With(file.catalog, "ready"))
           e == [w |-> State.w, p |-> Dropped(i, State.w), f |-> State.f, n |-> State.n]
<1>4. CASE Installable(writer.deks)
  <2>1. /\ proj' = Dropped(i, writer) /\ job' = "install" /\ UNCHANGED writer
        /\ pc' = (IF i.hasCkpt THEN "idle" ELSE "persist")
    BY <1>4 DEF Install
  <2>2. i = Installed(State.f.pages, State.w.deks, With(State.f.catalog, "ready"))
    BY <1>1
  <2>3. e.w = State.w /\ e.p = Dropped(i, State.w) /\ e.f = State.f /\ e.n = State.n
        /\ e = [w |-> State.w, p |-> Dropped(i, State.w), f |-> State.f, n |-> State.n]
    OBVIOUS
  <2> HIDE DEF i, e
  <2>4. Good(Env, e, records)
    BY <1>1, <1>2, <1>4, <2>2, <2>3, InstallKeeps DEF Ready
  <2>5. Becomes(e)
    BY <1>1, <1>3, <2>1, <2>3 DEF Becomes
  <2>6. pc' \in {"idle", "persist"} /\ job' = "install" /\ Ready(e)
    BY <1>2, <2>1, <2>3 DEF Ready
  <2>7. PcInv(pc', job', e, snap')
    BY <2>6 DEF PcInv
  <2>8. PairInv(snap', pc' = "publish") /\ FilesInv(Env, snap', e.f)
    BY <1>1, <1>2, <1>3, <2>3 DEF PairInv
  <2> QED BY <1>1, <1>3, <2>4, <2>5, <2>6, <2>7, <2>8, GoesOn
<1>5. CASE ~Installable(writer.deks)
  <2>1. Stop /\ pc # "publish"
    BY <1>1, <1>5 DEF Install
  <2> QED BY <1>3, <2>1, JustStops
<1> QED BY <1>4, <1>5

-----------------------------------------------------------------------------
(* A rollback installs from the files what the discarded writer may read.  *)

DiscardedIs(w, v) ==
  /\ w \in Writers /\ w.page = EmptyPage /\ w.pending = <<>> /\ w.catalog = v.catalog
  /\ w.deks = v.deks /\ w.revoked = v.revoked /\ w.withheld = v.withheld /\ w.failed = v.failed

LEMMA DiscardedShape ==
  ASSUME NEW v \in Writers
  PROVE  DiscardedIs(Discarded(v), v)
<1> DEFINE none == EmptyPage
           empty == <<>>
           w == [v EXCEPT !.page = none, !.pending = empty]
<1>1. none \in [tenant : Names, recs : Seq(Nat)] /\ empty \in Seq(SealedPages)
  BY EmptyPageIs, EmptySeq
<1> HIDE DEF none, empty
<1>2. /\ w \in Writers /\ w.page = none /\ w.pending = empty /\ w.catalog = v.catalog
      /\ w.deks = v.deks /\ w.revoked = v.revoked /\ w.withheld = v.withheld /\ w.failed = v.failed
  BY <1>1 DEF Writers
<1>3. w = Discarded(v)
  BY DEF Discarded, none, empty
<1> HIDE DEF w
<1> QED BY <1>2, <1>3 DEF DiscardedIs, none, empty

LEMMA SealedNone == \A c, N : SealedBy(<<>>, c, N)
<1>1. Len(<<>>) = 0
  OBVIOUS
<1> QED BY <1>1 DEF SealedBy

LEMMA DiscardedKeeps ==
  ASSUME NEW N, NEW s, NEW w, NEW x, KeyInv(Env, s, N), DiscardedIs(w, s.w),
         x = [w |-> w, p |-> s.p, f |-> s.f, n |-> s.n]
  PROVE  KeyInv(Env, x, N) /\ ~HasPending(x.w)
<1>1. x.w = w /\ x.f = s.f /\ x.p = s.p /\ s \in States
  BY DEF KeyInv
<1>2. x \in States
  <2>1. s.p \in Projs /\ s.f \in Files /\ s.n \in Nat /\ w \in Writers
    BY <1>1, StateParts DEF DiscardedIs
  <2> QED BY <2>1 DEF States
<1>3. w.page.recs = <<>> /\ Range(w.page.recs) = {}
  BY EmptyPageIs, EmptyRange DEF DiscardedIs
<1>4. SealedBy(w.pending, w.catalog, N)
  BY SealedNone DEF DiscardedIs
<1>5. WriterInv(Env, w, s.f, N)
  BY <1>3, <1>4 DEF KeyInv, WriterInv, DiscardedIs
<1>6. ~HasPending(w)
  BY <1>3 DEF HasPending, DiscardedIs
<1> QED BY <1>1, <1>2, <1>5, <1>6 DEF KeyInv

LEMMA AbortKeeps ==
  ASSUME Inv, NEW N, NEW s, Good(Env, s, N), Grows(s.f, file), records' = N, pc = "idle",
         ~s.w.failed, UNCHANGED <<granted, shredded, snap, gone>>, Abort(s)
  PROVE  Inv'
<1> DEFINE w == Discarded(s.w)
           i == Installed(s.f.pages, w.deks, With(s.f.catalog, "ready"))
           p == Dropped(i, w)
           x == [w |-> w, p |-> s.p, f |-> s.f, n |-> s.n]
           e == [w |-> x.w, p |-> Dropped(i, x.w), f |-> x.f, n |-> x.n]
<1>1. s \in States /\ KeyInv(Env, s, N) /\ Env \in Envs /\ PairInv(snap, FALSE)
      /\ job \in {"commit", "install", "abort", "close"}
  BY DEF Good, KeyInv, Inv, PcInv
<1>2. s.w \in Writers /\ s.f \in Files /\ s.p \in Projs
  BY <1>1, StateParts
<1>3. FilesInv(Env, snap, s.f)
  BY <1>2, FilesGrow DEF Inv, FileInv
<1>4. DiscardedIs(w, s.w)
  BY <1>2, DiscardedShape
<1>5. IF Installable(w.deks)
      THEN /\ Becomes([s EXCEPT !.w = w, !.p = p])
           /\ pc' = IF p.hasCkpt THEN "idle" ELSE "persist"
           /\ job' = "abort"
      ELSE /\ Becomes([s EXCEPT !.w = [w EXCEPT !.failed = TRUE]])
           /\ UNCHANGED <<pc, job>>
  BY DEF Abort
<1> HIDE DEF w
<1>6. KeyInv(Env, x, N) /\ ~HasPending(x.w)
  BY <1>1, <1>4, DiscardedKeeps
<1>7. x.w = w /\ x.p = s.p /\ x.f = s.f /\ x.n = s.n
  OBVIOUS
<1>8. CASE Installable(w.deks)
  <2>1. writer' = w /\ proj' = p /\ file' = s.f /\ minted' = s.n
    <3> HIDE DEF p
    <3>1. LET u == [s EXCEPT !.w = w, !.p = p]
          IN u.w = w /\ u.p = p /\ u.f = s.f /\ u.n = s.n
      BY <1>1 DEF States
    <3> QED BY <1>5, <1>8, <3>1 DEF Becomes
  <2>2. i = Installed(x.f.pages, x.w.deks, With(x.f.catalog, "ready"))
    OBVIOUS
  <2>3. e = [w |-> x.w, p |-> Dropped(i, x.w), f |-> x.f, n |-> x.n] /\ e.w = w /\ e.p = p
        /\ e.f = s.f /\ e.n = s.n
    OBVIOUS
  <2>4. pc' \in {"idle", "persist"} /\ job' = "abort"
    BY <1>5, <1>8
  <2> HIDE DEF i, x, p
  <2>e. e = [w |-> x.w, p |-> Dropped(i, x.w), f |-> x.f, n |-> x.n]
    OBVIOUS
  <2> HIDE DEF e
  <2>5. Good(Env, e, N)
    BY <1>1, <1>3, <1>6, <1>7, <1>8, <2>2, <2>e, InstallKeeps
  <2>6. Becomes(e)
    BY <2>1, <2>3 DEF Becomes
  <2>7. Grows(e.f, file)
    BY <2>3
  <2>8. PcInv(pc', job', e, snap)
    <3>1. Ready(e)
      BY <1>4, <1>6, <1>7, <2>3 DEF Ready, DiscardedIs
    <3> QED BY <2>4, <3>1 DEF PcInv
  <2> QED BY <2>4, <2>5, <2>6, <2>7, <2>8, CallKeeps
<1>9. CASE ~Installable(w.deks)
  <2> DEFINE u == [x EXCEPT !.w.failed = TRUE]
  <2>1. x \in States
    BY <1>6 DEF KeyInv
  <2>2. FailedIs(u, x)
    BY <2>1, FailedShape
  <2>3. u.w = [w EXCEPT !.failed = TRUE] /\ u.p = s.p /\ u.f = s.f /\ u.n = s.n
    BY <1>7, <2>1 DEF States
  <2>4. Becomes(u)
    <3> DEFINE y == [w EXCEPT !.failed = TRUE]
    <3> HIDE DEF y
    <3>1. LET z == [s EXCEPT !.w = y] IN z.w = y /\ z.p = s.p /\ z.f = s.f /\ z.n = s.n
      BY <1>1 DEF States
    <3>2. writer' = y /\ proj' = s.p /\ file' = s.f /\ minted' = s.n
      BY <1>5, <1>9, <3>1 DEF Becomes, y
    <3> HIDE DEF u
    <3> QED BY <2>3, <3>2 DEF Becomes, y
  <2> HIDE DEF x, u
  <2>5. Good(Env, u, N)
    BY <1>6, <2>2, FailedKeeps
  <2>6. pc' = "idle" /\ job' = job
    BY <1>5, <1>9
  <2>7. PcInv(pc', job', u, snap)
    BY <1>1, <2>6 DEF PcInv
  <2> QED BY <2>3, <2>4, <2>5, <2>6, <2>7, CallKeeps
<1> QED BY <1>8, <1>9

LEMMA BatchKeeps ==
  ASSUME Inv, NEW t \in Tenants, NEW u \in Tenants, Batch(t, u)
  PROVE  Inv'
<1> DEFINE N == records
           c == IF HasPending(writer) THEN Flush(State) ELSE Ok(State)
           a == AppendUncommitted(c.s, t, N + 1, TRUE)
           b == IF a.ok THEN AppendUncommitted(a.s, u, N + 2, TRUE) ELSE a
           d == IF b.ok THEN Flush(b.s) ELSE b
<1>1. Good(Env, State, N) /\ State.f = file /\ N \in Nat /\ Env \in Envs /\ file \in Files
      /\ pc = "idle" /\ job \in {"commit", "install", "abort", "close"}
  BY Opened DEF Batch, Inv, PcInv
<1>2. /\ IF ~c.ok THEN Becomes(c.s) /\ UNCHANGED <<pc, job>>
         ELSE IF d.ok THEN Becomes(d.s) /\ AfterCommit(d.s.p, "commit")
         ELSE IF d.s.w.failed THEN Becomes(d.s) /\ UNCHANGED <<pc, job>>
         ELSE Abort(d.s)
      /\ records' = N + 2 /\ UNCHANGED <<granted, shredded, snap, gone>>
  BY DEF Batch
<1> DEFINE m == N + 1
<1>3. m \in Nat /\ m + 1 \in Nat /\ m + 1 = N + 2
  BY <1>1
<1>4. Good(Env, c.s, N) /\ Grows(c.s.f, file) /\ c.ok \in BOOLEAN
  <2>1. CASE HasPending(writer)
    <3>1. c = Flush(State)
      BY <2>1
    <3> HIDE DEF c
    <3> QED BY <1>1, <3>1, FlushKeeps
  <2>2. CASE ~HasPending(writer)
    <3>1. c.s = State /\ c.ok = TRUE
      BY <2>2 DEF Ok
    <3> HIDE DEF c
    <3> QED BY <1>1, <3>1, GrowsSelf
  <2> QED BY <2>1, <2>2
<1> HIDE DEF c
<1>5. Good(Env, a.s, m) /\ Grows(a.s.f, c.s.f) /\ a.ok \in BOOLEAN
  <2>1. a = AppendUncommitted(c.s, t, N + 1, TRUE)
    OBVIOUS
  <2> HIDE DEF a, N
  <2>2. Good(Env, a.s, N + 1) /\ Grows(a.s.f, c.s.f) /\ a.ok \in BOOLEAN
    BY <1>1, <1>4, <2>1, AppendUncommittedKeeps
  <2> QED BY <2>2
<1>6. Good(Env, c.s, m + 1)
  BY <1>1, <1>3, <1>4, MoreRecords
<1> HIDE DEF a
<1>f. c.s.f \in Files /\ a.s.f \in Files
  BY <1>4, <1>5, StateParts DEF Good, KeyInv
<1>7. Good(Env, b.s, m + 1) /\ Grows(b.s.f, a.s.f) /\ b.ok \in BOOLEAN
  <2>1. CASE a.ok
    <3>1. b = AppendUncommitted(a.s, u, m + 1, TRUE)
      BY <1>3, <2>1
    <3> HIDE DEF b, m
    <3> QED BY <1>1, <1>5, <3>1, AppendUncommittedKeeps
  <2>2. CASE ~a.ok
    <3>1. b = a
      BY <2>2
    <3> HIDE DEF b
    <3> QED BY <1>3, <1>5, <1>f, <3>1, GrowsSelf, MoreRecords
  <2> QED BY <2>1, <2>2
<1> HIDE DEF b
<1>8. Good(Env, d.s, m + 1) /\ Grows(d.s.f, b.s.f) /\ d.ok \in BOOLEAN /\ (d.ok => Ready(d.s))
  <2>1. CASE b.ok
    <3>1. d = Flush(b.s)
      BY <2>1
    <3> HIDE DEF d, m
    <3> QED BY <1>7, <3>1, FlushKeeps
  <2>2. CASE ~b.ok
    <3>1. d = b
      BY <2>2
    <3>2. b.s.f \in Files
      BY <1>7, StateParts DEF Good, KeyInv
    <3> HIDE DEF d
    <3> QED BY <1>7, <2>2, <3>1, <3>2, GrowsSelf
  <2> QED BY <2>1, <2>2
<1>9. Grows(d.s.f, file)
  <2>1. b.s.f \in Files /\ d.s.f \in Files
    BY <1>7, <1>8, StateParts DEF Good, KeyInv
  <2> HIDE DEF d
  <2> QED BY <1>1, <1>4, <1>5, <1>7, <1>8, <1>f, <2>1, GrowsOn
<1> HIDE DEF d
<1>10. CASE ~c.ok
  <2>1. Becomes(c.s) /\ pc' = "idle" /\ job' = job
    BY <1>1, <1>2, <1>10
  <2>2. PcInv(pc', job', c.s, snap)
    BY <1>1, <2>1 DEF PcInv
  <2> QED BY <1>1, <1>2, <1>3, <1>4, <1>6, <2>1, <2>2, CallKeeps
<1>11. CASE c.ok /\ d.ok
  <2>1. Becomes(d.s) /\ pc' \in {"idle", "persist"} /\ job' = "commit"
    BY <1>2, <1>11 DEF AfterCommit
  <2>2. PcInv(pc', job', d.s, snap)
    BY <1>8, <1>11, <2>1 DEF PcInv
  <2> QED BY <1>1, <1>2, <1>3, <1>8, <1>9, <2>1, <2>2, CallKeeps
<1>12. CASE c.ok /\ ~d.ok /\ d.s.w.failed
  <2>1. Becomes(d.s) /\ pc' = "idle" /\ job' = job
    BY <1>1, <1>2, <1>12
  <2>2. PcInv(pc', job', d.s, snap)
    BY <1>1, <2>1 DEF PcInv
  <2> QED BY <1>1, <1>2, <1>3, <1>8, <1>9, <2>1, <2>2, CallKeeps
<1>13. CASE c.ok /\ ~d.ok /\ ~d.s.w.failed
  BY <1>1, <1>2, <1>3, <1>8, <1>9, <1>13, AbortKeeps
<1> QED BY <1>4, <1>8, <1>10, <1>11, <1>12, <1>13

-----------------------------------------------------------------------------
(* Opening, and an environment that takes away.                            *)

LEMMA LoadedIs ==
  ASSUME Env \in Envs, FileInv(Env, file, records), file.catalog[StoreKey] \notin shredded
  PROVE  WriterInv(Env, LoadedWriter, file, records) /\ ~HasPending(LoadedWriter)
         /\ LoadedWriter.failed = FALSE
<1> DEFINE c == file.catalog
           w == LoadedWriter
           R == With(c, "ready")
           deks == Only(c, R)
           revoked == With(c, "shredded")
           withheld == With(c, "withheld")
<1>1. c \in Catalogs /\ StoreKey \in DOMAIN c
  BY DEF FileInv, Files
<1>2. DOMAIN c \subseteq Names
  BY <1>1, CatalogParts
<1> HIDE DEF c
<1>3. /\ deks \in Catalogs /\ DOMAIN deks = DOMAIN c \cap R
      /\ \A n \in DOMAIN c \cap R : deks[n] = c[n]
  BY <1>1, OnlyIs
<1>4. \A n : /\ n \in R <=> n \in DOMAIN c /\ n \in granted /\ c[n] \notin shredded
             /\ n \in withheld <=> n \in DOMAIN c /\ n \notin granted
             /\ n \in revoked <=> n \in DOMAIN c /\ n \in granted /\ c[n] \in shredded
  BY WithIs
<1>5. w = [catalog |-> c, deks |-> deks, revoked |-> revoked, withheld |-> withheld,
           page |-> EmptyPage, pending |-> <<>>, failed |-> FALSE]
  BY DEF LoadedWriter, c
<1>6. <<>> \in Seq(SealedPages) /\ EmptyPage \in [tenant : Names, recs : Seq(Nat)]
      /\ EmptyPage.recs = <<>> /\ Range(<<>>) = {} /\ SealedBy(<<>>, c, records)
  BY EmptySeq, EmptyPageIs, EmptyRange, SealedNone
<1> HIDE DEF w, deks, R, revoked, withheld
<1>7. revoked \in SUBSET Names /\ withheld \in SUBSET Names
  BY <1>2, <1>4
<1>8. w \in Writers
  BY <1>1, <1>3, <1>5, <1>6, <1>7 DEF Writers
<1>9. /\ w.catalog = c /\ w.deks = deks /\ w.revoked = revoked /\ w.withheld = withheld
      /\ w.page = EmptyPage /\ w.pending = <<>> /\ w.failed = FALSE
  BY <1>5
<1>10. Extends(c, c) /\ Extends(c, deks)
  BY <1>3 DEF Extends
<1>11. DOMAIN c \subseteq DOMAIN deks \cup revoked \cup withheld
  BY <1>3, <1>4
<1>12. StoreKey \notin revoked /\ \A n \in revoked \cap DOMAIN c : c[n] \in Env.shredded
  BY <1>4, EnvParts DEF c
<1>13. file.catalog = c
  BY DEF c
<1>14. WriterInv(Env, w, file, records)
  BY <1>6, <1>8, <1>9, <1>10, <1>11, <1>12, <1>13 DEF WriterInv
<1>15. ~HasPending(w)
  BY <1>6, <1>9 DEF HasPending
<1> QED BY <1>9, <1>14, <1>15 DEF w

LEMMA OpenKeeps ==
  ASSUME Inv, Open
  PROVE  Inv'
<1>1. /\ writer' = LoadedWriter /\ pc' = "install" /\ pc = "closed"
      /\ UNCHANGED <<granted, shredded, minted, records, file, snap, proj, gone, job>>
      /\ file.catalog[StoreKey] \notin shredded
  BY DEF Open
<1>2. /\ Env \in Envs /\ records \in Nat /\ minted \in Nat /\ proj \in Projs
      /\ FileInv(Env, file, records) /\ FilesInv(Env, snap, file) /\ PairInv(snap, FALSE)
      /\ job \in {"commit", "install", "abort", "close"}
  BY <1>1 DEF Inv, PcInv
<1>3. Env' = Env
  BY <1>1 DEF Env
<1> DEFINE w == LoadedWriter
           x == [w |-> w, p |-> proj, f |-> file, n |-> minted]
<1>4. WriterInv(Env, w, file, records) /\ ~HasPending(w) /\ w.failed = FALSE
  BY <1>1, <1>2, LoadedIs
<1>5. State' = x
  BY <1>1 DEF State
<1> HIDE DEF w
<1>6. x.w = w /\ x.f = file /\ x.p = proj /\ x.n = minted
  OBVIOUS
<1>7. x \in States
  BY <1>2, <1>4 DEF States, WriterInv, FileInv
<1> HIDE DEF x
<1>8. KeyInv(Env, x, records) /\ Ready(x)
  BY <1>2, <1>4, <1>6, <1>7 DEF KeyInv, Ready
<1>9. PcInv(pc', job', x, snap)
  BY <1>1, <1>2, <1>8 DEF PcInv
<1> QED BY <1>1, <1>2, <1>3, <1>5, <1>8, <1>9 DEF Inv, PairInv

LEMMA EnvironmentKeeps ==
  ASSUME Inv, UNCHANGED <<gone, minted, records, file, snap, writer, proj, pc, job>>,
         pc = "closed" \/ granted' \subseteq granted, granted' \subseteq Names,
         shredded \subseteq shredded', shredded' \subseteq Nat
  PROVE  Inv'
<1> DEFINE E == Env
           D == Env'
<1>1. Env \in Envs
  BY DEF Inv
<1>2. D \in Envs /\ D.gone = E.gone /\ E.shredded \subseteq D.shredded
      /\ (pc = "closed" \/ D.granted \subseteq E.granted)
  BY <1>1, EnvParts DEF Env, Envs
<1>3. State' = State
  BY DEF State
<1> HIDE DEF D
<1>4. FileInv(D, file, records)
  BY <1>2 DEF Inv, FileInv
<1>5. \A f, t : ~Destroyed(D, f, t) => ~Destroyed(E, f, t)
  BY <1>2 DEF Destroyed
<1>6. FilesInv(D, snap, file)
  <2>1. ASSUME NEW c, SnapInv(E, c, file) PROVE SnapInv(D, c, file)
    BY <1>5, <2>1 DEF SnapInv
  <2>2. ASSUME NEW c, CkptInv(E, c, file) PROVE CkptInv(D, c, file)
    BY <1>2, <1>5, <2>2 DEF CkptInv
  <2> QED BY <1>2, <2>1, <2>2 DEF Inv, FilesInv
<1>7. ASSUME pc # "closed" PROVE KeyInv(D, State, records)
  <2>1. KeyInv(E, State, records) /\ State.f = file
    BY <1>7, Opened
  <2>2. WriterInv(D, State.w, State.f, records)
    BY <1>2, <2>1 DEF KeyInv, WriterInv
  <2> QED BY <1>4, <2>1, <2>2 DEF KeyInv
<1>8. ASSUME pc \in {"idle", "persist", "publish"} PROVE ProjInv(D, State)
  <2>1. ProjInv(E, State) /\ D.granted \subseteq E.granted
    BY <1>2, <1>8 DEF Inv
  <2>2. \A t : Usable(D, State.w, t) => Usable(E, State.w, t)
    BY <1>2, <2>1 DEF Usable
  <2>3. \A t : Whole(E, State, t) <=> Whole(D, State, t)
    BY <1>2 DEF Whole
  <2> QED BY <1>5, <2>1, <2>2, <2>3 DEF ProjInv
<1> QED BY <1>2, <1>3, <1>4, <1>6, <1>7, <1>8 DEF Inv, D

LEMMA ExpireKeeps ==
  ASSUME Inv, NEW n \in Names, Expire(n)
  PROVE  Inv'
<1>1. granted \subseteq Names /\ shredded \subseteq Nat
  BY EnvParts DEF Inv
<1> QED BY <1>1, EnvironmentKeeps DEF Expire

LEMMA RegrantKeeps ==
  ASSUME Inv, NEW G \in SUBSET Tenants, Regrant(G)
  PROVE  Inv'
<1>1. granted' \subseteq Names /\ shredded \subseteq Nat
  BY EnvParts DEF Inv, Regrant, Names
<1> QED BY <1>1, EnvironmentKeeps DEF Regrant

LEMMA RevokeKeeps ==
  ASSUME Inv, NEW n \in Names, Revoke(n)
  PROVE  Inv'
<1>1. granted \subseteq Names /\ shredded \subseteq Nat
  BY EnvParts DEF Inv
<1>2. file.catalog[n] \in Nat
  <2> DEFINE c == file.catalog
  <2>1. c \in Catalogs /\ n \in DOMAIN c
    BY DEF Inv, FileInv, Files, Revoke
  <2> HIDE DEF c
  <2>2. c[n] \in Nat
    BY <2>1, CatalogParts
  <2> QED BY <2>2 DEF c
<1> QED BY <1>1, <1>2, EnvironmentKeeps DEF Revoke

-----------------------------------------------------------------------------
(* A compacted log has a page and a new DEK for each live tenant, and all  *)
(* other Action ids in its checkpoint.                                     *)

LEMMA ListedOnce ==
  ASSUME NEW S, IsFiniteSet(S), NEW live \in SetToSeqs(S)
  PROVE  /\ live \in Seq(S) /\ DOMAIN live = 1..Len(live) /\ Range(live) = S
         /\ \A i, j \in 1..Len(live) : live[i] = live[j] => i = j
<1> DEFINE n == Cardinality(S)
<1>1. n \in Nat
  BY FS_CardinalityType
<1>2. live \in [1..n -> S] /\ \A i, j \in 1..n : i # j => live[i] # live[j]
  BY DEF SetToSeqs
<1> HIDE DEF n
<1>3. live \in Seq(S)
  BY <1>1, <1>2, SeqDef
<1>4. live \in Injection(1..n, S)
  BY <1>2 DEF Injection, IsInjective
<1>5. IsFiniteSet(1..n) /\ Cardinality(1..n) = n
  BY <1>1, FS_Interval
<1>6. live \in Surjection(1..n, S)
  BY <1>4, <1>5, FS_Injection DEF n
<1>7. Range(live) = S
  BY <1>2, <1>6 DEF Surjection, Range
<1>8. Len(live) = n
  BY <1>1, <1>2
<1> QED BY <1>2, <1>3, <1>7, <1>8

CompactedPage(t, dek, r) == [tenant |-> t, dek |-> dek, recs |-> <<r>>]
CompactedPages(live, deks, rows) ==
  [i \in DOMAIN live |-> CompactedPage(live[i], deks[live[i]], rows[live[i]])]

(* The pages of the tenants that are listed, one each.                     *)
LEMMA CompactedIs ==
  ASSUME NEW N \in Nat, NEW live \in Seq(Tenants), NEW deks \in Catalogs, NEW rows \in [Tenants -> Nat],
         NEW pages, pages = CompactedPages(live, deks, rows),
         Range(live) \subseteq DOMAIN deks, \A t \in Range(live) : rows[t] \in 1..N
  PROVE  /\ pages \in Seq(SealedPages) /\ Len(pages) = Len(live)
         /\ SealedBy(pages, deks, N)
         /\ \A t \in Range(live) : On(pages, t) = {rows[t]}
         /\ \A t \in Tenants \ Range(live) : On(pages, t) = {}
<1> DEFINE n == Len(live)
<1>1. n \in Nat /\ DOMAIN live = 1..n /\ live \in [1..n -> Tenants]
  BY LenProperties
<1>2. \A i \in 1..n : live[i] \in Range(live) /\ live[i] \in Tenants
  BY <1>1 DEF Range
<1>3. \A t \in Range(live) : \E i \in 1..n : live[i] = t
  BY <1>1 DEF Range
<1> HIDE DEF n
<1>4. ASSUME NEW i \in 1..n
      PROVE  /\ pages[i].tenant = live[i] /\ pages[i].dek = deks[live[i]]
             /\ pages[i].recs = <<rows[live[i]]>> /\ Range(pages[i].recs) = {rows[live[i]]}
             /\ pages[i] \in SealedPages
  <2> DEFINE t == live[i]
             r == rows[t]
             k == deks[t]
  <2>1. t \in Names /\ r \in Nat /\ k \in Nat
    <3>1. t \in Tenants /\ t \in DOMAIN deks
      BY <1>2
    <3> QED BY <3>1, CatalogParts DEF Names
  <2>2. pages[i] = CompactedPage(t, k, r)
    BY <1>1 DEF CompactedPages
  <2> HIDE DEF t, r, k
  <2> DEFINE q == <<r>>
             page == CompactedPage(t, k, r)
  <2>3. q \in Seq(Nat) /\ Range(q) = {r}
    BY <2>1, RangeOne
  <2>4. page = [tenant |-> t, dek |-> k, recs |-> q]
    BY DEF CompactedPage
  <2>5. q = <<r>> /\ t \in Tenants
    BY <1>2 DEF t
  <2> HIDE DEF q, page
  <2>6. page \in SealedPages
    BY <2>1, <2>3, <2>4, <2>5 DEF SealedPages
  <2>7. page.tenant = t /\ page.dek = k /\ page.recs = q
    BY <2>4
  <2>8. pages[i] = page
    BY <2>2 DEF page
  <2>9. pages[i].tenant = t /\ pages[i].dek = k /\ pages[i].recs = <<r>>
        /\ Range(pages[i].recs) = {r} /\ pages[i] \in SealedPages
    BY <2>3, <2>5, <2>6, <2>7, <2>8
  <2> QED BY ONLY <2>9 DEF t, r, k
<1>5. pages \in [1..n -> SealedPages]
  BY <1>1, <1>4 DEF CompactedPages
<1>6. pages \in Seq(SealedPages) /\ Len(pages) = n
  BY <1>1, <1>5, SeqDef
<1>7. SealedBy(pages, deks, N)
  <2> SUFFICES ASSUME NEW i \in 1..n
               PROVE  /\ pages[i].tenant \in DOMAIN deks /\ pages[i].dek = deks[pages[i].tenant]
                      /\ Range(pages[i].recs) \subseteq 1..N
    BY <1>6 DEF SealedBy
  <2> DEFINE t == live[i]
             r == rows[t]
  <2>1. t \in DOMAIN deks /\ r \in 1..N
    BY <1>2
  <2>2. pages[i].tenant = t /\ pages[i].dek = deks[t] /\ Range(pages[i].recs) = {r}
    BY <1>4
  <2> HIDE DEF t, r
  <2> QED BY <2>1, <2>2
<1>8. \A t, x : x \in On(pages, t) <=> \E i \in 1..n : live[i] = t /\ x = rows[live[i]]
  <2> TAKE t, x
  <2>1. x \in On(pages, t) <=>
          \E i \in 1..Len(pages) : pages[i].tenant = t /\ x \in Range(pages[i].recs)
    BY ONLY <1>6, OnIs
  <2>2. x \in On(pages, t) <=> \E i \in 1..n : pages[i].tenant = t /\ x \in Range(pages[i].recs)
    BY <1>6, <2>1
  <2>3. \A i \in 1..n : /\ pages[i].tenant = t <=> live[i] = t
                        /\ x \in Range(pages[i].recs) <=> x = rows[live[i]]
    <3> TAKE i \in 1..n
    <3>1. pages[i].tenant = live[i] /\ Range(pages[i].recs) = {rows[live[i]]}
      BY <1>4
    <3> QED BY ONLY <3>1
  <2> QED BY <2>2, <2>3
<1>9. \A t \in Range(live) : On(pages, t) = {rows[t]}
  BY <1>3, <1>8
<1>10. \A t \in Tenants \ Range(live) : On(pages, t) = {}
  BY <1>2, <1>8
<1> QED BY <1>6, <1>7, <1>9, <1>10 DEF n

(* The compacted log is what the projection of a complete process says.    *)
LEMMA CompactedFiles ==
  ASSUME NEW N \in Nat, NEW E \in Envs, NEW p \in Projs, NEW deks \in Catalogs, NEW live \in Seq(Tenants),
         Range(live) = Live(p), DOMAIN deks = {StoreKey} \cup Range(live),
         \A t \in Live(p) : p.rows[t] \in 1..N /\ (Faults = {} => p.rows[t] \in p.acts[t]),
         \A t \in Tenants : E.gone[t] = p.acts[t] \ {p.rows[t]},
         NEW pages, pages = CompactedPages(live, deks, p.rows),
         NEW f, f = [catalog |-> deks, pages |-> pages],
         NEW sn, sn = [joins |-> NoFile, ckpt |-> Sealed(p, deks, Len(live))]
  PROVE  FileInv(E, f, N) /\ FilesInv(E, sn, f) /\ PairInv(sn, FALSE)
<1> DEFINE k == Len(live)
           c == Sealed(p, deks, k)
           rows == p.rows
<1>1. k \in Nat /\ rows \in [Tenants -> Nat] /\ p.acts \in [Tenants -> SUBSET Nat]
  BY LenProperties DEF Projs
<1>2. /\ pages \in Seq(SealedPages) /\ Len(pages) = k /\ SealedBy(pages, deks, N)
      /\ \A t \in Range(live) : On(pages, t) = {rows[t]}
      /\ \A t \in Tenants \ Range(live) : On(pages, t) = {}
  <2>1. \A t \in Range(live) : rows[t] \in 1..N
    OBVIOUS
  <2>2. pages = CompactedPages(live, deks, rows) /\ N \in Nat /\ live \in Seq(Tenants)
        /\ deks \in Catalogs /\ Range(live) \subseteq DOMAIN deks
    OBVIOUS
  <2> HIDE DEF rows, k
  <2>3. /\ pages \in Seq(SealedPages) /\ Len(pages) = Len(live) /\ SealedBy(pages, deks, N)
        /\ \A t \in Range(live) : On(pages, t) = {rows[t]}
        /\ \A t \in Tenants \ Range(live) : On(pages, t) = {}
    BY ONLY <1>1, <2>1, <2>2, CompactedIs
  <2> QED BY <2>3 DEF k
<1>3. /\ c \in Snapshots /\ c # NoFile /\ c.stamp = k /\ c.key = deks[StoreKey]
      /\ DOMAIN c.parts = Live(p) /\ \A t \in Live(p) : c.parts[t].dek = deks[t]
      /\ \A t \in Tenants : PartRow(c, t) = p.rows[t] /\ PartAct(c, t) = p.acts[t]
  <2>1. c = Sealed(p, deks, k) /\ Live(p) \cup {StoreKey} \subseteq DOMAIN deks
        /\ p \in Projs /\ deks \in Catalogs
    OBVIOUS
  <2> HIDE DEF c, k
  <2> QED BY ONLY <1>1, <2>1, SealedShape
<1>4. f.catalog = deks /\ f.pages = pages /\ sn.joins = NoFile /\ sn.ckpt = c
      /\ sn = [joins |-> sn.joins, ckpt |-> sn.ckpt]
  OBVIOUS
<1> HIDE DEF c, k
<1>5. UpTo(f.pages, c.stamp) = pages
  <2>1. k \in 0..Len(pages) /\ k = Len(pages)
    BY <1>1, <1>2
  <2>2. UpTo(pages, k) = pages
    BY ONLY <1>2, <2>1, OnParts
  <2> QED BY <1>3, <1>4, <2>2
<1>6. \A t \in Tenants : t \notin Live(p) <=> p.rows[t] = 0 /\ p.acts[t] = {}
  BY NotLive
<1>7. f \in Files
  BY <1>2 DEF Files
<1>8. FileInv(E, f, N)
  <2>1. \A t \in Tenants : E.gone[t] # {} => t \in DOMAIN deks /\ On(pages, t) # {}
    BY <1>2, <1>6
  <2> QED BY <1>2, <1>4, <1>7, <2>1 DEF FileInv
<1>9. \A t \in Tenants : IsLast(PartRow(c, t), On(pages, t))
  <2> SUFFICES ASSUME NEW t \in Tenants PROVE IsLast(p.rows[t], On(pages, t))
    BY <1>3
  <2>1. CASE t \in Live(p)
    <3>1. On(pages, t) = {p.rows[t]} /\ p.rows[t] \in Nat
      BY <1>1, <1>2, <2>1
    <3> QED BY <3>1 DEF IsLast
  <2>2. CASE t \notin Live(p)
    <3>1. On(pages, t) = {} /\ p.rows[t] = 0
      BY <1>2, <1>6, <2>2
    <3> QED BY <3>1 DEF IsLast
  <2> QED BY <2>1, <2>2
<1>10. SnapInv(E, c, f)
  <2>1. c.stamp <= Len(f.pages) /\ c.key = f.catalog[StoreKey]
    BY <1>1, <1>2, <1>3, <1>4
  <2>2. \A t \in DOMAIN c.parts : t \in DOMAIN f.catalog /\ c.parts[t].dek = f.catalog[t]
    BY <1>3, <1>4
  <2> QED BY <1>3, <1>5, <1>9, <2>1, <2>2 DEF SnapInv
<1>11. CkptInv(E, c, f)
  <2> SUFFICES ASSUME NEW t \in Tenants
               PROVE  /\ p.acts[t] \subseteq On(pages, t) \cup E.gone[t]
                      /\ Faults = {} => On(pages, t) \cup E.gone[t] \subseteq p.acts[t]
    BY <1>3, <1>5 DEF CkptInv
  <2>1. CASE t \in Live(p)
    BY <1>2, <2>1
  <2>2. CASE t \notin Live(p)
    BY <1>2, <1>6, <2>2
  <2> QED BY <2>1, <2>2
<1>12. FilesInv(E, sn, f)
  BY <1>3, <1>4, <1>10, <1>11 DEF FilesInv, SnapInv
<1> QED BY <1>4, <1>8, <1>12 DEF PairInv

(* Whom a process that compacts serves: nobody is withheld, so everybody   *)
(* of whom it has anything has a row.                                      *)
LEMMA ClaimedIsWhole ==
  ASSUME Env \in Envs, NEW N, NEW s, NEW v, NEW e, Good(Env, s, N), Ready(s), Revalidation(v, s), v.ok,
         v.s.w.withheld = {}, e = Claimed(v.s)
  PROVE  /\ e \in States /\ e.p.rows = v.s.p.rows
         /\ \A t \in Live(e.p) : /\ e.p.rows[t] # 0 /\ e.p.rows[t] \in 1..N
                                 /\ Faults = {} => e.p.rows[t] \in e.p.acts[t]
<1>1. s \in States /\ N \in Nat
  BY DEF Good, KeyInv
<1>2. /\ Good(Env, v.s, N) /\ v.s.w.page = s.w.page /\ v.s.w.pending = s.w.pending
      /\ v.s.w.failed = s.w.failed /\ Fresh(v.s.w)
      /\ \A t \in Tenants \cap (v.s.w.revoked \cup v.s.w.withheld) : t \notin Live(v.s.p)
  BY RevalidateKeeps
<1>3. v.s \in States /\ FileInv(Env, v.s.f, N) /\ KeyInv(Env, v.s, N)
  BY <1>2 DEF Good, KeyInv
<1>4. /\ LearnedIs(e, v.s)
      /\ \A t \in Tenants : t \notin With(v.s.f.catalog, "ready") => e.p.acts[t] = v.s.p.acts[t]
  BY <1>1, <1>3, ClaimedShape
<1>5. Good(Env, e, N)
  BY <1>2, <1>4, LearnedKeeps
<1>6. /\ e \in States /\ KeyInv(Env, e, N) /\ e.w = v.s.w /\ e.f = v.s.f /\ e.p.rows = v.s.p.rows
      /\ Ready(e) /\ e.p \in Projs /\ v.s.p \in Projs
  BY <1>2, <1>3, <1>4, <1>5, StateParts DEF Good, KeyInv, LearnedIs, Ready, HasPending
<1>7. /\ Live(e.p) \subseteq DOMAIN e.w.catalog
      /\ \A t \in Tenants : Usable(Env, e.w, t) => Whole(Env, e, t)
  BY <1>5, <1>6 DEF Good, ProjInv, Ready
<1>8. ASSUME NEW t \in Live(e.p)
      PROVE  /\ e.p.rows[t] # 0 /\ e.p.rows[t] \in 1..N
             /\ Faults = {} => e.p.rows[t] \in e.p.acts[t]
  <2>1. t \in Tenants /\ t \in DOMAIN e.w.catalog
    BY <1>7 DEF Live
  <2>2. t \notin e.w.revoked
    <3> SUFFICES ASSUME t \in e.w.revoked PROVE FALSE
      OBVIOUS
    <3>1. t \notin Live(v.s.p)
      BY <1>2, <1>6, <2>1
    <3>2. e.p.acts[t] # v.s.p.acts[t]
      BY <1>6, <2>1, <3>1, NotLive
    <3>3. t \in DOMAIN e.f.catalog /\ e.f.catalog[t] \notin shredded
      BY <1>4, <1>6, <2>1, <3>2, WithIs
    <3>4. e.w.catalog[t] = e.f.catalog[t] /\ e.w.catalog[t] \in shredded
      BY <1>6, <2>1, <3>3, EnvParts DEF KeyInv, WriterInv, Extends
    <3> QED BY <3>3, <3>4
  <2>3. Whole(Env, e, t)
    <3>1. t \in granted /\ e.w.catalog[t] \notin shredded
      BY <1>2, <1>6, <2>1, <2>2 DEF Fresh
    <3> QED BY <1>6, <1>7, <2>1, <2>2, <3>1, EnvParts DEF Usable
  <2>4. Recs(e, t) \subseteq 1..N /\ Recs(e, t) = On(e.f.pages, t)
    BY <1>6, <2>1, RecsIn DEF Ready
  <2>5. Env.gone[t] # {} => On(e.f.pages, t) # {}
    BY <1>6, <2>1 DEF KeyInv, FileInv
  <2>6. /\ IsLast(e.p.rows[t], Recs(e, t))
        /\ e.p.acts[t] \subseteq Recs(e, t) \cup Env.gone[t]
        /\ Faults = {} => Recs(e, t) \subseteq e.p.acts[t]
    BY <1>6, <2>3 DEF Whole
  <2>7. e.p.rows[t] # 0
    <3> SUFFICES ASSUME e.p.rows[t] = 0 PROVE FALSE
      OBVIOUS
    <3>1. e.p.acts[t] # {}
      BY <1>6, <2>1, NotLive
    <3>2. PICK x \in Recs(e, t) : TRUE
      BY <2>4, <2>5, <2>6, <3>1
    <3>3. x \in 1..N /\ x <= 0
      BY <2>4, <2>6, <3>2 DEF IsLast
    <3> QED BY <1>1, <3>3
  <2>8. e.p.rows[t] \in Recs(e, t)
    BY <2>6, <2>7 DEF IsLast
  <2> QED BY <2>4, <2>6, <2>7, <2>8
<1> QED BY <1>6, <1>8

LEMMA CompactKeeps ==
  ASSUME Inv, Compact
  PROVE  Inv'
<1> DEFINE v == Revalidate(State)
           e == Claimed(v.s)
           p == e.p
           L == {t \in Tenants : p.rows[t] # 0}
           N == records
<1>1. Good(Env, State, N) /\ State \in States /\ Env \in Envs /\ N \in Nat /\ minted \in Nat
      /\ State.w = writer /\ Ready(State)
  BY Opened DEF Compact, Ready
<1>2. Revalidation(v, State)
  BY <1>1, RevalidateIs
<1>3. /\ v.ok /\ v.s.w.withheld = {}
      /\ gone' = [t \in Tenants |-> p.acts[t] \ {p.rows[t]}]
      /\ Stop /\ UNCHANGED <<granted, shredded, records, answer>>
  BY DEF Compact
<1>4. PICK live \in SetToSeqs(L) :
        LET deks == [n \in {StoreKey} \cup Range(live) |-> minted + 1 +
                       IF n = StoreKey THEN 0 ELSE CHOOSE i \in DOMAIN live : live[i] = n]
            page(i) == [tenant |-> live[i], dek |-> deks[live[i]],
                        recs |-> <<p.rows[live[i]]>>]
        IN /\ file' = [catalog |-> deks, pages |-> [i \in DOMAIN live |-> page(i)]]
           /\ snap' = [joins |-> NoFile, ckpt |-> Sealed(p, deks, Len(live))]
           /\ minted' = minted + 1 + Len(live)
  BY DEF Compact
<1> DEFINE deks == [n \in {StoreKey} \cup Range(live) |-> minted + 1 +
                      IF n = StoreKey THEN 0 ELSE CHOOSE i \in DOMAIN live : live[i] = n]
           pages == CompactedPages(live, deks, p.rows)
<1>5. /\ file' = [catalog |-> deks, pages |-> pages]
      /\ snap' = [joins |-> NoFile, ckpt |-> Sealed(p, deks, Len(live))]
      /\ minted' = minted + 1 + Len(live)
  BY <1>4 DEF CompactedPages, CompactedPage
<1> HIDE DEF v
<1>6. /\ e \in States
      /\ \A t \in Live(p) : /\ p.rows[t] # 0 /\ p.rows[t] \in 1..N
                            /\ Faults = {} => p.rows[t] \in p.acts[t]
  <2>1. e = Claimed(v.s)
    OBVIOUS
  <2> HIDE DEF e
  <2> QED BY <1>1, <1>2, <1>3, <2>1, ClaimedIsWhole
<1> HIDE DEF e
<1>7. p \in Projs /\ p.rows \in [Tenants -> Nat] /\ p.acts \in [Tenants -> SUBSET Nat]
  BY <1>6, StateParts
<1> HIDE DEF p
<1>8. L = Live(p)
  BY <1>6 DEF Live
<1>9. IsFiniteSet(L) /\ L \subseteq Tenants
  BY BoundAssumption, FS_Subset
<1> HIDE DEF L
<1>10. live \in Seq(L) /\ DOMAIN live = 1..Len(live) /\ Range(live) = L /\ Len(live) \in Nat
  <2>1. live \in Seq(L) /\ DOMAIN live = 1..Len(live) /\ Range(live) = L
    BY <1>4, <1>9, ListedOnce
  <2> QED BY <2>1, LenProperties
<1>11. live \in Seq(Tenants)
  BY <1>9, <1>10, SeqDef
<1>12. DOMAIN deks = {StoreKey} \cup Range(live) /\ deks \in Catalogs
  <2>1. \A n \in Range(live) : (CHOOSE i \in DOMAIN live : live[i] = n) \in Nat
    <3> TAKE n \in Range(live)
    <3>1. \E i \in DOMAIN live : live[i] = n
      BY DEF Range
    <3>2. (CHOOSE i \in DOMAIN live : live[i] = n) \in DOMAIN live
      BY <3>1
    <3> QED BY <1>10, <3>2
  <2>2. \A n \in {StoreKey} \cup Range(live) :
          minted + 1 + (IF n = StoreKey THEN 0 ELSE CHOOSE i \in DOMAIN live : live[i] = n) \in Nat
    <3> TAKE n \in {StoreKey} \cup Range(live)
    <3> DEFINE k == IF n = StoreKey THEN 0 ELSE CHOOSE i \in DOMAIN live : live[i] = n
    <3>1. k \in Nat
      BY <2>1
    <3> HIDE DEF k
    <3>2. minted + 1 + k \in Nat
      BY <1>1, <3>1
    <3> QED BY <3>2 DEF k
  <2>3. deks \in [{StoreKey} \cup Range(live) -> Nat]
    BY <2>2
  <2>4. {StoreKey} \cup Range(live) \in SUBSET Names
    BY <1>9, <1>10 DEF Names
  <2> QED BY <2>3, <2>4 DEF Catalogs
<1> HIDE DEF deks, pages
<1> DEFINE E == Env'
           f == file'
           sn == snap'
<1>13. E \in Envs /\ \A t \in Tenants : E.gone[t] = p.acts[t] \ {p.rows[t]}
  <2>1. granted \subseteq Names /\ shredded \subseteq Nat
    BY <1>1, EnvParts
  <2>2. gone' \in [Tenants -> SUBSET Nat] /\ \A t \in Tenants : gone'[t] = p.acts[t] \ {p.rows[t]}
    BY <1>3, <1>7
  <2>3. E = [granted |-> granted, shredded |-> shredded, gone |-> gone']
    BY <1>3 DEF Env
  <2> QED BY <2>1, <2>2, <2>3 DEF Envs
<1>14. f = [catalog |-> deks, pages |-> pages]
       /\ sn = [joins |-> NoFile, ckpt |-> Sealed(p, deks, Len(live))]
  BY <1>5
<1>15. pages = CompactedPages(live, deks, p.rows)
  BY DEF pages
<1> HIDE DEF E, f, sn
<1>16. FileInv(E, f, N) /\ FilesInv(E, sn, f) /\ PairInv(sn, FALSE)
  BY <1>1, <1>6, <1>7, <1>8, <1>10, <1>11, <1>12, <1>13, <1>14, <1>15, CompactedFiles
<1>17. records' = N /\ minted' \in Nat
  BY <1>1, <1>3, <1>5, <1>10
<1> QED BY <1>1, <1>3, <1>13, <1>16, <1>17, Stops DEF E, f, sn

-----------------------------------------------------------------------------
(* The invariant holds.                                                    *)

LEMMA InitInv ==
  ASSUME Init
  PROVE  Inv
<1> DEFINE c == [n \in {StoreKey} |-> 1]
           none == <<>>
           w == [LoadedWriter EXCEPT !.withheld = {}]
<1>1. /\ granted = Names /\ shredded = {} /\ minted = 1 /\ records = 0
      /\ file = [catalog |-> c, pages |-> none]
      /\ snap = [joins |-> NoFile, ckpt |-> NoFile]
      /\ writer = w /\ proj = NoProj /\ gone = NoActs
      /\ pc = "idle" /\ job = "commit"
  BY DEF Init
<1>2. Env \in Envs /\ Env.granted = Names /\ Env.shredded = {} /\ \A t \in Tenants : Env.gone[t] = {}
  BY <1>1 DEF Env, Envs, NoActs
<1>3. c \in Catalogs /\ DOMAIN c = {StoreKey}
  <2>1. c \in [{StoreKey} -> Nat] /\ {StoreKey} \in SUBSET Names
    BY DEF Names
  <2> QED BY <2>1 DEF Catalogs
<1>4. none \in Seq(SealedPages) /\ Len(none) = 0 /\ \A t : On(none, t) = {}
  BY EmptySeq, OnEmpty
<1>5. SealedBy(none, c, 0)
  BY SealedNone
<1> HIDE DEF c, none
<1>6. file.catalog = c /\ file.pages = none /\ file \in Files
  BY <1>1, <1>3, <1>4 DEF Files
<1>7. FileInv(Env, file, records)
  BY <1>1, <1>2, <1>3, <1>5, <1>6 DEF FileInv
<1>8. FilesInv(Env, snap, file) /\ PairInv(snap, FALSE) /\ PairInv(snap, pc = "publish")
  <2>1. snap.joins = NoFile /\ snap.ckpt = NoFile /\ snap = [joins |-> snap.joins, ckpt |-> snap.ckpt]
    BY <1>1
  <2> QED BY <1>2, <2>1 DEF FilesInv, SnapInv, CkptInv, PairInv
<1>9. WriterInv(Env, LoadedWriter, file, records) /\ ~HasPending(LoadedWriter)
      /\ LoadedWriter.failed = FALSE
  BY <1>1, <1>2, <1>7, LoadedIs
<1>10. LoadedWriter.catalog = c /\ LoadedWriter.withheld = {} /\ LoadedWriter \in Writers
  <2>1. LoadedWriter.catalog = c /\ LoadedWriter.withheld = With(c, "withheld")
    BY <1>6 DEF LoadedWriter
  <2>2. With(c, "withheld") = {}
    <3>1. \A n \in DOMAIN c : n \in granted
      BY <1>1, <1>3 DEF Names
    <3> QED BY <3>1, WithIs DEF With
  <2> QED BY <1>9, <2>1, <2>2 DEF WriterInv
<1>11. w = LoadedWriter
  BY <1>10 DEF Writers
<1> HIDE DEF w
<1>12. writer = LoadedWriter
  BY <1>1, <1>11
<1>13. proj \in Projs /\ \A t \in Tenants : proj.rows[t] = 0 /\ proj.acts[t] = {}
  BY <1>1 DEF NoProj, NoRows, NoActs, Projs
<1>14. proj.fromLog = TRUE /\ proj.hasCkpt = FALSE /\ proj.dirty = FALSE
  BY <1>1 DEF NoProj
<1>15. State \in States /\ State.w = writer /\ State.p = proj /\ State.f = file
  <2>1. writer \in Writers /\ minted \in Nat
    BY <1>1, <1>10, <1>12
  <2> QED BY <1>6, <1>13, <2>1 DEF State, States
<1>16. KeyInv(Env, State, records) /\ Ready(State)
  BY <1>1, <1>7, <1>9, <1>12, <1>15 DEF KeyInv, Ready
<1>17. ProjInv(Env, State)
  <2>1. Live(proj) = {}
    BY <1>13 DEF Live
  <2>2. ASSUME NEW t \in Tenants PROVE Whole(Env, State, t)
    <3>1. Recs(State, t) = {}
      <4>1. Recs(State, t) = On(State.f.pages, t)
        BY <1>16, RecsIn DEF Ready
      <4> QED BY <1>4, <1>6, <1>15, <4>1
    <3>2. State.p.rows[t] = 0 /\ State.p.acts[t] = {}
      BY <1>13, <1>15
    <3> QED BY <1>2, <3>1, <3>2 DEF Whole, IsLast
  <2> QED BY <1>14, <1>15, <1>16, <2>1, <2>2 DEF ProjInv, Ready
<1>18. PcInv(pc, job, State, snap)
  BY <1>1 DEF PcInv
<1>19. records \in Nat /\ minted \in Nat
  BY <1>1
<1> QED BY <1>2, <1>7, <1>8, <1>13, <1>16, <1>17, <1>18, <1>19 DEF Inv

LEMMA StutterKeeps ==
  ASSUME Inv, UNCHANGED vars
  PROVE  Inv'
<1>1. Env' = Env /\ State' = State
  BY DEF vars, Env, State
<1> QED BY <1>1 DEF vars, Inv

LEMMA NextKeeps ==
  ASSUME Inv, Next
  PROVE  Inv'
<1>1. CASE \E t \in Tenants : AppendOne(t) \/ SplitCommit(t)
  BY <1>1, AppendOneKeeps, SplitCommitKeeps
<1>2. CASE \E t, u \in Tenants : Batch(t, u)
  BY <1>2, BatchKeeps
<1>3. CASE Commit \/ TakeCheckpoint \/ Compact \/ Close
  BY <1>3, CommitKeeps, TakeCheckpointKeeps, CompactKeeps, CloseKeeps
<1>4. CASE Persist \/ Publish \/ PersistIoFails
  BY <1>4, PersistKeeps, PublishKeeps, PersistIoFailsKeeps
<1>5. CASE Open \/ Install \/ Crash
  BY <1>5, OpenKeeps, InstallStepKeeps, CrashKeeps
<1>6. CASE \E n \in Names : Expire(n) \/ Revoke(n)
  BY <1>6, ExpireKeeps, RevokeKeeps
<1>7. CASE \E G \in SUBSET Tenants : Regrant(G)
  BY <1>7, RegrantKeeps
<1> QED BY <1>1, <1>2, <1>3, <1>4, <1>5, <1>6, <1>7 DEF Next

(* What the files say of the keys is what every process assumed when it    *)
(* read them and leaves true when it writes them, in every step of every   *)
(* call, with grants that expire and keys that are destroyed in between.   *)
THEOREM KeyInvariant == Spec => []Inv
<1>1. Init => Inv
  BY InitInv
<1>2. Inv /\ [Next]_vars => Inv'
  BY NextKeeps, StutterKeeps
<1> QED BY <1>1, <1>2, PTL DEF Spec

-----------------------------------------------------------------------------
(* What it means for a reader.                                             *)

(* Every page and every part of a snapshot is sealed with the one DEK that *)
(* the catalog on the disk names for its tenant.                           *)
THEOREM KeysSealedByTheCatalog == Spec => []SealedByTheCatalog
<1>1. Inv => SealedByTheCatalog
  <2> SUFFICES ASSUME Inv PROVE SealedByTheCatalog
    OBVIOUS
  <2>1. FileInv(Env, file, records) /\ FilesInv(Env, snap, file)
    BY DEF Inv
  <2>2. DOMAIN file.pages = 1..Len(file.pages)
    <3> DEFINE a == file.pages
    <3>1. a \in Seq(SealedPages)
      BY <2>1 DEF FileInv, Files
    <3> HIDE DEF a
    <3>2. DOMAIN a = 1..Len(a)
      BY <3>1, LenProperties
    <3> QED BY <3>2 DEF a
  <2>3. \A i \in DOMAIN file.pages :
          /\ file.pages[i].tenant \in DOMAIN file.catalog
          /\ file.pages[i].dek = file.catalog[file.pages[i].tenant]
    BY <2>1, <2>2 DEF FileInv, SealedBy
  <2>4. \A c : SnapInv(Env, c, file) /\ c # NoFile =>
          /\ c.key = file.catalog[StoreKey]
          /\ \A t \in DOMAIN c.parts : t \in DOMAIN file.catalog /\ c.parts[t].dek = file.catalog[t]
    BY DEF SnapInv
  <2>5. \A c \in {snap.joins, snap.ckpt} : SnapInv(Env, c, file)
    BY <2>1 DEF FilesInv
  <2> QED BY <2>3, <2>4, <2>5 DEF SealedByTheCatalog
<1> QED BY <1>1, KeyInvariant, PTL

(* A tenant that a process serves is served whole, however often the       *)
(* provider changed its mind since the store was opened.                   *)
THEOREM KeysServedIsTheLog == Spec => []ServedIsTheLog
<1>1. Inv => ServedIsTheLog
  <2> SUFFICES ASSUME Inv, pc = "idle", ~writer.failed, NEW t \in Tenants, KeyUsable(t)
               PROVE  proj.rows[t] = Max({0} \cup On(file.pages, t) \cup On(writer.pending, t)
                                \cup (IF writer.page.tenant = t THEN Range(writer.page.recs) ELSE {}))
    BY DEF ServedIsTheLog
  <2>1. /\ KeyInv(Env, State, records) /\ Env \in Envs /\ ProjInv(Env, State)
        /\ State.w = writer /\ State.p = proj /\ State.f = file /\ records \in Nat
    BY Opened DEF Good
  <2>2. Usable(Env, State.w, t)
    BY <2>1, EnvParts, StatusIs DEF KeyUsable, Usable
  <2>3. IsLast(proj.rows[t], Recs(State, t))
    BY <2>1, <2>2 DEF ProjInv, Whole
  <2> DEFINE R == Recs(State, t)
             r == proj.rows[t]
  <2>4. R \subseteq Nat
    <3>1. R \subseteq 1..records
      BY <2>1, RecsIn
    <3> QED BY <2>1, <3>1
  <2> HIDE DEF R, r
  <2>5. IsLast(r, R)
    BY <2>3 DEF R, r
  <2>6. Max({0} \cup R) = r
    BY <2>4, <2>5, LastIsMax
  <2>7. {0} \cup R = {0} \cup On(file.pages, t) \cup On(writer.pending, t)
                         \cup (IF writer.page.tenant = t THEN Range(writer.page.recs) ELSE {})
    BY <2>1 DEF R, Recs, OnPage
  <2> QED BY <2>6, <2>7 DEF r
<1> QED BY <1>1, KeyInvariant, PTL

(* Where no stop or error falls between the two snapshot files, a process  *)
(* with every grant installs each tenant whose key lives whole, with the   *)
(* Action ids that only the checkpoint of a compacted log still has.       *)
THEOREM KeySnapshotsComplete ==
  ASSUME Faults = {}
  PROVE  Spec => []SnapshotsComplete
<1>1. Inv => SnapshotsComplete
  <2> DEFINE S == {n \in DOMAIN file.catalog : file.catalog[n] \notin shredded}
             d == Only(file.catalog, S)
             i == Installed(file.pages, d, S)
  <2> SUFFICES ASSUME Inv, StoreKey \in S, NEW t \in S \ {StoreKey}
               PROVE  /\ i.rows[t] = Max({0} \cup On(file.pages, t))
                      /\ i.acts[t] \cup (IF i.fromLog THEN {} ELSE On(file.pages, t))
                           = On(file.pages, t) \cup gone[t]
    BY DEF SnapshotsComplete
  <2> DEFINE f == file
             c == file.catalog
             N == records
  <2>1. /\ FileInv(Env, f, N) /\ FilesInv(Env, snap, f) /\ Env \in Envs /\ N \in Nat
        /\ Env.gone = gone /\ Env.shredded = shredded
    BY EnvParts DEF Inv
  <2>2. c \in Catalogs /\ StoreKey \in DOMAIN c /\ f.pages \in Seq(SealedPages)
    BY <2>1 DEF FileInv, Files
  <2>3. DOMAIN d = S /\ \A n \in S : d[n] = c[n]
    <3>1. S \subseteq DOMAIN c /\ d = Only(c, S)
      OBVIOUS
    <3> HIDE DEF S, d, c
    <3>2. DOMAIN Only(c, S) = DOMAIN c \cap S /\ \A n \in DOMAIN c \cap S : Only(c, S)[n] = c[n]
      BY <2>2, OnlyIs
    <3> QED BY <3>1, <3>2
  <2>4. t \in Tenants /\ t \in S /\ t \in DOMAIN c /\ ~Destroyed(Env, f, t)
    BY <2>1, <2>2, CatalogParts DEF Names, Destroyed
  <2>5. \A u \in S : u \in DOMAIN c /\ ~Destroyed(Env, f, u)
    BY <2>1 DEF Destroyed
  <2>6. S \subseteq DOMAIN c
    OBVIOUS
  <2> HIDE DEF S, d, f
  <2>7. \A x : x # NoFile /\ SnapInv(Env, x, f) => Opens(x, d)
    BY <2>2, <2>3, SnapOpens DEF f
  <2>8. Installable(d) /\ (snap.ckpt # NoFile => CkptOpens(d))
    BY <2>1, <2>7 DEF Installable, FilesInv, CkptOpens
  <2>9. Installs(f, d, S, N)
    BY <2>1, <2>3, <2>5, <2>8 DEF Installs, f
  <2>10. i = Installed(f.pages, d, S)
    BY DEF f
  <2> HIDE DEF i, N
  <2>11. IsLast(i.rows[t], On(f.pages, t))
    BY <2>3, <2>4, <2>9, <2>10, InstalledRows
  <2>12. On(f.pages, t) \subseteq Nat
    <3>1. On(f.pages, t) \subseteq 1..N
      BY <2>1, <2>2, OnSealed DEF FileInv
    <3> QED BY <2>1, <3>1
  <2>13. Max({0} \cup On(f.pages, t)) = i.rows[t]
    BY <2>11, <2>12, LastIsMax
  <2>14. ActsRight(i.acts, f, d, S, t)
    BY <2>4, <2>9, <2>10, InstalledActs
  <2>15. i.fromLog <=> FromLog(d)
    BY <2>10, InstalledHas
  <2>16. /\ i.acts[t] \subseteq On(f.pages, t) \cup gone[t]
         /\ i.fromLog => On(f.pages, t) \cup gone[t] \subseteq i.acts[t]
         /\ ~i.fromLog => gone[t] = {}
    BY ONLY Faults = {}, StoreKey \in S, <2>1, <2>3, <2>4, <2>14, <2>15 DEF ActsRight
  <2>17. i.acts[t] \cup (IF i.fromLog THEN {} ELSE On(f.pages, t)) = On(f.pages, t) \cup gone[t]
    BY ONLY <2>16
  <2> QED BY <2>13, <2>17 DEF f
<1> QED BY <1>1, KeyInvariant, PTL

=============================================================================
