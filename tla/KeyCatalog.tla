---------------------------- MODULE KeyCatalog ----------------------------
(***************************************************************************)
(* The key catalog of an encrypted log (src/src/crypto.rs, the key paths   *)
(* of log.rs, sidecar.rs, checkpoint.rs and store/mod.rs): which data      *)
(* encryption key (DEK) seals which page and which part of a snapshot,     *)
(* what a process that may not unwrap a tenant's key does, and what is     *)
(* left of a tenant whose key is destroyed.                                *)
(*                                                                         *)
(* A DEK is a number.  A tenant has one identity, and a record is a number *)
(* that is its Action id as well: the row of a tenant is its last record.  *)
(* A commit is atomic and a file replaced whole, as LogWriter and Sidecar  *)
(* justify; the previous checkpoint is left out.  The key provider         *)
(* (sekai_keys) is external: it unwraps a DEK unless the grant is missing  *)
(* or expired ("withheld") or the DEK was revoked ("shredded"), and takes  *)
(* nothing back while a process runs.                                      *)
(***************************************************************************)
EXTENDS Integers, SequencesExt

CONSTANTS
  Tenants,
  StoreKey,    \* the catalog name of the store's own DEK
  NoFile,
  PerPage,     \* records on a full page
  GroupSize,   \* group_size of the sync policy
  CatalogRoom, \* tenants whose wrapped DEKs fit in the superblock
  MaxRecords,  \* bound: records written
  MaxDeks,     \* bound: DEKs minted
  Faults       \* "publish": a stop or an error between the two snapshot files

ASSUME BoundAssumption ==
  /\ StoreKey \notin Tenants /\ IsFiniteSet(Tenants)
  /\ PerPage \in Nat \ {0} /\ GroupSize \in Nat \ {0}
  /\ CatalogRoom \in Nat /\ MaxRecords \in Nat /\ MaxDeks \in Nat \ {0}
  /\ Faults \subseteq {"publish"}

ASSUME SnapshotAssumption ==
  NoFile \notin [stamp : Nat, key : Nat,
                 parts : UNION {[S -> [dek : Nat, row : Nat, acts : SUBSET Nat]] : S \in SUBSET Tenants}]

Names == Tenants \cup {StoreKey}

VARIABLES
  granted,   \* names the process holds a valid unwrap grant for
  shredded,  \* DEKs that were revoked
  minted,    \* DEKs minted so far
  records,   \* records written so far
  file,      \* the log: the catalog of its superblock, its committed pages
  snap,      \* the sealed .joins and .ckpt
  writer,    \* catalog, deks, revoked, withheld, the page being filled, pending pages
  proj,      \* rows, Action ids, fromLog, hasCkpt, dirty
  gone,      \* per tenant: Action ids only a compacted log's checkpoint has
  answer,    \* of the last write, with a view to whose key was to blame
  pc,
  job        \* what persists: "commit", "install", "abort" or "close"

vars == <<granted, shredded, minted, records, file, snap, writer, proj, gone, answer, pc, job>>

-----------------------------------------------------------------------------
(* The provider.                                                           *)

(* unwrap_status *)
Status(name, dek) ==
  IF name \notin granted THEN "withheld"
  ELSE IF dek \in shredded THEN "shredded" ELSE "ready"

With(catalog, status) == {n \in DOMAIN catalog : Status(n, catalog[n]) = status}

Only(f, S) == [n \in DOMAIN f \cap S |-> f[n]]
Put(f, n, v) == [x \in DOMAIN f \cup {n} |-> IF x = n THEN v ELSE f[x]]

-----------------------------------------------------------------------------
(* What the pages and the snapshots say to somebody who may read the       *)
(* tenants in S.                                                           *)

NoRows == [t \in Tenants |-> 0]
NoActs == [t \in Tenants |-> {}]

On(pages, t) == UNION {Range(pages[p].recs) : p \in {q \in DOMAIN pages : pages[q].tenant = t}}

(* A page whose tenant has no DEK is skipped (decode_encrypted_page).      *)
Replayed(rows, pages, S) ==
  [t \in Tenants |-> IF t \in S THEN Max({rows[t]} \cup On(pages, t)) ELSE rows[t]]
Learned(acts, pages, S) ==
  [t \in Tenants |-> IF t \in S THEN acts[t] \cup On(pages, t) ELSE acts[t]]

After(pages, stamp) == SubSeq(pages, stamp + 1, Len(pages))

(* open_partitioned: the index opens with the store's DEK, and each part   *)
(* whose tenant has a DEK opens with that; another part is passed over.    *)
Opens(s, deks) ==
  /\ StoreKey \in DOMAIN deks /\ s.key = deks[StoreKey]
  /\ \A t \in DOMAIN s.parts \cap DOMAIN deks : s.parts[t].dek = deks[t]

PartRows(s, deks) ==
  [t \in Tenants |-> IF t \in DOMAIN s.parts \cap DOMAIN deks THEN s.parts[t].row ELSE 0]
PartActs(s, deks) ==
  [t \in Tenants |-> IF t \in DOMAIN s.parts \cap DOMAIN deks THEN s.parts[t].acts ELSE {}]

(* install_projection of an encrypted log: the sidecar, the checkpoint or  *)
(* the log.  The snapshots open with the DEKs of the writer, but the pages *)
(* behind them with those the provider unwraps now, the tenants in S.      *)
Installed(pages, deks, S) ==
  LET joins == snap.joins
      ckpt  == snap.ckpt
      good  == ckpt # NoFile /\ Opens(ckpt, deks)
      from  == IF joins # NoFile THEN joins ELSE ckpt
      base  == IF joins # NoFile \/ good THEN from.stamp ELSE 0
      rows  == IF joins # NoFile \/ good THEN PartRows(from, deks) ELSE NoRows
      acts  == IF good THEN Learned(PartActs(ckpt, deks), After(pages, ckpt.stamp), S)
               ELSE Learned(NoActs, After(pages, base), S)
  IN [rows |-> Replayed(rows, After(pages, base), S), acts |-> acts,
      fromLog |-> good \/ joins = NoFile,
      hasCkpt |-> joins # NoFile /\ joins.stamp = Len(pages), dirty |-> FALSE]

Installable(deks) == snap.joins # NoFile => Opens(snap.joins, deks)

-----------------------------------------------------------------------------
(* The steps of a call, on its part of the state and with its success.     *)

State == [w |-> writer, p |-> proj, f |-> file, n |-> minted]
Ok(s) == [s |-> s, ok |-> TRUE]
Fail(s) == [s |-> s, ok |-> FALSE]

Becomes(s) == writer' = s.w /\ proj' = s.p /\ file' = s.f /\ minted' = s.n

(* drop_revoked_tenants *)
Dropped(p, w) ==
  LET out == w.revoked \cup w.withheld
  IN [p EXCEPT !.rows = [t \in Tenants |-> IF t \in out THEN 0 ELSE @[t]],
               !.acts = [t \in Tenants |-> IF t \in out THEN {} ELSE @[t]]]

(* revalidate_catalog: the store's entry comes first, and nothing is       *)
(* changed when it was revoked.  Who was withheld stays so.                *)
Revalidated(w) ==
  [w EXCEPT !.deks = Only(@, With(w.catalog, "ready")),
            !.withheld = @ \cup With(w.catalog, "withheld"),
            !.revoked = @ \cup With(w.catalog, "shredded")]

StoreShredded(w) == Status(StoreKey, w.catalog[StoreKey]) = "shredded"

Revalidate(s) ==
  IF StoreShredded(s.w) THEN Fail(s)
  ELSE LET w == Revalidated(s.w) IN Ok([s EXCEPT !.w = w, !.p = Dropped(@, w)])

Minted(s, t) ==
  [s EXCEPT !.n = @ + 1, !.w.catalog = Put(@, t, s.n + 1), !.w.deks = Put(@, t, s.n + 1)]

(* ensure_tenant_dek, for a catalog that was revalidated just now.         *)
EnsureDek(s, t) ==
  IF t \in s.w.revoked THEN Fail(s)
  ELSE IF t \in DOMAIN s.w.deks THEN Ok(s)
  ELSE IF t \in s.w.withheld \cup DOMAIN s.w.catalog \/ t \notin granted THEN Fail(s)
  ELSE Ok(Minted(s, t))

(* Mutant of CommitPending: the superblock keeps the catalog it had.       *)
CommitOldCatalog(s) ==
  IF s.w.pending = <<>> THEN Ok(s)
  ELSE Ok([s EXCEPT !.f.pages = @ \o s.w.pending, !.w.pending = <<>>])

(* commit_pending: the pages and the catalog of the writer become the log; *)
(* a catalog that does not fit fails the writer.                           *)
CommitPending(s) ==
  IF s.w.pending = <<>> THEN Ok(s)
  ELSE IF Cardinality(DOMAIN s.w.catalog) > CatalogRoom + 1
  THEN Fail([s EXCEPT !.w.failed = TRUE])
  ELSE Ok([s EXCEPT !.f = [catalog |-> s.w.catalog, pages |-> @.pages \o s.w.pending],
                    !.w.pending = <<>>])

EmptyPage == [tenant |-> StoreKey, recs |-> <<>>]

(* seal_page_body: the tenant is in the clear, the records are not.        *)
SealPage(t, dek, recs) == [tenant |-> t, dek |-> dek, recs |-> recs]

(* flush_page and seal_page_bytes: the page is sealed with the DEK of the  *)
(* tenant that began it, and stays where it is when that is gone.          *)
FlushPage(s, hold) ==
  IF s.w.page.recs = <<>> THEN Ok(s)
  ELSE IF s.w.page.tenant \notin DOMAIN s.w.deks THEN Fail(s)
  ELSE LET t == s.w.page.tenant
           sealed == SealPage(t, s.w.deks[t], s.w.page.recs)
           next == [s EXCEPT !.w.pending = Append(@, sealed), !.w.page = EmptyPage]
       IN IF ~hold /\ Len(next.w.pending) >= GroupSize THEN CommitPending(next) ELSE Ok(next)

(* Mutant of StartsNewPage: a page takes any tenant while it has room.     *)
StartsFullPage(page, t) == page.recs # <<>> /\ Len(page.recs) >= PerPage

(* starts_new_page: a page holds the records of one tenant.                *)
StartsNewPage(page, t) ==
  page.recs # <<>> /\ (page.tenant # t \/ Len(page.recs) >= PerPage)

Buffered(s, t, r) ==
  [s EXCEPT !.w.page = [tenant |-> IF s.w.page.recs = <<>> THEN t ELSE @.tenant,
                        recs |-> Append(@.recs, r)]]

(* append_record *)
AppendRecord(s, t, r, hold) ==
  LET e == EnsureDek(s, t)
      f == IF e.ok /\ StartsNewPage(e.s.w.page, t) THEN FlushPage(e.s, hold) ELSE e
  IN IF f.ok THEN Ok(Buffered(f.s, t, r)) ELSE f

(* An Action id is claimed against the whole catalog (ensure_action_commits) *)
Claimed(s) ==
  IF s.p.fromLog THEN s
  ELSE [s EXCEPT !.p.acts = Learned(@, s.f.pages, With(s.f.catalog, "ready")), !.p.fromLog = TRUE]

(* apply_record *)
ApplyRecord(s, t, r) == [s EXCEPT !.p.rows[t] = r, !.p.acts[t] = @ \cup {r}, !.p.dirty = TRUE]

(* append_uncommitted *)
AppendUncommitted(s, t, r, hold) ==
  LET v == Revalidate(s)
      a == IF s.w.failed THEN Fail(v.s)
           ELSE IF v.ok THEN AppendRecord(Claimed(v.s), t, r, hold) ELSE v
  IN IF a.ok THEN Ok(ApplyRecord(a.s, t, r)) ELSE a

(* flush *)
Flush(s) ==
  LET f == IF s.w.failed THEN Fail(s) ELSE FlushPage(s, FALSE)
  IN IF f.ok THEN CommitPending(f.s) ELSE f

(* discard_pending: the page and the pages go, minted DEKs stay.           *)
Discarded(w) == [w EXCEPT !.page = EmptyPage, !.pending = <<>>]

HasPending(w) == w.page.recs # <<>> \/ w.pending # <<>>

(* stage, write_staged and apply_prepared: a batch of one record that      *)
(* needs no new key and finds the catalog as the provider sees it.         *)
CatalogIsCurrent(w) ==
  /\ With(w.catalog, "withheld") \subseteq w.withheld \ DOMAIN w.deks
  /\ With(w.catalog, "shredded") \subseteq w.revoked \ (DOMAIN w.deks \cup {StoreKey})

Stageable(s, t) ==
  /\ ~s.w.failed /\ ~HasPending(s.w) /\ CatalogIsCurrent(s.w)
  /\ t \in DOMAIN s.w.deks \ (s.w.revoked \cup s.w.withheld)
  /\ Cardinality(DOMAIN s.w.catalog) <= CatalogRoom + 1
  /\ s.p.fromLog

Staged(s, t, r) ==
  ApplyRecord([s EXCEPT !.f = [catalog |-> s.w.catalog,
                               pages |-> Append(@.pages, SealPage(t, s.w.deks[t], <<r>>))]], t, r)

-----------------------------------------------------------------------------
(* The actions of an open store.                                           *)

KeyUsable(t) ==
  /\ t \notin writer.revoked \cup writer.withheld
  /\ t \in DOMAIN writer.catalog /\ Status(t, writer.catalog[t]) = "ready"

KeyMintable(t) == t \in granted \ DOMAIN writer.catalog

(* A write is refused for its own key, for the store's, for a writer that  *)
(* failed, or is blocked by another.                                       *)
Answer(t, r) ==
  IF r.ok THEN "ok"
  ELSE IF /\ KeyUsable(t) \/ KeyMintable(t)
          /\ Status(StoreKey, writer.catalog[StoreKey]) = "ready"
          /\ ~r.s.w.failed
  THEN "blocked" ELSE "refused"

Room == records < MaxRecords /\ minted < MaxDeks

AppendOne(t) ==
  /\ pc = "idle" /\ Room
  /\ \E hold \in BOOLEAN :
       LET a == AppendUncommitted(State, t, records + 1, hold)
       IN Becomes(a.s) /\ answer' = Answer(t, a)
  /\ records' = records + 1
  /\ UNCHANGED <<granted, shredded, snap, gone, pc, job>>

(* maybe_persist_projection, when a persist is due or only may be.         *)
AfterCommit(p, due) ==
  /\ pc' \in IF ~p.hasCkpt THEN {"persist"} ELSE IF p.dirty THEN {"idle", "persist"} ELSE {"idle"}
  /\ job' = due

Commit ==
  /\ pc = "idle" /\ HasPending(writer)
  /\ LET c == Flush(State)
     IN /\ Becomes(c.s)
        /\ answer' = IF writer.page.recs = <<>> THEN "ok" ELSE Answer(writer.page.tenant, c)
        /\ IF c.ok THEN AfterCommit(c.s.p, "commit") ELSE UNCHANGED <<pc, job>>
  /\ UNCHANGED <<granted, shredded, snap, gone, records>>

(* abort_uncommitted: what it installs is persisted unless it was up to    *)
(* date, and the writer is poisoned when the sidecar does not open.        *)
Abort(s) ==
  LET w == Discarded(s.w)
      p == Dropped(Installed(s.f.pages, w.deks, With(s.f.catalog, "ready")), w)
  IN IF Installable(w.deks)
     THEN /\ Becomes([s EXCEPT !.w = w, !.p = p])
          /\ pc' = IF p.hasCkpt THEN "idle" ELSE "persist"
          /\ job' = "abort"
     ELSE /\ Becomes([s EXCEPT !.w = [w EXCEPT !.failed = TRUE]])
          /\ UNCHANGED <<pc, job>>

(* atomically: pending work is committed, then the batch as one unit.      *)
Batch(t, u) ==
  /\ pc = "idle" /\ records + 2 <= MaxRecords /\ minted + 2 <= MaxDeks
  /\ LET c == IF HasPending(writer) THEN Flush(State) ELSE Ok(State)
         a == AppendUncommitted(c.s, t, records + 1, TRUE)
         b == IF a.ok THEN AppendUncommitted(a.s, u, records + 2, TRUE) ELSE a
         d == IF b.ok THEN Flush(b.s) ELSE b
     IN IF ~c.ok THEN Becomes(c.s) /\ answer' = Answer(t, c) /\ UNCHANGED <<pc, job>>
        ELSE IF d.ok THEN Becomes(d.s) /\ answer' = "ok" /\ AfterCommit(d.s.p, "commit")
        ELSE IF d.s.w.failed THEN Becomes(d.s) /\ answer' = "refused" /\ UNCHANGED <<pc, job>>
        ELSE Abort(d.s) /\ answer' = "refused"
  /\ records' = records + 2
  /\ UNCHANGED <<granted, shredded, snap, gone>>

SplitCommit(t) ==
  /\ pc = "idle" /\ Room /\ Stageable(State, t)
  /\ Becomes(Staged(State, t, records + 1))
  /\ AfterCommit([proj EXCEPT !.dirty = TRUE], "commit")
  /\ answer' = "ok" /\ records' = records + 1
  /\ UNCHANGED <<granted, shredded, snap, gone>>

(* Store::checkpoint: it asks whom the writer knows to be withheld, and    *)
(* reads the catalog of Action ids from the log if it has none yet.        *)
TakeCheckpoint ==
  /\ pc = "idle" /\ ~writer.failed /\ ~HasPending(writer) /\ writer.withheld = {}
  /\ proj' = Claimed(State).p
  /\ pc' = IF proj.dirty \/ ~proj.hasCkpt THEN "persist" ELSE "publish"
  /\ job' = "commit"
  /\ UNCHANGED <<granted, shredded, minted, records, file, snap, writer, gone, answer>>

Close ==
  /\ pc = "idle" /\ ~writer.failed /\ ~HasPending(writer) /\ (proj.dirty \/ ~proj.hasCkpt)
  /\ pc' = "persist" /\ job' = "close"
  /\ UNCHANGED <<granted, shredded, minted, records, file, snap, writer, proj, gone, answer>>

-----------------------------------------------------------------------------
(* persist_projection of an encrypted log.                                 *)

NoWriter == [catalog |-> <<>>, deks |-> <<>>, revoked |-> {}, withheld |-> {},
             page |-> EmptyPage, pending |-> <<>>, failed |-> FALSE]
NoProj == [rows |-> NoRows, acts |-> NoActs, fromLog |-> TRUE, hasCkpt |-> FALSE, dirty |-> FALSE]

Stop == pc' = "closed" /\ job' = "commit" /\ writer' = NoWriter /\ proj' = NoProj

(* A persist is over, or failed: the call reports it, an open fails, a     *)
(* rollback poisons the writer, and a close does not care.                 *)
PersistDone(w, p) ==
  IF job = "close" THEN Stop
  ELSE pc' = "idle" /\ job' = "commit" /\ writer' = w /\ proj' = p

PersistError(w, p) ==
  CASE job \in {"close", "install"} -> Stop
    [] job = "abort" -> PersistDone([w EXCEPT !.failed = TRUE], p)
    [] OTHER -> PersistDone(w, p)

(* live_tenants *)
Live(p) == {t \in Tenants : p.rows[t] # 0 \/ p.acts[t] # {}}

(* seal_partitioned, write_log_checkpoint_at                               *)
Sealed(p, deks, stamp) ==
  [stamp |-> stamp, key |-> deks[StoreKey],
   parts |-> [t \in Live(p) |-> [dek |-> deks[t], row |-> p.rows[t], acts |-> p.acts[t]]]]

(* Mutant of MayRewrite: a process that may not read a tenant persists.    *)
MayAlwaysRewrite(w) == TRUE

(* Partial grants must not overwrite a complete snapshot.                  *)
MayRewrite(w) == w.withheld = {}

Persist ==
  /\ pc = "persist"
  /\ LET v == Revalidate(State)
         w == v.s.w
         p == v.s.p
     IN IF ~v.ok THEN PersistError(writer, proj) /\ UNCHANGED snap
        ELSE IF ~MayRewrite(w) THEN PersistDone(w, p) /\ UNCHANGED snap
        ELSE IF ~(Live(p) \cup {StoreKey} \subseteq DOMAIN w.deks)
        THEN PersistError(w, p) /\ UNCHANGED snap
        ELSE /\ snap' = [snap EXCEPT !.joins = Sealed(p, w.deks, Len(file.pages))]
             /\ LET q == [p EXCEPT !.hasCkpt = TRUE, !.dirty = FALSE]
                IN IF q.fromLog
                   THEN pc' = "publish" /\ writer' = w /\ proj' = q /\ UNCHANGED job
                   ELSE PersistDone(w, q)
  /\ UNCHANGED <<granted, shredded, minted, records, file, gone, answer>>

(* persist_log_checkpoint, with the keys the writer has.                   *)
Publish ==
  /\ pc = "publish"
  /\ IF Live(proj) \cup {StoreKey} \subseteq DOMAIN writer.deks
     THEN /\ snap' = [snap EXCEPT !.ckpt = Sealed(proj, writer.deks, Len(file.pages))]
          /\ PersistDone(writer, proj)
     ELSE PersistError(writer, proj) /\ UNCHANGED snap
  /\ UNCHANGED <<granted, shredded, minted, records, file, gone, answer>>

PersistIoFails ==
  /\ pc = "persist" \/ (pc = "publish" /\ "publish" \in Faults)
  /\ PersistError(writer, proj)
  /\ UNCHANGED <<granted, shredded, minted, records, file, snap, gone, answer>>

(* compact_to: the live generations go to a new log under new DEKs, the    *)
(* Action ids to its checkpoint, and the operator moves on to that log.    *)
Compact ==
  /\ pc = "idle" /\ ~writer.failed /\ ~HasPending(writer)
  /\ StoreKey \in granted
  /\ LET v == Revalidate(State)
         p == Claimed(v.s).p
     IN /\ v.ok /\ v.s.w.withheld = {}
        /\ \E live \in SetToSeqs({t \in Tenants : p.rows[t] # 0}) :
             LET deks == [n \in {StoreKey} \cup Range(live) |-> minted + 1 +
                            IF n = StoreKey THEN 0 ELSE CHOOSE i \in DOMAIN live : live[i] = n]
                 page(i) == [tenant |-> live[i], dek |-> deks[live[i]],
                             recs |-> <<p.rows[live[i]]>>]
             IN /\ minted + 1 + Len(live) <= MaxDeks
                /\ file' = [catalog |-> deks, pages |-> [i \in DOMAIN live |-> page(i)]]
                /\ snap' = [joins |-> NoFile, ckpt |-> Sealed(p, deks, Len(live))]
                /\ minted' = minted + 1 + Len(live)
        /\ gone' = [t \in Tenants |-> p.acts[t] \ {p.rows[t]}]
  /\ Stop
  /\ UNCHANGED <<granted, shredded, records, answer>>

-----------------------------------------------------------------------------
(* Opening, the environment.                                               *)

(* load_catalog: every entry is kept, whatever its key.                    *)
LoadedWriter ==
  [catalog |-> file.catalog,
   deks |-> Only(file.catalog, With(file.catalog, "ready")),
   revoked |-> With(file.catalog, "shredded"), withheld |-> With(file.catalog, "withheld"),
   page |-> EmptyPage, pending |-> <<>>, failed |-> FALSE]

(* open_with_keys, with the grants the embedder brings.                    *)
Open ==
  /\ pc = "closed"
  /\ StoreKey \in granted /\ file.catalog[StoreKey] \notin shredded
  /\ writer' = LoadedWriter /\ pc' = "install" /\ answer' = "ok"
  /\ UNCHANGED <<granted, shredded, minted, records, file, snap, proj, gone, job>>

(* open_writer: by now the provider may have another mind than the writer. *)
Install ==
  /\ pc = "install"
  /\ IF Installable(writer.deks)
     THEN LET p == Installed(file.pages, writer.deks, With(file.catalog, "ready"))
          IN /\ proj' = Dropped(p, writer)
             /\ pc' = (IF p.hasCkpt THEN "idle" ELSE "persist") /\ job' = "install"
             /\ UNCHANGED writer
     ELSE Stop
  /\ UNCHANGED <<granted, shredded, minted, records, file, snap, gone, answer>>

(* A grant expires.                                                        *)
Expire(n) ==
  /\ n \in granted /\ pc # "closed"
  /\ granted' = granted \ {n}
  /\ UNCHANGED <<shredded, minted, records, file, snap, writer, proj, gone, answer, pc, job>>

(* LogKeys::new: the next process brings other grants.                     *)
Regrant(G) ==
  /\ pc = "closed"
  /\ granted' = G \cup {StoreKey}
  /\ UNCHANGED <<shredded, minted, records, file, snap, writer, proj, gone, answer, pc, job>>

(* revoke_dek, by somebody who read the catalog of the log.                *)
Revoke(n) ==
  /\ n \in DOMAIN file.catalog /\ file.catalog[n] \notin shredded
  /\ shredded' = shredded \cup {file.catalog[n]}
  /\ UNCHANGED <<granted, minted, records, file, snap, writer, proj, gone, answer, pc, job>>

Crash ==
  /\ pc # "closed" /\ (pc = "publish" => "publish" \in Faults)
  /\ Stop
  /\ UNCHANGED <<granted, shredded, minted, records, file, snap, gone, answer>>

(* create_with_keys and mint_store_dek: the first superblock has the store's DEK. *)
Init ==
  /\ granted = Names /\ shredded = {} /\ minted = 1 /\ records = 0
  /\ file = [catalog |-> [n \in {StoreKey} |-> 1], pages |-> <<>>]
  /\ snap = [joins |-> NoFile, ckpt |-> NoFile]
  /\ writer = [LoadedWriter EXCEPT !.withheld = {}]
  /\ proj = NoProj /\ gone = NoActs
  /\ answer = "ok" /\ pc = "idle" /\ job = "commit"

Next ==
  \/ \E t \in Tenants : AppendOne(t) \/ SplitCommit(t)
  \/ \E t, u \in Tenants : Batch(t, u)
  \/ Commit \/ TakeCheckpoint \/ Compact \/ Close
  \/ Persist \/ Publish \/ PersistIoFails
  \/ Open \/ Install \/ Crash
  \/ \E n \in Names : Expire(n) \/ Revoke(n)
  \/ \E G \in SUBSET Tenants : Regrant(G)

Spec == Init /\ [][Next]_vars

-----------------------------------------------------------------------------
(* Properties.                                                             *)

(* Every page and every part of a snapshot is sealed with the one DEK the  *)
(* catalog on the disk names for its tenant: a reader can always open what *)
(* it has a grant for, and destroying that DEK destroys every copy.        *)
SealedByTheCatalog ==
  /\ \A p \in DOMAIN file.pages :
       /\ file.pages[p].tenant \in DOMAIN file.catalog
       /\ file.pages[p].dek = file.catalog[file.pages[p].tenant]
  /\ \A s \in {snap.joins, snap.ckpt} \ {NoFile} :
       /\ s.key = file.catalog[StoreKey]
       /\ \A t \in DOMAIN s.parts : t \in DOMAIN file.catalog /\ s.parts[t].dek = file.catalog[t]

(* What a process with every grant would install from the files: each      *)
(* tenant whose key lives has the last record of its log and every Action  *)
(* id, also one only the checkpoint has.  Neither withheld grants nor      *)
(* revocations of other tenants cost a tenant anything.                    *)
SnapshotsComplete ==
  LET readable == {n \in DOMAIN file.catalog : file.catalog[n] \notin shredded}
      i == Installed(file.pages, Only(file.catalog, readable), readable)
  IN StoreKey \in readable => \A t \in readable \ {StoreKey} :
       /\ i.rows[t] = Max({0} \cup On(file.pages, t))
       /\ i.acts[t] \cup (IF i.fromLog THEN {} ELSE On(file.pages, t))
            = On(file.pages, t) \cup gone[t]

(* A tenant that is served at all is served whole: its row is the last of  *)
(* its records, committed or pending, however often the provider changed   *)
(* its mind since the store was opened.                                    *)
ServedIsTheLog ==
  pc = "idle" /\ ~writer.failed =>
    \A t \in Tenants : KeyUsable(t) =>
      proj.rows[t] = Max({0} \cup On(file.pages, t) \cup On(writer.pending, t)
                             \cup (IF writer.page.tenant = t THEN Range(writer.page.recs) ELSE {}))

(* ADR 0044: "Other tenants are unchanged": a write is never refused       *)
(* because the key of another tenant was revoked or withheld.              *)
OtherTenantsUnchanged == answer # "blocked"

=============================================================================
