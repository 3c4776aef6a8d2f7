# Verification of mikura

mikura is an object store on one append-only log: clerks send Actions, sources
send records, readers evaluate object sets over a live projection, and a host
serves both as JSON lines over TCP. This directory holds TLA+ models of it, the TLC runs that
check them on small instances, and proofs of what matters most for every
instance. Paths below are relative to the repository's library crate, so `log.rs`
is `src/log.rs`; the host and ingest crates are `mikura-host/` and
`mikura-ingest/`. The modules and `PROJECT.json` put `src/` in front of a
repository path.

    tlc -workers 2 -config MCLogWriter.cfg MCLogWriter
    tlapm LogWriterProofs.tla

1. [The system](#1-the-system)
2. [Modules](#2-modules)
3. [Modules and code](#3-modules-and-code)
4. [What the runs check](#4-what-the-runs-check)
5. [What is proved](#5-what-is-proved)
6. [What is only model-checked](#6-what-is-only-model-checked)
7. [Where the code and its documents differ](#7-where-the-code-and-its-documents-differ)
8. [Not modelled](#8-not-modelled)

## 1. The system

| Component | State it keeps | Operations | Talks to |
|---|---|---|---|
| Log writer (`log.rs`) | the file: superblock page with the commit point, data pages; the buffered page, the counters `written`, `committed`, `synced`, the flags `hold_commits` and `failed`, the file position | `append_record`, `flush`, `discard_pending`, `stage` / `write_staged` / `adopt_staged`, `open` | called by the Store only; `backup.rs` and `history.rs` read the file beside it |
| Store write path (`store/mod.rs`, `actions.rs`) | live maps, Action catalog `action_commits`, `action_commits_from_log` | `apply_action`, `append_uncommitted`, `append_batch`, `apply_change_set`, `hide_row`, `commit`, `abort_uncommitted`, `open` | appends to the log, then applies to the maps; persists sidecars |
| Shared store (`store/shared.rs`) | the reader/writer lock over the Store and the writer mutex, both poisonable | `read`, `write`, `append_batch` (split commit) | the host's handlers |
| Execution scheduler (`mikura-host/execution.rs`) | permits in flight, per namespace, writer waiting/active, one condition variable | `acquire_read`, `acquire_write`, the two drops | the host's handlers |
| Host (`mikura-host/lib.rs`, `main.rs`, `metrics.rs`) | listener, rendezvous channel, eight workers, the running flag, counters and histograms | bind, accept, dispatch, answer, watch stdin, stop | scheduler, shared store |
| Projection sidecars, checkpoints (`store/sidecar.rs`, `store/checkpoint.rs`, `durable.rs`) | `.joins`, `.joins.delta`, `.ckpt`, `.ckpt.prev` beside the log, the dirty set in memory | persist, append a delta frame, rewrite, install, restore, compact | Store's open, commit, abort |
| Ingest (`mikura-ingest/`) | stream: offsets seen for each identity, pending window, cursor record; batch, merge and changelog: none | `apply`, `flush`, `resume`; fold, merge, diff, `append_batch` | the Store |
| Schemas (`schema.rs`), overlays (`overlay.rs`), history (`store/history.rs`) | reserved records on the log, maps in the Store | replace and migrate a descriptor, admit and merge an overlay, read an earlier version or commit point | Store write path |
| Backup (`backup.rs`) | a copy of the log with its restore points | back up, extend, verify, restore, carry a checkpoint | the log file beside its writer |
| Joins (`joins.rs`) | visible rows, declared and first-use rollups | insert, remove, declare, materialise, persist, adopt | Store, evaluate, tuning |
| Read path (`compute.rs`, `objectset.rs`, `acl.rs`, `page.rs`, `value.rs`) | none; a cursor is the client's | admit a request, evaluate, group, sort, page; parse and order typed values | join maps |
| Tuning (`tuning.rs`) | the recorder's window | record, suggest, `auto_apply` | descriptors, measures, read path |
| Encryption (`crypto.rs`, key part of `log.rs`) | key catalog in the superblock; grants, revocations | mint, unwrap, seal, revalidate, drop | log writer, snapshots |

What is hard here, and the properties that make each part correct:

- **Log writer.** The commit point moves by sync, replace in place, sync; pages
  of a held window are written before they are committed; a rollback truncates;
  a split commit writes the file while readers run. Anything may fail or stop
  between two of these. Correct: acknowledged records survive, the recovered log
  is a prefix in append order made of whole batches, nothing dropped returns,
  committed pages never change, readers see only durable pages.
- **Shared store and scheduler.** A split batch is admitted under a read guard,
  written without one, and applied under a write guard; panics poison locks;
  writers must pass readers. Correct: nothing changes between admission and
  apply, the log is never ahead of the projection for anybody but the batch that
  put it there, permits neither leak nor double, requests end, writers get in.
- **Store write path.** The record is on the log before it is in the maps, a
  commit may fail after both, the catalog may be empty until its first use, a
  rollback rebuilds a dozen fields by hand. Correct: maps and catalog are what
  the log says, an Action id takes effect once, a generation names one version,
  a change set is whole, an Ok is committed.
- **Sidecars and keys.** A reopen chooses among four files that a crash may have
  left old or torn, and that a process without every grant may not replace.
  Correct: what is restored equals a replay; each tenant is sealed by the key the
  catalog names and loses nothing to another's key.
- **Streams.** Changes arrive again or late; records and cursor must become
  durable together beside writers that know nothing of them. Correct: each change
  once, in order for its identity; the durable cursor covers exactly the durable
  changes; it never goes back behind an answered flush.
- **Schemas and overlays.** Renames, casts and drops accumulate on rows that were
  never rewritten. Correct: a read at an earlier version stays what it was,
  history replays, an overlay fits its descriptor, all reopens agree.
- **Backup.** It reads beside the writer, and extends a file that already holds
  answered restore points. Correct: what has a name is a prefix of one history.
- **Read path.** Four ways to one answer, kept by differences; shortcuts for
  pages; values that order by text, number or instant. Correct: every way gives
  what the request means; denied data cannot be told from absent data; the pages
  of a chain are one ranking.
- **Tuning.** It edits descriptors one append at a time. Correct: in budget, no
  half-done change, no changed answer, rounds settle.
- **Host.** A stop may meet the accept loop and the workers anywhere. Correct:
  every client is answered or closed, counters agree, the host stops.

`PROJECT.json` lists every component with its status and, under `hazards`, each
place where one of these can go wrong, with the properties that would show it.

## 2. Modules

| Module | Composes | Models | Proofs |
|---|---|---|---|
| `DurableLog` | | the promise of a log: accept, commit, acknowledge, drop, crash | `LogWriterProofs` |
| `LogWriter` | implements `DurableLog` | the paged log, write by write | `LogWriterProofs` |
| `HostScheduler` | | permits, locks, split commit | `HostSchedulerProofs` |
| `StoreActions` | | the write path and the batch ingests | `StoreActionsProofs`, `FoldLemmas` |
| `StreamApply` | | ordered apply beside other writers | `StreamJoinProofs` |
| `Sidecar` | | projection files and checkpoints | `LogWriterProofs`, `FoldLemmas` |
| `KeyCatalog` | | tenants' keys, sealed pages and snapshots | `KeyCatalogProofs`, `FoldLemmas` |
| `Backup` | | backups and restores beside the writer | `BackupProofs` |
| `SchemaOverlay` | | descriptors, overlays, history | `SchemaOverlayProofs`, `FoldLemmas` |
| `JoinMaps` | | rows and rollups | `StreamJoinProofs`, `FoldLemmas` |
| `Evaluate` | extends `JoinMaps` | requests and their answers | |
| `Requests` | extends `Evaluate` | what a request must pass | |
| `Paging` | | sorted pages and cursors | `BackupProofs`, `FoldLemmas` |
| `Values` | | typed values | |
| `Tuning` | extends `Evaluate` | suggestions and rounds | `StreamJoinProofs` |
| `HostService` | | listener, workers, metrics, shutdown | `HostSchedulerProofs` |

`MC*` modules give instances for TLC. The interfaces between components are
facts shown on one side and assumed on the other: that committed pages never
change (`CommittedPagesFixed`) lets `Backup` and `Sidecar` take a committed page
for a value; that a commit is all or nothing (`RecoveredIsTheLog`,
`ImplementsDurableLog`) lets the modules above see the log as a sequence with a
commit point; that a call has the store to itself (`SnapshotsHold`,
`AheadIsOwned`) makes a call one step in `StoreActions`, `StreamApply`,
`SchemaOverlay` and `JoinMaps`. A module to be proved about has no RECURSIVE
operator: recursion is a fold or a recursive function. Where one module of proofs
is about two modules, as `StreamJoinProofs`, the two share no state.

## 3. Modules and code

`PROJECT.json` maps each definition to its lines. Where several functions of the
code share one action, the tables name the main ones.

### LogWriter, DurableLog

A record is its number in append order and a page is the set of records on it.
`disk` and `super` are the file as the operating system shows it; `durable` and
`dsuper` say which slots and which commit point have certainly reached the
device. `group` is the sync policy (0 is `None`, 1 is `Page`, n is `Group(n)`).
`buf`, `written`, `committed`, `synced`, `hold`, `failed` are fields of
`LogWriter`; `pos` and `skew` are the file position. A call of the Store is a
sequence of actions, one for each write, sync, truncate and superblock
replacement, because each may fail and the process (`Kill`) or the machine
(`PowerLoss`) may stop after any of them. `Kill` keeps everything the system has
seen; `PowerLoss` keeps the durable slots and any subset of the others.

| Code | Actions |
|---|---|
| `append_record`, `flush_page` | `AppendUncommitted`, `Push`, `WritePage`, `WritePageFails`, `HoldSync`, `ResumeAppend` |
| `flush`, `commit_pending`, `write_superblock` | `Flush`, `StreamFlush`, `ResumeFlush`, `Sync`, `SyncFails`, `WriteSuper`, `SyncSuper`, `SuperFails`, `ReturnOk` |
| `Store::atomically` | `BeginBatch`, `EndBatch`, `FailBatch` |
| schema write with overlay migration | `BeginMigrate`, `EndMigrate` |
| `discard_pending` | `Discard`, `DiscardFails` |
| `stage`, `write_staged`, `adopt_staged` | `Stage`, `StagePage`, `StageSync`, `StageSuper`, `StageSuperSync`, `Adopt` and their failures |
| `open_inner` | `Open` |

`DurableLog` is the promise without pages or syncs. `LogWriter` maps its recovered
log (what an open would read) to the abstract log.

### HostScheduler

One process for each worker. `inflight`, `byNs`, `writerActive`, `writerWaiters`
are `State` of `execution.rs`; waiting on the condition variable is a `pc` of its
own. `mutex`, `readers`, `excl` and `poison` are the two locks of `SharedStore`.
The store itself is reduced to what the locking protects: whether something is
`pending` on the writer, whether the log may be `ahead` of the projection, whether
the writer has `failed` (`LogWriter::failed`, which `ensure_usable` looks at before
every write and `stage`), and whether the store changed under what a worker has read
(`stale`). A write of the log may fail and be taken back, or fail in its superblock,
which leaves the commit point unknown, the writer failed and the mutex free. A panic
may happen wherever a guard is held. `load` is what the pool is asked: a finite mix of
requests, or readers and a writer without end.

| Code | Actions |
|---|---|
| `acquire_read`, `acquire_write`, drops | `AcquireRead`, `AcquireWrite`, `SpuriousWakeup`, `DropReadPermit`, `DropWritePermit` |
| read handlers | `ArriveRead`, `LockForRead`, `FinishRead` |
| `with_write`, `SharedStore::write` | `ArriveWrite`, `LockWriter`, `LockStore`, `Write` |
| `SharedStore::append_batch` | `ArriveBatch`, `LockBatchRead`, `Admit`, `WriteStaged`, `Apply`, `LockForDelta`, `WriteDelta`, `AdoptDelta` |

### StoreActions

The log is a sequence of records with a commit point `super` (an append may let
group commit move it; a flush moves it, fails, or fails and poisons). `live` and
`claims` are the identity map and the Action catalog with `fromLog`; `stamp` is
what the `.joins` sidecar covers, from which a reopen or a rollback rebuilds.
Every call is one step, except those inside `Store::atomically`, which take one
step for each record. One namespace and one kind.

| Code | Actions |
|---|---|
| `apply_action`, `append_uncommitted`, `commit`, `hide_row` | `ApplyAction`, `AppendUncommitted`, `Commit`, `HideRow` |
| `append_batch`, `apply_change_set` | `AppendBatch`, `ApplyChangeSet`, `WriteNext`, `CommitAtomically`, `AtomicallyFails` |
| `MergeIngest::run`, `ChangelogIngest::run` | `MergeIngest`, `ChangelogIngest` (operators `FoldLastWins`, `MergeSourceAndEdits`, `SnapshotChangelog`) |
| `ensure_action_commits` with a failing read | `CatalogUnread` |
| `abort_uncommitted`, `open`, a crash | `Abort`, `Rebuild`, `Reopen`, `Crash` |

### StreamApply

`hold` and `failed` are the log writer's, `app` the fields of each applier
(`last` is `last_by_id`, `committed` is `last_committed`, `pending` is
`pending_max`, `count` is `uncommitted`), `next` the offset its clerk delivers
next, `promised` the largest offset a flush of the source returned. A call is one
step, with its failing outcomes as disjuncts. With the hold off, any append may
commit the records in front of the newest one (a full page). The clerk may
deliver again from any earlier offset, and starts at most one past the committed
cursor after a resume or a restart.

| Code | Actions |
|---|---|
| `StreamApply::apply` | `Skip`, `Apply`, `ApplyFails` |
| `StreamApply::flush` | `Flush`, `FlushFails` |
| `StreamApply::resume` | `Resume`, `Restart` |
| `StreamIngest::push`, `flush`; `Store::append` | `OtherPush`, `OtherCommit`, `OtherWrite` |
| `Store::atomically`, refused writes | `Batch`, `WriteRefused` |
| the clerk | `Redeliver` |

### Sidecar

`log` is the committed log, one record of one identity a page; an identity's row
is the page it was last written by. `dir` is the directory (`joins`, `delta`,
`ckpt`, `prev`) as the system shows it, and `dirs` what a power loss may leave.
A delta is a sequence of cells (the head of a frame, its rows, its end), so that
it can be cut anywhere, also in the middle of a frame, and `mem.bytes` is
`delta_bytes` in cells. What `apply_delta` makes of a run of whole frames is said by
position (`Overlay`): the last row of an identity counts. `mem` has the fields of the Store that decide what is
persisted. `job` says who asked for a persist, because a failure means something
else to each: a commit stands and reports it, an open fails, a close ignores it;
a rollback (`Abort`) poisons.

| Code | Actions |
|---|---|
| `Store::atomically`, `maybe_persist_projection` | `Commit` |
| `write_delta`, `adopt_delta` | `StartFrame`, `FinishFrame`, `PersistFails` |
| `rewrite_checkpoint`, `write_checksummed`, `durable::rename` | `StartRewrite`, `RenameJoins`, `RemoveDelta` |
| `write_log_checkpoint_at` | `KeepPrev`, `PublishCkpt` |
| `install_projection`, `adopt_log_checkpoint`, `restore_action_catalog`, `apply_delta` | `OpenStore`, `OpenRefused`, `Abort`, `AbortPoisons` |
| `Store::checkpoint`, `ensure_action_commits`, `drop` | `TakeCheckpoint`, `Claim`, `Close` |
| the process, the machine, the operator | `KillProcess`, `LosePower`, `OperatorDeletes` |

### KeyCatalog

A data key is a number; a tenant has one identity, and a record is a number that
is its Action id too. `file` is the log with the catalog of its superblock, `snap`
the sealed `.joins` and `.ckpt`, `writer` the log writer's catalog, unwrapped
keys, revoked and withheld tenants, page and pending pages, `proj` the projection.
The key provider is external: it unwraps unless the grant is missing or expired
or the key was revoked.

| Code | Actions |
|---|---|
| `append_uncommitted`, `append_record`, `apply_record`, `ensure_tenant_dek`, `flush_page` | `AppendOne`, `Batch`, `Commit` |
| `SharedStore::append_batch`, `stage`, `write_staged` | `SplitCommit` |
| `persist_projection`, `seal_partitioned`, `persist_log_checkpoint` | `Persist`, `Publish`, `PersistIoFails` |
| `checkpoint`, `compact_to` | `TakeCheckpoint`, `Compact` |
| `open_with_keys`, `load_catalog`, `install_projection`, `drop_revoked_tenants` | `Open`, `Install`, `Close`, `Crash` |
| grants and revocations | `Expire`, `Regrant`, `Revoke` |

### Backup

`file` has the source, the backup `dst` and the restored `out`, each with its
history, commit point, pages, and checkpoints; `tmp` and `ckptTmp` are the
temporary names; `job` says where each process is; `points` are the restore
points that were answered. The source's writer commits (a superblock can be read
half replaced), takes checkpoints in two renames, and the source may be replaced
by a compacted log.

| Code | Actions |
|---|---|
| `backup_log`, `restore_log` | `StartBackup`, `StartRestore`, `Begin`, `CopyPage`, `Publish` |
| `backup_log_incremental` | `StartIncremental`, `CopyPage`, `Advance` |
| `carry_checkpoint`, `carry_checkpoint_or_unpublish` | `ReadCkpt`, `ReadPrev`, `StartCarry`, `FinishCarry`, `IoFails` |
| `restore_point_at`, the operator | `Answer`, `Clean` |
| an error or a kill anywhere; in the superblock of an incremental run it leaves the old one, the new one or a part of it (`CutShort`) | `IoFails`, `Kill` |
| the writer of the source | `StartCommit`, `FinishCommit`, `KeepPrev`, `PublishCkpt`, `ReplaceSource` |

### SchemaOverlay

`log` holds descriptors, overlays and generations of one instance of one kind;
`committed` is how much of it a reopen finds; `live` has the descriptor, the
instance, the overlay and the history of versions. A property value is a name for
a string; `Fits` says which a type takes. `ApplyOverlay` writes the overlay before
anything else, as the code does: when the merged instance is refused the overlay
stays behind, uncommitted, and on a hidden instance it is committed alone.

| Code | Actions |
|---|---|
| schema write: `check_replacement`, `plan_overlay_migrations`, `plan_instance_migrations`, `apply_schema_view` | `PutSchema`, `HideSchema` |
| source append, `apply_action`, `hide` of an instance, with `resolve_instance` and the conflict plan | `SourceWrite`, `Replace`, `HideInstance` |
| `apply_overlay_in_view` | `ApplyOverlay` |
| `commit`, `abort_uncommitted`, crash and reopen | `Commit`, `Crash` |

`Load`, `LoadAt`, `History` and `LoadAsOf` are the reads; `FromSidecar`, `Replay`
and `After` the ways to reopen.

### JoinMaps, Evaluate, Requests

`maps.owned` are the visible rows, `maps.rollups` and `maps.lazy` the declared and
the first-use measures at `<<leaf kind, join property, sum property, parent key>>`.
They are maintained by differences (`Install`, `Hide`), rebuilt when a descriptor
changes (`Describe`), built in two steps on first use (`EnterCachedSum`,
`BuildCachedSum`), persisted (`Persist`) and carried over a reopen by a replay of
a tail that may have lost its end (`Reopen`). Sums wrap as an `i64` does, at a
smaller width.

`Evaluate` has what a request means (`Meant`) beside what the code does
(`EvaluateLocal`: `FoldRollups`, `FoldLeaves`, `Narrowed`, `Walk`, with `RootIds`,
`IndexIds`, `Frontier` and the restriction), and the groups of a breakdown.
`Requests` builds the restriction from the wire (`RestrictionFromWire`) and
decides whether an evaluate is admitted (`FilterFits`, `Admits`).

### Paging, Values

`live` and `saved` are the rows readers see and those of the commit point, `stamp`
the writer's counters a cursor is bound to, `chain` what a client has collected.
`Put`, `Hide`, `Describe`, `Commit` and `LoseUncommitted` change the rows;
`FirstPage` and `NextPage` follow cursors. `FullPage` is the ranking of everything,
`TopPage` the two shortcuts (`WalkValues` along the index, `ScanTop` by a bounded
scan).

`Values` takes literals apart into sign, digits and fields: what each type accepts
(`ParseCanonical`), what is stored (`CanonicalizeWrite`), order (`Less`), ranges
(`InTypedRange`, `Overlaps`) and boxes (`InBbox`). `Declare` and `WriteValue` let
two clerks write a value of one type.

### Tuning

`samples` is the recorder's window, `suggested` the last answer of `suggest`,
`tuner` the round of `auto_apply` under way: `AutoApply` starts it, `TuneDrop`,
`TuneSkip`, `TuneAdd` take the next suggestion, `TuneBefore`, `TuneApply`,
`TuneBuild`, `TuneAfter`, `TuneUndo` and `TuneLast` are its append, its probes
and its rollback, `TuneFail` an error that leaves the descriptors alone, `TuneCut` an
append that fails, with its edit live or without, `TuneEnd` and `TuneReturn` the end. Writes and
first-use builds of `JoinMaps` come in between rounds (`Elsewhere`: `auto_apply`
has the store to itself); a `Crash` may end a round anywhere.

### HostService

`backlog` is the listener's queue, `loop` and `stream` where the accept loop is
and what it is about to hand over, `nones` how many workers it has yet to stop,
`rx` the holder of the receiver's mutex, `pc` and `job` the workers, `running` and
`watcher` the flag and the thread that reads stdin, the rest the metrics and what
became of each client. `given` is the command line and what each client will send.

| Code | Actions |
|---|---|
| `bind`, `listen`, `set_request_limits`, `refuse_unauthenticated_routable` | `Bind`, `OpenStore`, `SetRequestLimits`, `RefuseUnauthenticatedRoutable`, `GiveUp` |
| `serve_while` | `CheckGoing`, `Accept`, `AcceptFails`, `CheckAgain`, `Return` |
| worker threads, `read_request_line`, `handle_line`, `check_token` | `LockReceiver`, `Receive`, `ReceiveNone`, `ReadLine`, `HandleLine`, `CheckToken`, `Panic` |
| `observe_rpc`, `note_overload`, `write_response`, `write_fail_closed` | `ObserveRpc`, `NoteOverload`, `WriteResponse`, `WriteFailClosed` |
| `watch_stdin_then_stop` | `CloseStdin`, `StopRunning`, `WakeAccept` |

## 4. What the runs check

| Run | Instance | What it shows |
|---|---|---|
| `log_writer` | 3 pages, 3 records, 2 a page, sync policies None, Group(1), Group(2) | acknowledged records survive (`AckedSurvive`); what a reopen reads is a prefix in append order, of whole batches, without dropped records (`RecoveredIsTheLog`); readers beside a split commit see durable pages (`AppliedIsDurable`); committed pages never change (`CommittedPagesFixed`); the writer implements `DurableLog` |
| `host_scheduler` | 3 workers, 2 namespaces, 3 permits, 4 requests; two loads, one finite with every kind of request, one endless of readers and a writer | permits are exact, snapshots hold, a log ahead of the projection has an owner or takes no more writes, a split commit excludes pending records, every request ends, a waiting writer gets in |
| `store_actions` | 2 identities, 2 Action ids, 2 bodies, 3 Actions, 3 offers, 2 batches that write one identity twice, a feed of two snapshots, 2 change sets, 4 log records | maps, Action catalog and changelog state are what the log says (`MapsAreTheLog`); an id takes effect once, a generation names one version, change sets are whole, an Ok is committed |
| `stream_apply` | 2 sources with an applier each, 3 and 2 changes of 2 shared identities, window 2, 7 log records | each change once and in order, the durable cursor covers exactly the durable changes, it stays where an answered flush put it |
| `sidecar` | 2 identities (symmetric), 3 pages, a delta of at most 4 cells, 3 unsynced directory changes | every choice of files a reopen may meet serves what a replay serves (`FilesRestoreTheLog`) |
| `key_catalog` | 3 tenants (symmetric), 2 records a page, commits of 2 pages, a catalog of 2, 3 records, 4 data keys | every page is sealed by the key the catalog names, snapshots lack nothing they stand for, the maps of every process are the log it can open |
| `backup` | 2 processes (symmetric), 3 pages, 2 stamps, 3 runs of the tool | a named backup that reads back is a prefix of one history (`PublishedIsPrefix`); the pages of a restore point that was answered stay, under a commit point that is not before it or, after an error or a kill in the middle of the superblock, cannot be read, and a checkpoint goes along (`RestorePointsServe`) |
| `schema_overlay` | 2 names, 2 values, 2 types, 4 descriptor templates, 2 sources, 2 patches, 2 instance ids, 5 log records | a read at an earlier version does not change, a generation that is no hide is as of its commit point what a load would have answered, an overlay that was answered follows and fits its descriptor, also beside overlays whose call was refused or met a hidden instance; all reopens agree |
| `read_path` | 2 kinds, 2 keys, 2 properties, sums modulo 8, 4 writes, 13 requests, 12 wire requests | rollups kept by differences are what a walk would count (`MeasuresExact`); scan, declared rollup, first-use rollup and joined answer agree with the request's meaning (`AnswersExact`); denied rows cannot be told from absent ones |
| `paging` | 3 keys, 4 offered rows, 3 starts, pages of 1 and 2, 2 writes; 7-bit integers and years 1900 to 2101 | pages are the full ranking cut up, of one snapshot; a value keeps its meaning from the wire to the order |
| `tuning` | 2 kinds, 3 seeds, budget 1, 1 round | what a round keeps fits its budget, and what it leaves is what it kept, or one suggested change more or less if an append or a probe failed (`RoundKeepsBounds`); rounds settle (`TuningSettles`); no answer changes (`TuningKeepsAnswers`) |
| `host_service` | 2 workers, 3 clients, a backlog of 1, 1 panic, 2 namespaces with one label, 7 loads | no client is served half, counters and histograms agree, every client ends, the server stops |

**Bounds.** Three pages are a committed page, a page behind it and one more, so
that group commits of two pages, orphans under a shorter commit point, and a
second failure after a rollback all happen; three records with two to a page
give full, partly full and reopened pages; two group sizes give a commit in the
middle of an append and one at its end. Three workers are the least with a
holder, a waiter and an overtaker; three permits give a share (half of three, at
least one) that binds; four requests let a worker come back after another's
panic. Four records let an Action fail, be retried, be rolled back and be
offered again, and let a change set (marker and two members) follow another
record. Seven records let a source have two windows with a change of the same
identity in both, or a stranger's commit in one and a retry after it. Three
unsynced directory changes let a torn frame be retried and a rewrite follow
another that was not synced. `Share` is 1 in `sidecar`, where the code has 4:
with two identities 4 would rewrite on every commit. A catalog with room for two
of three tenants can overflow; four data keys let each tenant have one and one be
minted in vain. Three runs of the backup tool are a full one, an incremental one
on it, and one after that or beside it. Five log records of `schema_overlay` are
two descriptors with a row and an overlay between them and one write after. In
`read_path` sums wrap, the leaf budget can refuse a nested fan-out and the cache
evicts, each with two keys. `HalfRange`, `MaxInt`, the years and the digits stand
for the widths of the code, in scale. Three clients are one served, one in the
queue, and one that fills it.

The constants named `Max...` and the counters of `Backup` and `Tuning` guard the
actions that would pass them. Among them `MaxNamespaces`, `MaxReads`, `MaxDelta`
and `MaxCached` are limits of the code too, made small; `MaxPages`, `MaxRecords`, `MaxRequests`,
`MaxLog`, `MaxUnsynced`, `MaxDeks`, `MaxStamps`, `MaxRuns`, `MaxWrites`,
`MaxSamples` and `MaxRounds` are of the models only. Symmetry is declared where no
definition tells one model value from another, and in no run with liveness.

**Deadlock.** `LogWriter`, `StreamApply` and `Sidecar` have none: a process can
always be killed, opened or restarted. The other runs switch the check off: their
bounded logs, requests, writes or runs come to an end, and a host that has returned
does nothing more. That nobody is stuck is `EveryRequestEnds` and `NobodyWaits`
there, the latter for the clients (`EveryClientEnds`) and the host (`ServerStops`).

**Fairness.** `HostScheduler` assumes weak fairness of each worker's own steps: a
thread that can run does run, as the operating system gives it. It assumes no
fairness of any lock (which thread gets a free mutex is open), no arrival of
requests, and no spurious wakeup. `EveryRequestEnds` is claimed for the finite
load only; with endless requests a mutex that is not fair can starve a thread,
and `WritersNotStarved` is what remains. `HostService` assumes the same of the
accept loop, the workers and the watcher, and that a read deadline passes (the
code sets one on every connection). Nobody has to connect, the receiver's mutex
need not be fair, and stdin may stay open for ever; `ServerStops` speaks of a
host that is told to stop and had no panic.

**Mutants.** Every property of every run has at least one change of the code's
behaviour that makes TLC report it. These operators stand in the modules before
the definition they replace, and nothing else uses them.

## 5. What is proved

For every value of the constants that meets the named assumptions:

| Module | Theorems | Assumes |
|---|---|---|
| `LogWriterProofs`, of `Sidecar` | `FilesRestore` | `BoundAssumption`, `FileFaultAssumption`, `NoFileAssumption` (the absent file is no file), `FileFaults = {}` |
| `LogWriterProofs` | `TypeCorrect`, `AcknowledgedSurvive`, `ReadersSeeOwnDurable`, `RecoveryInvariance`, `CommittedPagesNeverChange`, `ReopensReadTheLog`, `Implementation`, `PromiseKept`, `WriterKeepsPromise` | `BoundsAssumption`, `PolicyAssumption`, `TornAssumption`, `Faults = {}` |
| `HostSchedulerProofs`, of `HostService` | `NothingEverHalfServed` | `ServiceAssumption` |
| `HostSchedulerProofs` | `SnapshotsAlwaysHold`, `AheadAlwaysOwned`, `DurableBatchesApply`, `SplitAlwaysExcludesPending`, `PermitsAlwaysExact` | `PoolAssumption` |
| `StoreActionsProofs` | `StoreInvariant`, `StoreMapsAreTheLog`, `StoreOneEffectPerId`, `StoreGenerationNamesOneVersion`, `StoreSetsWhole`, `StoreAckedWritesCommitted`, `StoreCommittedLogGrows` | the assumptions of `StoreActions` |
| `FoldLemmas` | what the replays of a log compute (`LiveOf`, `ClaimsOf`, `FoldLastWins`) and sums over finite sets, for the other theorems | |
| `BackupProofs` | `BackupInvariance`, `PublishedAlwaysPrefix`, `RestorePointsAlwaysServe` | `FileAssumption`, `StampAssumption`, `Faults = {}` (calls on one file do not overlap) |
| `BackupProofs`, of `Paging` | `TopPagesAreFullRankings`, `PagesAreOfOneSnapshot` | `PageAssumption`, `KeysAssumption`, `RequestAssumption`, `PlaceAssumption` (a type puts the values on offer on one line) |
| `KeyCatalogProofs` | `KeyInvariant`, `KeysSealedByTheCatalog`, `KeysServedIsTheLog`, `KeySnapshotsComplete` | `BoundAssumption`, `SnapshotAssumption` (no snapshot is `NoFile`), `Faults = {}` for the last |
| `SchemaOverlayProofs` | `LogInvHolds`, `ReopenHolds`, `NamedReadsHold`, `HistoryHolds`, `OverlayHolds` | `InputAssumption`, `AbsentAssumption` |
| `StreamJoinProofs` | `StreamInvariance`, `ChangesApplyOnceInOrder`, `CursorAlwaysExact`, `CursorsAlwaysHold` | `Faults = {}`, one applier a source |
| `StreamJoinProofs`, of `Tuning` | `TuningInvariance`, `RoundsKeepBounds`, `RoundsStayExact` | those of `JoinMaps`, `BudgetAssumption`, `SeedsAssumption` (what a log holds at first is of the kinds, keys and properties), `KindsAssumption` (a request names kinds) |
| `StreamJoinProofs`, of `JoinMaps` | `MeasuresStayExact` | the assumptions of `JoinMaps`: what is offered is of the kinds, keys and properties, and numbers fit the width that wraps |

What `Faults = {}` leaves out is not the same everywhere, and section 7 has what
happens with it:

| Module | `Faults = {}` excludes |
|---|---|
| `LogWriter` | a page write that ends in the middle, a superblock torn by a power loss, a rollback of a migrating write that fails itself; every other error and every kill is in |
| `Sidecar` (`FileFaults`) | sidecars of an older log under the same name that come back after a power loss |
| `StreamApply` | an apply that ends with its change appended and its cursor not, and a schema write whose overlay migration fails and drops everybody's uncommitted records; other errors, kills and writers are in |
| `KeyCatalog` | an I/O error or a kill between the two files of a checkpoint; a grant that expires there is in |
| `Backup` | two calls on one backup file at once; errors and kills are in, at every step |

`HostScheduler`, `StoreActions`, `SchemaOverlay`, `JoinMaps`, `Tuning`, `Paging` and
`HostService` have no such switch.

**The log.** That a log opens after a power loss depends on what had been synced
when the superblock was written, so `AckedSurvive` is not inductive. `IInv` says
what is: `Place` (where counters, superblock and file position stand at each step
of a call), `Pages` (counted pages are written, committed ones synced),
`Contents` (nothing is on a page that was not appended), `StagePages` and
`StageDurable` (what a split commit has written and synced so far), `Synced`
(what this process committed is behind the synced superblock), `Acked`. That a
reopen reads whole units in order needs more: `RInv` adds which units are on
which pages (`Covered`), that a dropped unit is on none (`Fresh`), and what waits
in memory (`Waiting`, `WaitingUnits`) at each `Phase`. With both, each step of
`LogWriter` maps to Accept, Commit, Acknowledge, Drop or Crash of `DurableLog`,
or to a stutter (`Implementation`); the promise of every such log (`PromiseKept`)
is then one of the writer (`WriterKeepsPromise`).

**The store.** A write is right if the live map and the Action catalog it
consults are what the whole log says. `Inv` says when they are: `RowsInv` (the
live map is the replay of the log, pending records too, while the process
accepts writes), `CatInv` (a catalog that was read knows the log; one that was
not may only remember ids that were committed, since every claim reads first),
`CallInv` and `SetInv` (what a call inside `atomically` has written, what it
still has to write, and that nobody else is in between), `GenerationsGrow` and
`WholeInv` (the order of the generations of an identity, and the marker first
and the members behind it). Every action is first shown to be one of three
steps, a record put in, the log kept, or the process stopped (`NextSteps`); each
part of `Inv` is then proved for the three, not for each action. What a replay
computes is an induction over the log. The library's induction theorems take the
formula as an operator, which no prover here can instantiate; `FoldLemmas` states
induction with a set instead (`NatSetInduction`, `SeqSetInduction`), gets a fold
as the value of a function on the prefixes of a sequence (`FoldedAppend`,
`FoldedTyped`), and so the rows, the catalog and the fold of a snapshot are
characterised by the positions of their records.

**The scheduler.** A superblock that fails leaves the log ahead of the projection,
possibly, and nobody holding the mutex. `AheadIsOwned` is therefore about three ways
to keep the next writer out: the batch that owns the commit holds the mutex, the
mutex is poisoned, or the log has failed, and then no batch is anywhere between its
admission and its apply. `HostInv` adds who holds which lock at which `pc` (`MutexHeld`,
`GuardsHeld`) and that the store lock is never poisoned without the mutex
(`PoisonIsFinal`): every exclusive guard is dropped before the mutex guard it was
taken under, in the same unwinding. `DurableBatchesApply` follows: the branch of
`append_batch` that finds the store lock poisoned after its sync cannot be
reached. `PermitInv` turns the counters into cardinalities of sets of workers.

**The service.** `NothingHalfServed` counts clients by how they ended, and a counter
moves before its client ends. `CountInv` and `LabelInv` therefore bound the
counters by two sets of clients that differ in who was closed: those answered or
with a worker past counting (`Told`), and those at their end or with such a worker
(`Through`). A step adds at most one client to either, and the same one to both;
that it was in neither before needs that a client waits in one place only
(`PlaceInv`: the queue, the accept loop's hand, one worker) and what a worker knows
of its line (`JobInv`). A namespace that has no label yet was never told, unless
the labels were full by then, and they stay full (`LabelInv`). `LoopInv` has what
`run` checked before the first connection.

**The files beside the log.** That an open restores the log is not inductive: it
depends on what a power loss may leave of every rename since the last sync.
`FilesInv` says of each directory that may be left (`dirs`) that its snapshots are
prefixes of the log (`JoinsOk`, `CkptOk`, in `DirOk`), and of any two of them that
hold a delta of the same birth that the rows of the one's `.joins` under the
other's delta are those of the log at the delta's stamp (`DeltaOk`): the two files
of a pair may come from different moments. While a process is open, `PersistedOk`
says the same of what it counts as kept, except of the identities that are dirty,
and `StepOk` where a persist stands. A frame cut anywhere reads as the delta before
it (`TornOn`), a whole one as the rows it holds over it (`FrameOn`).

**Backup.** An incremental run replaces the superblock where it stands, so an error or
a kill there may leave a file that no reader takes. What is proved of such a file is
that every page of an answered point is still there, and that a commit point that
can be read is not before it: a later incremental run does not mend it, but nothing
was overwritten. A backup reads beside the writer, so that its file is a prefix is a
fact about the past of the log. `BackupInv` says of each file and each job
from which committed prefix its pages come (`SourceInv`, `FilesInv`, `FromInv`,
`CopyInv`, `ToInv`), where its restore points lie (`PointsInv`), and that one
job works on a target at a time (`Alone`). `ServeInv` adds why a restore point
stays: the only calls that take a name away made the file and have not answered,
so nobody has (`HeldInv`); and why a checkpoint is found: the source has a current
one or, while it is replaced, the one before (`CkptInv`), and one of the two is
not ahead of the backup until a second one is begun (`OfferInv`).

**Pages.** That a page from the index or from the bounded scan is the page of the
full ranking is a fact about three ways to sort. Rows are on one line (`PositionsLinear`:
`Compare` is transitive with missing values last, and so is `Ahead` over any
number of sort keys), and of a set on one line there is only one sequence of its
first n elements (`Heads`, `HeadsUnique`). So it is enough that each way keeps one:
a row inserted where it belongs (`HeadsInsert`, `ScanTopHeads`), a run of equal
values put behind smaller ones (`HeadsConcat`, `WalkRunsHeads`), and at last the
rows without a value (`WalkValuesHeads`), each by induction over what was read.
The ranking behind a row is what follows it in the ranking (`RestIs`), so a page
leads on from where the last one ended (`PageTurned`) if the view is still the
one the chain began with. `PagingInv` says when it is: a chain begun at a commit
point has the committed view until the committed counter moves (`SettledChain`),
which nothing takes back; any other has the live view while the counters are the
cursor's (`OpenChain`), which only grow (`MovesOn`) until uncommitted appends are
lost. After that they can come back over other rows, and that is the exception of
`PagesOfOneSnapshot` and of section 7.

**Streams.** `StreamInv` says which changes of a source are on the log and what its cursor
records name (`LogInv`), how far the commit point may stand between them
(`DurableInv`), when the hold is set (`HoldInv`), and what each applier remembers
of them (`AppsInv`). One applier a source is needed: without it `CursorsHold`
fails (section 7).

**Rollups.** The code never recounts: it adds and subtracts what a row
contributes, with sums that wrap, and takes a parent's rows away or recounts them
when its key goes or comes. `JoinInv` says what is then true at every moment: the
rows, of the declared and the first-use tables together (`RowsOfMaps`), are those
due for the pairs that are tracked and not being built (`Due`, `Tracked`), and each
is what `Recomputed` walks to (`Exact`); the declared pairs are those of the live
descriptors; and the projection on disk is that of exact maps with its own
descriptors (`ImageOk`). Between the removal of a row and the insertion of the one
that takes its place the rows are not those due: a row leaves with its last child,
and those of the key itself stay until it is out of sight (`Subbed`). A sum is
followed through one child that comes or goes by the lemmas of `FoldLemmas` on
sums over finite sets, and through the wrap because a sum may be wrapped at every
step or once at the end. A replay is an induction over the log: behind every log
the maps are exact and measure what it declares. An image names no pair without a
row, so it is exact for what its descriptors declare and for the pairs it has a
row of, and after a reopen those are the tracked ones.

**Tuning.** That a round leaves only what it kept cannot be seen from where it is:
`RoundInv` compares the descriptors at every step with those it began with and its
kept changes (`KeptDescs`), beside the one edit it is about to look at (`DescHolds`).
An append may fail with its edit live (`TuneCut`): the round ends there, so the edit
is one, and it is a drop or an add that had passed the budget.
Changes add up in any order only because the drops are through when the first add
is kept (`DropsFirst`). Taking an index back is the inverse of adding it only if it
was not there before: an index that was there changes no cost, so the probe after
is no dearer than the one before (`ProbeHolds`, `Known`). A measure is never taken
back, for it is cached as soon as it is declared; and a probe that was answered is
answered again, since an index declares no sum and a sum that is declared needs no
table. The budget is followed as a bound on the rows that are due for the measures
kept (`SpentHolds`): a round writes no row, so these stay the same (`SameOwned`)
and are counted one measure at a time (`SpentMore`). That the tables hold no other
row is `JoinInv` again, which every edit and every table a probe builds keeps
(`EditStep`, `BuiltIs`); the theorem about `JoinMaps` is so a second one, over
descriptors that a program edits and not only those on offer.

**Keys.** The files are right because of what a process knows when it writes
them, and it knows what it installed from the files: `SealedByTheCatalog` is not
inductive without what the writer has in memory, and `SnapshotsComplete` not
without what the projection has. `Inv` of `KeyCatalogProofs` joins the two.
`WriterInv`: the writer's catalog extends the file's, and a name whose key it
lacks is revoked or withheld. `Whole` says that the projection has all of a
tenant. It holds of every tenant that can be used (`Usable`), and, of a process
that was refused no grant and has nothing to persist, of every tenant nobody
destroyed (`ProjInv`); that is why such a process, and only it, may replace the
snapshots. `SnapInv` and `CkptInv` say of each snapshot what the log said up to
its stamp, `PairInv` that `.joins` is not ahead of `.ckpt` but while both are
written, and `Publishable` what makes the second write succeed. The calls are
functions on the parts of the state a call works on, so `Good` (the parts of
`Inv` about them) is followed through one call step by step, with the grants and
revocations as a parameter (`Env`); a lemma for each action puts the calls
together. Rows, Action ids and sealing are proved with an error or a stop allowed
anywhere; only that no Action id is lost needs `Faults = {}`, as
`MCKeyCheckpoint` shows.

**Descriptors, overlays and history.** What a row is at some version is a replay,
so that the invariant is about every prefix of the log. `LogInv` says that each
record was `Admitted` after the ones before it: a descriptor that `Follows` the
last one, a generation that names the version it was written under. From there no
property is about actions any more, but about the log, read in different orders.
A checked descriptor (`CheckReplacement`) maps names one to one, and one that took
the instance along (`CarriesInstance`) finds its targets free (`Clear`), dropped
properties included; so `Remap` renames and loses nothing (`MovedInst`,
`RemapRenames`), `Reversed` undoes one such step and `Ahead` does it for a
generation on the log. `NamedReadsHold` and `HistoryHolds` put the steps together
in the two directions. A cast changes no value of the model, and a drop is not a
step at all: the value stays, and only the view leaves it out. `ReopenHolds`
compares a replay that grows its history with one that starts with all of it, or
with none (`Beneath`): `Remap` looks up the descriptor before its own and finds
the same one, or none and takes every property, which for an instance that was
taken along makes no difference. `OverInv` (TLC checked it first) adds the place where a shown
overlay was admitted (`ClaimedAt`): before it, or not at all, the instance was
recreated, and since then it was not hidden, for a hide takes the overlay along.
A descriptor and the migrated overlay are two records of one call, between which
the overlay does not fit, so `OverInv` is about the whole log and the committed
prefix and not about every prefix.

Each invariant has a lemma for each action. TLC checked each invariant as it
stands on its run's instance before it was proved.

## 6. What is only model-checked

- Liveness (`EveryRequestEnds`, `WritersNotStarved`, `NobodyWaits`), which the
  provers do not reach.
- `AnswersExact` and `DeniedUnseen`, of `Evaluate` and `Requests`. What an index
  and what a walk say of a predicate agree by an induction over trees, of which
  `Predicates` is any set; and `Requests` has recursive operators, which the
  provers do not take. That the rollups an answer is folded from are exact is
  proved (`MeasuresStayExact`).
- `TuningKeepsAnswers`, which rests on `AnswersExact`.
- `TuningSettles`: that what a round leaves is not suggested again is a comparison
  of suggestions before and after all of its changes, which `RoundInv` does not make.
- `Values`, on the literals of its run. `Paging` takes from it only that a type
  puts the values on offer on one line (`PlaceAssumption`).

## 7. Where the code and its documents differ

Each of the first group has a configuration; TLC reports the named property with
`tlc -config X.cfg M`.

| Configuration, module | Property | What the code does |
|---|---|---|
| `MCLogShortWrite`, `MCLogWriter` | `AckedSurvive` | `flush_page` (`log.rs:771`) writes at the current position and returns the error of `write_all` without seeking back. After a short write the position is inside the slot, the retry writes the page there, commits and acknowledges, and the reopen finds a committed page that fails its checksum. `write_staged` seeks first. `README.md:21-22`: "Reopen after a crash recovers exactly what was acknowledged." |
| `MCStoreRetry`, `MCStoreActions` | `AnsweredActionsRecovered` | The retry of an Action whose commit failed is answered Ok while the record is only buffered (`store/mod.rs:1421`); a crash loses an Action the clerk was told is done. ADR 0011:41: "No-op. Return the existing generation (replay). Holds after restart." |
| `MCStreamRace`, `MCStreamApply` | `FlushNeverSmaller` | `apply` appends the cursor with its own pending maximum (`apply.rs:169`), and that record is the live cursor `flush` compares with: of two appliers of one source the slower one commits a smaller cursor. ADR 0031:57-58: "`flush` still never writes a smaller cursor if two instances race." |
| `MCStreamCursor`, `MCStreamApply` | `CursorCoversChanges` | The append of the cursor fails after that of the change (`apply.rs:169`); another writer's commit makes the change durable without an offset, and a redelivery after a restart applies it again. ADR 0031:47-48: "Each apply also appends the cursor so another writer's `commit` cannot make source records durable without a matching offset." |
| `MCStreamMigration`, `MCStreamApply` | `NothingSkipped` | A failing overlay migration (`store/mod.rs:1190`) rolls back everybody's pending records, an open stream window too; the applier's next flush commits a cursor over changes that are gone. `mod.rs:1284-1286`: "Stream apply holds from the first pending change until flush so records and the source cursor become durable together." |
| `MCSidecarTorn`, `MCSidecar` | `ReopenSucceeds` | The first delta frame is appended to a new file in place (`sidecar.rs:529`); a stop in the middle leaves a delta without a whole frame, which `apply_delta` refuses where it would cut a torn tail behind a good one. The store does not open until the file is deleted. `architecture.md:194-195`: "a lagging sidecar is caught up from the log tail on open." |
| `MCKeyRevoked`, `MCKeyCatalog` | `OtherTenantsUnchanged` | The flush of a page of a tenant whose key was revoked fails and keeps the page in the one buffer of the writer, so that another tenant's commit fails too. ADR 0044: "Other tenants are unchanged." |
| `MCKeyCheckpoint`, `MCKeyCatalog` | `SnapshotsComplete` | `checkpoint.rs:50-68` checks the grants before it writes and not again before it publishes, where the persist of `.joins` does |
| `MCPagingLost`, `MCPaging` | `LaterWriteFails` | A page over appends that were not committed carries a stamp; the appends are lost, others bring the log to the same stamp, and the old cursor is taken. `page.rs:1-6`: a cursor fails after a later write |
| `MCHostPanic`, `MCHostService` | `StopsAnyway` | The shutdown sends one `None` for each of the eight workers through a rendezvous channel (`mikura-host/lib.rs:851`) and blocks if a panic has taken one |

Others show when a configuration is changed:

- `MCLogWriter`, `Faults = {"torn_superblock"}`: `AckedSurvive`. An encrypted
  log's superblock spans more than one sector (`log.rs:858`), and no document
  says what is assumed of the disk.
- `MCLogWriter`, `Faults = {"rollback_io"}`: `RecoveredIsTheLog`. A migrating schema
  write returns a failed rollback (`store/mod.rs:1190`) without poisoning the
  writer, whose counters have moved back, and a later commit covers dropped pages.
- `MCSidecar`, `FileFaults = {"create"}`: `EveryCrashRestores`. `create` over an older
  log removes its sidecars without a directory sync (`store/mod.rs:198`); a power
  loss may bring back an old `.joins`, and its stamp, a page count, does not say
  which log it belongs to.
- `MCBackup` with `PreviousStaysValid`: an incremental run extends the published
  file and replaces its superblock in place (`backup.rs:122-124`), so that an error
  or a kill in that write leaves a superblock cut short, which every reader and
  every later incremental run refuses, though all pages are there. `backup.rs:88-89`:
  "A crash leaves the previous backup valid". `RestorePointsServe`, in the run,
  says what is left of it. `Faults = {"overlap"}`: two runs on one target mix their
  pages.
- `MCSchemaOverlay`, `NamedReadsReverse`: after a hide of the descriptor a rename
  onto a property still stored is let through (`store/mod.rs:1949-1961` looks
  at the current descriptor, which a hide removes). ADR 0035: "A rename target
  must not be declared on the previous version, so a named older read can reverse
  it." `HistoryAsLoaded`: a write while the descriptor is hidden is
  stamped version 1 (`mod.rs:1253`), so `history.rs:70` "as `load` would have
  answered then" does not hold. `HidesReplay`: a hide writes what a load
  answers and names version 1 whatever the descriptor is (`mod.rs:1464`), so that
  a history read renames it forward through migrations it had already followed,
  against the same line. `EditOnce`: after a replaced overlay, a source's
  refresh that merges an earlier instance id again shows a second edit.
- `MCSchemaOverlay` with `RecreateAppliesNone`: an overlay admitted while its
  instance is hidden is appended and committed alone (`mod.rs:949-966`), and the
  source write that recreates the instance merges it. `mod.rs:884-885`: "Hidden
  instances stay hidden; recreate does not apply a prior overlay", and ADR 0009:75:
  "Overlay applies only if the clerk admits a new overlay after recreate." With
  `OverlayDeclared`: the overlay is appended (`mod.rs:949`) before the merged
  instance is validated (951-964), so that a refused call leaves a live overlay
  over undeclared names, which the next commit of anybody makes durable, and a retry
  answers Ok. `docs/glossary.md:21`: "Visible writes of that kind fail closed on
  unknown". Both kinds of call are in the run; `OverlayFollows` claims of them
  nothing but that they disturb no other overlay.

Observations that no configuration shows:

- Log: `open_inner` (`log.rs:185`) does not sync the superblock it reads, so that
  after a kill between its write and its sync the reopened store serves a commit
  a power loss can take back. A failed data sync (`log.rs:874`) is retried as if
  the pages were still dirty. The error of a migrating write's first append
  (`store/mod.rs:1177`) leaves the hold set for good. `compact_to`
  (`checkpoint.rs:164`) publishes by a hard link without a sync of the directory.
- Streams: `Store::commit` flushes whatever the hold, so an Action in the middle of
  a stream window commits part of it, with a cursor that covers just that part
  (checked in `stream_apply`).
- Ingest: a changelog record that returns to an earlier Action's payload carries
  an id already claimed with the same body, is taken for a replay, and is
  silently not written.
- Keys: a full catalog poisons the writer for all tenants until a reopen. With
  the store's key withheld the process goes on and the next open fails.
- Backup: two checkpoints during one backup leave none carried; a `.tmp` left by a
  kill blocks later runs on that target.
- Schemas: a dropped name declared again with another type brings the old value
  back uncast; a first descriptor does not look at overlays already there.
- Tuning: a crash between an applied suggestion and its rollback leaves it, and so
  does an append that fails with its edit live (`store/mod.rs:986-989`, 1276-1279:
  the record is applied before the flush and the sidecar that may fail), where
  `tuning.rs:207` and 255 return without a rollback, and an append of the rollback
  that fails (`tuning.rs:211`, 222); a rollback after a failed probe takes an
  index away that had been there before; the next round starts with a budget of 0
  used; only the first sample that matches is probed.
- Values: `from_token` takes `decimal:+2` and `vector:+8`; `in_range` looks at the
  upper bound only if the lower one passes.
- Host: a client accepted as the host stops is closed unanswered; requests that are
  malformed or fail the token are counted neither accepted nor rejected; a scrape
  may show more histogram entries than requests, because the counters are read first and bumped
  first; a namespace named `_other` shares the overflow label.

## 8. Not modelled

- `migrate_unnamespaced_with`, command lines, the text of metrics, JSON and the
  byte codecs, checksums and ciphers: a page, a frame or a snapshot reads back or
  does not, and a wire request is its parsed form.
- Spikes, benches, examples, scripts and build files.
- Of the read path: nearest-neighbour pages, geo and series predicates inside
  `evaluate` (their value side is in `Values`), the distinct, minimum and maximum
  of a breakdown, vector distances.
- Of descriptors: links and their retargeting. Of `Sidecar`: encrypted logs
  (`KeyCatalog` has their snapshots) and schema history. Of `StoreActions`:
  several kinds and namespaces, and `create` above generation 1. Of
  `StreamApply`: merges of overlays under a source's change.
- In `LogWriter` the policy 0 stands for `SyncPolicy::None` and 1 for `Page`;
  the code's `Group(0)` syncs at every page as `Page` does.
