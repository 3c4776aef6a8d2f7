----------------------------- MODULE LogWriter -----------------------------
(***************************************************************************)
(* The paged object log of src/src/log.rs: one writer, one file.           *)
(*                                                                         *)
(* Page 0 of the file is the superblock: it holds the commit point, the    *)
(* number of data pages that are the log.  Records are buffered in one     *)
(* page, full pages are written behind the commit point, and a commit      *)
(* syncs the pages and then replaces the superblock in place.  The caller  *)
(* is the Store: single writes, batches under a held commit point          *)
(* (Store::atomically), schema writes that migrate overlays under a held   *)
(* commit point, stream windows, and split commits staged beside readers.  *)
(*                                                                         *)
(* Every write, sync, truncate and superblock replacement is a step of its *)
(* own that may fail, and the process or the machine may stop between any  *)
(* two of them.                                                            *)
(*                                                                         *)
(* A record is its number in append order.  A page is the set of records   *)
(* it holds; the framing, the checksum and the encryption of a page are    *)
(* abstracted to whether it reads back (Hole: it does not).                *)
(***************************************************************************)
EXTENDS Naturals, FiniteSets

CONSTANTS
  MaxPages,     \* bound: data pages in the file
  MaxRecords,   \* bound: records ever appended
  PerPage,      \* bound: records that fit one page
  Groups,       \* sync policies: 0 is None, 1 is Page, n is Group(n)
  Faults,       \* faults of the environment beyond clean I/O errors
  Torn          \* a superblock whose checksum does not match

(***************************************************************************)
(* "short_write": write_all fails after part of the page was written.      *)
(* "torn_superblock": the old and the new superblock differ in more than   *)
(* one unit the device writes at once (a grown key catalog), so a power    *)
(* loss can leave neither.                                                 *)
(* "rollback_io": truncating the file fails in a rollback.                 *)
(***************************************************************************)
FaultKinds == {"short_write", "torn_superblock", "rollback_io"}

ASSUME BoundsAssumption ==
  /\ MaxPages \in Nat \ {0}
  /\ MaxRecords \in Nat
  /\ PerPage \in Nat \ {0}
ASSUME PolicyAssumption == Groups \subseteq Nat /\ Groups # {}
ASSUME FaultAssumption == Faults \subseteq FaultKinds
ASSUME TornAssumption == Torn \notin Nat

Slots == 1..MaxPages
Records == 1..MaxRecords
Hole == {}

VARIABLES
  disk,       \* data pages as the operating system shows them
  super,      \* commit point in the superblock as the system shows it
  durable,    \* slots whose shown content survives a power loss
  dsuper,     \* commit point that is certain to have reached the device
  group,      \* the sync policy
  buf,        \* LogWriter::page: records not yet in a written page
  written,    \* LogWriter::written
  committed,  \* LogWriter::committed
  synced,     \* LogWriter::synced
  hold,       \* LogWriter::hold_commits
  failed,     \* LogWriter::failed, the poison flag
  pos,        \* slot at the file position
  skew,       \* the file position is inside that slot, not at its start
  pc,         \* step of the call in progress; "idle"; "down" without a process
  op,         \* the call in progress: "append", "flush", "stream"
  mode,       \* "single"; inside Store::atomically "batch"; "migrate"
  held,       \* hold before the migrating write set it
  staged,     \* the StagedCommit in progress
  next,       \* history: number of the next record
  born,       \* history: next when this process opened the log
  batch,      \* history: records of the batch or migration in progress
  units,      \* history: record sets that must commit whole
  acked,      \* history: records a successful commit acknowledged
  dropped     \* history: records a rollback or a reopen dropped

fileVars == <<disk, super, durable, dsuper>>
writerVars == <<buf, written, committed, synced, hold, failed, pos, skew>>
callVars == <<pc, op, mode, held, staged>>
historyVars == <<next, born, batch, units, acked, dropped>>
vars == <<fileVars, group, writerVars, callVars, historyVars>>

(* The pages of a staged commit: the slot each of its records is on.       *)
NoStage == [upto |-> 0, synced |-> 0, slot |-> [r \in Records |-> 0]]

(* Records on the first n data pages: what a replay of a log whose commit  *)
(* point is n returns.                                                     *)
Log(n) == UNION {disk[i] : i \in 1..n}

(* An open succeeds: the superblock verifies and no committed page is      *)
(* missing or fails its checksum.                                          *)
Openable == super # Torn /\ \A i \in 1..super : disk[i] # Hole

(* Group(n) syncs once n pages are written since the last sync.            *)
GroupFull(n, since) == group > 0 /\ n - since >= group

(* Mutant of HasPending: only whole pages count, the buffered one does not. *)
PendingPagesOnly == written > committed

HasPending == buf # {} \/ written > committed

-----------------------------------------------------------------------------
(* Fragments: the file, and what the Store does with an Err.               *)

(* Mutant of SyncFile: the sync call is lost.                              *)
SyncNothing == UNCHANGED <<durable, dsuper>>

SyncFile == durable' = Slots /\ dsuper' = super

(* Mutant of Truncate: the length is one page short.                       *)
TruncateShort(n) ==
  /\ disk' = [i \in Slots |-> IF i < n THEN disk[i] ELSE Hole]
  /\ durable' = durable \cap 1..n

(* set_len: the slots behind n are gone, and nothing says the device       *)
(* already knows.                                                          *)
Truncate(n) ==
  /\ disk' = [i \in Slots |-> IF i <= n THEN disk[i] ELSE Hole]
  /\ durable' = durable \cap 1..n

(* A write at a position inside a slot spoils that slot and the next one.  *)
PutPage(page) ==
  /\ disk' = [i \in Slots |->
       IF i = pos /\ ~skew THEN page
       ELSE IF i \in {pos, pos + 1} /\ skew THEN Hole ELSE disk[i]]
  /\ durable' = durable \ {pos, pos + 1}
  /\ pos' = pos + 1
  /\ UNCHANGED <<skew, super, dsuper>>

(* Mutant of SetHold: the commit point is not held.                        *)
SetHoldIgnored(h) == UNCHANGED hold /\ synced' = committed

SetHold(h) == hold' = h /\ synced' = committed

(* The error branch of the caller: Store::atomically and a failed overlay  *)
(* migration roll back, StreamApply::flush holds again, and a single write *)
(* just returns.  An error of a migration's first append returns before    *)
(* the hold is restored.                                                   *)
ReturnErr ==
  \/ /\ mode = "batch" \/ (mode = "migrate" /\ batch # {})
     /\ SetHold(mode = "migrate" /\ held)
     /\ pc' = "abort"
     /\ UNCHANGED mode
  \/ /\ mode = "migrate" /\ batch = {}
     /\ pc' = "idle" /\ mode' = "single"
     /\ UNCHANGED <<hold, synced>>
  \/ /\ mode = "single" /\ op = "stream"
     /\ SetHold(TRUE)
     /\ pc' = "idle"
     /\ UNCHANGED mode
  \/ /\ mode = "single" /\ op # "stream"
     /\ pc' = "idle"
     /\ UNCHANGED <<hold, synced, mode>>

(* Mutant of ReturnPoisoned: the writer stays usable.                      *)
ReturnUsable ==
  /\ UNCHANGED failed
  /\ pc' = "idle"
  /\ mode' = "single"

(* The writer is poisoned: every further call fails until a reopen.        *)
ReturnPoisoned ==
  /\ failed' = TRUE
  /\ pc' = "idle"
  /\ mode' = "single"

-----------------------------------------------------------------------------
(* Calls of the Store that start in "idle".                                *)

Usable == pc = "idle" /\ ~failed

(* append_record: the record joins the buffered page, or the page is       *)
(* flushed first because the record does not fit or has another tenant.    *)
AppendTo(h, joins) ==
  /\ Usable /\ next \in Records
  /\ op' = "append"
  /\ IF h THEN SetHold(TRUE) ELSE UNCHANGED <<hold, synced>>
  /\ \/ /\ buf = {} \/ (joins /\ Cardinality(buf) < PerPage)
        /\ buf' = buf \union {next}
        /\ next' = next + 1
        /\ batch' = IF mode = "single" THEN batch ELSE batch \union {next}
        /\ UNCHANGED pc
     \/ /\ buf # {} /\ ~joins
        /\ written < MaxPages
        /\ pc' = "page"
        /\ UNCHANGED <<buf, next, batch>>
  /\ UNCHANGED <<fileVars, group, written, committed, failed, pos, skew, mode,
                 held, staged, born, units, acked, dropped>>

(* Store::append_uncommitted, alone or inside a batch or a migration.      *)
AppendUncommitted(joins) == AppendTo(FALSE, joins)

(* StreamApply::apply: hold the commit point, then append.                 *)
Push(joins) == mode = "single" /\ AppendTo(TRUE, joins)

(* flush: the page, then the commit.  The caller decides what to hold.     *)
StartFlush(o, h) ==
  /\ Usable
  /\ buf # {} => written < MaxPages
  /\ op' = o
  /\ IF h = hold THEN UNCHANGED <<hold, synced>> ELSE SetHold(h)
  /\ pc' = IF buf = {} THEN "resume" ELSE "page"
  /\ UNCHANGED <<fileVars, group, buf, written, committed, failed, pos, skew,
                 held, staged, next, born, acked, dropped>>

(* Store::commit.                                                          *)
Flush ==
  /\ mode = "single"
  /\ StartFlush("flush", hold)
  /\ UNCHANGED <<mode, batch, units>>

(* StreamApply::flush: release the hold and commit.                        *)
StreamFlush ==
  /\ mode = "single"
  /\ StartFlush("stream", FALSE)
  /\ UNCHANGED <<mode, batch, units>>

(* Store::atomically holds the commit point after it committed whatever    *)
(* was pending (a Flush of its own).                                       *)
BeginBatch ==
  /\ Usable /\ mode = "single" /\ ~HasPending
  /\ SetHold(TRUE)
  /\ mode' = "batch" /\ batch' = {}
  /\ UNCHANGED <<fileVars, group, buf, written, committed, failed, pos, skew,
                 pc, op, held, staged, next, born, units, acked, dropped>>

(* Store::atomically releases the hold and flushes.                        *)
EndBatch ==
  /\ mode = "batch" /\ batch # {}
  /\ StartFlush("flush", FALSE)
  /\ units' = units \union {batch}
  /\ UNCHANGED <<mode, batch>>

(* The closure of Store::atomically fails by itself (an admission error).  *)
FailBatch ==
  /\ Usable /\ mode = "batch"
  /\ ReturnErr
  /\ UNCHANGED <<fileVars, group, buf, written, committed, failed, pos, skew,
                 op, held, staged, historyVars>>

(* write_uncommitted of a schema that migrates overlays.                   *)
BeginMigrate ==
  /\ Usable /\ mode = "single"
  /\ SetHold(TRUE) /\ held' = hold
  /\ mode' = "migrate" /\ batch' = {}
  /\ UNCHANGED <<fileVars, group, buf, written, committed, failed, pos, skew,
                 pc, op, staged, next, born, units, acked, dropped>>

EndMigrate ==
  /\ Usable /\ mode = "migrate" /\ batch # {}
  /\ IF held THEN UNCHANGED <<hold, synced>> ELSE SetHold(FALSE)
  /\ mode' = "single"
  /\ units' = units \union {batch}
  /\ batch' = {} /\ held' = FALSE
  /\ UNCHANGED <<fileVars, group, buf, written, committed, failed, pos, skew,
                 pc, op, staged, next, born, acked, dropped>>

-----------------------------------------------------------------------------
(* Steps of append_record and flush.                                       *)

(* flush_page: write the buffered page at the file position.  Under a hold *)
(* pages are only synced in groups; SyncPolicy::None advances the commit   *)
(* point with every page; Group(n) commits every n pages.                  *)
WritePage ==
  /\ pc = "page"
  /\ PutPage(buf)
  /\ written' = written + 1
  /\ buf' = {}
  /\ committed' = IF group = 0 /\ ~hold THEN written' ELSE committed
  /\ pc' = IF hold
           THEN IF GroupFull(written', synced) THEN "hold_sync" ELSE "resume"
           ELSE IF group = 0 THEN "super"
           ELSE IF GroupFull(written', committed) THEN "sync" ELSE "resume"
  /\ UNCHANGED <<group, synced, hold, failed, op, mode, held, staged,
                 historyVars>>

(* write_all fails.  A short write moves the file position into the slot.  *)
WritePageFails ==
  /\ pc = "page"
  /\ \/ UNCHANGED <<disk, durable, skew>>
     \/ /\ "short_write" \in Faults
        /\ disk' = [disk EXCEPT ![pos] = Hole]
        /\ durable' = durable \ {pos}
        /\ skew' = TRUE
  /\ ReturnErr
  /\ UNCHANGED <<super, dsuper, group, buf, written, committed, failed, pos,
                 op, held, staged, historyVars>>

HoldSync ==
  /\ pc = "hold_sync"
  /\ SyncFile
  /\ synced' = written
  /\ pc' = "resume"
  /\ UNCHANGED <<disk, super, group, buf, written, committed, hold, failed,
                 pos, skew, op, mode, held, staged, historyVars>>

(* commit_pending: sync the pages, then move the commit point in memory.   *)
Sync ==
  /\ pc = "sync"
  /\ IF group > 0 THEN SyncFile ELSE UNCHANGED <<durable, dsuper>>
  /\ committed' = written
  /\ pc' = "super"
  /\ UNCHANGED <<disk, super, group, buf, written, synced, hold, failed, pos,
                 skew, op, mode, held, staged, historyVars>>

(* A failed data sync leaves everything pending and the writer usable.     *)
SyncFails ==
  /\ pc \in {"hold_sync", "sync"} /\ group > 0
  /\ ReturnErr
  /\ UNCHANGED <<fileVars, group, buf, written, committed, failed, pos, skew,
                 op, held, staged, historyVars>>

(* write_superblock: page 0 is overwritten in place, then synced.          *)
WriteSuper ==
  /\ pc = "super"
  /\ super' = committed
  /\ pc' = IF group > 0 THEN "super_sync" ELSE "resume"
  /\ UNCHANGED <<disk, durable, dsuper, group, writerVars, op, mode, held,
                 staged, historyVars>>

SyncSuper ==
  /\ pc = "super_sync"
  /\ SyncFile
  /\ pc' = "resume"
  /\ UNCHANGED <<disk, super, group, writerVars, op, mode, held, staged,
                 historyVars>>

(* The new superblock may or may not have landed: poison, never truncate.  *)
SuperFails ==
  /\ \/ pc = "super" /\ super' \in {super, committed}
     \/ pc = "super_sync" /\ UNCHANGED super
  /\ ReturnPoisoned
  /\ UNCHANGED <<disk, durable, dsuper, group, buf, written, committed, synced,
                 hold, pos, skew, op, held, staged, historyVars>>

(* After a flushed page: the record that did not fit starts the new page.  *)
ResumeAppend ==
  /\ pc = "resume" /\ op = "append"
  /\ buf' = {next}
  /\ next' = next + 1
  /\ batch' = IF mode = "single" THEN batch ELSE batch \union {next}
  /\ pc' = "idle"
  /\ UNCHANGED <<fileVars, group, written, committed, synced, hold, failed,
                 pos, skew, op, mode, held, staged, born, units, acked,
                 dropped>>

(* After a flushed page: commit_pending, which has nothing left to do when *)
(* the page's own group commit covered it.                                 *)
ResumeFlush ==
  /\ pc = "resume" /\ op # "append" /\ written > committed
  /\ pc' = "sync"
  /\ UNCHANGED <<fileVars, group, writerVars, op, mode, held, staged,
                 historyVars>>

(* flush returns Ok: everything this process appended and committed is     *)
(* acknowledged.                                                           *)
ReturnOk ==
  /\ pc = "resume" /\ op # "append" /\ written = committed
  /\ acked' = acked \union {r \in Log(committed) : r >= born}
  /\ pc' = "idle" /\ mode' = "single"
  /\ batch' = {}
  /\ UNCHANGED <<fileVars, group, writerVars, op, held, staged, next, born,
                 units, dropped>>

(* Mutant of Discard: the buffered page is kept.                           *)
DiscardKeepsBuffer ==
  /\ pc = "abort"
  /\ Truncate(committed)
  /\ written' = committed /\ synced' = committed
  /\ pos' = committed + 1 /\ skew' = FALSE
  /\ dropped' = dropped \union {r \in born..(next - 1) : r \notin Log(committed)}
  /\ pc' = "idle" /\ mode' = "single" /\ batch' = {}
  /\ UNCHANGED <<buf, super, dsuper, group, committed, hold, failed, op, held,
                 staged, next, born, units, acked>>

(* discard_pending, from Store::abort_uncommitted.  The live projection is *)
(* rebuilt from the committed log in the same call.                        *)
Discard ==
  /\ pc = "abort"
  /\ Truncate(committed)
  /\ buf' = {} /\ written' = committed /\ synced' = committed
  /\ pos' = committed + 1 /\ skew' = FALSE
  /\ dropped' = dropped \union {r \in born..(next - 1) : r \notin Log(committed)}
  /\ pc' = "idle" /\ mode' = "single" /\ batch' = {}
  /\ UNCHANGED <<super, dsuper, group, committed, hold, failed, op, held,
                 staged, next, born, units, acked>>

(* set_len fails: the memory side of discard_pending is done, the file     *)
(* keeps its pages and its position.  Store::atomically then poisons the   *)
(* writer; a failed overlay migration does not.                            *)
DiscardFails ==
  /\ pc = "abort"
  /\ mode = "migrate" => "rollback_io" \in Faults
  /\ buf' = {} /\ written' = committed /\ synced' = committed
  /\ failed' = (mode = "batch")
  /\ dropped' = dropped \union {r \in born..(next - 1) : r \notin Log(committed)}
  /\ pc' = "idle" /\ mode' = "single" /\ batch' = {}
  /\ UNCHANGED <<fileVars, group, committed, hold, pos, skew, op, held, staged,
                 next, born, units, acked>>

-----------------------------------------------------------------------------
(* Split commits: stage, write_staged and adopt_staged.  Readers share the *)
(* store until Adopt, so the writer's own counters stay at the old commit. *)

StagedPage(i) == {r \in Records : staged.slot[r] = i}

StagedRecords == {r \in Records : staged.slot[r] # 0}

(* How k records may be laid out on the n pages behind the commit point:   *)
(* in append order, no page empty, none above its capacity.                *)
Layouts(n, k) ==
  {f \in [next..(next + k - 1) -> (written + 1)..(written + n)] :
     /\ \A r, s \in DOMAIN f : r < s => f[r] <= f[s]
     /\ \A i \in (written + 1)..(written + n) :
          Cardinality({r \in DOMAIN f : f[r] = i}) \in 1..PerPage}

(* stage seals k records into n pages, if the writer has nothing pending   *)
(* and nothing held; write_staged seeks behind the commit point.           *)
Stage(n, k) ==
  /\ Usable /\ mode = "single" /\ ~HasPending /\ ~hold
  /\ written + n <= MaxPages
  /\ next + k - 1 <= MaxRecords
  /\ \E f \in Layouts(n, k) :
       staged' = [upto |-> written + n, synced |-> committed,
                  slot |-> [r \in Records |-> IF r \in DOMAIN f THEN f[r] ELSE 0]]
  /\ next' = next + k
  /\ units' = units \union {next..(next + k - 1)}
  /\ pos' = written + 1 /\ skew' = FALSE
  /\ pc' = "st_page"
  /\ UNCHANGED <<fileVars, group, buf, written, committed, synced, hold,
                 failed, op, mode, held, born, batch, acked, dropped>>

(* One page; a durable policy syncs every group and after the last page.   *)
StagePage ==
  /\ pc = "st_page"
  /\ PutPage(StagedPage(pos))
  /\ pc' = IF group > 0 /\ (pos = staged.upto \/ GroupFull(pos, staged.synced))
           THEN "st_sync"
           ELSE IF pos < staged.upto THEN "st_page" ELSE "st_super"
  /\ UNCHANGED <<group, buf, written, committed, synced, hold, failed, op,
                 mode, held, staged, historyVars>>

StageSync ==
  /\ pc = "st_sync"
  /\ SyncFile
  /\ staged' = [staged EXCEPT !.synced = pos - 1]
  /\ pc' = IF pos <= staged.upto THEN "st_page" ELSE "st_super"
  /\ UNCHANGED <<disk, super, group, writerVars, op, mode, held, historyVars>>

(* A failed page write or sync: the new pages are truncated away.          *)
StageFails ==
  /\ pc \in {"st_page", "st_sync"}
  /\ Truncate(written)
  /\ pos' = written + 1 /\ skew' = FALSE
  /\ dropped' = dropped \union StagedRecords
  /\ staged' = NoStage
  /\ pc' = "idle"
  /\ UNCHANGED <<super, dsuper, group, buf, written, committed, synced, hold,
                 failed, op, mode, held, next, born, batch, units, acked>>

(* The truncate fails too: poison.                                         *)
StageTruncateFails ==
  /\ pc \in {"st_page", "st_sync"}
  /\ ReturnPoisoned
  /\ UNCHANGED <<fileVars, group, buf, written, committed, synced, hold, pos,
                 skew, op, held, staged, historyVars>>

(* Mutant of StageSuper: the superblock is never synced.                   *)
StageSuperUnsynced ==
  /\ pc = "st_super"
  /\ super' = staged.upto
  /\ pc' = "adopt"
  /\ UNCHANGED <<disk, durable, dsuper, group, writerVars, op, mode, held,
                 staged, historyVars>>

StageSuper ==
  /\ pc = "st_super"
  /\ super' = staged.upto
  /\ pc' = IF group > 0 THEN "st_super_sync" ELSE "adopt"
  /\ UNCHANGED <<disk, durable, dsuper, group, writerVars, op, mode, held,
                 staged, historyVars>>

StageSuperSync ==
  /\ pc = "st_super_sync"
  /\ SyncFile
  /\ pc' = "adopt"
  /\ UNCHANGED <<disk, super, group, writerVars, op, mode, held, staged,
                 historyVars>>

StageSuperFails ==
  /\ \/ pc = "st_super" /\ super' \in {super, staged.upto}
     \/ pc = "st_super_sync" /\ UNCHANGED super
  /\ ReturnPoisoned
  /\ UNCHANGED <<disk, durable, dsuper, group, buf, written, committed, synced,
                 hold, pos, skew, op, held, staged, historyVars>>

(* Exclusive access: the writer moves to the new commit point, the records *)
(* are applied, and the batch is acknowledged.                             *)
Adopt ==
  /\ pc = "adopt"
  /\ written' = staged.upto /\ committed' = staged.upto
  /\ synced' = staged.upto
  /\ acked' = acked \union StagedRecords
  /\ staged' = NoStage
  /\ pc' = "idle"
  /\ UNCHANGED <<fileVars, group, buf, hold, failed, pos, skew, op, mode, held,
                 next, born, batch, units, dropped>>

(* A durable batch that cannot be applied poisons the writer.              *)
AdoptFails ==
  /\ pc = "adopt"
  /\ ReturnPoisoned
  /\ UNCHANGED <<fileVars, group, buf, written, committed, synced, hold, pos,
                 skew, op, held, staged, historyVars>>

-----------------------------------------------------------------------------
(* The process and the machine.                                            *)

(* What is lost with the process; pc "down" is the only thing left of it.  *)
ProcessGone ==
  /\ pc' = "down" /\ op' = "append" /\ mode' = "single" /\ held' = FALSE
  /\ staged' = NoStage
  /\ buf' = {} /\ written' = 0 /\ committed' = 0 /\ synced' = 0
  /\ hold' = FALSE /\ failed' = FALSE /\ pos' = 1 /\ skew' = FALSE
  /\ batch' = {}

(* The process dies: the system keeps every write it has seen.             *)
Kill ==
  /\ pc # "down"
  /\ ProcessGone
  /\ UNCHANGED <<fileVars, group, next, born, units, acked, dropped>>

(* The machine dies.  What was not synced is kept or lost page by page,    *)
(* and the superblock is the old one, the new one or, if the device tears  *)
(* it, neither (a split commit never grows the catalog, so only append and *)
(* flush are exposed).  A log without syncs promises nothing here.         *)
PowerLoss ==
  /\ group > 0
  /\ ProcessGone
  /\ \E keep \in SUBSET Slots :
       /\ durable \subseteq keep
       /\ disk' = [i \in Slots |-> IF i \in keep THEN disk[i] ELSE Hole]
  /\ \/ super' \in {super, dsuper}
     \/ "torn_superblock" \in Faults /\ pc = "super_sync" /\ super' = Torn
  /\ durable' = Slots /\ dsuper' = super'
  /\ UNCHANGED <<group, next, born, units, acked, dropped>>

(* open_inner: the writer starts at the superblock's commit point, and     *)
(* pages behind it stay in the file as orphans.                            *)
Open ==
  /\ pc = "down" /\ Openable
  /\ written' = super /\ committed' = super /\ synced' = super
  /\ pos' = super + 1
  /\ pc' = "idle"
  /\ born' = next
  /\ dropped' = dropped \union {r \in 1..(next - 1) : r \notin Log(super)}
  /\ UNCHANGED <<fileVars, group, buf, hold, failed, skew, op, mode, held,
                 staged, next, batch, units, acked>>

Init ==
  /\ disk = [i \in Slots |-> Hole] /\ super = 0
  /\ durable = Slots /\ dsuper = 0
  /\ group \in Groups
  /\ buf = {} /\ written = 0 /\ committed = 0 /\ synced = 0
  /\ hold = FALSE /\ failed = FALSE /\ pos = 1 /\ skew = FALSE
  /\ pc = "idle" /\ op = "append" /\ mode = "single" /\ held = FALSE
  /\ staged = NoStage
  /\ next = 1 /\ born = 1 /\ batch = {} /\ units = {}
  /\ acked = {} /\ dropped = {}

Next ==
  \/ \E joins \in BOOLEAN : AppendUncommitted(joins) \/ Push(joins)
  \/ Flush \/ StreamFlush
  \/ BeginBatch \/ EndBatch \/ FailBatch \/ BeginMigrate \/ EndMigrate
  \/ WritePage \/ WritePageFails \/ HoldSync \/ Sync \/ SyncFails
  \/ WriteSuper \/ SyncSuper \/ SuperFails
  \/ ResumeAppend \/ ResumeFlush \/ ReturnOk \/ Discard \/ DiscardFails
  \/ \E n \in Slots, k \in Records : Stage(n, k)
  \/ StagePage \/ StageSync \/ StageFails \/ StageTruncateFails
  \/ StageSuper \/ StageSuperSync \/ StageSuperFails \/ Adopt \/ AdoptFails
  \/ Kill \/ PowerLoss \/ Open

Spec == Init /\ [][Next]_vars

-----------------------------------------------------------------------------
(* Properties.                                                             *)

PCs == {"idle", "page", "hold_sync", "sync", "super", "super_sync", "resume",
        "abort", "st_page", "st_sync", "st_super", "st_super_sync", "adopt",
        "down"}

FileType ==
  /\ disk \in [Slots -> SUBSET Records]
  /\ super \in 0..MaxPages \union {Torn} /\ dsuper \in 0..MaxPages \union {Torn}
  /\ durable \subseteq Slots
  /\ group \in Groups

WriterType ==
  /\ buf \subseteq Records
  /\ written \in 0..MaxPages /\ committed \in 0..MaxPages
  /\ synced \in 0..MaxPages
  /\ hold \in BOOLEAN /\ failed \in BOOLEAN
  /\ pos \in 1..(MaxPages + 1) /\ skew \in BOOLEAN

CallType ==
  /\ pc \in PCs /\ op \in {"append", "flush", "stream"}
  /\ mode \in {"single", "batch", "migrate"} /\ held \in BOOLEAN
  /\ staged \in [upto : 0..MaxPages, synced : 0..MaxPages,
                 slot : [Records -> 0..MaxPages]]

HistoryType ==
  /\ next \in 1..(MaxRecords + 1) /\ born \in 1..(MaxRecords + 1)
  /\ batch \subseteq Records /\ units \subseteq SUBSET Records
  /\ acked \subseteq Records /\ dropped \subseteq Records

(* Every variable has the type its field or file region has in log.rs.     *)
TypeOK == FileType /\ WriterType /\ CallType /\ HistoryType

(* Whatever stops the process or the machine, and wherever, the log opens  *)
(* again and holds every acknowledged record (README.md:21, log.rs flush   *)
(* and write_staged).                                                      *)
AckedSurvive == pc = "down" => Openable /\ acked \subseteq Log(super)

(* The log a reopen reads is a prefix of what was appended: no record is   *)
(* in it while an earlier one, neither rolled back nor lost with an        *)
(* earlier process, is missing, and pages hold records in append order.    *)
PrefixRecovered ==
  Openable =>
    /\ \A r \in Log(super) : \A s \in 1..r : s \in Log(super) \/ s \in dropped
    /\ \A i, j \in 1..super : i < j =>
         \A r \in disk[i], s \in disk[j] : r < s

(* A batch, a split commit and an overlay migration are in the log whole   *)
(* or not at all, and none of it is before its end (ADR 0026, ADR 0040).   *)
AtomicUnits ==
  Openable =>
    /\ \A u \in units : u \subseteq Log(super) \/ u \cap Log(super) = {}
    /\ mode # "single" /\ hold => batch \cap Log(super) = {}

(* A record that a rollback dropped, or that a reopen did not find, never  *)
(* comes back from an orphan page behind the commit point.                 *)
NoResurrection == Openable => Log(super) \cap dropped = {}

(* What a reopen would read, at any moment, is the log the writer built:   *)
(* no gap, no torn batch, nothing rolled back.                             *)
RecoveredIsTheLog == PrefixRecovered /\ AtomicUnits /\ NoResurrection

(* While readers may share the store, every page up to the applied commit  *)
(* point reads back; what this process committed is also synced, so a      *)
(* reader never acts on a record a crash takes back (read_applied_pages).  *)
ReadersMayRun ==
  pc \in {"idle", "st_page", "st_sync", "st_super", "st_super_sync", "adopt"}

AppliedIsDurable ==
  ReadersMayRun /\ ~failed =>
    /\ \A i \in 1..committed : disk[i] # Hole
    /\ group > 0 =>
         \A i \in 1..committed : (\E r \in disk[i] : r >= born) =>
           i \in durable /\ i <= dsuper

(* Pages the superblock covers are never rewritten while it covers them    *)
(* (backup.rs copies them beside the writer; ADR 0037).                    *)
CommittedPagesFixed ==
  [][super # Torn /\ super' # Torn =>
       \A i \in 1..super : i <= super' => disk'[i] = disk[i]]_vars

-----------------------------------------------------------------------------
(* LogWriter implements DurableLog, whose log is what a reopen would read. *)
(* With a torn superblock nothing is read.                                 *)
Recovered == IF Openable THEN Log(super) ELSE {}

Durable == INSTANCE DurableLog WITH log <- Recovered

(* Every step of the writer, of a fault and of a crash is a step of the    *)
(* abstract log, or none.                                                  *)
ImplementsDurableLog == Durable!Spec

=============================================================================
