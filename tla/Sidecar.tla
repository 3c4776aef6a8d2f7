------------------------------ MODULE Sidecar ------------------------------
(***************************************************************************)
(* The projection files beside the log (src/src/store/sidecar.rs,          *)
(* checkpoint.rs, durable.rs): {log}.joins, {log}.joins.delta, {log}.ckpt  *)
(* and {log}.ckpt.prev, how a commit, a checkpoint, an open or a close     *)
(* writes them, and what an open or a rollback makes of those it finds.    *)
(*                                                                         *)
(* A committed page of the log is one record of one identity that claims   *)
(* one Action id, the number of the page; the row of an identity is the    *)
(* page it was last written by, 0 before that.  The log comes from         *)
(* LogWriter: a commit is durable before the projection is persisted.      *)
(*                                                                         *)
(* dir is the directory as the system shows it and dirs what a power loss  *)
(* may leave of it: every directory since the last directory sync, with a  *)
(* file that is being appended to in either form.  The files are written   *)
(* in steps, and each may fail, be the last of the process, or of the      *)
(* machine.  Encrypted logs and schema histories are left out.             *)
(***************************************************************************)
EXTENDS Integers, SequencesExt

CONSTANTS
  Ids,         \* identities
  MaxCommits,  \* bound: pages of the log
  MaxDelta,    \* delta_compact_bytes, in cells of the delta file
  MaxUnsynced, \* bound: directories a power loss may leave
  Share,       \* dirty * Share above the identities compacts (4 in the code)
  NoFile,      \* an absent file
  FileFaults   \* "create": the log took the place of an older store's, and
               \* the removal of the old files was not synced

ASSUME BoundAssumption ==
  /\ MaxCommits \in Nat \ {0} /\ MaxDelta \in Nat /\ Share \in Nat
  /\ MaxUnsynced \in Nat
  /\ Ids # {} /\ IsFiniteSet(Ids)
ASSUME FileFaultAssumption == FileFaults \subseteq {"create"}

(* What the files hold; an absent one is none of them.                     *)
Rows == [Ids -> Nat]
JoinsFiles == [pages : Nat, rows : Rows]
CkptFiles == [pages : Nat, rows : Rows, acts : SUBSET Nat]
CellSet == [cell : {"head", "row", "crc"}, id : Ids \cup {NoFile}, page : Nat, n : Nat]
DeltaFiles == [cells : Seq(CellSet), born : Nat]

ASSUME NoFileAssumption == NoFile \notin JoinsFiles \cup CkptFiles \cup DeltaFiles

VARIABLES
  log,        \* the identity each committed page writes
  compacted,  \* Action ids a compacted log keeps in its checkpoint only
  dir,        \* the files: joins, delta, ckpt, prev
  dirs,
  mem,        \* the projection fields of the Store
  job,        \* what is persisting: "commit", "install" or "close"
  step

filesVars == <<log, compacted, dir, dirs, mem, job, step>>

-----------------------------------------------------------------------------
(* Rows, catalogs and what the log says they are.                          *)

LogPages == Len(log)
NoRows == [i \in Ids |-> 0]

(* replay_tail: the rows after the pages behind from were applied.         *)
Replayed(rows, from) ==
  [i \in Ids |-> Max({rows[i]} \cup {p \in (from + 1)..LogPages : log[p] = i})]

RowsOfLog == Replayed(NoRows, 0)
Claimed == compacted \cup 1..LogPages

Snapshot(m) == [pages |-> LogPages, rows |-> m.rows]
FullSnapshot(m) == [pages |-> LogPages, rows |-> m.rows, acts |-> m.acts]

-----------------------------------------------------------------------------
(* The delta file: frames behind each other, each a head with the commit   *)
(* point and the number of its rows, the rows, and a checksum.             *)

Cell(what, i, page, n) == [cell |-> what, id |-> i, page |-> page, n |-> n]

FrameOf(pages, rows, ids) ==
  <<Cell("head", NoFile, pages, Cardinality(ids))>>
    \o [k \in 1..Cardinality(ids) |-> Cell("row", SetToSeq(ids)[k], rows[SetToSeq(ids)[k]], 0)]
    \o <<Cell("crc", NoFile, 0, 0)>>

(* delta_frame_body_len: the head says how many rows follow.               *)
BodyLen(cells, at) == 1 + cells[at].n

(* take_delta_frame: the frame that begins at a cell is all there.         *)
WholeFrame(cells, at) == at <= Len(cells) /\ at + BodyLen(cells, at) <= Len(cells)

(* apply_delta: where the frames begin that are read before a torn tail.   *)
Heads(cells) ==
  LET from[at \in 1..(Len(cells) + 1)] ==
        IF WholeFrame(cells, at) THEN {at} \cup from[at + BodyLen(cells, at) + 1] ELSE {}
  IN from[1]

(* What the good frames take up, and the commit point of the last one.     *)
GoodCells(cells) ==
  IF Heads(cells) = {} THEN 0
  ELSE LET last == Max(Heads(cells)) IN last + BodyLen(cells, last)

DeltaStamp(cells) == cells[Max(Heads(cells))].page

(* Mutant of RowsAt: the last row is left out.                             *)
RowsButLast(cells, at) == (at + 1)..(at + cells[at].n - 1)

(* read_delta_rows: where the rows are of the frame that begins at a cell. *)
RowsAt(cells, at) == (at + 1)..(at + cells[at].n)

(* apply_delta_body, frame by frame: the last row of an identity wins.     *)
Overlay(rows, cells) ==
  LET of(i) == {k \in UNION {RowsAt(cells, at) : at \in Heads(cells)} : cells[k].id = i}
  IN [i \in Ids |-> IF of(i) = {} THEN rows[i] ELSE cells[Max(of(i))].page]

(* A torn tail behind a good frame is cut off; without one nothing reads.  *)
Readable(d) == d.joins # NoFile /\ d.joins.pages <= LogPages /\ d.delta # NoFile
                 => Heads(d.delta.cells) # {}

-----------------------------------------------------------------------------
(* install_projection.                                                     *)

Fits(file) == file # NoFile /\ file.pages <= LogPages

(* Mutant of Checkpoint: the previous one is not looked at.                *)
NewestCheckpoint(d) == IF Fits(d.ckpt) THEN d.ckpt ELSE NoFile

(* The log checkpoint that is loaded, the previous one if it is no good.   *)
Checkpoint(d) ==
  IF Fits(d.ckpt) THEN d.ckpt ELSE IF Fits(d.prev) THEN d.prev ELSE NoFile

(* restore_action_catalog: the catalog of the checkpoint and the tail.     *)
RestoreCatalog(d, acts, fromLog) ==
  IF Checkpoint(d) = NoFile THEN [acts |-> acts, fromLog |-> fromLog]
  ELSE [acts |-> Checkpoint(d).acts \cup (Checkpoint(d).pages + 1)..LogPages,
        fromLog |-> TRUE]

(* The projection fields: persisted as it is, or to be rewritten.          *)
Loaded(rows, cat, bytes) ==
  [rows |-> rows, acts |-> cat.acts, fromLog |-> cat.fromLog,
   dirty |-> {}, hasCkpt |-> TRUE, bytes |-> bytes]
ToRewrite(rows, cat, bytes) ==
  [rows |-> rows, acts |-> cat.acts, fromLog |-> cat.fromLog,
   dirty |-> {}, hasCkpt |-> FALSE, bytes |-> bytes]

(* The tail is applied: it remembers its Action ids, too.                  *)
WithTail(cat, from) == [cat EXCEPT !.acts = @ \cup (from + 1)..LogPages]

FromLog(d) ==
  ToRewrite(RowsOfLog, RestoreCatalog(d, 1..LogPages, TRUE), 0)

(* adopt_log_checkpoint, and a full replay without one.                    *)
FromCheckpoint(d) ==
  LET c == Checkpoint(d)
  IN IF c = NoFile THEN FromLog(d)
     ELSE ToRewrite(Replayed(c.rows, c.pages),
                    WithTail([acts |-> c.acts, fromLog |-> TRUE], c.pages), 0)

(* The sidecar alone.                                                      *)
FromJoins(d) ==
  LET cat == RestoreCatalog(d, {}, FALSE)
  IN IF d.joins.pages = LogPages THEN Loaded(d.joins.rows, cat, 0)
     ELSE ToRewrite(Replayed(d.joins.rows, d.joins.pages), WithTail(cat, d.joins.pages), 0)

(* Mutant of FromDelta: an old delta is not told from a newer one.         *)
FromAnyDelta(d) ==
  LET rows == Overlay(d.joins.rows, d.delta.cells)
      stamp == DeltaStamp(d.delta.cells)
      from == Max({stamp, d.joins.pages})
      cat == RestoreCatalog(d, {}, FALSE)
      bytes == GoodCells(d.delta.cells)
  IN IF stamp = LogPages THEN Loaded(rows, cat, bytes)
     ELSE IF stamp < LogPages THEN ToRewrite(Replayed(rows, from), WithTail(cat, from), bytes)
     ELSE FromLog(d)

(* The sidecar with its delta: up to date, behind, or not to be trusted.   *)
FromDelta(d) ==
  LET rows == Overlay(d.joins.rows, d.delta.cells)
      stamp == DeltaStamp(d.delta.cells)
      cat == RestoreCatalog(d, {}, FALSE)
      bytes == GoodCells(d.delta.cells)
  IN IF stamp = LogPages THEN Loaded(rows, cat, bytes)
     ELSE IF d.joins.pages < stamp /\ stamp < LogPages
     THEN ToRewrite(Replayed(rows, stamp), WithTail(cat, stamp), bytes)
     ELSE FromLog(d)

Installed(d) ==
  IF ~Fits(d.joins) THEN FromCheckpoint(d)
  ELSE IF d.delta = NoFile THEN FromJoins(d)
  ELSE FromDelta(d)

(* A delta without its sidecar is removed.                                 *)
Swept(d) == IF d.joins = NoFile THEN [d EXCEPT !.delta = NoFile] ELSE d

Blank == ToRewrite(NoRows, [acts |-> {}, fromLog |-> TRUE], 0)

(* What an open or a rollback does: the fields are set, and rewritten      *)
(* files follow unless everything was up to date.                          *)
Install ==
  /\ Readable(dir)
  /\ mem' = Installed(dir)
  /\ dir' = Swept(dir) /\ dirs' = dirs \cup {dir'}
  /\ job' = "install"
  /\ step' = IF mem'.hasCkpt THEN "idle" ELSE "persist"
  /\ UNCHANGED <<log, compacted>>

OpenStore == step = "closed" /\ Install

(* The sidecar cannot be read: the open fails until it is deleted.         *)
OpenRefused ==
  /\ step = "closed" /\ ~Readable(dir)
  /\ step' = "refused"
  /\ UNCHANGED <<log, compacted, dir, dirs, mem, job>>

-----------------------------------------------------------------------------
(* The calls of an open store.                                             *)

Stop == mem' = Blank /\ job' = "commit" /\ step' = "closed"

(* What follows a persist that worked.                                     *)
Done(m) == IF job = "close" THEN Stop ELSE mem' = m /\ job' = "commit" /\ step' = "idle"

(* A commit, and the persist that it makes when one is due: always without *)
(* a checkpoint, else by count or by time.  The split commit does the same *)
(* in pieces.                                                              *)
Commit(i) ==
  /\ step = "idle" /\ LogPages < MaxCommits
  /\ log' = Append(log, i)
  /\ mem' = [mem EXCEPT !.rows[i] = LogPages + 1, !.acts = @ \cup {LogPages + 1},
                        !.dirty = @ \cup {i}]
  /\ job' = "commit"
  /\ step' \in IF mem.hasCkpt THEN {"idle", "persist"} ELSE {"persist"}
  /\ UNCHANGED <<compacted, dir, dirs>>

(* ensure_action_commits: the catalog is read from the log.                *)
WholeCatalog ==
  [mem EXCEPT !.fromLog = TRUE, !.acts = IF mem.fromLog THEN @ ELSE @ \cup 1..LogPages]

(* An Action looks its id up.                                              *)
Claim ==
  /\ step = "idle" /\ ~mem.fromLog
  /\ mem' = WholeCatalog
  /\ UNCHANGED <<log, compacted, dir, dirs, job, step>>

(* Store::checkpoint.  An evaluate may have built measures that are not    *)
(* on the sidecar: then it is rewritten, too.                              *)
TakeCheckpoint ==
  /\ step = "idle"
  /\ mem' = WholeCatalog
  /\ job' = "commit"
  /\ step' \in {"persist"} \cup IF mem.dirty = {} /\ mem.hasCkpt THEN {"ckpt"} ELSE {}
  /\ UNCHANGED <<log, compacted, dir, dirs>>

(* abort_uncommitted: a batch is dropped, the projection installed again.  *)
Abort == step = "idle" /\ Install

(* The rollback finds a sidecar it cannot read: the writer is poisoned,    *)
(* the store refuses writes and goes without a persist.                    *)
AbortPoisons ==
  /\ step = "idle" /\ ~Readable(dir)
  /\ Stop
  /\ UNCHANGED <<log, compacted, dir, dirs>>

(* Drop: what is dirty, and measures that are new, are persisted.          *)
Close ==
  /\ step = "idle"
  /\ \/ mem.dirty = {} /\ mem.hasCkpt /\ Stop
     \/ mem' = mem /\ job' = "close" /\ step' = "persist"
  /\ UNCHANGED <<log, compacted, dir, dirs>>

-----------------------------------------------------------------------------
(* persist_projection: a delta frame, or the sidecar and the checkpoint.   *)

NeedsRewrite ==
  ~mem.hasCkpt
    \/ Cardinality(mem.dirty) * Share > Max({1, Cardinality({i \in Ids : mem.rows[i] # 0})})

(* The delta file when a frame is begun: behind the good frames it is cut  *)
(* off, and a part of the frame is written.                                *)
Cut == IF dir.delta = NoFile THEN [cells |-> <<>>, born |-> LogPages]
       ELSE [dir.delta EXCEPT !.cells = SubSeq(@, 1, mem.bytes)]

WithDelta(ds, old, new) ==
  {[d EXCEPT !.delta = IF d.delta = old THEN new ELSE d.delta] : d \in ds}

Frame == FrameOf(LogPages, mem.rows, mem.dirty)

StartFrame ==
  /\ step = "persist" /\ ~NeedsRewrite /\ mem.dirty # {}
  /\ Cardinality(dirs) <= MaxUnsynced
  /\ \E written \in 1..(Len(Frame) - 1) :
     LET torn == [Cut EXCEPT !.cells = @ \o SubSeq(Frame, 1, written)]
     IN /\ dir' = [dir EXCEPT !.delta = torn]
        /\ dirs' = dirs \cup {dir'} \cup
             (IF dir.delta = NoFile THEN {[dir EXCEPT !.delta = Cut]}
              ELSE WithDelta(dirs, dir.delta, Cut) \cup WithDelta(dirs, dir.delta, torn))
  /\ step' = "frame"
  /\ UNCHANGED <<log, compacted, mem, job>>

(* Mutant of AfterFrame: the length of the delta is not kept.              *)
AfterFrameUncounted == [mem EXCEPT !.dirty = {}]

AfterFrame == [mem EXCEPT !.bytes = Len(dir'.delta.cells), !.dirty = {}]

(* The frame is whole and synced, and adopt_delta compacts a long delta.   *)
FinishFrame ==
  /\ step = "frame"
  /\ LET new == [dir.delta EXCEPT !.cells = SubSeq(@, 1, mem.bytes) \o Frame]
     IN /\ dir' = [dir EXCEPT !.delta = new]
        /\ dirs' = {[d EXCEPT !.delta = IF @ # NoFile /\ @.born = new.born
                                        THEN new ELSE @] : d \in dirs}
  /\ IF AfterFrame.bytes > MaxDelta
     THEN mem' = AfterFrame /\ step' = "joins" /\ UNCHANGED job
     ELSE Done(AfterFrame)
  /\ UNCHANGED <<log, compacted>>

StartRewrite ==
  /\ step = "persist"
  /\ step' = "joins"
  /\ UNCHANGED <<log, compacted, dir, dirs, mem, job>>

(* persist_checkpoint: the new sidecar takes the place of the old one.     *)
RenameJoins ==
  /\ step = "joins" /\ Cardinality(dirs) < MaxUnsynced
  /\ dir' = [dir EXCEPT !.joins = Snapshot(mem)]
  /\ dirs' = dirs \cup {dir'}
  /\ step' = "delta"
  /\ UNCHANGED <<log, compacted, mem, job>>

(* The directory is synced and the delta removed, which may fail unseen.   *)
Rewritten == [mem EXCEPT !.dirty = {}, !.hasCkpt = TRUE, !.bytes = 0]

RemoveDelta ==
  /\ step = "delta"
  /\ dir' \in {dir, [dir EXCEPT !.delta = NoFile]}
  /\ dirs' = {dir, dir'}
  /\ IF mem.fromLog THEN mem' = Rewritten /\ step' = "ckpt" /\ UNCHANGED job
     ELSE Done(Rewritten)
  /\ UNCHANGED <<log, compacted>>

(* write_log_checkpoint_at: the current checkpoint becomes the previous.   *)
KeepPrev ==
  /\ step = "ckpt" /\ Cardinality(dirs) < MaxUnsynced
  /\ dir' = IF dir.ckpt = NoFile THEN dir
            ELSE [dir EXCEPT !.prev = dir.ckpt, !.ckpt = NoFile]
  /\ dirs' = dirs \cup {dir'} \cup
       IF dir.ckpt = NoFile THEN {} ELSE {[dir EXCEPT !.prev = NoFile]}
  /\ step' = "publish"
  /\ UNCHANGED <<log, compacted, mem, job>>

(* sync_parent: a power loss leaves the directory as it is now.            *)
SyncParent == dirs' = {dir'}

(* durable::rename.                                                        *)
DurableRename(after) == dir' = after /\ SyncParent

(* The new one takes its name, and one directory sync covers both.         *)
PublishCkpt ==
  /\ step = "publish"
  /\ DurableRename([dir EXCEPT !.ckpt = FullSnapshot(mem)])
  /\ Done(mem)
  /\ UNCHANGED <<log, compacted>>

(* A step of a persist fails: the commit stands and the error is reported, *)
(* an open fails, a rollback poisons, a close does not care.               *)
PersistFails ==
  /\ step \in {"persist", "frame", "joins", "delta", "ckpt", "publish"}
  /\ IF job = "commit" THEN step' = "idle" /\ UNCHANGED <<mem, job>> ELSE Stop
  /\ \/ UNCHANGED <<dir, dirs>>
     \/ /\ step = "publish"
        /\ dir' = [dir EXCEPT !.ckpt = FullSnapshot(mem)]
        /\ dirs' = dirs \cup {dir'}
  /\ UNCHANGED <<log, compacted>>

-----------------------------------------------------------------------------
(* The process, the machine and the operator.                              *)

KillProcess ==
  /\ step \notin {"closed", "refused"}
  /\ Stop
  /\ UNCHANGED <<log, compacted, dir, dirs>>

LosePower ==
  /\ Stop
  /\ dir' \in dirs /\ dirs' = {dir'}
  /\ UNCHANGED <<log, compacted>>

(* The sidecar is deletable: the operator removes it, the delta or both.   *)
OperatorDeletes ==
  /\ step \in {"closed", "refused"}
  /\ dir' \in {[dir EXCEPT !.joins = NoFile], [dir EXCEPT !.delta = NoFile],
               [dir EXCEPT !.joins = NoFile, !.delta = NoFile]}
  /\ dirs' = {dir'}
  /\ Stop
  /\ UNCHANGED <<log, compacted>>

NoFiles == [joins |-> NoFile, delta |-> NoFile, ckpt |-> NoFile, prev |-> NoFile]

(* A new store; or a compacted one, whose checkpoint holds an Action id,   *)
(* 0, that its log does not have.                                          *)
FilesInit ==
  /\ job = "commit"
  /\ mem = Blank
  /\ \/ /\ log = <<>> /\ compacted = {} /\ step = "idle"
        /\ dir = NoFiles
        /\ dirs = {NoFiles} \cup
             IF "create" \in FileFaults
             THEN {[NoFiles EXCEPT !.joins = [pages |-> 1, rows |-> [i \in Ids |-> 1]]]}
             ELSE {}
     \/ \E i \in Ids :
          /\ log = <<i>> /\ compacted = {0} /\ step = "closed"
          /\ dir = [NoFiles EXCEPT !.ckpt =
               [pages |-> 1, rows |-> [NoRows EXCEPT ![i] = 1], acts |-> {0, 1}]]
          /\ dirs = {dir}

FilesNext ==
  \/ \E i \in Ids : Commit(i)
  \/ Claim \/ TakeCheckpoint \/ Abort \/ AbortPoisons \/ Close
  \/ StartFrame \/ FinishFrame
  \/ StartRewrite \/ RenameJoins \/ RemoveDelta \/ KeepPrev \/ PublishCkpt
  \/ PersistFails
  \/ OpenStore \/ OpenRefused
  \/ KillProcess \/ LosePower \/ OperatorDeletes

FilesSpec == FilesInit /\ [][FilesNext]_filesVars

-----------------------------------------------------------------------------
(* Properties.                                                             *)

CompleteIn(m) == m.acts \cup (IF m.fromLog THEN {} ELSE 1..LogPages) = Claimed

(* An open store serves what a replay of its log would give, and no Action *)
(* id is forgotten, those a compaction left only in the checkpoint         *)
(* included: whichever files the open trusted, whatever persist failed     *)
(* half way, the rows that are not dirty being on the sidecar.             *)
ServesTheLog ==
  step = "idle" =>
    /\ mem.rows = RowsOfLog /\ CompleteIn(mem)
    /\ mem.hasCkpt => \A i \in Ids \ mem.dirty :
         mem.rows[i] = Overlay(dir.joins.rows,
                         IF mem.bytes = 0 THEN <<>>
                         ELSE SubSeq(dir.delta.cells, 1, mem.bytes))[i]

(* Whatever a kill or a power loss leaves of the files, at any step of a   *)
(* persist, an open that takes them restores a replay of the log with      *)
(* every Action id.                                                        *)
EveryCrashRestores ==
  LET rows == RowsOfLog IN
  \A d \in dirs \cup {dir} : Readable(d) =>
    LET m == Installed(d) IN m.rows = rows /\ CompleteIn(m)

(* FilesRestoreTheLog: both, in every state of the files and the process.  *)
FilesRestoreTheLog == ServesTheLog /\ EveryCrashRestores

(* README: the log "survives any crash to its exact committed point": a    *)
(* crash never leaves files the open refuses.                              *)
ReopenSucceeds == step # "refused"

=============================================================================
