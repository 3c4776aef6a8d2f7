------------------------------ MODULE Backup ------------------------------
(***************************************************************************)
(* Online backup, incremental backup and restore (src/src/backup.rs) of a  *)
(* log another process writes: the source, the backup file dst and the     *)
(* restored file out, and the processes that copy from one to another.     *)
(*                                                                         *)
(* A page is <<history, number>>: committed pages never change, as         *)
(* LogWriter shows, so a page of one history stands for its bytes and its  *)
(* CRC.  A checkpoint is the commit point it was taken at; the source's    *)
(* starts as a compacted log's, which alone has the superseded Action ids. *)
(* A process may fail or be killed at any step, inside the write of a      *)
(* superblock as well; what is published is durable (durable.rs).          *)
(***************************************************************************)
EXTENDS Integers, SequencesExt

CONSTANTS
  Procs,       \* processes that back up or restore
  NoFile, NoStamp,
  MaxPages,    \* bound: commit points of the source
  MaxStamps,   \* bound: checkpoints taken
  MaxRuns,     \* bound: calls
  Faults       \* "overlap": an incremental backup beside another call on its
               \* file

ASSUME BoundAssumption ==
  /\ MaxPages \in Nat /\ MaxStamps \in Nat /\ MaxRuns \in Nat
  /\ Faults \subseteq {"overlap"}

Files == {"src", "dst", "out"}
Stamp == Nat \cup {NoStamp}

(* A log and the checkpoints beside it.                                    *)
LogFile ==
  [history : Nat, committed : Nat, torn : BOOLEAN, linked : BOOLEAN,
   ckpt : Stamp, prev : Stamp, pages : Seq(Nat \X Nat)]

ASSUME FileAssumption == NoFile \notin LogFile
ASSUME StampAssumption == NoStamp \notin Nat

VARIABLES
  file,    \* per name: a LogFile or NoFile
  tmp,     \* names whose .tmp exists
  ckptTmp, \* names whose .ckpt.tmp exists
  stamps,  \* checkpoints the writer of the source began
  renaming,\* the writer is between the two renames of a checkpoint
  job,     \* per process: what it is doing
  points,  \* restore points that were answered, with their file
  runs

vars == <<file, tmp, ckptTmp, stamps, renaming, job, points, runs>>

Idle == [step |-> "idle"]
Log(h, n, stamp) ==
  [history |-> h, committed |-> n, torn |-> FALSE, linked |-> TRUE,
   ckpt |-> stamp, prev |-> NoStamp,
   pages |-> [i \in 1..n |-> <<h, i>>]]

-----------------------------------------------------------------------------
(* The writer of the source, and its operator.                             *)

Src == file["src"]

(* A commit replaces the superblock; a reader may see half of it.          *)
StartCommit ==
  /\ ~Src.torn /\ Src.committed < MaxPages
  /\ file' = [file EXCEPT !["src"].torn = TRUE,
                          !["src"].pages = Append(@, <<Src.history, Src.committed + 1>>)]
  /\ UNCHANGED <<tmp, ckptTmp, stamps, renaming, job, points, runs>>

FinishCommit ==
  /\ Src.torn
  /\ file' = [file EXCEPT !["src"].torn = FALSE, !["src"].committed = @ + 1]
  /\ UNCHANGED <<tmp, ckptTmp, stamps, renaming, job, points, runs>>

(* write_log_checkpoint_at: the current checkpoint becomes the previous    *)
(* one, and then the new one gets its name.                                *)
KeepPrev ==
  /\ ~Src.torn /\ ~renaming /\ stamps < MaxStamps
  /\ file' = [file EXCEPT !["src"].prev = IF Src.ckpt = NoStamp THEN @ ELSE Src.ckpt,
                          !["src"].ckpt = NoStamp]
  /\ renaming' = TRUE /\ stamps' = stamps + 1
  /\ UNCHANGED <<tmp, ckptTmp, job, points, runs>>

PublishCkpt ==
  /\ renaming
  /\ file' = [file EXCEPT !["src"].ckpt = Src.committed]
  /\ renaming' = FALSE
  /\ UNCHANGED <<tmp, ckptTmp, stamps, job, points, runs>>

(* The operator puts another log in the place of the source, a compacted   *)
(* one with the same number of pages.                                      *)
ReplaceSource ==
  /\ Src.history = 1 /\ ~Src.torn /\ ~renaming
  /\ \A p \in Procs : job[p].step = "idle"
  /\ file' = [file EXCEPT !["src"] = Log(2, Src.committed, Src.committed)]
  /\ UNCHANGED <<tmp, ckptTmp, stamps, renaming, job, points, runs>>

-----------------------------------------------------------------------------
(* The calls.                                                              *)

(* An open file outlives its name: a call that reads it goes on.           *)
Exists(f) == file[f] # NoFile /\ file[f].linked

(* read_superblock: a torn one is read again, and never believed.          *)
Legible(f) == Exists(f) /\ ~file[f].torn

HasPage(f, i) == i \in DOMAIN file[f].pages

(* Operators run one incremental backup of a file at a time, and none      *)
(* beside the call that makes the file.                                    *)
Free(to, kinds) ==
  \/ "overlap" \in Faults
  \/ ~\E q \in Procs : job[q].step # "idle" /\ job[q].to = to /\ job[q].kind \in kinds

Started(p, new) ==
  /\ job[p].step = "idle" /\ runs < MaxRuns
  /\ job' = [job EXCEPT ![p] = new]
  /\ runs' = runs + 1
  /\ UNCHANGED <<file, tmp, ckptTmp, stamps, renaming, points>>

Copying(kind, from, to, point, next) ==
  [step |-> "begin", kind |-> kind, from |-> from, to |-> to, point |-> point, next |-> next,
   history |-> file[from].history, copied |-> <<>>,
   since |-> IF renaming THEN stamps - 1 ELSE stamps, had |-> {file[from].ckpt, file[from].prev}, bytes |-> NoStamp]

(* backup_log: the commit point is read once.                              *)
StartBackup(p) ==
  /\ ~Exists("dst") /\ Legible("src") /\ Free("dst", {"incremental"})
  /\ Started(p, Copying("backup", "src", "dst", Src.committed, 1))

(* A restore point names a commit point and the CRC of its last page.      *)
Holds(f, r) == r.at <= file[f].committed /\ HasPage(f, r.at) /\ file[f].pages[r.at] = r.page

(* restore_log: to the end of the backup, or to a point that is in it.     *)
StartRestore(p) ==
  /\ ~Exists("out") /\ Legible("dst")
  /\ \E k \in {file["dst"].committed} \cup {r.at : r \in {q \in points : Holds("dst", q)}} :
       Started(p, Copying("restore", "dst", "out", k, 1))

(* Mutant of BelongsTo: only the commit points are compared.               *)
ShorterThan(held) == held <= Src.committed

(* The last page of the backup is that page of the source.                 *)
BelongsTo(held) ==
  /\ held <= Src.committed
  /\ held > 0 => HasPage("dst", held) /\ file["dst"].pages[held] = Src.pages[held]

(* backup_log_incremental: what the backup holds was read, then the source *)
StartIncremental(p) ==
  /\ Legible("dst") /\ Legible("src") /\ Free("dst", {"incremental", "backup"})
  /\ BelongsTo(file["dst"].committed)
  /\ Started(p, Copying("incremental", "src", "dst", Src.committed, file["dst"].committed + 1))

To(p) == job[p].to
Goto(p, step) == job' = [job EXCEPT ![p].step = step]
Fails(p) == job' = [job EXCEPT ![p] = Idle]

(* write_new creates {dst}.tmp, which must not exist; an incremental       *)
(* backup cuts what it never counted off its file.                         *)
Begin(p) ==
  /\ job[p].step = "begin"
  /\ IF job[p].kind = "incremental"
     THEN /\ file' = [file EXCEPT ![To(p)].pages = SubSeq(@, 1, job[p].next - 1)]
          /\ Goto(p, "copy") /\ UNCHANGED tmp
     ELSE /\ UNCHANGED file
          /\ IF To(p) \in tmp THEN Fails(p) /\ UNCHANGED tmp
             ELSE Goto(p, "copy") /\ tmp' = tmp \cup {To(p)}
  /\ UNCHANGED <<ckptTmp, stamps, renaming, points, runs>>

(* copy_pages, a page at a time, into {dst}.tmp or the backup itself.      *)
CopyPage(p) ==
  /\ job[p].step = "copy" /\ job[p].next <= job[p].point /\ HasPage(job[p].from, job[p].next)
  /\ job' = [job EXCEPT ![p].next = @ + 1,
                        ![p].copied = IF job[p].kind = "incremental" THEN @
                                      ELSE Append(@, file[job[p].from].pages[job[p].next])]
  /\ file' = IF job[p].kind # "incremental" THEN file
             ELSE [file EXCEPT ![To(p)].pages =
                     [i \in 1..Max({Len(@), job[p].next}) |->
                        IF i = job[p].next THEN file[job[p].from].pages[i]
                        ELSE IF i <= Len(@) THEN @[i] ELSE <<0, 0>>]]
  /\ UNCHANGED <<tmp, ckptTmp, stamps, renaming, points, runs>>

Copied(p) == job[p].step = "copy" /\ job[p].next > job[p].point

(* The whole file appears under its name, unless that was taken.           *)
Publish(p) ==
  /\ Copied(p) /\ job[p].kind # "incremental"
  /\ tmp' = tmp \ {To(p)}
  /\ IF Exists(To(p)) THEN Fails(p) /\ UNCHANGED file
     ELSE /\ file' = [file EXCEPT ![To(p)] =
                        [Log(job[p].history, job[p].point, NoStamp) EXCEPT
                           !.pages = job[p].copied]]
          /\ Goto(p, "ckpt")
  /\ UNCHANGED <<ckptTmp, stamps, renaming, points, runs>>

(* Mutant of Advance: the superblock moves first.                          *)
AdvanceFirst(p) ==
  /\ job[p].step = "copy" /\ job[p].kind = "incremental" /\ file[To(p)].committed < job[p].point
  /\ file' = [file EXCEPT ![To(p)].committed = job[p].point]
  /\ UNCHANGED <<job, tmp, ckptTmp, stamps, renaming, points, runs>>

(* The superblock of the backup moves last, in a write of its own.         *)
Advanced(p) ==
  [file EXCEPT ![To(p)].committed = job[p].point, ![To(p)].history = job[p].history,
               ![To(p)].torn = FALSE]

Advance(p) ==
  /\ Copied(p) /\ job[p].kind = "incremental"
  /\ file' = Advanced(p)
  /\ Goto(p, "ckpt")
  /\ UNCHANGED <<tmp, ckptTmp, stamps, renaming, points, runs>>

-----------------------------------------------------------------------------
(* carry_checkpoint: the checkpoint, or the one before it.                 *)

(* Mutant of Usable: any checkpoint will do.                               *)
UsableAny(p, stamp) == stamp # NoStamp
Usable(p, stamp) == stamp # NoStamp /\ stamp <= job[p].point

Carry(p, stamp, otherwise) ==
  /\ job' = [job EXCEPT ![p].step = IF Usable(p, stamp) THEN "carry" ELSE otherwise,
                        ![p].bytes = stamp]
  /\ UNCHANGED <<file, tmp, ckptTmp, stamps, renaming, points, runs>>

(* Mutant of ReadCkpt: the checkpoint before it is not tried.              *)
ReadCkptOnly(p) == job[p].step = "ckpt" /\ Carry(p, file[job[p].from].ckpt, "answer")

ReadCkpt(p) == job[p].step = "ckpt" /\ Carry(p, file[job[p].from].ckpt, "prev")

ReadPrev(p) == job[p].step = "prev" /\ Carry(p, file[job[p].from].prev, "answer")

(* Mutant of Unpublished: every call removes what it wrote.                *)
UnpublishedAlways(p) ==
  [file EXCEPT ![To(p)].linked = FALSE, ![To(p)].ckpt = NoStamp]

(* On failure of a new backup, the log is removed again.                   *)
Unpublished(p) ==
  IF job[p].kind = "incremental" THEN file
  ELSE [file EXCEPT ![To(p)].linked = FALSE, ![To(p)].ckpt = NoStamp]

StartCarry(p) ==
  /\ job[p].step = "carry"
  /\ IF To(p) \in ckptTmp
     THEN Fails(p) /\ UNCHANGED ckptTmp /\ file' = Unpublished(p)
     ELSE /\ Goto(p, "rename") /\ ckptTmp' = ckptTmp \cup {To(p)}
          /\ file' = [file EXCEPT ![To(p)].prev = NoStamp]
  /\ UNCHANGED <<tmp, stamps, renaming, points, runs>>

FinishCarry(p) ==
  /\ job[p].step = "rename"
  /\ file' = [file EXCEPT ![To(p)].ckpt = job[p].bytes]
  /\ ckptTmp' = ckptTmp \ {To(p)}
  /\ Goto(p, "answer")
  /\ UNCHANGED <<tmp, stamps, renaming, points, runs>>

(* restore_point_at: the commit point and the CRC of its page.             *)
Answer(p) ==
  /\ job[p].step = "answer"
  /\ IF job[p].kind = "restore" \/ ~Legible(To(p)) \/ ~HasPage(To(p), job[p].point)
     THEN UNCHANGED points
     ELSE points' = points \cup {[at |-> job[p].point, page |-> file[To(p)].pages[job[p].point]]}
  /\ Fails(p)
  /\ UNCHANGED <<file, tmp, ckptTmp, stamps, renaming, runs>>

(* A call that ends at that write has begun it or not, or has left a part  *)
(* of it, or all of it.                                                    *)
CutShort(p) ==
  IF Copied(p) /\ job[p].kind = "incremental"
  THEN {file, [file EXCEPT ![To(p)].torn = TRUE], Advanced(p)} ELSE {file}

(* An I/O error: temporary files go, and so does what was just published.  *)
IoFails(p) ==
  /\ job[p].step # "idle"
  /\ tmp' = IF job[p].step = "copy" THEN tmp \ {To(p)} ELSE tmp
  /\ ckptTmp' = IF job[p].step = "rename" THEN ckptTmp \ {To(p)} ELSE ckptTmp
  /\ file' \in IF job[p].step \in {"carry", "rename"} THEN {Unpublished(p)} ELSE CutShort(p)
  /\ Fails(p)
  /\ UNCHANGED <<stamps, renaming, points, runs>>

Kill(p) ==
  /\ job[p].step # "idle"
  /\ file' \in CutShort(p)
  /\ Fails(p)
  /\ UNCHANGED <<tmp, ckptTmp, stamps, renaming, points, runs>>

(* The operator cleans up after a killed call.                             *)
Clean(f) ==
  /\ f \in tmp \cup ckptTmp /\ \A p \in Procs : job[p].step = "idle"
  /\ tmp' = tmp \ {f} /\ ckptTmp' = ckptTmp \ {f}
  /\ UNCHANGED <<file, stamps, renaming, job, points, runs>>

Init ==
  /\ file = [f \in Files |-> IF f = "src" THEN Log(1, 1, 1) ELSE NoFile]
  /\ tmp = {} /\ ckptTmp = {} /\ stamps = 0 /\ renaming = FALSE
  /\ job = [p \in Procs |-> Idle]
  /\ points = {} /\ runs = 0

Next ==
  \/ StartCommit \/ FinishCommit \/ KeepPrev \/ PublishCkpt \/ ReplaceSource
  \/ \E p \in Procs :
       \/ StartBackup(p) \/ StartRestore(p) \/ StartIncremental(p)
       \/ Begin(p) \/ CopyPage(p) \/ Publish(p) \/ Advance(p)
       \/ ReadCkpt(p) \/ ReadPrev(p) \/ StartCarry(p) \/ FinishCarry(p) \/ Answer(p)
       \/ IoFails(p) \/ Kill(p)
  \/ \E f \in Files : Clean(f)

Spec == Init /\ [][Next]_vars

-----------------------------------------------------------------------------
(* PublishedIsPrefix: whatever a call has made visible under the name of a *)
(* backup or a restored log is a prefix of one history, whole up to its    *)
(* commit point, and a checkpoint beside it is not ahead of it, whatever   *)
(* the writer, the operator, other calls, errors and kills did meanwhile.  *)
PublishedIsPrefix ==
  \A f \in {"dst", "out"} : Exists(f) =>
    /\ \A i \in 1..file[f].committed : HasPage(f, i) /\ file[f].pages[i] = <<file[f].history, i>>
    /\ file[f].ckpt # NoStamp => file[f].ckpt <= file[f].committed

(* RestorePointsHold: a restore point that a call has answered stays in    *)
(* the backup, through every later incremental backup, whatever error or   *)
(* kill ended it: its page is there, and a commit point that can be read   *)
(* has not fallen behind it.  A superblock that was cut short is refused,  *)
(* never believed.                                                         *)
RestorePointsHold ==
  \A r \in points :
    /\ Exists("dst") /\ HasPage("dst", r.at) /\ file["dst"].pages[r.at] = r.page
    /\ Legible("dst") => r.at <= file["dst"].committed

(* PreviousStaysValid: what the doc of backup_log_incremental says of a    *)
(* crash (backup.rs:88): the backup answers for its points after any.      *)
PreviousStaysValid == \A r \in points : Legible("dst") /\ Holds("dst", r)

(* CheckpointCarried: a backup that is about to answer has a checkpoint,   *)
(* if the source had one for that commit point when the call began and at  *)
(* most one was under way or begun since: .prev is kept for that one.      *)
CheckpointCarried ==
  \A p \in Procs :
    (/\ job[p].step = "answer" /\ job[p].kind # "restore"
     /\ stamps - job[p].since <= 1
     /\ \E k \in job[p].had : Usable(p, k))
    => Exists(To(p)) /\ file[To(p)].ckpt # NoStamp

(* RestorePointsServe: both, which is what a restore point is kept for: to *)
(* be restored, and opened without a replay of everything.                 *)
RestorePointsServe == RestorePointsHold /\ CheckpointCarried
=============================================================================
