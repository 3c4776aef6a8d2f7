---------------------------- MODULE BackupProofs ----------------------------
(***************************************************************************)
(* PublishedIsPrefix and RestorePointsServe of Backup, proved for every    *)
(* number of processes, pages, checkpoints and calls, and every error and  *)
(* kill, that inside the write of a superblock included, when operators do *)
(* not run an incremental backup beside another call on its file           *)
(* (Faults = {}).  The second half is about Paging, for every set of rows, *)
(* types and requests: the index walk and the bounded scan give the page   *)
(* of the full ranking, and the pages of a chain are of one state.         *)
(***************************************************************************)
EXTENDS Backup, Paging, FoldLemmas

Kinds == {"backup", "incremental", "restore"}
Before == {"begin", "copy"}
After == {"ckpt", "prev", "carry", "rename", "answer"}

Job ==
  [step : Before \cup After, kind : Kinds, from : Files, to : Files,
   point : Nat, next : Nat, history : Nat, copied : Seq(Nat \X Nat),
   since : Int, had : SUBSET Stamp, bytes : Stamp]

(* Types: a name has a log or none, a process a call or none.              *)
TypeInv ==
  /\ file \in [Files -> LogFile \cup {NoFile}]
  /\ job \in [Procs -> Job \cup {Idle}]
  /\ stamps \in Nat /\ renaming \in BOOLEAN

Active(p) == job[p] \in Job
Made(f) == file[f] # NoFile

(* Pages of one history, each in its place.                                *)
InPlace(pages, h) == \A i \in 1..Len(pages) : pages[i] = <<h, i>>

(* The source has at least one commit, its pages up to that, and one more  *)
(* while a commit is half done.                                            *)
SourceInv ==
  /\ Src \in LogFile
  /\ Src.committed >= 1
  /\ Src.committed <= Len(Src.pages)
  /\ ~Src.torn => Len(Src.pages) = Src.committed
  /\ Src.torn => Len(Src.pages) = Src.committed + 1
  /\ InPlace(Src.pages, Src.history)

(* A file that was ever published, linked or not.                          *)
FileInv(f) ==
  Made(f) =>
    /\ file[f].committed >= 1
    /\ file[f].committed <= Len(file[f].pages)
    /\ InPlace(file[f].pages, file[f].history)
    /\ file[f].ckpt # NoStamp => file[f].ckpt <= file[f].committed

FilesInv == FileInv("dst") /\ FileInv("out")

(* What a call read when it began still holds of what it copies from.      *)
FromInv(p) ==
  /\ job[p].point >= 1 /\ job[p].next >= 1 /\ job[p].next <= job[p].point + 1
  /\ job[p].kind # "restore" =>
       /\ job[p].from = "src" /\ job[p].to = "dst"
       /\ job[p].history = Src.history /\ job[p].point <= Src.committed
  /\ job[p].kind = "restore" =>
       /\ job[p].from = "dst" /\ job[p].to = "out" /\ Made("dst")
       /\ job[p].history = file["dst"].history
       /\ ~file["dst"].linked => job[p].history = Src.history

(* What it has copied, and where that is.                                  *)
CopyInv(p) ==
  /\ job[p].kind # "incremental" =>
       Len(job[p].copied) = job[p].next - 1 /\ InPlace(job[p].copied, job[p].history)
  /\ job[p].kind = "incremental" =>
       /\ Made("dst") /\ file["dst"].linked /\ file["dst"].history = job[p].history
       /\ job[p].step = "begin" => job[p].next = file["dst"].committed + 1
       /\ job[p].step = "copy" =>
            Len(file["dst"].pages) = job[p].next - 1 /\ file["dst"].committed < job[p].next

(* What it has published stays until it has answered.                      *)
ToInv(p) ==
  /\ job[p].step \in After =>
       /\ Made(job[p].to) /\ file[job[p].to].linked
       /\ file[job[p].to].committed = job[p].point
       /\ file[job[p].to].history = job[p].history
  /\ job[p].step \in {"carry", "rename"} =>
       job[p].bytes # NoStamp /\ job[p].bytes <= job[p].point

JobsInv == \A p \in Procs : Active(p) => FromInv(p) /\ CopyInv(p) /\ ToInv(p)

(* An incremental backup has its file to itself, and of the calls that     *)
(* make a file only one has got as far as to publish it.                   *)
Alone ==
  \A p, q \in Procs : p # q /\ Active(p) /\ Active(q) =>
    /\ job[p].kind = "incremental" => job[q].kind = "restore"
    /\ job[p].step \in After /\ job[q].step \in After
         /\ job[p].kind # "incremental" /\ job[q].kind # "incremental"
       => job[p].to # job[q].to

PointsInv == \A r \in points : r.at \in Nat /\ r.at >= 1

BackupInv ==
  TypeInv /\ SourceInv /\ FilesInv /\ PointsInv /\ JobsInv /\ Alone

-----------------------------------------------------------------------------
(* A process is in a call or idle, and its step says which.                *)
LEMMA ActiveStep ==
  ASSUME TypeInv, NEW p \in Procs
  PROVE  /\ Active(p) \/ job[p] = Idle
         /\ Active(p) <=> job[p].step # "idle"
         /\ Active(p) => job[p].step \in Before \cup After
<1>1. job[p] \in Job \cup {Idle}
  BY DEF TypeInv
<1>2. Idle.step = "idle"
  BY DEF Idle
<1>3. ASSUME NEW j \in Job PROVE j.step \in Before \cup After /\ j.step # "idle"
  BY <1>3 DEF Job, Before, After
<1> QED
  BY <1>1, <1>2, <1>3 DEF Active

(* A file that has a name, or had one, is a log.                           *)
LEMMA MadeLog ==
  ASSUME TypeInv, NEW f \in Files, Made(f)
  PROVE  file[f] \in LogFile
BY DEF TypeInv, Made

LEMMA CutInPlace ==
  ASSUME NEW s \in Seq(Nat \X Nat), NEW h, InPlace(s, h), NEW c \in Nat, c <= Len(s)
  PROVE  /\ SubSeq(s, 1, c) \in Seq(Nat \X Nat) /\ Len(SubSeq(s, 1, c)) = c
         /\ InPlace(SubSeq(s, 1, c), h)
<1>1. SubSeq(s, 1, c) \in Seq(Nat \X Nat) /\ Len(SubSeq(s, 1, c)) = c
  OBVIOUS
<1>2. \A i \in 1..c : SubSeq(s, 1, c)[i] = s[i] /\ i \in 1..Len(s)
  OBVIOUS
<1> QED
  BY <1>1, <1>2 DEF InPlace

LEMMA PageInPlace ==
  ASSUME NEW s \in Seq(Nat \X Nat), NEW h, InPlace(s, h), NEW i \in DOMAIN s
  PROVE  s[i] = <<h, i>>
BY SMTT(30) DEF InPlace

(* A page is added at the end.                                             *)
LEMMA ExtendInPlace ==
  ASSUME NEW s \in Seq(Nat \X Nat), NEW h \in Nat, InPlace(s, h),
         NEW n \in Nat, n >= 1, Len(s) = n - 1, NEW P,
         P = [i \in 1..n |-> P[i]], P[n] = <<h, n>>,
         \A i \in 1..Len(s) : P[i] = s[i]
  PROVE  P \in Seq(Nat \X Nat) /\ Len(P) = n /\ InPlace(P, h)
<1>1. ASSUME NEW i \in 1..n PROVE P[i] = <<h, i>>
  <2>1. CASE i = n
    BY <2>1
  <2>2. CASE i # n
    <3>1. i \in 1..Len(s)
      BY <2>2
    <3>2. s[i] = <<h, i>>
      BY <3>1 DEF InPlace
    <3> QED
      BY <2>2, <3>1, <3>2
  <2> QED
    BY <2>1, <2>2
<1>2. P \in [1..n -> Nat \X Nat]
  <2>1. \A i \in 1..n : <<h, i>> \in Nat \X Nat
    OBVIOUS
  <2>2. \A i \in 1..n : P[i] \in Nat \X Nat
    BY <1>1, <2>1
  <2> QED
    BY <2>2
<1>3. P \in Seq(Nat \X Nat) /\ Len(P) = n
  BY <1>2
<1> QED
  BY <1>1, <1>3 DEF InPlace

(* A new log has the pages it was made of.                                 *)
LEMMA LogType ==
  ASSUME NEW h \in Nat, NEW n \in Nat, NEW mark \in Stamp
  PROVE  /\ Log(h, n, mark) \in LogFile /\ ~Log(h, n, mark).torn
         /\ Log(h, n, mark).committed = n /\ Len(Log(h, n, mark).pages) = n
         /\ InPlace(Log(h, n, mark).pages, Log(h, n, mark).history)
<1> DEFINE P == [i \in 1..n |-> <<h, i>>]
<1>1. P \in Seq(Nat \X Nat) /\ Len(P) = n /\ InPlace(P, h)
  BY DEF InPlace
<1> QED
  BY <1>1 DEF Log, LogFile, Stamp

LEMMA MaxOfTwo ==
  ASSUME NEW a \in Nat, NEW b \in Nat, a < b
  PROVE  Max({a, b}) = b
<1>1. \A x \in {a, b} : b >= x
  OBVIOUS
<1>2. \A x \in {a, b} : (\A y \in {a, b} : x >= y) => x = b
  OBVIOUS
<1> QED
  BY <1>1, <1>2 DEF Max

(* A call that goes on, or ends, leaves the calls apart.                   *)
LEMMA KeepsAlone ==
  ASSUME BackupInv, NEW p \in Procs, NEW new,
         job' = [job EXCEPT ![p] = new],
         \/ new = Idle
         \/ /\ Active(p) /\ new \in Job
            /\ new.kind = job[p].kind /\ new.to = job[p].to
            /\ new.step \in After =>
                 \/ job[p].step \in After \/ new.kind = "incremental"
                 \/ \A q \in Procs : q # p /\ Active(q) /\ job[q].step \in After =>
                      job[q].to # new.to
  PROVE  Alone'
<1>1. job \in [Procs -> Job \cup {Idle}]
  BY DEF BackupInv, TypeInv
<1>2. Idle \notin Job
  BY DEF Idle, Job, Before, After
<1>3. job'[p] = new /\ \A q \in Procs : q # p => job'[q] = job[q]
  BY <1>1
<1> SUFFICES ASSUME NEW a \in Procs, NEW b \in Procs, a # b, Active(a)', Active(b)'
             PROVE  /\ job'[a].kind = "incremental" => job'[b].kind = "restore"
                    /\ job'[a].step \in After /\ job'[b].step \in After
                         /\ job'[a].kind # "incremental" /\ job'[b].kind # "incremental"
                       => job'[a].to # job'[b].to
  BY DEF Alone
<1>4. Active(a) /\ Active(b)
  BY <1>2, <1>3 DEF Active
<1>5. /\ job[a].kind = "incremental" => job[b].kind = "restore"
      /\ job[a].step \in After /\ job[b].step \in After
           /\ job[a].kind # "incremental" /\ job[b].kind # "incremental"
         => job[a].to # job[b].to
  BY <1>4 DEF BackupInv, Alone
<1>6. CASE a # p /\ b # p
  BY <1>3, <1>5, <1>6
<1>7. CASE a = p
  BY <1>2, <1>3, <1>5, <1>7 DEF Active
<1>8. CASE b = p
  BY <1>2, <1>3, <1>5, <1>8 DEF Active
<1> QED
  BY <1>6, <1>7, <1>8

-----------------------------------------------------------------------------
(* The writer of the source disturbs no call: what it committed stays, and *)
(* it touches no other file.                                               *)
LEMMA WriterKeeps ==
  ASSUME BackupInv, job' = job, points' = points,
         file' \in [Files -> LogFile \cup {NoFile}],
         file'["dst"] = file["dst"], file'["out"] = file["out"],
         stamps' \in Nat, renaming' \in BOOLEAN,
         SourceInv', Src'.history = Src.history, Src'.committed >= Src.committed
  PROVE  BackupInv'
<1>1. TypeInv'
  BY DEF BackupInv, TypeInv
<1>2. FilesInv' /\ PointsInv'
  BY DEF BackupInv, FilesInv, FileInv, Made, InPlace, PointsInv
<1>3. Alone'
  BY DEF BackupInv, Alone, Active
<1>4. JobsInv'
  <2> SUFFICES ASSUME NEW p \in Procs, Active(p)
               PROVE  (FromInv(p) /\ CopyInv(p) /\ ToInv(p))'
    BY DEF JobsInv, Active
  <2>1. FromInv(p) /\ CopyInv(p) /\ ToInv(p)
    BY DEF BackupInv, JobsInv
  <2>2. Src.committed \in Nat /\ Src'.committed \in Nat /\ job[p].point \in Nat
    BY DEF BackupInv, SourceInv, LogFile, Src, Active, Job
  <2>3. FromInv(p)'
    BY <2>1, <2>2 DEF FromInv, Made, Src
  <2>4. CopyInv(p)'
    BY <2>1 DEF CopyInv, Made, InPlace
  <2>5. job[p].to \in {"dst", "out"}
    BY <2>1 DEF FromInv, BackupInv, TypeInv, Active, Job, Kinds
  <2>6. ToInv(p)'
    BY <2>1, <2>5 DEF ToInv, Made
  <2> QED
    BY <2>3, <2>4, <2>6
<1> QED
  BY <1>1, <1>2, <1>3, <1>4 DEF BackupInv

LEMMA StartCommitKeeps ==
  ASSUME BackupInv, StartCommit
  PROVE  BackupInv'
<1> DEFINE P == Append(Src.pages, <<Src.history, Src.committed + 1>>)
<1>1. /\ file \in [Files -> LogFile \cup {NoFile}] /\ Src \in LogFile
      /\ Src.pages \in Seq(Nat \X Nat) /\ Src.history \in Nat /\ Src.committed \in Nat
      /\ Len(Src.pages) = Src.committed /\ InPlace(Src.pages, Src.history)
      /\ "src" \in Files /\ "dst" \in Files /\ "out" \in Files
  BY DEF BackupInv, TypeInv, SourceInv, LogFile, StartCommit, Files
<1>2. /\ P \in Seq(Nat \X Nat) /\ Len(P) = Src.committed + 1
      /\ InPlace(P, Src.history)
  BY <1>1 DEF InPlace
<1>3. file' = [file EXCEPT !["src"] = [Src EXCEPT !.torn = TRUE, !.pages = P]]
  BY <1>1 DEF StartCommit, Src
<1> HIDE DEF P
<1>4. /\ Src' = [Src EXCEPT !.torn = TRUE, !.pages = P]
      /\ file'["dst"] = file["dst"] /\ file'["out"] = file["out"]
  BY <1>1, <1>3 DEF Src
<1>5. /\ Src' \in LogFile /\ Src'.torn /\ Src'.pages = P /\ Src'.history = Src.history
      /\ Src'.committed = Src.committed
  BY <1>1, <1>2, <1>4 DEF LogFile
<1>6. SourceInv'
  BY <1>1, <1>2, <1>5 DEF SourceInv, BackupInv
<1>7. file' \in [Files -> LogFile \cup {NoFile}]
  BY <1>1, <1>3, <1>4, <1>5
<1>8. /\ job' = job /\ points' = points /\ stamps' \in Nat /\ renaming' \in BOOLEAN
      /\ Src'.committed >= Src.committed
  BY <1>1, <1>5 DEF StartCommit, BackupInv, TypeInv
<1> QED
  BY <1>4, <1>5, <1>6, <1>7, <1>8, WriterKeeps

LEMMA FinishCommitKeeps ==
  ASSUME BackupInv, FinishCommit
  PROVE  BackupInv'
<1>1. /\ file \in [Files -> LogFile \cup {NoFile}] /\ Src \in LogFile
      /\ Src.pages \in Seq(Nat \X Nat) /\ Src.history \in Nat /\ Src.committed \in Nat
      /\ Len(Src.pages) = Src.committed + 1 /\ InPlace(Src.pages, Src.history)
      /\ "src" \in Files /\ "dst" \in Files /\ "out" \in Files
  BY DEF BackupInv, TypeInv, SourceInv, LogFile, FinishCommit, Files
<1>2. file' = [file EXCEPT !["src"] = [Src EXCEPT !.torn = FALSE, !.committed = @ + 1]]
  BY <1>1 DEF FinishCommit, Src
<1>3. /\ Src' = [Src EXCEPT !.torn = FALSE, !.committed = @ + 1]
      /\ file'["dst"] = file["dst"] /\ file'["out"] = file["out"]
  BY <1>1, <1>2 DEF Src
<1>4. /\ Src' \in LogFile /\ ~Src'.torn /\ Src'.pages = Src.pages
      /\ Src'.history = Src.history /\ Src'.committed = Src.committed + 1
  <2>1. Src.committed + 1 \in Nat
    BY <1>1
  <2>2. Src' = [Src EXCEPT !.torn = FALSE, !.committed = Src.committed + 1]
    BY <1>3
  <2> QED
    BY <1>1, <2>1, <2>2 DEF LogFile
<1>5. SourceInv'
  BY <1>1, <1>4 DEF SourceInv, BackupInv
<1>6. file' \in [Files -> LogFile \cup {NoFile}]
  BY <1>1, <1>2, <1>3, <1>4
<1>7. /\ job' = job /\ points' = points /\ stamps' \in Nat /\ renaming' \in BOOLEAN
      /\ Src'.committed >= Src.committed
  BY <1>1, <1>4 DEF FinishCommit, BackupInv, TypeInv
<1> QED
  BY <1>3, <1>4, <1>5, <1>6, <1>7, WriterKeeps

(* A checkpoint of the source changes no page and no commit point of it.   *)
LEMMA CheckpointKeeps ==
  ASSUME BackupInv, KeepPrev \/ PublishCkpt
  PROVE  BackupInv'
<1>1. /\ file \in [Files -> LogFile \cup {NoFile}] /\ Src \in LogFile
      /\ Src.ckpt \in Stamp /\ Src.prev \in Stamp /\ Src.committed \in Stamp
      /\ "src" \in Files /\ "dst" \in Files /\ "out" \in Files /\ NoStamp \in Stamp
  BY DEF BackupInv, TypeInv, SourceInv, LogFile, Files, Stamp
<1>2. PICK c \in Stamp, r \in Stamp :
        file' = [file EXCEPT !["src"] = [Src EXCEPT !.ckpt = c, !.prev = r]]
  <2>1. CASE KeepPrev
    <3>1. file' = [file EXCEPT !["src"] = [Src EXCEPT !.ckpt = NoStamp,
                     !.prev = IF Src.ckpt = NoStamp THEN Src.prev ELSE Src.ckpt]]
      BY <1>1, <2>1 DEF KeepPrev, Src
    <3> QED
      BY <1>1, <3>1
  <2>2. CASE PublishCkpt
    <3>1. file' = [file EXCEPT !["src"] = [Src EXCEPT !.ckpt = Src.committed,
                     !.prev = Src.prev]]
      BY <1>1, <2>2 DEF PublishCkpt, Src, LogFile
    <3> QED
      BY <1>1, <3>1
  <2> QED
    BY <2>1, <2>2
<1>3. /\ Src' = [Src EXCEPT !.ckpt = c, !.prev = r]
      /\ file'["dst"] = file["dst"] /\ file'["out"] = file["out"]
  BY <1>1, <1>2 DEF Src
<1>4. /\ Src' \in LogFile /\ Src'.torn = Src.torn /\ Src'.pages = Src.pages
      /\ Src'.history = Src.history /\ Src'.committed = Src.committed
  BY <1>1, <1>3 DEF LogFile
<1>5. SourceInv'
  BY <1>4 DEF SourceInv, BackupInv
<1>6. file' \in [Files -> LogFile \cup {NoFile}]
  BY <1>1, <1>2, <1>3, <1>4
<1>7. /\ Src.committed \in Nat
      /\ stamps' \in Nat
      /\ renaming' \in BOOLEAN
  <2>1. Src.committed \in Nat
    BY <1>1 DEF LogFile
  <2>2. stamps \in Nat /\ (stamps' = stamps \/ stamps' = stamps + 1)
    BY DEF BackupInv, TypeInv, KeepPrev, PublishCkpt
  <2>3. renaming' \in BOOLEAN
    BY DEF KeepPrev, PublishCkpt
  <2> QED
    BY <2>1, <2>2, <2>3
<1> QED
  BY <1>1, <1>3, <1>4, <1>5, <1>6, <1>7, WriterKeeps DEF KeepPrev, PublishCkpt

(* A compacted log takes the place of the source when no call is running.  *)
LEMMA ReplaceSourceKeeps ==
  ASSUME BackupInv, ReplaceSource
  PROVE  BackupInv'
<1> DEFINE L == Log(2, Src.committed, Src.committed)
<1>1. /\ file \in [Files -> LogFile \cup {NoFile}] /\ Src \in LogFile
      /\ Src.committed \in Nat /\ Src.committed >= 1
      /\ "src" \in Files /\ "dst" \in Files /\ "out" \in Files
  BY DEF BackupInv, TypeInv, SourceInv, LogFile, Files
<1>2. \A p \in Procs : ~Active(p)
  BY ActiveStep DEF ReplaceSource, BackupInv
<1>3. /\ L \in LogFile /\ ~L.torn /\ L.committed = Src.committed
      /\ Len(L.pages) = Src.committed /\ InPlace(L.pages, L.history)
  <2>1. Src.committed \in Stamp /\ 2 \in Nat
    BY <1>1 DEF Stamp
  <2> QED
    BY <1>1, <2>1, LogType
<1> HIDE DEF L
<1>4. file' = [file EXCEPT !["src"] = L] /\ job' = job /\ points' = points
      /\ stamps' = stamps /\ renaming' = renaming
  BY DEF ReplaceSource, L
<1>5. /\ Src' = L /\ file'["dst"] = file["dst"] /\ file'["out"] = file["out"]
      /\ file' \in [Files -> LogFile \cup {NoFile}]
  BY <1>1, <1>3, <1>4 DEF Src
<1>6. TypeInv'
  BY <1>4, <1>5 DEF BackupInv, TypeInv
<1>7. SourceInv'
  BY <1>1, <1>3, <1>5 DEF SourceInv
<1>8. FilesInv' /\ PointsInv'
  BY <1>4, <1>5 DEF BackupInv, FilesInv, FileInv, Made, InPlace, PointsInv
<1>9. JobsInv' /\ Alone'
  BY <1>2, <1>4 DEF JobsInv, Alone, Active
<1> QED
  BY <1>6, <1>7, <1>8, <1>9 DEF BackupInv

-----------------------------------------------------------------------------
(* A step of a call that changes only its own record: the files, and so    *)
(* what the other calls rely on, are as they were.                         *)
LEMMA RecordKeeps ==
  ASSUME BackupInv, NEW p \in Procs, NEW new \in Job \cup {Idle},
         job' = [job EXCEPT ![p] = new],
         file' = file, stamps' = stamps, renaming' = renaming,
         PointsInv', Alone',
         new \in Job => (FromInv(p) /\ CopyInv(p) /\ ToInv(p))'
  PROVE  BackupInv'
<1>1. job \in [Procs -> Job \cup {Idle}]
  BY DEF BackupInv, TypeInv
<1>2. TypeInv'
  BY <1>1 DEF BackupInv, TypeInv
<1>3. SourceInv' /\ FilesInv'
  BY DEF BackupInv, SourceInv, Src, FilesInv, FileInv, Made, InPlace
<1>4. JobsInv'
  <2> SUFFICES ASSUME NEW q \in Procs, Active(q)'
               PROVE  (FromInv(q) /\ CopyInv(q) /\ ToInv(q))'
    BY DEF JobsInv
  <2>1. CASE q = p
    BY <1>1, <2>1 DEF Active
  <2>2. CASE q # p
    <3>1. job'[q] = job[q] /\ Active(q)
      BY <1>1, <2>2 DEF Active
    <3>2. FromInv(q) /\ CopyInv(q) /\ ToInv(q)
      BY <3>1 DEF BackupInv, JobsInv
    <3> QED
      BY <3>1, <3>2 DEF FromInv, CopyInv, ToInv, Made, Src, InPlace
  <2> QED
    BY <2>1, <2>2
<1> QED
  BY <1>2, <1>3, <1>4 DEF BackupInv

(* A step of a call that writes one file which is not the source.          *)
LEMMA FileKeeps ==
  ASSUME BackupInv, NEW p \in Procs, NEW new \in Job \cup {Idle},
         NEW t \in {"dst", "out"}, NEW L \in LogFile,
         job' = [job EXCEPT ![p] = new],
         file' = [file EXCEPT ![t] = L], stamps' = stamps, renaming' = renaming,
         points' = points, FileInv(t)', Alone',
         new \in Job => (FromInv(p) /\ CopyInv(p) /\ ToInv(p))',
         \A q \in Procs \ {p} : Active(q) => (FromInv(q) /\ CopyInv(q) /\ ToInv(q))'
  PROVE  BackupInv'
<1>1. /\ job \in [Procs -> Job \cup {Idle}] /\ file \in [Files -> LogFile \cup {NoFile}]
      /\ "src" \in Files /\ "dst" \in Files /\ "out" \in Files
  BY DEF BackupInv, TypeInv, Files
<1>2. TypeInv'
  BY <1>1 DEF BackupInv, TypeInv
<1>3. \A f \in Files : f # t => file'[f] = file[f]
  BY <1>1
<1>4. Src' = Src
  BY <1>1, <1>3 DEF Src
<1>5. SourceInv' /\ PointsInv'
  BY <1>4 DEF BackupInv, SourceInv, PointsInv, InPlace
<1>6. FilesInv'
  BY <1>1, <1>3 DEF BackupInv, FilesInv, FileInv, Made, InPlace
<1>7. JobsInv'
  <2> SUFFICES ASSUME NEW q \in Procs, Active(q)'
               PROVE  (FromInv(q) /\ CopyInv(q) /\ ToInv(q))'
    BY DEF JobsInv
  <2>1. CASE q = p
    BY <1>1, <2>1 DEF Active
  <2>2. CASE q # p
    BY <1>1, <2>2 DEF Active
  <2> QED
    BY <2>1, <2>2
<1> QED
  BY <1>2, <1>5, <1>6, <1>7 DEF BackupInv

(* The other calls do not notice a write of a file that keeps its history, *)
(* its name and its commit point, unless one extends that file.            *)
LEMMA OthersKept ==
  ASSUME BackupInv, NEW p \in Procs, NEW new, NEW t \in {"dst", "out"},
         NEW q \in Procs, q # p, Active(q),
         job' = [job EXCEPT ![p] = new], Src' = Src,
         Made(t), Made(t)', file'["dst"] = file["dst"] \/ t = "dst",
         file'["out"] = file["out"] \/ t = "out",
         file'[t].history = file[t].history, file'[t].linked = file[t].linked,
         file'[t].committed = file[t].committed \/ (job[q].kind = "restore" /\ t = "dst"),
         file'[t].pages = file[t].pages \/ job[q].kind # "incremental"
  PROVE  (FromInv(q) /\ CopyInv(q) /\ ToInv(q))'
<1>1. job'[q] = job[q] /\ FromInv(q) /\ CopyInv(q) /\ ToInv(q)
  BY DEF BackupInv, JobsInv, TypeInv
<1>2. FromInv(q)'
  BY <1>1 DEF FromInv, Made
<1>3. job[q].kind \in Kinds /\ job[q].to \in {"dst", "out"}
  BY <1>1 DEF FromInv, Active, Job, Kinds
<1>4. ToInv(q)'
  <2>1. job[q].kind = "restore" => job[q].to = "out"
    BY <1>1 DEF FromInv
  <2>2. CASE job[q].to = t
    BY <1>1, <2>1, <2>2 DEF ToInv
  <2>3. CASE job[q].to # t
    <3>1. file'[job[q].to] = file[job[q].to]
      BY <1>3, <2>3
    <3> QED
      BY <1>1, <3>1 DEF ToInv, Made
  <2> QED
    BY <2>2, <2>3
<1>5. CopyInv(q)'
  <2>1. CASE job[q].kind # "incremental"
    BY <1>1, <2>1 DEF CopyInv, InPlace
  <2>2. CASE job[q].kind = "incremental" /\ t = "dst"
    BY <1>1, <2>2 DEF CopyInv, Made
  <2>3. CASE job[q].kind = "incremental" /\ t # "dst"
    BY <1>1, <2>3 DEF CopyInv, Made
  <2> QED
    BY <2>1, <2>2, <2>3
<1> QED
  BY <1>2, <1>4, <1>5

-----------------------------------------------------------------------------
(* A call begins.  The sources of a call are not torn and have a commit.   *)
LEMMA StartKeepsAlone ==
  ASSUME BackupInv, NEW p \in Procs, ~Active(p), NEW new \in Job,
         job' = [job EXCEPT ![p] = new], new.step = "begin",
         \A q \in Procs : q # p /\ Active(q) =>
           /\ new.kind = "incremental" => job[q].kind = "restore"
           /\ job[q].kind = "incremental" => new.kind = "restore"
  PROVE  Alone'
<1>1. job \in [Procs -> Job \cup {Idle}]
  BY DEF BackupInv, TypeInv
<1>2. job'[p] = new /\ (\A q \in Procs : q # p => job'[q] = job[q])
  BY <1>1
<1>3. new.step \notin After
  BY DEF After
<1> SUFFICES ASSUME NEW a \in Procs, NEW b \in Procs, a # b, Active(a)', Active(b)'
             PROVE  /\ job'[a].kind = "incremental" => job'[b].kind = "restore"
                    /\ job'[a].step \in After /\ job'[b].step \in After
                         /\ job'[a].kind # "incremental" /\ job'[b].kind # "incremental"
                       => job'[a].to # job'[b].to
  BY DEF Alone
<1>4. CASE a # p /\ b # p
  BY <1>2, <1>4 DEF BackupInv, Alone, Active
<1>5. CASE a = p
  BY <1>2, <1>3, <1>5 DEF Active
<1>6. CASE b = p
  BY <1>2, <1>3, <1>6 DEF Active
<1> QED
  BY <1>4, <1>5, <1>6

(* The record of a new call.                                               *)
LEMMA CopyingType ==
  ASSUME BackupInv, NEW kind \in Kinds, NEW from \in Files, NEW to \in Files,
         NEW point \in Nat, NEW next \in Nat, file[from] \in LogFile
  PROVE  /\ Copying(kind, from, to, point, next) \in Job
         /\ Copying(kind, from, to, point, next).step = "begin"
         /\ Copying(kind, from, to, point, next).kind = kind
         /\ Copying(kind, from, to, point, next).from = from
         /\ Copying(kind, from, to, point, next).to = to
         /\ Copying(kind, from, to, point, next).point = point
         /\ Copying(kind, from, to, point, next).next = next
         /\ Copying(kind, from, to, point, next).history = file[from].history
         /\ Copying(kind, from, to, point, next).copied = <<>>
<1>1. (IF renaming THEN stamps - 1 ELSE stamps) \in Int
  BY DEF BackupInv, TypeInv
<1>2. {file[from].ckpt, file[from].prev} \in SUBSET Stamp /\ file[from].history \in Nat
  BY DEF LogFile
<1>3. <<>> \in Seq(Nat \X Nat) /\ NoStamp \in Stamp /\ "begin" \in Before \cup After
  BY DEF Stamp, Before
<1> QED
  BY <1>1, <1>2, <1>3 DEF Copying, Job

(* Where operators do not overlap calls, Free says what it seems to.       *)
LEMMA FreeMeans ==
  ASSUME Faults = {}, BackupInv, NEW kinds, Free("dst", kinds), "restore" \notin kinds,
         NEW q \in Procs, Active(q)
  PROVE  job[q].kind \notin kinds
<1>1. job[q].step # "idle"
  BY ActiveStep DEF BackupInv
<1>2. job[q].kind \in Kinds /\ FromInv(q)
  BY DEF Active, Job, BackupInv, JobsInv
<1>3. job[q].kind \in kinds => job[q].to = "dst"
  BY <1>2 DEF FromInv, Kinds
<1> QED
  BY <1>1, <1>3 DEF Free

LEMMA StartBackupKeeps ==
  ASSUME Faults = {}, BackupInv, NEW p \in Procs, StartBackup(p)
  PROVE  BackupInv'
<1>1. PICK new : new = Copying("backup", "src", "dst", Src.committed, 1)
  OBVIOUS
<1>2. /\ Src \in LogFile /\ Src.committed \in Nat /\ Src.committed >= 1 /\ Src.history \in Nat
      /\ "src" \in Files /\ "dst" \in Files /\ "backup" \in Kinds
  BY DEF BackupInv, SourceInv, LogFile, Files, Kinds
<1>3. /\ new \in Job /\ new.step = "begin" /\ new.kind = "backup" /\ new.from = "src"
      /\ new.to = "dst" /\ new.point = Src.committed /\ new.next = 1
      /\ new.history = Src.history /\ new.copied = <<>>
  BY <1>1, <1>2, CopyingType DEF Src
<1>4. /\ ~Active(p) /\ job' = [job EXCEPT ![p] = new] /\ file' = file /\ stamps' = stamps
      /\ renaming' = renaming /\ points' = points
  BY <1>1, ActiveStep DEF StartBackup, Started, BackupInv
<1>5. job'[p] = new /\ Src' = Src
  BY <1>4 DEF BackupInv, TypeInv, Src
<1>6. \A q \in Procs : Active(q) => job[q].kind # "incremental"
  BY FreeMeans DEF StartBackup
<1>7. Alone'
  BY <1>3, <1>4, <1>6, StartKeepsAlone
<1>8. FromInv(p)'
  BY <1>2, <1>3, <1>5 DEF FromInv
<1>9. CopyInv(p)' /\ ToInv(p)'
  BY <1>3, <1>5 DEF CopyInv, ToInv, InPlace, After
<1>10. PointsInv'
  BY <1>4 DEF BackupInv, PointsInv
<1> QED
  BY <1>3, <1>4, <1>7, <1>8, <1>9, <1>10, RecordKeeps

LEMMA StartRestoreKeeps ==
  ASSUME BackupInv, NEW p \in Procs, StartRestore(p)
  PROVE  BackupInv'
<1>1. Made("dst") /\ file["dst"].linked
  BY DEF StartRestore, Legible, Exists, Made
<1>2. /\ file["dst"] \in LogFile /\ file["dst"].committed \in Nat
      /\ file["dst"].committed >= 1 /\ file["dst"].history \in Nat
      /\ "dst" \in Files /\ "out" \in Files /\ "restore" \in Kinds
  BY <1>1, MadeLog DEF BackupInv, FilesInv, FileInv, LogFile, Files, Kinds
<1>3. PICK k \in {file["dst"].committed} \cup {r.at : r \in {q \in points : Holds("dst", q)}} :
        Started(p, Copying("restore", "dst", "out", k, 1))
  BY DEF StartRestore
<1>4. k \in Nat /\ k >= 1
  BY <1>2, <1>3 DEF BackupInv, PointsInv
<1>5. PICK new : new = Copying("restore", "dst", "out", k, 1)
  OBVIOUS
<1>6. /\ new \in Job /\ new.step = "begin" /\ new.kind = "restore" /\ new.from = "dst"
      /\ new.to = "out" /\ new.point = k /\ new.next = 1
      /\ new.history = file["dst"].history /\ new.copied = <<>>
  BY <1>2, <1>4, <1>5, CopyingType
<1>7. /\ ~Active(p) /\ job' = [job EXCEPT ![p] = new] /\ file' = file /\ stamps' = stamps
      /\ renaming' = renaming /\ points' = points
  BY <1>3, <1>5, ActiveStep DEF Started, BackupInv
<1>8. job'[p] = new /\ Src' = Src
  BY <1>7 DEF BackupInv, TypeInv, Src
<1>9. Alone'
  BY <1>6, <1>7, StartKeepsAlone
<1>10. FromInv(p)'
  BY <1>1, <1>4, <1>6, <1>7, <1>8 DEF FromInv, Made
<1>11. CopyInv(p)' /\ ToInv(p)'
  BY <1>6, <1>8 DEF CopyInv, ToInv, InPlace, After
<1>12. PointsInv'
  BY <1>7 DEF BackupInv, PointsInv
<1> QED
  BY <1>6, <1>7, <1>9, <1>10, <1>11, <1>12, RecordKeeps

(* The last page of the backup says that it has the history of the source. *)
LEMMA StartIncrementalKeeps ==
  ASSUME Faults = {}, BackupInv, NEW p \in Procs, StartIncremental(p)
  PROVE  BackupInv'
<1>1. Made("dst") /\ file["dst"].linked
  BY DEF StartIncremental, Legible, Exists, Made
<1>2. /\ file["dst"] \in LogFile /\ file["dst"].committed \in Nat
      /\ file["dst"].committed >= 1 /\ file["dst"].pages \in Seq(Nat \X Nat)
      /\ file["dst"].committed <= Len(file["dst"].pages)
      /\ InPlace(file["dst"].pages, file["dst"].history)
  BY <1>1, MadeLog DEF BackupInv, FilesInv, FileInv, LogFile, Files
<1>3. /\ Src \in LogFile /\ Src.committed \in Nat /\ Src.committed >= 1
      /\ Src.pages \in Seq(Nat \X Nat) /\ Src.committed <= Len(Src.pages)
      /\ InPlace(Src.pages, Src.history) /\ Src.history \in Nat
      /\ "src" \in Files /\ "dst" \in Files /\ "incremental" \in Kinds
  BY DEF BackupInv, SourceInv, LogFile, Files, Kinds
<1>4. /\ file["dst"].committed <= Src.committed
      /\ file["dst"].pages[file["dst"].committed] = Src.pages[file["dst"].committed]
  BY <1>2 DEF StartIncremental, BelongsTo
<1>5. file["dst"].history = Src.history
  <2>1. file["dst"].committed \in 1..Len(file["dst"].pages)
    BY <1>2
  <2>2. file["dst"].committed \in 1..Len(Src.pages)
    <3>1. \A a, b, c \in Nat : a >= 1 /\ a <= b /\ b <= c => a \in 1..c
      OBVIOUS
    <3>2. Len(Src.pages) \in Nat
      BY <1>3
    <3> QED
      BY <1>2, <1>3, <1>4, <3>1, <3>2, Zenon
  <2>3. /\ file["dst"].pages[file["dst"].committed] = <<file["dst"].history, file["dst"].committed>>
        /\ Src.pages[file["dst"].committed] = <<Src.history, file["dst"].committed>>
    BY <1>2, <1>3, <2>1, <2>2 DEF InPlace
  <2>4. \A a, b, c : <<a, c>> = <<b, c>> => a = b
    OBVIOUS
  <2>5. <<file["dst"].history, file["dst"].committed>> = <<Src.history, file["dst"].committed>>
    BY <1>4, <2>3, Zenon
  <2> QED
    BY <2>4, <2>5, Zenon
<1>6. file["dst"].committed \in Nat /\ Src.committed \in Nat /\ file["dst"].committed <= Src.committed
  BY <1>2, <1>3, <1>4
<1>7. PICK n : n = file["dst"].committed + 1
  OBVIOUS
<1>8. n \in Nat /\ n >= 1 /\ n <= Src.committed + 1
  BY <1>6, <1>7
<1>9. PICK new : new = Copying("incremental", "src", "dst", Src.committed, n)
  OBVIOUS
<1>10. /\ new \in Job /\ new.step = "begin" /\ new.kind = "incremental" /\ new.from = "src"
      /\ new.to = "dst" /\ new.point = Src.committed /\ new.next = n
      /\ new.history = Src.history /\ new.copied = <<>>
  <2>1. file["src"] \in LogFile /\ file["src"].history = Src.history
    BY <1>3 DEF Src
  <2>2. Src.committed \in Nat /\ "src" \in Files /\ "dst" \in Files /\ "incremental" \in Kinds
    BY <1>3
  <2> QED
    BY <1>9, <1>8, <2>1, <2>2, CopyingType
<1>11. /\ ~Active(p) /\ job' = [job EXCEPT ![p] = new] /\ file' = file /\ stamps' = stamps
      /\ renaming' = renaming /\ points' = points
  BY <1>9, <1>7, ActiveStep DEF StartIncremental, Started, BackupInv
<1>12. job'[p] = new /\ Src' = Src
  BY <1>11 DEF BackupInv, TypeInv, Src
<1>13. \A q \in Procs : Active(q) => job[q].kind = "restore"
  <2> SUFFICES ASSUME NEW q \in Procs, Active(q) PROVE job[q].kind = "restore"
    OBVIOUS
  <2>1. job[q].kind \notin {"incremental", "backup"}
    BY FreeMeans DEF StartIncremental
  <2> QED
    BY <2>1 DEF Active, Job, Kinds
<1>14. Alone'
  BY <1>10, <1>11, <1>13, StartKeepsAlone
<1>15. FromInv(p)'
  BY <1>3, <1>10, <1>12, <1>6, <1>8, SMTT(30) DEF FromInv
<1>16. CopyInv(p)' /\ ToInv(p)'
  BY <1>1, <1>5, <1>10, <1>11, <1>12, <1>7 DEF CopyInv, ToInv, Made, After
<1>17. PointsInv'
  BY <1>11 DEF BackupInv, PointsInv
<1> QED
  BY <1>10, <1>11, <1>14, <1>15, <1>16, <1>17, RecordKeeps

-----------------------------------------------------------------------------
(* What is known of a call that is under way.                              *)
LEMMA CallFacts ==
  ASSUME BackupInv, NEW p \in Procs, job[p].step # "idle"
  PROVE  /\ Active(p) /\ job[p] \in Job /\ FromInv(p) /\ CopyInv(p) /\ ToInv(p)
         /\ job[p].point \in Nat /\ job[p].next \in Nat /\ job[p].history \in Nat
         /\ job[p].kind \in Kinds /\ job[p].step \in Before \cup After
         /\ job[p].to \in {"dst", "out"} /\ job[p].bytes \in Stamp
         /\ job[p].copied \in Seq(Nat \X Nat)
         /\ job[p].kind # "restore" => job[p].from = "src" /\ job[p].to = "dst"
         /\ job[p].kind = "restore" => job[p].from = "dst" /\ job[p].to = "out"
<1>1. Active(p)
  BY ActiveStep DEF BackupInv
<1>2. FromInv(p) /\ CopyInv(p) /\ ToInv(p)
  BY <1>1 DEF BackupInv, JobsInv
<1> QED
  BY <1>1, <1>2 DEF Active, Job, FromInv

LEMMA IdleKeepsAlone ==
  ASSUME BackupInv, NEW p \in Procs, job' = [job EXCEPT ![p] = Idle]
  PROVE  Alone' /\ Idle \notin Job
<1>1. Idle \notin Job
  BY DEF Idle, Job, Before, After
<1> QED
  BY <1>1, KeepsAlone

(* A call ends and leaves the files as they are.                           *)
LEMMA EndKeeps ==
  ASSUME BackupInv, NEW p \in Procs, job' = [job EXCEPT ![p] = Idle],
         file' = file, stamps' = stamps, renaming' = renaming, PointsInv'
  PROVE  BackupInv'
BY IdleKeepsAlone, RecordKeeps

(* A call that made a file removes its name again: no call relies on it    *)
(* but one that has the file open.                                         *)
LEMMA UnpublishKeeps ==
  ASSUME BackupInv, NEW p \in Procs, job[p].step \in {"carry", "rename"},
         job' = [job EXCEPT ![p] = Idle], file' = Unpublished(p),
         stamps' = stamps, renaming' = renaming, points' = points
  PROVE  BackupInv'
<1>1. job[p].step # "idle" /\ job[p].step \in After
  BY DEF After
<1>2. /\ Active(p) /\ FromInv(p) /\ ToInv(p) /\ job[p].kind \in Kinds
      /\ job[p].to \in {"dst", "out"} /\ job[p].to \in Files
      /\ job[p].kind # "restore" => job[p].from = "src" /\ job[p].to = "dst"
      /\ job[p].kind = "restore" => job[p].from = "dst" /\ job[p].to = "out"
  BY <1>1, CallFacts DEF Files
<1>3. CASE job[p].kind = "incremental"
  <2>1. file' = file
    BY <1>3 DEF Unpublished
  <2> QED
    BY <2>1, EndKeeps DEF BackupInv, PointsInv
<1>4. CASE job[p].kind # "incremental"
  <2>1. PICK t \in {"dst", "out"} : t = job[p].to
    BY <1>2
  <2>2. /\ Made(t) /\ file[t] \in LogFile /\ file[t].history = job[p].history
        /\ t \in Files /\ FileInv(t)
    BY <1>1, <1>2, <2>1, MadeLog DEF ToInv, BackupInv, FilesInv
  <2>3. PICK L : L = [file[t] EXCEPT !.linked = FALSE, !.ckpt = NoStamp]
    OBVIOUS
  <2>4. /\ L \in LogFile /\ L.history = file[t].history /\ ~L.linked /\ L.ckpt = NoStamp
        /\ L.pages = file[t].pages /\ L.committed = file[t].committed
    BY <2>2, <2>3 DEF LogFile, Stamp
  <2>5. file' = [file EXCEPT ![t] = L]
    BY <1>4, <2>1, <2>2, <2>3 DEF Unpublished, To, BackupInv, TypeInv
  <2>6. /\ file'[t] = L /\ Src' = Src /\ (\A f \in Files : f # t => file'[f] = file[f])
        /\ "dst" \in Files /\ "out" \in Files
    BY <2>2, <2>5 DEF BackupInv, TypeInv, Src, Files
  <2>7. FileInv(t)'
    BY <2>2, <2>4, <2>6 DEF FileInv
  <2>8. Alone' /\ Idle \notin Job
    BY IdleKeepsAlone
  <2>9. ASSUME NEW q \in Procs \ {p}, Active(q)
        PROVE  (FromInv(q) /\ CopyInv(q) /\ ToInv(q))'
    <3>1. job'[q] = job[q] /\ FromInv(q) /\ CopyInv(q) /\ ToInv(q)
      BY <2>9 DEF BackupInv, JobsInv, TypeInv
    <3>2. job[q].kind = "incremental" => t = "out"
      BY <1>2, <1>4, <2>1, <2>9 DEF BackupInv, Alone, Kinds
    <3>3. job[q].step \in After /\ job[q].kind # "incremental" => job[q].to # t
      BY <1>1, <1>2, <1>4, <2>1, <2>9 DEF BackupInv, Alone
    <3>4. job[q].to \in {"dst", "out"} /\ (job[q].kind = "incremental" => job[q].to = "dst")
      BY <2>9, CallFacts, ActiveStep DEF BackupInv
    <3>5. t = "dst" => job[p].history = Src.history
      BY <1>2, <2>1 DEF FromInv
    <3>6. Made(t)'
      BY <2>4, <2>6, FileAssumption DEF Made
    <3>7. FromInv(q)'
      <4>1. CASE job[q].kind # "restore"
        BY <2>6, <3>1, <4>1 DEF FromInv
      <4>2. CASE job[q].kind = "restore" /\ t = "dst"
        BY <2>2, <2>4, <2>6, <3>1, <3>5, <3>6, <4>2 DEF FromInv
      <4>3. CASE job[q].kind = "restore" /\ t # "dst"
        BY <2>6, <3>1, <4>3 DEF FromInv, Made
      <4> QED
        BY <4>1, <4>2, <4>3
    <3>8. CopyInv(q)'
      BY <2>6, <3>1, <3>2 DEF CopyInv, Made, InPlace
    <3>9. ToInv(q)'
      <4>1. job[q].step \in After => file'[job[q].to] = file[job[q].to]
        BY <2>6, <3>2, <3>3, <3>4
      <4> QED
        BY <3>1, <4>1 DEF ToInv, Made
    <3> QED
      BY <3>7, <3>8, <3>9
  <2> QED
    BY <2>4, <2>5, <2>7, <2>8, <2>9, FileKeeps
<1> QED
  BY <1>3, <1>4

(* A whole copy begins with a temporary file; an incremental backup cuts   *)
(* off its file what no superblock ever counted.                           *)
LEMMA BeginKeeps ==
  ASSUME BackupInv, NEW p \in Procs, Begin(p)
  PROVE  BackupInv'
<1>1. /\ job[p].step = "begin" /\ stamps' = stamps /\ renaming' = renaming /\ points' = points
      /\ PointsInv'
  BY DEF Begin, BackupInv, PointsInv
<1>2. /\ Active(p) /\ job[p] \in Job /\ FromInv(p) /\ CopyInv(p)
      /\ job[p].next \in Nat /\ job[p].kind \in Kinds
      /\ job[p].kind = "incremental" => job[p].to = "dst" /\ job[p].from = "src"
      /\ job[p].point \in Nat
  BY <1>1, CallFacts
<1>3. CASE job' = [job EXCEPT ![p] = Idle] /\ file' = file
  BY <1>1, <1>3, EndKeeps
<1>4. CASE Goto(p, "copy")
  <2>1. PICK new : new = [job[p] EXCEPT !.step = "copy"]
    OBVIOUS
  <2>2. /\ new \in Job /\ new.step = "copy" /\ new.kind = job[p].kind /\ new.to = job[p].to
        /\ new.from = job[p].from /\ new.point = job[p].point /\ new.next = job[p].next
        /\ new.history = job[p].history /\ new.copied = job[p].copied
    BY <1>2, <2>1 DEF Job, Before
  <2>3. job' = [job EXCEPT ![p] = new] /\ job'[p] = new
    BY <1>4, <2>1 DEF Goto, BackupInv, TypeInv
  <2>4. "copy" \notin After /\ "copy" \notin {"carry", "rename"}
    BY DEF After
  <2>5. Alone'
    BY <1>2, <2>2, <2>3, <2>4, KeepsAlone
  <2>6. ToInv(p)'
    BY <2>2, <2>3, <2>4 DEF ToInv
  <2>7. CASE job[p].kind # "incremental"
    <3>1. file' = file /\ Src' = Src
      BY <2>7 DEF Begin, Src
    <3>2. FromInv(p)' /\ CopyInv(p)'
      BY <1>2, <2>2, <2>3, <2>7, <3>1 DEF FromInv, CopyInv, Made, InPlace
    <3> QED
      BY <1>1, <2>2, <2>3, <2>5, <2>6, <3>1, <3>2, RecordKeeps
  <2>8. CASE job[p].kind = "incremental"
    <3>1. /\ Made("dst") /\ file["dst"] \in LogFile /\ FileInv("dst") /\ file["dst"].linked
          /\ file["dst"].history = job[p].history /\ "dst" \in Files /\ "src" \in Files
          /\ file["dst"].pages \in Seq(Nat \X Nat) /\ file["dst"].committed \in Nat
      BY <1>2, <2>8, MadeLog DEF CopyInv, BackupInv, FilesInv, Files, LogFile
    <3>2. /\ job[p].next = file["dst"].committed + 1
          /\ file["dst"].committed <= Len(file["dst"].pages)
          /\ InPlace(file["dst"].pages, file["dst"].history)
      BY <1>1, <1>2, <2>8, <3>1 DEF CopyInv, FileInv
    <3>3. PICK P : P = SubSeq(file["dst"].pages, 1, job[p].next - 1)
      OBVIOUS
    <3>4. /\ P \in Seq(Nat \X Nat) /\ Len(P) = job[p].next - 1
          /\ InPlace(P, file["dst"].history)
      <4>1. job[p].next - 1 = file["dst"].committed
        BY <3>1, <3>2
      <4> QED
        BY <3>1, <3>2, <3>3, <4>1, CutInPlace, SMTT(30)
    <3>5. PICK L : L = [file["dst"] EXCEPT !.pages = P]
      OBVIOUS
    <3>6. /\ L \in LogFile /\ L.history = file["dst"].history /\ L.linked = file["dst"].linked
          /\ L.pages = P /\ L.committed = file["dst"].committed /\ L.ckpt = file["dst"].ckpt
      BY <3>1, <3>4, <3>5 DEF LogFile
    <3>7. file' = [file EXCEPT !["dst"] = L]
      BY <1>2, <2>8, <3>1, <3>3, <3>5 DEF Begin, To, BackupInv, TypeInv
    <3>8. /\ file'["dst"] = L /\ file'["out"] = file["out"] /\ Src' = Src /\ Made("dst")'
      BY <3>1, <3>6, <3>7, FileAssumption DEF BackupInv, TypeInv, Src, Files, Made
    <3>9. FileInv("dst")'
      BY <3>1, <3>2, <3>4, <3>6, <3>8, SMTT(30) DEF FileInv
    <3>10. FromInv(p)'
      BY <1>2, <2>2, <2>3, <2>8, <3>8 DEF FromInv
    <3>11. CopyInv(p)'
      <4>1. file["dst"].committed < job[p].next
        BY <3>1, <3>2
      <4> QED
        BY <2>2, <2>3, <2>8, <3>1, <3>4, <3>6, <3>8, <4>1 DEF CopyInv
    <3>12. ASSUME NEW q \in Procs \ {p}, Active(q)
           PROVE  (FromInv(q) /\ CopyInv(q) /\ ToInv(q))'
      <4>1. job[q].kind = "restore"
        BY <1>2, <2>8, <3>12 DEF BackupInv, Alone
      <4> QED
        BY <2>3, <3>1, <3>6, <3>8, <3>12, <4>1, OthersKept
    <3> QED
      BY <1>1, <2>2, <2>3, <2>5, <2>6, <3>6, <3>7, <3>9, <3>10, <3>11, <3>12, FileKeeps
  <2> QED
    BY <2>7, <2>8
<1> QED
  BY <1>3, <1>4 DEF Begin, Fails

(* What Append does to a sequence.                                          *)
LEMMA AppendAdds ==
  ASSUME NEW S, NEW q \in Seq(S), NEW e \in S
  PROVE  /\ Append(q, e) \in Seq(S) /\ Len(Append(q, e)) = Len(q) + 1 /\ Len(q) \in Nat
         /\ Append(q, e)[Len(q) + 1] = e
         /\ \A i \in 1..Len(q) : Append(q, e)[i] = q[i]
  OBVIOUS

(* A page is copied from where the call reads to where it writes.          *)
LEMMA CopyPageKeeps ==
  ASSUME BackupInv, NEW p \in Procs, CopyPage(p)
  PROVE  BackupInv'
<1>1. /\ job[p].step = "copy" /\ stamps' = stamps /\ renaming' = renaming /\ points' = points
      /\ PointsInv' /\ job[p].next <= job[p].point
      /\ job[p].next \in DOMAIN file[job[p].from].pages
  BY DEF CopyPage, BackupInv, PointsInv, HasPage
<1>2. /\ Active(p) /\ job[p] \in Job /\ FromInv(p) /\ CopyInv(p) /\ ToInv(p)
      /\ job[p].next \in Nat /\ job[p].kind \in Kinds /\ job[p].history \in Nat
      /\ job[p].kind # "restore" => job[p].to = "dst" /\ job[p].from = "src"
      /\ job[p].kind = "restore" => job[p].to = "out" /\ job[p].from = "dst"
      /\ job[p].point \in Nat /\ job[p].copied \in Seq(Nat \X Nat)
  BY <1>1, CallFacts
<1>3. PICK g : g = file[job[p].from].pages[job[p].next]
  OBVIOUS
<1>4. g = <<job[p].history, job[p].next>>
  <2>1. CASE job[p].kind = "restore"
    <3>1. /\ file["dst"].pages \in Seq(Nat \X Nat) /\ InPlace(file["dst"].pages, job[p].history)
      BY <1>2, <2>1, MadeLog DEF FromInv, BackupInv, FilesInv, FileInv, LogFile, Files
    <3>2. g = file["dst"].pages[job[p].next] /\ job[p].next \in DOMAIN file["dst"].pages
      BY <1>1, <1>2, <1>3, <2>1
    <3> QED
      BY <3>1, <3>2, PageInPlace
  <2>2. CASE job[p].kind # "restore"
    <3>1. /\ file["src"].pages \in Seq(Nat \X Nat) /\ InPlace(file["src"].pages, job[p].history)
      BY <1>2, <2>2 DEF FromInv, BackupInv, SourceInv, Src, LogFile
    <3>2. g = file["src"].pages[job[p].next] /\ job[p].next \in DOMAIN file["src"].pages
      BY <1>1, <1>2, <1>3, <2>2
    <3> QED
      BY <3>1, <3>2, PageInPlace
  <2> QED
    BY <2>1, <2>2
<1>5. g \in Nat \X Nat
  BY <1>2, <1>4
<1>6. PICK n : n = job[p].next + 1
  OBVIOUS
<1>7. n \in Nat /\ n >= 1 /\ n <= job[p].point + 1 /\ job[p].next >= 1
  BY <1>1, <1>2, <1>6 DEF FromInv
<1>8. PICK c : c = IF job[p].kind = "incremental" THEN job[p].copied ELSE Append(job[p].copied, g)
  OBVIOUS
<1>9. /\ c \in Seq(Nat \X Nat)
      /\ job[p].kind # "incremental" => Len(c) = n - 1 /\ InPlace(c, job[p].history)
  <2>1. CASE job[p].kind = "incremental"
    BY <1>2, <1>8, <2>1
  <2>2. CASE job[p].kind # "incremental"
    <3>1. Len(job[p].copied) = job[p].next - 1 /\ InPlace(job[p].copied, job[p].history)
      BY <1>2, <2>2 DEF CopyInv
    <3>2. c = Append(job[p].copied, g)
      BY <1>8, <2>2
    <3>3. /\ c \in Seq(Nat \X Nat) /\ Len(c) = Len(job[p].copied) + 1
          /\ c[Len(job[p].copied) + 1] = g
          /\ \A i \in 1..Len(job[p].copied) : c[i] = job[p].copied[i]
      <4>1. PICK q : q = job[p].copied
        OBVIOUS
      <4>2. q \in Seq(Nat \X Nat) /\ c = Append(q, g)
        BY <1>2, <3>2, <4>1
      <4>3. /\ c \in Seq(Nat \X Nat) /\ Len(c) = Len(q) + 1
            /\ c[Len(q) + 1] = g
            /\ \A i \in 1..Len(q) : c[i] = q[i]
        BY <1>5, <4>2, AppendAdds
      <4> QED
        BY <4>1, <4>3, Zenon
    <3>4. \A a, b \in Nat : a = b - 1 => a + 1 = b
      OBVIOUS
    <3>5. Len(job[p].copied) \in Nat
      BY <1>2
    <3>6. Len(job[p].copied) + 1 = job[p].next
      BY <1>2, <3>1, <3>4, <3>5, Zenon
    <3>7. Len(c) = job[p].next /\ c[job[p].next] = g
      BY <3>3, <3>6, Zenon
    <3>8. Len(c) = n - 1
      BY <1>2, <1>6, <3>7
    <3>9. ASSUME NEW i \in 1..Len(c) PROVE c[i] = <<job[p].history, i>>
      <4>1. i = job[p].next \/ i \in 1..Len(job[p].copied)
        BY <1>2, <3>5, <3>6, <3>7
      <4>2. ASSUME i \in 1..Len(job[p].copied) PROVE job[p].copied[i] = <<job[p].history, i>>
        BY <3>1, <4>2 DEF InPlace
      <4> QED
        BY <1>4, <3>3, <3>7, <4>1, <4>2, Zenon
    <3> QED
      BY <3>3, <3>8, <3>9 DEF InPlace
  <2> QED
    BY <2>1, <2>2
<1>10. PICK new : new = [job[p] EXCEPT !.next = n, !.copied = c]
  OBVIOUS
<1>11. /\ new \in Job /\ new.step = job[p].step /\ new.kind = job[p].kind /\ new.to = job[p].to
       /\ new.from = job[p].from /\ new.point = job[p].point /\ new.next = n
       /\ new.history = job[p].history /\ new.copied = c /\ new.bytes = job[p].bytes
  BY <1>2, <1>7, <1>9, <1>10 DEF Job
<1>12. job' = [job EXCEPT ![p] = new] /\ job'[p] = new
  BY <1>3, <1>6, <1>8, <1>10 DEF CopyPage, BackupInv, TypeInv
<1>13. Alone'
  BY <1>2, <1>11, <1>12, KeepsAlone
<1>14. "copy" \notin After /\ "copy" \notin {"carry", "rename", "begin"}
  BY DEF After
<1>15. ToInv(p)'
  BY <1>1, <1>11, <1>12, <1>14 DEF ToInv
<1>16. CASE job[p].kind # "incremental"
  <2>1. file' = file /\ Src' = Src
    BY <1>16 DEF CopyPage, Src
  <2>2. FromInv(p)'
    BY <1>2, <1>7, <1>11, <1>12, <2>1 DEF FromInv, Made
  <2>3. CopyInv(p)'
    BY <1>9, <1>11, <1>12, <1>16 DEF CopyInv
  <2> QED
    BY <1>1, <1>11, <1>12, <1>13, <1>15, <2>1, <2>2, <2>3, RecordKeeps
<1>17. CASE job[p].kind = "incremental"
  <2>1. /\ Made("dst") /\ file["dst"] \in LogFile /\ FileInv("dst") /\ file["dst"].linked
        /\ file["dst"].history = job[p].history /\ "dst" \in Files /\ "src" \in Files
        /\ file["dst"].pages \in Seq(Nat \X Nat) /\ file["dst"].committed \in Nat
        /\ Len(file["dst"].pages) = job[p].next - 1 /\ file["dst"].committed < job[p].next
        /\ job[p].to = "dst" /\ job[p].from = "src"
        /\ InPlace(file["dst"].pages, file["dst"].history)
    BY <1>1, <1>2, <1>17, MadeLog DEF CopyInv, BackupInv, FilesInv, FileInv, Files, LogFile
  <2>2. PICK P : P = [i \in 1..job[p].next |->
                       IF i = job[p].next THEN g
                       ELSE IF i <= Len(file["dst"].pages) THEN file["dst"].pages[i] ELSE <<0, 0>>]
    OBVIOUS
  <2>3. /\ P \in Seq(Nat \X Nat) /\ Len(P) = job[p].next
        /\ InPlace(P, job[p].history)
    <3>1. P = [i \in 1..job[p].next |->
                 IF i = job[p].next THEN <<job[p].history, job[p].next>>
                 ELSE IF i <= Len(file["dst"].pages) THEN file["dst"].pages[i] ELSE <<0, 0>>]
      BY <1>4, <2>2
    <3>2. P = [i \in 1..job[p].next |-> P[i]]
      BY <2>2
    <3>3. P[job[p].next] = <<job[p].history, job[p].next>>
      BY <3>1, <1>2, <1>7
    <3>4. \A i \in 1..Len(file["dst"].pages) : P[i] = file["dst"].pages[i]
      BY <3>1, <1>2, <2>1
    <3>5. /\ file["dst"].pages \in Seq(Nat \X Nat) /\ job[p].history \in Nat
          /\ InPlace(file["dst"].pages, job[p].history)
          /\ job[p].next \in Nat /\ job[p].next >= 1 /\ Len(file["dst"].pages) = job[p].next - 1
      BY <1>2, <1>7, <2>1
    <3> QED
      BY <3>5, <3>2, <3>3, <3>4, ExtendInPlace
  <2>4. file["dst"].committed <= Len(P) /\ file["dst"].committed >= 1
    BY <1>2, <2>1, <2>3 DEF FileInv
  <2>5. PICK L : L = [file["dst"] EXCEPT !.pages = P]
    OBVIOUS
  <2>6. /\ L \in LogFile /\ L.history = file["dst"].history /\ L.linked = file["dst"].linked
        /\ L.pages = P /\ L.committed = file["dst"].committed /\ L.ckpt = file["dst"].ckpt
    BY <2>1, <2>3, <2>5 DEF LogFile
  <2>7. file' = [file EXCEPT !["dst"] = L]
    <3>1. Max({Len(file["dst"].pages), job[p].next}) = job[p].next
      <4>1. Len(file["dst"].pages) \in Nat /\ Len(file["dst"].pages) < job[p].next
        BY <1>2, <2>1
      <4> QED
        BY <1>2, <4>1, MaxOfTwo
    <3> QED
      BY <1>3, <1>17, <2>1, <2>2, <2>5, <3>1, ZenonT(60) DEF CopyPage, To, BackupInv, TypeInv
  <2>8. /\ file'["dst"] = L /\ file'["out"] = file["out"] /\ Src' = Src /\ Made("dst")'
    BY <2>1, <2>6, <2>7, FileAssumption DEF BackupInv, TypeInv, Src, Files, Made
  <2>9. FileInv("dst")'
    BY <2>1, <2>3, <2>4, <2>6, <2>8 DEF FileInv
  <2>10. FromInv(p)'
    BY <1>2, <1>7, <1>11, <1>12, <1>17, <2>8 DEF FromInv
  <2>11. CopyInv(p)'
    <3>1. Len(P) = n - 1 /\ file["dst"].committed < n
      BY <1>2, <1>6, <2>1, <2>3
    <3> QED
      BY <1>1, <1>11, <1>12, <1>14, <1>17, <2>1, <2>6, <2>8, <3>1 DEF CopyInv
  <2>12. ASSUME NEW q \in Procs \ {p}, Active(q)
         PROVE  (FromInv(q) /\ CopyInv(q) /\ ToInv(q))'
    <3>1. job[q].kind = "restore"
      BY <1>2, <1>17, <2>12 DEF BackupInv, Alone
    <3> QED
      BY <1>12, <2>1, <2>6, <2>8, <2>12, <3>1, OthersKept
  <2> QED
    BY <1>1, <1>11, <1>12, <1>13, <1>15, <2>6, <2>7, <2>9, <2>10, <2>11, <2>12, FileKeeps
<1> QED
  BY <1>16, <1>17

(* The whole copy gets its name, if that is free.                          *)
LEMMA PublishKeeps ==
  ASSUME BackupInv, NEW p \in Procs, Publish(p)
  PROVE  BackupInv'
<1>1. /\ job[p].step = "copy" /\ stamps' = stamps /\ renaming' = renaming /\ points' = points
      /\ PointsInv' /\ job[p].next > job[p].point /\ job[p].kind # "incremental"
  BY DEF Publish, Copied, BackupInv, PointsInv
<1>2. /\ Active(p) /\ job[p] \in Job /\ FromInv(p) /\ CopyInv(p)
      /\ job[p].next \in Nat /\ job[p].kind \in Kinds /\ job[p].history \in Nat
      /\ job[p].kind # "restore" => job[p].to = "dst" /\ job[p].from = "src"
      /\ job[p].kind = "restore" => job[p].to = "out" /\ job[p].from = "dst"
      /\ job[p].point \in Nat /\ job[p].copied \in Seq(Nat \X Nat)
      /\ job[p].to \in {"dst", "out"} /\ job[p].to \in Files
  BY <1>1, CallFacts DEF Files
<1>3. CASE Exists(job[p].to)
  <2>1. job' = [job EXCEPT ![p] = Idle] /\ file' = file
    BY <1>3 DEF Publish, To, Fails
  <2> QED
    BY <1>1, <2>1, EndKeeps
<1>4. CASE ~Exists(job[p].to)
  <2>1. PICK t \in {"dst", "out"} : t = job[p].to
    BY <1>2
  <2>2. /\ Len(job[p].copied) = job[p].point /\ InPlace(job[p].copied, job[p].history)
        /\ job[p].point >= 1 /\ job[p].next = job[p].point + 1
    BY <1>1, <1>2 DEF FromInv, CopyInv
  <2>3. PICK L : L = [Log(job[p].history, job[p].point, NoStamp) EXCEPT !.pages = job[p].copied]
    OBVIOUS
  <2>4. /\ L = [history |-> job[p].history, committed |-> job[p].point, torn |-> FALSE,
                linked |-> TRUE, ckpt |-> NoStamp, prev |-> NoStamp, pages |-> job[p].copied]
        /\ L \in LogFile
    BY <1>2, <2>3 DEF Log, LogFile, Stamp
  <2>5. file' = [file EXCEPT ![t] = L] /\ Goto(p, "ckpt")
    BY <1>4, <2>1, <2>3 DEF Publish, To
  <2>6. /\ file'[t] = L /\ Src' = Src /\ (\A f \in Files : f # t => file'[f] = file[f])
        /\ "dst" \in Files /\ "out" \in Files /\ Made(t)'
    BY <1>2, <2>1, <2>4, <2>5, FileAssumption DEF BackupInv, TypeInv, Src, Files, Made
  <2>7. FileInv(t)'
    BY <2>2, <2>4, <2>6 DEF FileInv
  <2>8. PICK new : new = [job[p] EXCEPT !.step = "ckpt"]
    OBVIOUS
  <2>9. /\ new \in Job /\ new.step = "ckpt" /\ new.kind = job[p].kind /\ new.to = t
        /\ new.from = job[p].from /\ new.point = job[p].point /\ new.next = job[p].next
        /\ new.history = job[p].history /\ new.copied = job[p].copied
    BY <1>2, <2>1, <2>8 DEF Job, After
  <2>10. job' = [job EXCEPT ![p] = new] /\ job'[p] = new
    BY <2>5, <2>8 DEF Goto, BackupInv, TypeInv
  <2>11. ~(Made(t) /\ file[t].linked)
    BY <1>4, <2>1 DEF Exists, Made
  <2>12. ASSUME NEW q \in Procs, q # p, Active(q)
         PROVE  job[q].step \in After => job[q].to # t
    BY <2>11, <2>12 DEF BackupInv, JobsInv, ToInv
  <2>13. Alone'
    BY <1>2, <2>1, <2>9, <2>10, <2>12, KeepsAlone, ZenonT(60)
  <2>14. FromInv(p)'
    <3>1. CASE job[p].kind = "restore"
      BY <1>2, <2>1, <2>6, <2>9, <2>10, <3>1 DEF FromInv, Made
    <3>2. CASE job[p].kind # "restore"
      BY <1>2, <2>1, <2>6, <2>9, <2>10, <3>2 DEF FromInv
    <3> QED
      BY <3>1, <3>2
  <2>15. CopyInv(p)'
    BY <1>1, <1>2, <2>9, <2>10 DEF CopyInv, InPlace
  <2>16. ToInv(p)'
    BY <2>4, <2>6, <2>9, <2>10 DEF ToInv, After
  <2>17. ASSUME NEW q \in Procs \ {p}, Active(q)
         PROVE  (FromInv(q) /\ CopyInv(q) /\ ToInv(q))'
    <3>1. job'[q] = job[q] /\ FromInv(q) /\ CopyInv(q) /\ ToInv(q)
      BY <2>10, <2>17 DEF BackupInv, JobsInv, TypeInv
    <3>2. job[q].kind = "incremental" => t = "out"
      BY <1>1, <1>2, <2>1, <2>17 DEF BackupInv, Alone, Kinds
    <3>3. /\ job[q].to \in {"dst", "out"} /\ (job[q].kind = "incremental" => job[q].to = "dst")
      BY <2>17, CallFacts, ActiveStep DEF BackupInv
    <3>4. FromInv(q)'
      <4>1. CASE job[q].kind # "restore"
        BY <2>6, <3>1, <4>1 DEF FromInv
      <4>2. CASE job[q].kind = "restore" /\ t = "dst"
        <5>1. job[p].history = Src.history
          BY <1>2, <2>1, <4>2 DEF FromInv
        <5>2. job[q].history = Src.history
          BY <2>11, <3>1, <4>2 DEF FromInv
        <5> QED
          BY <2>4, <2>6, <3>1, <4>2, <5>1, <5>2 DEF FromInv
      <4>3. CASE job[q].kind = "restore" /\ t # "dst"
        BY <2>6, <3>1, <4>3 DEF FromInv, Made
      <4> QED
        BY <4>1, <4>2, <4>3
    <3>5. CopyInv(q)'
      BY <2>6, <3>1, <3>2 DEF CopyInv, Made, InPlace
    <3>6. ToInv(q)'
      <4>1. job[q].step \in After => file'[job[q].to] = file[job[q].to]
        BY <2>6, <2>12, <2>17, <3>3
      <4> QED
        BY <3>1, <4>1 DEF ToInv, Made
    <3> QED
      BY <3>4, <3>5, <3>6
  <2> QED
    BY <1>1, <2>4, <2>5, <2>7, <2>9, <2>10, <2>13, <2>14, <2>15, <2>16, <2>17, FileKeeps
<1> QED
  BY <1>3, <1>4

(* The superblock of the backup counts what has been appended.  A call     *)
(* that ends there leaves it as it was, or cut short, or written.          *)
LEMMA SuperblockIs ==
  ASSUME BackupInv, NEW p \in Procs, job[p].step = "copy", Copied(p),
         job[p].kind = "incremental",
         file' = [file EXCEPT ![To(p)].torn = TRUE] \/ file' = Advanced(p)
  PROVE  \E L \in LogFile :
           /\ file' = [file EXCEPT !["dst"] = L] /\ file'["dst"] = L
           /\ file'["out"] = file["out"] /\ Src' = Src /\ Made("dst") /\ Made("dst")'
           /\ L.history = file["dst"].history /\ L.linked = file["dst"].linked
           /\ L.pages = file["dst"].pages /\ L.ckpt = file["dst"].ckpt
           /\ L.committed = file["dst"].committed \/ L.committed = job[p].point
           /\ file["dst"].committed <= L.committed
           /\ file' = Advanced(p) => L.committed = job[p].point
           /\ file["dst"].history = job[p].history /\ FileInv("dst")'
<1>1. job[p].step # "idle" /\ job[p].next > job[p].point
  BY DEF Copied
<1>2. /\ Active(p) /\ job[p] \in Job /\ FromInv(p) /\ CopyInv(p)
      /\ job[p].next \in Nat /\ job[p].history \in Nat /\ job[p].point \in Nat
      /\ To(p) = "dst" /\ file \in [Files -> LogFile \cup {NoFile}]
      /\ "src" \in Files /\ "dst" \in Files /\ "out" \in Files
  BY <1>1, CallFacts DEF To, Files, BackupInv, TypeInv
<1>3. /\ Made("dst") /\ file["dst"] \in LogFile /\ FileInv("dst")
      /\ file["dst"].history = job[p].history
      /\ file["dst"].pages \in Seq(Nat \X Nat) /\ file["dst"].committed \in Nat
      /\ file["dst"].ckpt \in Stamp
      /\ Len(file["dst"].pages) = job[p].next - 1 /\ file["dst"].committed < job[p].next
      /\ InPlace(file["dst"].pages, file["dst"].history)
      /\ file["dst"].ckpt # NoStamp => file["dst"].ckpt <= file["dst"].committed
  BY <1>1, <1>2, MadeLog DEF CopyInv, BackupInv, FilesInv, FileInv, LogFile
<1>4. job[p].point >= 1 /\ job[p].next = job[p].point + 1
  BY <1>1, <1>2 DEF FromInv
<1>5. PICK L : /\ file' = [file EXCEPT !["dst"] = L]
               /\ \/ /\ L = [file["dst"] EXCEPT !.committed = job[p].point,
                                                !.history = job[p].history, !.torn = FALSE]
                     /\ file' = Advanced(p)
                  \/ /\ L = [file["dst"] EXCEPT !.torn = TRUE]
                     /\ file' = [file EXCEPT !["dst"].torn = TRUE]
  <2>1. CASE file' = Advanced(p)
    <3>1. PICK L : L = [file["dst"] EXCEPT !.committed = job[p].point,
                                           !.history = job[p].history, !.torn = FALSE]
      OBVIOUS
    <3>2. file' = [file EXCEPT !["dst"] = L]
      BY <1>2, <1>3, <2>1, <3>1 DEF Advanced
    <3> QED
      BY <2>1, <3>1, <3>2
  <2>2. CASE file' = [file EXCEPT ![To(p)].torn = TRUE]
    <3>1. PICK L : L = [file["dst"] EXCEPT !.torn = TRUE]
      OBVIOUS
    <3>2. /\ file' = [file EXCEPT !["dst"] = L]
          /\ file' = [file EXCEPT !["dst"].torn = TRUE]
      BY <1>2, <1>3, <2>2, <3>1
    <3> QED
      BY <3>1, <3>2
  <2> QED
    BY <2>1, <2>2
<1>6. /\ L \in LogFile /\ L.history = file["dst"].history /\ L.linked = file["dst"].linked
      /\ L.pages = file["dst"].pages /\ L.ckpt = file["dst"].ckpt
      /\ \/ L.committed = file["dst"].committed /\ L.torn
         \/ L.committed = job[p].point /\ ~L.torn
  BY <1>2, <1>3, <1>5 DEF LogFile
<1>7. /\ file'["dst"] = L /\ file'["out"] = file["out"] /\ Src' = Src /\ Made("dst")'
  BY <1>2, <1>3, <1>5, <1>6, FileAssumption DEF Src, Made
<1>8. file' = Advanced(p) => L.committed = job[p].point
  <2> SUFFICES ASSUME file' = Advanced(p) PROVE file'["dst"].committed = job[p].point
    BY <1>7
  <2>1. file'["dst"] = [file["dst"] EXCEPT !.committed = job[p].point,
                                           !.history = job[p].history, !.torn = FALSE]
    BY <1>2 DEF Advanced
  <2> QED
    BY <1>3, <2>1 DEF LogFile
<1>9. /\ file["dst"].committed <= L.committed /\ L.committed >= 1
      /\ L.committed <= Len(L.pages)
  BY <1>2, <1>3, <1>4, <1>6 DEF FileInv
<1>10. L.ckpt # NoStamp => L.ckpt <= L.committed
  <2> SUFFICES ASSUME L.ckpt # NoStamp PROVE L.ckpt <= L.committed
    OBVIOUS
  <2>1. L.ckpt \in Nat /\ L.ckpt <= file["dst"].committed /\ L.committed \in Nat
    BY <1>3, <1>6 DEF Stamp, LogFile
  <2> QED
    BY <1>3, <1>9, <2>1
<1>11. FileInv("dst")'
  BY <1>3, <1>6, <1>7, <1>9, <1>10 DEF FileInv
<1> QED
  BY <1>3, <1>5, <1>6, <1>7, <1>8, <1>9, <1>11

(* The other calls are restores, which read what was there already.        *)
LEMMA SuperblockOthers ==
  ASSUME BackupInv, NEW p \in Procs, NEW new, job[p].step = "copy", Copied(p),
         job[p].kind = "incremental",
         file' = [file EXCEPT ![To(p)].torn = TRUE] \/ file' = Advanced(p),
         job' = [job EXCEPT ![p] = new],
         NEW q \in Procs \ {p}, Active(q)
  PROVE  (FromInv(q) /\ CopyInv(q) /\ ToInv(q))'
<1>1. Active(p)
  BY CallFacts
<1>2. job[q].kind = "restore"
  BY <1>1 DEF BackupInv, Alone
<1>3. PICK L \in LogFile :
        /\ file'["dst"] = L /\ file'["out"] = file["out"] /\ Src' = Src
        /\ Made("dst") /\ Made("dst")'
        /\ L.history = file["dst"].history /\ L.linked = file["dst"].linked
  BY SuperblockIs
<1> QED
  BY <1>2, <1>3, OthersKept

LEMMA CutShortKeeps ==
  ASSUME BackupInv, NEW p \in Procs, job[p].step = "copy", Copied(p),
         job[p].kind = "incremental",
         file' = [file EXCEPT ![To(p)].torn = TRUE] \/ file' = Advanced(p),
         job' = [job EXCEPT ![p] = Idle],
         stamps' = stamps, renaming' = renaming, points' = points
  PROVE  BackupInv'
<1>1. PICK L \in LogFile : file' = [file EXCEPT !["dst"] = L] /\ FileInv("dst")'
  BY SuperblockIs
<1>2. Alone' /\ Idle \notin Job
  BY IdleKeepsAlone
<1>3. \A q \in Procs \ {p} : Active(q) => (FromInv(q) /\ CopyInv(q) /\ ToInv(q))'
  BY SuperblockOthers
<1> QED
  BY <1>1, <1>2, <1>3, FileKeeps

LEMMA AdvanceKeeps ==
  ASSUME BackupInv, NEW p \in Procs, Advance(p)
  PROVE  BackupInv'
<1>1. /\ job[p].step = "copy" /\ stamps' = stamps /\ renaming' = renaming /\ points' = points
      /\ job[p].next > job[p].point /\ job[p].kind = "incremental" /\ Copied(p)
      /\ file' = Advanced(p)
  BY DEF Advance, Copied
<1>2. /\ Active(p) /\ job[p] \in Job /\ FromInv(p) /\ CopyInv(p)
      /\ job[p].next \in Nat /\ job[p].history \in Nat /\ job[p].point \in Nat
      /\ job[p].to = "dst" /\ job[p].from = "src"
  BY <1>1, CallFacts
<1>3. /\ Made("dst") /\ file["dst"].linked /\ file["dst"].history = job[p].history
  BY <1>1, <1>2 DEF CopyInv
<1>6. PICK L \in LogFile :
        /\ file' = [file EXCEPT !["dst"] = L] /\ file'["dst"] = L /\ Src' = Src
        /\ Made("dst")' /\ L.history = file["dst"].history /\ L.linked = file["dst"].linked
        /\ L.committed = job[p].point /\ FileInv("dst")'
  <2>1. file' = [file EXCEPT ![To(p)].torn = TRUE] \/ file' = Advanced(p)
    BY <1>1
  <2> QED
    BY <1>1, <2>1, SuperblockIs, Zenon
<1>11. PICK new : new = [job[p] EXCEPT !.step = "ckpt"]
  OBVIOUS
<1>12. /\ new \in Job /\ new.step = "ckpt" /\ new.kind = job[p].kind /\ new.to = job[p].to
       /\ new.from = job[p].from /\ new.point = job[p].point /\ new.next = job[p].next
       /\ new.history = job[p].history /\ new.copied = job[p].copied
  BY <1>2, <1>11 DEF Job, After
<1>13. job' = [job EXCEPT ![p] = new] /\ job'[p] = new
  BY <1>11 DEF Advance, Goto, BackupInv, TypeInv
<1>14. Alone'
  BY <1>1, <1>2, <1>12, <1>13, KeepsAlone
<1>15. FromInv(p)'
  BY <1>1, <1>2, <1>6, <1>12, <1>13 DEF FromInv
<1>16. CopyInv(p)'
  <2>1. /\ job'[p].kind = "incremental" /\ job'[p].step = "ckpt"
        /\ job'[p].history = job[p].history
    BY <1>1, <1>12, <1>13
  <2>2. /\ Made("dst")' /\ file'["dst"].linked
        /\ file'["dst"].history = job[p].history
    BY <1>3, <1>6
  <2> QED
    BY <2>1, <2>2 DEF CopyInv
<1>17. ToInv(p)'
  BY <1>2, <1>3, <1>6, <1>12, <1>13 DEF ToInv
<1>18. \A q \in Procs \ {p} : Active(q) => (FromInv(q) /\ CopyInv(q) /\ ToInv(q))'
  BY <1>1, <1>13, SuperblockOthers
<1> QED
  BY <1>1, <1>6, <1>12, <1>13, <1>14, <1>15, <1>16, <1>17, <1>18, FileKeeps

(* A checkpoint is read from beside what the call copied from.             *)
LEMMA CarryKeeps ==
  ASSUME BackupInv, NEW p \in Procs, ReadCkpt(p) \/ ReadPrev(p)
  PROVE  BackupInv'
<1>1. /\ job[p].step \in {"ckpt", "prev"} /\ job[p].step \in After /\ job[p].step # "idle"
  BY DEF ReadCkpt, ReadPrev, After
<1>2. /\ Active(p) /\ job[p] \in Job /\ FromInv(p) /\ CopyInv(p) /\ ToInv(p)
      /\ job[p].point \in Nat /\ job[p].kind \in Kinds
      /\ job[p].kind # "restore" => job[p].from = "src"
      /\ job[p].kind = "restore" => job[p].from = "dst"
  BY <1>1, CallFacts
<1>3. file[job[p].from] \in LogFile
  <2>1. CASE job[p].kind # "restore"
    BY <1>2, <2>1 DEF BackupInv, SourceInv, Src
  <2>2. CASE job[p].kind = "restore"
    BY <1>2, <2>2, MadeLog DEF FromInv, BackupInv, Files
  <2> QED
    BY <2>1, <2>2
<1>4. PICK mark \in Stamp, o \in {"prev", "answer"} : Carry(p, mark, o)
  BY <1>3 DEF ReadCkpt, ReadPrev, LogFile
<1>5. PICK s \in After : s = IF Usable(p, mark) THEN "carry" ELSE o
  BY DEF After
<1>6. PICK new : new = [job[p] EXCEPT !.step = s, !.bytes = mark]
  OBVIOUS
<1>7. /\ new \in Job /\ new.step = s /\ new.kind = job[p].kind /\ new.to = job[p].to
      /\ new.from = job[p].from /\ new.point = job[p].point /\ new.next = job[p].next
      /\ new.history = job[p].history /\ new.copied = job[p].copied /\ new.bytes = mark
  BY <1>2, <1>6 DEF Job
<1>8. /\ job' = [job EXCEPT ![p] = new] /\ job'[p] = new /\ file' = file
      /\ stamps' = stamps /\ renaming' = renaming /\ points' = points
  BY <1>4, <1>5, <1>6 DEF Carry, BackupInv, TypeInv
<1>9. s \in {"carry", "rename"} => mark # NoStamp /\ mark <= job[p].point
  BY <1>4, <1>5 DEF Usable
<1>10. Alone'
  BY <1>1, <1>2, <1>7, <1>8, KeepsAlone
<1>11. FromInv(p)'
  BY <1>2, <1>7, <1>8 DEF FromInv, Made, Src
<1>12. CopyInv(p)'
  <2>1. s \notin {"begin", "copy"}
    BY DEF After
  <2> QED
    BY <1>2, <1>7, <1>8, <2>1 DEF CopyInv, Made, InPlace
<1>13. ToInv(p)'
  BY <1>1, <1>2, <1>7, <1>8, <1>9 DEF ToInv, Made
<1>14. PointsInv'
  BY <1>8 DEF BackupInv, PointsInv
<1> QED
  BY <1>7, <1>8, <1>10, <1>11, <1>12, <1>13, <1>14, RecordKeeps

(* Of the file it made, a call that carries a checkpoint changes only the  *)
(* checkpoints beside it.                                                  *)
LEMMA StampKeeps ==
  ASSUME BackupInv, NEW p \in Procs, job[p].step \in {"carry", "rename"},
         NEW s \in {"rename", "answer"}, Goto(p, s), NEW c \in Stamp, NEW r \in Stamp,
         c # NoStamp => c <= job[p].point,
         file' = [file EXCEPT ![To(p)] = [@ EXCEPT !.ckpt = c, !.prev = r]],
         stamps' = stamps, renaming' = renaming, points' = points
  PROVE  BackupInv'
<1>1. job[p].step \in After /\ job[p].step # "idle" /\ s \in After /\ s \notin {"begin", "copy"}
  BY DEF After
<1>2. /\ Active(p) /\ job[p] \in Job /\ FromInv(p) /\ CopyInv(p) /\ ToInv(p)
      /\ job[p].point \in Nat /\ job[p].kind \in Kinds
      /\ job[p].to \in {"dst", "out"} /\ job[p].to \in Files
      /\ job[p].kind # "restore" => job[p].from = "src" /\ job[p].to = "dst"
      /\ job[p].kind = "restore" => job[p].from = "dst" /\ job[p].to = "out"
  BY <1>1, CallFacts DEF Files
<1>3. PICK t \in {"dst", "out"} : t = job[p].to
  BY <1>2
<1>4. /\ Made(t) /\ file[t].linked /\ file[t].committed = job[p].point
      /\ file[t].history = job[p].history /\ FileInv(t) /\ file[t] \in LogFile /\ t \in Files
  BY <1>1, <1>2, <1>3, MadeLog DEF ToInv, BackupInv, FilesInv
<1>5. PICK L : L = [file[t] EXCEPT !.ckpt = c, !.prev = r]
  OBVIOUS
<1>6. /\ L \in LogFile /\ L.history = file[t].history /\ L.linked = file[t].linked
      /\ L.pages = file[t].pages /\ L.committed = file[t].committed /\ L.ckpt = c
  BY <1>4, <1>5 DEF LogFile
<1>7. file' = [file EXCEPT ![t] = L]
  BY <1>3, <1>4, <1>5 DEF To, BackupInv, TypeInv
<1>8. /\ file'[t] = L /\ Src' = Src /\ (\A f \in Files : f # t => file'[f] = file[f])
      /\ "dst" \in Files /\ "out" \in Files /\ Made(t)'
  BY <1>4, <1>6, <1>7, FileAssumption DEF BackupInv, TypeInv, Src, Files, Made
<1>9. FileInv(t)'
  BY <1>4, <1>6, <1>8 DEF FileInv
<1>10. PICK new : new = [job[p] EXCEPT !.step = s]
  OBVIOUS
<1>11. /\ new \in Job /\ new.step = s /\ new.kind = job[p].kind /\ new.to = job[p].to
       /\ new.from = job[p].from /\ new.point = job[p].point /\ new.next = job[p].next
       /\ new.history = job[p].history /\ new.copied = job[p].copied
       /\ new.bytes = job[p].bytes
  BY <1>1, <1>2, <1>10 DEF Job
<1>12. job' = [job EXCEPT ![p] = new] /\ job'[p] = new
  BY <1>10 DEF Goto, BackupInv, TypeInv
<1>13. Alone'
  BY <1>1, <1>2, <1>11, <1>12, KeepsAlone
<1>14. FromInv(p)'
  <2>1. CASE job[p].kind = "restore"
    BY <1>2, <1>3, <1>8, <1>11, <1>12, <2>1 DEF FromInv, Made
  <2>2. CASE job[p].kind # "restore"
    BY <1>2, <1>8, <1>11, <1>12, <2>2 DEF FromInv
  <2> QED
    BY <2>1, <2>2
<1>15. CopyInv(p)'
  BY <1>1, <1>2, <1>3, <1>4, <1>6, <1>8, <1>11, <1>12 DEF CopyInv, Made, InPlace
<1>16. ToInv(p)'
  <2>1. job[p].bytes # NoStamp /\ job[p].bytes <= job[p].point
    BY <1>2 DEF ToInv
  <2> QED
    BY <1>3, <1>4, <1>6, <1>8, <1>11, <1>12, <2>1 DEF ToInv
<1>17. ASSUME NEW q \in Procs \ {p}, Active(q)
       PROVE  (FromInv(q) /\ CopyInv(q) /\ ToInv(q))'
  <2>1. /\ file'["dst"] = file["dst"] \/ t = "dst"
        /\ file'["out"] = file["out"] \/ t = "out"
    BY <1>8
  <2> QED
    <3>1. /\ Made(t) /\ Made(t)' /\ Src' = Src /\ file'[t].history = file[t].history
          /\ file'[t].linked = file[t].linked /\ file'[t].committed = file[t].committed
          /\ file'[t].pages = file[t].pages
      BY <1>4, <1>6, <1>8
    <3> QED
      BY <1>12, <1>17, <2>1, <3>1, OthersKept
<1>18. new \in Job \cup {Idle} /\ L \in LogFile
  BY <1>6, <1>11
<1>19. new \in Job => (FromInv(p) /\ CopyInv(p) /\ ToInv(p))'
  BY <1>14, <1>15, <1>16
<1>20. \A q \in Procs \ {p} : Active(q) => (FromInv(q) /\ CopyInv(q) /\ ToInv(q))'
  BY <1>17
<1> QED
  BY <1>7, <1>9, <1>12, <1>13, <1>18, <1>19, <1>20, FileKeeps

LEMMA StartCarryKeeps ==
  ASSUME BackupInv, NEW p \in Procs, StartCarry(p)
  PROVE  BackupInv'
<1>1. /\ job[p].step = "carry" /\ stamps' = stamps /\ renaming' = renaming /\ points' = points
  BY DEF StartCarry
<1>2. CASE To(p) \in ckptTmp
  BY <1>1, <1>2, UnpublishKeeps DEF StartCarry, Fails
<1>3. CASE To(p) \notin ckptTmp
  <2>1. /\ job[p].step \in After /\ job[p].step # "idle"
    BY <1>1 DEF After
  <2>2. /\ Made(To(p)) /\ To(p) \in Files /\ file[To(p)].committed = job[p].point
        /\ To(p) \in {"dst", "out"}
    BY <2>1, CallFacts DEF ToInv, To, Files
  <2>3. file[To(p)] \in LogFile /\ FileInv(To(p))
    BY <2>2, MadeLog DEF BackupInv, FilesInv
  <2>4. PICK c \in Stamp : c = file[To(p)].ckpt
    BY <2>3 DEF LogFile
  <2>5. c # NoStamp => c <= job[p].point
    BY <2>2, <2>3, <2>4 DEF FileInv
  <2>6. [file[To(p)] EXCEPT !.prev = NoStamp] = [file[To(p)] EXCEPT !.ckpt = c, !.prev = NoStamp]
    BY <2>3, <2>4 DEF LogFile
  <2>7. file' = [file EXCEPT ![To(p)] = [@ EXCEPT !.ckpt = c, !.prev = NoStamp]]
    BY <1>3, <2>2, <2>6 DEF StartCarry, BackupInv, TypeInv
  <2>8. NoStamp \in Stamp
    BY DEF Stamp
  <2> QED
    BY <1>1, <1>3, <2>5, <2>7, <2>8, StampKeeps DEF StartCarry
<1> QED
  BY <1>2, <1>3

LEMMA FinishCarryKeeps ==
  ASSUME BackupInv, NEW p \in Procs, FinishCarry(p)
  PROVE  BackupInv'
<1>1. /\ job[p].step = "rename" /\ stamps' = stamps /\ renaming' = renaming /\ points' = points
  BY DEF FinishCarry
<1>2. /\ job[p].step \in After /\ job[p].step # "idle"
  BY <1>1 DEF After
<1>3. /\ Made(To(p)) /\ To(p) \in Files /\ job[p].bytes \in Stamp
      /\ job[p].bytes <= job[p].point
  BY <1>1, <1>2, CallFacts DEF ToInv, To, Files
<1>4. file[To(p)] \in LogFile
  BY <1>3, MadeLog DEF BackupInv
<1>5. PICK r \in Stamp : r = file[To(p)].prev
  BY <1>4 DEF LogFile
<1>6. [file[To(p)] EXCEPT !.ckpt = job[p].bytes]
        = [file[To(p)] EXCEPT !.ckpt = job[p].bytes, !.prev = r]
  BY <1>4, <1>5 DEF LogFile
<1>7. file' = [file EXCEPT ![To(p)] = [@ EXCEPT !.ckpt = job[p].bytes, !.prev = r]]
  BY <1>3, <1>6 DEF FinishCarry, BackupInv, TypeInv
<1> QED
  BY <1>1, <1>3, <1>7, StampKeeps DEF FinishCarry

(* A restore point names a commit point that was copied.                   *)
LEMMA AnswerKeeps ==
  ASSUME BackupInv, NEW p \in Procs, Answer(p)
  PROVE  BackupInv'
<1>1. job[p].step # "idle"
  BY DEF Answer
<1>2. job[p].point \in Nat /\ job[p].point >= 1
  BY <1>1, CallFacts DEF FromInv
<1>3. PointsInv'
  BY <1>2 DEF Answer, BackupInv, PointsInv
<1> QED
  BY <1>3, EndKeeps DEF Answer, Fails

LEMMA FailureKeeps ==
  ASSUME BackupInv, NEW p \in Procs, IoFails(p) \/ Kill(p)
  PROVE  BackupInv'
<1>1. /\ job' = [job EXCEPT ![p] = Idle] /\ stamps' = stamps /\ renaming' = renaming
      /\ points' = points /\ PointsInv'
  BY DEF IoFails, Kill, Fails, BackupInv, PointsInv
<1>2. CASE file' = file
  BY <1>1, <1>2, EndKeeps
<1>3. CASE job[p].step \in {"carry", "rename"} /\ file' = Unpublished(p)
  BY <1>1, <1>3, UnpublishKeeps
<1>4. CASE /\ Copied(p) /\ job[p].kind = "incremental"
           /\ file' = [file EXCEPT ![To(p)].torn = TRUE] \/ file' = Advanced(p)
  BY <1>1, <1>4, CutShortKeeps DEF Copied
<1> QED
  BY <1>2, <1>3, <1>4 DEF IoFails, Kill, CutShort

-----------------------------------------------------------------------------
(* A step that leaves the files, the calls and the points alone.           *)
LEMMA QuietKeeps ==
  ASSUME BackupInv, UNCHANGED <<file, stamps, renaming, job, points>>
  PROVE  BackupInv'
BY DEF BackupInv, TypeInv, SourceInv, Src, FilesInv, FileInv, Made, InPlace, PointsInv,
       JobsInv, FromInv, CopyInv, ToInv, Alone, Active

LEMMA InitInv == Init => BackupInv
<1> SUFFICES ASSUME Init PROVE BackupInv
  OBVIOUS
<1>1. 1 \in Nat /\ 1 >= 1 /\ 1 \in Stamp
  BY DEF Stamp
<1>2. /\ Log(1, 1, 1) \in LogFile /\ ~Log(1, 1, 1).torn /\ Log(1, 1, 1).committed = 1
      /\ Len(Log(1, 1, 1).pages) = 1
      /\ InPlace(Log(1, 1, 1).pages, Log(1, 1, 1).history)
  BY <1>1, LogType
<1>4. file["src"] = Log(1, 1, 1) /\ file["dst"] = NoFile /\ file["out"] = NoFile
  BY DEF Init, Files
<1>5. TypeInv
  BY <1>2, <1>4 DEF Init, TypeInv, Files
<1>6. SourceInv
  <2>1. /\ Src \in LogFile /\ ~Src.torn /\ Src.committed = 1 /\ Len(Src.pages) = 1
        /\ InPlace(Src.pages, Src.history)
    BY <1>2, <1>4, Zenon DEF Src
  <2>2. 1 >= 1 /\ 1 <= 1
    OBVIOUS
  <2> QED
    BY <2>1, <2>2, Zenon DEF SourceInv
<1>7. FilesInv /\ PointsInv
  BY <1>4 DEF FilesInv, FileInv, Made, Init, PointsInv
<1>8. JobsInv /\ Alone
  <2>1. \A p \in Procs : job[p] = Idle
    BY DEF Init
  <2>2. \A p \in Procs : ~Active(p)
    BY <1>5, <2>1, ActiveStep DEF Idle
  <2> QED
    BY <2>2 DEF JobsInv, Alone
<1> QED
  BY <1>5, <1>6, <1>7, <1>8 DEF BackupInv

LEMMA StepKeeps ==
  ASSUME Faults = {}, BackupInv, [Next]_vars
  PROVE  BackupInv'
<1>1. CASE StartCommit \/ FinishCommit \/ KeepPrev \/ PublishCkpt \/ ReplaceSource
  BY <1>1, StartCommitKeeps, FinishCommitKeeps, CheckpointKeeps, ReplaceSourceKeeps
<1>2. ASSUME NEW p \in Procs,
             \/ StartBackup(p) \/ StartRestore(p) \/ StartIncremental(p)
             \/ Begin(p) \/ CopyPage(p) \/ Publish(p) \/ Advance(p)
      PROVE  BackupInv'
  BY <1>2, StartBackupKeeps, StartRestoreKeeps, StartIncrementalKeeps, BeginKeeps,
     CopyPageKeeps, PublishKeeps, AdvanceKeeps
<1>3. ASSUME NEW p \in Procs,
             \/ ReadCkpt(p) \/ ReadPrev(p) \/ StartCarry(p) \/ FinishCarry(p) \/ Answer(p)
             \/ IoFails(p) \/ Kill(p)
      PROVE  BackupInv'
  BY <1>3, CarryKeeps, StartCarryKeeps, FinishCarryKeeps, AnswerKeeps, FailureKeeps
<1>4. CASE \E f \in Files : Clean(f)
  BY <1>4, QuietKeeps DEF Clean
<1>5. CASE UNCHANGED vars
  BY <1>5, QuietKeeps DEF vars
<1> QED
  BY <1>1, <1>2, <1>3, <1>4, <1>5 DEF Next

(* BackupInvariance: with operators that do not overlap calls, the         *)
(* invariant above holds in every state of Backup: a call's own page       *)
(* numbers, commit point and history stay true of the files it reads and   *)
(* writes, whatever the writer, other calls, errors and kills do.          *)
THEOREM BackupInvariance == ASSUME Faults = {} PROVE Spec => []BackupInv
<1>1. Init => BackupInv
  BY InitInv
<1>2. BackupInv /\ [Next]_vars => BackupInv'
  BY StepKeeps
<1> QED
  BY <1>1, <1>2, PTL DEF Spec

(* PublishedAlwaysPrefix: what a backup or a restore has put under a name  *)
(* is a whole prefix of one history with no checkpoint ahead of it, for    *)
(* every number of processes, pages, checkpoints and calls.                *)
THEOREM PublishedAlwaysPrefix == ASSUME Faults = {} PROVE Spec => []PublishedIsPrefix
<1>1. BackupInv => PublishedIsPrefix
  <2> SUFFICES ASSUME BackupInv, NEW f \in {"dst", "out"}, Exists(f)
               PROVE  /\ \A i \in 1..file[f].committed :
                           HasPage(f, i) /\ file[f].pages[i] = <<file[f].history, i>>
                      /\ file[f].ckpt # NoStamp => file[f].ckpt <= file[f].committed
    BY DEF PublishedIsPrefix
  <2>1. Made(f) /\ FileInv(f) /\ f \in Files
    BY DEF Exists, Made, BackupInv, FilesInv, Files
  <2>2. /\ file[f].pages \in Seq(Nat \X Nat) /\ file[f].committed \in Nat
        /\ file[f].committed <= Len(file[f].pages)
        /\ InPlace(file[f].pages, file[f].history)
        /\ file[f].ckpt # NoStamp => file[f].ckpt <= file[f].committed
    BY <2>1, MadeLog DEF BackupInv, FileInv, LogFile
  <2>3. ASSUME NEW i \in 1..file[f].committed
        PROVE  HasPage(f, i) /\ file[f].pages[i] = <<file[f].history, i>>
    <3>1. i \in DOMAIN file[f].pages
      BY <2>2
    <3> QED
      BY <2>2, <3>1, PageInPlace DEF HasPage
  <2> QED
    BY <2>2, <2>3
<1> QED
  BY <1>1, BackupInvariance, PTL

-----------------------------------------------------------------------------
(* The checkpoints of the source: none is ahead of its commit point, and   *)
(* at any moment the current one or, while it is replaced, the one before. *)
CkptInv ==
  /\ Src.ckpt # NoStamp => Src.ckpt <= Src.committed
  /\ Src.prev # NoStamp => Src.prev <= Src.committed
  /\ renaming => Src.prev # NoStamp /\ Src.ckpt = NoStamp
  /\ ~renaming => Src.ckpt # NoStamp

(* Answered restore points are in the backup, so that nobody who may still *)
(* take its name away has answered one.                                    *)
HeldInv ==
  /\ \A r \in points :
       Exists("dst") /\ r.at <= file["dst"].committed /\ r.page = <<file["dst"].history, r.at>>
  /\ \A p \in Procs :
       Active(p) /\ job[p].kind = "backup" /\ job[p].step \in After => points = {}

(* Where a call that may still answer finds, or has put, a checkpoint.     *)
OfferInv(p) ==
  /\ job[p].since <= stamps
  /\ job[p].kind # "restore" /\ stamps - job[p].since <= 1 =>
       /\ job[p].step \in {"begin", "copy", "ckpt"} =>
            IF job[p].since = stamps THEN Usable(p, Src.ckpt) ELSE Usable(p, Src.prev)
       /\ job[p].step = "prev" => job[p].since # stamps /\ Usable(p, Src.prev)
       /\ job[p].step = "answer" => file["dst"].ckpt # NoStamp

OffersInv == \A p \in Procs : Active(p) => OfferInv(p)

ServeInv == BackupInv /\ CkptInv /\ HeldInv /\ OffersInv

(* Of the calls that write the backup one at a time has published.         *)
LEMMA OneOwner ==
  ASSUME BackupInv, NEW p \in Procs, NEW q \in Procs, p # q, Active(p), Active(q),
         job[p].step \in After, job[q].step \in After,
         job[p].kind # "restore", job[q].kind # "restore"
  PROVE  FALSE
<1>1. job[p].to = "dst" /\ job[q].to = "dst"
  BY DEF BackupInv, JobsInv, FromInv
<1> QED
  BY <1>1 DEF BackupInv, Alone

(* HeldInv rests on the commit point, the name and the history of the      *)
(* backup alone.                                                           *)
LEMMA HeldByFrame ==
  ASSUME BackupInv, HeldInv, points' = points,
         \/ file'["dst"] = file["dst"]
         \/ /\ Made("dst") /\ file'["dst"].linked = file["dst"].linked
            /\ file'["dst"] \in LogFile /\ file'["dst"].history = file["dst"].history
            /\ file["dst"].committed <= file'["dst"].committed,
         \A q \in Procs : Active(q)' /\ job'[q].kind = "backup" /\ job'[q].step \in After =>
           Active(q) /\ job[q].kind = "backup" /\ job[q].step \in After
  PROVE  HeldInv'
<1>2. \A q \in Procs : Active(q)' /\ job'[q].kind = "backup" /\ job'[q].step \in After =>
        points' = {}
  BY DEF HeldInv
<1>3. ASSUME NEW r \in points
      PROVE  /\ Exists("dst")' /\ r.at <= file'["dst"].committed
             /\ r.page = <<file'["dst"].history, r.at>>
  <2>1. /\ Exists("dst") /\ r.at <= file["dst"].committed /\ r.at \in Nat
        /\ r.page = <<file["dst"].history, r.at>>
    BY <1>3 DEF HeldInv, BackupInv, PointsInv
  <2>2. CASE file'["dst"] = file["dst"]
    BY <2>1, <2>2 DEF Exists
  <2>3. CASE file'["dst"] # file["dst"]
    <3>1. file["dst"] \in LogFile /\ file["dst"].committed \in Nat
      BY <2>3, MadeLog DEF BackupInv, Files, LogFile
    <3>2. file'["dst"].committed \in Nat /\ file'["dst"] # NoFile
      BY <2>3, FileAssumption DEF LogFile
    <3>3. r.at <= file'["dst"].committed
      BY <2>1, <2>3, <3>1, <3>2
    <3> QED
      BY <2>1, <2>3, <3>2, <3>3 DEF Exists
  <2> QED
    BY <2>2, <2>3
<1> QED
  BY <1>2, <1>3 DEF HeldInv

(* A step of one call, for the others.                                     *)
LEMMA NoNewBackup ==
  ASSUME BackupInv, NEW p \in Procs, NEW new, job' = [job EXCEPT ![p] = new],
         \/ new \notin Job \/ new.kind # "backup" \/ new.step \notin After
         \/ Active(p) /\ job[p].kind = "backup" /\ job[p].step \in After
  PROVE  \A q \in Procs : Active(q)' /\ job'[q].kind = "backup" /\ job'[q].step \in After =>
           Active(q) /\ job[q].kind = "backup" /\ job[q].step \in After
<1>1. job \in [Procs -> Job \cup {Idle}]
  BY DEF BackupInv, TypeInv
<1>2. job'[p] = new /\ \A q \in Procs : q # p => job'[q] = job[q]
  BY <1>1
<1> QED
  BY <1>2 DEF Active

LEMMA OffersByFrame ==
  ASSUME BackupInv, OffersInv, NEW p \in Procs, NEW new, job' = [job EXCEPT ![p] = new],
         stamps' = stamps, Src' = Src, new \in Job => OfferInv(p)',
         \/ file'["dst"].ckpt = file["dst"].ckpt
         \/ \A q \in Procs : q # p /\ Active(q) /\ job[q].kind # "restore" =>
              job[q].step # "answer"
  PROVE  OffersInv'
<1>1. job \in [Procs -> Job \cup {Idle}]
  BY DEF BackupInv, TypeInv
<1>2. job'[p] = new /\ \A q \in Procs : q # p => job'[q] = job[q]
  BY <1>1
<1> SUFFICES ASSUME NEW q \in Procs, Active(q)'
             PROVE  OfferInv(q)'
  BY DEF OffersInv
<1>3. CASE q = p
  BY <1>2, <1>3 DEF Active
<1>4. CASE q # p
  <2>1. job'[q] = job[q] /\ Active(q) /\ OfferInv(q)
    BY <1>2, <1>4 DEF Active, OffersInv
  <2> QED
    BY <1>4, <2>1 DEF OfferInv, Usable
<1> QED
  BY <1>3, <1>4

-----------------------------------------------------------------------------
(* The writer of the source.                                               *)
LEMMA SourceTyped ==
  ASSUME BackupInv
  PROVE  /\ file \in [Files -> LogFile \cup {NoFile}] /\ Src \in LogFile
         /\ Src.committed \in Nat /\ Src.ckpt \in Stamp /\ Src.prev \in Stamp
         /\ stamps \in Nat /\ "src" \in Files /\ "dst" \in Files /\ "out" \in Files
BY DEF BackupInv, TypeInv, SourceInv, LogFile, Files

LEMMA SinceTyped ==
  ASSUME BackupInv, NEW p \in Procs, Active(p)
  PROVE  job[p].since \in Int /\ job[p].point \in Nat
BY DEF Active, Job

LEMMA CommitServes ==
  ASSUME ServeInv, StartCommit \/ FinishCommit
  PROVE  CkptInv' /\ HeldInv' /\ OffersInv'
<1>1. /\ Src'.ckpt = Src.ckpt /\ Src'.prev = Src.prev
      /\ Src'.committed = Src.committed \/ Src'.committed = Src.committed + 1
      /\ file'["dst"] = file["dst"]
  BY SourceTyped DEF ServeInv, StartCommit, FinishCommit, Src, LogFile
<1>2. job' = job /\ points' = points /\ stamps' = stamps /\ renaming' = renaming
  BY DEF StartCommit, FinishCommit
<1>3. Src.committed \in Nat /\ (Src.ckpt # NoStamp => Src.ckpt \in Nat)
      /\ (Src.prev # NoStamp => Src.prev \in Nat)
  BY SourceTyped DEF ServeInv, Stamp
<1>4. CkptInv'
  BY <1>1, <1>2, <1>3 DEF ServeInv, CkptInv
<1>5. HeldInv'
  BY <1>1, <1>2, HeldByFrame DEF ServeInv, Active
<1>6. OffersInv'
  BY <1>1, <1>2 DEF ServeInv, OffersInv, OfferInv, Active, Usable
<1> QED
  BY <1>4, <1>5, <1>6

(* The checkpoint a call may count on becomes the one before.              *)
LEMMA KeepPrevServes ==
  ASSUME ServeInv, KeepPrev
  PROVE  CkptInv' /\ HeldInv' /\ OffersInv'
<1>1. /\ Src.ckpt # NoStamp /\ Src'.ckpt = NoStamp /\ Src'.prev = Src.ckpt
      /\ Src'.committed = Src.committed /\ file'["dst"] = file["dst"]
  BY SourceTyped DEF ServeInv, CkptInv, KeepPrev, Src, LogFile
<1>2. job' = job /\ points' = points /\ stamps' = stamps + 1 /\ renaming' = TRUE /\ stamps \in Nat
  BY SourceTyped DEF KeepPrev, ServeInv
<1>3. CkptInv'
  BY <1>1, <1>2 DEF ServeInv, CkptInv
<1>4. HeldInv'
  BY <1>1, <1>2, HeldByFrame DEF ServeInv, Active
<1>5. OffersInv'
  <2> SUFFICES ASSUME NEW p \in Procs, Active(p) PROVE OfferInv(p)'
    BY <1>2 DEF OffersInv, Active
  <2>1. OfferInv(p) /\ job[p].since \in Int
    BY SinceTyped DEF ServeInv, OffersInv
  <2>2. job[p].since <= stamps' /\ job[p].since # stamps'
    BY <1>2, <2>1 DEF OfferInv
  <2>3. CASE stamps' - job[p].since <= 1
    <3>1. job[p].since = stamps
      BY <1>2, <2>1, <2>3 DEF OfferInv
    <3>2. stamps - job[p].since <= 1
      BY <1>2, <3>1
    <3> QED
      BY <1>1, <1>2, <2>1, <2>2, <3>1, <3>2 DEF OfferInv, Usable
  <2>4. CASE ~(stamps' - job[p].since <= 1)
    BY <1>2, <2>2, <2>4 DEF OfferInv
  <2> QED
    BY <2>3, <2>4
<1> QED
  BY <1>3, <1>4, <1>5

LEMMA PublishCkptServes ==
  ASSUME ServeInv, PublishCkpt
  PROVE  CkptInv' /\ HeldInv' /\ OffersInv'
<1>1. /\ Src.ckpt = NoStamp /\ Src'.ckpt = Src.committed /\ Src'.prev = Src.prev
      /\ Src'.committed = Src.committed /\ file'["dst"] = file["dst"]
  BY SourceTyped DEF ServeInv, CkptInv, PublishCkpt, Src, LogFile
<1>2. job' = job /\ points' = points /\ stamps' = stamps /\ renaming' = FALSE
  BY DEF PublishCkpt
<1>3. Src.committed \in Nat /\ Src.committed # NoStamp
  BY SourceTyped, StampAssumption DEF ServeInv
<1>4. CkptInv'
  BY <1>1, <1>2, <1>3 DEF ServeInv, CkptInv
<1>5. HeldInv'
  BY <1>1, <1>2, HeldByFrame DEF ServeInv, Active
<1>6. OffersInv'
  BY <1>1, <1>2 DEF ServeInv, OffersInv, OfferInv, Active, Usable
<1> QED
  BY <1>4, <1>5, <1>6

LEMMA ReplaceServes ==
  ASSUME ServeInv, ReplaceSource
  PROVE  CkptInv' /\ HeldInv' /\ OffersInv'
<1>1. /\ Src' = Log(2, Src.committed, Src.committed) /\ file'["dst"] = file["dst"]
      /\ ~renaming
  BY SourceTyped DEF ServeInv, ReplaceSource, Src
<1>2. /\ Src'.committed = Src.committed /\ Src'.ckpt = Src.committed /\ Src'.prev = NoStamp
  BY <1>1 DEF Log
<1>3. job' = job /\ points' = points /\ stamps' = stamps /\ renaming' = renaming
  BY DEF ReplaceSource
<1>4. Src.committed \in Nat /\ Src.committed # NoStamp
  BY SourceTyped, StampAssumption DEF ServeInv
<1>5. CkptInv'
  BY <1>1, <1>2, <1>3, <1>4 DEF CkptInv
<1>6. HeldInv'
  BY <1>1, <1>3, HeldByFrame DEF ServeInv, Active
<1>7. \A p \in Procs : ~Active(p)
  BY ActiveStep DEF ServeInv, BackupInv, ReplaceSource
<1>8. OffersInv'
  BY <1>3, <1>7 DEF OffersInv, Active
<1> QED
  BY <1>5, <1>6, <1>8


-----------------------------------------------------------------------------
(* The calls.  None writes the source.                                     *)
LEMMA SourceKept ==
  ASSUME CkptInv, Src' = Src, renaming' = renaming
  PROVE  CkptInv'
BY DEF CkptInv

LEMMA StartServes ==
  ASSUME ServeInv, NEW p \in Procs,
         StartBackup(p) \/ StartRestore(p) \/ StartIncremental(p)
  PROVE  CkptInv' /\ HeldInv' /\ OffersInv'
<1>1. PICK kind, from, to, point, next :
        /\ Started(p, Copying(kind, from, to, point, next))
        /\ kind # "restore" => point = Src.committed
  BY DEF StartBackup, StartRestore, StartIncremental
<1>2. PICK new : new = Copying(kind, from, to, point, next)
  OBVIOUS
<1>3. /\ new.step = "begin" /\ new.kind = kind /\ new.point = point
      /\ new.since = IF renaming THEN stamps - 1 ELSE stamps
  BY <1>2 DEF Copying
<1>4. /\ job' = [job EXCEPT ![p] = new] /\ file' = file /\ stamps' = stamps
      /\ renaming' = renaming /\ points' = points /\ job'[p] = new /\ Src' = Src
  BY <1>1, <1>2 DEF Started, ServeInv, BackupInv, TypeInv, Src
<1>5. new.step \notin After
  BY <1>3 DEF After
<1>6. HeldInv'
  BY <1>4, <1>5, HeldByFrame, NoNewBackup DEF ServeInv
<1>7. OfferInv(p)'
  <2>1. stamps \in Nat /\ Src.committed \in Nat
    BY SourceTyped DEF ServeInv
  <2>2. new.since <= stamps /\ (new.since = stamps <=> ~renaming)
    BY <1>3, <2>1
  <2>3. ASSUME new.kind # "restore"
        PROVE  IF new.since = stamps THEN Usable(p, Src.ckpt)' ELSE Usable(p, Src.prev)'
    BY <1>1, <1>3, <1>4, <2>2, <2>3 DEF ServeInv, CkptInv, Usable
  <2> QED
    BY <1>3, <1>4, <2>2, <2>3 DEF OfferInv
<1>8. OffersInv'
  BY <1>4, <1>7, OffersByFrame DEF ServeInv
<1> QED
  BY <1>4, <1>6, <1>8, SourceKept DEF ServeInv

(* A step that leaves the checkpoint of the backup alone and keeps         *)
(* HeldInv, by its effect on the call's own record.                        *)
LEMMA EndServes ==
  ASSUME ServeInv, NEW p \in Procs, job' = [job EXCEPT ![p] = Idle],
         stamps' = stamps, renaming' = renaming, Src' = Src, points' = points,
         file'["dst"] = file["dst"]
  PROVE  CkptInv' /\ HeldInv' /\ OffersInv'
<1>1. Idle \notin Job
  BY IdleKeepsAlone DEF ServeInv
<1>2. HeldInv'
  BY <1>1, HeldByFrame, NoNewBackup DEF ServeInv
<1>3. OffersInv'
  BY <1>1, OffersByFrame DEF ServeInv
<1> QED
  BY <1>2, <1>3, SourceKept DEF ServeInv

(* What a step of a call may write, and what Goto does.                    *)
LEMMA CallTyped ==
  ASSUME BackupInv, NEW p \in Procs, job[p].step # "idle"
  PROVE  /\ Active(p) /\ job[p] \in Job /\ To(p) \in {"dst", "out"} /\ To(p) \in Files
         /\ job[p].kind # "restore" => To(p) = "dst" /\ job[p].from = "src"
         /\ job[p].kind = "restore" => To(p) = "out" /\ job[p].from = "dst"
         /\ file \in [Files -> LogFile \cup {NoFile}] /\ job \in [Procs -> Job \cup {Idle}]
         /\ "src" \in Files /\ "dst" \in Files /\ "out" \in Files
BY CallFacts DEF To, Files, BackupInv, TypeInv

LEMMA BeginServes ==
  ASSUME ServeInv, NEW p \in Procs, Begin(p)
  PROVE  CkptInv' /\ HeldInv' /\ OffersInv'
<1>1. /\ job[p].step = "begin" /\ job[p].step # "idle" /\ stamps' = stamps
      /\ renaming' = renaming /\ points' = points
  BY DEF Begin
<1>2. /\ Active(p) /\ job[p] \in Job /\ To(p) \in {"dst", "out"}
      /\ job[p].kind # "restore" => To(p) = "dst"
      /\ file \in [Files -> LogFile \cup {NoFile}] /\ job \in [Procs -> Job \cup {Idle}]
      /\ "src" \in Files /\ "dst" \in Files
  BY <1>1, CallTyped DEF ServeInv
<1>3. CASE file' = file /\ Fails(p)
  BY <1>1, <1>3, EndServes DEF Fails, Src
<1>4. CASE Goto(p, "copy")
  <2>1. PICK new : new = [job[p] EXCEPT !.step = "copy"]
    OBVIOUS
  <2>2. /\ new.step = "copy" /\ new.kind = job[p].kind /\ new.since = job[p].since
        /\ new.point = job[p].point /\ job' = [job EXCEPT ![p] = new] /\ job'[p] = new
    BY <1>2, <1>4, <2>1 DEF Goto, Job
  <2>3. new.step \notin After
    BY <2>2 DEF After
  <2>4. OfferInv(p)
    BY <1>2 DEF ServeInv, OffersInv
  <2>5. CASE job[p].kind # "incremental"
    <3>1. file' = file /\ Src' = Src
      BY <2>5 DEF Begin, Src
    <3>2. OfferInv(p)'
      BY <1>1, <2>2, <2>4, <3>1 DEF OfferInv, Usable
    <3> QED
      BY <1>1, <2>2, <2>3, <3>1, <3>2, SourceKept, HeldByFrame, NoNewBackup, OffersByFrame
         DEF ServeInv
  <2>6. CASE job[p].kind = "incremental"
    <3>1. /\ Made("dst") /\ file["dst"] \in LogFile
      BY <1>1, <1>2, <2>6, CallFacts, MadeLog DEF ServeInv, BackupInv, CopyInv
    <3>2. PICK P : P = SubSeq(file["dst"].pages, 1, job[p].next - 1)
      OBVIOUS
    <3>3. file' = [file EXCEPT !["dst"] = [file["dst"] EXCEPT !.pages = P]]
      BY <1>2, <2>6, <3>2 DEF Begin
    <3>4. file'["dst"] = [file["dst"] EXCEPT !.pages = P] /\ Src' = Src
      BY <1>2, <3>3 DEF Src
    <3>5. /\ file'["dst"].linked = file["dst"].linked /\ file'["dst"].ckpt = file["dst"].ckpt
          /\ file'["dst"].history = file["dst"].history
          /\ file'["dst"].committed = file["dst"].committed
          /\ file'["dst"].torn = file["dst"].torn /\ file["dst"].committed \in Nat
      BY <3>1, <3>4 DEF LogFile
    <3>6. file'["dst"] \in LogFile /\ file["dst"].committed <= file'["dst"].committed
      <4>1. BackupInv'
        BY BeginKeeps DEF ServeInv
      <4>2. new \in Job
        BY <1>2, <2>1 DEF Job, Before
      <4>3. Made("dst")'
        BY <2>2, <2>6, <4>1, <4>2 DEF CopyInv, BackupInv, JobsInv, Active
      <4> QED
        BY <3>5, <4>1, <4>3 DEF BackupInv, TypeInv, Made, Files
    <3>7. HeldInv'
      BY <1>1, <2>2, <2>3, <3>1, <3>5, <3>6, HeldByFrame, NoNewBackup DEF ServeInv
    <3>8. OfferInv(p)'
      BY <1>1, <2>2, <2>4, <3>4 DEF OfferInv, Usable
    <3> QED
      BY <1>1, <2>2, <3>4, <3>5, <3>7, <3>8, SourceKept, OffersByFrame DEF ServeInv
  <2> QED
    BY <2>5, <2>6
<1> QED
  BY <1>3, <1>4 DEF Begin

(* A step with which a call goes on: what it may do to the backup.         *)
LEMMA GoServes ==
  ASSUME ServeInv, BackupInv', NEW p \in Procs, job[p].step # "idle", NEW new \in Job,
         job' = [job EXCEPT ![p] = new], new.kind = job[p].kind,
         stamps' = stamps, renaming' = renaming, Src' = Src, points' = points,
         new.step \in After /\ new.kind = "backup" => job[p].step \in After,
         OfferInv(p)',
         \/ file'["dst"] = file["dst"]
         \/ /\ Made("dst") /\ Made("dst")' /\ file'["dst"].linked = file["dst"].linked
            /\ file'["dst"].history = file["dst"].history
            /\ file["dst"].committed <= file'["dst"].committed
            /\ \/ file'["dst"].ckpt = file["dst"].ckpt
               \/ job[p].step \in After /\ job[p].kind # "restore"
  PROVE  CkptInv' /\ HeldInv' /\ OffersInv'
<1>1. Active(p)
  BY CallTyped DEF ServeInv
<1>2. \A q \in Procs : Active(q)' /\ job'[q].kind = "backup" /\ job'[q].step \in After =>
        Active(q) /\ job[q].kind = "backup" /\ job[q].step \in After
  BY <1>1, NoNewBackup DEF ServeInv
<1>3. Made("dst")' => file'["dst"] \in LogFile
  BY DEF BackupInv, TypeInv, Made, Files
<1>4. HeldInv'
  BY <1>2, <1>3, HeldByFrame DEF ServeInv
<1>5. \/ file'["dst"].ckpt = file["dst"].ckpt
      \/ \A q \in Procs : q # p /\ Active(q) /\ job[q].kind # "restore" =>
           job[q].step # "answer"
  BY <1>1, OneOwner DEF ServeInv, After
<1>6. OffersInv'
  BY <1>5, OffersByFrame DEF ServeInv
<1> QED
  BY <1>4, <1>6, SourceKept DEF ServeInv

LEMMA CopyPageServes ==
  ASSUME ServeInv, NEW p \in Procs, CopyPage(p)
  PROVE  CkptInv' /\ HeldInv' /\ OffersInv'
<1>1. /\ job[p].step = "copy" /\ job[p].step # "idle" /\ stamps' = stamps
      /\ renaming' = renaming /\ points' = points
  BY DEF CopyPage
<1>2. /\ Active(p) /\ job[p] \in Job /\ To(p) \in {"dst", "out"}
      /\ job[p].kind # "restore" => To(p) = "dst"
      /\ file \in [Files -> LogFile \cup {NoFile}] /\ job \in [Procs -> Job \cup {Idle}]
      /\ "src" \in Files /\ "dst" \in Files
  BY <1>1, CallTyped DEF ServeInv
<1>3. PICK n, c : job' = [job EXCEPT ![p] = [job[p] EXCEPT !.next = n, !.copied = c]]
  BY <1>2 DEF CopyPage
<1>4. PICK new : new = [job[p] EXCEPT !.next = n, !.copied = c]
  OBVIOUS
<1>5. /\ new.step = "copy" /\ new.kind = job[p].kind /\ new.since = job[p].since
      /\ new.point = job[p].point /\ job' = [job EXCEPT ![p] = new] /\ job'[p] = new
  BY <1>1, <1>2, <1>3, <1>4 DEF Job
<1>6. BackupInv' /\ OfferInv(p)
  BY <1>2, CopyPageKeeps DEF ServeInv, OffersInv
<1>7. new \in Job /\ new.step \notin After
  <2>1. new # Idle
    BY <1>5 DEF Idle
  <2> QED
    BY <1>5, <1>6, <2>1 DEF BackupInv, TypeInv, After
<1>8. CASE job[p].kind # "incremental"
  <2>1. file' = file /\ Src' = Src
    BY <1>8 DEF CopyPage, Src
  <2>2. OfferInv(p)'
    BY <1>1, <1>5, <1>6, <2>1 DEF OfferInv, Usable
  <2> QED
    BY <1>1, <1>5, <1>6, <1>7, <2>1, <2>2, GoServes
<1>9. CASE job[p].kind = "incremental"
  <2>1. /\ Made("dst") /\ file["dst"] \in LogFile
    BY <1>1, <1>2, <1>9, CallFacts, MadeLog DEF ServeInv, BackupInv, CopyInv
  <2>2. PICK P : file' = [file EXCEPT !["dst"] = [file["dst"] EXCEPT !.pages = P]]
    BY <1>2, <1>9 DEF CopyPage
  <2>3. file'["dst"] = [file["dst"] EXCEPT !.pages = P] /\ Src' = Src
    BY <1>2, <2>2 DEF Src
  <2>4. /\ file'["dst"].linked = file["dst"].linked /\ file'["dst"].ckpt = file["dst"].ckpt
        /\ file'["dst"].history = file["dst"].history
        /\ file'["dst"].committed = file["dst"].committed
        /\ file'["dst"].torn = file["dst"].torn /\ file["dst"].committed \in Nat
    BY <2>1, <2>3 DEF LogFile
  <2>5. Made("dst")'
    BY <1>5, <1>6, <1>7, <1>9 DEF CopyInv, BackupInv, JobsInv, Active
  <2>6. file["dst"].committed <= file'["dst"].committed
    BY <2>4
  <2>7. OfferInv(p)'
    BY <1>1, <1>5, <1>6, <2>3 DEF OfferInv, Usable
  <2> QED
    BY <1>1, <1>5, <1>6, <1>7, <2>1, <2>3, <2>4, <2>5, <2>6, <2>7, GoServes
<1> QED
  BY <1>8, <1>9

(* An incremental backup only moves the commit point of its file up.       *)
LEMMA AdvanceServes ==
  ASSUME ServeInv, NEW p \in Procs, Advance(p)
  PROVE  CkptInv' /\ HeldInv' /\ OffersInv'
<1>1. /\ job[p].step = "copy" /\ job[p].step # "idle" /\ stamps' = stamps
      /\ renaming' = renaming /\ points' = points /\ job[p].kind = "incremental"
      /\ job[p].next > job[p].point
  BY DEF Advance, Copied
<1>2. /\ Active(p) /\ job[p] \in Job /\ To(p) = "dst"
      /\ file \in [Files -> LogFile \cup {NoFile}] /\ job \in [Procs -> Job \cup {Idle}]
      /\ "src" \in Files /\ "dst" \in Files
  BY <1>1, CallTyped DEF ServeInv
<1>3. PICK new : new = [job[p] EXCEPT !.step = "ckpt"]
  OBVIOUS
<1>4. /\ new.step = "ckpt" /\ new.kind = job[p].kind /\ new.since = job[p].since
      /\ new.point = job[p].point /\ job' = [job EXCEPT ![p] = new] /\ job'[p] = new
  BY <1>2, <1>3 DEF Goto, Job, Advance
<1>5. BackupInv' /\ OfferInv(p)
  BY <1>2, AdvanceKeeps DEF ServeInv, OffersInv
<1>6. new \in Job
  <2>1. new # Idle
    BY <1>4 DEF Idle
  <2> QED
    BY <1>4, <1>5, <2>1 DEF BackupInv, TypeInv
<1>7. PICK L \in LogFile :
        /\ file'["dst"] = L /\ Src' = Src /\ Made("dst") /\ Made("dst")'
        /\ L.linked = file["dst"].linked /\ L.ckpt = file["dst"].ckpt
        /\ L.history = file["dst"].history /\ file["dst"].committed <= L.committed
  <2>1. /\ file' = [file EXCEPT ![To(p)].torn = TRUE] \/ file' = Advanced(p)
        /\ Copied(p) /\ BackupInv
    BY DEF Advance, ServeInv
  <2> QED
    BY <1>1, <2>1, SuperblockIs, Zenon
<1>13. OfferInv(p)'
  BY <1>1, <1>4, <1>5, <1>7 DEF OfferInv, Usable
<1>14. new.kind # "backup"
  BY <1>1, <1>4
<1> QED
  BY <1>1, <1>4, <1>5, <1>6, <1>7, <1>13, <1>14, GoServes

(* A call that finds no checkpoint it may carry had not had one for long.  *)
LEMMA CarryServes ==
  ASSUME ServeInv, NEW p \in Procs, ReadCkpt(p) \/ ReadPrev(p)
  PROVE  CkptInv' /\ HeldInv' /\ OffersInv'
<1>1. /\ job[p].step \in {"ckpt", "prev"} /\ job[p].step \in After /\ job[p].step # "idle"
      /\ stamps' = stamps /\ renaming' = renaming /\ points' = points /\ file' = file
  BY DEF ReadCkpt, ReadPrev, Carry, After
<1>2. /\ Active(p) /\ job[p] \in Job /\ job \in [Procs -> Job \cup {Idle}]
      /\ job[p].kind # "restore" => job[p].from = "src"
  BY <1>1, CallTyped DEF ServeInv
<1>3. BackupInv' /\ OfferInv(p)
  BY <1>2, CarryKeeps DEF ServeInv, OffersInv
<1>4. PICK mark \in {file[job[p].from].ckpt, file[job[p].from].prev}, o \in {"prev", "answer"} :
        /\ Carry(p, mark, o)
        /\ \/ job[p].step = "ckpt" /\ o = "prev" /\ mark = file[job[p].from].ckpt
           \/ job[p].step = "prev" /\ o = "answer" /\ mark = file[job[p].from].prev
  <2>1. CASE ReadCkpt(p)
    <3>1. job[p].step = "ckpt" /\ Carry(p, file[job[p].from].ckpt, "prev")
      BY <2>1, Zenon DEF ReadCkpt
    <3> QED
      BY <3>1, Zenon
  <2>2. CASE ReadPrev(p)
    <3>1. job[p].step = "prev" /\ Carry(p, file[job[p].from].prev, "answer")
      BY <2>2, Zenon DEF ReadPrev
    <3> QED
      BY <3>1, Zenon
  <2> QED
    BY <2>1, <2>2
<1>5. PICK s : s = IF Usable(p, mark) THEN "carry" ELSE o
  OBVIOUS
<1>6. PICK new : new = [job[p] EXCEPT !.step = s, !.bytes = mark]
  OBVIOUS
<1>7. /\ new.step = s /\ new.kind = job[p].kind /\ new.since = job[p].since
      /\ new.point = job[p].point /\ job' = [job EXCEPT ![p] = new] /\ job'[p] = new
  BY <1>2, <1>4, <1>5, <1>6 DEF Carry, Job
<1>8. new \in Job /\ Src' = Src
  <2>1. new # Idle
    BY <1>5, <1>7 DEF Idle
  <2> QED
    BY <1>1, <1>3, <1>7, <2>1 DEF BackupInv, TypeInv, Src
<1>9. OfferInv(p)'
  <2>1. CASE job[p].kind # "restore" /\ stamps - job[p].since <= 1
    <3>1. mark = IF job[p].step = "ckpt" THEN Src.ckpt ELSE Src.prev
      BY <1>2, <1>4, <2>1 DEF Src
    <3>2. CASE job[p].step = "ckpt"
      <4>1. IF job[p].since = stamps THEN Usable(p, Src.ckpt) ELSE Usable(p, Src.prev)
        BY <1>3, <2>1, <3>2 DEF OfferInv
      <4>2. s = "carry" \/ (s = "prev" /\ job[p].since # stamps /\ Usable(p, Src.prev))
        BY <1>4, <1>5, <3>1, <3>2, <4>1
      <4> QED
        BY <1>1, <1>3, <1>7, <1>8, <4>2 DEF OfferInv, Usable
    <3>3. CASE job[p].step = "prev"
      <4>1. Usable(p, Src.prev)
        BY <1>3, <2>1, <3>3 DEF OfferInv
      <4>2. s = "carry"
        BY <1>5, <3>1, <3>3, <4>1
      <4> QED
        BY <1>1, <1>3, <1>7, <4>2 DEF OfferInv
    <3> QED
      BY <1>1, <3>2, <3>3
  <2>2. CASE ~(job[p].kind # "restore" /\ stamps - job[p].since <= 1)
    BY <1>1, <1>3, <1>7, <2>2 DEF OfferInv
  <2> QED
    BY <2>1, <2>2
<1> QED
  BY <1>1, <1>3, <1>7, <1>8, <1>9, GoServes

(* A whole file appears where there was none: nobody has answered a        *)
(* restore point of it.                                                    *)
LEMMA PublishServes ==
  ASSUME ServeInv, NEW p \in Procs, Publish(p)
  PROVE  CkptInv' /\ HeldInv' /\ OffersInv'
<1>1. /\ job[p].step = "copy" /\ job[p].step # "idle" /\ stamps' = stamps
      /\ renaming' = renaming /\ points' = points /\ job[p].kind # "incremental"
  BY DEF Publish, Copied
<1>2. /\ Active(p) /\ job[p] \in Job /\ To(p) \in {"dst", "out"} /\ job[p].kind \in Kinds
      /\ job[p].kind # "restore" => To(p) = "dst"
      /\ job[p].kind = "restore" => To(p) = "out"
      /\ file \in [Files -> LogFile \cup {NoFile}] /\ job \in [Procs -> Job \cup {Idle}]
      /\ "src" \in Files /\ "dst" \in Files /\ "out" \in Files
  BY <1>1, CallTyped, CallFacts DEF ServeInv
<1>3. CASE Exists(To(p))
  BY <1>1, <1>3, EndServes DEF Publish, Fails, Src
<1>4. CASE ~Exists(To(p))
  <2>1. PICK new : new = [job[p] EXCEPT !.step = "ckpt"]
    OBVIOUS
  <2>2. /\ new.step = "ckpt" /\ new.kind = job[p].kind /\ new.since = job[p].since
        /\ new.point = job[p].point /\ job' = [job EXCEPT ![p] = new] /\ job'[p] = new
    BY <1>2, <1>4, <2>1 DEF Goto, Job, Publish
  <2>3. BackupInv' /\ OfferInv(p)
    BY <1>2, PublishKeeps DEF ServeInv, OffersInv
  <2>4. new \in Job
    <3>1. new # Idle
      BY <2>2 DEF Idle
    <3> QED
      BY <2>2, <2>3, <3>1 DEF BackupInv, TypeInv
  <2>5. PICK L : L = [Log(job[p].history, job[p].point, NoStamp) EXCEPT !.pages = job[p].copied]
    OBVIOUS
  <2>6. file' = [file EXCEPT ![To(p)] = L]
    BY <1>4, <2>5 DEF Publish
  <2>7. file'[To(p)] = L /\ Src' = Src
    BY <1>2, <2>5, <2>6 DEF Src
  <2>8. OfferInv(p)'
    BY <1>1, <2>2, <2>3, <2>7 DEF OfferInv, Usable
  <2>9. CASE job[p].kind = "restore"
    <3>1. file'["dst"] = file["dst"] /\ new.kind # "backup"
      BY <1>2, <2>2, <2>6, <2>9
    <3> QED
      BY <1>1, <2>2, <2>3, <2>4, <2>7, <2>8, <3>1, GoServes
  <2>10. CASE job[p].kind # "restore"
    <3>1. To(p) = "dst" /\ ~Exists("dst")
      BY <1>2, <1>4, <2>10
    <3>2. points = {}
      BY <3>1 DEF ServeInv, HeldInv
    <3>3. HeldInv'
      BY <1>1, <2>7, <3>1, <3>2 DEF HeldInv
    <3>4. \A q \in Procs : q # p /\ Active(q) /\ job[q].kind # "restore" =>
            job[q].step # "answer"
      <4> SUFFICES ASSUME NEW q \in Procs, Active(q), job[q].kind # "restore",
                          job[q].step = "answer"
                   PROVE  FALSE
        OBVIOUS
      <4>1. job[q].step \in After /\ job[q].step # "idle"
        BY DEF After
      <4>2. Made("dst") /\ file["dst"].linked
        BY <4>1, CallFacts DEF ToInv, ServeInv
      <4> QED
        BY <3>1, <4>2 DEF Exists, Made
    <3>5. OffersInv'
      BY <1>1, <2>2, <2>7, <2>8, <3>4, OffersByFrame DEF ServeInv
    <3> QED
      BY <1>1, <2>7, <3>3, <3>5, SourceKept DEF ServeInv
  <2> QED
    BY <2>9, <2>10
<1> QED
  BY <1>3, <1>4

(* A call that takes the name of the backup away had made it, and no       *)
(* restore point of it was answered yet.                                   *)
LEMMA UnpublishServes ==
  ASSUME ServeInv, NEW p \in Procs, job[p].step \in {"carry", "rename"},
         job' = [job EXCEPT ![p] = Idle], file' = Unpublished(p),
         stamps' = stamps, renaming' = renaming, points' = points
  PROVE  CkptInv' /\ HeldInv' /\ OffersInv'
<1>1. job[p].step \in After /\ job[p].step # "idle"
  BY DEF After
<1>2. /\ Active(p) /\ job[p] \in Job /\ To(p) \in {"dst", "out"} /\ job[p].kind \in Kinds
      /\ job[p].kind # "restore" => To(p) = "dst"
      /\ job[p].kind = "restore" => To(p) = "out"
      /\ file \in [Files -> LogFile \cup {NoFile}] /\ job \in [Procs -> Job \cup {Idle}]
      /\ "src" \in Files /\ "dst" \in Files /\ "out" \in Files
  BY <1>1, CallTyped, CallFacts DEF ServeInv
<1>3. Src' = Src /\ Idle \notin Job
  BY <1>2, IdleKeepsAlone DEF Unpublished, Src, ServeInv
<1>4. CASE job[p].kind # "backup"
  <2>1. file'["dst"] = file["dst"]
    BY <1>2, <1>4 DEF Unpublished, Kinds
  <2> QED
    BY <1>3, <2>1, EndServes
<1>5. CASE job[p].kind = "backup"
  <2>1. points = {}
    BY <1>1, <1>2, <1>5 DEF ServeInv, HeldInv
  <2>5. HeldInv'
    BY <2>1 DEF HeldInv, ServeInv
  <2>6. \A q \in Procs : q # p /\ Active(q) /\ job[q].kind # "restore" =>
          job[q].step # "answer"
    BY <1>1, <1>2, <1>5, OneOwner DEF ServeInv, After
  <2>7. OffersInv'
    BY <1>3, <2>6, OffersByFrame DEF ServeInv
  <2> QED
    BY <1>3, <2>5, <2>7, SourceKept DEF ServeInv
<1> QED
  BY <1>4, <1>5

(* The checkpoint appears beside the copy.                                 *)
LEMMA StampServes ==
  ASSUME ServeInv, BackupInv', NEW p \in Procs, job[p].step \in {"carry", "rename"},
         NEW s \in {"rename", "answer"}, Goto(p, s), NEW c \in Stamp, NEW r \in Stamp,
         s = "answer" => c # NoStamp,
         file' = [file EXCEPT ![To(p)] = [@ EXCEPT !.ckpt = c, !.prev = r]],
         stamps' = stamps, renaming' = renaming, points' = points
  PROVE  CkptInv' /\ HeldInv' /\ OffersInv'
<1>1. job[p].step \in After /\ job[p].step # "idle"
  BY DEF After
<1>2. /\ Active(p) /\ job[p] \in Job /\ To(p) \in {"dst", "out"}
      /\ job[p].kind # "restore" => To(p) = "dst"
      /\ job[p].kind = "restore" => To(p) = "out"
      /\ file \in [Files -> LogFile \cup {NoFile}] /\ job \in [Procs -> Job \cup {Idle}]
      /\ "src" \in Files /\ "dst" \in Files /\ "out" \in Files
  BY <1>1, CallTyped DEF ServeInv
<1>3. PICK new : new = [job[p] EXCEPT !.step = s]
  OBVIOUS
<1>4. /\ new.step = s /\ new.kind = job[p].kind /\ new.since = job[p].since
      /\ new.point = job[p].point /\ job' = [job EXCEPT ![p] = new] /\ job'[p] = new
  BY <1>2, <1>3 DEF Goto, Job
<1>5. new \in Job /\ OfferInv(p) /\ Src' = Src
  <2>1. new # Idle
    BY <1>4 DEF Idle
  <2> QED
    BY <1>2, <1>4, <2>1 DEF BackupInv, TypeInv, ServeInv, OffersInv, Src
<1>6. CASE job[p].kind = "restore"
  <2>1. file'["dst"] = file["dst"] /\ new.kind # "backup"
    BY <1>2, <1>4, <1>6
  <2>2. OfferInv(p)'
    BY <1>4, <1>5, <1>6 DEF OfferInv
  <2> QED
    BY <1>1, <1>4, <1>5, <2>1, <2>2, GoServes
<1>7. CASE job[p].kind # "restore"
  <2>1. file["dst"] \in LogFile /\ Made("dst")
    BY <1>1, <1>2, <1>7, CallFacts, MadeLog DEF ServeInv, BackupInv, ToInv, To
  <2>2. PICK L : L = [file["dst"] EXCEPT !.ckpt = c, !.prev = r]
    OBVIOUS
  <2>3. /\ L.linked = file["dst"].linked /\ L.history = file["dst"].history
        /\ L.committed = file["dst"].committed /\ L.torn = file["dst"].torn
        /\ L.ckpt = c /\ file["dst"].committed \in Nat
    BY <2>1, <2>2 DEF LogFile
  <2>4. file'["dst"] = L
    BY <1>2, <1>7, <2>2
  <2>5. /\ file'["dst"].linked = file["dst"].linked /\ file'["dst"].ckpt = c
        /\ file'["dst"].history = file["dst"].history
        /\ file'["dst"].committed = file["dst"].committed
        /\ file'["dst"].torn = file["dst"].torn /\ file["dst"].committed \in Nat
    BY <2>3, <2>4
  <2>6. file["dst"].committed <= file'["dst"].committed
    BY <2>5
  <2>7. Made("dst")'
    <3>1. Active(p)' /\ job'[p].step \in After
      BY <1>4, <1>5 DEF Active, After
    <3>2. ToInv(p)' /\ FromInv(p)'
      BY <3>1 DEF BackupInv, JobsInv
    <3> QED
      BY <1>4, <1>7, <3>1, <3>2 DEF ToInv, FromInv
  <2>8. OfferInv(p)'
    BY <1>4, <1>5, <2>5 DEF OfferInv
  <2> QED
    BY <1>1, <1>4, <1>5, <1>7, <2>1, <2>5, <2>6, <2>7, <2>8, GoServes
<1> QED
  BY <1>6, <1>7

LEMMA StartCarryServes ==
  ASSUME ServeInv, NEW p \in Procs, StartCarry(p)
  PROVE  CkptInv' /\ HeldInv' /\ OffersInv'
<1>1. /\ job[p].step = "carry" /\ stamps' = stamps /\ renaming' = renaming /\ points' = points
  BY DEF StartCarry
<1>2. CASE To(p) \in ckptTmp
  BY <1>1, <1>2, UnpublishServes DEF StartCarry, Fails
<1>3. CASE To(p) \notin ckptTmp
  <2>1. /\ job[p].step \in After /\ job[p].step # "idle"
    BY <1>1 DEF After
  <2>2. /\ Made(To(p)) /\ To(p) \in Files /\ file \in [Files -> LogFile \cup {NoFile}]
    BY <2>1, CallFacts, CallTyped DEF ToInv, To, ServeInv
  <2>3. file[To(p)] \in LogFile
    BY <2>2, MadeLog DEF ServeInv, BackupInv
  <2>4. PICK c \in Stamp : c = file[To(p)].ckpt
    BY <2>3 DEF LogFile
  <2>5. [file[To(p)] EXCEPT !.prev = NoStamp] = [file[To(p)] EXCEPT !.ckpt = c, !.prev = NoStamp]
    BY <2>3, <2>4 DEF LogFile
  <2>6. file' = [file EXCEPT ![To(p)] = [@ EXCEPT !.ckpt = c, !.prev = NoStamp]]
    BY <1>3, <2>2, <2>5 DEF StartCarry
  <2>7. NoStamp \in Stamp
    BY DEF Stamp
  <2>8. BackupInv'
    BY StartCarryKeeps DEF ServeInv
  <2> QED
    BY <1>1, <1>3, <2>6, <2>7, <2>8, StampServes DEF StartCarry
<1> QED
  BY <1>2, <1>3

LEMMA FinishCarryServes ==
  ASSUME ServeInv, NEW p \in Procs, FinishCarry(p)
  PROVE  CkptInv' /\ HeldInv' /\ OffersInv'
<1>1. /\ job[p].step = "rename" /\ stamps' = stamps /\ renaming' = renaming /\ points' = points
      /\ Goto(p, "answer")
  BY DEF FinishCarry
<1>2. /\ job[p].step \in After /\ job[p].step # "idle"
  BY <1>1 DEF After
<1>3. /\ Made(To(p)) /\ To(p) \in Files /\ job[p].bytes \in Stamp /\ job[p].bytes # NoStamp
      /\ file \in [Files -> LogFile \cup {NoFile}]
  BY <1>1, <1>2, CallFacts, CallTyped DEF ToInv, To, ServeInv
<1>4. file[To(p)] \in LogFile
  BY <1>3, MadeLog DEF ServeInv, BackupInv
<1>5. PICK r \in Stamp : r = file[To(p)].prev
  BY <1>4 DEF LogFile
<1>6. [file[To(p)] EXCEPT !.ckpt = job[p].bytes]
        = [file[To(p)] EXCEPT !.ckpt = job[p].bytes, !.prev = r]
  BY <1>4, <1>5 DEF LogFile
<1>7. file' = [file EXCEPT ![To(p)] = [@ EXCEPT !.ckpt = job[p].bytes, !.prev = r]]
  BY <1>3, <1>6 DEF FinishCarry
<1>8. BackupInv'
  BY FinishCarryKeeps DEF ServeInv
<1> QED
  BY <1>1, <1>3, <1>7, <1>8, StampServes

(* What is answered is the last page of what was published.                *)
LEMMA AnswerServes ==
  ASSUME ServeInv, NEW p \in Procs, Answer(p)
  PROVE  CkptInv' /\ HeldInv' /\ OffersInv'
<1>1. /\ job[p].step = "answer" /\ job[p].step # "idle" /\ job[p].step \in After
      /\ job' = [job EXCEPT ![p] = Idle] /\ file' = file /\ Src' = Src
      /\ stamps' = stamps /\ renaming' = renaming
  BY DEF Answer, Fails, After, Src
<1>2. /\ Active(p) /\ job[p] \in Job /\ ToInv(p) /\ job[p].point \in Nat /\ job[p].point >= 1
      /\ job[p].kind # "restore" => To(p) = "dst"
      /\ job \in [Procs -> Job \cup {Idle}] /\ Idle \notin Job
  BY <1>1, CallFacts, CallTyped, IdleKeepsAlone DEF ServeInv, FromInv
<1>3. CASE points' = points
  BY <1>1, <1>3, EndServes
<1>4. CASE points' # points
  <2>1. PICK r : /\ r = [at |-> job[p].point, page |-> file[To(p)].pages[job[p].point]]
                 /\ points' = points \cup {r} /\ job[p].kind # "restore"
                 /\ HasPage(To(p), job[p].point)
    BY <1>4 DEF Answer
  <2>2. /\ Made("dst") /\ file["dst"].linked /\ file["dst"].committed = job[p].point
        /\ file["dst"] \in LogFile /\ file["dst"].pages \in Seq(Nat \X Nat)
        /\ InPlace(file["dst"].pages, file["dst"].history) /\ To(p) = "dst"
    <3>1. Made("dst") /\ file["dst"].linked /\ file["dst"].committed = job[p].point /\ To(p) = "dst"
      BY <1>1, <1>2, <2>1 DEF ToInv, To
    <3>2. file["dst"] \in LogFile /\ FileInv("dst")
      BY <3>1, MadeLog DEF ServeInv, BackupInv, FilesInv, Files
    <3> QED
      BY <3>1, <3>2 DEF FileInv, LogFile
  <2>3. file["dst"].pages[job[p].point] = <<file["dst"].history, job[p].point>>
    BY <2>1, <2>2, PageInPlace DEF HasPage
  <2>4. /\ r.at <= file["dst"].committed /\ r.page = <<file["dst"].history, r.at>>
        /\ Exists("dst")
    BY <1>2, <2>1, <2>2, <2>3 DEF Exists, Made
  <2>5. \A q \in Procs : ~(Active(q)' /\ job'[q].kind = "backup" /\ job'[q].step \in After)
    <3> SUFFICES ASSUME NEW q \in Procs, Active(q)', job'[q].kind = "backup",
                        job'[q].step \in After
                 PROVE  FALSE
      OBVIOUS
    <3>1. q # p /\ job'[q] = job[q]
      BY <1>1, <1>2 DEF Active
    <3> QED
      BY <1>1, <1>2, <2>1, <3>1, OneOwner DEF Active, ServeInv
  <2>6. HeldInv'
    <3>2. \A x \in points' : /\ Exists("dst")' /\ x.at <= file'["dst"].committed
                             /\ x.page = <<file'["dst"].history, x.at>>
      BY <1>1, <2>1, <2>4 DEF HeldInv, ServeInv, Exists
    <3> QED
      BY <2>5, <3>2 DEF HeldInv
  <2>7. OffersInv'
    BY <1>1, <1>2, OffersByFrame DEF ServeInv
  <2> QED
    BY <1>1, <2>6, <2>7, SourceKept DEF ServeInv
<1> QED
  BY <1>3, <1>4

LEMMA CutShortServes ==
  ASSUME ServeInv, NEW p \in Procs, job[p].step = "copy", Copied(p),
         job[p].kind = "incremental",
         file' = [file EXCEPT ![To(p)].torn = TRUE] \/ file' = Advanced(p),
         job' = [job EXCEPT ![p] = Idle],
         stamps' = stamps, renaming' = renaming, points' = points
  PROVE  CkptInv' /\ HeldInv' /\ OffersInv'
<1>1. Idle \notin Job
  BY IdleKeepsAlone DEF ServeInv
<1>2. PICK L \in LogFile :
        /\ file'["dst"] = L /\ Src' = Src /\ Made("dst")
        /\ L.linked = file["dst"].linked /\ L.ckpt = file["dst"].ckpt
        /\ L.history = file["dst"].history /\ file["dst"].committed <= L.committed
  BY SuperblockIs DEF ServeInv
<1>3. HeldInv'
  BY <1>1, <1>2, HeldByFrame, NoNewBackup DEF ServeInv
<1>4. OffersInv'
  BY <1>1, <1>2, OffersByFrame DEF ServeInv
<1> QED
  BY <1>2, <1>3, <1>4, SourceKept DEF ServeInv

LEMMA FailureServes ==
  ASSUME ServeInv, NEW p \in Procs, IoFails(p) \/ Kill(p)
  PROVE  CkptInv' /\ HeldInv' /\ OffersInv'
<1>1. /\ job' = [job EXCEPT ![p] = Idle] /\ stamps' = stamps /\ renaming' = renaming
      /\ points' = points
  BY DEF IoFails, Kill, Fails
<1>2. CASE file' = file
  BY <1>1, <1>2, EndServes DEF Src
<1>3. CASE job[p].step \in {"carry", "rename"} /\ file' = Unpublished(p)
  BY <1>1, <1>3, UnpublishServes
<1>4. CASE /\ Copied(p) /\ job[p].kind = "incremental"
           /\ file' = [file EXCEPT ![To(p)].torn = TRUE] \/ file' = Advanced(p)
  BY <1>1, <1>4, CutShortServes DEF Copied
<1> QED
  BY <1>2, <1>3, <1>4 DEF IoFails, Kill, CutShort

LEMMA StillServes ==
  ASSUME ServeInv, UNCHANGED <<file, stamps, renaming, job, points>>
  PROVE  CkptInv' /\ HeldInv' /\ OffersInv'
BY DEF ServeInv, CkptInv, Src, HeldInv, Made, Exists, OffersInv, OfferInv, Usable, Active

LEMMA InitServes ==
  ASSUME Init
  PROVE  ServeInv
<1>1. file["src"] = Log(1, 1, 1) /\ file["dst"] = NoFile /\ renaming = FALSE /\ points = {}
  BY DEF Init, Files
<1>2. Src.ckpt = 1 /\ Src.prev = NoStamp /\ Src.committed = 1 /\ 1 # NoStamp
  BY <1>1, StampAssumption DEF Src, Log
<1>3. CkptInv
  BY <1>1, <1>2 DEF CkptInv
<1>4. BackupInv
  BY InitInv
<1>5. \A p \in Procs : ~Active(p)
  <2>1. \A p \in Procs : job[p] = Idle
    BY DEF Init
  <2> QED
    BY <1>4, <2>1, ActiveStep DEF Idle, BackupInv
<1>6. HeldInv /\ OffersInv
  BY <1>1, <1>5 DEF HeldInv, OffersInv, Made
<1> QED
  BY <1>3, <1>4, <1>6 DEF ServeInv

LEMMA StepServes ==
  ASSUME Faults = {}, ServeInv, [Next]_vars
  PROVE  ServeInv'
<1>1. BackupInv'
  BY StepKeeps DEF ServeInv
<1>2. CASE StartCommit \/ FinishCommit \/ KeepPrev \/ PublishCkpt \/ ReplaceSource
  BY <1>1, <1>2, CommitServes, KeepPrevServes, PublishCkptServes, ReplaceServes DEF ServeInv
<1>3. ASSUME NEW p \in Procs,
             \/ StartBackup(p) \/ StartRestore(p) \/ StartIncremental(p)
             \/ Begin(p) \/ CopyPage(p) \/ Publish(p) \/ Advance(p)
      PROVE  CkptInv' /\ HeldInv' /\ OffersInv'
  BY <1>3, StartServes, BeginServes, CopyPageServes, PublishServes, AdvanceServes
<1>4. ASSUME NEW p \in Procs,
             \/ ReadCkpt(p) \/ ReadPrev(p) \/ StartCarry(p) \/ FinishCarry(p) \/ Answer(p)
             \/ IoFails(p) \/ Kill(p)
      PROVE  CkptInv' /\ HeldInv' /\ OffersInv'
  BY <1>4, CarryServes, StartCarryServes, FinishCarryServes, AnswerServes, FailureServes
<1>5. CASE \E f \in Files : Clean(f)
  BY <1>1, <1>5, StillServes DEF Clean, ServeInv
<1>6. CASE UNCHANGED vars
  BY <1>1, <1>6, StillServes DEF vars, ServeInv
<1> QED
  BY <1>1, <1>2, <1>3, <1>4, <1>5, <1>6 DEF Next, ServeInv

(* RestorePointsAlwaysServe: a restore point that was answered stays in    *)
(* the backup, through every later call on it, failed or killed, inside    *)
(* the write of its superblock as well: the page is there, and a           *)
(* superblock that can be read counts it.  And a backup that answers has   *)
(* carried a checkpoint, unless the source has begun two since the call    *)
(* did.                                                                    *)
THEOREM RestorePointsAlwaysServe == ASSUME Faults = {} PROVE Spec => []RestorePointsServe
<1>1. ServeInv => RestorePointsHold
  <2> SUFFICES ASSUME ServeInv, NEW r \in points
               PROVE  /\ Exists("dst") /\ HasPage("dst", r.at)
                      /\ file["dst"].pages[r.at] = r.page /\ r.at <= file["dst"].committed
    BY DEF RestorePointsHold
  <2>1. /\ Exists("dst") /\ r.at <= file["dst"].committed
        /\ r.page = <<file["dst"].history, r.at>> /\ r.at \in Nat /\ r.at >= 1
    BY DEF ServeInv, HeldInv, Exists, Made, BackupInv, PointsInv
  <2>2. file["dst"] \in LogFile /\ FileInv("dst") /\ Made("dst")
    BY <2>1, MadeLog DEF ServeInv, BackupInv, FilesInv, Files, Exists, Made
  <2>3. /\ file["dst"].pages \in Seq(Nat \X Nat) /\ file["dst"].committed \in Nat
        /\ file["dst"].committed <= Len(file["dst"].pages)
        /\ InPlace(file["dst"].pages, file["dst"].history)
    BY <2>2 DEF FileInv, LogFile
  <2>4. r.at \in DOMAIN file["dst"].pages
    BY <2>1, <2>3
  <2>5. file["dst"].pages[r.at] = r.page
    BY <2>1, <2>3, <2>4, PageInPlace
  <2> QED
    BY <2>1, <2>4, <2>5 DEF HasPage
<1>2. ServeInv => CheckpointCarried
  <2> SUFFICES ASSUME ServeInv, NEW p \in Procs, job[p].step = "answer",
                      job[p].kind # "restore", stamps - job[p].since <= 1
               PROVE  Exists(To(p)) /\ file[To(p)].ckpt # NoStamp
    BY DEF CheckpointCarried
  <2>1. job[p].step # "idle" /\ job[p].step \in After
    BY DEF After
  <2>2. Active(p) /\ ToInv(p) /\ To(p) = "dst"
    BY <2>1, CallFacts, CallTyped DEF ServeInv
  <2>3. Exists("dst")
    BY <2>1, <2>2 DEF ToInv, To, Exists, Made
  <2>4. file["dst"].ckpt # NoStamp
    BY <2>2 DEF ServeInv, OffersInv, OfferInv
  <2> QED
    BY <2>2, <2>3, <2>4
<1>3. Init => ServeInv
  BY InitServes
<1>4. ServeInv /\ [Next]_vars => ServeInv'
  BY StepServes
<1>5. ServeInv => RestorePointsServe
  BY <1>1, <1>2 DEF RestorePointsServe
<1> QED
  BY <1>3, <1>4, <1>5, PTL DEF Spec

-----------------------------------------------------------------------------
(* Paging: sequences in an order, whose first n elements are all a bounded *)
(* scan or a walk keeps.                                                   *)

(* R puts the elements of S on one line.                                   *)
Linear(R, S) ==
  /\ \A a \in S : <<a, a>> \notin R
  /\ \A a, b \in S : a # b => <<a, b>> \in R \/ <<b, a>> \in R
  /\ \A a, b, c \in S : <<a, b>> \in R /\ <<b, c>> \in R => <<a, c>> \in R

Ascends(t, R) == \A i, j \in 1..Len(t) : i < j => <<t[i], t[j]>> \in R

(* t is the first n elements of S, or all of them.                         *)
Heads(t, n, S, R) ==
  /\ t \in Seq(S) /\ Len(t) <= n /\ Ascends(t, R)
  /\ \A x \in S : \/ \E i \in 1..Len(t) : t[i] = x
                  \/ Len(t) = n /\ \A i \in 1..Len(t) : <<t[i], x>> \in R

Lists(t, S, R) ==
  /\ t \in Seq(S) /\ Ascends(t, R)
  /\ \A x \in S : \E i \in 1..Len(t) : t[i] = x

LEMMA LinearPart ==
  ASSUME NEW R, NEW S, NEW T, T \subseteq S, Linear(R, S)
  PROVE  Linear(R, T)
BY DEF Linear

LEMMA LinearFacts ==
  ASSUME NEW R, NEW S, Linear(R, S)
  PROVE  /\ \A a \in S : <<a, a>> \notin R
         /\ \A a, b \in S : <<a, b>> \in R => <<b, a>> \notin R
         /\ \A a, b \in S : a # b => <<a, b>> \in R \/ <<b, a>> \in R
         /\ \A a, b, c \in S : <<a, b>> \in R /\ <<b, c>> \in R => <<a, c>> \in R
BY DEF Linear

LEMMA HeadsAgree ==
  ASSUME NEW R, NEW S, Linear(R, S), NEW n \in Nat, NEW t, NEW u,
         Heads(t, n, S, R), Heads(u, n, S, R)
  PROVE  \A i \in 1..Len(t) : i <= Len(u) => t[i] = u[i]
<1>1. Len(t) \in Nat /\ Len(u) \in Nat
  BY LenProperties DEF Heads
<1>2. (\A i \in 1..Len(t) : t[i] \in S) /\ (\A i \in 1..Len(u) : u[i] \in S)
  BY ElementOfSeq DEF Heads
<1>0. /\ \A x \in S : <<x, x>> \notin R
      /\ \A x, y \in S : <<x, y>> \in R => <<y, x>> \notin R
      /\ \A x, y \in S : x # y => <<x, y>> \in R \/ <<y, x>> \in R
  BY LinearFacts
<1> DEFINE T == {m \in Nat : \A i \in 1..m : i <= Len(t) /\ i <= Len(u) => t[i] = u[i]}
<1>3. 0 \in T
  OBVIOUS
<1>4. ASSUME NEW m \in T PROVE m + 1 \in T
  <2>1. SUFFICES ASSUME m + 1 <= Len(t), m + 1 <= Len(u), t[m + 1] # u[m + 1] PROVE FALSE
    <3>1. \A i \in 1..(m + 1) : i \in 1..m \/ i = m + 1
      OBVIOUS
    <3> QED BY <3>1
  <2>0. PICK a, b : a = t[m + 1] /\ b = u[m + 1]
    OBVIOUS
  <2>2. a \in S /\ b \in S /\ a # b /\ m \in Nat
    BY <1>1, <1>2, <2>0, <2>1
  <2>3. \A i \in 1..m : /\ t[i] = u[i] /\ t[i] \in S
                        /\ <<t[i], a>> \in R /\ <<t[i], b>> \in R
    <3> TAKE i \in 1..m
    <3>1. i \in 1..Len(t) /\ i \in 1..Len(u) /\ m + 1 \in 1..Len(t) /\ m + 1 \in 1..Len(u) /\ i < m + 1
      BY <1>1, <2>1, <2>2
    <3>2. t[i] = u[i]
      BY <1>1, <2>1
    <3> QED BY <1>2, <2>0, <3>1, <3>2 DEF Heads, Ascends
  <2>4. <<a, b>> \in R => FALSE
    <3> SUFFICES ASSUME <<a, b>> \in R PROVE FALSE
      OBVIOUS
    <3>1. ~(<<b, a>> \in R)
      BY <1>0, <2>2
    <3>2. PICK j \in 1..Len(u) : u[j] = a
      <4>1. m + 1 \in 1..Len(u)
        BY <1>1, <2>1, <2>2
      <4>2. ~ \A i \in 1..Len(u) : <<u[i], a>> \in R
        BY <2>0, <3>1, <4>1
      <4> QED BY <2>2, <4>2 DEF Heads
    <3>3. CASE j <= m
      <4>1. j \in 1..m
        BY <1>1, <2>2, <3>2, <3>3
      <4>2. <<a, a>> \in R
        BY <2>3, <3>2, <4>1
      <4> QED BY <1>0, <2>2, <4>2
    <3>4. CASE j = m + 1
      BY <2>0, <2>2, <3>2, <3>4
    <3>5. CASE j > m + 1
      <4>1. <<b, a>> \in R
        BY <1>1, <2>0, <2>1, <2>2, <3>2, <3>5 DEF Heads, Ascends
      <4> QED BY <3>1, <4>1
    <3> QED BY <1>1, <2>2, <3>3, <3>4, <3>5
  <2>5. <<b, a>> \in R => FALSE
    <3> SUFFICES ASSUME <<b, a>> \in R PROVE FALSE
      OBVIOUS
    <3>1. ~(<<a, b>> \in R)
      BY <1>0, <2>2
    <3>2. PICK j \in 1..Len(t) : t[j] = b
      <4>1. m + 1 \in 1..Len(t)
        BY <1>1, <2>1, <2>2
      <4>2. ~ \A i \in 1..Len(t) : <<t[i], b>> \in R
        BY <2>0, <3>1, <4>1
      <4> QED BY <2>2, <4>2 DEF Heads
    <3>3. CASE j <= m
      <4>1. j \in 1..m
        BY <1>1, <2>2, <3>2, <3>3
      <4>2. <<b, b>> \in R
        BY <2>3, <3>2, <4>1
      <4> QED BY <1>0, <2>2, <4>2
    <3>4. CASE j = m + 1
      BY <2>0, <2>2, <3>2, <3>4
    <3>5. CASE j > m + 1
      <4>1. <<a, b>> \in R
        BY <1>1, <2>0, <2>1, <2>2, <3>2, <3>5 DEF Heads, Ascends
      <4> QED BY <3>1, <4>1
    <3> QED BY <1>1, <2>2, <3>3, <3>4, <3>5
  <2> QED BY <1>0, <2>2, <2>4, <2>5
<1> HIDE DEF T
<1>5. T = Nat
  <2>1. T \subseteq Nat BY DEF T
  <2> QED BY <1>3, <1>4, <2>1, NatSetInduction
<1> QED BY <1>1, <1>5 DEF T

LEMMA HeadsNotShorter ==
  ASSUME NEW R, NEW S, Linear(R, S), NEW n \in Nat, NEW t, NEW u,
         Heads(t, n, S, R), Heads(u, n, S, R)
  PROVE  ~(Len(t) < Len(u))
<1> SUFFICES ASSUME Len(t) < Len(u) PROVE FALSE
  OBVIOUS
<1>1. Len(t) \in Nat /\ Len(u) \in Nat /\ Len(u) <= n
  BY LenProperties DEF Heads
<1>2. PICK j : j = Len(t) + 1 /\ j \in 1..Len(u)
  BY <1>1
<1>6. u[j] \in S
  BY <1>2, ElementOfSeq DEF Heads
<1>3. PICK i \in 1..Len(t) : t[i] = u[j]
  <2>1. Len(t) # n
    BY <1>1
  <2> QED BY <1>6, <2>1 DEF Heads
<1>4. i \in 1..Len(u) /\ i < j /\ u[i] = u[j]
  BY <1>1, <1>2, <1>3, HeadsAgree
<1>5. <<u[i], u[j]>> \in R
  BY <1>2, <1>4 DEF Heads, Ascends
<1> QED BY <1>4, <1>5, <1>6 DEF Linear

(* There is only one such sequence.                                        *)
LEMMA HeadsUnique ==
  ASSUME NEW R, NEW S, Linear(R, S), NEW n \in Nat, NEW t, NEW u,
         Heads(t, n, S, R), Heads(u, n, S, R)
  PROVE  t = u
<1>1. t \in Seq(S) /\ u \in Seq(S) /\ Len(t) \in Nat /\ Len(u) \in Nat
  BY LenProperties DEF Heads
<1>2. Len(t) = Len(u)
  <2>1. ~(Len(t) < Len(u)) /\ ~(Len(u) < Len(t))
    BY HeadsNotShorter
  <2> QED BY <1>1, <2>1
<1>3. \A i \in 1..Len(t) : t[i] = u[i]
  BY <1>1, <1>2, HeadsAgree
<1> QED BY <1>1, <1>2, <1>3, SeqEqual

LEMMA ListsAreHeads ==
  ASSUME NEW R, NEW S, NEW t, Lists(t, S, R), NEW n \in Nat, Len(t) <= n
  PROVE  Heads(t, n, S, R)
BY DEF Lists, Heads

LEMMA ListsUnique ==
  ASSUME NEW R, NEW S, Linear(R, S), NEW t, NEW u, Lists(t, S, R), Lists(u, S, R)
  PROVE  t = u
<1>1. Len(t) \in Nat /\ Len(u) \in Nat
  BY LenProperties DEF Lists
<1> DEFINE n == Len(t) + Len(u)
<1>2. n \in Nat /\ Len(t) <= n /\ Len(u) <= n
  BY <1>1
<1> HIDE DEF n
<1> QED BY <1>2, ListsAreHeads, HeadsUnique

LEMMA FirstOfIs ==
  ASSUME NEW S, NEW t \in Seq(S), NEW n \in Nat
  PROVE  /\ FirstOf(t, n) \in Seq(S)
         /\ Len(FirstOf(t, n)) = IF Len(t) <= n THEN Len(t) ELSE n
         /\ Len(FirstOf(t, n)) <= n
         /\ Len(FirstOf(t, n)) <= Len(t)
         /\ \A i \in 1..Len(FirstOf(t, n)) : i \in 1..Len(t) /\ FirstOf(t, n)[i] = t[i]
<1>1. Len(t) \in Nat
  BY LenProperties
<1>2. CASE Len(t) <= n
  BY <1>1, <1>2 DEF FirstOf
<1>3. CASE ~(Len(t) <= n)
  <2>1. \A i \in 1..n : t[i] \in S /\ i \in 1..Len(t)
    BY <1>1, <1>3, ElementOfSeq
  <2>2. /\ SubSeq(t, 1, n) \in Seq(S)
        /\ Len(SubSeq(t, 1, n)) = n
        /\ \A i \in 1..n : SubSeq(t, 1, n)[i] = t[i]
    <3>1. /\ SubSeq(t, 1, n) \in Seq(S)
          /\ Len(SubSeq(t, 1, n)) = IF 1 <= n THEN n - 1 + 1 ELSE 0
          /\ \A i \in 1..(n - 1 + 1) : SubSeq(t, 1, n)[i] = t[1 + i - 1]
      BY <2>1, SubSeqProperties
    <3>2. \A i \in 1..n : i \in 1..(n - 1 + 1) /\ 1 + i - 1 = i
      OBVIOUS
    <3>3. (IF 1 <= n THEN n - 1 + 1 ELSE 0) = n
      OBVIOUS
    <3> QED BY <3>1, <3>2, <3>3
  <2>3. FirstOf(t, n) = SubSeq(t, 1, n)
    BY <1>3 DEF FirstOf
  <2> QED BY <1>1, <1>3, <2>1, <2>2, <2>3
<1> QED BY <1>2, <1>3

(* The beginning of a beginning.                                           *)
LEMMA HeadsOfHeads ==
  ASSUME NEW R, NEW S, NEW n \in Nat, NEW t, Heads(t, n, S, R), NEW m \in Nat, m <= n
  PROVE  Heads(FirstOf(t, m), m, S, R)
<1> DEFINE u == FirstOf(t, m)
<1>1. t \in Seq(S) /\ Len(t) \in Nat /\ Len(t) <= n
  BY LenProperties DEF Heads
<1>2. /\ u \in Seq(S) /\ Len(u) = (IF Len(t) <= m THEN Len(t) ELSE m)
      /\ Len(u) <= m /\ Len(u) <= Len(t)
      /\ \A i \in 1..Len(u) : i \in 1..Len(t) /\ u[i] = t[i]
  BY <1>1, FirstOfIs
<1>3. Len(u) \in Nat
  BY <1>1, <1>2
<1> HIDE DEF u
<1>4. Ascends(u, R)
  BY <1>2 DEF Heads, Ascends
<1>5. ASSUME NEW x \in S
      PROVE  \/ \E i \in 1..Len(u) : u[i] = x
             \/ Len(u) = m /\ \A i \in 1..Len(u) : <<u[i], x>> \in R
  <2>1. CASE Len(t) = n /\ \A i \in 1..Len(t) : <<t[i], x>> \in R
    BY <1>1, <1>2, <2>1
  <2>2. ASSUME NEW j \in 1..Len(t), t[j] = x
        PROVE  \/ \E i \in 1..Len(u) : u[i] = x
               \/ Len(u) = m /\ \A i \in 1..Len(u) : <<u[i], x>> \in R
    <3>1. CASE j <= Len(u)
      <4>1. j \in 1..Len(u)
        BY <1>1, <1>3, <3>1
      <4> QED BY <1>2, <2>2, <4>1
    <3>2. CASE ~(j <= Len(u))
      <4>1. Len(u) = m
        BY <1>1, <1>2, <3>2
      <4>2. \A i \in 1..Len(u) : i < j
        BY <1>1, <1>3, <3>2
      <4>3. \A i \in 1..Len(u) : <<t[i], t[j]>> \in R
        BY <1>2, <4>2 DEF Heads, Ascends
      <4> QED BY <1>2, <2>2, <4>1, <4>3
    <3> QED BY <3>1, <3>2
  <2> QED BY <2>1, <2>2 DEF Heads
<1> QED BY <1>2, <1>4, <1>5 DEF Heads, u

(* A sequence with one more element in it.                                 *)
LEMMA InsertAtIs ==
  ASSUME NEW T, NEW t \in Seq(T), NEW x \in T, NEW c \in Nat, c <= Len(t)
  PROVE  /\ InsertAt(t, c + 1, x) \in Seq(T) /\ Len(InsertAt(t, c + 1, x)) = Len(t) + 1
         /\ \A i \in 1..(Len(t) + 1) :
              InsertAt(t, c + 1, x)[i] = IF i <= c THEN t[i] ELSE IF i = c + 1 THEN x ELSE t[i - 1]
<1> DEFINE a == SubSeq(t, 1, (c + 1) - 1)
           b == SubSeq(t, c + 1, Len(t))
           u == InsertAt(t, c + 1, x)
<1>1. Len(t) \in Nat
  BY LenProperties
<1>2. \A i \in 1..Len(t) : t[i] \in T
  BY ElementOfSeq
<1>3. /\ a \in Seq(T) /\ Len(a) = c /\ \A i \in 1..c : a[i] = t[i]
  <2>1. (c + 1) - 1 = c
    OBVIOUS
  <2>2. \A i \in 1..c : t[i] \in T
    BY <1>1, <1>2
  <2>3. /\ SubSeq(t, 1, c) \in Seq(T)
        /\ Len(SubSeq(t, 1, c)) = IF 1 <= c THEN c - 1 + 1 ELSE 0
        /\ \A i \in 1..(c - 1 + 1) : SubSeq(t, 1, c)[i] = t[1 + i - 1]
    BY <2>2, SubSeqProperties
  <2>4. \A i \in 1..c : i \in 1..(c - 1 + 1) /\ 1 + i - 1 = i
    OBVIOUS
  <2>5. (IF 1 <= c THEN c - 1 + 1 ELSE 0) = c
    OBVIOUS
  <2> QED BY <2>1, <2>3, <2>4, <2>5
<1>4. /\ b \in Seq(T) /\ Len(b) = Len(t) - c
      /\ \A i \in 1..(Len(t) - c) : b[i] = t[c + i]
  <2> DEFINE l == Len(t)
             d == c + 1
  <2>0. l \in Nat /\ d \in Nat /\ d = c + 1 /\ c <= l
    BY <1>1
  <2>2. \A i \in d..l : t[i] \in T
    BY <1>1, <1>2
  <2> HIDE DEF l, d
  <2>3. /\ SubSeq(t, d, l) \in Seq(T)
        /\ Len(SubSeq(t, d, l)) = IF d <= l THEN l - d + 1 ELSE 0
        /\ \A i \in 1..(l - d + 1) : SubSeq(t, d, l)[i] = t[d + i - 1]
    BY <2>0, <2>2, SubSeqProperties
  <2>4. \A i \in 1..(l - c) : i \in 1..(l - d + 1) /\ d + i - 1 = c + i
    BY <2>0
  <2>5. (IF d <= l THEN l - d + 1 ELSE 0) = l - c
    BY <2>0
  <2>6. /\ SubSeq(t, d, l) \in Seq(T) /\ Len(SubSeq(t, d, l)) = l - c
        /\ \A i \in 1..(l - c) : SubSeq(t, d, l)[i] = t[c + i]
    BY <2>3, <2>4, <2>5
  <2> QED BY <2>6 DEF l, d
<1>5. u = (a \o <<x>>) \o b
  BY DEF InsertAt
<1>6. /\ u \in Seq(T) /\ Len(u) = Len(t) + 1
      /\ \A i \in 1..(Len(t) + 1) :
           u[i] = IF i <= c THEN t[i] ELSE IF i = c + 1 THEN x ELSE t[i - 1]
  <2> HIDE DEF a, b, u
  <2>1. <<x>> \in Seq(T) /\ Len(<<x>>) = 1 /\ <<x>>[1] = x
    OBVIOUS
  <2>2. PICK s : s = a \o <<x>>
    OBVIOUS
  <2>3. /\ s \in Seq(T) /\ Len(s) = c + 1
        /\ \A i \in 1..(c + 1) : s[i] = IF i <= c THEN t[i] ELSE x
    <3>1. /\ s \in Seq(T) /\ Len(s) = Len(a) + Len(<<x>>)
          /\ \A i \in 1..(Len(a) + Len(<<x>>)) :
               s[i] = IF i <= Len(a) THEN a[i] ELSE <<x>>[i - Len(a)]
      BY <1>3, <2>1, <2>2, ConcatProperties
    <3>2. \A i \in 1..(c + 1) : i <= c \/ i - c = 1
      OBVIOUS
    <3> QED BY <1>3, <2>1, <3>1, <3>2
  <2>4. /\ u \in Seq(T) /\ Len(u) = Len(s) + Len(b)
        /\ \A i \in 1..(Len(s) + Len(b)) : u[i] = IF i <= Len(s) THEN s[i] ELSE b[i - Len(s)]
    <3>1. u = s \o b
      BY <1>5, <2>2
    <3>2. /\ s \o b \in Seq(T) /\ Len(s \o b) = Len(s) + Len(b)
          /\ \A i \in 1..(Len(s) + Len(b)) :
               (s \o b)[i] = IF i <= Len(s) THEN s[i] ELSE b[i - Len(s)]
      BY <1>4, <2>3, ConcatProperties
    <3> QED BY <3>1, <3>2
  <2>5. Len(s) + Len(b) = Len(t) + 1
    BY <1>1, <1>4, <2>3
  <2>6. ASSUME NEW i \in 1..(Len(t) + 1)
        PROVE  u[i] = IF i <= c THEN t[i] ELSE IF i = c + 1 THEN x ELSE t[i - 1]
    <3>1. CASE i <= c + 1
      <4>1. i \in 1..(c + 1) /\ u[i] = s[i]
        BY <1>1, <2>3, <2>4, <2>5, <3>1
      <4>2. i <= c \/ i = c + 1
        BY <3>1
      <4>3. i = c + 1 => ~(i <= c)
        OBVIOUS
      <4> QED BY <2>3, <4>1, <4>2, <4>3
    <3>2. CASE ~(i <= c + 1)
      <4>1. i - (c + 1) \in 1..(Len(t) - c) /\ c + (i - (c + 1)) = i - 1
        BY <1>1, <3>2
      <4>2. ~(i <= c) /\ i # c + 1
        BY <1>1, <3>2
      <4>3. u[i] = b[i - (c + 1)]
        BY <2>3, <2>4, <2>5, <3>2
      <4> QED BY <1>4, <4>1, <4>2, <4>3
    <3> QED BY <3>1, <3>2
  <2> QED BY <2>4, <2>5, <2>6
<1> QED BY <1>6

(* Another element that belongs behind the first c of them.                *)
LEMMA HeadsInsert ==
  ASSUME NEW R, NEW S, NEW x, x \notin S, Linear(R, S \cup {x}),
         NEW n \in Nat, NEW t, Heads(t, n, S, R),
         NEW c \in Nat, c <= Len(t), c < n,
         \A j \in 1..Len(t) : IF j <= c THEN <<t[j], x>> \in R ELSE <<x, t[j]>> \in R
  PROVE  Heads(InsertAt(t, c + 1, x), n + 1, S \cup {x}, R)
<1> DEFINE T == S \cup {x}
           u == InsertAt(t, c + 1, x)
<1>1. t \in Seq(S) /\ Len(t) \in Nat /\ Len(t) <= n
  BY LenProperties DEF Heads
<1>2. t \in Seq(T) /\ \A i \in 1..Len(t) : t[i] \in T
  <2>1. t \in Seq(T)
    BY <1>1, SeqMonotonic
  <2> QED BY <2>1, ElementOfSeq
<1>6. /\ u \in Seq(T) /\ Len(u) = Len(t) + 1
      /\ \A i \in 1..(Len(t) + 1) :
           u[i] = IF i <= c THEN t[i] ELSE IF i = c + 1 THEN x ELSE t[i - 1]
  <2>1. x \in T
    OBVIOUS
  <2> HIDE DEF T
  <2> QED BY <1>2, <2>1, InsertAtIs
<1> HIDE DEF u
<1>7. /\ \A i \in 1..c : i \in 1..Len(u) /\ u[i] = t[i] /\ <<u[i], x>> \in R
      /\ c + 1 \in 1..Len(u) /\ u[c + 1] = x
      /\ \A i \in (c + 2)..Len(u) :
           i - 1 \in 1..Len(t) /\ u[i] = t[i - 1] /\ <<x, u[i]>> \in R
  <2>1. \A i \in 1..c : i \in 1..Len(t) /\ i \in 1..(Len(t) + 1) /\ i <= c
    BY <1>1
  <2>2. c + 1 \in 1..(Len(t) + 1) /\ ~(c + 1 <= c)
    BY <1>1
  <2>3. \A i \in (c + 2)..Len(u) :
          /\ i - 1 \in 1..Len(t) /\ ~(i - 1 <= c)
          /\ i \in 1..(Len(t) + 1) /\ ~(i <= c) /\ i # c + 1
    BY <1>1, <1>6
  <2> QED BY <1>6, <2>1, <2>2, <2>3
<1>8. Ascends(u, R)
  <2> SUFFICES ASSUME NEW i \in 1..Len(u), NEW j \in 1..Len(u), i < j
               PROVE  <<u[i], u[j]>> \in R
    BY DEF Ascends
  <2>0. i \in Nat /\ j \in Nat /\ Len(u) \in Nat
    BY <1>1, <1>6
  <2>1. CASE j <= c
    <3>1. i \in 1..c /\ j \in 1..c /\ i \in 1..Len(t) /\ j \in 1..Len(t)
      BY <1>1, <2>0, <2>1
    <3> QED BY <1>7, <3>1 DEF Heads, Ascends
  <2>2. CASE j = c + 1
    <3>1. i \in 1..c
      BY <2>0, <2>2
    <3> QED BY <1>7, <2>2, <3>1
  <2>3. CASE j >= c + 2 /\ i <= c
    <3>1. i \in 1..c /\ j \in (c + 2)..Len(u) /\ i \in 1..Len(t) /\ i < j - 1
      BY <1>1, <2>0, <2>3
    <3>2. <<t[i], t[j - 1]>> \in R
      BY <1>7, <3>1 DEF Heads, Ascends
    <3> QED BY <1>7, <3>1, <3>2
  <2>4. CASE j >= c + 2 /\ i = c + 1
    <3>1. j \in (c + 2)..Len(u)
      BY <2>0, <2>4
    <3> QED BY <1>7, <2>4, <3>1
  <2>5. CASE j >= c + 2 /\ i >= c + 2
    <3>1. j \in (c + 2)..Len(u) /\ i \in (c + 2)..Len(u) /\ i - 1 < j - 1
      BY <2>0, <2>5
    <3>2. <<t[i - 1], t[j - 1]>> \in R
      BY <1>7, <3>1 DEF Heads, Ascends
    <3> QED BY <1>7, <3>1, <3>2
  <2> QED BY <2>0, <2>1, <2>2, <2>3, <2>4, <2>5
<1>9. ASSUME NEW y \in T
      PROVE  \/ \E i \in 1..Len(u) : u[i] = y
             \/ Len(u) = n + 1 /\ \A i \in 1..Len(u) : <<u[i], y>> \in R
  <2>1. CASE y = x
    BY <1>7, <2>1
  <2>2. ASSUME NEW j \in 1..Len(t), t[j] = y
        PROVE  \E i \in 1..Len(u) : u[i] = y
    <3>1. CASE j <= c
      <4>1. j \in 1..c
        BY <1>1, <3>1
      <4> QED BY <1>7, <2>2, <4>1
    <3>2. CASE ~(j <= c)
      <4>1. j + 1 \in (c + 2)..Len(u) /\ (j + 1) - 1 = j /\ j + 1 \in 1..Len(u)
        BY <1>1, <1>6, <3>2
      <4> QED BY <1>7, <2>2, <4>1
    <3> QED BY <3>1, <3>2
  <2>3. CASE y \in S /\ Len(t) = n /\ \A i \in 1..Len(t) : <<t[i], y>> \in R
    <3>1. Len(u) = n + 1
      BY <1>6, <2>3
    <3>2. c + 2 \in (c + 2)..Len(u) /\ (c + 2) - 1 \in 1..Len(t)
      BY <1>1, <2>3, <3>1
    <3>3. <<x, u[c + 2]>> \in R /\ <<u[c + 2], y>> \in R /\ u[c + 2] \in T
      BY <1>2, <1>7, <2>3, <3>2
    <3>4. <<x, y>> \in R
      BY <3>3 DEF Linear
    <3>5. ASSUME NEW i \in 1..Len(u) PROVE <<u[i], y>> \in R
      <4>1. i \in 1..c \/ i = c + 1 \/ i \in (c + 2)..Len(u)
        BY <1>1, <1>6
      <4>2. i \in 1..c => i \in 1..Len(t)
        BY <1>1
      <4> QED BY <1>7, <2>3, <3>4, <4>1, <4>2
    <3> QED BY <3>1, <3>5
  <2> QED BY <2>1, <2>2, <2>3 DEF Heads
<1>10. Len(u) <= n + 1
  BY <1>1, <1>6
<1> QED BY <1>6, <1>8, <1>9, <1>10 DEF Heads, u

(* What comes after the one is appended to it.                             *)
LEMMA HeadsConcat ==
  ASSUME NEW R, NEW A, NEW B, NEW n \in Nat, NEW t, Heads(t, n, A, R), NEW s, Lists(s, B, R),
         \A a \in A, b \in B : <<a, b>> \in R
  PROVE  Heads(FirstOf(t \o s, n), n, A \cup B, R)
<1>1. PICK S : S = A \cup B
  OBVIOUS
<1>2. t \in Seq(S) /\ s \in Seq(S) /\ Len(t) \in Nat /\ Len(s) \in Nat /\ Len(t) <= n
  <2>1. t \in Seq(A) /\ s \in Seq(B) /\ Len(t) <= n
    BY DEF Heads, Lists
  <2>2. A \subseteq S /\ B \subseteq S
    BY <1>1
  <2> QED BY <2>1, <2>2, SeqMonotonic, LenProperties
<1>3. (\A i \in 1..Len(t) : t[i] \in A) /\ (\A i \in 1..Len(s) : s[i] \in B)
  BY ElementOfSeq DEF Heads, Lists
<1>4. PICK v : v = t \o s
  OBVIOUS
<1>5. /\ v \in Seq(S) /\ Len(v) = Len(t) + Len(s)
      /\ \A i \in 1..(Len(t) + Len(s)) : v[i] = IF i <= Len(t) THEN t[i] ELSE s[i - Len(t)]
  BY <1>2, <1>4, ConcatProperties
<1>6. /\ \A i \in 1..Len(t) : i \in 1..Len(v) /\ v[i] = t[i]
      /\ \A i \in (Len(t) + 1)..Len(v) : i - Len(t) \in 1..Len(s) /\ v[i] = s[i - Len(t)]
      /\ \A i \in 1..Len(s) : Len(t) + i \in (Len(t) + 1)..Len(v) /\ v[Len(t) + i] = s[i]
  <2>1. \A i \in 1..Len(t) : i \in 1..(Len(t) + Len(s)) /\ i <= Len(t)
    BY <1>2
  <2>2. \A i \in (Len(t) + 1)..Len(v) :
          /\ i - Len(t) \in 1..Len(s) /\ i \in 1..(Len(t) + Len(s)) /\ ~(i <= Len(t))
    BY <1>2, <1>5
  <2>3. \A i \in 1..Len(s) : /\ Len(t) + i \in (Len(t) + 1)..Len(v)
                             /\ (Len(t) + i) - Len(t) = i
    BY <1>2, <1>5
  <2>4. /\ \A i \in 1..Len(t) : i \in 1..Len(v) /\ v[i] = t[i]
        /\ \A i \in (Len(t) + 1)..Len(v) : i - Len(t) \in 1..Len(s) /\ v[i] = s[i - Len(t)]
    BY <1>5, <2>1, <2>2
  <2> QED BY <2>3, <2>4
<1>7. Ascends(v, R)
  <2> SUFFICES ASSUME NEW i \in 1..Len(v), NEW j \in 1..Len(v), i < j
               PROVE  <<v[i], v[j]>> \in R
    BY DEF Ascends
  <2>0. i \in Nat /\ j \in Nat /\ Len(v) \in Nat
    BY <1>2, <1>5
  <2>1. CASE j <= Len(t)
    <3>1. i \in 1..Len(t) /\ j \in 1..Len(t)
      BY <1>2, <2>0, <2>1
    <3> QED BY <1>6, <3>1 DEF Heads, Ascends
  <2>2. CASE i <= Len(t) /\ j > Len(t)
    <3>1. i \in 1..Len(t) /\ j \in (Len(t) + 1)..Len(v)
      BY <1>2, <2>0, <2>2
    <3>2. v[i] \in A /\ v[j] \in B
      BY <1>3, <1>6, <3>1
    <3> QED BY <3>2
  <2>3. CASE i > Len(t)
    <3>1. i \in (Len(t) + 1)..Len(v) /\ j \in (Len(t) + 1)..Len(v) /\ i - Len(t) < j - Len(t)
      BY <1>2, <2>0, <2>3
    <3>2. <<s[i - Len(t)], s[j - Len(t)]>> \in R
      BY <1>6, <3>1 DEF Lists, Ascends
    <3> QED BY <1>6, <3>1, <3>2
  <2> QED BY <1>2, <2>0, <2>1, <2>2, <2>3
<1>8. PICK u : u = FirstOf(v, n)
  OBVIOUS
<1>9. /\ u \in Seq(S) /\ Len(u) = (IF Len(v) <= n THEN Len(v) ELSE n)
      /\ Len(u) <= n /\ Len(u) <= Len(v)
      /\ \A i \in 1..Len(u) : i \in 1..Len(v) /\ u[i] = v[i]
  BY <1>5, <1>8, FirstOfIs
<1>10. Len(u) \in Nat /\ Len(v) \in Nat
  BY <1>2, <1>5, <1>9
<1>11. Ascends(u, R)
  BY <1>7, <1>9 DEF Ascends
<1>12. ASSUME NEW x \in S, NEW j \in 1..Len(v), v[j] = x
       PROVE  \/ \E i \in 1..Len(u) : u[i] = x
              \/ Len(u) = n /\ \A i \in 1..Len(u) : <<u[i], x>> \in R
  <2>1. CASE j <= Len(u)
    <3>1. j \in 1..Len(u)
      BY <1>10, <2>1
    <3> QED BY <1>9, <1>12, <3>1
  <2>2. CASE ~(j <= Len(u))
    <3>1. Len(u) = n /\ \A i \in 1..Len(u) : i < j
      BY <1>9, <1>10, <2>2
    <3>2. \A i \in 1..Len(u) : <<v[i], v[j]>> \in R
      BY <1>7, <1>9, <3>1 DEF Ascends
    <3> QED BY <1>9, <1>12, <3>1, <3>2
  <2> QED BY <2>1, <2>2
<1>13. ASSUME NEW x \in S
       PROVE  \/ \E i \in 1..Len(u) : u[i] = x
              \/ Len(u) = n /\ \A i \in 1..Len(u) : <<u[i], x>> \in R
  <2>1. CASE x \in B
    <3>1. PICK i \in 1..Len(s) : s[i] = x
      BY <2>1 DEF Lists
    <3>2. Len(t) + i \in 1..Len(v) /\ v[Len(t) + i] = x
      BY <1>2, <1>5, <1>6, <3>1
    <3> QED BY <1>12, <3>2
  <2>2. ASSUME NEW i \in 1..Len(t), t[i] = x
        PROVE  \/ \E k \in 1..Len(u) : u[k] = x
               \/ Len(u) = n /\ \A k \in 1..Len(u) : <<u[k], x>> \in R
    BY <1>6, <1>12, <2>2
  <2>3. CASE Len(t) = n /\ \A i \in 1..Len(t) : <<t[i], x>> \in R
    <3>1. Len(u) = n
      BY <1>2, <1>5, <1>9, <2>3
    <3> QED BY <1>6, <1>9, <2>3, <3>1
  <2> QED BY <1>1, <2>1, <2>2, <2>3 DEF Heads
<1> QED BY <1>1, <1>4, <1>8, <1>9, <1>11, <1>13 DEF Heads

(* Positions that with one hold every smaller one are the first so many.   *)
LEMMA SegmentIs ==
  ASSUME NEW N \in Nat, NEW D \in SUBSET (1..N), \A j \in D, i \in 1..N : i < j => i \in D
  PROVE  Cardinality(D) \in 0..N /\ D = 1..Cardinality(D)
<1> DEFINE T == {n \in Nat : \A E \in SUBSET (1..n) :
                   (\A j \in E, i \in 1..n : i < j => i \in E) => \E m \in 0..n : E = 1..m}
<1>1. 0 \in T
  <2>1. \A E \in SUBSET (1..0) : E = 1..0
    OBVIOUS
  <2>2. 0 \in 0..0
    OBVIOUS
  <2>3. \A E \in SUBSET (1..0) : \E m \in 0..0 : E = 1..m
    BY <2>1, <2>2, Zenon
  <2> QED BY <2>3
<1>2. ASSUME NEW n \in T PROVE n + 1 \in T
  <2> SUFFICES ASSUME NEW E \in SUBSET (1..(n + 1)),
                      \A j \in E, i \in 1..(n + 1) : i < j => i \in E
               PROVE  \E m \in 0..(n + 1) : E = 1..m
    OBVIOUS
  <2>0. n \in Nat
    OBVIOUS
  <2>1. CASE n + 1 \in E
    <3>1. \A i \in 1..(n + 1) : i \in E
      BY <2>0, <2>1
    <3>2. E = 1..(n + 1)
      BY <3>1, Zenon
    <3>3. n + 1 \in 0..(n + 1)
      BY <2>0
    <3> QED BY <3>2, <3>3, Zenon
  <2>2. CASE n + 1 \notin E
    <3>1. E \in SUBSET (1..n)
      BY <2>0, <2>2
    <3>2. PICK m \in 0..n : E = 1..m
      BY <2>0, <3>1
    <3> QED BY <2>0, <3>2
  <2> QED BY <2>1, <2>2
<1> HIDE DEF T
<1>3. T = Nat
  <2>1. T \subseteq Nat BY DEF T
  <2> QED BY <1>1, <1>2, <2>1, NatSetInduction
<1>4. PICK m \in 0..N : D = 1..m
  BY <1>3 DEF T
<1>5. Cardinality(1..m) = m
  <2>1. m \in Int /\ 1 \in Int /\ Cardinality(1..m) = IF 1 > m THEN 0 ELSE m - 1 + 1
    BY FS_Interval
  <2> QED BY <2>1
<1> QED BY <1>4, <1>5

(* Where an element belongs: behind as many as come before it.             *)
LEMMA BelongsBehind ==
  ASSUME NEW R, NEW S, NEW x, x \notin S, Linear(R, S \cup {x}), NEW n, NEW t, Heads(t, n, S, R),
         NEW c, c = Cardinality({j \in DOMAIN t : <<t[j], x>> \in R})
  PROVE  /\ c \in 0..Len(t)
         /\ \A j \in 1..Len(t) : IF j <= c THEN <<t[j], x>> \in R ELSE <<x, t[j]>> \in R
<1>1. t \in Seq(S) /\ Len(t) \in Nat /\ DOMAIN t = 1..Len(t)
  BY LenProperties DEF Heads
<1>2. \A i \in 1..Len(t) : t[i] \in S /\ t[i] # x
  BY <1>1, ElementOfSeq
<1> DEFINE D == {j \in 1..Len(t) : <<t[j], x>> \in R}
<1>3. \A j \in D, i \in 1..Len(t) : i < j => i \in D
  BY <1>2 DEF Heads, Ascends, Linear
<1>4. Cardinality(D) \in 0..Len(t) /\ D = 1..Cardinality(D)
  BY <1>1, <1>3, SegmentIs
<1>5. c = Cardinality(D)
  BY <1>1
<1>6. ASSUME NEW j \in 1..Len(t) PROVE j \in D <=> j <= c
  <2>1. j \in 1..c <=> j <= c
    BY <1>1, <1>4, <1>5
  <2> QED BY <1>4, <1>5, <2>1
<1>7. ASSUME NEW j \in 1..Len(t), ~(<<t[j], x>> \in R) PROVE <<x, t[j]>> \in R
  <2>1. t[j] \in S \cup {x} /\ x \in S \cup {x} /\ t[j] # x
    BY <1>2
  <2> QED BY <1>7, <2>1 DEF Linear
<1> QED BY <1>4, <1>5, <1>6, <1>7

(* A finite set can be listed, and is listed by InOrder.                   *)
LEMMA ListExists ==
  ASSUME NEW R, NEW S, IsFiniteSet(S), Linear(R, S)
  PROVE  \E t : Lists(t, S, R)
<1> DEFINE T == {n \in Nat : \A A \in SUBSET S : Cardinality(A) = n => \E t : Lists(t, A, R)}
<1>1. 0 \in T
  <2> SUFFICES ASSUME NEW A \in SUBSET S, Cardinality(A) = 0 PROVE \E t : Lists(t, A, R)
    OBVIOUS
  <2>1. A = {}
    BY FS_Subset, FS_EmptySet
  <2>2. <<>> \in Seq(A) /\ Len(<<>>) = 0
    OBVIOUS
  <2>3. Lists(<<>>, A, R)
    BY <2>1, <2>2 DEF Lists, Ascends
  <2> QED BY <2>3
<1>2. ASSUME NEW n \in T PROVE n + 1 \in T
  <2> SUFFICES ASSUME NEW A \in SUBSET S, Cardinality(A) = n + 1 PROVE \E t : Lists(t, A, R)
    OBVIOUS
  <2>0. n \in Nat /\ IsFiniteSet(A)
    BY FS_Subset
  <2>1. PICK x \in A : TRUE
    <3>1. A # {}
      BY <2>0, FS_EmptySet
    <3> QED BY <3>1
  <2>2. PICK B : B = A \ {x}
    OBVIOUS
  <2>3. Cardinality(B) = n /\ B \in SUBSET S /\ x \notin B /\ B \cup {x} = A
    <3>1. B \in SUBSET S /\ x \notin B /\ B \cup {x} = A
      BY <2>1, <2>2
    <3>2. Cardinality(A \ {x}) = Cardinality(A) - 1
      BY <2>0, <2>1, FS_RemoveElement
    <3> QED BY <2>0, <2>2, <3>1, <3>2
  <2>4. PICK t : Lists(t, B, R)
    BY <2>3
  <2>5. t \in Seq(B) /\ Len(t) \in Nat
    BY <2>4, LenProperties DEF Lists
  <2>6. Linear(R, B \cup {x}) /\ Linear(R, A)
    BY <2>3, LinearPart
  <2>7. Heads(t, Len(t) + 1, B, R)
    BY <2>4, <2>5, ListsAreHeads
  <2>8. PICK c : c = Cardinality({j \in DOMAIN t : <<t[j], x>> \in R})
    OBVIOUS
  <2>9. /\ c \in 0..Len(t)
        /\ \A j \in 1..Len(t) : IF j <= c THEN <<t[j], x>> \in R ELSE <<x, t[j]>> \in R
    BY <2>3, <2>6, <2>7, <2>8, BelongsBehind
  <2>10. PICK u : u = InsertAt(t, c + 1, x)
    OBVIOUS
  <2>11. Heads(u, (Len(t) + 1) + 1, A, R)
    <3>1. c \in Nat /\ c <= Len(t) /\ c < Len(t) + 1 /\ Len(t) + 1 \in Nat
      BY <2>5, <2>9
    <3>2. Heads(u, (Len(t) + 1) + 1, B \cup {x}, R)
      BY <2>3, <2>6, <2>7, <2>9, <2>10, <3>1, HeadsInsert
    <3> QED BY <2>3, <3>2
  <2>12. Len(u) = Len(t) + 1
    <3>1. B \subseteq A /\ t \in Seq(B)
      BY <2>3, <2>5
    <3>2. t \in Seq(A) /\ c \in Nat /\ c <= Len(t)
      BY <2>5, <2>9, <3>1, SeqMonotonic
    <3> QED BY <2>10, <3>2, InsertAtIs
  <2>13. Lists(u, A, R)
    BY <2>5, <2>11, <2>12 DEF Heads, Lists
  <2> QED BY <2>13
<1> HIDE DEF T
<1>3. T = Nat
  <2>1. T \subseteq Nat BY DEF T
  <2> QED BY <1>1, <1>2, <2>1, NatSetInduction
<1>4. Cardinality(S) \in Nat
  BY FS_CardinalityType
<1> QED BY <1>3, <1>4 DEF T

LEMMA ListedOnce ==
  ASSUME NEW R, NEW S, Linear(R, S), NEW t, Ascends(t, R), \A i \in 1..Len(t) : t[i] \in S,
         Len(t) \in Nat
  PROVE  \A i, j \in 1..Len(t) : t[i] = t[j] => i = j
<1> SUFFICES ASSUME NEW i \in 1..Len(t), NEW j \in 1..Len(t), t[i] = t[j], i # j PROVE FALSE
  OBVIOUS
<1>1. i < j \/ j < i
  OBVIOUS
<1>2. <<t[i], t[j]>> \in R \/ <<t[j], t[i]>> \in R
  BY <1>1 DEF Ascends
<1> QED BY <1>2 DEF Linear

LEMMA InOrderLists ==
  ASSUME NEW R, NEW S, IsFiniteSet(S), Linear(R, S)
  PROVE  Lists(InOrder(S, R), S, R) /\ Len(InOrder(S, R)) = Cardinality(S)
<1> DEFINE n == Cardinality(S)
           Sorted(seq) == \A i, j \in DOMAIN seq : i < j => <<seq[i], seq[j]>> \in R
<1>1. n \in Nat
  BY FS_CardinalityType
<1>2. \E seq \in [1..n -> S] : Sorted(seq)
  <2>1. PICK t : Lists(t, S, R)
    BY ListExists
  <2>2. /\ t \in [1..Len(t) -> S] /\ Len(t) \in Nat /\ DOMAIN t = 1..Len(t)
        /\ \A i \in 1..Len(t) : t[i] \in S
    BY <2>1, LenProperties, ElementOfSeq DEF Lists
  <2>3. \A i, j \in 1..Len(t) : t[i] = t[j] => i = j
    BY <2>1, <2>2, ListedOnce DEF Lists
  <2>4. t \in Bijection(1..Len(t), S)
    BY <2>1, <2>2, <2>3 DEF Bijection, Injection, Surjection, IsInjective, Lists
  <2>5. IsFiniteSet(1..Len(t)) /\ Cardinality(1..Len(t)) = Len(t)
    <3> DEFINE l == Len(t)
    <3>1. l \in Int /\ 1 \in Int
      BY <2>2
    <3> HIDE DEF l
    <3>2. IsFiniteSet(1..l) /\ Cardinality(1..l) = IF 1 > l THEN 0 ELSE l - 1 + 1
      BY <3>1, FS_Interval
    <3>3. l \in Nat
      BY <2>2 DEF l
    <3>4. IsFiniteSet(1..l) /\ Cardinality(1..l) = l
      BY <3>2, <3>3
    <3> QED BY <3>4 DEF l
  <2>6. Len(t) = n
    BY <2>4, <2>5, FS_Bijection DEF ExistsBijection
  <2>7. Sorted(t)
    BY <2>1, <2>2 DEF Lists, Ascends
  <2> QED BY <2>2, <2>6, <2>7
<1>3. PICK u : u = InOrder(S, R)
  OBVIOUS
<1>4. u \in [1..n -> S] /\ Sorted(u)
  BY <1>2, <1>3, Zenon DEF InOrder
<1> HIDE DEF n, Sorted
<1>5. u \in Seq(S) /\ Len(u) = n /\ DOMAIN u = 1..n
  <2>1. u \in Seq(S)
    BY <1>1, <1>4, SeqDef
  <2> QED BY <1>1, <1>4, <2>1, LenProperties
<1>6. Ascends(u, R)
  BY <1>4, <1>5 DEF Ascends, Sorted
<1>7. \A i, j \in 1..n : u[i] = u[j] => i = j
  <2>1. \A i \in 1..Len(u) : u[i] \in S
    BY <1>4, <1>5
  <2> QED BY <1>1, <1>5, <1>6, <2>1, ListedOnce
<1>8. u \in Injection(1..n, S)
  BY <1>4, <1>7 DEF Injection, IsInjective
<1>9. IsFiniteSet(1..n) /\ Cardinality(1..n) = n
  <2>1. IsFiniteSet(1..n) /\ Cardinality(1..n) = IF 1 > n THEN 0 ELSE n - 1 + 1
    BY <1>1, FS_Interval
  <2> QED BY <1>1, <2>1
<1>10. u \in Surjection(1..n, S)
  BY <1>8, <1>9, FS_Injection DEF n
<1>11. \A x \in S : \E i \in 1..n : u[i] = x
  BY <1>10 DEF Surjection
<1> QED BY <1>3, <1>5, <1>6, <1>11 DEF Lists, n

(* Only the order of the listed elements matters.                          *)
LEMMA LinearSame ==
  ASSUME NEW R, NEW Q, NEW S, Linear(R, S), \A a, b \in S : <<a, b>> \in Q <=> <<a, b>> \in R
  PROVE  Linear(Q, S)
BY DEF Linear

LEMMA ListsSame ==
  ASSUME NEW R, NEW Q, NEW S, NEW t, Lists(t, S, R),
         \A a, b \in S : <<a, b>> \in Q <=> <<a, b>> \in R
  PROVE  Lists(t, S, Q)
<1>1. \A i \in 1..Len(t) : t[i] \in S
  BY ElementOfSeq DEF Lists
<1> QED BY <1>1 DEF Lists, Ascends

LEMMA InOrderListsAs ==
  ASSUME NEW R, NEW Q, NEW S, IsFiniteSet(S), Linear(R, S),
         \A a, b \in S : <<a, b>> \in Q <=> <<a, b>> \in R
  PROVE  Lists(InOrder(S, Q), S, R) /\ Len(InOrder(S, Q)) = Cardinality(S)
<1>1. Linear(Q, S)
  BY LinearSame
<1>2. Lists(InOrder(S, Q), S, Q) /\ Len(InOrder(S, Q)) = Cardinality(S)
  BY <1>1, InOrderLists
<1> QED BY <1>2, ListsSame

(* What comes after the n-th element.                                      *)
LEMMA ListsRest ==
  ASSUME NEW R, NEW S, Linear(R, S), NEW t, Lists(t, S, R), NEW n \in 1..Len(t)
  PROVE  Lists(SubSeq(t, n + 1, Len(t)), {x \in S : <<t[n], x>> \in R}, R)
<1> DEFINE l == Len(t)
           u == SubSeq(t, n + 1, l)
           T == {x \in S : <<t[n], x>> \in R}
<1>1. l \in Nat /\ n \in Nat /\ n <= l /\ \A i \in 1..l : t[i] \in S
  BY LenProperties, ElementOfSeq DEF Lists
<1>0. \A i, j \in 1..l : i < j => <<t[i], t[j]>> \in R
  BY DEF Lists, Ascends
<1>8. \A x \in S : \E i \in 1..l : t[i] = x
  BY DEF Lists
<1> HIDE DEF l
<1>2. \A i \in (n + 1)..l : i \in 1..l /\ t[i] \in T
  <2>1. \A i \in (n + 1)..l : i \in 1..l /\ n \in 1..l /\ n < i
    BY <1>1
  <2> QED BY <1>0, <1>1, <2>1
<1>3. u \in Seq(T) /\ Len(u) = l - n /\ \A i \in 1..(l - n) : u[i] = t[n + i]
  <2>1. PICK m : m = n + 1
    OBVIOUS
  <2> HIDE DEF T
  <2>2. m \in Int /\ l \in Int /\ \A i \in m..l : t[i] \in T
    BY <1>1, <1>2, <2>1
  <2>3. /\ SubSeq(t, m, l) \in Seq(T)
        /\ Len(SubSeq(t, m, l)) = IF m <= l THEN l - m + 1 ELSE 0
        /\ \A i \in 1..(l - m + 1) : SubSeq(t, m, l)[i] = t[m + i - 1]
    BY <2>2, SubSeqProperties
  <2>4. \A i \in 1..(l - n) : i \in 1..(l - m + 1) /\ m + i - 1 = n + i
    BY <1>1, <2>1
  <2>5. (IF m <= l THEN l - m + 1 ELSE 0) = l - n
    BY <1>1, <2>1
  <2> QED BY <2>1, <2>3, <2>4, <2>5
<1> HIDE DEF u
<1>4. Ascends(u, R)
  <2> SUFFICES ASSUME NEW i \in 1..Len(u), NEW j \in 1..Len(u), i < j
               PROVE  <<u[i], u[j]>> \in R
    BY DEF Ascends
  <2>1. n + i \in 1..l /\ n + j \in 1..l /\ n + i < n + j
    BY <1>1, <1>3
  <2> QED BY <1>0, <1>3, <2>1
<1>5. ASSUME NEW x \in T PROVE \E i \in 1..Len(u) : u[i] = x
  <2>1. PICK i \in 1..l : t[i] = x
    BY <1>8
  <2>2. i > n
    <3> SUFFICES ASSUME i <= n PROVE FALSE
      BY <1>1
    <3>1. i = n \/ i < n
      BY <1>1
    <3>2. <<t[n], x>> \in R /\ t[n] \in S /\ x \in S
      BY <1>1
    <3>3. i = n => FALSE
      BY <2>1, <3>2, LinearFacts
    <3>4. i < n => <<x, t[n]>> \in R
      BY <1>0, <1>1, <2>1
    <3> QED BY <3>1, <3>2, <3>3, <3>4, LinearFacts
  <2>3. i - n \in 1..Len(u) /\ n + (i - n) = i /\ i - n \in 1..(l - n)
    BY <1>1, <1>3, <2>2
  <2> QED BY <1>3, <2>1, <2>3
<1> QED BY <1>3, <1>4, <1>5 DEF Lists, l, u

(* The value has a place under the sort key, or is missing.                *)
Placed(sort, v) == v = None \/ Place[TypeOf(sort.prop)][v] \in Int

LEMMA CompareIs ==
  ASSUME NEW sort, NEW a, NEW b, Placed(sort, a), Placed(sort, b)
  PROVE  /\ Compare(sort, a, b) \in {-1, 0, 1} /\ Compare(sort, a, a) = 0
         /\ Compare(sort, a, b) < 0 <=> Compare(sort, b, a) > 0
         /\ Compare(sort, a, b) = 0 <=> Compare(sort, b, a) = 0
<1> DEFINE place == Place[TypeOf(sort.prop)]
<1>1. (a # None => place[a] \in Int) /\ (b # None => place[b] \in Int)
  BY DEF Placed
<1>2. CASE a = None \/ b = None
  BY <1>1, <1>2 DEF Compare
<1>3. CASE a # None /\ b # None
  <2> DEFINE x == place[a]
             y == place[b]
             D(p, q) == IF sort.desc THEN q - p ELSE p - q
             S(p, q) == IF D(p, q) < 0 THEN -1 ELSE IF D(p, q) > 0 THEN 1 ELSE 0
  <2>1. x \in Int /\ y \in Int
    BY <1>1, <1>3
  <2>2. /\ Compare(sort, a, b) = S(x, y) /\ Compare(sort, b, a) = S(y, x)
        /\ Compare(sort, a, a) = S(x, x)
    BY <1>3 DEF Compare
  <2> HIDE DEF x, y
  <2>3. S(x, y) \in {-1, 0, 1} /\ S(x, x) = 0 /\ (S(x, y) < 0 <=> S(y, x) > 0) /\ (S(x, y) = 0 <=> S(y, x) = 0)
    <3>1. CASE sort.desc
      BY <2>1, <3>1
    <3>2. CASE ~sort.desc
      BY <2>1, <3>2
    <3> QED BY <3>1, <3>2
  <2> QED BY <2>2, <2>3
<1> QED BY <1>2, <1>3

LEMMA CompareTransitive ==
  ASSUME NEW sort, NEW a, NEW b, NEW c, Placed(sort, a), Placed(sort, b), Placed(sort, c),
         Compare(sort, a, b) <= 0, Compare(sort, b, c) <= 0
  PROVE  /\ Compare(sort, a, c) <= 0
         /\ Compare(sort, a, b) < 0 \/ Compare(sort, b, c) < 0 => Compare(sort, a, c) < 0
<1> DEFINE place == Place[TypeOf(sort.prop)]
<1>1. /\ a # None => place[a] \in Int
      /\ b # None => place[b] \in Int
      /\ c # None => place[c] \in Int
  BY DEF Placed
<1>2. CASE a = None \/ b = None \/ c = None
  <2>1. CASE b = None
    <3>1. c = None
      BY <2>1 DEF Compare
    <3> QED BY <2>1, <3>1 DEF Compare
  <2>2. CASE b # None /\ a = None
    BY <2>2 DEF Compare
  <2>3. CASE b # None /\ a # None /\ c = None
    BY <2>3 DEF Compare
  <2> QED BY <1>2, <2>1, <2>2, <2>3
<1>3. CASE a # None /\ b # None /\ c # None
  <2> DEFINE x == place[a]
             y == place[b]
             z == place[c]
             D(p, q) == IF sort.desc THEN q - p ELSE p - q
             S(p, q) == IF D(p, q) < 0 THEN -1 ELSE IF D(p, q) > 0 THEN 1 ELSE 0
  <2>1. x \in Int /\ y \in Int /\ z \in Int
    BY <1>1, <1>3
  <2>2. /\ Compare(sort, a, b) = S(x, y) /\ Compare(sort, b, c) = S(y, z)
        /\ Compare(sort, a, c) = S(x, z)
    BY <1>3 DEF Compare
  <2> HIDE DEF x, y, z
  <2>3. S(x, y) <= 0 /\ S(y, z) <= 0 =>
          S(x, z) <= 0 /\ (S(x, y) < 0 \/ S(y, z) < 0 => S(x, z) < 0)
    <3>1. CASE sort.desc
      BY <2>1, <3>1
    <3>2. CASE ~sort.desc
      BY <2>1, <3>2
    <3> QED BY <3>1, <3>2
  <2> QED BY <2>2, <2>3
<1> QED BY <1>2, <1>3

LEMMA MinIn ==
  ASSUME NEW S \in SUBSET Nat, S # {}
  PROVE  Min(S) \in S /\ \A i \in S : Min(S) <= i
<1> DEFINE R == OpToRel(<, Nat)
<1>1. IsWellFoundedOn(R, Nat)
  BY NatLessThanWellFounded
<1>2. PICK x \in S : \A y \in S : ~ (<<y, x>> \in R)
  BY <1>1, WFMin
<1>3. \A y \in S : x <= y
  <2> TAKE y \in S
  <2>1. x \in Nat /\ y \in Nat
    OBVIOUS
  <2>2. ~(y < x)
    BY <1>2, <2>1 DEF OpToRel
  <2> QED BY <2>1, <2>2
<1> QED BY <1>3 DEF Min

(* What a request ranks by can be compared.                                *)
Comparable(req, at) ==
  /\ at.key \in Int
  /\ \A i \in DOMAIN req.sorts : Placed(req.sorts[i], at.parts[i])

(* One position is ahead of another where they first differ, or by key.    *)
LEMMA AheadIs ==
  ASSUME NEW req \in Requests, NEW a, NEW b, Comparable(req, a), Comparable(req, b)
  PROVE  LET C(i) == Compare(req.sorts[i], a.parts[i], b.parts[i]) IN
         Ahead(req, a, b) <=>
           \/ \E m \in DOMAIN req.sorts : C(m) < 0 /\ \A i \in DOMAIN req.sorts : i < m => C(i) = 0
           \/ (\A i \in DOMAIN req.sorts : C(i) = 0) /\ a.key < b.key
<1> DEFINE C(i) == Compare(req.sorts[i], a.parts[i], b.parts[i])
           N == DOMAIN req.sorts
           D == {i \in N : C(i) # 0}
<1>1. N = 1..Len(req.sorts) /\ Len(req.sorts) \in Nat
  BY RequestAssumption
<1>2. \A i \in N : C(i) \in {-1, 0, 1}
  BY CompareIs DEF Comparable
<1>3. Ahead(req, a, b) <=> IF D = {} THEN a.key < b.key ELSE C(Min(D)) < 0
  BY DEF Ahead
<1> HIDE DEF C
<1>4. CASE D = {}
  <2>1. \A i \in N : C(i) = 0
    BY <1>4
  <2> QED BY <1>3, <1>4, <2>1 DEF C
<1>5. CASE D # {}
  <2>1. PICK m : m = Min(D)
    OBVIOUS
  <2>2. m \in N /\ C(m) # 0 /\ \A i \in N : i < m => C(i) = 0
    <3>1. D \in SUBSET Nat
      BY <1>1
    <3>2. m \in D /\ \A i \in D : m <= i
      BY <1>5, <2>1, <3>1, MinIn
    <3>3. ASSUME NEW i \in N, i < m PROVE C(i) = 0
      <4>1. i \notin D
        BY <1>1, <3>1, <3>2, <3>3
      <4> QED BY <4>1
    <3> QED BY <3>2, <3>3
  <2>3. ASSUME NEW k \in N, C(k) < 0, \A i \in N : i < k => C(i) = 0
        PROVE  C(m) < 0
    <3>1. ~(m < k) /\ ~(k < m)
      BY <1>1, <1>2, <2>2, <2>3
    <3>2. m = k
      BY <1>1, <2>2, <3>1
    <3> QED BY <2>3, <3>2
  <2>4. ~(\A i \in N : C(i) = 0)
    BY <2>2
  <2>5. Ahead(req, a, b) <=> C(m) < 0
    BY <1>3, <1>5, <2>1
  <2>6. Ahead(req, a, b) <=>
           \/ \E k \in N : C(k) < 0 /\ \A i \in N : i < k => C(i) = 0
           \/ (\A i \in N : C(i) = 0) /\ a.key < b.key
    BY <2>2, <2>3, <2>4, <2>5
  <2> QED BY <2>6 DEF C
<1> QED BY <1>4, <1>5

LEMMA AheadOneWay ==
  ASSUME NEW req \in Requests, NEW a, NEW b, Comparable(req, a), Comparable(req, b)
  PROVE  /\ ~Ahead(req, a, a)
         /\ a.key # b.key => Ahead(req, a, b) \/ Ahead(req, b, a)
<1> DEFINE N == DOMAIN req.sorts
           C(i) == Compare(req.sorts[i], a.parts[i], b.parts[i])
           E(i) == Compare(req.sorts[i], b.parts[i], a.parts[i])
           F(i) == Compare(req.sorts[i], a.parts[i], a.parts[i])
<1>0. N = 1..Len(req.sorts) /\ Len(req.sorts) \in Nat /\ a.key \in Int /\ b.key \in Int
  BY RequestAssumption DEF Comparable
<1>1. \A i \in N : /\ C(i) \in {-1, 0, 1} /\ F(i) = 0
                   /\ C(i) > 0 <=> E(i) < 0
                   /\ C(i) = 0 <=> E(i) = 0
  <2> TAKE i \in N
  <2>1. Placed(req.sorts[i], a.parts[i]) /\ Placed(req.sorts[i], b.parts[i])
    BY DEF Comparable
  <2> QED BY <2>1, CompareIs
<1>2. Ahead(req, a, b) <=>
        \/ \E m \in N : C(m) < 0 /\ \A i \in N : i < m => C(i) = 0
        \/ (\A i \in N : C(i) = 0) /\ a.key < b.key
  BY AheadIs
<1>3. Ahead(req, b, a) <=>
        \/ \E m \in N : E(m) < 0 /\ \A i \in N : i < m => E(i) = 0
        \/ (\A i \in N : E(i) = 0) /\ b.key < a.key
  BY AheadIs
<1>4. Ahead(req, a, a) <=>
        \/ \E m \in N : F(m) < 0 /\ \A i \in N : i < m => F(i) = 0
        \/ (\A i \in N : F(i) = 0) /\ a.key < a.key
  BY AheadIs
<1> HIDE DEF C, E, F
<1>5. ~Ahead(req, a, a)
  BY <1>0, <1>1, <1>4
<1>6. ASSUME a.key # b.key PROVE Ahead(req, a, b) \/ Ahead(req, b, a)
  <2>1. CASE \A i \in N : C(i) = 0
    <3>1. \A i \in N : E(i) = 0
      BY <1>1, <2>1
    <3>2. a.key < b.key \/ b.key < a.key
      BY <1>0, <1>6
    <3> QED BY <1>2, <1>3, <2>1, <3>1, <3>2
  <2>2. CASE ~(\A i \in N : C(i) = 0)
    <3> DEFINE D == {i \in N : C(i) # 0}
    <3>1. D \in SUBSET Nat /\ D # {}
      BY <1>0, <2>2
    <3>2. PICK m \in D : \A i \in D : m <= i
      BY <3>1, MinIn
    <3>3. m \in N /\ C(m) # 0 /\ \A i \in N : i < m => C(i) = 0 /\ E(i) = 0
      <4>1. ASSUME NEW i \in N, i < m PROVE C(i) = 0
        <5>1. i \notin D
          BY <1>0, <3>1, <3>2, <4>1
        <5> QED BY <5>1
      <4> QED BY <1>1, <3>2, <4>1
    <3>4. C(m) < 0 \/ E(m) < 0
      BY <1>1, <3>3
    <3> QED BY <1>2, <1>3, <3>3, <3>4
  <2> QED BY <2>1, <2>2
<1> QED BY <1>5, <1>6

LEMMA AheadTransitive ==
  ASSUME NEW req \in Requests, NEW a, NEW b, NEW c,
         Comparable(req, a), Comparable(req, b), Comparable(req, c),
         Ahead(req, a, b), Ahead(req, b, c)
  PROVE  Ahead(req, a, c)
<1> DEFINE N == DOMAIN req.sorts
           C(i) == Compare(req.sorts[i], a.parts[i], b.parts[i])
           E(i) == Compare(req.sorts[i], b.parts[i], c.parts[i])
           F(i) == Compare(req.sorts[i], a.parts[i], c.parts[i])
<1>0. /\ N = 1..Len(req.sorts) /\ Len(req.sorts) \in Nat
      /\ a.key \in Int /\ b.key \in Int /\ c.key \in Int
  BY RequestAssumption DEF Comparable
<1>1. \A i \in N : /\ C(i) \in {-1, 0, 1} /\ E(i) \in {-1, 0, 1} /\ F(i) \in {-1, 0, 1}
                   /\ C(i) = 0 /\ E(i) = 0 => F(i) = 0
                   /\ C(i) <= 0 /\ E(i) <= 0 /\ (C(i) < 0 \/ E(i) < 0) => F(i) < 0
  <2> SUFFICES ASSUME NEW i \in N
               PROVE  /\ C(i) \in {-1, 0, 1} /\ E(i) \in {-1, 0, 1} /\ F(i) \in {-1, 0, 1}
                      /\ C(i) = 0 /\ E(i) = 0 => F(i) = 0
                      /\ C(i) <= 0 /\ E(i) <= 0 /\ (C(i) < 0 \/ E(i) < 0) => F(i) < 0
    OBVIOUS
  <2> DEFINE s == req.sorts[i]
             x == a.parts[i]
             y == b.parts[i]
             z == c.parts[i]
  <2>1. Placed(s, x) /\ Placed(s, y) /\ Placed(s, z)
    BY DEF Comparable
  <2> HIDE DEF s, x, y, z
  <2>2. /\ Compare(s, x, y) \in {-1, 0, 1} /\ Compare(s, y, z) \in {-1, 0, 1}
        /\ Compare(s, x, z) \in {-1, 0, 1} /\ Compare(s, z, x) \in {-1, 0, 1}
        /\ Compare(s, x, y) = 0 <=> Compare(s, y, x) = 0
        /\ Compare(s, y, z) = 0 <=> Compare(s, z, y) = 0
        /\ Compare(s, x, z) < 0 <=> Compare(s, z, x) > 0
        /\ Compare(s, x, z) = 0 <=> Compare(s, z, x) = 0
    BY <2>1, CompareIs
  <2>3. Compare(s, x, y) <= 0 /\ Compare(s, y, z) <= 0 =>
          /\ Compare(s, x, z) <= 0
          /\ Compare(s, x, y) < 0 \/ Compare(s, y, z) < 0 => Compare(s, x, z) < 0
    BY <2>1, CompareTransitive
  <2>4. Compare(s, z, y) <= 0 /\ Compare(s, y, x) <= 0 => Compare(s, z, x) <= 0
    BY <2>1, CompareTransitive
  <2>5. Compare(s, x, y) = 0 /\ Compare(s, y, z) = 0 => Compare(s, x, z) = 0
    BY <2>2, <2>3, <2>4
  <2>6. /\ Compare(s, x, y) \in {-1, 0, 1} /\ Compare(s, y, z) \in {-1, 0, 1}
        /\ Compare(s, x, z) \in {-1, 0, 1}
        /\ Compare(s, x, y) = 0 /\ Compare(s, y, z) = 0 => Compare(s, x, z) = 0
        /\ Compare(s, x, y) <= 0 /\ Compare(s, y, z) <= 0
             /\ (Compare(s, x, y) < 0 \/ Compare(s, y, z) < 0) => Compare(s, x, z) < 0
    BY <2>2, <2>3, <2>5
  <2> QED BY <2>6 DEF s, x, y, z
<1>2. \/ \E m \in N : C(m) < 0 /\ \A i \in N : i < m => C(i) = 0
      \/ (\A i \in N : C(i) = 0) /\ a.key < b.key
  BY AheadIs
<1>3. \/ \E m \in N : E(m) < 0 /\ \A i \in N : i < m => E(i) = 0
      \/ (\A i \in N : E(i) = 0) /\ b.key < c.key
  BY AheadIs
<1>4. Ahead(req, a, c) <=>
        \/ \E m \in N : F(m) < 0 /\ \A i \in N : i < m => F(i) = 0
        \/ (\A i \in N : F(i) = 0) /\ a.key < c.key
  BY AheadIs
<1> HIDE DEF C, E, F
<1>5. CASE (\A i \in N : C(i) = 0) /\ a.key < b.key /\ (\A i \in N : E(i) = 0) /\ b.key < c.key
  BY <1>0, <1>1, <1>4, <1>5
<1>6. ASSUME NEW m \in N, C(m) < 0, \A i \in N : i < m => C(i) = 0, \A i \in N : E(i) = 0
      PROVE  Ahead(req, a, c)
  BY <1>0, <1>1, <1>4, <1>6
<1>7. ASSUME NEW m \in N, E(m) < 0, \A i \in N : i < m => E(i) = 0, \A i \in N : C(i) = 0
      PROVE  Ahead(req, a, c)
  BY <1>0, <1>1, <1>4, <1>7
<1>8. ASSUME NEW m \in N, C(m) < 0, \A i \in N : i < m => C(i) = 0,
             NEW k \in N, E(k) < 0, \A i \in N : i < k => E(i) = 0
      PROVE  Ahead(req, a, c)
  <2>1. m \in Nat /\ k \in Nat
    BY <1>0
  <2>2. PICK l \in N : l = IF m <= k THEN m ELSE k
    BY <2>1
  <2>3. \A i \in N : i < l => i < m /\ i < k
    BY <1>0, <2>1, <2>2
  <2>4. F(l) < 0
    <3>1. CASE m < k
      BY <1>1, <1>8, <2>1, <2>2, <3>1
    <3>2. CASE k < m
      BY <1>1, <1>8, <2>1, <2>2, <3>2
    <3>3. CASE k = m
      BY <1>1, <1>8, <2>1, <2>2, <3>3
    <3> QED BY <2>1, <3>1, <3>2, <3>3
  <2>5. \A i \in N : i < l => F(i) = 0
    BY <1>1, <1>8, <2>3
  <2> QED BY <1>4, <2>4, <2>5
<1> QED BY <1>2, <1>3, <1>5, <1>6, <1>7, <1>8

AllParse(req) == \A key \in Ids(req) : PositionParses(req, Position(req, key))

LEMMA PositionIs ==
  ASSUME NEW req, NEW key
  PROVE  /\ Position(req, key).key = key
         /\ \A i \in DOMAIN req.sorts : Position(req, key).parts[i] = Value(key, req.sorts[i].prop)
BY DEF Position

LEMMA PositionsComparable ==
  ASSUME live.desc \in Descriptors, NEW req \in Requests, AllParse(req), NEW key \in Ids(req)
  PROVE  Comparable(req, Position(req, key))
<1>1. key \in Int
  BY KeysAssumption DEF Ids
<1>2. PositionParses(req, Position(req, key))
  BY DEF AllParse
<1>3. PICK at : at = Position(req, key)
  OBVIOUS
<1>4. ASSUME NEW i \in DOMAIN req.sorts PROVE Placed(req.sorts[i], at.parts[i])
  <2>1. at.parts[i] = None \/ at.parts[i] \in DOMAIN Place[TypeOf(req.sorts[i].prop)]
    BY <1>2, <1>3 DEF PositionParses, Parses
  <2>2. \A v \in DOMAIN Place[TypeOf(req.sorts[i].prop)] :
          Place[TypeOf(req.sorts[i].prop)][v] \in Int
    BY PlaceAssumption DEF TypeOf
  <2> QED BY <2>1, <2>2 DEF Placed
<1> QED BY <1>1, <1>3, <1>4, PositionIs DEF Comparable

(* The results are finitely many rows on one line.                         *)
LEMMA PositionsLinear ==
  ASSUME live.desc \in Descriptors, NEW req \in Requests, AllParse(req)
  PROVE  /\ Linear(Order(req, Positions(req)), Positions(req))
         /\ \A at \in Positions(req) : Comparable(req, at)
         /\ \A at \in Positions(req) : at.key \in Ids(req) /\ at = Position(req, at.key)
<1>1. \A at \in Positions(req) : at.key \in Ids(req) /\ at = Position(req, at.key)
  BY PositionIs DEF Positions
<1>2. \A at \in Positions(req) : Comparable(req, at)
  BY <1>1, PositionsComparable
<1>3. \A a, b \in Positions(req) :
        <<a, b>> \in Order(req, Positions(req)) <=> Ahead(req, a, b)
  BY DEF Order
<1> DEFINE P == Positions(req)
           R == Order(req, Positions(req))
<1>4. \A a \in P : <<a, a>> \notin R
  BY <1>2, <1>3, AheadOneWay
<1>5. ASSUME NEW a \in P, NEW b \in P, a # b PROVE <<a, b>> \in R \/ <<b, a>> \in R
  <2>1. a.key # b.key
    BY <1>1, <1>5
  <2> QED BY <1>2, <1>3, <2>1, AheadOneWay
<1>6. ASSUME NEW a \in P, NEW b \in P, NEW c \in P, <<a, b>> \in R, <<b, c>> \in R
      PROVE  <<a, c>> \in R
  BY <1>2, <1>3, <1>6, AheadTransitive
<1>7. Linear(R, P)
  BY <1>4, <1>5, <1>6 DEF Linear
<1> QED BY <1>1, <1>2, <1>7

LEMMA PositionsFinite ==
  ASSUME NEW req
  PROVE  /\ IsFiniteSet(Ids(req)) /\ Cardinality(Ids(req)) \in Nat
         /\ IsFiniteSet(Positions(req)) /\ Cardinality(Positions(req)) <= Cardinality(Ids(req))
<1>1. Ids(req) \in SUBSET Keys
  BY DEF Ids
<1>2. IsFiniteSet(Ids(req)) /\ Cardinality(Ids(req)) \in Nat
  BY <1>1, KeysAssumption, FS_Subset, FS_CardinalityType
<1> DEFINE f == [key \in Ids(req) |-> Position(req, key)]
<1>3. f \in Surjection(Ids(req), Positions(req))
  BY DEF Surjection, Positions
<1> HIDE DEF f
<1> QED BY <1>2, <1>3, FS_Surjection

RowsPast(req, after) == {at \in Positions(req) : Past(req, after, at)}

(* The full ranking lists the results behind the cursor.                   *)
LEMMA RankedLists ==
  ASSUME live.desc \in Descriptors, NEW req \in Requests, AllParse(req), NEW after
  PROVE  /\ Lists(Ranked(req, after), RowsPast(req, after), Order(req, Positions(req)))
         /\ Linear(Order(req, Positions(req)), RowsPast(req, after))
         /\ Len(Ranked(req, after)) <= Cardinality(Ids(req))
<1> DEFINE P == Positions(req)
           R == Order(req, Positions(req))
           A == RowsPast(req, after)
<1>1. A \in SUBSET P
  BY DEF RowsPast
<1>2. IsFiniteSet(A) /\ Cardinality(A) <= Cardinality(Ids(req))
  <2>1. IsFiniteSet(A) /\ Cardinality(A) <= Cardinality(P)
    BY <1>1, PositionsFinite, FS_Subset
  <2>2. /\ Cardinality(A) \in Nat /\ Cardinality(P) \in Nat
        /\ Cardinality(P) <= Cardinality(Ids(req)) /\ Cardinality(Ids(req)) \in Nat
    BY <2>1, PositionsFinite, FS_CardinalityType
  <2> QED BY <2>1, <2>2
<1>3. Linear(R, A)
  BY <1>1, PositionsLinear, LinearPart
<1>4. \A a, b \in A : <<a, b>> \in Order(req, A) <=> <<a, b>> \in R
  BY <1>1 DEF Order
<1>5. Ranked(req, after) = InOrder(A, Order(req, A))
  BY DEF Ranked, RowsPast
<1> HIDE DEF A, R
<1>6. Lists(InOrder(A, Order(req, A)), A, R) /\ Len(InOrder(A, Order(req, A))) = Cardinality(A)
  BY <1>2, <1>3, <1>4, InOrderListsAs
<1>7. /\ Lists(Ranked(req, after), A, R) /\ Linear(R, A)
      /\ Len(Ranked(req, after)) <= Cardinality(Ids(req))
  BY <1>2, <1>3, <1>5, <1>6
<1> QED BY <1>7 DEF A, R

LEMMA KeepIs ==
  ASSUME NEW req \in Requests, req.size > 0
  PROVE  /\ Keep(req) \in Nat /\ Keep(req) >= 1
         /\ Keep(req) = req.size + 1 \/ Keep(req) >= Cardinality(Ids(req))
<1> DEFINE c == Cardinality(Ids(req))
           n == req.size + 1
           m == Min({n, c})
<1>1. c \in Nat /\ n \in Nat /\ n >= 1
  BY RequestAssumption, PositionsFinite
<1> HIDE DEF c, n
<1>2. m \in {n, c} /\ m <= n /\ m <= c
  <2>1. {n, c} \in SUBSET Nat /\ {n, c} # {}
    BY <1>1
  <2> QED BY <2>1, MinIn
<1>3. Keep(req) = Max({1, m})
  BY DEF Keep, c, n
<1> HIDE DEF m
<1>4. Max({1, m}) = IF m >= 1 THEN m ELSE 1
  <2>1. {1, m} \in SUBSET Nat
    BY <1>1, <1>2
  <2>2. CASE m >= 1
    <3>1. m \in {1, m} /\ \A i \in {1, m} : i <= m
      BY <1>1, <1>2, <2>2
    <3> QED BY <2>1, <2>2, <3>1, MaxIs
  <2>3. CASE ~(m >= 1)
    <3>1. 1 \in {1, m} /\ \A i \in {1, m} : i <= 1
      BY <1>1, <1>2, <2>3
    <3> QED BY <2>1, <2>3, <3>1, MaxIs
  <2> QED BY <2>2, <2>3
<1> QED BY <1>1, <1>2, <1>3, <1>4 DEF c, n

LEMMA ScannedTyped ==
  ASSUME NEW req \in Requests, req.size > 0, NEW after,
         NEW top \in Seq(Positions(req)), NEW key \in Ids(req)
  PROVE  Scanned(req, after, top, key) \in Seq(Positions(req))
<1> DEFINE P == Positions(req)
           at == Position(req, key)
           D == {j \in DOMAIN top : Ahead(req, top[j], at)}
           c == Cardinality(D)
<1>1. Len(top) \in Nat /\ DOMAIN top = 1..Len(top)
  BY LenProperties
<1>2. c \in Nat /\ c <= Len(top)
  <2> DEFINE l == Len(top)
  <2>1. l \in Int /\ 1 \in Int
    BY <1>1
  <2> HIDE DEF l
  <2>2. IsFiniteSet(1..l) /\ Cardinality(1..l) = IF 1 > l THEN 0 ELSE l - 1 + 1
    BY <2>1, FS_Interval
  <2>3. D \in SUBSET (1..l)
    BY <1>1 DEF l
  <2> HIDE DEF D
  <2>4. IsFiniteSet(D) /\ Cardinality(D) <= Cardinality(1..l) /\ Cardinality(D) \in Nat
    BY <2>2, <2>3, FS_Subset, FS_CardinalityType
  <2>5. l \in Nat
    BY <1>1 DEF l
  <2>6. Cardinality(1..l) = l
    BY <2>2, <2>5
  <2> QED BY <2>4, <2>6 DEF l
<1>3. at \in P
  BY DEF Positions
<1> HIDE DEF at, D
<1>4. InsertAt(top, c + 1, at) \in Seq(P)
  <2> HIDE DEF P, c
  <2> QED BY <1>2, <1>3, InsertAtIs DEF P
<1>5. FirstOf(InsertAt(top, c + 1, at), Keep(req)) \in Seq(P)
  BY <1>4, KeepIs, FirstOfIs
<1>6. 1 + c = c + 1
  BY <1>2
<1>7. Scanned(req, after, top, key) =
        IF ~Past(req, after, at) \/ 1 + c > Keep(req) THEN top
        ELSE FirstOf(InsertAt(top, 1 + c, at), Keep(req))
  BY DEF Scanned, at, D
<1> HIDE DEF c
<1> QED BY <1>5, <1>6, <1>7

ScanStep(req, after) ==
  [p \in Seq(Positions(req)) \X Ids(req) |-> Scanned(req, after, p[1], p[2])]

LEMMA ScanFolds ==
  ASSUME NEW req \in Requests, req.size > 0, NEW after, NEW seq \in Seq(Ids(req))
  PROVE  FoldLeft(LAMBDA top, key : Scanned(req, after, top, key), <<>>, seq)
           = Folded(<<>>, ScanStep(req, after), seq)
<1> DEFINE N == Len(seq)
           A == Seq(Positions(req))
           Step == ScanStep(req, after)
           F(g) == g = [s \in SUBSET (1..N) |->
                          IF s = {} THEN <<>>
                          ELSE Scanned(req, after, g[s \ {Max(s)}], seq[Max(s)])]
<1>1. N \in Nat /\ DOMAIN seq = 1..N /\ \A i \in 1..N : seq[i] \in Ids(req)
  BY LenProperties, ElementOfSeq
<1>2. Step \in [A \X Ids(req) -> A] /\ <<>> \in A
  BY ScannedTyped DEF ScanStep
<1>3. \A a \in A, r \in Ids(req) : Step[<<a, r>>] = Scanned(req, after, a, r)
  BY DEF ScanStep
<1> HIDE DEF Step, A
<1>4. ASSUME NEW g, FoldsTo(g, <<>>, Step, seq, N) PROVE F(g)
  <2>1. \A s \in SUBSET (1..N) :
          /\ g[s] \in A
          /\ s # {} => Max(s) \in 1..N /\ s \ {Max(s)} \in SUBSET (1..N)
    BY <1>2, <1>4, FoldsToTyped
  <2>2. \A s \in SUBSET (1..N) : s # {} =>
          Step[<<g[s \ {Max(s)}], seq[Max(s)]>>] = Scanned(req, after, g[s \ {Max(s)}], seq[Max(s)])
    BY <1>1, <1>3, <2>1
  <2> HIDE DEF N
  <2> QED BY <1>4, <2>2 DEF FoldsTo
<1>5. ASSUME NEW g, F(g) PROVE FoldsTo(g, <<>>, Step, seq, N)
  <2>1. g = [s \in SUBSET (1..N) |-> g[s]] /\ g[{}] = <<>>
    BY <1>5
  <2>2. \A s \in SUBSET (1..N) :
          s # {} /\ g[s \ {Max(s)}] \in A /\ seq[Max(s)] \in Ids(req)
            => g[s] = Step[<<g[s \ {Max(s)}], seq[Max(s)]>>]
    BY <1>3, <1>5
  <2> QED BY <1>2, <2>1, <2>2, FoldsToFrom
<1> DEFINE h == CHOOSE g : F(g)
<1>6. F(h)
  <2>1. \E g : F(g)
    BY <1>1, <1>4, FoldsExist
  <2> HIDE DEF F
  <2> QED BY <2>1
<1>7. FoldLeft(LAMBDA top, key : Scanned(req, after, top, key), <<>>, seq) = h[1..N]
  BY <1>1 DEF FoldLeft, MapThenFoldSet
<1> HIDE DEF F, h
<1>8. Folded(<<>>, Step, seq) = h[1..N]
  BY <1>1, <1>5, <1>6, FoldedIs
<1> QED BY <1>7, <1>8 DEF Step

(* The rows among some keys that are behind the cursor.                    *)
Among(req, after, keys) == {at \in RowsPast(req, after) : at.key \in keys}

LEMMA ScannedHeads ==
  ASSUME live.desc \in Descriptors, NEW req \in Requests, req.size > 0, AllParse(req), NEW after,
         NEW keys \in SUBSET Ids(req), NEW key \in Ids(req), key \notin keys,
         NEW top, Heads(top, Keep(req), Among(req, after, keys), Order(req, Positions(req)))
  PROVE  Heads(Scanned(req, after, top, key), Keep(req),
               Among(req, after, keys \cup {key}), Order(req, Positions(req)))
<1> DEFINE P == Positions(req)
           R == Order(req, P)
           K == Keep(req)
           A == Among(req, after, keys)
           B == Among(req, after, keys \cup {key})
           at == Position(req, key)
           c == Cardinality({j \in DOMAIN top : Ahead(req, top[j], at)})
<1>1. at \in P /\ at.key = key /\ A \in SUBSET P
  BY PositionIs DEF Positions, Among, RowsPast
<1>2. at \notin A
  BY <1>1 DEF Among
<1>3. B = IF Past(req, after, at) THEN A \cup {at} ELSE A
  <2>1. \A x \in P : x.key = key => x = at
    BY PositionsLinear
  <2> QED BY <1>1, <2>1 DEF Among, RowsPast
<1>4. Linear(R, A \cup {at})
  BY <1>1, PositionsLinear, LinearPart
<1>5. K \in Nat /\ K >= 1
  BY KeepIs
<1>6. top \in Seq(A) /\ Len(top) \in Nat /\ Len(top) <= K /\ DOMAIN top = 1..Len(top)
  BY LenProperties DEF Heads
<1>7. \A j \in DOMAIN top : Ahead(req, top[j], at) <=> <<top[j], at>> \in R
  <2>1. \A j \in 1..Len(top) : top[j] \in A
    BY <1>6, ElementOfSeq
  <2> QED BY <1>1, <1>6, <2>1 DEF Order
<1>8. c = Cardinality({j \in DOMAIN top : <<top[j], at>> \in R})
  BY <1>7
<1>9. Scanned(req, after, top, key) =
        IF ~Past(req, after, at) \/ 1 + c > K THEN top ELSE FirstOf(InsertAt(top, 1 + c, at), K)
  BY DEF Scanned
<1> HIDE DEF P, R, K, A, B, at, c
<1>0. Heads(top, K, A, R)
  BY DEF P, R, K, A
<1>10. /\ c \in 0..Len(top)
       /\ \A j \in 1..Len(top) : IF j <= c THEN <<top[j], at>> \in R ELSE <<at, top[j]>> \in R
  BY <1>0, <1>2, <1>4, <1>8, BelongsBehind
<1>11. CASE ~Past(req, after, at)
  BY <1>0, <1>3, <1>9, <1>11 DEF P, R, K, B
<1>12. CASE Past(req, after, at) /\ 1 + c > K
  <2>1. c = Len(top) /\ Len(top) = K
    <3>1. c \in 0..Len(top) /\ 1 + c > K /\ Len(top) <= K /\ Len(top) \in Nat /\ K \in Nat
      BY <1>5, <1>6, <1>10, <1>12
    <3> QED BY <3>1
  <2>2. \A j \in 1..Len(top) : <<top[j], at>> \in R
    BY <1>6, <1>10, <2>1
  <2>3. top \in Seq(B)
    BY <1>3, <1>6, <1>12, SeqMonotonic
  <2>4. Heads(top, K, B, R)
    BY <1>0, <1>3, <1>12, <2>1, <2>2, <2>3 DEF Heads
  <2> QED BY <1>9, <1>12, <2>4 DEF P, R, K, B
<1>13. CASE Past(req, after, at) /\ ~(1 + c > K)
  <2>1. c \in Nat /\ c <= Len(top) /\ c < K /\ 1 + c = c + 1
    BY <1>5, <1>6, <1>10, <1>13
  <2>2. Heads(InsertAt(top, c + 1, at), K + 1, A \cup {at}, R)
    BY <1>0, <1>2, <1>4, <1>5, <1>10, <2>1, HeadsInsert
  <2>3. K + 1 \in Nat /\ K <= K + 1
    BY <1>5
  <2>4. Heads(FirstOf(InsertAt(top, c + 1, at), K), K, A \cup {at}, R)
    BY <1>5, <2>2, <2>3, HeadsOfHeads
  <2> QED BY <1>3, <1>9, <1>13, <2>1, <2>4 DEF P, R, K, B
<1> QED BY <1>11, <1>12, <1>13

(* The bounded scan keeps the beginning of the full ranking.               *)
LEMMA ScanTopHeads ==
  ASSUME live.desc \in Descriptors, NEW req \in Requests, req.size > 0, AllParse(req), NEW after
  PROVE  Heads(ScanTop(req, after), Keep(req), RowsPast(req, after), Order(req, Positions(req)))
<1> DEFINE I == Ids(req)
           R == Order(req, Positions(req))
           K == Keep(req)
           Step == ScanStep(req, after)
           Of(s) == {s[i] : i \in 1..Len(s)}
           Once(s) == \A i, j \in 1..Len(s) : s[i] = s[j] => i = j
           T == {s \in Seq(I) : Once(s) => Heads(Folded(<<>>, Step, s), K, Among(req, after, Of(s)), R)}
<1>0. K \in Nat
  BY KeepIs
<1>1. <<>> \in T
  <2>1. Folded(<<>>, Step, <<>>) = <<>>
    BY FoldedEmpty
  <2>2. Of(<<>>) = {} /\ <<>> \in Seq(I)
    OBVIOUS
  <2>3. Among(req, after, {}) = {}
    BY DEF Among
  <2>4. Heads(<<>>, K, {}, R)
    <3> HIDE DEF K, R
    <3> QED BY <1>0 DEF Heads, Ascends
  <2> HIDE DEF Of, Step, K, R
  <2> QED BY <2>1, <2>2, <2>3, <2>4
<1>2. ASSUME NEW s \in T, NEW e \in I PROVE Append(s, e) \in T
  <2> DEFINE u == Append(s, e)
  <2>1. /\ s \in Seq(I) /\ Len(s) \in Nat /\ u \in Seq(I) /\ Len(u) = Len(s) + 1
        /\ u[Len(s) + 1] = e /\ \A i \in 1..Len(s) : u[i] = s[i]
    BY LenProperties, AppendProperties
  <2>2. SUFFICES ASSUME Once(u) PROVE Heads(Folded(<<>>, Step, u), K, Among(req, after, Of(u)), R)
    BY <2>1
  <2>3. Once(s) /\ e \notin Of(s) /\ Of(u) = Of(s) \cup {e} /\ Of(s) \in SUBSET I
    <3>1. \A i \in 1..Len(s) : i \in 1..Len(u) /\ s[i] \in I /\ i # Len(s) + 1
      BY <2>1, ElementOfSeq
    <3>2. Len(s) + 1 \in 1..Len(u) /\ \A i \in 1..Len(u) : i \in 1..Len(s) \/ i = Len(s) + 1
      BY <2>1
    <3> HIDE DEF u
    <3> QED BY <2>1, <2>2, <3>1, <3>2
  <2>4. Heads(Folded(<<>>, Step, s), K, Among(req, after, Of(s)), R)
    BY <2>3
  <2>5. Folded(<<>>, Step, u) = Step[<<Folded(<<>>, Step, s), e>>]
    BY <2>1, FoldedAppend
  <2>6. Folded(<<>>, Step, s) \in Seq(Positions(req))
    <3>1. Step \in [Seq(Positions(req)) \X I -> Seq(Positions(req))] /\ <<>> \in Seq(Positions(req))
      BY ScannedTyped DEF ScanStep
    <3> HIDE DEF Step
    <3> QED BY <2>1, <3>1, FoldedTyped
  <2>7. Step[<<Folded(<<>>, Step, s), e>>] = Scanned(req, after, Folded(<<>>, Step, s), e)
    <3> DEFINE f == Folded(<<>>, Step, s)
    <3>1. f \in Seq(Positions(req)) /\ e \in Ids(req)
      BY <2>6
    <3> HIDE DEF f
    <3>2. Step[<<f, e>>] = Scanned(req, after, f, e)
      BY <3>1 DEF ScanStep
    <3> QED BY <3>2 DEF f
  <2> HIDE DEF Step, Of, u
  <2>8. Heads(Scanned(req, after, Folded(<<>>, Step, s), e), K, Among(req, after, Of(s) \cup {e}), R)
    BY <2>3, <2>4, ScannedHeads
  <2> QED BY <2>3, <2>5, <2>7, <2>8
<1> HIDE DEF T
<1>3. T = Seq(I)
  <2>1. T \subseteq Seq(I) BY DEF T
  <2> QED BY <1>1, <1>2, <2>1, SeqSetInduction
<1>4. PICK q : q = SetToSeq(I)
  OBVIOUS
<1>5. q \in Seq(I) /\ Once(q) /\ Of(q) = I
  <2>1. /\ q \in Seq(I)
        /\ \A i, j \in DOMAIN q : q[i] = q[j] => i = j
        /\ \A x \in I : \E i \in DOMAIN q : q[i] = x
    BY <1>4, PositionsFinite, SetToSeqLists
  <2>2. DOMAIN q = 1..Len(q) /\ \A i \in 1..Len(q) : q[i] \in I
    BY <2>1, LenProperties, ElementOfSeq
  <2> QED BY <2>1, <2>2
<1>6. Heads(Folded(<<>>, Step, q), K, Among(req, after, I), R)
  <2> HIDE DEF Of, Once, Step
  <2> QED BY <1>3, <1>5 DEF T
<1>7. ScanTop(req, after) = Folded(<<>>, Step, q)
  <2>1. ScanTop(req, after) = FoldLeft(LAMBDA top, key : Scanned(req, after, top, key), <<>>, q)
    BY <1>4 DEF ScanTop
  <2>2. FoldLeft(LAMBDA top, key : Scanned(req, after, top, key), <<>>, q) = Folded(<<>>, Step, q)
    BY <1>5, ScanFolds
  <2> QED BY <2>1, <2>2
<1>8. Among(req, after, I) = RowsPast(req, after)
  BY PositionsLinear DEF Among, RowsPast
<1> QED BY <1>6, <1>7, <1>8

(* One sort key, whose stored values all have a place.                     *)
OneKey(req) ==
  /\ req \in Requests /\ HasTop(req) /\ Walks(req) /\ live.desc \in Descriptors

(* A cursor of the first page, or one that names a row.                    *)
CursorAt(req, after) == after = <<>> \/ \E p \in Positions(req) : after = <<p>>

LEMMA SamePlace ==
  ASSUME NEW sort, NEW v, NEW w, NEW u, v # None, w # None, u # None,
         Placed(sort, v), Placed(sort, w), Placed(sort, u)
  PROVE  LET place == Place[TypeOf(sort.prop)] IN
         /\ place[v] = place[w] => /\ Compare(sort, v, u) = Compare(sort, w, u)
                                   /\ Compare(sort, u, v) = Compare(sort, u, w)
                                   /\ Compare(sort, v, w) = 0
         /\ place[v] # place[w] => Compare(sort, v, w) < 0 \/ Compare(sort, w, v) < 0
<1> DEFINE place == Place[TypeOf(sort.prop)]
           x == place[v]
           y == place[w]
           z == place[u]
           D(p, q) == IF sort.desc THEN q - p ELSE p - q
           S(p, q) == IF D(p, q) < 0 THEN -1 ELSE IF D(p, q) > 0 THEN 1 ELSE 0
<1>1. x \in Int /\ y \in Int /\ z \in Int
  BY DEF Placed
<1>2. /\ Compare(sort, v, u) = S(x, z) /\ Compare(sort, u, v) = S(z, x)
      /\ Compare(sort, w, u) = S(y, z) /\ Compare(sort, u, w) = S(z, y)
      /\ Compare(sort, v, w) = S(x, y) /\ Compare(sort, w, v) = S(y, x)
  BY DEF Compare
<1> HIDE DEF x, y, z
<1>3. /\ x = y => S(x, z) = S(y, z) /\ S(z, x) = S(z, y) /\ S(x, y) = 0
      /\ x # y => S(x, y) < 0 \/ S(y, x) < 0
  <2>1. CASE sort.desc
    BY <1>1, <2>1
  <2>2. CASE ~sort.desc
    BY <1>1, <2>2
  <2> QED BY <2>1, <2>2
<1> QED BY <1>2, <1>3 DEF x, y

LEMMA OneKeyIs ==
  ASSUME NEW req, OneKey(req)
  PROVE  LET sort == req.sorts[1] IN
         /\ req.size > 0 /\ DOMAIN req.sorts = {1} /\ AllParse(req)
         /\ \A v \in Indexed(sort.prop) : v # None /\ Placed(sort, v)
         /\ \A key \in Ids(req) :
              /\ Position(req, key).parts[1] = live.rows[key][sort.prop]
              /\ live.rows[key][sort.prop] \in Indexed(sort.prop) \cup {None}
<1> DEFINE sort == req.sorts[1]
<1>1. DOMAIN req.sorts = {1} /\ req.size > 0
  BY RequestAssumption DEF OneKey, HasTop
<1>2. ASSUME NEW key \in Ids(req)
      PROVE  /\ Position(req, key).parts[1] = live.rows[key][sort.prop]
             /\ live.rows[key][sort.prop] \in Indexed(sort.prop) \cup {None}
  <2>1. Position(req, key).parts[1] = Value(key, sort.prop)
    BY <1>1, PositionIs
  <2>2. key \in Keys /\ live.rows[key] # NoRow
    BY DEF Ids
  <2>3. sort.prop \notin live.desc.dropped
    BY DEF OneKey, Walks
  <2> QED BY <2>1, <2>2, <2>3 DEF Value, Indexed
<1>3. ASSUME NEW v \in Indexed(sort.prop) PROVE v # None /\ Placed(sort, v)
  <2>1. v # None /\ Parses(sort.prop, v)
    BY DEF OneKey, Walks, Indexed
  <2>2. \A x \in DOMAIN Place[TypeOf(sort.prop)] : Place[TypeOf(sort.prop)][x] \in Int
    BY <1>1, PlaceAssumption DEF TypeOf, OneKey
  <2> QED BY <2>1, <2>2 DEF Parses, Placed
<1>4. AllParse(req)
  <2> SUFFICES ASSUME NEW key \in Ids(req) PROVE PositionParses(req, Position(req, key))
    BY DEF AllParse
  <2>1. Parses(sort.prop, live.rows[key][sort.prop])
    BY <1>2 DEF OneKey, Walks, Parses
  <2> QED BY <1>1, <1>2, <2>1 DEF PositionParses
<1> QED BY <1>1, <1>2, <1>3, <1>4

(* With one sort key rows go by its value, and then by key.                *)
LEMMA AheadOne ==
  ASSUME NEW req, OneKey(req), NEW a \in Positions(req), NEW b \in Positions(req)
  PROVE  LET c == Compare(req.sorts[1], a.parts[1], b.parts[1]) IN
         /\ Ahead(req, a, b) <=> c < 0 \/ (c = 0 /\ a.key < b.key)
         /\ <<a, b>> \in Order(req, Positions(req)) <=> Ahead(req, a, b)
         /\ Placed(req.sorts[1], a.parts[1]) /\ Placed(req.sorts[1], b.parts[1])
<1>1. DOMAIN req.sorts = {1} /\ AllParse(req) /\ req \in Requests /\ live.desc \in Descriptors
  BY OneKeyIs DEF OneKey
<1>2. Comparable(req, a) /\ Comparable(req, b)
  BY <1>1, PositionsLinear
<1> DEFINE C(i) == Compare(req.sorts[i], a.parts[i], b.parts[i])
<1>3. Ahead(req, a, b) <=>
           \/ \E m \in DOMAIN req.sorts : C(m) < 0 /\ \A i \in DOMAIN req.sorts : i < m => C(i) = 0
           \/ (\A i \in DOMAIN req.sorts : C(i) = 0) /\ a.key < b.key
  BY <1>1, <1>2, AheadIs
<1>4. <<a, b>> \in Order(req, Positions(req)) <=> Ahead(req, a, b)
  BY DEF Order
<1>5. Placed(req.sorts[1], a.parts[1]) /\ Placed(req.sorts[1], b.parts[1])
  BY <1>1, <1>2 DEF Comparable
<1>6. Ahead(req, a, b) <=> C(1) < 0 \/ (C(1) = 0 /\ a.key < b.key)
  <2> HIDE DEF C
  <2> QED BY <1>1, <1>3
<1> QED BY <1>4, <1>5, <1>6

(* The comparison of a run with the cursor is that of its rows.            *)
LEMMA RunPastIs ==
  ASSUME NEW req, OneKey(req), NEW after, CursorAt(req, after), NEW key \in Ids(req),
         live.rows[key][req.sorts[1].prop] # None
  PROVE  RunPast(req.sorts[1], after, live.rows[key][req.sorts[1].prop], key)
           <=> Past(req, after, Position(req, key))
<1> DEFINE sort == req.sorts[1]
           v == live.rows[key][sort.prop]
           at == Position(req, key)
<1>1. CASE after = <<>>
  BY <1>1 DEF RunPast, Past
<1>2. ASSUME NEW p \in Positions(req), after = <<p>>
      PROVE  RunPast(sort, after, v, key) <=> Past(req, after, at)
  <2>1. DOMAIN after = {1} /\ after[1] = p
    BY <1>2
  <2>2. at \in Positions(req) /\ at.key = key /\ at.parts[1] = v
    BY OneKeyIs, PositionIs DEF Positions
  <2>3. p.key \in Int /\ key \in Int
    BY PositionsLinear, OneKeyIs, KeysAssumption DEF OneKey, Ids
  <2> DEFINE q == p.parts[1]
  <2>4. /\ Ahead(req, p, at) <=> Compare(sort, q, v) < 0 \/ (Compare(sort, q, v) = 0 /\ p.key < key)
        /\ Placed(sort, q) /\ Placed(sort, v)
    BY <2>2, AheadOne
  <2>5. /\ Compare(sort, v, q) \in {-1, 0, 1} /\ Compare(sort, q, v) \in {-1, 0, 1}
        /\ Compare(sort, q, v) < 0 <=> Compare(sort, v, q) > 0
        /\ Compare(sort, q, v) = 0 <=> Compare(sort, v, q) = 0
    BY <2>4, CompareIs
  <2>6. RunPast(sort, after, v, key) <=>
          q # None /\ (Compare(sort, v, q) > 0 \/ (Compare(sort, v, q) = 0 /\ key > p.key))
    BY <2>1 DEF RunPast
  <2>7. Past(req, after, at) <=> Ahead(req, p, at)
    BY <2>1 DEF Past
  <2>8. q = None => Compare(sort, q, v) = 1
    BY DEF Compare
  <2>9. key > p.key <=> p.key < key
    BY <2>3
  <2> HIDE DEF q, v, at, sort
  <2>10. CASE q = None
    BY <2>4, <2>6, <2>7, <2>8, <2>10
  <2>11. CASE q # None
    BY <2>4, <2>5, <2>6, <2>7, <2>9, <2>11
  <2> QED BY <2>10, <2>11
<1> QED BY <1>1, <1>2 DEF CursorAt

(* The runs are the classes of values with one place, in order.            *)
Classes(sort) ==
  LET place == Place[TypeOf(sort.prop)] IN
  {{v \in Indexed(sort.prop) : place[v] = place[u]} : u \in Indexed(sort.prop)}

ClassOrder(sort) ==
  {pair \in Classes(sort) \X Classes(sort) :
     \A v \in pair[1], u \in pair[2] : Compare(sort, v, u) < 0}

LEMMA RunsList ==
  ASSUME NEW req, OneKey(req)
  PROVE  LET sort == req.sorts[1] IN
         /\ Lists(Runs(sort), Classes(sort), ClassOrder(sort))
         /\ \A run \in Classes(sort) : \A v, u \in run : Compare(sort, v, u) = 0
         /\ UNION Classes(sort) = Indexed(sort.prop)
<1> DEFINE sort == req.sorts[1]
           place == Place[TypeOf(sort.prop)]
           V == Indexed(sort.prop)
           class(u) == {v \in V : place[v] = place[u]}
           Cl == Classes(sort)
           R == ClassOrder(sort)
<1>1. \A v \in V : v # None /\ Placed(sort, v)
  BY OneKeyIs
<1>2. Cl = {class(u) : u \in V}
  BY DEF Classes
<1>3. /\ \A run \in Cl : \E u \in V : run = class(u) /\ u \in run
      /\ \A u \in V : class(u) \in Cl /\ u \in class(u) /\ class(u) \in SUBSET V
  BY <1>2
<1>4. \A v, w, u \in V :
        /\ place[v] = place[w] => /\ Compare(sort, v, u) = Compare(sort, w, u)
                                  /\ Compare(sort, u, v) = Compare(sort, u, w)
                                  /\ Compare(sort, v, w) = 0
        /\ place[v] # place[w] => Compare(sort, v, w) < 0 \/ Compare(sort, w, v) < 0
  BY <1>1, SamePlace
<1>5. \A u, w \in V : <<class(u), class(w)>> \in R <=> Compare(sort, u, w) < 0
  <2> TAKE u, w \in V
  <2>1. <<class(u), class(w)>> \in R <=> \A x \in class(u), y \in class(w) : Compare(sort, x, y) < 0
    BY <1>3 DEF ClassOrder
  <2>2. ASSUME NEW x \in class(u), NEW y \in class(w)
        PROVE  Compare(sort, x, y) = Compare(sort, u, w)
    <3>1. x \in V /\ y \in V /\ place[x] = place[u] /\ place[y] = place[w]
      OBVIOUS
    <3>2. Compare(sort, x, y) = Compare(sort, u, y)
      BY <1>4, <3>1
    <3>3. Compare(sort, u, y) = Compare(sort, u, w)
      BY <1>4, <3>1
    <3> QED BY <3>2, <3>3
  <2>3. u \in class(u) /\ w \in class(w)
    OBVIOUS
  <2> HIDE DEF class
  <2> QED BY <2>1, <2>2, <2>3
<1>6. Linear(R, Cl)
  <2>1. ASSUME NEW a \in Cl PROVE <<a, a>> \notin R
    <3>1. PICK u \in V : a = class(u)
      BY <1>3
    <3>2. Compare(sort, u, u) = 0
      BY <1>1, CompareIs
    <3>3. <<class(u), class(u)>> \in R <=> Compare(sort, u, u) < 0
      BY <1>5
    <3> HIDE DEF class, R
    <3> QED BY <3>1, <3>2, <3>3
  <2>2. ASSUME NEW a \in Cl, NEW b \in Cl, a # b PROVE <<a, b>> \in R \/ <<b, a>> \in R
    <3>1. PICK u \in V : a = class(u)
      BY <1>3
    <3>2. PICK w \in V : b = class(w)
      BY <1>3
    <3>3. place[u] # place[w]
      BY <2>2, <3>1, <3>2
    <3>4. Compare(sort, u, w) < 0 \/ Compare(sort, w, u) < 0
      BY <1>4, <3>3
    <3> HIDE DEF class, R
    <3> QED BY <1>5, <3>1, <3>2, <3>4
  <2>3. ASSUME NEW a \in Cl, NEW b \in Cl, NEW c \in Cl, <<a, b>> \in R, <<b, c>> \in R
        PROVE  <<a, c>> \in R
    <3>1. PICK u \in V : a = class(u)
      BY <1>3
    <3>2. PICK w \in V : b = class(w)
      BY <1>3
    <3>3. PICK x \in V : c = class(x)
      BY <1>3
    <3>4. Compare(sort, u, w) < 0 /\ Compare(sort, w, x) < 0
      <4> HIDE DEF class, R
      <4> QED BY <1>5, <2>3, <3>1, <3>2, <3>3
    <3>5. Placed(sort, u) /\ Placed(sort, w) /\ Placed(sort, x)
      BY <1>1
    <3>6. Compare(sort, u, w) \in {-1, 0, 1} /\ Compare(sort, w, x) \in {-1, 0, 1}
      BY <3>5, CompareIs
    <3>7. Compare(sort, u, x) < 0
      <4>1. Compare(sort, u, w) <= 0 /\ Compare(sort, w, x) <= 0
        BY <3>4, <3>6
      <4> QED BY <3>4, <3>5, <4>1, CompareTransitive
    <3> HIDE DEF class, R
    <3> QED BY <1>5, <3>1, <3>3, <3>7
  <2> HIDE DEF R, Cl
  <2> QED BY <2>1, <2>2, <2>3 DEF Linear
<1>7. IsFiniteSet(Cl)
  <2> DEFINE X == {k \in Keys : live.rows[k] # NoRow /\ live.rows[k][sort.prop] # None}
             f == [k \in X |-> live.rows[k][sort.prop]]
             g == [v \in V |-> class(v)]
  <2>1. f \in Surjection(X, V)
    BY DEF Surjection, Indexed
  <2>2. g \in Surjection(V, Cl)
    BY <1>2 DEF Surjection
  <2>3. IsFiniteSet(X)
    <3>1. X \in SUBSET Keys
      OBVIOUS
    <3> HIDE DEF X
    <3> QED BY <3>1, KeysAssumption, FS_Subset
  <2> HIDE DEF f, g, X, V, Cl
  <2> QED BY <2>1, <2>2, <2>3, FS_Surjection
<1>8. Runs(sort) = InOrder(Cl, R)
  BY DEF Runs, Classes, ClassOrder
<1>9. Lists(Runs(sort), Cl, R)
  <2> HIDE DEF Cl, R
  <2> QED BY <1>6, <1>7, <1>8, InOrderLists
<1>10. ASSUME NEW run \in Cl, NEW v \in run, NEW u \in run PROVE Compare(sort, v, u) = 0
  BY <1>3, <1>4
<1>11. UNION Cl = V
  BY <1>3
<1> QED BY <1>9, <1>10, <1>11

KeyOrder(rows) == {pair \in rows \X rows : pair[1].key < pair[2].key}

(* Some of the results, in the order of their keys.                        *)
LEMMA ByKeyLists ==
  ASSUME live.desc \in Descriptors, NEW req \in Requests, AllParse(req), NEW keys \in SUBSET Ids(req)
  PROVE  LET rows == {Position(req, key) : key \in keys} IN
         /\ rows \in SUBSET Positions(req)
         /\ Lists(ByKey(req, keys), rows, KeyOrder(rows))
<1> DEFINE rows == {Position(req, key) : key \in keys}
           R == KeyOrder(rows)
<1>1. rows \in SUBSET Positions(req)
  BY DEF Positions
<1>2. \A a \in rows : a.key \in Int /\ a = Position(req, a.key)
  BY <1>1, PositionsLinear, KeysAssumption DEF Ids
<1>3. Linear(R, rows)
  <2> HIDE DEF rows
  <2>1. \A a, b \in rows : <<a, b>> \in R <=> a.key < b.key
    BY DEF KeyOrder
  <2>2. \A a, b \in rows : a # b => a.key # b.key
    BY <1>2
  <2> HIDE DEF R
  <2>3. \A a \in rows : <<a, a>> \notin R
    BY <1>2, <2>1
  <2>4. \A a, b \in rows : a # b => <<a, b>> \in R \/ <<b, a>> \in R
    BY <1>2, <2>1, <2>2
  <2>5. \A a, b, c \in rows : <<a, b>> \in R /\ <<b, c>> \in R => <<a, c>> \in R
    BY <1>2, <2>1
  <2> QED BY <2>3, <2>4, <2>5 DEF Linear
<1>4. IsFiniteSet(rows)
  BY <1>1, PositionsFinite, FS_Subset
<1>5. ByKey(req, keys) = InOrder(rows, R)
  BY DEF ByKey, KeyOrder
<1> HIDE DEF rows, R
<1>6. Lists(ByKey(req, keys), rows, R)
  BY <1>3, <1>4, <1>5, InOrderLists
<1> QED BY <1>1, <1>6 DEF rows, R

(* Rows that tie go by key in the full ranking too.                        *)
LEMMA TiesByKey ==
  ASSUME NEW req, OneKey(req), NEW keys \in SUBSET Ids(req),
         \A a, b \in {Position(req, key) : key \in keys} :
           Compare(req.sorts[1], a.parts[1], b.parts[1]) = 0
  PROVE  Lists(ByKey(req, keys), {Position(req, key) : key \in keys}, Order(req, Positions(req)))
<1> DEFINE rows == {Position(req, key) : key \in keys}
<1>1. live.desc \in Descriptors /\ req \in Requests /\ AllParse(req)
  BY OneKeyIs DEF OneKey
<1>2. rows \in SUBSET Positions(req) /\ Lists(ByKey(req, keys), rows, KeyOrder(rows))
  BY <1>1, ByKeyLists
<1> HIDE DEF rows
<1>3. ASSUME NEW a \in rows, NEW b \in rows
      PROVE  <<a, b>> \in Order(req, Positions(req)) <=> <<a, b>> \in KeyOrder(rows)
  <2>1. a \in Positions(req) /\ b \in Positions(req)
    BY <1>2
  <2>2. Compare(req.sorts[1], a.parts[1], b.parts[1]) = 0
    BY DEF rows
  <2>3. <<a, b>> \in KeyOrder(rows) <=> a.key < b.key
    BY DEF KeyOrder
  <2>4. <<a, b>> \in Order(req, Positions(req)) <=> a.key < b.key
    BY <2>1, <2>2, AheadOne
  <2> QED BY <2>3, <2>4
<1>4. Lists(ByKey(req, keys), rows, Order(req, Positions(req)))
  BY <1>2, <1>3, ListsSame
<1> QED BY <1>4 DEF rows

(* The rows of a run that are behind the cursor.                           *)
RunKeys(req, after, values) ==
  {key \in Ids(req) : live.rows[key][req.sorts[1].prop] \in values
     /\ RunPast(req.sorts[1], after, live.rows[key][req.sorts[1].prop], key)}

WithValues(req, after, values) == {at \in RowsPast(req, after) : at.parts[1] \in values}

LEMMA RunKeysAre ==
  ASSUME NEW req, OneKey(req), NEW after, CursorAt(req, after),
         NEW values \in SUBSET Indexed(req.sorts[1].prop)
  PROVE  {Position(req, key) : key \in RunKeys(req, after, values)} = WithValues(req, after, values)
<1> DEFINE prop == req.sorts[1].prop
           rows == {Position(req, key) : key \in RunKeys(req, after, values)}
<1>1. ASSUME NEW key \in Ids(req), live.rows[key][prop] \in values
      PROVE  RunPast(req.sorts[1], after, live.rows[key][prop], key)
               <=> Past(req, after, Position(req, key))
  <2>1. live.rows[key][prop] # None
    BY <1>1, OneKeyIs
  <2> QED BY <2>1, RunPastIs
<1>2. \A key \in Ids(req) : Position(req, key).parts[1] = live.rows[key][prop]
  BY OneKeyIs
<1>3. ASSUME NEW at \in rows PROVE at \in WithValues(req, after, values)
  <2>1. PICK key \in RunKeys(req, after, values) : at = Position(req, key)
    OBVIOUS
  <2>2. key \in Ids(req) /\ live.rows[key][prop] \in values /\ Past(req, after, at)
    BY <1>1, <2>1 DEF RunKeys
  <2> QED BY <1>2, <2>1, <2>2 DEF WithValues, RowsPast, Positions
<1>4. ASSUME NEW at \in WithValues(req, after, values) PROVE at \in rows
  <2>1. PICK key \in Ids(req) : at = Position(req, key)
    BY DEF WithValues, RowsPast, Positions
  <2>2. live.rows[key][prop] \in values /\ Past(req, after, at)
    BY <1>2, <2>1 DEF WithValues, RowsPast
  <2>3. key \in RunKeys(req, after, values)
    BY <1>1, <2>1, <2>2 DEF RunKeys
  <2> QED BY <2>1, <2>3
<1> QED BY <1>3, <1>4

LEMMA WalkedTyped ==
  ASSUME NEW req, OneKey(req), NEW after, NEW top \in Seq(Positions(req)), NEW values
  PROVE  Walked(req, after, top, values) \in Seq(Positions(req))
<1>1. live.desc \in Descriptors /\ req \in Requests /\ AllParse(req) /\ Keep(req) \in Nat
  BY OneKeyIs, KeepIs DEF OneKey
<1>2. PICK keys : keys = RunKeys(req, after, values)
  OBVIOUS
<1>3. keys \in SUBSET Ids(req)
  BY <1>2 DEF RunKeys
<1>4. ByKey(req, keys) \in Seq(Positions(req))
  <2>1. PICK rows : rows = {Position(req, key) : key \in keys}
    OBVIOUS
  <2>2. rows \subseteq Positions(req) /\ ByKey(req, keys) \in Seq(rows)
    BY <1>1, <1>3, <2>1, ByKeyLists DEF Lists
  <2> QED BY <2>2, SeqMonotonic
<1>5. top \o ByKey(req, keys) \in Seq(Positions(req))
  BY <1>4, ConcatProperties
<1>6. Walked(req, after, top, values) = FirstOf(top \o ByKey(req, keys), Keep(req))
  BY <1>2 DEF Walked, RunKeys
<1>7. PICK all : all = top \o ByKey(req, keys)
  OBVIOUS
<1>8. all \in Seq(Positions(req))
  BY <1>5, <1>7
<1>9. FirstOf(all, Keep(req)) \in Seq(Positions(req))
  BY <1>1, <1>8, FirstOfIs
<1> QED BY <1>6, <1>7, <1>9

WalkStep(req, after) ==
  [p \in Seq(Positions(req)) \X Classes(req.sorts[1]) |-> Walked(req, after, p[1], p[2])]

LEMMA WalkFolds ==
  ASSUME NEW req, OneKey(req), NEW after, NEW seq \in Seq(Classes(req.sorts[1]))
  PROVE  FoldLeft(LAMBDA top, values : Walked(req, after, top, values), <<>>, seq)
           = Folded(<<>>, WalkStep(req, after), seq)
<1> DEFINE N == Len(seq)
           A == Seq(Positions(req))
           Cl == Classes(req.sorts[1])
           Step == WalkStep(req, after)
           F(g) == g = [s \in SUBSET (1..N) |->
                          IF s = {} THEN <<>>
                          ELSE Walked(req, after, g[s \ {Max(s)}], seq[Max(s)])]
<1>1. N \in Nat /\ DOMAIN seq = 1..N /\ \A i \in 1..N : seq[i] \in Cl
  BY LenProperties, ElementOfSeq
<1>2. Step \in [A \X Cl -> A] /\ <<>> \in A
  BY WalkedTyped DEF WalkStep
<1>3. \A a \in A, r \in Cl : Step[<<a, r>>] = Walked(req, after, a, r)
  BY DEF WalkStep
<1> HIDE DEF Step, A, Cl
<1>0. seq \in Seq(Cl)
  BY DEF Cl
<1>4. ASSUME NEW g, FoldsTo(g, <<>>, Step, seq, N) PROVE F(g)
  <2>1. \A s \in SUBSET (1..N) :
          /\ g[s] \in A
          /\ s # {} => Max(s) \in 1..N /\ s \ {Max(s)} \in SUBSET (1..N)
    BY <1>0, <1>2, <1>4, FoldsToTyped
  <2>2. \A s \in SUBSET (1..N) : s # {} =>
          Step[<<g[s \ {Max(s)}], seq[Max(s)]>>] = Walked(req, after, g[s \ {Max(s)}], seq[Max(s)])
    BY <1>1, <1>3, <2>1
  <2> HIDE DEF N
  <2> QED BY <1>4, <2>2 DEF FoldsTo
<1>5. ASSUME NEW g, F(g) PROVE FoldsTo(g, <<>>, Step, seq, N)
  <2>1. g = [s \in SUBSET (1..N) |-> g[s]] /\ g[{}] = <<>>
    BY <1>5
  <2>2. \A s \in SUBSET (1..N) :
          s # {} /\ g[s \ {Max(s)}] \in A /\ seq[Max(s)] \in Cl
            => g[s] = Step[<<g[s \ {Max(s)}], seq[Max(s)]>>]
    BY <1>3, <1>5
  <2> QED BY <1>0, <1>2, <2>1, <2>2, FoldsToFrom
<1> DEFINE h == CHOOSE g : F(g)
<1>6. F(h)
  <2>1. \E g : F(g)
    BY <1>1, <1>4, FoldsExist
  <2> HIDE DEF F
  <2> QED BY <2>1
<1>7. FoldLeft(LAMBDA top, values : Walked(req, after, top, values), <<>>, seq) = h[1..N]
  BY <1>1 DEF FoldLeft, MapThenFoldSet
<1> HIDE DEF F, h
<1>8. Folded(<<>>, Step, seq) = h[1..N]
  BY <1>1, <1>5, <1>6, FoldedIs
<1> QED BY <1>7, <1>8 DEF Step

(* A run that comes behind the values that were walked.                    *)
LEMMA WalkedHeads ==
  ASSUME NEW req, OneKey(req), NEW after, CursorAt(req, after),
         NEW values \in SUBSET Indexed(req.sorts[1].prop), NEW run \in Classes(req.sorts[1]),
         \A v \in values, u \in run : Compare(req.sorts[1], v, u) < 0,
         NEW top, Heads(top, Keep(req), WithValues(req, after, values), Order(req, Positions(req)))
  PROVE  Heads(Walked(req, after, top, run), Keep(req),
               WithValues(req, after, values \cup run), Order(req, Positions(req)))
<1> DEFINE sort == req.sorts[1]
           R == Order(req, Positions(req))
           A == WithValues(req, after, values)
           B == WithValues(req, after, run)
<1>0. live.desc \in Descriptors /\ req \in Requests /\ AllParse(req) /\ Keep(req) \in Nat
  BY OneKeyIs, KeepIs DEF OneKey
<1>1. PICK keys : keys = RunKeys(req, after, run)
  OBVIOUS
<1>2. keys \in SUBSET Ids(req)
  BY <1>1 DEF RunKeys
<1>3. run \in SUBSET Indexed(sort.prop) /\ \A v, u \in run : Compare(sort, v, u) = 0
  BY RunsList
<1>4. {Position(req, key) : key \in keys} = B
  BY <1>1, <1>3, RunKeysAre
<1>5. \A a, b \in B : Compare(sort, a.parts[1], b.parts[1]) = 0
  BY <1>3 DEF WithValues
<1>6. Lists(ByKey(req, keys), B, R)
  <2>1. \A a, b \in {Position(req, key) : key \in keys} : Compare(sort, a.parts[1], b.parts[1]) = 0
    BY <1>4, <1>5
  <2>2. Lists(ByKey(req, keys), {Position(req, key) : key \in keys}, R)
    BY <1>2, <2>1, TiesByKey
  <2> QED BY <1>4, <2>2
<1>7. \A a \in A, b \in B : <<a, b>> \in R
  <2> TAKE a \in A, b \in B
  <2>1. a \in Positions(req) /\ b \in Positions(req) /\ a.parts[1] \in values /\ b.parts[1] \in run
    BY DEF WithValues, RowsPast
  <2>2. Compare(sort, a.parts[1], b.parts[1]) < 0
    BY <2>1
  <2> QED BY <2>1, <2>2, AheadOne
<1>8. WithValues(req, after, values \cup run) = A \cup B
  BY DEF WithValues
<1>9. Walked(req, after, top, run) = FirstOf(top \o ByKey(req, keys), Keep(req))
  BY <1>1 DEF Walked, RunKeys
<1>10. Heads(top, Keep(req), A, R)
  OBVIOUS
<1> HIDE DEF A, B, R
<1>11. Heads(FirstOf(top \o ByKey(req, keys), Keep(req)), Keep(req), A \cup B, R)
  BY <1>0, <1>6, <1>7, <1>10, HeadsConcat
<1> QED BY <1>8, <1>9, <1>11 DEF A, B, R

(* The runs, walked in order, leave the beginning of the rows that have a  *)
(* value.                                                                  *)
LEMMA WalkRunsHeads ==
  ASSUME NEW req, OneKey(req), NEW after, CursorAt(req, after)
  PROVE  LET sort == req.sorts[1] IN
         Heads(Folded(<<>>, WalkStep(req, after), Runs(sort)), Keep(req),
               WithValues(req, after, Indexed(sort.prop)), Order(req, Positions(req)))
<1> DEFINE sort == req.sorts[1]
           C == Classes(sort)
           R == Order(req, Positions(req))
           K == Keep(req)
           Step == WalkStep(req, after)
           Of(s) == UNION {s[i] : i \in 1..Len(s)}
           T == {s \in Seq(C) : Ascends(s, ClassOrder(sort)) =>
                   Heads(Folded(<<>>, Step, s), K, WithValues(req, after, Of(s)), R)}
<1>0. K \in Nat
  BY OneKeyIs, KeepIs DEF OneKey
<1>1. <<>> \in T
  <2>1. Folded(<<>>, Step, <<>>) = <<>>
    BY FoldedEmpty
  <2>2. Of(<<>>) = {} /\ <<>> \in Seq(C)
    OBVIOUS
  <2>3. WithValues(req, after, {}) = {}
    BY DEF WithValues
  <2>4. Heads(<<>>, K, {}, R)
    <3> HIDE DEF K, R
    <3> QED BY <1>0 DEF Heads, Ascends
  <2> HIDE DEF Of, Step, K, R, C
  <2> QED BY <2>1, <2>2, <2>3, <2>4
<1>2. ASSUME NEW s \in T, NEW e \in C PROVE Append(s, e) \in T
  <2> DEFINE u == Append(s, e)
  <2>1. /\ s \in Seq(C) /\ Len(s) \in Nat /\ u \in Seq(C) /\ Len(u) = Len(s) + 1
        /\ u[Len(s) + 1] = e /\ \A i \in 1..Len(s) : u[i] = s[i] /\ s[i] \in C
    BY LenProperties, AppendProperties, ElementOfSeq
  <2> HIDE DEF u, C
  <2>2. SUFFICES ASSUME Ascends(u, ClassOrder(sort))
                 PROVE  Heads(Folded(<<>>, Step, u), K, WithValues(req, after, Of(u)), R)
    BY <2>1 DEF u
  <2>3. \A i \in 1..Len(s) : i \in 1..Len(u) /\ i < Len(s) + 1
    BY <2>1
  <2>4. Len(s) + 1 \in 1..Len(u) /\ \A i \in 1..Len(u) : i \in 1..Len(s) \/ i = Len(s) + 1
    BY <2>1
  <2>5. Ascends(s, ClassOrder(sort))
    BY <2>1, <2>2, <2>3 DEF Ascends
  <2>6. Of(u) = Of(s) \cup e
    <3>1. \A x \in Of(u) : x \in Of(s) \/ x \in e
      BY <2>1, <2>4
    <3>2. \A x \in Of(s) : x \in Of(u)
      BY <2>1, <2>3
    <3>3. \A x \in e : x \in Of(u)
      BY <2>1, <2>4
    <3> HIDE DEF Of
    <3> QED BY <3>1, <3>2, <3>3
  <2>7. \A i \in 1..Len(s) : <<s[i], e>> \in ClassOrder(sort)
    BY <2>1, <2>2, <2>3, <2>4 DEF Ascends
  <2>8. \A v \in Of(s), w \in e : Compare(sort, v, w) < 0
    BY <2>7 DEF ClassOrder
  <2>9. Of(s) \in SUBSET Indexed(sort.prop)
    <3>1. \A c \in C : c \in SUBSET Indexed(sort.prop)
      BY DEF C, Classes
    <3> QED BY <2>1, <3>1
  <2>10. Heads(Folded(<<>>, Step, s), K, WithValues(req, after, Of(s)), R)
    BY <2>5
  <2>11. Step \in [Seq(Positions(req)) \X C -> Seq(Positions(req))] /\ <<>> \in Seq(Positions(req))
    BY WalkedTyped DEF WalkStep, C
  <2>12. Folded(<<>>, Step, s) \in Seq(Positions(req))
    <3> HIDE DEF Step
    <3> QED BY <2>1, <2>11, FoldedTyped
  <2>13. Folded(<<>>, Step, u) = Step[<<Folded(<<>>, Step, s), e>>]
    <3> HIDE DEF Step
    <3> QED BY <2>1, <2>11, FoldedAppend DEF u
  <2>14. Step[<<Folded(<<>>, Step, s), e>>] = Walked(req, after, Folded(<<>>, Step, s), e)
    <3> DEFINE f == Folded(<<>>, Step, s)
    <3>1. f \in Seq(Positions(req)) /\ e \in C
      BY <2>12
    <3> HIDE DEF f
    <3>2. Step[<<f, e>>] = Walked(req, after, f, e)
      BY <3>1 DEF WalkStep, C
    <3> QED BY <3>2 DEF f
  <2>15. Heads(Walked(req, after, Folded(<<>>, Step, s), e), K,
               WithValues(req, after, Of(s) \cup e), R)
    <3>1. e \in Classes(req.sorts[1]) BY DEF C
    <3> HIDE DEF Step, Of
    <3> QED BY <2>8, <2>9, <2>10, <3>1, WalkedHeads
  <2> HIDE DEF Step, Of
  <2> QED BY <2>6, <2>13, <2>14, <2>15
<1> HIDE DEF T
<1>3. T = Seq(C)
  <2>1. T \subseteq Seq(C) BY DEF T
  <2> QED BY <1>1, <1>2, <2>1, SeqSetInduction
<1>4. /\ Runs(sort) \in Seq(C) /\ Ascends(Runs(sort), ClassOrder(sort))
      /\ \A c \in C : \E i \in 1..Len(Runs(sort)) : Runs(sort)[i] = c
  BY RunsList DEF Lists
<1>5. Of(Runs(sort)) = Indexed(sort.prop)
  <2>1. UNION C = Indexed(sort.prop)
    BY RunsList
  <2>2. \A i \in 1..Len(Runs(sort)) : Runs(sort)[i] \in C
    BY <1>4, ElementOfSeq
  <2> HIDE DEF C
  <2>3. {Runs(sort)[i] : i \in 1..Len(Runs(sort))} = C
    BY <1>4, <2>2
  <2> QED BY <2>1, <2>3
<1>6. Heads(Folded(<<>>, Step, Runs(sort)), K, WithValues(req, after, Of(Runs(sort))), R)
  <2> HIDE DEF Of, Step
  <2> QED BY <1>3, <1>4 DEF T
<1> QED BY <1>5, <1>6

(* The walk keeps the beginning of the full ranking.                       *)
LEMMA WalkValuesHeads ==
  ASSUME NEW req, OneKey(req), NEW after, CursorAt(req, after)
  PROVE  Heads(WalkValues(req, after), Keep(req), RowsPast(req, after), Order(req, Positions(req)))
<1> DEFINE sort == req.sorts[1]
           R == Order(req, Positions(req))
           A == WithValues(req, after, Indexed(sort.prop))
           B == WithValues(req, after, {None})
<1>0. live.desc \in Descriptors /\ req \in Requests /\ AllParse(req) /\ Keep(req) \in Nat
  BY OneKeyIs, KeepIs DEF OneKey
<1>1. PICK keys : keys = {key \in Ids(req) : live.rows[key][sort.prop] = None
                                               /\ Past(req, after, Position(req, key))}
  OBVIOUS
<1>2. \A key \in Ids(req) : Position(req, key).parts[1] = live.rows[key][sort.prop]
  BY OneKeyIs
<1>3. {Position(req, key) : key \in keys} = B
  BY <1>1, <1>2 DEF WithValues, RowsPast, Positions
<1>4. Compare(sort, None, None) = 0
  BY DEF Compare
<1>5. \A a, b \in B : Compare(sort, a.parts[1], b.parts[1]) = 0
  BY <1>4 DEF WithValues
<1>6. Lists(ByKey(req, keys), B, R)
  <2>1. \A a, b \in {Position(req, key) : key \in keys} : Compare(sort, a.parts[1], b.parts[1]) = 0
    BY <1>3, <1>5
  <2>2. keys \in SUBSET Ids(req)
    BY <1>1
  <2>3. Lists(ByKey(req, keys), {Position(req, key) : key \in keys}, R)
    BY <2>1, <2>2, TiesByKey
  <2> QED BY <1>3, <2>3
<1>7. \A a \in A, b \in B : <<a, b>> \in R
  <2> TAKE a \in A, b \in B
  <2>1. /\ a \in Positions(req) /\ b \in Positions(req)
        /\ a.parts[1] \in Indexed(sort.prop) /\ b.parts[1] = None
    BY DEF WithValues, RowsPast
  <2>2. a.parts[1] # None
    BY <2>1, OneKeyIs
  <2>3. Compare(sort, a.parts[1], b.parts[1]) < 0
    BY <2>1, <2>2 DEF Compare
  <2> QED BY <2>1, <2>3, AheadOne
<1>8. RowsPast(req, after) = A \cup B
  <2>1. \A at \in RowsPast(req, after) : at.parts[1] \in Indexed(sort.prop) \cup {None}
    <3> TAKE at \in RowsPast(req, after)
    <3>1. PICK key \in Ids(req) : at = Position(req, key)
      BY DEF RowsPast, Positions
    <3> QED BY <3>1, OneKeyIs
  <2> QED BY <2>1 DEF WithValues
<1>9. PICK filled : filled = Folded(<<>>, WalkStep(req, after), Runs(sort))
  OBVIOUS
<1>10. Heads(filled, Keep(req), A, R)
  BY <1>9, WalkRunsHeads
<1>11. WalkValues(req, after) = FirstOf(filled \o ByKey(req, keys), Keep(req))
  <2>1. Runs(sort) \in Seq(Classes(sort))
    BY RunsList DEF Lists
  <2>2. FoldLeft(LAMBDA top, values : Walked(req, after, top, values), <<>>, Runs(sort)) = filled
    BY <1>9, <2>1, WalkFolds
  <2> QED BY <1>1, <2>2 DEF WalkValues
<1> HIDE DEF A, B, R
<1>12. Heads(FirstOf(filled \o ByKey(req, keys), Keep(req)), Keep(req), A \cup B, R)
  BY <1>0, <1>6, <1>7, <1>10, HeadsConcat
<1> QED BY <1>8, <1>11, <1>12 DEF R

(* What begins the full ranking cuts to its page.                          *)
LEMMA CutIsFullPage ==
  ASSUME live.desc \in Descriptors, NEW req \in Requests, HasTop(req), AllParse(req), NEW after,
         NEW top, Heads(top, Keep(req), RowsPast(req, after), Order(req, Positions(req)))
  PROVE  Cut(req, top) = FullPage(req, after)
<1> DEFINE S == RowsPast(req, after)
           R == Order(req, Positions(req))
<1>0. req.size \in Nat /\ req.size > 0
  BY RequestAssumption DEF HasTop
<1>1. PICK K : K = Keep(req)
  OBVIOUS
<1>2. PICK r : r = Ranked(req, after)
  OBVIOUS
<1>3. Lists(r, S, R) /\ Linear(R, S) /\ Len(r) <= Cardinality(Ids(req))
  BY <1>2, RankedLists
<1>4. K \in Nat /\ K >= 1 /\ (K = req.size + 1 \/ K >= Cardinality(Ids(req)))
  BY <1>0, <1>1, KeepIs
<1>5. Cardinality(Ids(req)) \in Nat
  BY PositionsFinite
<1>6. Heads(top, K, S, R)
  BY <1>1
<1>7. FullPage(req, after) = SplitPage(req, r)
  BY <1>2 DEF FullPage, AllParse
<1> HIDE DEF S, R
<1>8. r \in Seq(S) /\ Len(r) \in Nat /\ top \in Seq(S) /\ Len(top) \in Nat
  BY <1>3, <1>6, LenProperties DEF Lists, Heads
<1>9. PICK n : n \in Nat /\ Len(r) <= n /\ K <= n /\ req.size <= n
  <2>1. Len(r) + K + req.size \in Nat
    BY <1>0, <1>4, <1>8
  <2> QED BY <1>0, <1>4, <1>8, <2>1
<1>10. Heads(r, n, S, R)
  BY <1>3, <1>9, ListsAreHeads
<1>11. top = FirstOf(r, K)
  <2>1. Heads(FirstOf(r, K), K, S, R)
    BY <1>4, <1>9, <1>10, HeadsOfHeads
  <2> QED BY <1>3, <1>4, <1>6, <2>1, HeadsUnique
<1>12. Len(top) = IF Len(r) <= K THEN Len(r) ELSE K
  BY <1>4, <1>8, <1>11, FirstOfIs
<1>13. CASE Len(r) <= req.size
  <2>1. Len(r) <= K
    BY <1>0, <1>3, <1>4, <1>5, <1>8, <1>13
  <2>2. top = r
    BY <1>11, <2>1 DEF FirstOf
  <2>3. FirstOf(top, req.size) = r /\ (Len(top) > req.size) = FALSE
    BY <1>0, <1>8, <1>13, <2>2 DEF FirstOf
  <2>5. Cut(req, top) = [rows |-> r, more |-> FALSE, failed |-> FALSE]
    BY <2>3, Zenon DEF Cut
  <2>4. SplitPage(req, r) = [rows |-> r, more |-> FALSE, failed |-> FALSE]
    BY <1>13 DEF SplitPage
  <2> QED BY <1>7, <2>4, <2>5
<1>14. CASE ~(Len(r) <= req.size)
  <2>1. K > req.size \/ Len(r) <= K
    BY <1>0, <1>3, <1>4, <1>5, <1>8, <1>14
  <2>2. Len(top) > req.size
    BY <1>0, <1>4, <1>8, <1>12, <1>14, <2>1
  <2>3. req.size <= K
    BY <1>0, <1>4, <1>8, <1>12, <2>2
  <2>4. FirstOf(top, req.size) = FirstOf(r, req.size)
    <3>1. Heads(FirstOf(top, req.size), req.size, S, R)
      BY <1>0, <1>4, <1>6, <2>3, HeadsOfHeads
    <3>2. Heads(FirstOf(r, req.size), req.size, S, R)
      BY <1>0, <1>9, <1>10, HeadsOfHeads
    <3> QED BY <1>0, <1>3, <3>1, <3>2, HeadsUnique
  <2>5. FirstOf(r, req.size) = SubSeq(r, 1, req.size)
    BY <1>14 DEF FirstOf
  <2>6. SplitPage(req, r) = [rows |-> SubSeq(r, 1, req.size), more |-> TRUE, failed |-> FALSE]
    BY <1>0, <1>14 DEF SplitPage
  <2> QED BY <1>7, <2>2, <2>4, <2>5, <2>6 DEF Cut
<1> QED BY <1>13, <1>14

(* Either way to the top of a sorted result gives the page of the full     *)
(* ranking.                                                                *)
LEMMA TopIsFull ==
  ASSUME live.desc \in Descriptors, NEW req \in Requests, HasTop(req),
         NEW after, CursorAt(req, after)
  PROVE  TopPage(req, after) = FullPage(req, after)
<1>0. req.size > 0
  BY DEF HasTop
<1>1. CASE Walks(req)
  <2>1. OneKey(req)
    BY <1>1 DEF OneKey
  <2>2. AllParse(req)
    BY <2>1, OneKeyIs
  <2>3. Cut(req, WalkValues(req, after)) = FullPage(req, after)
    BY <2>1, <2>2, WalkValuesHeads, CutIsFullPage
  <2> QED BY <1>1, <2>3 DEF TopPage
<1>2. CASE ~Walks(req) /\ AllParse(req)
  <2>1. Cut(req, ScanTop(req, after)) = FullPage(req, after)
    BY <1>0, <1>2, ScanTopHeads, CutIsFullPage
  <2> QED BY <1>2, <2>1 DEF TopPage, AllParse
<1>3. CASE ~Walks(req) /\ ~AllParse(req)
  BY <1>3 DEF TopPage, AllParse
<1> QED BY <1>1, <1>2, <1>3

(* What readers and the commit point see has a descriptor of its own.      *)
Described == \A view \in {live, saved} :
  DOMAIN view = {"rows", "desc"} /\ view.desc \in Descriptors

LEMMA PagingDescribed == PagingSpec => []Described
<1>1. PagingInit => Described
  BY DEF PagingInit, Described
<1>2. Described /\ [PagingNext]_pagingVars => Described'
  <2> SUFFICES ASSUME Described, [PagingNext]_pagingVars PROVE Described'
    OBVIOUS
  <2>1. ASSUME NEW next, DOMAIN next = {"rows", "desc"}, next.desc \in Descriptors, Write(next)
        PROVE  Described'
    BY <2>1 DEF Write, Described
  <2>2. ASSUME NEW key, NEW row
        PROVE  LET next == [live EXCEPT !.rows[key] = row] IN
               DOMAIN next = {"rows", "desc"} /\ next.desc \in Descriptors
    BY DEF Described
  <2>3. ASSUME NEW key \in Keys, NEW row \in Offered, Put(key, row) PROVE Described'
    BY <2>1, <2>2, <2>3 DEF Put
  <2>4. ASSUME NEW key \in Keys, Hide(key) PROVE Described'
    BY <2>1, <2>2, <2>4 DEF Hide
  <2>5. ASSUME NEW d \in Descriptors, Describe(d) PROVE Described'
    <3>1. LET next == [live EXCEPT !.desc = d] IN
          DOMAIN next = {"rows", "desc"} /\ next.desc \in Descriptors
      BY DEF Described
    <3> QED BY <2>1, <2>5, <3>1 DEF Describe
  <2>6. CASE Commit
    BY <2>6 DEF Commit, Described
  <2>7. CASE LoseUncommitted
    BY <2>7 DEF LoseUncommitted, Described
  <2>8. ASSUME NEW req \in Requests, FirstPage(req) \/ NextPage(req) PROVE Described'
    BY <2>8 DEF FirstPage, NextPage, Described
  <2>9. CASE UNCHANGED pagingVars
    BY <2>9 DEF pagingVars, Described
  <2> QED BY <2>3, <2>4, <2>5, <2>6, <2>7, <2>8, <2>9 DEF PagingNext
<1> QED BY <1>1, <1>2, PTL DEF PagingSpec

(* top_page answers what the full ranking does: for every set of rows,     *)
(* types that place their values, request with one sort key and cursor.    *)
THEOREM TopPagesAreFullRankings == PagingSpec => []TopIsFullRanking
<1>1. Described => TopIsFullRanking
  <2> SUFFICES ASSUME Described,
                      NEW req \in {r \in Requests : HasTop(r)},
                      NEW after \in {<<>>} \cup {<<Position(req, key)>> : key \in Ids(req)}
               PROVE  TopPage(req, after) = FullPage(req, after)
    BY DEF TopIsFullRanking
  <2>1. CursorAt(req, after)
    BY DEF CursorAt, Positions
  <2>2. live.desc \in Descriptors
    BY DEF Described
  <2> QED BY <2>1, <2>2, TopIsFull
<1> QED BY <1>1, PagingDescribed, PTL

(* The ranking of a request in a view that need not be the live one.       *)
TypeIn(view, prop) == view.desc.types[prop]
ValueIn(view, key, prop) == IF prop \in view.desc.dropped THEN None ELSE view.rows[key][prop]
PositionsIn(view, req) ==
  {[key |-> key, parts |-> [i \in DOMAIN req.sorts |-> ValueIn(view, key, req.sorts[i].prop)]] :
     key \in {key \in Keys \ req.hide : view.rows[key] # NoRow}}

CompareIn(view, sort, l, r) ==
  LET place == Place[TypeIn(view, sort.prop)]
      diff == IF sort.desc THEN place[r] - place[l] ELSE place[l] - place[r] IN
  IF l = None \/ r = None
  THEN (IF l = None THEN 1 ELSE 0) - (IF r = None THEN 1 ELSE 0)
  ELSE IF diff < 0 THEN -1 ELSE IF diff > 0 THEN 1 ELSE 0

AheadIn(view, req, a, b) ==
  LET differ == {i \in DOMAIN req.sorts : CompareIn(view, req.sorts[i], a.parts[i], b.parts[i]) # 0} IN
  IF differ = {} THEN a.key < b.key
  ELSE CompareIn(view, req.sorts[Min(differ)], a.parts[Min(differ)], b.parts[Min(differ)]) < 0

RankedIn(view, req) ==
  InOrder(PositionsIn(view, req),
          {pair \in PositionsIn(view, req) \X PositionsIn(view, req) :
             AheadIn(view, req, pair[1], pair[2])})

LEMMA RankedLive ==
  ASSUME NEW req
  PROVE  /\ Ranked(req, <<>>) = RankedIn(live, req)
         /\ RowsPast(req, <<>>) = Positions(req)
<1>1. Positions(req) = PositionsIn(live, req)
  BY DEF Positions, Position, Ids, Value, PositionsIn, ValueIn
<1>2. \A sort, l, r : Compare(sort, l, r) = CompareIn(live, sort, l, r)
  BY DEF Compare, CompareIn, TypeOf, TypeIn
<1>3. \A a, b : Ahead(req, a, b) <=> AheadIn(live, req, a, b)
  <2> TAKE a, b
  <2>1. {i \in DOMAIN req.sorts : Compare(req.sorts[i], a.parts[i], b.parts[i]) # 0}
          = {i \in DOMAIN req.sorts : CompareIn(live, req.sorts[i], a.parts[i], b.parts[i]) # 0}
    BY <1>2
  <2> QED BY <1>2, <2>1 DEF Ahead, AheadIn
<1>4. \A at : Past(req, <<>>, at)
  BY DEF Past
<1>5. RowsPast(req, <<>>) = Positions(req)
  BY <1>4 DEF RowsPast
<1>6. Order(req, Positions(req)) = {pair \in Positions(req) \X Positions(req) :
                                      AheadIn(live, req, pair[1], pair[2])}
  BY <1>3 DEF Order
<1>7. Ranked(req, <<>>) = InOrder(Positions(req), Order(req, Positions(req)))
  BY <1>5 DEF Ranked, RowsPast
<1> QED BY <1>1, <1>5, <1>6, <1>7 DEF RankedIn

(* A page fails when a value among the results does not parse.             *)
LEMMA PageParses ==
  ASSUME live.desc \in Descriptors, NEW req \in Requests, NEW after, ~PageOf(req, after).failed
  PROVE  AllParse(req)
<1>1. Failed.failed = TRUE
  BY DEF Failed
<1>2. PageOf(req, after) = IF HasTop(req) THEN TopPage(req, after) ELSE FullPage(req, after)
  BY <1>1 DEF PageOf
<1>3. FullPage(req, after).failed \/ AllParse(req)
  BY <1>1 DEF FullPage, AllParse
<1>4. CASE HasTop(req) /\ Walks(req)
  BY <1>4, OneKeyIs DEF OneKey
<1>5. CASE HasTop(req) /\ ~Walks(req)
  BY <1>2, <1>3, <1>5 DEF TopPage, AllParse
<1>6. CASE ~HasTop(req)
  BY <1>2, <1>3, <1>6
<1> QED BY <1>4, <1>5, <1>6

(* A page that does not fail is cut from the full ranking.                 *)
LEMMA PageIs ==
  ASSUME live.desc \in Descriptors, NEW req \in Requests, NEW after, CursorAt(req, after),
         ~PageOf(req, after).failed
  PROVE  PageOf(req, after) = SplitPage(req, Ranked(req, after))
<1>1. Failed.failed = TRUE
  BY DEF Failed
<1>2. PageOf(req, after) = IF HasTop(req) THEN TopPage(req, after) ELSE FullPage(req, after)
  BY <1>1 DEF PageOf
<1>3. PageOf(req, after) = FullPage(req, after)
  BY <1>2, TopIsFull
<1> QED BY <1>3, PageParses DEF FullPage, AllParse

(* What is ranked behind the cursor is the rest of the ranking r after n.  *)
RestOf(req, r, n, after) ==
  /\ r \in Seq(Positions(req)) /\ Ranked(req, after) \in Seq(Positions(req))
  /\ Len(Ranked(req, after)) = Len(r) - n
  /\ \A i \in 1..(Len(r) - n) : Ranked(req, after)[i] = r[n + i]
  /\ CursorAt(req, after)

LEMMA RestIs ==
  ASSUME live.desc \in Descriptors, NEW req \in Requests, AllParse(req),
         NEW r, r = Ranked(req, <<>>), NEW n \in Nat, n = 0 \/ n \in 1..Len(r),
         NEW after, after = IF n = 0 THEN <<>> ELSE <<r[n]>>
  PROVE  RestOf(req, r, n, after)
<1> DEFINE S == Positions(req)
           R == Order(req, Positions(req))
<1>1. Lists(r, S, R) /\ Linear(R, S)
  BY RankedLists, RankedLive
<1>2. r \in Seq(S) /\ Len(r) \in Nat /\ \A i \in 1..Len(r) : r[i] \in S
  BY <1>1, LenProperties, ElementOfSeq DEF Lists
<1>3. CASE n = 0
  BY <1>2, <1>3 DEF CursorAt, RestOf
<1>4. CASE n # 0
  <2>1. n \in 1..Len(r) /\ after = <<r[n]>>
    BY <1>2, <1>4
  <2>2. r[n] \in S
    BY <1>2, <2>1
  <2>3. PICK t : t = SubSeq(r, n + 1, Len(r))
    OBVIOUS
  <2>4. Lists(t, {x \in S : <<r[n], x>> \in R}, R)
    <3> HIDE DEF S, R
    <3> QED BY <1>1, <2>1, <2>3, ListsRest
  <2>5. {x \in S : <<r[n], x>> \in R} = RowsPast(req, after)
    <3>1. \A x : Past(req, after, x) <=> Ahead(req, r[n], x)
      BY <2>1 DEF Past
    <3> QED BY <2>2, <3>1 DEF RowsPast, Order
  <2>6. Lists(Ranked(req, after), RowsPast(req, after), R) /\ Linear(R, RowsPast(req, after))
    BY RankedLists
  <2>7. Ranked(req, after) = t
    <3> HIDE DEF R
    <3> QED BY <2>4, <2>5, <2>6, ListsUnique
  <2>8. PICK m : m = n + 1
    OBVIOUS
  <2>9. /\ SubSeq(r, m, Len(r)) \in Seq(S)
        /\ Len(SubSeq(r, m, Len(r))) = IF m <= Len(r) THEN Len(r) - m + 1 ELSE 0
        /\ \A i \in 1..(Len(r) - m + 1) : SubSeq(r, m, Len(r))[i] = r[m + i - 1]
    <3>1. m \in Int /\ Len(r) \in Int /\ \A i \in m..Len(r) : i \in 1..Len(r)
      BY <1>2, <2>1, <2>8
    <3>2. \A i \in m..Len(r) : r[i] \in S
      BY <1>2, <3>1
    <3> HIDE DEF S
    <3> QED BY <3>1, <3>2, SubSeqProperties
  <2>10. /\ \A i \in 1..(Len(r) - n) : i \in 1..(Len(r) - m + 1) /\ m + i - 1 = n + i
         /\ (IF m <= Len(r) THEN Len(r) - m + 1 ELSE 0) = Len(r) - n
    BY <1>2, <2>1, <2>8
  <2>11. CursorAt(req, after)
    BY <2>1, <2>2 DEF CursorAt
  <2>12. t = SubSeq(r, m, Len(r))
    BY <2>3, <2>8
  <2> QED BY <1>2, <2>7, <2>9, <2>10, <2>11, <2>12 DEF RestOf
<1> QED BY <1>3, <1>4

(* What a client that has the first n rows of the ranking r holds.         *)
FirstKeys(r, n) == [i \in 1..n |-> r[i].key]

LEMMA FirstKeysIs ==
  ASSUME NEW r, Len(r) \in Nat, NEW n \in 0..Len(r), \A i \in 1..Len(r) : r[i].key \in Keys
  PROVE  /\ FirstKeys(r, n) \in Seq(Keys) /\ Len(FirstKeys(r, n)) = n
         /\ IsPrefix(FirstKeys(r, n), FirstKeys(r, Len(r)))
<1>1. \A m \in 0..Len(r) : FirstKeys(r, m) \in Seq(Keys) /\ Len(FirstKeys(r, m)) = m
  <2> TAKE m \in 0..Len(r)
  <2>1. m \in Nat /\ FirstKeys(r, m) \in [1..m -> Keys]
    BY DEF FirstKeys
  <2>2. PICK f : f = FirstKeys(r, m)
    OBVIOUS
  <2>3. f \in Seq(Keys) /\ DOMAIN f = 1..m
    BY <2>1, <2>2, SeqDef
  <2>4. Len(f) \in Nat /\ DOMAIN f = 1..Len(f)
    BY <2>3, LenProperties
  <2>5. Len(f) = m
    BY <2>1, <2>3, <2>4
  <2> QED BY <2>2, <2>3, <2>5
<1>2. PICK s, t : s = FirstKeys(r, n) /\ t = FirstKeys(r, Len(r))
  OBVIOUS
<1>3. s \in Seq(Keys) /\ t \in Seq(Keys) /\ Len(s) = n /\ Len(t) = Len(r) /\ Len(r) \in 0..Len(r)
  BY <1>1, <1>2
<1>4. \A i \in 1..n : i \in 1..Len(r) /\ s[i] = t[i] /\ s[i] \in Keys
  BY <1>2 DEF FirstKeys
<1>5. /\ SubSeq(s, 1, n) \in Seq(Keys) /\ Len(SubSeq(s, 1, n)) = n
      /\ \A i \in 1..n : SubSeq(s, 1, n)[i] = s[i]
  BY <1>4, SubSeqProperties
<1>6. /\ SubSeq(t, 1, n) \in Seq(Keys) /\ Len(SubSeq(t, 1, n)) = n
      /\ \A i \in 1..n : SubSeq(t, 1, n)[i] = t[i]
  BY <1>4, SubSeqProperties
<1>7. SubSeq(s, 1, n) = SubSeq(t, 1, n)
  BY <1>4, <1>5, <1>6
<1>8. IsPrefix(s, t)
  BY <1>3, <1>7 DEF IsPrefix
<1> QED BY <1>2, <1>3, <1>8

(* The chain has the first rows of the ranking of a view, and its cursor   *)
(* names the last of them.                                                 *)
FreshIn(view, c) ==
  LET r == RankedIn(view, c.req) IN
  \E n \in 1..Len(r) :
    c.all = FirstKeys(r, Len(r)) /\ c.seen = FirstKeys(r, n) /\ c.cursor.after = <<r[n]>>

(* The page has the rows behind the n-th, and all of them unless it says   *)
(* there are more.                                                         *)
RowsFrom(r, n, page) ==
  \E m \in Nat : /\ n + m <= Len(r) /\ Len(page.rows) = m /\ DOMAIN page.rows = 1..m
                 /\ \A i \in 1..m : page.rows[i] = r[n + i]
                 /\ page.more \/ n + m = Len(r)
                 /\ page.more => m >= 1

LEMMA PageRows ==
  ASSUME live.desc \in Descriptors, NEW req \in Requests,
         NEW r, r = RankedIn(live, req), NEW n \in Nat, n = 0 \/ n \in 1..Len(r),
         NEW after, after = IF n = 0 THEN <<>> ELSE <<r[n]>>,
         NEW page, page = PageOf(req, after), ~page.failed
  PROVE  /\ Len(r) \in Nat /\ n \in 0..Len(r) /\ \A i \in 1..Len(r) : r[i].key \in Keys
         /\ RowsFrom(r, n, page)
<1>1. AllParse(req)
  BY PageParses
<1>2. r = Ranked(req, <<>>)
  BY RankedLive
<1>3. PICK rest : rest = Ranked(req, after)
  OBVIOUS
<1>4. /\ r \in Seq(Positions(req)) /\ rest \in Seq(Positions(req))
      /\ Len(rest) = Len(r) - n /\ \A i \in 1..(Len(r) - n) : rest[i] = r[n + i]
      /\ CursorAt(req, after)
  <2>1. RestOf(req, r, n, after)
    BY <1>1, <1>2, RestIs
  <2> QED BY <1>3, <2>1 DEF RestOf
<1>5. page = SplitPage(req, rest)
  BY <1>3, <1>4, PageIs
<1>6. /\ Len(r) \in Nat /\ Len(rest) \in Nat /\ DOMAIN rest = 1..Len(rest)
      /\ \A i \in 1..Len(rest) : rest[i] \in Positions(req)
      /\ \A i \in 1..Len(r) : r[i] \in Positions(req)
  BY <1>4, LenProperties, ElementOfSeq
<1>7. \A i \in 1..Len(r) : r[i].key \in Keys
  <2>1. \A at \in Positions(req) : at.key \in Keys
    BY <1>1, PositionsLinear DEF Ids
  <2> QED BY <1>6, <2>1
<1>8. n \in 0..Len(r)
  BY <1>6
<1>9. req.size \in Nat
  BY RequestAssumption
<1>10. CASE req.size = 0 \/ Len(rest) <= req.size
  <2>1. page.rows = rest /\ page.more = FALSE
    BY <1>5, <1>10 DEF SplitPage
  <2>2. n + Len(rest) = Len(r) /\ n + Len(rest) <= Len(r)
    BY <1>4, <1>6, <1>8
  <2>3. \A i \in 1..Len(rest) : rest[i] = r[n + i]
    BY <1>4
  <2> QED BY <1>6, <1>7, <1>8, <2>1, <2>2, <2>3 DEF RowsFrom
<1>11. CASE ~(req.size = 0 \/ Len(rest) <= req.size)
  <2>1. page.rows = SubSeq(rest, 1, req.size) /\ page.more = TRUE
    BY <1>5, <1>11 DEF SplitPage
  <2>2. req.size >= 1 /\ n + req.size <= Len(r) /\ req.size < Len(rest)
    BY <1>4, <1>6, <1>8, <1>9, <1>11
  <2>3. PICK u : u = FirstOf(rest, req.size)
    OBVIOUS
  <2>4. /\ u \in Seq(Positions(req))
        /\ Len(u) = IF Len(rest) <= req.size THEN Len(rest) ELSE req.size
        /\ \A i \in 1..Len(u) : i \in 1..Len(rest) /\ u[i] = rest[i]
    BY <1>4, <1>9, <2>3, FirstOfIs
  <2>5. Len(u) = req.size /\ DOMAIN u = 1..req.size
    BY <1>11, <2>4, LenProperties
  <2>6. page.rows = u
    BY <1>11, <2>1, <2>3 DEF FirstOf
  <2>7. \A i \in 1..req.size : u[i] = r[n + i]
    BY <1>4, <2>4, <2>5
  <2> QED BY <1>6, <1>7, <1>8, <1>9, <2>1, <2>2, <2>5, <2>6, <2>7 DEF RowsFrom
<1> QED BY <1>10, <1>11

(* A client with n rows of the ranking r asks for a page more and gets to c.*)
Turns(req, r, n, after, page, c) ==
  /\ r = RankedIn(live, req) /\ (n = 0 \/ n \in 1..Len(r))
  /\ after = (IF n = 0 THEN <<>> ELSE <<r[n]>>)
  /\ page = PageOf(req, after) /\ ~page.failed
  /\ c.req = req /\ c.all = FirstKeys(r, Len(r))
  /\ c.seen = FirstKeys(r, n) \o KeysOf(page.rows) /\ c.cursor = Cursor(req, page)

(* It has rows of the ranking in order, and all of them if no cursor.      *)
LedOn(req, c) ==
  /\ IsPrefix(c.seen, c.all) /\ (c.cursor.after = <<>> => c.seen = c.all)
  /\ c.cursor.after # <<>> =>
       FreshIn(live, c) /\ c.cursor.stamp = stamp /\ c.cursor.req = req

LEMMA PageTurned ==
  ASSUME live.desc \in Descriptors, NEW req \in Requests, NEW r, NEW n \in Nat,
         NEW after, NEW page, NEW c, Turns(req, r, n, after, page, c)
  PROVE  LedOn(req, c)
<1>0. /\ r = RankedIn(live, req) /\ (n = 0 \/ n \in 1..Len(r))
      /\ after = (IF n = 0 THEN <<>> ELSE <<r[n]>>)
      /\ page = PageOf(req, after) /\ ~page.failed
      /\ c.req = req /\ c.all = FirstKeys(r, Len(r))
      /\ c.seen = FirstKeys(r, n) \o KeysOf(page.rows) /\ c.cursor = Cursor(req, page)
  BY DEF Turns
<1>1. Len(r) \in Nat /\ n \in 0..Len(r) /\ \A i \in 1..Len(r) : r[i].key \in Keys
  BY <1>0, PageRows
<1>2. PICK m \in Nat : /\ n + m <= Len(r) /\ Len(page.rows) = m /\ DOMAIN page.rows = 1..m
                       /\ \A i \in 1..m : page.rows[i] = r[n + i]
                       /\ page.more \/ n + m = Len(r)
                       /\ page.more => m >= 1
  <2>1. RowsFrom(r, n, page)
    BY <1>0, PageRows
  <2> QED BY <2>1 DEF RowsFrom
<1>3. PICK k : k = KeysOf(page.rows)
  OBVIOUS
<1>4. k = [i \in 1..m |-> r[n + i].key]
  BY <1>2, <1>3 DEF KeysOf
<1>5. \A i \in 1..m : n + i \in 1..Len(r) /\ k[i] = r[n + i].key /\ k[i] \in Keys
  <2>1. \A i \in 1..m : n + i \in 1..Len(r)
    BY <1>1, <1>2
  <2> QED BY <1>1, <1>4, <2>1
<1>6. k \in Seq(Keys) /\ Len(k) = m
  <2>1. k \in [1..m -> Keys]
    BY <1>4, <1>5
  <2>2. k \in Seq(Keys) /\ DOMAIN k = 1..m
    BY <2>1, SeqDef
  <2>3. Len(k) \in Nat /\ DOMAIN k = 1..Len(k)
    BY <2>2, LenProperties
  <2> QED BY <2>2, <2>3
<1>7. PICK s : s = FirstKeys(r, n)
  OBVIOUS
<1>8. s \in Seq(Keys) /\ Len(s) = n /\ \A i \in 1..n : s[i] = r[i].key
  <2>1. s \in Seq(Keys) /\ Len(s) = n
    BY <1>1, <1>7, FirstKeysIs
  <2> QED BY <1>7, <2>1 DEF FirstKeys
<1>9. /\ s \o k \in Seq(Keys) /\ Len(s \o k) = Len(s) + Len(k)
      /\ \A i \in 1..(Len(s) + Len(k)) : (s \o k)[i] = IF i <= Len(s) THEN s[i] ELSE k[i - Len(s)]
  BY <1>6, <1>8, ConcatProperties
<1>10. PICK l : l = n + m
  OBVIOUS
<1>11. l \in 0..Len(r)
  BY <1>1, <1>2, <1>10
<1>12. PICK w : w = FirstKeys(r, l)
  OBVIOUS
<1>13. w \in Seq(Keys) /\ Len(w) = l /\ IsPrefix(w, FirstKeys(r, Len(r)))
       /\ \A i \in 1..l : w[i] = r[i].key
  <2>1. w \in Seq(Keys) /\ Len(w) = l /\ IsPrefix(w, FirstKeys(r, Len(r)))
    BY <1>1, <1>11, <1>12, FirstKeysIs
  <2>2. \A i \in 1..l : w[i] = r[i].key
    BY <1>12 DEF FirstKeys
  <2> QED BY <2>1, <2>2
<1>14. s \o k = w
  <2>1. Len(s \o k) = l
    BY <1>6, <1>8, <1>9, <1>10
  <2>2. ASSUME NEW i \in 1..l PROVE (s \o k)[i] = w[i]
    <3>1. i \in 1..(Len(s) + Len(k)) /\ i \in Nat
      BY <1>6, <1>8, <1>10
    <3>2. CASE i <= n
      <4>1. i \in 1..n
        BY <3>1, <3>2
      <4> QED BY <1>8, <1>9, <1>13, <3>1, <3>2, <4>1
    <3>3. CASE ~(i <= n)
      <4>1. i - n \in 1..m /\ n + (i - n) = i
        BY <1>10, <3>1, <3>3
      <4>2. (s \o k)[i] = k[i - n]
        BY <1>8, <1>9, <3>1, <3>3
      <4> QED BY <1>5, <1>13, <4>1, <4>2
    <3> QED BY <3>2, <3>3
  <2> QED BY <1>9, <1>13, <2>1, <2>2, SeqEqual
<1>15. c.seen = w
  BY <1>0, <1>3, <1>7, <1>14
<1>16. CASE page.more
  <2>1. c.cursor = [stamp |-> stamp, req |-> req, after |-> <<Last(page.rows)>>]
    BY <1>0, <1>16 DEF Cursor
  <2>2. m \in 1..m /\ l \in 1..Len(r)
    BY <1>1, <1>2, <1>10, <1>16
  <2>3. Last(page.rows) = r[l]
    BY <1>2, <1>10, <2>2 DEF Last
  <2>0. /\ c.cursor.after = <<Last(page.rows)>> /\ c.cursor.after # <<>>
        /\ c.cursor.stamp = stamp /\ c.cursor.req = req
    <3>1. PICK d : d = c.cursor
      OBVIOUS
    <3>2. d = [stamp |-> stamp, req |-> req, after |-> <<Last(page.rows)>>]
      BY <2>1, <3>1
    <3>3. d.after = <<Last(page.rows)>> /\ d.stamp = stamp /\ d.req = req
      BY <3>2
    <3>4. <<Last(page.rows)>> # <<>>
      OBVIOUS
    <3> QED BY <3>1, <3>3, <3>4
  <2>4. c.all = FirstKeys(r, Len(r)) /\ c.seen = FirstKeys(r, l) /\ c.cursor.after = <<r[l]>>
    BY <1>0, <1>12, <1>15, <2>0, <2>3
  <2>5. RankedIn(live, c.req) = r
    BY <1>0
  <2>6. FreshIn(live, c)
    BY <2>2, <2>4, <2>5, Zenon DEF FreshIn
  <2>8. IsPrefix(c.seen, c.all)
    BY <1>0, <1>13, <1>15
  <2> QED BY <2>0, <2>6, <2>8 DEF LedOn
<1>17. CASE ~page.more
  <2>1. c.cursor.after = <<>>
    BY <1>0, <1>17 DEF Cursor
  <2>2. l = Len(r)
    BY <1>2, <1>10, <1>17
  <2> QED BY <1>0, <1>12, <1>13, <1>15, <2>1, <2>2 DEF LedOn
<1> QED BY <1>16, <1>17

(* The first page, from the top.                                           *)
LEMMA PageBegun ==
  ASSUME live.desc \in Descriptors, NEW req \in Requests,
         NEW page, page = PageOf(req, <<>>), ~page.failed,
         NEW c, c.req = req, c.all = KeysOf(Ranked(req, <<>>)),
         c.seen = KeysOf(page.rows), c.cursor = Cursor(req, page)
  PROVE  LedOn(req, c)
<1>1. PICK r : r = RankedIn(live, req)
  OBVIOUS
<1>2. PICK after : after = <<>>
  OBVIOUS
<1>3. PICK n \in Nat : n = 0
  OBVIOUS
<1>4. after = (IF n = 0 THEN <<>> ELSE <<r[n]>>) /\ page = PageOf(req, after)
  BY <1>2, <1>3
<1>5. Len(r) \in Nat /\ \A i \in 1..Len(r) : r[i].key \in Keys
  BY <1>1, <1>3, <1>4, PageRows
<1>6. RowsFrom(r, n, page)
  BY <1>1, <1>3, <1>4, PageRows
<1>7. r = Ranked(req, <<>>) /\ r \in Seq(Positions(req))
  <2>1. AllParse(req)
    BY PageParses
  <2> QED BY <1>1, <2>1, RankedLive, RankedLists DEF Lists
<1>8. c.all = FirstKeys(r, Len(r))
  <2>1. DOMAIN r = 1..Len(r)
    BY <1>7, LenProperties
  <2> QED BY <1>7, <2>1 DEF KeysOf, FirstKeys
<1>9. PICK k : k = KeysOf(page.rows)
  OBVIOUS
<1>10. k \in Seq(Keys)
  <2>1. PICK m \in Nat : /\ n + m <= Len(r) /\ DOMAIN page.rows = 1..m
                         /\ \A i \in 1..m : page.rows[i] = r[n + i]
    BY <1>6 DEF RowsFrom
  <2>2. \A i \in 1..m : n + i \in 1..Len(r)
    BY <1>3, <1>5, <2>1
  <2>3. k \in [1..m -> Keys]
    BY <1>5, <1>9, <2>1, <2>2 DEF KeysOf
  <2> QED BY <2>3, SeqDef
<1>11. PICK s : s = FirstKeys(r, n)
  OBVIOUS
<1>12. s \o k = k
  <2>1. n \in 0..Len(r)
    BY <1>3, <1>5
  <2>2. s \in Seq(Keys) /\ Len(s) = n
    BY <1>5, <1>11, <2>1, FirstKeysIs
  <2>3. s = <<>>
    BY <1>3, <2>2, EmptySeq
  <2> QED BY <1>10, <2>3, ConcatEmptySeq
<1>13. c.seen = FirstKeys(r, n) \o KeysOf(page.rows)
  BY <1>9, <1>11, <1>12
<1>14. Turns(req, r, n, after, page, c)
  BY <1>1, <1>3, <1>4, <1>8, <1>13 DEF Turns
<1> QED BY <1>14, PageTurned

(* The page behind the cursor of a chain.                                  *)
LEMMA PageFollowed ==
  ASSUME live.desc \in Descriptors, NEW b, b.req \in Requests, FreshIn(live, b),
         NEW page, page = PageOf(b.req, b.cursor.after), ~page.failed,
         NEW c, c.req = b.req, c.all = b.all,
         c.seen = b.seen \o KeysOf(page.rows), c.cursor = Cursor(b.req, page)
  PROVE  LedOn(b.req, c)
<1>1. PICK req \in Requests : req = b.req
  OBVIOUS
<1>2. PICK r : r = RankedIn(live, req)
  OBVIOUS
<1>3. PICK n \in 1..Len(r) :
        b.all = FirstKeys(r, Len(r)) /\ b.seen = FirstKeys(r, n) /\ b.cursor.after = <<r[n]>>
  BY <1>1, <1>2 DEF FreshIn
<1>4. PICK after : after = b.cursor.after
  OBVIOUS
<1>5. n \in Nat /\ n # 0
  OBVIOUS
<1>6. after = (IF n = 0 THEN <<>> ELSE <<r[n]>>) /\ page = PageOf(req, after)
  BY <1>1, <1>3, <1>4, <1>5
<1>7. /\ c.req = req /\ c.all = FirstKeys(r, Len(r)) /\ c.cursor = Cursor(req, page)
      /\ c.seen = FirstKeys(r, n) \o KeysOf(page.rows)
  BY <1>1, <1>3
<1>8. Turns(req, r, n, after, page, c)
  BY <1>2, <1>3, <1>5, <1>6, <1>7 DEF Turns
<1>9. LedOn(req, c)
  BY <1>5, <1>8, PageTurned
<1> QED BY <1>1, <1>9

-----------------------------------------------------------------------------
(* The invariant of the chain.                                             *)

Counters ==
  /\ stamp \in [committed : Nat, written : Nat, used : Nat] /\ stamp.committed <= stamp.written
  /\ stamp.used = 0 => stamp.written = stamp.committed /\ live = saved

Fields == {"req", "all", "seen", "cursor", "settled", "lost"}

ChainShape ==
  chain # NoChain =>
    /\ DOMAIN chain = Fields /\ chain.req \in Requests
    /\ chain.settled \in BOOLEAN /\ chain.lost \in BOOLEAN
    /\ chain.cursor.after # <<>> => chain.cursor.req = chain.req

(* Counters no later than others: pages are written and filled in order.   *)
NoLater(s, t) == s.written < t.written \/ (s.written = t.written /\ s.used <= t.used)

(* A chain that began at a commit point has the committed view, and stops  *)
(* fitting with the next commit.                                           *)
SettledChain ==
  HasCursor /\ chain.settled =>
    LET made == chain.cursor.stamp IN
    /\ made.used = 0 /\ made.committed \in Nat /\ made.committed <= stamp.committed
    /\ made.committed = stamp.committed => FreshIn(saved, chain)

(* Any other has the live view until the counters move on; they come back  *)
(* only when something is lost.                                            *)
OpenChain ==
  HasCursor /\ ~chain.settled /\ ~chain.lost =>
    LET made == chain.cursor.stamp IN
    /\ made.written \in Nat /\ made.used \in Nat /\ NoLater(made, stamp)
    /\ made = stamp => FreshIn(live, chain)

PagingInv ==
  Described /\ Counters /\ ChainShape /\ SettledChain /\ OpenChain /\ PagesOfOneSnapshot

(* A write or a commit moves the counters on, and the committed view with  *)
(* the committed counter.                                                  *)
MovesOn ==
  /\ NoLater(stamp, stamp') /\ ~NoLater(stamp', stamp)
  /\ \/ saved' = saved /\ stamp'.committed = stamp.committed
     \/ stamp'.committed > stamp.committed
  /\ chain' = chain

LEMMA WriteMovesOn ==
  ASSUME Counters, NEW next, Write(next)
  PROVE  MovesOn /\ Counters'
<1>1. /\ stamp.committed \in Nat /\ stamp.written \in Nat /\ stamp.used \in Nat
      /\ stamp.committed <= stamp.written /\ PageRoom \in Nat /\ PageRoom >= 1
  BY PageAssumption DEF Counters
<1> DEFINE full == stamp.used + 1 > PageRoom
           written == stamp.written + IF full THEN 1 ELSE 0
           grouped == full /\ written - stamp.committed >= GroupSize
<1>2. /\ saved' = (IF grouped THEN live ELSE saved) /\ chain' = chain
      /\ stamp' = [committed |-> IF grouped THEN written ELSE stamp.committed,
                   written |-> written, used |-> IF full THEN 1 ELSE stamp.used + 1]
  BY DEF Write
<1>3. /\ stamp'.committed = IF grouped THEN written ELSE stamp.committed
      /\ stamp'.written = written /\ stamp'.used = IF full THEN 1 ELSE stamp.used + 1
      /\ stamp' \in [committed : Nat, written : Nat, used : Nat]
  <2>1. written \in Nat
    BY <1>1
  <2> HIDE DEF grouped
  <2> QED BY <1>1, <1>2, <2>1
<1>4. CASE full
  <2>1. written = stamp.written + 1
    BY <1>4
  <2> HIDE DEF written, full
  <2>2. stamp'.committed > stamp.committed \/ (saved' = saved /\ stamp'.committed = stamp.committed)
    BY <1>1, <1>2, <1>3, <2>1
  <2>3. stamp'.committed <= stamp'.written /\ stamp'.used # 0 /\ stamp.written < stamp'.written
    BY <1>1, <1>3, <1>4, <2>1
  <2> QED BY <1>2, <1>3, <2>2, <2>3, <1>1 DEF MovesOn, NoLater, Counters
<1>5. CASE ~full
  <2>1. written = stamp.written /\ ~grouped
    BY <1>1, <1>5
  <2> HIDE DEF written, full, grouped
  <2>2. stamp'.committed = stamp.committed /\ saved' = saved /\ stamp'.written = stamp.written
        /\ stamp'.used = stamp.used + 1
    BY <1>2, <1>3, <1>5, <2>1
  <2>3. stamp'.used # 0 /\ stamp.used <= stamp'.used /\ stamp'.used # stamp.used
    BY <1>1, <2>2
  <2> QED BY <1>1, <1>2, <1>3, <2>2, <2>3 DEF MovesOn, NoLater, Counters
<1> QED BY <1>4, <1>5

LEMMA CommitMovesOn ==
  ASSUME Counters, Commit
  PROVE  MovesOn /\ Counters'
<1>1. /\ stamp.committed \in Nat /\ stamp.written \in Nat /\ stamp.used \in Nat
      /\ stamp.committed <= stamp.written
  BY DEF Counters
<1>2. stamp.used # 0
  BY DEF Counters, Commit, Settled
<1>3. stamp' = [committed |-> stamp.written + 1, written |-> stamp.written + 1, used |-> 0]
      /\ saved' = live /\ live' = live /\ chain' = chain
  BY <1>1, <1>2 DEF Commit
<1>4. /\ stamp'.committed = stamp.written + 1 /\ stamp'.written = stamp.written + 1
      /\ stamp'.used = 0 /\ stamp' \in [committed : Nat, written : Nat, used : Nat]
  BY <1>1, <1>3
<1>5. /\ stamp'.committed > stamp.committed /\ stamp.written < stamp'.written
      /\ stamp'.committed <= stamp'.written
  BY <1>1, <1>4
<1> QED BY <1>1, <1>3, <1>4, <1>5 DEF MovesOn, NoLater, Counters

LEMMA MovedOn ==
  ASSUME PagingInv, MovesOn, Described', Counters'
  PROVE  PagingInv'
<1>1. chain' = chain /\ (HasCursor' <=> HasCursor)
  BY DEF MovesOn, HasCursor
<1>2. ChainShape'
  BY <1>1 DEF PagingInv, ChainShape
<1>3. PagesOfOneSnapshot'
  BY <1>1 DEF PagingInv, PagesOfOneSnapshot, OneSnapshot
<1>4. /\ stamp.committed \in Nat /\ stamp.written \in Nat /\ stamp.used \in Nat
      /\ stamp'.committed \in Nat /\ stamp'.written \in Nat /\ stamp'.used \in Nat
  BY DEF PagingInv, Counters
<1>5. SettledChain'
  <2> SUFFICES ASSUME HasCursor, chain.settled
               PROVE  LET made == chain.cursor.stamp IN
                      /\ made.used = 0 /\ made.committed \in Nat /\ made.committed <= stamp'.committed
                      /\ made.committed = stamp'.committed => FreshIn(saved', chain)
    BY <1>1 DEF SettledChain
  <2> DEFINE made == chain.cursor.stamp
  <2>1. /\ made.used = 0 /\ made.committed \in Nat /\ made.committed <= stamp.committed
        /\ made.committed = stamp.committed => FreshIn(saved, chain)
    BY DEF PagingInv, SettledChain
  <2>2. CASE saved' = saved /\ stamp'.committed = stamp.committed
    BY <2>1, <2>2
  <2>3. CASE stamp'.committed > stamp.committed
    BY <1>4, <2>1, <2>3
  <2> QED BY <2>2, <2>3 DEF MovesOn
<1>6. OpenChain'
  <2> SUFFICES ASSUME HasCursor, ~chain.settled, ~chain.lost
               PROVE  LET made == chain.cursor.stamp IN
                      /\ made.written \in Nat /\ made.used \in Nat /\ NoLater(made, stamp')
                      /\ made = stamp' => FreshIn(live', chain)
    BY <1>1 DEF OpenChain
  <2> DEFINE made == chain.cursor.stamp
  <2>1. made.written \in Nat /\ made.used \in Nat /\ NoLater(made, stamp)
    BY DEF PagingInv, OpenChain
  <2>2. NoLater(made, stamp')
    BY <1>4, <2>1 DEF MovesOn, NoLater
  <2>3. made # stamp'
    BY <2>1 DEF MovesOn
  <2> QED BY <2>1, <2>2, <2>3
<1> QED BY <1>2, <1>3, <1>5, <1>6 DEF PagingInv

LEMMA LostKeeps ==
  ASSUME PagingInv, LoseUncommitted, Described'
  PROVE  PagingInv'
<1>1. /\ stamp'.committed = stamp.committed /\ saved' = saved /\ live' = saved
      /\ stamp'.written = stamp.committed /\ stamp'.used = 0
      /\ stamp' \in [committed : Nat, written : Nat, used : Nat]
  BY DEF PagingInv, Counters, LoseUncommitted
<1>2. Counters'
  <2>1. stamp'.committed <= stamp'.written /\ stamp'.written = stamp'.committed /\ live' = saved'
    BY <1>1
  <2> QED BY <1>1, <2>1 DEF Counters
<1>3. CASE chain = NoChain
  <2>1. chain' = NoChain
    BY <1>3 DEF LoseUncommitted
  <2> QED BY <1>2, <2>1
        DEF PagingInv, ChainShape, SettledChain, OpenChain, PagesOfOneSnapshot, HasCursor
<1>4. CASE chain # NoChain
  <2>1. DOMAIN chain = Fields /\ chain' = [chain EXCEPT !.lost = TRUE]
    BY <1>4 DEF PagingInv, ChainShape, LoseUncommitted
  <2>2. /\ DOMAIN chain' = Fields /\ chain'.req = chain.req /\ chain'.all = chain.all
        /\ chain'.seen = chain.seen /\ chain'.cursor = chain.cursor
        /\ chain'.settled = chain.settled /\ chain'.lost = TRUE
    BY <2>1 DEF Fields
  <2>3. ChainShape'
    BY <1>4, <2>2 DEF PagingInv, ChainShape
  <2>4. OpenChain'
    BY <2>2 DEF OpenChain
  <2>5. PagesOfOneSnapshot'
    BY <1>4, <2>2 DEF PagingInv, PagesOfOneSnapshot, OneSnapshot
  <2>6. FreshIn(saved, chain) => FreshIn(saved', chain')
    BY <1>1, <2>2 DEF FreshIn
  <2>7. HasCursor' => HasCursor
    BY <1>4, <2>2 DEF HasCursor
  <2>8. SettledChain'
    BY <1>1, <2>2, <2>6, <2>7 DEF PagingInv, SettledChain
  <2> QED BY <1>2, <2>3, <2>4, <2>5, <2>8 DEF PagingInv
<1> QED BY <1>3, <1>4

(* The chain after a page that was answered.                               *)
LEMMA TurnKeeps ==
  ASSUME PagingInv, live' = live, saved' = saved, stamp' = stamp,
         NEW req \in Requests, DOMAIN chain' = Fields, chain'.req = req,
         chain'.settled \in BOOLEAN, chain'.lost \in BOOLEAN,
         chain'.cursor.after # <<>> => chain'.cursor.req = req /\ chain'.cursor.stamp = stamp,
         chain'.settled \/ ~chain'.lost => LedOn(req, chain'),
         chain'.settled /\ chain'.cursor.after # <<>> => stamp.used = 0
  PROVE  PagingInv'
<1>1. Described' /\ Counters'
  BY DEF PagingInv, Described, Counters
<1>2. chain' # NoChain
  BY DEF Fields, NoChain
<1>3. ChainShape'
  BY DEF ChainShape
<1>4. PagesOfOneSnapshot'
  BY DEF PagesOfOneSnapshot, OneSnapshot, LedOn
<1>5. /\ stamp.committed \in Nat /\ stamp.written \in Nat /\ stamp.used \in Nat
      /\ stamp.used = 0 => live = saved
  BY DEF PagingInv, Counters
<1>6. ASSUME chain'.cursor.after # <<>>, chain'.settled \/ ~chain'.lost
      PROVE  FreshIn(live', chain')
  BY <1>6 DEF LedOn
<1>7. SettledChain'
  BY <1>5, <1>6 DEF SettledChain, HasCursor
<1>8. OpenChain'
  BY <1>5, <1>6 DEF OpenChain, HasCursor, NoLater
<1> QED BY <1>1, <1>3, <1>4, <1>7, <1>8 DEF PagingInv

LEMMA CursorIs ==
  ASSUME NEW req, NEW page, Cursor(req, page).after # <<>>
  PROVE  Cursor(req, page).req = req /\ Cursor(req, page).stamp = stamp
BY DEF Cursor

LEMMA FirstPageKeeps ==
  ASSUME PagingInv, NEW req \in Requests, FirstPage(req)
  PROVE  PagingInv'
<1>1. PICK page : page = PageOf(req, <<>>)
  OBVIOUS
<1>2. PICK c : c = chain'
  OBVIOUS
<1>3. /\ c = [req |-> req, all |-> KeysOf(Ranked(req, <<>>)), seen |-> KeysOf(page.rows),
              cursor |-> Cursor(req, page), settled |-> Settled, lost |-> FALSE]
      /\ ~page.failed /\ live' = live /\ saved' = saved /\ stamp' = stamp
  BY <1>1, <1>2 DEF FirstPage
<1>4. /\ DOMAIN c = Fields /\ c.req = req /\ c.all = KeysOf(Ranked(req, <<>>))
      /\ c.seen = KeysOf(page.rows) /\ c.cursor = Cursor(req, page)
      /\ c.settled = Settled /\ c.lost = FALSE
  BY <1>3 DEF Fields
<1>5. live.desc \in Descriptors
  BY DEF PagingInv, Described
<1>6. LedOn(req, c)
  BY <1>1, <1>3, <1>4, <1>5, PageBegun
<1>7. c.settled => stamp.used = 0
  BY <1>4 DEF Settled
<1>8. c.settled \in BOOLEAN
  BY <1>4 DEF Settled
<1>9. c.cursor.after # <<>> => c.cursor.req = req /\ c.cursor.stamp = stamp
  BY <1>4, CursorIs
<1> QED BY <1>2, <1>3, <1>4, <1>6, <1>7, <1>8, <1>9, TurnKeeps

LEMMA NextPageKeeps ==
  ASSUME PagingInv, NEW req \in Requests, NextPage(req)
  PROVE  PagingInv'
<1>1. PICK page : page = PageOf(req, chain.cursor.after)
  OBVIOUS
<1>2. PICK b : b = chain
  OBVIOUS
<1>3. PICK c : c = chain'
  OBVIOUS
<1>4. HasCursor /\ live' = live /\ saved' = saved /\ stamp' = stamp
  BY DEF NextPage
<1>5. CASE ~CursorFits(chain.cursor, req) \/ page.failed
  <2>1. chain' = NoChain
    BY <1>1, <1>5 DEF NextPage
  <2>2. Described' /\ Counters'
    BY <1>4 DEF PagingInv, Described, Counters
  <2> QED BY <2>1, <2>2
        DEF PagingInv, ChainShape, SettledChain, OpenChain, PagesOfOneSnapshot, HasCursor
<1>6. CASE CursorFits(chain.cursor, req) /\ ~page.failed
  <2>1. /\ DOMAIN b = Fields /\ b.req = req /\ b.cursor.stamp = stamp /\ b.cursor.after # <<>>
        /\ b.settled \in BOOLEAN /\ b.lost \in BOOLEAN
    BY <1>2, <1>4, <1>6 DEF PagingInv, ChainShape, HasCursor, CursorFits
  <2>2. c = [b EXCEPT !.seen = @ \o KeysOf(page.rows), !.cursor = Cursor(req, page)]
    BY <1>1, <1>2, <1>3, <1>6 DEF NextPage
  <2>3. /\ DOMAIN c = Fields /\ c.req = req /\ c.all = b.all /\ c.seen = b.seen \o KeysOf(page.rows)
        /\ c.cursor = Cursor(req, page) /\ c.settled = b.settled /\ c.lost = b.lost
    BY <2>1, <2>2 DEF Fields
  <2>4. live.desc \in Descriptors /\ (stamp.used = 0 => live = saved)
    BY DEF PagingInv, Described, Counters
  <2>5. b.settled => stamp.used = 0 /\ FreshIn(saved, b)
    BY <1>2, <1>4, <2>1 DEF PagingInv, SettledChain
  <2>6. ~b.settled /\ ~b.lost => FreshIn(live, b)
    BY <1>2, <1>4, <2>1 DEF PagingInv, OpenChain
  <2>7. ASSUME b.settled \/ ~b.lost PROVE LedOn(req, c)
    <3>1. FreshIn(live, b)
      BY <2>4, <2>5, <2>6, <2>7
    <3>2. page = PageOf(b.req, b.cursor.after) /\ ~page.failed
      BY <1>1, <1>2, <1>6, <2>1
    <3>3. c.req = b.req /\ c.cursor = Cursor(b.req, page) /\ b.req \in Requests
      BY <2>1, <2>3
    <3>4. LedOn(b.req, c)
      BY <2>3, <2>4, <3>1, <3>2, <3>3, PageFollowed
    <3> QED BY <2>1, <3>4
  <2>8. c.cursor.after # <<>> => c.cursor.req = req /\ c.cursor.stamp = stamp
    BY <2>3, CursorIs
  <2> QED BY <1>3, <1>4, <2>1, <2>3, <2>5, <2>7, <2>8, TurnKeeps
<1> QED BY <1>5, <1>6

(* The pages of a chain are of one state: a chain that began at a commit   *)
(* point, whatever is written, committed or lost under it, and any other   *)
(* until uncommitted appends are lost.                                     *)
THEOREM PagesAreOfOneSnapshot == PagingSpec => []PagesOfOneSnapshot
<1>1. PagingInit => PagingInv
  <2> SUFFICES ASSUME PagingInit PROVE PagingInv
    OBVIOUS
  <2>1. Cardinality(Keys) \in Nat
    BY KeysAssumption, FS_CardinalityType
  <2>2. Counters
    BY <2>1 DEF PagingInit, Counters
  <2>3. Described
    BY DEF PagingInit, Described
  <2>4. chain = NoChain
    BY DEF PagingInit
  <2> QED BY <2>2, <2>3, <2>4
        DEF PagingInv, ChainShape, SettledChain, OpenChain, PagesOfOneSnapshot, HasCursor
<1>2. PagingInv /\ Described' /\ [PagingNext]_pagingVars => PagingInv'
  <2> SUFFICES ASSUME PagingInv, Described', [PagingNext]_pagingVars PROVE PagingInv'
    OBVIOUS
  <2>1. Counters
    BY DEF PagingInv
  <2>2. ASSUME NEW next, Write(next) PROVE PagingInv'
    BY <2>1, <2>2, WriteMovesOn, MovedOn
  <2>3. ASSUME NEW key \in Keys, NEW row \in Offered, Put(key, row) PROVE PagingInv'
    BY <2>2, <2>3 DEF Put
  <2>4. ASSUME NEW key \in Keys, Hide(key) PROVE PagingInv'
    BY <2>2, <2>4 DEF Hide
  <2>5. ASSUME NEW d \in Descriptors, Describe(d) PROVE PagingInv'
    BY <2>2, <2>5 DEF Describe
  <2>6. CASE Commit
    BY <2>1, <2>6, CommitMovesOn, MovedOn
  <2>7. CASE LoseUncommitted
    BY <2>7, LostKeeps
  <2>8. ASSUME NEW req \in Requests, FirstPage(req) PROVE PagingInv'
    BY <2>8, FirstPageKeeps
  <2>9. ASSUME NEW req \in Requests, NextPage(req) PROVE PagingInv'
    BY <2>9, NextPageKeeps
  <2>10. CASE UNCHANGED pagingVars
    BY <2>10 DEF pagingVars, PagingInv, Described, Counters, ChainShape, SettledChain, OpenChain,
                 PagesOfOneSnapshot, OneSnapshot, HasCursor
  <2> QED BY <2>3, <2>4, <2>5, <2>6, <2>7, <2>8, <2>9, <2>10 DEF PagingNext
<1>3. PagingInv => PagesOfOneSnapshot
  BY DEF PagingInv
<1> QED BY <1>1, <1>2, <1>3, PagingDescribed, PTL DEF PagingSpec

=============================================================================
