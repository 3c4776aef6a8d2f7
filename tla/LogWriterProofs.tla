-------------------------- MODULE LogWriterProofs ---------------------------
(***************************************************************************)
(* Proofs about LogWriter for every file size, record count, page capacity *)
(* and set of sync policies, in an environment without the extra faults:   *)
(* where the counters and the file position stand, what a reopen reads, and*)
(* that the writer implements DurableLog.  The second half is about        *)
(* Sidecar, the files that live beside that log: for every set of          *)
(* identities and every bound, what an open takes from them is what the    *)
(* log says.                                                               *)
(***************************************************************************)
EXTENDS LogWriter, Sidecar, FoldLemmas, FiniteSetTheorems

StagePCs == {"st_page", "st_sync", "st_super", "st_super_sync", "adopt"}

WritePCs == {"page", "hold_sync", "sync", "super", "super_sync", "resume"}

(* Where the counters and the file position stand between two steps.       *)
Place ==
  /\ skew = FALSE
  /\ super \in 0..MaxPages /\ dsuper \in 0..super
  /\ failed => pc = "idle"
  /\ pc = "abort" => mode # "single"
  /\ pc # "down" /\ ~failed =>
       /\ committed <= written
       /\ pc \notin {"super", "st_super_sync", "adopt"} => super = committed
       /\ pc \in {"st_super_sync", "adopt"} => super = staged.upto
       /\ pc = "super" => super <= committed
       /\ pc \in {"super", "super_sync"} \union StagePCs => written = committed
       /\ pc \notin StagePCs => pos = written + 1
  /\ pc = "page" => buf # {} /\ written < MaxPages
  /\ pc \in WritePCs /\ op = "append" => next <= MaxRecords
  /\ pc \in StagePCs =>
       /\ buf = {} /\ written < pos /\ pos <= staged.upto + 1
       /\ written < staged.upto
  /\ pc = "st_page" => pos <= staged.upto
  /\ pc \in {"st_super", "st_super_sync", "adopt"} => pos = staged.upto + 1

(* Pages the writer counts are there, committed ones are synced.           *)
Pages ==
  /\ \A i \in 1..super : disk[i] # Hole /\ (group > 0 => i \in durable)
  /\ pc # "down" /\ ~failed => \A i \in 1..written : disk[i] # Hole
  /\ pc = "super" /\ group > 0 => \A i \in 1..committed : i \in durable

(* Nothing is on a page that has not been appended.                        *)
Contents ==
  /\ \A i \in Slots : \A r \in disk[i] : r < next
  /\ \A r \in buf : r < next

(* A split commit has written the pages it staged.                         *)
StagePages ==
  pc \in StagePCs =>
    /\ \A r \in Records : staged.slot[r] # 0 =>
         staged.slot[r] \in (written + 1)..staged.upto /\ r < next
    /\ \A i \in (written + 1)..staged.upto :
         \E r \in Records : staged.slot[r] = i
    /\ \A i \in (written + 1)..(pos - 1) :
         \A r \in Records : r \in disk[i] <=> staged.slot[r] = i

StageDurable ==
  /\ pc = "st_super" /\ group > 0 =>
       \A i \in 1..staged.upto : i \in durable
  /\ pc = "adopt" /\ group > 0 => dsuper = super

(* What this process committed has been synced with its commit point.      *)
Synced ==
  pc \notin {"down", "super", "super_sync"} /\ ~failed /\ group > 0 =>
    \A i \in 1..committed : (\E r \in disk[i] : r >= born) => i <= dsuper

(* Acknowledged records are on pages the synced superblock covers.         *)
Acked ==
  \A r \in acked : \E i \in 1..super : r \in disk[i] /\ (group > 0 => i <= dsuper)

IInv ==
  /\ TypeOK
  /\ Place /\ Pages /\ Contents /\ StagePages /\ StageDurable /\ Synced /\ Acked

-----------------------------------------------------------------------------
(* Facts about the operators the actions share.                            *)

LEMMA LogType ==
  ASSUME TypeOK, NEW n \in 0..MaxPages
  PROVE  Log(n) \subseteq Records
<1>1. \A i \in 1..n : i \in Slots /\ disk[i] \subseteq Records
  BY BoundsAssumption DEF TypeOK, FileType, Slots
<1>2. QED BY <1>1 DEF Log

LEMMA NoStageType ==
  NoStage \in [upto : 0..MaxPages, synced : 0..MaxPages,
               slot : [Records -> 0..MaxPages]]
  BY BoundsAssumption DEF NoStage

LEMMA GoneType == ASSUME ProcessGone PROVE WriterType' /\ CallType'
<1>1. WriterType'
  <2>1. hold' \in BOOLEAN /\ failed' \in BOOLEAN /\ skew' \in BOOLEAN
    BY Zenon DEF ProcessGone
  <2>2. QED BY <2>1, BoundsAssumption DEF ProcessGone, WriterType
<1>2. CallType'
  BY NoStageType DEF ProcessGone, CallType, PCs
<1>3. QED BY <1>1, <1>2

-----------------------------------------------------------------------------
(* One lemma per action: it keeps the invariant.                           *)

LEMMA AppendStep ==
  ASSUME Faults = {}, IInv, NEW joins \in BOOLEAN, AppendUncommitted(joins)
  PROVE  IInv'
<1> USE DEF IInv, TypeOK, AppendUncommitted, AppendTo, Usable, SetHold, fileVars,
            writerVars, callVars, historyVars
<1>a. next \in Nat /\ next' \in 1..(MaxRecords + 1) /\ next <= next'
  BY BoundsAssumption DEF HistoryType, Records
<1>b. buf' \subseteq Records /\ batch' \subseteq Records
  BY BoundsAssumption, <1>a DEF HistoryType, WriterType, Records
<1>c. hold' \in BOOLEAN /\ synced' \in 0..MaxPages
  BY Zenon DEF WriterType
<1>1. FileType' /\ CallType'
  BY BoundsAssumption DEF FileType, CallType, Hole, PCs, StagePCs, NoStage,
         Slots, Records
<1>2. Pages'
  BY BoundsAssumption DEF FileType, CallType, Pages, Hole, PCs, StagePCs,
         NoStage, Slots, Records
<1>3. StagePages' /\ StageDurable'
  BY BoundsAssumption DEF FileType, CallType, Pages, StagePages, StageDurable,
         Hole, PCs, StagePCs, NoStage, Slots, Records
<1>4. Synced' /\ Acked'
  BY BoundsAssumption DEF FileType, CallType, Pages, StageDurable, Synced,
         Acked, Hole, PCs, StagePCs, NoStage, Slots, Records
<1>5. WriterType'
  BY <1>b, <1>c DEF WriterType
<1>6. HistoryType'
  BY <1>a, <1>b DEF HistoryType
<1>7. Place'
  BY BoundsAssumption, SMT DEF Place, WriterType, FileType, CallType,
         HistoryType, StagePCs, WritePCs, Hole, PCs, Slots, Records
<1>8. Contents'
  <2>a. \A r \in buf' : r \in buf \/ (r = next /\ next' = next + 1)
    OBVIOUS
  <2>b. \A r \in buf : r < next
    BY Zenon DEF Contents
  <2>c. \A r \in buf : r \in Nat
    BY BoundsAssumption, SMT DEF WriterType, Records
  <2>1. \A r \in buf' : r < next'
    BY <1>a, <2>a, <2>b, <2>c
  <2>2. QED BY <1>a, <2>1 DEF Contents, HistoryType, FileType, Slots, Records
<1>9. QED BY <1>1, <1>2, <1>3, <1>4, <1>5, <1>6, <1>7, <1>8

LEMMA PushStep ==
  ASSUME Faults = {}, IInv, NEW joins \in BOOLEAN, Push(joins)
  PROVE  IInv'
<1> USE DEF IInv, TypeOK, Push, AppendTo, Usable, SetHold, fileVars,
            writerVars, callVars, historyVars
<1>a. next \in Nat /\ next' \in 1..(MaxRecords + 1) /\ next <= next'
  BY BoundsAssumption DEF HistoryType, Records
<1>b. buf' \subseteq Records /\ batch' \subseteq Records
  BY BoundsAssumption, <1>a DEF HistoryType, WriterType, Records
<1>c. hold' \in BOOLEAN /\ synced' \in 0..MaxPages
  BY Zenon DEF WriterType
<1>1. FileType' /\ CallType'
  BY BoundsAssumption DEF FileType, CallType, Hole, PCs, StagePCs, NoStage,
         Slots, Records
<1>2. Pages'
  BY BoundsAssumption DEF FileType, CallType, Pages, Hole, PCs, StagePCs,
         NoStage, Slots, Records
<1>3. StagePages' /\ StageDurable'
  BY BoundsAssumption DEF FileType, CallType, Pages, StagePages, StageDurable,
         Hole, PCs, StagePCs, NoStage, Slots, Records
<1>4. Synced' /\ Acked'
  BY BoundsAssumption DEF FileType, CallType, Pages, StageDurable, Synced,
         Acked, Hole, PCs, StagePCs, NoStage, Slots, Records
<1>5. WriterType'
  BY <1>b, <1>c DEF WriterType
<1>6. HistoryType'
  BY <1>a, <1>b DEF HistoryType
<1>7. Place'
  BY BoundsAssumption, SMT DEF Place, WriterType, FileType, CallType,
         HistoryType, StagePCs, WritePCs, Hole, PCs, Slots, Records
<1>8. Contents'
  <2>a. \A r \in buf' : r \in buf \/ (r = next /\ next' = next + 1)
    OBVIOUS
  <2>b. \A r \in buf : r < next
    BY Zenon DEF Contents
  <2>c. \A r \in buf : r \in Nat
    BY BoundsAssumption, SMT DEF WriterType, Records
  <2>1. \A r \in buf' : r < next'
    BY <1>a, <2>a, <2>b, <2>c
  <2>2. QED BY <1>a, <2>1 DEF Contents, HistoryType, FileType, Slots, Records
<1>9. QED BY <1>1, <1>2, <1>3, <1>4, <1>5, <1>6, <1>7, <1>8

LEMMA FlushStep ==
  ASSUME Faults = {}, IInv, Flush
  PROVE  IInv'
<1> USE DEF IInv, TypeOK, Flush, StartFlush, Usable, SetHold, fileVars,
            writerVars, callVars, historyVars
<1>1. FileType' /\ WriterType' /\ CallType' /\ HistoryType'
  BY BoundsAssumption DEF FileType, WriterType, CallType, HistoryType, Place,
         Hole, PCs, StagePCs, WritePCs, NoStage, Slots, Records
<1>2. Place'
  BY BoundsAssumption DEF FileType, WriterType, CallType, HistoryType, Place,
         Hole, PCs, StagePCs, WritePCs, NoStage, Slots, Records
<1>3. Pages' /\ Contents'
  BY BoundsAssumption DEF FileType, WriterType, CallType, HistoryType, Place,
         Pages, Contents, Hole, PCs, StagePCs, WritePCs, NoStage, Slots,
         Records
<1>4. StagePages' /\ StageDurable'
  BY BoundsAssumption DEF FileType, WriterType, CallType, HistoryType, Place,
         Pages, StagePages, StageDurable, Hole, PCs, StagePCs, WritePCs,
         NoStage, Slots, Records
<1>5. Synced' /\ Acked'
  BY BoundsAssumption DEF FileType, WriterType, CallType, HistoryType, Place,
         Pages, StageDurable, Synced, Acked, Hole, PCs, StagePCs, WritePCs,
         NoStage, Slots, Records
<1>6. QED BY <1>1, <1>2, <1>3, <1>4, <1>5

LEMMA StreamFlushStep ==
  ASSUME Faults = {}, IInv, StreamFlush
  PROVE  IInv'
<1> USE DEF IInv, TypeOK, StreamFlush, StartFlush, Usable, SetHold, fileVars,
            writerVars, callVars, historyVars
<1>1. FileType' /\ CallType' /\ HistoryType'
  BY BoundsAssumption DEF FileType, CallType, HistoryType, Place, Hole, PCs,
         StagePCs, WritePCs, NoStage, Slots, Records
<1>2. Place'
  BY BoundsAssumption DEF FileType, CallType, HistoryType, Place, Hole, PCs,
         StagePCs, WritePCs, NoStage, Slots, Records
<1>3. Pages' /\ Contents'
  BY BoundsAssumption DEF FileType, CallType, HistoryType, Place, Pages,
         Contents, Hole, PCs, StagePCs, WritePCs, NoStage, Slots, Records
<1>4. StagePages' /\ StageDurable'
  BY BoundsAssumption DEF FileType, CallType, HistoryType, Place, Pages,
         StagePages, StageDurable, Hole, PCs, StagePCs, WritePCs, NoStage,
         Slots, Records
<1>5. Synced' /\ Acked'
  BY BoundsAssumption DEF FileType, CallType, HistoryType, Place, Pages,
         StageDurable, Synced, Acked, Hole, PCs, StagePCs, WritePCs, NoStage,
         Slots, Records
<1>6. WriterType'
  <2>1. hold' \in BOOLEAN /\ failed' \in BOOLEAN /\ skew' \in BOOLEAN
    BY Zenon DEF WriterType
  <2>2. synced' \in 0..MaxPages
    BY Zenon DEF WriterType
  <2>3. QED BY <2>1, <2>2, BoundsAssumption DEF WriterType
<1>7. QED BY <1>1, <1>2, <1>3, <1>4, <1>5, <1>6

LEMMA BeginBatchStep ==
  ASSUME Faults = {}, IInv, BeginBatch
  PROVE  IInv'
<1> USE DEF IInv, TypeOK, BeginBatch, Usable, SetHold, HasPending, fileVars,
            writerVars, callVars, historyVars
<1>1. FileType' /\ WriterType' /\ CallType' /\ HistoryType'
  BY BoundsAssumption DEF FileType, WriterType, CallType, HistoryType, Place,
         Hole, PCs, StagePCs, WritePCs, NoStage, Slots, Records
<1>2. Place'
  BY BoundsAssumption DEF FileType, WriterType, CallType, HistoryType, Place,
         Hole, PCs, StagePCs, WritePCs, NoStage, Slots, Records
<1>3. Pages' /\ Contents'
  BY BoundsAssumption DEF FileType, WriterType, CallType, HistoryType, Place,
         Pages, Contents, Hole, PCs, StagePCs, WritePCs, NoStage, Slots,
         Records
<1>4. StagePages' /\ StageDurable'
  BY BoundsAssumption DEF FileType, WriterType, CallType, HistoryType, Place,
         Pages, StagePages, StageDurable, Hole, PCs, StagePCs, WritePCs,
         NoStage, Slots, Records
<1>5. Synced' /\ Acked'
  BY BoundsAssumption DEF FileType, WriterType, CallType, HistoryType, Place,
         Pages, StageDurable, Synced, Acked, Hole, PCs, StagePCs, WritePCs,
         NoStage, Slots, Records
<1>6. QED BY <1>1, <1>2, <1>3, <1>4, <1>5

LEMMA EndBatchStep ==
  ASSUME Faults = {}, IInv, EndBatch
  PROVE  IInv'
<1> USE DEF IInv, TypeOK, EndBatch, StartFlush, Usable, SetHold, fileVars,
            writerVars, callVars, historyVars
<1>1. FileType' /\ CallType' /\ HistoryType'
  BY BoundsAssumption DEF FileType, CallType, HistoryType, Place, Hole, PCs,
         StagePCs, WritePCs, NoStage, Slots, Records
<1>2. Place'
  BY BoundsAssumption DEF FileType, CallType, HistoryType, Place, Hole, PCs,
         StagePCs, WritePCs, NoStage, Slots, Records
<1>3. Pages' /\ Contents'
  BY BoundsAssumption DEF FileType, CallType, HistoryType, Place, Pages,
         Contents, Hole, PCs, StagePCs, WritePCs, NoStage, Slots, Records
<1>4. StagePages' /\ StageDurable'
  BY BoundsAssumption DEF FileType, CallType, HistoryType, Place, Pages,
         StagePages, StageDurable, Hole, PCs, StagePCs, WritePCs, NoStage,
         Slots, Records
<1>5. Synced' /\ Acked'
  BY BoundsAssumption DEF FileType, CallType, HistoryType, Place, Pages,
         StageDurable, Synced, Acked, Hole, PCs, StagePCs, WritePCs, NoStage,
         Slots, Records
<1>6. WriterType'
  <2>1. hold' \in BOOLEAN /\ failed' \in BOOLEAN /\ skew' \in BOOLEAN
    BY Zenon DEF WriterType
  <2>2. synced' \in 0..MaxPages
    BY Zenon DEF WriterType
  <2>3. QED BY <2>1, <2>2, BoundsAssumption DEF WriterType
<1>7. QED BY <1>1, <1>2, <1>3, <1>4, <1>5, <1>6

LEMMA FailBatchStep ==
  ASSUME Faults = {}, IInv, FailBatch
  PROVE  IInv'
<1> USE DEF IInv, TypeOK, FailBatch, ReturnErr, Usable, SetHold, fileVars,
            writerVars, callVars, historyVars
<1>1. FileType' /\ WriterType' /\ CallType' /\ HistoryType'
  BY BoundsAssumption DEF FileType, WriterType, CallType, HistoryType, Place,
         Hole, PCs, StagePCs, WritePCs, NoStage, Slots, Records
<1>2. Place'
  BY BoundsAssumption DEF FileType, WriterType, CallType, HistoryType, Place,
         Hole, PCs, StagePCs, WritePCs, NoStage, Slots, Records
<1>3. Pages' /\ Contents'
  BY BoundsAssumption DEF FileType, WriterType, CallType, HistoryType, Place,
         Pages, Contents, Hole, PCs, StagePCs, WritePCs, NoStage, Slots,
         Records
<1>4. StagePages' /\ StageDurable'
  BY BoundsAssumption DEF FileType, WriterType, CallType, HistoryType, Place,
         Pages, StagePages, StageDurable, Hole, PCs, StagePCs, WritePCs,
         NoStage, Slots, Records
<1>5. Synced' /\ Acked'
  BY BoundsAssumption DEF FileType, WriterType, CallType, HistoryType, Place,
         Pages, StageDurable, Synced, Acked, Hole, PCs, StagePCs, WritePCs,
         NoStage, Slots, Records
<1>6. QED BY <1>1, <1>2, <1>3, <1>4, <1>5

LEMMA BeginMigrateStep ==
  ASSUME Faults = {}, IInv, BeginMigrate
  PROVE  IInv'
<1> USE DEF IInv, TypeOK, BeginMigrate, Usable, SetHold, fileVars, writerVars,
            callVars, historyVars
<1>1. FileType' /\ WriterType' /\ HistoryType'
  BY BoundsAssumption DEF FileType, WriterType, HistoryType, Place, Hole,
         StagePCs, WritePCs, NoStage, Slots, Records
<1>2. Place'
  BY BoundsAssumption DEF FileType, WriterType, HistoryType, Place, Hole,
         StagePCs, WritePCs, NoStage, Slots, Records
<1>3. Pages' /\ Contents'
  BY BoundsAssumption DEF FileType, WriterType, HistoryType, Place, Pages,
         Contents, Hole, StagePCs, WritePCs, NoStage, Slots, Records
<1>4. StagePages' /\ StageDurable'
  BY BoundsAssumption DEF FileType, WriterType, HistoryType, Place, Pages,
         StagePages, StageDurable, Hole, StagePCs, WritePCs, NoStage, Slots,
         Records
<1>5. Synced' /\ Acked'
  BY BoundsAssumption DEF FileType, WriterType, HistoryType, Place, Pages,
         StageDurable, Synced, Acked, Hole, StagePCs, WritePCs, NoStage,
         Slots, Records
<1>6. CallType'
  BY BoundsAssumption, SMT DEF CallType, Place, FileType, WriterType, PCs,
         StagePCs, WritePCs, Hole, NoStage, Slots, Records
<1>7. QED BY <1>1, <1>2, <1>3, <1>4, <1>5, <1>6

LEMMA EndMigrateStep ==
  ASSUME Faults = {}, IInv, EndMigrate
  PROVE  IInv'
<1> USE DEF IInv, TypeOK, EndMigrate, Usable, SetHold, fileVars, writerVars,
            callVars, historyVars
<1>1. FileType' /\ HistoryType'
  BY BoundsAssumption DEF FileType, HistoryType, Place, Hole, StagePCs,
         WritePCs, NoStage, Slots, Records
<1>2. Place'
  BY BoundsAssumption DEF FileType, HistoryType, Place, Hole, StagePCs,
         WritePCs, NoStage, Slots, Records
<1>3. Pages' /\ Contents'
  BY BoundsAssumption DEF FileType, HistoryType, Place, Pages, Contents, Hole,
         StagePCs, WritePCs, NoStage, Slots, Records
<1>4. StagePages' /\ StageDurable'
  BY BoundsAssumption DEF FileType, HistoryType, Place, Pages, StagePages,
         StageDurable, Hole, StagePCs, WritePCs, NoStage, Slots, Records
<1>5. Synced' /\ Acked'
  BY BoundsAssumption DEF FileType, HistoryType, Place, Pages, StageDurable,
         Synced, Acked, Hole, StagePCs, WritePCs, NoStage, Slots, Records
<1>6. WriterType'
  <2>1. hold' \in BOOLEAN /\ failed' \in BOOLEAN /\ skew' \in BOOLEAN
    BY Zenon DEF WriterType
  <2>2. synced' \in 0..MaxPages
    BY Zenon DEF WriterType
  <2>3. QED BY <2>1, <2>2, BoundsAssumption DEF WriterType
<1>7. CallType'
  <2>1. held' \in BOOLEAN BY Zenon
  <2>2. QED BY <2>1 DEF CallType
<1>8. QED BY <1>1, <1>2, <1>3, <1>4, <1>5, <1>6, <1>7

LEMMA WritePageStep ==
  ASSUME Faults = {}, IInv, WritePage
  PROVE  IInv'
<1> USE DEF IInv, TypeOK, WritePage, PutPage, GroupFull, fileVars, writerVars,
            callVars, historyVars
<1>1. CallType' /\ HistoryType' /\ StagePages' /\ StageDurable'
  BY BoundsAssumption DEF CallType, HistoryType, StagePages, StageDurable,
         PCs, StagePCs, NoStage, Slots, Records
<1>2. FileType'
  BY BoundsAssumption, SMT DEF FileType, Place, WriterType, Hole, StagePCs,
         WritePCs, Slots, Records
<1>3. WriterType'
  BY BoundsAssumption, SMT DEF WriterType, Place, StagePCs, WritePCs, Slots,
         Records
<1>4. Place'
  BY BoundsAssumption, SMT DEF Place, WriterType, StagePCs, WritePCs, Slots
<1>5. Pages'
  BY BoundsAssumption, SMT DEF Pages, Place, WriterType, FileType, Hole,
         StagePCs, WritePCs, Slots, Records
<1>6. Contents'
  BY BoundsAssumption, SMT DEF Contents, HistoryType, FileType, Hole, Slots,
         Records
<1>7. Synced'
  BY BoundsAssumption, SMT DEF Synced, Place, FileType, WriterType,
         HistoryType, StagePCs, WritePCs, Hole, Slots, Records
<1>8. Acked'
  BY BoundsAssumption, SMT DEF Acked, Place, FileType, WriterType,
         HistoryType, Synced, Pages, StagePCs, WritePCs, Hole, Slots, Records
<1>9. QED BY <1>1, <1>2, <1>3, <1>4, <1>5, <1>6, <1>7, <1>8

LEMMA WritePageFailsStep ==
  ASSUME Faults = {}, IInv, WritePageFails
  PROVE  IInv'
<1> USE DEF IInv, TypeOK, WritePageFails, ReturnErr, SetHold, fileVars,
            writerVars, callVars, historyVars
<1>a. UNCHANGED <<disk, durable, skew>>
  OBVIOUS
<1>1. CallType' /\ HistoryType'
  BY BoundsAssumption DEF CallType, HistoryType, Place, PCs, StagePCs,
         WritePCs, Hole, NoStage, Slots, Records
<1>2. Place'
  BY BoundsAssumption DEF CallType, HistoryType, Place, PCs, StagePCs,
         WritePCs, Hole, NoStage, Slots, Records
<1>3. Pages' /\ Contents'
  BY BoundsAssumption DEF CallType, HistoryType, Place, Pages, Contents, PCs,
         StagePCs, WritePCs, Hole, NoStage, Slots, Records
<1>4. StagePages' /\ StageDurable'
  BY BoundsAssumption DEF CallType, HistoryType, Place, Pages, StagePages,
         StageDurable, PCs, StagePCs, WritePCs, Hole, NoStage, Slots, Records
<1>5. Synced' /\ Acked'
  BY BoundsAssumption DEF CallType, HistoryType, Place, Pages, StageDurable,
         Synced, Acked, PCs, StagePCs, WritePCs, Hole, NoStage, Slots, Records
<1>6. FileType'
  BY <1>a DEF FileType
<1>7. WriterType'
  <2>1. hold' \in BOOLEAN /\ synced' \in 0..MaxPages
    BY Zenon DEF WriterType
  <2>2. QED BY <1>a, <2>1 DEF WriterType
<1>8. QED BY <1>1, <1>2, <1>3, <1>4, <1>5, <1>6, <1>7

LEMMA HoldSyncStep ==
  ASSUME Faults = {}, IInv, HoldSync
  PROVE  IInv'
<1> USE DEF IInv, TypeOK, HoldSync, SyncFile, fileVars, writerVars, callVars,
            historyVars
<1>1. FileType' /\ WriterType' /\ CallType' /\ HistoryType'
  BY BoundsAssumption DEF FileType, WriterType, CallType, HistoryType, Hole,
         PCs, NoStage, Slots, Records
<1>2. Place' /\ Contents' /\ StagePages' /\ StageDurable'
  BY BoundsAssumption DEF Place, Contents, StagePages, StageDurable, StagePCs,
         WritePCs, NoStage, Slots, Records
<1>3. Acked'
  BY BoundsAssumption DEF Acked
<1>4. Pages'
  BY BoundsAssumption, SMT DEF Pages, Place, Hole, StagePCs, WritePCs, Slots
<1>5. Synced'
  BY BoundsAssumption, SMT DEF Synced, Place, StagePCs, WritePCs, Slots
<1>6. QED BY <1>1, <1>2, <1>3, <1>4, <1>5

LEMMA SyncStep ==
  ASSUME Faults = {}, IInv, Sync
  PROVE  IInv'
<1> USE DEF IInv, TypeOK, Sync, SyncFile, fileVars, writerVars, callVars,
            historyVars
<1>1. WriterType' /\ CallType' /\ HistoryType'
  BY BoundsAssumption DEF WriterType, CallType, HistoryType, PCs, StagePCs,
         NoStage, Slots, Records
<1>2. Contents'
  BY BoundsAssumption DEF WriterType, CallType, HistoryType, Contents, PCs,
         StagePCs, NoStage, Slots, Records
<1>3. StagePages' /\ StageDurable'
  BY BoundsAssumption DEF WriterType, CallType, HistoryType, StagePages,
         StageDurable, PCs, StagePCs, NoStage, Slots, Records
<1>4. Synced' /\ Acked'
  BY BoundsAssumption DEF WriterType, CallType, HistoryType, StageDurable,
         Synced, Acked, PCs, StagePCs, NoStage, Slots, Records
<1>5. FileType'
  <2>1. durable' \subseteq Slots /\ dsuper' \in 0..MaxPages \union {Torn}
    BY DEF FileType
  <2>2. QED BY <2>1 DEF FileType
<1>6. Place'
  BY BoundsAssumption, SMT DEF Place, WriterType, StagePCs, WritePCs, Slots
<1>7. Pages'
  <2>1. /\ written \in 0..MaxPages /\ ~failed /\ super' = super
        /\ super <= written /\ super \in Nat
    BY DEF Place, WriterType, StagePCs, WritePCs
  <2>2. group > 0 => \A i \in 1..written : i \in durable'
    BY <2>1, BoundsAssumption DEF Slots
  <2>3. QED BY <2>1, <2>2 DEF Pages
<1>8. QED BY <1>1, <1>2, <1>3, <1>4, <1>5, <1>6, <1>7

LEMMA SyncFailsStep ==
  ASSUME Faults = {}, IInv, SyncFails
  PROVE  IInv'
<1> USE DEF IInv, TypeOK, SyncFails, ReturnErr, SetHold, fileVars, writerVars,
            callVars, historyVars
<1>1. FileType' /\ CallType' /\ HistoryType'
  BY BoundsAssumption DEF FileType, CallType, HistoryType, Place, Hole, PCs,
         StagePCs, WritePCs, NoStage, Slots, Records
<1>2. Place'
  BY BoundsAssumption DEF FileType, CallType, HistoryType, Place, Hole, PCs,
         StagePCs, WritePCs, NoStage, Slots, Records
<1>3. Pages' /\ Contents'
  BY BoundsAssumption DEF FileType, CallType, HistoryType, Place, Pages,
         Contents, Hole, PCs, StagePCs, WritePCs, NoStage, Slots, Records
<1>4. StagePages' /\ StageDurable'
  BY BoundsAssumption DEF FileType, CallType, HistoryType, Place, Pages,
         StagePages, StageDurable, Hole, PCs, StagePCs, WritePCs, NoStage,
         Slots, Records
<1>5. Synced' /\ Acked'
  BY BoundsAssumption DEF FileType, CallType, HistoryType, Place, Pages,
         StageDurable, Synced, Acked, Hole, PCs, StagePCs, WritePCs, NoStage,
         Slots, Records
<1>6. WriterType'
  <2>1. hold' \in BOOLEAN /\ failed' \in BOOLEAN /\ skew' \in BOOLEAN
    BY Zenon DEF WriterType
  <2>2. synced' \in 0..MaxPages
    BY Zenon DEF WriterType
  <2>3. QED BY <2>1, <2>2, BoundsAssumption DEF WriterType
<1>7. QED BY <1>1, <1>2, <1>3, <1>4, <1>5, <1>6

LEMMA WriteSuperStep ==
  ASSUME Faults = {}, IInv, WriteSuper
  PROVE  IInv'
<1> USE DEF IInv, TypeOK, WriteSuper, fileVars, writerVars, callVars,
            historyVars
<1>1. WriterType' /\ CallType' /\ HistoryType'
  BY BoundsAssumption DEF WriterType, CallType, HistoryType, PCs, StagePCs,
         NoStage, Slots, Records
<1>2. Contents'
  BY BoundsAssumption DEF WriterType, CallType, HistoryType, Contents, PCs,
         StagePCs, NoStage, Slots, Records
<1>3. StagePages' /\ StageDurable'
  BY BoundsAssumption DEF WriterType, CallType, HistoryType, StagePages,
         StageDurable, PCs, StagePCs, NoStage, Slots, Records
<1>4. Synced'
  BY BoundsAssumption DEF WriterType, CallType, HistoryType, StageDurable,
         Synced, PCs, StagePCs, NoStage, Slots, Records
<1>5. FileType'
  BY BoundsAssumption, SMT DEF FileType, Place, WriterType, Hole, StagePCs,
         WritePCs, Slots, Records
<1>6. Place'
  BY BoundsAssumption, SMT DEF Place, WriterType, StagePCs, WritePCs, Slots
<1>7. Pages'
  BY BoundsAssumption, SMT DEF Pages, Place, Hole, StagePCs, WritePCs, Slots
<1>8. Acked'
  BY BoundsAssumption, SMT DEF Acked, Place, FileType, WriterType,
         HistoryType, Synced, Pages, StagePCs, WritePCs, Hole, Slots, Records
<1>9. QED BY <1>1, <1>2, <1>3, <1>4, <1>5, <1>6, <1>7, <1>8

LEMMA SyncSuperStep ==
  ASSUME Faults = {}, IInv, SyncSuper
  PROVE  IInv'
<1> USE DEF IInv, TypeOK, SyncSuper, SyncFile, fileVars, writerVars, callVars,
            historyVars
<1>1. FileType' /\ WriterType' /\ CallType' /\ HistoryType'
  BY BoundsAssumption DEF FileType, WriterType, CallType, HistoryType, Hole,
         PCs, NoStage, Slots, Records
<1>2. Place' /\ Contents' /\ StagePages' /\ StageDurable'
  BY BoundsAssumption DEF Place, Contents, StagePages, StageDurable, StagePCs,
         WritePCs, NoStage, Slots, Records
<1>3. Acked'
  BY BoundsAssumption DEF Acked
<1>4. Pages'
  BY BoundsAssumption, SMT DEF Pages, Place, Hole, StagePCs, WritePCs, Slots
<1>5. Synced'
  BY BoundsAssumption, SMT DEF Synced, Place, StagePCs, WritePCs, Slots
<1>6. QED BY <1>1, <1>2, <1>3, <1>4, <1>5

LEMMA SuperFailsStep ==
  ASSUME Faults = {}, IInv, SuperFails
  PROVE  IInv'
<1> USE DEF IInv, TypeOK, SuperFails, ReturnPoisoned, fileVars, writerVars,
            callVars, historyVars
<1>1. WriterType' /\ CallType' /\ HistoryType' /\ Contents'
  BY BoundsAssumption DEF WriterType, CallType, HistoryType, Contents, PCs,
         NoStage, Slots, Records
<1>2. StagePages' /\ StageDurable' /\ Synced'
  BY BoundsAssumption DEF StagePages, StageDurable, Synced, StagePCs, NoStage,
         Slots, Records
<1>3. FileType'
  BY BoundsAssumption, SMT DEF FileType, Place, WriterType, Hole, StagePCs,
         WritePCs, Slots, Records
<1>4. Place'
  BY BoundsAssumption, SMT DEF Place, WriterType, StagePCs, WritePCs, Slots
<1>5. Pages'
  BY BoundsAssumption, SMT DEF Pages, Place, Hole, StagePCs, WritePCs, Slots
<1>6. Acked'
  BY BoundsAssumption, SMT DEF Acked, Place, FileType, WriterType,
         HistoryType, Synced, Pages, StagePCs, WritePCs, Hole, Slots, Records
<1>7. QED BY <1>1, <1>2, <1>3, <1>4, <1>5, <1>6

LEMMA ResumeAppendStep ==
  ASSUME Faults = {}, IInv, ResumeAppend
  PROVE  IInv'
<1> USE DEF IInv, TypeOK, ResumeAppend, fileVars, writerVars, callVars,
            historyVars
<1>1. FileType' /\ CallType'
  BY BoundsAssumption DEF FileType, CallType, Place, Hole, PCs, StagePCs,
         WritePCs, NoStage, Slots, Records
<1>2. Place'
  BY BoundsAssumption DEF FileType, CallType, Place, Hole, PCs, StagePCs,
         WritePCs, NoStage, Slots, Records
<1>3. Pages'
  BY BoundsAssumption DEF FileType, CallType, Place, Pages, Hole, PCs,
         StagePCs, WritePCs, NoStage, Slots, Records
<1>4. StagePages' /\ StageDurable'
  BY BoundsAssumption DEF FileType, CallType, Place, Pages, StagePages,
         StageDurable, Hole, PCs, StagePCs, WritePCs, NoStage, Slots, Records
<1>5. Synced' /\ Acked'
  BY BoundsAssumption DEF FileType, CallType, Place, Pages, StageDurable,
         Synced, Acked, Hole, PCs, StagePCs, WritePCs, NoStage, Slots, Records
<1>6. WriterType'
  BY BoundsAssumption, SMT DEF WriterType, Place, HistoryType, StagePCs,
         WritePCs, Slots, Records
<1>7. HistoryType'
  BY BoundsAssumption, SMT DEF HistoryType, Place, StagePCs, WritePCs, Slots,
         Records
<1>8. Contents'
  BY BoundsAssumption, SMT DEF Contents, HistoryType, FileType, Hole, Slots,
         Records
<1>9. QED BY <1>1, <1>2, <1>3, <1>4, <1>5, <1>6, <1>7, <1>8

LEMMA ResumeFlushStep ==
  ASSUME Faults = {}, IInv, ResumeFlush
  PROVE  IInv'
<1> USE DEF IInv, TypeOK, ResumeFlush, fileVars, writerVars, callVars,
            historyVars
<1>1. FileType' /\ WriterType' /\ CallType' /\ HistoryType'
  BY BoundsAssumption DEF FileType, WriterType, CallType, HistoryType, Hole,
         PCs, NoStage, Slots, Records
<1>2. Place' /\ Pages' /\ Contents' /\ StagePages'
  BY BoundsAssumption DEF Place, Pages, Contents, StagePages, StagePCs,
         WritePCs, Hole, NoStage, Slots, Records
<1>3. StageDurable' /\ Synced' /\ Acked'
  BY BoundsAssumption DEF StageDurable, Synced, Acked, Slots
<1>4. QED BY <1>1, <1>2, <1>3

LEMMA ReturnOkStep ==
  ASSUME Faults = {}, IInv, ReturnOk
  PROVE  IInv'
<1> USE DEF IInv, TypeOK, ReturnOk, fileVars, writerVars, callVars,
            historyVars
<1>1. FileType' /\ WriterType' /\ CallType'
  BY BoundsAssumption DEF FileType, WriterType, CallType, Place, Hole, PCs,
         StagePCs, WritePCs, NoStage, Slots, Records
<1>2. Place'
  BY BoundsAssumption DEF FileType, WriterType, CallType, Place, Hole, PCs,
         StagePCs, WritePCs, NoStage, Slots, Records
<1>3. Pages' /\ Contents'
  BY BoundsAssumption DEF FileType, WriterType, CallType, Place, Pages,
         Contents, Hole, PCs, StagePCs, WritePCs, NoStage, Slots, Records
<1>4. StagePages' /\ StageDurable'
  BY BoundsAssumption DEF FileType, WriterType, CallType, Place, Pages,
         StagePages, StageDurable, Hole, PCs, StagePCs, WritePCs, NoStage,
         Slots, Records
<1>5. Synced'
  BY BoundsAssumption DEF FileType, WriterType, CallType, Place, Pages,
         StageDurable, Synced, Hole, PCs, StagePCs, WritePCs, NoStage, Slots,
         Records
<1>6. HistoryType'
  <2>1. Log(committed) \subseteq Records
    BY LogType DEF WriterType
  <2>2. QED BY <2>1 DEF HistoryType
<1>7. Acked'
  <2>1. ASSUME NEW r \in Log(committed), r >= born
        PROVE  \E i \in 1..super : r \in disk[i] /\ (group > 0 => i <= dsuper)
    <3>1. super = committed /\ ~failed
      BY DEF Place, StagePCs
    <3>2. PICK i \in 1..committed : r \in disk[i]
      BY DEF Log
    <3>3. group > 0 => i <= dsuper
      BY <2>1, <3>1, <3>2 DEF Synced
    <3>4. QED BY <3>1, <3>2, <3>3
  <2>2. QED BY <2>1 DEF Acked
<1>8. QED BY <1>1, <1>2, <1>3, <1>4, <1>5, <1>6, <1>7

LEMMA DiscardStep ==
  ASSUME Faults = {}, IInv, Discard
  PROVE  IInv'
<1> USE DEF IInv, TypeOK, Discard, Truncate, fileVars, writerVars, callVars,
            historyVars
<1>a. born..(next - 1) \subseteq Records
  BY BoundsAssumption DEF Records, HistoryType
<1>1. FileType' /\ CallType' /\ Place' /\ StagePages' /\ StageDurable'
  BY BoundsAssumption DEF FileType, CallType, Place, StagePages, StageDurable,
         Hole, PCs, StagePCs, WritePCs, NoStage, Slots, Records
<1>2. WriterType'
  <2>1. hold' \in BOOLEAN /\ failed' \in BOOLEAN /\ skew' \in BOOLEAN
    BY Zenon DEF WriterType
  <2>2. QED BY <2>1, BoundsAssumption DEF WriterType
<1>3. HistoryType'
  BY <1>a DEF HistoryType
<1>4. Pages'
  BY BoundsAssumption, SMT DEF Pages, Place, Hole, StagePCs, WritePCs, Slots
<1>5. Contents'
  BY BoundsAssumption, SMT DEF Contents, HistoryType, FileType, Hole, Slots,
         Records
<1>6. Synced'
  BY BoundsAssumption, SMT DEF Synced, Place, StagePCs, WritePCs, Slots
<1>7. Acked'
  BY BoundsAssumption, SMT DEF Acked, Place, StagePCs, WritePCs, Slots
<1>8. QED BY <1>1, <1>2, <1>3, <1>4, <1>5, <1>6, <1>7

LEMMA DiscardFailsStep ==
  ASSUME Faults = {}, IInv, DiscardFails
  PROVE  IInv'
<1> USE DEF IInv, TypeOK, DiscardFails, fileVars, writerVars, callVars,
            historyVars
<1>a. born..(next - 1) \subseteq Records
  BY BoundsAssumption DEF Records, HistoryType
<1>b. mode = "batch" /\ failed'
  BY DEF Place, CallType
<1>1. FileType' /\ WriterType' /\ CallType'
  BY BoundsAssumption DEF FileType, WriterType, CallType, Hole, PCs, StagePCs,
         NoStage, Slots, Records
<1>2. Contents'
  BY BoundsAssumption DEF FileType, WriterType, CallType, Contents, Hole, PCs,
         StagePCs, NoStage, Slots, Records
<1>3. StagePages' /\ StageDurable'
  BY BoundsAssumption DEF FileType, WriterType, CallType, StagePages,
         StageDurable, Hole, PCs, StagePCs, NoStage, Slots, Records
<1>4. Acked'
  BY BoundsAssumption DEF FileType, WriterType, CallType, StageDurable, Acked,
         Hole, PCs, StagePCs, NoStage, Slots, Records
<1>5. HistoryType'
  BY <1>a DEF HistoryType
<1>6. Place'
  BY <1>b DEF Place, StagePCs, WritePCs
<1>7. Pages'
  BY BoundsAssumption, SMT DEF Pages, Place, Hole, StagePCs, WritePCs, Slots
<1>8. Synced'
  BY BoundsAssumption, SMT DEF Synced, Place, StagePCs, WritePCs, Slots
<1>9. QED BY <1>1, <1>2, <1>3, <1>4, <1>5, <1>6, <1>7, <1>8

LEMMA StageStep ==
  ASSUME Faults = {}, IInv, NEW n \in Slots, NEW k \in Records, Stage(n, k)
  PROVE  IInv'
<1> USE DEF IInv, TypeOK, Stage, Usable, HasPending, fileVars, writerVars,
            callVars, historyVars
<1> DEFINE T == (written + 1)..(written + n)
           R == next..(next + k - 1)
<1>a. PICK f \in Layouts(n, k) :
        staged' = [upto |-> written + n, synced |-> committed,
                   slot |-> [r \in Records |-> IF r \in DOMAIN f THEN f[r] ELSE 0]]
  OBVIOUS
<1>b. /\ written \in Nat /\ n \in Nat \ {0} /\ k \in Nat \ {0}
      /\ next \in Nat \ {0} /\ committed \in 0..MaxPages
      /\ written + n <= MaxPages /\ next + k - 1 <= MaxRecords
  BY BoundsAssumption DEF WriterType, HistoryType, Slots, Records
<1>c. /\ f \in [R -> T] /\ DOMAIN f = R
      /\ R \subseteq Records /\ T \subseteq 1..MaxPages
  BY <1>b, BoundsAssumption DEF Layouts, Records
<1>d. \A i \in T : \E r \in R : f[r] = i
  <2> SUFFICES ASSUME NEW i \in T, {r \in R : f[r] = i} = {}
               PROVE  FALSE
    OBVIOUS
  <2>1. Cardinality({r \in DOMAIN f : f[r] = i}) \in 1..PerPage
    BY <1>a DEF Layouts
  <2>2. Cardinality({r \in DOMAIN f : f[r] = i}) = 0
    BY <1>c, FS_EmptySet
  <2>3. QED BY <2>1, <2>2, BoundsAssumption
<1>e. /\ staged'.upto = written + n
      /\ \A r \in Records : staged'.slot[r] = IF r \in R THEN f[r] ELSE 0
  BY <1>a, <1>c
<1>1. FileType'
  BY BoundsAssumption DEF FileType, Hole, Slots, Records
<1>2. HistoryType'
  BY BoundsAssumption DEF HistoryType, Records
<1>3. Pages'
  BY BoundsAssumption DEF Pages, Hole, Slots
<1>4. StageDurable'
  BY BoundsAssumption DEF StageDurable, Slots
<1>5. Synced'
  BY BoundsAssumption DEF Synced
<1>6. Acked'
  BY BoundsAssumption DEF Acked
<1>7. WriterType'
  <2>1. hold' \in BOOLEAN /\ failed' \in BOOLEAN /\ skew' \in BOOLEAN
    BY Zenon DEF WriterType
  <2>2. QED BY <1>b, <2>1, BoundsAssumption DEF WriterType
<1>8. CallType'
  <2>1. [r \in Records |-> IF r \in DOMAIN f THEN f[r] ELSE 0]
          \in [Records -> 0..MaxPages]
    BY <1>b, <1>c, BoundsAssumption
  <2>2. staged' \in [upto : 0..MaxPages, synced : 0..MaxPages,
                     slot : [Records -> 0..MaxPages]]
    BY <1>a, <1>b, <2>1, BoundsAssumption
  <2>3. QED BY <2>2 DEF CallType, PCs
<1>9. Place'
  BY BoundsAssumption, SMT DEF Place, WriterType, StagePCs, WritePCs, Slots
<1>10. Contents'
  BY BoundsAssumption, SMT DEF Contents, HistoryType, FileType, Hole, Slots,
         Records
<1>11. StagePages'
  <2>1. \A r \in Records : staged'.slot[r] # 0 => r \in R /\ staged'.slot[r] \in T
    BY <1>c, <1>e
  <2>2. \A i \in T : \E r \in Records : staged'.slot[r] = i
    BY <1>c, <1>d, <1>e
  <2>3. pos' = written + 1 /\ written' = written /\ next' = next + k
    OBVIOUS
  <2>4. QED BY <1>b, <1>e, <2>1, <2>2, <2>3 DEF StagePages
<1>12. QED BY <1>1, <1>2, <1>3, <1>4, <1>5, <1>6, <1>7, <1>8, <1>9, <1>10,
              <1>11

LEMMA StagePageStep ==
  ASSUME Faults = {}, IInv, StagePage
  PROVE  IInv'
<1> USE DEF IInv, TypeOK, StagePage, PutPage, StagedPage, GroupFull, fileVars,
            writerVars, callVars, historyVars
<1>1. CallType' /\ HistoryType'
  BY BoundsAssumption DEF CallType, HistoryType, PCs, NoStage, Slots, Records
<1>2. FileType'
  BY BoundsAssumption, SMTT(30) DEF FileType, Place, WriterType, Hole, StagePCs,
         WritePCs, Slots, Records
<1>3. WriterType'
  BY BoundsAssumption, SMTT(30) DEF WriterType, Place, FileType, HistoryType,
         CallType, StagePCs, WritePCs, Hole, PCs, Slots, Records
<1>4. Place'
  BY BoundsAssumption, SMTT(30) DEF Place, WriterType, FileType, CallType,
         HistoryType, StagePCs, WritePCs, Hole, PCs, Slots, Records
<1>5. Pages'
  BY BoundsAssumption, SMTT(30) DEF Pages, Place, WriterType, FileType, Hole,
         StagePCs, WritePCs, Slots, Records
<1>6. Contents'
  BY BoundsAssumption, SMTT(30) DEF Contents, FileType, WriterType, HistoryType,
         Place, StagePages, CallType, Hole, StagePCs, WritePCs, PCs, Slots,
         Records
<1>7. StagePages'
  BY BoundsAssumption, SMTT(30) DEF StagePages, Place, FileType, WriterType,
         HistoryType, CallType, StagePCs, WritePCs, Hole, PCs, NoStage, Slots,
         Records
<1>8. StageDurable'
  BY BoundsAssumption, SMTT(30) DEF StageDurable, Place, Pages, FileType,
         WriterType, CallType, StagePages, StagePCs, WritePCs, Hole, PCs,
         Slots, Records
<1>9. Synced'
  BY BoundsAssumption, SMTT(30) DEF Synced, Place, StagePCs, WritePCs, Slots
<1>10. Acked'
  BY BoundsAssumption, SMTT(30) DEF Acked, Place, StagePCs, WritePCs, Slots
<1>11. QED BY <1>1, <1>2, <1>3, <1>4, <1>5, <1>6, <1>7, <1>8, <1>9, <1>10

LEMMA StageSyncStep ==
  ASSUME Faults = {}, IInv, StageSync
  PROVE  IInv'
<1> USE DEF IInv, TypeOK, StageSync, SyncFile, fileVars, writerVars, callVars,
            historyVars
<1>a. staged \in [upto : 0..MaxPages, synced : 0..MaxPages,
                     slot : [Records -> 0..MaxPages]]
  BY DEF CallType
<1>b. staged'.upto = staged.upto /\ pos \in Nat /\ pos - 1 \in 0..MaxPages
  BY <1>a, BoundsAssumption DEF WriterType
<1>c. staged.upto \in Nat
  BY <1>a
<1>1. FileType' /\ WriterType' /\ HistoryType'
  BY BoundsAssumption DEF FileType, WriterType, HistoryType, Hole, StagePCs,
         NoStage, Slots, Records
<1>2. Contents'
  BY BoundsAssumption DEF FileType, WriterType, HistoryType, Contents, Hole,
         StagePCs, NoStage, Slots, Records
<1>3. StagePages'
  BY BoundsAssumption DEF FileType, WriterType, HistoryType, StagePages, Hole,
         StagePCs, NoStage, Slots, Records
<1>4. Acked'
  BY BoundsAssumption DEF FileType, WriterType, HistoryType, Acked, Hole,
         StagePCs, NoStage, Slots, Records
<1>5. CallType'
  <2>1. staged' \in [upto : 0..MaxPages, synced : 0..MaxPages,
                     slot : [Records -> 0..MaxPages]]
    BY <1>a, <1>b
  <2>2. QED BY <2>1 DEF CallType, PCs
<1>6. Place'
  BY <1>b, <1>c, SMT DEF Place, StagePCs, WritePCs
<1>7. Pages'
  BY BoundsAssumption, SMT DEF Pages, Place, Hole, StagePCs, WritePCs, Slots
<1>8. StageDurable'
  BY BoundsAssumption, SMT DEF StageDurable, CallType, PCs, Slots, Records
<1>9. Synced'
  BY BoundsAssumption, SMT DEF Synced, Place, StagePCs, WritePCs, Slots
<1>10. QED BY <1>1, <1>2, <1>3, <1>4, <1>5, <1>6, <1>7, <1>8, <1>9

LEMMA StageFailsStep ==
  ASSUME Faults = {}, IInv, StageFails
  PROVE  IInv'
<1> USE DEF IInv, TypeOK, StageFails, Truncate, StagedRecords, fileVars,
            writerVars, callVars, historyVars
<1>1. FileType' /\ CallType' /\ Place' /\ StagePages' /\ StageDurable'
  BY BoundsAssumption DEF FileType, CallType, Place, StagePages, StageDurable,
         Hole, PCs, StagePCs, WritePCs, NoStage, Slots, Records
<1>2. WriterType'
  <2>1. hold' \in BOOLEAN /\ failed' \in BOOLEAN /\ skew' \in BOOLEAN
    BY Zenon DEF WriterType
  <2>2. QED BY <2>1, BoundsAssumption DEF WriterType
<1>3. HistoryType'
  BY DEF HistoryType
<1>4. Pages'
  BY BoundsAssumption, SMT DEF Pages, Place, Hole, StagePCs, WritePCs, Slots
<1>5. Contents'
  BY BoundsAssumption, SMT DEF Contents, HistoryType, FileType, Hole, Slots,
         Records
<1>6. Synced'
  BY BoundsAssumption, SMT DEF Synced, Place, StagePCs, WritePCs, Slots
<1>7. Acked'
  BY BoundsAssumption, SMT DEF Acked, Place, StagePCs, WritePCs, Slots
<1>8. QED BY <1>1, <1>2, <1>3, <1>4, <1>5, <1>6, <1>7

LEMMA StageTruncateFailsStep ==
  ASSUME Faults = {}, IInv, StageTruncateFails
  PROVE  IInv'
<1> USE DEF IInv, TypeOK, StageTruncateFails, ReturnPoisoned, fileVars,
            writerVars, callVars, historyVars
<1>1. FileType' /\ WriterType' /\ CallType' /\ HistoryType'
  BY BoundsAssumption DEF FileType, WriterType, CallType, HistoryType, Hole,
         PCs, NoStage, Slots, Records
<1>2. Place' /\ Pages' /\ Contents' /\ StagePages'
  BY BoundsAssumption DEF Place, Pages, Contents, StagePages, StagePCs,
         WritePCs, Hole, NoStage, Slots, Records
<1>3. StageDurable' /\ Synced' /\ Acked'
  BY BoundsAssumption DEF StageDurable, Synced, Acked, Slots
<1>4. QED BY <1>1, <1>2, <1>3

LEMMA StageSuperStep ==
  ASSUME Faults = {}, IInv, StageSuper
  PROVE  IInv'
<1> USE DEF IInv, TypeOK, StageSuper, fileVars, writerVars, callVars,
            historyVars
<1>a. staged.upto \in Nat /\ super' = staged.upto
  BY DEF CallType
<1>b. pos = staged.upto + 1 /\ ~failed /\ written \in Nat
  BY <1>a DEF Place, StagePCs, WriterType
<1>1. WriterType' /\ CallType' /\ HistoryType'
  BY BoundsAssumption DEF WriterType, CallType, HistoryType, PCs, StagePCs,
         NoStage, Slots, Records
<1>2. Contents'
  BY BoundsAssumption DEF WriterType, CallType, HistoryType, Contents, PCs,
         StagePCs, NoStage, Slots, Records
<1>3. StagePages' /\ StageDurable'
  BY BoundsAssumption DEF WriterType, CallType, HistoryType, StagePages,
         StageDurable, PCs, StagePCs, NoStage, Slots, Records
<1>4. Synced'
  BY BoundsAssumption DEF WriterType, CallType, HistoryType, StageDurable,
         Synced, PCs, StagePCs, NoStage, Slots, Records
<1>5. FileType'
  BY BoundsAssumption, SMT DEF FileType, Place, WriterType, CallType,
         HistoryType, Hole, StagePCs, WritePCs, PCs, Slots, Records
<1>6. Place'
  BY BoundsAssumption, SMT DEF Place, CallType, StagePCs, WritePCs, PCs,
         Slots, Records
<1>7. Pages'
  <2>1. \A i \in (written + 1)..staged.upto : disk[i] # Hole
    BY <1>a, <1>b DEF StagePages, StagePCs, Hole
  <2>2. \A i \in 1..staged.upto : disk[i] # Hole
    BY <1>a, <1>b, <2>1 DEF Pages
  <2>3. QED BY <1>a, <1>b, <2>2 DEF Pages, StageDurable, Place
<1>8. Acked'
  BY BoundsAssumption, SMT DEF Acked, Place, FileType, WriterType,
         HistoryType, Synced, Pages, StagePages, StageDurable, CallType,
         StagePCs, WritePCs, Hole, PCs, Slots, Records
<1>9. QED BY <1>1, <1>2, <1>3, <1>4, <1>5, <1>6, <1>7, <1>8

LEMMA StageSuperSyncStep ==
  ASSUME Faults = {}, IInv, StageSuperSync
  PROVE  IInv'
<1> USE DEF IInv, TypeOK, StageSuperSync, SyncFile, fileVars, writerVars,
            callVars, historyVars
<1>1. FileType' /\ WriterType' /\ CallType' /\ HistoryType'
  BY BoundsAssumption DEF FileType, WriterType, CallType, HistoryType, Hole,
         PCs, NoStage, Slots, Records
<1>2. Place' /\ Contents' /\ StagePages' /\ StageDurable'
  BY BoundsAssumption DEF Place, Contents, StagePages, StageDurable, StagePCs,
         WritePCs, NoStage, Slots, Records
<1>3. Acked'
  BY BoundsAssumption DEF Acked
<1>4. Pages'
  BY BoundsAssumption, SMT DEF Pages, Place, Hole, StagePCs, WritePCs, Slots
<1>5. Synced'
  BY BoundsAssumption, SMT DEF Synced, Place, StagePCs, WritePCs, Slots
<1>6. QED BY <1>1, <1>2, <1>3, <1>4, <1>5

LEMMA StageSuperFailsStep ==
  ASSUME Faults = {}, IInv, StageSuperFails
  PROVE  IInv'
<1> USE DEF IInv, TypeOK, StageSuperFails, ReturnPoisoned, fileVars,
            writerVars, callVars, historyVars
<1>a. staged.upto \in Nat
  BY DEF CallType
<1>c. super' \in {super, staged.upto}
  BY Zenon
<1>b. /\ pos = staged.upto + 1 /\ ~failed /\ written \in Nat
      /\ super \in Nat /\ super <= staged.upto
  BY <1>a DEF Place, StagePCs, WriterType
<1>1. WriterType' /\ CallType' /\ HistoryType'
  BY BoundsAssumption DEF WriterType, CallType, HistoryType, PCs, StagePCs,
         NoStage, Slots, Records
<1>2. Contents'
  BY BoundsAssumption DEF WriterType, CallType, HistoryType, Contents, PCs,
         StagePCs, NoStage, Slots, Records
<1>3. StagePages' /\ StageDurable'
  BY BoundsAssumption DEF WriterType, CallType, HistoryType, StagePages,
         StageDurable, PCs, StagePCs, NoStage, Slots, Records
<1>4. Synced'
  BY BoundsAssumption DEF WriterType, CallType, HistoryType, StageDurable,
         Synced, PCs, StagePCs, NoStage, Slots, Records
<1>5. FileType'
  BY BoundsAssumption, SMT DEF FileType, Place, WriterType, CallType,
         HistoryType, Hole, StagePCs, WritePCs, PCs, Slots, Records
<1>6. Place'
  BY BoundsAssumption, SMT DEF Place, CallType, StagePCs, WritePCs, PCs,
         Slots, Records
<1>7. Pages'
  <2>1. \A i \in (written + 1)..staged.upto : disk[i] # Hole
    BY <1>a, <1>b DEF StagePages, StagePCs, Hole
  <2>2. \A i \in 1..staged.upto : disk[i] # Hole
    BY <1>a, <1>b, <2>1 DEF Pages
  <2>3. QED BY <1>a, <1>b, <1>c, <2>2 DEF Pages, StageDurable, Place
<1>8. Acked'
  BY <1>a, <1>b, <1>c DEF Acked
<1>9. QED BY <1>1, <1>2, <1>3, <1>4, <1>5, <1>6, <1>7, <1>8

LEMMA AdoptStep ==
  ASSUME Faults = {}, IInv, Adopt
  PROVE  IInv'
<1> USE DEF IInv, TypeOK, Adopt, StagedRecords, fileVars, writerVars,
            callVars, historyVars
<1>1. FileType' /\ CallType'
  BY BoundsAssumption DEF FileType, CallType, Place, Hole, PCs, StagePCs,
         WritePCs, NoStage, Slots, Records
<1>2. Place'
  BY BoundsAssumption DEF FileType, CallType, Place, Hole, PCs, StagePCs,
         WritePCs, NoStage, Slots, Records
<1>3. Contents'
  BY BoundsAssumption DEF FileType, CallType, Place, Contents, Hole, PCs,
         StagePCs, WritePCs, NoStage, Slots, Records
<1>4. StagePages' /\ StageDurable'
  BY BoundsAssumption DEF FileType, CallType, Place, StagePages, StageDurable,
         Hole, PCs, StagePCs, WritePCs, NoStage, Slots, Records
<1>5. WriterType'
  BY BoundsAssumption, SMT DEF WriterType, Place, StagePCs, WritePCs, Slots,
         Records
<1>6. HistoryType'
  BY DEF HistoryType
<1>7. Pages'
  BY BoundsAssumption, SMT DEF Pages, Place, Hole, StagePCs, WritePCs, Slots
<1>8. Synced'
  BY BoundsAssumption, SMT DEF Synced, Place, Pages, FileType, WriterType,
         HistoryType, Contents, StageDurable, StagePages, CallType, StagePCs,
         WritePCs, Hole, PCs, Slots, Records
<1>9. Acked'
  <2>1. ASSUME NEW r \in StagedRecords
        PROVE  \E i \in 1..super : r \in disk[i] /\ (group > 0 => i <= dsuper)
    <3>1. /\ pos = staged.upto + 1 /\ super = staged.upto /\ super \in Nat
          /\ group > 0 => dsuper = super
      BY DEF Place, StageDurable, StagePCs
    <3>2. /\ r \in Records /\ staged.slot[r] \in (written + 1)..staged.upto
          /\ r \in disk[staged.slot[r]]
      BY <3>1 DEF StagePages, StagePCs
    <3>3. staged.slot[r] \in 1..super
      BY <3>1, <3>2 DEF WriterType
    <3>4. QED BY <3>1, <3>2, <3>3
  <2>2. QED BY <2>1 DEF Acked
<1>10. QED BY <1>1, <1>2, <1>3, <1>4, <1>5, <1>6, <1>7, <1>8, <1>9

LEMMA AdoptFailsStep ==
  ASSUME Faults = {}, IInv, AdoptFails
  PROVE  IInv'
<1> USE DEF IInv, TypeOK, AdoptFails, ReturnPoisoned, fileVars, writerVars,
            callVars, historyVars
<1>1. FileType' /\ WriterType' /\ CallType' /\ HistoryType'
  BY BoundsAssumption DEF FileType, WriterType, CallType, HistoryType, Hole,
         PCs, NoStage, Slots, Records
<1>2. Place' /\ Pages' /\ Contents' /\ StagePages'
  BY BoundsAssumption DEF Place, Pages, Contents, StagePages, StagePCs,
         WritePCs, Hole, NoStage, Slots, Records
<1>3. StageDurable' /\ Synced' /\ Acked'
  BY BoundsAssumption DEF StageDurable, Synced, Acked, Slots
<1>4. QED BY <1>1, <1>2, <1>3

LEMMA KillStep ==
  ASSUME Faults = {}, IInv, Kill
  PROVE  IInv'
<1> USE DEF IInv, TypeOK, Kill, ProcessGone, fileVars, writerVars, callVars,
            historyVars
<1>1. FileType' /\ HistoryType' /\ Place' /\ Pages'
  BY BoundsAssumption DEF FileType, HistoryType, Place, Pages, Hole, StagePCs,
         WritePCs, Slots, Records
<1>2. Contents' /\ StagePages' /\ StageDurable' /\ Synced'
  BY BoundsAssumption DEF Contents, StagePages, StageDurable, Synced,
         StagePCs, NoStage, Slots, Records
<1>3. Acked'
  BY BoundsAssumption DEF Acked
<1>4. WriterType'
  BY GoneType
<1>5. CallType'
  BY GoneType
<1>6. QED BY <1>1, <1>2, <1>3, <1>4, <1>5

LEMMA PowerLossStep ==
  ASSUME Faults = {}, IInv, PowerLoss
  PROVE  IInv'
<1> USE DEF IInv, TypeOK, PowerLoss, ProcessGone, fileVars, writerVars,
            callVars, historyVars
<1>1. FileType' /\ HistoryType'
  BY BoundsAssumption DEF FileType, HistoryType, Place, Hole, StagePCs,
         WritePCs, NoStage, Slots, Records
<1>2. Place'
  BY BoundsAssumption DEF FileType, HistoryType, Place, Hole, StagePCs,
         WritePCs, NoStage, Slots, Records
<1>3. StagePages' /\ StageDurable'
  BY BoundsAssumption DEF FileType, HistoryType, Place, StagePages,
         StageDurable, Hole, StagePCs, WritePCs, NoStage, Slots, Records
<1>4. Synced'
  BY BoundsAssumption DEF FileType, HistoryType, Place, StageDurable, Synced,
         Hole, StagePCs, WritePCs, NoStage, Slots, Records
<1>5. WriterType'
  BY GoneType
<1>6. CallType'
  BY GoneType
<1>7. Pages'
  BY BoundsAssumption, SMT DEF Pages, Place, Hole, StagePCs, WritePCs, Slots
<1>8. Contents'
  BY BoundsAssumption, SMT DEF Contents, HistoryType, FileType, Hole, Slots,
         Records
<1>9. Acked'
  BY BoundsAssumption, SMT DEF Acked, Place, FileType, WriterType,
         HistoryType, Synced, Pages, StagePCs, WritePCs, Hole, Slots, Records
<1>10. QED BY <1>1, <1>2, <1>3, <1>4, <1>5, <1>6, <1>7, <1>8, <1>9

LEMMA OpenStep ==
  ASSUME Faults = {}, IInv, Open
  PROVE  IInv'
<1> USE DEF IInv, TypeOK, Open, Openable, fileVars, writerVars, callVars,
            historyVars
<1>1. FileType' /\ CallType'
  BY BoundsAssumption DEF FileType, CallType, Hole, PCs, NoStage, Slots,
         Records
<1>2. Place' /\ Pages'
  BY BoundsAssumption DEF Place, Pages, StagePCs, WritePCs, Hole, Slots
<1>3. Contents' /\ StagePages'
  BY BoundsAssumption DEF Contents, StagePages, StagePCs, NoStage, Slots,
         Records
<1>4. StageDurable' /\ Acked'
  BY BoundsAssumption DEF StageDurable, Acked, Slots
<1>5. WriterType'
  BY BoundsAssumption, SMT DEF WriterType, Place, StagePCs, WritePCs, Slots,
         Records
<1>6. HistoryType'
  <2>1. 1..(next - 1) \subseteq Records
    BY BoundsAssumption DEF Records, HistoryType
  <2>2. QED BY <2>1 DEF HistoryType
<1>7. Synced'
  BY BoundsAssumption, SMT DEF Synced, Place, Pages, FileType, WriterType,
         HistoryType, Contents, StagePCs, WritePCs, Hole, Slots, Records
<1>8. QED BY <1>1, <1>2, <1>3, <1>4, <1>5, <1>6, <1>7

-----------------------------------------------------------------------------
(* The initial states satisfy the invariant.                               *)
LEMMA InitIInv == Init => IInv
<1> SUFFICES ASSUME Init PROVE IInv
  OBVIOUS
<1> USE BoundsAssumption DEF Init, Slots, Records
<1>1. FileType
  BY DEF FileType, Hole
<1>2. WriterType
  <2>1. hold \in BOOLEAN /\ failed \in BOOLEAN /\ skew \in BOOLEAN
    BY Zenon
  <2>2. QED BY <2>1 DEF WriterType
<1>3. CallType
  BY NoStageType DEF CallType, PCs
<1>4. HistoryType
  BY DEF HistoryType
<1>5. Place /\ Pages /\ Contents /\ StagePages /\ StageDurable /\ Synced /\ Acked
  BY DEF Place, Pages, Contents, StagePages, StageDurable, Synced, Acked,
         Hole, StagePCs, WritePCs
<1>6. QED BY <1>1, <1>2, <1>3, <1>4, <1>5 DEF IInv, TypeOK

(* Every step keeps the invariant.                                         *)
LEMMA NextIInv ==
  ASSUME Faults = {}, IInv, [Next]_vars
  PROVE  IInv'
<1>1. CASE Next
  <2>1. CASE \E joins \in BOOLEAN : AppendUncommitted(joins) \/ Push(joins)
    BY <2>1, AppendStep, PushStep
  <2>2. CASE Flush BY <2>2, FlushStep
  <2>3. CASE StreamFlush BY <2>3, StreamFlushStep
  <2>4. CASE BeginBatch BY <2>4, BeginBatchStep
  <2>5. CASE EndBatch BY <2>5, EndBatchStep
  <2>6. CASE FailBatch BY <2>6, FailBatchStep
  <2>7. CASE BeginMigrate BY <2>7, BeginMigrateStep
  <2>8. CASE EndMigrate BY <2>8, EndMigrateStep
  <2>9. CASE WritePage BY <2>9, WritePageStep
  <2>10. CASE WritePageFails BY <2>10, WritePageFailsStep
  <2>11. CASE HoldSync BY <2>11, HoldSyncStep
  <2>12. CASE Sync BY <2>12, SyncStep
  <2>13. CASE SyncFails BY <2>13, SyncFailsStep
  <2>14. CASE WriteSuper BY <2>14, WriteSuperStep
  <2>15. CASE SyncSuper BY <2>15, SyncSuperStep
  <2>16. CASE SuperFails BY <2>16, SuperFailsStep
  <2>17. CASE ResumeAppend BY <2>17, ResumeAppendStep
  <2>18. CASE ResumeFlush BY <2>18, ResumeFlushStep
  <2>19. CASE ReturnOk BY <2>19, ReturnOkStep
  <2>20. CASE Discard BY <2>20, DiscardStep
  <2>21. CASE DiscardFails BY <2>21, DiscardFailsStep
  <2>22. CASE \E n \in Slots, k \in Records : Stage(n, k)
    BY <2>22, StageStep
  <2>23. CASE StagePage BY <2>23, StagePageStep
  <2>24. CASE StageSync BY <2>24, StageSyncStep
  <2>25. CASE StageFails BY <2>25, StageFailsStep
  <2>26. CASE StageTruncateFails BY <2>26, StageTruncateFailsStep
  <2>27. CASE StageSuper BY <2>27, StageSuperStep
  <2>28. CASE StageSuperSync BY <2>28, StageSuperSyncStep
  <2>29. CASE StageSuperFails BY <2>29, StageSuperFailsStep
  <2>30. CASE Adopt BY <2>30, AdoptStep
  <2>31. CASE AdoptFails BY <2>31, AdoptFailsStep
  <2>32. CASE Kill BY <2>32, KillStep
  <2>33. CASE PowerLoss BY <2>33, PowerLossStep
  <2>34. CASE Open BY <2>34, OpenStep
  <2>35. QED
    BY <1>1, <2>1, <2>2, <2>3, <2>4, <2>5, <2>6, <2>7, <2>8, <2>9, <2>10,
       <2>11, <2>12, <2>13, <2>14, <2>15, <2>16, <2>17, <2>18, <2>19, <2>20,
       <2>21, <2>22, <2>23, <2>24, <2>25, <2>26, <2>27, <2>28, <2>29, <2>30,
       <2>31, <2>32, <2>33, <2>34
    DEF Next
<1>2. CASE UNCHANGED vars
  <2>1. TypeOK'
    BY <1>2 DEF IInv, TypeOK, FileType, WriterType, CallType, HistoryType,
       vars, fileVars, writerVars, callVars, historyVars
  <2>2. Place' /\ Pages' /\ Contents' /\ StageDurable'
    BY <1>2 DEF IInv, Place, Pages, Contents, StageDurable,
       vars, fileVars, writerVars, callVars, historyVars
  <2>3. StagePages' /\ Synced' /\ Acked'
    BY <1>2 DEF IInv, StagePages, Synced, Acked,
       vars, fileVars, writerVars, callVars, historyVars
  <2>4. QED BY <2>1, <2>2, <2>3 DEF IInv
<1>3. QED BY <1>1, <1>2

(* The invariant says a log left behind by a process opens with every      *)
(* acknowledged record in it.                                              *)
LEMMA IInvAckedSurvive == IInv => AckedSurvive
<1> SUFFICES ASSUME IInv, pc = "down"
             PROVE  Openable /\ acked \subseteq Log(super)
  BY DEF AckedSurvive
<1>1. super \in 0..MaxPages
  BY DEF IInv, Place
<1>2. Openable
  BY <1>1, TornAssumption, BoundsAssumption DEF IInv, Pages, Openable
<1>3. acked \subseteq Log(super)
  BY DEF IInv, Acked, Log
<1>4. QED BY <1>2, <1>3

(* What the writer counts as committed and synced is what a reader that    *)
(* shares the store may rely on.                                           *)
LEMMA IInvAppliedIsDurable == IInv => AppliedIsDurable
<1> SUFFICES ASSUME IInv, ReadersMayRun, ~failed
             PROVE  /\ \A i \in 1..committed : disk[i] # Hole
                    /\ group > 0 =>
                         \A i \in 1..committed : (\E r \in disk[i] : r >= born) =>
                           i \in durable /\ i <= dsuper
  BY DEF AppliedIsDurable
<1>1. /\ pc # "down" /\ pc \notin {"super", "super_sync"}
      /\ super \in Nat /\ committed \in Nat /\ written \in Nat
      /\ staged.upto \in Nat
  BY BoundsAssumption
  DEF IInv, Place, TypeOK, WriterType, CallType, ReadersMayRun
<1>2. committed <= written /\ committed <= super
  BY <1>1 DEF IInv, Place, ReadersMayRun, StagePCs
<1>3. \A i \in 1..committed : disk[i] # Hole /\ (group > 0 => i \in durable)
  BY <1>1, <1>2 DEF IInv, Pages
<1>4. group > 0 => \A i \in 1..committed :
                     (\E r \in disk[i] : r >= born) => i <= dsuper
  BY <1>1 DEF IInv, Synced
<1>5. QED BY <1>3, <1>4

-----------------------------------------------------------------------------
(* The inductive invariant holds in every behaviour without extra faults.  *)
THEOREM Invariance == ASSUME Faults = {} PROVE Spec => []IInv
<1>1. Init => IInv
  BY InitIInv
<1>2. IInv /\ [Next]_vars => IInv'
  BY NextIInv
<1>3. QED BY <1>1, <1>2, PTL DEF Spec

(* Every variable keeps its type: the counters of log.rs stay inside the   *)
(* file and a staged commit stays inside its pages.                        *)
THEOREM TypeCorrect == ASSUME Faults = {} PROVE Spec => []TypeOK
<1>1. IInv => TypeOK
  BY DEF IInv
<1>2. QED BY <1>1, Invariance, PTL

(* Whatever stops the process or the machine, and at whatever step of a    *)
(* flush, a batch, a migration or a split commit, the log opens again and  *)
(* holds every acknowledged record (flush, commit_pending, write_staged,   *)
(* discard_pending, open_inner).                                           *)
THEOREM AcknowledgedSurvive == ASSUME Faults = {} PROVE Spec => []AckedSurvive
<1>1. QED BY IInvAckedSurvive, Invariance, PTL

(* A reader that shares the store with a split commit sees only pages that *)
(* read back, and of this process's records only synced ones               *)
(* (read_applied_pages, adopt_staged).                                     *)
THEOREM ReadersSeeOwnDurable ==
  ASSUME Faults = {} PROVE Spec => []AppliedIsDurable
<1>1. QED BY IInvAppliedIsDurable, Invariance, PTL

-----------------------------------------------------------------------------
(***************************************************************************)
(* What a reopen reads is the log the writer built, and committed pages    *)
(* are never rewritten: proofs about LogWriter for every file size, record *)
(* count, page capacity and set of sync policies, in an environment        *)
(* without the extra faults.  They build on the invariant IInv of          *)
(* LogWriterProofs, which says where the writer's counters and the file    *)
(* position stand.                                                         *)
(***************************************************************************)

(* A step that is not a power loss and leaves the pages alone, or writes   *)
(* or truncates behind the superblock.                                     *)
LEMMA WritesBehind ==
  ASSUME Faults = {}, IInv, Next
  PROVE  \A i \in 1..super : i <= super' => disk'[i] = disk[i]
<1> USE BoundsAssumption DEF IInv, TypeOK, FileType, Slots
<1>a. super \in 0..MaxPages
  BY DEF Place
<1>1. CASE WritePage
  <2>1. super < pos /\ pos \in Nat /\ ~skew
    BY <1>1 DEF WritePage, Place, WriterType, StagePCs
  <2>2. \A i \in 1..super : i # pos /\ i \in Slots
    BY <1>a, <2>1
  <2>3. QED BY <1>1, <2>1, <2>2 DEF WritePage, PutPage
<1>2. CASE StagePage
  <2>1. super < pos /\ pos \in Nat /\ ~skew
    BY <1>2 DEF StagePage, Place, WriterType, StagePCs
  <2>2. \A i \in 1..super : i # pos /\ i \in Slots
    BY <1>a, <2>1
  <2>3. QED BY <1>2, <2>1, <2>2 DEF StagePage, PutPage
<1>3. CASE Discard
  <2>1. super = committed
    BY <1>3 DEF Discard, Place, StagePCs
  <2>2. QED BY <1>a, <1>3, <2>1 DEF Discard, Truncate
<1>4. CASE StageFails
  <2>1. super = written
    BY <1>4 DEF StageFails, Place, StagePCs
  <2>2. QED BY <1>a, <1>4, <2>1 DEF StageFails, Truncate
<1>5. CASE PowerLoss
  BY <1>a, <1>5 DEF PowerLoss, Pages
<1>6. CASE UNCHANGED disk
  BY <1>6
<1>7. QED
  <2>1. CASE \E joins \in BOOLEAN : AppendUncommitted(joins) \/ Push(joins)
    BY <1>6, <2>1 DEF AppendUncommitted, Push, AppendTo, fileVars
  <2>2. CASE \E n \in Slots, k \in Records : Stage(n, k)
    BY <1>6, <2>2 DEF Stage, fileVars
  <2>3. CASE Flush \/ StreamFlush \/ BeginBatch \/ EndBatch \/ FailBatch
             \/ BeginMigrate \/ EndMigrate
    BY <1>6, <2>3 DEF Flush, StreamFlush, StartFlush, BeginBatch, EndBatch,
         FailBatch, BeginMigrate, EndMigrate, fileVars
  <2>4. CASE WritePageFails \/ HoldSync \/ Sync \/ SyncFails \/ WriteSuper
             \/ SyncSuper \/ SuperFails
    BY <1>6, <2>4 DEF WritePageFails, HoldSync, Sync, SyncFails, WriteSuper,
         SyncSuper, SuperFails, fileVars
  <2>5. CASE ResumeAppend \/ ResumeFlush \/ ReturnOk \/ DiscardFails
    BY <1>6, <2>5 DEF ResumeAppend, ResumeFlush, ReturnOk, DiscardFails, fileVars
  <2>6. CASE StageSync \/ StageTruncateFails \/ StageSuper \/ StageSuperSync
             \/ StageSuperFails \/ Adopt \/ AdoptFails
    BY <1>6, <2>6 DEF StageSync, StageTruncateFails, StageSuper,
         StageSuperSync, StageSuperFails, Adopt, AdoptFails, fileVars
  <2>7. CASE Kill \/ Open
    BY <1>6, <2>7 DEF Kill, Open, fileVars
  <2>8. QED
    BY <1>1, <1>2, <1>3, <1>4, <1>5, <2>1, <2>2, <2>3, <2>4, <2>5, <2>6, <2>7
    DEF Next

(* Pages the superblock covers are never rewritten while it covers them,   *)
(* by no write, rollback, retry, crash or reopen (flush_page,              *)
(* discard_pending, write_staged; backup.rs copies them beside the writer).*)
THEOREM CommittedPagesNeverChange ==
  ASSUME Faults = {} PROVE Spec => CommittedPagesFixed
<1>1. IInv /\ [Next]_vars =>
        [super # Torn /\ super' # Torn =>
           \A i \in 1..super : i <= super' => disk'[i] = disk[i]]_vars
  BY WritesBehind
<1>2. QED BY <1>1, Invariance, PTL DEF Spec, CommittedPagesFixed

-----------------------------------------------------------------------------
(* What a reopen reads.                                                    *)

Live == pc # "down" /\ ~failed

(* The records of the live writer, and those of its split commit.          *)
Kept == Log(written) \union buf

InFlight == IF pc \in StagePCs THEN StagedRecords ELSE {}

Whole(u, L) == u \subseteq L \/ u \cap L = {}

Sorted(n) ==
  \A i, j \in 1..n : i < j => \A r \in disk[i], s \in disk[j] : r < s

Closed(L) == \A r \in L : \A s \in 1..r : s \in L \union dropped

(* The first n pages are a log a reopen may find.                          *)
Good(n) ==
  /\ Sorted(n) /\ Closed(Log(n)) /\ Log(n) \cap dropped = {}
  /\ \A u \in units : Whole(u, Log(n))

(* Which calls run under a hold, and when the buffered page is empty.      *)
Phase ==
  /\ pc \in (WritePCs \ {"page"}) \union {"down"} => buf = {}
  /\ pc = "down" \/ failed \/ pc \in StagePCs => mode = "single"
  /\ mode # "single" /\ hold =>
       \/ pc \in {"idle", "abort"}
       \/ op = "append" /\ pc \in {"page", "hold_sync", "resume"}
  /\ mode # "single" /\ ~hold =>
       pc = "abort" \/ (op = "flush" /\ mode = "batch" /\ pc \in WritePCs)
  /\ pc = "abort" => mode # "single"

(* Nothing is dropped or committed before it has been appended.            *)
Fresh ==
  /\ born <= next
  /\ \A r \in dropped : r < next
  /\ \A u \in units : \A r \in u : r < next

(* Each commit point that can be found is a good one.                      *)
Covered == Good(super) /\ Good(dsuper) /\ (Live => Good(committed))

(* Behind it, records wait in append order, none is lost and none is a     *)
(* dropped one; units and the open batch wait whole.                       *)
Waiting ==
  Live =>
    /\ Sorted(written)
    /\ \A r \in Log(written) : \A s \in buf \union InFlight : r < s
    /\ \A r \in 1..(next - 1) : r \in Kept \union InFlight \union dropped
    /\ \A r \in 1..(born - 1) : r \in Log(committed) \union dropped
    /\ (Kept \union InFlight) \cap dropped = {}

WaitingUnits ==
  Live =>
    /\ \A u \in units : Whole(u, Kept) /\ (u = InFlight \/ u \cap InFlight = {})
    /\ mode # "single" =>
         batch \subseteq Kept /\ (hold => batch \cap Log(committed) = {})
    /\ pc \in StagePCs =>
         \A r, s \in StagedRecords : r < s => staged.slot[r] <= staged.slot[s]

RInv == Phase /\ Fresh /\ Covered /\ Waiting /\ WaitingUnits

-----------------------------------------------------------------------------
(* Facts about logs.                                                       *)

LEMMA SameLog ==
  ASSUME NEW n, \A i \in 1..n : disk'[i] = disk[i]
  PROVE  Log(n)' = Log(n) /\ (Sorted(n) => Sorted(n)')
BY DEF Log, Sorted

LEMMA ShorterLog ==
  ASSUME NEW m \in Nat, NEW n \in Nat, m <= n
  PROVE  Log(m) \subseteq Log(n)
BY DEF Log

(* A good prefix stays good while its pages do, as long as nothing in it   *)
(* is dropped and the units that are named lie behind it.                  *)
LEMMA StaysGood ==
  ASSUME NEW n, Good(n), \A i \in 1..n : disk'[i] = disk[i],
         dropped \subseteq dropped', Log(n) \cap dropped' = {},
         \A u \in units' : u \in units \/ u \cap Log(n) = {}
  PROVE  Good(n)'
<1>1. Log(n)' = Log(n) /\ Sorted(n)'
  BY SameLog DEF Good
<1>2. Closed(Log(n))'
  BY <1>1 DEF Good, Closed
<1>3. \A u \in units' : Whole(u, Log(n)')
  BY <1>1 DEF Good, Whole
<1>4. QED BY <1>1, <1>2, <1>3 DEF Good

(* A step that changes neither the pages nor what is known of records, and *)
(* at most syncs the superblock, calls or returns.                         *)
LEMMA QuietStep ==
  ASSUME RInv, UNCHANGED <<disk, super, next, born, dropped, units>>,
         dsuper' \in {dsuper, super}, Phase',
         Live' => /\ Live /\ UNCHANGED <<buf, written, committed>>
                  /\ InFlight' = InFlight,
         Live' /\ pc' \in StagePCs => pc \in StagePCs /\ staged'.slot = staged.slot,
         Live' /\ mode' # "single" =>
           batch' = {} \/ (batch' = batch /\ mode # "single" /\ (hold' => hold))
  PROVE  RInv'
<1>1. \A n : Good(n) => Good(n)'
  <2> SUFFICES ASSUME NEW n, Good(n) PROVE Good(n)'
    OBVIOUS
  <2>1. Log(n) \cap dropped' = {}
    BY DEF Good
  <2>2. QED BY <2>1, StaysGood
<1>2. \A n : Log(n)' = Log(n) /\ (Sorted(n) => Sorted(n)')
  BY SameLog
<1>3. Fresh'
  BY DEF RInv, Fresh
<1>4. Covered'
  BY <1>1 DEF RInv, Covered
<1>5. Live' => Kept' = Kept
  BY <1>2 DEF Kept
<1>6. Waiting'
  BY <1>2, <1>5 DEF RInv, Waiting
<1>7. WaitingUnits'
  BY <1>2, <1>5 DEF RInv, WaitingUnits, StagedRecords
<1>8. QED BY <1>3, <1>4, <1>6, <1>7 DEF RInv

-----------------------------------------------------------------------------
(* One lemma per action: it keeps the invariant.  First the quiet ones.    *)

LEMMA FlushRecovers ==
  ASSUME Faults = {}, IInv, RInv, Flush
  PROVE  RInv'
<1> USE DEF Flush, StartFlush, Usable, SetHold, fileVars, writerVars,
            callVars, historyVars
<1>1. UNCHANGED <<disk, super, next, born, dropped, units>> /\ dsuper' \in {dsuper, super}
  OBVIOUS
<1>2. Phase'
  BY DEF RInv, Phase, WritePCs, StagePCs
<1>3. Live' => /\ Live /\ UNCHANGED <<buf, written, committed>>
               /\ InFlight' = InFlight
  BY DEF Live, InFlight, StagePCs, StagedRecords
<1>4. Live' /\ pc' \in StagePCs => pc \in StagePCs /\ staged'.slot = staged.slot
  BY DEF Live, StagePCs
<1>5. Live' /\ mode' # "single" =>
        batch' = {} \/ (batch' = batch /\ mode # "single" /\ (hold' => hold))
  BY DEF RInv, Phase, Live, WritePCs, StagePCs
<1>6. QED BY <1>1, <1>2, <1>3, <1>4, <1>5, QuietStep

LEMMA StreamFlushRecovers ==
  ASSUME Faults = {}, IInv, RInv, StreamFlush
  PROVE  RInv'
<1> USE DEF StreamFlush, StartFlush, Usable, SetHold, fileVars, writerVars,
            callVars, historyVars
<1>1. UNCHANGED <<disk, super, next, born, dropped, units>> /\ dsuper' \in {dsuper, super}
  OBVIOUS
<1>2. Phase'
  BY DEF RInv, Phase, WritePCs, StagePCs
<1>3. Live' => /\ Live /\ UNCHANGED <<buf, written, committed>>
               /\ InFlight' = InFlight
  BY DEF Live, InFlight, StagePCs, StagedRecords
<1>4. Live' /\ pc' \in StagePCs => pc \in StagePCs /\ staged'.slot = staged.slot
  BY DEF Live, StagePCs
<1>5. Live' /\ mode' # "single" =>
        batch' = {} \/ (batch' = batch /\ mode # "single" /\ (hold' => hold))
  BY DEF RInv, Phase, Live, WritePCs, StagePCs
<1>6. QED BY <1>1, <1>2, <1>3, <1>4, <1>5, QuietStep

LEMMA BeginBatchRecovers ==
  ASSUME Faults = {}, IInv, RInv, BeginBatch
  PROVE  RInv'
<1> USE DEF BeginBatch, Usable, SetHold, fileVars, writerVars,
            callVars, historyVars
<1>1. UNCHANGED <<disk, super, next, born, dropped, units>> /\ dsuper' \in {dsuper, super}
  OBVIOUS
<1>2. Phase'
  BY DEF RInv, Phase, WritePCs, StagePCs
<1>3. Live' => /\ Live /\ UNCHANGED <<buf, written, committed>>
               /\ InFlight' = InFlight
  BY DEF Live, InFlight, StagePCs, StagedRecords
<1>4. Live' /\ pc' \in StagePCs => pc \in StagePCs /\ staged'.slot = staged.slot
  BY DEF Live, StagePCs
<1>5. Live' /\ mode' # "single" =>
        batch' = {} \/ (batch' = batch /\ mode # "single" /\ (hold' => hold))
  BY DEF RInv, Phase, Live, WritePCs, StagePCs
<1>6. QED BY <1>1, <1>2, <1>3, <1>4, <1>5, QuietStep

LEMMA FailBatchRecovers ==
  ASSUME Faults = {}, IInv, RInv, FailBatch
  PROVE  RInv'
<1> USE DEF FailBatch, Usable, ReturnErr, SetHold, fileVars, writerVars,
            callVars, historyVars
<1>1. UNCHANGED <<disk, super, next, born, dropped, units>> /\ dsuper' \in {dsuper, super}
  OBVIOUS
<1>2. Phase'
  BY DEF RInv, Phase, WritePCs, StagePCs
<1>3. Live' => /\ Live /\ UNCHANGED <<buf, written, committed>>
               /\ InFlight' = InFlight
  BY DEF Live, InFlight, StagePCs, StagedRecords
<1>4. Live' /\ pc' \in StagePCs => pc \in StagePCs /\ staged'.slot = staged.slot
  BY DEF Live, StagePCs
<1>5. Live' /\ mode' # "single" =>
        batch' = {} \/ (batch' = batch /\ mode # "single" /\ (hold' => hold))
  BY DEF RInv, Phase, Live, WritePCs, StagePCs
<1>6. QED BY <1>1, <1>2, <1>3, <1>4, <1>5, QuietStep

LEMMA BeginMigrateRecovers ==
  ASSUME Faults = {}, IInv, RInv, BeginMigrate
  PROVE  RInv'
<1> USE DEF BeginMigrate, Usable, SetHold, fileVars, writerVars,
            callVars, historyVars
<1>1. UNCHANGED <<disk, super, next, born, dropped, units>> /\ dsuper' \in {dsuper, super}
  OBVIOUS
<1>2. Phase'
  BY DEF RInv, Phase, WritePCs, StagePCs
<1>3. Live' => /\ Live /\ UNCHANGED <<buf, written, committed>>
               /\ InFlight' = InFlight
  BY DEF Live, InFlight, StagePCs, StagedRecords
<1>4. Live' /\ pc' \in StagePCs => pc \in StagePCs /\ staged'.slot = staged.slot
  BY DEF Live, StagePCs
<1>5. Live' /\ mode' # "single" =>
        batch' = {} \/ (batch' = batch /\ mode # "single" /\ (hold' => hold))
  BY DEF RInv, Phase, Live, WritePCs, StagePCs
<1>6. QED BY <1>1, <1>2, <1>3, <1>4, <1>5, QuietStep

LEMMA WritePageFailsRecovers ==
  ASSUME Faults = {}, IInv, RInv, WritePageFails
  PROVE  RInv'
<1> USE DEF WritePageFails, ReturnErr, SetHold, fileVars, writerVars,
            callVars, historyVars
<1>1. UNCHANGED <<disk, super, next, born, dropped, units>> /\ dsuper' \in {dsuper, super}
  OBVIOUS
<1>2. Phase'
  BY DEF RInv, Phase, WritePCs, StagePCs
<1>3. Live' => /\ Live /\ UNCHANGED <<buf, written, committed>>
               /\ InFlight' = InFlight
  BY DEF Live, InFlight, StagePCs, StagedRecords
<1>4. Live' /\ pc' \in StagePCs => pc \in StagePCs /\ staged'.slot = staged.slot
  BY DEF Live, StagePCs
<1>5. Live' /\ mode' # "single" =>
        batch' = {} \/ (batch' = batch /\ mode # "single" /\ (hold' => hold))
  BY DEF RInv, Phase, Live, WritePCs, StagePCs
<1>6. QED BY <1>1, <1>2, <1>3, <1>4, <1>5, QuietStep

LEMMA HoldSyncRecovers ==
  ASSUME Faults = {}, IInv, RInv, HoldSync
  PROVE  RInv'
<1> USE DEF HoldSync, SyncFile, SetHold, fileVars, writerVars,
            callVars, historyVars
<1>1. UNCHANGED <<disk, super, next, born, dropped, units>> /\ dsuper' \in {dsuper, super}
  OBVIOUS
<1>2. Phase'
  BY DEF RInv, Phase, WritePCs, StagePCs
<1>3. Live' => /\ Live /\ UNCHANGED <<buf, written, committed>>
               /\ InFlight' = InFlight
  BY DEF Live, InFlight, StagePCs, StagedRecords
<1>4. Live' /\ pc' \in StagePCs => pc \in StagePCs /\ staged'.slot = staged.slot
  BY DEF Live, StagePCs
<1>5. Live' /\ mode' # "single" =>
        batch' = {} \/ (batch' = batch /\ mode # "single" /\ (hold' => hold))
  BY DEF RInv, Phase, Live, WritePCs, StagePCs
<1>6. QED BY <1>1, <1>2, <1>3, <1>4, <1>5, QuietStep

LEMMA SyncFailsRecovers ==
  ASSUME Faults = {}, IInv, RInv, SyncFails
  PROVE  RInv'
<1> USE DEF SyncFails, ReturnErr, SetHold, fileVars, writerVars,
            callVars, historyVars
<1>1. UNCHANGED <<disk, super, next, born, dropped, units>> /\ dsuper' \in {dsuper, super}
  OBVIOUS
<1>2. Phase'
  BY DEF RInv, Phase, WritePCs, StagePCs
<1>3. Live' => /\ Live /\ UNCHANGED <<buf, written, committed>>
               /\ InFlight' = InFlight
  BY DEF Live, InFlight, StagePCs, StagedRecords
<1>4. Live' /\ pc' \in StagePCs => pc \in StagePCs /\ staged'.slot = staged.slot
  BY DEF Live, StagePCs
<1>5. Live' /\ mode' # "single" =>
        batch' = {} \/ (batch' = batch /\ mode # "single" /\ (hold' => hold))
  BY DEF RInv, Phase, Live, WritePCs, StagePCs
<1>6. QED BY <1>1, <1>2, <1>3, <1>4, <1>5, QuietStep

LEMMA SyncSuperRecovers ==
  ASSUME Faults = {}, IInv, RInv, SyncSuper
  PROVE  RInv'
<1> USE DEF SyncSuper, SyncFile, SetHold, fileVars, writerVars,
            callVars, historyVars
<1>1. UNCHANGED <<disk, super, next, born, dropped, units>> /\ dsuper' \in {dsuper, super}
  OBVIOUS
<1>2. Phase'
  BY DEF RInv, Phase, WritePCs, StagePCs
<1>3. Live' => /\ Live /\ UNCHANGED <<buf, written, committed>>
               /\ InFlight' = InFlight
  BY DEF Live, InFlight, StagePCs, StagedRecords
<1>4. Live' /\ pc' \in StagePCs => pc \in StagePCs /\ staged'.slot = staged.slot
  BY DEF Live, StagePCs
<1>5. Live' /\ mode' # "single" =>
        batch' = {} \/ (batch' = batch /\ mode # "single" /\ (hold' => hold))
  BY DEF RInv, Phase, Live, WritePCs, StagePCs
<1>6. QED BY <1>1, <1>2, <1>3, <1>4, <1>5, QuietStep

LEMMA ResumeFlushRecovers ==
  ASSUME Faults = {}, IInv, RInv, ResumeFlush
  PROVE  RInv'
<1> USE DEF ResumeFlush, SetHold, fileVars, writerVars,
            callVars, historyVars
<1>1. UNCHANGED <<disk, super, next, born, dropped, units>> /\ dsuper' \in {dsuper, super}
  OBVIOUS
<1>2. Phase'
  BY DEF RInv, Phase, WritePCs, StagePCs
<1>3. Live' => /\ Live /\ UNCHANGED <<buf, written, committed>>
               /\ InFlight' = InFlight
  BY DEF Live, InFlight, StagePCs, StagedRecords
<1>4. Live' /\ pc' \in StagePCs => pc \in StagePCs /\ staged'.slot = staged.slot
  BY DEF Live, StagePCs
<1>5. Live' /\ mode' # "single" =>
        batch' = {} \/ (batch' = batch /\ mode # "single" /\ (hold' => hold))
  BY DEF RInv, Phase, Live, WritePCs, StagePCs
<1>6. QED BY <1>1, <1>2, <1>3, <1>4, <1>5, QuietStep

LEMMA ReturnOkRecovers ==
  ASSUME Faults = {}, IInv, RInv, ReturnOk
  PROVE  RInv'
<1> USE DEF ReturnOk, SetHold, fileVars, writerVars,
            callVars, historyVars
<1>1. UNCHANGED <<disk, super, next, born, dropped, units>> /\ dsuper' \in {dsuper, super}
  OBVIOUS
<1>2. Phase'
  BY DEF RInv, Phase, WritePCs, StagePCs
<1>3. Live' => /\ Live /\ UNCHANGED <<buf, written, committed>>
               /\ InFlight' = InFlight
  BY DEF Live, InFlight, StagePCs, StagedRecords
<1>4. Live' /\ pc' \in StagePCs => pc \in StagePCs /\ staged'.slot = staged.slot
  BY DEF Live, StagePCs
<1>5. Live' /\ mode' # "single" =>
        batch' = {} \/ (batch' = batch /\ mode # "single" /\ (hold' => hold))
  BY DEF RInv, Phase, Live, WritePCs, StagePCs
<1>6. QED BY <1>1, <1>2, <1>3, <1>4, <1>5, QuietStep

LEMMA StageTruncateFailsRecovers ==
  ASSUME Faults = {}, IInv, RInv, StageTruncateFails
  PROVE  RInv'
<1> USE DEF StageTruncateFails, ReturnPoisoned, SetHold, fileVars, writerVars,
            callVars, historyVars
<1>1. UNCHANGED <<disk, super, next, born, dropped, units>> /\ dsuper' \in {dsuper, super}
  OBVIOUS
<1>2. Phase'
  BY DEF RInv, Phase, WritePCs, StagePCs
<1>3. Live' => /\ Live /\ UNCHANGED <<buf, written, committed>>
               /\ InFlight' = InFlight
  BY DEF Live, InFlight, StagePCs, StagedRecords
<1>4. Live' /\ pc' \in StagePCs => pc \in StagePCs /\ staged'.slot = staged.slot
  BY DEF Live, StagePCs
<1>5. Live' /\ mode' # "single" =>
        batch' = {} \/ (batch' = batch /\ mode # "single" /\ (hold' => hold))
  BY DEF RInv, Phase, Live, WritePCs, StagePCs
<1>6. QED BY <1>1, <1>2, <1>3, <1>4, <1>5, QuietStep

LEMMA StageSyncRecovers ==
  ASSUME Faults = {}, IInv, RInv, StageSync
  PROVE  RInv'
<1> USE DEF StageSync, SyncFile, SetHold, fileVars, writerVars,
            callVars, historyVars
<1>1. UNCHANGED <<disk, super, next, born, dropped, units>> /\ dsuper' \in {dsuper, super}
  OBVIOUS
<1>2. Phase'
  BY DEF RInv, Phase, WritePCs, StagePCs
<1>3. Live' => /\ Live /\ UNCHANGED <<buf, written, committed>>
               /\ InFlight' = InFlight
  BY DEF Live, InFlight, StagePCs, StagedRecords
<1>4. Live' /\ pc' \in StagePCs => pc \in StagePCs /\ staged'.slot = staged.slot
  BY DEF Live, StagePCs
<1>5. Live' /\ mode' # "single" =>
        batch' = {} \/ (batch' = batch /\ mode # "single" /\ (hold' => hold))
  BY DEF RInv, Phase, Live, WritePCs, StagePCs
<1>6. QED BY <1>1, <1>2, <1>3, <1>4, <1>5, QuietStep

LEMMA StageSuperSyncRecovers ==
  ASSUME Faults = {}, IInv, RInv, StageSuperSync
  PROVE  RInv'
<1> USE DEF StageSuperSync, SyncFile, SetHold, fileVars, writerVars,
            callVars, historyVars
<1>1. UNCHANGED <<disk, super, next, born, dropped, units>> /\ dsuper' \in {dsuper, super}
  OBVIOUS
<1>2. Phase'
  BY DEF RInv, Phase, WritePCs, StagePCs
<1>3. Live' => /\ Live /\ UNCHANGED <<buf, written, committed>>
               /\ InFlight' = InFlight
  BY DEF Live, InFlight, StagePCs, StagedRecords
<1>4. Live' /\ pc' \in StagePCs => pc \in StagePCs /\ staged'.slot = staged.slot
  BY DEF Live, StagePCs
<1>5. Live' /\ mode' # "single" =>
        batch' = {} \/ (batch' = batch /\ mode # "single" /\ (hold' => hold))
  BY DEF RInv, Phase, Live, WritePCs, StagePCs
<1>6. QED BY <1>1, <1>2, <1>3, <1>4, <1>5, QuietStep

LEMMA AdoptFailsRecovers ==
  ASSUME Faults = {}, IInv, RInv, AdoptFails
  PROVE  RInv'
<1> USE DEF AdoptFails, ReturnPoisoned, SetHold, fileVars, writerVars,
            callVars, historyVars
<1>1. UNCHANGED <<disk, super, next, born, dropped, units>> /\ dsuper' \in {dsuper, super}
  OBVIOUS
<1>2. Phase'
  BY DEF RInv, Phase, WritePCs, StagePCs
<1>3. Live' => /\ Live /\ UNCHANGED <<buf, written, committed>>
               /\ InFlight' = InFlight
  BY DEF Live, InFlight, StagePCs, StagedRecords
<1>4. Live' /\ pc' \in StagePCs => pc \in StagePCs /\ staged'.slot = staged.slot
  BY DEF Live, StagePCs
<1>5. Live' /\ mode' # "single" =>
        batch' = {} \/ (batch' = batch /\ mode # "single" /\ (hold' => hold))
  BY DEF RInv, Phase, Live, WritePCs, StagePCs
<1>6. QED BY <1>1, <1>2, <1>3, <1>4, <1>5, QuietStep

LEMMA KillRecovers ==
  ASSUME Faults = {}, IInv, RInv, Kill
  PROVE  RInv'
<1> USE DEF Kill, ProcessGone, SetHold, fileVars, writerVars,
            callVars, historyVars
<1>1. UNCHANGED <<disk, super, next, born, dropped, units>> /\ dsuper' \in {dsuper, super}
  OBVIOUS
<1>2. Phase'
  BY DEF RInv, Phase, WritePCs, StagePCs
<1>3. Live' => /\ Live /\ UNCHANGED <<buf, written, committed>>
               /\ InFlight' = InFlight
  BY DEF Live, InFlight, StagePCs, StagedRecords
<1>4. Live' /\ pc' \in StagePCs => pc \in StagePCs /\ staged'.slot = staged.slot
  BY DEF Live, StagePCs
<1>5. Live' /\ mode' # "single" =>
        batch' = {} \/ (batch' = batch /\ mode # "single" /\ (hold' => hold))
  BY DEF RInv, Phase, Live, WritePCs, StagePCs
<1>6. QED BY <1>1, <1>2, <1>3, <1>4, <1>5, QuietStep

-----------------------------------------------------------------------------
(* Steps that append a record.                                             *)

LEMMA LogBelowNext ==
  ASSUME IInv, NEW n \in 0..MaxPages
  PROVE  \A r \in Log(n) : r \in Records /\ r < next
<1>1. \A i \in 1..n : i \in Slots
  BY BoundsAssumption DEF Slots
<1>2. QED BY <1>1 DEF IInv, Contents, TypeOK, FileType, Log

LEMMA NewRecord ==
  ASSUME IInv, RInv, UNCHANGED <<fileVars, born, dropped, units, written, committed>>,
         Live, Live', pc \notin StagePCs, pc' \notin StagePCs, Phase',
         next' = next + 1, buf' = buf \union {next}, UNCHANGED mode,
         batch' = IF mode = "single" THEN batch ELSE batch \union {next},
         mode # "single" => (hold' => hold)
  PROVE  RInv'
<1>1. next \in Nat /\ written \in 0..MaxPages /\ committed \in 0..MaxPages
      /\ buf \subseteq Nat /\ born \in Nat
  BY BoundsAssumption DEF IInv, TypeOK, HistoryType, WriterType, Records
<1>2. \A n : Log(n)' = Log(n) /\ (Sorted(n) => Sorted(n)')
  BY SameLog DEF fileVars
<1>3. \A n : Good(n) => Good(n)'
  <2> SUFFICES ASSUME NEW n, Good(n) PROVE Good(n)'
    OBVIOUS
  <2>1. Log(n) \cap dropped' = {}
    BY DEF Good
  <2>2. QED BY <2>1, StaysGood DEF fileVars
<1>4. Kept' = Kept \union {next}
  BY <1>2 DEF Kept
<1>5. InFlight = {} /\ InFlight' = {}
  BY DEF InFlight
<1>6. \A r \in Kept : r \in Nat /\ r < next
  <2>1. \A r \in Log(written) : r \in Nat /\ r < next
    BY <1>1, LogBelowNext, BoundsAssumption DEF Records
  <2>2. \A r \in buf : r \in Nat /\ r < next
    BY <1>1 DEF IInv, Contents
  <2>3. QED BY <2>1, <2>2 DEF Kept
<1>7. /\ next \notin dropped /\ \A u \in units : next \notin u
      /\ next \notin Log(committed)
  <2>1. \A r \in Log(committed) : r < next
    BY <1>1, LogBelowNext
  <2>2. QED BY <1>1, <2>1 DEF RInv, Fresh
<1>8. Fresh'
  <2>1. dropped \subseteq Records /\ \A u \in units : u \subseteq Records
    BY DEF IInv, TypeOK, HistoryType
  <2>2. \A r \in Records : r < next => r < next + 1
    BY <1>1, BoundsAssumption DEF Records
  <2>3. QED BY <1>1, <2>1, <2>2 DEF RInv, Fresh
<1>9. Covered'
  BY <1>3 DEF RInv, Covered, fileVars
<1>10. Waiting'
  <2>1. Sorted(written)' /\ \A r \in 1..(born - 1) : r \in Log(committed)' \union dropped
    BY <1>2 DEF RInv, Waiting
  <2>2. \A r \in Log(written)' : \A t \in buf' \union InFlight' : r < t
    BY <1>2, <1>5, <1>6 DEF RInv, Waiting, Kept
  <2>3. \A r \in 1..(next' - 1) : r \in Kept' \union InFlight' \union dropped
    BY <1>1, <1>4, <1>5 DEF RInv, Waiting
  <2>4. (Kept' \union InFlight') \cap dropped = {}
    BY <1>4, <1>5, <1>7 DEF RInv, Waiting
  <2>5. QED BY <1>2, <2>1, <2>2, <2>3, <2>4 DEF Waiting
<1>11. WaitingUnits'
  <2>1. \A u \in units : Whole(u, Kept') /\ (u = InFlight' \/ u \cap InFlight' = {})
    BY <1>4, <1>5, <1>7 DEF RInv, WaitingUnits, Whole
  <2>2. mode # "single" =>
          batch' \subseteq Kept' /\ (hold' => batch' \cap Log(committed)' = {})
    BY <1>2, <1>4, <1>7 DEF RInv, WaitingUnits
  <2>3. QED BY <2>1, <2>2 DEF WaitingUnits
<1>12. QED BY <1>8, <1>9, <1>10, <1>11 DEF RInv

LEMMA AppendRecovers ==
  ASSUME Faults = {}, IInv, RInv, NEW h \in BOOLEAN, NEW joins \in BOOLEAN,
         AppendTo(h, joins), h => mode = "single"
  PROVE  RInv'
<1> USE DEF AppendTo, Usable, SetHold, fileVars
<1>1. Phase'
  BY DEF RInv, Phase, WritePCs, StagePCs
<1>2. mode # "single" => (hold' => hold)
  OBVIOUS
<1>3. CASE buf' = buf \union {next} /\ next' = next + 1 /\ UNCHANGED pc
           /\ batch' = IF mode = "single" THEN batch ELSE batch \union {next}
  BY <1>1, <1>2, <1>3, NewRecord DEF Live, StagePCs
<1>4. CASE pc' = "page" /\ UNCHANGED <<buf, next, batch>>
  BY <1>1, <1>2, <1>4, QuietStep DEF Live, InFlight, StagePCs
<1>5. QED BY <1>3, <1>4

LEMMA ResumeAppendRecovers ==
  ASSUME Faults = {}, IInv, RInv, ResumeAppend
  PROVE  RInv'
<1> USE DEF ResumeAppend
<1>1. Phase'
  BY DEF RInv, Phase, WritePCs, StagePCs
<1>2. buf = {} /\ Live /\ Live'
  BY DEF RInv, Phase, WritePCs, Live, IInv, Place
<1>3. QED BY <1>1, <1>2, NewRecord DEF fileVars, StagePCs

-----------------------------------------------------------------------------
(* Steps that name a unit.                                                 *)

LEMMA NewUnit ==
  ASSUME IInv, RInv, UNCHANGED <<fileVars, next, born, dropped, written, committed, buf>>,
         Live, Live', pc = "idle", pc' \notin StagePCs, Phase',
         mode # "single", hold, units' = units \union {batch},
         batch' = {} \/ (batch' = batch /\ ~hold')
  PROVE  RInv'
<1>1. /\ super = committed /\ dsuper \in 0..super /\ super \in 0..MaxPages
      /\ written \in 0..MaxPages
  BY DEF IInv, Place, Live, StagePCs, TypeOK, WriterType
<1>2. batch \subseteq Kept /\ batch \cap Log(committed) = {}
  BY DEF RInv, WaitingUnits
<1>3. batch \cap Log(super) = {} /\ batch \cap Log(dsuper) = {}
  <2>1. Log(dsuper) \subseteq Log(super)
    BY <1>1, ShorterLog, BoundsAssumption
  <2>2. QED BY <1>1, <1>2, <2>1
<1>4. \A r \in batch : r < next
  <2>1. \A r \in Log(written) : r < next
    BY <1>1, LogBelowNext
  <2>2. QED BY <1>2, <2>1 DEF Kept, IInv, Contents
<1>5. \A n : Log(n)' = Log(n) /\ (Sorted(n) => Sorted(n)')
  BY SameLog DEF fileVars
<1>6. \A n : Good(n) /\ batch \cap Log(n) = {} => Good(n)'
  <2> SUFFICES ASSUME NEW n, Good(n), batch \cap Log(n) = {} PROVE Good(n)'
    OBVIOUS
  <2>1. Log(n) \cap dropped' = {}
    BY DEF Good
  <2>2. QED BY <2>1, StaysGood DEF fileVars
<1>7. Covered'
  BY <1>2, <1>3, <1>6 DEF RInv, Covered, fileVars
<1>8. Fresh'
  BY <1>4 DEF RInv, Fresh
<1>9. Kept' = Kept /\ InFlight = {} /\ InFlight' = {}
  BY <1>5 DEF Kept, InFlight, StagePCs
<1>10. Waiting'
  BY <1>5, <1>9 DEF RInv, Waiting
<1>11. WaitingUnits'
  <2>1. Whole(batch, Kept)
    BY <1>2 DEF Whole
  <2>2. QED BY <1>2, <1>5, <1>9, <2>1 DEF RInv, WaitingUnits
<1>12. QED BY <1>7, <1>8, <1>10, <1>11 DEF RInv

LEMMA EndBatchRecovers ==
  ASSUME Faults = {}, IInv, RInv, EndBatch
  PROVE  RInv'
<1> USE DEF EndBatch, StartFlush, Usable, SetHold
<1>1. hold
  BY DEF RInv, Phase, WritePCs
<1>2. Phase' /\ Live /\ Live' /\ pc' \notin StagePCs
  BY <1>1 DEF RInv, Phase, Live, WritePCs, StagePCs
<1>3. ~hold'
  BY <1>1
<1>4. QED BY <1>1, <1>2, <1>3, NewUnit

LEMMA EndMigrateRecovers ==
  ASSUME Faults = {}, IInv, RInv, EndMigrate
  PROVE  RInv'
<1> USE DEF EndMigrate, Usable, SetHold
<1>1. hold
  BY DEF RInv, Phase, WritePCs
<1>2. Phase' /\ Live /\ Live' /\ pc' \notin StagePCs
  BY <1>1 DEF RInv, Phase, Live, WritePCs, StagePCs
<1>3. QED BY <1>1, <1>2, NewUnit

-----------------------------------------------------------------------------
(* Steps that write the superblock.                                        *)

(* The commit point moves to a good one, and at most that is known.        *)
LEMMA NewSuper ==
  ASSUME RInv, UNCHANGED <<disk, dsuper, next, born, dropped, units>>,
         Good(super'), Phase',
         Live' => /\ Live /\ UNCHANGED <<buf, written, committed, mode, hold, batch>>
                  /\ InFlight' = InFlight,
         Live' /\ pc' \in StagePCs => pc \in StagePCs /\ UNCHANGED staged
  PROVE  RInv'
<1>1. \A n : Good(n) => Good(n)'
  <2> SUFFICES ASSUME NEW n, Good(n) PROVE Good(n)'
    OBVIOUS
  <2>1. Log(n) \cap dropped' = {}
    BY DEF Good
  <2>2. QED BY <2>1, StaysGood
<1>2. \A n : Log(n)' = Log(n) /\ (Sorted(n) => Sorted(n)')
  BY SameLog
<1>3. Fresh'
  BY DEF RInv, Fresh
<1>4. Covered'
  BY <1>1 DEF RInv, Covered
<1>5. Live' => Kept' = Kept
  BY <1>2 DEF Kept
<1>6. Waiting' /\ WaitingUnits'
  BY <1>2, <1>5 DEF RInv, Waiting, WaitingUnits, StagedRecords
<1>7. QED BY <1>3, <1>4, <1>6 DEF RInv

LEMMA WriteSuperRecovers ==
  ASSUME Faults = {}, IInv, RInv, WriteSuper
  PROVE  RInv'
<1> USE DEF WriteSuper, fileVars, writerVars, callVars, historyVars
<1>1. Live /\ Live' /\ Good(committed)
  BY DEF Live, RInv, Covered, IInv, Place
<1>2. Phase'
  BY DEF RInv, Phase, WritePCs, StagePCs
<1>3. QED BY <1>1, <1>2, NewSuper DEF InFlight, StagePCs

LEMMA SuperFailsRecovers ==
  ASSUME Faults = {}, IInv, RInv, SuperFails
  PROVE  RInv'
<1> USE DEF SuperFails, ReturnPoisoned, historyVars
<1>1. Good(super) /\ Good(committed)
  BY DEF Live, RInv, Covered, IInv, Place
<1>2. Phase' /\ ~Live'
  BY DEF RInv, Phase, Live, WritePCs, StagePCs
<1>3. QED BY <1>1, <1>2, NewSuper

(* Every page of a staged commit is written: the log with it is good.      *)
LEMMA StagedLog ==
  ASSUME IInv, pc \in {"st_super", "st_super_sync", "adopt"}
  PROVE  Log(staged.upto) = Log(written) \union StagedRecords
<1>1. /\ written \in Nat /\ staged.upto \in Nat /\ written < staged.upto
      /\ pos = staged.upto + 1
  BY DEF IInv, Place, StagePCs, TypeOK, WriterType, CallType
<1>2. \A i \in (written + 1)..staged.upto :
        \A r \in Records : r \in disk[i] <=> staged.slot[r] = i
  BY <1>1 DEF IInv, StagePages, StagePCs
<1>3. \A i \in 1..staged.upto : disk[i] \subseteq Records
  BY <1>1, BoundsAssumption DEF IInv, TypeOK, FileType, CallType, Slots
<1>4. \A r \in StagedRecords :
        r \in Records /\ staged.slot[r] \in (written + 1)..staged.upto
  BY DEF IInv, StagePages, StagePCs, StagedRecords
<1>5. ASSUME NEW r \in Log(staged.upto) PROVE r \in Log(written) \union StagedRecords
  <2>1. PICK i \in 1..staged.upto : r \in disk[i]
    BY DEF Log
  <2>2. CASE i <= written
    BY <1>1, <2>1, <2>2 DEF Log
  <2>3. CASE i > written
    BY <1>1, <1>2, <1>3, <2>1, <2>3 DEF StagedRecords
  <2>4. QED BY <1>1, <2>2, <2>3
<1>6. ASSUME NEW r \in StagedRecords PROVE r \in Log(staged.upto)
  <2>1. r \in disk[staged.slot[r]] /\ staged.slot[r] \in 1..staged.upto
    BY <1>1, <1>2, <1>4
  <2>2. QED BY <2>1 DEF Log
<1>7. Log(written) \subseteq Log(staged.upto)
  BY <1>1, ShorterLog
<1>8. QED BY <1>5, <1>6, <1>7

LEMMA StagedGood ==
  ASSUME IInv, RInv, pc = "st_super"
  PROVE  Good(staged.upto)
<1>1. /\ written \in Nat /\ staged.upto \in 0..MaxPages /\ written < staged.upto
      /\ pos = staged.upto + 1 /\ buf = {} /\ Live
  BY DEF IInv, Place, StagePCs, TypeOK, WriterType, CallType, Live
<1>2. Kept = Log(written) /\ InFlight = StagedRecords
  BY <1>1 DEF Kept, InFlight, StagePCs
<1>3. Log(staged.upto) = Kept \union InFlight
  BY <1>2, StagedLog
<1>4. Waiting /\ WaitingUnits /\ Live
  BY <1>1 DEF RInv
<1>5. \A i \in (written + 1)..staged.upto :
        /\ disk[i] \subseteq Records
        /\ \A r \in Records : r \in disk[i] <=> staged.slot[r] = i
  BY <1>1, BoundsAssumption
  DEF IInv, StagePages, StagePCs, TypeOK, FileType, Slots
<1>6. Sorted(staged.upto)
  <2> SUFFICES ASSUME NEW i \in 1..staged.upto, NEW j \in 1..staged.upto, i < j,
                      NEW r \in disk[i], NEW t \in disk[j]
               PROVE  r < t
    BY DEF Sorted
  <2>1. CASE j <= written
    BY <1>1, <1>4, <2>1 DEF Waiting, Sorted
  <2>2. CASE i <= written /\ j > written
    <3>1. r \in Log(written)
      BY <1>1, <2>2 DEF Log
    <3>2. t \in InFlight
      BY <1>1, <1>2, <1>5, <2>2 DEF StagedRecords
    <3>3. QED BY <1>4, <3>1, <3>2 DEF Waiting
  <2>3. CASE i > written
    <3>1. /\ r \in StagedRecords /\ t \in StagedRecords
          /\ staged.slot[r] = i /\ staged.slot[t] = j
      BY <1>1, <1>5, <2>3 DEF StagedRecords
    <3>2. r \in Nat /\ t \in Nat
      BY <3>1, BoundsAssumption DEF StagedRecords, Records
    <3>3. t < r => j <= i
      BY <1>4, <3>1 DEF WaitingUnits, StagePCs
    <3>4. QED BY <3>1, <3>2, <3>3
  <2>4. QED BY <1>1, <2>1, <2>2, <2>3
<1>7. Closed(Log(staged.upto))
  <2>1. \A r \in Log(staged.upto) : r \in Nat /\ r < next
    BY <1>1, LogBelowNext, BoundsAssumption DEF Records
  <2>2. next \in Nat
    BY BoundsAssumption DEF IInv, TypeOK, HistoryType
  <2>3. QED BY <1>3, <1>4, <2>1, <2>2 DEF Closed, Waiting
<1>8. Log(staged.upto) \cap dropped = {}
  BY <1>3, <1>4 DEF Waiting
<1>9. \A u \in units : Whole(u, Log(staged.upto))
  BY <1>3, <1>4 DEF WaitingUnits, Whole
<1>10. QED BY <1>6, <1>7, <1>8, <1>9 DEF Good

LEMMA StageSuperRecovers ==
  ASSUME Faults = {}, IInv, RInv, StageSuper
  PROVE  RInv'
<1> USE DEF StageSuper, fileVars, writerVars, callVars, historyVars
<1>1. Live /\ Live' /\ Good(staged.upto)
  BY StagedGood DEF Live, IInv, Place
<1>2. Phase'
  BY DEF RInv, Phase, WritePCs, StagePCs
<1>3. InFlight' = InFlight
  BY DEF InFlight, StagePCs, StagedRecords
<1>4. QED BY <1>1, <1>2, <1>3, NewSuper DEF StagePCs

LEMMA StageSuperFailsRecovers ==
  ASSUME Faults = {}, IInv, RInv, StageSuperFails
  PROVE  RInv'
<1> USE DEF StageSuperFails, ReturnPoisoned, historyVars
<1>1. Good(super')
  BY StagedGood DEF RInv, Covered
<1>2. Phase' /\ ~Live'
  BY DEF RInv, Phase, Live, WritePCs, StagePCs
<1>3. QED BY <1>1, <1>2, NewSuper

-----------------------------------------------------------------------------
(* Steps that write the buffered page and move the commit point.           *)

(* With nothing buffered and nothing staged, all that is written is a log. *)
LEMMA WrittenGood ==
  ASSUME IInv, RInv, Live, buf = {}, InFlight = {}
  PROVE  Good(written)
<1>1. Kept = Log(written) /\ written \in 0..MaxPages
  BY DEF Kept, IInv, TypeOK, WriterType
<1>2. \A r \in Log(written) : r \in Nat /\ r < next
  BY <1>1, LogBelowNext, BoundsAssumption DEF Records
<1>3. next \in Nat
  BY BoundsAssumption DEF IInv, TypeOK, HistoryType
<1>4. Closed(Log(written))
  BY <1>1, <1>2, <1>3 DEF RInv, Waiting, Closed
<1>5. QED BY <1>1, <1>4 DEF RInv, Waiting, WaitingUnits, Good

LEMMA SyncRecovers ==
  ASSUME Faults = {}, IInv, RInv, Sync
  PROVE  RInv'
<1> USE DEF Sync, SyncFile, historyVars
<1>1. Live /\ Live' /\ buf = {} /\ InFlight = {} /\ InFlight' = {}
  BY DEF Live, InFlight, RInv, Phase, WritePCs, StagePCs, IInv, Place
<1>2. Good(written)
  BY <1>1, WrittenGood
<1>3. Phase'
  BY DEF RInv, Phase, WritePCs, StagePCs
<1>4. \A n : Good(n) => Good(n)'
  <2> SUFFICES ASSUME NEW n, Good(n) PROVE Good(n)'
    OBVIOUS
  <2>1. Log(n) \cap dropped' = {}
    BY DEF Good
  <2>2. QED BY <2>1, StaysGood
<1>5. \A n : Log(n)' = Log(n) /\ (Sorted(n) => Sorted(n)')
  BY SameLog
<1>6. Fresh'
  BY DEF RInv, Fresh
<1>7. Covered'
  BY <1>2, <1>4 DEF RInv, Covered
<1>8. Kept' = Kept
  BY <1>5 DEF Kept
<1>9. Log(committed) \subseteq Log(written)
  <2>1. committed <= written /\ committed \in Nat /\ written \in Nat
    BY <1>1, BoundsAssumption DEF Live, IInv, Place, TypeOK, WriterType
  <2>2. QED BY <2>1, ShorterLog
<1>10. Waiting'
  BY <1>1, <1>5, <1>8, <1>9 DEF RInv, Waiting
<1>11. WaitingUnits'
  BY <1>1, <1>5, <1>8 DEF RInv, WaitingUnits, Phase, StagePCs
<1>12. QED BY <1>3, <1>6, <1>7, <1>10, <1>11 DEF RInv

LEMMA WritePageRecovers ==
  ASSUME Faults = {}, IInv, RInv, WritePage
  PROVE  RInv'
<1> USE DEF WritePage, PutPage, historyVars
<1>1. /\ Live /\ Live' /\ InFlight = {} /\ InFlight' = {}
      /\ pos = written + 1 /\ ~skew /\ written < MaxPages
      /\ written \in Nat /\ committed \in Nat /\ committed <= written
      /\ super = committed /\ dsuper \in Nat /\ dsuper <= super
  BY BoundsAssumption
  DEF Live, InFlight, WritePCs, StagePCs, IInv, Place, TypeOK, WriterType
<1>2. /\ \A i \in 1..written : disk'[i] = disk[i]
      /\ disk'[written + 1] = buf
  <2>1. \A i \in 1..(written + 1) : i \in Slots
    BY <1>1, BoundsAssumption DEF Slots
  <2>2. QED BY <1>1, <2>1
<1>3. \A n \in 0..written :
        /\ Log(n)' = Log(n) /\ (Sorted(n) => Sorted(n)')
        /\ Good(n) => Good(n)'
  <2> SUFFICES ASSUME NEW n \in 0..written
               PROVE  /\ Log(n)' = Log(n) /\ (Sorted(n) => Sorted(n)')
                      /\ Good(n) => Good(n)'
    OBVIOUS
  <2>1. \A i \in 1..n : disk'[i] = disk[i]
    BY <1>1, <1>2
  <2>2. CASE Good(n)
    <3>1. Log(n) \cap dropped' = {}
      BY <2>2 DEF Good
    <3>2. QED BY <2>1, <2>2, <3>1, SameLog, StaysGood
  <2>3. QED BY <2>1, <2>2, SameLog
<1>4. Log(written)' = Kept /\ Kept' = Kept
  <2>1. Log(written)' = UNION {disk'[i] : i \in 1..(written + 1)}
    BY DEF Log
  <2>2. 1..(written + 1) = 1..written \union {written + 1}
    BY <1>1
  <2>3. Log(written)' = Log(written) \union buf
    BY <1>2, <2>1, <2>2 DEF Log
  <2>4. QED BY <2>3 DEF Kept
<1>5. Sorted(written)'
  <2> SUFFICES ASSUME NEW i \in 1..(written + 1), NEW j \in 1..(written + 1), i < j,
                      NEW r \in disk'[i], NEW t \in disk'[j]
               PROVE  r < t
    BY DEF Sorted
  <2>1. CASE j <= written
    BY <1>1, <1>2, <2>1 DEF RInv, Waiting, Sorted
  <2>2. CASE j = written + 1
    <3>1. r \in Log(written) /\ t \in buf
      BY <1>1, <1>2, <2>2 DEF Log
    <3>2. QED BY <1>1, <3>1 DEF RInv, Waiting
  <2>3. QED BY <1>1, <2>1, <2>2
<1>6. Good(written)'
  <2>1. \A r \in Kept : r \in Nat /\ r < next
    <3>1. \A r \in Log(written) : r \in Nat /\ r < next
      BY <1>1, LogBelowNext, BoundsAssumption DEF Records
    <3>2. \A r \in buf : r \in Nat /\ r < next
      <4>1. buf \subseteq Nat
        BY BoundsAssumption DEF IInv, TypeOK, WriterType, Records
      <4>2. QED BY <4>1 DEF IInv, Contents
    <3>3. QED BY <3>1, <3>2 DEF Kept
  <2>2. next \in Nat
    BY BoundsAssumption DEF IInv, TypeOK, HistoryType
  <2>3. Closed(Log(written))'
    BY <1>1, <1>4, <2>1, <2>2 DEF RInv, Waiting, Closed
  <2>4. Log(written)' \cap dropped' = {}
    BY <1>1, <1>4 DEF RInv, Waiting
  <2>5. \A u \in units' : Whole(u, Log(written)')
    BY <1>1, <1>4 DEF RInv, WaitingUnits
  <2>6. QED BY <1>5, <2>3, <2>4, <2>5 DEF Good
<1>7. Phase'
  BY DEF RInv, Phase, WritePCs, StagePCs
<1>8. Fresh'
  BY DEF RInv, Fresh
<1>9. Covered'
  BY <1>1, <1>3, <1>6 DEF RInv, Covered
<1>10. Log(committed) \subseteq Log(committed)'
  <2>1. Log(committed) \subseteq Log(written)
    BY <1>1, ShorterLog
  <2>2. CASE committed' = written'
    BY <1>4, <2>1, <2>2 DEF Kept
  <2>3. CASE committed' = committed
    BY <1>1, <1>3, <2>3
  <2>4. QED BY <2>2, <2>3
<1>11. Waiting'
  BY <1>1, <1>4, <1>5, <1>10 DEF RInv, Waiting
<1>12. WaitingUnits'
  <2>1. \A u \in units : Whole(u, Kept)' /\ (u = InFlight' \/ u \cap InFlight' = {})
    BY <1>1, <1>4 DEF RInv, WaitingUnits, Whole
  <2>2. hold' => committed' = committed /\ Log(committed)' = Log(committed)
    BY <1>1, <1>3
  <2>3. QED BY <1>1, <1>4, <2>1, <2>2 DEF RInv, WaitingUnits, StagePCs
<1>13. QED BY <1>7, <1>8, <1>9, <1>11, <1>12 DEF RInv

-----------------------------------------------------------------------------
(* Steps that drop records, and the end of a process.                      *)

(* Dropping records that are not committed leaves every commit point good. *)
LEMMA DropBehind ==
  ASSUME IInv, RInv, super \in Nat, units' = units,
         \A i \in 1..super : disk'[i] = disk[i],
         dropped \subseteq dropped', Log(super) \cap dropped' = {}
  PROVE  \A n \in 0..super :
           /\ Log(n)' = Log(n) /\ (Sorted(n) => Sorted(n)')
           /\ Good(n) => Good(n)'
<1> SUFFICES ASSUME NEW n \in 0..super
             PROVE  /\ Log(n)' = Log(n) /\ (Sorted(n) => Sorted(n)')
                    /\ Good(n) => Good(n)'
  OBVIOUS
<1>1. \A i \in 1..n : disk'[i] = disk[i]
  OBVIOUS
<1>2. Log(n) \cap dropped' = {}
  <2>1. Log(n) \subseteq Log(super)
    BY ShorterLog
  <2>2. QED BY <2>1
<1>3. Good(n) => Good(n)'
  BY <1>1, <1>2, StaysGood
<1>4. QED BY <1>1, <1>3, SameLog

LEMMA DiscardRecovers ==
  ASSUME Faults = {}, IInv, RInv, Discard
  PROVE  RInv'
<1> USE DEF Discard, Truncate
<1>1. /\ Live /\ Live' /\ InFlight = {} /\ InFlight' = {}
      /\ super = committed /\ super \in 0..MaxPages /\ dsuper \in 0..super
      /\ born \in Nat /\ next \in Nat
  BY BoundsAssumption
  DEF Live, InFlight, StagePCs, IInv, Place, TypeOK, HistoryType
<1>2. \A i \in 1..super : disk'[i] = disk[i]
  BY <1>1, BoundsAssumption DEF Slots
<1>3. Good(super) /\ Good(dsuper)
  BY DEF RInv, Covered
<1>4. dropped \subseteq dropped' /\ Log(super) \cap dropped' = {}
  BY <1>1, <1>3 DEF Good
<1>5. \A n \in 0..super :
        /\ Log(n)' = Log(n) /\ (Sorted(n) => Sorted(n)')
        /\ Good(n) => Good(n)'
  BY <1>1, <1>2, <1>4, DropBehind
<1>6. Log(super)' = Log(super) /\ Sorted(super)' /\ Good(super)' /\ Good(dsuper)'
  BY <1>1, <1>3, <1>5 DEF Good
<1>7. Kept' = Log(super)
  BY <1>1, <1>6 DEF Kept
<1>8. Phase'
  BY DEF Phase, WritePCs, StagePCs, RInv, IInv, Place
<1>9. Fresh'
  BY <1>1 DEF RInv, Fresh
<1>10. Covered'
  BY <1>1, <1>6 DEF Covered
<1>11. Waiting'
  <2>1. \A r \in 1..(born - 1) : r \in Log(super) \union dropped
    BY <1>1 DEF RInv, Waiting
  <2>2. \A r \in 1..(next - 1) : r \in Log(super) \union dropped'
    BY <1>1, <2>1
  <2>3. QED BY <1>1, <1>4, <1>6, <1>7, <2>1, <2>2 DEF Waiting
<1>12. WaitingUnits'
  BY <1>1, <1>3, <1>7 DEF WaitingUnits, Good, Whole, StagePCs
<1>13. QED BY <1>8, <1>9, <1>10, <1>11, <1>12 DEF RInv

LEMMA DiscardFailsRecovers ==
  ASSUME Faults = {}, IInv, RInv, DiscardFails
  PROVE  RInv'
<1> USE DEF DiscardFails, fileVars
<1>a. mode = "batch"
  BY DEF RInv, Phase, IInv, TypeOK, CallType
<1>b. ~Live'
  BY <1>a, Zenon DEF Live
<1>1. /\ ~Live' /\ super = committed /\ super \in 0..MaxPages /\ dsuper \in 0..super
      /\ next \in Nat /\ born \in Nat
  BY <1>b, BoundsAssumption DEF StagePCs, IInv, Place, TypeOK, HistoryType
<1>2. Good(super) /\ Good(dsuper)
  BY DEF RInv, Covered
<1>3. dropped \subseteq dropped' /\ Log(super) \cap dropped' = {}
  BY <1>1, <1>2 DEF Good
<1>4. \A n \in 0..super : Good(n) => Good(n)'
  BY <1>1, <1>3, DropBehind
<1>5. Covered'
  BY <1>1, <1>2, <1>4 DEF Covered
<1>6. Phase'
  BY DEF Phase, WritePCs, StagePCs, RInv, IInv, Place
<1>7. Fresh'
  BY <1>1 DEF RInv, Fresh
<1>8. QED BY <1>1, <1>5, <1>6, <1>7 DEF RInv, Waiting, WaitingUnits

LEMMA StageFailsRecovers ==
  ASSUME Faults = {}, IInv, RInv, StageFails
  PROVE  RInv'
<1> USE DEF StageFails, Truncate
<1>1. /\ Live /\ Live' /\ InFlight = StagedRecords /\ InFlight' = {}
      /\ super = committed /\ super = written /\ buf = {}
      /\ super \in 0..MaxPages /\ dsuper \in 0..super /\ mode = "single"
  BY BoundsAssumption
  DEF Live, InFlight, StagePCs, IInv, Place, TypeOK, CallType, RInv, Phase
<1>2. \A i \in 1..super : disk'[i] = disk[i]
  BY <1>1, BoundsAssumption DEF Slots
<1>3. Good(super) /\ Good(dsuper)
  BY DEF RInv, Covered
<1>4. dropped \subseteq dropped' /\ Log(super) \cap dropped' = {}
  <2>1. \A r \in Log(super) : r \in Nat
    BY <1>1, LogBelowNext, BoundsAssumption DEF Records
  <2>2. \A r \in Log(super) : \A t \in StagedRecords : r < t
    BY <1>1 DEF RInv, Waiting
  <2>3. Log(super) \cap StagedRecords = {}
    BY <2>1, <2>2
  <2>4. QED BY <1>3, <2>3 DEF Good
<1>5. \A n \in 0..super :
        /\ Log(n)' = Log(n) /\ (Sorted(n) => Sorted(n)')
        /\ Good(n) => Good(n)'
  BY <1>1, <1>2, <1>4, DropBehind
<1>6. Log(super)' = Log(super) /\ Sorted(super)' /\ Good(super)' /\ Good(dsuper)'
  BY <1>1, <1>3, <1>5 DEF Good
<1>7. Kept' = Log(super) /\ Kept = Log(super)
  BY <1>1, <1>6 DEF Kept
<1>8. Phase'
  BY <1>1 DEF Phase, WritePCs, StagePCs
<1>9. Fresh'
  BY DEF RInv, Fresh, IInv, StagePages, StagePCs, StagedRecords
<1>10. Covered'
  BY <1>1, <1>6 DEF Covered
<1>11. Waiting'
  BY <1>1, <1>4, <1>6, <1>7 DEF RInv, Waiting
<1>12. WaitingUnits'
  BY <1>1, <1>3, <1>7 DEF WaitingUnits, Good, Whole, StagePCs
<1>13. QED BY <1>8, <1>9, <1>10, <1>11, <1>12 DEF RInv

LEMMA PowerLossRecovers ==
  ASSUME Faults = {}, IInv, RInv, PowerLoss
  PROVE  RInv'
<1> USE DEF PowerLoss, ProcessGone
<1>1. ~Live' /\ super \in 0..MaxPages /\ dsuper \in 0..super
  BY DEF Live, IInv, Place
<1>2. \A i \in 1..super : disk'[i] = disk[i]
  BY <1>1, BoundsAssumption DEF IInv, Pages, Slots
<1>3. Good(super) /\ Good(dsuper)
  BY DEF RInv, Covered
<1>4. \A n \in 0..super : Good(n) => Good(n)'
  BY <1>1, <1>2, <1>3, DropBehind DEF Good
<1>5. Covered'
  BY <1>1, <1>3, <1>4 DEF Covered
<1>6. Phase' /\ Fresh'
  BY DEF RInv, Phase, Fresh, WritePCs, StagePCs
<1>7. QED BY <1>1, <1>5, <1>6 DEF RInv, Waiting, WaitingUnits

LEMMA OpenRecovers ==
  ASSUME Faults = {}, IInv, RInv, Open
  PROVE  RInv'
<1> USE DEF Open, fileVars
<1>1. /\ super \in 0..MaxPages /\ dsuper \in 0..super /\ next \in Nat
      /\ buf = {} /\ mode = "single" /\ InFlight' = {}
  BY BoundsAssumption
  DEF InFlight, StagePCs, IInv, Place, TypeOK, HistoryType, RInv, Phase
<1>2. Good(super) /\ Good(dsuper)
  BY DEF RInv, Covered
<1>3. dropped \subseteq dropped' /\ Log(super) \cap dropped' = {}
  BY <1>2 DEF Good
<1>4. \A n \in 0..super :
        /\ Log(n)' = Log(n) /\ (Sorted(n) => Sorted(n)')
        /\ Good(n) => Good(n)'
  BY <1>1, <1>3, DropBehind
<1>5. Log(super)' = Log(super) /\ Sorted(super)' /\ Good(super)' /\ Good(dsuper)'
  BY <1>1, <1>2, <1>4 DEF Good
<1>6. Kept' = Log(super)
  BY <1>1, <1>5 DEF Kept
<1>7. Phase'
  BY <1>1 DEF RInv, Phase, WritePCs, StagePCs
<1>8. Fresh'
  BY <1>1 DEF RInv, Fresh
<1>9. Covered'
  BY <1>5 DEF Covered
<1>10. Waiting'
  BY <1>1, <1>3, <1>5, <1>6 DEF Waiting
<1>11. WaitingUnits'
  BY <1>1, <1>2, <1>6 DEF WaitingUnits, Good, Whole, StagePCs
<1>12. QED BY <1>7, <1>8, <1>9, <1>10, <1>11 DEF RInv

-----------------------------------------------------------------------------
(* Steps of a split commit.                                                *)

LEMMA StageRecovers ==
  ASSUME Faults = {}, IInv, RInv, NEW m \in Slots, NEW k \in Records, Stage(m, k)
  PROVE  RInv'
<1> DEFINE added == next..(next + k - 1)
<1> USE DEF Stage, Usable, HasPending, fileVars
<1>1. /\ Live /\ Live' /\ InFlight = {} /\ buf = {} /\ mode = "single"
      /\ k \in Nat /\ k > 0 /\ next \in Nat /\ next > 0
      /\ written \in 0..MaxPages /\ committed \in 0..MaxPages
      /\ super \in 0..MaxPages /\ dsuper \in 0..MaxPages
      /\ next + k - 1 <= MaxRecords /\ MaxRecords \in Nat /\ born \in Nat
  <2>1. /\ Live /\ Live' /\ InFlight = {} /\ buf = {} /\ mode = "single"
    BY DEF Live, InFlight, StagePCs
  <2>2. /\ k \in Nat /\ k > 0 /\ next \in Nat /\ next > 0 /\ born \in Nat
        /\ next + k - 1 <= MaxRecords /\ MaxRecords \in Nat
    BY BoundsAssumption DEF IInv, TypeOK, HistoryType, Records
  <2>3. /\ written \in 0..MaxPages /\ committed \in 0..MaxPages
        /\ super \in 0..MaxPages /\ dsuper \in 0..MaxPages
    BY BoundsAssumption DEF IInv, Place, TypeOK, WriterType
  <2>4. QED BY <2>1, <2>2, <2>3
<1>2. PICK f \in Layouts(m, k) :
        staged' = [upto |-> written + m, synced |-> committed,
                   slot |-> [r \in Records |-> IF r \in DOMAIN f THEN f[r] ELSE 0]]
  OBVIOUS
<1>3. /\ DOMAIN f = added /\ \A r \in added : f[r] \in Nat /\ f[r] # 0
      /\ \A r, t \in added : r < t => f[r] <= f[t]
  <2>1. f \in [added -> (written + 1)..(written + m)]
    BY <1>2 DEF Layouts
  <2>2. m \in Nat
    BY BoundsAssumption DEF Slots
  <2>3. \A r, t \in DOMAIN f : r < t => f[r] <= f[t]
    BY <1>2 DEF Layouts
  <2>4. QED BY <1>1, <2>1, <2>2, <2>3
<1>4. added \subseteq Records
  BY <1>1 DEF Records
<1>5. \A r \in Records : staged'.slot[r] = IF r \in added THEN f[r] ELSE 0
  BY <1>2, <1>3
<1>6. InFlight' = added
  <2>1. InFlight' = {r \in Records : staged'.slot[r] # 0}
    BY DEF InFlight, StagePCs, StagedRecords
  <2>2. QED BY <1>3, <1>4, <1>5, <2>1
<1>7. \A r \in added : r \in Nat /\ next <= r /\ r < next'
  BY <1>1
<1>8. \A n \in 0..MaxPages :
        /\ added \cap Log(n) = {} /\ Log(n)' = Log(n)
        /\ (Sorted(n) => Sorted(n)') /\ (Good(n) => Good(n)')
  <2> SUFFICES ASSUME NEW n \in 0..MaxPages
               PROVE  /\ added \cap Log(n) = {} /\ Log(n)' = Log(n)
                      /\ (Sorted(n) => Sorted(n)') /\ (Good(n) => Good(n)')
    OBVIOUS
  <2>1. added \cap Log(n) = {}
    <3>1. \A r \in Log(n) : r \in Nat /\ r < next
      BY LogBelowNext, BoundsAssumption DEF Records
    <3>2. QED BY <1>1, <1>7, <3>1
  <2>2. Good(n) => Good(n)'
    <3> SUFFICES ASSUME Good(n) PROVE Good(n)'
      OBVIOUS
    <3>1. Log(n) \cap dropped' = {}
      BY DEF Good
    <3>2. QED BY <2>1, <3>1, StaysGood
  <2>3. QED BY <2>1, <2>2, SameLog
<1>9. Kept' = Log(written) /\ Kept = Log(written)
  BY <1>1, <1>8 DEF Kept
<1>10. \A r \in Log(written) : r \in Nat /\ r < next
  BY <1>1, LogBelowNext, BoundsAssumption DEF Records
<1>11. added \cap dropped = {} /\ \A u \in units : added \cap u = {}
  <2>1. dropped \subseteq Records /\ units \subseteq SUBSET Records /\ Records \subseteq Nat
    BY BoundsAssumption DEF IInv, TypeOK, HistoryType, Records
  <2>2. \A r \in added : ~(r < next)
    BY <1>1, <1>7
  <2>3. QED BY <2>1, <2>2 DEF RInv, Fresh
<1>12. Phase'
  BY <1>1 DEF Phase, WritePCs, StagePCs
<1>13. Fresh'
  <2>1. next <= next' /\ next' \in Nat
    BY <1>1
  <2>2. \A r \in Records : r < next => r < next'
    BY <1>1, <2>1, BoundsAssumption DEF Records
  <2>3. dropped \subseteq Records /\ units \subseteq SUBSET Records
    BY DEF IInv, TypeOK, HistoryType
  <2>4. born <= next'
    BY <1>1, <2>1 DEF RInv, Fresh
  <2>5. units' = units \union {added} /\ dropped' = dropped /\ born' = born
    OBVIOUS
  <2>6. QED BY <1>7, <2>2, <2>3, <2>4, <2>5 DEF RInv, Fresh
<1>14. Covered'
  BY <1>1, <1>8 DEF RInv, Covered
<1>15. Waiting'
  <2>1. Sorted(written)' /\ \A r \in 1..(born - 1) : r \in Log(committed)' \union dropped
    BY <1>1, <1>8 DEF RInv, Waiting
  <2>2. \A r \in Log(written)' : \A t \in buf' \union InFlight' : r < t
    <3>1. \A r \in Log(written) : \A t \in added : r < t
      BY <1>1, <1>7, <1>10
    <3>2. buf' \union InFlight' = added /\ Log(written)' = Log(written)
      BY <1>1, <1>6, <1>8
    <3>3. QED BY <3>1, <3>2
  <2>3. \A r \in 1..(next' - 1) : r \in Kept' \union InFlight' \union dropped
    <3>1. \A r \in 1..(next - 1) : r \in Kept \union dropped
      BY <1>1 DEF RInv, Waiting
    <3>2. 1..(next' - 1) = 1..(next - 1) \union added
      BY <1>1
    <3>3. QED BY <1>6, <1>9, <3>1, <3>2
  <2>4. (Kept' \union InFlight') \cap dropped = {}
    BY <1>1, <1>6, <1>9, <1>11 DEF RInv, Waiting
  <2>5. QED BY <1>8, <2>1, <2>2, <2>3, <2>4 DEF Waiting
<1>16. WaitingUnits'
  <2>1. \A u \in units : Whole(u, Kept') /\ u \cap InFlight' = {}
    BY <1>1, <1>6, <1>9, <1>11 DEF RInv, WaitingUnits
  <2>2. Whole(added, Kept') /\ added = InFlight'
    BY <1>1, <1>6, <1>8, <1>9 DEF Whole
  <2>3. \A r, t \in StagedRecords' : r < t => staged'.slot[r] <= staged'.slot[t]
    <3>1. StagedRecords' = added
      BY <1>6 DEF InFlight, StagePCs
    <3>2. QED BY <1>3, <1>4, <1>5, <3>1
  <2>4. units' = units \union {added}
    OBVIOUS
  <2>5. QED BY <1>1, <2>1, <2>2, <2>3, <2>4 DEF WaitingUnits
<1>17. QED BY <1>12, <1>13, <1>14, <1>15, <1>16 DEF RInv

LEMMA StagePageRecovers ==
  ASSUME Faults = {}, IInv, RInv, StagePage
  PROVE  RInv'
<1> USE DEF StagePage, PutPage, historyVars
<1>1. /\ Live /\ Live' /\ InFlight' = InFlight
      /\ super = committed /\ super = written /\ super < pos /\ ~skew
      /\ super \in 0..MaxPages /\ dsuper \in 0..super /\ pos \in Nat
      /\ mode = "single" /\ pc \in StagePCs
  <2>1. Live /\ Live' /\ mode = "single" /\ pc \in StagePCs
    BY DEF Live, StagePCs, IInv, Place, RInv, Phase
  <2>2. InFlight' = InFlight
    BY DEF InFlight, StagePCs, StagedRecords
  <2>3. /\ super = committed /\ super = written /\ super < pos /\ ~skew
        /\ super \in 0..MaxPages /\ dsuper \in 0..super /\ pos \in Nat
    BY <2>1 DEF Live, StagePCs, IInv, Place, TypeOK, WriterType
  <2>4. QED BY <2>1, <2>2, <2>3
<1>2. \A i \in 1..super : disk'[i] = disk[i]
  <2>1. \A i \in 1..super : i \in Slots /\ i # pos
    BY <1>1, BoundsAssumption DEF Slots
  <2>2. QED BY <1>1, <2>1
<1>3. Good(super) /\ Good(dsuper)
  BY DEF RInv, Covered
<1>4. \A n \in 0..super :
        /\ Log(n)' = Log(n) /\ (Sorted(n) => Sorted(n)')
        /\ Good(n) => Good(n)'
  BY <1>1, <1>2, <1>3, DropBehind DEF Good
<1>5. Log(super)' = Log(super) /\ Sorted(super)' /\ Good(super)' /\ Good(dsuper)'
  BY <1>1, <1>3, <1>4 DEF Good
<1>6. Kept' = Kept
  BY <1>1, <1>5 DEF Kept
<1>7. Phase' /\ Fresh'
  BY DEF RInv, Phase, Fresh, WritePCs, StagePCs
<1>8. Covered'
  BY <1>1, <1>5 DEF Covered
<1>9. Waiting'
  BY <1>1, <1>5, <1>6 DEF RInv, Waiting
<1>10. WaitingUnits'
  BY <1>1, <1>6 DEF RInv, WaitingUnits, StagedRecords
<1>11. QED BY <1>7, <1>8, <1>9, <1>10 DEF RInv

LEMMA AdoptRecovers ==
  ASSUME Faults = {}, IInv, RInv, Adopt
  PROVE  RInv'
<1> USE DEF Adopt, fileVars
<1>1. /\ Live /\ Live' /\ InFlight = StagedRecords /\ InFlight' = {}
      /\ super = staged.upto /\ buf = {} /\ mode = "single"
      /\ written = committed /\ Log(super) = Log(written) \union StagedRecords
  <2>1. super = staged.upto /\ buf = {} /\ written = committed
    BY DEF StagePCs, IInv, Place
  <2>2. QED
    BY <2>1, StagedLog DEF Live, InFlight, StagePCs, IInv, Place, RInv, Phase
<1>2. Good(super) /\ Good(dsuper)
  BY DEF RInv, Covered
<1>3. \A n : Log(n)' = Log(n) /\ (Sorted(n) => Sorted(n)')
  BY SameLog
<1>4. \A n : Good(n) => Good(n)'
  <2> SUFFICES ASSUME NEW n, Good(n) PROVE Good(n)'
    OBVIOUS
  <2>1. Log(n) \cap dropped' = {}
    BY DEF Good
  <2>2. QED BY <2>1, StaysGood
<1>5. Log(super)' = Log(super) /\ Sorted(super)' /\ Good(super)' /\ Good(dsuper)'
  BY <1>2, <1>3, <1>4 DEF Good
<1>6. Kept' = Log(super) /\ Kept = Log(written)
  BY <1>1, <1>5 DEF Kept
<1>7. Phase' /\ Fresh'
  BY <1>1 DEF RInv, Phase, Fresh, WritePCs, StagePCs
<1>8. Covered'
  BY <1>1, <1>5 DEF Covered
<1>9. Waiting'
  <2>1. \A r \in 1..(next - 1) : r \in Log(super) \union dropped
    BY <1>1, <1>6 DEF RInv, Waiting
  <2>2. \A r \in 1..(born - 1) : r \in Log(super) \union dropped
    BY <1>1 DEF RInv, Waiting
  <2>3. QED BY <1>1, <1>2, <1>5, <1>6, <2>1, <2>2 DEF Waiting, Good
<1>10. WaitingUnits'
  BY <1>1, <1>2, <1>6 DEF WaitingUnits, Good, StagePCs
<1>11. QED BY <1>7, <1>8, <1>9, <1>10 DEF RInv

-----------------------------------------------------------------------------
(* The initial states satisfy the invariant.                               *)
LEMMA InitRInv == Init => RInv
<1> SUFFICES ASSUME Init PROVE RInv
  OBVIOUS
<1> USE DEF Init
<1>1. Log(0) = {}
  BY DEF Log
<1>2. InFlight = {} /\ Kept = {}
  BY <1>1 DEF InFlight, StagePCs, Kept
<1>3. Good(0)
  BY <1>1 DEF Good, Sorted, Closed
<1>4. Phase /\ Fresh
  BY DEF Phase, Fresh, WritePCs, StagePCs
<1>5. Waiting /\ WaitingUnits
  BY <1>1, <1>2, <1>3 DEF Waiting, WaitingUnits, Good, StagePCs
<1>6. QED BY <1>3, <1>4, <1>5 DEF RInv, Covered

(* Every step keeps the invariant.                                         *)
LEMMA NextRInv ==
  ASSUME Faults = {}, IInv, RInv, [Next]_vars
  PROVE  RInv'
<1>1. CASE Next
  <2>1. ASSUME NEW joins \in BOOLEAN, AppendUncommitted(joins) \/ Push(joins) PROVE RInv'
    <3>1. CASE AppendUncommitted(joins)
      BY <3>1, AppendRecovers DEF AppendUncommitted
    <3>2. CASE Push(joins)
      BY <3>2, AppendRecovers DEF Push
    <3>3. QED BY <2>1, <3>1, <3>2
  <2>2. CASE Flush BY <2>2, FlushRecovers
  <2>3. CASE StreamFlush BY <2>3, StreamFlushRecovers
  <2>4. CASE BeginBatch BY <2>4, BeginBatchRecovers
  <2>5. CASE EndBatch BY <2>5, EndBatchRecovers
  <2>6. CASE FailBatch BY <2>6, FailBatchRecovers
  <2>7. CASE BeginMigrate BY <2>7, BeginMigrateRecovers
  <2>8. CASE EndMigrate BY <2>8, EndMigrateRecovers
  <2>9. CASE WritePage BY <2>9, WritePageRecovers
  <2>10. CASE WritePageFails BY <2>10, WritePageFailsRecovers
  <2>11. CASE HoldSync BY <2>11, HoldSyncRecovers
  <2>12. CASE Sync BY <2>12, SyncRecovers
  <2>13. CASE SyncFails BY <2>13, SyncFailsRecovers
  <2>14. CASE WriteSuper BY <2>14, WriteSuperRecovers
  <2>15. CASE SyncSuper BY <2>15, SyncSuperRecovers
  <2>16. CASE SuperFails BY <2>16, SuperFailsRecovers
  <2>17. CASE ResumeAppend BY <2>17, ResumeAppendRecovers
  <2>18. CASE ResumeFlush BY <2>18, ResumeFlushRecovers
  <2>19. CASE ReturnOk BY <2>19, ReturnOkRecovers
  <2>20. CASE Discard BY <2>20, DiscardRecovers
  <2>21. CASE DiscardFails BY <2>21, DiscardFailsRecovers
  <2>22. CASE \E n \in Slots, k \in Records : Stage(n, k)
    BY <2>22, StageRecovers
  <2>23. CASE StagePage BY <2>23, StagePageRecovers
  <2>24. CASE StageSync BY <2>24, StageSyncRecovers
  <2>25. CASE StageFails BY <2>25, StageFailsRecovers
  <2>26. CASE StageTruncateFails BY <2>26, StageTruncateFailsRecovers
  <2>27. CASE StageSuper BY <2>27, StageSuperRecovers
  <2>28. CASE StageSuperSync BY <2>28, StageSuperSyncRecovers
  <2>29. CASE StageSuperFails BY <2>29, StageSuperFailsRecovers
  <2>30. CASE Adopt BY <2>30, AdoptRecovers
  <2>31. CASE AdoptFails BY <2>31, AdoptFailsRecovers
  <2>32. CASE Kill BY <2>32, KillRecovers
  <2>33. CASE PowerLoss BY <2>33, PowerLossRecovers
  <2>34. CASE Open BY <2>34, OpenRecovers
  <2>35. QED
    BY <1>1, <2>1, <2>2, <2>3, <2>4, <2>5, <2>6, <2>7, <2>8, <2>9, <2>10,
       <2>11, <2>12, <2>13, <2>14, <2>15, <2>16, <2>17, <2>18, <2>19, <2>20,
       <2>21, <2>22, <2>23, <2>24, <2>25, <2>26, <2>27, <2>28, <2>29, <2>30,
       <2>31, <2>32, <2>33, <2>34
    DEF Next
<1>2. CASE UNCHANGED vars
  <2>1. UNCHANGED <<disk, super, dsuper, next, born, dropped, units, buf, written,
                    committed, pc, op, mode, hold, failed, batch, staged>>
    BY <1>2 DEF vars, fileVars, writerVars, callVars, historyVars
  <2>2. Phase' /\ (Live' => Live) /\ InFlight' = InFlight
    BY <2>1 DEF RInv, Phase, Live, InFlight, StagedRecords
  <2>3. QED BY <2>1, <2>2, QuietStep
<1>3. QED BY <1>1, <1>2

(* The invariant says that what a reopen would read is the log.            *)
LEMMA RInvRecovered == IInv /\ RInv => RecoveredIsTheLog
<1> SUFFICES ASSUME IInv, RInv PROVE RecoveredIsTheLog
  OBVIOUS
<1>1. Good(super)
  BY DEF RInv, Covered
<1>2. PrefixRecovered
  BY <1>1 DEF PrefixRecovered, Good, Sorted, Closed
<1>3. ASSUME mode # "single", hold PROVE batch \cap Log(super) = {}
  <2>1. Live /\ pc \in {"idle", "abort", "page", "hold_sync", "resume"}
    BY <1>3 DEF RInv, Phase, Live
  <2>2. super = committed
    BY <2>1 DEF Live, IInv, Place, StagePCs
  <2>3. QED BY <1>3, <2>1, <2>2 DEF RInv, WaitingUnits
<1>4. AtomicUnits
  BY <1>1, <1>3 DEF AtomicUnits, Good, Whole
<1>5. NoResurrection
  BY <1>1 DEF NoResurrection, Good
<1>6. QED BY <1>2, <1>4, <1>5 DEF RecoveredIsTheLog

(* Both invariants hold in every behaviour without extra faults.           *)
THEOREM RecoveryInvariance ==
  ASSUME Faults = {} PROVE Spec => [](IInv /\ RInv)
<1>1. Init => RInv
  BY InitRInv
<1>2. IInv /\ RInv /\ [Next]_vars => RInv'
  BY NextRInv
<1>3. QED BY <1>1, <1>2, Invariance, PTL DEF Spec

(* Whatever fails or stops, and wherever, what a reopen would read is a    *)
(* gapless run of append order in which batches, split commits and overlay *)
(* migrations are whole and nothing that was rolled back or lost comes     *)
(* back (flush_page, commit_pending, Store::atomically, write_staged,      *)
(* discard_pending, open_inner).                                           *)
THEOREM ReopensReadTheLog ==
  ASSUME Faults = {} PROVE Spec => []RecoveredIsTheLog
<1>1. QED BY RInvRecovered, RecoveryInvariance, PTL

-----------------------------------------------------------------------------
(***************************************************************************)
(* LogWriter implements DurableLog, with what a reopen would read for the  *)
(* abstract log: for every file size, record count, page capacity and set  *)
(* of sync policies, in an environment without the extra faults.  Each     *)
(* step of the writer is one step of the abstract log or none of it:       *)
(*                                                                         *)
(*   Accept        a record is appended, a unit is named                   *)
(*   Commit        the superblock is written                               *)
(*   Acknowledge   a flush returns, a split commit is adopted              *)
(*   Drop          pending records are discarded, a log is opened          *)
(*   Crash         the machine stops                                       *)
(***************************************************************************)

(* What the refinement mapping reads.                                      *)

RecoveredExact ==
  /\ Recovered = Log(super) /\ super \in 0..MaxPages /\ next \in Nat
  /\ Recovered \subseteq (1..(next - 1)) \ dropped
  /\ Closed(Recovered) /\ \A u \in units : Whole(u, Recovered)
  /\ acked \subseteq Recovered

LEMMA RecoveredLog == IInv /\ RInv => RecoveredExact
<1> SUFFICES ASSUME IInv, RInv PROVE RecoveredExact
  OBVIOUS
<1>1. super \in 0..MaxPages
  BY DEF IInv, Place
<1>2. Openable
  BY <1>1, TornAssumption, BoundsAssumption DEF IInv, Pages, Openable
<1>3. Recovered = Log(super)
  BY <1>2 DEF Recovered
<1>4. next \in Nat
  BY BoundsAssumption DEF IInv, TypeOK, HistoryType
<1>5. \A r \in Log(super) : r \in 1..(next - 1)
  BY <1>1, <1>4, LogBelowNext, BoundsAssumption DEF Records
<1>6. acked \subseteq Log(super)
  BY DEF IInv, Acked, Log
<1>7. QED
  BY <1>1, <1>3, <1>4, <1>5, <1>6 DEF RecoveredExact, RInv, Covered, Good

LEMMA RecoveredLogNext == (IInv /\ RInv)' => RecoveredExact'
  BY RecoveredLog, PTL

(* A step of the writer, with the invariants on both sides.                *)
Stepped ==
  /\ Faults = {} /\ IInv /\ RInv /\ RecoveredExact
  /\ (IInv /\ RInv)' /\ RecoveredExact' /\ Next

LEMMA SameSuper ==
  ASSUME Stepped, super' = super
  PROVE  Recovered' = Recovered
<1>1. \A i \in 1..super : disk'[i] = disk[i]
  BY WritesBehind DEF Stepped, RecoveredExact
<1>2. QED BY <1>1 DEF Log, Stepped, RecoveredExact

LEMMA GrownSuper ==
  ASSUME Stepped, super <= super'
  PROVE  Recovered \subseteq Recovered'
<1>1. \A i \in 1..super : disk'[i] = disk[i]
  BY WritesBehind DEF Stepped, RecoveredExact
<1>2. 1..super \subseteq 1..super'
  BY DEF Stepped, RecoveredExact
<1>3. QED BY <1>1, <1>2 DEF Log, Stepped, RecoveredExact

-----------------------------------------------------------------------------
(* The steps of the abstract log, by what changes.                         *)

LEMMA WholeRecovered ==
  ASSUME Stepped, UNCHANGED dropped
  PROVE  Durable!WholePrefix(Recovered', units')
BY DEF Stepped, RecoveredExact, Closed, Whole, Durable!WholePrefix

LEMMA ToStutter ==
  ASSUME Stepped, UNCHANGED <<super, next, acked, dropped, units>>
  PROVE  UNCHANGED Durable!vars
BY SameSuper DEF Durable!vars

LEMMA ToAccept ==
  ASSUME Stepped, UNCHANGED <<super, acked, dropped>>, next <= next',
         units' = units \/ \E u : units' = units \union {u} /\ \A r \in u : r \in 1..(next' - 1)
  PROVE  Durable!Accept
<1>1. Recovered' = Recovered
  BY SameSuper
<1>2. next' \in next..(MaxRecords + 1)
  <2>1. next' \in Nat /\ next \in Nat
    BY DEF Stepped, RecoveredExact
  <2>2. next' <= MaxRecords + 1
    BY BoundsAssumption DEF Stepped, IInv, TypeOK, HistoryType
  <2>3. QED BY <2>1, <2>2, BoundsAssumption
<1>3. units' = units \/ \E u \in SUBSET (1..(next' - 1)) : units' = units \union {u}
  OBVIOUS
<1>4. Durable!WholePrefix(Recovered, units')
  BY <1>1, WholeRecovered
<1>5. QED BY <1>1, <1>2, <1>3, <1>4 DEF Durable!Accept

LEMMA ToCommit ==
  ASSUME Stepped, UNCHANGED <<next, acked, dropped, units>>, super <= super'
  PROVE  Durable!Commit
<1>1. Recovered \subseteq Recovered'
  BY GrownSuper
<1>2. Recovered' \subseteq (1..(next - 1)) \ dropped
  BY DEF Stepped, RecoveredExact
<1>3. Durable!WholePrefix(Recovered', units)
  BY WholeRecovered
<1>4. QED BY <1>1, <1>2, <1>3 DEF Durable!Commit

LEMMA ToAcknowledge ==
  ASSUME Stepped, UNCHANGED <<super, next, dropped, units>>, acked \subseteq acked'
  PROVE  Durable!Acknowledge
<1>1. Recovered' = Recovered
  BY SameSuper
<1>2. acked' \subseteq Recovered
  BY <1>1 DEF Stepped, RecoveredExact
<1>3. QED BY <1>1, <1>2 DEF Durable!Acknowledge

LEMMA ToDrop ==
  ASSUME Stepped, UNCHANGED <<super, next, acked, units>>, dropped \subseteq dropped'
  PROVE  Durable!Drop
<1>1. Recovered' = Recovered
  BY SameSuper
<1>2. dropped' \subseteq (1..(next - 1)) \ Recovered
  <2>1. Recovered \cap dropped' = {}
    BY <1>1 DEF Stepped, RecoveredExact
  <2>2. \A r \in dropped' : r \in Nat /\ 1 <= r /\ r < next
    BY BoundsAssumption
    DEF Stepped, RInv, Fresh, IInv, TypeOK, HistoryType, Records
  <2>3. QED BY <2>1, <2>2 DEF Stepped, RecoveredExact
<1>3. QED BY <1>1, <1>2 DEF Durable!Drop

LEMMA ToCrash ==
  ASSUME Stepped, UNCHANGED <<next, acked, dropped, units>>, super' <= super
  PROVE  Durable!Crash
<1>1. Recovered' \subseteq Recovered
  <2>1. \A i \in 1..super' : i \in 1..super /\ disk'[i] = disk[i]
    BY WritesBehind DEF Stepped, RecoveredExact
  <2>2. QED BY <2>1 DEF Log, Stepped, RecoveredExact
<1>2. acked \subseteq Recovered'
  BY DEF Stepped, RecoveredExact
<1>3. Durable!WholePrefix(Recovered', units)
  BY WholeRecovered
<1>4. QED BY <1>1, <1>2, <1>3 DEF Durable!Crash

-----------------------------------------------------------------------------
(* Every step of the writer, of a fault and of a crash is one of them.     *)

AbstractStep == Durable!Next \/ UNCHANGED Durable!vars

LEMMA QuietSteps ==
  ASSUME Stepped, UNCHANGED <<super, next, acked, dropped, units>>
  PROVE  AbstractStep
BY ToStutter DEF AbstractStep

LEMMA AppendSteps ==
  ASSUME Stepped,
         (\E joins \in BOOLEAN : AppendUncommitted(joins) \/ Push(joins)) \/ ResumeAppend
  PROVE  AbstractStep
<1>1. UNCHANGED <<super, acked, dropped, units>> /\ (next' = next \/ next' = next + 1)
  BY DEF AppendUncommitted, Push, AppendTo, ResumeAppend, fileVars
<1>2. next <= next'
  BY <1>1 DEF Stepped, RecoveredExact
<1>3. QED BY <1>1, <1>2, ToAccept DEF AbstractStep, Durable!Next

LEMMA UnitSteps ==
  ASSUME Stepped, EndBatch \/ EndMigrate
  PROVE  AbstractStep
<1>1. /\ UNCHANGED <<super, next, acked, dropped>> /\ units' = units \union {batch}
      /\ mode # "single" /\ Live
  BY DEF EndBatch, EndMigrate, StartFlush, Usable, fileVars, Live
<1>2. \A r \in batch : r \in 1..(next - 1)
  <2>1. batch \subseteq Kept /\ written \in 0..MaxPages /\ next \in Nat
    BY <1>1 DEF Stepped, RInv, WaitingUnits, IInv, TypeOK, WriterType, RecoveredExact
  <2>2. \A r \in Log(written) : r \in Records /\ r < next
    BY <2>1, LogBelowNext DEF Stepped
  <2>3. \A r \in buf : r \in Records /\ r < next
    BY DEF Stepped, IInv, TypeOK, WriterType, Contents
  <2>4. QED BY <2>1, <2>2, <2>3, BoundsAssumption DEF Kept, Records
<1>3. next <= next'
  BY <1>1 DEF Stepped, RecoveredExact
<1>4. QED BY <1>1, <1>2, <1>3, ToAccept DEF AbstractStep, Durable!Next

LEMMA StageSteps ==
  ASSUME Stepped, NEW m \in Slots, NEW k \in Records, Stage(m, k)
  PROVE  AbstractStep
<1>1. /\ UNCHANGED <<super, acked, dropped>> /\ next' = next + k
      /\ units' = units \union {next..(next + k - 1)}
  BY DEF Stage, fileVars
<1>2. next \in Nat /\ next > 0 /\ k \in Nat
  BY BoundsAssumption DEF Stepped, IInv, TypeOK, HistoryType, Records
<1>3. next <= next' /\ \A r \in next..(next + k - 1) : r \in 1..(next' - 1)
  BY <1>1, <1>2
<1>4. QED BY <1>1, <1>3, ToAccept DEF AbstractStep, Durable!Next

LEMMA SuperSteps ==
  ASSUME Stepped, WriteSuper \/ SuperFails \/ StageSuper \/ StageSuperFails
  PROVE  AbstractStep
<1>1. UNCHANGED <<next, acked, dropped, units>>
  BY DEF WriteSuper, SuperFails, StageSuper, StageSuperFails, historyVars
<1>2. super <= super'
  <2>1. pc = "super" => super <= committed
    BY DEF Stepped, IInv, Place
  <2>2. pc = "st_super" => super <= staged.upto
    BY BoundsAssumption
    DEF Stepped, IInv, Place, StagePCs, TypeOK, WriterType, CallType
  <2>3. super \in Nat
    BY DEF Stepped, RecoveredExact
  <2>4. QED
    BY <2>1, <2>2, <2>3 DEF WriteSuper, SuperFails, StageSuper, StageSuperFails
<1>3. QED BY <1>1, <1>2, ToCommit DEF AbstractStep, Durable!Next

LEMMA ReturnSteps ==
  ASSUME Stepped, ReturnOk \/ Adopt
  PROVE  AbstractStep
<1>1. UNCHANGED <<super, next, dropped, units>> /\ acked \subseteq acked'
  BY DEF ReturnOk, Adopt, fileVars
<1>2. QED BY <1>1, ToAcknowledge DEF AbstractStep, Durable!Next

LEMMA DropSteps ==
  ASSUME Stepped, Discard \/ DiscardFails \/ StageFails \/ Open
  PROVE  AbstractStep
<1>1. UNCHANGED <<super, next, acked, units>> /\ dropped \subseteq dropped'
  BY DEF Discard, DiscardFails, StageFails, Open, fileVars
<1>2. QED BY <1>1, ToDrop DEF AbstractStep, Durable!Next

LEMMA CrashSteps ==
  ASSUME Stepped, PowerLoss
  PROVE  AbstractStep
<1>1. UNCHANGED <<next, acked, dropped, units>>
  BY DEF PowerLoss
<1>2. super' <= super
  BY DEF PowerLoss, Stepped, IInv, Place
<1>3. QED BY <1>1, <1>2, ToCrash DEF AbstractStep, Durable!Next

LEMMA EveryStep ==
  ASSUME Stepped
  PROVE  AbstractStep
<1>1. CASE Flush \/ StreamFlush \/ BeginBatch \/ FailBatch \/ BeginMigrate
  BY <1>1, QuietSteps
  DEF Flush, StreamFlush, StartFlush, BeginBatch, FailBatch, BeginMigrate,
      fileVars, historyVars
<1>2. CASE WritePage \/ WritePageFails \/ HoldSync \/ Sync \/ SyncFails \/ SyncSuper
  BY <1>2, QuietSteps
  DEF WritePage, PutPage, WritePageFails, HoldSync, Sync, SyncFails, SyncSuper,
      fileVars, historyVars
<1>3. CASE ResumeFlush \/ Kill
  BY <1>3, QuietSteps DEF ResumeFlush, Kill, fileVars, historyVars
<1>4. CASE StagePage \/ StageSync \/ StageTruncateFails \/ StageSuperSync \/ AdoptFails
  BY <1>4, QuietSteps
  DEF StagePage, PutPage, StageSync, StageTruncateFails, StageSuperSync,
      AdoptFails, fileVars, historyVars
<1>5. QED
  BY <1>1, <1>2, <1>3, <1>4, AppendSteps, UnitSteps, StageSteps, SuperSteps,
     ReturnSteps, DropSteps, CrashSteps
  DEF Stepped, Next

(* LogWriter implements DurableLog: the log a reopen would read only grows *)
(* by whole commits, in append order, keeps what was acknowledged, never   *)
(* takes in what was dropped, and loses only unacknowledged ends to a      *)
(* crash (log.rs, against what Store relies on).                           *)
THEOREM Implementation ==
  ASSUME Faults = {} PROVE Spec => ImplementsDurableLog
<1>1. Init => Durable!Init
  BY DEF Init, Durable!Init, Recovered, Log
<1>2. IInv /\ RInv /\ (IInv /\ RInv)' /\ [Next]_vars => [Durable!Next]_(Durable!vars)
  <2> SUFFICES ASSUME IInv, RInv, (IInv /\ RInv)', [Next]_vars
               PROVE  AbstractStep
    BY DEF AbstractStep
  <2>1. CASE Next
    <3>1. Stepped
      BY <2>1, RecoveredLog, RecoveredLogNext DEF Stepped
    <3>2. QED BY <3>1, EveryStep
  <2>2. CASE UNCHANGED vars
    BY <2>2
    DEF AbstractStep, Durable!vars, vars, fileVars, writerVars, callVars,
        historyVars, Recovered, Openable, Log
  <2>3. QED BY <2>1, <2>2
<1>3. QED
  BY <1>1, <1>2, RecoveryInvariance, PTL DEF Spec, ImplementsDurableLog, Durable!Spec

-----------------------------------------------------------------------------
(* What every behaviour of the abstract log guarantees, and so the writer. *)

(* next is a record number: the part of the type the proof needs.          *)
Numbered == next \in Nat

LEMMA EarlierRecords ==
  ASSUME NEW m \in Nat, NEW n \in Nat, m <= n
  PROVE  1..(m - 1) \subseteq 1..(n - 1)
  OBVIOUS

(* The log's promise holds in every behaviour: what was acknowledged is in *)
(* the log, what was dropped is not, and the log is a prefix of append     *)
(* order made of whole units (the contract Store relies on in log.rs).     *)
THEOREM PromiseKept == Durable!Spec => []Durable!Promise
<1>1. Durable!Init => Numbered /\ Durable!Promise
  BY DEF Durable!Init, Numbered, Durable!Promise, Durable!WholePrefix
<1>2. Numbered /\ Durable!Promise /\ [Durable!Next]_(Durable!vars)
        => (Numbered /\ Durable!Promise)'
  <2> SUFFICES ASSUME Numbered, Durable!Promise, [Durable!Next]_(Durable!vars)
               PROVE  Numbered' /\ Durable!Promise'
    OBVIOUS
  <2> USE DEF Numbered, Durable!Promise, Durable!WholePrefix
  <2>1. CASE Durable!Accept
    <3>1. next' \in Nat /\ next <= next'
      BY <2>1, BoundsAssumption DEF Durable!Accept
    <3>2. UNCHANGED <<Recovered, acked, dropped>> /\ Durable!WholePrefix(Recovered, units')
      BY <2>1 DEF Durable!Accept
    <3>3. Recovered' \subseteq 1..(next' - 1)
      <4>1. 1..(next - 1) \subseteq 1..(next' - 1)
        BY <3>1, EarlierRecords
      <4>2. Recovered' \subseteq 1..(next - 1)
        BY <3>2
      <4>3. QED BY <4>1, <4>2, Zenon
    <3>4. Durable!WholePrefix(Recovered, units)'
      BY <3>2
    <3>5. QED BY <3>1, <3>2, <3>3, <3>4
  <2>2. CASE Durable!Commit
    BY <2>2 DEF Durable!Commit
  <2>3. CASE Durable!Acknowledge
    BY <2>3 DEF Durable!Acknowledge
  <2>4. CASE Durable!Drop
    BY <2>4 DEF Durable!Drop
  <2>5. CASE Durable!Crash
    BY <2>5 DEF Durable!Crash
  <2>6. CASE UNCHANGED Durable!vars
    BY <2>6 DEF Durable!vars
  <2>7. QED BY <2>1, <2>2, <2>3, <2>4, <2>5, <2>6 DEF Durable!Next
<1>3. QED BY <1>1, <1>2, PTL DEF Durable!Spec

(* The same of the paged log: at any moment, what a reopen would read      *)
(* holds every acknowledged record and no dropped one, and is a prefix of  *)
(* append order made of whole batches (log.rs).                            *)
THEOREM WriterKeepsPromise ==
  ASSUME Faults = {} PROVE Spec => []Durable!Promise
<1>1. Spec => Durable!Spec
  BY Implementation DEF ImplementsDurableLog
<1> QED BY <1>1, PromiseKept, PTL

-----------------------------------------------------------------------------
(* Sidecar: a delta file is read frame by frame.                           *)

(* Where the next frame begins.                                            *)
After(cells, at) == at + BodyLen(cells, at) + 1

(* H are the heads of the frames read from `start` on, and nothing is read *)
(* at e.                                                                   *)
Frames(cells, start, H, e) ==
  /\ e \in start..(Len(cells) + 1)
  /\ H \subseteq start..(e - 1)
  /\ start \in H \cup {e}
  /\ ~WholeFrame(cells, e)
  /\ \A h \in H : WholeFrame(cells, h) /\ After(cells, h) \in H \cup {e}
  /\ \A h \in H \cup {e} : h = start \/ \E g \in H : After(cells, g) = h
  /\ \A h \in H, k \in H \cup {e} : h < k => After(cells, h) <= k

(* A frame that is all there ends in the file.                             *)
LEMMA AfterBounds ==
  ASSUME NEW c \in Seq(CellSet), NEW at \in Nat, at > 0, WholeFrame(c, at)
  PROVE  /\ BodyLen(c, at) \in Nat /\ BodyLen(c, at) >= 1
         /\ c[at].n \in Nat /\ BodyLen(c, at) = 1 + c[at].n
         /\ After(c, at) \in (at + 2)..(Len(c) + 1)
         /\ at \in 1..Len(c)
<1>1. Len(c) \in Nat /\ at \in 1..Len(c)
  BY DEF WholeFrame
<1>2. c[at] \in CellSet
  BY <1>1
<1>3. c[at].n \in Nat
  BY <1>2 DEF CellSet
<1> QED
  BY <1>1, <1>3 DEF WholeFrame, After, BodyLen

(* There is one way to read the frames.                                    *)
LEMMA FramesUnique ==
  ASSUME NEW c \in Seq(CellSet), NEW s \in Nat, s > 0, NEW H, NEW e, NEW G, NEW f,
         Frames(c, s, H, e), Frames(c, s, G, f)
  PROVE  H = G /\ e = f
<1>1. ASSUME NEW A, NEW a, NEW B, NEW b, Frames(c, s, A, a), Frames(c, s, B, b)
      PROVE  A \cup {a} \subseteq B \cup {b}
  <2> DEFINE T == {n \in Nat : \A k \in A \cup {a} : k <= n => k \in B \cup {b}}
  <2>0. Len(c) \in Nat
    OBVIOUS
  <2>1. A \cup {a} \subseteq Nat /\ \A k \in A \cup {a} : k >= s
    BY <1>1, <2>0 DEF Frames
  <2>2. 0 \in T
    BY <2>1
  <2>3. ASSUME NEW n \in T PROVE n + 1 \in T
    <3>1. SUFFICES ASSUME NEW k \in A \cup {a}, k <= n + 1 PROVE k \in B \cup {b}
      OBVIOUS
    <3>2. CASE k = s
      BY <3>2, <1>1 DEF Frames
    <3>3. CASE k # s
      <4>1. PICK g \in A : After(c, g) = k
        BY <3>3, <1>1 DEF Frames
      <4>2. g \in Nat /\ g > 0 /\ WholeFrame(c, g)
        BY <2>1, <1>1 DEF Frames
      <4>3. After(c, g) >= g + 2
        BY <4>2, AfterBounds, <2>0
      <4>4. g \in B \cup {b}
        <5>1. n \in Nat /\ g <= n /\ g \in A \cup {a}
          BY <4>1, <4>2, <4>3, <3>1
        <5> QED
          BY <5>1, <2>3
      <4>5. g # b
        BY <4>2, <1>1 DEF Frames
      <4> QED
        BY <4>4, <4>5, <4>1, <1>1 DEF Frames
    <3> QED
      BY <3>2, <3>3
  <2>4. T = Nat
    <3> HIDE DEF T
    <3>1. T \subseteq Nat
      BY DEF T
    <3> QED
      BY <3>1, <2>2, <2>3, NatSetInduction
  <2> QED
    BY <2>1, <2>4
<1>2. H \cup {e} = G \cup {f}
  <2>1. H \cup {e} \subseteq G \cup {f}
    BY <1>1
  <2>2. G \cup {f} \subseteq H \cup {e}
    BY <1>1
  <2> QED
    BY <2>1, <2>2
<1>3. e = f
  BY <1>2 DEF Frames
<1>4. e \notin H /\ f \notin G
  BY DEF Frames
<1> QED
  BY <1>2, <1>3, <1>4

(* A whole frame before frames that are read.                              *)
LEMMA FramesStep ==
  ASSUME NEW c \in Seq(CellSet), NEW at \in Nat, at > 0, WholeFrame(c, at),
         NEW H, NEW e, Frames(c, After(c, at), H, e)
  PROVE  Frames(c, at, {at} \cup H, e)
<1>1. After(c, at) \in (at + 2)..(Len(c) + 1) /\ Len(c) \in Nat
  BY AfterBounds
<1>2. /\ e \in After(c, at)..(Len(c) + 1)
      /\ H \subseteq After(c, at)..(e - 1)
      /\ After(c, at) \in H \cup {e}
      /\ ~WholeFrame(c, e)
      /\ \A h \in H : WholeFrame(c, h) /\ After(c, h) \in H \cup {e}
      /\ \A h \in H \cup {e} : h = After(c, at) \/ \E g \in H : After(c, g) = h
      /\ \A h \in H, k \in H \cup {e} : h < k => After(c, h) <= k
  BY DEF Frames
<1>3. \A k \in H \cup {e} : k >= After(c, at) /\ k \in Nat
  BY <1>1, <1>2
<1> DEFINE J == {at} \cup H
<1>4. e \in at..(Len(c) + 1) /\ J \subseteq at..(e - 1) /\ at \in J \cup {e}
  BY <1>1, <1>2
<1>5. \A h \in J : WholeFrame(c, h) /\ After(c, h) \in J \cup {e}
  BY <1>2
<1>6. \A h \in J \cup {e} : h = at \/ \E g \in J : After(c, g) = h
  BY <1>2
<1>7. \A h \in J, k \in J \cup {e} : h < k => After(c, h) <= k
  BY <1>1, <1>2, <1>3
<1> QED
  BY <1>2, <1>4, <1>5, <1>6, <1>7 DEF Frames

(* The recursive function of Heads exists.                                 *)
LEMMA FromExists ==
  ASSUME NEW c \in Seq(CellSet)
  PROVE  \E f : f = [at \in 1..(Len(c) + 1) |->
                      IF WholeFrame(c, at) THEN {at} \cup f[at + BodyLen(c, at) + 1] ELSE {}]
<1> DEFINE L == Len(c)
           D == 1..(L + 1)
           From(f, k) == \A at \in D : at >= L + 1 - k =>
                           f[at] = IF WholeFrame(c, at) THEN {at} \cup f[at + BodyLen(c, at) + 1] ELSE {}
           T == {k \in Nat : \E f : f = [at \in D |-> f[at]] /\ From(f, k)}
<1>0. L \in Nat
  OBVIOUS
<1>1. 0 \in T
  <2> DEFINE f == [at \in D |-> {}]
  <2>1. ASSUME NEW at \in D, at >= L + 1 PROVE ~WholeFrame(c, at)
    BY <2>1, <1>0 DEF WholeFrame
  <2>2. f = [at \in D |-> f[at]] /\ From(f, 0)
    BY <2>1, <1>0
  <2> QED
    BY <2>2
<1>2. ASSUME NEW k \in T PROVE k + 1 \in T
  <2>1. PICK f : f = [at \in D |-> f[at]] /\ From(f, k)
    OBVIOUS
  <2>2. k \in Nat
    OBVIOUS
  <2> DEFINE m == L + 1 - (k + 1)
             val == IF WholeFrame(c, m) THEN {m} \cup f[m + BodyLen(c, m) + 1] ELSE {}
             g == [at \in D |-> IF at = m THEN val ELSE f[at]]
  <2>3. g = [at \in D |-> g[at]]
    OBVIOUS
  <2>4. ASSUME NEW at \in D, at >= m
        PROVE  g[at] = IF WholeFrame(c, at) THEN {at} \cup g[at + BodyLen(c, at) + 1] ELSE {}
    <3>1. CASE ~WholeFrame(c, at)
      BY <3>1, <2>1, <2>4, <2>2, <1>0
    <3>2. CASE WholeFrame(c, at)
      <4>1. /\ at + BodyLen(c, at) + 1 \in D /\ at + BodyLen(c, at) + 1 > at
        BY <3>2, AfterBounds, <1>0 DEF After
      <4>2. at + BodyLen(c, at) + 1 # m
        BY <4>1, <2>4, <1>0, <2>2
      <4>3. g[at + BodyLen(c, at) + 1] = f[at + BodyLen(c, at) + 1]
        BY <4>1, <4>2
      <4>4. CASE at = m
        BY <4>4, <3>2, <4>3
      <4>5. CASE at # m
        <5>1. at >= L + 1 - k
          BY <4>5, <2>4, <1>0, <2>2
        <5>2. f[at] = {at} \cup f[at + BodyLen(c, at) + 1]
          BY <5>1, <2>1, <3>2
        <5> QED
          BY <5>2, <4>3, <4>5, <3>2
      <4> QED
        BY <4>4, <4>5
    <3> QED
      BY <3>1, <3>2
  <2>5. From(g, k + 1)
    <3> HIDE DEF g, val
    <3> QED BY <2>4
  <2> QED
    <3> HIDE DEF g, From
    <3> QED BY <2>3, <2>5, <2>2
<1>3. T = Nat
  <2> HIDE DEF T
  <2>1. T \subseteq Nat
    BY DEF T
  <2> QED
    BY <2>1, <1>1, <1>2, NatSetInduction
<1>4. L \in T
  BY <1>3, <1>0
<1>5. PICK f : f = [at \in D |-> f[at]] /\ From(f, L)
  BY <1>4
<1>6. \A at \in D : f[at] = IF WholeFrame(c, at) THEN {at} \cup f[at + BodyLen(c, at) + 1] ELSE {}
  <2>1. SUFFICES ASSUME NEW at \in D
        PROVE f[at] = IF WholeFrame(c, at) THEN {at} \cup f[at + BodyLen(c, at) + 1] ELSE {}
    OBVIOUS
  <2>2. at >= L + 1 - L
    BY <1>0
  <2> QED
    BY <2>2, <1>5
<1>7. f = [at \in D |-> IF WholeFrame(c, at) THEN {at} \cup f[at + BodyLen(c, at) + 1] ELSE {}]
  <2> DEFINE h == [at \in D |-> IF WholeFrame(c, at) THEN {at} \cup f[at + BodyLen(c, at) + 1] ELSE {}]
  <2>1. \A at \in D : f[at] = h[at]
    BY <1>6
  <2>2. h = [at \in D |-> h[at]]
    OBVIOUS
  <2> HIDE DEF h
  <2>3. f = h
    BY <2>1, <2>2, <1>5
  <2> QED
    BY <2>3 DEF h
<1> QED
  BY <1>7

(* Heads reads frames from the first cell on.                              *)
LEMMA HeadsAre ==
  ASSUME NEW c \in Seq(CellSet)
  PROVE  \E e : Frames(c, 1, Heads(c), e)
<1> DEFINE D == 1..(Len(c) + 1)
           f == CHOOSE f : f = [at \in D |->
                  IF WholeFrame(c, at) THEN {at} \cup f[at + BodyLen(c, at) + 1] ELSE {}]
<1>1. f = [at \in D |-> IF WholeFrame(c, at) THEN {at} \cup f[at + BodyLen(c, at) + 1] ELSE {}]
  BY FromExists
<1>2. Heads(c) = f[1]
  BY DEF Heads
<1> HIDE DEF f
<1>3. Len(c) \in Nat
  OBVIOUS
<1> DEFINE T == {k \in Nat : \A at \in D : at >= Len(c) + 1 - k => \E e : Frames(c, at, f[at], e)}
<1>4. ASSUME NEW at \in D, ~WholeFrame(c, at) PROVE Frames(c, at, f[at], at)
  <2>1. f[at] = {}
    BY <1>1, <1>4
  <2> QED
    BY <2>1, <1>4, <1>3 DEF Frames
<1>5. 0 \in T
  <2>1. ASSUME NEW at \in D, at >= Len(c) + 1 PROVE ~WholeFrame(c, at)
    BY <2>1, <1>3 DEF WholeFrame
  <2> QED
    BY <2>1, <1>4, <1>3
<1>6. ASSUME NEW k \in T PROVE k + 1 \in T
  <2>1. SUFFICES ASSUME NEW at \in D, at >= Len(c) + 1 - (k + 1) PROVE \E e : Frames(c, at, f[at], e)
    BY <1>3
  <2>2. CASE ~WholeFrame(c, at)
    BY <2>2, <1>4
  <2>3. CASE WholeFrame(c, at)
    <3>1. After(c, at) \in D /\ After(c, at) >= at + 2
      BY <2>3, AfterBounds, <1>3
    <3>2. After(c, at) >= Len(c) + 1 - k
      BY <3>1, <2>1, <1>3
    <3>3. PICK e : Frames(c, After(c, at), f[After(c, at)], e)
      BY <3>1, <3>2, <1>6
    <3>4. f[at] = {at} \cup f[After(c, at)]
      BY <1>1, <2>3 DEF After
    <3>5. Frames(c, at, {at} \cup f[After(c, at)], e)
      BY <3>3, <2>3, FramesStep
    <3> QED
      BY <3>4, <3>5
  <2> QED
    BY <2>2, <2>3
<1>7. T = Nat
  <2> HIDE DEF T
  <2>1. T \subseteq Nat
    BY DEF T
  <2> QED
    BY <2>1, <1>5, <1>6, NatSetInduction
<1>8. 1 \in D /\ 1 >= Len(c) + 1 - Len(c)
  BY <1>3
<1>9. \E e : Frames(c, 1, f[1], e)
  BY <1>7, <1>8, <1>3
<1> QED
  BY <1>9, <1>2

(* What the recursive definitions of the delta file compute.               *)
LEMMA FramesGive ==
  ASSUME NEW c \in Seq(CellSet), NEW H, NEW e, Frames(c, 1, H, e)
  PROVE  /\ Heads(c) = H
         /\ GoodCells(c) = e - 1
         /\ H # {} => Max(H) \in H /\ After(c, Max(H)) = e /\ \A h \in H : h <= Max(H)
<1>1. Heads(c) = H
  BY HeadsAre, FramesUnique
<1>2. Len(c) \in Nat /\ e \in 1..(Len(c) + 1) /\ H \subseteq 1..(e - 1)
  BY DEF Frames
<1>3. CASE H = {}
  <2>1. e = 1
    BY <1>3 DEF Frames
  <2> QED
    BY <2>1, <1>1, <1>3 DEF GoodCells
<1>4. CASE H # {}
  <2>1. e # 1
    <3>1. PICK h \in H : TRUE
      BY <1>4
    <3>2. h \in 1..(e - 1)
      BY <1>2
    <3> QED
      BY <3>2
  <2>2. PICK g \in H : After(c, g) = e
    BY <2>1 DEF Frames
  <2>3. \A h \in H : h <= g
    <3>1. SUFFICES ASSUME NEW h \in H, h > g PROVE FALSE
      BY <1>2
    <3>2. After(c, g) <= h
      BY <3>1 DEF Frames
    <3> QED
      BY <3>2, <2>2, <1>2
  <2>4. H \in SUBSET Nat
    BY <1>2
  <2>5. Max(H) = g
    BY <2>3, <2>4, MaxIs
  <2>6. GoodCells(c) = g + BodyLen(c, g)
    BY <2>5, <1>1, <1>4 DEF GoodCells
  <2>7. WholeFrame(c, g) /\ g \in Nat /\ g > 0
    BY <1>2 DEF Frames
  <2>8. BodyLen(c, g) \in Nat
    BY <2>7, AfterBounds
  <2> QED
    BY <2>2, <2>3, <2>5, <2>6, <2>7, <2>8, <1>1 DEF After
<1> QED
  BY <1>3, <1>4


(* A frame has a row for each of its identities.                           *)
LEMMA FrameShape ==
  ASSUME NEW pages \in Nat, NEW rows \in Rows, NEW ids \in SUBSET Ids
  PROVE  LET F == FrameOf(pages, rows, ids)
             n == Cardinality(ids)
         IN /\ n \in Nat /\ F \in Seq(CellSet) /\ Len(F) = n + 2
            /\ F[1].page = pages /\ F[1].n = n
            /\ \A k \in 1..n : F[k + 1].id \in ids /\ F[k + 1].page = rows[F[k + 1].id]
            /\ \A i \in ids : \E k \in 1..n : F[k + 1].id = i
<1> DEFINE F == FrameOf(pages, rows, ids)
           n == Cardinality(ids)
           s == SetToSeq(ids)
           a == <<Cell("head", NoFile, pages, n)>>
           b == [k \in 1..n |-> Cell("row", s[k], rows[s[k]], 0)]
           z == <<Cell("crc", NoFile, 0, 0)>>
<1>1. IsFiniteSet(ids) /\ n \in Nat
  BY BoundAssumption, FS_Subset, FS_CardinalityType
<1>2. /\ s \in Seq(ids) /\ DOMAIN s = 1..n /\ s \in [1..n -> ids]
      /\ \A x \in ids : \E i \in DOMAIN s : s[i] = x
  <2>1. s \in [1..n -> ids]
    <3> DEFINE N == n
    <3>1. n \in Nat /\ ExistsBijection(1..n, ids)
      BY <1>1, FS_CardinalityType
    <3>2. \E f : f \in [1..n -> ids] /\ IsInjective(f)
      BY <3>1 DEF ExistsBijection, Bijection, Injection, IsInjective
    <3> QED
      BY <3>2 DEF SetToSeq
  <2> QED
    BY <2>1, <1>1, SetToSeqLists
<1>3. \A k \in 1..n : s[k] \in ids /\ rows[s[k]] \in Nat
  <2> HIDE DEF n, s
  <2>1. SUFFICES ASSUME NEW k \in 1..n PROVE s[k] \in ids /\ rows[s[k]] \in Nat
    OBVIOUS
  <2>2. s[k] \in ids
    BY <1>2
  <2> QED
    BY <2>2 DEF Rows
<1>4. a \in Seq(CellSet) /\ Len(a) = 1 /\ a[1] = Cell("head", NoFile, pages, n)
  <2>1. Cell("head", NoFile, pages, n) \in CellSet
    BY <1>1 DEF Cell, CellSet
  <2> QED
    BY <2>1
<1>5. z \in Seq(CellSet) /\ Len(z) = 1
  <2>1. Cell("crc", NoFile, 0, 0) \in CellSet
    BY DEF Cell, CellSet
  <2> QED
    BY <2>1
<1>6. b \in Seq(CellSet) /\ Len(b) = n /\ \A k \in 1..n : b[k] = Cell("row", s[k], rows[s[k]], 0)
  <2>1. \A k \in 1..n : Cell("row", s[k], rows[s[k]], 0) \in CellSet
    <3> HIDE DEF n, s
    <3> QED
      BY <1>3 DEF Cell, CellSet
  <2>2. b \in [1..n -> CellSet]
    BY <2>1
  <2> HIDE DEF n
  <2> QED
    BY <2>2, <1>1
<1> HIDE DEF a, b, z, n, s
<1>7. F = a \o b \o z
  BY DEF FrameOf, a, b, z, n, s
<1>8. /\ a \o b \in Seq(CellSet) /\ Len(a \o b) = n + 1
      /\ (a \o b)[1] = a[1]
      /\ \A k \in 1..n : (a \o b)[k + 1] = b[k]
  <2>1. /\ a \o b \in Seq(CellSet) /\ Len(a \o b) = Len(a) + Len(b)
        /\ \A k \in 1..(Len(a) + Len(b)) :
             (a \o b)[k] = IF k <= Len(a) THEN a[k] ELSE b[k - Len(a)]
    BY <1>4, <1>6, ConcatProperties
  <2>2. Len(a) + Len(b) = n + 1
    BY <1>1, <1>4, <1>6
  <2>3. 1 \in 1..(n + 1) /\ (a \o b)[1] = a[1]
    BY <1>1, <1>4, <2>1, <2>2
  <2>4. ASSUME NEW k \in 1..n PROVE (a \o b)[k + 1] = b[k]
    <3>1. k + 1 \in 1..(n + 1) /\ k + 1 > 1 /\ k + 1 - 1 = k
      BY <1>1
    <3> QED
      BY <3>1, <2>1, <2>2, <1>4
  <2> QED
    BY <1>1, <2>1, <2>2, <2>3, <2>4
<1>9. /\ F \in Seq(CellSet) /\ Len(F) = n + 2
      /\ F[1] = a[1]
      /\ \A k \in 1..n : F[k + 1] = b[k]
  <2> DEFINE ab == a \o b
  <2> HIDE DEF F, ab
  <2>a. ab \in Seq(CellSet) /\ F = ab \o z
    BY <1>7, <1>8 DEF ab
  <2>b. /\ ab \o z \in Seq(CellSet) /\ Len(ab \o z) = Len(ab) + Len(z)
        /\ \A k \in 1..(Len(ab) + Len(z)) :
             (ab \o z)[k] = IF k <= Len(ab) THEN ab[k] ELSE z[k - Len(ab)]
    BY <1>5, <2>a, ConcatProperties
  <2>0. /\ F \in Seq(CellSet) /\ Len(F) = Len(a \o b) + Len(z)
        /\ \A k \in 1..(Len(a \o b) + Len(z)) :
             F[k] = IF k <= Len(a \o b) THEN (a \o b)[k] ELSE z[k - Len(a \o b)]
    BY <2>a, <2>b DEF ab
  <2>1. \A k \in 1..(n + 1) : F[k] = (a \o b)[k]
    BY <1>1, <1>5, <1>8, <2>0
  <2>2. F \in Seq(CellSet) /\ Len(F) = n + 2
    BY <1>1, <1>5, <1>8, <2>0
  <2>3. 1 \in 1..(n + 1) /\ \A k \in 1..n : k + 1 \in 1..(n + 1)
    BY <1>1
  <2> QED
    BY <2>1, <2>2, <2>3, <1>8
<1>10. F[1].page = pages /\ F[1].n = n
  BY <1>9, <1>4 DEF Cell
<1>11. \A k \in 1..n : F[k + 1].id = s[k] /\ F[k + 1].page = rows[s[k]]
  BY <1>9, <1>6 DEF Cell
<1> HIDE DEF F
<1>12. \A k \in 1..n : F[k + 1].id \in ids /\ F[k + 1].page = rows[F[k + 1].id]
  BY <1>11, <1>3
<1>13. \A i \in ids : \E k \in 1..n : F[k + 1].id = i
  BY <1>11, <1>2
<1> QED
  BY <1>1, <1>9, <1>10, <1>12, <1>13 DEF F, n

(* Where the rows of the good frames are.                                  *)
RowCells(c) == UNION {RowsAt(c, at) : at \in Heads(c)}
RowCellsOf(c, i) == {k \in RowCells(c) : c[k].id = i}

(* The row an overlay gives an identity.                                   *)
LEMMA OverlayIs ==
  ASSUME NEW r, NEW c, NEW i \in Ids
  PROVE  Overlay(r, c)[i] = IF RowCellsOf(c, i) = {} THEN r[i] ELSE c[Max(RowCellsOf(c, i))].page
BY DEF Overlay, RowCellsOf, RowCells

(* Rows are where the frames are.                                          *)
LEMMA RowCellsBounds ==
  ASSUME NEW c \in Seq(CellSet), NEW e, Frames(c, 1, Heads(c), e)
  PROVE  /\ RowCells(c) \subseteq 1..(e - 1)
         /\ \A h \in Heads(c) : h \in 1..(e - 1) /\ c[h].n \in Nat /\ h + c[h].n < e - 1
<1>1. Len(c) \in Nat /\ e \in 1..(Len(c) + 1) /\ Heads(c) \subseteq 1..(e - 1)
  BY DEF Frames
<1>2. ASSUME NEW h \in Heads(c) PROVE c[h].n \in Nat /\ h + c[h].n < e - 1
  <2>1. h \in Nat /\ h > 0 /\ WholeFrame(c, h)
    BY <1>1 DEF Frames
  <2>2. h < e /\ After(c, h) <= e
    BY <1>1 DEF Frames
  <2>3. c[h].n \in Nat /\ BodyLen(c, h) = 1 + c[h].n
    BY <2>1, AfterBounds
  <2> QED
    BY <2>1, <2>2, <2>3, <1>1 DEF After
<1>3. ASSUME NEW k \in RowCells(c) PROVE k \in 1..(e - 1)
  <2>1. PICK h \in Heads(c) : k \in (h + 1)..(h + c[h].n)
    BY DEF RowCells, RowsAt
  <2> QED
    BY <2>1, <1>1, <1>2
<1> QED
  BY <1>1, <1>2, <1>3

(* An overlay gives rows.                                                  *)
LEMMA OverlayTyped ==
  ASSUME NEW r \in Rows, NEW c \in Seq(CellSet)
  PROVE  Overlay(r, c) \in Rows
<1>1. PICK e : Frames(c, 1, Heads(c), e)
  BY HeadsAre
<1>2. Len(c) \in Nat /\ RowCells(c) \subseteq 1..Len(c)
  BY <1>1, RowCellsBounds DEF Frames
<1>3. ASSUME NEW i \in Ids PROVE Overlay(r, c)[i] \in Nat
  <2>1. CASE RowCellsOf(c, i) = {}
    BY <2>1, OverlayIs DEF Rows
  <2>2. CASE RowCellsOf(c, i) # {}
    <3>1. RowCellsOf(c, i) \in SUBSET (1..Len(c))
      BY <1>2 DEF RowCellsOf
    <3>2. Max(RowCellsOf(c, i)) \in 1..Len(c)
      BY <3>1, <2>2, <1>2, MaxIn
    <3>3. c[Max(RowCellsOf(c, i))] \in CellSet
      BY <3>2
    <3>4. c[Max(RowCellsOf(c, i))].page \in Nat
      BY <3>3 DEF CellSet
    <3> QED
      BY <3>4, <2>2, OverlayIs
  <2> QED
    BY <2>1, <2>2
<1>4. Overlay(r, c) = [i \in Ids |-> Overlay(r, c)[i]]
  BY DEF Overlay
<1> QED
  BY <1>3, <1>4 DEF Rows

(* A delta decides the row of an identity or leaves it alone, whatever the *)
(* rows are that it is put over.                                           *)
LEMMA OverlayDecides ==
  ASSUME NEW r, NEW q, NEW c, NEW i \in Ids
  PROVE  \/ Overlay(r, c)[i] = Overlay(q, c)[i]
         \/ Overlay(r, c)[i] = r[i] /\ Overlay(q, c)[i] = q[i]
BY OverlayIs

(* Two delta files that agree up to where the good frames of one end.      *)
LEMMA SameFrames ==
  ASSUME NEW c \in Seq(CellSet), NEW g \in Seq(CellSet), NEW e, Frames(c, 1, Heads(c), e),
         e - 1 <= Len(g), \A k \in 1..(e - 1) : g[k] = c[k], ~WholeFrame(g, e)
  PROVE  /\ Heads(g) = Heads(c) /\ GoodCells(g) = e - 1 /\ GoodCells(c) = e - 1
         /\ Frames(g, 1, Heads(g), e)
         /\ Heads(c) # {} => DeltaStamp(g) = DeltaStamp(c)
         /\ \A r : Overlay(r, g) = Overlay(r, c)
<1> DEFINE H == Heads(c)
<1>1. Len(c) \in Nat /\ Len(g) \in Nat /\ e \in 1..(Len(c) + 1) /\ H \subseteq 1..(e - 1)
  BY DEF Frames
<1>2. ASSUME NEW h \in H PROVE g[h] = c[h] /\ After(g, h) = After(c, h) /\ WholeFrame(g, h)
  <2>1. h \in 1..(e - 1) /\ WholeFrame(c, h) /\ h \in Nat /\ h > 0
    BY <1>1 DEF Frames
  <2>2. g[h] = c[h]
    BY <2>1
  <2>3. After(c, h) <= e
    BY <2>1, <1>1 DEF Frames
  <2>4. BodyLen(c, h) \in Nat /\ BodyLen(g, h) = BodyLen(c, h)
    BY <2>1, <2>2, AfterBounds DEF BodyLen
  <2> QED
    BY <2>1, <2>2, <2>3, <2>4, <1>1 DEF After, WholeFrame
<1>3. Frames(g, 1, H, e)
  <2>1. e \in 1..(Len(g) + 1) /\ H \subseteq 1..(e - 1) /\ 1 \in H \cup {e}
    BY <1>1 DEF Frames
  <2>2. \A h \in H : WholeFrame(g, h) /\ After(g, h) \in H \cup {e}
    BY <1>2 DEF Frames
  <2>3. \A h \in H \cup {e} : h = 1 \/ \E k \in H : After(g, k) = h
    BY <1>2 DEF Frames
  <2>4. \A h \in H, k \in H \cup {e} : h < k => After(g, h) <= k
    BY <1>2 DEF Frames
  <2> QED
    BY <2>1, <2>2, <2>3, <2>4 DEF Frames
<1>4. Heads(g) = H /\ GoodCells(g) = e - 1
  BY <1>3, FramesGive
<1>5. GoodCells(c) = e - 1 /\ (H # {} => Max(H) \in H)
  BY FramesGive
<1>6. H # {} => DeltaStamp(g) = DeltaStamp(c)
  BY <1>2, <1>4, <1>5 DEF DeltaStamp
<1>7. RowCells(g) = RowCells(c)
  BY <1>2, <1>4 DEF RowCells, RowsAt
<1>8. RowCells(c) \subseteq 1..(e - 1)
  BY RowCellsBounds
<1>9. \A i : RowCellsOf(g, i) = RowCellsOf(c, i)
  BY <1>7, <1>8 DEF RowCellsOf
<1>10. ASSUME NEW r PROVE Overlay(r, g) = Overlay(r, c)
  <2>1. ASSUME NEW i \in Ids PROVE Overlay(r, g)[i] = Overlay(r, c)[i]
    <3>1. CASE RowCellsOf(c, i) = {}
      BY <3>1, <1>9, OverlayIs
    <3>2. CASE RowCellsOf(c, i) # {}
      <4>1. RowCellsOf(c, i) \in SUBSET (1..Len(c))
        BY <1>1, <1>8 DEF RowCellsOf
      <4>2. Max(RowCellsOf(c, i)) \in RowCellsOf(c, i)
        BY <4>1, <3>2, <1>1, MaxIn
      <4>3. Max(RowCellsOf(c, i)) \in 1..(e - 1)
        BY <4>2, <1>8 DEF RowCellsOf
      <4>4. g[Max(RowCellsOf(c, i))] = c[Max(RowCellsOf(c, i))]
        BY <4>3
      <4> QED
        BY <4>4, <3>2, <1>9, OverlayIs
    <3> QED
      BY <3>1, <3>2
  <2>2. /\ Overlay(r, g) = [i \in Ids |-> Overlay(r, g)[i]]
        /\ Overlay(r, c) = [i \in Ids |-> Overlay(r, c)[i]]
    BY DEF Overlay
  <2> QED
    BY <2>1, <2>2
<1> QED
  BY <1>3, <1>4, <1>5, <1>6, <1>10


(* A set of positions that is not empty has a largest one.                 *)
LEMMA MaxOfBounded ==
  ASSUME NEW N \in Nat, NEW s \in SUBSET (0..N), s # {}
  PROVE  Max(s) \in s /\ \A y \in s : Max(s) >= y
<1> DEFINE T == {n \in Nat : \A t \in SUBSET (0..n) : t # {} => \E z \in t : \A y \in t : z >= y}
<1>1. 0 \in T
  <2>0. 0..0 = {0}
    OBVIOUS
  <2>1. \A t \in SUBSET (0..0) : t # {} => t = {0}
    BY <2>0
  <2> QED BY <2>1
<1>2. ASSUME NEW n \in T PROVE n + 1 \in T
  <2> SUFFICES ASSUME NEW t \in SUBSET (0..(n + 1)), t # {} PROVE \E z \in t : \A y \in t : z >= y
    OBVIOUS
  <2>1. CASE n + 1 \in t
    BY <2>1
  <2>2. CASE n + 1 \notin t
    <3>1. t \in SUBSET (0..n)
      BY <2>2
    <3> QED BY <3>1
  <2> QED BY <2>1, <2>2
<1> HIDE DEF T
<1>3. T = Nat
  <2>1. T \subseteq Nat BY DEF T
  <2> QED BY <1>1, <1>2, <2>1, NatSetInduction
<1>4. \E z \in s : \A y \in s : z >= y
  BY <1>3 DEF T
<1> QED BY <1>4 DEF Max

(* An empty delta says nothing.                                            *)
LEMMA NoCells ==
  /\ <<>> \in Seq(CellSet) /\ Len(<<>>) = 0
  /\ Heads(<<>>) = {} /\ GoodCells(<<>>) = 0
  /\ \A r \in Rows : Overlay(r, <<>>) = r
<1>1. <<>> \in Seq(CellSet) /\ Len(<<>>) = 0
  OBVIOUS
<1>2. Frames(<<>>, 1, {}, 1)
  BY <1>1 DEF Frames, WholeFrame
<1>3. Heads(<<>>) = {} /\ GoodCells(<<>>) = 0
  <2> DEFINE c == <<>>
  <2>1. c \in Seq(CellSet) /\ Frames(c, 1, {}, 1)
    BY <1>1, <1>2
  <2> HIDE DEF c
  <2>2. Heads(c) = {} /\ GoodCells(c) = 1 - 1
    BY <2>1, FramesGive
  <2> QED
    BY <2>2 DEF c
<1>4. ASSUME NEW r \in Rows PROVE Overlay(r, <<>>) = r
  <2>1. \A i : RowCellsOf(<<>>, i) = {}
    BY <1>3 DEF RowCellsOf, RowCells
  <2>2. \A i \in Ids : Overlay(r, <<>>)[i] = r[i]
    BY <2>1, OverlayIs
  <2>3. Overlay(r, <<>>) = [i \in Ids |-> Overlay(r, <<>>)[i]]
    BY DEF Overlay
  <2> QED
    BY <2>2, <2>3 DEF Rows
<1> QED
  BY <1>1, <1>3, <1>4

(* A delta cut off behind its good frames reads the same.                  *)
LEMMA GoodPart ==
  ASSUME NEW c \in Seq(CellSet)
  PROVE  LET g == SubSeq(c, 1, GoodCells(c))
         IN /\ GoodCells(c) \in 0..Len(c) /\ (GoodCells(c) = 0 <=> Heads(c) = {})
            /\ g \in Seq(CellSet) /\ Len(g) = GoodCells(c) /\ GoodCells(g) = Len(g)
            /\ Heads(g) = Heads(c)
            /\ Heads(c) # {} => DeltaStamp(g) = DeltaStamp(c) /\ DeltaStamp(c) \in Nat
            /\ \A r : Overlay(r, g) = Overlay(r, c)
<1>1. PICK e : Frames(c, 1, Heads(c), e)
  BY HeadsAre
<1>2. /\ Len(c) \in Nat /\ e \in 1..(Len(c) + 1) /\ Heads(c) \subseteq 1..(e - 1)
      /\ 1 \in Heads(c) \cup {e} /\ \A h \in Heads(c) : h < e
  BY <1>1 DEF Frames
<1>3. GoodCells(c) = e - 1 /\ (Heads(c) # {} => Max(Heads(c)) \in Heads(c))
  BY <1>1, FramesGive
<1>4. GoodCells(c) \in 0..Len(c)
  BY <1>2, <1>3
<1>5. GoodCells(c) = 0 <=> Heads(c) = {}
  <2>1. ASSUME Heads(c) # {} PROVE e # 1
    <3>1. PICK h \in Heads(c) : TRUE
      BY <2>1
    <3> QED
      BY <3>1, <1>2
  <2> QED
    BY <2>1, <1>2, <1>3
<1> DEFINE n == GoodCells(c)
           g == SubSeq(c, 1, n)
<1>6. g \in Seq(CellSet) /\ Len(g) = n /\ \A k \in 1..n : g[k] = c[k]
  <2>1. \A i \in 1..n : c[i] \in CellSet
    BY <1>2, <1>4
  <2> HIDE DEF n
  <2>2. n \in Int /\ 1 \in Int /\ n >= 0
    BY <1>4 DEF n
  <2>3. /\ SubSeq(c, 1, n) \in Seq(CellSet)
        /\ Len(SubSeq(c, 1, n)) = IF 1 <= n THEN n - 1 + 1 ELSE 0
        /\ \A i \in 1..(n - 1 + 1) : SubSeq(c, 1, n)[i] = c[1 + i - 1]
    BY <2>1, <2>2, SubSeqProperties
  <2> QED
    BY <2>2, <2>3
<1> HIDE DEF g
<1>7. ~WholeFrame(g, e)
  BY <1>6, <1>3, <1>2 DEF WholeFrame
<1>8. /\ Heads(g) = Heads(c) /\ GoodCells(g) = e - 1
      /\ Heads(c) # {} => DeltaStamp(g) = DeltaStamp(c)
      /\ \A r : Overlay(r, g) = Overlay(r, c)
  BY <1>1, <1>3, <1>6, <1>7, <1>4, SameFrames
<1>9. Heads(c) # {} => DeltaStamp(c) \in Nat
  <2>1. SUFFICES ASSUME Heads(c) # {} PROVE DeltaStamp(c) \in Nat
    OBVIOUS
  <2>2. Max(Heads(c)) \in 1..Len(c)
    BY <2>1, <1>2, <1>3
  <2>3. c[Max(Heads(c))] \in CellSet
    BY <2>2
  <2> QED
    BY <2>3 DEF DeltaStamp, CellSet
<1> QED
  BY <1>3, <1>4, <1>5, <1>6, <1>8, <1>9 DEF g

(* A delta without a torn tail is read to its end.                         *)
LEMMA FramesOfWhole ==
  ASSUME NEW g \in Seq(CellSet), GoodCells(g) = Len(g)
  PROVE  Frames(g, 1, Heads(g), Len(g) + 1)
<1>1. PICK e : Frames(g, 1, Heads(g), e)
  BY HeadsAre
<1>0. Len(g) \in Nat
  OBVIOUS
<1>2. e \in Nat /\ GoodCells(g) = e - 1
  <2>1. GoodCells(g) = e - 1
    BY <1>1, FramesGive
  <2> QED
    BY <2>1, <1>0, <1>1 DEF Frames
<1>3. e = Len(g) + 1
  BY <1>0, <1>2
<1> QED
  BY <1>1, <1>3

(* A frame that is not all there changes nothing.                          *)
TornOn(t, g) ==
  /\ t \in Seq(CellSet)
  /\ Heads(t) = Heads(g) /\ GoodCells(t) = Len(g)
  /\ Heads(g) # {} => DeltaStamp(t) = DeltaStamp(g)
  /\ \A r : Overlay(r, t) = Overlay(r, g)
  /\ SubSeq(t, 1, Len(g)) = g

(* Cells behind cells.                                                     *)
LEMMA ConcatCells ==
  ASSUME NEW a \in Seq(CellSet), NEW b \in Seq(CellSet)
  PROVE  /\ a \o b \in Seq(CellSet) /\ Len(a \o b) = Len(a) + Len(b)
         /\ \A k \in 1..(Len(a) + Len(b)) :
              (a \o b)[k] = IF k <= Len(a) THEN a[k] ELSE b[k - Len(a)]
  BY ConcatProperties

(* A frame cut anywhere leaves the delta what it was before it.            *)
LEMMA TornAppend ==
  ASSUME NEW g \in Seq(CellSet), GoodCells(g) = Len(g),
         NEW pages \in Nat, NEW rows \in Rows, NEW ids \in SUBSET Ids,
         NEW w \in 1..(Len(FrameOf(pages, rows, ids)) - 1)
  PROVE  TornOn(g \o SubSeq(FrameOf(pages, rows, ids), 1, w), g)
<1> DEFINE F == FrameOf(pages, rows, ids)
           n == Cardinality(ids)
           p == SubSeq(F, 1, w)
           t == g \o p
<1>1. n \in Nat /\ F \in Seq(CellSet) /\ Len(F) = n + 2 /\ F[1].n = n
  BY FrameShape
<1> HIDE DEF F, n
<1>2. w \in 1..(n + 1) /\ w \in Nat /\ Len(g) \in Nat
  BY <1>1 DEF F
<1>3. p \in Seq(CellSet) /\ Len(p) = w /\ p[1] = F[1]
  <2>1. \A i \in 1..w : F[i] \in CellSet
    BY <1>1, <1>2
  <2>2. /\ SubSeq(F, 1, w) \in Seq(CellSet)
        /\ Len(SubSeq(F, 1, w)) = IF 1 <= w THEN w - 1 + 1 ELSE 0
        /\ \A i \in 1..(w - 1 + 1) : SubSeq(F, 1, w)[i] = F[1 + i - 1]
    BY <2>1, <1>2, SubSeqProperties
  <2>3. 1 \in 1..(w - 1 + 1) /\ 1 <= w
    BY <1>2
  <2> QED
    BY <2>2, <2>3, <1>2
<1> HIDE DEF p
<1>4. /\ t \in Seq(CellSet) /\ Len(t) = Len(g) + w
      /\ \A k \in 1..Len(g) : t[k] = g[k]
      /\ t[Len(g) + 1] = F[1]
  <2>1. /\ g \o p \in Seq(CellSet) /\ Len(g \o p) = Len(g) + Len(p)
        /\ \A k \in 1..(Len(g) + Len(p)) :
             (g \o p)[k] = IF k <= Len(g) THEN g[k] ELSE p[k - Len(g)]
    BY <1>3, ConcatCells
  <2>2. Len(g) + 1 \in 1..(Len(g) + Len(p)) /\ Len(g) + 1 - Len(g) = 1
    BY <1>2, <1>3
  <2>3. \A k \in 1..Len(g) : k \in 1..(Len(g) + Len(p)) /\ k <= Len(g)
    BY <1>2, <1>3
  <2>4. t[Len(g) + 1] = p[1]
    BY <2>1, <2>2, <1>2
  <2>5. \A k \in 1..Len(g) : t[k] = g[k]
    BY <2>1, <2>3
  <2> QED
    BY <2>1, <2>4, <2>5, <1>3
<1>5. SubSeq(t, 1, Len(g)) = g
  <2> HIDE DEF t
  <2>1. \A i \in 1..Len(g) : t[i] \in CellSet
    BY <1>4
  <2>2. /\ SubSeq(t, 1, Len(g)) \in Seq(CellSet)
        /\ Len(SubSeq(t, 1, Len(g))) = IF 1 <= Len(g) THEN Len(g) - 1 + 1 ELSE 0
        /\ \A i \in 1..(Len(g) - 1 + 1) : SubSeq(t, 1, Len(g))[i] = t[1 + i - 1]
    BY <2>1, <1>2, SubSeqProperties
  <2>3. Len(SubSeq(t, 1, Len(g))) = Len(g)
    BY <2>2, <1>2
  <2>4. \A i \in 1..Len(g) : SubSeq(t, 1, Len(g))[i] = g[i]
    BY <2>2, <1>2, <1>4
  <2> QED
    BY <2>2, <2>3, <2>4, SeqEqual
<1> HIDE DEF t
<1>6. ~WholeFrame(t, Len(g) + 1)
  BY <1>1, <1>2, <1>4 DEF WholeFrame, BodyLen
<1>7. Frames(g, 1, Heads(g), Len(g) + 1)
  BY FramesOfWhole
<1>8. /\ Heads(t) = Heads(g) /\ GoodCells(t) = Len(g)
      /\ Heads(g) # {} => DeltaStamp(t) = DeltaStamp(g)
      /\ \A r : Overlay(r, t) = Overlay(r, g)
  <2>1. Len(g) + 1 - 1 = Len(g) /\ Len(g) + 1 - 1 <= Len(t)
    BY <1>2, <1>4
  <2> QED
    BY <2>1, <1>4, <1>6, <1>7, SameFrames
<1>9. TornOn(t, g)
  <2> HIDE DEF t
  <2> QED
    BY <1>4, <1>5, <1>8 DEF TornOn
<1> QED
  BY <1>9 DEF t, p, F

(* A whole frame is the last one, and its rows win.                        *)
FrameOn(c, g, pages, rows, ids) ==
  /\ c \in Seq(CellSet)
  /\ Heads(c) # {} /\ GoodCells(c) = Len(c) /\ DeltaStamp(c) = pages
  /\ \A r : \A i \in Ids :
       Overlay(r, c)[i] = IF i \in ids THEN rows[i] ELSE Overlay(r, g)[i]
  /\ Len(c) # 0

(* A whole frame behind whole frames sets the rows it holds.               *)
LEMMA FrameAppend ==
  ASSUME NEW g \in Seq(CellSet), GoodCells(g) = Len(g),
         NEW pages \in Nat, NEW rows \in Rows, NEW ids \in SUBSET Ids
  PROVE  FrameOn(g \o FrameOf(pages, rows, ids), g, pages, rows, ids)
<1> DEFINE F == FrameOf(pages, rows, ids)
           n == Cardinality(ids)
           c == g \o F
           m == Len(g) + 1
           H == Heads(g)
<1>1. /\ n \in Nat /\ F \in Seq(CellSet) /\ Len(F) = n + 2
      /\ F[1].page = pages /\ F[1].n = n
      /\ \A k \in 1..n : F[k + 1].id \in ids /\ F[k + 1].page = rows[F[k + 1].id]
      /\ \A i \in ids : \E k \in 1..n : F[k + 1].id = i
  BY FrameShape
<1> HIDE DEF F, n
<1>2. Len(g) \in Nat /\ m \in Nat /\ m > 0
  OBVIOUS
<1>3. /\ c \in Seq(CellSet) /\ Len(c) = Len(g) + n + 2
      /\ \A k \in 1..Len(g) : c[k] = g[k]
      /\ c[m] = F[1]
      /\ \A k \in 1..n : c[m + k] = F[k + 1]
  <2>1. /\ g \o F \in Seq(CellSet) /\ Len(g \o F) = Len(g) + Len(F)
        /\ \A k \in 1..(Len(g) + Len(F)) :
             (g \o F)[k] = IF k <= Len(g) THEN g[k] ELSE F[k - Len(g)]
    <3>1. F \in Seq(CellSet)
      BY <1>1
    <3> QED
      BY <3>1, ConcatProperties
  <2>2. m \in 1..(Len(g) + Len(F)) /\ m - Len(g) = 1 /\ ~(m <= Len(g))
    BY <1>1, <1>2
  <2>3. \A k \in 1..Len(g) : k \in 1..(Len(g) + Len(F)) /\ k <= Len(g)
    BY <1>1, <1>2
  <2>4. \A k \in 1..n : /\ m + k \in 1..(Len(g) + Len(F)) /\ m + k - Len(g) = k + 1
                        /\ ~(m + k <= Len(g))
    BY <1>1, <1>2
  <2>5. c[m] = F[1]
    BY <2>1, <2>2
  <2>6. \A k \in 1..Len(g) : c[k] = g[k]
    BY <2>1, <2>3
  <2>7. \A k \in 1..n : c[m + k] = F[k + 1]
    BY <2>1, <2>4
  <2> QED
    BY <2>1, <2>5, <2>6, <2>7, <1>1, <1>2
<1> HIDE DEF c
<1>4. Frames(g, 1, H, m)
  BY FramesOfWhole
<1>5. WholeFrame(c, m) /\ After(c, m) = Len(c) + 1 /\ c[m].n = n /\ c[m].page = pages
  BY <1>1, <1>2, <1>3 DEF WholeFrame, After, BodyLen
<1>6. H \subseteq 1..Len(g) /\ 1 \in H \cup {m} /\ \A h \in H : h < m /\ h \in Nat
  BY <1>4, <1>2 DEF Frames
<1>7. ASSUME NEW h \in H PROVE c[h] = g[h] /\ After(c, h) = After(g, h) /\ WholeFrame(c, h)
  <2>1. h \in 1..Len(g) /\ WholeFrame(g, h) /\ h \in Nat /\ h > 0
    BY <1>4, <1>6 DEF Frames
  <2>2. c[h] = g[h]
    BY <2>1, <1>3
  <2>3. BodyLen(g, h) \in Nat /\ BodyLen(c, h) = BodyLen(g, h)
    BY <2>1, <2>2, AfterBounds DEF BodyLen
  <2> QED
    BY <2>1, <2>2, <2>3, <1>3, <1>1, <1>2 DEF After, WholeFrame
<1> DEFINE J == H \cup {m}
           e == Len(c) + 1
<1>8. Frames(c, 1, J, e)
  <2>1. e \in 1..(Len(c) + 1) /\ J \subseteq 1..(e - 1) /\ 1 \in J \cup {e}
    BY <1>1, <1>2, <1>3, <1>6, SMTT(30)
  <2>2. ~WholeFrame(c, e)
    BY <1>3, <1>1, <1>2 DEF WholeFrame
  <2>3. \A h \in J : WholeFrame(c, h) /\ After(c, h) \in J \cup {e}
    BY <1>4, <1>5, <1>7 DEF Frames
  <2>4. \A h \in J \cup {e} : h = 1 \/ \E k \in J : After(c, k) = h
    BY <1>4, <1>5, <1>7 DEF Frames
  <2>5. \A h \in J, k \in J \cup {e} : h < k => After(c, h) <= k
    <3>1. SUFFICES ASSUME NEW h \in J, NEW k \in J \cup {e}, h < k PROVE After(c, h) <= k
      OBVIOUS
    <3>3. CASE h = m
      <4>1. k = e
        BY <3>1, <3>3, <1>6, <1>2
      <4> QED
        BY <4>1, <3>3, <1>5, <1>1, <1>2, <1>3
    <3>4. CASE h \in H /\ k \in H \cup {m}
      <4>1. After(g, h) <= k
        BY <3>4, <3>1, <1>4 DEF Frames
      <4> QED
        BY <4>1, <3>4, <1>7
    <3>5. CASE h \in H /\ k = e
      <4>1. After(g, h) <= m
        BY <3>5, <1>6, <1>4 DEF Frames
      <4>2. After(g, h) \in Nat
        BY <3>5, <1>4, <1>6, <1>2 DEF Frames
      <4>3. After(c, h) = After(g, h)
        BY <3>5, <1>7
      <4>4. e \in Nat /\ m < e
        <5>1. Len(c) = Len(g) + n + 2
          BY <1>3
        <5> QED
          BY <5>1, <1>1, <1>2
      <4> QED
        BY <4>1, <4>2, <4>3, <4>4, <3>5, <1>2
    <3> QED
      BY <3>3, <3>4, <3>5
  <2> QED
    BY <2>1, <2>2, <2>3, <2>4, <2>5 DEF Frames
<1>9. /\ Heads(c) = J /\ GoodCells(c) = e - 1
  BY <1>3, <1>8, FramesGive
<1>10. Max(J) = m
  <2>1. J \in SUBSET Nat /\ m \in J /\ \A h \in J : h <= m
    BY <1>6, <1>2
  <2> HIDE DEF J, m
  <2> QED
    BY <2>1, MaxIs
<1>11. Heads(c) # {} /\ GoodCells(c) = Len(c) /\ DeltaStamp(c) = pages /\ Len(c) # 0
  BY <1>9, <1>10, <1>5, <1>1, <1>2, <1>3 DEF DeltaStamp
<1>12. RowCells(g) \subseteq 1..Len(g)
  BY <1>4, RowCellsBounds, <1>2
<1>13. RowCells(c) = RowCells(g) \cup (m + 1)..(m + n)
  BY <1>9, <1>5, <1>7 DEF RowCells, RowsAt
<1>14. ASSUME NEW r, NEW i \in Ids
       PROVE  Overlay(r, c)[i] = IF i \in ids THEN rows[i] ELSE Overlay(r, g)[i]
  <2>0. \A k \in RowCells(g) : c[k] = g[k]
    BY <1>12, <1>3
  <2>1. CASE i \notin ids
    <3>1. ASSUME NEW k \in (m + 1)..(m + n) PROVE c[k].id # i
      <4>1. k - m \in 1..n /\ m + (k - m) = k
        BY <1>1, <1>2
      <4>2. c[k] = F[(k - m) + 1]
        BY <4>1, <1>3
      <4>3. F[(k - m) + 1].id \in ids
        BY <4>1, <1>1
      <4> QED
        BY <4>2, <4>3, <2>1
    <3>2. RowCellsOf(c, i) = RowCellsOf(g, i)
      BY <3>1, <2>0, <1>13 DEF RowCellsOf
    <3>3. CASE RowCellsOf(g, i) = {}
      BY <3>2, <3>3, <2>1, OverlayIs
    <3>4. CASE RowCellsOf(g, i) # {}
      <4>1. RowCellsOf(g, i) \in SUBSET (1..Len(g))
        BY <1>12 DEF RowCellsOf
      <4>2. Max(RowCellsOf(g, i)) \in RowCellsOf(g, i)
        BY <4>1, <3>4, <1>2, MaxIn
      <4>3. c[Max(RowCellsOf(g, i))] = g[Max(RowCellsOf(g, i))]
        BY <4>2, <2>0 DEF RowCellsOf
      <4> QED
        BY <4>3, <3>2, <3>4, <2>1, OverlayIs
    <3> QED
      BY <3>3, <3>4
  <2>2. CASE i \in ids
    <3>1. PICK k \in 1..n : F[k + 1].id = i
      BY <2>2, <1>1
    <3>2. m + k \in RowCellsOf(c, i)
      <4>1. m + k \in (m + 1)..(m + n)
        BY <1>1, <1>2
      <4> QED
        BY <4>1, <3>1, <1>3, <1>13 DEF RowCellsOf
    <3>3. RowCellsOf(c, i) \in SUBSET (1..Len(c))
      BY <1>12, <1>13, <1>1, <1>2, <1>3 DEF RowCellsOf
    <3> DEFINE x == Max(RowCellsOf(c, i))
    <3>4. x \in RowCellsOf(c, i) /\ \A y \in RowCellsOf(c, i) : x >= y
      <4>1. Len(c) \in Nat /\ RowCellsOf(c, i) # {}
        BY <3>2, <1>1, <1>2, <1>3
      <4>2. RowCellsOf(c, i) \in SUBSET (0..Len(c))
        BY <4>1, <3>3
      <4> QED
        BY <4>1, <4>2, MaxOfBounded
    <3>5. x >= m + k /\ x \in Nat
      BY <3>2, <3>3, <3>4
    <3> HIDE DEF x
    <3>6. x \in (m + 1)..(m + n)
      BY <3>4, <3>5, <1>12, <1>13, <1>1, <1>2 DEF RowCellsOf
    <3>7. x - m \in 1..n /\ m + (x - m) = x
      BY <3>6, <1>1, <1>2
    <3>8. c[x] = F[(x - m) + 1]
      BY <3>7, <1>3
    <3>9. c[x].id = i
      BY <3>4 DEF RowCellsOf
    <3>10. c[x].page = rows[i]
      BY <3>7, <3>8, <3>9, <1>1
    <3> QED
      BY <3>2, <3>10, <2>2, OverlayIs DEF x
  <2> QED
    BY <2>1, <2>2
<1>15. FrameOn(c, g, pages, rows, ids)
  <2> HIDE DEF c
  <2> QED
    BY <1>3, <1>11, <1>14 DEF FrameOn
<1> QED
  BY <1>15 DEF c, F


-----------------------------------------------------------------------------
(* Sidecar: the rows a log has at each of its pages.                       *)

(* The rows after the first n pages of a log.                              *)
LogRows(lg, n) == [i \in Ids |-> Max({0} \cup {p \in 1..n : lg[p] = i})]

(* The row of an identity is the last page that writes it.                 *)
LEMMA LogRowsBounds ==
  ASSUME NEW lg, NEW n \in Nat
  PROVE  /\ LogRows(lg, n) \in Rows
         /\ \A i \in Ids :
              /\ LogRows(lg, n)[i] \in {0} \cup {p \in 1..n : lg[p] = i}
              /\ \A p \in 1..n : lg[p] = i => p <= LogRows(lg, n)[i]
<1>1. ASSUME NEW i \in Ids
      PROVE  /\ LogRows(lg, n)[i] \in Nat
             /\ LogRows(lg, n)[i] \in {0} \cup {p \in 1..n : lg[p] = i}
             /\ \A p \in 1..n : lg[p] = i => p <= LogRows(lg, n)[i]
  <2> DEFINE S == {0} \cup {p \in 1..n : lg[p] = i}
  <2>1. S \in SUBSET (0..n) /\ S # {} /\ \A p \in 1..n : lg[p] = i => p \in S
    OBVIOUS
  <2>2. LogRows(lg, n)[i] = Max(S)
    BY DEF LogRows
  <2>3. Max(S) \in S /\ \A y \in S : Max(S) >= y
    <3> HIDE DEF S
    <3> QED
      BY <2>1, MaxOfBounded
  <2> HIDE DEF S
  <2>4. \A p \in 1..n : lg[p] = i => p <= Max(S)
    BY <2>1, <2>3
  <2> QED
    BY <2>1, <2>2, <2>3, <2>4 DEF S
<1> QED
  BY <1>1 DEF LogRows, Rows

(* The value of a largest element is known when it is seen to be one.      *)
LEMMA LogRowIs ==
  ASSUME NEW lg, NEW n \in Nat, NEW i \in Ids, NEW v \in Nat,
         v = 0 \/ (v \in 1..n /\ lg[v] = i),
         \A p \in 1..n : lg[p] = i => p <= v
  PROVE  LogRows(lg, n)[i] = v
<1>1. /\ LogRows(lg, n)[i] \in {0} \cup {p \in 1..n : lg[p] = i}
      /\ \A p \in 1..n : lg[p] = i => p <= LogRows(lg, n)[i]
  BY LogRowsBounds
<1> QED
  BY <1>1

(* Another page leaves the earlier rows as they were.                      *)
LEMMA LogRowsPrefix ==
  ASSUME NEW lg \in Seq(Ids), NEW i \in Ids, NEW n \in 0..Len(lg)
  PROVE  LogRows(Append(lg, i), n) = LogRows(lg, n)
<1>1. Len(lg) \in Nat /\ \A p \in 1..n : Append(lg, i)[p] = lg[p]
  OBVIOUS
<1>2. \A j : {p \in 1..n : Append(lg, i)[p] = j} = {p \in 1..n : lg[p] = j}
  BY <1>1
<1> QED
  BY <1>2 DEF LogRows

(* Another page writes its row.                                            *)
LEMMA LogRowsAppend ==
  ASSUME NEW lg \in Seq(Ids), NEW i \in Ids
  PROVE  /\ Append(lg, i) \in Seq(Ids) /\ Len(Append(lg, i)) = Len(lg) + 1
         /\ LogRows(Append(lg, i), Len(lg) + 1) = [LogRows(lg, Len(lg)) EXCEPT ![i] = Len(lg) + 1]
<1> DEFINE n == Len(lg)
           l == Append(lg, i)
<1>1. n \in Nat /\ l \in Seq(Ids) /\ Len(l) = n + 1 /\ l[n + 1] = i /\ \A p \in 1..n : l[p] = lg[p]
  OBVIOUS
<1> HIDE DEF l, n
<1>2. LogRows(l, n + 1)[i] = n + 1
  BY <1>1, LogRowIs
<1>3. ASSUME NEW j \in Ids, j # i PROVE LogRows(l, n + 1)[j] = LogRows(lg, n)[j]
  <2> DEFINE v == LogRows(lg, n)[j]
  <2>1. /\ v \in {0} \cup {p \in 1..n : lg[p] = j}
        /\ \A p \in 1..n : lg[p] = j => p <= v
    BY <1>1, LogRowsBounds
  <2> HIDE DEF v
  <2>2. v \in Nat /\ (v = 0 \/ (v \in 1..(n + 1) /\ l[v] = j))
    BY <2>1, <1>1
  <2>3. \A p \in 1..(n + 1) : l[p] = j => p <= v
    <3>1. \A p \in 1..(n + 1) : p \in 1..n \/ p = n + 1
      BY <1>1
    <3> QED
      BY <3>1, <2>1, <1>1, <1>3
  <2>4. n + 1 \in Nat
    BY <1>1
  <2> QED
    BY <2>2, <2>3, <2>4, LogRowIs DEF v
<1>4. LogRows(lg, n) \in Rows /\ LogRows(l, n + 1) \in Rows
  BY <1>1, LogRowsBounds
<1>5. LogRows(l, n + 1) = [LogRows(lg, n) EXCEPT ![i] = n + 1]
  BY <1>2, <1>3, <1>4 DEF Rows
<1> QED
  BY <1>1, <1>5 DEF l, n

(* A replay from rows that are right up to a page is right.                *)
LEMMA ReplayedIs ==
  ASSUME NEW n \in 0..LogPages, log \in Seq(Ids)
  PROVE  Replayed(LogRows(log, n), n) = LogRows(log, LogPages)
<1>1. LogPages \in Nat /\ n \in Nat /\ n <= LogPages
  BY DEF LogPages
<1>2. ASSUME NEW i \in Ids PROVE LogRows(log, LogPages)[i] = Replayed(LogRows(log, n), n)[i]
  <2> DEFINE r == LogRows(log, n)[i]
             S == {r} \cup {p \in (n + 1)..LogPages : log[p] = i}
  <2>1. r \in {0} \cup {p \in 1..n : log[p] = i} /\ \A p \in 1..n : log[p] = i => p <= r
    BY <1>1, LogRowsBounds
  <2> HIDE DEF r
  <2>2. S \in SUBSET (0..LogPages) /\ S # {} /\ r \in S
    BY <1>1, <2>1
  <2>3. Max(S) \in S /\ \A y \in S : Max(S) >= y
    <3> HIDE DEF S
    <3> QED
      BY <1>1, <2>2, MaxOfBounded
  <2> DEFINE v == Max(S)
  <2> HIDE DEF v
  <2>4. v \in S /\ \A y \in S : v >= y
    BY <2>3 DEF v
  <2>5. v \in Nat /\ v >= r /\ (v = 0 \/ (v \in 1..LogPages /\ log[v] = i))
    BY <2>1, <2>2, <2>4, <1>1
  <2>6. \A p \in 1..LogPages : log[p] = i => p <= v
    <3>1. SUFFICES ASSUME NEW p \in 1..LogPages, log[p] = i PROVE p <= v
      OBVIOUS
    <3>2. CASE p \in 1..n
      BY <3>1, <3>2, <2>1, <2>5, <1>1
    <3>3. CASE p \in (n + 1)..LogPages
      BY <3>1, <3>3, <2>4, <1>1
    <3> QED
      BY <3>2, <3>3, <1>1
  <2>7. Replayed(LogRows(log, n), n)[i] = v
    BY DEF Replayed, v, r
  <2> QED
    BY <2>5, <2>6, <2>7, <1>1, LogRowIs
<1>3. /\ LogRows(log, LogPages) = [i \in Ids |-> LogRows(log, LogPages)[i]]
      /\ Replayed(LogRows(log, n), n) = [i \in Ids |-> Replayed(LogRows(log, n), n)[i]]
  BY DEF LogRows, Replayed
<1> QED
  BY <1>2, <1>3

(* What a replay of the whole log gives.                                   *)
LEMMA RowsOfLogIs ==
  ASSUME log \in Seq(Ids)
  PROVE  RowsOfLog = LogRows(log, LogPages) /\ RowsOfLog \in Rows /\ LogPages \in Nat
<1>1. LogPages \in Nat /\ 0 \in 0..LogPages
  BY DEF LogPages
<1>2. LogRows(log, 0) = NoRows
  <2>1. \A i \in Ids : LogRows(log, 0)[i] = 0
    BY LogRowIs
  <2> QED
    BY <2>1 DEF LogRows, NoRows
<1>3. Replayed(LogRows(log, 0), 0) = LogRows(log, LogPages)
  BY <1>1, ReplayedIs
<1> QED
  BY <1>1, <1>2, <1>3, LogRowsBounds DEF RowsOfLog


-----------------------------------------------------------------------------
(* Sidecar: the invariant.  Every file of every directory a power loss may *)
(* leave says what the log said at its commit point (DirOk); every delta,  *)
(* laid over any sidecar that may stand beside it, gives the rows of its   *)
(* last commit point unless it is older than the sidecar (DeltaOk); and    *)
(* what an open store counts on, the rows that are not dirty and the       *)
(* length of the delta, is on the files (PersistedOk).                     *)

MemSet == [rows : Rows, acts : SUBSET Nat, fromLog : BOOLEAN, dirty : SUBSET Ids,
           hasCkpt : BOOLEAN, bytes : Nat]
DirSet == [joins : JoinsFiles \cup {NoFile}, delta : DeltaFiles \cup {NoFile},
           ckpt : CkptFiles \cup {NoFile}, prev : CkptFiles \cup {NoFile}]

JoinsOk(lg, f) == f # NoFile => f.pages <= Len(lg) /\ f.rows = LogRows(lg, f.pages)
CkptOk(lg, cp, f) ==
  f # NoFile => f.pages <= Len(lg) /\ f.rows = LogRows(lg, f.pages) /\ f.acts = cp \cup 1..f.pages

DeltaOk(lg, j, cells) ==
  Heads(cells) # {} /\ j.pages <= DeltaStamp(cells) =>
    Overlay(j.rows, cells) = LogRows(lg, DeltaStamp(cells))

SameFile(d, e) == d.delta # NoFile /\ e.delta # NoFile /\ d.delta.born = e.delta.born

DirOk(lg, cp, d) ==
  /\ d \in DirSet
  /\ JoinsOk(lg, d.joins) /\ CkptOk(lg, cp, d.ckpt) /\ CkptOk(lg, cp, d.prev)
  /\ cp # {} => d.ckpt # NoFile \/ d.prev # NoFile
  /\ d.delta # NoFile => /\ d.delta.born <= Len(lg)
                         /\ Heads(d.delta.cells) # {} => DeltaStamp(d.delta.cells) <= Len(lg)

FilesOk(lg, cp, dr, ds) ==
  /\ dr \in ds
  /\ \A d \in ds : DirOk(lg, cp, d)
  /\ \A d, e \in ds : SameFile(d, e) /\ d.joins # NoFile => DeltaOk(lg, d.joins, e.delta.cells)

KeptCells(m, d) == IF m.bytes = 0 THEN <<>> ELSE SubSeq(d.delta.cells, 1, m.bytes)

PersistedOk(lg, m, dr, ds) ==
  /\ dr.joins # NoFile
  /\ dr.delta = NoFile =>
       /\ m.bytes = 0
       /\ m.dirty # {} => \A d \in ds : d.delta # NoFile => d.delta.born < Len(lg)
  /\ dr.delta # NoFile => m.bytes \in {0, GoodCells(dr.delta.cells)}
  /\ \A d \in ds : d.joins # NoFile /\ (d = dr \/ SameFile(d, dr)) =>
       \A i \in Ids \ m.dirty : Overlay(d.joins.rows, KeptCells(m, dr))[i] = LogRows(lg, Len(lg))[i]

MemOk(lg, cp, m) ==
  /\ m.rows = LogRows(lg, Len(lg))
  /\ m.acts \cup (IF m.fromLog THEN {} ELSE 1..Len(lg)) = cp \cup 1..Len(lg)

StoreOk(lg, cp, m, dr, ds) ==
  /\ MemOk(lg, cp, m)
  /\ dr.joins = NoFile => dr.delta = NoFile
  /\ m.hasCkpt => PersistedOk(lg, m, dr, ds)

StepOk(lg, m, dr, p) ==
  /\ p = "frame" => m.hasCkpt /\ m.dirty # {} /\ dr.delta # NoFile
  /\ p = "delta" => dr.joins = [pages |-> Len(lg), rows |-> m.rows]
  /\ p \in {"ckpt", "publish"} => m.fromLog

Typed ==
  /\ log \in Seq(Ids) /\ compacted \in SUBSET Nat /\ mem \in MemSet
  /\ job \in {"commit", "install", "close"}
  /\ step \in {"closed", "refused", "idle", "persist", "frame", "joins", "delta", "ckpt", "publish"}

FilesInv ==
  /\ Typed
  /\ FilesOk(log, compacted, dir, dirs)
  /\ step \notin {"closed", "refused"} =>
       StoreOk(log, compacted, mem, dir, dirs) /\ StepOk(log, mem, dir, step)

(* The files of another directory.                                         *)

(* A delta file reads as nothing or as one that there is.                  *)
ReadsAs(c, x) ==
  /\ c \in Seq(CellSet)
  /\ \/ Heads(c) = {}
     \/ /\ Heads(c) # {} /\ Heads(x) # {} /\ DeltaStamp(c) = DeltaStamp(x)
        /\ \A r : Overlay(r, c) = Overlay(r, x)

(* A delta file reads as itself.                                           *)
LEMMA ReadsAsItself == \A x \in Seq(CellSet) : ReadsAs(x, x)
BY DEF ReadsAs

(* A directory the files of which are those of ds, or gone.                *)
DrawnFrom(e, ds) ==
  /\ e \in DirSet
  /\ \E d \in ds :
       /\ e.joins \in {d.joins, NoFile}
       /\ e.delta # NoFile =>
            /\ d.delta # NoFile /\ e.delta.born = d.delta.born
            /\ \E x \in ds : /\ x.delta # NoFile /\ x.delta.born = d.delta.born
                             /\ ReadsAs(e.delta.cells, x.delta.cells)

CkptsOk(lg, cp, e) ==
  /\ CkptOk(lg, cp, e.ckpt) /\ CkptOk(lg, cp, e.prev)
  /\ cp # {} => e.ckpt # NoFile \/ e.prev # NoFile

(* The parts of a delta file.                                              *)
LEMMA DeltaTyped ==
  ASSUME NEW d \in DirSet, d.delta # NoFile
  PROVE  d.delta.cells \in Seq(CellSet) /\ d.delta.born \in Nat
BY DEF DirSet, DeltaFiles

(* The parts of a sidecar.                                                 *)
LEMMA JoinsTyped ==
  ASSUME NEW d \in DirSet, d.joins # NoFile
  PROVE  d.joins.pages \in Nat /\ d.joins.rows \in Rows
BY DEF DirSet, JoinsFiles

(* A directory is drawn from those it is one of.                           *)
LEMMA DrawnItself ==
  ASSUME NEW ds, NEW d \in ds, d \in DirSet
  PROVE  DrawnFrom(d, ds)
<1>1. d.delta # NoFile => ReadsAs(d.delta.cells, d.delta.cells)
  BY DeltaTyped, ReadsAsItself
<1> QED
  BY <1>1 DEF DrawnFrom

(* Directories drawn from right ones are right.                            *)
LEMMA DrawnFilesOk ==
  ASSUME NEW lg, NEW cp, NEW dr, NEW ds, FilesOk(lg, cp, dr, ds),
         NEW dr2, NEW ds2, dr2 \in ds2,
         \A e \in ds2 : DrawnFrom(e, ds) /\ CkptsOk(lg, cp, e)
  PROVE  FilesOk(lg, cp, dr2, ds2)
<1>1. ASSUME NEW e \in ds2 PROVE DirOk(lg, cp, e)
  <2>1. PICK d \in ds :
          /\ e.joins \in {d.joins, NoFile}
          /\ e.delta # NoFile =>
               /\ d.delta # NoFile /\ e.delta.born = d.delta.born
               /\ \E x \in ds : /\ x.delta # NoFile /\ x.delta.born = d.delta.born
                                /\ ReadsAs(e.delta.cells, x.delta.cells)
    BY DEF DrawnFrom
  <2>2. JoinsOk(lg, d.joins)
    BY DEF FilesOk, DirOk
  <2>3. JoinsOk(lg, e.joins)
    BY <2>1, <2>2 DEF JoinsOk
  <2>4. ASSUME e.delta # NoFile
        PROVE  /\ e.delta.born <= Len(lg)
               /\ Heads(e.delta.cells) # {} => DeltaStamp(e.delta.cells) <= Len(lg)
    <3>1. PICK x \in ds : /\ x.delta # NoFile /\ x.delta.born = d.delta.born
                          /\ ReadsAs(e.delta.cells, x.delta.cells)
      BY <2>1, <2>4
    <3>2. /\ x.delta.born <= Len(lg)
          /\ Heads(x.delta.cells) # {} => DeltaStamp(x.delta.cells) <= Len(lg)
      BY <3>1 DEF FilesOk, DirOk
    <3> QED
      BY <3>1, <3>2, <2>1, <2>4 DEF ReadsAs
  <2> QED
    BY <2>3, <2>4 DEF DirOk, DrawnFrom, CkptsOk
<1>2. ASSUME NEW e \in ds2, NEW f \in ds2, SameFile(e, f), e.joins # NoFile
      PROVE  DeltaOk(lg, e.joins, f.delta.cells)
  <2>1. PICK d \in ds : /\ e.joins \in {d.joins, NoFile}
                        /\ e.delta # NoFile => d.delta # NoFile /\ e.delta.born = d.delta.born
    BY DEF DrawnFrom
  <2>2. d.joins = e.joins /\ d.delta # NoFile /\ d.delta.born = e.delta.born
    BY <2>1, <1>2 DEF SameFile
  <2>3. PICK g \in ds :
          /\ f.delta # NoFile =>
               /\ g.delta # NoFile /\ f.delta.born = g.delta.born
               /\ \E x \in ds : /\ x.delta # NoFile /\ x.delta.born = g.delta.born
                                /\ ReadsAs(f.delta.cells, x.delta.cells)
    BY DEF DrawnFrom
  <2>4. PICK x \in ds : /\ x.delta # NoFile /\ x.delta.born = f.delta.born
                        /\ ReadsAs(f.delta.cells, x.delta.cells)
    BY <2>3, <1>2 DEF SameFile
  <2>5. SameFile(d, x) /\ d.joins # NoFile
    BY <2>2, <2>4, <1>2 DEF SameFile
  <2>6. DeltaOk(lg, d.joins, x.delta.cells)
    BY <2>5 DEF FilesOk
  <2> QED
    BY <2>6, <2>2, <2>4 DEF DeltaOk, ReadsAs
<1> QED
  BY <1>1, <1>2 DEF FilesOk

(* The files the store keeps: what it persisted is on each of them.        *)
LEMMA DrawnPersisted ==
  ASSUME NEW lg, NEW cp, NEW m, NEW dr, NEW ds, FilesOk(lg, cp, dr, ds), PersistedOk(lg, m, dr, ds),
         NEW dr2, NEW ds2, \A e \in ds2 : DrawnFrom(e, ds),
         dr2.joins = dr.joins,
         dr.delta = NoFile <=> dr2.delta = NoFile,
         dr.delta # NoFile => /\ dr2.delta.born = dr.delta.born
                              /\ m.bytes \in {0, GoodCells(dr2.delta.cells)}
                              /\ KeptCells(m, dr2) = KeptCells(m, dr)
  PROVE  PersistedOk(lg, m, dr2, ds2)
<1>1. ASSUME dr2.delta = NoFile, m.dirty # {}, NEW e \in ds2, e.delta # NoFile
      PROVE  e.delta.born < Len(lg)
  <2>1. PICK d \in ds : d.delta # NoFile /\ e.delta.born = d.delta.born
    BY <1>1 DEF DrawnFrom
  <2> QED
    BY <2>1, <1>1 DEF PersistedOk
<1>2. KeptCells(m, dr2) = KeptCells(m, dr)
  BY DEF KeptCells, PersistedOk
<1>3. ASSUME NEW e \in ds2, e.joins # NoFile, e = dr2 \/ SameFile(e, dr2), NEW i \in Ids \ m.dirty
      PROVE  Overlay(e.joins.rows, KeptCells(m, dr2))[i] = LogRows(lg, Len(lg))[i]
  <2>0. dr \in ds
    BY DEF FilesOk
  <2>1. CASE e = dr2
    BY <2>0, <2>1, <1>2, <1>3 DEF PersistedOk
  <2>2. CASE SameFile(e, dr2)
    <3>1. PICK d \in ds : /\ e.joins \in {d.joins, NoFile}
                          /\ e.delta # NoFile => d.delta # NoFile /\ e.delta.born = d.delta.born
      BY DEF DrawnFrom
    <3>2. d.joins = e.joins /\ d.joins # NoFile /\ SameFile(d, dr)
      BY <3>1, <2>2, <1>3 DEF SameFile
    <3> QED
      BY <3>2, <1>2 DEF PersistedOk
  <2> QED
    BY <2>1, <2>2, <1>3
<1> QED
  BY <1>1, <1>3 DEF PersistedOk


-----------------------------------------------------------------------------
(* Sidecar: what an open makes of right files.                             *)

(* A log that grows leaves the files right.                                *)
LEMMA GrownFilesOk ==
  ASSUME NEW lg \in Seq(Ids), NEW i \in Ids, NEW cp, NEW dr, NEW ds, FilesOk(lg, cp, dr, ds)
  PROVE  FilesOk(Append(lg, i), cp, dr, ds)
<1> DEFINE l == Append(lg, i)
<1>1. Len(lg) \in Nat /\ Len(l) = Len(lg) + 1 /\ \A n \in Nat : n <= Len(lg) => LogRows(l, n) = LogRows(lg, n)
  <2>1. Len(lg) \in Nat /\ Len(l) = Len(lg) + 1
    OBVIOUS
  <2>2. ASSUME NEW n \in Nat, n <= Len(lg) PROVE LogRows(l, n) = LogRows(lg, n)
    <3>1. n \in 0..Len(lg)
      BY <2>1, <2>2
    <3> QED
      BY <3>1, LogRowsPrefix
  <2> QED
    BY <2>1, <2>2
<1> HIDE DEF l
<1>2. ASSUME NEW d \in ds PROVE DirOk(l, cp, d)
  <2>1. DirOk(lg, cp, d)
    BY DEF FilesOk
  <2>2. d \in DirSet
    BY <2>1 DEF DirOk
  <2>3. JoinsOk(l, d.joins)
    <3>1. SUFFICES ASSUME d.joins # NoFile PROVE JoinsOk(l, d.joins)
      BY DEF JoinsOk
    <3>2. d.joins.pages \in Nat
      BY <2>2, <3>1, JoinsTyped
    <3> QED
      BY <3>1, <3>2, <2>1, <1>1 DEF DirOk, JoinsOk
  <2>4. ASSUME NEW f \in CkptFiles \cup {NoFile}, CkptOk(lg, cp, f) PROVE CkptOk(l, cp, f)
    <3>1. f # NoFile => f.pages \in Nat
      BY DEF CkptFiles
    <3> QED
      BY <3>1, <2>4, <1>1 DEF CkptOk
  <2>5. CkptOk(l, cp, d.ckpt) /\ CkptOk(l, cp, d.prev)
    BY <2>1, <2>2, <2>4 DEF DirOk, DirSet
  <2>6. ASSUME d.delta # NoFile
        PROVE  /\ d.delta.born <= Len(l)
               /\ Heads(d.delta.cells) # {} => DeltaStamp(d.delta.cells) <= Len(l)
    <3>1. d.delta.cells \in Seq(CellSet) /\ d.delta.born \in Nat
      BY <2>2, <2>6, DeltaTyped
    <3>2. Heads(d.delta.cells) # {} => DeltaStamp(d.delta.cells) \in Nat
      BY <3>1, GoodPart
    <3> QED
      BY <3>1, <3>2, <2>1, <2>6, <1>1 DEF DirOk
  <2> QED
    BY <2>1, <2>2, <2>3, <2>5, <2>6 DEF DirOk
<1>3. ASSUME NEW d \in ds, NEW e \in ds, SameFile(d, e), d.joins # NoFile
      PROVE  DeltaOk(l, d.joins, e.delta.cells)
  <2>1. DeltaOk(lg, d.joins, e.delta.cells) /\ DirOk(lg, cp, e)
    BY <1>3 DEF FilesOk
  <2>2. e.delta # NoFile /\ e.delta.cells \in Seq(CellSet)
    BY <2>1, <1>3, DeltaTyped DEF DirOk, SameFile
  <2>3. Heads(e.delta.cells) # {} =>
          DeltaStamp(e.delta.cells) \in Nat /\ DeltaStamp(e.delta.cells) <= Len(lg)
    BY <2>1, <2>2, GoodPart DEF DirOk
  <2> QED
    BY <2>1, <2>3, <1>1 DEF DeltaOk
<1> QED
  BY <1>2, <1>3 DEF FilesOk, l

(* What an open or a rollback restores.                                    *)
LEMMA CheckpointRestores ==
  ASSUME log \in Seq(Ids), compacted \in SUBSET Nat, NEW d, DirOk(log, compacted, d)
  PROVE  /\ Checkpoint(d) = NoFile => compacted = {}
         /\ Checkpoint(d) # NoFile =>
              /\ Checkpoint(d).pages \in 0..LogPages
              /\ Checkpoint(d).rows = LogRows(log, Checkpoint(d).pages)
              /\ Checkpoint(d).acts = compacted \cup 1..Checkpoint(d).pages
<1>1. LogPages \in Nat /\ LogPages = Len(log)
  BY DEF LogPages
<1>2. ASSUME NEW f \in CkptFiles \cup {NoFile}, CkptOk(log, compacted, f)
      PROVE  /\ f # NoFile => Fits(f)
             /\ Fits(f) => /\ f.pages \in 0..LogPages
                           /\ f.rows = LogRows(log, f.pages)
                           /\ f.acts = compacted \cup 1..f.pages
  <2>1. f # NoFile => f.pages \in Nat
    BY DEF CkptFiles
  <2> QED
    BY <2>1, <1>1, <1>2 DEF Fits, CkptOk
<1>3. /\ d.ckpt \in CkptFiles \cup {NoFile} /\ CkptOk(log, compacted, d.ckpt)
      /\ d.prev \in CkptFiles \cup {NoFile} /\ CkptOk(log, compacted, d.prev)
      /\ compacted # {} => d.ckpt # NoFile \/ d.prev # NoFile
  BY DEF DirOk, DirSet
<1>4. CASE Fits(d.ckpt)
  <2>1. Checkpoint(d) = d.ckpt /\ d.ckpt # NoFile
    BY <1>4 DEF Checkpoint, Fits
  <2> QED
    BY <2>1, <1>2, <1>3, <1>4
<1>5. CASE ~Fits(d.ckpt) /\ Fits(d.prev)
  <2>1. Checkpoint(d) = d.prev /\ d.prev # NoFile
    BY <1>5 DEF Checkpoint, Fits
  <2> QED
    BY <2>1, <1>2, <1>3, <1>5
<1>6. CASE ~Fits(d.ckpt) /\ ~Fits(d.prev)
  <2>1. Checkpoint(d) = NoFile
    BY <1>6 DEF Checkpoint
  <2> QED
    BY <2>1, <1>2, <1>3, <1>6
<1> QED
  BY <1>4, <1>5, <1>6

(* A catalog that is complete with what the log tells.                     *)
CatOk(cat) == cat.acts \in SUBSET Nat /\ cat.fromLog \in BOOLEAN
                /\ cat.acts \cup (IF cat.fromLog THEN {} ELSE 1..LogPages) = Claimed

(* The tail of the log completes no less of a catalog.                     *)
LEMMA TailKeeps ==
  ASSUME log \in Seq(Ids), NEW acts \in SUBSET Nat, NEW fromLog \in BOOLEAN,
         CatOk([acts |-> acts, fromLog |-> fromLog]), NEW from \in Nat
  PROVE  LET c == WithTail([acts |-> acts, fromLog |-> fromLog], from)
         IN CatOk(c) /\ c.acts \in SUBSET Nat /\ c.fromLog = fromLog
<1>1. LogPages \in Nat /\ (from + 1)..LogPages \subseteq 1..LogPages
  BY DEF LogPages
<1>2. (from + 1)..LogPages \subseteq Claimed
  BY <1>1 DEF Claimed
<1> DEFINE c == WithTail([acts |-> acts, fromLog |-> fromLog], from)
<1>3. c.acts = acts \cup (from + 1)..LogPages /\ c.fromLog = fromLog
  BY DEF WithTail
<1> HIDE DEF c
<1>4. c.acts \in SUBSET Nat
  BY <1>3, <1>1
<1>5. c.acts \cup (IF c.fromLog THEN {} ELSE 1..LogPages)
        = (acts \cup (IF fromLog THEN {} ELSE 1..LogPages)) \cup (from + 1)..LogPages
  BY <1>3
<1>6. acts \cup (IF fromLog THEN {} ELSE 1..LogPages) = Claimed
  BY DEF CatOk
<1>7. CatOk(c)
  BY <1>2, <1>3, <1>4, <1>5, <1>6 DEF CatOk
<1> QED
  BY <1>3, <1>4, <1>7 DEF c

(* The catalog that is restored is complete.                               *)
LEMMA RestoredCatalog ==
  ASSUME log \in Seq(Ids), compacted \in SUBSET Nat, NEW d, DirOk(log, compacted, d),
         NEW acts \in SUBSET Nat, NEW fromLog \in BOOLEAN,
         acts \cup (IF fromLog THEN {} ELSE 1..LogPages) = 1..LogPages
  PROVE  LET c == RestoreCatalog(d, acts, fromLog)
         IN /\ CatOk(c) /\ c.acts \in SUBSET Nat /\ c.fromLog \in BOOLEAN
            /\ c = [acts |-> c.acts, fromLog |-> c.fromLog]
<1> DEFINE c == RestoreCatalog(d, acts, fromLog)
           k == Checkpoint(d)
<1>1. LogPages \in Nat
  BY DEF LogPages
<1>2. CASE k = NoFile
  <2>1. c = [acts |-> acts, fromLog |-> fromLog] /\ compacted = {}
    BY <1>2, CheckpointRestores DEF RestoreCatalog
  <2> QED
    BY <2>1 DEF CatOk, Claimed
<1>3. CASE k # NoFile
  <2>1. /\ k.pages \in 0..LogPages /\ k.acts = compacted \cup 1..k.pages
        /\ c = [acts |-> k.acts \cup (k.pages + 1)..LogPages, fromLog |-> TRUE]
    BY <1>3, CheckpointRestores DEF RestoreCatalog
  <2> HIDE DEF k
  <2>2. 1..k.pages \cup (k.pages + 1)..LogPages = 1..LogPages
    BY <2>1, <1>1
  <2>3. k.acts \cup (k.pages + 1)..LogPages = Claimed
    BY <2>1, <2>2 DEF Claimed
  <2>4. c = [acts |-> Claimed, fromLog |-> TRUE]
    BY <2>1, <2>3
  <2>5. Claimed \in SUBSET Nat
    BY <1>1 DEF Claimed
  <2> HIDE DEF c
  <2>6. CatOk(c)
    BY <2>4, <2>5 DEF CatOk
  <2> QED
    BY <2>4, <2>5, <2>6 DEF c
<1> QED
  BY <1>2, <1>3


Restored(m) ==
  /\ m \in MemSet /\ m.dirty = {}
  /\ m.rows = LogRows(log, LogPages) /\ CatOk([acts |-> m.acts, fromLog |-> m.fromLog])

(* The fields of a catalog with the tail.                                  *)
LEMMA WithTailIs ==
  ASSUME NEW acts, NEW fromLog, NEW from
  PROVE  WithTail([acts |-> acts, fromLog |-> fromLog], from)
           = [acts |-> acts \cup (from + 1)..LogPages, fromLog |-> fromLog]
<1> DEFINE c == [acts |-> acts, fromLog |-> fromLog]
           new == acts \cup (from + 1)..LogPages
<1>1. WithTail(c, from) = [c EXCEPT !.acts = new]
  BY DEF WithTail
<1> HIDE DEF new
<1>2. [c EXCEPT !.acts = new] = [acts |-> new, fromLog |-> fromLog]
  OBVIOUS
<1> QED
  BY <1>1, <1>2 DEF new

(* Projection fields of right rows and a complete catalog.                 *)
LEMMA FieldsRestored ==
  ASSUME log \in Seq(Ids), NEW acts \in SUBSET Nat, NEW fromLog \in BOOLEAN,
         CatOk([acts |-> acts, fromLog |-> fromLog]), NEW bytes \in Nat, NEW rows,
         rows = LogRows(log, LogPages)
  PROVE  LET cat == [acts |-> acts, fromLog |-> fromLog]
         IN /\ Restored(Loaded(rows, cat, bytes)) /\ Restored(ToRewrite(rows, cat, bytes))
            /\ Loaded(rows, cat, bytes).hasCkpt /\ ~ToRewrite(rows, cat, bytes).hasCkpt
            /\ Loaded(rows, cat, bytes).bytes = bytes
<1>1. rows \in Rows
  BY RowsOfLogIs
<1> DEFINE cat == [acts |-> acts, fromLog |-> fromLog]
           a == Loaded(rows, cat, bytes)
           b == ToRewrite(rows, cat, bytes)
<1>2. a = [rows |-> rows, acts |-> acts, fromLog |-> fromLog, dirty |-> {}, hasCkpt |-> TRUE,
           bytes |-> bytes]
  BY DEF Loaded
<1>3. b = [rows |-> rows, acts |-> acts, fromLog |-> fromLog, dirty |-> {}, hasCkpt |-> FALSE,
           bytes |-> bytes]
  BY DEF ToRewrite
<1> HIDE DEF a, b
<1>4. a \in MemSet /\ b \in MemSet
  BY <1>1, <1>2, <1>3 DEF MemSet
<1>5. /\ a.rows = rows /\ a.dirty = {} /\ a.acts = acts /\ a.fromLog = fromLog
      /\ b.rows = rows /\ b.dirty = {} /\ b.acts = acts /\ b.fromLog = fromLog
      /\ a.hasCkpt /\ ~b.hasCkpt /\ a.bytes = bytes
  BY <1>2, <1>3
<1> QED
  BY <1>4, <1>5 DEF Restored, a, b

(* A full replay restores the log.                                         *)
LEMMA FromLogRestores ==
  ASSUME log \in Seq(Ids), compacted \in SUBSET Nat, NEW d, DirOk(log, compacted, d)
  PROVE  Restored(FromLog(d)) /\ ~FromLog(d).hasCkpt
<1> DEFINE c == RestoreCatalog(d, 1..LogPages, TRUE)
<1>0. LogPages \in Nat /\ 1..LogPages \in SUBSET Nat
  BY DEF LogPages
<1>1. /\ CatOk(c) /\ c.acts \in SUBSET Nat /\ c.fromLog \in BOOLEAN
      /\ c = [acts |-> c.acts, fromLog |-> c.fromLog]
  BY <1>0, RestoredCatalog
<1>2. RowsOfLog = LogRows(log, LogPages)
  BY RowsOfLogIs
<1>3. FromLog(d) = ToRewrite(RowsOfLog, c, 0)
  BY DEF FromLog
<1> HIDE DEF c
<1> DEFINE acts == c.acts
           from == c.fromLog
<1>4. c = [acts |-> acts, fromLog |-> from] /\ acts \in SUBSET Nat /\ from \in BOOLEAN /\ CatOk(c)
  BY <1>1
<1> HIDE DEF acts, from
<1>5. /\ Restored(ToRewrite(RowsOfLog, [acts |-> acts, fromLog |-> from], 0))
      /\ ~ToRewrite(RowsOfLog, [acts |-> acts, fromLog |-> from], 0).hasCkpt
  BY <1>2, <1>4, FieldsRestored
<1> QED
  BY <1>3, <1>4, <1>5

(* The checkpoint and the tail restore it.                                 *)
LEMMA FromCheckpointRestores ==
  ASSUME log \in Seq(Ids), compacted \in SUBSET Nat, NEW d, DirOk(log, compacted, d)
  PROVE  Restored(FromCheckpoint(d)) /\ ~FromCheckpoint(d).hasCkpt
<1> DEFINE k == Checkpoint(d)
<1>0. LogPages \in Nat
  BY DEF LogPages
<1>1. CASE k = NoFile
  BY <1>1, FromLogRestores DEF FromCheckpoint
<1>2. CASE k # NoFile
  <2>1. /\ k.pages \in 0..LogPages /\ k.rows = LogRows(log, k.pages)
        /\ k.acts = compacted \cup 1..k.pages
    BY <1>2, CheckpointRestores
  <2>2. FromCheckpoint(d) = ToRewrite(Replayed(k.rows, k.pages),
                                      WithTail([acts |-> k.acts, fromLog |-> TRUE], k.pages), 0)
    BY <1>2 DEF FromCheckpoint
  <2> HIDE DEF k
  <2>3. 1..k.pages \cup (k.pages + 1)..LogPages = 1..LogPages
    BY <2>1, <1>0
  <2>4. WithTail([acts |-> k.acts, fromLog |-> TRUE], k.pages) = [acts |-> Claimed, fromLog |-> TRUE]
    <3>1. k.acts \cup (k.pages + 1)..LogPages = Claimed
      BY <2>1, <2>3 DEF Claimed
    <3> QED
      BY <3>1, WithTailIs
  <2>5. Replayed(k.rows, k.pages) = LogRows(log, LogPages)
    BY <2>1, ReplayedIs
  <2>6. Claimed \in SUBSET Nat /\ CatOk([acts |-> Claimed, fromLog |-> TRUE])
    BY <1>0 DEF Claimed, CatOk
  <2> QED
    <3>1. /\ Restored(ToRewrite(Replayed(k.rows, k.pages), [acts |-> Claimed, fromLog |-> TRUE], 0))
          /\ ~ToRewrite(Replayed(k.rows, k.pages), [acts |-> Claimed, fromLog |-> TRUE], 0).hasCkpt
      <4>1. TRUE \in BOOLEAN /\ 0 \in Nat
        OBVIOUS
      <4> QED
        BY <4>1, <2>5, <2>6, FieldsRestored
    <3> QED
      BY <3>1, <2>2, <2>4
<1> QED
  BY <1>1, <1>2

(* So does the sidecar alone.                                              *)
LEMMA FromJoinsRestores ==
  ASSUME log \in Seq(Ids), compacted \in SUBSET Nat, NEW d, DirOk(log, compacted, d), Fits(d.joins)
  PROVE  /\ Restored(FromJoins(d))
         /\ FromJoins(d).hasCkpt => d.joins.rows = LogRows(log, LogPages) /\ FromJoins(d).bytes = 0
<1> DEFINE c == RestoreCatalog(d, {}, FALSE)
           j == d.joins
<1>0. LogPages \in Nat /\ {} \in SUBSET Nat /\ {} \cup (IF FALSE THEN {} ELSE 1..LogPages) = 1..LogPages
  BY DEF LogPages
<1>1. /\ CatOk(c) /\ c.acts \in SUBSET Nat /\ c.fromLog \in BOOLEAN
      /\ c = [acts |-> c.acts, fromLog |-> c.fromLog]
  BY <1>0, RestoredCatalog
<1>2. j.pages \in 0..LogPages /\ j.rows = LogRows(log, j.pages)
  <2>1. d.joins # NoFile /\ d.joins.pages <= LogPages /\ d \in DirSet /\ JoinsOk(log, d.joins)
    BY DEF Fits, DirOk
  <2>2. d.joins.pages \in Nat
    BY <2>1, JoinsTyped
  <2> QED
    BY <2>1, <2>2, <1>0 DEF JoinsOk
<1>3. FromJoins(d) = IF j.pages = LogPages THEN Loaded(j.rows, c, 0)
                     ELSE ToRewrite(Replayed(j.rows, j.pages), WithTail(c, j.pages), 0)
  BY DEF FromJoins
<1> HIDE DEF c
<1> DEFINE acts == c.acts
           from == c.fromLog
<1>4. c = [acts |-> acts, fromLog |-> from] /\ acts \in SUBSET Nat /\ from \in BOOLEAN /\ CatOk(c)
  BY <1>1
<1> HIDE DEF acts, from, j
<1>5. CASE j.pages = LogPages
  <2>1. /\ Restored(Loaded(j.rows, [acts |-> acts, fromLog |-> from], 0))
        /\ Loaded(j.rows, [acts |-> acts, fromLog |-> from], 0).bytes = 0
    BY <1>2, <1>4, <1>5, FieldsRestored
  <2> QED
    BY <2>1, <1>2, <1>3, <1>4, <1>5 DEF j
<1>6. CASE j.pages # LogPages
  <2> DEFINE t == WithTail([acts |-> acts, fromLog |-> from], j.pages)
  <2>1. CatOk(t) /\ t.acts \in SUBSET Nat /\ t.fromLog = from
    BY <1>2, <1>4, TailKeeps
  <2>8. t = [acts |-> acts \cup (j.pages + 1)..LogPages, fromLog |-> from]
    BY WithTailIs
  <2>9. t.acts = acts \cup (j.pages + 1)..LogPages /\ t.fromLog = from
    BY <2>8
  <2>2. t = [acts |-> t.acts, fromLog |-> t.fromLog]
    BY <2>8, <2>9
  <2>3. Replayed(j.rows, j.pages) = LogRows(log, LogPages)
    BY <1>2, ReplayedIs
  <2>4. FromJoins(d) = ToRewrite(Replayed(j.rows, j.pages), t, 0)
    BY <1>3, <1>4, <1>6
  <2> HIDE DEF t
  <2> DEFINE ta == t.acts
  <2>5. t = [acts |-> ta, fromLog |-> from] /\ ta \in SUBSET Nat /\ 0 \in Nat
    BY <2>1, <2>2
  <2> HIDE DEF ta
  <2>7. CatOk([acts |-> ta, fromLog |-> from])
    BY <2>1, <2>5
  <2>6. /\ Restored(ToRewrite(Replayed(j.rows, j.pages), [acts |-> ta, fromLog |-> from], 0))
        /\ ~ToRewrite(Replayed(j.rows, j.pages), [acts |-> ta, fromLog |-> from], 0).hasCkpt
    BY <2>7, <2>3, <2>5, <1>4, FieldsRestored
  <2> QED
    BY <2>4, <2>5, <2>6
<1> QED
  BY <1>5, <1>6

(* And the sidecar with its delta, or the replay instead of it.            *)
LEMMA FromDeltaRestores ==
  ASSUME log \in Seq(Ids), compacted \in SUBSET Nat, NEW d, DirOk(log, compacted, d), Fits(d.joins),
         d.delta # NoFile, Heads(d.delta.cells) # {}, DeltaOk(log, d.joins, d.delta.cells)
  PROVE  /\ Restored(FromDelta(d))
         /\ FromDelta(d).hasCkpt => DeltaStamp(d.delta.cells) = LogPages
                                      /\ FromDelta(d).bytes = GoodCells(d.delta.cells)
<1> DEFINE c == RestoreCatalog(d, {}, FALSE)
           j == d.joins
           cells == d.delta.cells
           s == DeltaStamp(cells)
           rows == Overlay(j.rows, cells)
           bytes == GoodCells(cells)
<1>0. LogPages \in Nat /\ {} \in SUBSET Nat /\ {} \cup (IF FALSE THEN {} ELSE 1..LogPages) = 1..LogPages
  BY DEF LogPages
<1>1. /\ CatOk(c) /\ c.acts \in SUBSET Nat /\ c.fromLog \in BOOLEAN
      /\ c = [acts |-> c.acts, fromLog |-> c.fromLog]
  BY <1>0, RestoredCatalog
<1>2. j.pages \in 0..LogPages
  <2>1. d.joins # NoFile /\ d.joins.pages <= LogPages /\ d \in DirSet
    BY DEF Fits, DirOk
  <2>2. d.joins.pages \in Nat
    BY <2>1, JoinsTyped
  <2> QED
    BY <2>1, <2>2, <1>0
<1>3. s \in 0..LogPages /\ bytes \in Nat
  <2>1. cells \in Seq(CellSet)
    BY DeltaTyped DEF DirOk
  <2>2. s \in Nat /\ bytes \in 0..Len(cells)
    BY <2>1, GoodPart
  <2>3. s <= Len(log)
    BY DEF DirOk
  <2>4. LogPages = Len(log)
    BY DEF LogPages
  <2> HIDE DEF s, bytes
  <2>5. bytes \in Nat
    BY <2>2
  <2> QED
    BY <2>2, <2>3, <2>4, <2>5, <1>0
<1>4. j.pages <= s => rows = LogRows(log, s)
  BY DEF DeltaOk
<1>5. FromDelta(d) = IF s = LogPages THEN Loaded(rows, c, bytes)
                     ELSE IF j.pages < s /\ s < LogPages
                     THEN ToRewrite(Replayed(rows, s), WithTail(c, s), bytes)
                     ELSE FromLog(d)
  BY DEF FromDelta
<1> HIDE DEF c
<1> DEFINE acts == c.acts
           from == c.fromLog
<1>6. c = [acts |-> acts, fromLog |-> from] /\ acts \in SUBSET Nat /\ from \in BOOLEAN /\ CatOk(c)
  BY <1>1
<1> HIDE DEF acts, from, j, s, rows, bytes, cells
<1>7. CASE s = LogPages
  <2>1. rows = LogRows(log, LogPages)
    BY <1>2, <1>3, <1>4, <1>7
  <2>2. /\ Restored(Loaded(rows, [acts |-> acts, fromLog |-> from], bytes))
        /\ Loaded(rows, [acts |-> acts, fromLog |-> from], bytes).bytes = bytes
    BY <2>1, <1>3, <1>6, FieldsRestored
  <2> QED
    BY <2>2, <1>5, <1>6, <1>7 DEF s, bytes, cells
<1>8. CASE s # LogPages /\ j.pages < s /\ s < LogPages
  <2> DEFINE t == WithTail([acts |-> acts, fromLog |-> from], s)
  <2>0. s \in Nat
    BY <1>3
  <2>1. CatOk(t) /\ t.acts \in SUBSET Nat /\ t.fromLog = from
    BY <2>0, <1>6, TailKeeps
  <2>8. t = [acts |-> acts \cup (s + 1)..LogPages, fromLog |-> from]
    BY WithTailIs
  <2>9. t.acts = acts \cup (s + 1)..LogPages /\ t.fromLog = from
    BY <2>8
  <2>2. t = [acts |-> t.acts, fromLog |-> t.fromLog]
    BY <2>8, <2>9
  <2>3. Replayed(rows, s) = LogRows(log, LogPages)
    <3>1. rows = LogRows(log, s)
      BY <1>2, <1>3, <1>4, <1>8
    <3> QED
      BY <3>1, <1>3, ReplayedIs
  <2>4. FromDelta(d) = ToRewrite(Replayed(rows, s), t, bytes)
    BY <1>5, <1>6, <1>8
  <2> HIDE DEF t
  <2> DEFINE ta == t.acts
  <2>5. t = [acts |-> ta, fromLog |-> from] /\ ta \in SUBSET Nat /\ 0 \in Nat
    BY <2>1, <2>2
  <2> HIDE DEF ta
  <2>7. CatOk([acts |-> ta, fromLog |-> from])
    BY <2>1, <2>5
  <2>6. /\ Restored(ToRewrite(Replayed(rows, s), [acts |-> ta, fromLog |-> from], bytes))
        /\ ~ToRewrite(Replayed(rows, s), [acts |-> ta, fromLog |-> from], bytes).hasCkpt
    BY <2>7, <2>3, <2>5, <1>3, <1>6, FieldsRestored
  <2> QED
    BY <2>4, <2>5, <2>6
<1>9. CASE s # LogPages /\ ~(j.pages < s /\ s < LogPages)
  BY <1>5, <1>9, FromLogRestores
<1> QED
  BY <1>7, <1>8, <1>9

(* Any readable directory restores the log; one that is taken as it is     *)
(* holds what was persisted.                                               *)
LEMMA InstalledRestores ==
  ASSUME log \in Seq(Ids), compacted \in SUBSET Nat, NEW dr, NEW ds,
         FilesOk(log, compacted, dr, ds), NEW d \in ds, Readable(d)
  PROVE  LET m == Installed(d)
         IN /\ Restored(m)
            /\ m.hasCkpt =>
                 /\ d.joins # NoFile
                 /\ d.delta = NoFile => d.joins.rows = LogRows(log, LogPages) /\ m.bytes = 0
                 /\ d.delta # NoFile => /\ Heads(d.delta.cells) # {}
                                        /\ DeltaStamp(d.delta.cells) = LogPages
                                        /\ m.bytes = GoodCells(d.delta.cells)
<1>1. DirOk(log, compacted, d)
  BY DEF FilesOk
<1>2. CASE ~Fits(d.joins)
  BY <1>1, <1>2, FromCheckpointRestores DEF Installed
<1>3. CASE Fits(d.joins) /\ d.delta = NoFile
  BY <1>1, <1>3, FromJoinsRestores DEF Installed, Fits
<1>4. CASE Fits(d.joins) /\ d.delta # NoFile
  <2>1. Heads(d.delta.cells) # {} /\ d.joins # NoFile
    BY <1>4 DEF Readable, Fits
  <2>2. DeltaOk(log, d.joins, d.delta.cells)
    BY <2>1, <1>4 DEF FilesOk, SameFile
  <2> QED
    BY <1>1, <1>4, <2>1, <2>2, FromDeltaRestores DEF Installed
<1> QED
  BY <1>2, <1>3, <1>4


-----------------------------------------------------------------------------
(* Sidecar: frames that are begun and finished.                            *)

(* Nothing is kept of a delta that is cut to nothing.                      *)
LEMMA EmptyPrefix ==
  ASSUME NEW c \in Seq(CellSet)
  PROVE  SubSeq(c, 1, 0) = <<>>
<1>1. \A k \in 1..0 : c[k] \in CellSet
  OBVIOUS
<1>2. SubSeq(c, 1, 0) \in Seq(CellSet) /\ Len(SubSeq(c, 1, 0)) = 0
  BY <1>1, SubSeqProperties
<1> QED
  BY <1>2, EmptySeq

(* What was persisted of a delta file is its good frames or none.          *)
IsKept(g, m, dr) ==
  /\ g \in Seq(CellSet) /\ GoodCells(g) = Len(g) /\ Len(g) = m.bytes
  /\ g = KeptCells(m, dr) /\ ReadsAs(g, dr.delta.cells)
  /\ Heads(g) # {} => /\ Heads(dr.delta.cells) # {}
                      /\ DeltaStamp(g) = DeltaStamp(dr.delta.cells)
                      /\ \A r : Overlay(r, g) = Overlay(r, dr.delta.cells)

(* What the process counts as kept is whole frames.                        *)
LEMMA KeptGood ==
  ASSUME NEW lg, NEW cp, NEW dr, NEW ds, FilesOk(lg, cp, dr, ds),
         NEW m, PersistedOk(lg, m, dr, ds), dr.delta # NoFile
  PROVE  IsKept(SubSeq(dr.delta.cells, 1, m.bytes), m, dr)
<1> DEFINE c == dr.delta.cells
           g == SubSeq(c, 1, m.bytes)
<1>1. c \in Seq(CellSet)
  BY DeltaTyped DEF FilesOk, DirOk
<1>2. m.bytes \in {0, GoodCells(c)}
  BY DEF PersistedOk
<1>3. KeptCells(m, dr) = IF m.bytes = 0 THEN <<>> ELSE g
  BY DEF KeptCells
<1> HIDE DEF c
<1>4. CASE m.bytes = 0
  <2>1. g = <<>>
    BY <1>1, <1>4, EmptyPrefix
  <2> HIDE DEF g
  <2>2. /\ g \in Seq(CellSet) /\ GoodCells(g) = Len(g) /\ Len(g) = m.bytes
        /\ g = KeptCells(m, dr) /\ Heads(g) = {}
    BY <2>1, <1>3, <1>4, NoCells
  <2> QED
    BY <2>2 DEF ReadsAs, IsKept, g, c
<1>5. CASE m.bytes # 0
  <2>1. g = SubSeq(c, 1, GoodCells(c)) /\ GoodCells(c) # 0 /\ m.bytes = GoodCells(c) /\ g = KeptCells(m, dr)
    BY <1>2, <1>3, <1>5
  <2> DEFINE h == SubSeq(c, 1, GoodCells(c))
  <2>2. /\ (GoodCells(c) = 0 <=> Heads(c) = {})
        /\ h \in Seq(CellSet) /\ Len(h) = GoodCells(c) /\ GoodCells(h) = Len(h)
        /\ Heads(h) = Heads(c)
        /\ Heads(c) # {} => DeltaStamp(h) = DeltaStamp(c)
        /\ \A r : Overlay(r, h) = Overlay(r, c)
    BY <1>1, GoodPart
  <2>3. g = h
    BY <2>1
  <2> HIDE DEF g, h
  <2>4. /\ g \in Seq(CellSet) /\ GoodCells(g) = Len(g) /\ Len(g) = m.bytes
        /\ g = KeptCells(m, dr) /\ Heads(g) # {} /\ Heads(c) # {}
        /\ DeltaStamp(g) = DeltaStamp(c) /\ \A r : Overlay(r, g) = Overlay(r, c)
    BY <2>1, <2>2, <2>3
  <2> QED
    BY <2>4 DEF ReadsAs, IsKept, g, c
<1> QED
  BY <1>4, <1>5

(* A delta file a part of a frame was written to.                       *)
TornDelta(cut, pages, rows, ids, w) == [cut EXCEPT !.cells = @ \o SubSeq(FrameOf(pages, rows, ids), 1, w)]

RightAfter(lg, cp, m, dr, ds) == FilesOk(lg, cp, dr, ds) /\ PersistedOk(lg, m, dr, ds) /\ dr.delta # NoFile

(* A frame that is begun in a delta file that is there.                    *)
TornIn(lg, cp, m, dr, ds, cut, torn) ==
  RightAfter(lg, cp, m, [dr EXCEPT !.delta = torn],
    ds \cup {[dr EXCEPT !.delta = torn]} \cup (WithDelta(ds, dr.delta, cut) \cup WithDelta(ds, dr.delta, torn)))

(* The files are right while a frame is being written,                     *)
LEMMA TornFilesOk ==
  ASSUME NEW lg, NEW cp, NEW dr, NEW ds, FilesOk(lg, cp, dr, ds),
         NEW m, PersistedOk(lg, m, dr, ds), dr.delta # NoFile,
         NEW pages \in Nat, NEW rows \in Rows, NEW ids \in SUBSET Ids,
         NEW w \in 1..(Len(FrameOf(pages, rows, ids)) - 1)
  PROVE  LET cut == [dr.delta EXCEPT !.cells = SubSeq(@, 1, m.bytes)]
         IN TornIn(lg, cp, m, dr, ds, cut, TornDelta(cut, pages, rows, ids, w))
<1> DEFINE c == dr.delta.cells
           g == SubSeq(c, 1, m.bytes)
           t == g \o SubSeq(FrameOf(pages, rows, ids), 1, w)
           cut == [dr.delta EXCEPT !.cells = SubSeq(@, 1, m.bytes)]
           torn == [cut EXCEPT !.cells = @ \o SubSeq(FrameOf(pages, rows, ids), 1, w)]
           dr2 == [dr EXCEPT !.delta = torn]
           ds2 == ds \cup {dr2} \cup (WithDelta(ds, dr.delta, cut) \cup WithDelta(ds, dr.delta, torn))
<1>1. dr \in ds /\ dr \in DirSet /\ \A d \in ds : DirOk(lg, cp, d) /\ d \in DirSet
  BY DEF FilesOk, DirOk
<1>2. /\ g \in Seq(CellSet) /\ GoodCells(g) = Len(g) /\ Len(g) = m.bytes
      /\ g = KeptCells(m, dr) /\ ReadsAs(g, c)
      /\ Heads(g) # {} => /\ Heads(c) # {} /\ DeltaStamp(g) = DeltaStamp(c)
                          /\ \A r : Overlay(r, g) = Overlay(r, c)
  <2>1. IsKept(g, m, dr)
    BY KeptGood
  <2> HIDE DEF g
  <2> QED
    BY <2>1 DEF IsKept
<1>3. dr.delta \in DeltaFiles /\ dr.delta = [cells |-> c, born |-> dr.delta.born]
  BY <1>1 DEF DirSet, DeltaFiles
<1>4. cut = [cells |-> g, born |-> dr.delta.born] /\ torn = [cells |-> t, born |-> dr.delta.born]
  <2> HIDE DEF g, c
  <2>1. cut = [dr.delta EXCEPT !.cells = g]
    BY DEF g, c
  <2>2. cut = [cells |-> g, born |-> dr.delta.born]
    BY <2>1, <1>3
  <2>3. torn = [cut EXCEPT !.cells = t]
    BY <2>2
  <2> HIDE DEF cut, torn, t
  <2> QED
    BY <2>2, <2>3
<1> HIDE DEF g, cut, torn
<1>5. /\ t \in Seq(CellSet) /\ Heads(t) = Heads(g) /\ GoodCells(t) = Len(g)
      /\ Heads(g) # {} => DeltaStamp(t) = DeltaStamp(g)
      /\ \A r : Overlay(r, t) = Overlay(r, g)
      /\ SubSeq(t, 1, Len(g)) = g
  <2>1. TornOn(t, g)
    BY <1>2, TornAppend
  <2> HIDE DEF t
  <2> QED
    BY <2>1 DEF TornOn
<1> HIDE DEF t, c
<1>6. ReadsAs(t, c)
  BY <1>2, <1>5 DEF ReadsAs
<1>7. ASSUME NEW new \in {cut, torn}, NEW d \in ds, NEW e, e = [d EXCEPT !.delta = new],
             d.delta # NoFile, d.delta.born = dr.delta.born
      PROVE  DrawnFrom(e, ds) /\ CkptsOk(lg, cp, e)
  <2>1. new \in DeltaFiles /\ new.born = dr.delta.born /\ ReadsAs(new.cells, c) /\ new # NoFile
    <3>1. new.cells \in {g, t} /\ new.born = dr.delta.born /\ new = [cells |-> new.cells, born |-> new.born]
      BY <1>4, <1>7
    <3>2. dr.delta.born \in Nat
      BY <1>3 DEF DeltaFiles
    <3>3. new \in DeltaFiles
      BY <3>1, <3>2, <1>2, <1>5 DEF DeltaFiles
    <3> QED
      BY <3>1, <3>3, <1>2, <1>6, NoFileAssumption
  <2>2. d \in DirSet
    BY <1>1
  <2>3. /\ e \in DirSet /\ e.joins = d.joins /\ e.delta = new /\ e.ckpt = d.ckpt /\ e.prev = d.prev
    BY <1>7, <2>1, <2>2 DEF DirSet
  <2>4. DrawnFrom(e, ds)
    BY <1>1, <1>7, <2>1, <2>3 DEF DrawnFrom, c
  <2>5. CkptsOk(lg, cp, e)
    BY <1>1, <2>3 DEF DirOk, CkptsOk
  <2> QED
    BY <2>4, <2>5
<1>8. ASSUME NEW e \in ds PROVE DrawnFrom(e, ds) /\ CkptsOk(lg, cp, e)
  BY <1>1, DrawnItself DEF DirOk, CkptsOk
<1>9. ASSUME NEW new \in {cut, torn}, NEW e \in WithDelta(ds, dr.delta, new)
      PROVE  DrawnFrom(e, ds) /\ CkptsOk(lg, cp, e)
  <2>1. PICK d \in ds : e = [d EXCEPT !.delta = IF d.delta = dr.delta THEN new ELSE d.delta]
    BY DEF WithDelta
  <2>2. CASE d.delta = dr.delta
    <3>1. e = [d EXCEPT !.delta = new]
      BY <2>1, <2>2
    <3> QED
      BY <3>1, <2>2, <1>7
  <2>3. CASE d.delta # dr.delta
    <3>1. d \in DirSet
      BY <1>1
    <3>2. e = d
      BY <3>1, <2>1, <2>3 DEF DirSet
    <3> QED
      BY <3>2, <1>8
  <2> QED
    BY <2>2, <2>3
<1>10. DrawnFrom(dr2, ds) /\ CkptsOk(lg, cp, dr2)
  BY <1>1, <1>7
<1>11. dr2 \in ds2 /\ \A e \in ds2 : DrawnFrom(e, ds) /\ CkptsOk(lg, cp, e)
  BY <1>8, <1>9, <1>10
<1>12. dr2.joins = dr.joins /\ dr2.delta = torn
  BY <1>1 DEF DirSet
<1>13. torn # NoFile /\ torn.born = dr.delta.born /\ torn.cells = t
  <2>1. torn.born = dr.delta.born /\ torn.cells = t /\ dr.delta.born \in Nat
    BY <1>4, <1>3 DEF DeltaFiles
  <2>2. torn \in DeltaFiles
    BY <1>4, <1>5, <2>1 DEF DeltaFiles
  <2> QED
    BY <2>1, <2>2, NoFileAssumption
<1> HIDE DEF dr2, ds2
<1>14. m.bytes \in {0, GoodCells(dr2.delta.cells)} /\ KeptCells(m, dr2) = KeptCells(m, dr)
  <2>1. m.bytes = GoodCells(t)
    BY <1>2, <1>5
  <2>2. SubSeq(t, 1, m.bytes) = g
    BY <1>2, <1>5
  <2> QED
    BY <2>1, <2>2, <1>2, <1>12, <1>13 DEF KeptCells, g, c
<1>15. FilesOk(lg, cp, dr2, ds2)
  BY <1>11, DrawnFilesOk
<1>16. PersistedOk(lg, m, dr2, ds2)
  BY <1>11, <1>12, <1>13, <1>14, DrawnPersisted
<1> QED
  <2>1. RightAfter(lg, cp, m, dr2, ds2)
    BY <1>12, <1>13, <1>15, <1>16 DEF RightAfter
  <2>2. torn = TornDelta(cut, pages, rows, ids, w)
    BY DEF torn, TornDelta
  <2>3. TornIn(lg, cp, m, dr, ds, cut, torn)
    BY <2>1 DEF TornIn, dr2, ds2
  <2> QED
    BY <2>2, <2>3 DEF cut


(* A frame that is begun in a new delta file.                              *)
TornNew(lg, cp, m, dr, ds, cut, torn) ==
  RightAfter(lg, cp, m, [dr EXCEPT !.delta = torn],
    ds \cup {[dr EXCEPT !.delta = torn]} \cup {[dr EXCEPT !.delta = cut]})

(* and beside a delta that was just begun,                                 *)
LEMMA NewFilesOk ==
  ASSUME NEW lg \in Seq(Ids), NEW cp, NEW dr, NEW ds, FilesOk(lg, cp, dr, ds),
         NEW m, PersistedOk(lg, m, dr, ds), dr.delta = NoFile, m.dirty # {},
         NEW pages \in Nat, NEW rows \in Rows, NEW ids \in SUBSET Ids,
         NEW w \in 1..(Len(FrameOf(pages, rows, ids)) - 1)
  PROVE  LET cut == [cells |-> <<>>, born |-> Len(lg)]
         IN TornNew(lg, cp, m, dr, ds, cut, TornDelta(cut, pages, rows, ids, w))
<1> DEFINE g == <<>>
           t == g \o SubSeq(FrameOf(pages, rows, ids), 1, w)
           cut == [cells |-> g, born |-> Len(lg)]
           torn == [cut EXCEPT !.cells = @ \o SubSeq(FrameOf(pages, rows, ids), 1, w)]
           dr2 == [dr EXCEPT !.delta = torn]
           ds2 == ds \cup {dr2} \cup {[dr EXCEPT !.delta = cut]}
<1>1. dr \in ds /\ dr \in DirSet /\ \A d \in ds : DirOk(lg, cp, d) /\ d \in DirSet
  BY DEF FilesOk, DirOk
<1>2. /\ g \in Seq(CellSet) /\ Len(g) = 0 /\ GoodCells(g) = Len(g) /\ Heads(g) = {}
      /\ \A r \in Rows : Overlay(r, g) = r
  BY NoCells
<1>3. torn = [cells |-> t, born |-> Len(lg)] /\ Len(lg) \in Nat
  <2> HIDE DEF g
  <2>1. torn = [cut EXCEPT !.cells = t]
    OBVIOUS
  <2> HIDE DEF t, torn
  <2>2. [cut EXCEPT !.cells = t] = [cells |-> t, born |-> Len(lg)]
    OBVIOUS
  <2> QED
    BY <2>1, <2>2
<1> HIDE DEF g, cut, torn
<1>4. /\ t \in Seq(CellSet) /\ Heads(t) = Heads(g) /\ GoodCells(t) = Len(g)
      /\ Heads(g) # {} => DeltaStamp(t) = DeltaStamp(g)
      /\ \A r : Overlay(r, t) = Overlay(r, g)
      /\ SubSeq(t, 1, Len(g)) = g
  <2>1. TornOn(t, g)
    BY <1>2, TornAppend
  <2> HIDE DEF t
  <2> QED
    BY <2>1 DEF TornOn
<1> HIDE DEF t
<1>5. /\ cut.cells = g /\ cut.born = Len(lg) /\ cut \in DeltaFiles
      /\ torn.cells = t /\ torn.born = Len(lg) /\ torn \in DeltaFiles
  BY <1>2, <1>3, <1>4 DEF cut, DeltaFiles
<1>6. cut # NoFile /\ torn # NoFile
  BY <1>5, NoFileAssumption
<1>7. ASSUME NEW new \in {cut, torn}, NEW e, e = [dr EXCEPT !.delta = new]
      PROVE  /\ DirOk(lg, cp, e) /\ e.delta = new /\ e.joins = dr.joins
  <2>1. /\ e \in DirSet /\ e.joins = dr.joins /\ e.delta = new /\ e.ckpt = dr.ckpt /\ e.prev = dr.prev
    BY <1>1, <1>5, <1>7 DEF DirSet
  <2>2. new.born = Len(lg) /\ Heads(new.cells) = {}
    BY <1>2, <1>4, <1>5
  <2> QED
    BY <1>1, <1>3, <2>1, <2>2 DEF DirOk
<1> DEFINE New == {dr2} \cup {[dr EXCEPT !.delta = cut]}
<1>8. \A e \in New : /\ DirOk(lg, cp, e) /\ e.joins = dr.joins /\ e.delta # NoFile
                     /\ e.delta.born = Len(lg) /\ Heads(e.delta.cells) = {}
  BY <1>7, <1>5, <1>6, <1>2, <1>4
<1>9. \A d \in ds : d.delta # NoFile => d.delta.born < Len(lg) /\ d.delta.born \in Nat
  <2>1. \A d \in ds : d.delta # NoFile => d.delta.born < Len(lg)
    BY DEF PersistedOk
  <2> QED
    BY <2>1, <1>1, DeltaTyped
<1>10. ASSUME NEW d \in ds2, NEW e \in ds2, SameFile(d, e), d.joins # NoFile
       PROVE  DeltaOk(lg, d.joins, e.delta.cells)
  <2>1. CASE e \in New
    BY <2>1, <1>8 DEF DeltaOk
  <2>2. CASE e \in ds
    <3>1. d \in ds
      <4>1. e.delta.born < Len(lg) /\ e.delta.born \in Nat /\ d.delta.born = e.delta.born
        BY <2>2, <1>9, <1>10 DEF SameFile
      <4>2. ASSUME d \in New PROVE FALSE
        <5> HIDE DEF New
        <5>1. d.delta.born = Len(lg)
          BY <4>2, <1>8
        <5> QED
          BY <5>1, <4>1
      <4> QED
        BY <4>2
    <3> QED
      BY <3>1, <2>2, <1>10 DEF FilesOk
  <2> QED
    BY <2>1, <2>2
<1>11. FilesOk(lg, cp, dr2, ds2)
  BY <1>1, <1>8, <1>10 DEF FilesOk
<1>12. dr2.joins = dr.joins /\ dr2.delta = torn
  BY <1>7
<1> HIDE DEF dr2
<1>13. m.bytes = 0 /\ KeptCells(m, dr2) = g /\ KeptCells(m, dr) = g
  BY DEF PersistedOk, KeptCells, g
<1>14. ASSUME NEW e \in ds2, e.joins # NoFile, e = dr2 \/ SameFile(e, dr2), NEW i \in Ids \ m.dirty
       PROVE  Overlay(e.joins.rows, KeptCells(m, dr2))[i] = LogRows(lg, Len(lg))[i]
  <2>1. e \in New
    BY <1>14, <1>9, <1>12, <1>5, <1>3 DEF SameFile
  <2>2. e.joins = dr.joins
    BY <2>1, <1>8
  <2> QED
    BY <2>2, <1>13, <1>14, <1>1 DEF PersistedOk
<1>15. PersistedOk(lg, m, dr2, ds2)
  BY <1>12, <1>6, <1>13, <1>14 DEF PersistedOk
<1> QED
  <2>1. RightAfter(lg, cp, m, dr2, ds2)
    BY <1>11, <1>15, <1>12, <1>6 DEF RightAfter
  <2>2. torn = TornDelta(cut, pages, rows, ids, w)
    BY DEF torn, TornDelta
  <2>3. TornNew(lg, cp, m, dr, ds, cut, torn)
    BY <2>1 DEF TornNew, dr2
  <2> QED
    BY <2>2, <2>3 DEF cut, g

(* A frame that is whole.                                                  *)
LEMMA FrameCells ==
  ASSUME NEW delta \in DeltaFiles, NEW n \in Nat, NEW rows \in Rows, NEW ids \in SUBSET Ids,
         NEW bytes, SubSeq(delta.cells, 1, bytes) \in Seq(CellSet),
         GoodCells(SubSeq(delta.cells, 1, bytes)) = Len(SubSeq(delta.cells, 1, bytes))
  PROVE  LET new == [delta EXCEPT !.cells = SubSeq(@, 1, bytes) \o FrameOf(n, rows, ids)]
         IN /\ new \in DeltaFiles /\ new # NoFile /\ new.born = delta.born
            /\ FrameOn(new.cells, SubSeq(delta.cells, 1, bytes), n, rows, ids)
<1> DEFINE g == SubSeq(delta.cells, 1, bytes)
           c == g \o FrameOf(n, rows, ids)
           new == [delta EXCEPT !.cells = SubSeq(@, 1, bytes) \o FrameOf(n, rows, ids)]
           b == delta.born
<1>1. b \in Nat /\ delta = [cells |-> delta.cells, born |-> b]
  BY DEF DeltaFiles
<1>2. new = [delta EXCEPT !.cells = c]
  OBVIOUS
<1> HIDE DEF g
<1>3. FrameOn(c, g, n, rows, ids)
  BY FrameAppend DEF g
<1> HIDE DEF c, new, b
<1>4. new = [cells |-> c, born |-> b]
  BY <1>1, <1>2
<1>5. c \in Seq(CellSet)
  BY <1>3 DEF FrameOn
<1>6. new \in DeltaFiles /\ new.born = b /\ new.cells = c
  BY <1>1, <1>4, <1>5 DEF DeltaFiles
<1> QED
  BY <1>3, <1>6, NoFileAssumption DEF new, b, g

(* A frame is written behind the cells the process kept.                   *)
FramesFiles(lg, cp, dr, ds, m, new, dr2, ds2, m2) ==
  /\ lg \in Seq(Ids) /\ FilesOk(lg, cp, dr, ds) /\ PersistedOk(lg, m, dr, ds)
  /\ dr.delta # NoFile /\ m.rows = LogRows(lg, Len(lg))
  /\ new \in DeltaFiles /\ new.born = dr.delta.born
  /\ FrameOn(new.cells, SubSeq(dr.delta.cells, 1, m.bytes), Len(lg), m.rows, m.dirty)
  /\ dr2 = [dr EXCEPT !.delta = new]
  /\ ds2 = {[d EXCEPT !.delta = IF @ # NoFile /\ @.born = new.born THEN new ELSE @] : d \in ds}
  /\ m2.dirty = {} /\ m2.bytes = Len(new.cells)

(* and when the frame is there.                                            *)
LEMMA FramedFilesOk ==
  ASSUME NEW lg, NEW cp, NEW dr, NEW ds, NEW m, NEW new, NEW dr2, NEW ds2, NEW m2,
         FramesFiles(lg, cp, dr, ds, m, new, dr2, ds2, m2)
  PROVE  FilesOk(lg, cp, dr2, ds2) /\ PersistedOk(lg, m2, dr2, ds2) /\ m2.bytes \in Nat
<1> USE DEF FramesFiles
<1> DEFINE g == SubSeq(dr.delta.cells, 1, m.bytes)
           n == Len(lg)
           c == new.cells
<1>1. dr \in ds /\ dr \in DirSet /\ \A d \in ds : DirOk(lg, cp, d) /\ d \in DirSet
  BY DEF FilesOk, DirOk
<1>2. g \in Seq(CellSet) /\ GoodCells(g) = Len(g) /\ g = KeptCells(m, dr)
  <2>1. IsKept(g, m, dr)
    BY KeptGood
  <2> HIDE DEF g
  <2> QED
    BY <2>1 DEF IsKept
<1>4. n \in Nat /\ m.rows \in Rows
  <2>1. n \in Nat
    OBVIOUS
  <2> QED
    BY <2>1, LogRowsBounds
<1>5. FrameOn(c, g, n, m.rows, m.dirty)
  OBVIOUS
<1>7. new # NoFile
  BY NoFileAssumption
<1> HIDE DEF g, n, c
<1>6. /\ c \in Seq(CellSet)
      /\ Heads(c) # {} /\ GoodCells(c) = Len(c) /\ DeltaStamp(c) = n
      /\ \A r : \A i \in Ids :
           Overlay(r, c)[i] = IF i \in m.dirty THEN m.rows[i] ELSE Overlay(r, g)[i]
      /\ Len(c) # 0
  BY <1>5 DEF FrameOn
<1>8. ASSUME NEW d \in ds, NEW e, e = [d EXCEPT !.delta = IF @ # NoFile /\ @.born = new.born
                                                          THEN new ELSE @]
      PROVE  /\ e \in DirSet /\ e.joins = d.joins /\ e.ckpt = d.ckpt /\ e.prev = d.prev
             /\ e.delta = IF d.delta # NoFile /\ d.delta.born = dr.delta.born THEN new ELSE d.delta
  BY <1>1, <1>7, <1>8 DEF DirSet
<1>9. \A e \in ds2 : \E d \in ds :
        /\ e \in DirSet /\ e.joins = d.joins /\ e.ckpt = d.ckpt /\ e.prev = d.prev
        /\ e.delta = IF d.delta # NoFile /\ d.delta.born = dr.delta.born THEN new ELSE d.delta
  <2> SUFFICES ASSUME NEW e \in ds2
               PROVE  \E d \in ds :
        /\ e \in DirSet /\ e.joins = d.joins /\ e.ckpt = d.ckpt /\ e.prev = d.prev
        /\ e.delta = IF d.delta # NoFile /\ d.delta.born = dr.delta.born THEN new ELSE d.delta
    OBVIOUS
  <2>1. PICK d \in ds : e = [d EXCEPT !.delta = IF @ # NoFile /\ @.born = new.born
                                                THEN new ELSE @]
    OBVIOUS
  <2> QED
    BY <2>1, <1>8
<1>10. ASSUME NEW j \in JoinsFiles, NEW d \in ds, d.joins = j, d = dr \/ SameFile(d, dr)
       PROVE  Overlay(j.rows, c) = LogRows(lg, n)
  <2>1. j # NoFile /\ j.rows \in Rows
    BY NoFileAssumption DEF JoinsFiles
  <2>2. \A i \in Ids \ m.dirty : Overlay(j.rows, g)[i] = LogRows(lg, n)[i]
    BY <2>1, <1>10, <1>2 DEF PersistedOk, n
  <2>3. \A i \in Ids : Overlay(j.rows, c)[i] = LogRows(lg, n)[i]
    BY <2>2, <1>6 DEF n
  <2>4. Overlay(j.rows, c) \in Rows /\ LogRows(lg, n) \in Rows
    BY <2>1, <1>6, <1>4, OverlayTyped, LogRowsBounds
  <2> QED
    BY <2>3, <2>4 DEF Rows
<1>11. ASSUME NEW e \in ds2 PROVE DirOk(lg, cp, e)
  <2>1. PICK d \in ds :
          /\ e \in DirSet /\ e.joins = d.joins /\ e.ckpt = d.ckpt /\ e.prev = d.prev
          /\ e.delta = IF d.delta # NoFile /\ d.delta.born = dr.delta.born THEN new ELSE d.delta
    BY <1>9
  <2>2. DirOk(lg, cp, d)
    BY <1>1
  <2>3. CASE e.delta = new
    <3>1. dr.delta.born <= n
      BY <1>1 DEF DirOk, n
    <3>2. new.born <= n /\ DeltaStamp(new.cells) <= n
      <4>1. n <= n
        BY <1>4
      <4>2. DeltaStamp(new.cells) = n
        BY <1>6 DEF c
      <4> QED
        BY <4>1, <4>2, <3>1, <1>7
    <3> QED
      BY <3>2, <2>1, <2>2, <2>3 DEF DirOk, n
  <2>4. CASE e.delta = d.delta
    BY <2>1, <2>2, <2>4 DEF DirOk
  <2> QED
    BY <2>1, <2>3, <2>4
<1>12. ASSUME NEW d \in ds2, NEW e \in ds2, SameFile(d, e), d.joins # NoFile
       PROVE  DeltaOk(lg, d.joins, e.delta.cells)
  <2>1. PICK d0 \in ds :
          /\ d.joins = d0.joins
          /\ d.delta = IF d0.delta # NoFile /\ d0.delta.born = dr.delta.born THEN new ELSE d0.delta
    BY <1>9
  <2>2. PICK e0 \in ds :
          e.delta = IF e0.delta # NoFile /\ e0.delta.born = dr.delta.born THEN new ELSE e0.delta
    BY <1>9
  <2>3. CASE e.delta = new
    <3>1. d0.delta # NoFile /\ d0.delta.born = dr.delta.born
      BY <2>1, <2>3, <1>7, <1>12 DEF SameFile
    <3>2. SameFile(d0, dr) /\ d0.joins \in JoinsFiles
      BY <3>1, <2>1, <1>1, <1>12 DEF SameFile, DirSet
    <3>3. Overlay(d0.joins.rows, c) = LogRows(lg, n)
      BY <3>2, <1>10
    <3> QED
      BY <3>3, <2>1, <2>3, <1>6, <1>7 DEF DeltaOk, c
  <2>4. CASE e.delta # new
    <3>1. e.delta = e0.delta /\ e0.delta # NoFile /\ e0.delta.born # dr.delta.born
      BY <2>2, <2>4, <1>12 DEF SameFile
    <3>2. d.delta = d0.delta
      BY <3>1, <2>1, <1>7, <1>12 DEF SameFile
    <3>3. SameFile(d0, e0) /\ d0.joins # NoFile
      BY <3>1, <3>2, <2>1, <1>12 DEF SameFile
    <3> QED
      BY <3>1, <3>3, <2>1 DEF FilesOk
  <2> QED
    BY <2>3, <2>4
<1>13. dr2 \in ds2 /\ dr2.delta = new /\ dr2.joins = dr.joins
  <2>1. dr2 = [dr EXCEPT !.delta = IF @ # NoFile /\ @.born = new.born THEN new ELSE @]
    BY <1>1, <1>7 DEF DirSet
  <2> QED
    BY <2>1, <1>1, <1>8
<1>14. FilesOk(lg, cp, dr2, ds2)
  BY <1>11, <1>12, <1>13 DEF FilesOk
<1>15. KeptCells(m2, dr2) = c /\ m2.bytes = GoodCells(c) /\ m2.bytes \in Nat
  <2>1. SubSeq(c, 1, GoodCells(c)) = c
    <3>1. \A k \in 1..Len(c) : c[k] \in CellSet
      BY <1>6
    <3>2. /\ SubSeq(c, 1, Len(c)) \in Seq(CellSet) /\ Len(c) \in Nat
          /\ Len(SubSeq(c, 1, Len(c))) = IF 1 <= Len(c) THEN Len(c) - 1 + 1 ELSE 0
          /\ \A k \in 1..(Len(c) - 1 + 1) : SubSeq(c, 1, Len(c))[k] = c[1 + k - 1]
      <4>1. Len(c) \in Nat
        BY <1>6
      <4> QED
        BY <4>1, <3>1, SubSeqProperties
    <3>3. Len(SubSeq(c, 1, Len(c))) = Len(c) /\ \A k \in 1..Len(c) : SubSeq(c, 1, Len(c))[k] = c[k]
      BY <3>2, <1>6
    <3> DEFINE s == SubSeq(c, 1, Len(c))
    <3>4. s \in Seq(CellSet) /\ Len(s) = Len(c) /\ \A k \in 1..Len(c) : s[k] = c[k]
      BY <3>2, <3>3
    <3> HIDE DEF s
    <3>5. s = c
      BY <3>4, <1>6, SeqEqual
    <3> QED
      BY <3>5, <1>6 DEF s
  <2> QED
    <3>1. m2.bytes = Len(c) /\ Len(c) \in Nat
      BY <1>6 DEF c
    <3>2. m2.bytes = GoodCells(c) /\ m2.bytes # 0
      BY <3>1, <1>6
    <3>3. dr2.delta.cells = c
      BY <1>13 DEF c
    <3> QED
      BY <2>1, <3>1, <3>2, <3>3 DEF KeptCells
<1>16. ASSUME NEW e \in ds2, e.joins # NoFile, e = dr2 \/ SameFile(e, dr2)
       PROVE  Overlay(e.joins.rows, c) = LogRows(lg, n)
  <2>1. PICK d \in ds :
          /\ e.joins = d.joins
          /\ e.delta = IF d.delta # NoFile /\ d.delta.born = dr.delta.born THEN new ELSE d.delta
    BY <1>9
  <2>2. e.delta # NoFile /\ e.delta.born = dr.delta.born
    BY <1>16, <1>13, <1>7 DEF SameFile
  <2>3. SameFile(d, dr) /\ d.joins \in JoinsFiles
    BY <2>1, <2>2, <1>1, <1>16 DEF SameFile, DirSet
  <2> QED
    BY <2>1, <2>3, <1>10
<1>17. PersistedOk(lg, m2, dr2, ds2)
  <2>1. dr2.joins # NoFile
    BY <1>13 DEF PersistedOk
  <2>2. dr2.delta # NoFile /\ m2.bytes \in {0, GoodCells(dr2.delta.cells)}
    BY <1>7, <1>13, <1>15 DEF c
  <2>3. ASSUME NEW e \in ds2, e.joins # NoFile, e = dr2 \/ SameFile(e, dr2), NEW i \in Ids \ m2.dirty
        PROVE  Overlay(e.joins.rows, KeptCells(m2, dr2))[i] = LogRows(lg, Len(lg))[i]
    <3>1. Overlay(e.joins.rows, c) = LogRows(lg, n)
      BY <2>3, <1>16
    <3> QED
      BY <3>1, <1>15 DEF n
  <2> QED
    BY <2>1, <2>2, <2>3 DEF PersistedOk
<1> QED
  BY <1>14, <1>15, <1>17


-----------------------------------------------------------------------------
(* Sidecar: every step keeps the invariant.                                *)

(* The fields of a store that stopped are typed.                           *)
LEMMA BlankTyped == Blank \in MemSet
<1>1. NoRows \in Rows
  BY DEF NoRows, Rows
<1>2. Blank = [rows |-> NoRows, acts |-> {}, fromLog |-> TRUE, dirty |-> {}, hasCkpt |-> FALSE,
               bytes |-> 0]
  BY DEF Blank, ToRewrite
<1> QED
  BY <1>1, <1>2 DEF MemSet

(* A directory with the sidecar or its delta removed is drawn from those   *)
(* before.                                                                 *)
LEMMA DroppedDrawn ==
  ASSUME NEW ds, NEW d \in ds, d \in DirSet, NEW e \in DirSet,
         e.joins \in {d.joins, NoFile}, e.delta \in {d.delta, NoFile}
  PROVE  DrawnFrom(e, ds)
<1>1. e.delta # NoFile => e.delta = d.delta /\ ReadsAs(e.delta.cells, d.delta.cells)
  BY DeltaTyped, ReadsAsItself
<1> QED
  BY <1>1 DEF DrawnFrom

(* What the invariant says, part by part.                                  *)
LEMMA InvGives ==
  ASSUME FilesInv
  PROVE  /\ Typed /\ FilesOk(log, compacted, dir, dirs)
         /\ LogPages = Len(log) /\ LogPages \in Nat
         /\ dir \in dirs /\ \A d \in dirs : DirOk(log, compacted, d) /\ d \in DirSet /\ CkptsOk(log, compacted, d)
         /\ step \notin {"closed", "refused"} => /\ StoreOk(log, compacted, mem, dir, dirs)
                                               /\ StepOk(log, mem, dir, step)
<1>1. Typed /\ FilesOk(log, compacted, dir, dirs)
  BY DEF FilesInv
<1>2. LogPages = Len(log) /\ LogPages \in Nat
  BY <1>1 DEF Typed, LogPages
<1>3. dir \in dirs /\ \A d \in dirs : DirOk(log, compacted, d)
  BY <1>1 DEF FilesOk
<1>4. \A d \in dirs : d \in DirSet /\ CkptsOk(log, compacted, d)
  BY <1>3 DEF DirOk, CkptsOk
<1>5. step \notin {"closed", "refused"} => StoreOk(log, compacted, mem, dir, dirs) /\ StepOk(log, mem, dir, step)
  BY DEF FilesInv
<1> QED
  BY <1>1, <1>2, <1>3, <1>4, <1>5

Jobs == {"commit", "install", "close"}
Points == {"closed", "refused", "idle", "persist", "frame", "joins", "delta", "ckpt", "publish"}

(* What makes the invariant hold after a step.                             *)
LEMMA MakesInv ==
  ASSUME log' \in Seq(Ids), compacted' \in SUBSET Nat, mem' \in MemSet, job' \in Jobs, step' \in Points,
         FilesOk(log', compacted', dir', dirs'),
         step' \notin {"closed", "refused"} =>
           StoreOk(log', compacted', mem', dir', dirs') /\ StepOk(log', mem', dir', step')
  PROVE  FilesInv'
BY DEF FilesInv, Typed, Jobs, Points

(* The same for a step that leaves the log as it is.                       *)
LEMMA KeepsInv ==
  ASSUME FilesInv, UNCHANGED <<log, compacted>>, mem' \in MemSet, job' \in Jobs, step' \in Points,
         FilesOk(log, compacted, dir', dirs'),
         step' \notin {"closed", "refused"} =>
           StoreOk(log, compacted, mem', dir', dirs') /\ StepOk(log, mem', dir', step')
  PROVE  FilesInv'
<1>1. log' \in Seq(Ids) /\ compacted' \in SUBSET Nat /\ log' = log /\ compacted' = compacted
  BY DEF FilesInv, Typed
<1> QED
  BY <1>1, MakesInv

(* A store that stops, whichever files it leaves.                          *)
LEMMA StoppedKeeps ==
  ASSUME FilesInv, Stop, UNCHANGED <<log, compacted>>, FilesOk(log, compacted, dir', dirs')
  PROVE  FilesInv'
<1>1. /\ mem' \in MemSet /\ job' = "commit" /\ step' = "closed"
      /\ log' \in Seq(Ids) /\ compacted' \in SUBSET Nat
  BY BlankTyped DEF Stop, FilesInv, Typed
<1> QED
  BY <1>1 DEF FilesInv, Typed

(* A commit: the files are right for the longer log, and its row is dirty. *)
LEMMA CommitKeeps ==
  ASSUME FilesInv, NEW i \in Ids, Commit(i)
  PROVE  FilesInv'
<1> DEFINE n == Len(log)
<1>1. /\ log \in Seq(Ids) /\ n \in Nat /\ LogPages = n /\ mem \in MemSet /\ compacted \in SUBSET Nat
      /\ StoreOk(log, compacted, mem, dir, dirs) /\ FilesOk(log, compacted, dir, dirs)
  BY InvGives DEF Commit, Typed
<1>2. /\ log' = Append(log, i) /\ compacted' = compacted /\ dir' = dir /\ dirs' = dirs
      /\ job' = "commit" /\ step' \in {"idle", "persist"}
      /\ mem' = [mem EXCEPT !.rows[i] = n + 1, !.acts = @ \cup {n + 1}, !.dirty = @ \cup {i}]
  BY <1>1 DEF Commit
<1>3. /\ log' \in Seq(Ids) /\ Len(log') = n + 1
      /\ LogRows(log', n + 1) = [LogRows(log, n) EXCEPT ![i] = n + 1]
  BY <1>1, <1>2, LogRowsAppend
<1> HIDE DEF n
<1>4. /\ mem.rows = LogRows(log, n) /\ mem.rows \in Rows
      /\ mem.acts \cup (IF mem.fromLog THEN {} ELSE 1..n) = compacted \cup 1..n
      /\ mem.acts \in SUBSET Nat /\ mem.dirty \in SUBSET Ids
  BY <1>1 DEF StoreOk, MemOk, MemSet, n
<1>5. /\ mem'.rows = [mem.rows EXCEPT ![i] = n + 1] /\ mem'.acts = mem.acts \cup {n + 1}
      /\ mem'.dirty = mem.dirty \cup {i} /\ mem'.fromLog = mem.fromLog
      /\ mem'.hasCkpt = mem.hasCkpt /\ mem'.bytes = mem.bytes
      /\ mem' \in MemSet
  <2>1. mem.rows \in Rows /\ mem.acts \in SUBSET Nat /\ mem.dirty \in SUBSET Ids /\ n + 1 \in Nat
    BY <1>1, <1>4
  <2>2. [mem.rows EXCEPT ![i] = n + 1] \in Rows
    BY <2>1 DEF Rows
  <2>3. mem.acts \cup {n + 1} \in SUBSET Nat /\ mem.dirty \cup {i} \in SUBSET Ids
    BY <2>1
  <2> QED
    BY <2>2, <2>3, <1>1, <1>2 DEF MemSet
<1>6. FilesOk(log', compacted', dir', dirs')
  BY <1>1, <1>2, GrownFilesOk
<1>7. MemOk(log', compacted', mem')
  <2>1. 1..(n + 1) = 1..n \cup {n + 1}
    BY <1>1
  <2>2. mem'.acts \cup (IF mem'.fromLog THEN {} ELSE 1..(n + 1)) = compacted' \cup 1..(n + 1)
    BY <2>1, <1>2, <1>4, <1>5
  <2> QED
    BY <2>2, <1>3, <1>4, <1>5 DEF MemOk
<1>8. ASSUME mem'.hasCkpt PROVE PersistedOk(log', mem', dir', dirs')
  <2>1. PersistedOk(log, mem, dir, dirs)
    BY <1>1, <1>5, <1>8 DEF StoreOk
  <2>2. ASSUME NEW d \in dirs, d.delta # NoFile PROVE d.delta.born < n + 1
    <3>1. d.delta.born <= n /\ d.delta.born \in Nat
      BY <1>1, <2>2, DeltaTyped DEF FilesOk, DirOk, n
    <3> QED
      BY <3>1, <1>1
  <2>3. KeptCells(mem', dir) = KeptCells(mem, dir)
    BY <1>5 DEF KeptCells
  <2>4. ASSUME NEW d \in dirs, d.joins # NoFile, d = dir \/ SameFile(d, dir), NEW j \in Ids \ mem'.dirty
        PROVE  Overlay(d.joins.rows, KeptCells(mem', dir))[j] = LogRows(log', n + 1)[j]
    <3>1. j \in Ids \ mem.dirty /\ j # i
      BY <2>4, <1>5
    <3>2. Overlay(d.joins.rows, KeptCells(mem, dir))[j] = LogRows(log, n)[j]
      BY <2>1, <2>4, <3>1 DEF PersistedOk, n
    <3>3. LogRows(log', n + 1)[j] = LogRows(log, n)[j]
      BY <1>3, <1>4, <3>1 DEF Rows
    <3> QED
      BY <2>3, <3>2, <3>3
  <2> QED
    BY <2>1, <2>2, <2>4, <1>2, <1>3, <1>5 DEF PersistedOk
<1>9. StoreOk(log', compacted', mem', dir', dirs') /\ StepOk(log', mem', dir', step')
  BY <1>1, <1>2, <1>7, <1>8 DEF StoreOk, StepOk
<1> QED
  BY <1>1, <1>2, <1>3, <1>5, <1>6, <1>9, MakesInv DEF Jobs, Points

(* The catalog is read from the log.                                       *)
LEMMA CatalogKeeps ==
  ASSUME FilesInv, step \notin {"closed", "refused"}, mem' = WholeCatalog,
         UNCHANGED <<log, compacted, dir, dirs>>
  PROVE  /\ mem' \in MemSet /\ mem'.fromLog
         /\ StoreOk(log, compacted, mem', dir', dirs')
         /\ mem'.hasCkpt = mem.hasCkpt /\ mem'.dirty = mem.dirty
<1>1. /\ Typed /\ FilesOk(log, compacted, dir, dirs) /\ mem \in MemSet
      /\ StoreOk(log, compacted, mem, dir, dirs) /\ LogPages = Len(log) /\ LogPages \in Nat
  BY InvGives DEF Typed
<1> DEFINE acts == IF mem.fromLog THEN mem.acts ELSE mem.acts \cup 1..LogPages
<1>2. acts = compacted \cup 1..LogPages /\ acts \in SUBSET Nat
  <2>1. compacted \in SUBSET Nat
    BY <1>1 DEF Typed
  <2>2. mem.acts \cup (IF mem.fromLog THEN {} ELSE 1..LogPages) = compacted \cup 1..LogPages
    BY <1>1 DEF StoreOk, MemOk
  <2>3. 1..LogPages \in SUBSET Nat
    BY <1>1
  <2> QED
    BY <2>1, <2>2, <2>3
<1>3. mem' = [mem EXCEPT !.fromLog = TRUE, !.acts = acts]
  BY DEF WholeCatalog
<1> HIDE DEF acts
<1>4. /\ mem' \in MemSet /\ mem'.fromLog /\ mem'.acts = acts /\ mem'.rows = mem.rows
      /\ mem'.dirty = mem.dirty /\ mem'.hasCkpt = mem.hasCkpt /\ mem'.bytes = mem.bytes
  BY <1>1, <1>2, <1>3 DEF MemSet
<1>5. MemOk(log, compacted, mem')
  BY <1>1, <1>2, <1>4 DEF StoreOk, MemOk
<1>6. mem'.hasCkpt => PersistedOk(log, mem', dir', dirs')
  BY <1>1, <1>4 DEF StoreOk, PersistedOk, KeptCells
<1> QED
  BY <1>1, <1>4, <1>5, <1>6 DEF StoreOk

(* The catalog is read from the log, for a claim and for a checkpoint.     *)
LEMMA ClaimKeeps == ASSUME FilesInv, Claim PROVE FilesInv'
<1>1. /\ mem' \in MemSet /\ StoreOk(log, compacted, mem', dir', dirs')
  BY CatalogKeeps DEF Claim
<1>2. StepOk(log, mem', dir', step') /\ job' = job /\ step' = step /\ step = "idle"
  BY DEF Claim, StepOk
<1> QED
  <2>1. log' = log /\ compacted' = compacted /\ dir' = dir /\ dirs' = dirs
    BY DEF Claim
  <2>2. job' \in Jobs /\ step' \in Points /\ FilesOk(log, compacted, dir, dirs)
    BY <1>2, InvGives DEF Typed, Jobs, Points
  <2> QED
    BY <1>1, <1>2, <2>1, <2>2, KeepsInv

(* A checkpoint is due.                                                    *)
LEMMA TakeCheckpointKeeps == ASSUME FilesInv, TakeCheckpoint PROVE FilesInv'
<1>1. mem' \in MemSet /\ mem'.fromLog /\ StoreOk(log, compacted, mem', dir', dirs')
  BY CatalogKeeps DEF TakeCheckpoint
<1>2. step' \in {"persist", "ckpt"} /\ job' = "commit"
  BY DEF TakeCheckpoint
<1>3. StepOk(log, mem', dir', step')
  BY <1>1, <1>2 DEF StepOk
<1> QED
  <2>1. log' = log /\ compacted' = compacted /\ dir' = dir /\ dirs' = dirs
    BY DEF TakeCheckpoint
  <2>2. job' \in Jobs /\ step' \in Points /\ FilesOk(log, compacted, dir, dirs)
    BY <1>2, InvGives DEF Jobs, Points
  <2> QED
    BY <1>1, <1>2, <1>3, <2>1, <2>2, KeepsInv

(* An open or a rollback.                                                  *)
LEMMA InstallKeeps == ASSUME FilesInv, Install PROVE FilesInv'
<1>1. /\ Typed /\ FilesOk(log, compacted, dir, dirs) /\ LogPages = Len(log)
      /\ dir \in dirs /\ dir \in DirSet
      /\ \A d \in dirs : DirOk(log, compacted, d) /\ d \in DirSet /\ CkptsOk(log, compacted, d)
      /\ log \in Seq(Ids) /\ compacted \in SUBSET Nat
  BY InvGives DEF Typed
<1>2. /\ Restored(mem')
      /\ mem'.hasCkpt =>
           /\ dir.joins # NoFile
           /\ dir.delta = NoFile => dir.joins.rows = LogRows(log, LogPages) /\ mem'.bytes = 0
           /\ dir.delta # NoFile => /\ Heads(dir.delta.cells) # {}
                                    /\ DeltaStamp(dir.delta.cells) = LogPages
                                    /\ mem'.bytes = GoodCells(dir.delta.cells)
  BY <1>1, InstalledRestores DEF Install
<1>3. /\ dir' \in DirSet /\ dir'.joins = dir.joins /\ dir'.delta \in {dir.delta, NoFile}
      /\ dir'.ckpt = dir.ckpt /\ dir'.prev = dir.prev
      /\ dir'.joins = NoFile => dir'.delta = NoFile
      /\ dir.joins # NoFile => dir' = dir
      /\ dirs' = dirs \cup {dir'}
  BY <1>1 DEF Install, Swept, DirSet
<1>4. \A e \in dirs' : DrawnFrom(e, dirs) /\ CkptsOk(log, compacted, e)
  <2>1. DrawnFrom(dir', dirs)
    BY <1>1, <1>3, DroppedDrawn
  <2>2. CkptsOk(log, compacted, dir')
    BY <1>1, <1>3 DEF CkptsOk
  <2> QED
    BY <2>1, <2>2, <1>1, <1>3, DrawnItself
<1>5. FilesOk(log, compacted, dir', dirs')
  BY <1>1, <1>3, <1>4, DrawnFilesOk
<1>6. MemOk(log, compacted, mem')
  BY <1>1, <1>2 DEF Restored, CatOk, MemOk, Claimed
<1>7. ASSUME mem'.hasCkpt PROVE PersistedOk(log, mem', dir', dirs')
  <2>1. dir' = dir /\ dirs' = dirs /\ dir.joins # NoFile
    BY <1>1, <1>2, <1>3, <1>7
  <2>2. ASSUME NEW d \in dirs, d.joins # NoFile, d = dir \/ SameFile(d, dir)
        PROVE  Overlay(d.joins.rows, KeptCells(mem', dir)) = LogRows(log, LogPages)
    <3>1. CASE dir.delta = NoFile
      <4>1. d = dir /\ KeptCells(mem', dir) = <<>> /\ dir.joins.rows = LogRows(log, LogPages)
        BY <3>1, <2>2, <1>2, <1>7 DEF SameFile, KeptCells
      <4>2. dir.joins.rows \in Rows
        BY <2>1, <1>1, JoinsTyped
      <4> QED
        BY <4>1, <4>2, NoCells
    <3>2. CASE dir.delta # NoFile
      <4> DEFINE c == dir.delta.cells
      <4>1. /\ c \in Seq(CellSet) /\ Heads(c) # {} /\ DeltaStamp(c) = LogPages
            /\ mem'.bytes = GoodCells(c)
        BY <3>2, <1>1, <1>2, <1>7, DeltaTyped
      <4>2. SameFile(d, dir)
        BY <3>2, <2>2 DEF SameFile
      <4>3. DeltaOk(log, d.joins, c)
        BY <4>2, <2>2, <1>1 DEF FilesOk
      <4>4. d.joins.pages <= LogPages
        BY <2>2, <1>1 DEF DirOk, JoinsOk
      <4>5. Overlay(d.joins.rows, c) = LogRows(log, LogPages)
        BY <4>1, <4>3, <4>4 DEF DeltaOk
      <4>6. KeptCells(mem', dir) = SubSeq(c, 1, GoodCells(c))
        BY <4>1, GoodPart DEF KeptCells
      <4> HIDE DEF c
      <4>7. Overlay(d.joins.rows, SubSeq(c, 1, GoodCells(c))) = Overlay(d.joins.rows, c)
        BY <4>1, GoodPart
      <4> QED
        BY <4>5, <4>6, <4>7
    <3> QED
      BY <3>1, <3>2
  <2>3. mem'.dirty = {}
    BY <1>2 DEF Restored
  <2> QED
    BY <2>1, <2>2, <2>3, <1>1, <1>2, <1>7 DEF PersistedOk
<1>8. StoreOk(log, compacted, mem', dir', dirs')
  BY <1>3, <1>6, <1>7 DEF StoreOk
<1>9. /\ log' = log /\ compacted' = compacted /\ job' = "install" /\ step' \in {"idle", "persist"}
      /\ mem' \in MemSet
  BY <1>2 DEF Install, Restored
<1>10. StepOk(log, mem', dir', step')
  BY <1>9 DEF StepOk
<1> QED
  <2>1. job' \in Jobs /\ step' \in Points
    BY <1>9 DEF Jobs, Points
  <2> QED
    BY <1>5, <1>8, <1>9, <1>10, <2>1, KeepsInv


(* Files that are moved leave an open store what it counts on.             *)
LEMMA StoreDrawn ==
  ASSUME NEW lg, NEW cp, NEW m, NEW dr, NEW ds, FilesOk(lg, cp, dr, ds), StoreOk(lg, cp, m, dr, ds),
         NEW dr2, NEW ds2, dr2.joins = dr.joins, dr2.delta = dr.delta,
         \A e \in ds2 : DrawnFrom(e, ds)
  PROVE  StoreOk(lg, cp, m, dr2, ds2)
<1>1. ASSUME m.hasCkpt PROVE PersistedOk(lg, m, dr2, ds2)
  <2>1. PersistedOk(lg, m, dr, ds)
    BY <1>1 DEF StoreOk
  <2>2. dr.delta # NoFile => m.bytes \in {0, GoodCells(dr2.delta.cells)} /\ KeptCells(m, dr2) = KeptCells(m, dr)
    BY <2>1 DEF PersistedOk, KeptCells
  <2> QED
    BY <2>1, <2>2, DrawnPersisted
<1> QED
  BY <1>1 DEF StoreOk

(* A persist that worked.                                                  *)
LEMMA DoneKeeps ==
  ASSUME FilesInv, NEW m \in MemSet, Done(m), UNCHANGED <<log, compacted>>,
         FilesOk(log, compacted, dir', dirs'), StoreOk(log, compacted, m, dir', dirs')
  PROVE  FilesInv'
<1>1. CASE job = "close"
  BY <1>1, StoppedKeeps DEF Done
<1>2. CASE job # "close"
  <2>1. mem' = m /\ job' = "commit" /\ step' = "idle"
    BY <1>2 DEF Done
  <2> QED
    BY <2>1, KeepsInv DEF StepOk, Jobs, Points
<1> QED
  BY <1>1, <1>2

(* A kill, a poisoned writer, a close without a persist.                   *)
LEMMA StoppingKeeps ==
  ASSUME FilesInv, Stop, UNCHANGED <<log, compacted, dir, dirs>>
  PROVE  FilesInv'
BY InvGives, StoppedKeeps

(* A close.                                                                *)
LEMMA CloseKeeps == ASSUME FilesInv, Close PROVE FilesInv'
<1>1. CASE Stop
  BY <1>1, StoppingKeeps DEF Close
<1>2. CASE mem' = mem /\ job' = "close" /\ step' = "persist"
  <2>1. mem \in MemSet /\ FilesOk(log, compacted, dir, dirs) /\ StoreOk(log, compacted, mem, dir, dirs)
    BY InvGives DEF Close, Typed
  <2>2. dir' = dir /\ dirs' = dirs /\ UNCHANGED <<log, compacted>>
    BY DEF Close
  <2> QED
    BY <1>2, <2>1, <2>2, KeepsInv DEF StepOk, Jobs, Points
<1> QED
  BY <1>1, <1>2 DEF Close

(* A rewrite begins.                                                       *)
LEMMA StartRewriteKeeps == ASSUME FilesInv, StartRewrite PROVE FilesInv'
<1>1. /\ mem \in MemSet /\ FilesOk(log, compacted, dir, dirs) /\ StoreOk(log, compacted, mem, dir, dirs)
      /\ job \in Jobs
  BY InvGives DEF StartRewrite, Typed, Jobs
<1>2. /\ dir' = dir /\ dirs' = dirs /\ UNCHANGED <<log, compacted>> /\ mem' = mem /\ job' = job
      /\ step' = "joins"
  BY DEF StartRewrite
<1> QED
  BY <1>1, <1>2, KeepsInv DEF StepOk, Points

(* A frame is begun.                                                       *)
LEMMA StartFrameKeeps == ASSUME FilesInv, StartFrame PROVE FilesInv'
<1>1. /\ Typed /\ mem \in MemSet /\ FilesOk(log, compacted, dir, dirs)
      /\ StoreOk(log, compacted, mem, dir, dirs) /\ job \in Jobs /\ log \in Seq(Ids)
      /\ LogPages = Len(log) /\ LogPages \in Nat /\ dir \in DirSet
  BY InvGives DEF StartFrame, Typed, Jobs
<1>2. mem.hasCkpt /\ mem.dirty # {}
  BY DEF StartFrame, NeedsRewrite
<1>3. PersistedOk(log, mem, dir, dirs) /\ mem.rows \in Rows /\ mem.dirty \in SUBSET Ids
  BY <1>1, <1>2 DEF StoreOk, MemSet
<1>4. PICK part \in 1..(Len(Frame) - 1) :
     LET torn == [Cut EXCEPT !.cells = @ \o SubSeq(Frame, 1, part)]
     IN /\ dir' = [dir EXCEPT !.delta = torn]
        /\ dirs' = dirs \cup {dir'} \cup
             (IF dir.delta = NoFile THEN {[dir EXCEPT !.delta = Cut]}
              ELSE WithDelta(dirs, dir.delta, Cut) \cup WithDelta(dirs, dir.delta, torn))
  BY DEF StartFrame
<1>5. ASSUME dir.delta = NoFile
      PROVE  FilesOk(log, compacted, dir', dirs') /\ PersistedOk(log, mem, dir', dirs') /\ dir'.delta # NoFile
  <2>1. Cut = [cells |-> <<>>, born |-> Len(log)]
    BY <1>5, <1>1 DEF Cut
  <2> DEFINE cut == [cells |-> <<>>, born |-> Len(log)]
             torn == TornDelta(cut, LogPages, mem.rows, mem.dirty, part)
             dr2 == [dir EXCEPT !.delta = torn]
             ds2 == dirs \cup {dr2} \cup {[dir EXCEPT !.delta = cut]}
  <2>2. dir' = dr2 /\ dirs' = ds2
    BY <1>4, <1>5, <2>1 DEF TornDelta, Frame
  <2>3. FilesOk(log, compacted, dr2, ds2) /\ PersistedOk(log, mem, dr2, ds2) /\ dr2.delta # NoFile
    <3>1. TornNew(log, compacted, mem, dir, dirs, cut, torn)
      BY <1>1, <1>2, <1>3, <1>5, NewFilesOk DEF Frame
    <3> HIDE DEF torn, cut
    <3> QED
      BY <3>1 DEF TornNew, RightAfter
  <2> HIDE DEF dr2, ds2
  <2> QED
    BY <2>2, <2>3 DEF ds2
<1>6. ASSUME dir.delta # NoFile
      PROVE  FilesOk(log, compacted, dir', dirs') /\ PersistedOk(log, mem, dir', dirs') /\ dir'.delta # NoFile
  <2> DEFINE cut == [dir.delta EXCEPT !.cells = SubSeq(@, 1, mem.bytes)]
             torn == TornDelta(cut, LogPages, mem.rows, mem.dirty, part)
             dr2 == [dir EXCEPT !.delta = torn]
             ds2 == dirs \cup {dr2} \cup (WithDelta(dirs, dir.delta, cut) \cup WithDelta(dirs, dir.delta, torn))
  <2>1. Cut = cut
    BY <1>6 DEF Cut
  <2>2. dir' = dr2 /\ dirs' = ds2
    BY <1>4, <1>6, <2>1 DEF TornDelta, Frame
  <2>3. FilesOk(log, compacted, dr2, ds2) /\ PersistedOk(log, mem, dr2, ds2) /\ dr2.delta # NoFile
    <3>1. TornIn(log, compacted, mem, dir, dirs, cut, torn)
      BY <1>1, <1>3, <1>6, TornFilesOk DEF Frame
    <3> HIDE DEF torn, cut
    <3> QED
      BY <3>1 DEF TornIn, RightAfter
  <2> HIDE DEF dr2, ds2
  <2> QED
    BY <2>2, <2>3
<1>7. FilesOk(log, compacted, dir', dirs') /\ PersistedOk(log, mem, dir', dirs') /\ dir'.delta # NoFile
  BY <1>5, <1>6
<1>8. dir'.joins # NoFile
  BY <1>7 DEF PersistedOk
<1>9. /\ UNCHANGED <<log, compacted>> /\ mem' = mem /\ job' = job /\ step' = "frame"
  BY DEF StartFrame
<1>10. StoreOk(log, compacted, mem, dir', dirs') /\ StepOk(log, mem, dir', step')
  BY <1>1, <1>2, <1>7, <1>8, <1>9 DEF StoreOk, StepOk
<1> QED
  BY <1>1, <1>7, <1>9, <1>10, KeepsInv DEF Points


(* A frame is whole.                                                       *)
LEMMA FinishFrameKeeps == ASSUME FilesInv, FinishFrame PROVE FilesInv'
<1>1. /\ Typed /\ mem \in MemSet /\ FilesOk(log, compacted, dir, dirs)
      /\ StoreOk(log, compacted, mem, dir, dirs) /\ StepOk(log, mem, dir, step) /\ step = "frame"
      /\ job \in Jobs /\ log \in Seq(Ids)
      /\ LogPages = Len(log) /\ LogPages \in Nat /\ dir \in DirSet
  BY InvGives DEF FinishFrame, Typed, Jobs
<1>2. mem.hasCkpt /\ dir.delta # NoFile /\ PersistedOk(log, mem, dir, dirs)
  BY <1>1 DEF StepOk, StoreOk
<1>3. /\ mem.rows \in Rows /\ mem.dirty \in SUBSET Ids /\ mem.rows = LogRows(log, Len(log))
      /\ dir.delta \in DeltaFiles
  BY <1>1, <1>2 DEF MemSet, StoreOk, MemOk, DirSet
<1> DEFINE g == SubSeq(dir.delta.cells, 1, mem.bytes)
           new == [dir.delta EXCEPT !.cells = SubSeq(@, 1, mem.bytes) \o FrameOf(LogPages, mem.rows, mem.dirty)]
<1>4. g \in Seq(CellSet) /\ GoodCells(g) = Len(g)
  <2>1. IsKept(g, mem, dir)
    BY <1>1, <1>2, KeptGood
  <2> HIDE DEF g
  <2> QED
    BY <2>1 DEF IsKept
<1>5. /\ new \in DeltaFiles /\ new # NoFile /\ new.born = dir.delta.born
      /\ FrameOn(new.cells, g, LogPages, mem.rows, mem.dirty)
  BY <1>1, <1>3, <1>4, FrameCells
<1>6. /\ dir' = [dir EXCEPT !.delta = new]
      /\ dirs' = {[d EXCEPT !.delta = IF @ # NoFile /\ @.born = new.born
                                        THEN new ELSE @] : d \in dirs}
      /\ UNCHANGED <<log, compacted>>
      /\ \/ mem' = AfterFrame /\ step' = "joins" /\ job' = job
         \/ Done(AfterFrame)
  BY DEF FinishFrame, Frame
<1> HIDE DEF new
<1>7. dir'.delta = new /\ dir'.joins = dir.joins
  BY <1>1, <1>6 DEF DirSet
<1> DEFINE m2 == [mem EXCEPT !.bytes = Len(new.cells), !.dirty = {}]
<1>8. AfterFrame = m2
  BY <1>7 DEF AfterFrame
<1>9. /\ m2.rows = mem.rows /\ m2.acts = mem.acts /\ m2.fromLog = mem.fromLog
      /\ m2.hasCkpt = mem.hasCkpt /\ m2.dirty = {} /\ m2.bytes = Len(new.cells)
  BY <1>1 DEF MemSet
<1>10. FilesOk(log, compacted, dir', dirs') /\ PersistedOk(log, m2, dir', dirs') /\ m2.bytes \in Nat
  <2> HIDE DEF m2
  <2>1. FrameOn(new.cells, SubSeq(dir.delta.cells, 1, mem.bytes), Len(log), mem.rows, mem.dirty)
    BY <1>1, <1>5
  <2> DEFINE dr2 == dir'
             ds2 == dirs'
  <2>2. /\ dr2 = [dir EXCEPT !.delta = new]
        /\ ds2 = {[d EXCEPT !.delta = IF @ # NoFile /\ @.born = new.born
                                        THEN new ELSE @] : d \in dirs}
    BY <1>6
  <2> HIDE DEF dr2, ds2
  <2>3. /\ log \in Seq(Ids) /\ FilesOk(log, compacted, dir, dirs) /\ PersistedOk(log, mem, dir, dirs)
        /\ dir.delta # NoFile /\ mem.rows = LogRows(log, Len(log))
        /\ new \in DeltaFiles /\ new.born = dir.delta.born
        /\ m2.dirty = {} /\ m2.bytes = Len(new.cells)
    BY <1>1, <1>2, <1>3, <1>5, <1>9
  <2>4. FilesOk(log, compacted, dr2, ds2) /\ PersistedOk(log, m2, dr2, ds2) /\ m2.bytes \in Nat
    <3>1. FramesFiles(log, compacted, dir, dirs, mem, new, dr2, ds2, m2)
      BY <2>1, <2>2, <2>3 DEF FramesFiles
    <3> QED
      BY <3>1, FramedFilesOk
  <2> QED
    BY <2>4 DEF dr2, ds2
<1>11. m2 \in MemSet
  BY <1>1, <1>9, <1>10 DEF MemSet
<1> HIDE DEF m2
<1>12. MemOk(log, compacted, m2)
  BY <1>1, <1>9 DEF StoreOk, MemOk
<1>13. StoreOk(log, compacted, m2, dir', dirs')
  BY <1>2, <1>5, <1>7, <1>10, <1>12 DEF StoreOk, PersistedOk
<1>14. CASE mem' = AfterFrame /\ step' = "joins" /\ job' = job
  BY <1>14, <1>1, <1>6, <1>8, <1>10, <1>11, <1>13, KeepsInv DEF StepOk, Points
<1>15. CASE Done(AfterFrame)
  BY <1>15, <1>6, <1>8, <1>10, <1>11, <1>13, DoneKeeps
<1> QED
  BY <1>6, <1>14, <1>15

(* A new sidecar beside the delta of the old one.                          *)
LEMMA RenamedFilesOk ==
  ASSUME NEW lg \in Seq(Ids), NEW cp, NEW m, NEW dr, NEW ds,
         FilesOk(lg, cp, dr, ds), StoreOk(lg, cp, m, dr, ds),
         NEW dr2 \in DirSet, dr2.joins = [pages |-> Len(lg), rows |-> m.rows],
         dr2.delta = dr.delta, dr2.ckpt = dr.ckpt, dr2.prev = dr.prev
  PROVE  FilesOk(lg, cp, dr2, ds \cup {dr2}) /\ StoreOk(lg, cp, m, dr2, ds \cup {dr2})
<1> DEFINE n == Len(lg)
           rows == LogRows(lg, n)
           ds2 == ds \cup {dr2}
<1>1. n \in Nat /\ rows \in Rows /\ m.rows = rows /\ (dr.joins = NoFile => dr.delta = NoFile)
  <2>1. n \in Nat
    OBVIOUS
  <2> QED
    BY <2>1, LogRowsBounds DEF StoreOk, MemOk
<1>2. dr \in ds /\ dr \in DirSet /\ \A d \in ds : DirOk(lg, cp, d) /\ d \in DirSet
  BY DEF FilesOk, DirOk
<1>3. dr2.joins.pages = n /\ dr2.joins.rows = rows /\ dr2.joins # NoFile
  <2>1. dr2.joins.pages = n /\ dr2.joins.rows = rows
    BY <1>1
  <2>2. dr2.joins \in JoinsFiles
    BY <1>1 DEF JoinsFiles
  <2> QED
    BY <2>1, <2>2, NoFileAssumption
<1> HIDE DEF n, rows
<1>4. DirOk(lg, cp, dr2)
  <2>1. JoinsOk(lg, dr2.joins)
    BY <1>1, <1>3 DEF JoinsOk, n, rows
  <2> QED
    BY <2>1, <1>2 DEF DirOk
(* A delta that decides a row says what the log says; one that does not    *)
(* leaves the new sidecar's row.                                           *)
<1>5. ASSUME NEW c \in Seq(CellSet), NEW q, NEW i \in Ids, Overlay(q, c)[i] = rows[i]
      PROVE  Overlay(rows, c)[i] = rows[i]
  BY <1>5, OverlayDecides
<1>6. ASSUME NEW e \in ds2, SameFile(dr2, e)
      PROVE  DeltaOk(lg, dr2.joins, e.delta.cells)
  <2>1. PICK x \in ds : x.delta = e.delta /\ SameFile(dr, x) /\ x \in DirSet /\ DirOk(lg, cp, x)
    BY <1>2, <1>6 DEF SameFile
  <2> DEFINE c == e.delta.cells
  <2>2. c \in Seq(CellSet) /\ (Heads(c) # {} => DeltaStamp(c) \in Nat /\ DeltaStamp(c) <= n)
    <3>1. c \in Seq(CellSet)
      BY <2>1, DeltaTyped DEF SameFile
    <3> QED
      BY <3>1, <2>1, GoodPart DEF DirOk, SameFile, n
  <2>3. dr.joins # NoFile /\ DeltaOk(lg, dr.joins, c) /\ dr.joins.pages <= n
    BY <2>1, <1>1, <1>2 DEF FilesOk, SameFile, DirOk, JoinsOk, n
  <2> HIDE DEF c
  <2>4. SUFFICES ASSUME Heads(c) # {}, n <= DeltaStamp(c)
                 PROVE  Overlay(rows, c) = LogRows(lg, DeltaStamp(c))
    BY <1>3 DEF DeltaOk, c
  <2>5. DeltaStamp(c) = n
    BY <2>2, <2>4, <1>1
  <2>6. Overlay(dr.joins.rows, c) = rows
    BY <2>3, <2>4, <2>5 DEF DeltaOk, rows
  <2>7. \A i \in Ids : Overlay(rows, c)[i] = rows[i]
    BY <2>2, <2>6, <1>5
  <2>8. Overlay(rows, c) \in Rows
    BY <2>2, <1>1, OverlayTyped
  <2> QED
    BY <2>5, <2>7, <2>8, <1>1 DEF Rows, rows
<1>7. ASSUME NEW d \in ds2, NEW e \in ds2, SameFile(d, e), d.joins # NoFile
      PROVE  DeltaOk(lg, d.joins, e.delta.cells)
  <2>1. CASE d = dr2
    BY <2>1, <1>6, <1>7
  <2>2. CASE d \in ds
    <3>1. PICK x \in ds : x.delta = e.delta
      BY <1>2
    <3> QED
      BY <3>1, <2>2, <1>7 DEF FilesOk, SameFile
  <2> QED
    BY <2>1, <2>2
<1>8. FilesOk(lg, cp, dr2, ds2)
  BY <1>2, <1>4, <1>7 DEF FilesOk
<1>9. ASSUME m.hasCkpt PROVE PersistedOk(lg, m, dr2, ds2)
  <2>1. PersistedOk(lg, m, dr, ds)
    BY <1>9 DEF StoreOk
  <2>2. KeptCells(m, dr2) = KeptCells(m, dr) /\ KeptCells(m, dr) \in Seq(CellSet)
    <3>1. KeptCells(m, dr2) = KeptCells(m, dr)
      BY DEF KeptCells
    <3>2. CASE m.bytes = 0
      BY <3>1, <3>2, NoCells DEF KeptCells
    <3>3. CASE m.bytes # 0
      <4>1. dr.delta # NoFile
        BY <3>3, <2>1 DEF PersistedOk
      <4>2. IsKept(SubSeq(dr.delta.cells, 1, m.bytes), m, dr)
        BY <4>1, <2>1, KeptGood
      <4> QED
        BY <3>1, <4>2 DEF IsKept
    <3> QED
      BY <3>2, <3>3
  <2>3. ASSUME NEW d \in ds2, d.joins # NoFile, d = dr2 \/ SameFile(d, dr2), NEW i \in Ids \ m.dirty
        PROVE  Overlay(d.joins.rows, KeptCells(m, dr2))[i] = LogRows(lg, n)[i]
    <3>1. \A d2 \in ds : d2.joins # NoFile /\ (d2 = dr \/ SameFile(d2, dr)) =>
            Overlay(d2.joins.rows, KeptCells(m, dr2))[i] = rows[i]
      BY <2>1, <2>2, <2>3 DEF PersistedOk, rows, n
    <3>2. CASE d \in ds /\ SameFile(d, dr2)
      BY <3>1, <3>2, <2>3 DEF SameFile, rows
    <3>3. CASE d = dr2
      <4>1. dr.joins # NoFile
        BY <2>1 DEF PersistedOk
      <4>2. Overlay(dr.joins.rows, KeptCells(m, dr2))[i] = rows[i]
        BY <4>1, <3>1, <1>2
      <4> QED
        BY <4>2, <2>2, <3>3, <1>3, <1>5, <2>3 DEF rows
    <3>4. CASE d \in ds /\ d = dr2
      BY <3>3, <3>4
    <3> QED
      BY <3>2, <3>3, <2>3
  <2>4. m.bytes \in {0, GoodCells(dr2.delta.cells)} \/ dr2.delta = NoFile
    BY <2>1 DEF PersistedOk
  <2>5. dr2.delta = NoFile =>
       /\ m.bytes = 0
       /\ m.dirty # {} => \A d \in ds2 : d.delta # NoFile => d.delta.born < Len(lg)
    BY <2>1 DEF PersistedOk
  <2> QED
    BY <2>3, <2>4, <2>5, <1>3 DEF PersistedOk, n
<1>10. StoreOk(lg, cp, m, dr2, ds2)
  BY <1>3, <1>9 DEF StoreOk
<1> QED
  BY <1>8, <1>10

(* The new sidecar has its name.                                           *)
LEMMA RenameJoinsKeeps == ASSUME FilesInv, RenameJoins PROVE FilesInv'
<1>1. /\ Typed /\ mem \in MemSet /\ FilesOk(log, compacted, dir, dirs)
      /\ StoreOk(log, compacted, mem, dir, dirs) /\ job \in Jobs /\ log \in Seq(Ids)
      /\ LogPages = Len(log) /\ LogPages \in Nat /\ dir \in DirSet
  BY InvGives DEF RenameJoins, Typed, Jobs
<1>2. /\ dir' = [dir EXCEPT !.joins = Snapshot(mem)] /\ dirs' = dirs \cup {dir'}
      /\ step' = "delta" /\ UNCHANGED <<log, compacted>> /\ mem' = mem /\ job' = job
  BY DEF RenameJoins
<1>3. /\ dir'.joins = [pages |-> Len(log), rows |-> mem.rows]
      /\ dir'.delta = dir.delta /\ dir'.ckpt = dir.ckpt /\ dir'.prev = dir.prev
      /\ dir' \in DirSet
  <2>1. Snapshot(mem) = [pages |-> Len(log), rows |-> mem.rows]
    BY <1>1 DEF Snapshot
  <2>2. Snapshot(mem) \in JoinsFiles
    BY <2>1, <1>1 DEF JoinsFiles, MemSet
  <2> HIDE DEF Snapshot
  <2> QED
    BY <2>1, <2>2, <1>1, <1>2 DEF DirSet
<1>4. FilesOk(log, compacted, dir', dirs') /\ StoreOk(log, compacted, mem, dir', dirs')
  BY <1>1, <1>2, <1>3, RenamedFilesOk
<1>5. StepOk(log, mem, dir', step')
  BY <1>2, <1>3 DEF StepOk
<1> QED
  BY <1>1, <1>2, <1>4, <1>5, KeepsInv DEF Points


(* The delta is removed, or its removal fails unseen.                      *)
LEMMA RemoveDeltaKeeps == ASSUME FilesInv, RemoveDelta PROVE FilesInv'
<1>1. /\ Typed /\ mem \in MemSet /\ FilesOk(log, compacted, dir, dirs)
      /\ StoreOk(log, compacted, mem, dir, dirs) /\ StepOk(log, mem, dir, step) /\ step = "delta"
      /\ job \in Jobs /\ log \in Seq(Ids) /\ dir \in DirSet /\ dir \in dirs
      /\ \A d \in dirs : d \in DirSet /\ CkptsOk(log, compacted, d)
  BY InvGives DEF RemoveDelta, Typed, Jobs
<1>2. /\ dir.joins = [pages |-> Len(log), rows |-> mem.rows] /\ mem.rows = LogRows(log, Len(log))
      /\ mem.rows \in Rows
  BY <1>1 DEF StepOk, StoreOk, MemOk, MemSet
<1>3. /\ dirs' = {dir, dir'} /\ UNCHANGED <<log, compacted>>
      /\ dir' \in {dir, [dir EXCEPT !.delta = NoFile]}
      /\ \/ mem.fromLog /\ mem' = Rewritten /\ step' = "ckpt" /\ job' = job
         \/ Done(Rewritten)
  BY DEF RemoveDelta
<1>4. /\ dir' \in DirSet /\ dir'.joins = dir.joins /\ dir'.delta \in {dir.delta, NoFile}
      /\ dir'.ckpt = dir.ckpt /\ dir'.prev = dir.prev
  BY <1>1, <1>3 DEF DirSet
<1>5. \A e \in dirs' : DrawnFrom(e, dirs) /\ CkptsOk(log, compacted, e)
  <2>1. DrawnFrom(dir', dirs)
    BY <1>1, <1>4, DroppedDrawn
  <2>2. CkptsOk(log, compacted, dir')
    BY <1>1, <1>4 DEF CkptsOk
  <2> QED
    BY <2>1, <2>2, <1>1, <1>3, DrawnItself
<1>6. FilesOk(log, compacted, dir', dirs')
  BY <1>1, <1>3, <1>5, DrawnFilesOk
<1> DEFINE m2 == Rewritten
<1>7. /\ m2 \in MemSet /\ m2.rows = mem.rows /\ m2.acts = mem.acts /\ m2.fromLog = mem.fromLog
      /\ m2.dirty = {} /\ m2.hasCkpt /\ m2.bytes = 0
  BY <1>1 DEF Rewritten, MemSet
<1> HIDE DEF m2
<1>8. MemOk(log, compacted, m2)
  BY <1>1, <1>7 DEF StoreOk, MemOk
<1>9. dir.joins \in JoinsFiles /\ dir.joins # NoFile
  <2>1. Len(log) \in Nat
    BY <1>1
  <2>2. dir.joins \in JoinsFiles
    BY <1>2, <2>1 DEF JoinsFiles
  <2> QED
    BY <2>2, NoFileAssumption
<1>10. PersistedOk(log, m2, dir', dirs')
  <2>1. KeptCells(m2, dir') = <<>>
    BY <1>7 DEF KeptCells
  <2>2. ASSUME NEW d \in dirs' PROVE Overlay(d.joins.rows, <<>>) = LogRows(log, Len(log))
    <3>1. d.joins.rows = mem.rows
      BY <1>2, <1>3, <1>4
    <3> QED
      BY <3>1, <1>2, NoCells
  <2> QED
    BY <2>1, <2>2, <1>4, <1>7, <1>9 DEF PersistedOk
<1>11. StoreOk(log, compacted, m2, dir', dirs')
  BY <1>4, <1>8, <1>9, <1>10 DEF StoreOk
<1>12. CASE mem.fromLog /\ mem' = Rewritten /\ step' = "ckpt" /\ job' = job
  <2>1. mem' = m2
    BY <1>12 DEF m2
  <2> QED
    BY <2>1, <1>12, <1>1, <1>3, <1>6, <1>7, <1>11, KeepsInv DEF StepOk, Points
<1>13. CASE Done(Rewritten)
  <2>1. Done(m2)
    BY <1>13 DEF m2
  <2> QED
    BY <2>1, <1>3, <1>6, <1>7, <1>11, DoneKeeps
<1> QED
  BY <1>3, <1>12, <1>13

(* A checkpoint file that is moved or written leaves the others alone.  *)
LEMMA CkptsMoved ==
  ASSUME NEW lg, NEW cp, NEW dr, NEW ds, FilesOk(lg, cp, dr, ds),
         NEW e \in DirSet, e.joins = dr.joins, e.delta = dr.delta,
         CkptsOk(lg, cp, e)
  PROVE  DrawnFrom(e, ds) /\ CkptsOk(lg, cp, e)
<1>1. dr \in ds /\ dr \in DirSet
  BY DEF FilesOk, DirOk
<1> QED
  BY <1>1, DroppedDrawn

(* The checkpoint becomes the previous one.                                *)
LEMMA KeepPrevKeeps == ASSUME FilesInv, KeepPrev PROVE FilesInv'
<1>1. /\ Typed /\ mem \in MemSet /\ FilesOk(log, compacted, dir, dirs)
      /\ StoreOk(log, compacted, mem, dir, dirs) /\ StepOk(log, mem, dir, step) /\ step = "ckpt"
      /\ job \in Jobs /\ log \in Seq(Ids) /\ dir \in DirSet /\ dir \in dirs
      /\ \A d \in dirs : d \in DirSet /\ CkptsOk(log, compacted, d)
  BY InvGives DEF KeepPrev, Typed, Jobs
<1> DEFINE none == [dir EXCEPT !.prev = NoFile]
<1>2. /\ dir' = IF dir.ckpt = NoFile THEN dir
                ELSE [dir EXCEPT !.prev = dir.ckpt, !.ckpt = NoFile]
      /\ dirs' = dirs \cup {dir'} \cup IF dir.ckpt = NoFile THEN {} ELSE {none}
      /\ step' = "publish" /\ UNCHANGED <<log, compacted>> /\ mem' = mem /\ job' = job
  BY DEF KeepPrev
<1>3. /\ dir' \in DirSet /\ dir'.joins = dir.joins /\ dir'.delta = dir.delta
      /\ \/ dir'.ckpt = dir.ckpt /\ dir'.prev = dir.prev
         \/ dir'.ckpt = NoFile /\ dir'.prev = dir.ckpt /\ dir.ckpt # NoFile
  BY <1>1, <1>2 DEF DirSet
<1>4. /\ none \in DirSet /\ none.joins = dir.joins /\ none.delta = dir.delta
      /\ none.ckpt = dir.ckpt /\ none.prev = NoFile
  BY <1>1 DEF DirSet
<1>5. CkptsOk(log, compacted, dir)
  BY <1>1
<1>6. CkptsOk(log, compacted, dir') /\ (dir.ckpt # NoFile => CkptsOk(log, compacted, none))
  BY <1>3, <1>4, <1>5 DEF CkptsOk, CkptOk
<1> HIDE DEF none
<1>7. \A e \in dirs' : DrawnFrom(e, dirs) /\ CkptsOk(log, compacted, e)
  <2>1. DrawnFrom(dir', dirs) /\ (dir.ckpt # NoFile => DrawnFrom(none, dirs))
    BY <1>1, <1>3, <1>4, <1>6, CkptsMoved
  <2> QED
    BY <2>1, <1>1, <1>2, <1>6, DrawnItself
<1>8. FilesOk(log, compacted, dir', dirs')
  BY <1>1, <1>2, <1>7, DrawnFilesOk
<1>9. StoreOk(log, compacted, mem, dir', dirs')
  BY <1>1, <1>3, <1>7, StoreDrawn
<1>10. StepOk(log, mem, dir', step')
  BY <1>1, <1>2 DEF StepOk
<1> QED
  BY <1>1, <1>2, <1>8, <1>9, <1>10, KeepsInv DEF Points

(* The checkpoint that is written is right.                             *)
LEMMA PublishedRight ==
  ASSUME FilesInv, step = "publish", NEW e, e = [dir EXCEPT !.ckpt = FullSnapshot(mem)]
  PROVE  /\ e \in DirSet /\ e.joins = dir.joins /\ e.delta = dir.delta
         /\ DrawnFrom(e, dirs) /\ CkptsOk(log, compacted, e)
<1>1. /\ Typed /\ mem \in MemSet /\ FilesOk(log, compacted, dir, dirs)
      /\ StoreOk(log, compacted, mem, dir, dirs) /\ StepOk(log, mem, dir, step)
      /\ LogPages = Len(log) /\ LogPages \in Nat /\ dir \in DirSet
      /\ CkptsOk(log, compacted, dir)
  <2>1. /\ Typed /\ FilesOk(log, compacted, dir, dirs)
        /\ LogPages = Len(log) /\ LogPages \in Nat /\ dir \in DirSet /\ CkptsOk(log, compacted, dir)
    BY InvGives
  <2>2. StoreOk(log, compacted, mem, dir, dirs) /\ StepOk(log, mem, dir, step)
    BY InvGives
  <2> QED
    BY <2>1, <2>2 DEF Typed
<1> DEFINE f == FullSnapshot(mem)
<1>2. f = [pages |-> LogPages, rows |-> mem.rows, acts |-> mem.acts] /\ f \in CkptFiles
  BY <1>1 DEF FullSnapshot, CkptFiles, MemSet
<1>3. mem.fromLog
  BY <1>1 DEF StepOk
<1>4. CkptOk(log, compacted, f)
  BY <1>1, <1>2, <1>3 DEF CkptOk, StoreOk, MemOk
<1>5. f # NoFile
  BY <1>2, NoFileAssumption
<1> HIDE DEF f
<1>6. /\ e \in DirSet /\ e.joins = dir.joins /\ e.delta = dir.delta
      /\ e.ckpt = f /\ e.prev = dir.prev
  BY <1>1, <1>2 DEF DirSet, f
<1>7. CkptsOk(log, compacted, e)
  BY <1>1, <1>4, <1>5, <1>6 DEF CkptsOk
<1> QED
  BY <1>1, <1>6, <1>7, CkptsMoved

(* The new checkpoint has its name.                                        *)
LEMMA PublishCkptKeeps == ASSUME FilesInv, PublishCkpt PROVE FilesInv'
<1>1. /\ Typed /\ mem \in MemSet /\ FilesOk(log, compacted, dir, dirs)
      /\ StoreOk(log, compacted, mem, dir, dirs)
  BY InvGives DEF PublishCkpt, Typed
<1>2. /\ step = "publish" /\ dir' = [dir EXCEPT !.ckpt = FullSnapshot(mem)] /\ dirs' = {dir'}
      /\ Done(mem) /\ UNCHANGED <<log, compacted>>
  BY DEF PublishCkpt, DurableRename, SyncParent
<1>3. /\ dir'.joins = dir.joins /\ dir'.delta = dir.delta
      /\ DrawnFrom(dir', dirs) /\ CkptsOk(log, compacted, dir')
  BY <1>2, PublishedRight
<1>4. FilesOk(log, compacted, dir', dirs')
  BY <1>1, <1>2, <1>3, DrawnFilesOk
<1>5. StoreOk(log, compacted, mem, dir', dirs')
  <2>1. \A e \in dirs' : DrawnFrom(e, dirs)
    BY <1>2, <1>3
  <2> QED
    BY <2>1, <1>1, <1>3, StoreDrawn
<1> QED
  BY <1>1, <1>2, <1>4, <1>5, DoneKeeps

(* A step of a persist fails.                                              *)
LEMMA PersistFailsKeeps == ASSUME FilesInv, PersistFails PROVE FilesInv'
<1>1. /\ Typed /\ mem \in MemSet /\ FilesOk(log, compacted, dir, dirs)
      /\ StoreOk(log, compacted, mem, dir, dirs) /\ job \in Jobs
      /\ \A d \in dirs : d \in DirSet /\ CkptsOk(log, compacted, d)
  BY InvGives DEF PersistFails, Typed, Jobs
<1>2. FilesOk(log, compacted, dir', dirs') /\ StoreOk(log, compacted, mem, dir', dirs')
  <2>1. CASE UNCHANGED <<dir, dirs>>
    BY <2>1, <1>1
  <2>2. CASE /\ step = "publish"
             /\ dir' = [dir EXCEPT !.ckpt = FullSnapshot(mem)]
             /\ dirs' = dirs \cup {dir'}
    <3>1. /\ dir'.joins = dir.joins /\ dir'.delta = dir.delta
          /\ DrawnFrom(dir', dirs) /\ CkptsOk(log, compacted, dir')
      BY <2>2, PublishedRight
    <3>2. \A e \in dirs' : DrawnFrom(e, dirs) /\ CkptsOk(log, compacted, e)
      BY <3>1, <2>2, <1>1, DrawnItself
    <3>3. FilesOk(log, compacted, dir', dirs')
      BY <1>1, <2>2, <3>2, DrawnFilesOk
    <3>4. StoreOk(log, compacted, mem, dir', dirs')
      BY <1>1, <3>1, <3>2, StoreDrawn
    <3> QED
      BY <3>3, <3>4
  <2> QED
    BY <2>1, <2>2 DEF PersistFails
<1>3. CASE job = "commit" /\ step' = "idle" /\ UNCHANGED <<mem, job>>
  BY <1>1, <1>2, <1>3, KeepsInv DEF PersistFails, StepOk, Points
<1>4. CASE Stop
  BY <1>2, <1>4, StoppedKeeps DEF PersistFails
<1> QED
  BY <1>3, <1>4 DEF PersistFails

(* An open is refused.                                                     *)
LEMMA OpenRefusedKeeps == ASSUME FilesInv, OpenRefused PROVE FilesInv'
<1>1. Typed /\ FilesOk(log, compacted, dir, dirs) /\ mem \in MemSet /\ job \in Jobs
  BY InvGives DEF Typed, Jobs
<1>2. step' = "refused" /\ mem' = mem /\ job' = job /\ UNCHANGED <<log, compacted, dir, dirs>>
  BY DEF OpenRefused
<1> QED
  BY <1>1, <1>2, KeepsInv DEF Points

(* A power loss leaves one of the directories.                             *)
LEMMA PowerLossKeeps == ASSUME FilesInv, LosePower PROVE FilesInv'
<1>1. /\ FilesOk(log, compacted, dir, dirs)
      /\ \A d \in dirs : d \in DirSet /\ CkptsOk(log, compacted, d)
  BY InvGives
<1>2. Stop /\ UNCHANGED <<log, compacted>> /\ dir' \in dirs /\ dirs' = {dir'}
  BY DEF LosePower
<1>3. FilesOk(log, compacted, dir', dirs')
  BY <1>1, <1>2, DrawnItself, DrawnFilesOk
<1> QED
  BY <1>2, <1>3, StoppedKeeps

(* The operator deletes files.                                             *)
LEMMA OperatorDeletesKeeps == ASSUME FilesInv, OperatorDeletes PROVE FilesInv'
<1>1. /\ FilesOk(log, compacted, dir, dirs) /\ dir \in dirs /\ dir \in DirSet
      /\ CkptsOk(log, compacted, dir)
  BY InvGives
<1>2. /\ Stop /\ UNCHANGED <<log, compacted>> /\ dirs' = {dir'}
      /\ dir' \in {[dir EXCEPT !.joins = NoFile], [dir EXCEPT !.delta = NoFile],
               [dir EXCEPT !.joins = NoFile, !.delta = NoFile]}
  BY DEF OperatorDeletes
<1>3. /\ dir' \in DirSet /\ dir'.joins \in {dir.joins, NoFile} /\ dir'.delta \in {dir.delta, NoFile}
      /\ dir'.ckpt = dir.ckpt /\ dir'.prev = dir.prev
  BY <1>1, <1>2 DEF DirSet
<1>4. DrawnFrom(dir', dirs) /\ CkptsOk(log, compacted, dir')
  BY <1>1, <1>3, DroppedDrawn DEF CkptsOk
<1>5. FilesOk(log, compacted, dir', dirs')
  BY <1>1, <1>2, <1>4, DrawnFilesOk
<1> QED
  BY <1>2, <1>5, StoppedKeeps

(* A new store, and a compacted one.                                       *)
LEMMA InitHolds == ASSUME FileFaults = {}, FilesInit PROVE FilesInv
<1>1. NoFiles \in DirSet /\ NoRows \in Rows
  BY DEF NoFiles, DirSet, NoRows, Rows
<1>2. mem = Blank /\ mem \in MemSet /\ job = "commit"
  BY BlankTyped DEF FilesInit
<1>3. ASSUME log = <<>>, compacted = {}, step = "idle", dir = NoFiles, dirs = {NoFiles}
      PROVE  FilesInv
  <2>1. log \in Seq(Ids) /\ Len(log) = 0
    BY <1>3
  <2>2. DirOk(log, {}, NoFiles)
    BY <1>1 DEF DirOk, NoFiles, JoinsOk, CkptOk
  <2>3. FilesOk(log, compacted, dir, dirs)
    BY <1>3, <2>2 DEF FilesOk, SameFile, NoFiles
  <2>4. LogRows(log, 0) = NoRows
    <3>1. \A i \in Ids : LogRows(log, 0)[i] = 0
      BY LogRowIs
    <3> QED
      BY <3>1 DEF LogRows, NoRows
  <2>5. mem.rows = NoRows /\ mem.acts = {} /\ mem.fromLog /\ ~mem.hasCkpt
    BY <1>2 DEF Blank, ToRewrite
  <2>6. StoreOk(log, compacted, mem, dir, dirs)
    BY <1>3, <2>1, <2>4, <2>5 DEF StoreOk, MemOk, NoFiles
  <2>7. Typed
    BY <1>2, <1>3, <2>1 DEF Typed
  <2> QED
    BY <1>3, <2>3, <2>6, <2>7 DEF FilesInv, StepOk
<1>4. ASSUME NEW i \in Ids, log = <<i>>, compacted = {0}, step = "closed",
             dir = [NoFiles EXCEPT !.ckpt =
               [pages |-> 1, rows |-> [NoRows EXCEPT ![i] = 1], acts |-> {0, 1}]],
             dirs = {dir}
      PROVE  FilesInv
  <2>1. log \in Seq(Ids) /\ Len(log) = 1 /\ log[1] = i
    BY <1>4
  <2> DEFINE rows == [NoRows EXCEPT ![i] = 1]
             f == [pages |-> 1, rows |-> rows, acts |-> {0, 1}]
  <2>2. rows \in Rows /\ rows[i] = 1 /\ \A j \in Ids : j # i => rows[j] = 0
    BY DEF NoRows, Rows
  <2>3. LogRows(log, 1) = rows
    <3>1. LogRows(log, 1)[i] = 1
      <4>1. \A p \in 1..1 : log[p] = i => p <= 1
        OBVIOUS
      <4> QED
        BY <4>1, <2>1, LogRowIs
    <3>2. ASSUME NEW j \in Ids, j # i PROVE LogRows(log, 1)[j] = 0
      <4>1. \A p \in 1..1 : log[p] = j => p <= 0
        BY <2>1, <3>2
      <4> QED
        BY <4>1, LogRowIs
    <3>3. LogRows(log, 1) \in Rows
      BY LogRowsBounds
    <3> QED
      BY <3>1, <3>2, <3>3, <2>2 DEF Rows
  <2>4. f \in CkptFiles /\ f.pages = 1 /\ f.rows = rows /\ f.acts = {0, 1}
    BY <2>2 DEF CkptFiles
  <2>5. CkptOk(log, {0}, f)
    BY <2>1, <2>3, <2>4 DEF CkptOk
  <2>6. f # NoFile
    BY <2>4, NoFileAssumption
  <2> HIDE DEF f, rows
  <2>7. /\ dir \in DirSet /\ dir.joins = NoFile /\ dir.delta = NoFile /\ dir.ckpt = f
        /\ dir.prev = NoFile
    BY <1>1, <1>4, <2>4 DEF NoFiles, DirSet, f, rows
  <2>8. DirOk(log, compacted, dir)
    BY <1>4, <2>5, <2>6, <2>7 DEF DirOk, JoinsOk, CkptOk
  <2>9. FilesOk(log, compacted, dir, dirs)
    BY <1>4, <2>7, <2>8 DEF FilesOk, SameFile
  <2>10. Typed
    BY <1>2, <1>4, <2>1 DEF Typed
  <2> QED
    BY <1>4, <2>9, <2>10 DEF FilesInv
<1> QED
  BY <1>3, <1>4 DEF FilesInit

(* Every step keeps the invariant.                                         *)
LEMMA NextKeeps == ASSUME FilesInv, [FilesNext]_filesVars PROVE FilesInv'
<1>1. ASSUME NEW i \in Ids, Commit(i) PROVE FilesInv'
  BY <1>1, CommitKeeps
<1>2. CASE Claim
  BY <1>2, ClaimKeeps
<1>3. CASE TakeCheckpoint
  BY <1>3, TakeCheckpointKeeps
<1>4. CASE Abort \/ OpenStore
  BY <1>4, InstallKeeps DEF Abort, OpenStore
<1>5. CASE AbortPoisons \/ KillProcess
  BY <1>5, StoppingKeeps DEF AbortPoisons, KillProcess
<1>6. CASE Close
  BY <1>6, CloseKeeps
<1>7. CASE StartFrame
  BY <1>7, StartFrameKeeps
<1>8. CASE FinishFrame
  BY <1>8, FinishFrameKeeps
<1>9. CASE StartRewrite
  BY <1>9, StartRewriteKeeps
<1>10. CASE RenameJoins
  BY <1>10, RenameJoinsKeeps
<1>11. CASE RemoveDelta
  BY <1>11, RemoveDeltaKeeps
<1>12. CASE KeepPrev
  BY <1>12, KeepPrevKeeps
<1>13. CASE PublishCkpt
  BY <1>13, PublishCkptKeeps
<1>14. CASE PersistFails
  BY <1>14, PersistFailsKeeps
<1>15. CASE OpenRefused
  BY <1>15, OpenRefusedKeeps
<1>16. CASE LosePower
  BY <1>16, PowerLossKeeps
<1>17. CASE OperatorDeletes
  BY <1>17, OperatorDeletesKeeps
<1>18. CASE UNCHANGED filesVars
  <2>1. Typed /\ FilesOk(log, compacted, dir, dirs) /\ mem \in MemSet /\ job \in Jobs /\ step \in Points
    BY InvGives DEF Typed, Jobs, Points
  <2>2. log' = log /\ compacted' = compacted /\ dir' = dir /\ dirs' = dirs /\ mem' = mem /\ job' = job
          /\ step' = step
    BY <1>18 DEF filesVars
  <2> QED
    BY <2>1, <2>2, InvGives, KeepsInv
<1> QED
  BY <1>1, <1>2, <1>3, <1>4, <1>5, <1>6, <1>7, <1>8, <1>9, <1>10, <1>11, <1>12, <1>13, <1>14,
     <1>15, <1>16, <1>17, <1>18 DEF FilesNext

(* The invariant says that the files restore the log.                      *)
LEMMA InvRestores == ASSUME FilesInv PROVE FilesRestoreTheLog
<1>1. /\ Typed /\ FilesOk(log, compacted, dir, dirs) /\ dir \in dirs
      /\ LogPages = Len(log) /\ LogPages \in Nat /\ log \in Seq(Ids) /\ compacted \in SUBSET Nat
  BY InvGives DEF Typed
<1>2. RowsOfLog = LogRows(log, LogPages)
  BY <1>1, RowsOfLogIs
<1>3. ASSUME NEW d \in dirs \cup {dir}, Readable(d)
      PROVE  Installed(d).rows = RowsOfLog /\ CompleteIn(Installed(d))
  <2>1. Restored(Installed(d))
    BY <1>1, <1>3, InstalledRestores
  <2> QED
    BY <2>1, <1>2 DEF Restored, CatOk, CompleteIn
<1>4. EveryCrashRestores
  BY <1>3 DEF EveryCrashRestores
<1>5. ServesTheLog
  <2>1. SUFFICES ASSUME step = "idle"
                 PROVE  /\ mem.rows = RowsOfLog /\ CompleteIn(mem)
                        /\ mem.hasCkpt => \A i \in Ids \ mem.dirty :
                             mem.rows[i] = Overlay(dir.joins.rows,
                                             IF mem.bytes = 0 THEN <<>>
                                             ELSE SubSeq(dir.delta.cells, 1, mem.bytes))[i]
    BY DEF ServesTheLog
  <2>2. StoreOk(log, compacted, mem, dir, dirs)
    BY <2>1, InvGives
  <2>3. mem.rows = RowsOfLog /\ CompleteIn(mem)
    BY <2>2, <1>1, <1>2 DEF StoreOk, MemOk, CompleteIn, Claimed
  <2>4. mem.hasCkpt => \A i \in Ids \ mem.dirty :
          Overlay(dir.joins.rows, KeptCells(mem, dir))[i] = mem.rows[i]
    BY <2>2, <1>1 DEF StoreOk, MemOk, PersistedOk
  <2> QED
    BY <2>3, <2>4 DEF KeptCells
<1> QED
  BY <1>4, <1>5 DEF FilesRestoreTheLog

(* FilesRestoreTheLog (sidecar.rs, checkpoint.rs): without the removal     *)
(* that is not synced when a store is created, an open store serves a      *)
(* replay of its log with every Action id, and whatever a failure, a kill  *)
(* or a power loss leaves of the sidecar, its delta and the checkpoints,   *)
(* at any step that writes them, an open restores the same; for every      *)
(* number of identities, commits and directories, and every compaction     *)
(* threshold.                                                              *)
THEOREM FilesRestore == ASSUME FileFaults = {} PROVE FilesSpec => []FilesRestoreTheLog
<1>1. FilesInit => FilesInv
  BY InitHolds
<1>2. FilesInv /\ [FilesNext]_filesVars => FilesInv'
  BY NextKeeps
<1>3. FilesInv => FilesRestoreTheLog
  BY InvRestores
<1> QED
  BY <1>1, <1>2, <1>3, PTL DEF FilesSpec

=============================================================================
