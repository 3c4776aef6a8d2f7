------------------------ MODULE HostSchedulerProofs -------------------------
(***************************************************************************)
(* Proofs about HostScheduler for every pool of workers, set of namespaces *)
(* and read cap: what holders of the two locks may rely on, and that the   *)
(* counters are the permits that exist.  Then about HostService, the same  *)
(* host as a server, for every pool and any clients: what the counters and *)
(* the labels tell of the connections.                                     *)
(***************************************************************************)
EXTENDS HostScheduler, HostService, FiniteSetTheorems, TLAPS

(* The control state of the workers.                                       *)
Control ==
  /\ pc \in [Workers -> PCs]
  /\ stale \in [Workers -> BOOLEAN]

(* The writer mutex is held exactly by the worker whose code holds it.     *)
MutexHeld == \A w \in Workers : pc[w] \in MutexAt <=> mutex = w

(* So are the guards of the reader/writer lock, and they exclude others.   *)
GuardsHeld ==
  /\ \A w \in Workers : pc[w] \in SharedAt <=> w \in readers
  /\ \A w \in Workers : pc[w] \in ExclusiveAt => excl = w
  /\ readers \subseteq Workers
  /\ excl # NoOne => readers = {} /\ pc[excl] \in ExclusiveAt /\ excl \in Workers

(* A poisoned writer mutex is never held again, and the store lock is not  *)
(* poisoned without it.                                                    *)
PoisonIsFinal ==
  /\ "store" \in poison => "writer" \in poison
  /\ "writer" \in poison => mutex = NoOne

HostInv ==
  /\ Control /\ MutexHeld /\ GuardsHeld /\ PoisonIsFinal
  /\ SnapshotsHold /\ AheadIsOwned /\ SplitExcludesPending

-----------------------------------------------------------------------------
(* One lemma per step of a worker: it keeps the invariant.                 *)

LEMMA ArriveReadStep ==
  ASSUME HostInv, NEW w \in Workers, NEW n \in Namespaces, ArriveRead(w, n)
  PROVE  HostInv'
<1> USE DEF HostInv, ArriveRead, Arrive, Goto, schedVars, lockVars, storeVars
<1>1. Control'
  BY PoolAssumption, SMT DEF Control, PCs, ReadPermitAt, WritePermitAt,
         WaiterAt, MutexAt, SplitAt
<1>2. MutexHeld'
  BY PoolAssumption, SMT DEF MutexHeld, Control, MutexAt, SplitAt
<1>3. GuardsHeld'
  BY PoolAssumption, SMT DEF GuardsHeld, Control, SharedAt, ExclusiveAt
<1>4. PoisonIsFinal'
  BY PoolAssumption, SMT DEF PoisonIsFinal
<1>5. SnapshotsHold'
  BY PoolAssumption, SMT DEF SnapshotsHold, Control, SplitAt
<1>6. AheadIsOwned'
  BY PoolAssumption, SMT DEF AheadIsOwned, Owned, Control
<1>7. SplitExcludesPending'
  BY PoolAssumption, SMT DEF SplitExcludesPending, Control
<1>8. QED BY <1>1, <1>2, <1>3, <1>4, <1>5, <1>6, <1>7

LEMMA ArriveWriteStep ==
  ASSUME HostInv, NEW w \in Workers, ArriveWrite(w)
  PROVE  HostInv'
<1> USE DEF HostInv, ArriveWrite, Arrive, Goto, schedVars, lockVars, storeVars
<1>1. Control'
  BY PoolAssumption, SMT DEF Control, PCs, ReadPermitAt, WritePermitAt,
         WaiterAt, MutexAt, SplitAt
<1>2. MutexHeld'
  BY PoolAssumption, SMT DEF MutexHeld, Control, MutexAt, SplitAt
<1>3. GuardsHeld'
  BY PoolAssumption, SMT DEF GuardsHeld, Control, SharedAt, ExclusiveAt
<1>4. PoisonIsFinal'
  BY PoolAssumption, SMT DEF PoisonIsFinal
<1>5. SnapshotsHold'
  BY PoolAssumption, SMT DEF SnapshotsHold, Control, SplitAt
<1>6. AheadIsOwned'
  BY PoolAssumption, SMT DEF AheadIsOwned, Owned, Control
<1>7. SplitExcludesPending'
  BY PoolAssumption, SMT DEF SplitExcludesPending, Control
<1>8. QED BY <1>1, <1>2, <1>3, <1>4, <1>5, <1>6, <1>7

LEMMA ArriveBatchStep ==
  ASSUME HostInv, NEW w \in Workers, ArriveBatch(w)
  PROVE  HostInv'
<1> USE DEF HostInv, ArriveBatch, Arrive, Goto, schedVars, lockVars, storeVars
<1>1. Control'
  BY PoolAssumption, SMT DEF Control, PCs, ReadPermitAt, WritePermitAt,
         WaiterAt, MutexAt, SplitAt
<1>2. MutexHeld'
  BY PoolAssumption, SMT DEF MutexHeld, Control, MutexAt, SplitAt
<1>3. GuardsHeld'
  BY PoolAssumption, SMT DEF GuardsHeld, Control, SharedAt, ExclusiveAt
<1>4. PoisonIsFinal'
  BY PoolAssumption, SMT DEF PoisonIsFinal
<1>5. SnapshotsHold'
  BY PoolAssumption, SMT DEF SnapshotsHold, Control, SplitAt
<1>6. AheadIsOwned'
  BY PoolAssumption, SMT DEF AheadIsOwned, Owned, Control
<1>7. SplitExcludesPending'
  BY PoolAssumption, SMT DEF SplitExcludesPending, Control
<1>8. QED BY <1>1, <1>2, <1>3, <1>4, <1>5, <1>6, <1>7

LEMMA AcquireReadStep ==
  ASSUME HostInv, NEW w \in Workers, AcquireRead(w)
  PROVE  HostInv'
<1> USE DEF HostInv, AcquireRead, Goto, schedVars, lockVars, storeVars
<1>1. Control'
  BY PoolAssumption, SMT DEF Control, PCs, ReadPermitAt, WritePermitAt,
         WaiterAt, MutexAt, SplitAt
<1>2. MutexHeld'
  BY PoolAssumption, SMT DEF MutexHeld, Control, MutexAt, SplitAt
<1>3. GuardsHeld'
  BY PoolAssumption, SMT DEF GuardsHeld, Control, SharedAt, ExclusiveAt
<1>4. PoisonIsFinal'
  BY PoolAssumption, SMT DEF PoisonIsFinal
<1>5. SnapshotsHold'
  BY PoolAssumption, SMT DEF SnapshotsHold, Control, SplitAt
<1>6. AheadIsOwned'
  BY PoolAssumption, SMT DEF AheadIsOwned, Owned, Control
<1>7. SplitExcludesPending'
  BY PoolAssumption, SMT DEF SplitExcludesPending, Control
<1>8. QED BY <1>1, <1>2, <1>3, <1>4, <1>5, <1>6, <1>7

LEMMA AcquireWriteStep ==
  ASSUME HostInv, NEW w \in Workers, AcquireWrite(w)
  PROVE  HostInv'
<1> USE DEF HostInv, AcquireWrite, Goto, schedVars, lockVars, storeVars
<1>1. Control'
  BY PoolAssumption, SMT DEF Control, PCs, ReadPermitAt, WritePermitAt,
         WaiterAt, MutexAt, SplitAt
<1>2. MutexHeld'
  BY PoolAssumption, SMT DEF MutexHeld, Control, MutexAt, SplitAt
<1>3. GuardsHeld'
  BY PoolAssumption, SMT DEF GuardsHeld, Control, SharedAt, ExclusiveAt
<1>4. PoisonIsFinal'
  BY PoolAssumption, SMT DEF PoisonIsFinal
<1>5. SnapshotsHold'
  BY PoolAssumption, SMT DEF SnapshotsHold, Control, SplitAt
<1>6. AheadIsOwned'
  BY PoolAssumption, SMT DEF AheadIsOwned, Owned, Control
<1>7. SplitExcludesPending'
  BY PoolAssumption, SMT DEF SplitExcludesPending, Control
<1>8. QED BY <1>1, <1>2, <1>3, <1>4, <1>5, <1>6, <1>7

LEMMA SpuriousWakeupStep ==
  ASSUME HostInv, NEW w \in Workers, SpuriousWakeup(w)
  PROVE  HostInv'
<1> USE DEF HostInv, SpuriousWakeup, Woken, Goto, schedVars, lockVars,
            storeVars
<1>1. Control'
  BY PoolAssumption, SMT DEF Control, PCs, ReadPermitAt, WritePermitAt,
         WaiterAt, MutexAt, SplitAt
<1>2. MutexHeld'
  BY PoolAssumption, SMT DEF MutexHeld, Control, MutexAt, SplitAt
<1>3. GuardsHeld'
  BY PoolAssumption, SMT DEF GuardsHeld, Control, SharedAt, ExclusiveAt
<1>4. PoisonIsFinal'
  BY PoolAssumption, SMT DEF PoisonIsFinal
<1>5. SnapshotsHold'
  BY PoolAssumption, SMT DEF SnapshotsHold, Control, SplitAt
<1>6. AheadIsOwned'
  BY PoolAssumption, SMT DEF AheadIsOwned, Owned, Control
<1>7. SplitExcludesPending'
  BY PoolAssumption, SMT DEF SplitExcludesPending, Control
<1>8. QED BY <1>1, <1>2, <1>3, <1>4, <1>5, <1>6, <1>7

LEMMA DropReadPermitStep ==
  ASSUME HostInv, NEW w \in Workers, DropReadPermit(w)
  PROVE  HostInv'
<1> USE DEF HostInv, DropReadPermit, NotifyAll, Woken, schedVars, lockVars,
            storeVars
<1>1. Control'
  BY PoolAssumption, SMT DEF Control, PCs, ReadPermitAt, WritePermitAt,
         WaiterAt, MutexAt, SplitAt
<1>2. MutexHeld'
  BY PoolAssumption, SMT DEF MutexHeld, Control, MutexAt, SplitAt
<1>3. GuardsHeld'
  BY PoolAssumption, SMT DEF GuardsHeld, Control, SharedAt, ExclusiveAt
<1>4. PoisonIsFinal'
  BY PoolAssumption, SMT DEF PoisonIsFinal
<1>5. SnapshotsHold'
  BY PoolAssumption, SMT DEF SnapshotsHold, Control, SplitAt
<1>6. AheadIsOwned'
  BY PoolAssumption, SMT DEF AheadIsOwned, Owned, Control
<1>7. SplitExcludesPending'
  BY PoolAssumption, SMT DEF SplitExcludesPending, Control
<1>8. QED BY <1>1, <1>2, <1>3, <1>4, <1>5, <1>6, <1>7

LEMMA DropWritePermitStep ==
  ASSUME HostInv, NEW w \in Workers, DropWritePermit(w)
  PROVE  HostInv'
<1> USE DEF HostInv, DropWritePermit, NotifyAll, Woken, schedVars, lockVars,
            storeVars
<1>1. Control'
  BY PoolAssumption, SMT DEF Control, PCs, ReadPermitAt, WritePermitAt,
         WaiterAt, MutexAt, SplitAt
<1>2. MutexHeld'
  BY PoolAssumption, SMT DEF MutexHeld, Control, MutexAt, SplitAt
<1>3. GuardsHeld'
  BY PoolAssumption, SMT DEF GuardsHeld, Control, SharedAt, ExclusiveAt
<1>4. PoisonIsFinal'
  BY PoolAssumption, SMT DEF PoisonIsFinal
<1>5. SnapshotsHold'
  BY PoolAssumption, SMT DEF SnapshotsHold, Control, SplitAt
<1>6. AheadIsOwned'
  BY PoolAssumption, SMT DEF AheadIsOwned, Owned, Control
<1>7. SplitExcludesPending'
  BY PoolAssumption, SMT DEF SplitExcludesPending, Control
<1>8. QED BY <1>1, <1>2, <1>3, <1>4, <1>5, <1>6, <1>7

LEMMA LockForReadStep ==
  ASSUME HostInv, NEW w \in Workers, LockForRead(w)
  PROVE  HostInv'
<1> USE DEF HostInv, LockForRead, ReadGuardFree, Goto, schedVars, lockVars,
            storeVars
<1>1. Control'
  <2>1. stale' \in [Workers -> BOOLEAN]
    BY Zenon DEF Control
  <2>2. pc' \in [Workers -> PCs]
    BY DEF Control, PCs, ReadPermitAt, WritePermitAt, WaiterAt, MutexAt, SplitAt
  <2>3. QED BY <2>1, <2>2 DEF Control
<1>2. MutexHeld'
  BY PoolAssumption, SMT DEF MutexHeld, Control, MutexAt, SplitAt
<1>3. GuardsHeld'
  BY PoolAssumption, SMT DEF GuardsHeld, Control, SharedAt, ExclusiveAt
<1>4. PoisonIsFinal'
  BY PoolAssumption, SMT DEF PoisonIsFinal
<1>5. SnapshotsHold'
  BY PoolAssumption, SMT DEF SnapshotsHold, Control, SplitAt
<1>6. AheadIsOwned'
  BY PoolAssumption, SMT DEF AheadIsOwned, Owned, Control
<1>7. SplitExcludesPending'
  BY PoolAssumption, SMT DEF SplitExcludesPending, Control
<1>8. QED BY <1>1, <1>2, <1>3, <1>4, <1>5, <1>6, <1>7

LEMMA FinishReadStep ==
  ASSUME HostInv, NEW w \in Workers, FinishRead(w)
  PROVE  HostInv'
<1> USE DEF HostInv, FinishRead, Goto, schedVars, lockVars, storeVars
<1>1. Control'
  BY PoolAssumption, SMT DEF Control, PCs, ReadPermitAt, WritePermitAt,
         WaiterAt, MutexAt, SplitAt
<1>2. MutexHeld'
  BY PoolAssumption, SMT DEF MutexHeld, Control, MutexAt, SplitAt
<1>3. GuardsHeld'
  BY PoolAssumption, SMT DEF GuardsHeld, Control, SharedAt, ExclusiveAt
<1>4. PoisonIsFinal'
  BY PoolAssumption, SMT DEF PoisonIsFinal
<1>5. SnapshotsHold'
  BY PoolAssumption, SMT DEF SnapshotsHold, Control, SplitAt
<1>6. AheadIsOwned'
  BY PoolAssumption, SMT DEF AheadIsOwned, Owned, Control
<1>7. SplitExcludesPending'
  BY PoolAssumption, SMT DEF SplitExcludesPending, Control
<1>8. QED BY <1>1, <1>2, <1>3, <1>4, <1>5, <1>6, <1>7

LEMMA LockWriterStep ==
  ASSUME HostInv, NEW w \in Workers, LockWriter(w)
  PROVE  HostInv'
<1> USE DEF HostInv, LockWriter, Goto, schedVars, lockVars, storeVars
<1>1. Control'
  BY PoolAssumption, SMT DEF Control, PCs, ReadPermitAt, WritePermitAt,
         WaiterAt, MutexAt, SplitAt
<1>2. MutexHeld'
  BY PoolAssumption, SMT DEF MutexHeld, Control, MutexAt, SplitAt
<1>3. GuardsHeld'
  BY PoolAssumption, SMT DEF GuardsHeld, Control, SharedAt, ExclusiveAt
<1>4. PoisonIsFinal'
  BY PoolAssumption, SMT DEF PoisonIsFinal
<1>5. SnapshotsHold'
  BY PoolAssumption, SMT DEF SnapshotsHold, Control, SplitAt
<1>6. AheadIsOwned'
  BY PoolAssumption, SMT DEF AheadIsOwned, Owned, Control
<1>7. SplitExcludesPending'
  BY PoolAssumption, SMT DEF SplitExcludesPending, Control
<1>8. QED BY <1>1, <1>2, <1>3, <1>4, <1>5, <1>6, <1>7

LEMMA LockStoreStep ==
  ASSUME HostInv, NEW w \in Workers, LockStore(w)
  PROVE  HostInv'
<1> USE DEF HostInv, LockStore, WantsExclusive, Goto, schedVars, lockVars,
            storeVars
<1>1. Control'
  BY PoolAssumption, SMT DEF Control, PCs, ReadPermitAt, WritePermitAt,
         WaiterAt, MutexAt, SplitAt
<1>2. MutexHeld'
  BY PoolAssumption, SMT DEF MutexHeld, Control, MutexAt, SplitAt
<1>3. GuardsHeld'
  BY PoolAssumption, SMT DEF GuardsHeld, Control, SharedAt, ExclusiveAt
<1>4. PoisonIsFinal'
  BY PoolAssumption, SMT DEF PoisonIsFinal
<1>5. SnapshotsHold'
  BY PoolAssumption, SMT DEF SnapshotsHold, Control, SplitAt
<1>6. AheadIsOwned'
  BY PoolAssumption, SMT DEF AheadIsOwned, Owned, Control, MutexHeld, GuardsHeld,
         PoisonIsFinal, MutexAt, SplitAt, SharedAt, ExclusiveAt
<1>7. SplitExcludesPending'
  BY PoolAssumption, SMT DEF SplitExcludesPending, Control
<1>8. QED BY <1>1, <1>2, <1>3, <1>4, <1>5, <1>6, <1>7

LEMMA WriteStep ==
  ASSUME HostInv, NEW w \in Workers, Write(w)
  PROVE  HostInv'
<1> USE DEF HostInv, Write, Changed, Unlock, Goto, schedVars, lockVars,
            storeVars
<1>1. Control'
  <2>1. stale' \in [Workers -> BOOLEAN]
    BY DEF Control
  <2>2. pc' \in [Workers -> PCs]
    BY DEF Control, PCs, ReadPermitAt, WritePermitAt, WaiterAt, MutexAt, SplitAt
  <2>3. QED BY <2>1, <2>2 DEF Control
<1>2. MutexHeld'
  BY PoolAssumption, SMT DEF MutexHeld, Control, MutexAt, SplitAt
<1>3. GuardsHeld'
  BY PoolAssumption, SMT DEF GuardsHeld, Control, SharedAt, ExclusiveAt
<1>4. PoisonIsFinal'
  BY PoolAssumption, SMT DEF PoisonIsFinal
<1>5. SnapshotsHold'
  BY PoolAssumption, SMT DEF SnapshotsHold, Control, MutexHeld, GuardsHeld,
         SplitAt, MutexAt, SharedAt, ExclusiveAt
<1>6. AheadIsOwned'
  <2>1. pc[w] = "writing" /\ mutex = w
    BY PoolAssumption DEF MutexHeld, MutexAt, SplitAt
  <2>2. \A v \in Workers : pc[v] \notin {"logging", "batch_store", "applying"}
    BY <2>1 DEF MutexHeld, MutexAt, SplitAt
  <2>3. \A v \in Workers : pc'[v] \notin {"logging", "batch_store", "applying"}
    BY <2>2 DEF Control
  <2>4. ahead => "writer" \in poison \/ failed
    BY <2>2, Zenon DEF AheadIsOwned, Owned
  <2>5. failed => failed'
    BY Zenon
  <2>6. ahead' = ahead /\ poison' = poison
    BY Zenon
  <2> HIDE DEF HostInv, Write
  <2>7. ahead' => "writer" \in poison' \/ failed'
    BY <2>4, <2>5, <2>6, Zenon
  <2>8. QED BY <2>3, <2>7 DEF AheadIsOwned
<1>7. SplitExcludesPending'
  BY PoolAssumption, SMT DEF SplitExcludesPending, Control, MutexHeld,
         MutexAt, SplitAt
<1>8. QED BY <1>1, <1>2, <1>3, <1>4, <1>5, <1>6, <1>7

LEMMA PanicExclusiveStep ==
  ASSUME HostInv, NEW w \in Workers, PanicExclusive(w)
  PROVE  HostInv'
<1> USE DEF HostInv, PanicExclusive, Changed, Unlock, Goto, schedVars,
            lockVars, storeVars
<1>1. Control'
  <2>1. stale' \in [Workers -> BOOLEAN]
    BY DEF Control
  <2>2. pc' \in [Workers -> PCs]
    BY DEF Control, PCs, ReadPermitAt, WritePermitAt, WaiterAt, MutexAt, SplitAt
  <2>3. QED BY <2>1, <2>2 DEF Control
<1>2. MutexHeld'
  BY PoolAssumption, SMT DEF MutexHeld, Control, MutexAt, SplitAt
<1>3. GuardsHeld'
  BY PoolAssumption, SMT DEF GuardsHeld, Control, SharedAt, ExclusiveAt
<1>4. PoisonIsFinal'
  BY PoolAssumption, SMT DEF PoisonIsFinal
<1>5. SnapshotsHold'
  BY PoolAssumption, SMT DEF SnapshotsHold, Control, MutexHeld, GuardsHeld,
         SplitAt, MutexAt, SharedAt, ExclusiveAt
<1>6. AheadIsOwned'
  BY PoolAssumption, SMT DEF AheadIsOwned, Owned, Control
<1>7. SplitExcludesPending'
  BY PoolAssumption, SMT DEF SplitExcludesPending, Control, MutexHeld,
         MutexAt, SplitAt
<1>8. QED BY <1>1, <1>2, <1>3, <1>4, <1>5, <1>6, <1>7

LEMMA LockBatchReadStep ==
  ASSUME HostInv, NEW w \in Workers, LockBatchRead(w)
  PROVE  HostInv'
<1> USE DEF HostInv, LockBatchRead, ReadGuardFree, Goto, schedVars, lockVars,
            storeVars
<1>1. Control'
  <2>1. stale' \in [Workers -> BOOLEAN]
    BY Zenon DEF Control
  <2>2. pc' \in [Workers -> PCs]
    BY DEF Control, PCs, ReadPermitAt, WritePermitAt, WaiterAt, MutexAt, SplitAt
  <2>3. QED BY <2>1, <2>2 DEF Control
<1>2. MutexHeld'
  BY PoolAssumption, SMT DEF MutexHeld, Control, MutexAt, SplitAt
<1>3. GuardsHeld'
  BY PoolAssumption, SMT DEF GuardsHeld, Control, SharedAt, ExclusiveAt
<1>4. PoisonIsFinal'
  BY PoolAssumption, SMT DEF PoisonIsFinal
<1>5. SnapshotsHold'
  BY PoolAssumption, SMT DEF SnapshotsHold, Control, SplitAt
<1>6. AheadIsOwned'
  BY PoolAssumption, SMT DEF AheadIsOwned, Owned, Control, MutexHeld, MutexAt,
         SplitAt
<1>7. SplitExcludesPending'
  BY PoolAssumption, SMT DEF SplitExcludesPending, Control
<1>8. QED BY <1>1, <1>2, <1>3, <1>4, <1>5, <1>6, <1>7

LEMMA AdmitStep ==
  ASSUME HostInv, NEW w \in Workers, Admit(w)
  PROVE  HostInv'
<1> USE DEF HostInv, Admit, Goto, schedVars, lockVars, storeVars
<1>1. Control'
  BY PoolAssumption, SMT DEF Control, PCs, ReadPermitAt, WritePermitAt,
         WaiterAt, MutexAt, SplitAt
<1>2. MutexHeld'
  BY PoolAssumption, SMT DEF MutexHeld, Control, MutexAt, SplitAt
<1>3. GuardsHeld'
  BY PoolAssumption, SMT DEF GuardsHeld, Control, SharedAt, ExclusiveAt
<1>4. PoisonIsFinal'
  BY PoolAssumption, SMT DEF PoisonIsFinal
<1>5. SnapshotsHold'
  BY PoolAssumption, SMT DEF SnapshotsHold, Control, SplitAt
<1>6. AheadIsOwned'
  BY PoolAssumption, SMT DEF AheadIsOwned, Owned, Control, MutexHeld, MutexAt,
         SplitAt
<1>7. SplitExcludesPending'
  BY PoolAssumption, SMT DEF SplitExcludesPending, Control
<1>8. QED BY <1>1, <1>2, <1>3, <1>4, <1>5, <1>6, <1>7

LEMMA WriteStagedStep ==
  ASSUME HostInv, NEW w \in Workers, WriteStaged(w)
  PROVE  HostInv'
<1> USE DEF HostInv
<1>a. /\ pc[w] = "logging" /\ readers' = readers \ {w}
      /\ excl' = excl /\ poison' = poison /\ pending' = pending /\ stale' = stale
  BY DEF WriteStaged, schedVars
<1>b. \/ pc' = [pc EXCEPT ![w] = "batch_store"] /\ mutex' = mutex
      \/ pc' = [pc EXCEPT ![w] = "idle"] /\ mutex' = NoOne
  BY Zenon DEF WriteStaged, Goto
<1>1. Control'
  BY <1>a, <1>b DEF Control, PCs, ReadPermitAt, WritePermitAt,
     WaiterAt, MutexAt, SplitAt
<1>2. MutexHeld'
  BY <1>a, <1>b, PoolAssumption, SMT DEF MutexHeld, Control, MutexAt, SplitAt
<1>3. GuardsHeld'
  BY <1>a, <1>b, PoolAssumption, SMT DEF GuardsHeld, Control, SharedAt, ExclusiveAt
<1>4. PoisonIsFinal'
  BY <1>a, <1>b, PoolAssumption, SMT DEF PoisonIsFinal
<1>5. SnapshotsHold'
  BY <1>a, <1>b, PoolAssumption, SMT DEF SnapshotsHold, Control, SplitAt
<1>6. AheadIsOwned'
  <2>1. mutex = w /\ "writer" \notin poison
    BY <1>a, PoolAssumption DEF MutexHeld, MutexAt, SplitAt, PoisonIsFinal
  <2>2. ~failed /\ ~ahead
    <3>1. ~failed
      BY <1>a DEF AheadIsOwned
    <3>2. ~Owned
      BY <1>a, <2>1 DEF Owned
    <3>3. QED BY <3>1, <3>2, <2>1, Zenon DEF AheadIsOwned
  <2>3. \A v \in Workers : v # w => pc'[v] = pc[v] /\ pc[v] \notin MutexAt
    BY <1>b, <2>1 DEF MutexHeld, Control
  <2>4. CASE ahead' = TRUE /\ pc' = [pc EXCEPT ![w] = "batch_store"] /\ UNCHANGED <<mutex, failed>>
    <3>1. pc'[w] = "batch_store" /\ mutex' = w
      BY <2>1, <2>4 DEF Control
    <3>2. ~failed'
      BY <2>2, <2>4, Zenon
    <3>3. QED BY <3>1, <3>2 DEF AheadIsOwned, Owned
  <2>5. CASE /\ pc' = [pc EXCEPT ![w] = "idle"]
             /\ UNCHANGED <<ahead, failed>> \/ failed' = TRUE
    <3>1. pc'[w] = "idle"
      BY <2>5 DEF Control
    <3>2. ahead' => failed'
      BY <2>2, <2>5, Zenon
    <3>3. \A v \in Workers : pc'[v] \notin {"logging", "batch_store", "applying"}
      BY <2>3, <3>1 DEF MutexAt, SplitAt
    <3>4. QED BY <3>2, <3>3 DEF AheadIsOwned, Owned
  <2>6. QED BY <2>4, <2>5, Zenon DEF WriteStaged, Goto
<1>7. SplitExcludesPending'
  BY <1>a, <1>b, PoolAssumption, SMT DEF SplitExcludesPending, Control
<1>8. QED BY <1>1, <1>2, <1>3, <1>4, <1>5, <1>6, <1>7

LEMMA PanicSharedStep ==
  ASSUME HostInv, NEW w \in Workers, PanicShared(w)
  PROVE  HostInv'
<1> USE DEF HostInv, PanicShared, Goto, schedVars, lockVars, storeVars
<1>1. Control'
  BY PoolAssumption, SMT DEF Control, PCs, ReadPermitAt, WritePermitAt,
         WaiterAt, MutexAt, SplitAt
<1>2. MutexHeld'
  BY PoolAssumption, SMT DEF MutexHeld, Control, MutexAt, SplitAt
<1>3. GuardsHeld'
  BY PoolAssumption, SMT DEF GuardsHeld, Control, SharedAt, ExclusiveAt
<1>4. PoisonIsFinal'
  BY PoolAssumption, SMT DEF PoisonIsFinal
<1>5. SnapshotsHold'
  BY PoolAssumption, SMT DEF SnapshotsHold, Control, SplitAt
<1>6. AheadIsOwned'
  BY PoolAssumption, SMT DEF AheadIsOwned, Owned, Control
<1>7. SplitExcludesPending'
  BY PoolAssumption, SMT DEF SplitExcludesPending, Control
<1>8. QED BY <1>1, <1>2, <1>3, <1>4, <1>5, <1>6, <1>7

LEMMA ApplyStep ==
  ASSUME HostInv, NEW w \in Workers, Apply(w)
  PROVE  HostInv'
<1> USE DEF HostInv, Apply, Changed, Unlock, Goto, schedVars, lockVars,
            storeVars
<1>1. Control'
  <2>1. stale' \in [Workers -> BOOLEAN]
    BY DEF Control
  <2>2. pc' \in [Workers -> PCs]
    BY DEF Control, PCs, ReadPermitAt, WritePermitAt, WaiterAt, MutexAt, SplitAt
  <2>3. QED BY <2>1, <2>2 DEF Control
<1>2. MutexHeld'
  BY PoolAssumption, SMT DEF MutexHeld, Control, MutexAt, SplitAt
<1>3. GuardsHeld'
  BY PoolAssumption, SMT DEF GuardsHeld, Control, SharedAt, ExclusiveAt
<1>4. PoisonIsFinal'
  BY PoolAssumption, SMT DEF PoisonIsFinal
<1>5. SnapshotsHold'
  BY PoolAssumption, SMT DEF SnapshotsHold, Control, MutexHeld, GuardsHeld,
         SplitAt, MutexAt, SharedAt, ExclusiveAt
<1>6. AheadIsOwned'
  BY PoolAssumption, SMT DEF AheadIsOwned, Owned, Control
<1>7. SplitExcludesPending'
  BY PoolAssumption, SMT DEF SplitExcludesPending, Control
<1>8. QED BY <1>1, <1>2, <1>3, <1>4, <1>5, <1>6, <1>7

LEMMA LockForDeltaStep ==
  ASSUME HostInv, NEW w \in Workers, LockForDelta(w)
  PROVE  HostInv'
<1> USE DEF HostInv, LockForDelta, ReadGuardFree, Goto, schedVars, lockVars,
            storeVars
<1>1. Control'
  <2>1. stale' \in [Workers -> BOOLEAN]
    BY Zenon DEF Control
  <2>2. pc' \in [Workers -> PCs]
    BY DEF Control, PCs, ReadPermitAt, WritePermitAt, WaiterAt, MutexAt, SplitAt
  <2>3. QED BY <2>1, <2>2 DEF Control
<1>2. MutexHeld'
  BY PoolAssumption, SMT DEF MutexHeld, Control, MutexAt, SplitAt
<1>3. GuardsHeld'
  BY PoolAssumption, SMT DEF GuardsHeld, Control, SharedAt, ExclusiveAt
<1>4. PoisonIsFinal'
  BY PoolAssumption, SMT DEF PoisonIsFinal
<1>5. SnapshotsHold'
  BY PoolAssumption, SMT DEF SnapshotsHold, Control, SplitAt
<1>6. AheadIsOwned'
  BY PoolAssumption, SMT DEF AheadIsOwned, Owned, Control, MutexHeld, MutexAt,
         SplitAt
<1>7. SplitExcludesPending'
  BY PoolAssumption, SMT DEF SplitExcludesPending, Control
<1>8. QED BY <1>1, <1>2, <1>3, <1>4, <1>5, <1>6, <1>7

LEMMA WriteDeltaStep ==
  ASSUME HostInv, NEW w \in Workers, WriteDelta(w)
  PROVE  HostInv'
<1> USE DEF HostInv, WriteDelta, Goto, schedVars, lockVars, storeVars
<1>1. Control'
  BY PoolAssumption, SMT DEF Control, PCs, ReadPermitAt, WritePermitAt,
         WaiterAt, MutexAt, SplitAt
<1>2. MutexHeld'
  BY PoolAssumption, SMT DEF MutexHeld, Control, MutexAt, SplitAt
<1>3. GuardsHeld'
  BY PoolAssumption, SMT DEF GuardsHeld, Control, SharedAt, ExclusiveAt
<1>4. PoisonIsFinal'
  BY PoolAssumption, SMT DEF PoisonIsFinal
<1>5. SnapshotsHold'
  BY PoolAssumption, SMT DEF SnapshotsHold, Control, SplitAt
<1>6. AheadIsOwned'
  BY PoolAssumption, SMT DEF AheadIsOwned, Owned, Control, MutexHeld, MutexAt,
         SplitAt
<1>7. SplitExcludesPending'
  BY PoolAssumption, SMT DEF SplitExcludesPending, Control
<1>8. QED BY <1>1, <1>2, <1>3, <1>4, <1>5, <1>6, <1>7

LEMMA AdoptDeltaStep ==
  ASSUME HostInv, NEW w \in Workers, AdoptDelta(w)
  PROVE  HostInv'
<1> USE DEF HostInv, AdoptDelta, Unlock, Goto, schedVars, lockVars, storeVars
<1>1. Control'
  BY PoolAssumption, SMT DEF Control, PCs, ReadPermitAt, WritePermitAt,
         WaiterAt, MutexAt, SplitAt
<1>2. MutexHeld'
  BY PoolAssumption, SMT DEF MutexHeld, Control, MutexAt, SplitAt
<1>3. GuardsHeld'
  BY PoolAssumption, SMT DEF GuardsHeld, Control, SharedAt, ExclusiveAt
<1>4. PoisonIsFinal'
  BY PoolAssumption, SMT DEF PoisonIsFinal
<1>5. SnapshotsHold'
  BY PoolAssumption, SMT DEF SnapshotsHold, Control, SplitAt
<1>6. AheadIsOwned'
  BY PoolAssumption, SMT DEF AheadIsOwned, Owned, Control, MutexHeld, MutexAt,
         SplitAt
<1>7. SplitExcludesPending'
  BY PoolAssumption, SMT DEF SplitExcludesPending, Control
<1>8. QED BY <1>1, <1>2, <1>3, <1>4, <1>5, <1>6, <1>7
-----------------------------------------------------------------------------
(* The initial states satisfy the invariant.                               *)
LEMMA InitHostInv == Init => HostInv
<1> SUFFICES ASSUME Init PROVE HostInv
  OBVIOUS
<1>1. Control
  <2>1. stale \in [Workers -> BOOLEAN]
    BY Zenon DEF Init
  <2>2. pc \in [Workers -> PCs]
    BY DEF Init, PCs
  <2>3. QED BY <2>1, <2>2 DEF Control
<1>2. MutexHeld /\ GuardsHeld /\ PoisonIsFinal
  BY PoolAssumption
  DEF Init, MutexHeld, GuardsHeld, PoisonIsFinal, MutexAt, SplitAt, SharedAt,
      ExclusiveAt
<1>3. SnapshotsHold /\ AheadIsOwned /\ SplitExcludesPending
  BY DEF Init, SnapshotsHold, AheadIsOwned, SplitExcludesPending, SplitAt
<1>4. QED BY <1>1, <1>2, <1>3 DEF HostInv

(* Every step keeps the invariant.                                         *)
LEMMA NextHostInv ==
  ASSUME HostInv, [Next]_vars
  PROVE  HostInv'
<1>1. ASSUME NEW w \in Workers, NEW n \in Namespaces, ArriveRead(w, n)
      PROVE  HostInv'
  BY <1>1, ArriveReadStep
<1>2. ASSUME NEW w \in Workers, Step(w)
      PROVE  HostInv'
  <2>1. CASE AcquireRead(w) BY <2>1, AcquireReadStep
  <2>2. CASE AcquireWrite(w) BY <2>2, AcquireWriteStep
  <2>3. CASE DropReadPermit(w) BY <2>3, DropReadPermitStep
  <2>4. CASE DropWritePermit(w) BY <2>4, DropWritePermitStep
  <2>5. CASE LockForRead(w) BY <2>5, LockForReadStep
  <2>6. CASE FinishRead(w) BY <2>6, FinishReadStep
  <2>7. CASE LockWriter(w) BY <2>7, LockWriterStep
  <2>8. CASE LockStore(w) BY <2>8, LockStoreStep
  <2>9. CASE Write(w) BY <2>9, WriteStep
  <2>10. CASE PanicExclusive(w) BY <2>10, PanicExclusiveStep
  <2>11. CASE LockBatchRead(w) BY <2>11, LockBatchReadStep
  <2>12. CASE Admit(w) BY <2>12, AdmitStep
  <2>13. CASE WriteStaged(w) BY <2>13, WriteStagedStep
  <2>14. CASE PanicShared(w) BY <2>14, PanicSharedStep
  <2>15. CASE Apply(w) BY <2>15, ApplyStep
  <2>16. CASE LockForDelta(w) BY <2>16, LockForDeltaStep
  <2>17. CASE WriteDelta(w) BY <2>17, WriteDeltaStep
  <2>18. CASE AdoptDelta(w) BY <2>18, AdoptDeltaStep
  <2>19. QED
    BY <1>2, <2>1, <2>2, <2>3, <2>4, <2>5, <2>6, <2>7, <2>8, <2>9, <2>10,
       <2>11, <2>12, <2>13, <2>14, <2>15, <2>16, <2>17, <2>18
    DEF Step
<1>3. ASSUME NEW w \in Workers, ArriveWrite(w) \/ ArriveBatch(w) \/ SpuriousWakeup(w)
      PROVE  HostInv'
  BY <1>3, ArriveWriteStep, ArriveBatchStep, SpuriousWakeupStep
<1>4. CASE UNCHANGED vars
  BY <1>4
  DEF HostInv, Control, MutexHeld, GuardsHeld, PoisonIsFinal, SnapshotsHold,
      AheadIsOwned, Owned, SplitExcludesPending, vars, schedVars, lockVars, storeVars
<1>5. QED BY <1>1, <1>2, <1>3, <1>4 DEF Next

-----------------------------------------------------------------------------
(* The invariant holds in every behaviour.                                 *)
THEOREM HostInvariance == Spec => []HostInv
<1>1. Init => HostInv
  BY InitHostInv
<1>2. HostInv /\ [Next]_vars => HostInv'
  BY NextHostInv
<1>3. QED BY <1>1, <1>2, PTL DEF Spec

(* No reader's snapshot changes while it holds its guard, and nothing      *)
(* changes the store between a split batch's admission and its apply,      *)
(* however writes, batches, panics and wakeups interleave (shared.rs).     *)
THEOREM SnapshotsAlwaysHold == Spec => []SnapshotsHold
<1>1. HostInv => SnapshotsHold
  BY DEF HostInv
<1>2. QED BY <1>1, HostInvariance, PTL

(* A commit that is in the log and not in the live projection belongs to   *)
(* the batch that holds the writer mutex, or a lock is poisoned or the log *)
(* has failed; and on a failed log no batch is written or applied, whether *)
(* a split batch failed it or an exclusive write (append_batch, steps 2    *)
(* and 3; write_staged).                                                   *)
THEOREM AheadAlwaysOwned == Spec => []AheadIsOwned
<1>1. HostInv => AheadIsOwned
  BY DEF HostInv
<1>2. QED BY <1>1, HostInvariance, PTL

(* A durable batch never meets a poisoned store lock, so append_batch      *)
(* never reports a committed batch it could not apply.                     *)
THEOREM DurableBatchesApply == Spec => []DurableBatchApplies
<1>1. HostInv => DurableBatchApplies
  <2> SUFFICES ASSUME HostInv, NEW w \in Workers, pc[w] = "batch_store",
                      "store" \in poison
               PROVE  FALSE
    BY DEF DurableBatchApplies
  <2>1. mutex = w
    BY DEF HostInv, MutexHeld, MutexAt, SplitAt
  <2>2. mutex = NoOne
    BY DEF HostInv, PoisonIsFinal
  <2>3. QED BY <2>1, <2>2, PoolAssumption
<1>2. QED BY <1>1, HostInvariance, PTL

(* A split commit never covers uncommitted stream pushes (stage).          *)
THEOREM SplitAlwaysExcludesPending == Spec => []SplitExcludesPending
<1>1. HostInv => SplitExcludesPending
  BY DEF HostInv
<1>2. QED BY <1>1, HostInvariance, PTL

-----------------------------------------------------------------------------
(***************************************************************************)
(* The counters of FairScheduler are the permits that exist, for every     *)
(* pool of workers, set of namespaces and read cap.  Each step of a worker *)
(* either leaves every permit where it is (PermitsStay) or is one of the   *)
(* four that take or drop one.                                             *)
(***************************************************************************)

(* A read carries its namespace from the moment it asks for a permit.      *)
ReadAt == {"read_try", "read_wait"} \union ReadPermitAt

ReadersOf(n) == {w \in At(ReadPermitAt) : ns[w] = n}

PermitInv ==
  /\ inflight \in Nat /\ byNs \in [Namespaces -> Nat]
  /\ writerWaiters \in Nat /\ writerActive \in BOOLEAN
  /\ ns \in [Workers -> Namespaces \union {NoOne}]
  /\ \A w \in Workers : pc[w] \in ReadAt => ns[w] \in Namespaces
  /\ PermitsExact

-----------------------------------------------------------------------------
(* Sets of workers are finite, and one worker more or less counts one.     *)
LEMMA WorkersFinite ==
  ASSUME NEW S, S \subseteq Workers
  PROVE  IsFiniteSet(S) /\ Cardinality(S) \in Nat
BY PoolAssumption, FS_Subset, FS_CardinalityType

LEMMA OneMore ==
  ASSUME NEW S, S \subseteq Workers, NEW w, w \notin S
  PROVE  Cardinality(S \union {w}) = Cardinality(S) + 1
BY WorkersFinite, FS_AddElement

LEMMA OneLess ==
  ASSUME NEW S, S \subseteq Workers, NEW w \in S
  PROVE  Cardinality(S \ {w}) = Cardinality(S) - 1
BY WorkersFinite, FS_RemoveElement

LEMMA SomeCounted ==
  ASSUME NEW S, S \subseteq Workers, NEW w \in S
  PROVE  Cardinality(S) # 0
BY WorkersFinite, FS_EmptySet

-----------------------------------------------------------------------------
(* The permits stay where they are when nobody enters or leaves the places *)
(* that hold one, and no read changes its namespace.                       *)
LEMMA SamePermits ==
  ASSUME PermitInv, UNCHANGED schedVars,
         At(ReadPermitAt)' = At(ReadPermitAt), At(WaiterAt)' = At(WaiterAt),
         At(WritePermitAt)' = At(WritePermitAt),
         \A v \in At(ReadPermitAt) : ns'[v] = ns[v],
         ns' \in [Workers -> Namespaces \union {NoOne}],
         \A v \in Workers : pc'[v] \in ReadAt => ns'[v] \in Namespaces
  PROVE  PermitInv'
<1>1. \A n \in Namespaces : ReadersOf(n)' = ReadersOf(n)
  BY DEF ReadersOf
<1>2. PermitsExact'
  BY <1>1 DEF PermitInv, PermitsExact, ReadersOf, schedVars
<1>3. QED BY <1>2 DEF PermitInv, schedVars

(* A worker that moves on between places of the same kind.                 *)
LEMMA PermitsStay ==
  ASSUME HostInv, PermitInv, NEW w \in Workers, NEW at \in PCs, Goto(w, at),
         UNCHANGED <<schedVars, ns>>,
         at \in ReadPermitAt <=> pc[w] \in ReadPermitAt,
         at \in WaiterAt <=> pc[w] \in WaiterAt,
         at \in WritePermitAt <=> pc[w] \in WritePermitAt,
         at \in ReadAt => pc[w] \in ReadAt
  PROVE  PermitInv'
<1>1. \A v \in Workers : pc'[v] = IF v = w THEN at ELSE pc[v]
  BY DEF HostInv, Control, Goto
<1>2. /\ At(ReadPermitAt)' = At(ReadPermitAt) /\ At(WaiterAt)' = At(WaiterAt)
      /\ At(WritePermitAt)' = At(WritePermitAt)
  BY <1>1 DEF At
<1>3. \A v \in Workers : pc'[v] \in ReadAt => ns'[v] \in Namespaces
  BY <1>1 DEF PermitInv
<1>4. QED BY <1>2, <1>3, SamePermits DEF PermitInv

(* A request arrives at a place that holds no permit.                      *)
LEMMA ArrivePermits ==
  ASSUME HostInv, PermitInv, NEW w \in Workers, NEW kind,
         NEW n \in Namespaces \union {NoOne}, NEW at, Arrive(w, kind, n, at),
         at \in {"read_try", "write_enter", "batch_mutex"},
         at = "read_try" => n \in Namespaces
  PROVE  PermitInv'
<1>1. \A v \in Workers : pc'[v] = IF v = w THEN at ELSE pc[v]
  BY DEF HostInv, Control, Arrive, Goto
<1>2. pc[w] = "idle" /\ UNCHANGED schedVars
  BY DEF Arrive
<1>3. /\ At(ReadPermitAt)' = At(ReadPermitAt) /\ At(WaiterAt)' = At(WaiterAt)
      /\ At(WritePermitAt)' = At(WritePermitAt)
  BY <1>1, <1>2 DEF At, ReadPermitAt, WaiterAt, WritePermitAt
<1>4. /\ ns' \in [Workers -> Namespaces \union {NoOne}]
      /\ \A v \in Workers : ns'[v] = IF v = w THEN n ELSE ns[v]
  BY DEF PermitInv, Arrive
<1>5. \A v \in At(ReadPermitAt) : ns'[v] = ns[v]
  BY <1>2, <1>4 DEF At, ReadPermitAt
<1>6. \A v \in Workers : pc'[v] \in ReadAt => ns'[v] \in Namespaces
  BY <1>1, <1>4 DEF PermitInv, ReadAt, ReadPermitAt
<1>7. QED BY <1>2, <1>3, <1>4, <1>5, <1>6, SamePermits

-----------------------------------------------------------------------------
(* The four steps that take or drop a permit.                              *)

LEMMA AcquireReadPermits ==
  ASSUME HostInv, PermitInv, NEW w \in Workers, AcquireRead(w)
  PROVE  PermitInv'
<1>1. PICK n \in Namespaces : n = ns[w] /\ pc[w] = "read_try"
  BY DEF AcquireRead, PermitInv, ReadAt
<1>2. CASE CanRead(n) /\ inflight' = inflight + 1
           /\ byNs' = [byNs EXCEPT ![n] = @ + 1] /\ Goto(w, "read_lock")
  <2>1. \A v \in Workers : pc'[v] = IF v = w THEN "read_lock" ELSE pc[v]
    BY <1>2 DEF HostInv, Control, Goto
  <2>2. UNCHANGED <<writerActive, writerWaiters, ns>>
    BY DEF AcquireRead
  <2>3. /\ At(ReadPermitAt)' = At(ReadPermitAt) \union {w}
        /\ At(WaiterAt)' = At(WaiterAt)
        /\ At(WritePermitAt)' = At(WritePermitAt)
        /\ w \notin At(ReadPermitAt)
    BY <1>1, <2>1 DEF At, ReadPermitAt, WaiterAt, WritePermitAt
  <2>4. ReadersOf(n)' = ReadersOf(n) \union {w} /\ w \notin ReadersOf(n)
    BY <1>1, <2>2, <2>3 DEF ReadersOf
  <2>5. \A m \in Namespaces \ {n} : ReadersOf(m)' = ReadersOf(m)
    BY <1>1, <2>2, <2>3 DEF ReadersOf
  <2>6. inflight' = Cardinality(At(ReadPermitAt)')
    BY <1>2, <2>3, OneMore DEF PermitInv, PermitsExact, At
  <2>7. ASSUME NEW m \in Namespaces
        PROVE  byNs'[m] = Cardinality(ReadersOf(m)')
    <3>1. byNs[m] = Cardinality(ReadersOf(m))
      BY DEF PermitInv, PermitsExact, ReadersOf
    <3>2. CASE m = n
      <4>1. ReadersOf(n) \subseteq Workers
        BY DEF ReadersOf, At
      <4>2. byNs'[n] = byNs[n] + 1
        BY <1>1, <1>2 DEF PermitInv
      <4>3. QED BY <2>4, <3>1, <3>2, <4>1, <4>2, OneMore
    <3>3. CASE m # n
      BY <1>2, <2>5, <3>1, <3>3 DEF PermitInv
    <3>4. QED BY <3>2, <3>3
  <2>8. ~writerActive
    BY <1>2 DEF CanRead
  <2>9. PermitsExact'
    BY <2>2, <2>3, <2>6, <2>7, <2>8 DEF PermitInv, PermitsExact, ReadersOf
  <2>10. inflight' \in Nat /\ byNs' \in [Namespaces -> Nat]
    BY <1>1, <1>2 DEF PermitInv
  <2>11. \A v \in Workers : pc'[v] \in ReadAt => ns'[v] \in Namespaces
    BY <1>1, <2>1, <2>2 DEF PermitInv
  <2>12. QED BY <2>2, <2>9, <2>10, <2>11 DEF PermitInv
<1>3. CASE Goto(w, "read_wait") /\ UNCHANGED <<inflight, byNs>>
  <2>1. UNCHANGED <<schedVars, ns>>
    BY <1>3 DEF AcquireRead, schedVars
  <2>2. QED
    BY <1>1, <1>3, <2>1, PermitsStay
    DEF PCs, ReadAt, ReadPermitAt, WaiterAt, WritePermitAt
<1>4. QED BY <1>1, <1>2, <1>3 DEF AcquireRead

LEMMA AcquireWritePermits ==
  ASSUME HostInv, PermitInv, NEW w \in Workers, AcquireWrite(w)
  PROVE  PermitInv'
<1> DEFINE waiting == pc[w] = "write_try"
<1>1. pc[w] \in {"write_enter", "write_try"} /\ UNCHANGED <<inflight, byNs, ns>>
  BY DEF AcquireWrite
<1>2. w \in At(WaiterAt) <=> waiting
  BY <1>1 DEF At, WaiterAt
<1>3. At(WaiterAt) \subseteq Workers /\ At(WritePermitAt) \subseteq Workers
  BY DEF At
<1>4. writerWaiters \in Nat /\ writerWaiters = Cardinality(At(WaiterAt))
  BY DEF PermitInv, PermitsExact
<1>5. ASSUME NEW at \in {"write_mutex", "write_wait"}, Goto(w, at)
      PROVE  /\ \A v \in Workers : pc'[v] = IF v = w THEN at ELSE pc[v]
             /\ At(ReadPermitAt)' = At(ReadPermitAt)
             /\ \A v \in Workers : pc'[v] \in ReadAt => ns'[v] \in Namespaces
             /\ \A n \in Namespaces : ReadersOf(n)' = ReadersOf(n)
  <2>1. \A v \in Workers : pc'[v] = IF v = w THEN at ELSE pc[v]
    BY <1>5 DEF HostInv, Control, Goto
  <2>2. At(ReadPermitAt)' = At(ReadPermitAt)
    BY <1>1, <2>1 DEF At, ReadPermitAt
  <2>3. \A v \in Workers : pc'[v] \in ReadAt => ns'[v] \in Namespaces
    BY <1>1, <2>1 DEF PermitInv, ReadAt, ReadPermitAt
  <2>4. \A n \in Namespaces : ReadersOf(n)' = ReadersOf(n)
    BY <1>1, <2>2 DEF ReadersOf
  <2>5. QED BY <2>1, <2>2, <2>3, <2>4
<1>6. CASE CanWrite /\ writerActive' = TRUE /\ Goto(w, "write_mutex")
           /\ writerWaiters' = (IF pc[w] = "write_enter" THEN writerWaiters + 1
                                ELSE writerWaiters) - 1
  <2>1. At(WaiterAt)' = At(WaiterAt) \ {w}
    BY <1>5, <1>6 DEF At, WaiterAt
  <2>2. At(WritePermitAt)' = At(WritePermitAt) \union {w} /\ w \notin At(WritePermitAt)
    BY <1>1, <1>5, <1>6 DEF At, WritePermitAt
  <2>3. writerWaiters' = Cardinality(At(WaiterAt)') /\ writerWaiters' \in Nat
    <3>1. CASE waiting
      <4>1. writerWaiters' = writerWaiters - 1
        BY <1>6, <3>1
      <4>2. Cardinality(At(WaiterAt) \ {w}) = Cardinality(At(WaiterAt)) - 1
        BY <1>2, <1>3, <3>1, OneLess
      <4>3. Cardinality(At(WaiterAt) \ {w}) \in Nat
        BY <1>3, WorkersFinite
      <4>4. QED BY <1>4, <2>1, <4>1, <4>2, <4>3
    <3>2. CASE ~waiting
      <4>1. writerWaiters' = writerWaiters
        BY <1>1, <1>4, <1>6, <3>2
      <4>2. At(WaiterAt) \ {w} = At(WaiterAt)
        BY <1>2, <3>2
      <4>3. QED BY <1>4, <2>1, <4>1, <4>2
    <3>3. QED BY <3>1, <3>2
  <2>4. Cardinality(At(WritePermitAt)') = 1
    <3>1. Cardinality(At(WritePermitAt)) = 0
      BY <1>6 DEF CanWrite, PermitInv, PermitsExact
    <3>2. QED BY <1>3, <2>2, <3>1, OneMore
  <2>5. inflight = 0
    BY <1>6 DEF CanWrite
  <2>6. PermitsExact'
    BY <1>1, <1>5, <1>6, <2>3, <2>4, <2>5 DEF PermitInv, PermitsExact, ReadersOf
  <2>7. QED BY <1>1, <1>5, <1>6, <2>3, <2>6 DEF PermitInv
<1>7. CASE ~CanWrite /\ Goto(w, "write_wait") /\ UNCHANGED writerActive
           /\ writerWaiters' = IF pc[w] = "write_enter" THEN writerWaiters + 1
                               ELSE writerWaiters
  <2>1. At(WaiterAt)' = At(WaiterAt) \union {w}
    BY <1>5, <1>7 DEF At, WaiterAt
  <2>2. At(WritePermitAt)' = At(WritePermitAt)
    BY <1>1, <1>5, <1>7 DEF At, WritePermitAt
  <2>3. writerWaiters' = Cardinality(At(WaiterAt)') /\ writerWaiters' \in Nat
    <3>1. CASE waiting
      <4>1. At(WaiterAt) \union {w} = At(WaiterAt)
        BY <1>2, <3>1
      <4>2. QED BY <1>4, <1>7, <2>1, <3>1, <4>1
    <3>2. CASE ~waiting
      <4>1. Cardinality(At(WaiterAt) \union {w}) = Cardinality(At(WaiterAt)) + 1
        BY <1>2, <1>3, <3>2, OneMore
      <4>2. QED BY <1>1, <1>4, <1>7, <2>1, <3>2, <4>1
    <3>3. QED BY <3>1, <3>2
  <2>4. PermitsExact'
    BY <1>1, <1>5, <1>7, <2>2, <2>3 DEF PermitInv, PermitsExact, ReadersOf
  <2>5. QED BY <1>1, <1>5, <1>7, <2>3, <2>4 DEF PermitInv
<1>8. QED BY <1>6, <1>7 DEF AcquireWrite

(* notify_all moves the sleepers on, none of them into or out of a permit. *)
LEMMA NotifyAllMoves ==
  ASSUME HostInv, NEW w \in Workers, NotifyAll(w, "idle"),
         pc[w] \in {"read_drop", "write_drop"}
  PROVE  /\ \A v \in Workers : pc'[v] \in ReadAt => v # w /\ pc[v] \in ReadAt
         /\ At(ReadPermitAt)' = At(ReadPermitAt) \ {w}
         /\ At(WaiterAt)' = At(WaiterAt)
         /\ At(WritePermitAt)' = At(WritePermitAt) \ {w}
<1>1. \A v \in Workers : pc'[v] = IF v = w THEN "idle" ELSE Woken(pc[v])
  BY DEF NotifyAll
<1>2. QED
  BY <1>1 DEF At, Woken, ReadAt, ReadPermitAt, WaiterAt, WritePermitAt

LEMMA DropReadPermits ==
  ASSUME HostInv, PermitInv, NEW w \in Workers, DropReadPermit(w)
  PROVE  PermitInv'
<1>1. PICK n \in Namespaces : n = ns[w] /\ pc[w] = "read_drop"
  BY DEF DropReadPermit, PermitInv, ReadAt, ReadPermitAt
<1>2. /\ inflight' = inflight - 1 /\ byNs' = [byNs EXCEPT ![n] = @ - 1]
      /\ ns' = [ns EXCEPT ![w] = NoOne] /\ NotifyAll(w, "idle")
      /\ UNCHANGED <<writerActive, writerWaiters>>
  BY <1>1 DEF DropReadPermit
<1>3. w \in At(ReadPermitAt) /\ w \notin At(WritePermitAt)
  BY <1>1 DEF At, ReadPermitAt, WritePermitAt
<1>4. /\ At(ReadPermitAt)' = At(ReadPermitAt) \ {w}
      /\ At(WaiterAt)' = At(WaiterAt)
      /\ At(WritePermitAt)' = At(WritePermitAt)
  BY <1>1, <1>2, <1>3, NotifyAllMoves
<1>5. \A v \in Workers : ns'[v] = IF v = w THEN NoOne ELSE ns[v]
  BY <1>2 DEF PermitInv
<1>6. /\ ReadersOf(n)' = ReadersOf(n) \ {w} /\ w \in ReadersOf(n)
      /\ ReadersOf(n) \subseteq Workers
      /\ \A m \in Namespaces \ {n} : ReadersOf(m)' = ReadersOf(m)
  BY <1>1, <1>3, <1>4, <1>5 DEF ReadersOf, At
<1>7. inflight' = Cardinality(At(ReadPermitAt)') /\ inflight' \in Nat
  <2>1. At(ReadPermitAt) \subseteq Workers
    BY DEF At
  <2>2. Cardinality(At(ReadPermitAt) \ {w}) \in Nat
    BY <2>1, WorkersFinite
  <2>3. QED BY <1>2, <1>3, <1>4, <2>1, <2>2, OneLess DEF PermitInv, PermitsExact
<1>8. ASSUME NEW m \in Namespaces
      PROVE  byNs'[m] = Cardinality(ReadersOf(m)') /\ byNs'[m] \in Nat
  <2>1. byNs[m] = Cardinality(ReadersOf(m)) /\ byNs[m] \in Nat
    BY DEF PermitInv, PermitsExact, ReadersOf
  <2>2. CASE m = n
    <3>1. byNs'[n] = byNs[n] - 1
      BY <1>2 DEF PermitInv
    <3>2. Cardinality(ReadersOf(n) \ {w}) = Cardinality(ReadersOf(n)) - 1
      BY <1>6, OneLess
    <3>3. Cardinality(ReadersOf(n) \ {w}) \in Nat
      BY <1>6, WorkersFinite
    <3>4. QED BY <1>6, <2>1, <2>2, <3>1, <3>2, <3>3
  <2>3. CASE m # n
    BY <1>2, <1>6, <2>1, <2>3 DEF PermitInv
  <2>4. QED BY <2>2, <2>3
<1>9. ~writerActive
  <2>1. Cardinality(At(ReadPermitAt)) # 0
    BY <1>3, SomeCounted DEF At
  <2>2. QED BY <2>1 DEF PermitInv, PermitsExact
<1>10. PermitsExact'
  BY <1>2, <1>4, <1>7, <1>8, <1>9 DEF PermitInv, PermitsExact, ReadersOf
<1>11. byNs' \in [Namespaces -> Nat]
  BY <1>2, <1>8 DEF PermitInv
<1>12. \A v \in Workers : pc'[v] \in ReadAt => ns'[v] \in Namespaces
  BY <1>1, <1>2, <1>5, NotifyAllMoves DEF PermitInv
<1>13. QED BY <1>2, <1>7, <1>10, <1>11, <1>12 DEF PermitInv

LEMMA DropWritePermits ==
  ASSUME HostInv, PermitInv, NEW w \in Workers, DropWritePermit(w)
  PROVE  PermitInv'
<1>1. /\ pc[w] = "write_drop" /\ NotifyAll(w, "idle") /\ writerActive' = FALSE
      /\ UNCHANGED <<inflight, byNs, writerWaiters, ns>>
  BY DEF DropWritePermit
<1>2. w \in At(WritePermitAt) /\ w \notin At(ReadPermitAt)
  BY <1>1 DEF At, ReadPermitAt, WritePermitAt
<1>3. /\ At(ReadPermitAt)' = At(ReadPermitAt)
      /\ At(WaiterAt)' = At(WaiterAt)
      /\ At(WritePermitAt)' = At(WritePermitAt) \ {w}
  BY <1>1, <1>2, NotifyAllMoves
<1>4. Cardinality(At(WritePermitAt)') = 0
  <2>1. At(WritePermitAt) \subseteq Workers
    BY DEF At
  <2>2. Cardinality(At(WritePermitAt)) = 1
    BY <1>2, <2>1, SomeCounted DEF PermitInv, PermitsExact
  <2>3. QED BY <1>2, <1>3, <2>1, <2>2, OneLess
<1>5. \A n \in Namespaces : ReadersOf(n)' = ReadersOf(n)
  BY <1>1, <1>3 DEF ReadersOf
<1>6. PermitsExact'
  BY <1>1, <1>3, <1>4, <1>5 DEF PermitInv, PermitsExact, ReadersOf
<1>7. \A v \in Workers : pc'[v] \in ReadAt => ns'[v] \in Namespaces
  BY <1>1, NotifyAllMoves DEF PermitInv
<1>8. QED BY <1>1, <1>6, <1>7 DEF PermitInv

-----------------------------------------------------------------------------
(* The initial states have no permit and count none.                       *)
LEMMA InitPermits == Init => PermitInv
<1> SUFFICES ASSUME Init PROVE PermitInv
  OBVIOUS
<1>1. /\ At(ReadPermitAt) = {} /\ At(WaiterAt) = {} /\ At(WritePermitAt) = {}
      /\ \A n \in Namespaces : ReadersOf(n) = {}
  BY DEF Init, At, ReadersOf, ReadPermitAt, WaiterAt, WritePermitAt
<1>2. PermitsExact
  BY <1>1, FS_EmptySet DEF Init, PermitsExact, ReadersOf
<1>3. \A w \in Workers : pc[w] \notin ReadAt
  BY DEF Init, ReadAt, ReadPermitAt
<1>4. QED BY <1>2, <1>3 DEF Init, PermitInv

(* Every step keeps the counters exact.                                    *)
LEMMA NextPermits ==
  ASSUME HostInv, PermitInv, [Next]_vars
  PROVE  PermitInv'
<1> USE DEF PCs, ReadAt, ReadPermitAt, WaiterAt, WritePermitAt, MutexAt, SplitAt
<1>1. ASSUME NEW w \in Workers, NEW n \in Namespaces, ArriveRead(w, n)
      PROVE  PermitInv'
  BY <1>1, ArrivePermits DEF ArriveRead
<1>2. ASSUME NEW w \in Workers, ArriveWrite(w) \/ ArriveBatch(w)
      PROVE  PermitInv'
  BY <1>2, ArrivePermits DEF ArriveWrite, ArriveBatch
<1>3. ASSUME NEW w \in Workers, SpuriousWakeup(w)
      PROVE  PermitInv'
  BY <1>3, PermitsStay DEF SpuriousWakeup, Woken
<1>4. ASSUME NEW w \in Workers, Step(w)
      PROVE  PermitInv'
  <2>1. CASE AcquireRead(w) BY <2>1, AcquireReadPermits
  <2>2. CASE AcquireWrite(w) BY <2>2, AcquireWritePermits
  <2>3. CASE DropReadPermit(w) BY <2>3, DropReadPermits
  <2>4. CASE DropWritePermit(w) BY <2>4, DropWritePermits
  <2>5. CASE LockForRead(w) BY <2>5, PermitsStay DEF LockForRead
  <2>6. CASE FinishRead(w) BY <2>6, PermitsStay DEF FinishRead
  <2>7. CASE LockWriter(w) BY <2>7, PermitsStay DEF LockWriter
  <2>8. CASE LockStore(w) BY <2>8, PermitsStay DEF LockStore, WantsExclusive
  <2>9. CASE Write(w) BY <2>9, PermitsStay DEF Write
  <2>10. CASE PanicExclusive(w) BY <2>10, PermitsStay DEF PanicExclusive
  <2>11. CASE LockBatchRead(w) BY <2>11, PermitsStay DEF LockBatchRead
  <2>12. CASE Admit(w) BY <2>12, PermitsStay DEF Admit
  <2>13. CASE WriteStaged(w) BY <2>13, PermitsStay DEF WriteStaged
  <2>14. CASE PanicShared(w) BY <2>14, PermitsStay DEF PanicShared
  <2>15. CASE Apply(w) BY <2>15, PermitsStay DEF Apply
  <2>16. CASE LockForDelta(w) BY <2>16, PermitsStay DEF LockForDelta
  <2>17. CASE WriteDelta(w) BY <2>17, PermitsStay DEF WriteDelta
  <2>18. CASE AdoptDelta(w) BY <2>18, PermitsStay DEF AdoptDelta
  <2>19. QED
    BY <1>4, <2>1, <2>2, <2>3, <2>4, <2>5, <2>6, <2>7, <2>8, <2>9, <2>10,
       <2>11, <2>12, <2>13, <2>14, <2>15, <2>16, <2>17, <2>18
    DEF Step
<1>5. CASE UNCHANGED vars
  <2>1. /\ UNCHANGED <<schedVars, ns, pc>>
        /\ At(ReadPermitAt)' = At(ReadPermitAt) /\ At(WaiterAt)' = At(WaiterAt)
        /\ At(WritePermitAt)' = At(WritePermitAt)
    BY <1>5 DEF vars, At
  <2>2. QED BY <2>1, SamePermits DEF PermitInv
<1>6. QED BY <1>1, <1>2, <1>3, <1>4, <1>5 DEF Next

(* No path through a handler, an error or a panic leaks a permit or drops  *)
(* one twice, and a write permit excludes every other (Drop of ReadPermit  *)
(* and WritePermit, acquire_read, acquire_write).                          *)
THEOREM PermitsAlwaysExact == Spec => []PermitsExact
<1>1. Init => PermitInv
  BY InitPermits
<1>2. HostInv /\ PermitInv /\ [Next]_vars => PermitInv'
  BY NextPermits
<1>3. PermitInv => PermitsExact
  BY DEF PermitInv
<1>4. QED BY <1>1, <1>2, <1>3, HostInvariance, PTL DEF Spec

-----------------------------------------------------------------------------
(* HostService.                                                            *)

(* What a client's end counts as, and where its worker has counted it.     *)
Ended == {"answered", "closed"}
Counting == {"draining", "observing", "writing"}

ThreadStates ==
  {"idle", "recv", "reading", "handling", "draining", "observing", "writing", "left", "dead"}

ServiceTyped ==
  /\ given \in Launches
  /\ backlog \in Seq(Clients \cup {Wakeup})
  /\ loop \in {"bind", "open", "limits", "check", "accept", "recheck", "send", "stop", "returned"}
  /\ stream \in Clients \cup {Wakeup, Nobody}
  /\ doing \in [Threads -> ThreadStates]
  /\ job \in [Threads -> Clients \cup {Wakeup, Nobody}]
  /\ accepted \in Nat /\ rejected \in Nat /\ overloaded \in Nat /\ observed \in Nat
  /\ fate \in [Clients -> {"away", "waiting"} \cup Ended]

(* What the accept loop holds, and what the host was given once it serves. *)
Serving == {"check", "accept", "recheck", "send", "stop"}

LoopInv ==
  /\ loop \in {"recheck", "send"} <=> stream # Nobody
  /\ loop \notin Serving => \A w \in Threads : job[w] = Nobody
  /\ loop = "bind" => backlog = <<>> /\ \A c \in Clients : fate[c] = "away"
  /\ loop \in {"bind", "open", "limits"} => watcher = "none"
  /\ loop = "returned" => \A c \in Clients : fate[c] # "waiting"
  /\ loop \in {"limits"} \cup Serving => given.bearer # "empty"
  /\ loop \in Serving /\ given.routable => given.bearer # "none"
  /\ observed > 0 /\ given.routable => given.bearer = "secret"

(* What a thread at a connection knows of it.                              *)
JobInv ==
  \A w \in Threads :
    /\ doing[w] \in {"idle", "recv", "left", "dead"} <=> job[w] = Nobody
    /\ doing[w] \in {"handling"} \cup Counting => job[w] \in Clients
    /\ doing[w] = "draining" => sends[job[w]].line \in {"long", "slow"}
    /\ doing[w] \in {"handling", "observing", "writing"} => sends[job[w]].line = "whole"
    /\ doing[w] = "observing" => Served(job[w])

(* Who waits is at one place.                                              *)
Queued(c) == {i \in DOMAIN backlog : backlog[i] = c}

PlaceInv ==
  /\ \A c \in Clients : stream = c \/ With(c) # {} \/ Queued(c) # {} <=> fate[c] = "waiting"
  /\ \A c \in Clients : stream = c => With(c) = {} /\ Queued(c) = {}
  /\ \A c \in Clients : With(c) # {} => Queued(c) = {}
  /\ \A v, w \in Threads : job[v] \in Clients /\ job[v] = job[w] => v = w
  /\ \A i, j \in DOMAIN backlog : backlog[i] \in Clients /\ backlog[i] = backlog[j] => i = j

(* Who was counted and may have been answered, and who is at its end.      *)
Past(c, at) == \E w \in Threads : job[w] = c /\ doing[w] \in at

Told(of, at) == {c \in of : fate[c] = "answered" \/ Past(c, at)}
Through(of, at) == {c \in of : fate[c] \in Ended \/ Past(c, at)}

AllCounted == {c \in Clients : Counted(c)}
ServedOf(nm) == {c \in Clients : sends[c].ns = nm /\ Served(c)}

Observing == {w \in Threads : doing[w] = "observing"}

CountInv ==
  /\ Cardinality(Told(AllCounted, Counting)) <= accepted + rejected
  /\ accepted + rejected <= Cardinality(Through(AllCounted, Counting))
  /\ accepted + rejected =
       observed + overloaded + Cardinality(Observing)

LabelInv ==
  /\ DOMAIN byLabel \subseteq Named \cup {Other} /\ IsFiniteSet(DOMAIN byLabel)
  /\ \A l \in DOMAIN byLabel : byLabel[l] \in Nat
  /\ byLabel = [l \in DOMAIN byLabel |-> byLabel[l]]
  /\ Cardinality(DOMAIN byLabel \ {Other}) <= MaxNamespaces
  /\ \A nm \in Named :
       IF nm \in DOMAIN byLabel
       THEN /\ Cardinality(Told(ServedOf(nm), {"writing"})) <= byLabel[nm]
            /\ byLabel[nm] <= Cardinality(Through(ServedOf(nm), {"writing"}))
       ELSE Told(ServedOf(nm), {"writing"}) # {} => Cardinality(DOMAIN byLabel) >= MaxNamespaces

ServiceInv == ServiceTyped /\ LoopInv /\ JobInv /\ PlaceInv /\ CountInv /\ LabelInv

(* What the assumptions say of a launch.                                   *)
LEMMA Given ==
  ASSUME ServiceTyped
  PROVE  /\ given.bearer \in {"none", "empty", "secret"}
         /\ \A c \in Clients : /\ sends[c].line \in {"whole", "long", "slow", "gone"}
                               /\ sends[c].v \in {"none", "1", "2"}
                               /\ sends[c].token \in {"none", "secret", "other"}
                               /\ sends[c].request \in {"good", "refused", "scrape", "malformed"}
                               /\ sends[c].ns \in Named \cup {Nobody}
  BY ServiceAssumption DEF ServiceTyped, sends

(* Everything the service does ends in one of these sets.                  *)
LEMMA FiniteParts ==
  /\ IsFiniteSet(AllCounted)
  /\ \A nm : IsFiniteSet(ServedOf(nm))
  /\ \A of, at : IsFiniteSet(of) => IsFiniteSet(Told(of, at)) /\ IsFiniteSet(Through(of, at))
<1>1. AllCounted \in SUBSET Clients
  BY DEF AllCounted
<1>2. \A nm : ServedOf(nm) \in SUBSET Clients
  BY DEF ServedOf
<1>3. \A of, at : Told(of, at) \in SUBSET of /\ Through(of, at) \in SUBSET of
  BY DEF Told, Through
<1>4. IsFiniteSet(Clients)
  BY ServiceAssumption
<1>5. IsFiniteSet(AllCounted)
  BY <1>1, <1>4, FS_Subset
<1>6. \A nm : IsFiniteSet(ServedOf(nm))
  BY <1>2, <1>4, FS_Subset
<1>7. \A of, at : IsFiniteSet(of) => IsFiniteSet(Told(of, at)) /\ IsFiniteSet(Through(of, at))
  BY <1>3, FS_Subset
<1>8. QED BY <1>5, <1>6, <1>7

(* The bounds of a counter when nobody is counted, and when one is.        *)
LEMMA BoundsKept ==
  ASSUME NEW T0, NEW T1, NEW U0, NEW U1, IsFiniteSet(T0), IsFiniteSet(U1),
         T1 \subseteq T0, U0 \subseteq U1
  PROVE  /\ Cardinality(T1) <= Cardinality(T0) /\ Cardinality(U0) <= Cardinality(U1)
         /\ {Cardinality(T0), Cardinality(T1), Cardinality(U0), Cardinality(U1)} \subseteq Nat
<1>1. IsFiniteSet(T1) /\ Cardinality(T1) <= Cardinality(T0)
  BY FS_Subset
<1>2. IsFiniteSet(U0) /\ Cardinality(U0) <= Cardinality(U1)
  BY FS_Subset
<1>3. QED BY <1>1, <1>2, FS_CardinalityType

LEMMA BoundsGrow ==
  ASSUME NEW T0, NEW T1, NEW U0, NEW U1, NEW c, IsFiniteSet(T0), IsFiniteSet(U1),
         T1 \subseteq T0 \cup {c}, U0 \cup {c} \subseteq U1, c \notin U0
  PROVE  /\ Cardinality(T1) <= Cardinality(T0) + 1 /\ Cardinality(U0) + 1 <= Cardinality(U1)
         /\ {Cardinality(T0), Cardinality(T1), Cardinality(U0), Cardinality(U1)} \subseteq Nat
<1>1. IsFiniteSet(T0 \cup {c}) /\ Cardinality(T0 \cup {c}) <= Cardinality(T0) + 1
  <2>1. Cardinality(T0) \in Nat
    BY FS_CardinalityType
  <2>2. QED BY <2>1, FS_AddElement
<1>2. IsFiniteSet(U0)
  BY FS_Subset
<1>3. Cardinality(U0 \cup {c}) = Cardinality(U0) + 1 /\ IsFiniteSet(U0 \cup {c})
  BY <1>2, FS_AddElement
<1>4. IsFiniteSet(T1) /\ Cardinality(T1) <= Cardinality(T0 \cup {c})
  BY <1>1, FS_Subset
<1>5. Cardinality(U0 \cup {c}) <= Cardinality(U1)
  BY FS_Subset
<1>6. {Cardinality(T0), Cardinality(T1), Cardinality(U0), Cardinality(U1), Cardinality(T0 \cup {c})}
        \subseteq Nat
  BY <1>1, <1>2, <1>4, FS_CardinalityType
<1>7. QED BY <1>1, <1>3, <1>4, <1>5, <1>6

-----------------------------------------------------------------------------
(* What a step says of the counters, client by client: it tells of those   *)
(* in S only, and takes nobody back whose end it counted.                  *)
CountTells(S) ==
  \A c \in Clients : Counted(c) =>
    /\ (fate[c] = "answered" \/ Past(c, Counting))'
         => fate[c] = "answered" \/ Past(c, Counting) \/ c \in S
    /\ fate[c] \in Ended \/ Past(c, Counting) \/ c \in S
         => (fate[c] \in Ended \/ Past(c, Counting))'

LabelTells(S) ==
  \A c \in Clients : Served(c) =>
    /\ (fate[c] = "answered" \/ Past(c, {"writing"}))'
         => fate[c] = "answered" \/ Past(c, {"writing"}) \/ c \in S
    /\ fate[c] \in Ended \/ Past(c, {"writing"}) \/ c \in S
         => (fate[c] \in Ended \/ Past(c, {"writing"}))'

LEMMA GivenStays ==
  ASSUME given' = given
  PROVE  /\ AllCounted' = AllCounted /\ \A nm : ServedOf(nm)' = ServedOf(nm)
         /\ \A c \in Clients : (Served(c)' <=> Served(c)) /\ (Counted(c)' <=> Counted(c))
  BY DEF AllCounted, ServedOf, Counted, Served, sends

(* Nobody was told: the bounds stand as long as the sum is explained.       *)
LEMMA ToldKept ==
  ASSUME ServiceTyped, CountInv, given' = given, CountTells({}),
         accepted' = accepted, rejected' = rejected,
         accepted' + rejected' = observed' + overloaded' + Cardinality(Observing')
  PROVE  CountInv'
<1>1. AllCounted' = AllCounted
  BY GivenStays
<1>2. /\ Told(AllCounted, Counting)' \subseteq Told(AllCounted, Counting)
      /\ Through(AllCounted, Counting) \subseteq Through(AllCounted, Counting)'
  BY <1>1 DEF CountTells, Told, Through, AllCounted
<1>3. IsFiniteSet(Told(AllCounted, Counting))
  BY FiniteParts
<1>4. IsFiniteSet(Through(AllCounted, Counting)')
  <2>1. Through(AllCounted, Counting)' \in SUBSET AllCounted
    BY <1>1 DEF Through
  <2>2. QED BY <2>1, FiniteParts, FS_Subset
<1>5. /\ Cardinality(Told(AllCounted, Counting)') <= Cardinality(Told(AllCounted, Counting))
      /\ Cardinality(Through(AllCounted, Counting)) <= Cardinality(Through(AllCounted, Counting)')
      /\ Cardinality(Told(AllCounted, Counting)) \in Nat
      /\ Cardinality(Told(AllCounted, Counting)') \in Nat
      /\ Cardinality(Through(AllCounted, Counting)) \in Nat
      /\ Cardinality(Through(AllCounted, Counting)') \in Nat
  BY <1>2, <1>3, <1>4, BoundsKept
<1>6. QED BY <1>5 DEF CountInv, ServiceTyped

LEMMA CountsKept ==
  ASSUME ServiceTyped, CountInv, given' = given, CountTells({}), Observing' = Observing,
         accepted' = accepted, rejected' = rejected, overloaded' = overloaded, observed' = observed
  PROVE  CountInv'
<1>1. accepted' + rejected' = observed' + overloaded' + Cardinality(Observing')
  BY DEF CountInv
<1>2. QED BY <1>1, ToldKept

(* One more accepted or rejected, of a client nobody counted before; it is *)
(* counted as observed now, or a worker goes to observe it.                *)
LEMMA CountsGrow ==
  ASSUME ServiceTyped, ServiceTyped', CountInv, given' = given, NEW c \in Clients, CountTells({c}),
         Counted(c), fate[c] \notin Ended, ~Past(c, Counting),
         accepted' + rejected' = accepted + rejected + 1,
         accepted' + rejected' = observed' + overloaded' + Cardinality(Observing')
  PROVE  CountInv'
<1>1. AllCounted' = AllCounted
  BY GivenStays
<1>2. /\ Told(AllCounted, Counting)' \subseteq Told(AllCounted, Counting) \cup {c}
      /\ Through(AllCounted, Counting) \cup {c} \subseteq Through(AllCounted, Counting)'
      /\ c \notin Through(AllCounted, Counting)
  BY <1>1 DEF CountTells, Told, Through, AllCounted
<1>3. IsFiniteSet(Told(AllCounted, Counting))
  BY FiniteParts
<1>4. IsFiniteSet(Through(AllCounted, Counting)')
  <2>1. Through(AllCounted, Counting)' \in SUBSET AllCounted
    BY <1>1 DEF Through
  <2>2. QED BY <2>1, FiniteParts, FS_Subset
<1>5. /\ Cardinality(Told(AllCounted, Counting)') <= Cardinality(Told(AllCounted, Counting)) + 1
      /\ Cardinality(Through(AllCounted, Counting)) + 1 <= Cardinality(Through(AllCounted, Counting)')
      /\ Cardinality(Told(AllCounted, Counting)) \in Nat
      /\ Cardinality(Told(AllCounted, Counting)') \in Nat
      /\ Cardinality(Through(AllCounted, Counting)) \in Nat
      /\ Cardinality(Through(AllCounted, Counting)') \in Nat
  <2> DEFINE T0 == Told(AllCounted, Counting)
             T1 == Told(AllCounted, Counting)'
             U0 == Through(AllCounted, Counting)
             U1 == Through(AllCounted, Counting)'
  <2>1. /\ IsFiniteSet(T0) /\ IsFiniteSet(U1)
        /\ T1 \subseteq T0 \cup {c} /\ U0 \cup {c} \subseteq U1 /\ c \notin U0
    BY <1>2, <1>3, <1>4
  <2> HIDE DEF T0, T1, U0, U1
  <2>2. /\ Cardinality(T1) <= Cardinality(T0) + 1 /\ Cardinality(U0) + 1 <= Cardinality(U1)
        /\ {Cardinality(T0), Cardinality(T1), Cardinality(U0), Cardinality(U1)} \subseteq Nat
    BY <2>1, BoundsGrow
  <2>3. QED BY <2>2 DEF T0, T1, U0, U1
<1>6. accepted \in Nat /\ rejected \in Nat /\ accepted' \in Nat /\ rejected' \in Nat
  BY DEF ServiceTyped
<1>7. /\ Cardinality(Told(AllCounted, Counting)') <= accepted' + rejected'
      /\ accepted' + rejected' <= Cardinality(Through(AllCounted, Counting)')
  <2> DEFINE n == accepted + rejected
             m == accepted' + rejected'
  <2>1. /\ Cardinality(Told(AllCounted, Counting)) <= n
        /\ n <= Cardinality(Through(AllCounted, Counting))
        /\ m = n + 1
    BY DEF CountInv
  <2>2. n \in Nat
    BY <1>6
  <2> HIDE DEF n, m
  <2>3. Cardinality(Told(AllCounted, Counting)') <= m /\ m <= Cardinality(Through(AllCounted, Counting)')
    BY <1>5, <2>1, <2>2
  <2>4. QED BY <2>3 DEF m
<1>8. QED BY <1>7 DEF CountInv

(* The answers of a namespace when no label changes.                       *)
LEMMA LabelsBut ==
  ASSUME LabelInv, given' = given, byLabel' = byLabel, NEW S, LabelTells(S),
         \A nm \in Named : S \cap ServedOf(nm) = {}
  PROVE  LabelInv'
<1>1. \A nm : ServedOf(nm)' = ServedOf(nm)
  BY GivenStays
<1>2. ASSUME NEW nm \in Named
      PROVE  IF nm \in DOMAIN byLabel
             THEN /\ Cardinality(Told(ServedOf(nm), {"writing"})') <= byLabel[nm]
                  /\ byLabel[nm] <= Cardinality(Through(ServedOf(nm), {"writing"})')
             ELSE Told(ServedOf(nm), {"writing"})' # {} => Cardinality(DOMAIN byLabel) >= MaxNamespaces
  <2>1. /\ Told(ServedOf(nm), {"writing"})' \subseteq Told(ServedOf(nm), {"writing"})
        /\ Through(ServedOf(nm), {"writing"}) \subseteq Through(ServedOf(nm), {"writing"})'
    BY <1>1 DEF LabelTells, Told, Through, ServedOf
  <2>2. IsFiniteSet(Told(ServedOf(nm), {"writing"}))
    BY FiniteParts
  <2>3. IsFiniteSet(Through(ServedOf(nm), {"writing"})')
    <3>1. Through(ServedOf(nm), {"writing"})' \in SUBSET ServedOf(nm)
      BY <1>1 DEF Through
    <3>2. QED BY <3>1, FiniteParts, FS_Subset
  <2>4. /\ Cardinality(Told(ServedOf(nm), {"writing"})') <= Cardinality(Told(ServedOf(nm), {"writing"}))
        /\ Cardinality(Through(ServedOf(nm), {"writing"}))
             <= Cardinality(Through(ServedOf(nm), {"writing"})')
        /\ Cardinality(Told(ServedOf(nm), {"writing"})) \in Nat
        /\ Cardinality(Told(ServedOf(nm), {"writing"})') \in Nat
        /\ Cardinality(Through(ServedOf(nm), {"writing"})) \in Nat
        /\ Cardinality(Through(ServedOf(nm), {"writing"})') \in Nat
    BY <2>1, <2>2, <2>3, BoundsKept
  <2>5. QED BY <2>1, <2>4 DEF LabelInv
<1>3. QED BY <1>2 DEF LabelInv

LEMMA LabelsKept ==
  ASSUME LabelInv, given' = given, LabelTells({}), byLabel' = byLabel
  PROVE  LabelInv'
  BY LabelsBut

(* A worker is at one connection, so only its own client is where it is.   *)
LEMMA PastOf ==
  ASSUME PlaceInv, NEW w \in Threads, job[w] \in Clients
  PROVE  \A at : Past(job[w], at) <=> doing[w] \in at
  BY DEF PlaceInv, Past

LEMMA PastOthers ==
  ASSUME ServiceTyped, NEW w \in Threads, NEW x, doing' = [doing EXCEPT ![w] = x],
         job' = job \/ job' = [job EXCEPT ![w] = Nobody]
  PROVE  \A c \in Clients : \A at : c # job[w] => (Past(c, at)' <=> Past(c, at))
<1> TAKE c \in Clients
<1> TAKE at
<1> HAVE c # job[w]
<1>1. Nobody \notin Clients
  BY ServiceAssumption
<1>2. \A v \in Threads : v # w => job'[v] = job[v] /\ doing'[v] = doing[v]
  BY DEF ServiceTyped
<1>3. job[w] # c /\ job'[w] # c
  BY <1>1 DEF ServiceTyped
<1>4. QED BY <1>2, <1>3 DEF Past

-----------------------------------------------------------------------------
(* The steps that take nothing from a worker and give it nothing.          *)

(* Where workers stand and what became of clients does not change.         *)
LEMMA NobodyTold ==
  ASSUME UNCHANGED <<given, doing, job, fate>>
  PROVE  CountTells({}) /\ LabelTells({}) /\ Observing' = Observing
  BY DEF CountTells, LabelTells, Past, Observing

(* The end of clients that nobody counted: they are where they were.       *)
LEMMA OnlyClosed ==
  ASSUME UNCHANGED <<given, doing, job>>,
         \A c \in Clients : fate'[c] = fate[c] \/ fate'[c] = "closed"
                              \/ (fate[c] = "away" /\ fate'[c] = "waiting")
  PROVE  CountTells({}) /\ LabelTells({}) /\ Observing' = Observing
<1>1. \A c, at : Past(c, at)' <=> Past(c, at)
  BY DEF Past
<1>2. QED BY <1>1 DEF CountTells, LabelTells, Observing, Ended

(* Neither counters nor labels move.                                       *)
LEMMA CountersStay ==
  ASSUME ServiceTyped, CountInv, LabelInv, given' = given, CountTells({}), LabelTells({}),
         Observing' = Observing, UNCHANGED counters
  PROVE  CountInv' /\ LabelInv'
<1>1. /\ accepted' = accepted /\ rejected' = rejected /\ overloaded' = overloaded
      /\ observed' = observed /\ byLabel' = byLabel
  BY DEF counters, metrics
<1>2. QED BY <1>1, CountsKept, LabelsKept

(* The accept loop goes on, and nothing but it.                            *)
LEMMA LoopMoves ==
  ASSUME ServiceInv, UNCHANGED <<given, backlog, stream, poolVars, counters, fate>>,
         \/ loop = "bind" /\ loop' = "open"
         \/ loop = "bind" /\ loop' = "returned"
         \/ loop = "open" /\ loop' = "limits" /\ given.bearer # "empty"
         \/ /\ loop = "limits" /\ loop' = "check"
            /\ given.routable => given.bearer # "none"
         \/ loop = "check" /\ loop' \in {"accept", "stop"}
         \/ loop = "accept" /\ loop' = "stop"
         \/ loop' = loop,
         loop' \in {"bind", "open", "limits"} => watcher' = "none"
  PROVE  ServiceInv'
<1> USE DEF ServiceInv, poolVars
<1>1. ServiceTyped'
  BY DEF ServiceTyped, counters, metrics
<1>2. LoopInv'
  BY DEF LoopInv, Serving, counters, metrics, ServiceTyped
<1>3. JobInv'
  BY GivenStays DEF JobInv, sends, Served
<1>4. PlaceInv'
  BY DEF PlaceInv, With, Queued
<1>5. CountInv' /\ LabelInv'
  BY NobodyTold, CountersStay
<1>6. QED BY <1>1, <1>2, <1>3, <1>4, <1>5

(* GiveUp: whoever is queued is closed, and nobody else is there.          *)
LEMMA GiveUpStep ==
  ASSUME ServiceInv, loop \in {"open", "limits"}, GiveUp
  PROVE  ServiceInv'
<1> USE DEF ServiceInv, poolVars, GiveUp
<1>1. ServiceTyped'
  BY DEF ServiceTyped, counters, metrics, Ended
<1>2. LoopInv'
  BY DEF LoopInv, Serving, counters, metrics, ServiceTyped
<1>3. JobInv'
  BY DEF JobInv, sends, Served
<1>4. PlaceInv'
  <2>1. \A w \in Threads : job[w] = Nobody
    BY DEF LoopInv, Serving
  <2>2. stream = Nobody /\ Nobody \notin Clients
    BY ServiceAssumption DEF LoopInv
  <2>3. \A c \in Clients : fate'[c] # "waiting"
    BY DEF ServiceTyped
  <2>4. QED BY <2>1, <2>2, <2>3 DEF PlaceInv, With, Queued, loopVars
<1>5. CountInv' /\ LabelInv'
  BY OnlyClosed, CountersStay
<1>6. QED BY <1>1, <1>2, <1>3, <1>4, <1>5

(* Return: every worker has left or is dead.                               *)
LEMMA ReturnStep ==
  ASSUME ServiceInv, Return
  PROVE  ServiceInv'
<1> USE DEF ServiceInv, poolVars, Return, Loop
<1>0. \A w \in Threads : job[w] = Nobody
  BY DEF JobInv
<1>1. ServiceTyped'
  BY DEF ServiceTyped, counters, metrics, Ended
<1>2. LoopInv'
  BY <1>0 DEF LoopInv, Serving, counters, metrics, ServiceTyped
<1>3. JobInv'
  BY DEF JobInv, sends, Served
<1>4. PlaceInv'
  <2>2. stream = Nobody /\ Nobody \notin Clients
    BY ServiceAssumption DEF LoopInv
  <2>3. \A c \in Clients : fate'[c] # "waiting"
    BY DEF ServiceTyped
  <2>4. QED BY <1>0, <2>2, <2>3 DEF PlaceInv, With, Queued
<1>5. CountInv' /\ LabelInv'
  BY OnlyClosed, CountersStay
<1>6. QED BY <1>1, <1>2, <1>3, <1>4, <1>5

(* A connection is queued, the one of a client or the watcher's own.       *)
LEMMA QueueMoves ==
  ASSUME ServiceTyped, PlaceInv, NEW x \in Clients \cup {Wakeup},
         backlog' = Append(backlog, x), UNCHANGED <<stream, job>>,
         x \in Clients => fate[x] = "away",
         \A c \in Clients : fate'[c] = IF c = x THEN "waiting" ELSE fate[c]
  PROVE  PlaceInv'
<1>1. /\ Len(backlog) \in Nat /\ Len(backlog') = Len(backlog) + 1
      /\ backlog'[Len(backlog) + 1] = x
      /\ \A i \in 1..Len(backlog) : backlog'[i] = backlog[i]
      /\ DOMAIN backlog = 1..Len(backlog) /\ DOMAIN backlog' = 1..(Len(backlog) + 1)
  BY DEF ServiceTyped
<1>2. \A c \in Clients : Queued(c)' = Queued(c) \cup IF c = x THEN {Len(backlog) + 1} ELSE {}
  BY <1>1 DEF Queued
<1>3. \A c \in Clients : With(c)' = With(c)
  BY DEF With
<1>4. x \in Clients => stream # x /\ With(x) = {} /\ Queued(x) = {}
  BY DEF PlaceInv
<1>5. /\ \A c \in Clients : stream' = c \/ With(c)' # {} \/ Queued(c)' # {} <=> fate'[c] = "waiting"
      /\ \A c \in Clients : stream' = c => With(c)' = {} /\ Queued(c)' = {}
      /\ \A c \in Clients : With(c)' # {} => Queued(c)' = {}
  BY <1>2, <1>3, <1>4 DEF PlaceInv
<1>6. \A v, w \in Threads : job'[v] \in Clients /\ job'[v] = job'[w] => v = w
  BY DEF PlaceInv
<1>7. ASSUME NEW i \in DOMAIN backlog', NEW j \in DOMAIN backlog',
             backlog'[i] \in Clients, backlog'[i] = backlog'[j]
      PROVE  i = j
  <2>1. CASE i \in 1..Len(backlog) /\ j \in 1..Len(backlog)
    BY <1>1, <1>7, <2>1 DEF PlaceInv
  <2>2. ASSUME NEW k \in 1..Len(backlog), backlog[k] = x, x \in Clients
        PROVE  FALSE
    BY <1>1, <1>4, <2>2 DEF Queued
  <2>3. CASE i = Len(backlog) + 1 /\ j \in 1..Len(backlog)
    BY <1>1, <1>7, <2>2, <2>3
  <2>4. CASE j = Len(backlog) + 1 /\ i \in 1..Len(backlog)
    BY <1>1, <1>7, <2>2, <2>4
  <2>5. QED BY <1>1, <2>1, <2>3, <2>4
<1>8. QED BY <1>5, <1>6, <1>7 DEF PlaceInv

LEMMA ConnectStep ==
  ASSUME ServiceInv, NEW c \in Clients, Connect(c)
  PROVE  ServiceInv'
<1> USE DEF ServiceInv, poolVars, loopVars, Connect
<1>1. ServiceTyped'
  BY DEF ServiceTyped, counters, metrics
<1>2. LoopInv'
  BY DEF LoopInv, Serving, counters, metrics, ServiceTyped
<1>3. JobInv'
  BY DEF JobInv, sends, Served
<1>4. PlaceInv'
  <2>1. \A d \in Clients : fate'[d] = IF d = c THEN "waiting" ELSE fate[d]
    BY DEF ServiceTyped
  <2>2. QED BY <2>1, QueueMoves
<1>5. CountInv' /\ LabelInv'
  <2>1. \A d \in Clients : fate'[d] = fate[d] \/ (fate[d] = "away" /\ fate'[d] = "waiting")
    BY DEF ServiceTyped
  <2>2. QED BY <2>1, OnlyClosed, CountersStay
<1>6. QED BY <1>1, <1>2, <1>3, <1>4, <1>5

LEMMA WakeAcceptStep ==
  ASSUME ServiceInv, WakeAccept
  PROVE  ServiceInv'
<1>1. CASE backlog' = backlog
  BY <1>1, LoopMoves DEF WakeAccept, loopVars, ServiceInv, LoopInv
<1>2. CASE backlog' = Append(backlog, Wakeup)
  <2> USE DEF ServiceInv, poolVars, loopVars, WakeAccept
  <2>1. ServiceTyped'
    BY <1>2 DEF ServiceTyped, counters, metrics
  <2>2. LoopInv'
    BY DEF LoopInv, Serving, counters, metrics, ServiceTyped, WakeAccept
  <2>3. JobInv'
    BY DEF JobInv, sends, Served
  <2>4. PlaceInv'
    BY <1>2, QueueMoves, ServiceAssumption
  <2>5. CountInv' /\ LabelInv'
    BY NobodyTold, CountersStay
  <2>6. QED BY <2>1, <2>2, <2>3, <2>4, <2>5
<1>3. QED BY <1>1, <1>2 DEF WakeAccept

LEMMA AcceptStep ==
  ASSUME ServiceInv, Accept
  PROVE  ServiceInv'
<1> USE DEF ServiceInv, poolVars, Accept, Loop
<1>0. /\ Len(backlog) \in Nat \ {0} /\ backlog[1] = stream'
      /\ Len(backlog') = Len(backlog) - 1 /\ backlog' \in Seq(Clients \cup {Wakeup})
      /\ DOMAIN backlog = 1..Len(backlog) /\ DOMAIN backlog' = 1..(Len(backlog) - 1)
      /\ \A i \in 1..(Len(backlog) - 1) : backlog'[i] = backlog[i + 1]
      /\ stream' \in Clients \cup {Wakeup}
  BY DEF ServiceTyped
<1>1. ServiceTyped'
  BY <1>0 DEF ServiceTyped, counters, metrics
<1>2. LoopInv'
  BY <1>0, ServiceAssumption DEF LoopInv, Serving, counters, metrics, ServiceTyped
<1>3. JobInv'
  BY DEF JobInv, sends, Served
<1>4. PlaceInv'
  <2>1. stream = Nobody /\ Nobody \notin Clients
    BY ServiceAssumption DEF LoopInv
  <2>2. ASSUME NEW c \in Clients, c # stream'
        PROVE  Queued(c)' # {} <=> Queued(c) # {}
    <3>1. ASSUME NEW i \in Queued(c)
          PROVE  i - 1 \in Queued(c)'
      BY <1>0, <2>2, <3>1 DEF Queued
    <3>2. ASSUME NEW i \in Queued(c)'
          PROVE  i + 1 \in Queued(c)
      BY <1>0, <3>2 DEF Queued
    <3>3. QED BY <3>1, <3>2
  <2>3. stream' \in Clients => /\ Queued(stream') # {} /\ fate[stream'] = "waiting"
                               /\ With(stream') = {}
    BY <1>0 DEF Queued, PlaceInv
  <2>4. ASSUME NEW c \in Clients, c = stream'
        PROVE  Queued(c)' = {}
    BY <1>0, <2>4 DEF Queued, PlaceInv
  <2>5. \A i, j \in DOMAIN backlog' : backlog'[i] \in Clients /\ backlog'[i] = backlog'[j] => i = j
    BY <1>0 DEF PlaceInv
  <2>6. \A c \in Clients : With(c)' = With(c)
    BY DEF With
  <2>7. /\ \A c \in Clients : stream' = c \/ With(c)' # {} \/ Queued(c)' # {} <=> fate'[c] = "waiting"
        /\ \A c \in Clients : stream' = c => With(c)' = {} /\ Queued(c)' = {}
        /\ \A c \in Clients : With(c)' # {} => Queued(c)' = {}
    BY <2>1, <2>2, <2>3, <2>4, <2>6 DEF PlaceInv
  <2>8. \A v, w \in Threads : job'[v] \in Clients /\ job'[v] = job'[w] => v = w
    BY DEF PlaceInv
  <2>9. QED BY <2>5, <2>7, <2>8 DEF PlaceInv
<1>5. CountInv' /\ LabelInv'
  BY NobodyTold, CountersStay
<1>6. QED BY <1>1, <1>2, <1>3, <1>4, <1>5

LEMMA CheckAgainStep ==
  ASSUME ServiceInv, CheckAgain
  PROVE  ServiceInv'
<1> USE DEF ServiceInv, poolVars, CheckAgain, Loop
<1>1. ServiceTyped'
  BY DEF ServiceTyped, counters, metrics, Ended
<1>2. LoopInv'
  BY DEF LoopInv, Serving, counters, metrics, ServiceTyped
<1>3. JobInv'
  BY DEF JobInv, sends, Served
<1>4. PlaceInv'
  <2>1. \A c \in Clients : With(c)' = With(c) /\ Queued(c)' = Queued(c)
    BY DEF With, Queued
  <2>2. \A c \in Clients : c # stream => fate'[c] = fate[c]
    BY DEF ServiceTyped
  <2>3. CASE running
    BY <2>1, <2>3 DEF PlaceInv
  <2>4. CASE ~running
    <3>1. stream' = Nobody /\ Nobody \notin Clients /\ (stream \in Clients => fate'[stream] = "closed")
      BY <2>4, ServiceAssumption DEF ServiceTyped
    <3>2. /\ \A c \in Clients : stream' = c \/ With(c)' # {} \/ Queued(c)' # {} <=> fate'[c] = "waiting"
          /\ \A c \in Clients : stream' = c => With(c)' = {} /\ Queued(c)' = {}
          /\ \A c \in Clients : With(c)' # {} => Queued(c)' = {}
      BY <2>1, <2>2, <3>1 DEF PlaceInv
    <3>3. QED BY <3>2 DEF PlaceInv
  <2>5. QED BY <2>3, <2>4
<1>5. CountInv' /\ LabelInv'
  <2>1. \A c \in Clients : fate'[c] = fate[c] \/ fate'[c] = "closed"
    BY DEF ServiceTyped
  <2>2. QED BY <2>1, OnlyClosed, CountersStay
<1>6. QED BY <1>1, <1>2, <1>3, <1>4, <1>5

-----------------------------------------------------------------------------
(* A worker and the channel.                                               *)

LEMMA LockReceiverStep ==
  ASSUME ServiceInv, NEW w \in Threads, LockReceiver(w)
  PROVE  ServiceInv'
<1> USE DEF ServiceInv, loopVars, LockReceiver, GoesTo
<1>0. /\ doing' = [doing EXCEPT ![w] = "recv"]
      /\ \A at \in {Counting, {"writing"}} : \A c : Past(c, at)' <=> Past(c, at)
      /\ Observing' = Observing
  BY DEF Past, Counting, Observing, ServiceTyped
<1>1. ServiceTyped'
  BY DEF ServiceTyped, counters, metrics, ThreadStates
<1>2. LoopInv'
  BY DEF LoopInv, Serving, counters, metrics, ServiceTyped
<1>3. JobInv'
  BY GivenStays DEF JobInv, sends, Served, ServiceTyped, Counting
<1>4. PlaceInv'
  BY DEF PlaceInv, With, Queued
<1>5. CountInv' /\ LabelInv'
  <2>1. CountTells({}) /\ LabelTells({})
    BY <1>0 DEF CountTells, LabelTells
  <2>2. QED BY <1>0, <2>1, CountersStay
<1>6. QED BY <1>1, <1>2, <1>3, <1>4, <1>5

LEMMA ReceiveNoneStep ==
  ASSUME ServiceInv, NEW w \in Threads, ReceiveNone(w)
  PROVE  ServiceInv'
<1> USE DEF ServiceInv, loopVars, ReceiveNone, GoesTo
<1>0. /\ doing' = [doing EXCEPT ![w] = "left"]
      /\ \A at \in {Counting, {"writing"}} : \A c : Past(c, at)' <=> Past(c, at)
      /\ Observing' = Observing
  BY DEF Past, Counting, Observing, ServiceTyped
<1>1. ServiceTyped'
  BY DEF ServiceTyped, counters, metrics, ThreadStates
<1>2. LoopInv'
  BY DEF LoopInv, Serving, counters, metrics, ServiceTyped
<1>3. JobInv'
  BY GivenStays DEF JobInv, sends, Served, ServiceTyped, Counting
<1>4. PlaceInv'
  BY DEF PlaceInv, With, Queued
<1>5. CountInv' /\ LabelInv'
  <2>1. CountTells({}) /\ LabelTells({})
    BY <1>0 DEF CountTells, LabelTells
  <2>2. QED BY <1>0, <2>1, CountersStay
<1>6. QED BY <1>1, <1>2, <1>3, <1>4, <1>5

LEMMA ReceiveStep ==
  ASSUME ServiceInv, NEW w \in Threads, Receive(w)
  PROVE  ServiceInv'
<1> USE DEF ServiceInv, Receive, GoesTo
<1>0. /\ doing' = [doing EXCEPT ![w] = "reading"] /\ job' = [job EXCEPT ![w] = stream]
      /\ job[w] = Nobody /\ Nobody \notin Clients
      /\ stream \in Clients \cup {Wakeup} /\ stream # Nobody /\ loop = "send"
      /\ \A v \in Threads : v # w => job'[v] = job[v] /\ doing'[v] = doing[v]
      /\ job'[w] = stream /\ doing'[w] = "reading"
  BY ServiceAssumption DEF ServiceTyped, LoopInv, JobInv
<1>1. ServiceTyped'
  BY DEF ServiceTyped, counters, metrics, ThreadStates
<1>2. LoopInv'
  BY DEF LoopInv, Serving, counters, metrics, ServiceTyped
<1>3. JobInv'
  BY <1>0, GivenStays DEF JobInv, sends, Counting
<1>4. PlaceInv'
  <2>1. \A c \in Clients : With(c)' = IF c = stream THEN {w} ELSE With(c)
    BY <1>0 DEF PlaceInv, With
  <2>2. \A c \in Clients : Queued(c)' = Queued(c)
    BY DEF Queued
  <2>3. /\ \A c \in Clients : stream' = c \/ With(c)' # {} \/ Queued(c)' # {} <=> fate'[c] = "waiting"
        /\ \A c \in Clients : stream' = c => With(c)' = {} /\ Queued(c)' = {}
        /\ \A c \in Clients : With(c)' # {} => Queued(c)' = {}
    BY <1>0, <2>1, <2>2 DEF PlaceInv
  <2>4. ASSUME NEW u \in Threads, NEW v \in Threads, job'[u] \in Clients, job'[u] = job'[v]
        PROVE  u = v
    <3>1. stream \in Clients => \A t \in Threads : job[t] # stream
      BY DEF PlaceInv, With
    <3>2. QED BY <1>0, <2>4, <3>1 DEF PlaceInv
  <2>5. QED BY <2>3, <2>4 DEF PlaceInv
<1>5. CountInv' /\ LabelInv'
  <2>1. \A at \in {Counting, {"writing"}} : \A c \in Clients : Past(c, at)' <=> Past(c, at)
    <3>1. "reading" \notin Counting /\ "reading" # "writing"
      BY DEF Counting
    <3>2. QED BY <1>0, <3>1 DEF Past
  <2>2. CountTells({}) /\ LabelTells({})
    BY <2>1 DEF CountTells, LabelTells
  <2>3. Observing' = Observing
    <3>1. doing[w] # "observing"
      BY DEF Counting
    <3>2. QED BY <1>0, <3>1 DEF Observing
  <2>4. QED BY <2>2, <2>3, CountersStay
<1>6. QED BY <1>1, <1>2, <1>3, <1>4, <1>5

-----------------------------------------------------------------------------
(* A worker and its connection.                                            *)

(* Whom a worker serves, and that the host is past its start by then.      *)
LEMMA AtWork ==
  ASSUME ServiceInv, NEW w \in Threads, doing[w] \in {"reading", "handling"} \cup Counting
  PROVE  /\ job[w] \in Clients \cup {Wakeup} /\ job[w] # Nobody
         /\ loop \in Serving /\ given.bearer # "empty"
         /\ given.routable => given.bearer = "secret"
         /\ job[w] \in Clients => fate[job[w]] = "waiting"
         /\ doing[w] # "reading" => job[w] \in Clients
<1> USE DEF ServiceInv
<1>1. job[w] # Nobody
  BY DEF JobInv, Counting
<1>2. job[w] \in Clients \cup {Wakeup}
  BY <1>1 DEF ServiceTyped
<1>3. loop \in Serving
  BY <1>1 DEF LoopInv
<1>4. given.bearer # "empty" /\ (given.routable => given.bearer = "secret")
  BY <1>3, Given DEF LoopInv
<1>5. job[w] \in Clients => fate[job[w]] = "waiting"
  BY DEF PlaceInv, With
<1>6. doing[w] # "reading" => job[w] \in Clients
  BY DEF JobInv, Counting
<1>7. QED BY <1>1, <1>2, <1>3, <1>4, <1>5, <1>6

(* The end of a connection: answered if it was counted where it counts.    *)
LEMMA EndsStep ==
  ASSUME ServiceInv, NEW w \in Threads, NEW how \in Ended, NEW x \in {"idle", "dead"},
         doing[w] \in {"reading", "handling", "draining", "writing"},
         how = "answered" => doing[w] \in {"draining", "writing"},
         Ends(w, how), GoesTo(w, x), UNCHANGED counters
  PROVE  ServiceInv'
<1> USE DEF ServiceInv
<1>0. /\ doing' = [doing EXCEPT ![w] = x] /\ job' = [job EXCEPT ![w] = Nobody]
      /\ UNCHANGED <<given, backlog, loopVars, running, watcher>>
      /\ \A v \in Threads : v # w => job'[v] = job[v] /\ doing'[v] = doing[v]
      /\ job'[w] = Nobody /\ doing'[w] = x
      /\ \A c \in Clients : fate'[c] = IF c = job[w] THEN how ELSE fate[c]
      /\ fate' \in [Clients -> {"away", "waiting"} \cup Ended]
      /\ Nobody \notin Clients /\ job[w] # Nobody
  BY ServiceAssumption, AtWork DEF Ends, GoesTo, ServiceTyped, Ended, Counting
<1>1. ServiceTyped'
  BY <1>0 DEF ServiceTyped, counters, metrics, ThreadStates, Ended, loopVars
<1>2. LoopInv'
  <2>1. loop \in Serving
    BY AtWork DEF Counting
  <2>2. QED BY <1>0, <2>1 DEF LoopInv, Serving, counters, metrics, loopVars
<1>3. JobInv'
  <2>1. \A c \in Clients : Served(c)' <=> Served(c)
    BY <1>0, GivenStays
  <2>2. ASSUME NEW v \in Threads, v # w
        PROVE  /\ doing'[v] \in {"idle", "recv", "left", "dead"} <=> job'[v] = Nobody
               /\ doing'[v] \in {"handling"} \cup Counting => job'[v] \in Clients
               /\ doing'[v] = "draining" => sends'[job'[v]].line \in {"long", "slow"}
               /\ doing'[v] \in {"handling", "observing", "writing"} => sends'[job'[v]].line = "whole"
               /\ doing'[v] = "observing" => Served(job[v])
    BY <1>0, <2>2 DEF JobInv, sends
  <2>3. \A v \in Threads : v # w /\ doing'[v] = "observing" => job[v] \in Clients
    BY <2>2, <1>0 DEF Counting
  <2>4. QED BY <1>0, <2>1, <2>2, <2>3 DEF JobInv, Counting, Served, sends
<1>4. PlaceInv'
  <2>1. \A c \in Clients : With(c)' = IF c = job[w] THEN {} ELSE With(c)
    BY <1>0 DEF PlaceInv, With
  <2>2. \A c \in Clients : Queued(c)' = Queued(c)
    BY <1>0 DEF Queued
  <2>3. job[w] \in Clients => With(job[w]) # {} /\ stream # job[w] /\ Queued(job[w]) = {}
    BY DEF PlaceInv, With
  <2>4. how # "waiting"
    BY DEF Ended
  <2>5. /\ \A c \in Clients : stream' = c \/ With(c)' # {} \/ Queued(c)' # {} <=> fate'[c] = "waiting"
        /\ \A c \in Clients : stream' = c => With(c)' = {} /\ Queued(c)' = {}
        /\ \A c \in Clients : With(c)' # {} => Queued(c)' = {}
    BY <1>0, <2>1, <2>2, <2>3, <2>4 DEF PlaceInv, loopVars
  <2>6. \A u, v \in Threads : job'[u] \in Clients /\ job'[u] = job'[v] => u = v
    BY <1>0 DEF PlaceInv
  <2>7. \A i, j \in DOMAIN backlog' : backlog'[i] \in Clients /\ backlog'[i] = backlog'[j] => i = j
    BY <1>0 DEF PlaceInv
  <2>8. QED BY <2>5, <2>6, <2>7 DEF PlaceInv
<1>5. CountInv' /\ LabelInv'
  <2>1. \A c \in Clients : \A at : c # job[w] => (Past(c, at)' <=> Past(c, at))
    BY <1>0, PastOthers
  <2>2. \A at : job[w] \in Clients => (Past(job[w], at) <=> doing[w] \in at)
    BY PastOf
  <2>3. ASSUME NEW c \in Clients, c = job[w]
        PROVE  \A at : ~ Past(c, at)'
    <3>1. \A v \in Threads : job'[v] # c
      BY <1>0, <2>3 DEF PlaceInv
    <3>2. QED BY <3>1 DEF Past
  <2>4. doing[w] = "draining" => ~ Served(job[w])
    BY DEF JobInv, Served
  <2>5. CountTells({})
    BY <1>0, <2>1, <2>2, <2>3 DEF CountTells, Counting, Ended
  <2>6. LabelTells({})
    BY <1>0, <2>1, <2>2, <2>3, <2>4 DEF LabelTells, Ended
  <2>7. Observing' = Observing
    BY <1>0 DEF Observing
  <2>8. QED BY <1>0, <2>5, <2>6, <2>7, CountersStay
<1>6. QED BY <1>1, <1>2, <1>3, <1>4, <1>5

(* A worker goes on with its connection; what it has to know to be there.  *)
LEMMA StaysFrame ==
  ASSUME ServiceInv, NEW w \in Threads, NEW x \in {"handling"} \cup Counting,
         job[w] \in Clients, doing[w] \in {"reading", "handling", "observing"}, Stays(w, x),
         accepted' \in Nat /\ rejected' \in Nat /\ overloaded' \in Nat /\ observed' \in Nat,
         x = "draining" => sends[job[w]].line \in {"long", "slow"},
         x \in {"handling", "observing", "writing"} => sends[job[w]].line = "whole",
         x = "observing" => Served(job[w])
  PROVE  ServiceTyped' /\ LoopInv' /\ JobInv' /\ PlaceInv'
<1> USE DEF ServiceInv
<1>0. /\ doing' = [doing EXCEPT ![w] = x]
      /\ UNCHANGED <<given, backlog, loop, stream, job, watcher, fate>>
      /\ \A v \in Threads : v # w => doing'[v] = doing[v]
      /\ doing'[w] = x
  BY DEF Stays, GoesTo, ServiceTyped, loopVars
<1>1. ServiceTyped'
  BY <1>0 DEF ServiceTyped, ThreadStates, Counting
<1>2. LoopInv'
  <2>1. loop \in Serving /\ (given.routable => given.bearer = "secret")
    BY AtWork DEF Counting
  <2>2. QED BY <1>0, <2>1 DEF LoopInv, Serving
<1>3. JobInv'
  <2>1. \A c \in Clients : (Served(c)' <=> Served(c)) /\ sends'[c] = sends[c]
    BY <1>0, GivenStays DEF sends
  <2>2. x \notin {"idle", "recv", "left", "dead"} /\ job[w] # Nobody
    BY ServiceAssumption DEF Counting
  <2>3. ASSUME NEW v \in Threads
        PROVE  /\ doing'[v] \in {"idle", "recv", "left", "dead"} <=> job[v] = Nobody
               /\ doing'[v] \in {"handling"} \cup Counting => job[v] \in Clients
               /\ doing'[v] = "draining" => sends[job[v]].line \in {"long", "slow"}
               /\ doing'[v] \in {"handling", "observing", "writing"} => sends[job[v]].line = "whole"
               /\ doing'[v] = "observing" => Served(job[v])
    <3>1. CASE v = w
      BY <1>0, <2>2, <3>1
    <3>2. CASE v # w
      BY <1>0, <3>2 DEF JobInv
    <3>3. QED BY <3>1, <3>2
  <2>4. QED BY <1>0, <2>1, <2>3 DEF JobInv, Counting, Served, sends
<1>4. PlaceInv'
  BY <1>0 DEF PlaceInv, With, Queued
<1>5. QED BY <1>1, <1>2, <1>3, <1>4

(* What such a step tells of: of nobody, or of its client.                 *)
LEMMA StaysTells ==
  ASSUME ServiceInv, NEW w \in Threads, NEW x, NEW d \in Clients, job[w] = d, Stays(w, x)
  PROVE  /\ doing[w] \notin Counting /\ x \in Counting => CountTells({d})
         /\ (doing[w] \in Counting /\ x \in Counting) \/ (doing[w] \notin Counting /\ x \notin Counting)
               \/ ~Counted(d) => CountTells({})
         /\ doing[w] # "writing" /\ x = "writing" => LabelTells({d})
         /\ (doing[w] # "writing" /\ x # "writing") \/ ~Served(d) => LabelTells({})
         /\ doing[w] \notin Counting => ~Past(d, Counting)
         /\ doing[w] # "writing" => ~Past(d, {"writing"})
<1> USE DEF ServiceInv
<1>0. /\ doing' = [doing EXCEPT ![w] = x] /\ job' = job /\ fate' = fate /\ doing'[w] = x
      /\ \A v \in Threads : v # w => doing'[v] = doing[v]
  BY DEF Stays, GoesTo, ServiceTyped
<1>1. ASSUME NEW c \in Clients, c # d, NEW at
      PROVE  Past(c, at)' <=> Past(c, at)
  BY <1>0, <1>1 DEF Past
<1>2. ASSUME NEW at
      PROVE  (Past(d, at) <=> doing[w] \in at) /\ (Past(d, at)' <=> x \in at)
  BY <1>0 DEF Past, PlaceInv
<1>3. doing[w] \notin Counting /\ x \in Counting => CountTells({d})
  BY <1>0, <1>1, <1>2 DEF CountTells
<1>4. (doing[w] \in Counting /\ x \in Counting) \/ (doing[w] \notin Counting /\ x \notin Counting)
        \/ ~Counted(d) => CountTells({})
  BY <1>0, <1>1, <1>2 DEF CountTells
<1>5. doing[w] # "writing" /\ x = "writing" => LabelTells({d})
  BY <1>0, <1>1, <1>2 DEF LabelTells
<1>6. (doing[w] # "writing" /\ x # "writing") \/ ~Served(d) => LabelTells({})
  BY <1>0, <1>1, <1>2 DEF LabelTells
<1>7. QED BY <1>2, <1>3, <1>4, <1>5, <1>6

LEMMA ReadLineStep ==
  ASSUME ServiceInv, NEW w \in Threads, ReadLine(w)
  PROVE  ServiceInv'
<1> USE DEF ServiceInv
<1>0. /\ doing[w] = "reading" /\ job[w] \in Clients \cup {Wakeup} /\ Wakeup \notin Clients
      /\ job[w] \in Clients => fate[job[w]] = "waiting"
  BY AtWork, ServiceAssumption DEF ReadLine
<1>1. CASE Line(w) = "whole" /\ Stays(w, "handling") /\ UNCHANGED counters
  <2>1. job[w] \in Clients /\ sends[job[w]].line = "whole"
    BY <1>0, <1>1 DEF Line
  <2>2. ServiceTyped' /\ LoopInv' /\ JobInv' /\ PlaceInv'
    BY <1>0, <1>1, <2>1, StaysFrame DEF Counting, counters, metrics, ServiceTyped
  <2>3. CountTells({}) /\ LabelTells({})
    <3>1. doing[w] \notin Counting /\ "handling" \notin Counting /\ doing[w] # "writing"
      BY <1>0 DEF Counting
    <3>2. "handling" # "writing"
      OBVIOUS
    <3>3. QED BY <1>1, <2>1, <3>1, <3>2, StaysTells
  <2>4. Observing' = Observing /\ given' = given
    BY <1>0, <1>1 DEF Observing, Stays, GoesTo, ServiceTyped
  <2>5. QED BY <1>1, <2>2, <2>3, <2>4, CountersStay
<1>2. CASE Line(w) \in {"long", "slow"} /\ Stays(w, "draining") /\ NoteOverload
  <2>0. PICK c \in Clients : c = job[w]
    BY <1>0, <1>2 DEF Line
  <2>1. job[w] \in Clients /\ sends[job[w]].line \in {"long", "slow"} /\ Counted(job[w])
    BY <1>0, <1>2 DEF Line, Counted
  <2>2. ServiceTyped' /\ LoopInv' /\ JobInv' /\ PlaceInv'
    BY <1>0, <1>2, <2>1, StaysFrame DEF Counting, NoteOverload, ServiceTyped
  <2>3. CountTells({c}) /\ LabelTells({}) /\ ~Past(c, Counting)
    <3>1. doing[w] \notin Counting /\ "draining" \in Counting /\ doing[w] # "writing"
      BY <1>0 DEF Counting
    <3>2. "draining" # "writing"
      OBVIOUS
    <3>3. QED BY <1>2, <2>0, <3>1, <3>2, StaysTells
  <2>4. Observing' = Observing /\ given' = given
    BY <1>0, <1>2 DEF Observing, Stays, GoesTo, ServiceTyped
  <2>5. Counted(c) /\ fate[c] \notin Ended
    BY <1>0, <2>0, <2>1 DEF Ended, Counted
  <2>6. /\ accepted' + rejected' = accepted + rejected + 1
        /\ accepted' + rejected' = observed' + overloaded' + Cardinality(Observing')
    <3>1. /\ accepted \in Nat /\ rejected \in Nat /\ overloaded \in Nat /\ observed \in Nat
          /\ Cardinality(Observing) \in Nat
      <4>1. Observing \in SUBSET Threads
        BY DEF Observing
      <4>2. QED BY <4>1, ServiceAssumption, FS_Subset, FS_CardinalityType DEF ServiceTyped
    <3>2. /\ accepted' = accepted /\ rejected' = rejected + 1
          /\ overloaded' = overloaded + 1 /\ observed' = observed
          /\ Cardinality(Observing') = Cardinality(Observing)
      BY <1>2, <2>4 DEF NoteOverload
    <3>3. accepted + rejected = observed + overloaded + Cardinality(Observing)
      BY DEF CountInv
    <3>4. QED BY <3>1, <3>2, <3>3
  <2>7. CountInv'
    BY <2>2, <2>3, <2>4, <2>5, <2>6, CountsGrow
  <2>8. LabelInv'
    BY <1>2, <2>3, <2>4, LabelsKept DEF NoteOverload
  <2>9. QED BY <2>2, <2>7, <2>8
<1>3. CASE Line(w) = "gone" /\ Ends(w, "closed") /\ GoesTo(w, "idle") /\ UNCHANGED counters
  BY <1>0, <1>3, EndsStep DEF Ended
<1>4. QED BY <1>1, <1>2, <1>3 DEF ReadLine

(* A request is counted exactly if it was let in and is good or refused.   *)
LEMMA AdmittedCounts ==
  ASSUME ServiceTyped, NEW c \in Clients, given.bearer # "empty", sends[c].line = "whole"
  PROVE  /\ Counted(c) <=> Served(c)
         /\ Served(c) <=> Admitted(sends[c]) /\ sends[c].request \in {"good", "refused"}
  BY Given DEF Counted, Served, Admitted, WireVersion, CheckToken

LEMMA HandleLineStep ==
  ASSUME ServiceInv, NEW w \in Threads, HandleLine(w)
  PROVE  ServiceInv'
<1> USE DEF ServiceInv
<1>0. /\ doing[w] = "handling" /\ job[w] \in Clients /\ given.bearer # "empty"
      /\ fate[job[w]] = "waiting" /\ sends[job[w]].line = "whole"
      /\ Counted(job[w]) <=> Served(job[w])
      /\ Served(job[w]) <=> Admitted(sends[job[w]]) /\ sends[job[w]].request \in {"good", "refused"}
  <2>1. doing[w] = "handling"
    BY DEF HandleLine
  <2>2. job[w] \in Clients /\ given.bearer # "empty" /\ fate[job[w]] = "waiting"
    BY <2>1, AtWork
  <2>3. sends[job[w]].line = "whole"
    BY <2>1 DEF JobInv
  <2>4. QED BY <2>1, <2>2, <2>3, AdmittedCounts
<1>1. CASE Served(job[w])
  <2>0. PICK c \in Clients : c = job[w]
    BY <1>0
  <2>1. /\ Stays(w, "observing") /\ overloaded' = overloaded /\ observed' = observed
        /\ byLabel' = byLabel
        /\ \/ accepted' = accepted + 1 /\ rejected' = rejected
           \/ rejected' = rejected + 1 /\ accepted' = accepted
    BY <1>0, <1>1 DEF HandleLine, Handled, metrics
  <2>2. ServiceTyped' /\ LoopInv' /\ JobInv' /\ PlaceInv'
    BY <1>0, <1>1, <2>1, StaysFrame DEF Counting, ServiceTyped
  <2>3. CountTells({c}) /\ LabelTells({}) /\ ~Past(c, Counting)
    <3>1. doing[w] \notin Counting /\ "observing" \in Counting /\ doing[w] # "writing"
      BY <1>0 DEF Counting
    <3>2. "observing" # "writing"
      OBVIOUS
    <3>3. QED BY <2>0, <2>1, <3>1, <3>2, StaysTells
  <2>4. given' = given /\ Observing' = Observing \cup {w} /\ w \notin Observing
    BY <1>0, <2>1 DEF Observing, Stays, GoesTo, ServiceTyped
  <2>5. Counted(c) /\ fate[c] \notin Ended
    BY <1>0, <1>1, <2>0 DEF Ended, Counted
  <2>6. /\ accepted' + rejected' = accepted + rejected + 1
        /\ accepted' + rejected' = observed' + overloaded' + Cardinality(Observing')
    <3>1. /\ accepted \in Nat /\ rejected \in Nat /\ overloaded \in Nat /\ observed \in Nat
          /\ Cardinality(Observing) \in Nat /\ Cardinality(Observing') = Cardinality(Observing) + 1
      <4>1. Observing \in SUBSET Threads
        BY DEF Observing
      <4>2. IsFiniteSet(Observing)
        BY <4>1, ServiceAssumption, FS_Subset
      <4>3. Cardinality(Observing') = Cardinality(Observing) + 1
        BY <2>4, <4>2, FS_AddElement
      <4>4. QED BY <4>2, <4>3, FS_CardinalityType DEF ServiceTyped
    <3>2. accepted + rejected = observed + overloaded + Cardinality(Observing)
      BY DEF CountInv
    <3>3. accepted' + rejected' = accepted + rejected + 1
      BY <2>1, <3>1
    <3>4. observed' + overloaded' + Cardinality(Observing')
            = observed + overloaded + Cardinality(Observing) + 1
      BY <2>1, <3>1
    <3>5. QED BY <3>2, <3>3, <3>4
  <2>7. CountInv'
    BY <2>2, <2>3, <2>4, <2>5, <2>6, CountsGrow
  <2>8. LabelInv'
    BY <2>1, <2>3, <2>4, LabelsKept
  <2>9. QED BY <2>2, <2>7, <2>8
<1>2. CASE ~Served(job[w])
  <2>1. Stays(w, "writing") /\ UNCHANGED counters
    <3>1. sends[job[w]].request \in {"good", "refused", "scrape", "malformed"}
      BY <1>0, Given
    <3>2. CASE Admitted(sends[job[w]])
      BY <1>0, <1>2, <3>1, <3>2 DEF HandleLine, Handled, counters, Admitted
    <3>3. CASE ~Admitted(sends[job[w]])
      BY <3>3 DEF HandleLine
    <3>4. QED BY <3>2, <3>3
  <2>2. ServiceTyped' /\ LoopInv' /\ JobInv' /\ PlaceInv'
    BY <1>0, <2>1, StaysFrame DEF Counting, counters, metrics, ServiceTyped
  <2>3. CountTells({}) /\ LabelTells({})
    <3>1. PICK c \in Clients : c = job[w]
      BY <1>0
    <3>2. ~Counted(c) /\ ~Served(c)
      BY <1>0, <1>2, <3>1 DEF Counted
    <3>3. QED BY <2>1, <3>1, <3>2, StaysTells
  <2>4. Observing' = Observing /\ given' = given
    BY <1>0, <2>1 DEF Observing, Stays, GoesTo, ServiceTyped
  <2>5. QED BY <2>1, <2>2, <2>3, <2>4, CountersStay
<1>3. QED BY <1>1, <1>2

(* The namespace of an answer gets its count: under a label of its own     *)
(* while there is room, or if it has one.                                  *)
LEMMA LabelsGrow ==
  ASSUME ServiceTyped, LabelInv, given' = given, NEW c \in Clients, LabelTells({c}), Served(c),
         fate[c] \notin Ended, ~Past(c, {"writing"}), sends[c].ns # Nobody,
         NEW l, l = Label(sends[c].ns),
         byLabel' = [n \in DOMAIN byLabel \cup {l} |->
                       (IF n \in DOMAIN byLabel THEN byLabel[n] ELSE 0) + (IF n = l THEN 1 ELSE 0)]
  PROVE  LabelInv'
<1> DEFINE D == DOMAIN byLabel
<1>1. \A nm : ServedOf(nm)' = ServedOf(nm)
  BY GivenStays
<1>2. sends[c].ns \in Named /\ Other \notin Named /\ MaxNamespaces \in Nat
  BY Given, ServiceAssumption
<1>3. /\ D \subseteq Named \cup {Other} /\ IsFiniteSet(D) /\ \A n \in D : byLabel[n] \in Nat
      /\ Cardinality(D \ {Other}) <= MaxNamespaces
      /\ DOMAIN byLabel' = D \cup {l}
      /\ \A n \in D : byLabel'[n] = byLabel[n] + (IF n = l THEN 1 ELSE 0)
      /\ l \notin D => byLabel'[l] = 1
  BY DEF LabelInv
<1>4. l \in {sends[c].ns, Other} /\ (l # sends[c].ns => sends[c].ns \notin D)
  BY DEF Label
<1>5. IsFiniteSet(D \cup {l}) /\ Cardinality(D \cup {l}) \in Nat /\ Cardinality(D) \in Nat
      /\ Cardinality(D \cup {l}) = IF l \in D THEN Cardinality(D) ELSE Cardinality(D) + 1
  BY <1>3, FS_AddElement, FS_CardinalityType
<1>6. Cardinality(DOMAIN byLabel' \ {Other}) <= MaxNamespaces
  <2>1. CASE l = Other \/ l \in D
    <3>1. DOMAIN byLabel' \ {Other} = D \ {Other}
      BY <1>3, <2>1
    <3>2. QED BY <1>3, <3>1
  <2>2. CASE l # Other /\ l \notin D
    <3>1. Cardinality(D) < MaxNamespaces
      BY <2>2, <1>4 DEF Label
    <3>2. DOMAIN byLabel' \ {Other} \in SUBSET (D \cup {l})
      BY <1>3
    <3>3. Cardinality(DOMAIN byLabel' \ {Other}) <= Cardinality(D \cup {l})
          /\ Cardinality(DOMAIN byLabel' \ {Other}) \in Nat
      BY <3>2, <1>5, FS_Subset, FS_CardinalityType
    <3>4. QED BY <1>2, <1>5, <2>2, <3>1, <3>3
  <2>3. QED BY <2>1, <2>2
<1>7. \A n \in DOMAIN byLabel' : byLabel'[n] \in Nat
  BY <1>3
<1>8. ASSUME NEW nm \in Named
      PROVE  IF nm \in DOMAIN byLabel'
             THEN /\ Cardinality(Told(ServedOf(nm), {"writing"})') <= byLabel'[nm]
                  /\ byLabel'[nm] <= Cardinality(Through(ServedOf(nm), {"writing"})')
             ELSE Told(ServedOf(nm), {"writing"})' # {} => Cardinality(DOMAIN byLabel') >= MaxNamespaces
  <2> DEFINE T0 == Told(ServedOf(nm), {"writing"})
             T1 == Told(ServedOf(nm), {"writing"})'
             U0 == Through(ServedOf(nm), {"writing"})
             U1 == Through(ServedOf(nm), {"writing"})'
  <2>1. IsFiniteSet(T0) /\ IsFiniteSet(U1)
    <3>1. Through(ServedOf(nm), {"writing"})' \in SUBSET ServedOf(nm)
      BY <1>1 DEF Through
    <3>2. QED BY <3>1, FiniteParts, FS_Subset
  <2>2. IF nm \in D
        THEN Cardinality(T0) <= byLabel[nm] /\ byLabel[nm] <= Cardinality(U0)
        ELSE T0 # {} => Cardinality(D) >= MaxNamespaces
    BY DEF LabelInv
  <2>3. CASE sends[c].ns # nm
    <3>1. T1 \subseteq T0 /\ U0 \subseteq U1
      BY <1>1, <2>3 DEF LabelTells, Told, Through, ServedOf
    <3>2. nm # l
      BY <1>2, <1>4, <2>3
    <3> HIDE DEF T0, T1, U0, U1
    <3>3. /\ Cardinality(T1) <= Cardinality(T0) /\ Cardinality(U0) <= Cardinality(U1)
          /\ {Cardinality(T0), Cardinality(T1), Cardinality(U0), Cardinality(U1)} \subseteq Nat
      BY <2>1, <3>1, BoundsKept
    <3>4. CASE nm \in D
      <4>1. byLabel'[nm] = byLabel[nm] /\ nm \in DOMAIN byLabel' /\ byLabel[nm] \in Nat
        BY <1>3, <3>2, <3>4
      <4>2. Cardinality(T1) <= byLabel'[nm] /\ byLabel'[nm] <= Cardinality(U1)
        BY <2>2, <3>3, <3>4, <4>1
      <4>3. QED BY <4>1, <4>2 DEF T1, U1
    <3>5. CASE nm \notin D
      <4>1. nm \notin DOMAIN byLabel'
        BY <1>3, <3>2, <3>5
      <4>2. T1 # {} => Cardinality(D) >= MaxNamespaces
        BY <2>2, <3>1, <3>5
      <4>3. T1 # {} => Cardinality(DOMAIN byLabel') >= MaxNamespaces
        BY <1>2, <1>3, <1>5, <4>2
      <4>4. QED BY <4>1, <4>3 DEF T1
    <3>6. QED BY <3>4, <3>5
  <2>4. CASE sends[c].ns = nm
    <3>1. T1 \subseteq T0 \cup {c} /\ U0 \cup {c} \subseteq U1 /\ c \notin U0
      BY <1>1, <2>4 DEF LabelTells, Told, Through, ServedOf
    <3> HIDE DEF T0, T1, U0, U1
    <3>2. /\ Cardinality(T1) <= Cardinality(T0) + 1 /\ Cardinality(U0) + 1 <= Cardinality(U1)
          /\ {Cardinality(T0), Cardinality(T1), Cardinality(U0), Cardinality(U1)} \subseteq Nat
      BY <2>1, <3>1, BoundsGrow
    <3>3. CASE nm \in D
      <4>1. l = nm
        BY <2>4, <3>3, <1>4
      <4>2. byLabel'[nm] = byLabel[nm] + 1 /\ nm \in DOMAIN byLabel' /\ byLabel[nm] \in Nat
        BY <1>3, <3>3, <4>1
      <4>3. Cardinality(T1) <= byLabel'[nm] /\ byLabel'[nm] <= Cardinality(U1)
        BY <2>2, <3>2, <3>3, <4>2
      <4>4. QED BY <4>2, <4>3 DEF T1, U1
    <3>4. CASE nm \notin D /\ l = nm
      <4>1. byLabel'[nm] = 1 /\ nm \in DOMAIN byLabel'
        BY <1>3, <3>4
      <4>2. Cardinality(D) < MaxNamespaces
        BY <2>4, <3>4, <1>2 DEF Label
      <4>3. T0 = {}
        BY <1>2, <1>5, <2>2, <3>4, <4>2
      <4>4. Cardinality(T0) = 0
        BY <4>3, FS_EmptySet
      <4>5. Cardinality(T1) <= 1 /\ 1 <= Cardinality(U1)
        BY <3>2, <4>4
      <4>6. QED BY <4>1, <4>5 DEF T1, U1
    <3>5. CASE nm \notin D /\ l # nm
      <4>1. l = Other /\ Cardinality(D) >= MaxNamespaces
        BY <1>2, <1>5, <2>4, <3>5 DEF Label
      <4>2. nm \notin DOMAIN byLabel' /\ Cardinality(DOMAIN byLabel') >= MaxNamespaces
        BY <1>2, <1>3, <1>5, <3>5, <4>1
      <4>3. QED BY <4>2
    <3>6. QED BY <3>3, <3>4, <3>5
  <2>5. QED BY <2>3, <2>4
<1>9. /\ DOMAIN byLabel' \subseteq Named \cup {Other} /\ IsFiniteSet(DOMAIN byLabel')
      /\ byLabel' = [n \in DOMAIN byLabel' |-> byLabel'[n]]
  BY <1>2, <1>3, <1>4, <1>5
<1>10. QED BY <1>6, <1>7, <1>8, <1>9 DEF LabelInv

LEMMA ObserveRpcStep ==
  ASSUME ServiceInv, NEW w \in Threads, ObserveRpc(w)
  PROVE  ServiceInv'
<1> USE DEF ServiceInv
<1>1. /\ doing[w] = "observing" /\ job[w] \in Clients /\ fate[job[w]] = "waiting"
      /\ sends[job[w]].line = "whole" /\ Served(job[w])
      /\ given.routable => given.bearer = "secret"
      /\ Stays(w, "writing") /\ given' = given
      /\ observed' = observed + 1 /\ accepted' = accepted /\ rejected' = rejected
      /\ overloaded' = overloaded
  <2>1. doing[w] = "observing"
    BY DEF ObserveRpc
  <2>2. job[w] \in Clients /\ fate[job[w]] = "waiting" /\ (given.routable => given.bearer = "secret")
    BY <2>1, AtWork DEF Counting
  <2>3. sends[job[w]].line = "whole" /\ Served(job[w])
    BY <2>1 DEF JobInv
  <2>4. QED BY <2>1, <2>2, <2>3 DEF ObserveRpc, Stays
<1>2. PICK c \in Clients : c = job[w]
  BY <1>1
<1>3. ServiceTyped' /\ LoopInv' /\ JobInv' /\ PlaceInv'
  BY <1>1, StaysFrame DEF Counting, ServiceTyped
<1>4. CountTells({}) /\ LabelTells({c}) /\ ~Past(c, {"writing"})
  <2>1. doing[w] \in Counting /\ "writing" \in Counting /\ doing[w] # "writing"
    BY <1>1 DEF Counting
  <2>2. QED BY <1>1, <1>2, <2>1, StaysTells
<1>5. Observing' = Observing \ {w} /\ w \in Observing
  BY <1>1 DEF Observing, Stays, GoesTo, ServiceTyped
<1>6. CountInv'
  <2>1. /\ accepted \in Nat /\ rejected \in Nat /\ overloaded \in Nat /\ observed \in Nat
        /\ Cardinality(Observing) \in Nat /\ Cardinality(Observing') = Cardinality(Observing) - 1
    <3>1. Observing \in SUBSET Threads
      BY DEF Observing
    <3>2. IsFiniteSet(Observing)
      BY <3>1, ServiceAssumption, FS_Subset
    <3>3. Cardinality(Observing') = Cardinality(Observing) - 1
      BY <1>5, <3>2, FS_RemoveElement
    <3>4. QED BY <3>2, <3>3, FS_CardinalityType DEF ServiceTyped
  <2>2. accepted' + rejected' = observed' + overloaded' + Cardinality(Observing')
    <3>1. accepted + rejected = observed + overloaded + Cardinality(Observing)
      BY DEF CountInv
    <3>2. observed' + overloaded' + Cardinality(Observing')
            = observed + overloaded + Cardinality(Observing)
      BY <1>1, <2>1
    <3>3. QED BY <1>1, <3>1, <3>2
  <2>3. QED BY <1>1, <1>4, <2>2, ToldKept
<1>7. LabelInv'
  <2>1. c = job[w]
    BY <1>2
  <2>2. LabelTells({c}) /\ Served(c) /\ fate[c] \notin Ended /\ ~Past(c, {"writing"})
    BY <1>1, <1>4, <2>1 DEF Ended, Served
  <2>3. CASE sends[c].ns = Nobody
    <3>1. byLabel' = byLabel
      BY <2>1, <2>3 DEF ObserveRpc
    <3>2. \A nm \in Named : c \notin ServedOf(nm)
      BY <2>3, ServiceAssumption DEF ServedOf
    <3>3. QED BY <1>1, <2>2, <3>1, <3>2, LabelsBut
  <2>4. CASE sends[c].ns # Nobody
    <3>1. PICK l : l = Label(sends[c].ns)
      OBVIOUS
    <3>2. byLabel' = [n \in DOMAIN byLabel \cup {l} |->
                       (IF n \in DOMAIN byLabel THEN byLabel[n] ELSE 0) + (IF n = l THEN 1 ELSE 0)]
      BY <2>1, <2>4, <3>1 DEF ObserveRpc
    <3>3. QED BY <1>1, <2>2, <2>4, <3>1, <3>2, LabelsGrow
  <2>5. QED BY <2>3, <2>4
<1>8. QED BY <1>3, <1>6, <1>7

-----------------------------------------------------------------------------
LEMMA ServiceStarts ==
  ASSUME ServiceInit
  PROVE  ServiceInv
<1> USE DEF ServiceInit
<1>0. /\ \A c \in Clients : \A at : ~Past(c, at) \/ "idle" \in at
      /\ Observing = {} /\ Nobody \notin Clients
  BY ServiceAssumption DEF Past, Observing
<1>1. ServiceTyped
  BY DEF ServiceTyped, ThreadStates, Ended
<1>2. LoopInv
  BY DEF LoopInv, Serving
<1>3. JobInv
  BY DEF JobInv, Counting
<1>4. PlaceInv
  BY <1>0 DEF PlaceInv, With, Queued
<1>5. CountInv
  <2>1. "idle" \notin Counting
    BY DEF Counting
  <2>2. Told(AllCounted, Counting) = {} /\ Through(AllCounted, Counting) = {}
    BY <1>0, <2>1 DEF Told, Through, AllCounted, Ended
  <2>3. QED BY <1>0, <2>2, FS_EmptySet DEF CountInv
<1>6. LabelInv
  <2>1. \A nm : Told(ServedOf(nm), {"writing"}) = {}
    BY <1>0 DEF Told, ServedOf
  <2>2. DOMAIN byLabel = {} /\ DOMAIN byLabel \ {Other} = {}
    OBVIOUS
  <2>3. byLabel = [l \in DOMAIN byLabel |-> byLabel[l]]
    OBVIOUS
  <2>4. QED BY <2>1, <2>2, <2>3, FS_EmptySet, ServiceAssumption DEF LabelInv
<1>7. QED BY <1>1, <1>2, <1>3, <1>4, <1>5, <1>6 DEF ServiceInv

LEMMA ServiceSteps ==
  ASSUME ServiceInv, [ServiceNext]_serviceVars
  PROVE  ServiceInv'
<1>1. ASSUME NEW c \in Clients, Connect(c)
      PROVE  ServiceInv'
  BY <1>1, ConnectStep
<1>2. CASE CloseStdin \/ StopRunning \/ UNCHANGED serviceVars
  <2>1. UNCHANGED <<given, backlog, loop, stream, poolVars, counters, fate>>
    BY <1>2 DEF CloseStdin, StopRunning, serviceVars, loopVars, poolVars, counters, metrics
  <2>2. loop' \in {"bind", "open", "limits"} => watcher' = "none"
    BY <1>2, <2>1 DEF CloseStdin, StopRunning, serviceVars, ServiceInv, LoopInv
  <2>3. QED BY <2>1, <2>2, LoopMoves
<1>3. CASE AcceptFails
  BY <1>3, LoopMoves DEF AcceptFails, Loop
<1>4. CASE Bind
  <2>1. watcher = "none"
    BY <1>4 DEF Bind, ServiceInv, LoopInv
  <2>2. QED BY <1>4, <2>1, LoopMoves DEF Bind
<1>5. CASE OpenStore
  <2>1. CASE GiveUp
    BY <1>5, <2>1, GiveUpStep DEF OpenStore
  <2>2. CASE ~GiveUp
    <3>1. watcher = "none"
      BY <1>5 DEF OpenStore, ServiceInv, LoopInv
    <3>2. QED BY <1>5, <2>2, <3>1, LoopMoves DEF OpenStore
  <2>3. QED BY <2>1, <2>2
<1>6. CASE Watch
  <2>1. CASE GiveUp
    BY <1>6, <2>1, GiveUpStep DEF Watch
  <2>2. CASE ~GiveUp
    BY <1>6, <2>2, LoopMoves DEF Watch, RefuseUnauthenticatedRoutable, Refuses
  <2>3. QED BY <2>1, <2>2
<1>7. CASE CheckGoing
  BY <1>7, LoopMoves DEF CheckGoing, Loop
<1>8. CASE Accept
  BY <1>8, AcceptStep
<1>9. CASE CheckAgain
  BY <1>9, CheckAgainStep
<1>10. CASE Return
  BY <1>10, ReturnStep
<1>11. CASE WakeAccept
  BY <1>11, WakeAcceptStep
<1>12. ASSUME NEW w \in Threads, WorkerStep(w)
       PROVE  ServiceInv'
  <2>1. CASE LockReceiver(w) BY <2>1, LockReceiverStep
  <2>2. CASE Receive(w) BY <2>2, ReceiveStep
  <2>3. CASE ReceiveNone(w) BY <2>3, ReceiveNoneStep
  <2>4. CASE ReadLine(w) BY <2>4, ReadLineStep
  <2>5. CASE HandleLine(w) BY <2>5, HandleLineStep
  <2>6. CASE ObserveRpc(w) BY <2>6, ObserveRpcStep
  <2>7. CASE WriteResponse(w) BY <2>7, EndsStep DEF WriteResponse, Ended
  <2>8. CASE WriteFailClosed(w) BY <2>8, EndsStep DEF WriteFailClosed, Ended
  <2>9. QED BY <1>12, <2>1, <2>2, <2>3, <2>4, <2>5, <2>6, <2>7, <2>8 DEF WorkerStep
<1>13. ASSUME NEW w \in Threads, Panic(w)
       PROVE  ServiceInv'
  BY <1>13, EndsStep DEF Panic, Ended
<1>14. QED
  BY <1>1, <1>2, <1>3, <1>4, <1>5, <1>6, <1>7, <1>8, <1>9, <1>10, <1>11, <1>12, <1>13
  DEF ServiceNext, LoopStep, WatcherStep

(* The counts of the property are those of the invariant without the       *)
(* workers between counting and answering.                                 *)
LEMMA ServiceTells ==
  ASSUME ServiceInv
  PROVE  NothingHalfServed
<1> USE DEF ServiceInv
<1>1. ASSUME NEW c \in Clients, fate[c] = "waiting"
      PROVE  Cardinality(With(c)) + (IF stream = c THEN 1 ELSE 0)
               + Cardinality({i \in DOMAIN backlog : backlog[i] = c}) = 1
  <2>1. {i \in DOMAIN backlog : backlog[i] = c} = Queued(c)
    BY DEF Queued
  <2>2. Cardinality({}) = 0
    BY FS_EmptySet
  <2>3. CASE stream = c
    <3>1. With(c) = {} /\ Queued(c) = {}
      BY <2>3 DEF PlaceInv
    <3>2. QED BY <2>1, <2>2, <2>3, <3>1
  <2>4. CASE stream # c /\ With(c) # {}
    <3>1. PICK w \in Threads : With(c) = {w}
      <4>1. PICK w \in Threads : job[w] = c
        BY <2>4 DEF With
      <4>2. With(c) = {w}
        BY <4>1 DEF With, PlaceInv
      <4>3. QED BY <4>2
    <3>2. Cardinality(With(c)) = 1 /\ Queued(c) = {}
      BY <2>4, <3>1, FS_Singleton DEF PlaceInv
    <3>3. QED BY <2>1, <2>2, <2>4, <3>2
  <2>5. CASE stream # c /\ With(c) = {}
    <3>1. Queued(c) # {}
      BY <1>1, <2>5 DEF PlaceInv
    <3>2. PICK i : i \in Queued(c)
      BY <3>1
    <3>3. Queued(c) = {i}
      BY <3>2 DEF Queued, PlaceInv
    <3>4. Cardinality(Queued(c)) = 1
      BY <3>3, FS_Singleton
    <3>5. QED BY <2>1, <2>2, <2>5, <3>4
  <2>6. QED BY <2>3, <2>4, <2>5
<1>2. ASSUME NEW of \in SUBSET Clients, NEW at
      PROVE  /\ {c \in of : fate[c] = "answered"} \subseteq Told(of, at)
             /\ Through(of, at) \subseteq {c \in of : fate[c] # "away"}
  <2>1. \A c \in Clients : Past(c, at) => fate[c] = "waiting"
    BY DEF PlaceInv, With, Past
  <2>2. QED BY <2>1 DEF Told, Through, Ended
<1>3. ASSUME NEW of \in SUBSET Clients, NEW at
      PROVE  /\ Cardinality({c \in of : fate[c] = "answered"}) <= Cardinality(Told(of, at))
             /\ Cardinality(Through(of, at)) <= Cardinality({c \in of : fate[c] # "away"})
             /\ {Cardinality({c \in of : fate[c] = "answered"}), Cardinality(Told(of, at)),
                 Cardinality(Through(of, at)), Cardinality({c \in of : fate[c] # "away"})} \subseteq Nat
  <2>1. IsFiniteSet(of)
    BY ServiceAssumption, FS_Subset
  <2>2. {c \in of : fate[c] # "away"} \in SUBSET of
    OBVIOUS
  <2>3. IsFiniteSet({c \in of : fate[c] # "away"}) /\ IsFiniteSet(Told(of, at))
    BY <2>1, <2>2, FS_Subset, FiniteParts
  <2> DEFINE T1 == {c \in of : fate[c] = "answered"}
             U1 == {c \in of : fate[c] # "away"}
  <2>4. T1 \subseteq Told(of, at) /\ Through(of, at) \subseteq U1
    BY <1>2
  <2>5. IsFiniteSet(U1)
    BY <2>3
  <2> HIDE DEF T1, U1
  <2>6. /\ Cardinality(T1) <= Cardinality(Told(of, at))
        /\ Cardinality(Through(of, at)) <= Cardinality(U1)
        /\ {Cardinality(Told(of, at)), Cardinality(T1), Cardinality(Through(of, at)), Cardinality(U1)}
             \subseteq Nat
    BY <2>3, <2>4, <2>5, BoundsKept
  <2>7. QED BY <2>6 DEF T1, U1
<1>4. ConnectionsOwned
  <2>1. Cardinality({c \in AllCounted : fate[c] = "answered"}) <= accepted + rejected
        /\ accepted + rejected <= Cardinality({c \in AllCounted : fate[c] # "away"})
    <3>1. AllCounted \in SUBSET Clients
      BY DEF AllCounted
    <3>2. accepted + rejected \in Nat
      BY DEF ServiceTyped
    <3> DEFINE n == accepted + rejected
    <3>3. Cardinality(Told(AllCounted, Counting)) <= n /\ n <= Cardinality(Through(AllCounted, Counting))
      BY DEF CountInv
    <3>4. n \in Nat
      BY <3>2
    <3> HIDE DEF n
    <3>5. Cardinality({c \in AllCounted : fate[c] = "answered"}) <= n
          /\ n <= Cardinality({c \in AllCounted : fate[c] # "away"})
      BY <1>3, <3>1, <3>3, <3>4
    <3>6. QED BY <3>5 DEF n
  <2>2. /\ {c \in Clients : fate[c] = "answered" /\ Counted(c)} = {c \in AllCounted : fate[c] = "answered"}
        /\ {c \in Clients : fate[c] # "away" /\ Counted(c)} = {c \in AllCounted : fate[c] # "away"}
    BY DEF AllCounted
  <2>3. loop = "returned" => /\ \A w \in Threads : job[w] = Nobody
                             /\ \A c \in Clients : fate[c] # "waiting"
    BY DEF LoopInv, Serving
  <2>4. QED BY <1>1, <2>1, <2>2, <2>3 DEF ConnectionsOwned
<1>5. MetricsAgree
  <2>1. ASSUME NEW nm \in DOMAIN byLabel \ {Other}
        PROVE  /\ Cardinality({c \in ServedOf(nm) : fate[c] = "answered"}) <= byLabel[nm]
               /\ byLabel[nm] <= Cardinality({c \in ServedOf(nm) : fate[c] # "away"})
    <3>1. ServedOf(nm) \in SUBSET Clients
      BY DEF ServedOf
    <3>2. byLabel[nm] \in Nat /\ Cardinality(Told(ServedOf(nm), {"writing"})) <= byLabel[nm]
          /\ byLabel[nm] <= Cardinality(Through(ServedOf(nm), {"writing"}))
      BY DEF LabelInv
    <3> DEFINE of == ServedOf(nm)
               n == byLabel[nm]
    <3>3. of \in SUBSET Clients /\ n \in Nat /\ Cardinality(Told(of, {"writing"})) <= n
          /\ n <= Cardinality(Through(of, {"writing"}))
      BY <3>1, <3>2
    <3> HIDE DEF of, n
    <3>4. /\ Cardinality({c \in of : fate[c] = "answered"}) <= Cardinality(Told(of, {"writing"}))
          /\ Cardinality(Through(of, {"writing"})) <= Cardinality({c \in of : fate[c] # "away"})
          /\ Cardinality({c \in of : fate[c] = "answered"}) \in Nat
          /\ Cardinality(Told(of, {"writing"})) \in Nat /\ Cardinality(Through(of, {"writing"})) \in Nat
          /\ Cardinality({c \in of : fate[c] # "away"}) \in Nat
      BY <1>3, <3>3
    <3>5. Cardinality({c \in of : fate[c] = "answered"}) <= n
          /\ n <= Cardinality({c \in of : fate[c] # "away"})
      BY <3>3, <3>4
    <3>6. QED BY <3>5 DEF of, n
  <2>2. Cardinality(DOMAIN byLabel \ {Other}) <= MaxNamespaces
    BY DEF LabelInv
  <2>3. accepted + rejected = observed + overloaded + Cardinality({w \in Threads : doing[w] = "observing"})
    BY DEF CountInv, Observing
  <2>4. QED BY <2>1, <2>2, <2>3 DEF MetricsAgree, ServedOf
<1>6. given.routable /\ observed > 0 => given.bearer = "secret"
  BY DEF LoopInv
<1>7. QED BY <1>4, <1>5, <1>6 DEF NothingHalfServed

(* For any pool, any clients and any panics: every connection is with one  *)
(* thread, the counters tell each answer that counts and no request twice, *)
(* the labels tell the same by namespace, and on an address others reach   *)
(* nobody is served without a bearer (serve_while, handle_connection,      *)
(* metrics.rs).                                                            *)
THEOREM NothingEverHalfServed == ServiceSpec => []NothingHalfServed
<1>1. ServiceInit => ServiceInv
  BY ServiceStarts
<1>2. ServiceInv /\ [ServiceNext]_serviceVars => ServiceInv'
  BY ServiceSteps
<1>3. ServiceInv => NothingHalfServed
  BY ServiceTells
<1>4. QED BY <1>1, <1>2, <1>3, PTL DEF ServiceSpec

=============================================================================
