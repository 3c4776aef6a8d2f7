--------------------------- MODULE HostScheduler ---------------------------
(***************************************************************************)
(* Who may touch the store of a host, and when: the FairScheduler of       *)
(* crates/mikura-host/src/execution.rs, the SharedStore of                 *)
(* src/store/shared.rs, and the three ways the workers of                  *)
(* crates/mikura-host/src/lib.rs go through them:                          *)
(*                                                                         *)
(*   read    read permit, reader lock, evaluate                            *)
(*   write   write permit, writer mutex, store lock, apply and commit      *)
(*   batch   no permit: writer mutex, then admission and log write under   *)
(*           the reader lock, the apply and the sidecar's bookkeeping      *)
(*           under the store lock, or back to the write path               *)
(*                                                                         *)
(* A step is one critical section.  A worker blocked on the condition      *)
(* variable sleeps until somebody notifies it.  What the store holds is    *)
(* abstracted to whether it changed since a worker looked.                 *)
(***************************************************************************)
EXTENDS Naturals, FiniteSets

CONSTANTS
  Workers,      \* threads of the worker pool
  Namespaces,   \* namespaces of read requests
  MaxReads,     \* State::max_reads
  Loads,        \* what may be asked of the pool: the kinds of request each
                \* worker receives, and whether they never stop
  MaxRequests,  \* bound: requests the pool receives when they do stop
  NoOne         \* not a worker, not a namespace

ASSUME PoolAssumption ==
  /\ IsFiniteSet(Workers) /\ NoOne \notin Workers
  /\ IsFiniteSet(Namespaces) /\ Namespaces # {} /\ NoOne \notin Namespaces
  /\ MaxReads \in Nat \ {0}
ASSUME RequestAssumption ==
  /\ Loads \subseteq [asks : [Workers -> SUBSET {"read", "write", "batch"}], endless : BOOLEAN]
  /\ MaxRequests \in Nat

VARIABLES
  inflight,      \* State::inflight_reads
  byNs,          \* State::by_ns
  writerActive,  \* State::writer_active
  writerWaiters, \* State::writer_waiters
  mutex,         \* holder of SharedStore::writer
  readers,       \* holders of a read guard of SharedStore::store
  excl,          \* holder of its write guard
  poison,        \* which of the two locks a panic poisoned
  pending,       \* stream pushes are applied and not committed
  ahead,         \* the log holds a commit the live projection does not
  failed,        \* LogWriter::failed: the commit point is uncertain
  pc,            \* where each worker is
  ns,            \* namespace of each worker's read
  stale,         \* history: the store changed since the worker looked at it
  requests,      \* history: requests received
  load           \* what this pool is asked, an element of Loads

schedVars == <<inflight, byNs, writerActive, writerWaiters>>
lockVars == <<mutex, readers, excl>>
storeVars == <<poison, pending, ahead, failed, stale>>
vars == <<schedVars, lockVars, storeVars, pc, ns, requests, load>>

Goto(w, at) == pc' = [pc EXCEPT ![w] = at]

-----------------------------------------------------------------------------
(* FairScheduler.                                                          *)

Others(n) == {m \in Namespaces : m # n /\ byNs[m] > 0}

Half == IF MaxReads \div 2 > 1 THEN MaxReads \div 2 ELSE 1

(* namespace_can_take                                                      *)
NamespaceCanTake(n) == Others(n) = {} \/ byNs[n] < Half

(* Mutant of CanRead: a waiting writer does not hold reads back.           *)
CanReadPastWriters(n) ==
  /\ ~writerActive
  /\ inflight < MaxReads
  /\ NamespaceCanTake(n)

CanRead(n) ==
  /\ ~writerActive /\ writerWaiters = 0
  /\ inflight < MaxReads
  /\ NamespaceCanTake(n)

(* Mutant of CanWrite: reads in flight are not waited for.                 *)
CanWriteBesideReads == ~writerActive

CanWrite == ~writerActive /\ inflight = 0

Woken(at) == IF at = "read_wait" THEN "read_try"
             ELSE IF at = "write_wait" THEN "write_try" ELSE at

(* Mutant of NotifyAll: nobody is notified.                                *)
NotifyNobody(w, at) == Goto(w, at)

(* notify_all, and w goes on at.                                           *)
NotifyAll(w, at) == pc' = [v \in Workers |-> IF v = w THEN at ELSE Woken(pc[v])]

(* A worker takes a connection with one request: a read of a namespace, a  *)
(* write or a batch.                                                       *)
Arrive(w, kind, n, at) ==
  /\ pc[w] = "idle" /\ kind \in load.asks[w]
  /\ load.endless \/ requests < MaxRequests
  /\ requests' = IF load.endless THEN requests ELSE requests + 1
  /\ ns' = [ns EXCEPT ![w] = n]
  /\ Goto(w, at)
  /\ UNCHANGED <<schedVars, lockVars, storeVars, load>>

ArriveRead(w, n) == Arrive(w, "read", n, "read_try")
ArriveWrite(w) == Arrive(w, "write", NoOne, "write_enter")
ArriveBatch(w) == Arrive(w, "batch", NoOne, "batch_mutex")

(* One turn of the loop of acquire_read.                                   *)
AcquireRead(w) ==
  /\ pc[w] = "read_try"
  /\ \/ /\ CanRead(ns[w])
        /\ inflight' = inflight + 1
        /\ byNs' = [byNs EXCEPT ![ns[w]] = @ + 1]
        /\ Goto(w, "read_lock")
     \/ /\ ~CanRead(ns[w])
        /\ Goto(w, "read_wait")
        /\ UNCHANGED <<inflight, byNs>>
  /\ UNCHANGED <<writerActive, writerWaiters, lockVars, storeVars, ns, requests, load>>

(* Mutant of AcquireWrite: every turn of the loop counts a waiter.         *)
AcquireWriteRecounts(w) ==
  /\ pc[w] \in {"write_enter", "write_try"}
  /\ \/ /\ CanWrite
        /\ writerActive' = TRUE
        /\ Goto(w, "write_mutex")
        /\ UNCHANGED writerWaiters
     \/ /\ ~CanWrite
        /\ writerWaiters' = writerWaiters + 1
        /\ Goto(w, "write_wait")
        /\ UNCHANGED writerActive
  /\ UNCHANGED <<inflight, byNs, lockVars, storeVars, ns, requests, load>>

(* acquire_write: count as a waiter, then the first or a later turn of its *)
(* loop.                                                                   *)
AcquireWrite(w) ==
  /\ pc[w] \in {"write_enter", "write_try"}
  /\ LET waiters == IF pc[w] = "write_enter" THEN writerWaiters + 1
                    ELSE writerWaiters
     IN  \/ /\ CanWrite
            /\ writerWaiters' = waiters - 1 /\ writerActive' = TRUE
            /\ Goto(w, "write_mutex")
         \/ /\ ~CanWrite
            /\ writerWaiters' = waiters
            /\ Goto(w, "write_wait")
            /\ UNCHANGED writerActive
  /\ UNCHANGED <<inflight, byNs, lockVars, storeVars, ns, requests, load>>

(* A condition variable may wake a thread that nobody notified.            *)
SpuriousWakeup(w) ==
  /\ pc[w] \in {"read_wait", "write_wait"}
  /\ Goto(w, Woken(pc[w]))
  /\ UNCHANGED <<schedVars, lockVars, storeVars, ns, requests, load>>

(* Drop of ReadPermit and of WritePermit: the end of the request.          *)
DropReadPermit(w) ==
  /\ pc[w] = "read_drop"
  /\ inflight' = inflight - 1
  /\ byNs' = [byNs EXCEPT ![ns[w]] = @ - 1]
  /\ ns' = [ns EXCEPT ![w] = NoOne]
  /\ NotifyAll(w, "idle")
  /\ UNCHANGED <<writerActive, writerWaiters, lockVars, storeVars, requests, load>>

DropWritePermit(w) ==
  /\ pc[w] = "write_drop"
  /\ writerActive' = FALSE
  /\ NotifyAll(w, "idle")
  /\ UNCHANGED <<inflight, byNs, writerWaiters, lockVars, storeVars, ns, requests, load>>

-----------------------------------------------------------------------------
(* SharedStore.  The reader/writer lock does not admit a reader while a    *)
(* thread waits for the write guard; that thread holds the writer mutex.   *)

WantsExclusive(w) == pc[w] \in {"write_store", "batch_store", "batch_adopt"}

ReadGuardFree == excl = NoOne /\ \A v \in Workers : ~WantsExclusive(v)

Changed(w) == stale' = [v \in Workers |-> IF v = w THEN stale[v] ELSE TRUE]

(* with_read: the guard, or an error from a poisoned lock.                 *)
LockForRead(w) ==
  /\ pc[w] = "read_lock" /\ ReadGuardFree
  /\ \/ /\ "store" \in poison
        /\ Goto(w, "read_drop")
        /\ UNCHANGED <<readers, stale>>
     \/ /\ "store" \notin poison
        /\ readers' = readers \union {w}
        /\ stale' = [stale EXCEPT ![w] = FALSE]
        /\ Goto(w, "reading")
  /\ UNCHANGED <<schedVars, mutex, excl, poison, pending, ahead, failed, ns, requests, load>>

FinishRead(w) ==
  /\ pc[w] = "reading"
  /\ readers' = readers \ {w}
  /\ Goto(w, "read_drop")
  /\ UNCHANGED <<schedVars, mutex, excl, storeVars, ns, requests, load>>

(* SharedStore::write and append_batch take the writer mutex first.        *)
LockWriter(w) ==
  /\ pc[w] \in {"write_mutex", "batch_mutex"} /\ mutex = NoOne
  /\ \/ /\ "writer" \in poison
        /\ Goto(w, IF pc[w] = "write_mutex" THEN "write_drop" ELSE "idle")
        /\ UNCHANGED mutex
     \/ /\ "writer" \notin poison
        /\ mutex' = w
        /\ Goto(w, IF pc[w] = "write_mutex" THEN "write_store" ELSE "batch_read")
  /\ UNCHANGED <<schedVars, readers, excl, storeVars, ns, requests, load>>

(* store.write(): with_write, the apply of a batch, adopt_delta.  A batch  *)
(* that is durable and cannot be applied fails the log.                    *)
LockStore(w) ==
  /\ WantsExclusive(w) /\ excl = NoOne /\ readers = {}
  /\ IF "store" \in poison
     THEN /\ mutex' = NoOne
          /\ failed' = (failed \/ pc[w] = "batch_store")
          /\ Goto(w, IF pc[w] = "write_store" THEN "write_drop" ELSE "idle")
          /\ UNCHANGED excl
     ELSE /\ excl' = w
          /\ Goto(w, IF pc[w] = "write_store" THEN "writing"
                     ELSE IF pc[w] = "batch_store" THEN "applying"
                     ELSE "adopting")
          /\ UNCHANGED <<mutex, failed>>
  /\ UNCHANGED <<schedVars, readers, poison, pending, ahead, stale, ns, requests, load>>

Unlock == mutex' = NoOne /\ excl' = NoOne

(* The closure of with_write: an error changes nothing, a stream push      *)
(* stays uncommitted, every other write commits what is pending.  A flush  *)
(* whose superblock fails, or a batch that cannot be rolled back, fails    *)
(* the log, and a failed log takes no write (ensure_usable).               *)
Write(w) ==
  /\ pc[w] = "writing"
  /\ \/ UNCHANGED <<pending, failed, stale>>
     \/ /\ ~failed
        /\ Changed(w) /\ pending' \in BOOLEAN /\ failed' \in BOOLEAN
  /\ Unlock
  /\ Goto(w, "write_drop")
  /\ UNCHANGED <<schedVars, readers, poison, ahead, ns, requests, load>>

(* A panic under the write guard poisons both locks on the way out.  The   *)
(* thread ends with it: such a worker is one that receives nothing more    *)
(* (no request is ever bound to come).                                     *)
PanicExclusive(w) ==
  /\ pc[w] \in {"writing", "applying", "adopting"}
  /\ poison' = {"store", "writer"}
  /\ \/ UNCHANGED <<pending, stale>>
     \/ ~failed /\ Changed(w) /\ pending' \in BOOLEAN
  /\ Unlock
  /\ Goto(w, IF pc[w] = "writing" THEN "write_drop" ELSE "idle")
  /\ UNCHANGED <<schedVars, readers, ahead, failed, ns, requests, load>>

(* append_batch, step 1: shared access.                                    *)
LockBatchRead(w) ==
  /\ pc[w] = "batch_read" /\ ReadGuardFree
  /\ IF "store" \in poison
     THEN /\ mutex' = NoOne
          /\ Goto(w, "idle")
          /\ UNCHANGED <<readers, stale>>
     ELSE /\ readers' = readers \union {w}
          /\ stale' = [stale EXCEPT ![w] = FALSE]
          /\ Goto(w, "admitting")
          /\ UNCHANGED mutex
  /\ UNCHANGED <<schedVars, excl, poison, pending, ahead, failed, ns, requests, load>>

(* Mutants of Admit: uncommitted pushes are not looked at; the writer      *)
(* mutex guards the admission only.                                        *)
AdmitBesidePending(w) ==
  /\ pc[w] = "admitting"
  /\ Goto(w, "logging")
  /\ UNCHANGED <<schedVars, lockVars, storeVars, ns, requests, load>>

AdmitUnlocks(w) ==
  /\ pc[w] = "admitting" /\ ~pending
  /\ Goto(w, "logging")
  /\ mutex' = NoOne
  /\ UNCHANGED <<schedVars, readers, excl, storeVars, ns, requests, load>>

(* prepare_batch: stage refuses a failed writer and one with something     *)
(* pending, and other batches are refused for what they hold.  Those take  *)
(* the write path.                                                         *)
Admit(w) ==
  /\ pc[w] = "admitting"
  /\ \/ /\ ~pending /\ ~failed
        /\ Goto(w, "logging")
        /\ UNCHANGED <<mutex, readers>>
     \/ /\ mutex' = NoOne /\ readers' = readers \ {w}
        /\ Goto(w, "write_enter")
  /\ UNCHANGED <<schedVars, excl, storeVars, ns, requests, load>>

(* Mutant of WriteStaged: a superblock that failed does not fail the log.  *)
WriteStagedForgets(w) ==
  /\ pc[w] = "logging"
  /\ readers' = readers \ {w}
  /\ ahead' \in BOOLEAN
  /\ \/ ahead' /\ Goto(w, "batch_store") /\ UNCHANGED mutex
     \/ mutex' = NoOne /\ Goto(w, "idle")
  /\ UNCHANGED <<schedVars, excl, poison, pending, failed, stale, ns, requests, load>>

(* Step 2: write_staged writes and syncs the log.  An error before the     *)
(* superblock truncates the pages again; when that fails, or the           *)
(* superblock does, the writer has failed, and the commit may be there.    *)
WriteStaged(w) ==
  /\ pc[w] = "logging"
  /\ readers' = readers \ {w}
  /\ \/ /\ ~failed
        /\ ahead' = TRUE
        /\ Goto(w, "batch_store")
        /\ UNCHANGED <<mutex, failed>>
     \/ /\ mutex' = NoOne
        /\ Goto(w, "idle")
        /\ \/ UNCHANGED <<ahead, failed>>
           \/ ~failed /\ failed' = TRUE /\ ahead' \in {ahead, TRUE}
  /\ UNCHANGED <<schedVars, excl, poison, pending, stale, ns, requests, load>>

(* A panic under shared access poisons the writer mutex only; the commit   *)
(* may have reached the log.                                               *)
PanicShared(w) ==
  /\ pc[w] \in {"admitting", "logging", "framing"}
  /\ poison' = poison \union {"writer"}
  /\ ahead' = ahead \/ (pc[w] = "logging" /\ ahead' = TRUE)
  /\ mutex' = NoOne /\ readers' = readers \ {w}
  /\ Goto(w, "idle")
  /\ UNCHANGED <<schedVars, excl, pending, failed, stale, ns, requests, load>>

(* Step 3: apply_prepared, which a record that was admitted does not fail; *)
(* then the sidecar is not due, failed, or gets a delta frame.             *)
Apply(w) ==
  /\ pc[w] = "applying"
  /\ Changed(w) /\ ahead' = FALSE
  /\ \/ Unlock /\ Goto(w, "idle")
     \/ excl' = NoOne /\ Goto(w, "batch_delta") /\ UNCHANGED mutex
  /\ UNCHANGED <<schedVars, readers, poison, pending, failed, ns, requests, load>>

(* persist_delta: the frame under shared access ...                        *)
LockForDelta(w) ==
  /\ pc[w] = "batch_delta" /\ ReadGuardFree
  /\ IF "store" \in poison
     THEN /\ mutex' = NoOne
          /\ Goto(w, "idle")
          /\ UNCHANGED <<readers, stale>>
     ELSE /\ readers' = readers \union {w}
          /\ stale' = [stale EXCEPT ![w] = FALSE]
          /\ Goto(w, "framing")
          /\ UNCHANGED mutex
  /\ UNCHANGED <<schedVars, excl, poison, pending, ahead, failed, ns, requests, load>>

WriteDelta(w) ==
  /\ pc[w] = "framing"
  /\ readers' = readers \ {w}
  /\ \/ Goto(w, "batch_adopt") /\ UNCHANGED mutex
     \/ Goto(w, "idle") /\ mutex' = NoOne
  /\ UNCHANGED <<schedVars, excl, storeVars, ns, requests, load>>

(* ... and its bookkeeping under exclusive access.                         *)
AdoptDelta(w) ==
  /\ pc[w] = "adopting"
  /\ Unlock
  /\ Goto(w, "idle")
  /\ UNCHANGED <<schedVars, readers, storeVars, ns, requests, load>>

-----------------------------------------------------------------------------
Init ==
  /\ inflight = 0 /\ byNs = [n \in Namespaces |-> 0]
  /\ writerActive = FALSE /\ writerWaiters = 0
  /\ mutex = NoOne /\ readers = {} /\ excl = NoOne
  /\ poison = {} /\ pending = FALSE /\ ahead = FALSE /\ failed = FALSE
  /\ pc = [w \in Workers |-> "idle"]
  /\ ns = [w \in Workers |-> NoOne]
  /\ stale = [w \in Workers |-> FALSE]
  /\ requests = 0
  /\ load \in Loads

(* What a worker does once it has a request.                               *)
Step(w) ==
  \/ AcquireRead(w) \/ AcquireWrite(w)
  \/ DropReadPermit(w) \/ DropWritePermit(w)
  \/ LockForRead(w) \/ FinishRead(w)
  \/ LockWriter(w) \/ LockStore(w)
  \/ Write(w) \/ PanicExclusive(w)
  \/ LockBatchRead(w) \/ Admit(w) \/ WriteStaged(w) \/ PanicShared(w)
  \/ Apply(w) \/ LockForDelta(w) \/ WriteDelta(w) \/ AdoptDelta(w)

Next ==
  \E w \in Workers :
    \/ \E n \in Namespaces : ArriveRead(w, n)
    \/ ArriveWrite(w) \/ ArriveBatch(w)
    \/ Step(w)
    \/ SpuriousWakeup(w)

(* Threads that can run do run.  No lock is assumed to be fair, requests   *)
(* need not come, and no thread wakes without a notification.              *)
Fairness == \A w \in Workers : WF_vars(Step(w))

Spec == Init /\ [][Next]_vars /\ Fairness

-----------------------------------------------------------------------------
(* Properties.                                                             *)

ReadPermitAt == {"read_lock", "reading", "read_drop"}
WritePermitAt == {"write_mutex", "write_store", "writing", "write_drop"}
WaiterAt == {"write_wait", "write_try"}
SharedAt == {"reading", "admitting", "logging", "framing"}
ExclusiveAt == {"writing", "applying", "adopting"}
SplitAt == {"admitting", "logging", "batch_store", "applying"}
MutexAt == {"write_store", "writing", "batch_read", "batch_delta", "framing",
            "batch_adopt", "adopting"} \union SplitAt

PCs == {"idle", "read_try", "read_wait", "write_enter", "batch_mutex"}
         \union ReadPermitAt \union WritePermitAt \union WaiterAt \union MutexAt

(* Every variable has the type of its field.                               *)
TypeOK ==
  /\ inflight \in 0..MaxReads
  /\ byNs \in [Namespaces -> 0..MaxReads]
  /\ writerActive \in BOOLEAN /\ writerWaiters \in 0..Cardinality(Workers)
  /\ mutex \in Workers \union {NoOne} /\ excl \in Workers \union {NoOne}
  /\ readers \subseteq Workers
  /\ poison \subseteq {"store", "writer"}
  /\ pending \in BOOLEAN /\ ahead \in BOOLEAN /\ failed \in BOOLEAN
  /\ pc \in [Workers -> PCs]
  /\ ns \in [Workers -> Namespaces \union {NoOne}]
  /\ stale \in [Workers -> BOOLEAN]
  /\ requests \in 0..MaxRequests
  /\ load \in Loads

At(pcs) == {w \in Workers : pc[w] \in pcs}

(* The scheduler's counters are the permits that exist: no path through a  *)
(* handler, an error or a panic leaks one or drops one twice, and a write  *)
(* permit excludes every other permit.                                     *)
PermitsExact ==
  /\ inflight = Cardinality(At(ReadPermitAt))
  /\ \A n \in Namespaces :
       byNs[n] = Cardinality({w \in At(ReadPermitAt) : ns[w] = n})
  /\ writerWaiters = Cardinality(At(WaiterAt))
  /\ Cardinality(At(WritePermitAt)) = IF writerActive THEN 1 ELSE 0
  /\ writerActive => inflight = 0

(* A reader's snapshot does not change under it, and nothing changes the   *)
(* store between a batch's admission and its apply (shared.rs:26).         *)
SnapshotsHold ==
  \A w \in Workers : pc[w] \in {"reading", "framing"} \union SplitAt => ~stale[w]

(* The log is ahead of the live projection only while the batch that put   *)
(* it there can still apply it: another writer never gets in between, and  *)
(* after a panic, or a superblock that failed and may have landed, no      *)
(* writer gets in at all.  On a failed log no batch is written or applied, *)
(* whoever failed it and whenever the batch was admitted (append_batch).   *)
Owned ==
  \E w \in Workers : pc[w] \in {"batch_store", "applying"} /\ mutex = w

AheadIsOwned ==
  /\ ahead => Owned \/ "writer" \in poison \/ failed
  /\ failed => \A w \in Workers : pc[w] \notin {"logging", "batch_store", "applying"}

(* A durable batch always finds the store lock usable, so the branch of    *)
(* append_batch that poisons the log writer is never needed.               *)
DurableBatchApplies ==
  \A w \in Workers : pc[w] = "batch_store" => "store" \notin poison

(* A split commit never runs beside uncommitted stream pushes, which its   *)
(* commit point would cover.                                               *)
SplitExcludesPending ==
  \A w \in Workers : pc[w] \in {"logging", "batch_store"} => ~pending

(* When requests stop coming, every request that was taken is answered: no *)
(* deadlock between the permits, the mutex and the lock, no lost wakeup,   *)
(* and no worker stuck behind a panic.                                     *)
EveryRequestEnds ==
  \A w \in Workers : ~load.endless /\ pc[w] # "idle" ~> pc[w] = "idle"

(* Readers that keep coming do not starve a waiting writer (ADR 0040).     *)
WritersNotStarved == writerWaiters > 0 ~> writerActive

=============================================================================
