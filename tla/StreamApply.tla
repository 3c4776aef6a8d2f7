---------------------------- MODULE StreamApply ----------------------------
(***************************************************************************)
(* Ordered stream apply (src/crates/mikura-ingest/src/apply.rs): a clerk   *)
(* delivers the changes of a named source, StreamApply appends the ones    *)
(* that are new to their identity, each with a cursor record behind it,    *)
(* and a flush makes records and cursor durable together.                  *)
(*                                                                         *)
(* Several appliers, and writers that know nothing of streams, share one   *)
(* store and its commit point.  Every call has the store to itself, so a   *)
(* call is one step.  The clerk delivers a source in offset order, again   *)
(* from any earlier offset whenever it likes, and from at most one past    *)
(* the committed cursor after a resume.  An error makes it deliver the     *)
(* same change again.                                                      *)
(*                                                                         *)
(* The log writer is seen from above: under a hold only a flush moves the  *)
(* commit point, without one every append may move it over the records in  *)
(* front of the newest.  No overlay merges into the changes.               *)
(***************************************************************************)
EXTENDS Integers, SequencesExt

CONSTANTS
  Appliers,     \* StreamApply instances
  Sources,
  SourceOf,     \* the source of each applier
  Identities,   \* identities
  Changes,      \* the changes of a source: offset |-> identity
  Bound,        \* StreamApply::bound
  MaxLog,       \* bound: records on the log
  Faults,       \* "cursor": the second append of apply may fail alone;
                \* "migration": a schema migration may fail and roll back
  Other         \* what another writer appends, seen as a source

None == -1      \* Option::None of an offset

ASSUME SourceAssumption ==
  /\ SourceOf \in [Appliers -> Sources] /\ Other \notin Sources
  /\ \A s \in Sources :
       /\ IsFiniteSet(DOMAIN Changes[s])
       /\ Changes[s] \in [0..(Cardinality(DOMAIN Changes[s]) - 1) -> Identities]
ASSUME BoundAssumption == Bound \in Nat \ {0} /\ MaxLog \in Nat
ASSUME FaultAssumption == Faults \subseteq {"cursor", "migration"}

VARIABLES
  log,      \* the records of the log, the uncommitted ones at the end
  super,    \* records in front of the commit point
  hold,     \* LogWriter::hold_commits
  failed,   \* LogWriter::failed
  app,      \* the fields of each applier
  next,     \* the offset each clerk delivers next
  promised  \* history: the largest offset a flush of the source returned

vars == <<log, super, hold, failed, app, next, promised>>

-----------------------------------------------------------------------------
(* Records and what is read from them.                                     *)

LogRecord(kind, source, offset) == [kind |-> kind, source |-> source, offset |-> offset]
Foreign == LogRecord("other", Other, 0)

Cursors(records, s) ==
  {i \in 1..Len(records) : records[i].kind \in {"cursor", "flush"} /\ records[i].source = s}

(* load_committed_offset: the live cursor row, the newest on the log.      *)
LiveCursor(records, s) ==
  IF Cursors(records, s) = {} THEN None ELSE records[Max(Cursors(records, s))].offset

HasPending == super < Len(log)

(* The change the clerk of a delivers, and its identity.                   *)
Delivers(a) == ~failed /\ next[a] \in DOMAIN Changes[SourceOf[a]]
Identity(a) == Changes[SourceOf[a]][next[a]]

(* Mutant of LastApplied: the committed offset is no floor.                *)
LastOfWindow(a) == app[a].last[Identity(a)]

(* last_applied: the offset below which a change of the identity is old.   *)
LastApplied(a) == Max({app[a].last[Identity(a)], app[a].committed})

(* Mutant of HoldWindow: the window leaves the commit point free.          *)
HoldNothing == UNCHANGED hold

HoldWindow == hold' = TRUE

(* An append returned Ok: without a hold the page in front of the newest   *)
(* record may have been committed on the way.                              *)
PagesMove == super' \in IF hold' THEN {super} ELSE super..(Len(log') - 1)

(* A commit that returns an error: nothing moved, or some pages did under  *)
(* no hold, or everything did and only the sync of the superblock or the   *)
(* persisting of the projection failed.  A failed superblock poisons.      *)
CommitErr ==
  /\ super' \in (IF hold THEN {super} ELSE super..Len(log)) \cup {Len(log')}
  /\ failed' \in BOOLEAN

-----------------------------------------------------------------------------
(* StreamApply::apply.                                                     *)

(* A duplicate or stale change is skipped.                                 *)
Skip(a) ==
  /\ Delivers(a) /\ next[a] <= LastApplied(a)
  /\ next' = [next EXCEPT ![a] = @ + 1]
  /\ UNCHANGED <<log, super, hold, failed, app, promised>>

Fresh(a) == Delivers(a) /\ next[a] > LastApplied(a) /\ app[a].count < Bound

(* The fields after the change's own record was appended.                  *)
Accepted(a) ==
  [app[a] EXCEPT !.last[Identity(a)] = next[a],
                 !.pending = Max({@, next[a]}),
                 !.count = @ + 1]

(* The change and the cursor are appended.                                 *)
Apply(a) ==
  /\ Fresh(a) /\ Len(log) + 2 <= MaxLog
  /\ HoldWindow
  /\ log' = log \o <<LogRecord("change", SourceOf[a], next[a]),
                     LogRecord("cursor", SourceOf[a], Accepted(a).pending)>>
  /\ PagesMove
  /\ app' = [app EXCEPT ![a] = Accepted(a)]
  /\ next' = [next EXCEPT ![a] = @ + 1]
  /\ UNCHANGED <<failed, promised>>

(* Mutant of ApplyFails: the offset is remembered before the append.       *)
ApplyFailsLate(a) ==
  /\ Fresh(a)
  /\ hold' = (app[a].count # 0 \/ HasPending)
  /\ app' = [app EXCEPT ![a].last[Identity(a)] = next[a]]
  /\ UNCHANGED <<log, super, failed, next, promised>>

(* The change's own append fails, and the hold is kept if anything is      *)
(* pending; or the change is appended and the cursor is not, and the error *)
(* comes back with the change accepted.                                    *)
ApplyFails(a) ==
  /\ Fresh(a)
  /\ \/ /\ hold' = (app[a].count # 0 \/ HasPending)
        /\ UNCHANGED <<log, super, app>>
     \/ /\ "cursor" \in Faults
        /\ Len(log) + 2 <= MaxLog
        /\ HoldWindow
        /\ log' = Append(log, LogRecord("change", SourceOf[a], next[a]))
        /\ PagesMove
        /\ app' = [app EXCEPT ![a] = Accepted(a)]
  /\ UNCHANGED <<failed, next, promised>>

-----------------------------------------------------------------------------
(* StreamApply::flush.                                                     *)

(* The cursor a flush writes.                                              *)
FlushOffset(a) ==
  Max({app[a].committed, app[a].pending, LiveCursor(log, SourceOf[a])})

WriteCursor(a) ==
  /\ ~failed /\ app[a].pending # None /\ Len(log) < MaxLog
  /\ log' = Append(log, LogRecord("flush", SourceOf[a], FlushOffset(a)))

(* Mutant of CommitAll: the commit point stays.                            *)
CommitNothing == UNCHANGED super

CommitAll == super' = Len(log')

Flush(a) ==
  /\ WriteCursor(a)
  /\ CommitAll /\ hold' = FALSE
  /\ app' = [app EXCEPT ![a].count = 0, ![a].pending = None,
                        ![a].committed = FlushOffset(a),
                        ![a].last = [k \in Identities |-> None]]
  /\ promised' = [promised EXCEPT ![SourceOf[a]] = Max({@, FlushOffset(a)})]
  /\ UNCHANGED <<failed, next>>

(* The cursor could not be appended: nothing changes.  The commit failed:  *)
(* the window is held again.                                               *)
FlushFails(a) ==
  /\ WriteCursor(a)
  /\ hold' = TRUE
  /\ CommitErr
  /\ UNCHANGED <<app, next, promised>>

-----------------------------------------------------------------------------
(* Other writers of the store.                                             *)

OtherAppends == ~failed /\ Len(log) < MaxLog /\ log' = Append(log, Foreign)

(* append_uncommitted: a push that somebody commits later.                 *)
OtherPush ==
  /\ OtherAppends
  /\ UNCHANGED <<hold, failed, app, next, promised>>
  /\ PagesMove

(* append, apply_action: append and commit, whatever is held.              *)
OtherWrite ==
  /\ OtherAppends
  /\ (CommitAll /\ UNCHANGED failed) \/ CommitErr
  /\ UNCHANGED <<hold, app, next, promised>>

(* StreamIngest::flush: commit what is pending, the window included.       *)
OtherCommit ==
  /\ ~failed /\ HasPending
  /\ UNCHANGED log
  /\ (CommitAll /\ UNCHANGED failed) \/ CommitErr
  /\ UNCHANGED <<hold, app, next, promised>>

(* Store::atomically: what is pending is committed first and the hold is   *)
(* released at the end, whether the batch commits, is rolled back, or      *)
(* leaves the writer poisoned.                                             *)
Batch ==
  /\ hold' = FALSE
  /\ \/ OtherAppends /\ CommitAll /\ UNCHANGED failed
     \/ OtherAppends /\ super' \in {Len(log), Len(log')} /\ failed' = TRUE
     \/ ~failed /\ super' = Len(log) /\ UNCHANGED <<log, failed>>
  /\ UNCHANGED <<app, next, promised>>

(* The first commit of Store::atomically fails, or an append that had to   *)
(* write a page; or a schema write that migrates overlays fails and drops  *)
(* everything that is not committed.                                       *)
WriteRefused ==
  /\ ~failed
  /\ \/ /\ HasPending
        /\ UNCHANGED log
        /\ CommitErr
     \/ /\ "migration" \in Faults
        /\ log' = SubSeq(log, 1, super)
        /\ UNCHANGED <<super, failed>>
  /\ UNCHANGED <<hold, app, next, promised>>

-----------------------------------------------------------------------------
(* The clerk and the process.                                              *)

(* The clerk delivers again from an earlier offset.                        *)
Redeliver(a) ==
  /\ \E o \in 0..(next[a] - 1) : next' = [next EXCEPT ![a] = o]
  /\ UNCHANGED <<log, super, hold, failed, app, promised>>

(* Mutant of Resumed: the cursor is not read.                              *)
ResumedBlank(a, records) ==
  [last |-> [k \in Identities |-> None], committed |-> None, pending |-> None, count |-> 0]

(* The applier resume builds from a committed store.                       *)
Resumed(a, records) ==
  [last |-> [k \in Identities |-> None], committed |-> LiveCursor(records, SourceOf[a]),
   pending |-> None, count |-> 0]

StartsAt(a, records) == 0..(LiveCursor(records, SourceOf[a]) + 1)

(* The clerk replaces its applier while the store stays open.              *)
Resume(a) ==
  /\ ~HasPending
  /\ app' = [app EXCEPT ![a] = Resumed(a, log)]
  /\ \E o \in StartsAt(a, log) : next' = [next EXCEPT ![a] = o]
  /\ UNCHANGED <<log, super, hold, failed, promised>>

(* The process stops and starts: the store reopens and all resume.         *)
Restart ==
  /\ log' = SubSeq(log, 1, super)
  /\ hold' = FALSE /\ failed' = FALSE
  /\ app' = [a \in Appliers |-> Resumed(a, log')]
  /\ next' \in {f \in [Appliers -> 0..MaxLog] :
                  \A a \in Appliers : f[a] \in StartsAt(a, log')}
  /\ UNCHANGED <<super, promised>>

Init ==
  /\ log = <<>> /\ super = 0 /\ hold = FALSE /\ failed = FALSE
  /\ app = [a \in Appliers |->
       [last |-> [k \in Identities |-> None], committed |-> None, pending |-> None, count |-> 0]]
  /\ next = [a \in Appliers |-> 0]
  /\ promised = [s \in Sources |-> None]

Next ==
  \/ \E a \in Appliers :
       \/ Skip(a) \/ Apply(a) \/ ApplyFails(a)
       \/ Flush(a) \/ FlushFails(a)
       \/ Redeliver(a) \/ Resume(a)
  \/ OtherPush \/ OtherWrite \/ OtherCommit \/ Batch \/ WriteRefused
  \/ Restart

Spec == Init /\ [][Next]_vars

-----------------------------------------------------------------------------
(* Properties.                                                             *)

ChangesAt(n, s) == {i \in 1..n : log[i].kind = "change" /\ log[i].source = s}
Committed(s) == LiveCursor(SubSeq(log, 1, super), s)

(* A change is on the log once: replays and older offsets skip without a   *)
(* new generation, also after a failed flush, a resume or a restart.       *)
AppliedOnce ==
  \A s \in Sources : \A i, j \in ChangesAt(Len(log), s) :
    log[i].offset = log[j].offset => i = j

(* The changes of one identity are on the log in the order of the source.  *)
IdentityOrder ==
  \A s \in Sources : \A i, j \in ChangesAt(Len(log), s) :
    (i < j /\ Changes[s][log[i].offset] = Changes[s][log[j].offset]) =>
      log[i].offset <= log[j].offset

(* Whatever is delivered late or twice, across resumes and restarts, the   *)
(* changes of an identity are on the log once each and in order.           *)
AppliedOnceInOrder == AppliedOnce /\ IdentityOrder

(* No source record is durable without a cursor that covers it (ADR 0031), *)
(* whoever moves the commit point.                                         *)
CursorCoversChanges ==
  \A s \in Sources : \A i \in ChangesAt(super, s) : log[i].offset <= Committed(s)

(* The durable cursor never covers a change that is not durable: nothing   *)
(* the clerk need not deliver again is missing.                            *)
NothingSkipped ==
  \A s \in Sources : \A o \in DOMAIN Changes[s] :
    o <= Committed(s) => \E i \in ChangesAt(super, s) : log[i].offset = o

(* CursorExact: the durable cursor of a source says exactly which of its   *)
(* changes are durable.                                                    *)
CursorExact == CursorCoversChanges /\ NothingSkipped

(* The cursors of a source ascend on the log.                              *)
CursorNeverBack ==
  \A s \in Sources : \A i, j \in Cursors(log, s) :
    i < j => log[i].offset <= log[j].offset

(* What a flush returned stays committed: a resume starts at or behind it. *)
PromisedOffsetsStay == \A s \in Sources : promised[s] <= Committed(s)

(* apply.rs:175, "The cursor never moves backward": neither on the log nor *)
(* behind what a flush has answered.                                       *)
CursorsHold == CursorNeverBack /\ PromisedOffsetsStay

(* ADR 0031: "flush still never writes a smaller cursor if two instances   *)
(* race": the cursor of a flush is not below an earlier flush's.           *)
FlushNeverSmaller ==
  \A s \in Sources : \A i, j \in Cursors(log, s) :
    (i < j /\ log[i].kind = "flush" /\ log[j].kind = "flush") => log[i].offset <= log[j].offset

=============================================================================
