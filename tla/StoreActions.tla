---------------------------- MODULE StoreActions ----------------------------
(***************************************************************************)
(* The write path of the Store (src/src/store/mod.rs): Actions, source     *)
(* appends, hides, batches and change sets over one log, the live map they *)
(* keep beside it, and the catalog of Action ids that makes a retry a      *)
(* no-op.                                                                  *)
(*                                                                         *)
(* Every call runs under the exclusive lock of the store, so a call is one *)
(* step; the calls that run inside Store::atomically are taken apart, one  *)
(* step for each record, because a crash or an error may stop them between *)
(* two records.  The log writer is seen from above: an append buffers the  *)
(* record and may let group commit advance the commit point over the       *)
(* records before it, a flush moves the commit point over everything,      *)
(* fails and leaves it, or fails and poisons the writer.                   *)
(*                                                                         *)
(* One namespace and one kind; no schema, overlay or access list; a new    *)
(* identity starts at generation 1.                                        *)
(***************************************************************************)
EXTENDS Naturals, SequencesExt

CONSTANTS
  Keys,         \* identities of the namespace
  Ids,          \* Action ids the clerks assign
  Bodies,       \* props of a record
  Offered,      \* records the sources append
  Batches,      \* batches the sources append: sequences of records
  Feeds,        \* pairs of snapshots of a source: sequences of records
  Actions,      \* Actions the clerks send: id, key, body, expected
  ChangeSets,   \* change sets the clerks send
  MaxLog,       \* bound: records on the log
  NoId,         \* action_id: None
  NoGen,          \* expected_gen: None
  Marker,       \* the identity of a mikura.change_set marker
  Hide,         \* the edit of a change set that hides its identity
  Put,          \* the edit of a put member whose body is not known yet
  Absent        \* no row of a map

(* The edits of a change set, whole or as its marker lists them.           *)
Edits == UNION {[D -> Bodies \cup {Hide, Put}] : D \in SUBSET Keys}
NoEdits == [k \in {} |-> Hide]

(* What a source appends, what the log holds, a row and a claim.           *)
Offers == [key : Keys, body : Bodies, hidden : BOOLEAN, id : Ids \cup {NoId},
           gen : {0}, members : {NoEdits}]
Records ==
  [key : Keys, body : Bodies, hidden : BOOLEAN, id : Ids \cup {NoId},
   gen : Nat, members : {NoEdits}]
    \cup [key : {Marker}, body : {Marker}, hidden : {FALSE}, id : Ids, gen : Nat, members : Edits]
Rows == [gen : Nat, body : Bodies \cup {Marker}, hidden : BOOLEAN, id : Ids \cup {NoId}]
Claimed == [key : Keys \cup {Marker}, body : Bodies \cup {Marker}, hidden : BOOLEAN,
            hideApplied : BOOLEAN, members : Edits]

ASSUME BoundAssumption == MaxLog \in Nat
ASSUME IdentityAssumption == Marker \notin Keys /\ NoId \notin Ids
ASSUME EditAssumption == Hide \notin Bodies /\ Put \notin Bodies /\ Hide # Put
ASSUME AbsentAssumption == Absent \notin Rows /\ Absent \notin Claimed
ASSUME ActionAssumption ==
  Actions \subseteq [id : Ids, key : Keys, body : Bodies, expected : Nat \cup {NoGen}]
ASSUME SourceAssumption ==
  /\ Offered \subseteq Offers /\ Batches \subseteq Seq(Offers)
  /\ Feeds \subseteq Seq(Offers) \X Seq(Offers)
ASSUME ChangeSetAssumption ==
  \A set \in ChangeSets :
    /\ IsFiniteSet(DOMAIN set.edits) /\ DOMAIN set.edits \subseteq Keys
    /\ \A k \in DOMAIN set.edits : set.edits[k] \in Bodies \cup {Hide}

VARIABLES
  up,       \* a process has the store open
  log,      \* the records of the log file, the buffered ones at the end
  super,    \* records in front of the commit point on the file
  stamp,    \* records the .joins sidecar covers
  failed,   \* LogWriter::failed
  live,     \* identity, joins and hidden_props: the newest row of each key
  claims,   \* action_commits
  fromLog,  \* action_commits_from_log
  todo,     \* records left of the call inside Store::atomically
  inside,   \* which call that is: "batch", "set"; "no"
  setId,    \* the Action id of that change set
  acked,    \* history: records a call that returned Ok wrote
  told,     \* history: Action ids apply_action returned Ok for
  seen      \* history: records that were ever in front of the commit point

fileVars == <<log, super, stamp>>
storeVars == <<failed, live, claims, fromLog>>
callVars == <<todo, inside, setId>>
historyVars == <<acked, told, seen>>
vars == <<up, fileVars, storeVars, callVars, historyVars>>

-----------------------------------------------------------------------------
(* Records, the live map and the Action catalog.                           *)

(* An ObjectRecord before its generation is assigned.                      *)
Record(key, body, hidden, id) ==
  [key |-> key, body |-> body, hidden |-> hidden, id |-> id,
   gen |-> 0, members |-> NoEdits]

(* The record that opens a change set: which identities, put or hidden.    *)
MarkerOf(id, edits) ==
  [key |-> Marker, body |-> Marker, hidden |-> FALSE, id |-> id, gen |-> 1,
   members |-> [k \in DOMAIN edits |-> IF edits[k] = Hide THEN Hide ELSE Put]]

NothingLive == [k \in Keys \cup {Marker} |-> Absent]
NothingClaimed == [id \in Ids |-> Absent]

(* install_live: the newest record of an identity is its row.              *)
Install(rows, rec) ==
  [rows EXCEPT ![rec.key] =
     [gen |-> rec.gen, body |-> rec.body, hidden |-> rec.hidden, id |-> rec.id]]

(* Mutant of AssignGen: a hidden row does not count as the live one.       *)
AssignGenOfVisible(rec) ==
  [rec EXCEPT !.gen = IF live[rec.key] # Absent /\ ~live[rec.key].hidden
                      THEN live[rec.key].gen + 1 ELSE 1]

AssignGen(rec) ==
  [rec EXCEPT !.gen = IF live[rec.key] = Absent THEN 1 ELSE live[rec.key].gen + 1]

(* The first record of an id claims it.                                    *)
ClaimOf(rec) ==
  [key |-> rec.key, body |-> rec.body, hidden |-> rec.hidden,
   hideApplied |-> FALSE, members |-> rec.members]

(* A later record of the same id: a member of its change set fills its     *)
(* body in, a hide of the same payload is remembered.                      *)
Extend(claim, rec) ==
  IF claim.key = Marker
  THEN IF ~rec.hidden /\ rec.key \in DOMAIN claim.members
            /\ claim.members[rec.key] = Put
       THEN [claim EXCEPT !.members[rec.key] = rec.body] ELSE claim
  ELSE [claim EXCEPT !.hideApplied =
          \/ claim.hideApplied
          \/ /\ rec.hidden /\ ~claim.hidden
             /\ rec.key = claim.key /\ rec.body = claim.body]

Remember(catalog, rec) ==
  IF rec.id = NoId THEN catalog
  ELSE [catalog EXCEPT ![rec.id] =
          IF catalog[rec.id] = Absent THEN ClaimOf(rec)
          ELSE Extend(catalog[rec.id], rec)]

(* What a replay of records rebuilds.                                      *)
LiveOf(records) == FoldLeft(Install, NothingLive, records)
ClaimsOf(records) == FoldLeft(Remember, NothingClaimed, records)

(* Mutant of Catalog: the log is not read, the sidecar's rest is trusted.  *)
CatalogSinceOpen == claims

(* ensure_action_commits: a store opened from its join sidecar reads the   *)
(* committed log and keeps what it remembered since.                       *)
Catalog ==
  IF fromLog THEN claims
  ELSE LET logged == ClaimsOf(SubSeq(log, 1, super)) IN
       [id \in Ids |->
          IF logged[id] = Absent THEN claims[id]
          ELSE IF claims[id] = Absent THEN logged[id]
          ELSE [logged[id] EXCEPT !.hideApplied = @ \/ claims[id].hideApplied]]

CatalogRead == claims' = Catalog /\ fromLog' = TRUE

(* action_claim.                                                           *)
Claim(rec) ==
  LET claim == IF rec.id = NoId THEN Absent ELSE Catalog[rec.id] IN
  IF claim = Absent THEN "new"
  ELSE IF claim.key # rec.key \/ claim.body # rec.body THEN "conflict"
  ELSE IF rec.hidden
  THEN IF claim.hidden \/ claim.hideApplied THEN "replay" ELSE "new"
  ELSE IF claim.hidden THEN "conflict" ELSE "replay"

(* require_expected_gen.                                                   *)
GenerationIs(key, expected) ==
  expected = NoGen \/ expected = (IF live[key] = Absent THEN 0 ELSE live[key].gen)

-----------------------------------------------------------------------------
(* What the batches of mikura-ingest are made of.                          *)

(* fold_last_wins: the last record of an identity, and the identities in   *)
(* the order they first appear.                                            *)
FoldLastWins(records) ==
  LET Step(fold, rec) ==
        [order |-> IF rec.key \in DOMAIN fold.chosen THEN fold.order
                   ELSE Append(fold.order, rec.key),
         chosen |-> [k \in DOMAIN fold.chosen \cup {rec.key} |->
                       IF k = rec.key THEN rec ELSE fold.chosen[k]]]
  IN FoldLeft(Step, [order |-> <<>>, chosen |-> [k \in {} |-> Absent]], records)

FoldSnapshot(records) == FoldLastWins(records).chosen

(* merge_source_and_edits: one record for each identity, an edit before    *)
(* the source.                                                             *)
MergeSourceAndEdits(source, edits) ==
  LET fold == FoldLastWins(source \o edits) IN
  [i \in DOMAIN fold.order |-> fold.chosen[fold.order[i]]]

SourcePayloadEq(left, right) ==
  left.hidden = right.hidden /\ left.id = right.id /\ left.body = right.body

(* The row of key changed from the one snapshot to the other, or is new.   *)
Changed(old, new, key) ==
  key \in DOMAIN new /\ (key \in DOMAIN old => ~SourcePayloadEq(old[key], new[key]))

(* Mutant of Gone: a row the source no longer has stays.                   *)
NothingGone(old, new, key) == FALSE

(* The visible row of key is not in the new snapshot.                      *)
Gone(old, new, key) == key \in DOMAIN old \ DOMAIN new /\ ~old[key].hidden

(* snapshot_changelog: the rows that are new or changed, and a hide of     *)
(* each one that is gone, by identity.                                     *)
SnapshotChangelog(previous, current) ==
  LET old == FoldSnapshot(previous)
      new == FoldSnapshot(current)
      keys == SetToSeq({k \in Keys : Changed(old, new, k) \/ Gone(old, new, k)})
  IN [i \in DOMAIN keys |->
        IF Gone(old, new, keys[i]) THEN [old[keys[i]] EXCEPT !.hidden = TRUE]
        ELSE new[keys[i]]]

-----------------------------------------------------------------------------
(* Fragments of the calls.                                                 *)

Idle == up /\ inside = "no"

Pending == super < Len(log)

(* The records in front of the commit point were there for a reader.       *)
Witness == seen' = seen \cup {log'[i] : i \in 1..super'}

(* The record is buffered and applied to the live map and the catalog.     *)
PutOnLog(rec, catalog) ==
  /\ ~failed
  /\ log' = Append(log, rec)
  /\ live' = Install(live, rec)
  /\ claims' = Remember(catalog, rec)

(* append_record fails: the writer is poisoned already, or the page in     *)
(* front of the record could not be written or committed.                  *)
AppendFails ==
  /\ \/ failed /\ UNCHANGED <<super, failed>>
     \/ ~failed /\ super' \in {super, Len(log)} /\ failed' \in BOOLEAN
  /\ UNCHANGED <<log, live>>

(* Mutant of CommitMoves: the flush returns before the last page.          *)
CommitStopsShort == super' = Len(log') - 1 /\ failed' = failed

(* A flush that succeeds.                                                  *)
CommitMoves == super' = Len(log') /\ failed' = failed

(* Store::commit: the projection may be persisted after the flush, and an  *)
(* error of that is returned although the records are committed.           *)
CommitDone ==
  /\ CommitMoves
  /\ stamp' \in {stamp, super'}

(* A flush that fails: the last page was not written, group commit may     *)
(* have moved over the earlier records on the way; or the superblock write *)
(* failed, the commit point on the file is either one, and the writer is   *)
(* poisoned.                                                               *)
CommitFails ==
  /\ \/ failed' = FALSE /\ super' \in {super, Len(log)} \ {Len(log')}
     \/ failed' = TRUE /\ super' \in {super, Len(log), Len(log')}
  /\ UNCHANGED stamp

(* A write that commits on its own: append, then commit.  ids are the      *)
(* Action ids its Ok answers.                                              *)
WriteAlone(rec, catalog, ids) ==
  \/ /\ PutOnLog(rec, catalog)
     /\ \/ /\ CommitDone
           /\ \/ acked' = acked \cup {rec} /\ told' = told \cup ids
              \/ UNCHANGED <<acked, told>>
        \/ CommitFails /\ UNCHANGED <<acked, told>>
  \/ /\ AppendFails
     /\ claims' = catalog
     /\ UNCHANGED <<stamp, acked, told>>

-----------------------------------------------------------------------------
(* Single writes.                                                          *)

(* apply_action: a new id replaces the row and commits; a repeated id      *)
(* with the same body returns Ok and writes nothing; anything else is an   *)
(* error.                                                                  *)
ApplyAction(action) ==
  LET rec == Record(action.key, action.body, FALSE, action.id) IN
  /\ Idle
  /\ IF Claim(rec) = "new" /\ GenerationIs(action.key, action.expected)
     THEN /\ Len(log) < MaxLog
          /\ WriteAlone(AssignGen(rec), Catalog, {action.id})
          /\ fromLog' = TRUE
     ELSE /\ CatalogRead
          /\ told' = IF Claim(rec) = "replay" THEN told \cup {action.id} ELSE told
          /\ UNCHANGED <<fileVars, failed, live, acked>>
  /\ Witness
  /\ UNCHANGED <<up, callVars>>

(* append_uncommitted: the record is buffered, group commit may carry the  *)
(* ones before it.  A record without an id consults no catalog.            *)
AppendUncommitted(offer) ==
  LET rec == AssignGen(offer) IN
  /\ Idle
  /\ IF offer.id = NoId THEN UNCHANGED fromLog ELSE fromLog' = TRUE
  /\ LET catalog == IF offer.id = NoId THEN claims ELSE Catalog IN
     IF Claim(offer) = "new"
     THEN /\ Len(log) < MaxLog
          /\ \/ /\ PutOnLog(rec, catalog)
                /\ super' \in {super, Len(log)}
                /\ UNCHANGED failed
             \/ AppendFails /\ claims' = catalog
     ELSE claims' = catalog /\ UNCHANGED <<log, super, failed, live>>
  /\ Witness
  /\ UNCHANGED <<up, stamp, callVars, acked, told>>

(* commit: StreamIngest::flush acknowledges everything pushed before it.   *)
Commit ==
  /\ Idle
  /\ UNCHANGED log
  /\ IF failed THEN UNCHANGED <<super, failed, stamp, acked>>
     ELSE \/ /\ CommitDone
             /\ \/ acked' = acked \cup {log[i] : i \in 1..Len(log)}
                \/ UNCHANGED acked
          \/ Pending /\ CommitFails /\ UNCHANGED acked
  /\ Witness
  /\ UNCHANGED <<up, live, claims, fromLog, callVars, told>>

(* hide: the row once more, hidden, with the id it has.  The id is copied  *)
(* and not claimed, so no catalog is consulted.                            *)
HideRow(key) ==
  /\ Idle
  /\ live[key] # Absent
  /\ Len(log) < MaxLog
  /\ WriteAlone(AssignGen(Record(key, live[key].body, TRUE, live[key].id)), claims, {})
  /\ Witness
  /\ UNCHANGED <<up, fromLog, callVars>>

(* ensure_action_commits cannot read the log: what the store remembered    *)
(* since it opened is gone, and the next call reads again.                 *)
CatalogUnread ==
  /\ Idle
  /\ ~fromLog
  /\ claims' = NothingClaimed
  /\ UNCHANGED <<up, fileVars, failed, live, fromLog, callVars, historyVars>>

-----------------------------------------------------------------------------
(* Store::atomically: batches and change sets.                             *)

(* The records already buffered are committed first; an error of that      *)
(* returns before anything else happens.                                   *)
Enter(kind, records, id) ==
  /\ Len(log) + Len(records) <= MaxLog
  /\ UNCHANGED <<log, live>>
  /\ \/ /\ ~failed
        /\ IF Pending THEN CommitDone ELSE UNCHANGED <<super, stamp, failed>>
        /\ todo' = records
        /\ inside' = kind
        /\ setId' = id
     \/ /\ Pending
        /\ IF failed THEN UNCHANGED <<super, failed, stamp>> ELSE CommitFails
        /\ UNCHANGED callVars
  /\ Witness

AppendBatch(records) ==
  /\ Idle
  /\ Enter("batch", records, NoId)
  /\ UNCHANGED <<up, claims, fromLog, acked, told>>

(* The members of a change set behind its marker, in one fixed order.      *)
SetRecords(id, edits) ==
  <<MarkerOf(id, edits)>> \o
  [i \in 1..Len(SetToSeq(DOMAIN edits)) |->
     LET key == SetToSeq(DOMAIN edits)[i] IN
     Record(key, edits[key], edits[key] = Hide, id)]

(* BatchIngest::run of a merge: the edits go over the source.              *)
MergeIngest(source, edits) == AppendBatch(MergeSourceAndEdits(source, edits))

(* ChangelogIngest::run: two snapshots without a difference append nothing. *)
ChangelogIngest(previous, current) ==
  /\ SnapshotChangelog(previous, current) # <<>>
  /\ AppendBatch(SnapshotChangelog(previous, current))

(* apply_change_set: an edit that hides needs a row; a repeated id is a    *)
(* replay of the same edits or an error; a new one needs the generations.  *)
ApplyChangeSet(id, set) ==
  /\ Idle
  /\ \A k \in DOMAIN set.edits : set.edits[k] = Hide => live[k] # Absent
  /\ CatalogRead
  /\ IF /\ Catalog[id] = Absent
        /\ \A k \in DOMAIN set.edits : GenerationIs(k, set.expected[k])
     THEN /\ Enter("set", SetRecords(id, set.edits), id)
          /\ UNCHANGED told
     ELSE /\ told' = IF /\ Catalog[id] # Absent
                        /\ Catalog[id].key = Marker
                        /\ Catalog[id].members = set.edits
                     THEN told \cup {id} ELSE told
          /\ UNCHANGED <<fileVars, failed, live, callVars, seen>>
  /\ UNCHANGED <<up, acked>>

(* Mutant of Rebuild: nothing behind the sidecar is replayed.              *)
RebuildSkipsTail(n) ==
  /\ live' = LiveOf(SubSeq(log, 1, stamp))
  /\ claims' = ClaimsOf(SubSeq(log, 1, n))
  /\ fromLog' = TRUE
  /\ stamp' = n

(* What the live map and the catalog are after a replay of the first n     *)
(* records: the catalog is complete when a log checkpoint or the whole log *)
(* was read; adopting the join sidecar leaves it to what follows the       *)
(* sidecar.  The replay of a tail persists the projection again.           *)
Rebuild(n) ==
  /\ live' = LiveOf(SubSeq(log, 1, n))
  /\ \/ /\ claims' = ClaimsOf(SubSeq(log, 1, n))
        /\ fromLog' = TRUE
     \/ /\ claims' = ClaimsOf(SubSeq(log, stamp + 1, n))
        /\ fromLog' = FALSE
  /\ stamp' = n

Leave == todo' = <<>> /\ inside' = "no" /\ setId' = NoId

(* Mutant of Abort: the log is cut, the catalog is kept.                   *)
AbortKeepsCatalog ==
  /\ log' = SubSeq(log, 1, super)
  /\ live' = LiveOf(log')
  /\ Leave
  /\ UNCHANGED <<super, stamp, failed, claims, fromLog>>

(* The error branch of atomically: everything behind the commit point is   *)
(* dropped and the projection is rebuilt; when that fails, in either step, *)
(* the writer is poisoned.  A poisoned writer keeps everything.            *)
Abort ==
  /\ ~failed
  /\ Leave
  /\ UNCHANGED super
  /\ \/ /\ log' = SubSeq(log, 1, super)
        /\ Rebuild(super)
        /\ UNCHANGED failed
     \/ /\ log' \in {log, SubSeq(log, 1, super)}
        /\ failed' = TRUE
        /\ live' \in {live, NothingLive}
        /\ claims' \in {claims, NothingClaimed}
        /\ UNCHANGED <<stamp, fromLog>>

(* An error inside atomically before the flush: a conflicting claim, a     *)
(* record that does not fit, an append that fails.  The commit point is    *)
(* held, so an append cannot have moved it nor poisoned the writer.        *)
AtomicallyFails ==
  /\ up /\ inside # "no"
  /\ Abort
  /\ UNCHANGED <<up, historyVars>>

(* The record a member becomes: a hidden one copies the row; the marker    *)
(* has its generation already.                                             *)
Resolved(next) ==
  IF next.key = Marker THEN next
  ELSE AssignGen(IF next.body = Hide THEN [next EXCEPT !.body = live[next.key].body]
                 ELSE next)

(* Mutant of WriteNext: a group commit inside the batch is not held back.  *)
WriteNextUnheld ==
  /\ up /\ todo # <<>>
  /\ PutOnLog(Resolved(Head(todo)), claims)
  /\ super' = Len(log)
  /\ todo' = Tail(todo)
  /\ Witness
  /\ UNCHANGED <<up, stamp, failed, fromLog, inside, setId, acked, told>>

(* The next record of a batch claims its id, that of a change set copies   *)
(* the set's.                                                              *)
WriteNext ==
  LET next == Head(todo)
      claiming == inside = "batch" /\ next.id # NoId
      catalog == IF claiming THEN Catalog ELSE claims IN
  /\ up /\ todo # <<>>
  /\ IF ~claiming \/ Claim(next) = "new"
     THEN PutOnLog(Resolved(next), catalog)
     ELSE /\ Claim(next) = "replay"
          /\ claims' = catalog
          /\ UNCHANGED <<log, live>>
  /\ IF claiming THEN fromLog' = TRUE ELSE UNCHANGED fromLog
  /\ todo' = Tail(todo)
  /\ UNCHANGED <<up, super, stamp, failed, inside, setId, historyVars>>

(* The flush that commits the batch; an error of the persist behind it is  *)
(* reported although the batch is durable.                                 *)
CommitAtomically ==
  /\ up /\ inside # "no" /\ todo = <<>>
  /\ UNCHANGED <<up, log, live, claims, fromLog>>
  /\ Leave
  /\ \/ /\ CommitDone
        /\ \/ /\ acked' = acked \cup {log[i] : i \in super + 1..Len(log)}
              /\ told' = told \cup ({setId} \ {NoId})
           \/ UNCHANGED <<acked, told>>
     \/ /\ super' \in {super, Len(log)}
        /\ failed' = TRUE
        /\ UNCHANGED <<stamp, acked, told>>
  /\ Witness

-----------------------------------------------------------------------------
(* The process.                                                            *)

(* It stops: what is behind the commit point is gone.                      *)
Crash ==
  /\ up
  /\ up' = FALSE
  /\ log' = SubSeq(log, 1, super)
  /\ live' = NothingLive
  /\ claims' = NothingClaimed
  /\ fromLog' = FALSE
  /\ failed' = FALSE
  /\ Leave
  /\ UNCHANGED <<super, stamp, historyVars>>

Reopen ==
  /\ ~up
  /\ up' = TRUE
  /\ Rebuild(super)
  /\ UNCHANGED <<log, super, failed, callVars, historyVars>>

(* create_cleared: no sidecar, and the catalog is that of the empty log.   *)
Init ==
  /\ up = TRUE
  /\ log = <<>> /\ super = 0 /\ stamp = 0
  /\ failed = FALSE /\ live = NothingLive
  /\ claims = NothingClaimed /\ fromLog = TRUE
  /\ todo = <<>> /\ inside = "no" /\ setId = NoId
  /\ acked = {} /\ told = {} /\ seen = {}

Next ==
  \/ \E action \in Actions : ApplyAction(action)
  \/ \E offer \in Offered : AppendUncommitted(offer)
  \/ Commit
  \/ \E key \in Keys : HideRow(key)
  \/ CatalogUnread
  \/ \E records \in Batches : AppendBatch(records)
  \/ \E feed \in Feeds : MergeIngest(feed[1], feed[2])
  \/ \E feed \in Feeds : ChangelogIngest(feed[1], feed[2])
  \/ \E id \in Ids, set \in ChangeSets : ApplyChangeSet(id, set)
  \/ WriteNext
  \/ AtomicallyFails
  \/ CommitAtomically
  \/ Crash
  \/ Reopen

Spec == Init /\ [][Next]_vars

-----------------------------------------------------------------------------
(* Properties.                                                             *)

(* The newest record of an identity on the log.                            *)
Newest(key) == {i \in 1..Len(log) : log[i].key = key /\
                  \A j \in i + 1..Len(log) : log[j].key # key}

(* The live map is the log: while the store accepts writes, each identity  *)
(* reads as its newest record, after failed appends, failed commits,       *)
(* aborted batches and reopens (append_record and apply_record are two     *)
(* calls, and abort_uncommitted rebuilds every map by hand).               *)
LiveIsTheLog ==
  up /\ ~failed =>
    \A k \in Keys :
      IF Newest(k) = {} THEN live[k] = Absent
      ELSE \A i \in Newest(k) :
             live[k] = [gen |-> log[i].gen, body |-> log[i].body,
                        hidden |-> log[i].hidden, id |-> log[i].id]

(* An Action id takes effect once: two visible records of one id are       *)
(* members of one change set on different identities, whatever was         *)
(* retried, aborted, lost or reopened from a sidecar in between.           *)
OneEffectPerId ==
  \A i, j \in 1..Len(log) :
    (i < j /\ log[i].id = log[j].id /\ log[i].id # NoId
       /\ ~log[i].hidden /\ ~log[j].hidden) =>
      /\ log[i].key # log[j].key
      /\ \E m \in 1..i : log[m].key = Marker /\ log[m].id = log[i].id

(* The catalog a claim consults knows every id on the log, with the        *)
(* identity and the payload that claimed it first; no id is claimed that   *)
(* the log does not have.                                                  *)
CatalogIsTheLog ==
  up /\ ~failed =>
    \A id \in Ids :
      LET uses == {i \in 1..Len(log) : log[i].id = id} IN
      IF uses = {} THEN Catalog[id] = Absent
      ELSE LET first == CHOOSE i \in uses : \A j \in uses : i <= j IN
           /\ Catalog[id] # Absent
           /\ Catalog[id].key = log[first].key
           /\ Catalog[id].body = log[first].body
           /\ Catalog[id].hidden = log[first].hidden

(* The rows of a map are those of a snapshot; what it lacks is hidden.     *)
Shows(rows, snapshot) ==
  \A k \in Keys :
    IF k \in DOMAIN snapshot
    THEN /\ rows[k] # Absent
         /\ <<rows[k].body, rows[k].hidden, rows[k].id>> =
              <<snapshot[k].body, snapshot[k].hidden, snapshot[k].id>>
    ELSE rows[k] = Absent \/ rows[k].hidden

(* A source that diffs its snapshots keeps the store in step: over a store *)
(* that shows the previous snapshot, and with no Action id in the diff     *)
(* that is claimed already, the changelog leads to the current one.        *)
ChangelogFollows ==
  \A feed \in Feeds :
    LET changes == SnapshotChangelog(feed[1], feed[2]) IN
    (/\ up /\ ~failed /\ Shows(live, FoldSnapshot(feed[1]))
     /\ \A i \in DOMAIN changes : Claim(changes[i]) = "new")
    => Shows(FoldLeft(Install, live, changes), FoldSnapshot(feed[2]))

(* Both maps a call is decided by, the rows and the Action ids, are what   *)
(* the log says, and a diff of snapshots keeps the rows in step.           *)
MapsAreTheLog == LiveIsTheLog /\ CatalogIsTheLog /\ ChangelogFollows

(* A generation names one version: no two records that were ever readable  *)
(* from the committed log share an identity and a generation, so an        *)
(* expected_gen a client read there cannot match another version later.    *)
GenerationNamesOneVersion ==
  \A r, s \in seen \cup {log[i] : i \in 1..Len(log)} :
    (r.key = s.key /\ r.key # Marker /\ r.gen = s.gen) => r = s

(* A change set is whole on the committed log: its marker and one record   *)
(* for each edit, or nothing of it.                                        *)
SetsWhole ==
  \A m \in 1..super :
    log[m].key = Marker =>
      \A k \in DOMAIN log[m].members :
        \E i \in m + 1..super : log[i].key = k /\ log[i].id = log[m].id

(* What a call wrote and acknowledged is in front of the commit point.     *)
AckedWritesCommitted ==
  \A r \in acked : \E i \in 1..super : log[i] = r

(* README.md: "Reopen after a crash recovers exactly what was              *)
(* acknowledged": the id of every Action answered with Ok, the first time  *)
(* or as a replay, is on the log a stopped process leaves behind.          *)
AnsweredActionsRecovered ==
  ~up => \A id \in told : \E i \in 1..Len(log) : log[i].id = id

=============================================================================
