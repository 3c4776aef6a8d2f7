------------------------------- MODULE Paging -------------------------------
(***************************************************************************)
(* Sorted pages of a result and their cursors (src/src/page.rs and the     *)
(* page half of compute.rs).  A page is cut from the full ranking of the   *)
(* result, or, for one sort key, read off the equality index of the sort   *)
(* property or kept by one bounded scan.  A cursor names the last row of a *)
(* page and is bound to the request and to the writer's counters; a client *)
(* follows cursors while others append, commit and lose what they had not  *)
(* committed.                                                              *)
(*                                                                         *)
(* The result is the rows of one kind the request's restriction shows:     *)
(* which rows hops and predicates let through is Evaluate's subject.  A    *)
(* record takes one unit of a page, a key is its place in the byte order,  *)
(* and nearest-neighbour pages, which have no cursor, are left out.        *)
(***************************************************************************)
EXTENDS Integers, FiniteSetsExt, SequencesExt

CONSTANTS
  Keys,         \* the identities, integers in the order of their keys
  Offered,      \* the property values writers give a row: prop -> value or None
  Starts,       \* the rows a log holds at the outset
  Descriptors,  \* types: prop -> type, dropped: props
  Place,        \* type -> value -> its place in the order of that type, if it parses
  Requests,     \* sorts: <<[prop, desc]>>, size, bound, hide: keys not shown
  None,         \* the row does not have the property
  NoRow,        \* the identity is not visible
  PageRoom,     \* records on a log page
  GroupSize,    \* pages written before the log commits by itself
  MaxWrites     \* bound: records appended

ASSUME PageAssumption == PageRoom \in Nat \ {0} /\ GroupSize \in Nat \ {0} /\ MaxWrites \in Nat
ASSUME KeysAssumption == Keys \subseteq Int /\ IsFiniteSet(Keys)
ASSUME RequestAssumption ==
  \A req \in Requests :
    /\ req.size \in Nat /\ req.bound \in Nat
    /\ Len(req.sorts) \in Nat /\ DOMAIN req.sorts = 1..Len(req.sorts)

(* The types a property may have order their values on one line.           *)
ASSUME PlaceAssumption ==
  \A req \in Requests, d \in Descriptors : \A i \in DOMAIN req.sorts :
    LET place == Place[d.types[req.sorts[i].prop]] IN
    \A value \in DOMAIN place : place[value] \in Int

VARIABLES
  live,    \* rows and descriptor that readers see
  saved,   \* the same as of the commit point
  stamp,   \* snapshot_stamp: committed pages, written pages, page used
  writes,  \* records appended so far
  chain    \* the pages a client has followed

pagingVars == <<live, saved, stamp, writes, chain>>

NoChain == [req |-> None]

-----------------------------------------------------------------------------
(* The order of rows.  A position is a key and, per sort key, the stored   *)
(* value or None: what a row is ranked by and what a cursor carries.       *)

TypeOf(prop) == live.desc.types[prop]

(* query_prop                                                              *)
Value(key, prop) == IF prop \in live.desc.dropped THEN None ELSE live.rows[key][prop]

(* result_ids, in the restriction of the request.                          *)
Ids(req) == {key \in Keys \ req.hide : live.rows[key] # NoRow}

Position(req, key) ==
  [key |-> key, parts |-> [i \in DOMAIN req.sorts |-> Value(key, req.sorts[i].prop)]]

(* parse_canonical *)
Parses(prop, value) == value = None \/ value \in DOMAIN Place[TypeOf(prop)]
PositionParses(req, at) == \A i \in DOMAIN req.sorts : Parses(req.sorts[i].prop, at.parts[i])

(* The order of two values under one sort key, missing last: -1, 0 or 1.   *)
Compare(sort, l, r) ==
  LET place == Place[TypeOf(sort.prop)]
      diff == IF sort.desc THEN place[r] - place[l] ELSE place[l] - place[r] IN
  IF l = None \/ r = None
  THEN (IF l = None THEN 1 ELSE 0) - (IF r = None THEN 1 ELSE 0)
  ELSE IF diff < 0 THEN -1 ELSE IF diff > 0 THEN 1 ELSE 0

(* cmp_ranked: each sort key in turn, then the key.                        *)
Ahead(req, a, b) ==
  LET differ == {i \in DOMAIN req.sorts : Compare(req.sorts[i], a.parts[i], b.parts[i]) # 0} IN
  IF differ = {} THEN a.key < b.key
  ELSE Compare(req.sorts[Min(differ)], a.parts[Min(differ)], b.parts[Min(differ)]) < 0

-----------------------------------------------------------------------------
(* The full ranking.  A cursor position `after` is <<>> or <<position>>.   *)

Past(req, after, at) == \A i \in DOMAIN after : Ahead(req, after[i], at)

(* The elements of a set, ascending; an order is a set of pairs.           *)
InOrder(set, order) ==
  CHOOSE seq \in [1..Cardinality(set) -> set] :
    \A i, j \in DOMAIN seq : i < j => <<seq[i], seq[j]>> \in order

Order(req, set) == {pair \in set \X set : Ahead(req, pair[1], pair[2])}

(* rank_keys, apply_cursor: every result, and then those behind the cursor.*)
Positions(req) == {Position(req, key) : key \in Ids(req)}
Ranked(req, after) ==
  LET rows == {at \in Positions(req) : Past(req, after, at)} IN
  InOrder(rows, Order(req, rows))

(* split_page: a page size of 0 is no page size.                           *)
SplitPage(req, ranked) ==
  IF req.size = 0 \/ Len(ranked) <= req.size
  THEN [rows |-> ranked, more |-> FALSE, failed |-> FALSE]
  ELSE [rows |-> SubSeq(ranked, 1, req.size), more |-> TRUE, failed |-> FALSE]

Failed == [rows |-> <<>>, more |-> FALSE, failed |-> TRUE]

(* A value that does not parse fails the page.                             *)
FullPage(req, after) ==
  IF \A key \in Ids(req) : PositionParses(req, Position(req, key))
  THEN SplitPage(req, Ranked(req, after))
  ELSE Failed

-----------------------------------------------------------------------------
(* The top page of one sort key.                                           *)

(* Mutant of Keep: no row past the page.                                   *)
KeepPage(req) == IF req.size = 0 THEN 1 ELSE req.size

Keep(req) == Max({1, Min({req.size + 1, Cardinality(Ids(req))})})

FirstOf(seq, n) == IF Len(seq) <= n THEN seq ELSE SubSeq(seq, 1, n)

(* scan_top: one pass in no particular order; a row that is behind the     *)
(* last of a full page is dropped, another is inserted where it belongs.   *)
Scanned(req, after, top, key) ==
  LET at == Position(req, key)
      i == 1 + Cardinality({j \in DOMAIN top : Ahead(req, top[j], at)}) IN
  IF ~Past(req, after, at) \/ i > Keep(req) THEN top
  ELSE FirstOf(InsertAt(top, i, at), Keep(req))

ScanTop(req, after) ==
  FoldLeft(LAMBDA top, key : Scanned(req, after, top, key), <<>>, SetToSeq(Ids(req)))

(* value_index: the visible keys of the kind, shown or not, by value.      *)
Indexed(prop) ==
  {live.rows[key][prop] : key \in {k \in Keys : live.rows[k] # NoRow}} \ {None}

(* The runs of equal values in order.                                      *)
Runs(sort) ==
  LET place == Place[TypeOf(sort.prop)]
      runs == {{v \in Indexed(sort.prop) : place[v] = place[u]} : u \in Indexed(sort.prop)} IN
  InOrder(runs, {pair \in runs \X runs :
                   \A v \in pair[1], u \in pair[2] : Compare(sort, v, u) < 0})

(* Mutant of RunPast: the run of the cursor's value is over.               *)
RunPastValue(sort, after, value, key) ==
  \A i \in DOMAIN after :
    after[i].parts[1] # None /\ Compare(sort, value, after[i].parts[1]) > 0

(* One comparison of a run with the cursor: a run behind it counts whole,  *)
(* the run of its value from its key on, and no run behind a missing value.*)
RunPast(sort, after, value, key) ==
  \A i \in DOMAIN after :
    LET part == after[i].parts[1] IN
    part # None /\ (\/ Compare(sort, value, part) > 0
                    \/ Compare(sort, value, part) = 0 /\ key > after[i].key)

(* The rows of a run, in the order of their keys.                          *)
ByKey(req, keys) ==
  LET rows == {Position(req, key) : key \in keys} IN
  InOrder(rows, {pair \in rows \X rows : pair[1].key < pair[2].key})

(* walk_values: run by run until the page is full, then the rows that do   *)
(* not have the property.                                                  *)
Walked(req, after, top, values) ==
  LET sort == req.sorts[1]
      run == {key \in Ids(req) : live.rows[key][sort.prop] \in values
                /\ RunPast(sort, after, live.rows[key][sort.prop], key)} IN
  FirstOf(top \o ByKey(req, run), Keep(req))

WalkValues(req, after) ==
  LET sort == req.sorts[1]
      filled == FoldLeft(LAMBDA top, values : Walked(req, after, top, values), <<>>, Runs(sort))
      missing == {key \in Ids(req) : live.rows[key][sort.prop] = None
                                       /\ Past(req, after, Position(req, key))} IN
  FirstOf(filled \o ByKey(req, missing), Keep(req))

(* Whether top_page answers at all.                                        *)
HasTop(req) == req.size > 0 /\ Len(req.sorts) = 1

(* The index is walked when it has no more values than there are results   *)
(* and all of them parse; a dropped property has no index.                 *)
Walks(req) ==
  LET prop == req.sorts[1].prop IN
  /\ prop \notin live.desc.dropped /\ Indexed(prop) # {}
  /\ Cardinality(Indexed(prop)) <= Cardinality(Ids(req))
  /\ \A value \in Indexed(prop) : Parses(prop, value)

Cut(req, top) ==
  [rows |-> FirstOf(top, req.size), more |-> Len(top) > req.size, failed |-> FALSE]

(* top_page, which leaves what does not parse to the full ranking.         *)
TopPage(req, after) ==
  IF Walks(req) THEN Cut(req, WalkValues(req, after))
  ELSE IF \A key \in Ids(req) : PositionParses(req, Position(req, key))
  THEN Cut(req, ScanTop(req, after))
  ELSE FullPage(req, after)

(* page_objects *)
PageOf(req, after) ==
  IF Cardinality(Ids(req)) > req.bound THEN Failed
  ELSE IF \E i \in DOMAIN after : ~PositionParses(req, after[i]) THEN Failed
  ELSE IF HasTop(req) THEN TopPage(req, after) ELSE FullPage(req, after)

-----------------------------------------------------------------------------
(* The writer.                                                             *)

(* append: a full page goes to the log, and a full group commits it.       *)
Write(next) ==
  LET full == stamp.used + 1 > PageRoom
      written == stamp.written + IF full THEN 1 ELSE 0
      grouped == full /\ written - stamp.committed >= GroupSize IN
  /\ writes < MaxWrites
  /\ live' = next
  /\ saved' = IF grouped THEN live ELSE saved
  /\ stamp' = [committed |-> IF grouped THEN written ELSE stamp.committed,
               written |-> written, used |-> IF full THEN 1 ELSE stamp.used + 1]
  /\ writes' = writes + 1
  /\ UNCHANGED chain

Put(key, row) == live.rows[key] # row /\ Write([live EXCEPT !.rows[key] = row])

Hide(key) == live.rows[key] # NoRow /\ Write([live EXCEPT !.rows[key] = NoRow])

Describe(d) == live.desc # d /\ Write([live EXCEPT !.desc = d])

Settled == stamp.used = 0 /\ stamp.written = stamp.committed

Commit ==
  /\ ~Settled
  /\ LET written == stamp.written + IF stamp.used > 0 THEN 1 ELSE 0 IN
     stamp' = [committed |-> written, written |-> written, used |-> 0]
  /\ saved' = live
  /\ UNCHANGED <<live, writes, chain>>

(* abort_uncommitted, or a crash and a reopen.                             *)
LoseUncommitted ==
  /\ ~Settled
  /\ live' = saved
  /\ stamp' = [stamp EXCEPT !.written = stamp.committed, !.used = 0]
  /\ chain' = IF chain = NoChain THEN chain ELSE [chain EXCEPT !.lost = TRUE]
  /\ UNCHANGED <<saved, writes>>

-----------------------------------------------------------------------------
(* The client.                                                             *)

KeysOf(rows) == [i \in DOMAIN rows |-> rows[i].key]

(* encode_cursor: the stamp, the request and the last row of the page.     *)
Cursor(req, page) ==
  IF page.more THEN [stamp |-> stamp, req |-> req, after |-> <<Last(page.rows)>>]
  ELSE [after |-> <<>>]

HasCursor == chain # NoChain /\ chain.cursor.after # <<>>

(* Mutant of CursorFits: the cursor is bound to the commit point.          *)
CursorFitsCommit(cursor, req) ==
  cursor.stamp.committed = stamp.committed /\ cursor.req = req

(* decode_cursor: the token was made by the same request, restriction and  *)
(* page size, at the same counters.                                        *)
CursorFits(cursor, req) == cursor.stamp = stamp /\ cursor.req = req

FirstPage(req) ==
  LET page == PageOf(req, <<>>) IN
  /\ ~HasCursor /\ ~page.failed
  /\ chain' = [req |-> req, all |-> KeysOf(Ranked(req, <<>>)), seen |-> KeysOf(page.rows),
               cursor |-> Cursor(req, page), settled |-> Settled, lost |-> FALSE]
  /\ UNCHANGED <<live, saved, stamp, writes>>

(* A cursor that is refused, or a page that fails, ends what the client    *)
(* collected.                                                              *)
NextPage(req) ==
  LET page == PageOf(req, chain.cursor.after) IN
  /\ HasCursor
  /\ chain' = IF ~CursorFits(chain.cursor, req) \/ page.failed THEN NoChain
              ELSE [chain EXCEPT !.seen = @ \o KeysOf(page.rows), !.cursor = Cursor(req, page)]
  /\ UNCHANGED <<live, saved, stamp, writes>>

PagingInit ==
  /\ live \in [rows : Starts, desc : Descriptors]
  /\ saved = live
  /\ stamp = [committed |-> Cardinality(Keys), written |-> Cardinality(Keys), used |-> 0]
  /\ writes = 0
  /\ chain = NoChain

PagingNext ==
  \/ \E key \in Keys, row \in Offered : Put(key, row)
  \/ \E key \in Keys : Hide(key)
  \/ \E d \in Descriptors : Describe(d)
  \/ Commit \/ LoseUncommitted
  \/ \E req \in Requests : FirstPage(req) \/ NextPage(req)

PagingSpec == PagingInit /\ [][PagingNext]_pagingVars

-----------------------------------------------------------------------------
(* Properties.                                                             *)

(* The index walk and the bounded scan give the page, the continuation and *)
(* the failure of the full ranking, from the top and behind every row a    *)
(* cursor can name: ties, missing and dropped values, values the type does *)
(* not parse, in either direction (top_page of compute.rs).                *)
TopIsFullRanking ==
  \A req \in {r \in Requests : HasTop(r)} :
    \A after \in {<<>>} \cup {<<Position(req, key)>> : key \in Ids(req)} :
      (\A i \in DOMAIN after : PositionParses(req, after[i])) =>
        TopPage(req, after) = FullPage(req, after)

OneSnapshot ==
  chain # NoChain =>
    /\ IsPrefix(chain.seen, chain.all)
    /\ chain.cursor.after = <<>> => chain.seen = chain.all

(* The pages a client collects are the ranking of one state, in order,     *)
(* each row once, and the whole of it when no cursor is left: for a chain  *)
(* that began at a commit point whatever fails, and for another unless     *)
(* uncommitted appends were lost under it.                                 *)
PagesOfOneSnapshot == chain # NoChain /\ (chain.settled \/ ~chain.lost) => OneSnapshot

(* page.rs:5-6: "A different view or a later write, including an           *)
(* uncommitted stream append, fails closed": no chain mixes two states.    *)
LaterWriteFails == OneSnapshot

=============================================================================
