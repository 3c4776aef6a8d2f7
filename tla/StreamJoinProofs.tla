-------------------------- MODULE StreamJoinProofs --------------------------
(***************************************************************************)
(* The safety properties of StreamApply, proved for every number of        *)
(* sources, identities and changes, every window and every log, when each  *)
(* source has one applier and the faults of the model are off; and of      *)
(* JoinMaps, whose rollups are exact for every set of kinds, keys and      *)
(* properties and every range of the sums.  The two share no state.  Last  *)
(* are the rounds of Tuning, which edits descriptors over those maps, for  *)
(* every set of seeds, requests and budgets.                               *)
(***************************************************************************)
EXTENDS StreamApply, Tuning, FoldLemmas, FiniteSetTheorems, SequenceTheorems, TLAPS

(* A named source has one applier at a time.                               *)
OneApplier == \A a, b \in Appliers : SourceOf[a] = SourceOf[b] => a = b

Rec == [kind : {"change", "cursor", "flush", "other"}, source : Sources \cup {Other}, offset : Int]

AppRec == [last : [Identities -> Int], committed : Int, pending : Int, count : Int]

TypeInv ==
  /\ log \in Seq(Rec) /\ super \in 0..Len(log) /\ hold \in BOOLEAN /\ failed \in BOOLEAN
  /\ app \in [Appliers -> AppRec] /\ next \in [Appliers -> Nat]
  /\ promised \in [Sources -> Int]

(* What is committed.                                                      *)
Durable == SubSeq(log, 1, super)

ChangesIn(r, s) == {i \in 1..Len(r) : r[i].kind = "change" /\ r[i].source = s}

(* The live cursor row is well defined.                                    *)
HasNewest(r, s) ==
  Cursors(r, s) # {} => \E m \in Cursors(r, s) : \A j \in Cursors(r, s) : j <= m

(* The records of one source: the newest cursor covers every change, and   *)
(* no offset below it is missing, cursors ascend, and changes are there    *)
(* once and in the order of their identity.                                *)
Covered(r, s) == \A i \in ChangesIn(r, s) : r[i].offset <= LiveCursor(r, s)
Complete(r, s) ==
  \A o \in Nat : o <= LiveCursor(r, s) => \E i \in ChangesIn(r, s) : r[i].offset = o
Ascending(r, s) ==
  \A i, j \in Cursors(r, s) : i < j => r[i].offset <= r[j].offset
OnceInOrder(r, s) ==
  \A i, j \in ChangesIn(r, s) :
    /\ r[i].offset = r[j].offset => i = j
    /\ i < j /\ Changes[s][r[i].offset] = Changes[s][r[j].offset] =>
         r[i].offset <= r[j].offset
Offsets(r, s) == \A i \in ChangesIn(r, s) : r[i].offset \in DOMAIN Changes[s]

Sound(r, s) ==
  /\ HasNewest(r, s) /\ Covered(r, s) /\ Complete(r, s) /\ Ascending(r, s)
  /\ OnceInOrder(r, s) /\ Offsets(r, s) /\ LiveCursor(r, s) >= None

LogInv == \A s \in Sources : Sound(log, s)

(* The commit point, and the larger offset a flush has answered.           *)
DurableInv ==
  \A s \in Sources :
    /\ Sound(Durable, s)
    /\ promised[s] <= LiveCursor(Durable, s)
    /\ LiveCursor(Durable, s) <= LiveCursor(log, s)

(* Without a hold the commit point may move: only over records that are of *)
(* no source.                                                              *)
HoldInv == ~hold => \A i \in (super + 1)..Len(log) : log[i].source = Other

(* The fields of an applier tell where the live cursor of its source is,   *)
(* and which offset is the newest of an identity.                          *)
AppInv(a) ==
  /\ app[a].committed >= None /\ app[a].pending >= None
  /\ app[a].pending # None => app[a].pending > app[a].committed
  /\ LiveCursor(log, SourceOf[a]) =
       IF app[a].pending = None THEN app[a].committed ELSE app[a].pending
  /\ \A k \in Identities : app[a].last[k] <= LiveCursor(log, SourceOf[a])
  /\ \A i \in ChangesIn(log, SourceOf[a]) :
       \/ log[i].offset <= app[a].committed
       \/ log[i].offset <= app[a].last[Changes[SourceOf[a]][log[i].offset]]
  /\ next[a] <= LiveCursor(log, SourceOf[a]) + 1

AppsInv == \A a \in Appliers : AppInv(a)

StreamInv == TypeInv /\ LogInv /\ DurableInv /\ HoldInv /\ AppsInv

-----------------------------------------------------------------------------
(* Maxima, and the newest cursor.                                          *)
LEMMA MaxOfInts ==
  ASSUME NEW S \in SUBSET Int, NEW m \in S, \A j \in S : j <= m
  PROVE  Max(S) = m
<1>1. \A x \in S : (\A y \in S : x >= y) => x = m
  OBVIOUS
<1>2. \A y \in S : m >= y
  OBVIOUS
<1> QED
  BY <1>1, <1>2 DEF Max

LEMMA MaxOfTwo ==
  ASSUME NEW a \in Int, NEW b \in Int
  PROVE  Max({a, b}) = IF a >= b THEN a ELSE b
<1>1. CASE a >= b
  <2>1. a \in {a, b} /\ (\A j \in {a, b} : j <= a) /\ {a, b} \in SUBSET Int
    BY <1>1
  <2> QED
    BY <1>1, <2>1, MaxOfInts
<1>2. CASE ~(a >= b)
  <2>1. b \in {a, b} /\ (\A j \in {a, b} : j <= b) /\ {a, b} \in SUBSET Int
    BY <1>2
  <2> QED
    BY <1>2, <2>1, MaxOfInts
<1> QED
  BY <1>1, <1>2

LEMMA LiveIs ==
  ASSUME NEW r \in Seq(Rec), NEW s, NEW m \in Cursors(r, s), \A j \in Cursors(r, s) : j <= m
  PROVE  LiveCursor(r, s) = r[m].offset
<1>1. Cursors(r, s) \in SUBSET Int /\ Cursors(r, s) # {}
  BY DEF Cursors
<1>2. Max(Cursors(r, s)) = m
  BY <1>1, MaxOfInts
<1> QED
  BY <1>1, <1>2 DEF LiveCursor

(* The live cursor is a number.                                            *)
LEMMA LiveType ==
  ASSUME NEW r \in Seq(Rec), NEW s, HasNewest(r, s)
  PROVE  LiveCursor(r, s) \in Int
<1>1. CASE Cursors(r, s) = {}
  BY <1>1 DEF LiveCursor, None
<1>2. CASE Cursors(r, s) # {}
  <2>1. PICK m \in Cursors(r, s) : \A j \in Cursors(r, s) : j <= m
    BY <1>2 DEF HasNewest
  <2>2. m \in 1..Len(r) /\ r[m] \in Rec
    BY <2>1 DEF Cursors
  <2> QED
    BY <2>1, <2>2, LiveIs DEF Rec
<1> QED
  BY <1>1, <1>2

-----------------------------------------------------------------------------
(* What is appended to a sound log.                                        *)

LEMMA RecordFields ==
  ASSUME NEW kind, NEW s, NEW o
  PROVE  /\ LogRecord(kind, s, o).kind = kind /\ LogRecord(kind, s, o).source = s
         /\ LogRecord(kind, s, o).offset = o
BY DEF LogRecord

LEMMA OffsetType ==
  ASSUME NEW r \in Seq(Rec), NEW i \in 1..Len(r)
  PROVE  r[i].offset \in Int
<1>1. r[i] \in Rec
  OBVIOUS
<1> QED
  BY <1>1 DEF Rec

(* Records of no or another source change nothing for this one.            *)
LEMMA OthersAppended ==
  ASSUME NEW r \in Seq(Rec), NEW q \in Seq(Rec), NEW s, Sound(r, s),
         Len(r) <= Len(q), \A i \in 1..Len(r) : q[i] = r[i],
         \A i \in (Len(r) + 1)..Len(q) : q[i].source # s
  PROVE  /\ Sound(q, s) /\ LiveCursor(q, s) = LiveCursor(r, s)
         /\ ChangesIn(q, s) = ChangesIn(r, s)
<1>1. \A i \in 1..Len(q) : i \in 1..Len(r) \/ i \in (Len(r) + 1)..Len(q)
  OBVIOUS
<1>2. \A i \in 1..Len(r) : i \in 1..Len(q)
  OBVIOUS
<1>3. Cursors(q, s) = Cursors(r, s)
  BY <1>1, <1>2 DEF Cursors
<1>4. ChangesIn(q, s) = ChangesIn(r, s)
  BY <1>1, <1>2 DEF ChangesIn
<1>5. \A i \in Cursors(r, s) \cup ChangesIn(r, s) : q[i] = r[i]
  BY DEF Cursors, ChangesIn
<1>6. LiveCursor(q, s) = LiveCursor(r, s)
  <2>1. CASE Cursors(r, s) = {}
    BY <1>3, <2>1 DEF LiveCursor
  <2>2. CASE Cursors(r, s) # {}
    <3>1. PICK m \in Cursors(r, s) : \A j \in Cursors(r, s) : j <= m
      BY <2>2 DEF Sound, HasNewest
    <3> QED
      BY <1>3, <1>5, <3>1, LiveIs
  <2> QED
    BY <2>1, <2>2
<1>7. Sound(q, s)
  <2>1. HasNewest(q, s)
    BY <1>3 DEF Sound, HasNewest
  <2>2. Covered(q, s) /\ Complete(q, s) /\ OnceInOrder(q, s) /\ Offsets(q, s)
    BY <1>4, <1>5, <1>6 DEF Sound, Covered, Complete, OnceInOrder, Offsets
  <2>3. Ascending(q, s)
    BY <1>3, <1>5 DEF Sound, Ascending
  <2> QED
    BY <1>6, <2>1, <2>2, <2>3 DEF Sound
<1> QED
  BY <1>4, <1>6, <1>7

(* In a sound log no cursor is above the live one.                         *)
LEMMA LiveIsLargest ==
  ASSUME NEW r \in Seq(Rec), NEW s, Sound(r, s), NEW i \in Cursors(r, s)
  PROVE  r[i].offset <= LiveCursor(r, s)
<1>1. PICK m \in Cursors(r, s) : \A j \in Cursors(r, s) : j <= m
  BY DEF Sound, HasNewest
<1>2. LiveCursor(r, s) = r[m].offset
  BY <1>1, LiveIs
<1>3. i \in 1..Len(r) /\ m \in 1..Len(r) /\ i <= m /\ r[i].offset \in Int
  <2>1. i \in 1..Len(r) /\ m \in 1..Len(r) /\ i <= m
    BY <1>1 DEF Cursors
  <2>2. r[i] \in Rec
    BY <2>1
  <2> QED
    BY <2>1, <2>2 DEF Rec
<1>4. i < m => r[i].offset <= r[m].offset
  BY <1>1 DEF Sound, Ascending
<1> QED
  BY <1>2, <1>3, <1>4

(* A cursor that is not below the live one is the new live one; the        *)
(* changes stay covered and complete.                                      *)
LEMMA CursorAppended ==
  ASSUME NEW r \in Seq(Rec), NEW s \in Sources, Sound(r, s), NEW kind \in {"cursor", "flush"},
         NEW q, q = Append(r, LogRecord(kind, s, LiveCursor(r, s)))
  PROVE  /\ q \in Seq(Rec) /\ Sound(q, s) /\ LiveCursor(q, s) = LiveCursor(r, s)
         /\ ChangesIn(q, s) = ChangesIn(r, s)
<1>1. LiveCursor(r, s) \in Int
  BY LiveType DEF Sound
<1>2. PICK n \in Nat : n = Len(r) + 1
  OBVIOUS
<1>3. LogRecord(kind, s, LiveCursor(r, s)) \in Rec
  BY <1>1 DEF LogRecord, Rec
<1>4. /\ q \in Seq(Rec) /\ Len(q) = n /\ (\A i \in 1..Len(r) : q[i] = r[i])
      /\ q[n] = LogRecord(kind, s, LiveCursor(r, s))
  BY <1>2, <1>3
<1>5. q[n].kind = kind /\ q[n].source = s /\ q[n].offset = LiveCursor(r, s)
  BY <1>4 DEF LogRecord
<1>6. Cursors(q, s) = Cursors(r, s) \cup {n}
  BY <1>2, <1>4, <1>5 DEF Cursors
<1>7. ChangesIn(q, s) = ChangesIn(r, s)
  BY <1>2, <1>4, <1>5 DEF ChangesIn
<1>8. \A i \in Cursors(r, s) \cup ChangesIn(r, s) : q[i] = r[i] /\ i \in 1..Len(r) /\ i < n
  BY <1>2, <1>4 DEF Cursors, ChangesIn
<1>9. n \in Cursors(q, s) /\ \A j \in Cursors(q, s) : j <= n
  BY <1>6, <1>8, <1>2
<1>10. LiveCursor(q, s) = LiveCursor(r, s)
  BY <1>4, <1>5, <1>9, LiveIs
<1>11. HasNewest(q, s)
  BY <1>9 DEF HasNewest
<1>12. Covered(q, s) /\ Complete(q, s) /\ OnceInOrder(q, s) /\ Offsets(q, s)
  BY <1>7, <1>8, <1>10 DEF Sound, Covered, Complete, OnceInOrder, Offsets
<1>13. Ascending(q, s)
  <2> SUFFICES ASSUME NEW i \in Cursors(q, s), NEW j \in Cursors(q, s), i < j
               PROVE  q[i].offset <= q[j].offset
    BY DEF Ascending
  <2>1. i \in Cursors(r, s)
    BY <1>2, <1>6, <1>8
  <2>2. CASE j = n
    BY <1>5, <1>8, <2>1, <2>2, LiveIsLargest
  <2>3. CASE j # n
    BY <1>6, <1>8, <2>1, <2>3 DEF Sound, Ascending
  <2> QED
    BY <2>2, <2>3
<1> QED
  BY <1>4, <1>7, <1>10, <1>11, <1>12, <1>13 DEF Sound

(* What applies next to a log: an offset that is at most one behind the    *)
(* live cursor and above what is there of its identity, and a cursor.      *)
Follows(r, s, o, c) ==
  /\ o \in DOMAIN Changes[s] /\ o \in Nat /\ o <= LiveCursor(r, s) + 1
  /\ \A i \in ChangesIn(r, s) : Changes[s][r[i].offset] = Changes[s][o] => r[i].offset < o
  /\ c \in Int /\ c = IF o > LiveCursor(r, s) THEN o ELSE LiveCursor(r, s)

(* The log with both behind it.                                            *)
Extended(r, q, s, o, c) ==
  /\ q \in Seq(Rec) /\ Len(q) = Len(r) + 2 /\ \A i \in 1..Len(r) : q[i] = r[i]
  /\ q[Len(r) + 1].kind = "change" /\ q[Len(r) + 1].source = s /\ q[Len(r) + 1].offset = o
  /\ q[Len(r) + 2].kind = "cursor" /\ q[Len(r) + 2].source = s /\ q[Len(r) + 2].offset = c

(* The next change, new to its identity, and a cursor that covers it.      *)
LEMMA ChangeAppended ==
  ASSUME NEW r \in Seq(Rec), NEW s \in Sources, Sound(r, s), NEW o, NEW c, Follows(r, s, o, c),
         NEW q, Extended(r, q, s, o, c)
  PROVE  /\ Sound(q, s) /\ LiveCursor(q, s) = c
         /\ ChangesIn(q, s) = ChangesIn(r, s) \cup {Len(r) + 1}
<1>1. PICK n \in Nat, k \in Nat : n = Len(r) + 1 /\ k = Len(r) + 2
  OBVIOUS
<1>2. /\ o \in DOMAIN Changes[s] /\ o \in Nat /\ o <= LiveCursor(r, s) + 1
      /\ c \in Int /\ c = IF o > LiveCursor(r, s) THEN o ELSE LiveCursor(r, s)
  BY DEF Follows
<1>3. /\ q \in Seq(Rec) /\ Len(q) = k /\ \A i \in 1..Len(r) : q[i] = r[i]
      /\ q[n].kind = "change" /\ q[n].source = s /\ q[n].offset = o
      /\ q[k].kind = "cursor" /\ q[k].source = s /\ q[k].offset = c
  BY <1>1 DEF Extended
<1>4. \A i \in ChangesIn(r, s) : Changes[s][r[i].offset] = Changes[s][o] => r[i].offset < o
  BY DEF Follows
<1>5. LiveCursor(r, s) \in Int /\ LiveCursor(r, s) >= None
  BY LiveType DEF Sound
<1>6. \A i \in 1..k : i \in 1..Len(r) \/ i = n \/ i = k
  BY <1>1
<1>7. 1..Len(r) \subseteq 1..k /\ n \in 1..k /\ k \in 1..k /\ n # k
  BY <1>1
<1>8. Cursors(q, s) = Cursors(r, s) \cup {k}
  BY <1>1, <1>3, <1>6, <1>7 DEF Cursors
<1>9. ChangesIn(q, s) = ChangesIn(r, s) \cup {n}
  BY <1>1, <1>3, <1>6, <1>7 DEF ChangesIn
<1>10. \A i \in Cursors(r, s) \cup ChangesIn(r, s) :
         q[i] = r[i] /\ i \in 1..Len(r) /\ i < n /\ i < k /\ r[i].offset \in Int
  <2>1. \A i \in 1..Len(r) : r[i].offset \in Int
    BY <1>1, <1>3, OffsetType
  <2> QED
    BY <1>1, <1>3, <2>1 DEF Cursors, ChangesIn
<1>11. k \in Cursors(q, s) /\ \A j \in Cursors(q, s) : j <= k
  <2>1. \A j \in Cursors(r, s) : j <= k
    BY <1>10
  <2> QED
    BY <1>8, <2>1
<1>12. LiveCursor(q, s) = c
  BY <1>3, <1>11, LiveIs
<1>13. HasNewest(q, s)
  BY <1>11 DEF HasNewest
<1>14. Covered(q, s)
  <2> SUFFICES ASSUME NEW i \in ChangesIn(q, s) PROVE q[i].offset <= c
    BY <1>2, <1>3, <1>12 DEF Covered
  <2>1. CASE i = n
    <3>1. o <= c
      BY <1>2, <1>3, <1>5
    <3> QED
      BY <1>2, <1>3, <2>1, <3>1
  <2>2. CASE i # n
    <3>1. i \in ChangesIn(r, s) /\ q[i] = r[i] /\ r[i].offset \in Int
      BY <1>2, <1>3, <1>9, <1>10, <2>2
    <3>2. r[i].offset <= LiveCursor(r, s)
      BY <1>2, <1>3, <3>1 DEF Sound, Covered
    <3>3. LiveCursor(r, s) <= c
      BY <1>2, <1>3, <1>5
    <3> QED
      BY <1>2, <1>3, <1>5, <3>1, <3>2, <3>3
  <2> QED
    BY <1>2, <1>3, <2>1, <2>2
<1>15. Complete(q, s)
  <2> SUFFICES ASSUME NEW x \in Nat, x <= c PROVE \E i \in ChangesIn(q, s) : q[i].offset = x
    BY <1>2, <1>3, <1>12 DEF Complete
  <2>1. CASE x = o
    BY <1>2, <1>3, <1>9, <2>1
  <2>2. CASE x # o
    <3>1. x <= LiveCursor(r, s)
      BY <1>2, <1>3, <1>5, <2>2
    <3>2. PICK i \in ChangesIn(r, s) : r[i].offset = x
      BY <1>2, <1>3, <3>1 DEF Sound, Complete
    <3> QED
      BY <1>2, <1>3, <1>9, <1>10, <3>2
  <2> QED
    BY <1>2, <1>3, <2>1, <2>2
<1>16. Ascending(q, s)
  <2> SUFFICES ASSUME NEW i \in Cursors(q, s), NEW j \in Cursors(q, s), i < j
               PROVE  q[i].offset <= q[j].offset
    BY <1>2, <1>3 DEF Ascending
  <2>1. i \in Cursors(r, s)
    <3>1. i # k
      BY <1>2, <1>3, <1>8, <1>10
    <3> QED
      BY <1>2, <1>3, <1>8, <3>1
  <2>2. CASE j = k
    <3>1. r[i].offset <= LiveCursor(r, s)
      BY <1>2, <1>3, <2>1, LiveIsLargest
    <3>2. r[i].offset <= c
      BY <1>2, <1>3, <1>5, <1>10, <2>1, <3>1
    <3> QED
      BY <1>2, <1>3, <1>10, <2>1, <2>2, <3>2
  <2>3. CASE j # k
    BY <1>2, <1>3, <1>8, <1>10, <2>1, <2>3 DEF Sound, Ascending
  <2> QED
    BY <1>2, <1>3, <2>2, <2>3
<1>17. OnceInOrder(q, s)
  <2> SUFFICES ASSUME NEW i \in ChangesIn(q, s), NEW j \in ChangesIn(q, s)
               PROVE  /\ q[i].offset = q[j].offset => i = j
                      /\ i < j /\ Changes[s][q[i].offset] = Changes[s][q[j].offset] =>
                           q[i].offset <= q[j].offset
    BY <1>2, <1>3, <1>4 DEF OnceInOrder
  <2>1. CASE i \in ChangesIn(r, s) /\ j \in ChangesIn(r, s)
    BY <1>2, <1>3, <1>4, <1>10, <2>1 DEF Sound, OnceInOrder
  <2>2. CASE i = n /\ j = n
    BY <1>2, <1>3, <1>4, <2>2
  <2>3. CASE i \in ChangesIn(r, s) /\ j = n
    <3>1. Changes[s][q[i].offset] = Changes[s][o] => r[i].offset < o
      BY <1>2, <1>3, <1>4, <1>10, <2>3
    <3>2. q[i].offset = r[i].offset /\ r[i].offset \in Int /\ q[j].offset = o
      BY <1>2, <1>3, <1>4, <1>10, <2>3
    <3>3. q[i].offset # q[j].offset
      <4>1. CASE r[i].offset = o
        BY <1>2, <1>3, <1>4, <3>1, <3>2, <4>1
      <4> QED
        BY <1>2, <1>3, <1>4, <3>2, <4>1
    <3>4. Changes[s][q[i].offset] = Changes[s][q[j].offset] => q[i].offset <= q[j].offset
      BY <1>2, <1>3, <1>4, <3>1, <3>2
    <3> QED
      BY <1>2, <1>3, <1>4, <3>3, <3>4
  <2>4. CASE i = n /\ j \in ChangesIn(r, s)
    <3>1. Changes[s][q[j].offset] = Changes[s][o] => r[j].offset < o
      BY <1>2, <1>3, <1>4, <1>10, <2>4
    <3>2. q[j].offset = r[j].offset /\ r[j].offset \in Int /\ q[i].offset = o
      BY <1>2, <1>3, <1>4, <1>10, <2>4
    <3>3. q[i].offset # q[j].offset
      <4>1. CASE r[j].offset = o
        BY <1>2, <1>3, <1>4, <3>1, <3>2, <4>1
      <4> QED
        BY <1>2, <1>3, <1>4, <3>2, <4>1
    <3>4. ~(i < j)
      BY <1>2, <1>3, <1>4, <1>10, <2>4
    <3> QED
      BY <1>2, <1>3, <1>4, <3>3, <3>4
  <2> QED
    BY <1>2, <1>3, <1>4, <1>9, <2>1, <2>2, <2>3, <2>4
<1>18. Offsets(q, s)
  BY <1>2, <1>3, <1>9, <1>10 DEF Sound, Offsets
<1>19. c >= None
  BY <1>2, <1>5 DEF None
<1> QED
  BY <1>1, <1>9, <1>12, <1>13, <1>14, <1>15, <1>16, <1>17, <1>18, <1>19 DEF Sound

-----------------------------------------------------------------------------
(* Sequences.                                                              *)
LEMMA PairAppended ==
  ASSUME NEW r \in Seq(Rec), NEW x \in Rec, NEW y \in Rec, NEW q, q = r \o <<x, y>>
  PROVE  /\ q \in Seq(Rec) /\ Len(q) = Len(r) + 2 /\ (\A i \in 1..Len(r) : q[i] = r[i])
         /\ q[Len(r) + 1] = x /\ q[Len(r) + 2] = y
OBVIOUS

LEMMA OneAppended ==
  ASSUME NEW r \in Seq(Rec), NEW x \in Rec, NEW q, q = Append(r, x)
  PROVE  /\ q \in Seq(Rec) /\ Len(q) = Len(r) + 1 /\ (\A i \in 1..Len(r) : q[i] = r[i])
         /\ q[Len(r) + 1] = x
OBVIOUS

LEMMA Prefix ==
  ASSUME NEW r \in Seq(Rec), NEW n \in 0..Len(r)
  PROVE  /\ SubSeq(r, 1, n) \in Seq(Rec) /\ Len(SubSeq(r, 1, n)) = n
         /\ \A i \in 1..n : SubSeq(r, 1, n)[i] = r[i]
OBVIOUS

LEMMA Whole ==
  ASSUME NEW r \in Seq(Rec)
  PROVE  SubSeq(r, 1, Len(r)) = r
OBVIOUS

LEMMA SamePrefix ==
  ASSUME NEW r \in Seq(Rec), NEW q \in Seq(Rec), NEW n \in 0..Len(r), Len(r) <= Len(q),
         \A i \in 1..Len(r) : q[i] = r[i]
  PROVE  SubSeq(q, 1, n) = SubSeq(r, 1, n)
<1>1. n \in 0..Len(q)
  OBVIOUS
<1>2. /\ SubSeq(q, 1, n) \in Seq(Rec) /\ SubSeq(r, 1, n) \in Seq(Rec)
      /\ Len(SubSeq(q, 1, n)) = n /\ Len(SubSeq(r, 1, n)) = n
  BY <1>1, Prefix
<1>3. \A i \in 1..n : SubSeq(q, 1, n)[i] = SubSeq(r, 1, n)[i]
  BY <1>1, Prefix
<1> QED
  BY <1>2, <1>3

-----------------------------------------------------------------------------
(* Where the commit point may go.                                          *)

(* Facts of the state that every step uses.                                *)
LEMMA LogFacts ==
  ASSUME StreamInv
  PROVE  /\ log \in Seq(Rec) /\ super \in 0..Len(log) /\ Len(log) \in Nat
         /\ Durable \in Seq(Rec) /\ Len(Durable) = super
         /\ \A s \in Sources : /\ Sound(log, s) /\ LiveCursor(log, s) \in Int
                               /\ LiveCursor(log, s) >= None
                               /\ LiveCursor(Durable, s) \in Int
<1>1. log \in Seq(Rec) /\ super \in 0..Len(log) /\ Len(log) \in Nat
  BY DEF StreamInv, TypeInv
<1>2. Durable \in Seq(Rec) /\ Len(Durable) = super
  BY <1>1, Prefix DEF Durable
<1>3. \A s \in Sources : Sound(log, s) /\ Sound(Durable, s)
  BY DEF StreamInv, LogInv, DurableInv
<1> QED
  BY <1>1, <1>2, <1>3, LiveType DEF Sound

(* Nowhere; over all of the log, before or after the step; or over records *)
(* of no source.                                                           *)
Moves ==
  \/ super' = super
  \/ super' \in {Len(log), Len(log')}
  \/ super' \in super..Len(log') /\ \A i \in (super + 1)..super' : log'[i].source = Other

LEMMA DurableKeeps ==
  ASSUME StreamInv, log' \in Seq(Rec), Len(log) <= Len(log'),
         \A i \in 1..Len(log) : log'[i] = log[i],
         LogInv', \A s \in Sources : LiveCursor(log, s) <= LiveCursor(log', s),
         Moves, promised' = promised
  PROVE  DurableInv' /\ super' \in 0..Len(log')
<1>1. /\ log \in Seq(Rec) /\ super \in 0..Len(log) /\ Len(log) \in Nat
      /\ Durable \in Seq(Rec) /\ Len(Durable) = super /\ Len(log') \in Nat
  BY LogFacts
<1>2. super' \in 0..Len(log')
  BY <1>1 DEF Moves
<1>3. Durable' = SubSeq(log', 1, super')
  BY DEF Durable
<1> SUFFICES ASSUME NEW s \in Sources
             PROVE  /\ Sound(Durable', s) /\ promised[s] <= LiveCursor(Durable', s)
                    /\ LiveCursor(Durable', s) <= LiveCursor(log', s)
  BY <1>2 DEF DurableInv
<1>4. /\ LiveCursor(log, s) \in Int /\ LiveCursor(Durable, s) \in Int /\ Sound(Durable, s)
      /\ promised[s] \in Int /\ promised[s] <= LiveCursor(Durable, s)
      /\ LiveCursor(Durable, s) <= LiveCursor(log, s)
      /\ LiveCursor(log, s) <= LiveCursor(log', s) /\ Sound(log', s)
  BY LogFacts DEF StreamInv, DurableInv, LogInv, TypeInv
<1>5. LiveCursor(log', s) \in Int
  BY <1>4, LiveType DEF Sound
<1>6. CASE super' = super
  <2>1. Durable' = Durable
    BY <1>1, <1>3, <1>6, SamePrefix DEF Durable
  <2> QED
    BY <1>4, <1>5, <2>1
<1>7. CASE super' = Len(log')
  <2>1. Durable' = log'
    BY <1>3, <1>7, Whole
  <2> QED
    BY <1>4, <1>5, <2>1
<1>8. CASE super' = Len(log)
  <2>1. Durable' = log
    BY <1>1, <1>3, <1>8, SamePrefix, Whole
  <2> QED
    BY <1>4, <1>5, <2>1 DEF StreamInv, LogInv
<1>9. CASE super' \in super..Len(log') /\ \A i \in (super + 1)..super' : log'[i].source = Other
  <2>1. /\ Durable' \in Seq(Rec) /\ Len(Durable') = super'
        /\ \A i \in 1..super' : Durable'[i] = log'[i]
    BY <1>2, <1>3, Prefix
  <2>2. \A i \in 1..super : Durable[i] = log[i]
    BY <1>1, Prefix DEF Durable
  <2>3. \A i \in 1..super : Durable'[i] = Durable[i]
    BY <1>1, <1>9, <2>1, <2>2
  <2>4. \A i \in (super + 1)..super' : Durable'[i].source # s
    BY <1>1, <1>2, <1>9, <2>1, SourceAssumption
  <2>5. super <= super'
    BY <1>1, <1>9
  <2>6. Sound(Durable', s) /\ LiveCursor(Durable', s) = LiveCursor(Durable, s)
    BY <1>1, <1>4, <2>1, <2>3, <2>4, <2>5, OthersAppended
  <2> QED
    BY <1>4, <1>5, <2>6
<1> QED
  BY <1>6, <1>7, <1>9, <1>8 DEF Moves

-----------------------------------------------------------------------------
(* What an applier knows depends on its source's records only.             *)
LEMMA AppsKept ==
  ASSUME StreamInv, NEW a \in Appliers, log' \in Seq(Rec), Len(log) <= Len(log'),
         \A i \in 1..Len(log) : log'[i] = log[i],
         LiveCursor(log', SourceOf[a]) = LiveCursor(log, SourceOf[a]),
         ChangesIn(log', SourceOf[a]) = ChangesIn(log, SourceOf[a]),
         app'[a] = app[a], next'[a] = next[a]
  PROVE  AppInv(a)'
<1>1. AppInv(a)
  BY DEF StreamInv, AppsInv
<1>2. \A i \in ChangesIn(log, SourceOf[a]) : log'[i] = log[i]
  BY DEF ChangesIn
<1> QED
  BY <1>1, <1>2 DEF AppInv

(* A writer that knows nothing of streams appends one record or none, and  *)
(* the commit point goes where it may.                                     *)
LEMMA WriterKeeps ==
  ASSUME StreamInv, log' = log \/ log' = Append(log, Foreign),
         UNCHANGED <<app, next, promised>>, hold' \in BOOLEAN, failed' \in BOOLEAN,
         Moves, HoldInv'
  PROVE  StreamInv'
<1>1. log \in Seq(Rec) /\ super \in 0..Len(log) /\ Len(log) \in Nat
  BY LogFacts
<1>2. Foreign \in Rec /\ Foreign.source = Other
  BY DEF Foreign, LogRecord, Rec
<1>3. /\ log' \in Seq(Rec) /\ Len(log) <= Len(log')
      /\ \A i \in 1..Len(log) : log'[i] = log[i]
      /\ \A i \in (Len(log) + 1)..Len(log') : log'[i].source = Other
  <2>1. CASE log' = log
    BY <1>1, <2>1
  <2>2. CASE log' = Append(log, Foreign)
    <3>1. /\ log' \in Seq(Rec) /\ Len(log') = Len(log) + 1
          /\ (\A i \in 1..Len(log) : log'[i] = log[i]) /\ log'[Len(log) + 1] = Foreign
      BY <1>1, <1>2, <2>2, OneAppended
    <3> QED
      BY <1>1, <1>2, <3>1
  <2> QED
    BY <2>1, <2>2
<1>4. ASSUME NEW s \in Sources
      PROVE  /\ Sound(log', s) /\ LiveCursor(log', s) = LiveCursor(log, s)
             /\ ChangesIn(log', s) = ChangesIn(log, s)
  <2>1. \A i \in (Len(log) + 1)..Len(log') : log'[i].source # s
    BY <1>3, SourceAssumption
  <2>2. Sound(log, s)
    BY DEF StreamInv, LogInv
  <2> QED
    BY <1>1, <1>3, <2>1, <2>2, OthersAppended
<1>5. LogInv'
  BY <1>4 DEF LogInv
<1>6. \A s \in Sources : LiveCursor(log, s) <= LiveCursor(log', s)
  BY <1>4, LogFacts
<1>7. DurableInv' /\ super' \in 0..Len(log')
  BY <1>3, <1>5, <1>6, DurableKeeps
<1>8. AppsInv'
  <2> SUFFICES ASSUME NEW a \in Appliers PROVE AppInv(a)'
    BY DEF AppsInv
  <2>1. SourceOf[a] \in Sources
    BY SourceAssumption
  <2> QED
    BY <1>3, <1>4, <2>1, AppsKept
<1>9. TypeInv'
  BY <1>3, <1>7 DEF StreamInv, TypeInv
<1> QED
  BY <1>5, <1>7, <1>8, <1>9 DEF StreamInv

(* An append of an other writer, while the commit point goes where a page  *)
(* write or a commit may take it.                                          *)
LEMMA OtherMoves ==
  ASSUME StreamInv, log' = log \/ log' = Append(log, Foreign), hold' = hold,
         super' \in (IF hold THEN {super} ELSE super..Len(log)) \cup {Len(log')}
  PROVE  Moves /\ HoldInv'
<1>1. log \in Seq(Rec) /\ super \in 0..Len(log) /\ Len(log) \in Nat
  BY LogFacts
<1>2. Foreign \in Rec /\ Foreign.source = Other
  BY DEF Foreign, LogRecord, Rec
<1>3. /\ Len(log') \in Nat /\ Len(log) <= Len(log')
      /\ \A i \in 1..Len(log) : log'[i] = log[i]
      /\ \A i \in (Len(log) + 1)..Len(log') : log'[i].source = Other
  <2>1. CASE log' = log
    BY <1>1, <2>1
  <2>2. CASE log' = Append(log, Foreign)
    <3>1. /\ log' \in Seq(Rec) /\ Len(log') = Len(log) + 1
          /\ (\A i \in 1..Len(log) : log'[i] = log[i]) /\ log'[Len(log) + 1] = Foreign
      BY <1>1, <1>2, <2>2, OneAppended
    <3> QED
      BY <1>1, <1>2, <3>1
  <2> QED
    BY <2>1, <2>2
<1>4. CASE super' = Len(log')
  <2>1. HoldInv'
    BY <1>3, <1>4 DEF HoldInv
  <2> QED
    BY <1>4, <2>1 DEF Moves
<1>5. CASE hold /\ super' = super
  BY <1>5 DEF Moves, HoldInv
<1>6. CASE ~hold /\ super' \in super..Len(log)
  <2>1. \A i \in (super + 1)..Len(log) : log[i].source = Other
    BY <1>6 DEF StreamInv, HoldInv
  <2>2. \A i \in (super + 1)..Len(log') : log'[i].source = Other
    <3> SUFFICES ASSUME NEW i \in (super + 1)..Len(log') PROVE log'[i].source = Other
      OBVIOUS
    <3>1. CASE i <= Len(log)
      <4>1. i \in (super + 1)..Len(log) /\ i \in 1..Len(log)
        BY <1>1, <3>1
      <4> QED
        BY <1>3, <2>1, <4>1
    <3>2. CASE ~(i <= Len(log))
      <4>1. i \in (Len(log) + 1)..Len(log')
        BY <1>1, <1>3, <3>2
      <4> QED
        BY <1>3, <4>1
    <3> QED
      BY <3>1, <3>2
  <2>3. super' \in super..Len(log') /\ super' \in Nat /\ super \in Nat
    BY <1>1, <1>3, <1>6
  <2>4. \A i \in (super + 1)..super' : i \in (super + 1)..Len(log')
    BY <1>3, <2>3
  <2>5. \A i \in (super' + 1)..Len(log') : i \in (super + 1)..Len(log')
    <3>1. PICK w \in Nat, n \in Nat : w = super' /\ n = Len(log')
      BY <1>3, <2>3
    <3>2. w >= super
      BY <2>3, <3>1
    <3>3. \A i \in (w + 1)..n : i \in (super + 1)..n
      BY <2>3, <3>2
    <3> QED
      BY <3>1, <3>3
  <2>6. Moves
    BY <2>2, <2>3, <2>4 DEF Moves
  <2>7. HoldInv'
    BY <2>2, <2>5 DEF HoldInv
  <2> QED
    BY <2>6, <2>7
<1> QED
  BY <1>4, <1>5, <1>6

LEMMA OthersKeep ==
  ASSUME Faults = {}, StreamInv, OtherPush \/ OtherWrite \/ OtherCommit \/ WriteRefused
  PROVE  StreamInv'
<1>1. log \in Seq(Rec) /\ super \in 0..Len(log) /\ Len(log) \in Nat /\ hold \in BOOLEAN
      /\ failed \in BOOLEAN
  BY DEF StreamInv, TypeInv
<1>2. /\ log' = log \/ log' = Append(log, Foreign)
      /\ hold' = hold /\ UNCHANGED <<app, next, promised>> /\ failed' \in BOOLEAN
  BY <1>1 DEF OtherPush, OtherWrite, OtherCommit, WriteRefused, OtherAppends, CommitErr
<1>3. super' \in (IF hold THEN {super} ELSE super..Len(log)) \cup {Len(log')}
  <2>1. CASE OtherPush
    <3>1. log' = Append(log, Foreign) /\ Len(log') = Len(log) + 1
      BY <1>1, <2>1 DEF OtherPush, OtherAppends
    <3> QED
      BY <1>1, <2>1, <3>1 DEF OtherPush, PagesMove
  <2>2. CASE OtherWrite
    BY <2>2 DEF OtherWrite, CommitAll, CommitErr
  <2>3. CASE OtherCommit
    BY <2>3 DEF OtherCommit, CommitAll, CommitErr
  <2>4. CASE WriteRefused
    BY <2>4 DEF WriteRefused, CommitErr
  <2> QED
    BY <2>1, <2>2, <2>3, <2>4
<1>4. Moves /\ HoldInv'
  BY <1>2, <1>3, OtherMoves
<1> QED
  BY <1>1, <1>2, <1>4, WriterKeeps

(* A batch commits what is pending first.                                  *)
LEMMA BatchKeeps ==
  ASSUME StreamInv, Batch
  PROVE  StreamInv'
<1>1. log \in Seq(Rec) /\ super \in 0..Len(log) /\ Len(log) \in Nat /\ failed \in BOOLEAN
  BY DEF StreamInv, TypeInv
<1>2. /\ log' = log \/ log' = Append(log, Foreign)
      /\ UNCHANGED <<app, next, promised>> /\ failed' \in BOOLEAN /\ hold' = FALSE
  BY <1>1 DEF Batch, OtherAppends
<1>3. CASE super' = Len(log')
  <2>1. Moves /\ HoldInv'
    BY <1>3 DEF Moves, HoldInv
  <2> QED
    BY <1>2, <2>1, WriterKeeps
<1>4. CASE OtherAppends /\ super' = Len(log)
  <2>1. log' = Append(log, Foreign) /\ Foreign \in Rec /\ Foreign.source = Other
    BY <1>4 DEF OtherAppends, Foreign, LogRecord, Rec
  <2>2. Len(log') = Len(log) + 1 /\ log'[Len(log) + 1] = Foreign
    BY <1>1, <2>1, OneAppended
  <2>3. HoldInv'
    BY <1>1, <1>4, <2>1, <2>2 DEF HoldInv
  <2>4. Moves
    BY <1>4 DEF Moves
  <2> QED
    BY <1>2, <2>3, <2>4, WriterKeeps
<1> QED
  BY <1>3, <1>4 DEF Batch, CommitAll

-----------------------------------------------------------------------------
(* Steps that leave the log as it is.                                      *)
LEMMA FieldsKeep ==
  ASSUME StreamInv, UNCHANGED <<log, super, promised>>, HoldInv', TypeInv', AppsInv'
  PROVE  StreamInv'
<1>1. LogInv'
  BY DEF StreamInv, LogInv
<1>2. DurableInv'
  BY DEF StreamInv, DurableInv, Durable
<1> QED
  BY <1>1, <1>2 DEF StreamInv

(* What is known of an applier, in numbers.                                *)
LEMMA AppFacts ==
  ASSUME StreamInv, NEW a \in Appliers
  PROVE  /\ SourceOf[a] \in Sources /\ AppInv(a) /\ next[a] \in Nat /\ app[a] \in AppRec
         /\ app[a].committed \in Int /\ app[a].pending \in Int /\ app[a].count \in Int
         /\ app[a].last \in [Identities -> Int]
         /\ LiveCursor(log, SourceOf[a]) \in Int /\ LiveCursor(log, SourceOf[a]) >= None
BY LogFacts, SourceAssumption DEF StreamInv, AppsInv, TypeInv, AppRec

(* The next offset of a clerk goes up over what is old, or back.           *)
LEMMA NextKeeps ==
  ASSUME StreamInv, NEW a \in Appliers, NEW n \in Nat, next' = [next EXCEPT ![a] = n],
         n <= LiveCursor(log, SourceOf[a]) + 1,
         UNCHANGED <<log, super, hold, failed, app, promised>>
  PROVE  StreamInv'
<1>1. TypeInv'
  BY DEF StreamInv, TypeInv
<1>2. HoldInv'
  BY DEF StreamInv, HoldInv
<1>3. AppsInv'
  <2> SUFFICES ASSUME NEW b \in Appliers PROVE AppInv(b)'
    BY DEF AppsInv
  <2>1. AppInv(b)
    BY DEF StreamInv, AppsInv
  <2>2. next'[b] = IF b = a THEN n ELSE next[b]
    BY DEF StreamInv, TypeInv
  <2> QED
    BY <2>1, <2>2 DEF AppInv
<1> QED
  BY <1>1, <1>2, <1>3, FieldsKeep

LEMMA ChangeOf ==
  ASSUME StreamInv, NEW a \in Appliers, Delivers(a)
  PROVE  /\ next[a] \in DOMAIN Changes[SourceOf[a]] /\ Identity(a) \in Identities
         /\ app[a].last[Identity(a)] \in Int /\ LastApplied(a) \in Int
         /\ LastApplied(a) = IF app[a].last[Identity(a)] >= app[a].committed
                             THEN app[a].last[Identity(a)] ELSE app[a].committed
<1>1. next[a] \in DOMAIN Changes[SourceOf[a]]
  BY DEF Delivers
<1>2. Identity(a) \in Identities
  BY <1>1, SourceAssumption DEF Identity
<1>3. app[a].last[Identity(a)] \in Int /\ app[a].committed \in Int
  BY <1>2, AppFacts
<1> QED
  BY <1>1, <1>2, <1>3, MaxOfTwo DEF LastApplied

LEMMA SkipKeeps ==
  ASSUME StreamInv, NEW a \in Appliers, Skip(a)
  PROVE  StreamInv'
<1>1. next[a] <= LastApplied(a) /\ Delivers(a) /\ next' = [next EXCEPT ![a] = next[a] + 1]
      /\ UNCHANGED <<log, super, hold, failed, app, promised>>
  BY DEF Skip
<1>2. LastApplied(a) <= LiveCursor(log, SourceOf[a])
  <2>1. app[a].last[Identity(a)] <= LiveCursor(log, SourceOf[a])
    BY <1>1, ChangeOf, AppFacts DEF AppInv
  <2>2. app[a].committed <= LiveCursor(log, SourceOf[a])
    BY AppFacts DEF AppInv
  <2> QED
    BY <1>1, <2>1, <2>2, ChangeOf
<1>3. next[a] + 1 \in Nat /\ next[a] + 1 <= LiveCursor(log, SourceOf[a]) + 1
  BY <1>1, <1>2, ChangeOf, AppFacts
<1> QED
  BY <1>1, <1>3, NextKeeps

LEMMA RedeliverKeeps ==
  ASSUME StreamInv, NEW a \in Appliers, Redeliver(a)
  PROVE  StreamInv'
<1>1. PICK o \in 0..(next[a] - 1) : next' = [next EXCEPT ![a] = o]
  BY DEF Redeliver
<1>2. o \in Nat /\ o <= LiveCursor(log, SourceOf[a]) + 1
  BY <1>1, AppFacts DEF AppInv
<1> QED
  BY <1>1, <1>2, NextKeeps DEF Redeliver

-----------------------------------------------------------------------------
(* An applier that starts from a sound log knows what it needs.            *)
LEMMA ResumedFits ==
  ASSUME NEW a \in Appliers, SourceOf[a] \in Sources, log' \in Seq(Rec),
         Sound(log', SourceOf[a]), app'[a] = Resumed(a, log'),
         next'[a] \in StartsAt(a, log')
  PROVE  AppInv(a)' /\ app'[a] \in AppRec /\ next'[a] \in Nat
<1>1. /\ LiveCursor(log', SourceOf[a]) \in Int /\ LiveCursor(log', SourceOf[a]) >= None
      /\ None \in Int
  BY LiveType DEF Sound, None
<1>2. /\ app'[a] = [last |-> [k \in Identities |-> None], committed |-> LiveCursor(log', SourceOf[a]),
                    pending |-> None, count |-> 0]
  BY DEF Resumed
<1>3. app'[a] \in AppRec
  BY <1>1, <1>2 DEF AppRec
<1>4. next'[a] \in Nat /\ next'[a] <= LiveCursor(log', SourceOf[a]) + 1
  BY <1>1 DEF StartsAt
<1>5. \A i \in ChangesIn(log', SourceOf[a]) : log'[i].offset <= app'[a].committed
  BY <1>2 DEF Sound, Covered
<1>6. AppInv(a)'
  BY <1>1, <1>2, <1>4, <1>5 DEF AppInv
<1> QED
  BY <1>3, <1>4, <1>6

LEMMA ResumeKeeps ==
  ASSUME StreamInv, NEW a \in Appliers, Resume(a)
  PROVE  StreamInv'
<1>1. /\ app' = [app EXCEPT ![a] = Resumed(a, log)]
      /\ UNCHANGED <<log, super, hold, failed, promised>>
  BY DEF Resume
<1>2. PICK o \in StartsAt(a, log) : next' = [next EXCEPT ![a] = o]
  BY DEF Resume
<1>3. app'[a] = Resumed(a, log') /\ next'[a] \in StartsAt(a, log')
  BY <1>1, <1>2 DEF StreamInv, TypeInv
<1>4. AppInv(a)' /\ app'[a] \in AppRec /\ next'[a] \in Nat
  <2>1. SourceOf[a] \in Sources /\ log' \in Seq(Rec) /\ Sound(log', SourceOf[a])
    BY <1>1, AppFacts, LogFacts
  <2> QED
    BY <1>3, <2>1, ResumedFits
<1>5. \A b \in Appliers : b # a => app'[b] = app[b] /\ next'[b] = next[b]
  BY <1>1, <1>2 DEF StreamInv, TypeInv
<1>6. TypeInv'
  BY <1>1, <1>2, <1>3, <1>4, <1>5 DEF StreamInv, TypeInv
<1>7. HoldInv'
  BY <1>1 DEF StreamInv, HoldInv
<1>8. AppsInv'
  <2> SUFFICES ASSUME NEW b \in Appliers PROVE AppInv(b)'
    BY DEF AppsInv
  <2>1. CASE b = a
    BY <1>4, <2>1
  <2>2. CASE b # a
    BY <1>1, <1>5, <2>2 DEF StreamInv, AppsInv, AppInv
  <2> QED
    BY <2>1, <2>2
<1> QED
  BY <1>1, <1>6, <1>7, <1>8, FieldsKeep

(* The process reads what is durable, and every applier its live cursor.   *)
LEMMA RestartKeeps ==
  ASSUME StreamInv, Restart
  PROVE  StreamInv'
<1>1. /\ log' = Durable /\ super' = super /\ hold' = FALSE /\ failed' = FALSE
      /\ promised' = promised
  BY DEF Restart, Durable
<1>2. log' \in Seq(Rec) /\ Len(log') = super' /\ super' \in 0..Len(log')
  BY <1>1, LogFacts
<1>3. Durable' = log'
  BY <1>2, Whole DEF Durable
<1>4. LogInv'
  BY <1>1 DEF LogInv, StreamInv, DurableInv
<1>5. DurableInv'
  BY <1>1, <1>3, LogFacts DEF StreamInv, DurableInv
<1>6. HoldInv'
  <2>1. PICK n \in Nat : n = super' /\ Len(log') = n
    BY <1>1, <1>2, LogFacts
  <2>2. (n + 1)..n = {}
    OBVIOUS
  <2> QED
    BY <2>1, <2>2 DEF HoldInv
<1>7. ASSUME NEW a \in Appliers
      PROVE  AppInv(a)' /\ app'[a] \in AppRec /\ next'[a] \in Nat
  <2>1. SourceOf[a] \in Sources
    BY SourceAssumption
  <2>2. app'[a] = Resumed(a, log') /\ next'[a] \in StartsAt(a, log')
    BY DEF Restart
  <2>3. Sound(log', SourceOf[a])
    BY <1>4, <2>1 DEF LogInv
  <2> QED
    BY <1>2, <2>1, <2>2, <2>3, ResumedFits
<1>8. TypeInv'
  <2>1. app' \in [Appliers -> AppRec]
    BY <1>7 DEF Restart
  <2>2. next' \in [Appliers -> Nat]
    BY <1>7 DEF Restart
  <2> QED
    BY <1>1, <1>2, <2>1, <2>2 DEF StreamInv, TypeInv
<1>9. AppsInv'
  BY <1>7 DEF AppsInv
<1> QED
  BY <1>4, <1>5, <1>6, <1>8, <1>9 DEF StreamInv

LEMMA ApplyFailsKeeps ==
  ASSUME Faults = {}, StreamInv, NEW a \in Appliers, ApplyFails(a)
  PROVE  StreamInv'
<1>1. hold' = (app[a].count # 0 \/ HasPending) /\ UNCHANGED <<log, super, app, failed, next, promised>>
  BY DEF ApplyFails
<1>2. TypeInv'
  BY <1>1 DEF StreamInv, TypeInv
<1>3. HoldInv'
  BY <1>1 DEF HoldInv, HasPending, StreamInv, TypeInv
<1>4. AppsInv'
  BY <1>1 DEF StreamInv, AppsInv, AppInv
<1> QED
  BY <1>1, <1>2, <1>3, <1>4, FieldsKeep

-----------------------------------------------------------------------------
(* A change that is new to its identity, and the cursor behind it.         *)

(* The offset of the cursor: the change's own, or what was pending.        *)
LEMMA PendingIs ==
  ASSUME StreamInv, NEW a \in Appliers, Fresh(a)
  PROVE  /\ Accepted(a).pending \in Int
         /\ Accepted(a).pending = IF next[a] > LiveCursor(log, SourceOf[a])
                                  THEN next[a] ELSE LiveCursor(log, SourceOf[a])
<1>1. Delivers(a) /\ next[a] > LastApplied(a)
  BY DEF Fresh
<1>2. /\ next[a] \in Nat /\ app[a] \in AppRec /\ app[a].pending \in Int
      /\ app[a].committed \in Int /\ AppInv(a) /\ LiveCursor(log, SourceOf[a]) \in Int
  BY AppFacts
<1>3. Accepted(a).pending = Max({app[a].pending, next[a]})
  BY <1>2 DEF Accepted, AppRec
<1>4. Accepted(a).pending = IF app[a].pending >= next[a] THEN app[a].pending ELSE next[a]
  BY <1>2, <1>3, MaxOfTwo
<1>5. app[a].committed < next[a]
  BY <1>1, <1>2, ChangeOf
<1>6. CASE app[a].pending = None
  <2>1. LiveCursor(log, SourceOf[a]) = app[a].committed
    BY <1>2, <1>6 DEF AppInv
  <2>2. ~(app[a].pending >= next[a])
    BY <1>2, <1>6 DEF None
  <2> QED
    BY <1>2, <1>4, <1>5, <2>1, <2>2
<1>7. CASE app[a].pending # None
  <2>1. LiveCursor(log, SourceOf[a]) = app[a].pending
    BY <1>2, <1>7 DEF AppInv
  <2> QED
    BY <1>2, <1>4, <2>1
<1> QED
  BY <1>6, <1>7

LEMMA AcceptedFields ==
  ASSUME StreamInv, NEW a \in Appliers, Fresh(a)
  PROVE  /\ Accepted(a) \in AppRec /\ Accepted(a).committed = app[a].committed
         /\ Accepted(a).last[Identity(a)] = next[a]
         /\ \A k \in Identities : k # Identity(a) => Accepted(a).last[k] = app[a].last[k]
<1>1. /\ next[a] \in Int /\ app[a] \in AppRec /\ Identity(a) \in Identities
      /\ Accepted(a).pending \in Int
  BY AppFacts, ChangeOf, PendingIs DEF Fresh
<1>2. app[a].last \in [Identities -> Int] /\ app[a].committed \in Int /\ app[a].count + 1 \in Int
  BY <1>1 DEF AppRec
<1>3. [app[a].last EXCEPT ![Identity(a)] = next[a]] \in [Identities -> Int]
  BY <1>1, <1>2
<1>4. PICK l \in [Identities -> Int], x \in Int, n \in Int :
        /\ l = [app[a].last EXCEPT ![Identity(a)] = next[a]] /\ n = app[a].count + 1
        /\ x = Accepted(a).pending
  BY <1>1, <1>2, <1>3
<1>5. Accepted(a).pending = Max({app[a].pending, next[a]})
  BY <1>1 DEF Accepted, AppRec
<1>6. Accepted(a) = [app[a] EXCEPT !.last = l, !.pending = x, !.count = n]
  BY <1>4, <1>5 DEF Accepted
<1>7. Accepted(a) \in AppRec
  BY <1>1, <1>4, <1>6 DEF AppRec
<1>8. Accepted(a).last = l /\ Accepted(a).committed = app[a].committed
  BY <1>1, <1>6 DEF AppRec
<1> QED
  BY <1>1, <1>2, <1>4, <1>7, <1>8

(* The log after an apply.                                                 *)
LEMMA ApplyLog ==
  ASSUME StreamInv, NEW a \in Appliers, Apply(a)
  PROVE  /\ log' \in Seq(Rec) /\ Len(log') = Len(log) + 2
         /\ (\A i \in 1..Len(log) : log'[i] = log[i])
         /\ log'[Len(log) + 1] = LogRecord("change", SourceOf[a], next[a])
         /\ log'[Len(log) + 2] = LogRecord("cursor", SourceOf[a], Accepted(a).pending)
<1>1. SourceOf[a] \in Sources /\ next[a] \in Int /\ Accepted(a).pending \in Int /\ log \in Seq(Rec)
  BY AppFacts, PendingIs, LogFacts DEF Apply
<1>2. /\ LogRecord("change", SourceOf[a], next[a]) \in Rec
      /\ LogRecord("cursor", SourceOf[a], Accepted(a).pending) \in Rec
  BY <1>1 DEF LogRecord, Rec
<1>3. log' = log \o <<LogRecord("change", SourceOf[a], next[a]),
                      LogRecord("cursor", SourceOf[a], Accepted(a).pending)>>
  BY DEF Apply
<1> QED
  BY <1>1, <1>2, <1>3, PairAppended

(* What it is for its own source.                                          *)
LEMMA ApplySound ==
  ASSUME StreamInv, NEW a \in Appliers, Apply(a)
  PROVE  /\ Sound(log', SourceOf[a]) /\ LiveCursor(log', SourceOf[a]) = Accepted(a).pending
         /\ ChangesIn(log', SourceOf[a]) = ChangesIn(log, SourceOf[a]) \cup {Len(log) + 1}
<1>1. Fresh(a) /\ Delivers(a) /\ next[a] > LastApplied(a)
  BY DEF Apply, Fresh
<1>2. /\ SourceOf[a] \in Sources /\ next[a] \in Nat /\ AppInv(a) /\ Sound(log, SourceOf[a])
      /\ app[a].committed \in Int /\ LiveCursor(log, SourceOf[a]) \in Int /\ log \in Seq(Rec)
      /\ Len(log) \in Nat
  BY AppFacts, LogFacts
<1>3. next[a] \in DOMAIN Changes[SourceOf[a]] /\ next[a] <= LiveCursor(log, SourceOf[a]) + 1
  BY <1>1, <1>2, ChangeOf DEF AppInv
<1>4. \A i \in ChangesIn(log, SourceOf[a]) :
        Changes[SourceOf[a]][log[i].offset] = Changes[SourceOf[a]][next[a]] => log[i].offset < next[a]
  <2> SUFFICES ASSUME NEW i \in ChangesIn(log, SourceOf[a]),
                      Changes[SourceOf[a]][log[i].offset] = Changes[SourceOf[a]][next[a]]
               PROVE  log[i].offset < next[a]
    OBVIOUS
  <2>1. Changes[SourceOf[a]][log[i].offset] = Identity(a)
    BY DEF Identity
  <2>2. log[i].offset <= app[a].committed \/ log[i].offset <= app[a].last[Identity(a)]
    BY <1>2, <2>1 DEF AppInv
  <2>3. app[a].committed < next[a] /\ app[a].last[Identity(a)] < next[a]
    BY <1>1, <1>2, ChangeOf
  <2>4. log[i].offset \in Int
    BY <1>2, OffsetType DEF ChangesIn
  <2>5. app[a].last[Identity(a)] \in Int
    BY <1>1, ChangeOf
  <2> QED
    BY <1>2, <2>2, <2>3, <2>4, <2>5
<1>5. Follows(log, SourceOf[a], next[a], Accepted(a).pending)
  BY <1>1, <1>2, <1>3, <1>4, PendingIs DEF Follows
<1>6. Extended(log, log', SourceOf[a], next[a], Accepted(a).pending)
  BY ApplyLog, RecordFields DEF Extended
<1> QED
  BY <1>2, <1>5, <1>6, ChangeAppended

LEMMA ApplyKeeps ==
  ASSUME Faults = {}, OneApplier, StreamInv, NEW a \in Appliers, Apply(a)
  PROVE  StreamInv'
<1>1. Fresh(a) /\ Delivers(a) /\ next[a] > LastApplied(a)
  BY DEF Apply, Fresh
<1>2. /\ hold' = TRUE /\ super' = super /\ UNCHANGED <<failed, promised>>
      /\ app' = [app EXCEPT ![a] = Accepted(a)] /\ next' = [next EXCEPT ![a] = next[a] + 1]
  BY DEF Apply, HoldWindow, PagesMove
<1>3. /\ log \in Seq(Rec) /\ Len(log) \in Nat /\ log' \in Seq(Rec) /\ Len(log') = Len(log) + 2
      /\ \A i \in 1..Len(log) : log'[i] = log[i]
  BY LogFacts, ApplyLog
<1>4. log'[Len(log) + 1].source = SourceOf[a] /\ log'[Len(log) + 1].offset = next[a]
      /\ log'[Len(log) + 2].source = SourceOf[a]
  BY ApplyLog, RecordFields
<1>5. ASSUME NEW s \in Sources, s # SourceOf[a]
      PROVE  /\ Sound(log', s) /\ LiveCursor(log', s) = LiveCursor(log, s)
             /\ ChangesIn(log', s) = ChangesIn(log, s)
  <2>1. \A i \in (Len(log) + 1)..Len(log') : log'[i].source # s
    <3>1. \A i \in (Len(log) + 1)..Len(log') : i = Len(log) + 1 \/ i = Len(log) + 2
      BY <1>3
    <3> QED
      BY <1>4, <1>5, <3>1
  <2>2. Sound(log, s) /\ Len(log) <= Len(log')
    BY <1>3, LogFacts
  <2> QED
    BY <1>3, <2>1, <2>2, OthersAppended
<1>6. /\ Sound(log', SourceOf[a]) /\ LiveCursor(log', SourceOf[a]) = Accepted(a).pending
      /\ ChangesIn(log', SourceOf[a]) = ChangesIn(log, SourceOf[a]) \cup {Len(log) + 1}
  BY ApplySound
<1>7. LogInv'
  BY <1>5, <1>6 DEF LogInv
<1>8. /\ SourceOf[a] \in Sources /\ AppInv(a) /\ next[a] \in Nat /\ app[a] \in AppRec
      /\ app[a].committed \in Int /\ app[a].committed >= None
      /\ LiveCursor(log, SourceOf[a]) \in Int /\ LiveCursor(log, SourceOf[a]) >= None
      /\ app[a].last \in [Identities -> Int]
  BY AppFacts DEF AppInv
<1>9. /\ Accepted(a).pending \in Int
      /\ Accepted(a).pending >= LiveCursor(log, SourceOf[a]) /\ Accepted(a).pending >= next[a]
  BY <1>1, <1>8, PendingIs
<1>10. \A s \in Sources : LiveCursor(log, s) <= LiveCursor(log', s)
  <2> SUFFICES ASSUME NEW s \in Sources PROVE LiveCursor(log, s) <= LiveCursor(log', s)
    OBVIOUS
  <2>1. CASE s = SourceOf[a]
    BY <1>6, <1>8, <1>9, <2>1
  <2>2. CASE s # SourceOf[a]
    BY <1>5, <2>2, LogFacts
  <2> QED
    BY <2>1, <2>2
<1>11. DurableInv' /\ super' \in 0..Len(log')
  <2>1. Moves /\ Len(log) <= Len(log')
    BY <1>2, <1>3 DEF Moves
  <2> QED
    BY <1>2, <1>3, <1>7, <1>10, <2>1, DurableKeeps
<1>12. HoldInv'
  BY <1>2 DEF HoldInv
<1>13. app'[a] = Accepted(a) /\ next'[a] = next[a] + 1
  BY <1>2 DEF StreamInv, TypeInv
<1>14. AppInv(a)'
  <2>1. Accepted(a).committed = app[a].committed /\ Accepted(a).last[Identity(a)] = next[a]
        /\ \A k \in Identities : k # Identity(a) => Accepted(a).last[k] = app[a].last[k]
    BY <1>1, AcceptedFields
  <2>2. app[a].committed < next[a] /\ app[a].last[Identity(a)] < next[a] /\ Identity(a) \in Identities
    BY <1>1, <1>8, ChangeOf
  <2>3. Accepted(a).pending # None /\ Accepted(a).pending > Accepted(a).committed
        /\ Accepted(a).pending >= None
    BY <1>8, <1>9, <2>1, <2>2 DEF None
  <2>4. \A k \in Identities : Accepted(a).last[k] <= Accepted(a).pending
    <3> SUFFICES ASSUME NEW k \in Identities PROVE Accepted(a).last[k] <= Accepted(a).pending
      OBVIOUS
    <3>1. CASE k = Identity(a)
      BY <1>8, <1>9, <2>1, <3>1
    <3>2. CASE k # Identity(a)
      <4>1. app[a].last[k] <= LiveCursor(log, SourceOf[a]) /\ app[a].last[k] \in Int
        BY <1>8 DEF AppInv
      <4> QED
        BY <1>8, <1>9, <2>1, <3>2, <4>1
    <3> QED
      BY <3>1, <3>2
  <2>5. \A i \in ChangesIn(log', SourceOf[a]) :
          \/ log'[i].offset <= Accepted(a).committed
          \/ log'[i].offset <= Accepted(a).last[Changes[SourceOf[a]][log'[i].offset]]
    <3> SUFFICES ASSUME NEW i \in ChangesIn(log', SourceOf[a])
                 PROVE  \/ log'[i].offset <= Accepted(a).committed
                        \/ log'[i].offset <= Accepted(a).last[Changes[SourceOf[a]][log'[i].offset]]
      OBVIOUS
    <3>1. CASE i = Len(log) + 1
      <4>1. log'[i].offset = next[a] /\ Changes[SourceOf[a]][log'[i].offset] = Identity(a)
        BY <1>4, <3>1 DEF Identity
      <4> QED
        BY <1>8, <2>1, <4>1
    <3>2. CASE i # Len(log) + 1
      <4>1. i \in ChangesIn(log, SourceOf[a])
        BY <1>6, <3>2
      <4>2. i \in 1..Len(log)
        BY <4>1 DEF ChangesIn
      <4>3. log'[i] = log[i] /\ log[i].offset \in Int
        BY <1>3, <4>2, OffsetType
      <4>4. log[i].offset \in DOMAIN Changes[SourceOf[a]]
        BY <1>8, <4>1, LogFacts DEF Sound, Offsets
      <4>5. PICK k \in Identities : k = Changes[SourceOf[a]][log[i].offset]
        BY <1>8, <4>4, SourceAssumption
      <4>6. log[i].offset <= app[a].committed \/ log[i].offset <= app[a].last[k]
        BY <1>8, <4>1, <4>5 DEF AppInv
      <4>7. app[a].last[k] \in Int /\ app[a].last[k] <= Accepted(a).last[k]
            /\ Accepted(a).last[k] \in Int
        BY <1>8, <2>1, <2>2
      <4> QED
        BY <1>8, <2>1, <4>3, <4>5, <4>6, <4>7
    <3> QED
      BY <3>1, <3>2
  <2>6. next[a] + 1 <= Accepted(a).pending + 1
    BY <1>8, <1>9
  <2>7. Accepted(a).committed >= None
    BY <1>8, <2>1
  <2> QED
    BY <1>6, <1>13, <2>3, <2>4, <2>5, <2>6, <2>7 DEF AppInv
<1>15. AppsInv'
  <2> SUFFICES ASSUME NEW b \in Appliers PROVE AppInv(b)'
    BY DEF AppsInv
  <2>1. CASE b = a
    BY <1>14, <2>1
  <2>2. CASE b # a
    <3>1. SourceOf[b] # SourceOf[a] /\ SourceOf[b] \in Sources
      BY <2>2, SourceAssumption DEF OneApplier
    <3>2. app'[b] = app[b] /\ next'[b] = next[b] /\ Len(log) <= Len(log')
      BY <1>2, <1>3, <2>2 DEF StreamInv, TypeInv
    <3> QED
      BY <1>3, <1>5, <3>1, <3>2, AppsKept
  <2> QED
    BY <2>1, <2>2
<1>16. TypeInv'
  <2>1. Accepted(a) \in AppRec /\ next[a] + 1 \in Nat
    BY <1>1, <1>8, AcceptedFields
  <2> QED
    BY <1>2, <1>3, <1>11, <2>1 DEF StreamInv, TypeInv
<1> QED
  BY <1>7, <1>11, <1>12, <1>15, <1>16 DEF StreamInv

-----------------------------------------------------------------------------
(* A flush writes the live cursor again: nothing that is pending is        *)
(* missing from it, and nothing else was committed in between.             *)
LEMMA FlushedCursor ==
  ASSUME StreamInv, NEW a \in Appliers, app[a].pending # None
  PROVE  FlushOffset(a) = LiveCursor(log, SourceOf[a])
<1>1. /\ app[a].committed \in Int /\ app[a].pending \in Int /\ LiveCursor(log, SourceOf[a]) \in Int
      /\ AppInv(a)
  BY AppFacts
<1>2. LiveCursor(log, SourceOf[a]) = app[a].pending /\ app[a].pending > app[a].committed
  BY <1>1 DEF AppInv
<1>3. PICK m \in Int, S \in SUBSET Int :
        m = LiveCursor(log, SourceOf[a])
        /\ S = {app[a].committed, app[a].pending, LiveCursor(log, SourceOf[a])}
  BY <1>1
<1>4. m \in S /\ \A j \in S : j <= m
  BY <1>1, <1>2, <1>3
<1>5. Max(S) = m
  BY <1>4, MaxOfInts
<1> QED
  BY <1>3, <1>5 DEF FlushOffset

(* The log with the cursor of a flush.                                     *)
LEMMA CursorWritten ==
  ASSUME StreamInv, NEW a \in Appliers, WriteCursor(a)
  PROVE  /\ log' \in Seq(Rec) /\ Len(log') = Len(log) + 1
         /\ \A i \in 1..Len(log) : log'[i] = log[i]
         /\ \A s \in Sources : /\ Sound(log', s) /\ LiveCursor(log', s) = LiveCursor(log, s)
                               /\ ChangesIn(log', s) = ChangesIn(log, s)
<1>1. /\ SourceOf[a] \in Sources /\ LiveCursor(log, SourceOf[a]) \in Int /\ log \in Seq(Rec)
      /\ Len(log) \in Nat
  BY AppFacts, LogFacts
<1>2. PICK x : x = LogRecord("flush", SourceOf[a], LiveCursor(log, SourceOf[a]))
  OBVIOUS
<1>3. x \in Rec /\ x.source = SourceOf[a]
  BY <1>1, <1>2 DEF LogRecord, Rec
<1>4. log' = Append(log, x)
  BY <1>2, FlushedCursor DEF WriteCursor
<1>5. /\ log' \in Seq(Rec) /\ Len(log') = Len(log) + 1
      /\ (\A i \in 1..Len(log) : log'[i] = log[i]) /\ log'[Len(log) + 1] = x
  BY <1>1, <1>3, <1>4, OneAppended
<1>6. ASSUME NEW s \in Sources
      PROVE  /\ Sound(log', s) /\ LiveCursor(log', s) = LiveCursor(log, s)
             /\ ChangesIn(log', s) = ChangesIn(log, s)
  <2>1. Sound(log, s)
    BY LogFacts
  <2>2. CASE s = SourceOf[a]
    <3>1. log' = Append(log, LogRecord("flush", s, LiveCursor(log, s))) /\ "flush" \in {"cursor", "flush"}
      BY <1>2, <1>4, <2>2
    <3> QED
      BY <1>1, <2>1, <3>1, CursorAppended
  <2>3. CASE s # SourceOf[a]
    <3>1. \A i \in (Len(log) + 1)..Len(log') : log'[i].source # s
      <4>1. \A i \in (Len(log) + 1)..Len(log') : i = Len(log) + 1
        BY <1>1, <1>5
      <4> QED
        BY <1>3, <1>5, <2>3, <4>1
    <3>2. Len(log) <= Len(log')
      BY <1>1, <1>5
    <3> QED
      BY <1>1, <1>5, <2>1, <3>1, <3>2, OthersAppended
  <2> QED
    BY <2>2, <2>3
<1> QED
  BY <1>5, <1>6

(* After a flush everything is durable and the applier starts again at the *)
(* cursor.                                                                 *)
LEMMA FlushKeeps ==
  ASSUME StreamInv, NEW a \in Appliers, Flush(a)
  PROVE  StreamInv'
<1>1. /\ WriteCursor(a) /\ app[a].pending # None /\ super' = Len(log') /\ hold' = FALSE
      /\ UNCHANGED <<failed, next>>
  BY DEF Flush, CommitAll, WriteCursor
<1>2. /\ SourceOf[a] \in Sources /\ AppInv(a) /\ next[a] \in Nat /\ app[a] \in AppRec
      /\ LiveCursor(log, SourceOf[a]) \in Int /\ LiveCursor(log, SourceOf[a]) >= None
      /\ FlushOffset(a) = LiveCursor(log, SourceOf[a])
  BY <1>1, AppFacts, FlushedCursor
<1>3. /\ log' \in Seq(Rec) /\ Len(log') = Len(log) + 1 /\ Len(log) \in Nat
      /\ \A i \in 1..Len(log) : log'[i] = log[i]
      /\ \A s \in Sources : /\ Sound(log', s) /\ LiveCursor(log', s) = LiveCursor(log, s)
                            /\ ChangesIn(log', s) = ChangesIn(log, s)
  BY <1>1, CursorWritten, LogFacts
<1>4. LogInv'
  BY <1>3 DEF LogInv
<1>5. Durable' = log'
  BY <1>1, <1>3, Whole DEF Durable
<1>6. promised' \in [Sources -> Int] /\ \A s \in Sources : promised'[s] <= LiveCursor(log, s)
  <2>1. promised' = [promised EXCEPT ![SourceOf[a]] =
                       Max({promised[SourceOf[a]], LiveCursor(log, SourceOf[a])})]
    BY <1>2 DEF Flush
  <2>2. promised \in [Sources -> Int]
    BY DEF StreamInv, TypeInv
  <2>3. \A s \in Sources : promised[s] <= LiveCursor(log, s)
    <3> SUFFICES ASSUME NEW s \in Sources PROVE promised[s] <= LiveCursor(log, s)
      OBVIOUS
    <3>1. promised[s] <= LiveCursor(Durable, s) /\ LiveCursor(Durable, s) <= LiveCursor(log, s)
      BY DEF StreamInv, DurableInv
    <3>2. LiveCursor(Durable, s) \in Int /\ LiveCursor(log, s) \in Int /\ promised[s] \in Int
      BY <2>2, LogFacts
    <3> QED
      BY <3>1, <3>2
  <2>4. PICK m \in Int : m = Max({promised[SourceOf[a]], LiveCursor(log, SourceOf[a])})
                         /\ m <= LiveCursor(log, SourceOf[a])
    <3>1. promised[SourceOf[a]] \in Int /\ promised[SourceOf[a]] <= LiveCursor(log, SourceOf[a])
      BY <1>2, <2>2, <2>3
    <3> QED
      BY <1>2, <3>1, MaxOfTwo
  <2> QED
    BY <1>2, <2>1, <2>2, <2>3, <2>4
<1>7. DurableInv'
  <2> SUFFICES ASSUME NEW s \in Sources
               PROVE  /\ Sound(log', s) /\ promised'[s] <= LiveCursor(log', s)
                      /\ LiveCursor(log', s) <= LiveCursor(log', s)
    BY <1>5 DEF DurableInv
  <2>1. LiveCursor(log, s) \in Int
    BY LogFacts
  <2> QED
    BY <1>3, <1>6, <2>1
<1>8. HoldInv'
  <2>1. PICK n \in Nat : n = super' /\ n = Len(log')
    BY <1>1, <1>3
  <2>2. (n + 1)..n = {}
    OBVIOUS
  <2> QED
    BY <2>1, <2>2 DEF HoldInv
<1>9. PICK f \in Int, l \in [Identities -> Int] :
        /\ f = LiveCursor(log, SourceOf[a]) /\ l = [k \in Identities |-> None]
  <2>1. [k \in Identities |-> None] \in [Identities -> Int]
    BY DEF None
  <2> QED
    BY <1>2, <2>1
<1>10. app' = [app EXCEPT ![a] = [@ EXCEPT !.count = 0, !.pending = None, !.committed = f, !.last = l]]
  BY <1>2, <1>9 DEF Flush, StreamInv, TypeInv, AppRec
<1>11. /\ app'[a] = [app[a] EXCEPT !.count = 0, !.pending = None, !.committed = f, !.last = l]
       /\ \A b \in Appliers : b # a => app'[b] = app[b]
  BY <1>10 DEF StreamInv, TypeInv
<1>12. /\ app'[a] \in AppRec /\ app'[a].pending = None /\ app'[a].committed = f
       /\ app'[a].last = l
  <2>1. PICK r \in AppRec : r = app[a]
    BY <1>2
  <2>2. None \in Int /\ 0 \in Int /\ f \in Int /\ l \in [Identities -> Int]
    BY <1>9 DEF None
  <2>3. app'[a] = [r EXCEPT !.count = 0, !.pending = None, !.committed = f, !.last = l]
    BY <1>11, <2>1
  <2>4. app'[a] \in AppRec
    BY <2>2, <2>3 DEF AppRec
  <2>5. app'[a].pending = None /\ app'[a].committed = f /\ app'[a].last = l
    BY <2>3 DEF AppRec
  <2> QED
    BY <2>4, <2>5
<1>13. AppInv(a)'
  <2>1. LiveCursor(log', SourceOf[a]) = f /\ f >= None /\ None \in Int
    BY <1>2, <1>3, <1>9 DEF None
  <2>2. \A k \in Identities : l[k] = None
    BY <1>9
  <2>3. \A i \in ChangesIn(log', SourceOf[a]) : log'[i].offset <= f
    BY <1>2, <1>3, <2>1 DEF Sound, Covered
  <2>4. next'[a] <= f + 1
    BY <1>1, <1>2, <1>9 DEF AppInv
  <2> QED
    BY <1>12, <2>1, <2>2, <2>3, <2>4 DEF AppInv
<1>14. AppsInv'
  <2> SUFFICES ASSUME NEW b \in Appliers PROVE AppInv(b)'
    BY DEF AppsInv
  <2>1. CASE b = a
    BY <1>13, <2>1
  <2>2. CASE b # a
    <3>1. SourceOf[b] \in Sources /\ app'[b] = app[b] /\ next'[b] = next[b] /\ Len(log) <= Len(log')
      BY <1>1, <1>3, <1>11, <2>2, SourceAssumption
    <3> QED
      BY <1>3, <3>1, AppsKept
  <2> QED
    BY <2>1, <2>2
<1>15. TypeInv'
  <2>1. app' \in [Appliers -> AppRec]
    BY <1>10, <1>12, <1>11 DEF StreamInv, TypeInv
  <2>2. super' \in 0..Len(log')
    BY <1>1, <1>3
  <2> QED
    BY <1>1, <1>3, <1>6, <2>1, <2>2 DEF StreamInv, TypeInv
<1> QED
  BY <1>4, <1>7, <1>8, <1>14, <1>15 DEF StreamInv

LEMMA FlushFailsKeeps ==
  ASSUME StreamInv, NEW a \in Appliers, FlushFails(a)
  PROVE  StreamInv'
<1>1. /\ WriteCursor(a) /\ hold' = TRUE /\ failed' \in BOOLEAN /\ UNCHANGED <<app, next, promised>>
      /\ super' \in (IF hold THEN {super} ELSE super..Len(log)) \cup {Len(log')}
  BY DEF FlushFails, CommitErr
<1>2. /\ log \in Seq(Rec) /\ super \in 0..Len(log) /\ Len(log) \in Nat
      /\ log' \in Seq(Rec) /\ Len(log') = Len(log) + 1 /\ Len(log) <= Len(log')
      /\ \A i \in 1..Len(log) : log'[i] = log[i]
      /\ \A s \in Sources : /\ Sound(log', s) /\ LiveCursor(log', s) = LiveCursor(log, s)
                            /\ ChangesIn(log', s) = ChangesIn(log, s)
  BY <1>1, CursorWritten, LogFacts
<1>3. Moves
  <2>1. CASE super' = super \/ super' = Len(log')
    BY <2>1 DEF Moves
  <2>2. CASE ~hold /\ super' \in super..Len(log)
    <3>1. \A i \in (super + 1)..Len(log) : log[i].source = Other
      BY <2>2 DEF StreamInv, HoldInv
    <3>2. super' \in Nat /\ super \in Nat /\ super' <= Len(log)
      BY <1>2, <2>2
    <3>3. \A i \in (super + 1)..super' : i \in (super + 1)..Len(log) /\ i \in 1..Len(log)
      BY <1>2, <3>2
    <3>4. \A i \in (super + 1)..super' : log'[i].source = Other
      BY <1>2, <3>1, <3>3
    <3>5. super' \in super..Len(log')
      BY <1>2, <2>2
    <3> QED
      BY <3>4, <3>5 DEF Moves
  <2> QED
    BY <1>1, <2>1, <2>2
<1>4. LogInv' /\ \A s \in Sources : LiveCursor(log, s) <= LiveCursor(log', s)
  BY <1>2, LogFacts DEF LogInv
<1>5. DurableInv' /\ super' \in 0..Len(log')
  BY <1>1, <1>2, <1>3, <1>4, DurableKeeps
<1>6. HoldInv'
  BY <1>1 DEF HoldInv
<1>7. AppsInv'
  <2> SUFFICES ASSUME NEW b \in Appliers PROVE AppInv(b)'
    BY DEF AppsInv
  <2>1. SourceOf[b] \in Sources /\ app'[b] = app[b] /\ next'[b] = next[b]
    BY <1>1, SourceAssumption
  <2> QED
    BY <1>2, <2>1, AppsKept
<1>8. TypeInv'
  BY <1>1, <1>2, <1>5 DEF StreamInv, TypeInv
<1> QED
  BY <1>4, <1>5, <1>6, <1>7, <1>8 DEF StreamInv

-----------------------------------------------------------------------------
(* The whole specification.                                                *)
LEMMA InitInv ==
  ASSUME Init
  PROVE  StreamInv
<1>1. /\ log = <<>> /\ super = 0 /\ hold = FALSE /\ failed = FALSE
      /\ log \in Seq(Rec) /\ Len(log) = 0
  BY DEF Init
<1>2. /\ app = [a \in Appliers |-> [last |-> [k \in Identities |-> None], committed |-> None,
                                    pending |-> None, count |-> 0]]
      /\ next = [a \in Appliers |-> 0] /\ promised = [s \in Sources |-> None]
  BY DEF Init
<1>3. 1..0 = {} /\ (0 + 1)..0 = {}
  OBVIOUS
<1>4. ASSUME NEW s
      PROVE  Cursors(log, s) = {} /\ ChangesIn(log, s) = {} /\ LiveCursor(log, s) = None
  <2>1. Cursors(log, s) = {} /\ ChangesIn(log, s) = {}
    BY <1>1, <1>3 DEF Cursors, ChangesIn
  <2> QED
    BY <2>1 DEF LiveCursor
<1>5. LogInv
  <2> SUFFICES ASSUME NEW s \in Sources PROVE Sound(log, s)
    BY DEF LogInv
  <2>1. HasNewest(log, s) /\ Covered(log, s) /\ Ascending(log, s) /\ OnceInOrder(log, s) /\ Offsets(log, s)
    BY <1>4 DEF HasNewest, Covered, Ascending, OnceInOrder, Offsets
  <2>2. Complete(log, s)
    BY <1>4 DEF Complete, None
  <2>3. LiveCursor(log, s) >= None
    BY <1>4 DEF None
  <2> QED
    BY <2>1, <2>2, <2>3 DEF Sound
<1>6. Durable = log
  BY <1>1, Whole DEF Durable
<1>7. DurableInv
  <2>1. \A s \in Sources : promised[s] = None
    BY <1>2
  <2> QED
    BY <1>4, <1>5, <1>6, <2>1 DEF DurableInv, LogInv, None
<1>8. HoldInv
  BY <1>1, <1>3 DEF HoldInv
<1>9. AppsInv
  <2> SUFFICES ASSUME NEW a \in Appliers PROVE AppInv(a)
    BY DEF AppsInv
  <2>1. /\ app[a].last = [k \in Identities |-> None] /\ app[a].committed = None
        /\ app[a].pending = None /\ next[a] = 0
    BY <1>2
  <2>2. LiveCursor(log, SourceOf[a]) = None /\ ChangesIn(log, SourceOf[a]) = {}
    BY <1>4
  <2>3. \A k \in Identities : app[a].last[k] = None
    BY <2>1
  <2> QED
    BY <2>1, <2>2, <2>3 DEF AppInv, None
<1>10. TypeInv
  <2>1. None \in Int /\ 0 \in Int /\ [k \in Identities |-> None] \in [Identities -> Int]
    BY DEF None
  <2>2. app \in [Appliers -> AppRec]
    BY <1>2, <2>1 DEF AppRec
  <2>3. next \in [Appliers -> Nat] /\ promised \in [Sources -> Int]
    BY <1>2, <2>1
  <2>4. super \in 0..Len(log)
    <3>1. 0 \in 0..0
      OBVIOUS
    <3> QED
      BY <1>1, <3>1
  <2>5. hold \in BOOLEAN /\ failed \in BOOLEAN
    BY <1>1
  <2> QED
    BY <1>1, <2>2, <2>3, <2>4, <2>5 DEF TypeInv
<1> QED
  BY <1>5, <1>7, <1>8, <1>9, <1>10 DEF StreamInv

LEMMA StutterKeeps ==
  ASSUME StreamInv, UNCHANGED vars
  PROVE  StreamInv'
<1>1. TypeInv' /\ HoldInv' /\ AppsInv'
  BY DEF StreamInv, vars, TypeInv, HoldInv, AppsInv, AppInv
<1> QED
  BY <1>1, FieldsKeep DEF vars

LEMMA StepKeeps ==
  ASSUME Faults = {}, OneApplier, StreamInv, [Next]_vars
  PROVE  StreamInv'
<1>1. CASE \E a \in Appliers : Skip(a)
  BY <1>1, SkipKeeps
<1>2. CASE \E a \in Appliers : Apply(a)
  BY <1>2, ApplyKeeps
<1>3. CASE \E a \in Appliers : ApplyFails(a)
  BY <1>3, ApplyFailsKeeps
<1>4. CASE \E a \in Appliers : Flush(a)
  BY <1>4, FlushKeeps
<1>5. CASE \E a \in Appliers : FlushFails(a)
  BY <1>5, FlushFailsKeeps
<1>6. CASE \E a \in Appliers : Redeliver(a)
  BY <1>6, RedeliverKeeps
<1>7. CASE \E a \in Appliers : Resume(a)
  BY <1>7, ResumeKeeps
<1>8. CASE OtherPush \/ OtherWrite \/ OtherCommit \/ WriteRefused
  BY <1>8, OthersKeep
<1>9. CASE Batch
  BY <1>9, BatchKeeps
<1>10. CASE Restart
  BY <1>10, RestartKeeps
<1>11. CASE UNCHANGED vars
  BY <1>11, StutterKeeps
<1> QED
  BY <1>1, <1>2, <1>3, <1>4, <1>5, <1>6, <1>7, <1>8, <1>9, <1>10, <1>11 DEF Next

(* With one applier to a source, the log, the commit point and the fields  *)
(* of the appliers fit together in every state of the specification        *)
(* (apply.rs, StreamApply with Store's appends, commits and reopens).      *)
THEOREM StreamInvariance ==
  ASSUME Faults = {}, OneApplier
  PROVE  Spec => []StreamInv
<1>1. Init => StreamInv
  BY InitInv
<1>2. StreamInv /\ [Next]_vars => StreamInv'
  BY StepKeeps
<1> QED
  BY <1>1, <1>2, PTL DEF Spec

LEMMA OnceInOrderHolds ==
  ASSUME StreamInv
  PROVE  AppliedOnceInOrder
<1>1. \A s \in Sources : ChangesAt(Len(log), s) = ChangesIn(log, s)
  BY DEF ChangesAt, ChangesIn
<1>2. \A s \in Sources : OnceInOrder(log, s)
  BY DEF StreamInv, LogInv, Sound
<1> QED
  BY <1>1, <1>2 DEF AppliedOnceInOrder, AppliedOnce, IdentityOrder, OnceInOrder

LEMMA ExactHolds ==
  ASSUME StreamInv
  PROVE  CursorExact
<1>1. log \in Seq(Rec) /\ super \in 0..Len(log) /\ Len(Durable) = super
      /\ \A i \in 1..super : Durable[i] = log[i]
  BY LogFacts, Prefix DEF Durable
<1>2. ASSUME NEW s \in Sources
      PROVE  /\ ChangesIn(Durable, s) = ChangesAt(super, s) /\ Committed(s) = LiveCursor(Durable, s)
             /\ Covered(Durable, s) /\ Complete(Durable, s)
  <2>1. ChangesIn(Durable, s) = ChangesAt(super, s)
    BY <1>1 DEF ChangesIn, ChangesAt
  <2>2. Committed(s) = LiveCursor(Durable, s)
    BY DEF Committed, Durable
  <2> QED
    BY <2>1, <2>2 DEF StreamInv, DurableInv, Sound
<1>3. \A s \in Sources : \A i \in ChangesAt(super, s) : Durable[i] = log[i]
  BY <1>1 DEF ChangesAt
<1>4. CursorCoversChanges
  BY <1>2, <1>3 DEF CursorCoversChanges, Covered
<1>5. \A s \in Sources : \A o \in DOMAIN Changes[s] : o \in Nat
  <2> SUFFICES ASSUME NEW s \in Sources, NEW o \in DOMAIN Changes[s] PROVE o \in Nat
    OBVIOUS
  <2>1. PICK n : n = Cardinality(DOMAIN Changes[s])
    OBVIOUS
  <2>2. n \in Nat
    BY <2>1, SourceAssumption, FS_CardinalityType
  <2>3. DOMAIN Changes[s] = 0..(n - 1)
    BY <2>1, SourceAssumption
  <2> QED
    BY <2>2, <2>3
<1>6. NothingSkipped
  BY <1>2, <1>3, <1>5 DEF NothingSkipped, Complete
<1> QED
  BY <1>4, <1>6 DEF CursorExact

LEMMA CursorsHoldNow ==
  ASSUME StreamInv
  PROVE  CursorsHold
<1>1. CursorNeverBack
  BY DEF StreamInv, LogInv, Sound, Ascending, CursorNeverBack
<1>2. PromisedOffsetsStay
  BY DEF StreamInv, DurableInv, PromisedOffsetsStay, Committed, Durable
<1> QED
  BY <1>1, <1>2 DEF CursorsHold

(* A change that is delivered late, twice, again after a failed flush, a   *)
(* resume or a restart is on the log once, and the changes of an identity  *)
(* in the order of the source (last_applied and apply, apply.rs).          *)
THEOREM ChangesApplyOnceInOrder ==
  ASSUME Faults = {}, OneApplier
  PROVE  Spec => []AppliedOnceInOrder
<1>1. StreamInv => AppliedOnceInOrder
  BY OnceInOrderHolds
<1> QED
  BY <1>1, StreamInvariance, PTL

(* The durable cursor of a source covers exactly its durable changes, also *)
(* when other writers commit inside a window (hold_commits and flush,      *)
(* apply.rs; ADR 0031).                                                    *)
THEOREM CursorAlwaysExact ==
  ASSUME Faults = {}, OneApplier
  PROVE  Spec => []CursorExact
<1>1. StreamInv => CursorExact
  BY ExactHolds
<1> QED
  BY <1>1, StreamInvariance, PTL

(* The cursors of a source ascend on the log, and what a flush answered is *)
(* not taken back by a crash, a resume or another writer (flush and        *)
(* load_committed_offset, apply.rs).                                       *)
THEOREM CursorsAlwaysHold ==
  ASSUME Faults = {}, OneApplier
  PROVE  Spec => []CursorsHold
<1>1. StreamInv => CursorsHold
  BY CursorsHoldNow
<1> QED
  BY <1>1, StreamInvariance, PTL

-----------------------------------------------------------------------------
(* The rollups of JoinMaps.                                                *)

(* The place of a row, what a row says, tables of rows, and the rows the   *)
(* maps own, of properties out of P.                                       *)
Places == Kinds \X Props \X Props \X Keys
Rollup == [count : Int, total : Int]
Tables == UNION {[D -> Rollup] : D \in SUBSET Places}
Owneds(P) == UNION {[D -> P] : D \in {E \in SUBSET (Kinds \X Keys) : IsFiniteSet(E)}}
Pairs == Kinds \X Props
MapsOf(P) ==
  [owned : Owneds(P), declared : SUBSET Pairs, cached : SUBSET Pairs,
   rollups : Tables, lazy : Tables, dirty : BOOLEAN]

PropsOk(P) == \A props \in P : DOMAIN props \subseteq Props /\ IsFiniteSet(DOMAIN props)

LEMMA OwnedsAre ==
  ASSUME NEW P, NEW o
  PROVE  o \in Owneds(P) <=>
           /\ DOMAIN o \subseteq Kinds \X Keys /\ IsFiniteSet(DOMAIN o)
           /\ o = [x \in DOMAIN o |-> o[x]] /\ \A x \in DOMAIN o : o[x] \in P
BY DEF Owneds

LEMMA TablesAre ==
  ASSUME NEW rows
  PROVE  rows \in Tables <=>
           /\ DOMAIN rows \subseteq Places
           /\ rows = [at \in DOMAIN rows |-> rows[at]] /\ \A at \in DOMAIN rows : rows[at] \in Rollup
BY DEF Tables

-----------------------------------------------------------------------------
(* Sums that wrap.                                                         *)

LEMMA ModUnique ==
  ASSUME NEW d \in Nat \ {0}, NEW r \in 0..(d - 1), NEW s \in 0..(d - 1), NEW k \in Int,
         r = s + d * k
  PROVE  r = s
<1>1. CASE k >= 1
  <2>1. d * k >= d BY <1>1
  <2> QED BY <2>1
<1>2. CASE k <= -1
  <2>1. d * k <= -d BY <1>2
  <2> QED BY <2>1
<1>3. CASE k = 0
  BY <1>3
<1> QED BY <1>1, <1>2, <1>3

LEMMA ModIs ==
  ASSUME NEW d \in Nat \ {0}, NEW a \in Int
  PROVE  a % d \in 0..(d - 1) /\ a \div d \in Int /\ a = (d * (a \div d)) + (a % d)
OBVIOUS

LEMMA ModAdd ==
  ASSUME NEW d \in Nat \ {0}, NEW a \in Int, NEW b \in Int
  PROVE  ((a % d) + b) % d = (a + b) % d
<1> DEFINE q == a \div d  r == a % d
           x == r + b  y == a + b
           u == x \div d  v == x % d
           w == y \div d  z == y % d
<1>1. q \in Int /\ r \in Int /\ a = d * q + r
  BY ModIs
<1>2. x \in Int /\ y \in Int
  BY <1>1
<1>3. v \in 0..(d - 1) /\ u \in Int /\ x = d * u + v
  BY <1>2, ModIs
<1>4. z \in 0..(d - 1) /\ w \in Int /\ y = d * w + z
  BY <1>2, ModIs
<1>5. y = x + d * q
  BY <1>1
<1> HIDE DEF q, r, x, y, u, v, w, z
<1>6. v = z + d * (w - u - q)
  <2>1. d * (w - u - q) = d * w - d * u - d * q
    BY <1>1, <1>3, <1>4
  <2> DEFINE dw == d * w  du == d * u  dq == d * q
  <2>2. dw \in Int /\ du \in Int /\ dq \in Int
    BY <1>1, <1>3, <1>4
  <2>3. v = x - du /\ z = y - dw /\ y = x + dq
    BY <1>2, <1>3, <1>4, <1>5, <2>2
  <2>4. d * (w - u - q) = dw - du - dq
    BY <2>1
  <2> HIDE DEF dw, du, dq
  <2> QED BY <1>2, <2>2, <2>3, <2>4
<1>7. w - u - q \in Int
  BY <1>1, <1>3, <1>4
<1>8. v = z
  BY <1>3, <1>4, <1>6, <1>7, ModUnique
<1> QED BY <1>8 DEF v, z, x, y, r

LEMMA WrapIs ==
  ASSUME NEW n \in Int, NEW k \in Int
  PROVE  /\ Wrap(n) \in Int
         /\ Wrap(0) = 0
         /\ Wrap(Wrap(n) + k) = Wrap(n + k)
<1> DEFINE d == 2 * HalfRange
           a == n + HalfRange
<1>1. d \in Nat \ {0} /\ HalfRange \in Nat \ {0} /\ a \in Int
  BY RangeAssumption
<1>2. a % d \in Int
  BY <1>1, ModIs
<1>3. Wrap(n) \in Int
  BY <1>1, <1>2 DEF Wrap
<1>4. HalfRange % d = HalfRange
  <2>1. HalfRange % d \in 0..(d - 1) /\ HalfRange \div d \in Int
        /\ HalfRange = (d * (HalfRange \div d)) + (HalfRange % d)
    BY <1>1, ModIs
  <2>2. HalfRange = (HalfRange % d) + (d * (HalfRange \div d))
    BY <1>1, <2>1
  <2>3. HalfRange \in 0..(d - 1)
    BY <1>1
  <2> QED BY <1>1, <2>1, <2>2, <2>3, ModUnique
<1>5. Wrap(0) = 0
  BY <1>1, <1>4 DEF Wrap
<1>6. ((a % d) + k) % d = (a + k) % d
  BY <1>1, ModAdd
<1>7. Wrap(n) + k + HalfRange = (a % d) + k /\ n + k + HalfRange = a + k
  BY <1>1, <1>2 DEF Wrap
<1> QED BY <1>3, <1>5, <1>6, <1>7 DEF Wrap

-----------------------------------------------------------------------------
(* What a rollup says, as a sum over its children.                         *)

AmountsOf(m, at, S) == [c \in S |-> Amount(m.owned[<<at[1], c>>], at[3])]

LEMMA AmountType ==
  ASSUME NEW props, NEW prop
  PROVE  Amount(props, prop) \in Int
BY NumbersAssumption, RangeAssumption DEF Amount, HasAmount

LEMMA RecomputedIs ==
  ASSUME NEW m, NEW at, NEW S, S = Children(m, at[1], at[2], at[4]), IsFiniteSet(S)
  PROVE  /\ Recomputed(m, at) = [count |-> Cardinality(S),
                                 total |-> Wrap(SetSum(AmountsOf(m, at, S), S))]
         /\ Recomputed(m, at) \in Rollup
<1> DEFINE a == AmountsOf(m, at, S)
           SumsOf(g) == g = [s \in SUBSET S |->
             IF s = {} THEN 0
             ELSE Amount(m.owned[<<at[1], CHOOSE x \in s : TRUE>>], at[3])
                    + g[s \ {CHOOSE x \in s : TRUE}]]
           h == CHOOSE g : SumsOf(g)
<1>1. ASSUME NEW g PROVE SumsOf(g) <=> SumsTo(g, a, S)
  <2>1. \A s \in SUBSET S : s # {} =>
          Amount(m.owned[<<at[1], CHOOSE x \in s : TRUE>>], at[3]) = a[CHOOSE x \in s : TRUE]
    BY DEF AmountsOf
  <2> DEFINE f1 == [s \in SUBSET S |->
             IF s = {} THEN 0
             ELSE Amount(m.owned[<<at[1], CHOOSE x \in s : TRUE>>], at[3])
                    + g[s \ {CHOOSE x \in s : TRUE}]]
             f2 == [s \in SUBSET S |->
                     IF s = {} THEN 0
                     ELSE a[CHOOSE x \in s : TRUE] + g[s \ {CHOOSE x \in s : TRUE}]]
  <2>2. f1 = f2
    BY <2>1
  <2> QED BY <2>2 DEF SumsTo
<1>2. \E g : SumsTo(g, a, S)
  BY SumsExist
<1>3. SumsOf(h)
  <2> HIDE DEF SumsOf
  <2>1. PICK g : SumsOf(g)
    BY <1>1, <1>2
  <2> QED BY <2>1, Zenon
<1>4. SumsTo(h, a, S)
  BY <1>1, <1>3
<1>5. h[S] = SetSum(a, S)
  BY <1>4, SetSumIs
<1>6. MapThenSumSet(LAMBDA c : Amount(m.owned[<<at[1], c>>], at[3]), S) = h[S]
  BY DEF MapThenSumSet, MapThenFoldSet
<1>7. Recomputed(m, at) = [count |-> Cardinality(S), total |-> Wrap(h[S])]
  BY <1>6 DEF Recomputed
<1>8. \A c \in S : a[c] \in Int
  BY AmountType DEF AmountsOf
<1>9. SetSum(a, S) \in Int
  BY <1>8, SetSumType
<1> HIDE DEF a, h
<1>10. Wrap(SetSum(a, S)) \in Int /\ Cardinality(S) \in Int
  BY <1>9, WrapIs, FS_CardinalityType
<1> QED BY <1>5, <1>7, <1>10 DEF a, Rollup

-----------------------------------------------------------------------------
(* The two maps of rows as one.                                            *)

RowsOfMaps(m) == Over(m.rollups, m.lazy)

(* Each table is in the map a new row of it goes to.                       *)
Placed(m, n) ==
  /\ \A at \in DOMAIN n.rollups : InRollups(m, at)
  /\ \A at \in DOMAIN n.lazy : ~InRollups(m, at)

LEMMA PlaceIs ==
  ASSUME NEW at \in Places
  PROVE  /\ at = <<at[1], at[2], at[3], at[4]>>
         /\ at[1] \in Kinds /\ at[2] \in Props /\ at[3] \in Props /\ at[4] \in Keys
BY DEF Places

LEMMA SameTableIs ==
  ASSUME NEW a, NEW b
  PROVE  SameTable(a, b) <=> a[1] = b[1] /\ a[2] = b[2] /\ a[3] = b[3]
<1>1. 1..3 = {1, 2, 3}
  OBVIOUS
<1> QED BY <1>1 DEF SameTable

LEMMA RecordIs ==
  ASSUME NEW P, NEW m \in MapsOf(P)
  PROVE  /\ m.owned \in Owneds(P) /\ m.declared \subseteq Pairs /\ m.cached \subseteq Pairs
         /\ m.rollups \in Tables /\ m.lazy \in Tables
         /\ DOMAIN m.rollups \subseteq Places /\ DOMAIN m.lazy \subseteq Places
BY TablesAre DEF MapsOf

LEMMA PlacedSelf ==
  ASSUME NEW P, NEW m \in MapsOf(P), NEW n \in MapsOf(P), n.declared = m.declared, Placed(m, n)
  PROVE  Placed(n, n)
<1>1. ASSUME NEW at \in DOMAIN n.rollups PROVE InRollups(n, at)
  <2>1. at \in Places /\ SameTable(at, at)
    BY RecordIs, SameTableIs
  <2>2. HasTable(n.rollups, at)
    BY <2>1 DEF HasTable
  <2> QED BY <2>2 DEF InRollups
<1>2. ASSUME NEW at \in DOMAIN n.lazy, InRollups(n, at) PROVE FALSE
  <2>1. at \in Places /\ ~InRollups(m, at)
    BY RecordIs DEF Placed
  <2>2. HasTable(n.rollups, at) /\ <<at[1], at[3]>> \notin m.declared
    BY <1>2, <2>1 DEF InRollups
  <2>3. PICK b \in DOMAIN n.rollups : SameTable(b, at)
    BY <2>2 DEF HasTable
  <2>4. b \in Places /\ InRollups(m, b)
    BY RecordIs DEF Placed
  <2>5. <<b[1], b[3]>> \notin m.declared
    BY <2>2, <2>3, SameTableIs
  <2>6. PICK c \in DOMAIN m.rollups : SameTable(c, b)
    BY <2>4, <2>5 DEF InRollups, HasTable
  <2>7. SameTable(c, at)
    BY <2>3, <2>6, SameTableIs
  <2>8. HasTable(m.rollups, at)
    BY <2>7 DEF HasTable
  <2> QED BY <2>1, <2>8 DEF InRollups
<1> QED BY <1>1, <1>2 DEF Placed

LEMMA RowsAre ==
  ASSUME NEW P, NEW m \in MapsOf(P), Placed(m, m)
  PROVE  /\ RowsOfMaps(m) \in Tables
         /\ DOMAIN RowsOfMaps(m) = DOMAIN m.rollups \cup DOMAIN m.lazy
         /\ \A at \in DOMAIN m.rollups : RowsOfMaps(m)[at] = m.rollups[at] /\ at \notin DOMAIN m.lazy
         /\ \A at \in DOMAIN m.lazy : RowsOfMaps(m)[at] = m.lazy[at] /\ at \notin DOMAIN m.rollups
<1>1. \A at \in DOMAIN m.rollups : at \notin DOMAIN m.lazy
  BY DEF Placed
<1>2. /\ DOMAIN RowsOfMaps(m) = DOMAIN m.rollups \cup DOMAIN m.lazy
      /\ \A at \in DOMAIN m.rollups : RowsOfMaps(m)[at] = m.rollups[at]
      /\ \A at \in DOMAIN m.lazy : RowsOfMaps(m)[at] = m.lazy[at]
      /\ RowsOfMaps(m) = [at \in DOMAIN RowsOfMaps(m) |-> RowsOfMaps(m)[at]]
  <2> DEFINE r == m.rollups  l == m.lazy  w == Over(r, l)
  <2>1. w = RowsOfMaps(m) /\ \A at \in DOMAIN r : at \notin DOMAIN l
    BY <1>1 DEF RowsOfMaps
  <2> HIDE DEF r, l
  <2>2. /\ DOMAIN w = DOMAIN r \cup DOMAIN l
        /\ \A at \in DOMAIN r : w[at] = r[at]
        /\ \A at \in DOMAIN l : w[at] = l[at]
    BY <2>1 DEF Over
  <2>3. w = [at \in DOMAIN w |-> w[at]]
    BY DEF Over
  <2> HIDE DEF w
  <2> QED BY <2>1, <2>2, <2>3 DEF r, l
<1>3. m.rollups \in Tables /\ m.lazy \in Tables
  BY RecordIs
<1>4. RowsOfMaps(m) \in Tables
  BY <1>2, <1>3, TablesAre
<1> QED BY <1>1, <1>2, <1>4

Was(rows, at) == IF at \in DOMAIN rows THEN rows[at] ELSE [count |-> 0, total |-> 0]

(* What BumpEach makes of rows.                                            *)
Bumped(b, rows, ats, sign, props) ==
  /\ b \in Tables
  /\ \A at : at \in DOMAIN b <=>
       \/ at \in DOMAIN rows /\ at \notin ats
       \/ at \in ats /\ Was(rows, at).count + sign > 0
  /\ \A at \in DOMAIN b : at \notin ats => b[at] = rows[at]
  /\ \A at \in DOMAIN b : at \in ats =>
       b[at] = [count |-> Was(rows, at).count + sign,
                total |-> Wrap(Was(rows, at).total + sign * Amount(props, at[3]))]

LEMMA BumpEachIs ==
  ASSUME NEW rows \in Tables, NEW ats, NEW sign \in {1, -1}, NEW props,
         sign = 1 => ats \subseteq Places
  PROVE  Bumped(BumpEach(rows, ats, sign, props), rows, ats, sign, props)
<1> DEFINE b == BumpEach(rows, ats, sign, props)
<1> DEFINE kept == {at \in DOMAIN rows \cup ats : at \notin ats \/ Was(rows, at).count + sign > 0}
           new(at) == [count |-> Was(rows, at).count + sign,
                       total |-> Wrap(Was(rows, at).total + sign * Amount(props, at[3]))]
<1>1. b = [at \in kept |-> IF at \in ats THEN new(at) ELSE rows[at]]
  BY DEF BumpEach, Was
<1>2. /\ DOMAIN rows \subseteq Places /\ \A at \in DOMAIN rows : rows[at] \in Rollup
  BY TablesAre
<1>3. \A at : Was(rows, at).count \in Int /\ Was(rows, at).total \in Int
  BY <1>2 DEF Was, Rollup
<1>4. ASSUME NEW at \in kept PROVE at \in Places /\ (at \in ats => new(at) \in Rollup)
  <2>1. at \in Places
    <3>1. CASE at \in DOMAIN rows
      BY <1>2, <3>1
    <3>2. CASE at \notin DOMAIN rows
      <4>1. Was(rows, at).count = 0 /\ at \in ats
        BY <3>2 DEF Was
      <4>2. sign = 1
        BY <4>1
      <4> QED BY <4>1, <4>2
    <3> QED BY <3>1, <3>2
  <2>2. Amount(props, at[3]) \in Int
    BY AmountType
  <2>3. Was(rows, at).total + sign * Amount(props, at[3]) \in Int
    BY <1>3, <2>2
  <2>4. Wrap(Was(rows, at).total + sign * Amount(props, at[3])) \in Int
    BY <2>3, WrapIs
  <2> QED BY <1>3, <2>1, <2>4 DEF Rollup
<1> HIDE DEF new
<1>5. DOMAIN b = kept /\ \A at \in kept : b[at] = IF at \in ats THEN new(at) ELSE rows[at]
  BY <1>1
<1>6. b \in Tables
  <2>1. \A at \in kept : b[at] \in Rollup
    BY <1>2, <1>4, <1>5
  <2> QED BY <1>1, <1>4, <1>5, <2>1, TablesAre
<1> HIDE DEF b
<1> QED BY <1>5, <1>6 DEF new, Bumped, b

(* Two tables with the same rows are one.                                  *)
LEMMA TablesEqual ==
  ASSUME NEW f \in Tables, NEW g \in Tables, DOMAIN f = DOMAIN g,
         \A at \in DOMAIN f : f[at] = g[at]
  PROVE  f = g
<1>1. f = [at \in DOMAIN f |-> f[at]] /\ g = [at \in DOMAIN g |-> g[at]]
  BY TablesAre
<1> QED BY <1>1

BumpedMaps(n, m, ats, sign, props, P) ==
  /\ n \in MapsOf(P) /\ n.owned = m.owned /\ n.declared = m.declared
  /\ n.cached = m.cached /\ n.dirty = m.dirty /\ Placed(n, n)
  /\ RowsOfMaps(n) = BumpEach(RowsOfMaps(m), ats, sign, props)

LEMMA BumpIs ==
  ASSUME NEW P, NEW m \in MapsOf(P), Placed(m, m), NEW ats, NEW sign \in {1, -1}, NEW props,
         sign = 1 => ats \subseteq Places, NEW n, n = Bump(m, ats, sign, props)
  PROVE  BumpedMaps(n, m, ats, sign, props, P)
<1> DEFINE D == {at \in ats : InRollups(m, at)}
           E == ats \ D
           R == RowsOfMaps(m)
           r == BumpEach(m.rollups, D, sign, props)
           l == BumpEach(m.lazy, E, sign, props)
           b == BumpEach(R, ats, sign, props)
<1>1. n = [m EXCEPT !.rollups = r, !.lazy = l]
  BY DEF Bump
<1>2. m.rollups \in Tables /\ m.lazy \in Tables /\ R \in Tables
  BY RecordIs, RowsAre
<1>3. /\ D \subseteq ats /\ E \subseteq ats /\ \A at \in D : InRollups(m, at)
      /\ \A at \in E : ~InRollups(m, at)
      /\ \A at \in ats : at \in D \/ at \in E
  OBVIOUS
<1>4. /\ DOMAIN R = DOMAIN m.rollups \cup DOMAIN m.lazy
      /\ \A at \in DOMAIN m.rollups : R[at] = m.rollups[at] /\ at \notin DOMAIN m.lazy
      /\ \A at \in DOMAIN m.lazy : R[at] = m.lazy[at] /\ at \notin DOMAIN m.rollups
  BY RowsAre
<1>5. /\ \A at \in DOMAIN m.rollups : InRollups(m, at)
      /\ \A at \in DOMAIN m.lazy : ~InRollups(m, at)
  BY DEF Placed
<1>6. /\ \A at \in D : Was(m.rollups, at) = Was(R, at)
      /\ \A at \in E : Was(m.lazy, at) = Was(R, at)
  BY <1>3, <1>4, <1>5 DEF Was
<1> HIDE DEF D, E
<1>7. Bumped(r, m.rollups, D, sign, props)
  <2>1. sign = 1 => D \subseteq Places
    BY <1>3
  <2> QED BY <1>2, <2>1, BumpEachIs
<1>8. Bumped(l, m.lazy, E, sign, props)
  <2>1. sign = 1 => E \subseteq Places
    BY <1>3
  <2> QED BY <1>2, <2>1, BumpEachIs
<1>9. Bumped(b, R, ats, sign, props)
  BY <1>2, BumpEachIs
<1> HIDE DEF r, l, b, R
<1>10. /\ n \in MapsOf(P) /\ n.owned = m.owned /\ n.declared = m.declared
       /\ n.cached = m.cached /\ n.rollups = r /\ n.lazy = l /\ n.dirty = m.dirty
  <2>1. r \in Tables /\ l \in Tables
    BY <1>7, <1>8 DEF Bumped
  <2> QED BY <1>1, <2>1 DEF MapsOf
<1>11. /\ \A at \in DOMAIN r : InRollups(m, at)
       /\ \A at \in DOMAIN l : ~InRollups(m, at)
  BY <1>3, <1>5, <1>7, <1>8 DEF Bumped
<1>12. Placed(n, n)
  <2>1. Placed(m, n)
    BY <1>10, <1>11 DEF Placed
  <2> QED BY <1>10, <2>1, PlacedSelf
<1>13. /\ RowsOfMaps(n) \in Tables
       /\ DOMAIN RowsOfMaps(n) = DOMAIN r \cup DOMAIN l
       /\ \A at \in DOMAIN r : RowsOfMaps(n)[at] = r[at]
       /\ \A at \in DOMAIN l : RowsOfMaps(n)[at] = l[at]
  BY <1>10, <1>12, RowsAre
<1>14. DOMAIN r \cup DOMAIN l = DOMAIN b
  <2>1. ASSUME NEW at PROVE at \in DOMAIN r \cup DOMAIN l <=> at \in DOMAIN b
    <3>1. CASE at \in D
      BY <1>3, <1>5, <1>6, <1>7, <1>8, <1>9, <3>1 DEF Bumped
    <3>2. CASE at \in E
      BY <1>3, <1>5, <1>6, <1>7, <1>8, <1>9, <3>2 DEF Bumped
    <3>3. CASE at \notin ats
      BY <1>3, <1>4, <1>7, <1>8, <1>9, <3>3 DEF Bumped
    <3> QED BY <1>3, <3>1, <3>2, <3>3
  <2> QED BY <2>1
<1>15. ASSUME NEW at \in DOMAIN b PROVE RowsOfMaps(n)[at] = b[at]
  <2>1. CASE at \in DOMAIN r
    <3>1. CASE at \in D
      BY <1>3, <1>6, <1>7, <1>9, <1>13, <2>1, <3>1 DEF Bumped
    <3>2. CASE at \notin D
      <4>1. at \in DOMAIN m.rollups /\ at \notin ats
        BY <1>3, <1>5, <1>7, <2>1, <3>2 DEF Bumped
      <4> QED BY <1>4, <1>7, <1>9, <1>13, <2>1, <3>2, <4>1 DEF Bumped
    <3> QED BY <3>1, <3>2
  <2>2. CASE at \in DOMAIN l
    <3>1. CASE at \in E
      BY <1>3, <1>6, <1>8, <1>9, <1>13, <2>2, <3>1 DEF Bumped
    <3>2. CASE at \notin E
      <4>1. at \in DOMAIN m.lazy /\ at \notin ats
        BY <1>3, <1>5, <1>8, <2>2, <3>2 DEF Bumped
      <4> QED BY <1>4, <1>8, <1>9, <1>13, <2>2, <3>2, <4>1 DEF Bumped
    <3> QED BY <3>1, <3>2
  <2> QED BY <1>14, <2>1, <2>2
<1>16. RowsOfMaps(n) = b
  BY <1>9, <1>13, <1>14, <1>15, TablesEqual DEF Bumped
<1> QED BY <1>10, <1>12, <1>16 DEF b, R, BumpedMaps

Dropped(n, m, parent, P) ==
  /\ n \in MapsOf(P) /\ n.owned = m.owned /\ n.declared = m.declared
  /\ n.cached = m.cached /\ n.dirty = m.dirty /\ Placed(n, n)
  /\ DOMAIN RowsOfMaps(n) = {at \in DOMAIN RowsOfMaps(m) : at[4] # parent}
  /\ \A at \in DOMAIN RowsOfMaps(n) : RowsOfMaps(n)[at] = RowsOfMaps(m)[at]

(* The rows a parent has are taken away.                                   *)
LEMMA DropIs ==
  ASSUME NEW P, NEW m \in MapsOf(P), Placed(m, m), NEW parent,
         NEW n, n = DropParentRollups(m, parent)
  PROVE  Dropped(n, m, parent, P)
<1> DEFINE r == Restrict(m.rollups, {at \in DOMAIN m.rollups : at[4] # parent})
           l == Restrict(m.lazy, {at \in DOMAIN m.lazy : at[4] # parent})
<1>1. n = [m EXCEPT !.rollups = r, !.lazy = l]
  BY DEF DropParentRollups
<1>2. m.rollups \in Tables /\ m.lazy \in Tables
  BY RecordIs
<1>3. /\ DOMAIN r = {at \in DOMAIN m.rollups : at[4] # parent}
      /\ DOMAIN l = {at \in DOMAIN m.lazy : at[4] # parent}
      /\ \A at \in DOMAIN r : r[at] = m.rollups[at]
      /\ \A at \in DOMAIN l : l[at] = m.lazy[at]
      /\ r = [at \in DOMAIN r |-> r[at]] /\ l = [at \in DOMAIN l |-> l[at]]
  BY DEF Restrict
<1> HIDE DEF r, l
<1>4. r \in Tables /\ l \in Tables
  BY <1>2, <1>3, TablesAre
<1>5. /\ n \in MapsOf(P) /\ n.owned = m.owned /\ n.declared = m.declared
      /\ n.cached = m.cached /\ n.rollups = r /\ n.lazy = l /\ n.dirty = m.dirty
  BY <1>1, <1>4 DEF MapsOf
<1>6. Placed(n, n)
  <2>1. Placed(m, n)
    BY <1>3, <1>5 DEF Placed
  <2> QED BY <1>5, <2>1, PlacedSelf
<1>7. /\ DOMAIN RowsOfMaps(n) = DOMAIN r \cup DOMAIN l
      /\ \A at \in DOMAIN r : RowsOfMaps(n)[at] = r[at]
      /\ \A at \in DOMAIN l : RowsOfMaps(n)[at] = l[at]
  BY <1>5, <1>6, RowsAre
<1>8. /\ DOMAIN RowsOfMaps(m) = DOMAIN m.rollups \cup DOMAIN m.lazy
      /\ \A at \in DOMAIN m.rollups : RowsOfMaps(m)[at] = m.rollups[at]
      /\ \A at \in DOMAIN m.lazy : RowsOfMaps(m)[at] = m.lazy[at]
  BY RowsAre
<1>9. DOMAIN RowsOfMaps(n) = {at \in DOMAIN RowsOfMaps(m) : at[4] # parent}
  BY <1>3, <1>7, <1>8
<1>10. \A at \in DOMAIN RowsOfMaps(n) : RowsOfMaps(n)[at] = RowsOfMaps(m)[at]
  BY <1>3, <1>7, <1>8
<1> QED BY <1>5, <1>6, <1>9, <1>10 DEF Dropped

-----------------------------------------------------------------------------
(* The rows there are to be.                                               *)

Tracked(m) == m.declared \cup m.cached

Due(m, pairs) ==
  {at \in Places : /\ at[2] # at[3] /\ <<at[1], at[3]>> \in pairs
                   /\ KeyIsVisible(m, at[4]) /\ Children(m, at[1], at[2], at[4]) # {}}

LEMMA VisibleFinite ==
  ASSUME NEW m, IsFiniteSet(DOMAIN m.owned), NEW kind
  PROVE  IsFiniteSet(VisibleKeys(m, kind))
<1> DEFINE f == [key \in VisibleKeys(m, kind) |-> <<kind, key>>]
<1>1. f \in Injection(VisibleKeys(m, kind), DOMAIN m.owned)
  BY DEF Injection, IsInjective, VisibleKeys
<1> QED BY <1>1, FS_Injection

LEMMA RollupOfChildren ==
  ASSUME NEW m, IsFiniteSet(DOMAIN m.owned), NEW at
  PROVE  /\ IsFiniteSet(Children(m, at[1], at[2], at[4]))
         /\ Recomputed(m, at) \in Rollup
<1>1. IsFiniteSet(VisibleKeys(m, at[1]))
  BY VisibleFinite
<1>2. Children(m, at[1], at[2], at[4]) \in SUBSET VisibleKeys(m, at[1])
  BY DEF Children
<1>3. IsFiniteSet(Children(m, at[1], at[2], at[4]))
  BY <1>1, <1>2, FS_Subset
<1> QED BY <1>3, RecomputedIs

LEMMA OwnedFinite ==
  ASSUME NEW P, NEW m \in MapsOf(P)
  PROVE  IsFiniteSet(DOMAIN m.owned)
BY RecordIs, OwnedsAre

Live(m, parent) ==
  {at \in Places : /\ at[4] = parent /\ at[2] # at[3] /\ <<at[1], at[3]>> \in Tracked(m)
                   /\ Children(m, at[1], at[2], at[4]) # {}}

Restored(n, m, parent, P) ==
  /\ n \in MapsOf(P) /\ n.owned = m.owned /\ n.declared = m.declared
  /\ n.cached = m.cached /\ n.dirty = m.dirty /\ Placed(n, n)
  /\ DOMAIN RowsOfMaps(n) = Live(m, parent) \cup DOMAIN RowsOfMaps(m)
  /\ \A at \in DOMAIN RowsOfMaps(n) :
       RowsOfMaps(n)[at] =
         IF at \in Live(m, parent) THEN Recomputed(m, at) ELSE RowsOfMaps(m)[at]

LEMMA RestoreIs ==
  ASSUME NEW P, NEW m \in MapsOf(P), Placed(m, m), NEW parent \in Keys,
         NEW n, n = RestoreParentRollups(m, parent)
  PROVE  Restored(n, m, parent, P)
<1> DEFINE ats == {<<p[1], join, p[2], parent>> : p \in m.declared \cup m.cached, join \in Props}
           live == {at \in ats : at[2] # at[3] /\ Children(m, at[1], at[2], parent) # {}}
           D == {at \in live : InRollups(m, at)}
           E == live \ D
           r == Over([at \in D |-> Recomputed(m, at)], m.rollups)
           l == Over([at \in E |-> Recomputed(m, at)], m.lazy)
<1>1. n = [m EXCEPT !.rollups = r, !.lazy = l]
  BY DEF RestoreParentRollups
<1>2. m.rollups \in Tables /\ m.lazy \in Tables /\ m.declared \subseteq Pairs /\ m.cached \subseteq Pairs
  BY RecordIs
<1>3. live = Live(m, parent)
  <2>1. ASSUME NEW at \in live PROVE at \in Live(m, parent)
    <3>1. PICK p \in m.declared \cup m.cached, join \in Props : at = <<p[1], join, p[2], parent>>
      OBVIOUS
    <3>2. p \in Kinds \X Props /\ p = <<p[1], p[2]>>
      BY <1>2 DEF Pairs
    <3>3. /\ at[1] = p[1] /\ at[2] = join /\ at[3] = p[2] /\ at[4] = parent /\ at \in Places
      BY <3>1, <3>2 DEF Places
    <3> QED BY <3>2, <3>3 DEF Live, Tracked
  <2>2. ASSUME NEW at \in Live(m, parent) PROVE at \in live
    <3>1. at \in Places /\ at = <<at[1], at[2], at[3], parent>> /\ at[2] \in Props /\ at[4] = parent
      BY PlaceIs DEF Live
    <3>2. <<at[1], at[3]>> \in m.declared \cup m.cached
      BY DEF Live, Tracked
    <3>3. at \in ats
      <4> DEFINE p == <<at[1], at[3]>>
      <4>1. at = <<p[1], at[2], p[2], parent>>
        BY <3>1
      <4> HIDE DEF p
      <4>2. p \in m.declared \cup m.cached
        BY <3>2 DEF p
      <4> QED BY <3>1, <4>1, <4>2
    <3> QED BY <3>1, <3>3 DEF Live
  <2> QED BY <2>1, <2>2
<1> HIDE DEF live
<1>4. /\ D \subseteq live /\ E \subseteq live
      /\ \A at \in D : InRollups(m, at)
      /\ \A at \in E : ~InRollups(m, at)
      /\ \A at \in live : at \in D \/ at \in E
  OBVIOUS
<1> HIDE DEF D, E
<1>5. /\ DOMAIN r = D \cup DOMAIN m.rollups /\ r = [at \in DOMAIN r |-> r[at]]
      /\ \A at \in DOMAIN r : r[at] = IF at \in D THEN Recomputed(m, at) ELSE m.rollups[at]
  BY DEF Over
<1>6. /\ DOMAIN l = E \cup DOMAIN m.lazy /\ l = [at \in DOMAIN l |-> l[at]]
      /\ \A at \in DOMAIN l : l[at] = IF at \in E THEN Recomputed(m, at) ELSE m.lazy[at]
  BY DEF Over
<1>7. live \subseteq Places /\ \A at \in live : Recomputed(m, at) \in Rollup
  <2>1. live \subseteq Places
    BY <1>3 DEF Live
  <2> QED BY <2>1, OwnedFinite, RollupOfChildren
<1> HIDE DEF r, l
<1>8. r \in Tables /\ l \in Tables
  BY <1>2, <1>4, <1>5, <1>6, <1>7, TablesAre
<1>9. /\ n \in MapsOf(P) /\ n.owned = m.owned /\ n.declared = m.declared
      /\ n.cached = m.cached /\ n.rollups = r /\ n.lazy = l /\ n.dirty = m.dirty
  BY <1>1, <1>8 DEF MapsOf
<1>10. Placed(n, n)
  <2>1. Placed(m, n)
    BY <1>4, <1>5, <1>6, <1>9 DEF Placed
  <2> QED BY <1>9, <2>1, PlacedSelf
<1>11. /\ DOMAIN RowsOfMaps(n) = DOMAIN r \cup DOMAIN l
       /\ \A at \in DOMAIN r : RowsOfMaps(n)[at] = r[at]
       /\ \A at \in DOMAIN l : RowsOfMaps(n)[at] = l[at]
  BY <1>9, <1>10, RowsAre
<1>12. /\ DOMAIN RowsOfMaps(m) = DOMAIN m.rollups \cup DOMAIN m.lazy
       /\ \A at \in DOMAIN m.rollups : RowsOfMaps(m)[at] = m.rollups[at]
       /\ \A at \in DOMAIN m.lazy : RowsOfMaps(m)[at] = m.lazy[at]
  BY RowsAre
<1>13. DOMAIN RowsOfMaps(n) = live \cup DOMAIN RowsOfMaps(m)
  BY <1>4, <1>5, <1>6, <1>11, <1>12
<1>14. /\ \A at \in DOMAIN m.rollups : InRollups(m, at)
       /\ \A at \in DOMAIN m.lazy : ~InRollups(m, at)
  BY DEF Placed
<1>15. ASSUME NEW at \in DOMAIN RowsOfMaps(n)
       PROVE  RowsOfMaps(n)[at] = IF at \in live THEN Recomputed(m, at) ELSE RowsOfMaps(m)[at]
  <2>1. CASE at \in DOMAIN r
    <3>1. at \in live <=> at \in D
      BY <1>4, <1>5, <1>14, <2>1
    <3>2. at \notin D => at \in DOMAIN m.rollups
      BY <1>5, <2>1
    <3> QED BY <1>5, <1>11, <1>12, <2>1, <3>1, <3>2
  <2>2. CASE at \in DOMAIN l
    <3>1. at \in live <=> at \in E
      BY <1>4, <1>6, <1>14, <2>2
    <3>2. at \notin E => at \in DOMAIN m.lazy
      BY <1>6, <2>2
    <3> QED BY <1>6, <1>11, <1>12, <2>2, <3>1, <3>2
  <2> QED BY <1>11, <2>1, <2>2
<1> QED BY <1>3, <1>9, <1>10, <1>13, <1>15 DEF Restored
-----------------------------------------------------------------------------
(* A row more.                                                             *)

(* The maps n own what m owns and the row of one key besides.              *)
More(m, n, kind, key, props) ==
  /\ <<kind, key>> \notin DOMAIN m.owned
  /\ DOMAIN n.owned = DOMAIN m.owned \cup {<<kind, key>>}
  /\ n.owned[<<kind, key>>] = props
  /\ \A id \in DOMAIN m.owned : n.owned[id] = m.owned[id]

(* The row is a child where a rollup is.                                   *)
Holds(at, kind, props) == at[1] = kind /\ at[2] \in DOMAIN props /\ props[at[2]] = at[4]

LEMMA MoreVisible ==
  ASSUME NEW m, NEW n, NEW kind \in Kinds, NEW key, NEW props, More(m, n, kind, key, props), NEW k
  PROVE  KeyIsVisible(n, k) <=> KeyIsVisible(m, k) \/ k = key
BY DEF More, KeyIsVisible

(* What a row more does to the children of one rollup.                     *)
ChildMore(m, n, kind, key, props, at) ==
  /\ at[1] = kind => key \notin Children(m, at[1], at[2], at[4])
  /\ Holds(at, kind, props) =>
       Children(n, at[1], at[2], at[4]) = Children(m, at[1], at[2], at[4]) \cup {key}
  /\ ~Holds(at, kind, props) =>
       Children(n, at[1], at[2], at[4]) = Children(m, at[1], at[2], at[4])

LEMMA MoreChildren ==
  ASSUME NEW m, NEW n, NEW kind \in Kinds, NEW key \in Keys, NEW props,
         More(m, n, kind, key, props), NEW at
  PROVE  ChildMore(m, n, kind, key, props, at)
<1>1. at[1] = kind => key \notin Children(m, at[1], at[2], at[4])
  BY DEF More, Children, VisibleKeys
<1>2. ASSUME NEW c \in Keys, c # key \/ at[1] # kind
      PROVE  c \in Children(n, at[1], at[2], at[4]) <=> c \in Children(m, at[1], at[2], at[4])
  <2>1. <<at[1], c>> # <<kind, key>>
    BY <1>2
  <2>2. <<at[1], c>> \in DOMAIN n.owned <=> <<at[1], c>> \in DOMAIN m.owned
    BY <2>1 DEF More
  <2>3. <<at[1], c>> \in DOMAIN m.owned => n.owned[<<at[1], c>>] = m.owned[<<at[1], c>>]
    BY DEF More
  <2> QED BY <2>2, <2>3 DEF Children, VisibleKeys
<1>3. at[1] = kind => (key \in Children(n, at[1], at[2], at[4]) <=> Holds(at, kind, props))
  BY DEF More, Children, VisibleKeys, Holds
<1>4. /\ Children(n, at[1], at[2], at[4]) \subseteq Keys
      /\ Children(m, at[1], at[2], at[4]) \subseteq Keys
  BY DEF Children, VisibleKeys
<1>5. Holds(at, kind, props) => at[1] = kind
  BY DEF Holds
<1> DEFINE C == Children(n, at[1], at[2], at[4])
           D == Children(m, at[1], at[2], at[4])
<1>7. Holds(at, kind, props) => C = D \cup {key}
  <2> HAVE Holds(at, kind, props)
  <2> HIDE DEF C, D
  <2> QED BY <1>2, <1>3, <1>4, <1>5 DEF C, D
<1>8. ~Holds(at, kind, props) => C = D
  <2> HAVE ~Holds(at, kind, props)
  <2>1. ASSUME NEW c \in Keys PROVE c \in C <=> c \in D
    <3>1. CASE c = key /\ at[1] = kind
      BY <1>1, <1>3, <3>1
    <3>2. CASE c # key \/ at[1] # kind
      BY <1>2, <3>2
    <3> QED BY <3>1, <3>2
  <2> HIDE DEF C, D
  <2> QED BY <1>4, <2>1 DEF C, D
<1> QED BY <1>1, <1>7, <1>8 DEF ChildMore

(* The same children with the same rows make the same rollup.              *)
LEMMA SameRollup ==
  ASSUME NEW m, NEW n, IsFiniteSet(DOMAIN m.owned), NEW at,
         Children(n, at[1], at[2], at[4]) = Children(m, at[1], at[2], at[4]),
         \A c \in Children(m, at[1], at[2], at[4]) :
           n.owned[<<at[1], c>>] = m.owned[<<at[1], c>>]
  PROVE  Recomputed(n, at) = Recomputed(m, at)
<1> DEFINE S == Children(m, at[1], at[2], at[4])
           a == AmountsOf(m, at, S)
           b == AmountsOf(n, at, S)
<1>1. IsFiniteSet(S)
  BY RollupOfChildren
<1>2. \A c \in S : a[c] = b[c]
  BY DEF AmountsOf
<1>3. Recomputed(m, at) = [count |-> Cardinality(S), total |-> Wrap(SetSum(a, S))]
  BY <1>1, RecomputedIs
<1>4. Recomputed(n, at) = [count |-> Cardinality(S), total |-> Wrap(SetSum(b, S))]
  BY <1>1, RecomputedIs
<1> HIDE DEF S, a, b
<1>5. SetSum(a, S) = SetSum(b, S)
  BY <1>1, <1>2, SetSumEqual
<1> QED BY <1>3, <1>4, <1>5

(* What it does to the rollup, and what taking it back does.               *)
RollupMore(m, n, kind, props, at) ==
  /\ ~Holds(at, kind, props) => Recomputed(n, at) = Recomputed(m, at)
  /\ Holds(at, kind, props) =>
       /\ Recomputed(n, at) =
            [count |-> Recomputed(m, at).count + 1,
             total |-> Wrap(Recomputed(m, at).total + 1 * Amount(props, at[3]))]
       /\ Recomputed(m, at) =
            [count |-> Recomputed(n, at).count + (-1),
             total |-> Wrap(Recomputed(n, at).total + (-1) * Amount(props, at[3]))]

LEMMA MoreRollup ==
  ASSUME NEW m, NEW n, NEW kind \in Kinds, NEW key \in Keys, NEW props,
         More(m, n, kind, key, props), IsFiniteSet(DOMAIN m.owned), NEW at
  PROVE  RollupMore(m, n, kind, props, at)
<1>6. /\ at[1] = kind => key \notin Children(m, at[1], at[2], at[4])
      /\ Holds(at, kind, props) =>
           Children(n, at[1], at[2], at[4]) = Children(m, at[1], at[2], at[4]) \cup {key}
      /\ ~Holds(at, kind, props) =>
           Children(n, at[1], at[2], at[4]) = Children(m, at[1], at[2], at[4])
  <2>1. ChildMore(m, n, kind, key, props, at)
    BY MoreChildren
  <2> QED BY <2>1 DEF ChildMore
<1> DEFINE S == Children(m, at[1], at[2], at[4])
           R == Children(n, at[1], at[2], at[4])
<1>5. /\ at[1] = kind => key \notin S
      /\ Holds(at, kind, props) => R = S \cup {key}
      /\ ~Holds(at, kind, props) => R = S
  BY <1>6
<1>0. \A c \in S : <<at[1], c>> \in DOMAIN m.owned
  BY DEF Children, VisibleKeys
<1>1. \A c \in S : n.owned[<<at[1], c>>] = m.owned[<<at[1], c>>]
  BY <1>0 DEF More
<1>2. IsFiniteSet(S)
  BY RollupOfChildren
<1>3. ~Holds(at, kind, props) => Recomputed(n, at) = Recomputed(m, at)
  BY <1>1, <1>5, SameRollup
<1>4. ASSUME Holds(at, kind, props)
      PROVE  /\ Recomputed(n, at) =
                   [count |-> Recomputed(m, at).count + 1,
                    total |-> Wrap(Recomputed(m, at).total + 1 * Amount(props, at[3]))]
             /\ Recomputed(m, at) =
                   [count |-> Recomputed(n, at).count + (-1),
                    total |-> Wrap(Recomputed(n, at).total + (-1) * Amount(props, at[3]))]
  <2> DEFINE T == S \cup {key}
             a == AmountsOf(n, at, T)
             b == AmountsOf(m, at, S)
             x == SetSum(b, S)
             y == SetSum(a, T)
             d == Amount(props, at[3])
  <2>1. R = T /\ key \notin S /\ at[1] = kind
    BY <1>4, <1>5 DEF Holds
  <2>2. IsFiniteSet(T) /\ Cardinality(T) = Cardinality(S) + 1 /\ Cardinality(S) \in Nat
    BY <1>2, <2>1, FS_AddElement, FS_CardinalityType
  <2>3. Recomputed(m, at) = [count |-> Cardinality(S), total |-> Wrap(x)]
    BY <1>2, RecomputedIs
  <2>4. Recomputed(n, at) = [count |-> Cardinality(T), total |-> Wrap(y)]
    BY <2>1, <2>2, RecomputedIs
  <2>5. /\ \A c \in T : a[c] \in Int
        /\ \A c \in S : b[c] \in Int
        /\ \A c \in S : a[c] = b[c]
        /\ a[key] = d
    BY <1>1, <2>1, AmountType DEF AmountsOf, More
  <2> HIDE DEF S, a, b, d
  <2>6. y = a[key] + x
    <3>1. \A c \in S \cup {key} : a[c] \in Int
      BY <2>5
    <3>2. \A c \in S : a[c] = b[c]
      BY <2>5
    <3>3. key \notin S
      BY <2>1
    <3> QED BY <1>2, <3>1, <3>2, <3>3, SetSumAdd DEF T, x, y
  <2>7. x \in Int /\ y \in Int
    BY <1>2, <2>2, <2>5, SetSumType
  <2>8. d \in Int
    BY AmountType DEF d
  <2> HIDE DEF x, y, T
  <2>9. y = x + 1 * d /\ x = y + (-1) * d
    BY <2>5, <2>6, <2>7, <2>8
  <2>10. Wrap(Wrap(x) + 1 * d) = Wrap(y)
    BY <2>7, <2>8, <2>9, WrapIs
  <2>11. Wrap(Wrap(y) + (-1) * d) = Wrap(x)
    <3>1. (-1) * d \in Int
      BY <2>8
    <3> QED BY <2>7, <2>9, <3>1, WrapIs
  <2>12. Cardinality(S) = Cardinality(T) + (-1)
    BY <2>2
  <2> QED BY <2>2, <2>3, <2>4, <2>10, <2>11, <2>12 DEF d
<1> QED BY <1>3, <1>4 DEF RollupMore
-----------------------------------------------------------------------------
(* Rows taken and rows put in.                                             *)

(* The rows are those that are due, each what a walk would count.          *)
Exact(m, pending) ==
  /\ m.declared \cap m.cached = {}
  /\ Placed(m, m)
  /\ DOMAIN RowsOfMaps(m) = Due(m, Tracked(m) \ pending)
  /\ \A at \in DOMAIN RowsOfMaps(m) : RowsOfMaps(m)[at] = Recomputed(m, at)

SameSums(n, m) == n.declared = m.declared /\ n.cached = m.cached /\ n.dirty = m.dirty

LEMMA CountIs ==
  ASSUME NEW m, IsFiniteSet(DOMAIN m.owned), NEW at
  PROVE  /\ Recomputed(m, at).count \in Nat
         /\ Recomputed(m, at).count > 0 <=> Children(m, at[1], at[2], at[4]) # {}
         /\ Recomputed(m, at).total \in Int
<1> DEFINE S == Children(m, at[1], at[2], at[4])
<1>1. IsFiniteSet(S) /\ Recomputed(m, at) \in Rollup
  BY RollupOfChildren
<1>2. Recomputed(m, at).count = Cardinality(S)
  BY <1>1, RecomputedIs
<1> HIDE DEF S
<1>3. Cardinality(S) \in Nat /\ (Cardinality(S) = 0 <=> S = {})
  BY <1>1, FS_CardinalityType, FS_EmptySet
<1> QED BY <1>1, <1>2, <1>3 DEF S, Rollup

(* The maps n are m with other rows.                                       *)
Swapped(n, m, o, P) ==
  /\ n \in MapsOf(P) /\ n.owned = o /\ SameSums(n, m) /\ Placed(n, n)
  /\ RowsOfMaps(n) = RowsOfMaps(m)

LEMMA OwnedSwap ==
  ASSUME NEW P, NEW m \in MapsOf(P), Placed(m, m), NEW o \in Owneds(P),
         NEW n, n = [m EXCEPT !.owned = o]
  PROVE  Swapped(n, m, o, P)
<1>1. /\ n \in MapsOf(P) /\ n.owned = o /\ SameSums(n, m)
      /\ n.rollups = m.rollups /\ n.lazy = m.lazy
  BY DEF MapsOf, SameSums
<1>2. \A at : InRollups(n, at) <=> InRollups(m, at)
  BY <1>1 DEF InRollups, SameSums
<1>3. Placed(n, n)
  BY <1>1, <1>2 DEF Placed
<1> QED BY <1>1, <1>3 DEF RowsOfMaps, Swapped

LEMMA ContributionAt ==
  ASSUME NEW m, NEW kind \in Kinds, NEW props, DOMAIN props \subseteq Props, NEW at \in Places
  PROVE  at \in Contributions(m, kind, props) <=>
           Holds(at, kind, props) /\ at[2] # at[3] /\ <<at[1], at[3]>> \in Tracked(m)
<1>0. /\ at = <<at[1], at[2], at[3], at[4]>>
      /\ at[1] \in Kinds /\ at[2] \in Props /\ at[3] \in Props /\ at[4] \in Keys
  BY PlaceIs
<1>1. ASSUME at \in Contributions(m, kind, props)
      PROVE  Holds(at, kind, props) /\ at[2] # at[3] /\ <<at[1], at[3]>> \in Tracked(m)
  <2>1. PICK p \in (DOMAIN props) \X LeafSums(m, kind) :
          p[1] # p[2] /\ at = <<kind, p[1], p[2], props[p[1]]>>
    BY <1>1 DEF Contributions
  <2>2. at[1] = kind /\ at[2] = p[1] /\ at[3] = p[2] /\ at[4] = props[p[1]]
    BY <2>1
  <2> QED BY <2>1, <2>2 DEF Holds, LeafSums, Tracked
<1>2. ASSUME Holds(at, kind, props), at[2] # at[3], <<at[1], at[3]>> \in Tracked(m)
      PROVE  at \in Contributions(m, kind, props)
  <2> DEFINE p == <<at[2], at[3]>>
  <2>1. p \in (DOMAIN props) \X LeafSums(m, kind)
    BY <1>0, <1>2 DEF Holds, LeafSums, Tracked
  <2>2. p[1] # p[2] /\ at = <<kind, p[1], p[2], props[p[1]]>>
    BY <1>0, <1>2 DEF Holds
  <2> HIDE DEF p
  <2> QED BY <2>1, <2>2 DEF Contributions
<1> QED BY <1>1, <1>2

(* What the removed leaf leaves: every row but those it was the last child *)
(* of, those of its own key too.                                           *)
Subbed(gone, m, kind, key, props) ==
  /\ SameSums(gone, m) /\ Placed(gone, gone)
  /\ More(gone, m, kind, key, props)
  /\ DOMAIN RowsOfMaps(gone) =
       {at \in Due(m, Tracked(m)) : Children(gone, at[1], at[2], at[4]) # {}}
  /\ \A at \in DOMAIN RowsOfMaps(gone) : RowsOfMaps(gone)[at] = Recomputed(gone, at)

LEMMA SubIs ==
  ASSUME NEW P, PropsOk(P), NEW m \in MapsOf(P), Exact(m, {}),
         NEW kind \in Kinds, NEW key \in Keys, <<kind, key>> \in DOMAIN m.owned,
         NEW props, props = m.owned[<<kind, key>>],
         NEW sub, sub = SubLeafContribution(m, kind, props),
         NEW gone, gone = [sub EXCEPT !.owned = Restrict(@, DOMAIN @ \ {<<kind, key>>})]
  PROVE  gone \in MapsOf(P) /\ Subbed(gone, m, kind, key, props)
<1> DEFINE ats == Contributions(m, kind, props)
           R == RowsOfMaps(m)
           B == BumpEach(R, ats, -1, props)
           o == Restrict(m.owned, DOMAIN m.owned \ {<<kind, key>>})
<1>1. Placed(m, m) /\ m.owned \in Owneds(P) /\ R \in Tables
  BY RecordIs, RowsAre DEF Exact
<1>2. /\ sub \in MapsOf(P) /\ sub.owned = m.owned /\ SameSums(sub, m)
      /\ Placed(sub, sub) /\ RowsOfMaps(sub) = B
  <2>1. sub = Bump(m, ats, -1, props)
    BY DEF SubLeafContribution
  <2>2. BumpedMaps(sub, m, ats, -1, props, P)
    BY <1>1, <2>1, BumpIs
  <2> QED BY <2>2 DEF BumpedMaps, SameSums
<1>3. /\ DOMAIN o = DOMAIN m.owned \ {<<kind, key>>}
      /\ \A id \in DOMAIN o : o[id] = m.owned[id]
      /\ o = [id \in DOMAIN o |-> o[id]]
  BY DEF Restrict
<1>4. gone = [sub EXCEPT !.owned = o]
  BY <1>2
<1> HIDE DEF o
<1>5. o \in Owneds(P)
  <2>1. IsFiniteSet(DOMAIN o)
    BY <1>1, <1>3, OwnedsAre, FS_Subset
  <2> QED BY <1>1, <1>3, <2>1, OwnedsAre
<1>6. /\ gone \in MapsOf(P) /\ gone.owned = o /\ SameSums(gone, sub) /\ Placed(gone, gone)
      /\ RowsOfMaps(gone) = B
  <2>1. sub \in MapsOf(P) /\ Placed(sub, sub)
    BY <1>2
  <2>2. Swapped(gone, sub, o, P)
    BY <1>4, <1>5, <2>1, OwnedSwap
  <2> QED BY <1>2, <2>2 DEF Swapped
<1>7. More(gone, m, kind, key, props)
  BY <1>3, <1>6 DEF More
<1>8. Bumped(B, R, ats, -1, props)
  BY <1>1, BumpEachIs
<1>9. DOMAIN R = Due(m, Tracked(m)) /\ \A at \in DOMAIN R : R[at] = Recomputed(m, at)
  <2>1. Tracked(m) \ {} = Tracked(m)
    OBVIOUS
  <2> QED BY <2>1 DEF Exact
<1>10. IsFiniteSet(DOMAIN gone.owned) /\ IsFiniteSet(DOMAIN m.owned)
  BY <1>6, OwnedFinite
<1>11. ASSUME NEW at \in Places
       PROVE  /\ ChildMore(gone, m, kind, key, props, at)
              /\ RollupMore(gone, m, kind, props, at)
              /\ at \in ats <=> Holds(at, kind, props) /\ at[2] # at[3] /\ <<at[1], at[3]>> \in Tracked(m)
              /\ Recomputed(gone, at).count > 0 <=> Children(gone, at[1], at[2], at[4]) # {}
  <2>1. ChildMore(gone, m, kind, key, props, at)
    BY <1>7, MoreChildren
  <2>2. DOMAIN props \subseteq Props
    BY <1>1, OwnedsAre DEF PropsOk
  <2>3. at \in ats <=> Holds(at, kind, props) /\ at[2] # at[3] /\ <<at[1], at[3]>> \in Tracked(m)
    BY <2>2, ContributionAt
  <2>4. Recomputed(gone, at).count > 0 <=> Children(gone, at[1], at[2], at[4]) # {}
    BY <1>10, CountIs
  <2>5. RollupMore(gone, m, kind, props, at)
    BY <1>7, <1>10, MoreRollup
  <2> QED BY <2>1, <2>3, <2>4, <2>5
<1>12. DOMAIN B \subseteq Places /\ Due(m, Tracked(m)) \subseteq Places
  BY <1>8, TablesAre DEF Bumped, Due
<1> HIDE DEF ats, R, B
<1>13. ASSUME NEW at \in Places
       PROVE  at \in DOMAIN B <=>
                at \in Due(m, Tracked(m)) /\ Children(gone, at[1], at[2], at[4]) # {}
  <2>1. CASE at \in ats /\ at \in DOMAIN R
    <3>1. Was(R, at) = Recomputed(m, at)
      BY <1>9, <2>1 DEF Was
    <3>2. at \in DOMAIN B <=> Recomputed(m, at).count + (-1) > 0
      BY <1>8, <2>1, <3>1 DEF Bumped
    <3>3. Recomputed(gone, at).count = Recomputed(m, at).count + (-1)
      <4>1. Recomputed(m, at).count \in Nat
        BY <1>10, CountIs
      <4>2. RollupMore(gone, m, kind, props, at) /\ Holds(at, kind, props)
        BY <1>11, <2>1
      <4> QED BY <4>1, <4>2 DEF RollupMore
    <3> QED BY <1>9, <1>11, <2>1, <3>2, <3>3
  <2>2. CASE at \in ats /\ at \notin DOMAIN R
    <3>1. Was(R, at).count = 0
      BY <2>2 DEF Was
    <3>2. at \notin DOMAIN B
      BY <1>8, <2>2, <3>1 DEF Bumped
    <3> QED BY <1>9, <2>2, <3>2
  <2>3. CASE at \notin ats
    <3>1. at \in DOMAIN B <=> at \in DOMAIN R
      BY <1>8, <2>3 DEF Bumped
    <3>2. ASSUME at \in Due(m, Tracked(m)) PROVE Children(gone, at[1], at[2], at[4]) # {}
      <4>1. ~Holds(at, kind, props) /\ Children(m, at[1], at[2], at[4]) # {}
        BY <1>11, <2>3, <3>2 DEF Due
      <4> QED BY <1>11, <4>1 DEF ChildMore
    <3> QED BY <1>9, <3>1, <3>2
  <2> QED BY <2>1, <2>2, <2>3
<1>14. ASSUME NEW at \in DOMAIN B PROVE B[at] = Recomputed(gone, at)
  <2>1. at \in Places /\ at \in DOMAIN R /\ R[at] = Recomputed(m, at)
    BY <1>9, <1>12, <1>13
  <2>2. CASE at \in ats
    <3>1. Was(R, at) = Recomputed(m, at)
      BY <2>1 DEF Was
    <3>2. B[at] = [count |-> Recomputed(m, at).count + (-1),
                   total |-> Wrap(Recomputed(m, at).total + (-1) * Amount(props, at[3]))]
      BY <1>8, <2>2, <3>1 DEF Bumped
    <3> QED BY <1>11, <2>1, <2>2, <3>2 DEF RollupMore
  <2>3. CASE at \notin ats
    <3>1. B[at] = R[at]
      BY <1>8, <2>3 DEF Bumped
    <3>2. ~Holds(at, kind, props)
      BY <1>9, <1>11, <2>1, <2>3 DEF Due
    <3> QED BY <1>11, <2>1, <3>1, <3>2 DEF RollupMore
  <2> QED BY <2>2, <2>3
<1>15. DOMAIN B = {at \in Due(m, Tracked(m)) : Children(gone, at[1], at[2], at[4]) # {}}
  BY <1>12, <1>13
<1>16. SameSums(gone, m)
  BY <1>2, <1>6 DEF SameSums
<1> QED BY <1>6, <1>7, <1>14, <1>15, <1>16 DEF Subbed
(* Nothing but the rows counts.                                            *)
LEMMA OwnedOnly ==
  ASSUME NEW m, NEW n, n.owned = m.owned, IsFiniteSet(DOMAIN m.owned)
  PROVE  /\ \A pairs : Due(n, pairs) = Due(m, pairs)
         /\ \A at : Recomputed(n, at) = Recomputed(m, at)
<1>1. \A at : Children(n, at[1], at[2], at[4]) = Children(m, at[1], at[2], at[4])
  BY DEF Children, VisibleKeys
<1>2. \A at : Recomputed(n, at) = Recomputed(m, at)
  BY <1>1, SameRollup
<1>3. \A k : KeyIsVisible(n, k) <=> KeyIsVisible(m, k)
  BY DEF KeyIsVisible
<1>4. ASSUME NEW pairs PROVE Due(n, pairs) = Due(m, pairs)
  BY <1>1, <1>3 DEF Due
<1> QED BY <1>2, <1>4

LEMMA EmptyRollup ==
  ASSUME NEW m, NEW at, Children(m, at[1], at[2], at[4]) = {}
  PROVE  Recomputed(m, at) = [count |-> 0, total |-> 0]
<1> DEFINE S == Children(m, at[1], at[2], at[4])
           x == SetSum(AmountsOf(m, at, S), S)
<1>1. IsFiniteSet(S) /\ Cardinality(S) = 0
  BY FS_EmptySet
<1>2. Recomputed(m, at) = [count |-> Cardinality(S), total |-> Wrap(x)]
  BY <1>1, RecomputedIs
<1>3. x = 0
  BY SetSumEmpty
<1>4. Wrap(0) = 0
  <2>1. 0 \in Int
    OBVIOUS
  <2> QED BY <2>1, WrapIs
<1> HIDE DEF S, x
<1> QED BY <1>1, <1>2, <1>3, <1>4

(* A row is gone and nothing else.                                         *)
Removed(n, m, kind, key, P) ==
  /\ n \in MapsOf(P) /\ SameSums(n, m) /\ Exact(n, {})
  /\ DOMAIN n.owned = DOMAIN m.owned \ {<<kind, key>>}
  /\ \A id \in DOMAIN n.owned : n.owned[id] = m.owned[id]

LEMMA RemoveIs ==
  ASSUME NEW P, PropsOk(P), NEW m \in MapsOf(P), Exact(m, {}),
         NEW kind \in Kinds, NEW key \in Keys
  PROVE  Removed(RemoveRow(m, kind, key), m, kind, key, P)
<1>1. CASE <<kind, key>> \notin DOMAIN m.owned
  <2>1. RemoveRow(m, kind, key) = m
    BY <1>1 DEF RemoveRow
  <2> QED BY <1>1, <2>1 DEF Removed, SameSums
<1>2. CASE <<kind, key>> \in DOMAIN m.owned
  <2> DEFINE props == m.owned[<<kind, key>>]
             sub == SubLeafContribution(m, kind, props)
             gone == [sub EXCEPT !.owned = Restrict(@, DOMAIN @ \ {<<kind, key>>})]
             T == Tracked(m)
             n == RemoveRow(m, kind, key)
  <2>1. n = IF KeyIsVisible(gone, key) THEN RestoreParentRollups(gone, key)
            ELSE DropParentRollups(gone, key)
    BY <1>2 DEF RemoveRow
  <2>2. gone \in MapsOf(P) /\ Subbed(gone, m, kind, key, props)
    BY <1>2, SubIs
  <2> HIDE DEF gone, n, sub, props
  <2>3. /\ SameSums(gone, m) /\ Placed(gone, gone) /\ More(gone, m, kind, key, props)
        /\ IsFiniteSet(DOMAIN gone.owned)
    BY <2>2, OwnedFinite DEF Subbed
  <2>4. /\ DOMAIN RowsOfMaps(gone) = {at \in Due(m, T) : Children(gone, at[1], at[2], at[4]) # {}}
        /\ \A at \in DOMAIN RowsOfMaps(gone) : RowsOfMaps(gone)[at] = Recomputed(gone, at)
    BY <2>2 DEF Subbed
  <2>5. ASSUME NEW at \in Places
        PROVE  /\ KeyIsVisible(m, at[4]) <=> KeyIsVisible(gone, at[4]) \/ at[4] = key
               /\ Children(gone, at[1], at[2], at[4]) # {} => Children(m, at[1], at[2], at[4]) # {}
    <3>1. KeyIsVisible(m, at[4]) <=> KeyIsVisible(gone, at[4]) \/ at[4] = key
      BY <2>3, MoreVisible
    <3>2. ChildMore(gone, m, kind, key, props, at)
      BY <2>3, MoreChildren
    <3> QED BY <3>1, <3>2 DEF ChildMore
  <2>6. Tracked(gone) = T
    BY <2>3 DEF SameSums, Tracked
  <2>7. /\ DOMAIN m.owned \ {<<kind, key>>} = DOMAIN gone.owned
        /\ \A id \in DOMAIN gone.owned : gone.owned[id] = m.owned[id]
    BY <2>3 DEF More
  <2>8. Due(gone, T) \subseteq Places /\ Due(m, T) \subseteq Places /\ Live(gone, key) \subseteq Places
    BY DEF Due, Live
  <2> HIDE DEF T
  <2>9. ASSUME n \in MapsOf(P), n.owned = gone.owned, SameSums(n, gone), Placed(n, n),
               DOMAIN RowsOfMaps(n) = Due(gone, T),
               \A at \in DOMAIN RowsOfMaps(n) : RowsOfMaps(n)[at] = Recomputed(gone, at)
        PROVE  Removed(n, m, kind, key, P)
    <3>1. SameSums(n, m)
      BY <2>3, <2>9 DEF SameSums
    <3>2. Tracked(n) = T
      BY <2>6, <2>9 DEF SameSums, Tracked
    <3>3. Due(n, Tracked(n) \ {}) = Due(gone, T) /\ \A at : Recomputed(n, at) = Recomputed(gone, at)
      BY <2>3, <2>9, <3>2, OwnedOnly
    <3>4. n.declared \cap n.cached = {}
      BY <3>1 DEF SameSums, Exact
    <3>5. Exact(n, {})
      BY <2>9, <3>3, <3>4 DEF Exact
    <3> QED BY <2>7, <2>9, <3>1, <3>5 DEF Removed
  <2>10. CASE KeyIsVisible(gone, key)
    <3>1. n = RestoreParentRollups(gone, key)
      BY <2>1, <2>10
    <3>2. /\ n \in MapsOf(P) /\ n.owned = gone.owned /\ SameSums(n, gone) /\ Placed(n, n)
          /\ DOMAIN RowsOfMaps(n) = Live(gone, key) \cup DOMAIN RowsOfMaps(gone)
          /\ \A at \in DOMAIN RowsOfMaps(n) :
               RowsOfMaps(n)[at] =
                 IF at \in Live(gone, key) THEN Recomputed(gone, at) ELSE RowsOfMaps(gone)[at]
      <4>1. Restored(n, gone, key, P)
        BY <2>2, <2>3, <3>1, RestoreIs
      <4> QED BY <4>1 DEF Restored, SameSums
    <3>3. ASSUME NEW at \in Places
          PROVE  at \in Live(gone, key) \cup DOMAIN RowsOfMaps(gone) <=> at \in Due(gone, T)
      <4>1. at \in Live(gone, key) => at \in Due(gone, T)
        BY <2>6, <2>10 DEF Live, Due
      <4>2. at \in DOMAIN RowsOfMaps(gone) => at \in Due(gone, T)
        <5> HAVE at \in DOMAIN RowsOfMaps(gone)
        <5>1. at \in Due(m, T) /\ Children(gone, at[1], at[2], at[4]) # {}
          BY <2>4
        <5>2. KeyIsVisible(gone, at[4])
          BY <2>5, <2>10, <5>1 DEF Due
        <5> QED BY <5>1, <5>2 DEF Due
      <4>3. at \in Due(gone, T) => at \in DOMAIN RowsOfMaps(gone)
        <5> HAVE at \in Due(gone, T)
        <5>1. at \in Due(m, T)
          BY <2>5 DEF Due
        <5> QED BY <2>4, <5>1 DEF Due
      <4> QED BY <4>1, <4>2, <4>3
    <3>4. DOMAIN RowsOfMaps(n) = Due(gone, T)
      BY <2>4, <2>8, <3>2, <3>3
    <3>5. \A at \in DOMAIN RowsOfMaps(n) : RowsOfMaps(n)[at] = Recomputed(gone, at)
      BY <2>4, <3>2
    <3> QED BY <2>9, <3>2, <3>4, <3>5 DEF n
  <2>11. CASE ~KeyIsVisible(gone, key)
    <3>1. n = DropParentRollups(gone, key)
      BY <2>1, <2>11
    <3>2. /\ n \in MapsOf(P) /\ n.owned = gone.owned /\ SameSums(n, gone) /\ Placed(n, n)
          /\ DOMAIN RowsOfMaps(n) = {at \in DOMAIN RowsOfMaps(gone) : at[4] # key}
          /\ \A at \in DOMAIN RowsOfMaps(n) : RowsOfMaps(n)[at] = RowsOfMaps(gone)[at]
      <4>1. Dropped(n, gone, key, P)
        BY <2>2, <2>3, <3>1, DropIs
      <4> QED BY <4>1 DEF Dropped, SameSums
    <3>3. ASSUME NEW at \in Places
          PROVE  at \in DOMAIN RowsOfMaps(gone) /\ at[4] # key <=> at \in Due(gone, T)
      <4>1. at \in DOMAIN RowsOfMaps(gone) /\ at[4] # key => at \in Due(gone, T)
        <5> HAVE at \in DOMAIN RowsOfMaps(gone) /\ at[4] # key
        <5>1. at \in Due(m, T) /\ Children(gone, at[1], at[2], at[4]) # {}
          BY <2>4
        <5>2. KeyIsVisible(gone, at[4])
          BY <2>5, <5>1 DEF Due
        <5> QED BY <5>1, <5>2 DEF Due
      <4>2. at \in Due(gone, T) => at \in DOMAIN RowsOfMaps(gone) /\ at[4] # key
        <5> HAVE at \in Due(gone, T)
        <5>1. at \in Due(m, T) /\ at[4] # key
          BY <2>5, <2>11 DEF Due
        <5> QED BY <2>4, <5>1 DEF Due
      <4> QED BY <4>1, <4>2
    <3>4. DOMAIN RowsOfMaps(n) = Due(gone, T)
      BY <2>4, <2>8, <3>2, <3>3
    <3>5. \A at \in DOMAIN RowsOfMaps(n) : RowsOfMaps(n)[at] = Recomputed(gone, at)
      BY <2>4, <3>2
    <3> QED BY <2>9, <3>2, <3>4, <3>5 DEF n
  <2> QED BY <2>10, <2>11 DEF n
<1> QED BY <1>1, <1>2
(* What the leaf that comes in adds, to the rows of other keys exactly.    *)
Added(added, owned, key, P) ==
  /\ added \in MapsOf(P) /\ added.owned = owned.owned /\ SameSums(added, owned)
  /\ Placed(added, added)
  /\ DOMAIN RowsOfMaps(added) \subseteq Due(owned, Tracked(owned))
  /\ \A at \in Due(owned, Tracked(owned)) : at[4] # key =>
       at \in DOMAIN RowsOfMaps(added) /\ RowsOfMaps(added)[at] = Recomputed(owned, at)

LEMMA AddIs ==
  ASSUME NEW P, PropsOk(P), NEW m \in MapsOf(P), Exact(m, {}),
         NEW kind \in Kinds, NEW key \in Keys, NEW props \in P,
         NEW owned, Swapped(owned, m, owned.owned, P), More(m, owned, kind, key, props)
  PROVE  Added(AddLeafContribution(owned, kind, key), owned, key, P)
<1> DEFINE added == AddLeafContribution(owned, kind, key)
           ats == {at \in Contributions(owned, kind, props) : KeyIsVisible(owned, at[4])}
           R == RowsOfMaps(m)
           B == BumpEach(R, ats, 1, props)
           T == Tracked(owned)
<1>1. /\ owned \in MapsOf(P) /\ SameSums(owned, m) /\ Placed(owned, owned)
      /\ RowsOfMaps(owned) = R /\ Placed(m, m) /\ R \in Tables
  BY RowsAre DEF Swapped, Exact
<1>2. DOMAIN props \subseteq Props
  BY DEF PropsOk
<1>3. ats \subseteq Places
  <2> SUFFICES ASSUME NEW at \in ats PROVE at \in Places
    OBVIOUS
  <2>1. PICK p \in (DOMAIN props) \X LeafSums(owned, kind) :
          p[1] # p[2] /\ at = <<kind, p[1], p[2], props[p[1]]>>
    BY DEF Contributions
  <2>2. at[4] = props[p[1]] /\ KeyIsVisible(owned, at[4])
    BY <2>1
  <2>3. props[p[1]] \in Keys
    BY <1>1, <2>2, RecordIs, OwnedsAre DEF KeyIsVisible
  <2> QED BY <1>2, <2>1, <2>3 DEF Places, LeafSums
<1>4. added = Bump(owned, ats, 1, props)
  BY DEF AddLeafContribution, More
<1> HIDE DEF added, ats
<1>5. /\ added \in MapsOf(P) /\ added.owned = owned.owned /\ SameSums(added, owned)
      /\ Placed(added, added) /\ RowsOfMaps(added) = B
  <2>1. BumpedMaps(added, owned, ats, 1, props, P)
    BY <1>1, <1>3, <1>4, BumpIs
  <2> QED BY <1>1, <2>1 DEF BumpedMaps, SameSums
<1>6. Bumped(B, R, ats, 1, props)
  BY <1>1, <1>3, BumpEachIs
<1>7. /\ DOMAIN R = Due(m, T) /\ \A at \in DOMAIN R : R[at] = Recomputed(m, at)
  <2>1. Tracked(m) \ {} = T
    BY <1>1 DEF SameSums, Tracked
  <2> QED BY <2>1 DEF Exact
<1>8. IsFiniteSet(DOMAIN owned.owned) /\ IsFiniteSet(DOMAIN m.owned)
  BY <1>1, OwnedFinite
<1>9. ASSUME NEW at \in Places
      PROVE  /\ ChildMore(m, owned, kind, key, props, at)
             /\ RollupMore(m, owned, kind, props, at)
             /\ KeyIsVisible(owned, at[4]) <=> KeyIsVisible(m, at[4]) \/ at[4] = key
             /\ at \in ats <=>
                  Holds(at, kind, props) /\ at[2] # at[3] /\ <<at[1], at[3]>> \in T
                  /\ KeyIsVisible(owned, at[4])
  <2>1. ChildMore(m, owned, kind, key, props, at)
    BY MoreChildren
  <2>2. RollupMore(m, owned, kind, props, at)
    BY <1>8, MoreRollup
  <2>3. KeyIsVisible(owned, at[4]) <=> KeyIsVisible(m, at[4]) \/ at[4] = key
    BY MoreVisible
  <2>4. at \in Contributions(owned, kind, props) <=>
          Holds(at, kind, props) /\ at[2] # at[3] /\ <<at[1], at[3]>> \in T
    BY <1>2, ContributionAt
  <2> QED BY <2>1, <2>2, <2>3, <2>4 DEF ats
<1>10. DOMAIN B \subseteq Places /\ Due(owned, T) \subseteq Places
  BY <1>6, TablesAre DEF Bumped, Due
<1> HIDE DEF R, B, T
<1>11. ASSUME NEW at \in Places, at \in DOMAIN B PROVE at \in Due(owned, T)
  <2>1. CASE at \in ats
    <3>1. Children(owned, at[1], at[2], at[4]) # {}
      BY <1>9, <2>1 DEF ChildMore
    <3> QED BY <1>9, <2>1, <3>1 DEF Due
  <2>2. CASE at \notin ats
    <3>1. at \in Due(m, T)
      BY <1>6, <1>7, <1>11, <2>2 DEF Bumped
    <3>2. Children(owned, at[1], at[2], at[4]) # {} /\ KeyIsVisible(owned, at[4])
      BY <1>9, <3>1 DEF ChildMore, Due
    <3> QED BY <3>1, <3>2 DEF Due
  <2> QED BY <2>1, <2>2
<1>12. ASSUME NEW at \in Due(owned, T), at[4] # key
       PROVE  at \in DOMAIN B /\ B[at] = Recomputed(owned, at)
  <2>0. at \in Places
    BY <1>10
  <2>1. KeyIsVisible(m, at[4]) /\ KeyIsVisible(owned, at[4])
    BY <1>9, <1>12, <2>0 DEF Due
  <2>2. CASE Holds(at, kind, props)
    <3>1. at \in ats
      BY <1>9, <2>0, <2>1, <2>2 DEF Due
    <3>2. Was(R, at) = Recomputed(m, at)
      <4>1. CASE at \in DOMAIN R
        BY <1>7, <4>1 DEF Was
      <4>2. CASE at \notin DOMAIN R
        <5>1. Children(m, at[1], at[2], at[4]) = {}
          BY <1>7, <2>1, <4>2 DEF Due
        <5>2. Recomputed(m, at) = [count |-> 0, total |-> 0]
          BY <5>1, EmptyRollup
        <5> QED BY <4>2, <5>2 DEF Was
      <4> QED BY <4>1, <4>2
    <3>3. Recomputed(m, at).count + 1 > 0
      <4>1. Recomputed(m, at).count \in Nat
        BY <1>8, CountIs
      <4> QED BY <4>1
    <3>4. at \in DOMAIN B
      BY <1>6, <3>1, <3>2, <3>3 DEF Bumped
    <3>5. B[at] = [count |-> Recomputed(m, at).count + 1,
                   total |-> Wrap(Recomputed(m, at).total + 1 * Amount(props, at[3]))]
      BY <1>6, <3>1, <3>2, <3>4 DEF Bumped
    <3> QED BY <1>9, <2>0, <2>2, <3>4, <3>5 DEF RollupMore
  <2>3. CASE ~Holds(at, kind, props)
    <3>1. at \notin ats /\ at \in Due(m, T) /\ Recomputed(owned, at) = Recomputed(m, at)
      BY <1>9, <2>0, <2>1, <2>3 DEF Due, ChildMore, RollupMore
    <3> QED BY <1>6, <1>7, <3>1 DEF Bumped
  <2> QED BY <2>2, <2>3
<1>13. DOMAIN B \subseteq Due(owned, T)
  BY <1>10, <1>11
<1> QED BY <1>5, <1>12, <1>13 DEF Added, added, T

LEMMA InsertIs ==
  ASSUME NEW P, PropsOk(P), NEW m \in MapsOf(P), Exact(m, {}),
         NEW kind \in Kinds, NEW key \in Keys, NEW props \in P
  PROVE  LET n == InsertVisible(m, kind, key, props) IN
         n \in MapsOf(P) /\ SameSums(n, m) /\ Exact(n, {})
<1> DEFINE removed == RemoveRow(m, kind, key)
           o == Over([id \in {<<kind, key>>} |-> props], removed.owned)
           owned == [removed EXCEPT !.owned = o]
           added == AddLeafContribution(owned, kind, key)
           n == RestoreParentRollups(added, key)
           T == Tracked(owned)
<1>1. InsertVisible(m, kind, key, props) = n
  BY DEF InsertVisible
<1>2. /\ removed \in MapsOf(P) /\ SameSums(removed, m) /\ Exact(removed, {})
      /\ <<kind, key>> \notin DOMAIN removed.owned
  <2>1. Removed(removed, m, kind, key, P)
    BY RemoveIs
  <2> QED BY <2>1 DEF Removed
<1> HIDE DEF removed, added, n
<1>3. /\ DOMAIN o = DOMAIN removed.owned \cup {<<kind, key>>} /\ o[<<kind, key>>] = props
      /\ \A id \in DOMAIN removed.owned : o[id] = removed.owned[id]
      /\ o = [id \in DOMAIN o |-> o[id]]
  <2> DEFINE w == removed.owned
  <2>1. <<kind, key>> \notin DOMAIN w
    BY <1>2
  <2> HIDE DEF w
  <2> QED BY <2>1 DEF Over, w
<1> HIDE DEF o
<1>4. o \in Owneds(P)
  <2>1. removed.owned \in Owneds(P)
    BY <1>2, RecordIs
  <2>2. IsFiniteSet(DOMAIN o)
    BY <1>3, <2>1, OwnedsAre, FS_AddElement
  <2> QED BY <1>3, <2>1, <2>2, OwnedsAre
<1>5. Placed(removed, removed)
  BY <1>2 DEF Exact
<1>6. Swapped(owned, removed, o, P)
  BY <1>2, <1>4, <1>5, OwnedSwap
<1> HIDE DEF owned
<1>7. owned.owned = o /\ owned \in MapsOf(P) /\ SameSums(owned, removed)
  BY <1>6 DEF Swapped
<1>8. More(removed, owned, kind, key, props)
  BY <1>2, <1>3, <1>7 DEF More
<1>9. Added(added, owned, key, P)
  BY <1>2, <1>6, <1>7, <1>8, AddIs DEF added
<1>10. added \in MapsOf(P) /\ added.owned = owned.owned /\ SameSums(added, owned) /\ Placed(added, added)
  BY <1>9 DEF Added
<1>11. Restored(n, added, key, P)
  BY <1>10, RestoreIs DEF n
<1>12. /\ n \in MapsOf(P) /\ n.owned = owned.owned /\ SameSums(n, added) /\ Placed(n, n)
       /\ DOMAIN RowsOfMaps(n) = Live(added, key) \cup DOMAIN RowsOfMaps(added)
       /\ \A at \in DOMAIN RowsOfMaps(n) :
            RowsOfMaps(n)[at] =
              IF at \in Live(added, key) THEN Recomputed(added, at) ELSE RowsOfMaps(added)[at]
  BY <1>10, <1>11 DEF Restored, SameSums
<1>13. SameSums(n, m) /\ Tracked(n) \ {} = T /\ Tracked(added) = T
  BY <1>2, <1>7, <1>10, <1>12 DEF SameSums, Tracked
<1>14. /\ \A pairs : Due(n, pairs) = Due(owned, pairs) /\ Due(added, pairs) = Due(owned, pairs)
       /\ \A at : Recomputed(n, at) = Recomputed(owned, at) /\ Recomputed(added, at) = Recomputed(owned, at)
  <2>1. IsFiniteSet(DOMAIN owned.owned)
    BY <1>7, OwnedFinite
  <2>2. /\ \A pairs : Due(n, pairs) = Due(owned, pairs)
        /\ \A at : Recomputed(n, at) = Recomputed(owned, at)
    BY <1>12, <2>1, OwnedOnly
  <2>3. /\ \A pairs : Due(added, pairs) = Due(owned, pairs)
        /\ \A at : Recomputed(added, at) = Recomputed(owned, at)
    BY <1>10, <2>1, OwnedOnly
  <2> QED BY <2>2, <2>3
<1>15. Live(added, key) = {at \in Due(owned, T) : at[4] = key}
  <2>1. KeyIsVisible(added, key)
    BY <1>8, <1>10 DEF KeyIsVisible, More
  <2>2. Live(added, key) = {at \in Due(added, T) : at[4] = key}
    BY <1>13, <2>1 DEF Live, Due
  <2> QED BY <1>14, <2>2
<1>16. /\ DOMAIN RowsOfMaps(added) \subseteq Due(owned, T)
       /\ \A at \in Due(owned, T) : at[4] # key =>
            at \in DOMAIN RowsOfMaps(added) /\ RowsOfMaps(added)[at] = Recomputed(owned, at)
  BY <1>9 DEF Added
<1> HIDE DEF T
<1>17. DOMAIN RowsOfMaps(n) = Due(owned, T)
  BY <1>12, <1>15, <1>16
<1>18. \A at \in DOMAIN RowsOfMaps(n) : RowsOfMaps(n)[at] = Recomputed(owned, at)
  BY <1>12, <1>14, <1>15, <1>16, <1>17
<1>19. n.declared \cap n.cached = {}
  <2>1. removed.declared \cap removed.cached = {}
    BY <1>2 DEF Exact
  <2> QED BY <2>1, <1>7, <1>10, <1>12 DEF SameSums
<1>20. Exact(n, {})
  BY <1>12, <1>13, <1>14, <1>17, <1>18, <1>19 DEF Exact
<1> QED BY <1>1, <1>12, <1>13, <1>20
-----------------------------------------------------------------------------
(* Descriptors.                                                            *)

(* The rows of every kind but one are those that are due.                  *)
ExactBeside(a, leaf) ==
  /\ a.declared \cap a.cached = {}
  /\ \A at \in DOMAIN a.lazy : at[1] # leaf => ~InRollups(a, at) /\ a.lazy[at] = Recomputed(a, at)
  /\ \A at \in DOMAIN a.rollups : at[1] # leaf => a.rollups[at] = Recomputed(a, at)
  /\ \A at \in Places : at[1] # leaf =>
       (at \in DOMAIN a.rollups \cup DOMAIN a.lazy <=> at \in Due(a, Tracked(a)))

Rebuilt(n, a, P) ==
  n \in MapsOf(P) /\ n.owned = a.owned /\ SameSums(n, a) /\ Exact(n, {})

LEMMA WithoutRowsIs ==
  ASSUME NEW rows \in Tables, NEW ats
  PROVE  /\ DOMAIN WithoutRows(rows, ats) = DOMAIN rows \ ats
         /\ \A at \in DOMAIN WithoutRows(rows, ats) : WithoutRows(rows, ats)[at] = rows[at]
         /\ WithoutRows(rows, ats) \in Tables
<1> DEFINE w == WithoutRows(rows, ats)
<1>1. /\ DOMAIN w = DOMAIN rows \ ats /\ \A at \in DOMAIN w : w[at] = rows[at]
      /\ w = [at \in DOMAIN w |-> w[at]]
  BY DEF WithoutRows, Restrict
<1> HIDE DEF w
<1>2. w \in Tables
  BY <1>1, TablesAre
<1> QED BY <1>1, <1>2 DEF w

LEMMA RowsOfLeaf ==
  ASSUME NEW rows \in Tables, NEW leaf
  PROVE  DOMAIN rows \ RowsOf(rows, leaf, Props) = {at \in DOMAIN rows : at[1] # leaf}
<1>1. \A at \in DOMAIN rows : at[3] \in Props
  BY TablesAre, PlaceIs
<1> QED BY <1>1 DEF RowsOf

(* The rows a full build of a kind makes.                                  *)
LEMMA FullAre ==
  ASSUME NEW P, NEW m \in MapsOf(P), NEW leaf \in Kinds
  PROVE  UNION {FullAts(m, leaf, sum) : sum \in LeafSums(m, leaf)} =
           {at \in Due(m, Tracked(m)) : at[1] = leaf}
<1> DEFINE ats == UNION {FullAts(m, leaf, sum) : sum \in LeafSums(m, leaf)}
<1>1. ASSUME NEW at \in ats PROVE at \in Due(m, Tracked(m)) /\ at[1] = leaf
  <2>1. PICK sum \in LeafSums(m, leaf) : at \in FullAts(m, leaf, sum)
    OBVIOUS
  <2>2. sum \in Props /\ <<leaf, sum>> \in Tracked(m)
    BY DEF LeafSums, Tracked
  <2>3. at \in {leaf} \X (Props \ {sum}) \X {sum} \X Keys
    BY <2>1 DEF FullAts
  <2>4. at \in Places /\ at[1] = leaf /\ at[3] = sum /\ at[2] # sum
    BY <2>2, <2>3 DEF Places
  <2>5. KeyIsVisible(m, at[4]) /\ Children(m, leaf, at[2], at[4]) # {}
    BY <2>1 DEF FullAts
  <2> QED BY <2>2, <2>4, <2>5 DEF Due
<1>2. ASSUME NEW at \in Due(m, Tracked(m)), at[1] = leaf PROVE at \in ats
  <2>1. /\ at = <<at[1], at[2], at[3], at[4]>>
        /\ at[1] \in Kinds /\ at[2] \in Props /\ at[3] \in Props /\ at[4] \in Keys
    BY PlaceIs DEF Due
  <2>2. at[3] \in LeafSums(m, leaf)
    BY <1>2, <2>1 DEF Due, LeafSums, Tracked
  <2>3. at \in {leaf} \X (Props \ {at[3]}) \X {at[3]} \X Keys
    <3>1. at[2] # at[3]
      BY DEF Due
    <3> QED BY <1>2, <2>1, <3>1
  <2>4. at \in FullAts(m, leaf, at[3])
    BY <1>2, <2>3 DEF FullAts, Due
  <2> QED BY <2>2, <2>4
<1> HIDE DEF ats
<1>3. ats = {at \in Due(m, Tracked(m)) : at[1] = leaf}
  BY <1>1, <1>2
<1> QED BY <1>3 DEF ats

LEMMA RebuildIs ==
  ASSUME NEW P, NEW a \in MapsOf(P), NEW leaf \in Kinds, ExactBeside(a, leaf)
  PROVE  Rebuilt(RebuildLeafRollups(a, leaf), a, P)
<1> DEFINE T == Tracked(a)
           ats == {at \in Due(a, T) : at[1] = leaf}
           w == WithoutRows(a.rollups, RowsOf(a.rollups, leaf, Props))
           l == WithoutRows(a.lazy, RowsOf(a.lazy, leaf, Props))
           r == Over([at \in ats |-> Recomputed(a, at)], w)
           n == RebuildLeafRollups(a, leaf)
<1>1. n = [a EXCEPT !.rollups = r, !.lazy = l]
  BY FullAre DEF RebuildLeafRollups
<1> HIDE DEF n
<1>2. a.rollups \in Tables /\ a.lazy \in Tables /\ IsFiniteSet(DOMAIN a.owned)
  BY RecordIs, OwnedFinite
<1>3. /\ DOMAIN w = {at \in DOMAIN a.rollups : at[1] # leaf} /\ w \in Tables
      /\ \A at \in DOMAIN w : w[at] = a.rollups[at]
  <2>1. DOMAIN a.rollups \ RowsOf(a.rollups, leaf, Props) = {at \in DOMAIN a.rollups : at[1] # leaf}
    BY <1>2, RowsOfLeaf
  <2> QED BY <1>2, <2>1, WithoutRowsIs
<1>4. /\ DOMAIN l = {at \in DOMAIN a.lazy : at[1] # leaf} /\ l \in Tables
      /\ \A at \in DOMAIN l : l[at] = a.lazy[at]
  <2>1. DOMAIN a.lazy \ RowsOf(a.lazy, leaf, Props) = {at \in DOMAIN a.lazy : at[1] # leaf}
    BY <1>2, RowsOfLeaf
  <2> QED BY <1>2, <2>1, WithoutRowsIs
<1>5. ats \subseteq Places /\ Due(a, T) \subseteq Places
  BY DEF Due
<1>6. \A at : Recomputed(a, at) \in Rollup
  BY <1>2, RollupOfChildren
<1> HIDE DEF w, l
<1>7. /\ DOMAIN r = ats \cup DOMAIN w /\ r = [at \in DOMAIN r |-> r[at]]
      /\ \A at \in DOMAIN r : r[at] = IF at \in ats THEN Recomputed(a, at) ELSE w[at]
  BY DEF Over
<1> HIDE DEF r
<1>8. r \in Tables
  BY <1>3, <1>5, <1>6, <1>7, TablesAre
<1>9. /\ n \in MapsOf(P) /\ n.owned = a.owned /\ SameSums(n, a) /\ n.rollups = r /\ n.lazy = l
  BY <1>1, <1>4, <1>8 DEF MapsOf, SameSums
<1>10. Placed(n, n)
  <2>1. ASSUME NEW at \in DOMAIN r PROVE InRollups(n, at)
    <3>1. SameTable(at, at)
      BY SameTableIs
    <3> QED BY <1>9, <3>1 DEF InRollups, HasTable
  <2>2. ASSUME NEW at \in DOMAIN l, InRollups(n, at) PROVE FALSE
    <3>1. at \in DOMAIN a.lazy /\ at[1] # leaf /\ ~InRollups(a, at)
      BY <1>4 DEF ExactBeside
    <3>2. <<at[1], at[3]>> \notin n.declared
      BY <1>9, <3>1 DEF InRollups, SameSums
    <3>3. PICK b \in DOMAIN r : SameTable(b, at)
      BY <1>9, <2>2, <3>2 DEF InRollups, HasTable
    <3>4. b[1] # leaf
      BY <3>1, <3>3, SameTableIs
    <3>5. b \in DOMAIN a.rollups
      BY <1>3, <1>7, <3>4
    <3> QED BY <3>1, <3>3, <3>5 DEF InRollups, HasTable
  <2> QED BY <1>9, <2>1, <2>2 DEF Placed
<1>11. /\ DOMAIN RowsOfMaps(n) = DOMAIN r \cup DOMAIN l
       /\ \A at \in DOMAIN r : RowsOfMaps(n)[at] = r[at]
       /\ \A at \in DOMAIN l : RowsOfMaps(n)[at] = l[at]
  BY <1>9, <1>10, RowsAre
<1>12. /\ Due(n, Tracked(n) \ {}) = Due(a, T)
       /\ \A at : Recomputed(n, at) = Recomputed(a, at)
  <2>1. Tracked(n) \ {} = T
    BY <1>9 DEF SameSums, Tracked
  <2> QED BY <1>2, <1>9, <2>1, OwnedOnly
<1> HIDE DEF T
<1>13. DOMAIN RowsOfMaps(n) = Due(a, T)
  <2>1. ASSUME NEW at \in Places PROVE at \in DOMAIN r \cup DOMAIN l <=> at \in Due(a, T)
    <3>1. CASE at[1] = leaf
      BY <1>3, <1>4, <1>7, <3>1
    <3>2. CASE at[1] # leaf
      BY <1>3, <1>4, <1>7, <3>2 DEF ExactBeside, T
    <3> QED BY <3>1, <3>2
  <2>2. DOMAIN r \cup DOMAIN l \subseteq Places
    BY <1>4, <1>8, TablesAre
  <2> QED BY <1>5, <1>11, <2>1, <2>2
<1>14. \A at \in DOMAIN RowsOfMaps(n) : RowsOfMaps(n)[at] = Recomputed(n, at)
  <2>1. \A at \in DOMAIN r : r[at] = Recomputed(a, at)
    BY <1>3, <1>7 DEF ExactBeside
  <2>2. \A at \in DOMAIN l : l[at] = Recomputed(a, at)
    BY <1>4 DEF ExactBeside
  <2> QED BY <1>11, <1>12, <2>1, <2>2
<1>15. n.declared \cap n.cached = {}
  BY <1>9 DEF SameSums, ExactBeside
<1>16. Exact(n, {})
  BY <1>10, <1>12, <1>13, <1>14, <1>15 DEF Exact
<1> QED BY <1>9, <1>16 DEF Rebuilt, n
(* The descriptor of a kind has changed, and its sums with it.             *)
Redeclared(n, m, leaf, pairs, P) ==
  /\ n \in MapsOf(P) /\ n.owned = m.owned /\ n.dirty = m.dirty /\ Exact(n, {})
  /\ n.declared = {p \in m.declared : p[1] # leaf} \cup pairs

(* Maps whose rows of the other kinds, and their pairs, are still those of *)
(* exact maps.                                                             *)
LEMMA BesideIs ==
  ASSUME NEW P, NEW m \in MapsOf(P), Exact(m, {}), NEW leaf \in Kinds,
         NEW a \in MapsOf(P), a.owned = m.owned, a.declared \cap a.cached = {},
         {p \in a.declared : p[1] # leaf} = {p \in m.declared : p[1] # leaf},
         {p \in a.cached : p[1] # leaf} = {p \in m.cached : p[1] # leaf},
         a.rollups = m.rollups,
         {at \in DOMAIN a.lazy : at[1] # leaf} = {at \in DOMAIN m.lazy : at[1] # leaf},
         \A at \in DOMAIN a.lazy : a.lazy[at] = m.lazy[at]
  PROVE  ExactBeside(a, leaf)
<1>1. IsFiniteSet(DOMAIN m.owned) /\ \A at : Recomputed(a, at) = Recomputed(m, at)
  BY OwnedFinite, OwnedOnly
<1>2. Due(a, Tracked(a)) = Due(m, Tracked(a))
  BY <1>1, OwnedOnly
<1>3. /\ Placed(m, m) /\ DOMAIN RowsOfMaps(m) = Due(m, Tracked(m))
      /\ \A at \in DOMAIN RowsOfMaps(m) : RowsOfMaps(m)[at] = Recomputed(m, at)
  <2>1. Tracked(m) \ {} = Tracked(m)
    OBVIOUS
  <2> QED BY <2>1 DEF Exact
<1>4. /\ DOMAIN RowsOfMaps(m) = DOMAIN m.rollups \cup DOMAIN m.lazy
      /\ \A at \in DOMAIN m.rollups : RowsOfMaps(m)[at] = m.rollups[at]
      /\ \A at \in DOMAIN m.lazy : RowsOfMaps(m)[at] = m.lazy[at]
  BY <1>3, RowsAre
<1>5. ASSUME NEW at \in DOMAIN a.lazy, at[1] # leaf
      PROVE  ~InRollups(a, at) /\ a.lazy[at] = Recomputed(a, at)
  <2>1. at \in DOMAIN m.lazy
    BY <1>5
  <2>2. ~InRollups(m, at)
    BY <1>3, <2>1 DEF Placed
  <2>3. <<at[1], at[3]>> \in a.declared <=> <<at[1], at[3]>> \in m.declared
    <3> DEFINE p == <<at[1], at[3]>>
    <3>1. p[1] # leaf
      BY <1>5
    <3> HIDE DEF p
    <3>2. p \in a.declared <=> p \in m.declared
      BY <3>1
    <3> QED BY <3>2 DEF p
  <2>4. ~InRollups(a, at)
    BY <2>2, <2>3 DEF InRollups
  <2> QED BY <1>1, <1>3, <1>4, <2>1, <2>4
<1>6. \A at \in DOMAIN a.rollups : a.rollups[at] = Recomputed(a, at)
  BY <1>1, <1>3, <1>4
<1>7. ASSUME NEW at \in Places, at[1] # leaf
      PROVE  at \in DOMAIN a.rollups \cup DOMAIN a.lazy <=> at \in Due(a, Tracked(a))
  <2>1. at \in DOMAIN a.rollups \cup DOMAIN a.lazy <=> at \in DOMAIN RowsOfMaps(m)
    BY <1>4, <1>7
  <2>2. <<at[1], at[3]>> \in Tracked(a) <=> <<at[1], at[3]>> \in Tracked(m)
    <3> DEFINE p == <<at[1], at[3]>>
    <3>1. p[1] # leaf
      BY <1>7
    <3> HIDE DEF p
    <3>2. p \in Tracked(a) <=> p \in Tracked(m)
      BY <3>1 DEF Tracked
    <3> QED BY <3>2 DEF p
  <2>3. at \in Due(m, Tracked(a)) <=> at \in Due(m, Tracked(m))
    BY <2>2 DEF Due
  <2> QED BY <1>2, <1>3, <2>1, <2>3
<1> QED BY <1>5, <1>6, <1>7 DEF ExactBeside

LEMMA SetDeclaredIs ==
  ASSUME NEW P, NEW m \in MapsOf(P), Exact(m, {}), NEW leaf \in Kinds, NEW sums \in SUBSET Props
  PROVE  Redeclared(SetDeclaredSums(m, leaf, sums), m, leaf, {leaf} \X sums, P)
<1> DEFINE declared == {p \in m.declared : p[1] # leaf} \cup ({leaf} \X sums)
           cached == {p \in m.cached : ~(p[1] = leaf /\ p[2] \in sums)}
           lazy == WithoutRows(m.lazy, RowsOf(m.lazy, leaf, sums))
           a == AdoptDeclaredSums(m, leaf, sums)
           n == SetDeclaredSums(m, leaf, sums)
<1>1. a = [m EXCEPT !.declared = declared, !.cached = cached, !.lazy = lazy]
  BY DEF AdoptDeclaredSums, DropCachedPairs, MapsOf
<1>2. n = RebuildLeafRollups(a, leaf)
  BY DEF SetDeclaredSums
<1> HIDE DEF a, n
<1>3. m.lazy \in Tables /\ m.declared \subseteq Pairs /\ m.cached \subseteq Pairs
  BY RecordIs
<1>4. /\ DOMAIN lazy = DOMAIN m.lazy \ RowsOf(m.lazy, leaf, sums) /\ lazy \in Tables
      /\ \A at \in DOMAIN lazy : lazy[at] = m.lazy[at]
  BY <1>3, WithoutRowsIs
<1> HIDE DEF lazy
<1>5. declared \subseteq Pairs /\ cached \subseteq Pairs
  BY <1>3 DEF Pairs
<1>6. /\ declared \cap cached = {}
      /\ {p \in declared : p[1] # leaf} = {p \in m.declared : p[1] # leaf}
      /\ {p \in cached : p[1] # leaf} = {p \in m.cached : p[1] # leaf}
  BY DEF Exact
<1>7. {at \in DOMAIN lazy : at[1] # leaf} = {at \in DOMAIN m.lazy : at[1] # leaf}
  BY <1>4 DEF RowsOf
<1> HIDE DEF declared, cached
<1>8. /\ a \in MapsOf(P) /\ a.owned = m.owned /\ a.declared = declared /\ a.cached = cached
      /\ a.rollups = m.rollups /\ a.lazy = lazy /\ a.dirty = m.dirty
  BY <1>1, <1>4, <1>5 DEF MapsOf
<1>9. ExactBeside(a, leaf)
  BY <1>4, <1>6, <1>7, <1>8, BesideIs
<1>10. Rebuilt(n, a, P)
  BY <1>2, <1>8, <1>9, RebuildIs
<1>11. n \in MapsOf(P) /\ n.owned = m.owned /\ n.declared = declared /\ n.dirty = m.dirty /\ Exact(n, {})
  BY <1>8, <1>10 DEF Rebuilt, SameSums
<1> QED BY <1>11 DEF Redeclared, n, declared

LEMMA ClearDeclaredIs ==
  ASSUME NEW P, NEW m \in MapsOf(P), Exact(m, {}), NEW leaf \in Kinds
  PROVE  Redeclared(ClearDeclaredSums(m, leaf), m, leaf, {}, P)
<1> DEFINE declared == {p \in m.declared : p[1] # leaf}
           a == [m EXCEPT !.declared = declared]
           n == ClearDeclaredSums(m, leaf)
           b == RebuildLeafRollups(a, leaf)
<1>1. declared \subseteq Pairs /\ declared \cap m.cached = {}
  BY RecordIs DEF Exact
<1> HIDE DEF declared
<1>2. /\ a \in MapsOf(P) /\ a.owned = m.owned /\ a.declared = declared /\ a.cached = m.cached
      /\ a.rollups = m.rollups /\ a.lazy = m.lazy /\ a.dirty = m.dirty
  BY <1>1 DEF MapsOf
<1>3. ExactBeside(a, leaf)
  <2>1. {p \in a.declared : p[1] # leaf} = {p \in m.declared : p[1] # leaf}
    BY <1>2 DEF declared
  <2> HIDE DEF a
  <2> QED BY <1>1, <1>2, <2>1, BesideIs
<1>4. n = b
  <2>1. n = IF LeafSums(a, leaf) = {}
            THEN [DropCachedPairs(a, leaf, Props) EXCEPT !.rollups = WithoutRows(@, RowsOf(@, leaf, Props))]
            ELSE b
    BY DEF ClearDeclaredSums, declared
  <2>2. CASE LeafSums(a, leaf) = {}
    <3> DEFINE w == WithoutRows(a.rollups, RowsOf(a.rollups, leaf, Props))
               l == WithoutRows(a.lazy, RowsOf(a.lazy, leaf, Props))
               x == UNION {FullAts(a, leaf, sum) : sum \in LeafSums(a, leaf)}
    <3>1. x = {}
      BY <2>2
    <3>2. w \in Tables
      BY <1>2, RecordIs, WithoutRowsIs
    <3>3. b = [a EXCEPT !.rollups = Over([at \in x |-> Recomputed(a, at)], w), !.lazy = l]
      BY DEF RebuildLeafRollups
    <3> HIDE DEF x, w
    <3>4. Over([at \in x |-> Recomputed(a, at)], w) = w
      <4>1. w = [at \in DOMAIN w |-> w[at]]
        BY <3>2, TablesAre
      <4> QED BY <3>1, <4>1 DEF Over
    <3>5. {p \in a.cached : ~(p[1] = leaf /\ p[2] \in Props)} = a.cached
      <4>1. ASSUME NEW p \in a.cached PROVE p[1] # leaf
        <5>1. p = <<p[1], p[2]>> /\ p[2] \in Props
          BY <1>2, RecordIs DEF Pairs
        <5>2. p[1] = leaf => p[2] \in LeafSums(a, leaf)
          BY <5>1 DEF LeafSums
        <5> QED BY <2>2, <5>2
      <4> QED BY <4>1
    <3> HIDE DEF a, b, n, l
    <3>6. [DropCachedPairs(a, leaf, Props) EXCEPT !.rollups = WithoutRows(@, RowsOf(@, leaf, Props))]
            = [a EXCEPT !.rollups = w, !.lazy = l]
      <4>1. DropCachedPairs(a, leaf, Props) = [a EXCEPT !.cached = a.cached, !.lazy = l]
        BY <3>5 DEF DropCachedPairs, l
      <4>2. DropCachedPairs(a, leaf, Props).rollups = a.rollups
        BY <1>2, <4>1 DEF MapsOf
      <4>3. [DropCachedPairs(a, leaf, Props) EXCEPT !.rollups = w] = [a EXCEPT !.rollups = w, !.lazy = l]
        BY <1>2, <4>1 DEF MapsOf
      <4> QED BY <4>2, <4>3 DEF w
    <3> QED BY <2>1, <2>2, <3>3, <3>4, <3>6
  <2> QED BY <2>1, <2>2
<1> HIDE DEF a, n, b
<1>5. Rebuilt(b, a, P)
  BY <1>2, <1>3, RebuildIs DEF b
<1>6. n \in MapsOf(P) /\ n.owned = m.owned /\ n.declared = declared /\ n.dirty = m.dirty /\ Exact(n, {})
  BY <1>2, <1>4, <1>5 DEF Rebuilt, SameSums
<1>7. declared = declared \cup {}
  OBVIOUS
<1> QED BY <1>6, <1>7 DEF Redeclared, n, declared
DeclaredOf(descs) ==
  UNION {{kind} \X descs[kind].sums : kind \in {k \in Kinds : descs[k] # NoDescriptor}}

Descriptions == [sums : SUBSET Props, indexes : SUBSET Props, dropped : SUBSET Props]

Descs == [Kinds -> Descriptions \cup {NoDescriptor}]

(* The records of the log.                                                 *)
Ops(P) ==
  [what : {"row"}, kind : Kinds, key : Keys, props : P]
    \cup [what : {"hide"}, kind : Kinds, key : Keys]
    \cup [what : {"desc"}, kind : Kinds, desc : Descriptions \cup {NoDescriptor}]

ExactMaps(P) == {m \in MapsOf(P) : Exact(m, {})}

(* Exact maps whose declared sums are those of the live descriptors.       *)
Fits(m, descs, P) ==
  m \in ExactMaps(P) /\ descs \in Descs /\ m.declared = DeclaredOf(descs)

Redescribed(e, descs, kind, d) ==
  /\ e \in Descs
  /\ DeclaredOf(e) = {p \in DeclaredOf(descs) : p[1] # kind}
                       \cup (IF d = NoDescriptor THEN {} ELSE {kind} \X d.sums)

LEMMA DeclaredAfter ==
  ASSUME NEW descs \in Descs, NEW kind \in Kinds, NEW d \in Descriptions \cup {NoDescriptor}
  PROVE  Redescribed([descs EXCEPT ![kind] = d], descs, kind, d)
<1> DEFINE e == [descs EXCEPT ![kind] = d]
<1>1. e[kind] = d /\ \A k \in Kinds : k # kind => e[k] = descs[k]
  BY DEF Descs
<1>8. e \in Descs
  BY DEF Descs
<1> HIDE DEF e
<1>2. \A p : p \in DeclaredOf(e) <=>
        \E k \in Kinds : e[k] # NoDescriptor /\ p \in {k} \X e[k].sums
  BY DEF DeclaredOf
<1>3. \A p : p \in DeclaredOf(descs) <=>
        \E k \in Kinds : descs[k] # NoDescriptor /\ p \in {k} \X descs[k].sums
  BY DEF DeclaredOf
<1>4. ASSUME NEW p, p \in DeclaredOf(e)
      PROVE  \/ p \in DeclaredOf(descs) /\ p[1] # kind
             \/ d # NoDescriptor /\ p \in {kind} \X d.sums
  <2>1. PICK k \in Kinds : e[k] # NoDescriptor /\ p \in {k} \X e[k].sums
    BY <1>2, <1>4
  <2>2. p[1] = k
    BY <2>1
  <2>3. CASE k = kind
    BY <1>1, <2>1, <2>3
  <2>4. CASE k # kind
    BY <1>1, <1>3, <2>1, <2>2, <2>4
  <2> QED BY <2>3, <2>4
<1>5. ASSUME NEW p, p \in DeclaredOf(descs), p[1] # kind PROVE p \in DeclaredOf(e)
  <2>1. PICK k \in Kinds : descs[k] # NoDescriptor /\ p \in {k} \X descs[k].sums
    BY <1>3, <1>5
  <2>2. p[1] = k
    BY <2>1
  <2> QED BY <1>1, <1>2, <1>5, <2>1, <2>2
<1>6. ASSUME NEW p, d # NoDescriptor, p \in {kind} \X d.sums PROVE p \in DeclaredOf(e)
  BY <1>1, <1>2, <1>6
<1>7. DeclaredOf(e) = {p \in DeclaredOf(descs) : p[1] # kind}
                        \cup (IF d = NoDescriptor THEN {} ELSE {kind} \X d.sums)
  <2> DEFINE X == {p \in DeclaredOf(descs) : p[1] # kind}
             Y == IF d = NoDescriptor THEN {} ELSE {kind} \X d.sums
  <2>1. \A p : p \in Y <=> d # NoDescriptor /\ p \in {kind} \X d.sums
    OBVIOUS
  <2>2. \A p : p \in X <=> p \in DeclaredOf(descs) /\ p[1] # kind
    OBVIOUS
  <2> HIDE DEF X, Y
  <2>3. \A p : p \in DeclaredOf(e) <=> p \in X \/ p \in Y
    BY <1>4, <1>5, <1>6, <2>1, <2>2
  <2>4. DeclaredOf(e) = X \cup Y
    BY <2>3
  <2> QED BY <2>4 DEF X, Y
<1> QED BY <1>8, <1>7 DEF e, Redescribed

LEMMA DescribedIs ==
  ASSUME NEW P, NEW descs \in Descs, NEW op \in Ops(P)
  PROVE  DescribedBy(descs, op) \in Descs
<1>1. CASE op.what = "desc"
  <2>2. op.kind \in Kinds /\ op.desc \in Descriptions \cup {NoDescriptor}
    BY <1>1 DEF Ops
  <2>3. Redescribed([descs EXCEPT ![op.kind] = op.desc], descs, op.kind, op.desc)
    BY <2>2, DeclaredAfter
  <2> QED BY <1>1, <2>3 DEF DescribedBy, Redescribed
<1>2. CASE op.what # "desc"
  BY <1>2 DEF DescribedBy
<1> QED BY <1>1, <1>2

(* One record of the log, over exact maps.                                 *)
LEMMA AppliedIs ==
  ASSUME NEW P, PropsOk(P), NEW m \in ExactMaps(P), NEW op \in Ops(P)
  PROVE  /\ Applied(m, op) \in ExactMaps(P)
         /\ \A descs : Fits(m, descs, P) => Fits(Applied(m, op), DescribedBy(descs, op), P)
<1> DEFINE n == Applied(m, op)
<1>0. m \in MapsOf(P) /\ Exact(m, {})
  BY DEF ExactMaps
<1>1. CASE op \in [what : {"row"}, kind : Kinds, key : Keys, props : P]
  <2>1. op.what = "row" /\ op.kind \in Kinds /\ op.key \in Keys /\ op.props \in P
    BY <1>1
  <2>2. n = InsertVisible(m, op.kind, op.key, op.props)
    BY <2>1 DEF Applied
  <2> HIDE DEF n
  <2>3. n \in MapsOf(P) /\ SameSums(n, m) /\ Exact(n, {})
    BY <1>0, <2>1, <2>2, InsertIs
  <2>4. \A descs : DescribedBy(descs, op) = descs
    BY <2>1 DEF DescribedBy
  <2> QED BY <2>3, <2>4 DEF ExactMaps, Fits, SameSums, n
<1>2. CASE op \in [what : {"hide"}, kind : Kinds, key : Keys]
  <2>1. op.what = "hide" /\ op.kind \in Kinds /\ op.key \in Keys
    BY <1>2
  <2>2. n = RemoveRow(m, op.kind, op.key)
    BY <2>1 DEF Applied
  <2> HIDE DEF n
  <2>3. Removed(n, m, op.kind, op.key, P)
    BY <1>0, <2>1, <2>2, RemoveIs
  <2>4. \A descs : DescribedBy(descs, op) = descs
    BY <2>1 DEF DescribedBy
  <2> QED BY <2>3, <2>4 DEF ExactMaps, Fits, SameSums, Removed, n
<1>3. CASE op \in [what : {"desc"}, kind : Kinds, desc : Descriptions \cup {NoDescriptor}]
  <2>0. PICK k \in Kinds : op.kind = k
    BY <1>3
  <2> DEFINE d == op.desc
             pairs == IF d = NoDescriptor THEN {} ELSE {k} \X d.sums
  <2>1. op.what = "desc" /\ op.kind = k /\ d \in Descriptions \cup {NoDescriptor}
    BY <1>3, <2>0
  <2>2. n = IF d = NoDescriptor THEN ClearDeclaredSums(m, k) ELSE SetDeclaredSums(m, k, d.sums)
    BY <2>1 DEF Applied, RefreshLeafMeasures
  <2> HIDE DEF n
  <2>3. Redeclared(n, m, k, pairs, P)
    <3>1. CASE d = NoDescriptor
      BY <1>0, <2>2, <3>1, ClearDeclaredIs
    <3>2. CASE d # NoDescriptor
      <4>1. d.sums \in SUBSET Props
        BY <2>1, <3>2 DEF Descriptions
      <4> QED BY <1>0, <2>2, <3>2, <4>1, SetDeclaredIs
    <3> QED BY <3>1, <3>2
  <2>4. n \in ExactMaps(P)
    BY <2>3 DEF ExactMaps, Redeclared
  <2>5. ASSUME NEW descs, Fits(m, descs, P) PROVE Fits(n, DescribedBy(descs, op), P)
    <3> DEFINE e == [descs EXCEPT ![k] = d]
    <3>1. DescribedBy(descs, op) = e
      BY <2>1 DEF DescribedBy
    <3>2. descs \in Descs /\ m.declared = DeclaredOf(descs)
      BY <2>5 DEF Fits
    <3>3. e \in Descs /\ DeclaredOf(e) = {p \in DeclaredOf(descs) : p[1] # k} \cup pairs
      <4>1. Redescribed(e, descs, k, d)
        BY <2>1, <3>2, DeclaredAfter
      <4> QED BY <4>1 DEF Redescribed
    <3>4. n.declared = {p \in m.declared : p[1] # k} \cup pairs
      BY <2>3 DEF Redeclared
    <3> HIDE DEF e, pairs
    <3> QED BY <2>4, <3>1, <3>2, <3>3, <3>4 DEF Fits
  <2> QED BY <2>4, <2>5 DEF n
<1> QED BY <1>1, <1>2, <1>3 DEF Ops
-----------------------------------------------------------------------------
(* A replay of the log.                                                    *)

AppliedStep(P) == [p \in ExactMaps(P) \X Ops(P) |-> Applied(p[1], p[2])]
DescribedStep(P) == [p \in Descs \X Ops(P) |-> DescribedBy(p[1], p[2])]

LEMMA StepsAre ==
  ASSUME NEW P, PropsOk(P)
  PROVE  /\ AppliedStep(P) \in [ExactMaps(P) \X Ops(P) -> ExactMaps(P)]
         /\ DescribedStep(P) \in [Descs \X Ops(P) -> Descs]
<1>1. \A m \in ExactMaps(P), op \in Ops(P) : Applied(m, op) \in ExactMaps(P)
  BY AppliedIs
<1>2. \A descs \in Descs, op \in Ops(P) : DescribedBy(descs, op) \in Descs
  BY DescribedIs
<1> QED BY <1>1, <1>2 DEF AppliedStep, DescribedStep

LEMMA AppliedFolds ==
  ASSUME NEW P, PropsOk(P), NEW m \in ExactMaps(P), NEW seq \in Seq(Ops(P))
  PROVE  Replayed(m, seq) = Folded(m, AppliedStep(P), seq)
<1> DEFINE N == Len(seq)
           F(g) == g = [s \in SUBSET (1..N) |->
                          IF s = {} THEN m ELSE Applied(g[s \ {Max(s)}], seq[Max(s)])]
<1>1. N \in Nat /\ DOMAIN seq = 1..N /\ \A i \in 1..N : seq[i] \in Ops(P)
  BY LenProperties, ElementOfSeq
<1>2. AppliedStep(P) \in [ExactMaps(P) \X Ops(P) -> ExactMaps(P)]
  BY StepsAre
<1>3. \A a \in ExactMaps(P), r \in Ops(P) : AppliedStep(P)[<<a, r>>] = Applied(a, r)
  BY DEF AppliedStep
<1>4. ASSUME NEW g, FoldsTo(g, m, AppliedStep(P), seq, N) PROVE F(g)
  <2>1. \A s \in SUBSET (1..N) :
          /\ g[s] \in ExactMaps(P)
          /\ s # {} => Max(s) \in 1..N /\ s \ {Max(s)} \in SUBSET (1..N)
    BY <1>2, <1>4, FoldsToTyped
  <2>2. \A s \in SUBSET (1..N) : s # {} =>
          AppliedStep(P)[<<g[s \ {Max(s)}], seq[Max(s)]>>] = Applied(g[s \ {Max(s)}], seq[Max(s)])
    BY <1>1, <1>3, <2>1
  <2> HIDE DEF N
  <2> QED BY <1>4, <2>2 DEF FoldsTo
<1>5. ASSUME NEW g, F(g) PROVE FoldsTo(g, m, AppliedStep(P), seq, N)
  <2>1. g = [s \in SUBSET (1..N) |-> g[s]] /\ g[{}] = m
    BY <1>5
  <2>2. \A s \in SUBSET (1..N) :
          s # {} /\ g[s \ {Max(s)}] \in ExactMaps(P) /\ seq[Max(s)] \in Ops(P)
            => g[s] = AppliedStep(P)[<<g[s \ {Max(s)}], seq[Max(s)]>>]
    BY <1>3, <1>5
  <2> QED BY <1>2, <2>1, <2>2, FoldsToFrom
<1> DEFINE h == CHOOSE g : F(g)
<1>6. F(h)
  <2>1. \E g : F(g)
    BY <1>1, <1>4, FoldsExist
  <2> HIDE DEF F
  <2> QED BY <2>1
<1>7. Replayed(m, seq) = h[1..N]
  BY <1>1 DEF Replayed, FoldLeft, MapThenFoldSet
<1> HIDE DEF F, h
<1>8. Folded(m, AppliedStep(P), seq) = h[1..N]
  BY <1>1, <1>5, <1>6, FoldedIs
<1> QED BY <1>7, <1>8

LEMMA DescribedFolds ==
  ASSUME NEW P, PropsOk(P), NEW descs \in Descs, NEW seq \in Seq(Ops(P))
  PROVE  Described(descs, seq) = Folded(descs, DescribedStep(P), seq)
<1> DEFINE N == Len(seq)
           F(g) == g = [s \in SUBSET (1..N) |->
                          IF s = {} THEN descs ELSE DescribedBy(g[s \ {Max(s)}], seq[Max(s)])]
<1>1. N \in Nat /\ DOMAIN seq = 1..N /\ \A i \in 1..N : seq[i] \in Ops(P)
  BY LenProperties, ElementOfSeq
<1>2. DescribedStep(P) \in [Descs \X Ops(P) -> Descs]
  BY StepsAre
<1>3. \A a \in Descs, r \in Ops(P) : DescribedStep(P)[<<a, r>>] = DescribedBy(a, r)
  BY DEF DescribedStep
<1>4. ASSUME NEW g, FoldsTo(g, descs, DescribedStep(P), seq, N) PROVE F(g)
  <2>1. \A s \in SUBSET (1..N) :
          /\ g[s] \in Descs
          /\ s # {} => Max(s) \in 1..N /\ s \ {Max(s)} \in SUBSET (1..N)
    BY <1>2, <1>4, FoldsToTyped
  <2>2. \A s \in SUBSET (1..N) : s # {} =>
          DescribedStep(P)[<<g[s \ {Max(s)}], seq[Max(s)]>>]
            = DescribedBy(g[s \ {Max(s)}], seq[Max(s)])
    BY <1>1, <1>3, <2>1
  <2> HIDE DEF N
  <2> QED BY <1>4, <2>2 DEF FoldsTo
<1>5. ASSUME NEW g, F(g) PROVE FoldsTo(g, descs, DescribedStep(P), seq, N)
  <2>1. g = [s \in SUBSET (1..N) |-> g[s]] /\ g[{}] = descs
    BY <1>5
  <2>2. \A s \in SUBSET (1..N) :
          s # {} /\ g[s \ {Max(s)}] \in Descs /\ seq[Max(s)] \in Ops(P)
            => g[s] = DescribedStep(P)[<<g[s \ {Max(s)}], seq[Max(s)]>>]
    BY <1>3, <1>5
  <2> QED BY <1>2, <2>1, <2>2, FoldsToFrom
<1> DEFINE h == CHOOSE g : F(g)
<1>6. F(h)
  <2>1. \E g : F(g)
    BY <1>1, <1>4, FoldsExist
  <2> HIDE DEF F
  <2> QED BY <2>1
<1>7. Described(descs, seq) = h[1..N]
  BY <1>1 DEF Described, FoldLeft, MapThenFoldSet
<1> HIDE DEF F, h
<1>8. Folded(descs, DescribedStep(P), seq) = h[1..N]
  BY <1>1, <1>5, <1>6, FoldedIs
<1> QED BY <1>7, <1>8

(* Behind every log the maps are exact and measure what it declares.       *)
LEMMA ReplayedIs ==
  ASSUME NEW P, PropsOk(P), NEW m, NEW descs, Fits(m, descs, P), NEW ops \in Seq(Ops(P))
  PROVE  Fits(Replayed(m, ops), Described(descs, ops), P)
<1> DEFINE F(seq) == Folded(m, AppliedStep(P), seq)
           G(seq) == Folded(descs, DescribedStep(P), seq)
           T == {seq \in Seq(Ops(P)) : Fits(F(seq), G(seq), P)}
<1>1. m \in ExactMaps(P) /\ descs \in Descs
  BY DEF Fits
<1>2. <<>> \in T
  <2>1. F(<<>>) = m /\ G(<<>>) = descs
    BY FoldedEmpty
  <2> QED BY <2>1
<1>3. ASSUME NEW seq \in T, NEW op \in Ops(P) PROVE Append(seq, op) \in T
  <2>1. Append(seq, op) \in Seq(Ops(P))
    BY AppendProperties
  <2>2. F(Append(seq, op)) = AppliedStep(P)[<<F(seq), op>>]
        /\ G(Append(seq, op)) = DescribedStep(P)[<<G(seq), op>>]
    BY FoldedAppend
  <2> DEFINE a == F(seq)  d == G(seq)
  <2>3. Fits(a, d, P)
    OBVIOUS
  <2> HIDE DEF a, d
  <2>4. a \in ExactMaps(P) /\ d \in Descs
    BY <2>3 DEF Fits
  <2>5. AppliedStep(P)[<<a, op>>] = Applied(a, op) /\ DescribedStep(P)[<<d, op>>] = DescribedBy(d, op)
    BY <2>4 DEF AppliedStep, DescribedStep
  <2>6. Fits(Applied(a, op), DescribedBy(d, op), P)
    BY <2>3, <2>4, AppliedIs
  <2>7. Fits(F(Append(seq, op)), G(Append(seq, op)), P)
    BY <2>2, <2>5, <2>6 DEF a, d
  <2> QED BY <2>1, <2>7
<1> HIDE DEF F, G
<1>4. T = Seq(Ops(P))
  <2>1. T \subseteq Seq(Ops(P))
    OBVIOUS
  <2>2. \A seq \in T, op \in Ops(P) : Append(seq, op) \in T
    BY <1>3
  <2> HIDE DEF T
  <2> QED BY <1>2, <2>1, <2>2, SeqSetInduction
<1>5. Replayed(m, ops) = F(ops) /\ Described(descs, ops) = G(ops)
  BY <1>1, AppliedFolds, DescribedFolds DEF F, G
<1> QED BY <1>4, <1>5

-----------------------------------------------------------------------------
(* The projection on disk.                                                 *)

PairsOf(rows) == {<<at[1], at[3]>> : at \in DOMAIN rows}

(* The rows of the image are those due for what its descriptors declare    *)
(* and for every other pair it has a row of.                               *)
ImageOk(image, P) ==
  /\ image.owned \in Owneds(P) /\ image.measures \in Tables /\ image.desc \in Descs
  /\ DOMAIN image.measures =
       Due(image, DeclaredOf(image.desc) \cup PairsOf(image.measures))
  /\ \A at \in DOMAIN image.measures : image.measures[at] = Recomputed(image, at)

LEMMA NoRows == <<>> \in Tables /\ DOMAIN <<>> = {}
<1>1. DOMAIN <<>> = {}
  OBVIOUS
<1>2. <<>> = [at \in DOMAIN <<>> |-> <<>>[at]]
  OBVIOUS
<1> QED BY <1>1, <1>2, TablesAre

LEMMA WriteIs ==
  ASSUME NEW P, NEW m \in ExactMaps(P)
  PROVE  WriteMeasures(m) = RowsOfMaps(m)
<1>1. Placed(m, m) /\ m \in MapsOf(P)
  BY DEF ExactMaps, Exact
<1> DEFINE l == Restrict(m.lazy, {at \in DOMAIN m.lazy : ~HasTable(m.rollups, at)})
<1>2. \A at \in DOMAIN m.lazy : ~HasTable(m.rollups, at)
  BY <1>1 DEF Placed, InRollups
<1>3. m.lazy = [at \in DOMAIN m.lazy |-> m.lazy[at]]
  BY <1>1, RecordIs, TablesAre
<1>4. l = m.lazy
  BY <1>2, <1>3 DEF Restrict
<1> QED BY <1>4 DEF WriteMeasures, RowsOfMaps

LEMMA AdoptLazyIs ==
  ASSUME NEW P, NEW m, NEW descs, Fits(m, descs, P)
  PROVE  Fits(AdoptLazyRollups(m), descs, P)
<1> DEFINE n == AdoptLazyRollups(m)
           R == RowsOfMaps(m)
<1>1. m \in MapsOf(P) /\ Exact(m, {}) /\ Placed(m, m) /\ m.declared = DeclaredOf(descs) /\ descs \in Descs
  BY DEF Fits, ExactMaps, Exact
<1>2. n = [m EXCEPT !.rollups = R, !.lazy = <<>>, !.dirty = FALSE]
  BY WriteIs DEF AdoptLazyRollups, Fits
<1>3. R \in Tables /\ R = [at \in DOMAIN R |-> R[at]]
  BY <1>1, RowsAre, TablesAre
<1> HIDE DEF n, R
<1>4. /\ n \in MapsOf(P) /\ n.owned = m.owned /\ n.declared = m.declared /\ n.cached = m.cached
      /\ n.rollups = R /\ n.lazy = <<>>
  BY <1>1, <1>2, <1>3, NoRows DEF MapsOf
<1>5. RowsOfMaps(n) = R
  <2>1. RowsOfMaps(n) = Over(R, <<>>)
    BY <1>4 DEF RowsOfMaps
  <2> QED BY <1>3, <2>1, NoRows DEF Over
<1>6. Placed(n, n)
  <2>1. \A at \in DOMAIN n.rollups : InRollups(n, at)
    <3>1. \A at \in DOMAIN n.rollups : SameTable(at, at)
      BY SameTableIs
    <3> QED BY <3>1 DEF InRollups, HasTable
  <2> QED BY <1>4, <2>1, NoRows DEF Placed
<1>7. Due(n, Tracked(n) \ {}) = Due(m, Tracked(m) \ {}) /\ \A at : Recomputed(n, at) = Recomputed(m, at)
  <2>1. Tracked(n) = Tracked(m)
    BY <1>4 DEF Tracked
  <2> QED BY <1>1, <1>4, <2>1, OwnedFinite, OwnedOnly
<1>8. Exact(n, {})
  BY <1>1, <1>4, <1>5, <1>6, <1>7 DEF Exact, R
<1> QED BY <1>1, <1>4, <1>8 DEF Fits, ExactMaps, n

LEMMA ImageIs ==
  ASSUME NEW P, NEW m, NEW descs, Fits(m, descs, P), NEW image,
         image = [owned |-> m.owned, measures |-> WriteMeasures(m), desc |-> descs]
  PROVE  ImageOk(image, P)
<1> DEFINE R == RowsOfMaps(m)
<1>1. m \in MapsOf(P) /\ Exact(m, {}) /\ Placed(m, m) /\ m.declared = DeclaredOf(descs) /\ descs \in Descs
  BY DEF Fits, ExactMaps, Exact
<1>2. image.owned = m.owned /\ image.measures = R /\ image.desc = descs
  BY WriteIs DEF Fits
<1>3. m.owned \in Owneds(P) /\ R \in Tables
  BY <1>1, RecordIs, RowsAre
<1>4. /\ \A pairs : Due(image, pairs) = Due(m, pairs)
      /\ \A at : Recomputed(image, at) = Recomputed(m, at)
  BY <1>1, <1>2, OwnedFinite, OwnedOnly
<1>5. DOMAIN R = Due(m, Tracked(m)) /\ \A at \in DOMAIN R : R[at] = Recomputed(m, at)
  <2>1. Tracked(m) \ {} = Tracked(m)
    OBVIOUS
  <2> QED BY <1>1, <2>1 DEF Exact
<1>6. Due(m, DeclaredOf(descs) \cup PairsOf(R)) = DOMAIN R
  <2>1. ASSUME NEW at \in Due(m, DeclaredOf(descs) \cup PairsOf(R)) PROVE at \in DOMAIN R
    <3>1. <<at[1], at[3]>> \in Tracked(m)
      <4>1. CASE <<at[1], at[3]>> \in DeclaredOf(descs)
        BY <1>1, <4>1 DEF Tracked
      <4>2. CASE <<at[1], at[3]>> \in PairsOf(R)
        <5>1. PICK b \in DOMAIN R : <<at[1], at[3]>> = <<b[1], b[3]>>
          BY <4>2 DEF PairsOf
        <5>2. <<b[1], b[3]>> \in Tracked(m)
          BY <1>5 DEF Due
        <5> QED BY <5>1, <5>2
      <4> QED BY <4>1, <4>2 DEF Due
    <3> QED BY <1>5, <3>1 DEF Due
  <2>2. ASSUME NEW at \in DOMAIN R PROVE at \in Due(m, DeclaredOf(descs) \cup PairsOf(R))
    <3>1. <<at[1], at[3]>> \in PairsOf(R)
      BY DEF PairsOf
    <3> QED BY <1>5, <3>1 DEF Due
  <2> QED BY <2>1, <2>2
<1> HIDE DEF R
<1> QED BY <1>1, <1>2, <1>3, <1>4, <1>5, <1>6 DEF ImageOk

LEMMA DeclaredPairs ==
  ASSUME NEW descs \in Descs
  PROVE  DeclaredOf(descs) \subseteq Pairs
<1> SUFFICES ASSUME NEW p \in DeclaredOf(descs) PROVE p \in Pairs
  OBVIOUS
<1>1. PICK k \in Kinds : descs[k] # NoDescriptor /\ p \in {k} \X descs[k].sums
  BY DEF DeclaredOf
<1>2. descs[k] \in Descriptions
  BY <1>1 DEF Descs
<1>3. descs[k].sums \subseteq Props
  BY <1>2 DEF Descriptions
<1> QED BY <1>1, <1>3 DEF Pairs

LEMMA AdoptIs ==
  ASSUME NEW P, NEW image, ImageOk(image, P)
  PROVE  Fits(Adopt(image), image.desc, P)
<1> DEFINE n == Adopt(image)
           declared == DeclaredOf(image.desc)
           R == image.measures
           cached == PairsOf(R) \ declared
<1>2. image.owned \in Owneds(P) /\ R \in Tables /\ image.desc \in Descs
  BY DEF ImageOk
<1>3. declared \subseteq Pairs /\ PairsOf(R) \subseteq Pairs
  <2>1. \A at \in DOMAIN R : <<at[1], at[3]>> \in Pairs
    BY <1>2, TablesAre, PlaceIs DEF Pairs
  <2> QED BY <1>2, <2>1, DeclaredPairs DEF PairsOf
<1>4. /\ n \in MapsOf(P) /\ n.owned = image.owned /\ n.declared = declared /\ n.cached = cached
      /\ n.rollups = R /\ n.lazy = <<>>
  <2> DEFINE a == ReadMeasures(image)
             b == [a EXCEPT !.declared = declared]
  <2>1. n = RecoverCachedSums(b)
    BY DEF Adopt, AdoptDeclaredMeasures, DeclaredOf
  <2> HIDE DEF n, declared
  <2>2. a \in MapsOf(P) /\ a.owned = image.owned /\ a.rollups = R /\ a.lazy = <<>>
    BY <1>2, NoRows DEF ReadMeasures, MapsOf
  <2> HIDE DEF a
  <2>3. /\ b \in MapsOf(P) /\ b.owned = image.owned /\ b.rollups = R /\ b.lazy = <<>>
        /\ b.declared = declared
    BY <1>3, <2>2 DEF MapsOf
  <2>4. n = [b EXCEPT !.cached = PairsOf(b.rollups) \ b.declared]
    BY <2>1 DEF RecoverCachedSums, PairsOf
  <2> HIDE DEF b
  <2>5. n = [b EXCEPT !.cached = cached]
    BY <2>3, <2>4
  <2> HIDE DEF cached
  <2>6. cached \subseteq Pairs
    BY <1>3 DEF cached
  <2> HIDE DEF R
  <2> QED BY <2>3, <2>5, <2>6 DEF MapsOf
<1> HIDE DEF n, declared
<1>5. RowsOfMaps(n) = R
  <2>1. RowsOfMaps(n) = Over(R, <<>>)
    BY <1>4 DEF RowsOfMaps
  <2>2. R = [at \in DOMAIN R |-> R[at]]
    BY <1>2, TablesAre
  <2> HIDE DEF R
  <2> QED BY <2>1, <2>2, NoRows DEF Over
<1>6. Placed(n, n)
  <2>1. \A at \in DOMAIN n.rollups : InRollups(n, at)
    <3>1. \A at \in DOMAIN n.rollups : SameTable(at, at)
      BY SameTableIs
    <3> QED BY <3>1 DEF InRollups, HasTable
  <2> QED BY <1>4, <2>1, NoRows DEF Placed
<1>7. Tracked(n) \ {} = declared \cup PairsOf(R)
  BY <1>4 DEF Tracked
<1>8. /\ Due(n, Tracked(n) \ {}) = Due(image, declared \cup PairsOf(R))
      /\ \A at : Recomputed(n, at) = Recomputed(image, at)
  <2>1. IsFiniteSet(DOMAIN image.owned)
    BY <1>2, OwnedsAre
  <2> QED BY <1>4, <1>7, <2>1, OwnedOnly
<1>9. DOMAIN R = Due(image, declared \cup PairsOf(R)) /\ \A at \in DOMAIN R : R[at] = Recomputed(image, at)
  BY DEF ImageOk, declared
<1>10. n.declared \cap n.cached = {}
  BY <1>4
<1> HIDE DEF R, cached
<1>11. Exact(n, {})
  BY <1>5, <1>6, <1>8, <1>9, <1>10 DEF Exact
<1> QED BY <1>2, <1>4, <1>11 DEF Fits, ExactMaps, n, declared
-----------------------------------------------------------------------------
(* The invariant: the maps are exact but for the tables that are being     *)
(* built, they measure what the live descriptors declare, and the image on *)
(* disk is that of exact maps.                                             *)
AllProps == {row.props : row \in Offered}

RowsOffered(P) == PropsOk(P) /\ \A row \in Offered : row.props \in P

JoinInv(P) ==
  /\ maps \in MapsOf(P) /\ Exact(maps, building) /\ building \subseteq maps.cached
  /\ desc \in Descs /\ maps.declared = DeclaredOf(desc)
  /\ ImageOk(disk, P) /\ tail \in Seq(Ops(P))

LEMMA PropsAre == RowsOffered(AllProps)
BY RowsAssumption DEF PropsOk, AllProps, RowsOffered

LEMMA FitsNow ==
  ASSUME NEW P, RowsOffered(P), JoinInv(P), building = {}
  PROVE  Fits(maps, desc, P)
BY DEF JoinInv, Fits, ExactMaps

LEMMA FullAtsAre ==
  ASSUME NEW m, NEW leaf \in Kinds, NEW sum \in Props
  PROVE  FullAts(m, leaf, sum) = Due(m, {<<leaf, sum>>})
<1>1. ASSUME NEW at \in FullAts(m, leaf, sum) PROVE at \in Due(m, {<<leaf, sum>>})
  <2>1. at \in {leaf} \X (Props \ {sum}) \X {sum} \X Keys
    BY DEF FullAts
  <2>2. at \in Places /\ at[1] = leaf /\ at[3] = sum /\ at[2] # sum
    BY <2>1 DEF Places
  <2>3. KeyIsVisible(m, at[4]) /\ Children(m, leaf, at[2], at[4]) # {}
    BY DEF FullAts
  <2> QED BY <2>2, <2>3 DEF Due
<1>2. ASSUME NEW at \in Due(m, {<<leaf, sum>>}) PROVE at \in FullAts(m, leaf, sum)
  <2>1. /\ at = <<at[1], at[2], at[3], at[4]>>
        /\ at[1] \in Kinds /\ at[2] \in Props /\ at[3] \in Props /\ at[4] \in Keys
    BY PlaceIs DEF Due
  <2>2. at[1] = leaf /\ at[3] = sum /\ at[2] # at[3]
    BY DEF Due
  <2>3. at \in {leaf} \X (Props \ {sum}) \X {sum} \X Keys
    BY <2>1, <2>2
  <2> QED BY <2>2, <2>3 DEF FullAts, Due
<1> QED BY <1>1, <1>2

LEMMA NothingFits ==
  ASSUME NEW P, RowsOffered(P)
  PROVE  ImageOk(Nothing, P) /\ Fits(Adopt(Nothing), Nothing.desc, P)
<1>1. Nothing.owned = <<>> /\ Nothing.measures = <<>> /\ Nothing.desc = [kind \in Kinds |-> NoDescriptor]
  BY DEF Nothing
<1>2. <<>> \in Owneds(P)
  <2>1. IsFiniteSet(DOMAIN <<>>) /\ DOMAIN <<>> = {}
    BY NoRows, FS_EmptySet
  <2>2. <<>> = [id \in DOMAIN <<>> |-> <<>>[id]]
    OBVIOUS
  <2> QED BY <2>1, <2>2, OwnedsAre
<1>3. Nothing.desc \in Descs /\ DeclaredOf(Nothing.desc) = {}
  BY <1>1 DEF Descs, DeclaredOf
<1>4. PairsOf(<<>>) = {}
  BY NoRows DEF PairsOf
<1>5. Due(Nothing, {}) = {}
  BY DEF Due
<1>6. ImageOk(Nothing, P)
  <2>1. DeclaredOf(Nothing.desc) \cup PairsOf(Nothing.measures) = {}
    BY <1>1, <1>3, <1>4
  <2> QED BY <1>1, <1>2, <1>3, <1>5, <2>1, NoRows DEF ImageOk
<1>7. Fits(Adopt(Nothing), Nothing.desc, P)
  BY <1>6, AdoptIs
<1> QED BY <1>6, <1>7

LEMMA InitJoin ==
  ASSUME NEW P, RowsOffered(P), JoinInit
  PROVE  JoinInv(P)
BY NothingFits, EmptySeq DEF JoinInit, JoinInv, Fits, ExactMaps

LEMMA WriteStep ==
  ASSUME NEW P, RowsOffered(P), JoinInv(P), NEW op \in Ops(P), Write(op), desc' = DescribedBy(desc, op)
  PROVE  JoinInv(P)'
<1>1. Fits(maps, desc, P) /\ maps \in ExactMaps(P)
  BY FitsNow DEF Write, Fits
<1>2. Fits(maps', desc', P)
  BY <1>1, AppliedIs DEF Write, RowsOffered
<1>3. tail' \in Seq(Ops(P))
  BY AppendProperties DEF Write, JoinInv
<1> QED BY <1>2, <1>3 DEF Write, JoinInv, Fits, ExactMaps

LEMMA EnterStep ==
  ASSUME NEW P, RowsOffered(P), JoinInv(P), NEW leaf \in Kinds, NEW sum \in Props, EnterCachedSum(leaf, sum)
  PROVE  JoinInv(P)'
<1> DEFINE p == <<leaf, sum>>
           cached == maps.cached \cup {p}
           n == [maps EXCEPT !.cached = cached]
<1>1. maps' = n /\ building' = building \cup {p} /\ p \notin maps.declared \cup maps.cached
      /\ desc' = desc /\ disk' = disk /\ tail' = tail
  BY DEF EnterCachedSum
<1>2. maps \in MapsOf(P) /\ Exact(maps, building) /\ building \subseteq maps.cached
  BY DEF JoinInv
<1>3. cached \subseteq Pairs
  BY <1>2, RecordIs DEF Pairs
<1>4. /\ n \in MapsOf(P) /\ n.owned = maps.owned /\ n.declared = maps.declared
      /\ n.cached = cached /\ n.rollups = maps.rollups /\ n.lazy = maps.lazy
  <2> HIDE DEF cached, p
  <2> QED BY <1>2, <1>3 DEF MapsOf
<1> HIDE DEF n
<1>5. Tracked(n) \ building' = Tracked(maps) \ building
  BY <1>1, <1>2, <1>4 DEF Tracked
<1>6. Due(n, Tracked(n) \ building') = Due(maps, Tracked(maps) \ building)
      /\ \A at : Recomputed(n, at) = Recomputed(maps, at)
  BY <1>2, <1>4, <1>5, OwnedFinite, OwnedOnly
<1>7. Placed(n, n)
  <2>1. \A at : InRollups(n, at) <=> InRollups(maps, at)
    BY <1>4 DEF InRollups
  <2> QED BY <1>2, <1>4, <2>1 DEF Placed, Exact
<1>8. RowsOfMaps(n) = RowsOfMaps(maps)
  BY <1>4 DEF RowsOfMaps
<1>9. n.declared \cap n.cached = {}
  BY <1>1, <1>2, <1>4 DEF Exact
<1>10. Exact(n, building')
  BY <1>2, <1>6, <1>7, <1>8, <1>9 DEF Exact
<1>11. building' \subseteq n.cached
  BY <1>1, <1>2, <1>4
<1> HIDE DEF cached, p
<1> QED BY <1>1, <1>4, <1>10, <1>11 DEF JoinInv

LEMMA BuildStep ==
  ASSUME NEW P, RowsOffered(P), JoinInv(P), NEW leaf \in Kinds, NEW sum \in Props, BuildCachedSum(leaf, sum)
  PROVE  JoinInv(P)'
<1> DEFINE p == <<leaf, sum>>
           ats == Due(maps, {p})
           n == maps'
<1>1. /\ p \in building /\ building' = building \ {p}
      /\ desc' = desc /\ disk' = disk /\ tail' = tail
  BY DEF BuildCachedSum
<1>2. /\ maps \in MapsOf(P) /\ Exact(maps, building) /\ building \subseteq maps.cached
      /\ Placed(maps, maps) /\ maps.declared \cap maps.cached = {} /\ IsFiniteSet(DOMAIN maps.owned)
  BY OwnedFinite DEF JoinInv, Exact
<1>3. n = IF ats = {} THEN [maps EXCEPT !.cached = @ \ {p}]
          ELSE [maps EXCEPT !.lazy = Over([at \in ats |-> Recomputed(maps, at)], @), !.dirty = TRUE]
  BY FullAtsAre DEF BuildCachedSum, MaterializeLazy
<1> HIDE DEF n
<1>4. p \notin maps.declared /\ p \in maps.cached
  BY <1>1, <1>2
<1>5. /\ DOMAIN RowsOfMaps(maps) = Due(maps, Tracked(maps) \ building)
      /\ \A at \in DOMAIN RowsOfMaps(maps) : RowsOfMaps(maps)[at] = Recomputed(maps, at)
  BY <1>2 DEF Exact
<1>6. Due(maps, Tracked(maps) \ (building \ {p})) = Due(maps, Tracked(maps) \ building) \cup ats
  <2>1. ASSUME NEW q PROVE q \in Tracked(maps) \ (building \ {p}) <=>
                             q \in Tracked(maps) \ building \/ q \in {p}
    BY <1>4 DEF Tracked
  <2> DEFINE X == Tracked(maps) \ (building \ {p})
             Y == Tracked(maps) \ building
  <2>2. X = Y \cup {p}
    BY <2>1
  <2> HIDE DEF X, Y, p
  <2>3. Due(maps, Y \cup {p}) = Due(maps, Y) \cup Due(maps, {p})
    BY DEF Due
  <2> QED BY <2>2, <2>3 DEF X, Y
<1>7. CASE ats = {}
  <2> DEFINE cached == maps.cached \ {p}
  <2>1. cached \subseteq Pairs
    BY <1>2, RecordIs
  <2>2. /\ n \in MapsOf(P) /\ n.owned = maps.owned /\ n.declared = maps.declared
        /\ n.cached = cached /\ n.rollups = maps.rollups /\ n.lazy = maps.lazy
    <3>1. n = [maps EXCEPT !.cached = cached]
      BY <1>3, <1>7
    <3> HIDE DEF cached, p, ats
    <3> QED BY <1>2, <2>1, <3>1 DEF MapsOf
  <2>3. Tracked(n) \ building' = Tracked(maps) \ building
    BY <1>1, <1>4, <2>2 DEF Tracked
  <2>4. Due(n, Tracked(n) \ building') = Due(maps, Tracked(maps) \ building)
        /\ \A at : Recomputed(n, at) = Recomputed(maps, at)
    BY <1>2, <2>2, <2>3, OwnedOnly
  <2>5. Placed(n, n)
    <3>1. \A at : InRollups(n, at) <=> InRollups(maps, at)
      BY <2>2 DEF InRollups
    <3> QED BY <1>2, <2>2, <3>1 DEF Placed
  <2>6. RowsOfMaps(n) = RowsOfMaps(maps)
    BY <2>2 DEF RowsOfMaps
  <2>7. n.declared \cap n.cached = {} /\ building' \subseteq n.cached
    BY <1>1, <1>2, <2>2
  <2>8. Exact(n, building')
    BY <1>5, <2>4, <2>5, <2>6, <2>7 DEF Exact
  <2> HIDE DEF cached, p, ats
  <2> QED BY <1>1, <2>2, <2>7, <2>8 DEF JoinInv, n
<1>8. CASE ats # {}
  <2> DEFINE l == Over([at \in ats |-> Recomputed(maps, at)], maps.lazy)
  <2>1. ats \subseteq Places /\ \A at \in ats : <<at[1], at[3]>> = p
    BY DEF Due
  <2>2. \A at : Recomputed(maps, at) \in Rollup
    BY <1>2, RollupOfChildren
  <2>3. maps.lazy \in Tables
    BY <1>2, RecordIs
  <2> HIDE DEF ats, p
  <2>4. /\ DOMAIN l = ats \cup DOMAIN maps.lazy /\ l = [at \in DOMAIN l |-> l[at]]
        /\ \A at \in DOMAIN l : l[at] = IF at \in ats THEN Recomputed(maps, at) ELSE maps.lazy[at]
    BY DEF Over
  <2>5. n = [maps EXCEPT !.lazy = l, !.dirty = TRUE]
    BY <1>3, <1>8
  <2> HIDE DEF l
  <2>6. l \in Tables
    BY <2>1, <2>2, <2>3, <2>4, TablesAre
  <2>7. /\ n \in MapsOf(P) /\ n.owned = maps.owned /\ n.declared = maps.declared
        /\ n.cached = maps.cached /\ n.rollups = maps.rollups /\ n.lazy = l
    BY <1>2, <2>5, <2>6 DEF MapsOf
  <2>8. \A at : InRollups(n, at) <=> InRollups(maps, at)
    BY <2>7 DEF InRollups
  <2>9. ASSUME NEW at \in ats, InRollups(maps, at) PROVE FALSE
    <3>1. <<at[1], at[3]>> = p
      BY <2>1
    <3>2. PICK b \in DOMAIN maps.rollups : SameTable(b, at)
      BY <1>4, <2>9, <3>1 DEF InRollups, HasTable
    <3>3. b \in DOMAIN RowsOfMaps(maps)
      BY <1>2, <3>2, RowsAre
    <3>4. <<b[1], b[3]>> \notin building
      BY <1>5, <3>3 DEF Due
    <3>5. <<b[1], b[3]>> = p
      BY <3>1, <3>2, SameTableIs
    <3> QED BY <1>1, <3>4, <3>5
  <2>10. Placed(n, n)
    BY <1>2, <2>4, <2>7, <2>8, <2>9 DEF Placed
  <2>11. /\ DOMAIN RowsOfMaps(n) = DOMAIN maps.rollups \cup DOMAIN l
         /\ \A at \in DOMAIN maps.rollups : RowsOfMaps(n)[at] = maps.rollups[at]
         /\ \A at \in DOMAIN l : RowsOfMaps(n)[at] = l[at]
    <3>1. /\ DOMAIN RowsOfMaps(n) = DOMAIN n.rollups \cup DOMAIN n.lazy
          /\ \A at \in DOMAIN n.rollups : RowsOfMaps(n)[at] = n.rollups[at]
          /\ \A at \in DOMAIN n.lazy : RowsOfMaps(n)[at] = n.lazy[at]
      <4>1. n \in MapsOf(P)
        BY <2>7
      <4> QED BY <2>10, <4>1, RowsAre
    <3> QED BY <2>7, <3>1
  <2>12. /\ DOMAIN RowsOfMaps(maps) = DOMAIN maps.rollups \cup DOMAIN maps.lazy
         /\ \A at \in DOMAIN maps.rollups : RowsOfMaps(maps)[at] = maps.rollups[at]
         /\ \A at \in DOMAIN maps.lazy : RowsOfMaps(maps)[at] = maps.lazy[at]
    BY <1>2, RowsAre
  <2>13. Due(n, Tracked(n) \ building') = Due(maps, Tracked(maps) \ building) \cup ats
         /\ \A at : Recomputed(n, at) = Recomputed(maps, at)
    <3>1. Tracked(n) = Tracked(maps)
      BY <2>7 DEF Tracked
    <3> QED BY <1>1, <1>2, <1>6, <2>7, <3>1, OwnedOnly
  <2>14. DOMAIN RowsOfMaps(n) = Due(n, Tracked(n) \ building')
    BY <1>5, <2>4, <2>11, <2>12, <2>13
  <2>15. \A at \in DOMAIN RowsOfMaps(n) : RowsOfMaps(n)[at] = Recomputed(n, at)
    BY <1>5, <2>4, <2>11, <2>12, <2>13
  <2>16. n.declared \cap n.cached = {} /\ building' \subseteq n.cached
    BY <1>1, <1>2, <2>7
  <2>17. Exact(n, building')
    BY <2>10, <2>14, <2>15, <2>16 DEF Exact
  <2> QED BY <1>1, <2>7, <2>16, <2>17 DEF JoinInv, n
<1> HIDE DEF ats
<1> QED BY <1>7, <1>8

LEMMA PersistStep ==
  ASSUME NEW P, RowsOffered(P), JoinInv(P), Persist
  PROVE  JoinInv(P)'
<1>1. Fits(maps, desc, P)
  BY FitsNow DEF Persist
<1>2. Fits(maps', desc', P)
  BY <1>1, AdoptLazyIs DEF Persist
<1>3. ImageOk(disk', P)
  BY <1>1, ImageIs DEF Persist
<1>4. tail' \in Seq(Ops(P)) /\ building' = {}
  BY EmptySeq DEF Persist
<1> QED BY <1>2, <1>3, <1>4 DEF JoinInv, Fits, ExactMaps

LEMMA ReopenStep ==
  ASSUME NEW P, RowsOffered(P), JoinInv(P), NEW kept \in 0..Len(tail), Reopen(kept)
  PROVE  JoinInv(P)'
<1> DEFINE ops == SubSeq(tail, 1, kept)
           loaded == Replayed(Adopt(disk), ops)
           described == Described(disk.desc, ops)
<1>1. ops \in Seq(Ops(P))
  <2>1. tail \in Seq(Ops(P)) /\ Len(tail) \in Nat /\ kept \in Nat
    BY LenProperties DEF JoinInv
  <2>2. \A i \in 1..kept : tail[i] \in Ops(P)
    BY <2>1, ElementOfSeq
  <2> QED BY <2>1, <2>2, SubSeqProperties
<1>2. Fits(Adopt(disk), disk.desc, P)
  BY AdoptIs DEF JoinInv
<1>3. Fits(loaded, described, P)
  BY <1>1, <1>2, ReplayedIs DEF RowsOffered
<1>4. /\ building' = {} /\ desc' = described
      /\ \/ maps' = loaded /\ tail' = ops /\ disk' = disk
         \/ /\ maps' = AdoptLazyRollups(loaded) /\ tail' = <<>>
            /\ disk' = [owned |-> loaded.owned, measures |-> WriteMeasures(loaded), desc |-> described]
  BY DEF Reopen
<1> HIDE DEF ops, loaded, described
<1>5. CASE maps' = loaded /\ tail' = ops /\ disk' = disk
  BY <1>1, <1>3, <1>4, <1>5 DEF JoinInv, Fits, ExactMaps
<1>6. CASE /\ maps' = AdoptLazyRollups(loaded) /\ tail' = <<>>
           /\ disk' = [owned |-> loaded.owned, measures |-> WriteMeasures(loaded), desc |-> described]
  <2>1. Fits(maps', desc', P)
    BY <1>3, <1>4, <1>6, AdoptLazyIs
  <2>2. ImageOk(disk', P)
    BY <1>3, <1>6, ImageIs
  <2>3. tail' \in Seq(Ops(P))
    BY <1>6, EmptySeq
  <2> QED BY <1>4, <2>1, <2>2, <2>3 DEF JoinInv, Fits, ExactMaps
<1> QED BY <1>4, <1>5, <1>6

LEMMA NextJoin ==
  ASSUME NEW P, RowsOffered(P), JoinInv(P), [JoinNext]_joinVars
  PROVE  JoinInv(P)'
<1>1. ASSUME NEW row \in Offered, Install(row) PROVE JoinInv(P)'
  <2> DEFINE op == [what |-> "row", kind |-> row.kind, key |-> row.key, props |-> row.props]
  <2>1. op \in Ops(P)
    BY RowsAssumption DEF Ops, RowsOffered
  <2>2. Write(op) /\ desc' = desc
    BY <1>1 DEF Install
  <2>3. DescribedBy(desc, op) = desc
    BY DEF DescribedBy
  <2> HIDE DEF op
  <2> QED BY <2>1, <2>2, <2>3, WriteStep
<1>2. ASSUME NEW kind \in Kinds, NEW key \in Keys, Hide(kind, key) PROVE JoinInv(P)'
  <2> DEFINE op == [what |-> "hide", kind |-> kind, key |-> key]
  <2>1. op \in Ops(P)
    BY DEF Ops
  <2>2. Write(op) /\ desc' = desc
    BY <1>2 DEF Hide
  <2>3. DescribedBy(desc, op) = desc
    BY DEF DescribedBy
  <2> HIDE DEF op
  <2> QED BY <2>1, <2>2, <2>3, WriteStep
<1>3. ASSUME NEW kind \in Kinds, NEW d \in Descriptors[kind] \cup {NoDescriptor}, Describe(kind, d)
      PROVE  JoinInv(P)'
  <2> DEFINE op == [what |-> "desc", kind |-> kind, desc |-> d]
  <2>1. op \in Ops(P)
    BY DescriptorsAssumption DEF Ops, Descriptions
  <2>2. Write(op) /\ desc' = [desc EXCEPT ![kind] = d]
    BY <1>3 DEF Describe
  <2>3. DescribedBy(desc, op) = [desc EXCEPT ![kind] = d]
    BY DEF DescribedBy
  <2> HIDE DEF op
  <2> QED BY <2>1, <2>2, <2>3, WriteStep
<1>4. ASSUME UNCHANGED joinVars PROVE JoinInv(P)'
  BY <1>4 DEF joinVars, JoinInv
<1> QED BY <1>1, <1>2, <1>3, <1>4, EnterStep, BuildStep, PersistStep, ReopenStep DEF JoinNext

LEMMA MeasuresFollow ==
  ASSUME NEW P, RowsOffered(P), JoinInv(P)
  PROVE  MeasuresExact
<1> DEFINE rows == DOMAIN maps.rollups \cup DOMAIN maps.lazy
<1>1. maps \in MapsOf(P) /\ Exact(maps, building) /\ Placed(maps, maps)
  BY DEF JoinInv, Exact
<1>2. /\ DOMAIN RowsOfMaps(maps) = rows
      /\ \A at \in DOMAIN maps.rollups : RowsOfMaps(maps)[at] = maps.rollups[at]
      /\ \A at \in DOMAIN maps.lazy : RowsOfMaps(maps)[at] = maps.lazy[at]
  BY <1>1, RowsAre
<1>3. /\ rows = Due(maps, Tracked(maps) \ building)
      /\ \A at \in rows : RowsOfMaps(maps)[at] = Recomputed(maps, at)
  BY <1>1, <1>2 DEF Exact
<1>4. ASSUME NEW at \in DOMAIN maps.rollups
      PROVE  ~HasTable(maps.lazy, at) /\ maps.rollups[at] = Recomputed(maps, at)
  <2>1. SUFFICES ASSUME NEW b \in DOMAIN maps.lazy, SameTable(b, at) PROVE FALSE
    BY <1>2, <1>3 DEF HasTable
  <2>2. SameTable(at, b)
    BY <2>1, SameTableIs
  <2>3. HasTable(maps.rollups, b)
    BY <2>2 DEF HasTable
  <2> QED BY <1>1, <2>3 DEF Placed, InRollups
<1>5. \A at \in DOMAIN maps.lazy : maps.lazy[at] = Recomputed(maps, at)
  BY <1>2, <1>3
<1>6. ASSUME NEW at \in rows
      PROVE  /\ KeyIsVisible(maps, at[4])
             /\ <<at[1], at[3]>> \in maps.declared \cup maps.cached
             /\ \A b \in FullAts(maps, at[1], at[3]) : SameTable(b, at) => b \in rows
  <2>1. at \in Due(maps, Tracked(maps) \ building)
    BY <1>3
  <2>2. at \in Places /\ KeyIsVisible(maps, at[4]) /\ <<at[1], at[3]>> \in Tracked(maps) \ building
    BY <2>1 DEF Due
  <2>3. ASSUME NEW b \in FullAts(maps, at[1], at[3]) PROVE b \in rows
    <3>1. b \in Due(maps, {<<at[1], at[3]>>})
      BY <2>2, PlaceIs, FullAtsAre
    <3>2. <<b[1], b[3]>> = <<at[1], at[3]>>
      BY <3>1 DEF Due
    <3> QED BY <1>3, <2>2, <3>1, <3>2 DEF Due
  <2> QED BY <2>2, <2>3 DEF Tracked
<1> QED BY <1>4, <1>5, <1>6 DEF MeasuresExact

(* Every rollup is what a walk over the leaves would count now, for every  *)
(* set of kinds, keys and properties, every wrap of the sums, after every  *)
(* sequence of writes, first uses, checkpoints and reopens (joins.rs keeps *)
(* the rollups by differences and carries them over a replay).             *)
THEOREM MeasuresStayExact == JoinSpec => []MeasuresExact
<1>1. JoinInit => JoinInv(AllProps)
  BY PropsAre, InitJoin
<1>2. JoinInv(AllProps) /\ [JoinNext]_joinVars => JoinInv(AllProps)'
  BY PropsAre, NextJoin
<1>3. JoinInv(AllProps) => MeasuresExact
  BY PropsAre, MeasuresFollow
<1> QED BY <1>1, <1>2, <1>3, PTL DEF JoinSpec

-----------------------------------------------------------------------------
(* The invariant of the tuning advisor: the one of the maps, and of a      *)
(* round: nothing is being built; the descriptors are those it began with  *)
(* and the changes it kept, beside the one it is about to look at, or the  *)
(* one an error ended it at; what it looks at can be answered before a     *)
(* change and after it, and a change that changed nothing costs what it    *)
(* did before; the drops are through when the first add is kept; and the   *)
(* rows of the measures it kept, and of the one it is at, are paid for.    *)
Adds == {"add_index", "cache_measure"}

Sugg == [what : Adds \cup Drops, kind : Kinds, prop : Props, bytes : Nat]

Steps == {"next", "before", "apply", "after", "undo", "last", "end"}

RoundOf ==
  [at : Steps, todo : SUBSET Sugg, budget : Nat, used : Nat, kept : SUBSET Sugg,
   undone : SUBSET Sugg, skipped : SUBSET Sugg, now : Sugg \cup {Idle}, bytes : Nat,
   before : [scanned : Int, cached : BOOLEAN], failed : BOOLEAN, cut : BOOLEAN,
   start : Descs, fresh : BOOLEAN]

PropsIn(kept, what, kind) == {s.prop : s \in {t \in kept : t.what = what /\ t.kind = kind}}

DescAfter(d, kept, kind) ==
  [sums |-> (d.sums \ PropsIn(kept, "drop_measure", kind)) \cup PropsIn(kept, "cache_measure", kind),
   indexes |-> (d.indexes \ PropsIn(kept, "drop_index", kind)) \cup PropsIn(kept, "add_index", kind),
   dropped |-> d.dropped]

DescsAfter(start, kept) ==
  [kind \in Kinds |-> IF start[kind] = NoDescriptor THEN NoDescriptor
                      ELSE DescAfter(start[kind], kept, kind)]

KeptDescs == DescsAfter(tuner.start, tuner.kept)

MeasuresIn(kept) == {<<s.kind, s.prop>> : s \in {t \in kept : t.what = "cache_measure"}}

SpentOn(m, kept, used) ==
  /\ IsFiniteSet(Due(m, MeasuresIn(kept)))
  /\ MeasureBytes * Cardinality(Due(m, MeasuresIn(kept))) <= used

Extra(s) ==
  /\ KeptDescs[s.kind] # NoDescriptor
  /\ desc = [KeptDescs EXCEPT ![s.kind] = Edited(@, s)]

LeftOver ==
  \/ tuner.cut /\ \E s \in suggested :
       s \in Sugg /\ Extra(s) /\ SpentOn(maps, tuner.kept \cup {s}, tuner.budget)
  \/ tuner.failed /\ \E s \in suggested : s \in Sugg /\ s.what \in Adds /\ Extra(Inverted(s))

DescHolds ==
  IF tuner.at \in {"after", "undo"} THEN Extra(tuner.now)
  ELSE desc = KeptDescs \/ (tuner.at = "end" /\ LeftOver)

Known == tuner.now.prop \in KeptDescs[tuner.now.kind].indexes

(* What a request costs and needs, of given maps and descriptors.          *)
ProbeOf(window, s) == window[Min({i \in DOMAIN window : Tells(window[i], s)})]

AnsweredIn(m, req) ==
  OntoMeasure(req) /\ <<req.sumKind, req.sumProp>> \notin m.declared \cup m.cached =>
    /\ ~(Cardinality(VisibleKeys(m, req.sumKind)) > LeafBudget)
    /\ (\E key \in VisibleKeys(m, req.sumKind) : HasAmount(m.owned[<<req.sumKind, key>>], req.sumProp))
         => /\ ~(Cardinality(m.cached) >= MaxCached)
            /\ FullAts(m, req.sumKind, req.sumProp) = {}

ReadyIn(m, descs, req) ==
  \/ <<req.sumKind, req.sumProp>> \in m.declared \cup m.cached
  \/ descs[req.sumKind] # NoDescriptor /\ req.sumProp \in descs[req.sumKind].sums

IndexesOf(descs) ==
  [kind \in Kinds |-> IF descs[kind] = NoDescriptor THEN {} ELSE descs[kind].indexes]

ScanIn(m, descs, req) ==
  HopsCost([owned |-> m.owned, indexes |-> IndexesOf(descs)], req)
    + (IF UsesRollups(req) /\ ~ReadyIn(m, descs, req)
       THEN Cardinality(VisibleKeys(m, req.sumKind)) ELSE 0)

BytesIn(m, s) ==
  IF s.what = "cache_measure" THEN MeasureBytes * Cardinality(FullAts(m, s.kind, s.prop)) ELSE 0

ProbeHolds ==
  /\ tuner.at \in Steps \ {"next", "end"} =>
       /\ tuner.now \in Sugg \cap suggested /\ tuner.now.what \in Adds
       /\ \E i \in DOMAIN samples : Tells(samples[i], tuner.now)
  /\ tuner.at \in {"apply", "after"} => AnsweredIn(maps, ProbeOf(samples, tuner.now))
  /\ tuner.at = "apply" => tuner.before.scanned = ScanIn(maps, desc, ProbeOf(samples, tuner.now))
  /\ tuner.at = "after" /\ tuner.now.what = "add_index" /\ Known =>
       tuner.before.scanned = ScanIn(maps, desc, ProbeOf(samples, tuner.now))
  /\ tuner.at = "undo" => tuner.failed \/ (tuner.now.what = "add_index" /\ ~Known)

DropsFirst ==
  /\ tuner.todo \subseteq suggested
  /\ \/ tuner.at = "end"
     \/ tuner.at = "next" /\ \A s \in tuner.kept : s.what \in Drops
     \/ \A s \in tuner.todo : s.what \in Adds

SpentHolds ==
  /\ SpentOn(maps, tuner.kept, tuner.used)
  /\ tuner.used <= tuner.budget
  /\ tuner.at \in {"before", "apply", "after", "undo"} =>
       tuner.bytes = BytesIn(maps, tuner.now) /\ tuner.used + tuner.bytes <= tuner.budget

RoundInv ==
  \/ tuner = Idle
  \/ /\ tuner \in RoundOf /\ building = {}
     /\ DescHolds /\ ProbeHolds /\ DropsFirst /\ SpentHolds

WindowInv ==
  /\ samples \in Seq(Requests)
  /\ \A s \in suggested : s.what = "denormalize" \/ s \in Sugg
-----------------------------------------------------------------------------
(* One edit of a descriptor.                                               *)

LEMMA CachedAfter ==
  ASSUME NEW P, NEW m \in MapsOf(P), NEW leaf \in Kinds, NEW sums \in SUBSET Props
  PROVE  SetDeclaredSums(m, leaf, sums).cached = {p \in m.cached : ~(p[1] = leaf /\ p[2] \in sums)}
<1> DEFINE declared == {p \in m.declared : p[1] # leaf} \cup ({leaf} \X sums)
           cached == {p \in m.cached : ~(p[1] = leaf /\ p[2] \in sums)}
           lazy == WithoutRows(m.lazy, RowsOf(m.lazy, leaf, sums))
           a == AdoptDeclaredSums(m, leaf, sums)
           n == SetDeclaredSums(m, leaf, sums)
<1>1. a = [m EXCEPT !.declared = declared, !.cached = cached, !.lazy = lazy]
  BY DEF AdoptDeclaredSums, DropCachedPairs, MapsOf
<1> HIDE DEF declared, cached, lazy
<1>2. /\ a.cached = cached
      /\ a = [owned |-> a.owned, declared |-> a.declared, cached |-> a.cached,
              rollups |-> a.rollups, lazy |-> a.lazy, dirty |-> a.dirty]
  BY <1>1 DEF MapsOf
<1> HIDE DEF a
<1>3. n = RebuildLeafRollups(a, leaf)
  BY DEF SetDeclaredSums, a
<1>4. n.cached = a.cached
  BY <1>2, <1>3 DEF RebuildLeafRollups
<1> QED BY <1>2, <1>4 DEF cached

LEMMA EditedIs ==
  ASSUME NEW d \in Descriptions, NEW s \in Sugg
  PROVE  /\ Edited(d, s) \in Descriptions
         /\ Edited(d, s).dropped = d.dropped
         /\ s.what = "add_index" =>
              Edited(d, s).indexes = d.indexes \cup {s.prop} /\ Edited(d, s).sums = d.sums
         /\ s.what = "drop_index" =>
              Edited(d, s).indexes = d.indexes \ {s.prop} /\ Edited(d, s).sums = d.sums
         /\ s.what = "cache_measure" =>
              Edited(d, s).sums = d.sums \cup {s.prop} /\ Edited(d, s).indexes = d.indexes
         /\ s.what = "drop_measure" =>
              Edited(d, s).sums = d.sums \ {s.prop} /\ Edited(d, s).indexes = d.indexes
<1>1. s.what \in Adds \cup Drops /\ s.prop \in Props
  BY DEF Sugg
<1>2. CASE s.what = "add_index"
  BY <1>1, <1>2 DEF Edited, Descriptions
<1>3. CASE s.what = "drop_index"
  BY <1>1, <1>3 DEF Edited, Descriptions
<1>4. CASE s.what = "cache_measure"
  BY <1>1, <1>4 DEF Edited, Descriptions
<1>5. CASE s.what = "drop_measure"
  BY <1>1, <1>5 DEF Edited, Descriptions
<1> QED BY <1>1, <1>2, <1>3, <1>4, <1>5 DEF Adds, Drops

EditDone(P, s) ==
  /\ JoinInv(P)' /\ building' = {} /\ maps'.owned = maps.owned
  /\ desc[s.kind] \in Descriptions /\ desc[s.kind] # NoDescriptor
  /\ desc' = [desc EXCEPT ![s.kind] = Edited(@, s)]
  /\ maps'.cached =
       {p \in maps.cached : ~(p[1] = s.kind /\ p[2] \in Edited(desc[s.kind], s).sums)}

LEMMA EditStep ==
  ASSUME NEW P, RowsOffered(P), JoinInv(P), building = {}, NEW s \in Sugg, EditSchema(s)
  PROVE  EditDone(P, s)
<1> DEFINE d == Edited(desc[s.kind], s)
           op == [what |-> "desc", kind |-> s.kind, desc |-> d]
<1>1. s.kind \in Kinds /\ desc \in Descs /\ desc[s.kind] # NoDescriptor
  BY DEF Sugg, JoinInv, EditSchema, CanEdit
<1>2. desc[s.kind] \in Descriptions
  BY <1>1 DEF Descs
<1>3. d \in Descriptions
  BY <1>2, EditedIs
<1>4. /\ desc' = [desc EXCEPT ![s.kind] = d] /\ maps' = Applied(maps, op) /\ tail' = Append(tail, op)
      /\ building' = building /\ disk' = disk
  BY DEF EditSchema
<1> HIDE DEF d
<1>5. d # NoDescriptor
  BY <1>3, DescriptorsAssumption DEF Descriptions
<1>6. op \in Ops(P)
  BY <1>1, <1>3 DEF Ops
<1>7. /\ op.what = "desc" /\ op.kind = s.kind /\ op.desc = d
  OBVIOUS
<1> HIDE DEF op
<1>8. Fits(maps, desc, P) /\ maps \in ExactMaps(P) /\ PropsOk(P)
  BY FitsNow DEF Fits, RowsOffered
<1>9. Fits(maps', DescribedBy(desc, op), P)
  BY <1>4, <1>6, <1>8, AppliedIs
<1>10. DescribedBy(desc, op) = desc'
  BY <1>4, <1>7 DEF DescribedBy
<1>11. tail' \in Seq(Ops(P))
  BY <1>4, <1>6, AppendProperties DEF JoinInv
<1>12. JoinInv(P)'
  BY <1>4, <1>9, <1>10, <1>11 DEF JoinInv, Fits, ExactMaps
<1>13. d.sums \in SUBSET Props
  BY <1>3 DEF Descriptions
<1>14. maps' = SetDeclaredSums(maps, s.kind, d.sums)
  BY <1>4, <1>5, <1>7 DEF Applied, RefreshLeafMeasures
<1>15. maps \in MapsOf(P) /\ Exact(maps, {})
  BY <1>8 DEF ExactMaps
<1>16. Redeclared(maps', maps, s.kind, {s.kind} \X d.sums, P)
  BY <1>1, <1>13, <1>14, <1>15, SetDeclaredIs
<1>17. maps'.owned = maps.owned
  BY <1>16 DEF Redeclared
<1>18. maps'.cached = {p \in maps.cached : ~(p[1] = s.kind /\ p[2] \in d.sums)}
  BY <1>1, <1>13, <1>14, <1>15, CachedAfter
<1> QED BY <1>1, <1>2, <1>4, <1>12, <1>17, <1>18 DEF EditDone, d

-----------------------------------------------------------------------------
(* What a round keeps.                                                     *)

LEMMA PropsMore ==
  ASSUME NEW kept, NEW s, NEW what, NEW kind
  PROVE  PropsIn(kept \cup {s}, what, kind) =
           IF s.what = what /\ s.kind = kind THEN PropsIn(kept, what, kind) \cup {s.prop}
           ELSE PropsIn(kept, what, kind)
BY DEF PropsIn

LEMMA DescAfterIs ==
  ASSUME NEW d \in Descriptions, NEW kept \in SUBSET Sugg, NEW kind
  PROVE  DescAfter(d, kept, kind) \in Descriptions
<1>1. \A what : PropsIn(kept, what, kind) \subseteq Props
  BY DEF PropsIn, Sugg
<1>2. /\ (d.sums \ PropsIn(kept, "drop_measure", kind)) \cup PropsIn(kept, "cache_measure", kind) \in SUBSET Props
      /\ (d.indexes \ PropsIn(kept, "drop_index", kind)) \cup PropsIn(kept, "add_index", kind) \in SUBSET Props
  BY <1>1 DEF Descriptions
<1> QED BY <1>2 DEF DescAfter, Descriptions

LEMMA DescriptionsEqual ==
  ASSUME NEW d \in Descriptions, NEW e \in Descriptions,
         d.sums = e.sums, d.indexes = e.indexes, d.dropped = e.dropped
  PROVE  d = e
BY DEF Descriptions

LEMMA DescMore ==
  ASSUME NEW d \in Descriptions, NEW kept \in SUBSET Sugg, NEW s \in Sugg,
         s.what \in Drops => \A t \in kept : t.what \in Drops
  PROVE  DescAfter(d, kept \cup {s}, s.kind) = Edited(DescAfter(d, kept, s.kind), s)
<1> DEFINE k == s.kind
           a == DescAfter(d, kept, k)
           b == DescAfter(d, kept \cup {s}, k)
           In(what) == PropsIn(kept, what, k)
           Then(what) == PropsIn(kept \cup {s}, what, k)
<1>1. a \in Descriptions /\ b \in Descriptions
  <2>1. kept \cup {s} \in SUBSET Sugg
    OBVIOUS
  <2> QED BY <2>1, DescAfterIs
<1>2. b = Edited(a, s) <=> /\ b.sums = Edited(a, s).sums /\ b.indexes = Edited(a, s).indexes
                            /\ b.dropped = Edited(a, s).dropped
  BY <1>1, EditedIs, DescriptionsEqual
<1>3. /\ a.sums = (d.sums \ In("drop_measure")) \cup In("cache_measure")
      /\ a.indexes = (d.indexes \ In("drop_index")) \cup In("add_index") /\ a.dropped = d.dropped
      /\ b.sums = (d.sums \ Then("drop_measure")) \cup Then("cache_measure")
      /\ b.indexes = (d.indexes \ Then("drop_index")) \cup Then("add_index") /\ b.dropped = d.dropped
  BY DEF DescAfter
<1>4. \A what : Then(what) = IF s.what = what THEN In(what) \cup {s.prop} ELSE In(what)
  BY PropsMore
<1>5. s.what \in Drops => In("add_index") = {} /\ In("cache_measure") = {}
  BY DEF PropsIn, Drops
<1>6. s.what \in Adds \cup Drops
  BY DEF Sugg
<1> HIDE DEF a, b, In, Then
<1>7. ASSUME s.what = "add_index" PROVE b = Edited(a, s)
  <2>1. b.sums = a.sums /\ b.indexes = a.indexes \cup {s.prop} /\ b.dropped = a.dropped
    BY <1>3, <1>4, <1>7
  <2> QED BY <1>1, <1>2, <1>7, <2>1, EditedIs
<1>8. ASSUME s.what = "drop_index" PROVE b = Edited(a, s)
  <2>1. b.sums = a.sums /\ b.indexes = a.indexes \ {s.prop} /\ b.dropped = a.dropped
    BY <1>3, <1>4, <1>5, <1>8 DEF Drops
  <2> QED BY <1>1, <1>2, <1>8, <2>1, EditedIs
<1>9. ASSUME s.what = "cache_measure" PROVE b = Edited(a, s)
  <2>1. b.sums = a.sums \cup {s.prop} /\ b.indexes = a.indexes /\ b.dropped = a.dropped
    BY <1>3, <1>4, <1>9
  <2> QED BY <1>1, <1>2, <1>9, <2>1, EditedIs
<1>10. ASSUME s.what = "drop_measure" PROVE b = Edited(a, s)
  <2>1. b.sums = a.sums \ {s.prop} /\ b.indexes = a.indexes /\ b.dropped = a.dropped
    BY <1>3, <1>4, <1>5, <1>10 DEF Drops
  <2> QED BY <1>1, <1>2, <1>10, <2>1, EditedIs
<1>11. b = Edited(a, s)
  BY <1>6, <1>7, <1>8, <1>9, <1>10 DEF Adds, Drops
<1> QED BY <1>11 DEF a, b

LEMMA DescsAfterIs ==
  ASSUME NEW start \in Descs, NEW kept \in SUBSET Sugg
  PROVE  DescsAfter(start, kept) \in Descs
BY DescAfterIs DEF DescsAfter, Descs

LEMMA KeptMore ==
  ASSUME NEW start \in Descs, NEW kept \in SUBSET Sugg, NEW s \in Sugg,
         s.what \in Drops => \A t \in kept : t.what \in Drops,
         DescsAfter(start, kept)[s.kind] # NoDescriptor
  PROVE  DescsAfter(start, kept \cup {s}) = [DescsAfter(start, kept) EXCEPT ![s.kind] = Edited(@, s)]
<1> DEFINE a == DescsAfter(start, kept)
           b == DescsAfter(start, kept \cup {s})
           e == [a EXCEPT ![s.kind] = Edited(@, s)]
<1>1. s.kind \in Kinds
  BY DEF Sugg
<1>2. start[s.kind] # NoDescriptor /\ start[s.kind] \in Descriptions
  BY <1>1 DEF DescsAfter, Descs
<1>3. a[s.kind] = DescAfter(start[s.kind], kept, s.kind)
      /\ b[s.kind] = DescAfter(start[s.kind], kept \cup {s}, s.kind)
  BY <1>1, <1>2 DEF DescsAfter
<1>4. b[s.kind] = Edited(a[s.kind], s)
  BY <1>2, <1>3, DescMore
<1>5. ASSUME NEW kind \in Kinds, kind # s.kind PROVE b[kind] = a[kind]
  <2>1. ASSUME NEW what PROVE PropsIn(kept \cup {s}, what, kind) = PropsIn(kept, what, kind)
    BY <1>5 DEF PropsIn
  <2>2. DescAfter(start[kind], kept \cup {s}, kind) = DescAfter(start[kind], kept, kind)
    BY <2>1 DEF DescAfter
  <2> QED BY <2>2 DEF DescsAfter
<1>6. a = [kind \in Kinds |-> a[kind]] /\ b = [kind \in Kinds |-> b[kind]]
  BY DEF DescsAfter
<1> HIDE DEF a, b
<1>7. e = [kind \in Kinds |-> IF kind = s.kind THEN Edited(a[s.kind], s) ELSE a[kind]]
  BY <1>1, <1>6
<1>8. \A kind \in Kinds : b[kind] = IF kind = s.kind THEN Edited(a[s.kind], s) ELSE a[kind]
  BY <1>4, <1>5
<1> HIDE DEF e
<1>9. b = e
  BY <1>6, <1>7, <1>8
<1> QED BY <1>9 DEF a, b, e

LEMMA KeptNone ==
  ASSUME NEW start \in Descs
  PROVE  DescsAfter(start, {}) = start
<1>1. \A what, kind : PropsIn({}, what, kind) = {}
  BY DEF PropsIn
<1>2. ASSUME NEW d \in Descriptions, NEW kind PROVE DescAfter(d, {}, kind) = d
  BY <1>1, <1>2 DEF DescAfter, Descriptions
<1>3. \A kind \in Kinds : start[kind] = NoDescriptor \/ start[kind] \in Descriptions
  BY DEF Descs
<1>4. start = [kind \in Kinds |-> start[kind]]
  BY DEF Descs
<1>5. \A kind \in Kinds : DescsAfter(start, {})[kind] = start[kind]
  BY <1>2, <1>3 DEF DescsAfter
<1>6. DescsAfter(start, {}) = [kind \in Kinds |-> DescsAfter(start, {})[kind]]
  BY DEF DescsAfter
<1> QED BY <1>4, <1>5, <1>6

-----------------------------------------------------------------------------
(* What a probe asks.                                                      *)

LEMMA MinIn ==
  ASSUME NEW S \in SUBSET Nat, S # {}
  PROVE  Min(S) \in S
<1> DEFINE T == {n \in Nat : \A t \in SUBSET Nat :
                   (\E i \in t : i <= n) => \E x \in t : \A y \in t : x <= y}
<1>1. 0 \in T
  <2> SUFFICES ASSUME NEW t \in SUBSET Nat, NEW i \in t, i <= 0
               PROVE  \E x \in t : \A y \in t : x <= y
    OBVIOUS
  <2>1. \A y \in t : i <= y
    OBVIOUS
  <2> QED BY <2>1
<1>2. ASSUME NEW n \in T PROVE n + 1 \in T
  <2> SUFFICES ASSUME NEW t \in SUBSET Nat, NEW i \in t, i <= n + 1
               PROVE  \E x \in t : \A y \in t : x <= y
    OBVIOUS
  <2>1. CASE \E j \in t : j <= n
    BY <2>1
  <2>2. CASE ~\E j \in t : j <= n
    <3>1. \A y \in t : i <= y
      BY <2>2
    <3> QED BY <3>1
  <2> QED BY <2>1, <2>2
<1> HIDE DEF T
<1>3. T = Nat
  <2>1. T \subseteq Nat BY DEF T
  <2> QED BY <1>1, <1>2, <2>1, NatSetInduction
<1>4. PICK n \in S : TRUE
  OBVIOUS
<1>5. n \in T /\ n <= n
  BY <1>3
<1>6. \E x \in S : \A y \in S : x <= y
  BY <1>4, <1>5 DEF T
<1> QED BY <1>6 DEF Min

LEMMA ProbeIs ==
  ASSUME NEW window \in Seq(Requests), NEW s, \E i \in DOMAIN window : Tells(window[i], s)
  PROVE  ProbeOf(window, s) \in Requests /\ Tells(ProbeOf(window, s), s)
<1> DEFINE S == {i \in DOMAIN window : Tells(window[i], s)}
<1>1. S \in SUBSET Nat /\ S # {}
  <2>1. DOMAIN window = 1..Len(window) /\ Len(window) \in Nat
    BY LenProperties
  <2> QED BY <2>1
<1>2. Min(S) \in S
  BY <1>1, MinIn
<1>3. Min(S) \in DOMAIN window /\ Tells(window[Min(S)], s)
  BY <1>2
<1>4. window[Min(S)] \in Requests
  BY <1>3, ElementOfSeq, LenProperties
<1> QED BY <1>3, <1>4 DEF ProbeOf

LEMMA AnsweredIs ==
  ASSUME NEW req
  PROVE  /\ Answered(req) => AnsweredIn(maps, req)
         /\ AnsweredIn(maps, req) => ~Refused(req) /\ ~Unbuilt(req)
BY DEF Answered, Refused, Unbuilt, Measured, AnsweredIn

LEMMA CostIs ==
  ASSUME NEW req \in Requests
  PROVE  /\ ScanCost(req) = ScanIn(maps, desc, req)
         /\ MeasureIsCached(req) <=> UsesRollups(req) /\ ReadyIn(maps, desc, req)
<1>1. TableReady(req) <=> ReadyIn(maps, desc, req)
  BY DEF TableReady, Measured, ReadyIn
<1>2. Seen = [owned |-> maps.owned, indexes |-> IndexesOf(desc)]
  BY DEF Seen, Indexes, IndexesOf
<1> QED BY <1>1, <1>2 DEF ScanCost, ScanIn, MeasureIsCached

LEMMA BytesAre ==
  ASSUME NEW s
  PROVE  AddBytes(s) = BytesIn(maps, s)
BY DEF AddBytes, BytesIn, LiveBytes

(* The cost is a number.                                                   *)
Costs == [scanned : Int, frontier : Int]

CostAfter(seen, acc, hop) ==
  IF hop.pred = NoPred THEN acc
  ELSE IF IsIndexTree(hop.pred, seen.indexes[hop.far])
  THEN LET n == Cardinality(IndexIds(seen, hop.far, hop.pred)) IN
       [scanned |-> acc.scanned + n, frontier |-> n]
  ELSE [acc EXCEPT !.scanned = @ + acc.frontier]

LEMMA IdsFinite ==
  ASSUME NEW seen, IsFiniteSet(DOMAIN seen.owned), NEW kind, NEW pred
  PROVE  Cardinality(IndexIds(seen, kind, pred)) \in Int
<1>1. IndexIds(seen, kind, pred) \in SUBSET VisibleKeys(seen, kind)
  BY DEF IndexIds
<1> QED BY <1>1, VisibleFinite, FS_Subset, FS_CardinalityType

LEMMA CostTyped ==
  ASSUME NEW seen, IsFiniteSet(DOMAIN seen.owned), NEW acc \in Costs, NEW hop
  PROVE  CostAfter(seen, acc, hop) \in Costs
<1>1. Cardinality(IndexIds(seen, hop.far, hop.pred)) \in Int
  BY IdsFinite
<1> QED BY <1>1 DEF CostAfter, Costs

LEMMA HopsTyped ==
  ASSUME NEW seen, IsFiniteSet(DOMAIN seen.owned), NEW req \in Requests
  PROVE  HopsCost(seen, req) \in Int
<1> DEFINE B == ToSet(req.hops)
           seq == req.hops
           N == Len(seq)
           base == [scanned |-> RootCost(seen, req), frontier |-> RootCost(seen, req)]
           F(g) == g = [s \in SUBSET (1..N) |->
                          IF s = {} THEN base ELSE CostAfter(seen, g[s \ {Max(s)}], seq[Max(s)])]
           step == [p \in Costs \X B |-> CostAfter(seen, p[1], p[2])]
<1>1. seq \in Seq(B)
  BY KindsAssumption
<1>2. N \in Nat /\ DOMAIN seq = 1..N /\ \A i \in 1..N : seq[i] \in B
  BY <1>1, LenProperties, ElementOfSeq
<1>3. RootCost(seen, req) \in Int
  <2>1. Cardinality(VisibleKeys(seen, req.root)) \in Int
    BY VisibleFinite, FS_CardinalityType
  <2>2. Cardinality(IndexIds(seen, req.root, req.pred)) \in Int
    BY IdsFinite
  <2> QED BY <2>1, <2>2 DEF RootCost
<1>4. base \in Costs
  BY <1>3 DEF Costs
<1>5. step \in [Costs \X B -> Costs]
  BY CostTyped
<1>6. \A a \in Costs, r \in B : step[<<a, r>>] = CostAfter(seen, a, r)
  OBVIOUS
<1> HIDE DEF B, base, step
<1>7. ASSUME NEW g, FoldsTo(g, base, step, seq, N) PROVE F(g)
  <2>1. \A s \in SUBSET (1..N) :
          /\ g[s] \in Costs
          /\ s # {} => Max(s) \in 1..N /\ s \ {Max(s)} \in SUBSET (1..N)
    BY <1>1, <1>4, <1>5, <1>7, FoldsToTyped
  <2>2. \A s \in SUBSET (1..N) : s # {} =>
          step[<<g[s \ {Max(s)}], seq[Max(s)]>>] = CostAfter(seen, g[s \ {Max(s)}], seq[Max(s)])
    BY <1>2, <1>6, <2>1
  <2> HIDE DEF N, seq
  <2> QED BY <1>7, <2>2 DEF FoldsTo
<1>8. ASSUME NEW g, F(g) PROVE FoldsTo(g, base, step, seq, N)
  <2>1. g = [s \in SUBSET (1..N) |-> g[s]] /\ g[{}] = base
    BY <1>8
  <2>2. \A s \in SUBSET (1..N) :
          s # {} /\ g[s \ {Max(s)}] \in Costs /\ seq[Max(s)] \in B
            => g[s] = step[<<g[s \ {Max(s)}], seq[Max(s)]>>]
    BY <1>6, <1>8
  <2> HIDE DEF seq
  <2> QED BY <1>1, <1>4, <1>5, <2>1, <2>2, FoldsToFrom DEF N
<1> DEFINE h == CHOOSE g : F(g)
<1>9. F(h)
  <2>1. \E g : F(g)
    BY <1>2, <1>7, FoldsExist
  <2> HIDE DEF F
  <2> QED BY <2>1
<1>10. HopsCost(seen, req) = h[1..N].scanned
  BY <1>2 DEF HopsCost, FoldLeft, MapThenFoldSet, CostAfter, base
<1> HIDE DEF F, h
<1>11. FoldsTo(h, base, step, seq, N)
  BY <1>8, <1>9
<1>12. \A s \in SUBSET (1..N) : h[s] \in Costs
  <2> HIDE DEF seq
  <2> QED BY <1>1, <1>4, <1>5, <1>11, FoldsToTyped
<1>13. 1..N \in SUBSET (1..N)
  OBVIOUS
<1> HIDE DEF N
<1>14. h[1..N] \in Costs
  BY <1>12, <1>13
<1> QED BY <1>10, <1>14 DEF Costs

LEMMA ScanTyped ==
  ASSUME NEW m, IsFiniteSet(DOMAIN m.owned), NEW descs, NEW req \in Requests
  PROVE  ScanIn(m, descs, req) \in Int
<1> DEFINE seen == [owned |-> m.owned, indexes |-> IndexesOf(descs)]
<1>1. seen.owned = m.owned
  OBVIOUS
<1> HIDE DEF seen
<1>2. HopsCost(seen, req) \in Int
  BY <1>1, HopsTyped
<1>3. Cardinality(VisibleKeys(m, req.sumKind)) \in Int
  BY VisibleFinite, FS_CardinalityType
<1> QED BY <1>2, <1>3 DEF ScanIn, seen

-----------------------------------------------------------------------------
(* What an edit, or a table built, leaves of a probe.                      *)

LEMMA SameOwned ==
  ASSUME NEW m, NEW n, n.owned = m.owned
  PROVE  /\ \A kind : VisibleKeys(n, kind) = VisibleKeys(m, kind)
         /\ \A kind, sum : FullAts(n, kind, sum) = FullAts(m, kind, sum)
         /\ \A s : BytesIn(n, s) = BytesIn(m, s)
         /\ \A pairs : Due(n, pairs) = Due(m, pairs)
<1>1. \A kind : VisibleKeys(n, kind) = VisibleKeys(m, kind)
  BY DEF VisibleKeys
<1>2. \A kind, prop, value : Children(n, kind, prop, value) = Children(m, kind, prop, value)
  BY <1>1 DEF Children
<1>3. \A key : KeyIsVisible(n, key) <=> KeyIsVisible(m, key)
  BY DEF KeyIsVisible
<1>4. \A kind, sum : FullAts(n, kind, sum) = FullAts(m, kind, sum)
  BY <1>2, <1>3 DEF FullAts
<1>5. \A s : BytesIn(n, s) = BytesIn(m, s)
  BY <1>4 DEF BytesIn
<1>6. \A pairs : Due(n, pairs) = Due(m, pairs)
  BY <1>2, <1>3 DEF Due
<1> QED BY <1>1, <1>4, <1>5, <1>6

LEMMA SameAnswers ==
  ASSUME NEW m, NEW n, n.owned = m.owned, n.declared = m.declared, n.cached = m.cached, NEW req
  PROVE  /\ AnsweredIn(n, req) <=> AnsweredIn(m, req)
         /\ \A descs : ScanIn(n, descs, req) = ScanIn(m, descs, req)
<1>1. /\ VisibleKeys(n, req.sumKind) = VisibleKeys(m, req.sumKind)
      /\ FullAts(n, req.sumKind, req.sumProp) = FullAts(m, req.sumKind, req.sumProp)
  BY SameOwned
<1>2. AnsweredIn(n, req) <=> AnsweredIn(m, req)
  BY <1>1 DEF AnsweredIn
<1>3. \A descs : ReadyIn(n, descs, req) <=> ReadyIn(m, descs, req)
  BY DEF ReadyIn
<1> QED BY <1>1, <1>2, <1>3 DEF ScanIn

LEMMA AtsFinite ==
  ASSUME NEW P, PropsOk(P), NEW m \in MapsOf(P), NEW leaf \in Kinds, NEW sum \in Props
  PROVE  /\ IsFiniteSet(Due(m, {<<leaf, sum>>}))
         /\ Cardinality(FullAts(m, leaf, sum)) \in Nat
<1> DEFINE keys == VisibleKeys(m, leaf)
           row(key) == m.owned[<<leaf, key>>]
           rows(key) == {<<leaf, q, sum, row(key)[q]>> : q \in DOMAIN row(key)}
           family == {rows(key) : key \in keys}
<1>1. IsFiniteSet(keys) /\ m.owned \in Owneds(P)
  BY OwnedFinite, VisibleFinite, RecordIs
<1>2. ASSUME NEW key \in keys PROVE IsFiniteSet(DOMAIN row(key))
  <2>1. <<leaf, key>> \in DOMAIN m.owned
    BY DEF VisibleKeys
  <2> QED BY <1>1, <2>1, OwnedsAre DEF PropsOk
<1>3. ASSUME NEW key \in keys PROVE IsFiniteSet(rows(key))
  <2> DEFINE D == DOMAIN row(key)
             R == rows(key)
             f == [q \in D |-> <<leaf, q, sum, row(key)[q]>>]
  <2>1. \A at \in R : \E q \in D : f[q] = at
    OBVIOUS
  <2>2. f \in [D -> R]
    OBVIOUS
  <2> HIDE DEF f, R, D
  <2>3. f \in Surjection(D, R)
    BY <2>1, <2>2 DEF Surjection
  <2> QED BY <1>2, <2>3, FS_Surjection DEF D, R
<1>4. IsFiniteSet(family)
  <2> DEFINE f == [key \in keys |-> rows(key)]
  <2>1. \A T \in family : \E key \in keys : f[key] = T
    OBVIOUS
  <2>2. f \in [keys -> family]
    OBVIOUS
  <2> HIDE DEF f, family, keys
  <2>3. f \in Surjection(keys, family)
    BY <2>1, <2>2 DEF Surjection
  <2> QED BY <1>1, <2>3, FS_Surjection
<1>5. IsFiniteSet(UNION family)
  <2>1. \A T \in family : IsFiniteSet(T)
    BY <1>3
  <2> HIDE DEF family
  <2> QED BY <1>4, <2>1, FS_UNION
<1>6. ASSUME NEW at \in Due(m, {<<leaf, sum>>}) PROVE at \in UNION family
  <2>1. at = <<at[1], at[2], at[3], at[4]>> /\ at[1] = leaf /\ at[3] = sum
        /\ Children(m, leaf, at[2], at[4]) # {}
    BY PlaceIs DEF Due
  <2>2. PICK key \in Children(m, leaf, at[2], at[4]) : TRUE
    BY <2>1
  <2>3. key \in keys /\ at[2] \in DOMAIN row(key) /\ row(key)[at[2]] = at[4]
    BY DEF Children
  <2>4. at \in rows(key)
    BY <2>1, <2>3
  <2> QED BY <2>3, <2>4
<1>7. IsFiniteSet(Due(m, {<<leaf, sum>>}))
  <2> DEFINE T == Due(m, {<<leaf, sum>>})
  <2>1. T \in SUBSET (UNION family)
    BY <1>6
  <2> HIDE DEF T, family
  <2> QED BY <1>5, <2>1, FS_Subset DEF T
<1> QED BY <1>7, FullAtsAre, FS_CardinalityType

LEMMA BytesTyped ==
  ASSUME NEW P, PropsOk(P), NEW m \in MapsOf(P), NEW s \in Sugg
  PROVE  BytesIn(m, s) \in Nat
<1>1. Cardinality(FullAts(m, s.kind, s.prop)) \in Nat
  BY AtsFinite DEF Sugg
<1> DEFINE n == Cardinality(FullAts(m, s.kind, s.prop))
<1> HIDE DEF n
<1>2. n \in Nat
  BY <1>1 DEF n
<1>3. MeasureBytes * n \in Nat
  BY <1>2, BudgetAssumption
<1> QED BY <1>3 DEF BytesIn, n

-----------------------------------------------------------------------------
(* What the measures of a round take.                                      *)

LEMMA SpentMore ==
  ASSUME NEW P, PropsOk(P), NEW m \in MapsOf(P), NEW kept \in SUBSET Sugg, NEW s \in Sugg,
         NEW used \in Nat, SpentOn(m, kept, used)
  PROVE  SpentOn(m, kept \cup {s}, used + BytesIn(m, s))
<1> DEFINE A == Due(m, MeasuresIn(kept))
           B == Due(m, {<<s.kind, s.prop>>})
           C == Due(m, MeasuresIn(kept \cup {s}))
<1>1. s.kind \in Kinds /\ s.prop \in Props /\ BytesIn(m, s) \in Nat
  BY BytesTyped DEF Sugg
<1>2. IsFiniteSet(A) /\ MeasureBytes * Cardinality(A) <= used
  BY DEF SpentOn
<1>3. CASE s.what = "cache_measure"
  <2>1. MeasuresIn(kept \cup {s}) = MeasuresIn(kept) \cup {<<s.kind, s.prop>>}
    BY <1>3 DEF MeasuresIn
  <2>2. C = A \cup B
    BY <2>1 DEF Due
  <2>3. IsFiniteSet(B) /\ BytesIn(m, s) = MeasureBytes * Cardinality(B)
    BY <1>1, <1>3, AtsFinite, FullAtsAre DEF BytesIn
  <2> HIDE DEF A, B, C
  <2>4. IsFiniteSet(C) /\ Cardinality(C) = Cardinality(A) + Cardinality(B) - Cardinality(A \cap B)
    BY <1>2, <2>2, <2>3, FS_Union
  <2>5. IsFiniteSet(A \cap B)
    BY <1>2, FS_Intersection
  <2>6. Cardinality(A) \in Nat /\ Cardinality(B) \in Nat /\ Cardinality(A \cap B) \in Nat
    BY <1>2, <2>3, <2>5, FS_CardinalityType
  <2>7. \A a, b, c \in Nat : MeasureBytes * a <= used =>
          MeasureBytes * (a + b - c) <= used + MeasureBytes * b
    <3> SUFFICES ASSUME NEW a \in Nat, NEW b \in Nat, NEW c \in Nat, MeasureBytes * a <= used
                 PROVE  MeasureBytes * (a + b - c) <= used + MeasureBytes * b
      OBVIOUS
    <3>1. MeasureBytes \in Nat
      BY BudgetAssumption
    <3>2. MeasureBytes * (a + b - c) = MeasureBytes * a + MeasureBytes * b - MeasureBytes * c
      BY <3>1
    <3>3. MeasureBytes * a \in Int /\ MeasureBytes * b \in Int /\ MeasureBytes * c \in Nat
      BY <3>1
    <3> DEFINE x == MeasureBytes * a  y == MeasureBytes * b  z == MeasureBytes * c
    <3>4. x \in Int /\ y \in Int /\ z \in Nat /\ x <= used
      BY <3>3
    <3> HIDE DEF x, y, z
    <3>5. x + y - z <= used + y
      BY <3>4
    <3> QED BY <3>2, <3>5 DEF x, y, z
  <2> QED BY <1>2, <2>3, <2>4, <2>6, <2>7 DEF SpentOn, C
<1>4. CASE s.what # "cache_measure"
  <2>1. MeasuresIn(kept \cup {s}) = MeasuresIn(kept)
    BY <1>4 DEF MeasuresIn
  <2>2. BytesIn(m, s) = 0
    BY <1>4 DEF BytesIn
  <2> QED BY <2>1, <2>2 DEF SpentOn
<1> QED BY <1>3, <1>4

LEMMA SpentLater ==
  ASSUME NEW m, NEW kept, NEW a \in Nat, NEW b \in Nat, a <= b, SpentOn(m, kept, a)
  PROVE  SpentOn(m, kept, b)
<1> DEFINE n == Cardinality(Due(m, MeasuresIn(kept)))
           x == MeasureBytes * n
<1>1. IsFiniteSet(Due(m, MeasuresIn(kept))) /\ x <= a
  BY DEF SpentOn
<1>2. n \in Nat
  BY <1>1, FS_CardinalityType
<1> HIDE DEF n
<1>3. x \in Int
  BY <1>2, BudgetAssumption
<1> HIDE DEF x
<1>4. x <= b
  BY <1>1, <1>3
<1> QED BY <1>1, <1>4 DEF SpentOn, x, n

LEMMA SpentNone ==
  ASSUME NEW m
  PROVE  SpentOn(m, {}, 0)
<1>1. Due(m, MeasuresIn({})) = {}
  BY DEF Due, MeasuresIn
<1>2. MeasureBytes * 0 <= 0
  BY BudgetAssumption
<1> QED BY <1>1, <1>2, FS_EmptySet DEF SpentOn

-----------------------------------------------------------------------------
(* A table entered and built at once.                                      *)

LEMMA BuiltRows ==
  ASSUME NEW P, NEW m \in MapsOf(P), Exact(m, {}), NEW leaf \in Kinds, NEW sum \in Props,
         <<leaf, sum>> \notin m.declared, <<leaf, sum>> \notin m.cached,
         NEW ats, ats = Due(m, {<<leaf, sum>>}),
         NEW l, l = Over([at \in ats |-> Recomputed(m, at)], m.lazy),
         NEW n \in MapsOf(P), n.owned = m.owned, n.declared = m.declared,
         n.cached = m.cached \cup {<<leaf, sum>>}, n.rollups = m.rollups, n.lazy = l
  PROVE  Exact(n, {})
<1> DEFINE p == <<leaf, sum>>
<1>1. Placed(m, m) /\ m.declared \cap m.cached = {} /\ IsFiniteSet(DOMAIN m.owned)
  BY OwnedFinite DEF Exact
<1>2. /\ DOMAIN RowsOfMaps(m) = Due(m, Tracked(m))
      /\ \A at \in DOMAIN RowsOfMaps(m) : RowsOfMaps(m)[at] = Recomputed(m, at)
  <2>1. Tracked(m) \ {} = Tracked(m)
    OBVIOUS
  <2> QED BY <2>1 DEF Exact
<1>3. ats \subseteq Places /\ \A at \in ats : <<at[1], at[3]>> = p
  BY DEF Due
<1>4. p \notin m.declared /\ p \notin m.cached
  OBVIOUS
<1> HIDE DEF p
<1>5. /\ DOMAIN l = ats \cup DOMAIN m.lazy
      /\ \A at \in DOMAIN l : l[at] = IF at \in ats THEN Recomputed(m, at) ELSE m.lazy[at]
  BY DEF Over
<1>6. /\ n.owned = m.owned /\ n.declared = m.declared
       /\ n.cached = m.cached \cup {p} /\ n.rollups = m.rollups /\ n.lazy = l
  BY DEF p
<1>7. \A at : InRollups(n, at) <=> InRollups(m, at)
  BY <1>6 DEF InRollups
<1>8. ASSUME NEW at \in ats, InRollups(m, at) PROVE FALSE
  <2>1. <<at[1], at[3]>> = p
    BY <1>3
  <2>2. PICK b \in DOMAIN m.rollups : SameTable(b, at)
    BY <1>4, <1>8, <2>1 DEF InRollups, HasTable
  <2>3. b \in DOMAIN RowsOfMaps(m)
    BY <1>1, <2>2, RowsAre
  <2>4. <<b[1], b[3]>> \in Tracked(m)
    BY <1>2, <2>3 DEF Due
  <2>5. <<b[1], b[3]>> = p
    BY <2>1, <2>2, SameTableIs
  <2> QED BY <1>4, <2>4, <2>5 DEF Tracked
<1>9. Placed(n, n)
  BY <1>1, <1>5, <1>6, <1>7, <1>8 DEF Placed
<1>10. /\ DOMAIN RowsOfMaps(n) = DOMAIN m.rollups \cup DOMAIN l
       /\ \A at \in DOMAIN m.rollups : RowsOfMaps(n)[at] = m.rollups[at]
       /\ \A at \in DOMAIN l : RowsOfMaps(n)[at] = l[at]
  <2>1. /\ DOMAIN RowsOfMaps(n) = DOMAIN n.rollups \cup DOMAIN n.lazy
        /\ \A at \in DOMAIN n.rollups : RowsOfMaps(n)[at] = n.rollups[at]
        /\ \A at \in DOMAIN n.lazy : RowsOfMaps(n)[at] = n.lazy[at]
    <3>1. n \in MapsOf(P)
      BY <1>6
    <3> QED BY <1>9, <3>1, RowsAre
  <2> QED BY <1>6, <2>1
<1>11. /\ DOMAIN RowsOfMaps(m) = DOMAIN m.rollups \cup DOMAIN m.lazy
       /\ \A at \in DOMAIN m.rollups : RowsOfMaps(m)[at] = m.rollups[at]
       /\ \A at \in DOMAIN m.lazy : RowsOfMaps(m)[at] = m.lazy[at]
  BY <1>1, RowsAre
<1>12. Due(n, Tracked(n)) = Due(m, Tracked(m)) \cup ats
  <2>1. Tracked(n) = Tracked(m) \cup {p}
    BY <1>6 DEF Tracked
  <2>2. Due(m, Tracked(m) \cup {p}) = Due(m, Tracked(m)) \cup Due(m, {p})
    BY DEF Due
  <2>3. Due(n, Tracked(n)) = Due(m, Tracked(n))
    BY <1>6, SameOwned
  <2>4. ats = Due(m, {p})
    BY DEF p
  <2> QED BY <2>1, <2>2, <2>3, <2>4
<1>13. \A at : Recomputed(n, at) = Recomputed(m, at)
  <2> DEFINE N == n  M == m
  <2>1. N.owned = M.owned /\ IsFiniteSet(DOMAIN M.owned)
    BY <1>1, <1>6
  <2> HIDE DEF N, M
  <2>2. \A at : Recomputed(N, at) = Recomputed(M, at)
    BY <2>1, OwnedOnly
  <2> QED BY <2>2 DEF N, M
<1>14. DOMAIN RowsOfMaps(n) = Due(n, Tracked(n))
  BY <1>2, <1>5, <1>10, <1>11, <1>12
<1>15. ASSUME NEW at \in DOMAIN RowsOfMaps(n) PROVE RowsOfMaps(n)[at] = Recomputed(n, at)
  <2>1. Recomputed(n, at) = Recomputed(m, at)
    BY <1>13
  <2>2. CASE at \in DOMAIN m.rollups
    <3>1. at \in DOMAIN RowsOfMaps(m) /\ RowsOfMaps(m)[at] = m.rollups[at]
      BY <1>11, <2>2
    <3>2. RowsOfMaps(n)[at] = m.rollups[at]
      BY <1>10, <2>2
    <3> QED BY <1>2, <2>1, <3>1, <3>2
  <2>3. CASE at \in DOMAIN l
    <3>1. RowsOfMaps(n)[at] = l[at]
      BY <1>10, <2>3
    <3>2. CASE at \in ats
      BY <1>5, <2>1, <2>3, <3>1, <3>2
    <3>3. CASE at \notin ats
      <4>1. at \in DOMAIN m.lazy /\ l[at] = m.lazy[at]
        BY <1>5, <2>3, <3>3
      <4>2. at \in DOMAIN RowsOfMaps(m) /\ RowsOfMaps(m)[at] = m.lazy[at]
        BY <1>11, <4>1
      <4> QED BY <1>2, <2>1, <3>1, <4>1, <4>2
    <3> QED BY <3>2, <3>3
  <2> QED BY <1>10, <2>2, <2>3
<1>16. n.declared \cap n.cached = {}
  BY <1>1, <1>4, <1>6
<1>17. Exact(n, {})
  <2>1. Tracked(n) \ {} = Tracked(n)
    OBVIOUS
  <2> QED BY <1>9, <1>14, <1>15, <1>16, <2>1 DEF Exact
<1> QED BY <1>17

Built(m, leaf, sum) ==
  [m EXCEPT !.cached = @ \cup {<<leaf, sum>>},
            !.lazy = Over([at \in FullAts(m, leaf, sum) |-> Recomputed(m, at)], @), !.dirty = TRUE]

ExactlyAs(n, m, P) == n \in MapsOf(P) /\ Exact(n, {}) /\ n.owned = m.owned /\ n.declared = m.declared

LEMMA BuiltIs ==
  ASSUME NEW P, NEW m \in MapsOf(P), Exact(m, {}), NEW leaf \in Kinds, NEW sum \in Props,
         <<leaf, sum>> \notin m.declared \cup m.cached
  PROVE  ExactlyAs(Built(m, leaf, sum), m, P)
<1> DEFINE n == Built(m, leaf, sum)
<1> DEFINE p == <<leaf, sum>>
           ats == Due(m, {p})
           l == Over([at \in ats |-> Recomputed(m, at)], m.lazy)
           cached == m.cached \cup {p}
<1>1. Placed(m, m) /\ m.declared \cap m.cached = {} /\ IsFiniteSet(DOMAIN m.owned)
  BY OwnedFinite DEF Exact
<1>2. /\ DOMAIN RowsOfMaps(m) = Due(m, Tracked(m))
      /\ \A at \in DOMAIN RowsOfMaps(m) : RowsOfMaps(m)[at] = Recomputed(m, at)
  <2>1. Tracked(m) \ {} = Tracked(m)
    OBVIOUS
  <2> QED BY <2>1 DEF Exact
<1>3. ats \subseteq Places /\ \A at \in ats : <<at[1], at[3]>> = p
  BY DEF Due
<1>4. \A at : Recomputed(m, at) \in Rollup
  BY <1>1, RollupOfChildren
<1>5. m.lazy \in Tables /\ m.cached \subseteq Pairs /\ p \in Pairs
  BY RecordIs DEF Pairs
<1>6. n = [m EXCEPT !.cached = cached, !.lazy = l, !.dirty = TRUE]
  BY FullAtsAre DEF Built
<1> HIDE DEF n
<1>7. p \notin m.declared /\ p \notin m.cached
  OBVIOUS
<1>12. ats = Due(m, {<<leaf, sum>>}) /\ cached = m.cached \cup {<<leaf, sum>>}
       /\ l = Over([at \in ats |-> Recomputed(m, at)], m.lazy)
  OBVIOUS
<1> HIDE DEF ats, p
<1>8. /\ DOMAIN l = ats \cup DOMAIN m.lazy /\ l = [at \in DOMAIN l |-> l[at]]
      /\ \A at \in DOMAIN l : l[at] = IF at \in ats THEN Recomputed(m, at) ELSE m.lazy[at]
  BY DEF Over
<1> HIDE DEF l
<1>9. l \in Tables
  BY <1>3, <1>4, <1>5, <1>8, TablesAre
<1>10. cached \subseteq Pairs
  BY <1>5
<1> HIDE DEF cached
<1>11. /\ n \in MapsOf(P) /\ n.owned = m.owned /\ n.declared = m.declared
       /\ n.cached = cached /\ n.rollups = m.rollups /\ n.lazy = l
  BY <1>6, <1>9, <1>10 DEF MapsOf
<1>13. Exact(n, {})
  BY <1>11, <1>12, BuiltRows
<1> QED BY <1>11, <1>13 DEF ExactlyAs, n

-----------------------------------------------------------------------------
(* Suggestions.                                                            *)

LEMMA SuggestionIs ==
  ASSUME NEW what, NEW kind, NEW prop, NEW bytes
  PROVE  /\ Suggestion(what, kind, prop, bytes).what = what
         /\ what \in Adds \cup Drops /\ kind \in Kinds /\ prop \in Props /\ bytes \in Nat
              => Suggestion(what, kind, prop, bytes) \in Sugg
BY DEF Suggestion, Sugg

LEMMA SuggestTyped ==
  ASSUME NEW P, RowsOffered(P), JoinInv(P), NEW window \in SUBSET Requests
  PROVE  \A s \in Suggestions(window) : s.what = "denormalize" \/ s \in Sugg
<1>1. maps \in MapsOf(P) /\ PropsOk(P) /\ desc \in Descs
  BY DEF JoinInv, RowsOffered
<1>2. WalkedKinds(window) \subseteq Kinds
  <2>1. \A req \in Requests : \A p \in Preds(req) : p[1] \in Kinds
    BY KindsAssumption DEF Preds
  <2> QED BY <2>1 DEF WalkedKinds
<1>3. \A kind : Declared(kind) \subseteq Props
  BY DEF Declared
<1>4. ASSUME NEW s \in SuggestAddIndexes(window) PROVE s \in Sugg
  <2>1. PICK n \in Kinds \X Props : s = Suggestion("add_index", n[1], n[2], 0)
    BY DEF SuggestAddIndexes
  <2> QED BY <2>1, SuggestionIs DEF Adds
<1>5. ASSUME NEW s \in SuggestDropIndexes(window) PROVE s \in Sugg
  <2>1. PICK n \in WalkedKinds(window) \X Props : s = Suggestion("drop_index", n[1], n[2], 0)
    BY DEF SuggestDropIndexes
  <2>2. n[1] \in Kinds /\ n[2] \in Props
    BY <1>2
  <2> QED BY <2>1, <2>2, SuggestionIs DEF Drops
<1>6. ASSUME NEW s \in SuggestCacheMeasures(window) PROVE s \in Sugg
  <2>1. PICK req \in window :
          /\ req.sumProp \in Declared(req.sumKind)
          /\ s = Suggestion("cache_measure", req.sumKind, req.sumProp, LiveBytes(req.sumKind, req.sumProp))
    BY DEF SuggestCacheMeasures
  <2>2. req.sumKind \in Kinds /\ req.sumProp \in Props
    BY <1>3, <2>1, KindsAssumption
  <2>3. Cardinality(FullAts(maps, req.sumKind, req.sumProp)) \in Nat
    BY <1>1, <2>2, AtsFinite
  <2>4. LiveBytes(req.sumKind, req.sumProp) \in Nat
    <3> DEFINE n == Cardinality(FullAts(maps, req.sumKind, req.sumProp))
    <3> HIDE DEF n
    <3>1. n \in Nat
      BY <2>3 DEF n
    <3>2. MeasureBytes * n \in Nat
      BY <3>1, BudgetAssumption
    <3> QED BY <3>2 DEF LiveBytes, n
  <2> QED BY <2>1, <2>2, <2>4, SuggestionIs DEF Adds
<1>7. ASSUME NEW s \in SuggestDropMeasures(window) PROVE s \in Sugg
  <2>1. PICK n \in {req.sumKind : req \in window} \X Props : s = Suggestion("drop_measure", n[1], n[2], 0)
    BY DEF SuggestDropMeasures
  <2>2. n[1] \in Kinds /\ n[2] \in Props
    BY KindsAssumption
  <2> QED BY <2>1, <2>2, SuggestionIs DEF Drops
<1>8. ASSUME NEW s \in SuggestDenormalize(window) PROVE s.what = "denormalize"
  <2>1. PICK req \in window : s \in {Suggestion("denormalize", Frontier(req, i - 1), req.hops[i].join, 0) :
                                       i \in DOMAIN req.hops}
    BY DEF SuggestDenormalize
  <2> QED BY <2>1, SuggestionIs
<1> QED BY <1>4, <1>5, <1>6, <1>7, <1>8 DEF Suggestions

-----------------------------------------------------------------------------
(* The invariant holds at first.                                           *)

TuningInv(P) == JoinInv(P) /\ WindowInv /\ RoundInv

(* The rows the writers offer and those of the seeds.                      *)
SeedOps == UNION {ToSet(seed) : seed \in Seeds}
SeedProps == AllProps \cup {op.props : op \in {o \in SeedOps : o.what = "row"}}

LEMMA SeedsAre == RowsOffered(SeedProps) /\ Seeds \subseteq Seq(Ops(SeedProps))
<1>1. ASSUME NEW props \in SeedProps
      PROVE  DOMAIN props \subseteq Props /\ IsFiniteSet(DOMAIN props)
  <2>1. CASE props \in AllProps
    BY <2>1, PropsAre DEF RowsOffered, PropsOk
  <2>2. CASE props \notin AllProps
    <3>1. PICK op \in SeedOps : op.what = "row" /\ props = op.props
      BY <2>2 DEF SeedProps
    <3> QED BY <3>1, SeedsAssumption DEF SeedOps
  <2> QED BY <2>1, <2>2
<1>2. \A row \in Offered : row.props \in SeedProps
  BY DEF SeedProps, AllProps
<1>3. ASSUME NEW op \in SeedOps PROVE op \in Ops(SeedProps)
  <2>1. CASE op \in [what : {"desc"}, kind : Kinds,
                     desc : [sums : SUBSET Props, indexes : SUBSET Props, dropped : SUBSET Props]]
    BY <2>1 DEF Ops, Descriptions
  <2>2. CASE op \in [what : {"row"}, kind : Kinds, key : Keys, props : {op.props}]
    <3>1. op.what = "row"
      BY <2>2
    <3>2. op.props \in SeedProps
      BY <3>1 DEF SeedProps
    <3> QED BY <2>2, <3>2 DEF Ops
  <2> QED BY <2>1, <2>2, SeedsAssumption DEF SeedOps
<1>4. ASSUME NEW seed \in Seeds PROVE seed \in Seq(Ops(SeedProps))
  <2>1. seed \in Seq(ToSet(seed)) /\ ToSet(seed) \subseteq SeedOps
    BY SeedsAssumption DEF SeedOps
  <2>2. \A i \in 1..Len(seed) : seed[i] \in Ops(SeedProps)
    BY <1>3, <2>1, ElementOfSeq
  <2> QED BY <2>1, <2>2, LenProperties
<1> QED BY <1>1, <1>2, <1>4 DEF RowsOffered, PropsOk

LEMMA LoadedImage ==
  ASSUME NEW P, NEW m, NEW descs, Fits(m, descs, P), m.lazy = <<>>
  PROVE  WriteMeasures(m) = m.rollups
<1>1. m \in ExactMaps(P) /\ m.rollups \in Tables
  BY RecordIs DEF Fits, ExactMaps
<1>2. m.rollups = [at \in DOMAIN m.rollups |-> m.rollups[at]]
  BY <1>1, TablesAre
<1>3. RowsOfMaps(m) = m.rollups
  BY <1>2, NoRows DEF RowsOfMaps, Over
<1> QED BY <1>1, <1>3, WriteIs

LEMMA InitTuning ==
  ASSUME TuningInit
  PROVE  TuningInv(SeedProps)
<1> DEFINE P == SeedProps
<1>1. PICK seed \in Seeds :
        LET loaded == AdoptLazyRollups(Replayed(Adopt(Nothing), seed)) IN
        /\ maps = loaded
        /\ desc = Described(Nothing.desc, seed)
        /\ disk = [owned |-> loaded.owned, measures |-> loaded.rollups, desc |-> desc]
  BY DEF TuningInit
<1> DEFINE m == Replayed(Adopt(Nothing), seed)
<1>2. RowsOffered(P) /\ PropsOk(P) /\ seed \in Seq(Ops(P))
  BY SeedsAre DEF RowsOffered
<1>3. maps = AdoptLazyRollups(m) /\ desc = Described(Nothing.desc, seed)
      /\ disk = [owned |-> maps.owned, measures |-> maps.rollups, desc |-> desc]
  BY <1>1
<1> HIDE DEF P
<1>4. Fits(Adopt(Nothing), Nothing.desc, P)
  BY <1>2, NothingFits
<1>5. Fits(m, desc, P)
  BY <1>2, <1>3, <1>4, ReplayedIs
<1> HIDE DEF m
<1>6. Fits(maps, desc, P)
  BY <1>3, <1>5, AdoptLazyIs
<1>7. maps.lazy = <<>>
  <2>1. m \in MapsOf(P)
    BY <1>5 DEF Fits, ExactMaps
  <2> QED BY <1>3, <2>1 DEF AdoptLazyRollups, MapsOf
<1>8. WriteMeasures(maps) = maps.rollups
  BY <1>6, <1>7, LoadedImage
<1>9. ImageOk(disk, P)
  BY <1>3, <1>6, <1>8, ImageIs
<1>10. JoinInv(P)
  BY <1>6, <1>9, EmptySeq DEF TuningInit, JoinInv, Fits, ExactMaps
<1>11. WindowInv
  BY EmptySeq DEF TuningInit, WindowInv
<1>12. RoundInv
  BY DEF TuningInit, RoundInv
<1> QED BY <1>10, <1>11, <1>12 DEF P, TuningInv

-----------------------------------------------------------------------------
(* The steps between rounds.                                               *)

LEMMA JoinStays ==
  ASSUME NEW P, JoinInv(P), UNCHANGED joinVars
  PROVE  JoinInv(P)' /\ maps' = maps /\ desc' = desc /\ building' = building
BY DEF JoinInv, joinVars

LEMMA ElsewhereKeeps ==
  ASSUME NEW P, RowsOffered(P), TuningInv(P), tuner' = Idle, WindowInv', [JoinNext]_joinVars
  PROVE  TuningInv(P)'
BY NextJoin DEF TuningInv, RoundInv

LEMMA CrashKeeps ==
  ASSUME NEW P, RowsOffered(P), TuningInv(P), NEW kept \in 0..Len(tail), Crash(kept)
  PROVE  TuningInv(P)'
<1>1. WindowInv'
  BY EmptySeq DEF Crash, WindowInv
<1>2. JoinInv(P)'
  BY ReopenStep DEF Crash, TuningInv
<1> QED BY <1>1, <1>2 DEF Crash, TuningInv, RoundInv

LEMMA RecordKeeps ==
  ASSUME NEW P, RowsOffered(P), TuningInv(P), NEW req \in Requests, Record(req)
  PROVE  TuningInv(P)'
<1>1. WindowInv'
  BY AppendProperties DEF Record, TuningInv, WindowInv
<1> QED BY <1>1, ElsewhereKeeps DEF Record

LEMMA SuggestKeeps ==
  ASSUME NEW P, RowsOffered(P), TuningInv(P), Suggest
  PROVE  TuningInv(P)'
<1>1. samples \in Seq(Requests) /\ JoinInv(P)
  BY DEF TuningInv, WindowInv
<1>2. ToSet(samples) \in SUBSET Requests
  BY <1>1, ElementOfSeq, LenProperties DEF ToSet
<1>3. \A s \in suggested' : s.what = "denormalize" \/ s \in Sugg
  BY <1>1, <1>2, SuggestTyped DEF Suggest
<1>4. WindowInv'
  BY <1>1, <1>3 DEF Suggest, WindowInv
<1> QED BY <1>4, ElsewhereKeeps DEF Suggest

-----------------------------------------------------------------------------
(* The steps of a round.                                                   *)

LEMMA RoundFacts ==
  ASSUME NEW P, RowsOffered(P), TuningInv(P), tuner # Idle
  PROVE  /\ tuner \in RoundOf /\ building = {} /\ DescHolds /\ ProbeHolds /\ DropsFirst /\ SpentHolds
         /\ maps \in MapsOf(P) /\ Exact(maps, {}) /\ PropsOk(P) /\ IsFiniteSet(DOMAIN maps.owned)
         /\ desc \in Descs /\ maps.declared = DeclaredOf(desc) /\ KeptDescs \in Descs
         /\ samples \in Seq(Requests)
<1>1. tuner \in RoundOf /\ building = {} /\ DescHolds /\ ProbeHolds /\ DropsFirst /\ SpentHolds
  BY DEF TuningInv, RoundInv
<1>2. tuner.start \in Descs /\ tuner.kept \in SUBSET Sugg
  BY <1>1 DEF RoundOf
<1>3. KeptDescs \in Descs
  BY <1>2, DescsAfterIs DEF KeptDescs
<1>4. maps \in MapsOf(P) /\ Exact(maps, {}) /\ desc \in Descs /\ maps.declared = DeclaredOf(desc)
  BY <1>1 DEF TuningInv, JoinInv
<1> QED BY <1>1, <1>3, <1>4, OwnedFinite DEF TuningInv, WindowInv, RowsOffered

LEMMA RoundKeeps ==
  ASSUME NEW P, JoinInv(P)', WindowInv, UNCHANGED <<samples, suggested>>,
         tuner' \in RoundOf, building' = {}, DescHolds', ProbeHolds', DropsFirst', SpentHolds'
  PROVE  TuningInv(P)'
BY DEF TuningInv, WindowInv, RoundInv

LEMMA AutoApplyKeeps ==
  ASSUME NEW P, RowsOffered(P), TuningInv(P), NEW budget \in Budgets, AutoApply(budget)
  PROVE  TuningInv(P)'
<1>1. /\ JoinInv(P)' /\ maps' = maps /\ desc' = desc /\ building' = {} /\ WindowInv
      /\ desc \in Descs /\ UNCHANGED <<samples, suggested>>
  BY JoinStays DEF TuningInv, AutoApply, JoinInv
<1> DEFINE todo == {s \in suggested : s.what # "denormalize"}
           fresh == Names(suggested) = Names(Suggestions(ToSet(samples)))
           before == [scanned |-> 0, cached |-> FALSE]
<1>2. todo \in SUBSET Sugg /\ todo \subseteq suggested
  BY <1>1 DEF WindowInv
<1>3. tuner' = [at |-> "next", todo |-> todo,
               budget |-> budget, used |-> 0, kept |-> {}, undone |-> {}, skipped |-> {},
               now |-> Idle, bytes |-> 0, before |-> before,
               failed |-> FALSE, cut |-> FALSE, start |-> desc, fresh |-> fresh]
  BY DEF AutoApply
<1>4. fresh \in BOOLEAN
  OBVIOUS
<1>5. before \in [scanned : Int, cached : BOOLEAN]
  OBVIOUS
<1>6. budget \in Nat
  BY BudgetAssumption
<1> HIDE DEF todo, fresh, before
<1>7. tuner' \in RoundOf
  BY <1>1, <1>2, <1>3, <1>4, <1>5, <1>6 DEF RoundOf, Steps
<1>8. /\ tuner'.at = "next" /\ tuner'.kept = {} /\ tuner'.start = desc /\ tuner'.used = 0
      /\ tuner'.budget = budget /\ tuner'.todo = todo /\ suggested' = suggested
  BY <1>1, <1>3
<1>9. DescHolds'
  BY <1>1, <1>8, KeptNone DEF DescHolds, KeptDescs
<1>10. SpentHolds'
  BY <1>6, <1>8, SpentNone DEF SpentHolds
<1>11. ProbeHolds' /\ DropsFirst'
  BY <1>2, <1>8 DEF ProbeHolds, DropsFirst, Steps
<1> QED BY <1>1, <1>7, <1>9, <1>10, <1>11, RoundKeeps

LEMMA TuneDropKeeps ==
  ASSUME NEW P, RowsOffered(P), TuningInv(P), NEW s, TuneDrop(s)
  PROVE  TuningInv(P)'
<1> DEFINE kept == tuner.kept \cup {s}
<1>1. tuner # Idle /\ tuner.at = "next" /\ s \in tuner.todo /\ s.what \in Drops
  BY DEF TuneDrop, Turn, Idle
<1>2. /\ tuner \in RoundOf /\ building = {} /\ desc = KeptDescs /\ DropsFirst /\ SpentHolds
      /\ JoinInv(P) /\ WindowInv
  BY <1>1, RoundFacts DEF DescHolds, TuningInv
<1>3. s \in Sugg /\ tuner.kept \in SUBSET Sugg /\ tuner.start \in Descs
  BY <1>1, <1>2 DEF RoundOf
<1>4. EditDone(P, s)
  BY <1>2, <1>3, EditStep DEF TuneDrop
<1>5. tuner' = [tuner EXCEPT !.todo = @ \ {s}, !.kept = kept] /\ UNCHANGED <<samples, suggested>>
  BY DEF TuneDrop, Tuner
<1> HIDE DEF kept
<1>6. /\ tuner' \in RoundOf /\ tuner'.at = "next" /\ tuner'.kept = kept
      /\ tuner'.start = tuner.start /\ tuner'.used = tuner.used /\ tuner'.budget = tuner.budget
      /\ tuner'.todo \subseteq tuner.todo
  <2>1. kept \in SUBSET Sugg
    BY <1>3 DEF kept
  <2> QED BY <1>1, <1>2, <1>5, <2>1 DEF RoundOf
<1>7. \A t \in tuner.kept : t.what \in Drops
  BY <1>1, <1>2 DEF DropsFirst, Adds, Drops
<1>8. DescHolds'
  <2>1. DescsAfter(tuner.start, tuner.kept)[s.kind] # NoDescriptor
    BY <1>2, <1>4 DEF EditDone, KeptDescs
  <2>2. DescsAfter(tuner.start, kept)
          = [DescsAfter(tuner.start, tuner.kept) EXCEPT ![s.kind] = Edited(@, s)]
    <3> DEFINE d == tuner.start  k == tuner.kept
    <3>1. d \in Descs /\ k \in SUBSET Sugg /\ s \in Sugg /\ (\A t \in k : t.what \in Drops)
          /\ DescsAfter(d, k)[s.kind] # NoDescriptor
      BY <1>3, <1>7, <2>1
    <3> HIDE DEF d, k
    <3>2. DescsAfter(d, k \cup {s}) = [DescsAfter(d, k) EXCEPT ![s.kind] = Edited(@, s)]
      BY <3>1, KeptMore
    <3> QED BY <3>2 DEF d, k, kept
  <2>3. desc' = DescsAfter(tuner.start, kept)
    BY <1>2, <1>4, <2>2 DEF EditDone, KeptDescs
  <2> QED BY <1>6, <2>3 DEF DescHolds, KeptDescs
<1>9. SpentHolds'
  <2>1. MeasuresIn(kept) = MeasuresIn(tuner.kept)
    BY <1>1 DEF MeasuresIn, kept, Drops
  <2>2. Due(maps', MeasuresIn(kept)) = Due(maps, MeasuresIn(tuner.kept))
    BY <1>4, <2>1, SameOwned DEF EditDone
  <2>3. SpentOn(maps', kept, tuner.used)
    BY <1>2, <2>2 DEF SpentHolds, SpentOn
  <2> QED BY <1>2, <1>6, <2>3 DEF SpentHolds
<1>10. ProbeHolds' /\ DropsFirst'
  BY <1>1, <1>2, <1>5, <1>6, <1>7 DEF ProbeHolds, DropsFirst, Steps, kept
<1>11. JoinInv(P)' /\ building' = {}
  BY <1>4 DEF EditDone
<1> QED BY <1>2, <1>5, <1>6, <1>8, <1>9, <1>10, <1>11, RoundKeeps

LEMMA TuneSkipKeeps ==
  ASSUME NEW P, RowsOffered(P), TuningInv(P), NEW s, TuneSkip(s)
  PROVE  TuningInv(P)'
<1>1. tuner # Idle /\ tuner.at = "next" /\ s \in tuner.todo
  BY DEF TuneSkip, Turn, Idle
<1>2. /\ tuner \in RoundOf /\ building = {} /\ DescHolds /\ DropsFirst /\ SpentHolds
      /\ JoinInv(P) /\ WindowInv
  BY <1>1, RoundFacts DEF TuningInv
<1>3. /\ JoinInv(P)' /\ maps' = maps /\ desc' = desc /\ building' = {}
  BY <1>2, JoinStays DEF TuneSkip
<1> DEFINE skipped == tuner.skipped \cup {s}
           todo == tuner.todo \ {s}
<1>4. tuner' = [tuner EXCEPT !.todo = todo, !.skipped = skipped] /\ UNCHANGED <<samples, suggested>>
  BY DEF TuneSkip, Tuner
<1>5. skipped \in SUBSET Sugg /\ todo \in SUBSET Sugg /\ todo \subseteq tuner.todo
  BY <1>1, <1>2 DEF RoundOf
<1> HIDE DEF skipped, todo
<1>6. /\ tuner' \in RoundOf /\ tuner'.at = "next" /\ tuner'.kept = tuner.kept /\ tuner'.todo = todo
      /\ tuner'.start = tuner.start /\ tuner'.used = tuner.used /\ tuner'.budget = tuner.budget
  BY <1>1, <1>2, <1>4, <1>5 DEF RoundOf
<1>7. DescHolds' /\ SpentHolds'
  BY <1>1, <1>2, <1>3, <1>6 DEF DescHolds, KeptDescs, SpentHolds
<1>8. ProbeHolds' /\ DropsFirst'
  BY <1>1, <1>2, <1>4, <1>5, <1>6 DEF ProbeHolds, DropsFirst, Steps
<1> QED BY <1>2, <1>3, <1>4, <1>6, <1>7, <1>8, RoundKeeps

LEMMA TuneAddKeeps ==
  ASSUME NEW P, RowsOffered(P), TuningInv(P), NEW s, TuneAdd(s)
  PROVE  TuningInv(P)'
<1>1. tuner # Idle /\ tuner.at = "next" /\ s \in tuner.todo /\ s.what \notin Drops
      /\ \A t \in tuner.todo : t.what \notin Drops
  BY DEF TuneAdd, Turn, Idle
<1>2. /\ tuner \in RoundOf /\ building = {} /\ DescHolds /\ DropsFirst /\ SpentHolds
      /\ JoinInv(P) /\ WindowInv /\ PropsOk(P) /\ maps \in MapsOf(P)
  BY <1>1, RoundFacts DEF TuningInv
<1>3. /\ JoinInv(P)' /\ maps' = maps /\ desc' = desc /\ building' = {}
  BY <1>2, JoinStays DEF TuneAdd
<1>4. s \in Sugg /\ \A t \in tuner.todo : t.what \in Adds
  BY <1>1, <1>2 DEF RoundOf, Sugg
<1> DEFINE bytes == BytesIn(maps, s)
           todo == tuner.todo \ {s}
<1>5. tuner' = [tuner EXCEPT !.at = "before", !.now = s, !.bytes = bytes, !.todo = todo]
      /\ UNCHANGED <<samples, suggested>>
  BY BytesAre DEF TuneAdd, Tuner
<1>6. bytes \in Nat /\ todo \in SUBSET Sugg /\ todo \subseteq tuner.todo
  BY <1>2, <1>4, BytesTyped DEF RoundOf
<1>7. ~(tuner.used + bytes > tuner.budget)
  BY BytesAre DEF TuneAdd, OverBudget
<1>8. \E i \in DOMAIN samples : Tells(samples[i], s)
  BY DEF TuneAdd, HasProbe
<1> HIDE DEF bytes, todo
<1>9. /\ tuner' \in RoundOf /\ tuner'.at = "before" /\ tuner'.kept = tuner.kept /\ tuner'.todo = todo
      /\ tuner'.start = tuner.start /\ tuner'.used = tuner.used /\ tuner'.budget = tuner.budget
      /\ tuner'.now = s /\ tuner'.bytes = bytes
  BY <1>2, <1>4, <1>5, <1>6 DEF RoundOf, Steps
<1>10. tuner.used + bytes <= tuner.budget
  BY <1>2, <1>6, <1>7 DEF RoundOf
<1>11. DescHolds' /\ SpentHolds'
  BY <1>1, <1>2, <1>3, <1>9, <1>10 DEF DescHolds, KeptDescs, SpentHolds, bytes
<1>12. ProbeHolds' /\ DropsFirst'
  <2>1. s.what \in Adds /\ s \in suggested /\ todo \subseteq suggested
    BY <1>1, <1>2, <1>4, <1>6 DEF DropsFirst
  <2> QED BY <1>4, <1>5, <1>6, <1>8, <1>9, <2>1 DEF ProbeHolds, DropsFirst
<1> QED BY <1>2, <1>3, <1>5, <1>9, <1>11, <1>12, RoundKeeps

LEMMA ProbeFacts ==
  ASSUME NEW P, RowsOffered(P), TuningInv(P), tuner.at \in Steps \ {"next", "end"}
  PROVE  /\ tuner # Idle /\ tuner.now \in Sugg /\ tuner.now \in suggested /\ tuner.now.what \in Adds
         /\ Probe(tuner.now) = ProbeOf(samples, tuner.now)
         /\ ProbeOf(samples, tuner.now) \in Requests
         /\ Tells(ProbeOf(samples, tuner.now), tuner.now)
         /\ tuner.at \in {"apply", "after"} => AnsweredIn(maps, ProbeOf(samples, tuner.now))
         /\ \A s \in tuner.todo : s.what \in Adds
         /\ tuner.todo \subseteq suggested
<1>1. tuner # Idle
  BY DEF Idle, Steps
<1>2. /\ tuner \in RoundOf /\ ProbeHolds /\ DropsFirst /\ samples \in Seq(Requests)
  BY <1>1, RoundFacts
<1>3. tuner.now \in Sugg /\ tuner.now \in suggested /\ tuner.now.what \in Adds
      /\ \E i \in DOMAIN samples : Tells(samples[i], tuner.now)
  BY <1>2 DEF ProbeHolds
<1>4. Probe(tuner.now) = ProbeOf(samples, tuner.now)
  BY DEF Probe, ProbeOf
<1>5. /\ ProbeOf(samples, tuner.now) \in Requests
      /\ Tells(ProbeOf(samples, tuner.now), tuner.now)
  BY <1>2, <1>3, ProbeIs
<1> QED BY <1>1, <1>2, <1>3, <1>4, <1>5 DEF ProbeHolds, DropsFirst

LEMMA TuneBuildKeeps ==
  ASSUME NEW P, RowsOffered(P), TuningInv(P), TuneBuild
  PROVE  TuningInv(P)'
<1> DEFINE req == ProbeOf(samples, tuner.now)
           leaf == req.sumKind
           sum == req.sumProp
<1>1. tuner.at \in Steps \ {"next", "end"}
  BY DEF TuneBuild, Probing, Steps
<1>2. /\ tuner # Idle /\ Probe(tuner.now) = req /\ req \in Requests
      /\ tuner.at \in {"apply", "after"} => AnsweredIn(maps, req)
  BY <1>1, ProbeFacts
<1>3. /\ tuner \in RoundOf /\ building = {} /\ DescHolds /\ ProbeHolds /\ DropsFirst /\ SpentHolds
      /\ JoinInv(P) /\ WindowInv /\ maps \in MapsOf(P) /\ Exact(maps, {}) /\ PropsOk(P)
  BY <1>2, RoundFacts DEF TuningInv
<1>4. Unbuilt(req) /\ tuner.at \in {"before", "after", "last"}
  BY <1>2 DEF TuneBuild, Probing
<1>5. tuner.at # "after"
  BY <1>2, <1>4, AnsweredIs
<1>6. leaf \in Kinds /\ <<leaf, sum>> \notin maps.declared \cup maps.cached
  BY <1>2, <1>4, KindsAssumption DEF Unbuilt, Measured
<1>7. sum \in Props
  <2>1. PICK key \in VisibleKeys(maps, leaf) : HasAmount(maps.owned[<<leaf, key>>], sum)
    BY <1>4 DEF Unbuilt
  <2>2. <<leaf, key>> \in DOMAIN maps.owned /\ sum \in DOMAIN maps.owned[<<leaf, key>>]
    BY <2>1 DEF VisibleKeys, HasAmount
  <2>3. maps.owned[<<leaf, key>>] \in P
    BY <1>3, <2>2, RecordIs, OwnedsAre
  <2> QED BY <1>3, <2>2, <2>3 DEF PropsOk
<1>8. maps' = Built(maps, leaf, sum)
  BY <1>2 DEF TuneBuild, Built
<1>9. UNCHANGED <<desc, building, disk, tail, samples, suggested, tuner>>
  BY DEF TuneBuild
<1> HIDE DEF req, leaf, sum
<1>10. ExactlyAs(Built(maps, leaf, sum), maps, P)
  BY <1>3, <1>6, <1>7, BuiltIs
<1>11. maps' \in MapsOf(P) /\ Exact(maps', {}) /\ maps'.owned = maps.owned
       /\ maps'.declared = maps.declared
  BY <1>8, <1>10 DEF ExactlyAs
<1>12. JoinInv(P)'
  BY <1>3, <1>9, <1>11 DEF JoinInv
<1>13. SpentHolds'
  <2>1. /\ Due(maps', MeasuresIn(tuner.kept)) = Due(maps, MeasuresIn(tuner.kept))
        /\ BytesIn(maps', tuner.now) = BytesIn(maps, tuner.now)
    BY <1>11, SameOwned
  <2>2. SpentOn(maps', tuner.kept, tuner.used)
    BY <1>3, <2>1 DEF SpentHolds, SpentOn
  <2> QED BY <1>3, <1>9, <2>1, <2>2 DEF SpentHolds
<1>14. DescHolds' /\ DropsFirst'
  BY <1>3, <1>4, <1>5, <1>9 DEF DescHolds, KeptDescs, DropsFirst
<1>15. ProbeHolds'
  BY <1>3, <1>4, <1>5, <1>9 DEF ProbeHolds
<1> QED BY <1>3, <1>9, <1>12, <1>13, <1>14, <1>15, RoundKeeps

LEMMA TuneBeforeKeeps ==
  ASSUME NEW P, RowsOffered(P), TuningInv(P), TuneBefore
  PROVE  TuningInv(P)'
<1> DEFINE req == ProbeOf(samples, tuner.now)
           before == InspectCost(req)
<1>1. tuner.at \in Steps \ {"next", "end"} /\ tuner.at = "before"
  BY DEF TuneBefore, Steps
<1>2. /\ tuner # Idle /\ Probe(tuner.now) = req /\ req \in Requests
  BY <1>1, ProbeFacts
<1>3. /\ tuner \in RoundOf /\ building = {} /\ DescHolds /\ ProbeHolds /\ DropsFirst /\ SpentHolds
      /\ JoinInv(P) /\ WindowInv /\ maps \in MapsOf(P) /\ IsFiniteSet(DOMAIN maps.owned)
  BY <1>2, RoundFacts DEF TuningInv
<1>4. /\ JoinInv(P)' /\ maps' = maps /\ desc' = desc /\ building' = {}
  BY <1>3, JoinStays DEF TuneBefore
<1>5. tuner' = [tuner EXCEPT !.at = "apply", !.before = before]
      /\ UNCHANGED <<samples, suggested>> /\ Answered(req)
  BY <1>2 DEF TuneBefore, Tuner
<1>6. AnsweredIn(maps, req)
  BY <1>5, AnsweredIs
<1>7. before.scanned = ScanIn(maps, desc, req) /\ before \in [scanned : Int, cached : BOOLEAN]
  <2>1. ScanCost(req) = ScanIn(maps, desc, req)
    BY <1>2, CostIs
  <2>2. ScanIn(maps, desc, req) \in Int
    BY <1>2, <1>3, ScanTyped
  <2>3. MeasureIsCached(req) \in BOOLEAN
    BY DEF MeasureIsCached
  <2> QED BY <2>1, <2>2, <2>3 DEF InspectCost
<1>8. ProbeOf(samples', tuner.now) = req
  BY <1>5
<1> HIDE DEF req, before
<1>9. /\ tuner' \in RoundOf /\ tuner'.at = "apply" /\ tuner'.kept = tuner.kept /\ tuner'.todo = tuner.todo
      /\ tuner'.start = tuner.start /\ tuner'.used = tuner.used /\ tuner'.budget = tuner.budget
      /\ tuner'.now = tuner.now /\ tuner'.bytes = tuner.bytes /\ tuner'.before = before
  BY <1>3, <1>5, <1>7 DEF RoundOf, Steps
<1>10. DescHolds' /\ SpentHolds' /\ DropsFirst'
  BY <1>1, <1>3, <1>4, <1>5, <1>9 DEF DescHolds, KeptDescs, SpentHolds, DropsFirst
<1>11. ProbeHolds'
  BY <1>1, <1>3, <1>4, <1>5, <1>6, <1>7, <1>8, <1>9 DEF ProbeHolds
<1> QED BY <1>3, <1>4, <1>5, <1>9, <1>10, <1>11, RoundKeeps

LEMMA TuneLastKeeps ==
  ASSUME NEW P, RowsOffered(P), TuningInv(P), TuneLast
  PROVE  TuningInv(P)'
<1>1. tuner.at \in Steps \ {"next", "end"} /\ tuner.at = "last"
  BY DEF TuneLast, Steps
<1>2. tuner # Idle /\ tuner.now \in Sugg /\ (\A s \in tuner.todo : s.what \in Adds)
      /\ tuner.todo \subseteq suggested
  BY <1>1, ProbeFacts
<1>3. /\ tuner \in RoundOf /\ building = {} /\ DescHolds /\ SpentHolds /\ JoinInv(P) /\ WindowInv
  BY <1>2, RoundFacts DEF TuningInv
<1>4. /\ JoinInv(P)' /\ maps' = maps /\ desc' = desc /\ building' = {}
  BY <1>3, JoinStays DEF TuneLast
<1> DEFINE undone == tuner.undone \cup {tuner.now}
<1>5. tuner' = [tuner EXCEPT !.at = "next", !.undone = undone] /\ UNCHANGED <<samples, suggested>>
  BY DEF TuneLast, Tuner
<1>6. undone \in SUBSET Sugg
  BY <1>2, <1>3 DEF RoundOf
<1> HIDE DEF undone
<1>7. /\ tuner' \in RoundOf /\ tuner'.at = "next" /\ tuner'.kept = tuner.kept /\ tuner'.todo = tuner.todo
      /\ tuner'.start = tuner.start /\ tuner'.used = tuner.used /\ tuner'.budget = tuner.budget
  BY <1>3, <1>5, <1>6 DEF RoundOf, Steps
<1>8. DescHolds' /\ SpentHolds'
  BY <1>1, <1>3, <1>4, <1>7 DEF DescHolds, KeptDescs, SpentHolds
<1>9. ProbeHolds' /\ DropsFirst'
  BY <1>2, <1>5, <1>7 DEF ProbeHolds, DropsFirst, Steps
<1> QED BY <1>3, <1>4, <1>5, <1>7, <1>8, <1>9, RoundKeeps

LEMMA TuneFailKeeps ==
  ASSUME NEW P, RowsOffered(P), TuningInv(P), TuneFail
  PROVE  TuningInv(P)'
<1> DEFINE at == IF tuner.at = "after" THEN "undo" ELSE "end"
<1>1. tuner.at \in Steps /\ tuner.at \notin {"undo", "end"}
  BY DEF TuneFail, Steps, Probing
<1>2. tuner # Idle
  BY <1>1 DEF Steps, Idle
<1>3. /\ tuner \in RoundOf /\ building = {} /\ DescHolds /\ ProbeHolds /\ DropsFirst /\ SpentHolds
      /\ JoinInv(P) /\ WindowInv
  BY <1>2, RoundFacts DEF TuningInv
<1>4. /\ JoinInv(P)' /\ maps' = maps /\ desc' = desc /\ building' = {}
  BY <1>3, JoinStays DEF TuneFail
<1>5. tuner' = [tuner EXCEPT !.at = at, !.failed = TRUE] /\ UNCHANGED <<samples, suggested>>
  BY DEF TuneFail, Tuner
<1>6. at \in {"undo", "end"} /\ (at = "undo" <=> tuner.at = "after")
  OBVIOUS
<1> HIDE DEF at
<1>7. /\ tuner' \in RoundOf /\ tuner'.at = at /\ tuner'.kept = tuner.kept
      /\ tuner'.start = tuner.start /\ tuner'.used = tuner.used /\ tuner'.budget = tuner.budget
      /\ tuner'.now = tuner.now /\ tuner'.bytes = tuner.bytes /\ tuner'.todo = tuner.todo
      /\ tuner'.failed = TRUE
  BY <1>3, <1>5, <1>6 DEF RoundOf, Steps
<1>8. KeptDescs' = KeptDescs
  BY <1>7 DEF KeptDescs
<1>9. DescHolds'
  BY <1>1, <1>3, <1>4, <1>6, <1>7, <1>8 DEF DescHolds, Extra
<1>10. SpentHolds'
  BY <1>1, <1>3, <1>4, <1>6, <1>7 DEF SpentHolds
<1>11. ProbeHolds'
  BY <1>3, <1>5, <1>6, <1>7 DEF ProbeHolds, Steps
<1>12. DropsFirst'
  BY <1>1, <1>3, <1>5, <1>6, <1>7 DEF DropsFirst
<1> QED BY <1>3, <1>4, <1>5, <1>7, <1>9, <1>10, <1>11, <1>12, RoundKeeps

LEMMA TuneEndKeeps ==
  ASSUME NEW P, RowsOffered(P), TuningInv(P), TuneEnd
  PROVE  TuningInv(P)'
<1>1. tuner.at = "next" /\ tuner # Idle
  BY DEF TuneEnd, Idle
<1>2. /\ tuner \in RoundOf /\ building = {} /\ DescHolds /\ DropsFirst /\ SpentHolds /\ JoinInv(P) /\ WindowInv
  BY <1>1, RoundFacts DEF TuningInv
<1>3. /\ JoinInv(P)' /\ maps' = maps /\ desc' = desc /\ building' = {}
  BY <1>2, JoinStays DEF TuneEnd
<1>4. tuner' = [tuner EXCEPT !.at = "end"] /\ UNCHANGED <<samples, suggested>>
  BY DEF TuneEnd, Tuner
<1>5. /\ tuner' \in RoundOf /\ tuner'.at = "end" /\ tuner'.kept = tuner.kept
      /\ tuner'.start = tuner.start /\ tuner'.used = tuner.used /\ tuner'.budget = tuner.budget
      /\ tuner'.todo = tuner.todo
  BY <1>2, <1>4 DEF RoundOf, Steps
<1>6. DescHolds' /\ SpentHolds'
  BY <1>1, <1>2, <1>3, <1>5 DEF DescHolds, KeptDescs, SpentHolds
<1>7. ProbeHolds' /\ DropsFirst'
  BY <1>2, <1>4, <1>5 DEF ProbeHolds, DropsFirst, Steps
<1> QED BY <1>2, <1>3, <1>4, <1>5, <1>6, <1>7, RoundKeeps

LEMMA TuneReturnKeeps ==
  ASSUME NEW P, RowsOffered(P), TuningInv(P), TuneReturn
  PROVE  TuningInv(P)'
<1>1. WindowInv'
  BY DEF TuneReturn, TuningInv, WindowInv
<1> QED BY <1>1, ElsewhereKeeps DEF TuneReturn

(* An index more changes no measure.                                       *)
LEMMA SameMeasures ==
  ASSUME NEW P, JoinInv(P), NEW s \in Sugg, EditDone(P, s), s.what = "add_index"
  PROVE  maps'.declared = maps.declared /\ maps'.cached = maps.cached
<1> DEFINE k == s.kind
           d == desc[k]
           e == Edited(d, s)
<1>1. d \in Descriptions /\ d # NoDescriptor /\ k \in Kinds /\ desc \in Descs
  BY DEF EditDone, JoinInv, Sugg
<1>2. e.sums = d.sums /\ e \in Descriptions /\ e # NoDescriptor
  BY <1>1, EditedIs, DescriptorsAssumption DEF Descriptions
<1>3. desc' = [desc EXCEPT ![k] = e]
  BY DEF EditDone
<1> HIDE DEF e, d
<1>4. \A kind \in Kinds : /\ desc'[kind] # NoDescriptor <=> desc[kind] # NoDescriptor
                          /\ desc[kind] # NoDescriptor => desc'[kind].sums = desc[kind].sums
  BY <1>1, <1>2, <1>3 DEF Descs, d
<1>5. DeclaredOf(desc') = DeclaredOf(desc)
  <2>1. ASSUME NEW p PROVE p \in DeclaredOf(desc') <=> p \in DeclaredOf(desc)
    <3>1. p \in DeclaredOf(desc') <=>
            \E kind \in Kinds : desc'[kind] # NoDescriptor /\ p \in {kind} \X desc'[kind].sums
      BY DEF DeclaredOf
    <3>2. p \in DeclaredOf(desc) <=>
            \E kind \in Kinds : desc[kind] # NoDescriptor /\ p \in {kind} \X desc[kind].sums
      BY DEF DeclaredOf
    <3> QED BY <1>4, <3>1, <3>2
  <2> QED BY <2>1
<1>6. maps'.declared = maps.declared
  BY <1>5 DEF EditDone, JoinInv
<1>7. \A p \in maps.cached : ~(p[1] = k /\ p[2] \in e.sums)
  <2> SUFFICES ASSUME NEW p \in maps.cached, p[1] = k, p[2] \in e.sums PROVE FALSE
    OBVIOUS
  <2>1. p = <<p[1], p[2]>>
    BY RecordIs DEF JoinInv, Pairs
  <2>2. p \in {k} \X d.sums
    BY <1>2, <2>1
  <2>3. p \in DeclaredOf(desc)
    BY <1>1, <2>2 DEF DeclaredOf, d
  <2> QED BY <2>3 DEF JoinInv, Exact
<1>8. maps'.cached = {p \in maps.cached : ~(p[1] = k /\ p[2] \in e.sums)}
  BY DEF EditDone, e, d
<1>9. maps'.cached = maps.cached
  BY <1>7, <1>8
<1> QED BY <1>6, <1>9

LEMMA TuneApplyKeeps ==
  ASSUME NEW P, RowsOffered(P), TuningInv(P), TuneApply
  PROVE  TuningInv(P)'
<1> DEFINE s == tuner.now
           req == ProbeOf(samples, s)
<1>1. tuner.at \in Steps \ {"next", "end"} /\ tuner.at = "apply"
  BY DEF TuneApply, Steps
<1>2. /\ tuner # Idle /\ s \in Sugg /\ s.what \in Adds /\ req \in Requests /\ Tells(req, s)
      /\ AnsweredIn(maps, req)
  BY <1>1, ProbeFacts
<1>3. /\ tuner \in RoundOf /\ building = {} /\ DescHolds /\ ProbeHolds /\ DropsFirst /\ SpentHolds
      /\ JoinInv(P) /\ WindowInv /\ desc = KeptDescs /\ s \in suggested
  BY <1>1, <1>2, RoundFacts, ProbeFacts DEF TuningInv, DescHolds
<1>4. EditDone(P, s)
  BY <1>2, <1>3, EditStep DEF TuneApply
<1>5. tuner' = [tuner EXCEPT !.at = "after"] /\ UNCHANGED <<samples, suggested>>
  BY DEF TuneApply, Tuner
<1>6. /\ tuner' \in RoundOf /\ tuner'.at = "after" /\ tuner'.kept = tuner.kept /\ tuner'.todo = tuner.todo
      /\ tuner'.start = tuner.start /\ tuner'.used = tuner.used /\ tuner'.budget = tuner.budget
      /\ tuner'.now = s /\ tuner'.bytes = tuner.bytes /\ tuner'.before = tuner.before
  BY <1>3, <1>5 DEF RoundOf, Steps
<1>7. KeptDescs' = KeptDescs
  BY <1>6 DEF KeptDescs
<1>8. DescHolds'
  BY <1>3, <1>4, <1>6, <1>7 DEF DescHolds, Extra, EditDone
<1>9. SpentHolds'
  <2>1. /\ Due(maps', MeasuresIn(tuner.kept)) = Due(maps, MeasuresIn(tuner.kept))
        /\ BytesIn(maps', s) = BytesIn(maps, s)
    BY <1>4, SameOwned DEF EditDone
  <2>2. SpentOn(maps', tuner.kept, tuner.used)
    BY <1>3, <2>1 DEF SpentHolds, SpentOn
  <2>3. tuner.bytes = BytesIn(maps, s) /\ tuner.used + tuner.bytes <= tuner.budget
        /\ tuner.used <= tuner.budget
    BY <1>1, <1>3 DEF SpentHolds
  <2> QED BY <1>6, <2>1, <2>2, <2>3 DEF SpentHolds
<1>10. DropsFirst'
  BY <1>1, <1>3, <1>5, <1>6 DEF DropsFirst
<1>11. ProbeOf(samples', s) = req
  BY <1>5
<1>12. desc \in Descs /\ s.kind \in Kinds /\ desc[s.kind] \in Descriptions
       /\ desc' = [desc EXCEPT ![s.kind] = Edited(desc[s.kind], s)]
  BY <1>2, <1>3, <1>4 DEF EditDone, JoinInv, Sugg
<1>13. AnsweredIn(maps', req)
  <2>1. CASE s.what = "add_index"
    <3>1. maps'.declared = maps.declared /\ maps'.cached = maps.cached /\ maps'.owned = maps.owned
      BY <1>2, <1>3, <1>4, <2>1, SameMeasures DEF EditDone
    <3> QED BY <1>2, <3>1, SameAnswers
  <2>2. CASE s.what = "cache_measure"
    <3>1. req.sumKind = s.kind /\ req.sumProp = s.prop
      BY <1>2, <2>2 DEF Tells
    <3>2. s.prop \in desc'[s.kind].sums /\ desc'[s.kind] \in Descriptions
      BY <1>2, <1>12, <2>2, EditedIs DEF Descs
    <3>3. desc'[s.kind] # NoDescriptor
      BY <3>2, DescriptorsAssumption DEF Descriptions
    <3>4. <<s.kind, s.prop>> \in DeclaredOf(desc')
      BY <1>12, <3>2, <3>3 DEF DeclaredOf
    <3>5. <<req.sumKind, req.sumProp>> \in maps'.declared
      BY <1>4, <3>1, <3>4 DEF EditDone, JoinInv
    <3> QED BY <3>5 DEF AnsweredIn
  <2> QED BY <1>2, <2>1, <2>2 DEF Adds
<1>14. ASSUME s.what = "add_index", s.prop \in KeptDescs[s.kind].indexes
       PROVE  tuner.before.scanned = ScanIn(maps', desc', req)
  <2>1. /\ Edited(desc[s.kind], s).indexes = desc[s.kind].indexes
        /\ Edited(desc[s.kind], s).sums = desc[s.kind].sums
        /\ Edited(desc[s.kind], s).dropped = desc[s.kind].dropped
        /\ Edited(desc[s.kind], s) \in Descriptions
    <3> DEFINE a == desc[s.kind]
    <3>1. a \in Descriptions /\ s \in Sugg /\ s.what = "add_index" /\ s.prop \in a.indexes
      BY <1>2, <1>3, <1>12, <1>14
    <3> HIDE DEF a, s
    <3>2. /\ Edited(a, s).indexes = a.indexes \cup {s.prop} /\ Edited(a, s).sums = a.sums
          /\ Edited(a, s).dropped = a.dropped /\ Edited(a, s) \in Descriptions
      BY <3>1, EditedIs
    <3>3. a.indexes \cup {s.prop} = a.indexes
      BY <3>1
    <3> QED BY <3>2, <3>3 DEF a
  <2>2. Edited(desc[s.kind], s) = desc[s.kind]
    BY <1>12, <2>1, DescriptionsEqual
  <2>3. desc' = desc
    BY <1>12, <2>2 DEF Descs
  <2>4. maps'.declared = maps.declared /\ maps'.cached = maps.cached /\ maps'.owned = maps.owned
    BY <1>2, <1>3, <1>4, <1>14, SameMeasures DEF EditDone
  <2>5. ScanIn(maps', desc, req) = ScanIn(maps, desc, req)
    BY <2>4, SameAnswers
  <2> QED BY <1>1, <1>3, <2>3, <2>5 DEF ProbeHolds
<1>15. ProbeHolds'
  <2>1. s \in Sugg \cap suggested /\ s.what \in Adds /\ \E i \in DOMAIN samples : Tells(samples[i], s)
    BY <1>1, <1>3 DEF ProbeHolds
  <2> HIDE DEF req
  <2> QED BY <1>5, <1>6, <1>7, <1>11, <1>13, <1>14, <2>1 DEF ProbeHolds, Known
<1>16. JoinInv(P)' /\ building' = {}
  BY <1>4 DEF EditDone
<1> QED BY <1>3, <1>5, <1>6, <1>8, <1>9, <1>10, <1>15, <1>16, RoundKeeps

LEMMA TuneAfterKeeps ==
  ASSUME NEW P, RowsOffered(P), TuningInv(P), TuneAfter
  PROVE  TuningInv(P)'
<1> DEFINE s == tuner.now
           req == ProbeOf(samples, s)
           kept == tuner.kept \cup {s}
           used == tuner.used + tuner.bytes
<1>1. tuner.at \in Steps \ {"next", "end"} /\ tuner.at = "after"
  BY DEF TuneAfter, Steps
<1>2. /\ tuner # Idle /\ s \in Sugg /\ s.what \in Adds /\ req \in Requests /\ Tells(req, s)
      /\ Probe(s) = req /\ (\A t \in tuner.todo : t.what \in Adds)
      /\ s \in suggested /\ tuner.todo \subseteq suggested
  BY <1>1, ProbeFacts
<1>3. /\ tuner \in RoundOf /\ building = {} /\ DescHolds /\ ProbeHolds /\ SpentHolds
      /\ JoinInv(P) /\ WindowInv /\ KeptDescs[s.kind] # NoDescriptor
      /\ desc = [KeptDescs EXCEPT ![s.kind] = Edited(@, s)] /\ KeptDescs \in Descs
      /\ maps \in MapsOf(P) /\ PropsOk(P)
  BY <1>1, <1>2, RoundFacts DEF TuningInv, DescHolds, Extra
<1>4. /\ JoinInv(P)' /\ maps' = maps /\ desc' = desc /\ building' = {}
      /\ UNCHANGED <<samples, suggested>>
  BY <1>3, JoinStays DEF TuneAfter, Tuner
<1>5. s.kind \in Kinds /\ KeptDescs[s.kind] \in Descriptions
      /\ desc[s.kind] = Edited(KeptDescs[s.kind], s)
  BY <1>2, <1>3 DEF Sugg, Descs
<1>6. CASE ShouldRollback(s, tuner.before, InspectCost(req))
  <2>1. tuner' = [tuner EXCEPT !.at = "undo"]
    BY <1>2, <1>6 DEF TuneAfter, Tuner
  <2>2. /\ tuner' \in RoundOf /\ tuner'.at = "undo" /\ tuner'.kept = tuner.kept /\ tuner'.todo = tuner.todo
        /\ tuner'.start = tuner.start /\ tuner'.used = tuner.used /\ tuner'.budget = tuner.budget
        /\ tuner'.now = s /\ tuner'.bytes = tuner.bytes
    BY <1>3, <2>1 DEF RoundOf, Steps
  <2>3. s.what = "add_index"
    <3> SUFFICES ASSUME s.what = "cache_measure" PROVE FALSE
      BY <1>2 DEF Adds
    <3>1. req.sumKind = s.kind /\ req.sumProp = s.prop /\ UsesRollups(req)
      BY <1>2 DEF Tells
    <3>2. s.prop \in desc[s.kind].sums /\ desc[s.kind] \in Descriptions
      BY <1>2, <1>5, EditedIs
    <3>3. desc[s.kind] # NoDescriptor
      BY <3>2, DescriptorsAssumption DEF Descriptions
    <3>4. TableReady(req)
      BY <3>1, <3>2, <3>3 DEF TableReady
    <3>5. InspectCost(req).cached
      BY <3>1, <3>4 DEF InspectCost, MeasureIsCached
    <3> QED BY <1>6, <3>5 DEF ShouldRollback
  <2>4. ~Known
    <3> SUFFICES ASSUME Known PROVE FALSE
      OBVIOUS
    <3>1. tuner.before.scanned = ScanIn(maps, desc, req)
      BY <1>1, <1>3, <2>3 DEF ProbeHolds
    <3>2. InspectCost(req).scanned = ScanIn(maps, desc, req)
      BY <1>2, CostIs DEF InspectCost
    <3>3. tuner.before.scanned \in Int
      BY <1>3 DEF RoundOf
    <3> QED BY <1>6, <2>3, <3>1, <3>2, <3>3 DEF ShouldRollback
  <2>5. KeptDescs' = KeptDescs
    BY <2>2 DEF KeptDescs
  <2>6. DescHolds' /\ SpentHolds' /\ DropsFirst'
    BY <1>1, <1>2, <1>3, <1>4, <2>2, <2>5 DEF DescHolds, Extra, SpentHolds, DropsFirst
  <2>7. ProbeHolds'
    <3>1. s \in Sugg \cap suggested /\ s.what \in Adds /\ \E i \in DOMAIN samples : Tells(samples[i], s)
      BY <1>1, <1>3 DEF ProbeHolds
    <3> QED BY <1>4, <2>2, <2>3, <2>4, <2>5, <3>1 DEF ProbeHolds, Known
  <2> QED BY <1>3, <1>4, <2>2, <2>6, <2>7, RoundKeeps
<1>7. CASE ~ShouldRollback(s, tuner.before, InspectCost(req))
  <2>1. tuner' = [tuner EXCEPT !.at = "next", !.used = used, !.kept = kept]
    BY <1>2, <1>7 DEF TuneAfter, Tuner
  <2>2. tuner.kept \in SUBSET Sugg /\ tuner.start \in Descs /\ tuner.used \in Nat /\ tuner.budget \in Nat
    BY <1>3 DEF RoundOf
  <2>3. tuner.bytes = BytesIn(maps, s) /\ tuner.used + tuner.bytes <= tuner.budget
        /\ SpentOn(maps, tuner.kept, tuner.used)
    BY <1>1, <1>3 DEF SpentHolds
  <2>4. BytesIn(maps, s) \in Nat
    BY <1>2, <1>3, BytesTyped
  <2>5. SpentOn(maps, kept, used)
    <3>1. SpentOn(maps, tuner.kept \cup {s}, tuner.used + BytesIn(maps, s))
      BY <1>2, <1>3, <2>2, <2>3, SpentMore
    <3> QED BY <2>3, <3>1
  <2>6. used \in Nat /\ used <= tuner.budget /\ kept \in SUBSET Sugg
    BY <1>2, <2>2, <2>3, <2>4
  <2>7. DescsAfter(tuner.start, kept) = desc
    <3> DEFINE d == tuner.start  k == tuner.kept
    <3>1. d \in Descs /\ k \in SUBSET Sugg /\ s \in Sugg /\ s.what \notin Drops
          /\ DescsAfter(d, k)[s.kind] # NoDescriptor
      BY <1>2, <1>3, <2>2 DEF KeptDescs, Adds, Drops
    <3> HIDE DEF d, k, s
    <3>2. DescsAfter(d, k \cup {s}) = [DescsAfter(d, k) EXCEPT ![s.kind] = Edited(@, s)]
      BY <3>1, KeptMore
    <3> QED BY <1>3, <3>2 DEF d, k, KeptDescs
  <2> HIDE DEF kept, used
  <2>8. /\ tuner' \in RoundOf /\ tuner'.at = "next" /\ tuner'.kept = kept /\ tuner'.todo = tuner.todo
        /\ tuner'.start = tuner.start /\ tuner'.used = used /\ tuner'.budget = tuner.budget
    BY <1>3, <2>1, <2>6 DEF RoundOf, Steps
  <2>9. DescHolds' /\ SpentHolds'
    BY <1>4, <2>5, <2>6, <2>7, <2>8 DEF DescHolds, KeptDescs, SpentHolds
  <2>10. ProbeHolds' /\ DropsFirst'
    BY <1>2, <1>4, <2>8 DEF ProbeHolds, DropsFirst, Steps
  <2> QED BY <1>3, <1>4, <2>8, <2>9, <2>10, RoundKeeps
<1> QED BY <1>6, <1>7

(* A change taken back is its name left out, whatever it found.            *)
LEMMA UndoneIs ==
  ASSUME NEW d \in Descriptions, NEW s \in Sugg, s.what \in Adds
  PROVE  /\ Inverted(s) \in Sugg /\ Inverted(s).kind = s.kind
         /\ Edited(Edited(d, s), Inverted(s)) = Edited(d, Inverted(s))
         /\ s.what = "add_index" /\ s.prop \notin d.indexes => Edited(d, Inverted(s)) = d
<1> DEFINE i == Inverted(s)
           b == Edited(d, s)
           c == Edited(b, i)
           e == Edited(d, i)
<1>1. /\ i \in Sugg /\ i.kind = s.kind /\ i.prop = s.prop
      /\ i.what = IF s.what = "add_index" THEN "drop_index" ELSE "drop_measure"
  BY DEF Inverted, Opposite, Sugg, Adds, Drops
<1> HIDE DEF i
<1>2. b \in Descriptions
  BY EditedIs
<1>3. c \in Descriptions /\ e \in Descriptions
  BY <1>1, <1>2, EditedIs
<1>4. CASE s.what = "add_index"
  <2>1. b.sums = d.sums /\ b.indexes = d.indexes \cup {s.prop} /\ b.dropped = d.dropped
    BY <1>4, EditedIs
  <2>2. e.sums = d.sums /\ e.indexes = d.indexes \ {s.prop} /\ e.dropped = d.dropped
    BY <1>1, <1>4, EditedIs
  <2> HIDE DEF b, e
  <2>3. c.sums = b.sums /\ c.indexes = b.indexes \ {s.prop} /\ c.dropped = b.dropped
    BY <1>1, <1>2, <1>4, EditedIs
  <2> HIDE DEF c
  <2> HIDE DEF e
  <2>4. c.indexes = e.indexes /\ c.sums = e.sums /\ c.dropped = e.dropped
    BY <2>1, <2>2, <2>3
  <2>5. c = e
    BY <1>3, <2>4, DescriptionsEqual
  <2>6. ASSUME s.prop \notin d.indexes PROVE e = d
    <3>1. e.indexes = d.indexes /\ e.sums = d.sums /\ e.dropped = d.dropped
      BY <2>2, <2>6
    <3> QED BY <1>3, <3>1, DescriptionsEqual
  <2> QED BY <1>1, <2>5, <2>6 DEF i, b, c, e
<1>5. CASE s.what = "cache_measure"
  <2>1. b.sums = d.sums \cup {s.prop} /\ b.indexes = d.indexes /\ b.dropped = d.dropped
    BY <1>5, EditedIs
  <2>2. e.sums = d.sums \ {s.prop} /\ e.indexes = d.indexes /\ e.dropped = d.dropped
    BY <1>1, <1>5, EditedIs
  <2> HIDE DEF b, e
  <2>3. c.sums = b.sums \ {s.prop} /\ c.indexes = b.indexes /\ c.dropped = b.dropped
    BY <1>1, <1>2, <1>5, EditedIs
  <2> HIDE DEF c
  <2> HIDE DEF e
  <2>4. c.indexes = e.indexes /\ c.sums = e.sums /\ c.dropped = e.dropped
    BY <2>1, <2>2, <2>3
  <2>5. c = e
    BY <1>3, <2>4, DescriptionsEqual
  <2> QED BY <1>1, <1>5, <2>5 DEF i, b, c, e
<1> QED BY <1>4, <1>5 DEF Adds

LEMMA Undoing ==
  ASSUME NEW P, RowsOffered(P), TuningInv(P), tuner.at = "undo", EditSchema(Inverted(tuner.now))
  PROVE  /\ JoinInv(P)' /\ building' = {} /\ maps'.owned = maps.owned
         /\ KeptDescs[tuner.now.kind] # NoDescriptor /\ tuner.now.kind \in Kinds
         /\ Inverted(tuner.now).kind = tuner.now.kind
         /\ desc' = [KeptDescs EXCEPT ![tuner.now.kind] = Edited(@, Inverted(tuner.now))]
         /\ ~tuner.failed => desc' = KeptDescs
<1> DEFINE s == tuner.now
           inv == Inverted(s)
           k == s.kind
           a == KeptDescs[k]
<1>1. tuner.at \in Steps \ {"next", "end"}
  BY DEF Steps
<1>2. tuner # Idle /\ s \in Sugg /\ s.what \in Adds
  BY <1>1, ProbeFacts
<1>3. /\ building = {} /\ JoinInv(P) /\ KeptDescs[k] # NoDescriptor
      /\ desc = [KeptDescs EXCEPT ![k] = Edited(@, s)] /\ KeptDescs \in Descs
      /\ tuner.failed \/ (s.what = "add_index" /\ s.prop \notin KeptDescs[k].indexes)
  BY <1>2, RoundFacts DEF TuningInv, DescHolds, Extra, ProbeHolds, Known
<1>4. a \in Descriptions /\ k \in Kinds /\ desc[k] = Edited(a, s)
  BY <1>2, <1>3 DEF Sugg, Descs
<1>5. inv \in Sugg /\ inv.kind = k /\ Edited(Edited(a, s), inv) = Edited(a, inv)
      /\ (~tuner.failed => Edited(a, inv) = a)
  BY <1>2, <1>3, <1>4, UndoneIs
<1>6. EditDone(P, inv)
  BY <1>3, <1>5, EditStep
<1> HIDE DEF inv
<1>7. desc' = [desc EXCEPT ![k] = Edited(a, inv)]
  BY <1>4, <1>5, <1>6 DEF EditDone
<1>8. desc' = [KeptDescs EXCEPT ![k] = Edited(a, inv)]
  BY <1>3, <1>4, <1>7 DEF Descs
<1>9. ~tuner.failed => desc' = KeptDescs
  BY <1>3, <1>4, <1>5, <1>8 DEF Descs
<1>10. JoinInv(P)' /\ building' = {} /\ maps'.owned = maps.owned
  BY <1>6 DEF EditDone
<1> QED BY <1>3, <1>4, <1>5, <1>8, <1>9, <1>10 DEF inv

LEMMA TuneUndoKeeps ==
  ASSUME NEW P, RowsOffered(P), TuningInv(P), TuneUndo
  PROVE  TuningInv(P)'
<1> DEFINE s == tuner.now
           inv == Inverted(s)
           k == s.kind
           at == IF tuner.failed THEN "end" ELSE "last"
<1>1. tuner.at \in Steps \ {"next", "end"} /\ tuner.at = "undo"
  BY DEF TuneUndo, Steps
<1>2. /\ tuner # Idle /\ s \in Sugg /\ s \in suggested /\ s.what \in Adds
      /\ (\A t \in tuner.todo : t.what \in Adds) /\ tuner.todo \subseteq suggested
  BY <1>1, ProbeFacts
<1>3. /\ tuner \in RoundOf /\ ProbeHolds /\ SpentHolds /\ WindowInv
  BY <1>2, RoundFacts DEF TuningInv
<1>4. /\ JoinInv(P)' /\ building' = {} /\ maps'.owned = maps.owned
      /\ KeptDescs[k] # NoDescriptor /\ inv.kind = k
      /\ desc' = [KeptDescs EXCEPT ![k] = Edited(@, inv)]
      /\ ~tuner.failed => desc' = KeptDescs
  BY <1>1, Undoing DEF TuneUndo
<1>5. tuner' = [tuner EXCEPT !.at = at] /\ UNCHANGED <<samples, suggested>>
  BY DEF TuneUndo, Tuner
<1>6. at = IF tuner.failed THEN "end" ELSE "last"
  OBVIOUS
<1> HIDE DEF at, inv
<1>7. /\ tuner' \in RoundOf /\ tuner'.at = at /\ tuner'.kept = tuner.kept /\ tuner'.todo = tuner.todo
      /\ tuner'.start = tuner.start /\ tuner'.used = tuner.used /\ tuner'.budget = tuner.budget
      /\ tuner'.now = s /\ tuner'.failed = tuner.failed
  BY <1>3, <1>5, <1>6 DEF RoundOf, Steps
<1>8. KeptDescs' = KeptDescs
  BY <1>7 DEF KeptDescs
<1>9. DescHolds'
  <2>1. CASE tuner.failed
    <3>1. Extra(inv)'
      BY <1>4, <1>5, <1>7, <1>8 DEF Extra, inv
    <3>2. LeftOver'
      BY <1>2, <1>5, <1>7, <2>1, <3>1 DEF LeftOver, inv
    <3> QED BY <1>6, <1>7, <2>1, <3>2 DEF DescHolds
  <2>2. CASE ~tuner.failed
    BY <1>4, <1>6, <1>7, <1>8, <2>2 DEF DescHolds
  <2> QED BY <2>1, <2>2
<1>10. SpentHolds'
  <2>1. Due(maps', MeasuresIn(tuner.kept)) = Due(maps, MeasuresIn(tuner.kept))
    BY <1>4, SameOwned
  <2>2. SpentOn(maps', tuner.kept, tuner.used)
    BY <1>3, <2>1 DEF SpentHolds, SpentOn
  <2> QED BY <1>3, <1>6, <1>7, <2>2 DEF SpentHolds
<1>11. ProbeHolds' /\ DropsFirst'
  <2>1. \E i \in DOMAIN samples : Tells(samples[i], s)
    BY <1>1, <1>3 DEF ProbeHolds
  <2> QED BY <1>2, <1>5, <1>6, <1>7, <2>1 DEF ProbeHolds, DropsFirst
<1> QED BY <1>3, <1>4, <1>5, <1>7, <1>9, <1>10, <1>11, RoundKeeps

(* An append that fails ends the round, with its edit live or without it.  *)
LEMMA CutKeeps ==
  ASSUME NEW P, RowsOffered(P), TuningInv(P), tuner # Idle,
         tuner' = [tuner EXCEPT !.at = "end", !.failed = TRUE, !.cut = TRUE],
         UNCHANGED <<samples, suggested>>,
         JoinInv(P)', building' = {}, maps'.owned = maps.owned,
         desc' = KeptDescs \/ LeftOver'
  PROVE  TuningInv(P)'
<1>1. tuner \in RoundOf /\ DropsFirst /\ SpentHolds /\ WindowInv
  BY RoundFacts DEF TuningInv
<1>2. /\ tuner' \in RoundOf /\ tuner'.at = "end" /\ tuner'.kept = tuner.kept /\ tuner'.todo = tuner.todo
      /\ tuner'.start = tuner.start /\ tuner'.used = tuner.used /\ tuner'.budget = tuner.budget
  BY <1>1 DEF RoundOf, Steps
<1>3. KeptDescs' = KeptDescs
  BY <1>2 DEF KeptDescs
<1>4. DescHolds'
  BY <1>2, <1>3 DEF DescHolds
<1>5. SpentHolds'
  <2>1. Due(maps', MeasuresIn(tuner.kept)) = Due(maps, MeasuresIn(tuner.kept))
    BY SameOwned
  <2>2. SpentOn(maps', tuner.kept, tuner.used)
    BY <1>1, <2>1 DEF SpentHolds, SpentOn
  <2> QED BY <1>1, <1>2, <2>2 DEF SpentHolds
<1>6. ProbeHolds' /\ DropsFirst'
  BY <1>1, <1>2 DEF ProbeHolds, DropsFirst, Steps
<1> QED BY <1>1, <1>2, <1>4, <1>5, <1>6, RoundKeeps

(* The change a round is at, left whole, is paid for.                      *)
LEMMA LeftWhole ==
  ASSUME NEW P, RowsOffered(P), TuningInv(P), tuner.at \in {"apply", "undo"},
         tuner' = [tuner EXCEPT !.at = "end", !.failed = TRUE, !.cut = TRUE],
         UNCHANGED suggested, maps'.owned = maps.owned,
         KeptDescs[tuner.now.kind] # NoDescriptor,
         desc' = [KeptDescs EXCEPT ![tuner.now.kind] = Edited(@, tuner.now)]
  PROVE  LeftOver'
<1> DEFINE s == tuner.now
           kept == tuner.kept \cup {s}
           bytes == BytesIn(maps, s)
<1>1. /\ tuner # Idle /\ s \in Sugg /\ s \in suggested /\ s.what \in Adds
  BY ProbeFacts DEF Steps
<1>2. /\ tuner \in RoundOf /\ SpentHolds /\ maps \in MapsOf(P) /\ PropsOk(P)
  BY <1>1, RoundFacts
<1>3. /\ tuner'.at = "end" /\ tuner'.cut = TRUE /\ tuner'.kept = tuner.kept
      /\ tuner'.start = tuner.start /\ tuner'.budget = tuner.budget /\ tuner'.now = tuner.now
  BY <1>2 DEF RoundOf
<1>4. KeptDescs' = KeptDescs
  BY <1>3 DEF KeptDescs
<1>5. tuner.kept \in SUBSET Sugg /\ tuner.used \in Nat /\ tuner.budget \in Nat
  BY <1>2 DEF RoundOf
<1>6. SpentOn(maps, tuner.kept, tuner.used) /\ tuner.used + bytes <= tuner.budget
  BY <1>2 DEF SpentHolds
<1>7. bytes \in Nat
  BY <1>1, <1>2, BytesTyped
<1>8. SpentOn(maps, kept, tuner.used + bytes)
  BY <1>1, <1>2, <1>5, <1>6, SpentMore
<1> HIDE DEF bytes, kept
<1>9. tuner.used + bytes \in Nat
  BY <1>5, <1>7
<1>10. SpentOn(maps, kept, tuner.budget)
  BY <1>5, <1>6, <1>8, <1>9, SpentLater
<1>11. SpentOn(maps', kept, tuner.budget)
  <2>1. Due(maps', MeasuresIn(kept)) = Due(maps, MeasuresIn(kept))
    BY SameOwned
  <2> QED BY <1>10, <2>1 DEF SpentOn
<1>12. s \in suggested' /\ s \in Sugg /\ Extra(s)' /\ SpentOn(maps', tuner'.kept \cup {s}, tuner'.budget)
  BY <1>1, <1>3, <1>4, <1>11 DEF Extra, kept
<1> QED BY <1>3, <1>12 DEF LeftOver

LEMMA TuneCutKeeps ==
  ASSUME NEW P, RowsOffered(P), TuningInv(P), TuneCut
  PROVE  TuningInv(P)'
<1>1. /\ tuner' = [tuner EXCEPT !.at = "end", !.failed = TRUE, !.cut = TRUE]
      /\ UNCHANGED <<samples, suggested>>
  BY DEF TuneCut, Tuner
<1>2. tuner.at \in {"next", "apply", "undo"} /\ tuner # Idle
  BY DEF TuneCut, Idle
<1>3. /\ tuner \in RoundOf /\ building = {} /\ DescHolds /\ DropsFirst /\ SpentHolds
      /\ JoinInv(P) /\ maps \in MapsOf(P)
  BY <1>2, RoundFacts DEF TuningInv
<1>4. tuner'.cut = TRUE /\ tuner'.failed = TRUE /\ tuner'.kept = tuner.kept
      /\ tuner'.start = tuner.start /\ tuner'.budget = tuner.budget /\ tuner'.now = tuner.now
  BY <1>1, <1>3 DEF RoundOf
<1>5. KeptDescs' = KeptDescs
  BY <1>4 DEF KeptDescs
<1>6. CASE UNCHANGED joinVars
  <2>1. JoinInv(P)' /\ maps' = maps /\ desc' = desc /\ building' = {}
    BY <1>3, <1>6, JoinStays
  <2>2. CASE tuner.at = "undo"
    <3>1. Extra(tuner.now)
      BY <1>3, <2>2 DEF DescHolds
    <3>2. LeftOver'
      BY <1>1, <2>1, <2>2, <3>1, LeftWhole DEF Extra
    <3> QED BY <1>1, <1>2, <2>1, <3>2, CutKeeps
  <2>3. CASE tuner.at # "undo"
    <3>1. desc' = KeptDescs
      BY <1>2, <1>3, <2>1, <2>3 DEF DescHolds
    <3> QED BY <1>1, <1>2, <2>1, <3>1, CutKeeps
  <2> QED BY <2>2, <2>3
<1>7. CASE tuner.at = "undo" /\ EditSchema(Inverted(tuner.now))
  <2> DEFINE inv == Inverted(tuner.now)
  <2>1. /\ JoinInv(P)' /\ building' = {} /\ maps'.owned = maps.owned
        /\ KeptDescs[inv.kind] # NoDescriptor
        /\ desc' = [KeptDescs EXCEPT ![inv.kind] = Edited(@, inv)]
    BY <1>7, Undoing
  <2>2. tuner.now \in Sugg /\ tuner.now \in suggested /\ tuner.now.what \in Adds
    BY <1>7, ProbeFacts DEF Steps
  <2> HIDE DEF inv
  <2>3. Extra(inv)'
    BY <1>4, <1>5, <2>1 DEF Extra, inv
  <2>4. LeftOver'
    BY <1>1, <1>4, <2>2, <2>3 DEF LeftOver, inv
  <2> QED BY <1>1, <1>2, <2>1, <2>4, CutKeeps
<1>8. CASE tuner.at = "apply" /\ EditSchema(tuner.now)
  <2>1. tuner.now \in Sugg
    BY <1>8, ProbeFacts DEF Steps
  <2>2. EditDone(P, tuner.now) /\ desc = KeptDescs
    BY <1>3, <1>8, <2>1, EditStep DEF DescHolds
  <2>3. LeftOver'
    BY <1>1, <1>8, <2>2, LeftWhole DEF EditDone
  <2> QED BY <1>1, <1>2, <2>2, <2>3, CutKeeps DEF EditDone
<1>9. ASSUME NEW s \in tuner.todo, tuner.at = "next", s.what \in Drops, EditSchema(s)
      PROVE  TuningInv(P)'
  <2>1. s \in Sugg /\ s \in suggested
    BY <1>3, <1>9 DEF RoundOf, DropsFirst
  <2>2. EditDone(P, s) /\ desc = KeptDescs
    BY <1>3, <1>9, <2>1, EditStep DEF DescHolds
  <2>3. Extra(s)'
    BY <1>5, <2>2 DEF Extra, EditDone
  <2>4. SpentOn(maps', tuner.kept \cup {s}, tuner.budget)
    <3>1. MeasuresIn(tuner.kept \cup {s}) = MeasuresIn(tuner.kept)
      BY <1>9 DEF MeasuresIn, Drops
    <3>2. Due(maps', MeasuresIn(tuner.kept)) = Due(maps, MeasuresIn(tuner.kept))
      BY <2>2, SameOwned DEF EditDone
    <3>3. SpentOn(maps, tuner.kept, tuner.budget)
      BY <1>3, SpentLater DEF SpentHolds, RoundOf
    <3> QED BY <3>1, <3>2, <3>3 DEF SpentOn
  <2>5. LeftOver'
    BY <1>1, <1>4, <2>1, <2>3, <2>4 DEF LeftOver
  <2> QED BY <1>1, <1>2, <2>2, <2>5, CutKeeps DEF EditDone
<1> QED BY <1>6, <1>7, <1>8, <1>9 DEF TuneCut, AppendFails, Turn

-----------------------------------------------------------------------------
(* Every step, and what follows.                                           *)

LEMMA TuningKeeps ==
  ASSUME NEW P, RowsOffered(P), TuningInv(P), [TuningNext]_tuningVars
  PROVE  TuningInv(P)'
<1>1. ASSUME NEW step, step => [JoinNext]_joinVars, Elsewhere(step)
      PROVE  TuningInv(P)'
  <2>1. tuner' = Idle /\ [JoinNext]_joinVars /\ WindowInv'
    BY <1>1 DEF Elsewhere, TuningInv, WindowInv
  <2> QED BY <2>1, ElsewhereKeeps
<1>2. CASE \E row \in Offered : Elsewhere(Install(row))
  <2>1. PICK row \in Offered : Elsewhere(Install(row))
    BY <1>2
  <2>2. Install(row) => [JoinNext]_joinVars
    BY DEF JoinNext
  <2> QED BY <2>1, <2>2, <1>1
<1>3. CASE \E kind \in Kinds, key \in Keys : Elsewhere(Hide(kind, key))
  <2>1. PICK kind \in Kinds, key \in Keys : Elsewhere(Hide(kind, key))
    BY <1>3
  <2>2. Hide(kind, key) => [JoinNext]_joinVars
    BY DEF JoinNext
  <2> QED BY <2>1, <2>2, <1>1
<1>4. CASE \E kind \in Kinds : \E d \in Descriptors[kind] \cup {NoDescriptor} : Elsewhere(Describe(kind, d))
  <2>1. PICK kind \in Kinds : \E d \in Descriptors[kind] \cup {NoDescriptor} : Elsewhere(Describe(kind, d))
    BY <1>4
  <2>2. PICK d \in Descriptors[kind] \cup {NoDescriptor} : Elsewhere(Describe(kind, d))
    BY <2>1
  <2>3. Describe(kind, d) => [JoinNext]_joinVars
    BY DEF JoinNext
  <2> QED BY <2>2, <2>3, <1>1
<1>5. CASE \E kind \in Kinds, sum \in Props : Elsewhere(EnterCachedSum(kind, sum))
  <2>1. PICK kind \in Kinds, sum \in Props : Elsewhere(EnterCachedSum(kind, sum))
    BY <1>5
  <2>2. EnterCachedSum(kind, sum) => [JoinNext]_joinVars
    BY DEF JoinNext
  <2> QED BY <2>1, <2>2, <1>1
<1>6. CASE \E kind \in Kinds, sum \in Props : Elsewhere(BuildCachedSum(kind, sum))
  <2>1. PICK kind \in Kinds, sum \in Props : Elsewhere(BuildCachedSum(kind, sum))
    BY <1>6
  <2>2. BuildCachedSum(kind, sum) => [JoinNext]_joinVars
    BY DEF JoinNext
  <2> QED BY <2>1, <2>2, <1>1
<1>7. CASE Elsewhere(Persist)
  <2>1. Persist => [JoinNext]_joinVars
    BY DEF JoinNext
  <2> QED BY <1>7, <2>1, <1>1
<1>8. CASE UNCHANGED tuningVars
  <2>1. JoinInv(P)' /\ maps' = maps /\ desc' = desc /\ building' = building
    BY <1>8, JoinStays DEF tuningVars, TuningInv
  <2>2. samples' = samples /\ suggested' = suggested /\ tuner' = tuner
    BY <1>8 DEF tuningVars
  <2>3. WindowInv'
    BY <2>2 DEF TuningInv, WindowInv
  <2>4. CASE tuner = Idle
    BY <2>1, <2>2, <2>3, <2>4 DEF TuningInv, RoundInv
  <2>5. CASE tuner # Idle
    <3>1. /\ tuner \in RoundOf /\ building = {} /\ DescHolds /\ ProbeHolds /\ DropsFirst /\ SpentHolds
      BY <2>5, RoundFacts
    <3>2. DescHolds' /\ ProbeHolds' /\ DropsFirst' /\ SpentHolds'
      BY <2>1, <2>2, <3>1 DEF DescHolds, Extra, LeftOver, KeptDescs, ProbeHolds, Known, DropsFirst, SpentHolds
    <3> QED BY <2>1, <2>2, <3>1, <3>2, RoundKeeps DEF TuningInv
  <2> QED BY <2>4, <2>5
<1>9. CASE \E kept \in 0..Len(tail) : Crash(kept)
  BY <1>9, CrashKeeps
<1>10. CASE (\E req \in Requests : Record(req)) \/ Suggest \/ TuneReturn
  BY <1>10, RecordKeeps, SuggestKeeps, TuneReturnKeeps
<1>11. CASE (\E budget \in Budgets : AutoApply(budget))
  BY <1>11, AutoApplyKeeps
<1>12. CASE \E s \in suggested : TuneDrop(s) \/ TuneSkip(s) \/ TuneAdd(s)
  BY <1>12, TuneDropKeeps, TuneSkipKeeps, TuneAddKeeps
<1>13. CASE TuneBuild \/ TuneBefore \/ TuneApply
  BY <1>13, TuneBuildKeeps, TuneBeforeKeeps, TuneApplyKeeps
<1>14. CASE TuneAfter \/ TuneUndo \/ TuneLast
  BY <1>14, TuneAfterKeeps, TuneUndoKeeps, TuneLastKeeps
<1>15. CASE TuneFail \/ TuneCut \/ TuneEnd
  BY <1>15, TuneFailKeeps, TuneCutKeeps, TuneEndKeeps
<1> QED
  BY <1>2, <1>3, <1>4, <1>5, <1>6, <1>7, <1>8, <1>9, <1>10, <1>11, <1>12, <1>13, <1>14, <1>15
  DEF TuningNext

(* The rows of the measures among some changes are due, and so no more     *)
(* than what was paid for them.                                            *)
LEMMA BudgetFollows ==
  ASSUME NEW P, RowsOffered(P), TuningInv(P), tuner.at = "end", NEW kept, NEW used \in Nat,
         SpentOn(maps, kept, used), used <= tuner.budget
  PROVE  WithinBudget(kept)
<1> SUFFICES MeasureBytes * Cardinality({at \in DOMAIN maps.rollups : <<at[1], at[3]>> \in MeasuresIn(kept)})
               <= tuner.budget
  BY DEF WithinBudget, MeasuresIn
<1> DEFINE rows == {at \in DOMAIN maps.rollups : <<at[1], at[3]>> \in MeasuresIn(kept)}
           due == Due(maps, MeasuresIn(kept))
<1>1. tuner # Idle
  BY DEF Idle
<1>2. /\ tuner \in RoundOf /\ maps \in MapsOf(P) /\ Exact(maps, {})
  BY <1>1, RoundFacts
<1>3. rows \subseteq due
  <2> SUFFICES ASSUME NEW at \in rows PROVE at \in due
    OBVIOUS
  <2>1. at \in DOMAIN RowsOfMaps(maps)
    BY <1>2, RowsAre DEF Exact
  <2>2. at \in Due(maps, Tracked(maps) \ {})
    BY <1>2, <2>1 DEF Exact
  <2> QED BY <2>2 DEF Due
<1>4. IsFiniteSet(due) /\ MeasureBytes * Cardinality(due) <= used /\ used <= tuner.budget
  BY DEF SpentOn
<1>5. used \in Nat /\ tuner.budget \in Nat
  BY <1>2 DEF RoundOf
<1> HIDE DEF rows, due
<1>6. Cardinality(rows) \in Nat /\ Cardinality(due) \in Nat /\ Cardinality(rows) <= Cardinality(due)
  BY <1>3, <1>4, FS_Subset, FS_CardinalityType
<1>7. \A a, b \in Nat : a <= b => MeasureBytes * a <= MeasureBytes * b
  <2> SUFFICES ASSUME NEW a \in Nat, NEW b \in Nat, a <= b PROVE MeasureBytes * a <= MeasureBytes * b
    OBVIOUS
  <2>1. MeasureBytes \in Nat /\ b - a \in Nat
    BY BudgetAssumption
  <2>2. MeasureBytes * (b - a) \in Nat /\ MeasureBytes * b = MeasureBytes * a + MeasureBytes * (b - a)
    BY <2>1
  <2> DEFINE x == MeasureBytes * a  y == MeasureBytes * b  z == MeasureBytes * (b - a)
  <2>3. x \in Int /\ z \in Nat /\ y = x + z
    BY <2>1, <2>2
  <2> HIDE DEF x, y, z
  <2>4. x <= y
    BY <2>3
  <2> QED BY <2>4 DEF x, y
<1>8. \A n \in Nat : MeasureBytes * n \in Int
  BY BudgetAssumption
<1> DEFINE x == MeasureBytes * Cardinality(rows)  y == MeasureBytes * Cardinality(due)
<1>9. x \in Int /\ y \in Int /\ x <= y /\ y <= used
  BY <1>4, <1>6, <1>7, <1>8
<1> HIDE DEF x, y
<1>10. x <= tuner.budget
  BY <1>4, <1>5, <1>9
<1> QED BY <1>10 DEF x, rows

LEMMA KeptFollows ==
  ASSUME NEW P, RowsOffered(P), TuningInv(P), tuner # Idle
  PROVE  WithKept = KeptDescs
<1> SUFFICES ASSUME NEW kind \in Kinds
             PROVE  WithKept[kind] = KeptDescs[kind]
  BY DEF WithKept, KeptDescs, DescsAfter
<1>2. tuner \in RoundOf
  BY RoundFacts
<1>3. \A what : KeptIn(what, kind) = PropsIn(tuner.kept, what, kind)
  BY DEF KeptIn, PropsIn
<1>4. CASE tuner.start[kind] = NoDescriptor
  BY <1>4 DEF WithKept, KeptDescs, DescsAfter
<1>5. CASE tuner.start[kind] # NoDescriptor
  <2> DEFINE d == tuner.start[kind]
             i == (d.indexes \ KeptIn("drop_index", kind)) \cup KeptIn("add_index", kind)
             m == (d.sums \ KeptIn("drop_measure", kind)) \cup KeptIn("cache_measure", kind)
  <2>1. d \in Descriptions
    BY <1>2, <1>5 DEF RoundOf, Descs
  <2>2. KeptDescs[kind] = DescAfter(d, tuner.kept, kind)
    BY <1>5 DEF KeptDescs, DescsAfter
  <2>3. DescAfter(d, tuner.kept, kind) = [sums |-> m, indexes |-> i, dropped |-> d.dropped]
    <3>1. /\ m = (d.sums \ PropsIn(tuner.kept, "drop_measure", kind))
                   \cup PropsIn(tuner.kept, "cache_measure", kind)
          /\ i = (d.indexes \ PropsIn(tuner.kept, "drop_index", kind))
                   \cup PropsIn(tuner.kept, "add_index", kind)
      BY <1>3
    <3> HIDE DEF m, i, d
    <3> QED BY <3>1 DEF DescAfter
  <2>4. [d EXCEPT !.indexes = i, !.sums = m] = [sums |-> m, indexes |-> i, dropped |-> d.dropped]
    <3> HIDE DEF d, i, m
    <3>1. [d EXCEPT !.indexes = i] = [sums |-> d.sums, indexes |-> i, dropped |-> d.dropped]
      BY <2>1 DEF Descriptions
    <3> DEFINE e == [sums |-> d.sums, indexes |-> i, dropped |-> d.dropped]
    <3>2. [e EXCEPT !.sums = m] = [sums |-> m, indexes |-> i, dropped |-> d.dropped]
      OBVIOUS
    <3> QED BY <3>1, <3>2
  <2>5. WithKept[kind] = [d EXCEPT !.indexes = i, !.sums = m]
    BY <1>5 DEF WithKept
  <2> QED BY <2>2, <2>3, <2>4, <2>5
<1> QED BY <1>4, <1>5

LEMMA BoundsFollow ==
  ASSUME NEW P, RowsOffered(P), TuningInv(P)
  PROVE  RoundKeepsBounds
<1> SUFFICES ASSUME tuner.at = "end"
             PROVE  /\ WithinBudget(tuner.kept)
                    /\ \/ desc = WithKept
                       \/ tuner.cut /\ \E s \in suggested :
                            s.what # "denormalize" /\ OneMore(s) /\ WithinBudget(tuner.kept \cup {s})
                       \/ tuner.failed /\ \E s \in suggested :
                            s.what \in DOMAIN Opposite /\ OneMore([s EXCEPT !.what = Opposite[@]])
  BY DEF RoundKeepsBounds
<1>1. tuner # Idle
  BY DEF Idle
<1>2. tuner \in RoundOf /\ DescHolds /\ SpentHolds
  BY <1>1, RoundFacts
<1>3. tuner.used \in Nat /\ tuner.budget \in Nat
  BY <1>2 DEF RoundOf
<1>4. WithinBudget(tuner.kept)
  BY <1>2, <1>3, BudgetFollows DEF SpentHolds
<1>5. WithKept = KeptDescs
  BY <1>1, KeptFollows
<1>6. ASSUME NEW s, s.kind \in Kinds, Extra(s) PROVE OneMore(s)
  <2>1. tuner.start[s.kind] # NoDescriptor
    BY <1>6 DEF Extra, KeptDescs, DescsAfter
  <2> QED BY <1>5, <1>6, <2>1 DEF Extra, OneMore
<1>7. CASE desc = KeptDescs
  BY <1>4, <1>5, <1>7
<1>8. ASSUME tuner.cut, NEW s \in suggested, s \in Sugg, Extra(s),
             SpentOn(maps, tuner.kept \cup {s}, tuner.budget)
      PROVE  s.what # "denormalize" /\ OneMore(s) /\ WithinBudget(tuner.kept \cup {s})
  <2>1. s.what # "denormalize" /\ s.kind \in Kinds
    BY <1>8 DEF Sugg, Adds, Drops
  <2> DEFINE kept == tuner.kept \cup {s}
  <2>2. tuner.budget <= tuner.budget /\ SpentOn(maps, kept, tuner.budget)
    BY <1>3, <1>8
  <2> HIDE DEF kept
  <2>3. WithinBudget(kept)
    BY <1>3, <2>2, BudgetFollows
  <2> QED BY <1>6, <1>8, <2>1, <2>3 DEF kept
<1>9. ASSUME NEW s \in suggested, s \in Sugg, s.what \in Adds, Extra(Inverted(s))
      PROVE  s.what \in DOMAIN Opposite /\ OneMore([s EXCEPT !.what = Opposite[@]])
  <2>1. s.what \in DOMAIN Opposite
    BY <1>9 DEF Adds, Opposite
  <2>2. Inverted(s).kind \in Kinds
    BY <1>9 DEF Inverted, Sugg
  <2>3. OneMore(Inverted(s))
    BY <1>6, <1>9, <2>2
  <2> QED BY <2>1, <2>3 DEF Inverted
<1> QED BY <1>2, <1>4, <1>7, <1>8, <1>9 DEF DescHolds, LeftOver

(* TuningInv holds in every state of the specification: what a round may   *)
(* not lose track of between its appends and its probes (auto_apply and    *)
(* apply_measured, tuning.rs), beside exact maps.                          *)
THEOREM TuningInvariance == TuningSpec => []TuningInv(SeedProps)
<1>1. TuningInit => TuningInv(SeedProps)
  BY InitTuning
<1>2. TuningInv(SeedProps) /\ [TuningNext]_tuningVars => TuningInv(SeedProps)'
  BY SeedsAre, TuningKeeps
<1> QED BY <1>1, <1>2, PTL DEF TuningSpec

(* A round of the advisor spends no more than its budget, counted in the   *)
(* rows its measures have when it ends, and leaves the changes it kept;    *)
(* where an error ends it, a failed append may leave the one change it was *)
(* at, paid for, and a change taken back after a failed probe takes its    *)
(* name out even where it was there before (auto_apply, apply_measured and *)
(* edit_schema, tuning.rs; ADR 0045).                                      *)
THEOREM RoundsKeepBounds == TuningSpec => []RoundKeepsBounds
<1>1. TuningInv(SeedProps) => RoundKeepsBounds
  BY SeedsAre, BoundsFollow
<1> QED BY <1>1, TuningInvariance, PTL

(* The rollups stay exact through the rounds of the advisor as well: the   *)
(* descriptors it edits and takes back and the tables its probes build     *)
(* count what a walk over the leaves would (tuning.rs over joins.rs).      *)
THEOREM RoundsStayExact == TuningSpec => []MeasuresExact
<1>1. TuningInv(SeedProps) => MeasuresExact
  BY SeedsAre, MeasuresFollow DEF TuningInv
<1> QED BY <1>1, TuningInvariance, PTL

=============================================================================
