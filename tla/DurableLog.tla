----------------------------- MODULE DurableLog -----------------------------
(***************************************************************************)
(* What the log promises the Store, without pages, buffers or syncs: a set *)
(* of records that only grows by whole commits, keeps append order, never  *)
(* takes back what it acknowledged and never takes in what it dropped.  A  *)
(* crash may take back the unacknowledged end of it and nothing else.      *)
(***************************************************************************)
EXTENDS Naturals

CONSTANT MaxRecords

VARIABLES
  next,     \* number of the next record
  log,      \* records a reopen would read
  acked,    \* records a successful commit acknowledged
  dropped,  \* records rolled back, or not found by a reopen
  units     \* record sets that commit whole

vars == <<next, log, acked, dropped, units>>

Records == 1..MaxRecords

Init ==
  /\ next = 1 /\ log = {} /\ acked = {} /\ dropped = {} /\ units = {}

(* The records of the log are those up to some point of append order,      *)
(* dropped ones left out, and no unit lies on both sides of that point.    *)
WholePrefix(L, unitSet) ==
  /\ \A r \in L : \A s \in 1..r : s \in L \/ s \in dropped
  /\ \A u \in unitSet : u \subseteq L \/ u \cap L = {}

(* Records are handed to the log, and some of them are named a unit.       *)
Accept ==
  /\ next' \in next..(MaxRecords + 1)
  /\ units' = units \/ \E u \in SUBSET (1..(next' - 1)) : units' = units \union {u}
  /\ WholePrefix(log, units')
  /\ UNCHANGED <<log, acked, dropped>>

Commit ==
  /\ log \subseteq log' /\ log' \subseteq (1..(next - 1)) \ dropped
  /\ WholePrefix(log', units)
  /\ UNCHANGED <<next, acked, dropped, units>>

Acknowledge ==
  /\ acked \subseteq acked' /\ acked' \subseteq log
  /\ UNCHANGED <<next, log, dropped, units>>

Drop ==
  /\ dropped \subseteq dropped' /\ dropped' \subseteq (1..(next - 1)) \ log
  /\ UNCHANGED <<next, log, acked, units>>

Crash ==
  /\ acked \subseteq log' /\ log' \subseteq log
  /\ WholePrefix(log', units)
  /\ UNCHANGED <<next, acked, dropped, units>>

Next == Accept \/ Commit \/ Acknowledge \/ Drop \/ Crash

Spec == Init /\ [][Next]_vars

-----------------------------------------------------------------------------
(* What follows for every behaviour of the specification.                  *)

(* Acknowledged records are in the log, dropped ones are not, and the log  *)
(* is a prefix of append order made of whole units.                        *)
Promise ==
  /\ acked \subseteq log
  /\ log \cap dropped = {}
  /\ log \subseteq 1..(next - 1)
  /\ WholePrefix(log, units)

=============================================================================
