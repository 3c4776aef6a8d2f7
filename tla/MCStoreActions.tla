--------------------------- MODULE MCStoreActions ---------------------------
(* Instances of StoreActions for TLC: two identities, two Action ids, two  *)
(* bodies; the sources offer a record without an id, records that repeat   *)
(* an id a clerk uses, with the same and with another body, and a hide     *)
(* under a claimed id; two batches write one identity twice; a source has  *)
(* two snapshots without a common identity; one change set puts one        *)
(* identity and hides another.                                             *)
EXTENDS StoreActions

CONSTANTS k1, k2, a, b, x, y

SmallActions ==
  {[id |-> a, key |-> k1, body |-> x, expected |-> NoGen],
   [id |-> b, key |-> k1, body |-> y, expected |-> 1],
   [id |-> b, key |-> k2, body |-> x, expected |-> NoGen]}
SmallOffers ==
  {Record(k1, y, FALSE, NoId), Record(k1, x, FALSE, a), Record(k1, x, TRUE, a)}
SmallBatches ==
  {<<Record(k1, y, FALSE, NoId), Record(k1, x, FALSE, a)>>,
   <<Record(k1, x, FALSE, a), Record(k1, x, TRUE, a)>>}
SmallFeeds ==
  {<<<<Record(k1, x, FALSE, a)>>,
     <<Record(k2, x, FALSE, NoId), Record(k2, y, FALSE, NoId)>>>>}
SmallSets ==
  {[edits |-> (k1 :> y @@ k2 :> Hide), expected |-> (k1 :> NoGen @@ k2 :> 1)],
   [edits |-> (k2 :> x), expected |-> (k2 :> NoGen)]}
=============================================================================
