---------------------------- MODULE MCKeyCatalog ----------------------------
(* Instances of KeyCatalog for TLC.                                        *)
EXTENDS KeyCatalog, TLC

CONSTANTS t1, t2, t3

MCTenants == {t1, t2, t3}
Symmetry == Permutations(MCTenants)
=============================================================================
