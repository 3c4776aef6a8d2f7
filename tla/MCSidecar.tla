----------------------------- MODULE MCSidecar -----------------------------
(* Instances of Sidecar for TLC: identities are not told apart.            *)
EXTENDS Sidecar

Symmetry == Permutations(Ids)
=============================================================================
