-------------------------- MODULE MCStreamApply --------------------------
(* Instances of StreamApply for TLC: source s changes one identity, then   *)
(* another, then the first again; source t shares an identity with it.     *)
EXTENDS StreamApply

CONSTANTS p, q, s, t, k1, k2

OneEach == p :> s @@ q :> t
Shared == p :> s @@ q :> s
TwoStreams == s :> (0 :> k1 @@ 1 :> k2 @@ 2 :> k1) @@ t :> (0 :> k2 @@ 1 :> k2)
=============================================================================
