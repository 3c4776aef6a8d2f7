-------------------------- MODULE MCHostScheduler --------------------------
(* Instances of HostScheduler for TLC.                                     *)
EXTENDS HostScheduler, TLC

CONSTANTS w1, w2, w3, na, nb

(* One worker gets everything, the others what makes them meet it.         *)
MixedAsks == w1 :> {"read", "write", "batch"} @@ w2 :> {"read", "batch"}
               @@ w3 :> {"read", "write"}

(* Two workers only read, one only writes, and it never ends.              *)
ReadersAndWriter == w1 :> {"read"} @@ w2 :> {"read"} @@ w3 :> {"write"}

MCLoads == {[asks |-> MixedAsks, endless |-> FALSE], [asks |-> ReadersAndWriter, endless |-> TRUE]}
=============================================================================
