---------------------------- MODULE MCLogWriter ----------------------------
(* Instances of LogWriter for TLC: the .cfg files give the bounds.         *)
EXTENDS LogWriter
=============================================================================
