------------------------------ MODULE MCBackup ------------------------------
EXTENDS Backup, TLC

CONSTANTS p1, p2
MCProcs == {p1, p2}
Symmetry == Permutations(MCProcs)
=============================================================================
