---------------------------- MODULE MCStoreLock ----------------------------
EXTENDS StoreLock, TLC

Symmetry == Permutations(Stores) \cup Permutations(CloseCalls)
=============================================================================
