--------------------------- MODULE MCLedgerReplica ---------------------------
EXTENDS LedgerReplica, TLC

Symmetry == Permutations(Users) \cup Permutations(Requests)
=============================================================================
