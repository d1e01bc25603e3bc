------------------------------ MODULE MCRecords ------------------------------
EXTENDS Records, TLC

CONSTANTS c1, c2

Perms == Permutations(Clients)
=============================================================================
