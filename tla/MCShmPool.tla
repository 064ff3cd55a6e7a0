------------------------------ MODULE MCShmPool ------------------------------
EXTENDS ShmPool, TLC

Symmetry == Permutations(Pools) \cup Permutations(Files) \cup Permutations(Addrs)
=============================================================================
