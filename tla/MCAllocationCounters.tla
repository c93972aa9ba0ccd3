------------------------ MODULE MCAllocationCounters ------------------------
EXTENDS AllocationCounters, TLC
Symmetric == Permutations(Threads)
=============================================================================
