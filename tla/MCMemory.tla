------------------------------ MODULE MCMemory ------------------------------
(* MemoryManager with interchangeable tensors, groups and pools.  The      *)
(* larger tensor is not the one with the larger alignment; an alignment    *)
(* may be 0, and sizes are not multiples of the alignments.                *)
EXTENDS MemoryManager, TLC

MCRequests == {<<2, 4>>, <<5, 0>>}

Symmetry == Permutations(Objects) \union Permutations(Groups) \union Permutations(Pools)
=============================================================================
