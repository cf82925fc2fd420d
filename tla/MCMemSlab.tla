----------------------------- MODULE MCMemSlab ------------------------------
\* Instance of MemSlab for TLC.
EXTENDS MemSlab, TLC
Symmetry == Permutations(Threads)
=============================================================================
