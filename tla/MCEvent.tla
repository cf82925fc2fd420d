------------------------------- MODULE MCEvent ------------------------------
\* Instance of Event for TLC.
EXTENDS Event, TLC
Symmetry == Permutations(Threads)
=============================================================================
