------------------------------- MODULE MCFifo -------------------------------
\* Instance of Fifo for TLC.
EXTENDS Fifo, TLC
Symmetry == Permutations(Threads)
=============================================================================
