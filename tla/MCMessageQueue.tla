--------------------------- MODULE MCMessageQueue ---------------------------
\* Instance of MessageQueue for TLC.
EXTENDS MessageQueue, TLC
Symmetry == Permutations(Threads)
=============================================================================
