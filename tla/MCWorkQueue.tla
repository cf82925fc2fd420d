---------------------------- MODULE MCWorkQueue -----------------------------
\* Instance of WorkQueue for TLC.
EXTENDS WorkQueue, TLC
ClientSymmetry == Permutations(Clients)
=============================================================================
