------------------------------ MODULE MCMutex -------------------------------
\* Instance of Mutex for TLC.
EXTENDS Mutex, TLC
Symmetry == Permutations(Threads) \cup Permutations(Mutexes)
=============================================================================
