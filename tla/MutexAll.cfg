CONSTANTS
    Threads = {t1, t2, t3}
    Mutexes = {m1, m2}
    Priorities = {1, 2}
    MaxCount = 2
    MaxChain = 4
    Ops = {"timeout", "set_priority", "abort", "deinit"}
    None = None
SPECIFICATION Spec
SYMMETRY Symmetry
INVARIANT WaitQueuesAreOrdered
INVARIANT NoBoostOutlivesItsReason
INVARIANT NoDeadlockCycle
INVARIANT FreeMutexIsClaimed
CHECK_DEADLOCK FALSE
