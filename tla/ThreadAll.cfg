CONSTANTS
    Null = Null
    Threads = {t1, t2}
    Clients = {c1}
    Queues = {q1}
    Priorities = {1, 2}
    Reasons = {"r1"}
    Ports = {"freertos", "rtthread"}
SPECIFICATION MCSpec
INVARIANT RingsAreSound
INVARIANT RingsAreOrdered
INVARIANT NobodySleepsThrough
INVARIANT SemaphoreIsAlive
INVARIANT ReapedIsTerminated
INVARIANT DeletedIsUntouched
INVARIANT EndedIsReapable
PROPERTY JoinReturns
CHECK_DEADLOCK FALSE
VIEW MCView
