CONSTANTS
    Queues = {q}
    Clients = {c1, c2}
    Works = {w1, w2}
    Ops = {"submit", "schedule", "reschedule"}
    HandlerOps = {"reschedule"}
    MaxRequests = 2
    Limit = 2
    TickMod = 6
    Delays = {0, 1}
    MaxLag = 1
    None = None
    StopNode = StopNode
SPECIFICATION FairSpec
INVARIANT TypeOK
INVARIANT EveryItemHasAToken
INVARIANT TimerCoversDeadlines
PROPERTY NeverEarly
PROPERTY QueuedWorkIsServed
PROPERTY DelayedWorkIsPromoted
