CONSTANTS
    Queues = {q}
    Clients = {c1, c2}
    Works = {w1, w2}
    Ops = {"submit", "cancel"}
    HandlerOps = {}
    MaxRequests = 2
    Limit = 2
    TickMod = 4
    Delays = {}
    MaxLag = 1
    None = None
    StopNode = StopNode
SPECIFICATION FairSpec
PROPERTY QueuedWorkIsServed
