CONSTANTS
    Queues = {q}
    Clients = {c1, c2}
    Works = {w}
    Ops = {"submit", "schedule", "reschedule", "cancel", "cancel_delayable", "cancel_sync", "cancel_delayable_sync", "flush", "flush_delayable", "drain", "unplug", "stop", "start"}
    HandlerOps = {}
    MaxRequests = 1
    Limit = 2
    TickMod = 4
    Delays = {1}
    MaxLag = 1
    None = None
    StopNode = StopNode
SPECIFICATION Spec
SYMMETRY ClientSymmetry
INVARIANT FlagsMatchLists
INVARIANT StoppedQueueIsEmpty
CHECK_DEADLOCK FALSE
