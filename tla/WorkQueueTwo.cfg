CONSTANTS
    Queues = {q1, q2}
    Clients = {c}
    Works = {w}
    Ops = {"submit", "reschedule", "cancel_delayable"}
    HandlerOps = {"reschedule"}
    MaxRequests = 2
    Limit = 2
    TickMod = 4
    Delays = {0, 1}
    MaxLag = 1
    None = None
    StopNode = StopNode
SPECIFICATION Spec
INVARIANT FlagsMatchLists
PROPERTY OneRunPerSubmission
