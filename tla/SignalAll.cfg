CONSTANTS
    Threads = {t1, t2, t3, t4}
    Results = {r1, r2}
    Ops = {"raise", "wait", "reset"}
    Zero = Zero
    Empty = Empty
SPECIFICATION SignalSpec
SYMMETRY Symmetry
INVARIANT RaisedIsDeliverable
PROPERTY ActsAsMailbox
