CONSTANTS
    Threads = {t1, t2, t3}
    Messages = {m1, m2}
    Capacity = 2
    NoMessage = NoMessage
SPECIFICATION Spec
SYMMETRY Symmetry
INVARIANT TypeOK
INVARIANT TokensAccountForSlots
INVARIANT CopiesAreSafe
PROPERTY ImplementsChannel
