CONSTANTS
    Threads = {t1, t2, t3}
    Blocks = {b1, b2, b3}
SPECIFICATION Spec
SYMMETRY Symmetry
INVARIANT TypeOK
INVARIANT TokensMatchFreeBlocks
INVARIANT BlocksArePartitioned
INVARIANT NoBlockOutlivesSlab
