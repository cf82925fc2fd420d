CONSTANTS
    Fifos = {f1, f2}
    Nodes = {n1, n2, n3}
    Threads = {t1, t2, t3}
    Limit = 2
    None = None
SPECIFICATION Spec
SYMMETRY Symmetry
INVARIANT TypeOK
INVARIANT TokenMeansNode
INVARIANT NodeOnOneList
