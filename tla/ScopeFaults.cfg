SPECIFICATION Spec
CONSTANTS
    Op = {o1}
    Kinds = {"Create", "Save", "Updates", "UpdateColumn", "Delete"}
    Tx = {t1, t2, t3, t4}
    Pool = Pool
    None = None
    MaxOpen = 1
    MaxDepth = 2
    MaxNested = 2
    Faults = {"begin", "callback", "statement", "commit", "lookup", "skip"}
SYMMETRY Symmetry
INVARIANT NoLostError
PROPERTY EndedByStarter
CHECK_DEADLOCK FALSE
