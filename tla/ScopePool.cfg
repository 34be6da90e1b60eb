SPECIFICATION FairSpec
CONSTANTS
    Op = {o1, o2}
    Kinds = {"Create", "Updates", "Delete"}
    Tx = {t1, t2}
    Pool = Pool
    None = None
    MaxOpen = 1
    MaxDepth = 2
    MaxNested = 1
    Faults = {"callback", "commit", "skip"}
PROPERTY EveryCallReturns
CHECK_DEADLOCK FALSE
