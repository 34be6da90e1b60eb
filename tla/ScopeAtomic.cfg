SPECIFICATION Spec
CONSTANTS
    Op = {o1}
    Kinds = {"Create", "Save", "Updates", "UpdateColumn", "Delete"}
    Tx = {t1, t2}
    Pool = Pool
    None = None
    MaxOpen = 2
    MaxDepth = 3
    MaxNested = 2
    Faults = {"callback", "statement", "commit", "lookup", "skip"}
INVARIANT AllOrNothing
INVARIANT LeakedByBrokenChain
INVARIANT BrokenOffByFailure
INVARIANT IInv
PROPERTY AtomicSpec
CHECK_DEADLOCK FALSE
