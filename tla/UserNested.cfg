SPECIFICATION Spec
CONSTANTS
    Session = {s1, s2}
    Tx = {t1, t2, t3}
    Pool = Pool
    NilTx = NilTx
    None = None
    MaxOpen = 1
    MaxCalls = 2
    MaxLevel = 3
    Faults = {"begin", "commit", "error", "adderror", "panic", "value", "goexit"}
SYMMETRY Symmetry
INVARIANT AllOrNothing
INVARIANT NothingLeftOpen
INVARIANT IInv
CHECK_DEADLOCK FALSE
