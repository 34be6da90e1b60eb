SPECIFICATION FairSpec
CONSTANTS
    p1 = p1
    p2 = p2
    Proc = {p1, p2}
    Op <- MCOp
    Many = {"orders", "items"}
    M2M = {"roles"}
    AutoPaths <- MCAutoPaths
    MaxConns = 1
    MaxRows = 1
    MaxDepth = 3
    MaxFaults = 1
    MaxCalls = 1
INVARIANT Inv
INVARIANT NoErrorLost
PROPERTY PanicsOnlyOnFailureOrPath
PROPERTY EveryCallReturns
CHECK_DEADLOCK FALSE
