SPECIFICATION Spec
CONSTANTS
    g1 = g1
    g2 = g2
    Goroutine = {g1, g2}
    None = None
    Models <- MCModels
    Children <- MCChildren
    Given <- MCGiven
    MaxDepth <- MCMaxDepth
    MaxRegs = 1
INVARIANT Inv
INVARIANT HangsOnlyIfTurnedBack
CHECK_DEADLOCK FALSE
