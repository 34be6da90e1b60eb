SPECIFICATION Spec
CONSTANTS
    n1 = n1
    n2 = n2
    n3 = n3
    DB = {d1}
    Default = Default
    Names = {n1, n2, n3}
    None = None
    Initial <- MCInitial
    Orders <- MCOrders
    MaxAdds = 3
INVARIANT Inv
INVARIANT OrderKept
PROPERTY ReplaceKeepsPlaces
CHECK_DEADLOCK FALSE
