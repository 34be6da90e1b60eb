SPECIFICATION Spec
CONSTANTS
    Common <- MCCommon
    Used = {"joins", "where", "or", "not", "having", "orders"}
    MaxCalls = 3
INVARIANT Inv
INVARIANT MeansWhatIsChained
 
CHECK_DEADLOCK FALSE
