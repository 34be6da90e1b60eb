SPECIFICATION Spec
CONSTANTS
    user = user
    profile = profile
    languages = languages
    Type = {user, profile}
    Children <- MCChildren
    Joins <- MCJoins
    Bases <- MCBases
    Programs <- MCPrograms
    MaxConns = 2
    MaxFaults = 1
    MaxCalls = 2
INVARIANT Inv
PROPERTY SuccessMeansApplied
PROPERTY FailureAppliesNothing
PROPERTY RetryCommitsNothing
CHECK_DEADLOCK FALSE
