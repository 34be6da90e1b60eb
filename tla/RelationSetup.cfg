SPECIFICATION Spec
CONSTANTS
    None = "none"
    Shapes <- MCShapes
INVARIANT Inv
INVARIANT KeysPairUp
INVARIANT ConstraintHasRelation
INVARIANT ChildrenKept
CHECK_DEADLOCK FALSE
