SPECIFICATION FairSpec
CONSTANTS
    Proc = {p1, p2}
    Type <- MCType
    Asked <- MCAsked
    Embeds <- MCEmbeds
    Refs <- MCRefs
    Slices <- MCSlices
    InlineFields <- MCInlineFields
    Anonymous <- MCAnonymous
    Keyed <- MCKeyed
    Tagged = {"Draft", "Entry"}
    KeyFirst = {"Draft"}
    Inline = {"Line"}
    Unnamed = {}
    Excluded = {"Time"}
    BadIndex = {"Base"}
    None = None
    MaxStruct = 14
    MaxCalls = 1
INVARIANT Inv
INVARIANT CompleteUnlessFailed
INVARIANT HalfBuiltOnlyIfRacedOrFailed
PROPERTY OneStructForGood
PROPERTY EveryCallReturns
CHECK_DEADLOCK FALSE
