SPECIFICATION Spec
CONSTANTS
    h1 = h1
    h2 = h2
    linked = linked
    again = again
    new = new
    copied = copied
    text = text
    Handle = {h1, h2}
    Obj = {linked, again, new, copied, text}
    Own <- MCOwn
    ByValue = {copied}
    Invalid = {text}
    KeyOf <- MCKeyOf
    Linked = {1}
    MaxKey = 3
    MaxArgs = 2
    MaxErrors = 2
    MaxCalls <- MCCalls
INVARIANT Inv
INVARIANT ReplaceLeavesItsField
INVARIANT StoredOnce
INVARIANT DanglingOnlyIfRolledBack
CHECK_DEADLOCK FALSE
