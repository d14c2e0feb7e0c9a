CONSTANTS
    k1 = k1
    k2 = k2
    o1 = o1
    o2 = o2
    Lockers = {k1, k2}
    NoLocker = NoLocker
    Outputs = {o1}
    NoOutput = NoOutput
    Return = Return
    BackSpace = BackSpace
    Escape = Escape
    Chars <- ShortChars
    Password <- ShortPassword
    InputMax = 3
    MaxKeys = 2
    MaxChanges = 1
SPECIFICATION KumLockSpec
CHECK_DEADLOCK FALSE
INVARIANTS
    KumLockTypeOK
PROPERTIES
    HolderKeepsPrompts
    EveryOutputPrompts
    RefusedLeave
