CONSTANTS
    k1 = k1
    o1 = o1
    k2 = k2
    o2 = o2
    Lockers = {k1}
    NoLocker = NoLocker
    Outputs = {o1}
    NoOutput = NoOutput
    Return = Return
    BackSpace = BackSpace
    Escape = Escape
    Chars <- ShortChars
    Password <- ShortPassword
    InputMax = 3
    MaxKeys = 2
    MaxChanges = 0
SPECIFICATION KumLockSpec
CHECK_DEADLOCK FALSE
INVARIANT PasswordUnlocks
