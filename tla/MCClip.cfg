CONSTANTS
    c1 = c1
    c2 = c2
    c3 = c3
    c4 = c4
    NoCopy = NoCopy
    Kumclip = Kumclip
    Copies = {c1, c2, c3, c4}
    Foreign = {c3}
    Blank = {c4}
    Flavours = 2
SPECIFICATION KumClipSpec
CHECK_DEADLOCK FALSE
INVARIANTS
    KumClipTypeOK
    OwnershipAgrees
    NeverReadsItself
PROPERTIES
    TakenOver
