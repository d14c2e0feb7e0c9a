CONSTANTS
    c1 = c1
    c2 = c2
    c3 = c3
    NoCopy = NoCopy
    Kumclip = Kumclip
    Copies = {c1, c2, c3}
    Foreign = {c3}
    Blank = {}
    Flavours = 2
SPECIFICATION KumClipSpec
CHECK_DEADLOCK FALSE
INVARIANTS
    LastCopyPastes
