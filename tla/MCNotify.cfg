CONSTANTS
    Messages <- MCMessages
    Slots = 2
    Duration = 2
    MaxSent = 3
    MaxEvents = 2
    MaxLate = 1
SPECIFICATION NotifySpec
CHECK_DEADLOCK FALSE
INVARIANT
    Stacked
PROPERTIES
    ClickDismisses
    LeavesForReason
    EveryOneGoes
    EveryMessageRead
