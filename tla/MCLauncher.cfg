CONSTANTS
    Files <- MCFiles
    Programs <- MCPrograms
    NameOrder <- MCNameOrder
    MaxEntries = 4
    Keys <- MCKeys
    Lead <- MCLead
    Trail <- MCTrail
    VisibleRows = 2
    MaxQuery = 5
    None = None
SPECIFICATION LauncherSpec
INVARIANTS
    SelectionInView
    MatchesListed
    NothingTwice
PROPERTIES
    LaunchesWhatIsSeen
