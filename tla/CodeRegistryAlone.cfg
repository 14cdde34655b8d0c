CONSTANTS
    i1 = i1
    i2 = i2
    Install <- MCOne
    MaxCodes = 5
    Options <- MCArgs
    Faults <- MCLookup
SPECIFICATION RegFairSpec
INVARIANTS
    OneLiveCode
    FailedReplacementLeavesOne
PROPERTIES
    NoNeedlessReplacement
    OnlyUnusedCodesDeleted
    InstallEnds
