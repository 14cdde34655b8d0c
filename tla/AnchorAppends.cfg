CONSTANTS
    s1 = s1
    s2 = s2
    s3 = s3
    Submission <- MCSubmission
    Unstored <- MCUnstored
    CarefulUser = TRUE
SPECIFICATION FairSpec
INVARIANTS
    TypeOK
    MutualExclusion
    NothingLost
    FailureLeavesNoEntry
PROPERTIES
    Implements
    AppendReturns
CHECK_DEADLOCK FALSE
