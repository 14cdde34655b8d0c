CONSTANTS
    s1 = s1
    s2 = s2
    r1 = r1
    Submission <- MCOne
    Unstored <- MCNone
    CarefulUser = TRUE
    Reader <- MCReader
    Verbs = {"run", "submit"}
    Commands = {"status", "attach", "fetch"}
    NoTarget = NoTarget
SPECIFICATION TrackFairSpec
PROPERTIES
    WatchersEnd
CHECK_DEADLOCK FALSE
