CONSTANTS
    s1 = s1
    s2 = s2
    r1 = r1
    Submission <- MCSubmission
    Unstored <- MCNone
    CarefulUser = TRUE
    Reader <- MCReader
    Verbs = {"run", "submit"}
    Commands = {"status", "attach", "fetch"}
    NoTarget = NoTarget
SPECIFICATION TrackSpec
INVARIANTS
    RunIsFindable
    AttachTellsAll
SYMMETRY Symmetry
CHECK_DEADLOCK FALSE
