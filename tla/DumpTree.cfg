CONSTANTS
    MaxSteps = 4
    Labels <- MCLabels
    FlatOrNested = {"flat", "nested"}
SPECIFICATION TreeSpec
INVARIANTS
    FoldersKeepTheirPlace
    FoldersReadAsRun
    ContentSurvives
    LinksResolve
CHECK_DEADLOCK FALSE
