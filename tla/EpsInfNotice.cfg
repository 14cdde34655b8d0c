CONSTANTS
    Drafts <- MCDrafts
    Values <- MCValues
    SiteValues <- MCSiteValues
    MaxEdits = 2
SPECIFICATION Spec
INVARIANTS
    EpsInfNoticeIsTrue
CHECK_DEADLOCK FALSE
