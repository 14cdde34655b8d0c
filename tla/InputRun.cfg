CONSTANTS
    Drafts <- MCDrafts
    Values <- MCValues
    SiteValues <- MCSiteValues
    MaxEdits = 2
SPECIFICATION Spec
INVARIANTS
    NoticesAreTrue
    InertEntriesAreNoticed
    DielectricMeshIsNamed
    PathIsServed
    BlocksTileTheBands
    DirectivesAreHonoured
    HeedingRetires
CHECK_DEADLOCK FALSE
