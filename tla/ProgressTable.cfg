CONSTANTS
    MaxProcesses = 4
    Labels <- MCLabels
    LiveStates = {"paused"}
    Ends = {"failed"}
SPECIFICATION TableSpec
INVARIANTS
    PausedShows
    NumbersTellApart
    RowsReadAsRun
    LastTableIsFinal
PROPERTIES
    RowsStay
CHECK_DEADLOCK FALSE
