CONSTANTS
    p1 = p1
    p2 = p2
    p3 = p3
    Process <- MCProcess
    NoProcess = NoProcess
SPECIFICATION DumpSpec
INVARIANTS
    WrittenTreeIsWhole
PROPERTIES
    UserFolderUntouched
