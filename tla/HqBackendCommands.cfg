CONSTANTS
    c1 = c1
    s1 = s1
    s2 = s2
    w1 = w1
    w2 = w2
    w3 = w3
    NoServer = NoServer
    Command <- MCCommand
    Server <- MCServer
    Worker <- MCThreeWorkers
    Pools <- MCPools
    DefaultPool = 4
    Faults <- MCNoFaults
SPECIFICATION HqFairSpec
INVARIANTS
    SeveralAreByHand
    ServerKeepsItsDirectory
PROPERTIES
    RestartKeepsPool
    UninstallLeavesNothing
    CommandsEnd
