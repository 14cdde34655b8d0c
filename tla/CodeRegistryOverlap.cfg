CONSTANTS
    i1 = i1
    i2 = i2
    Install <- MCTwo
    MaxCodes = 3
    Options <- MCOverlapArgs
    Faults <- MCFaults
SPECIFICATION RegSpec
PROPERTIES
    LabelNeverVanishes
SYMMETRY Symmetry
