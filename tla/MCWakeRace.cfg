SPECIFICATION Spec
CONSTANTS
    Data <- MCData
    Size = 2
    NoDatum = 99
    MaxPerLevel = 4
    MaxOver = 2
    ByteBits = 2
    VirtualPages = 4
    PageLength = 2
    ClearPeriod = 3
INVARIANTS
    TypeOK
    WakeIsComing
    ActiveIsListed
