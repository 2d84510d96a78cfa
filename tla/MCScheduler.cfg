SPECIFICATION FairSpec
CONSTANTS
    TaskA = TaskA
    Idle = Idle
    c1 = c1
    c2 = c2
    c3 = c3
    NoEntry = NoEntry
    Consoles <- MCConsoles
    LastLevel = 3
    MaxPerLevel = 3
INVARIANTS
    TypeOK
    RunQueues
    CpuIsTaskNow
    NothingAbove
    IdleIsReady
PROPERTIES
    HandsOverToTop
    FairShare
