SPECIFICATION InputFairSpec
CONSTANTS
    Data <- MCData
    Size = 2
    Locks = {58}
    FirstBytes = {8}
    MoreBytes = {0}
    CommandSize = 2
INVARIANTS
    InputTypeOK
    IndexesAgree
    NoLostWakeup
    PacketsWhole
PROPERTIES
    ImplementsQueue
    Served
    LedsSettle
