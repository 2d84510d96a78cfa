SPECIFICATION Spec
CONSTANTS
    t1 = t1
    t2 = t2
    f1 = f1
    f2 = f2
    Sentinel = Sentinel
    TaskTimer = TaskTimer
    Nil = Nil
    Others <- MCOthers
    Consoles <- MCConsoles
    CursorDelay = 1
    Delays = {0, 2}
    Slices = {2}
    Never = 9
    MaxCount = 4
    Exposed = {}
SYMMETRY MCSymmetry
INVARIANTS
    TypeOK
    ListInOrder
    ArmedIsLinked
    OneUser
    SliceRuns
PROPERTIES
    ImplementsAlarms
