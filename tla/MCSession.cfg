SPECIFICATION FairSpec
CONSTANTS
    SlotCount = 2
    SheetCount = 3
    QueueSize = 5
    TypeAhead = 1
    Exposed = {}
    Columns = 6
    Lines = 2
    Chars <- MCChars
    a = a
    b = b
    Space = Space
    Dollar = Dollar
    HTab = HTab
    Newline = Newline
    Return = Return
    Backspace = Backspace
    Cluster = 2
    FatSize = 6
    Half = 16
INVARIANTS
    TypeOK
    MessagesAgree
    FocusIsLive
    CursorFollowsFocus
PROPERTIES
    ClosesAtLast
