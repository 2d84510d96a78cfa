SPECIFICATION Spec
CONSTANTS
    MaxFrees = 3
    Page = 2
    Low <- MCLow
    High <- MCHigh
    Requests = {1, 2, 3}
INVARIANTS
    TypeOK
    TableOrdered
    Partition
    Accounts
PROPERTIES
    ImplementsHeap
