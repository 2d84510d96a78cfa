SPECIFICATION Spec
CONSTANTS
    MaxFrees = 3
    Page = 2
    Low <- MCLow
    High <- MCHigh
    Requests = {0, 1}
INVARIANTS
    Ascending
