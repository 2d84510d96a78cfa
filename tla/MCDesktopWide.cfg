SPECIFICATION Spec
CONSTANTS
    MaxSheets = 4
    XSize = 8
    YSize = 2
    AppIsWide = TRUE
    Width <- MCWidth
    Height <- MCHeight
    Clear <- MCClear
    Places <- MCPlaces
    Boxes <- MCBoxes
INVARIANTS
    RefreshInRange
