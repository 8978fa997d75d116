CONSTANTS
    AddrSize = 4
    PageSize = 2
    AutoIndex = {1}
    Fields = {0, 1}
    BrkField = 1
    Instructions <- Programs
    Stops = TRUE
SPECIFICATION Spec
INVARIANT FetchInField
