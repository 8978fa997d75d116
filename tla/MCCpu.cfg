CONSTANTS
    AddrSize = 4
    PageSize = 2
    AutoIndex = {1}
    Fields = {0, 1}
    BrkField = 1
    Instructions <- Programs
    Stops = FALSE
SPECIFICATION Spec
PROPERTIES
    ReferenceSpec
    NoAnnouncedFieldLost
