SPECIFICATION ExtSpec
CONSTANTS
    ExtAddrs = {1, 2}
    ExtData = {1, 2}
    Coincide = TRUE
INVARIANT WritesLand
CHECK_DEADLOCK FALSE
