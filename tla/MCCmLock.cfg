CONSTANTS
    Procs = {p1, p2, p3}
    NoPid = NoPid
    MaxProbes = 1
SPECIFICATION LiveSpec
INVARIANTS MutualExclusion HolderInCell
PROPERTIES OnlyTheDeadAreRobbed MutexSpec CmLockReturns DeadPidCleared
CHECK_DEADLOCK FALSE
