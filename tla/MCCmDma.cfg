SPECIFICATION FairSpec
CONSTANTS
  Procs = {p1, p2}
  Nobody = nobody
  WordSize = 4
  Fields = {0, 1}
  MaxCycles = 2
  MaxCalls = 1
  Requests <- MCRequests
  CpuCells <- MCCpuCells
  CpuWords <- MCCpuWords
  InitMem <- MCInitMem
INVARIANTS ResultIsRequests NoWriteLost FlushMeansStored
PROPERTIES AtomicMemorySpec CallsReturn
