SPECIFICATION FairSpec
CONSTANTS
  Words = {0, 1}
  MemSize = 2
  BlockWords = 2
  HalfWords = 1
  NBLKS = 1
  DiskAddrs = {0, 1}
  MemAddrs = {1}
  Commands <- MCAbortCommands
  Hasty = FALSE
  InitMem <- MCInitMem
  InitDisk <- MCInitDisk
PROPERTY AbortStops
