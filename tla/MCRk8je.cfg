SPECIFICATION FairSpec
CONSTANTS
  Words = {0, 1}
  MemSize = 2
  BlockWords = 2
  HalfWords = 1
  NBLKS = 1
  DiskAddrs = {0, 1}
  MemAddrs = {1}
  Commands <- MCCommands
  Hasty = FALSE
  InitMem <- MCInitMem
  InitDisk <- MCInitDisk
INVARIANTS TransferRight
PROPERTIES ErrorRight WriteProtected CbsyKept TransferEnds
