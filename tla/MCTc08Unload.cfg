SPECIFICATION FairSpec
CONSTANTS
  Base = 2
  BlockWords = 2
  Blocks = 2
  MemSize = 3
  MaxStarts = 2
  Commands <- MCCommands
  WordCounts = {1, 3}
  InitMem <- MCInitMem
  InitTape <- MCInitTape
PROPERTY LockedStays
