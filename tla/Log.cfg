SPECIFICATION FairSpec
CONSTANTS
  Procs = {p1, p2}
  Blocks = {1, 2, 3}
  MAXOPBLOCKS = 2
  NLOG = 6
  InodeBlock = 1
  MaxOps = 3
  MaxCrashes = 2
INVARIANT
  LogSound
PROPERTIES
  SleeperWoken
  Atomic
