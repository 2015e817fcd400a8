SPECIFICATION Spec
CONSTANTS
  Procs = {p1, p2}
  Blocks = {1, 2, 3}
  MAXOPBLOCKS = 1
  NLOG = 3
  InodeBlock = 1
  MaxOps = 3
  MaxCrashes = 1
INVARIANT
  LogFits
