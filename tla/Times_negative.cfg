SPECIFICATION Spec
CONSTANTS
  NPROC = 1
  NCPU = 2
  MaxTicks = 2
  Sbrk = FALSE
INVARIANT
  WaitNotNegative
