SPECIFICATION FairSpec
CONSTANTS
  NPROC = 3
  NCPU = 1
  MaxPid = 3
  TickMod = 1
  SleepTimes = {1}
PROPERTIES
  RunnableRuns
  DoomedGoes
