SPECIFICATION Spec
CONSTANTS
  NPROC = 3
  NCPU = 2
  MaxPid = 4
  TickMod = 1
  SleepTimes = {}
INVARIANTS
  LockDiscipline
  RunningOnOneCpu
  ParentAlive
  NoLostWakeup
  EmbryoOwned
PROPERTY
  LifeCycle
