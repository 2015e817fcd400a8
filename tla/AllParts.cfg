SPECIFICATION AllSpec
CONSTANTS
  MemorySlots = 2
  MemoryPages = 13
  PageUnits = 2
  TableLength = 2
  UserPages = 5
  SegmentEnds <- SomePrograms
  SbrkSizes <- SomeSizes
  ConsoleReaders = {1, 2}
  InputBuf = 3
  Wrap = 12
  ReadLengths = {2}
  MaxKeys = 6
  TickSlots1 = 2
  TickSlots2 = 1
  TickCpus2 = 2
  MaxTicks = 3
  CabCount = 1
  Riders = {0, 1, 3}
  PayServers = 1
  WaitTime = 1
  PayLength = 3
  Chefs1 = 2
  Students1 = 1
  Chefs2 = 1
  Students2 = 3
  MaxVessels = 1
  MaxBatch = 3
  MaxCooked = 4
  LockCpus1 = 2
  LockThreads1 = 1
  LockCpus2 = 1
  LockThreads2 = 2
  MaxFrames = 3
INVARIANTS
  FilesSound
  BlocksAccounted
  MemorySound
  ArgumentsArrive
  HeapSound
  ConsoleSound
  SortSound
  TimesSound
  ThreadsSound
  LocksSafe
  FlagRestored
  ParseRight
  CommandsRight
  SleeperNotOverdue
  IndInv
PROPERTY
  EofAlone
