SPECIFICATION Spec
CONSTANTS
  Procs = {p1, p2}
  Blocks = {k1, k2, k3, k4}
  MaxWrites = 1
  NBUF = 3
  MaxPinned = 1
  ReadFails = {FALSE}
  None = None
INVARIANTS
  BuffersSound
PROPERTIES
  StoreImplemented
  SleeperWoken
