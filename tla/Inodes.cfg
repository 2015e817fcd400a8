SPECIFICATION Spec
CONSTANTS
  Procs = {p1, p2}
  NInodes = 4
  NINODE = 4
  Names = {"a", "b"}
  Dots = {}
  MaxCalls = 2
  None = None
INVARIANTS
  CacheSound
  InUseAllocated
  LinksCounted
CHECK_DEADLOCK FALSE
SYMMETRY Symmetry
