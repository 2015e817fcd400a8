SPECIFICATION Spec
CONSTANTS
  Procs = {p1, p2}
  InitProc = p1
  NOFILE = 2
  NFILE = 2
  Pages = {q1}
  PIPESIZE = 2
  WORD = 4
  Sizes = {1, 3}
  None = None
INVARIANTS
  CountsExact
  StreamIntact
  SleepersHaveReason
PROPERTY
  EofReaches
CHECK_DEADLOCK FALSE
