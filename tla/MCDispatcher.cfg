SPECIFICATION Spec
CONSTANTS
  MaxConns = 2
  MaxStarts = 1
  MaxQueue = 2
  MaxBroken = 1
INVARIANTS TypeOK ConnectionsSound
PROPERTIES ThreadsProgress
CHECK_DEADLOCK FALSE
