SPECIFICATION Spec
CONSTANTS
  Procs = {p1, p2}
INVARIANTS TypeOK RegistersMapped ModuleInUse AllReleased AcquiredOnce
CHECK_DEADLOCK FALSE
