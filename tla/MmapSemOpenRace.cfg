SPECIFICATION Spec
CONSTANTS
  Procs = {p1, p2, p3}
  MaxFiles = 2
  MAX_TRIES = 2
INVARIANTS
  OpenedIsInitialised
