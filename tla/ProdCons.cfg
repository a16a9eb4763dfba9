SPECIFICATION Spec
CONSTANTS
  Producers = {p1, p2}
  Consumers = {c1, c2, c3}
  NBUFF = 3
  nitems = 8
INVARIANTS
  FetchesExpectedItem
  NothingOverwritten
PROPERTIES
  EveryThreadStops
