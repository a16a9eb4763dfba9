SPECIFICATION Spec
CONSTANTS
  Procs = {p1, p2, p3, p4}
  InitialValue = 1
  MaxValue = 3
  Main = main
  Threads = {n1, n2, n3, n4, n5}
  Capacity = 3
  MaxSends = 5
  Clients = {c1, c2, c3}
  NMESG = 2
  NLOOP = 2
  FileClients = {f1, f2}
  QueueSize = 2
  MaxLines = 2
  Producers = {a1, a2, a3}
  nitems = 6
  NetThreads = {t1, t2}
  MaxSignals = 2
  MaxNodes = 2
INVARIANTS
  WakeupUnderWay
  OneRegistration
  RingInOrder
  ContextOutlivesThreads
PROPERTIES
  NobodyStranded
  RefinesSemaphore
  QueueIsEmptied
  EverySendAccounted
  
  EveryItemFound
  SignalEndsProcess
