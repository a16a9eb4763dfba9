SPECIFICATION Spec
CONSTANTS
  Threads = {t1, t2}
  Streams <- MCStreams
  Unbound <- MCUnbound
  HEAD_TOTAL_LEN = 2
  MAX_LENGTH = 3
INVARIANTS
  OneReadChain
  FramesExact
PROPERTIES
  AllFramesPosted
  RefinesFrameReader
