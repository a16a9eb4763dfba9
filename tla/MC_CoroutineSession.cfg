SPECIFICATION Spec
CONSTANTS
  Streams <- MCStreams
  MAX_LENGTH = 2
  MAX_SENDQUE = 1
INVARIANTS
  CoroutineKeepsSession
PROPERTIES
  RefinesFrameReader
  EndedIsReleased
