SPECIFICATION Spec
CONSTANTS
  Sessions = {s1, s2}
  NoSession = NoSession
  MAX_SENDQUE = 1
  MaxRequests = 3
INVARIANTS
  WriteChain
  RepliesInOrder
  EveryRequestAccounted
  LiveSessionsRegistered
  ClearedStaysCleared
