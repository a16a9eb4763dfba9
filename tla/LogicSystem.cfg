SPECIFICATION Spec
CONSTANTS
  Posters = {p1, p2}
  MsgIds = {hello, other}
  Registered = {hello}
  MaxPosts = 4
INVARIANTS
  NoLostWakeup
  ExitedDrained
PROPERTIES
  ShutdownJoins
  RefinesWorkQueue
