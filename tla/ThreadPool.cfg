SPECIFICATION Spec
CONSTANTS
  Workers = {w1, w2, w3}
  Callers = {c1, c2}
  MaxTasks = 3
INVARIANTS
  EachTaskOnce
  OneLateTaskAtMost
  EnoughAwake
PROPERTIES
  CommittedTasksRun
  StopJoins
