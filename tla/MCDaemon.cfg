SPECIFICATION Spec
CONSTANTS
  Pid = {p1, p2, p3}
  Command = {c1, c2}
  None = None
  Empty = Empty
  FaultSets <- MCFaultSets
INVARIANTS NoOrphan StartedIsUp
PROPERTIES StoppedDaemonEnds
