SPECIFICATION Spec
CONSTANTS
  j1 = j1 j2 = j2 j3 = j3 j4 = j4 t1 = t1 t2 = t2 t3 = t3
  None = None
  Job <- MCJob
  Text <- MCText
  TextOf <- MCTextOf
  QueueCap = 2
  BatchSize = 3
  FaultSets <- MCFaultSets
CHECK_DEADLOCK FALSE
INVARIANTS TypeOK VectorsOfTheirText LossAccounted
PROPERTIES NoWriteAfterClose AnalyzeEnds
