SPECIFICATION Spec
CONSTANTS
  n1 = n1 n2 = n2 p1 = p1 p2 = p2
  None = None Torn = Torn
  Name <- MCName
  Path <- MCPath
  Bases <- MCBases
  Process = {q1, q2}
  MaxEntry = 3
  FaultSets <- MCFaultSets
CHECK_DEADLOCK FALSE
INVARIANTS UniqueEntries EveryIndexListed ReanalysisKeepsRegistry ReadersFindIt
PROPERTY ImplementsMap
