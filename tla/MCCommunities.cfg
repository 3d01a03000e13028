SPECIFICATION Spec
CONSTANTS
  p = p q = q r = r s = s
  Absent = Absent
  Symbol <- MCSymbol
  Dir <- MCDir
  Edges <- MCEdges
  Partition <- MCPartition
  FileName <- MCFileName
  Command = {c1, c2, c3}
  FaultSets <- MCFaultSets
CHECK_DEADLOCK FALSE
CONSTRAINT MCBound
SYMMETRY MCAlike
INVARIANTS EveryoneInACommunity SkillsOfNow WikiExact
