CONSTANTS
  Size = 5
  Calls <- MCCalls
  Resolution = 1
  Exported = {0, 1, 2}
  Named = {3}
  TraceDepth = 2
SPECIFICATION Spec
INVARIANTS TypeOK WithinComponent TracesNearest ImpactMatchesTrace
PROPERTIES LevelsShrink EarlyLevelsOptimize
CHECK_DEADLOCK FALSE
