CONSTANTS
  Size = 5
  Calls <- MCMutual
  Resolution = 1
  Exported = {0, 1, 2}
  Named = {3}
  TraceDepth = 2
SPECIFICATION Spec
PROPERTIES OptimizesModularity
CHECK_DEADLOCK FALSE
