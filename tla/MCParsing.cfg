SPECIFICATION ResolverSpec
CONSTANTS
  None = None
  f1 = f1 f2 = f2 f3 = f3
  File <- MCFile
  Worker = {w1, w2}
  FeedCap = 1
  OutCap = 1
  Dir <- MCDir
  Sources <- MCSources
  EdgesPerFile = 1
CHECK_DEADLOCK FALSE
INVARIANTS ResolverTypeOK NoPanic EveryFileOnce EdgesExplained NothingMissed
PROPERTIES AllReturns
