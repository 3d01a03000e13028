SPECIFICATION CallSpec
CONSTANTS
  fa = fa fb = fb p = p q = q a1 = a1 a2 = a2 b3 = b3
  Absent = Absent
  Skipped = {}
  MaxCommit = 3
  File <- MCFile
  Symbol <- MCSymbol
  Version <- MCVersion
  Tree <- MCTree
  Defs <- MCDefs
  Calls <- MCCalls
  Runner = {r1, r2}
  FaultSets <- MCFaultSets
  Limit = 2
INVARIANTS SteadyAnswersExact UnreportedIsIndexed 
SYMMETRY MCAlike
CONSTRAINTS MCNoCallsInOverlap MCFewLeftovers
