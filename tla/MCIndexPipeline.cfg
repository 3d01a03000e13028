SPECIFICATION FairSpec
CONSTANTS
  fa = fa fb = fb p = p q = q a1 = a1 a2 = a2 b2 = b2 b3 = b3
  Absent = Absent
  Skipped = {}
  MaxCommit = 4
  File <- MCFile
  Symbol <- MCSymbol
  Version <- MCVersion
  Tree <- MCTree
  Defs <- MCDefs
  Calls <- MCCalls
  Runner = {r1}
  FaultSets <- MCFaultSets
INVARIANTS TypeOK IndexComplete DerivedRowsHaveNodes AnalysisCurrent EdgesJustified
PROPERTIES ImplementsSnapshot Converges
CONSTRAINT MCFewLeftovers
