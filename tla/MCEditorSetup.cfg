CONSTANTS
  Writer = {c1, c2, c3}
  Entry = {s1, s2}
  MaxEdits = 2
  SetupFaultSets <- MCFaultSets
SYMMETRY MCAlike
SPECIFICATION SetupSpec
INVARIANTS LossOnlyOfExposed ConfiguredListsMimir
CHECK_DEADLOCK FALSE
