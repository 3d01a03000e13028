----------------------------- MODULE MCRegistry ------------------------------
(* Two processes; two repositories, which may have the same basename.      *)
EXTENDS Registry

CONSTANTS n1, n2, p1, p2

MCName == {n1, n2}
MCPath == {p1, p2}
MCBases ==
  { [p \in MCPath |-> IF p = p1 THEN n1 ELSE n2], [p \in MCPath |-> n1] }
MCFaultSets ==
  { {"clean", "crash"}, {"clean", "named", "crash"}, {"overlap"}, {"clean", "server"} }
=============================================================================
