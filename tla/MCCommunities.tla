---------------------------- MODULE MCCommunities ----------------------------
(* Four symbols in a chain of calls, three of them in one directory, so     *)
(* that two communities may get the same label.                            *)
EXTENDS Communities, TLC

CONSTANTS p, q, r, s

MCSymbol == {p, q, r, s}
MCDir == [x \in MCSymbol |-> IF x = r THEN "api" ELSE "store"]
MCEdges == { <<p, q>>, <<q, r>>, <<r, s>> }
MCWhole == { {{p, q}, {r, s}}, {{p, q, r}, {s}}, {{p, q, r, s}} }
MCPartition == [n \in SUBSET MCSymbol |-> { { m \cap n : m \in whole } \ {{}} : whole \in MCWhole }]
MCFileName == [l \in {"api", "store"} |-> l]

MCFaultSets == { {"crash"}, {"overlap"}, {"write_fails"}, {"discarded"} }

\* Bound: three commands one after the other, or two at a time; two one after
\* the other where errors are discarded, with --skip-skills and at most as many
\* rows in cluster_members as there are symbols.
Started == { c \in Command : pc[c] # "idle" }
MCBound ==
  /\ faults \cap {"crash", "discarded"} # {} => Cardinality(Running) <= 1
  /\ "crash" \notin faults => Cardinality(Started) <= 2
  /\ "discarded" \in faults =>
       /\ \A f \in DOMAIN skills : skills[f] = Absent
       /\ Cardinality(member) <= Cardinality(Symbol)

\* The commands are alike.
MCAlike == Permutations(Command)
=============================================================================
