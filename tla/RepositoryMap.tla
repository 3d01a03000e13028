---------------------------- MODULE RepositoryMap ----------------------------
(***************************************************************************)
(* What the registry promises to commands that take turns and leave the    *)
(* naming to mimir: it is a map from names to repositories, each under its *)
(* basename, of which a command changes one entry, in one step.  To        *)
(* commands that overlap, or are told a name, nothing is promised.         *)
(***************************************************************************)
CONSTANTS Name, Path,
          Lost         \* no command can read the registry any more

VARIABLES faults,      \* what the environment does; never changes
          base,        \* the basenames of the repositories; never change
          repos        \* the map, or Lost

InTurns == faults \cap {"named", "overlap"} = {}

Init ==
  /\ DOMAIN repos \subseteq Name
  /\ \A n \in DOMAIN repos : repos[n] \in Path /\ base[repos[n]] = n

\* The map with p under its basename, where another repository may have been,
\* and the one without n.
With(p) == [n \in DOMAIN repos \cup {base[p]} |-> IF n = base[p] THEN p ELSE repos[n]]
Without(n) == [m \in DOMAIN repos \ {n} |-> repos[m]]

\* analyze and clean.
Enter(p) == InTurns /\ repos # Lost /\ repos' = With(p)
Remove(n) == InTurns /\ repos # Lost /\ n \in DOMAIN repos /\ repos' = Without(n)

\* A command dies while it writes.
Lose == InTurns /\ "crash" \in faults /\ repos' = Lost

Unordered == ~InTurns

Next ==
  /\ Unordered \/ Lose \/ (\E p \in Path : Enter(p)) \/ (\E n \in Name : Remove(n))
  /\ UNCHANGED <<faults, base>>

Spec == Init /\ [][Next]_<<faults, base, repos>>
=============================================================================
