---------------------------- MODULE HeadSnapshot -----------------------------
(***************************************************************************)
(* What the knowledge graph promises to a reader who asks for it only      *)
(* while it is reported current: the symbols of the tree at HEAD, and      *)
(* nothing else.  Between two such periods nothing is promised.            *)
(***************************************************************************)
CONSTANTS Commit,     \* the commits
          SymbolsAt,  \* SymbolsAt[c]: the symbol table of the tree of c
          Unknown     \* the graph is not reported current

VARIABLES head, graph

Init == head \in Commit /\ graph = Unknown

\* HEAD moves: what was served for the old HEAD is served no longer.
Move == head' \in Commit \ {head} /\ graph' = Unknown

\* An index run starts over.
Invalidate == graph' = Unknown /\ UNCHANGED head

\* An index run completes.
Publish == graph' = SymbolsAt[head] /\ UNCHANGED head

Next == Move \/ Invalidate \/ Publish

Spec == Init /\ [][Next]_<<head, graph>>
=============================================================================
