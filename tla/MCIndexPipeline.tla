--------------------------- MODULE MCIndexPipeline ---------------------------
(* Four commits over two files.  fa calls into fb; it is edited, then      *)
(* deleted.  fb is added, edited so that it loses a symbol, and stays.     *)
EXTENDS IndexPipeline

CONSTANTS fa, fb, p, q, a1, a2, b2, b3

MCFile == {fa, fb}
MCSymbol == {p, q}
MCVersion == {a1, a2, b2, b3}
MCHistory == << <<a1, Absent>>, <<a2, b2>>, <<a2, b3>>, <<Absent, b3>> >>
MCTree == [c \in 1..4 |-> [f \in MCFile |-> MCHistory[c][IF f = fa THEN 1 ELSE 2]]]
MCDefs == [v \in MCVersion |-> IF v \in {a1, a2} THEN {p} ELSE IF v = b2 THEN {p, q} ELSE {q}]
MCCalls == [v \in MCVersion |-> IF v = b3 THEN {<<q, p>>} ELSE {<<p, q>>}]

\* Left alone; accidents on a forward history; a history that goes back; a
\* worktree that is not clean.
MCFaultSets ==
  { {}, {"crash", "race", "busy"}, {"race", "diff_fails"}, {"crash", "rewind"}, {"dirty"},
    {"discarded"}, {"race", "dropped"} }

\* Bounds where errors are discarded: the two commits that have both files,
\* --skip-embeddings, and at most two rows or edges that have lost their nodes.
MCFewLeftovers ==
  "discarded" \in faults =>
    /\ head \in {2, 3} /\ embedded = {}
    /\ Cardinality((bm25 \cup member) \ Present)
         + Cardinality(edges \ (Present \X Present)) <= 2

MCNoFaults == { {} }
=============================================================================
