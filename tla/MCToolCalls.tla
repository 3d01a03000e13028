----------------------------- MODULE MCToolCalls -----------------------------
(* Three commits over two files: fa calls into fb, which stays; fa is      *)
(* edited, then deleted.  Two analyze processes, and one server.           *)
EXTENDS ToolCalls, TLC

CONSTANTS fa, fb, p, q, a1, a2, b3

MCFile == {fa, fb}
MCSymbol == {p, q}
MCVersion == {a1, a2, b3}
MCHistory == << <<a1, b3>>, <<a2, b3>>, <<Absent, b3>> >>
MCTree == [c \in 1..3 |-> [f \in MCFile |-> MCHistory[c][IF f = fa THEN 1 ELSE 2]]]
MCDefs == [v \in MCVersion |-> IF v = b3 THEN {q} ELSE {p}]
MCCalls == [v \in MCVersion |-> IF v = b3 THEN {} ELSE {<<p, q>>}]

MCFaultSets ==
  { {}, {"race", "crash", "diff_fails"}, {"busy", "diff_fails"},
    {"overlap"}, {"overlap", "busy", "diff_fails"}, {"overlap", "discarded"},
    {"discarded"}, {"dropped"} }

\* The two processes are alike.
MCAlike == Permutations(Runner)

\* Bound: nobody calls in the environments in which runs overlap.
MCNoCallsInOverlap == "overlap" \in faults => call = NoCall

\* Bounds where errors are discarded: the first two commits, detect_changes is the
\* one call, runs are started with --skip-embeddings, and one row or edge has lost
\* its nodes at most.
MCFewLeftovers ==
  "discarded" \in faults =>
    /\ head \in {1, 2} /\ embedded = {} /\ call.tool \in {"none", "detect_changes"}
    /\ Cardinality((bm25 \cup member) \ Present)
         + Cardinality(edges \ (Present \X Present)) <= 1
=============================================================================
