----------------------------- MODULE MCEditorSetup -----------------------------
EXTENDS EditorSetup, TLC

\* Each hazard alone, and those that touch different steps together.
MCFaultSets ==
  {{"edits", "comments", "unread"}, {"edits", "crash", "fails"}, {"comments", "crash"}, {"overlap"}}

\* Neither commands nor entries are told apart.
MCAlike == Permutations(Writer) \cup Permutations(Entry)
=============================================================================
