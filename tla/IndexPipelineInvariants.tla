----------------------- MODULE IndexPipelineInvariants -----------------------
(***************************************************************************)
(* What the properties of module IndexPipeline rest on: the inductive      *)
(* invariants that module IndexPipelineProofs proves.                      *)
(***************************************************************************)
EXTENDS IndexPipeline

\* Runs do not overlap; a process that does not run holds nothing, and one holds
\* a community between its two writes only.
OneAtATime ==
  /\ "overlap" \notin faults =>
       \A r, s \in Runner : r # s => pc[r] = "idle" \/ pc[s] = "idle"
  /\ \A r \in Runner : pc[r] = "idle" =>
       /\ target[r] = NoCommit /\ toDelete[r] = {} /\ toParse[r] = {}
       /\ parsed[r] = [f \in File |-> Absent]
       /\ todo[r] = {}
  /\ \A r \in Runner : pc[r] # "ids" => group[r] = {}
-----------------------------------------------------------------------------
Indexed == {"clusters", "community", "ids", "trace"}

\* What IndexComplete rests on.  A running process knows a target between
\* last_commit and HEAD; it deletes rows of changed files only; the texts it
\* read are those of HEAD where target and HEAD agree; and such a file it has
\* read, will read, or need not read.
RunComplete(r) ==
  /\ target[r] <= head
  /\ pc[r] = "idle" => parsed[r] = [f \in File |-> Absent]
  /\ pc[r] # "idle" => target[r] # NoCommit /\ last <= target[r]
  /\ \A f \in toDelete[r] : pc[r] = "patch" /\ last # NoCommit /\ Tree[last][f] # Tree[head][f]
  /\ \A f \in File : Settled(target[r], f) =>
       /\ parsed[r][f] \in {Absent, Tree[head][f]}
       /\ pc[r] = "patch" => \/ f \in toParse[r] \/ parsed[r][f] = Tree[head][f]
                            \/ Settled(last, f)
       /\ pc[r] \in Indexed \cup {"bm25"} => RowsThere(f)
       /\ pc[r] \in Indexed => TermsThere(f)
       /\ pc[r] = "bm25" => \A s \in DefsOf(Tree[head][f]) : <<f, s>> \in bm25 \cup todo[r]

CompleteInv ==
  Forward => /\ work = Tree[head]
             /\ last <= head
             /\ \A f \in File : Settled(last, f) => RowsThere(f) /\ TermsThere(f)
             /\ \A r \in Runner : RunComplete(r)

\* What DerivedRowsHaveNodes rests on: from the upsert on, what a process
\* still has to write about is in `nodes`, and no row leaves `nodes`.
Upserted == {"bm25", "clusters", "community", "ids", "trace", "embed"}

DerivedInv ==
  faults \cap {"overlap", "discarded"} = {} =>
    /\ RowsHaveNodes
    /\ \A r \in Runner : pc[r] \in Upserted =>
         ParsedUids(parsed[r]) \cup todo[r] \cup group[r] \subseteq Present

-----------------------------------------------------------------------------
\* Before the commit is recorded: the run changes the tables.
Working == {"plan", "collect", "patch", "bm25", "clusters", "community", "ids", "trace"}

\* The index is as far as HEAD, and runs aim at something newer than it.
RunsForward ==
  /\ last <= head
  /\ \A r \in Runner : /\ target[r] <= head
                       /\ pc[r] # "idle" => target[r] # NoCommit
                       /\ pc[r] \in Working => last < target[r]

\* What AnalysisCurrent rests on: every symbol of the table is in a community
\* or will be put into one, and every entry point has been traced or will be.
Analyzed ==
  /\ member = Present /\ cid = Present
  /\ \A u \in EntryPoints : procs[u] = Reach(u, MaxDepth)

RunAnalyzed(r) ==
  /\ pc[r] \in {"community", "ids"} => /\ member \cup todo[r] = Present
                                       /\ cid \cup group[r] = member
  /\ pc[r] = "trace" => /\ member = Present /\ cid = Present
                        /\ \A u \in EntryPoints \ todo[r] : procs[u] = Reach(u, MaxDepth)

AnalyzedInv ==
  (Forward /\ "discarded" \notin faults) =>
    /\ RunsForward
    /\ last = head => Analyzed
    /\ \A r \in Runner : RunAnalyzed(r)
-----------------------------------------------------------------------------
\* The rows of a file with text v, and `nodes` as a table of the tree of c: a
\* file that a walk leaves out may have none.
RowsOfText(v) == [s \in Symbol |-> IF s \in DefsOf(v) THEN v ELSE Absent]
TextAt(c, f) == IF c = NoCommit THEN Absent ELSE Tree[c][f]
HoldsFile(c, f) ==
  nodes[f] = RowsOfText(TextAt(c, f)) \/ (f \in Skipped /\ nodes[f] = RowsOfText(Absent))

\* What the refinement rests on, run by run: before the patch, the table is
\* that of last_commit; a file of the patch is deleted before it is parsed,
\* and has no rows when it is; after the upsert, the table is that of HEAD.
InPatch(r, f) ==
  \/ f \in toDelete[r] /\ parsed[r][f] = Absent /\ (f \in toParse[r] \/ Tree[head][f] = Absent)
  \/ f \notin toDelete[r] /\ nodes[f] = RowsOfText(Absent) /\ f \in toParse[r]
  \/ f \notin toDelete[r] \cup toParse[r] /\
       \/ nodes[f] = RowsOfText(Absent) /\ parsed[r][f] = Tree[head][f]
       \/ HoldsFile(head, f) /\ parsed[r][f] = Absent

Before == {"clear", "plan", "collect", "embed"}

RunExact(r) ==
  /\ pc[r] \in Working \cup {"clear"} => target[r] = head
  /\ pc[r] \in Working => last # head
  /\ pc[r] = "collect" => last = NoCommit
  /\ pc[r] \in {"clear", "plan", "collect"} => toDelete[r] = {} /\ \A f \in File : parsed[r][f] = Absent
  /\ pc[r] \in Before => \A f \in File : HoldsFile(last, f)
  /\ pc[r] = "patch" => \A f \in File : InPatch(r, f)
  /\ pc[r] \in Indexed \cup {"bm25"} => \A f \in File : HoldsFile(head, f)
  /\ pc[r] = "bm25" => \A f \in File : parsed[r][f] # Absent => nodes[f] = RowsOfText(parsed[r][f])

ExactInv ==
  faults = {} => /\ work = Tree[head]
                 /\ last <= head
                 /\ Idle => \A f \in File : HoldsFile(last, f)
                 /\ \A r \in Runner : RunExact(r)
-----------------------------------------------------------------------------
\* What OverlapSettles rests on, its first part: runs that overlap have one HEAD
\* in common, since it moves between them only.  A file whose rows are missing is
\* the business of some run, which will read it or is about to write its terms.
Survived == faults \subseteq {"overlap", "busy", "diff_fails", "discarded"}

WillIndex(r, f) ==
  \/ pc[r] \in {"clear", "collect"}
  \/ pc[r] = "patch" /\ (f \in toParse[r] \/ parsed[r][f] = Tree[head][f])
  \/ pc[r] = "bm25" /\ RowsThere(f)
     /\ \A s \in DefsOf(Tree[head][f]) : <<f, s>> \in bm25 \cup todo[r]
Searchable(f) == RowsThere(f) /\ TermsThere(f)
Covered(f) == Searchable(f) \/ \E r \in Runner : WillIndex(r, f)

\* A run with these ahead of it will record HEAD.
Recording == {"collect", "patch", "bm25", "clusters", "community", "ids", "trace"}

SameHead(r) ==
  /\ pc[r] # "idle" => target[r] = head
  /\ \A f \in File : parsed[r][f] \in {Absent, Tree[head][f]}
  /\ \A f \in toDelete[r] : pc[r] = "patch" /\ (f \in toParse[r] \/ Tree[head][f] = Absent)

IndexedAt(c, f) ==
  \A s \in DefsOf(Tree[c][f]) : nodes[f][s] = Tree[c][f] /\ <<f, s>> \in bm25

\* A run that cannot record its commit leaves the older one recorded, some of
\* whose rows it has deleted: then no text may come back.
TextsStayGone == NoRevert \/ "discarded" \notin faults
NothingForgotten ==
  /\ work = Tree[head] /\ last <= head
  /\ \A r \in Runner : SameHead(r)
  /\ "discarded" \notin faults =>
       /\ (\E r \in Runner : pc[r] = "embed") =>
            last = head \/ \E r \in Runner : pc[r] \in Recording
       /\ Idle /\ last # NoCommit => \A f \in File \ Skipped : IndexedAt(last, f)
  /\ \A f \in File \ Skipped :
       /\ Settled(last, f) => Covered(f)
       /\ (\E r \in Runner : pc[r] \in Recording) => Covered(f)

\* Its second part: a symbol that is in no community is one that some run will put
\* into one.
WillCluster(r, u) ==
  \/ pc[r] \in {"bm25", "clusters"}
  \/ pc[r] \in {"community", "ids"} /\ u \in todo[r]
  \/ pc[r] = "ids" /\ u \in group[r] \cap member
NobodyAlone ==
  \A u \in Present : u \in member \cap cid \/ \E r \in Runner : WillCluster(r, u)

\* Its third part: rows of other texts than those of HEAD are rows that every run
\* past its plan has still to delete; what a run writes about is in HEAD.
AtHead == ParsedUids(Tree[head])
Clean(f) == \A s \in Symbol : nodes[f][s] \in {Absent, RowsOfText(Tree[head][f])[s]}

NothingStale ==
  /\ \A f \in File : TextAt(last, f) \in {Absent, Tree[head][f]} => Clean(f)
  /\ \A r \in Runner : pc[r] \in Recording \cup {"embed"} =>
       \A f \in File : f \in toDelete[r] \/ Clean(f)
  /\ \A r \in Runner : todo[r] \cup group[r] \subseteq AtHead
  /\ bm25 \cup member \cup cid \cup embedded \subseteq Present \cup AtHead
  /\ edges \subseteq (Present \cup AtHead) \X (Present \cup AtHead)
  /\ Idle => /\ \A f \in File : nodes[f] = RowsOfText(TextAt(last, f))
             /\ RowsHaveNodes

SettleInv ==
  /\ Survived /\ TextsStayGone => NothingForgotten
  /\ Survived /\ "discarded" \notin faults => NobodyAlone
  /\ faults = {"overlap"} /\ Skipped = {} => NothingStale
=============================================================================
