---------------------------- MODULE IndexPipeline ----------------------------
(***************************************************************************)
(* `mimir analyze` (cmd/mimir/analyze.go) over a git repository whose HEAD *)
(* and worktree change underneath it, and the SQLite tables it maintains.  *)
(*                                                                         *)
(* One analyze process is a Runner.  Every write transaction of the store  *)
(* is one step, so that a process may die, and HEAD may move, between any  *)
(* two of them.  A file's text is a Version; the symbols it declares       *)
(* (Defs) and the call sites it holds (Calls) are what the parser makes of *)
(* it.  A row of table `nodes` is identified by its file and its symbol    *)
(* (graph.NodeUID) and holds the version it was parsed from.               *)
(***************************************************************************)
EXTENDS Naturals, FiniteSets

CONSTANTS
  File,       \* paths of the repository that have a supported extension
  Skipped,    \* those that a walk leaves out: in .gitignore, vendor, *.pb.go
  Symbol,     \* names of functions and types
  Version,    \* texts a file may have
  Absent,     \* "no such file", "no such row"
  MaxCommit,  \* commits are 1..MaxCommit; bounds the history
  Tree,       \* Tree[c][f]: the version of f in commit c
  Defs,       \* Defs[v]: the symbols version v declares
  Calls,      \* Calls[v]: pairs <<caller, callee name>> of version v
  Runner,     \* analyze processes on this repository
  FaultSets   \* the environments considered: sets of FaultKinds

Commit == 1..MaxCommit
NoCommit == 0        \* index_meta has no last_commit
Uid == File \X Symbol

FaultKinds ==
  { "crash",       \* a process dies, or returns an error, between two steps
    "race",        \* HEAD moves while a process runs
    "rewind",      \* HEAD moves to an older commit
    "dirty",       \* the worktree is edited without a commit
    "diff_fails",  \* go-git cannot diff last_commit against HEAD
    "overlap",     \* a run starts while another one is going on
    "busy",        \* a transaction fails whose error is only logged
    "discarded",   \* a statement fails whose error nobody looks at
    "dropped" }    \* a plan leaves changed files out without an error

ASSUME PipelineAssumption ==
  /\ MaxCommit \in Nat \ {0}
  /\ Absent \notin Version
  /\ Skipped \subseteq File
  /\ Tree \in [Commit -> [File -> Version \cup {Absent}]]
  /\ Defs \in [Version -> SUBSET Symbol]
  /\ Calls \in [Version -> SUBSET (Symbol \X Symbol)]
  /\ FaultSets \subseteq SUBSET FaultKinds

VARIABLES
  faults,    \* what may go wrong in this behavior; never changes
  head,      \* the commit HEAD names
  work,      \* the worktree: the version of each file
  last,      \* index_meta.last_commit
  nodes,     \* table nodes: nodes[f][s] is the row's version, or Absent
  bm25,      \* uids with rows in bm25_index
  edges,     \* table edges, as pairs of uids
  member,    \* uids with a row in cluster_members
  cid,       \* uids whose nodes.cluster_id is set
  procs,     \* procs[e]: symbols in process_steps of entry e, {} if none
  embedded,  \* uids with a row in node_embeddings
  pc,        \* pc[r]: where process r is in runAnalyze
  target,    \* target[r]: headSHA, as IsStale returned it
  toDelete,  \* toDelete[r]: files of the plan whose rows are still to go
  toParse,   \* toParse[r]: files still to be read and parsed
  parsed,    \* parsed[r]: allSymbols, the version read of each parsed file
  todo,      \* todo[r]: uids the current loop has still to treat
  group      \* group[r]: the community being written

env == <<faults, head, work>>
derived == <<bm25, edges, member, cid, procs, embedded>>
local == <<pc, target, toDelete, toParse, parsed, todo, group>>
vars == <<env, last, nodes, derived, local>>

PCs == { "idle", "clear", "plan", "collect", "patch", "bm25", "clusters",
         "community", "ids", "trace", "embed" }
-----------------------------------------------------------------------------
(* What the tables hold.                                                   *)

Present == { u \in Uid : nodes[u[1]][u[2]] # Absent }

\* The symbols the parser finds in version v: none if there is no file.
DefsOf(v) == IF v = Absent THEN {} ELSE Defs[v]

\* allNodes: the uids of every parsed file (analyze.go:158-161).
ParsedUids(p) == { u \in Uid : u[2] \in DefsOf(p[u[1]]) }

\* A name resolves in its own file first, else in any other file that was
\* handed to the resolver: Resolve sees the parsed files only.
Candidates(p, f, name) ==
  IF name \in DefsOf(p[f]) THEN {<<f, name>>}
  ELSE { u \in ParsedUids(p) : u[2] = name }

\* Call sites of the parsed files that resolve to some symbol.
Sites(p) ==
  { x \in File \X Symbol \X Symbol :
      /\ p[x[1]] # Absent
      /\ <<x[2], x[3]>> \in Calls[p[x[1]]]
      /\ x[2] \in Defs[p[x[1]]]
      /\ Candidates(p, x[1], x[3]) # {} }

\* The edge sets Resolve may return for p: one candidate per site, chosen by
\* goroutine and map order when there are several, and no self call.
Resolutions(p) ==
  LET sites == Sites(p)
      choice == [x \in sites |-> Candidates(p, x[1], x[3])]
      picks == { g \in [sites -> UNION { choice[x] : x \in sites }] :
                   \A x \in sites : g[x] \in choice[x] }
  IN  { { <<<<x[1], x[2]>>, g[x]>> : x \in { y \in sites : g[y] # <<y[1], y[2]>> } } :
          g \in picks }

\* Heuristic b of FindEntryPoints: a caller nobody calls, among the nodes whose
\* edges it was told.
EntriesAmong(asked) ==
  { u \in asked : /\ \E e \in edges : e[1] = u
                  /\ \A e \in edges : e[1] \in asked => e[2] # u }
EntryPoints == EntriesAmong(Present)

\* TraceProcess: what calls lead to from u within d of them, over some edges
\* and over those of the table.
ReachOver(links, u, d) ==
  LET R[i \in 0..d] ==
        IF i = 0 THEN {u}
        ELSE LET near == R[i-1]
             IN  near \cup { e[2] : e \in { x \in links : x[1] \in near } }
  IN  { v \in Uid : v \in R[d] }
Reach(u, d) == ReachOver(edges, u, d)

MaxDepth == 10  \* the depth runAnalyze passes to TraceProcess
-----------------------------------------------------------------------------
Idle == \A r \in Runner : pc[r] = "idle"

Init ==
  /\ faults \in FaultSets
  /\ head \in Commit
  /\ work = Tree[head]
  /\ last = NoCommit
  /\ nodes = [f \in File |-> [s \in Symbol |-> Absent]]
  /\ bm25 = {} /\ edges = {} /\ member = {} /\ cid = {} /\ embedded = {}
  /\ procs = [u \in Uid |-> {}]
  /\ pc = [r \in Runner |-> "idle"]
  /\ target = [r \in Runner |-> NoCommit]
  /\ toDelete = [r \in Runner |-> {}]
  /\ toParse = [r \in Runner |-> {}]
  /\ parsed = [r \in Runner |-> [f \in File |-> Absent]]
  /\ todo = [r \in Runner |-> {}]
  /\ group = [r \in Runner |-> {}]

(***************************************************************************)
(* The environment: git operations and edits.                              *)
(***************************************************************************)

\* git commit, pull, merge (forward) or checkout of an older commit.
MoveHead(c) ==
  /\ c # head
  /\ c > head \/ "rewind" \in faults
  /\ Idle \/ "race" \in faults
  /\ head' = c
  /\ work' = Tree[c]
  /\ UNCHANGED <<faults, last, nodes, derived, local>>

\* An edit, or its undoing.  Bounds: one file differs from HEAD at a time, and
\* its text is one it has in some commit.
EditWorktree(f, v) ==
  /\ "dirty" \in faults
  /\ v \in { Tree[c][f] : c \in Commit }
  /\ \A g \in File \ {f} : work[g] = Tree[head][g]
  /\ work' = [work EXCEPT ![f] = v]
  /\ UNCHANGED <<faults, head, last, nodes, derived, local>>

(***************************************************************************)
(* runAnalyze                                                              *)
(***************************************************************************)

Goto(r, from, to) ==
  /\ pc[r] = from
  /\ pc' = [pc EXCEPT ![r] = to]

\* IsStale reads HEAD and last_commit.  A current index is left alone unless
\* --force is given (analyze.go:106-116); an error of GetMeta counts as stale.
\* Nothing keeps a second process out.
Start(r) ==
  /\ Idle \/ "overlap" \in faults
  /\ \/ (last # head \/ "discarded" \in faults) /\ Goto(r, "idle", "plan")
     \/ Goto(r, "idle", "clear")
  /\ target' = [target EXCEPT ![r] = head]
  /\ UNCHANGED <<env, last, nodes, derived, toDelete, toParse, parsed, todo, group>>

\* clearRepo, one transaction, which empties index_meta too; --force then
\* always indexes in full.
ClearedMeta == NoCommit
ClearRepo(r) ==
  /\ Goto(r, "clear", "collect")
  /\ last' = ClearedMeta
  /\ nodes' = [f \in File |-> [s \in Symbol |-> Absent]]
  /\ bm25' = {} /\ edges' = {} /\ member' = {} /\ cid' = {} /\ embedded' = {}
  /\ procs' = [u \in Uid |-> {}]
  /\ UNCHANGED <<env, target, toDelete, toParse, parsed, todo, group>>

\* No last_commit, or none that could be read, or no diff against it: index in
\* full, with the tables as they are (analyze.go:136-147, 400-403).
PlanFull(r) ==
  /\ last = NoCommit \/ faults \cap {"diff_fails", "discarded"} # {}
  /\ Goto(r, "plan", "collect")
  /\ UNCHANGED <<env, last, nodes, derived, target, toDelete, toParse, parsed, todo, group>>

\* GetChangedFiles: the two trees are compared file by file.
Changed(c, d) == { f \in File : Tree[c][f] # Tree[d][f] }

\* Mutant: the rows of an updated file are left to the upsert.
OnlyDeleted(c, d) == { f \in Changed(c, d) : Tree[d][f] = Absent }

\* Updated and deleted files: their rows have to go.
Outdated(c, d) == { f \in Changed(c, d) : Tree[c][f] # Absent }

\* GetChangedFiles reads HEAD anew; PlanPatch sorts the changes.
PlanPatch(r) ==
  /\ last # NoCommit
  /\ Goto(r, "plan", "patch")
  /\ toDelete' = [toDelete EXCEPT ![r] = Outdated(last, head)]
  /\ toParse' = [toParse EXCEPT ![r] = { f \in Changed(last, head) : Tree[head][f] # Absent }]
  /\ UNCHANGED <<env, last, nodes, derived, target, parsed, todo, group>>

\* A change whose blobs cannot be read is passed over (diffplanner.go:72-75).  An
\* error of GetMeta between the two reads of last_commit does the same to all of
\* them: the plan then holds the paths of HEAD's tree, relative to the root, none
\* of which is the path of a row (analyze.go:142, diffplanner.go:95-109).
PlanPartly(r) ==
  /\ "dropped" \in faults
  /\ last # NoCommit
  /\ Goto(r, "plan", "patch")
  /\ \E seen \in SUBSET Changed(last, head) :
       /\ toDelete' = [toDelete EXCEPT ![r] = Outdated(last, head) \cap seen]
       /\ toParse' = [toParse EXCEPT ![r] = { f \in seen : Tree[head][f] # Absent }]
  /\ UNCHANGED <<env, last, nodes, derived, target, parsed, todo, group>>

\* fullIndex walks the worktree; the diff of two commits knows nothing of what
\* a walk leaves out.
CollectFiles(r) ==
  /\ Goto(r, "collect", "patch")
  /\ toParse' = [toParse EXCEPT ![r] = { f \in File \ Skipped : work[f] # Absent }]
  /\ UNCHANGED <<env, last, nodes, derived, target, toDelete, parsed, todo, group>>

\* Mutants: the foreign keys are trusted with tables that have none; only the
\* edges into the file are deleted.
LeftToCascade(table, gone) == table
IncomingOnly(gone) == { e \in edges : e[2] \notin gone }

\* Rows of a table of uids, and edges, that survive when the nodes in gone go.
Without(table, gone) == table \ gone
EdgesWithout(gone) == { e \in edges : e[1] \notin gone /\ e[2] \notin gone }

\* ApplyPatch: DeleteNodesByFile, one transaction a file.  process_steps keep
\* their rows.
DeleteNodesByFile(r, f) ==
  LET gone == { u \in Present : u[1] = f }
  IN  /\ pc[r] = "patch"
      /\ f \in toDelete[r]
      /\ toDelete' = [toDelete EXCEPT ![r] = @ \ {f}]
      /\ nodes' = [nodes EXCEPT ![f] = [s \in Symbol |-> Absent]]
      /\ bm25' = Without(bm25, gone)
      /\ embedded' = Without(embedded, gone)
      /\ member' = Without(member, gone)
      /\ cid' = cid \ gone
      /\ edges' = EdgesWithout(gone)
      /\ UNCHANGED <<env, last, procs, pc, target, toParse, parsed, todo, group>>

\* The nodes are deleted, but of the statements before that some fail, which the
\* transaction does not notice (nodes.go:91-94).  Bound: a table loses its rows of
\* the file or keeps all of them.
DeletesPartly(r, f) ==
  LET gone == { u \in Present : u[1] = f }
  IN  /\ "discarded" \in faults
      /\ pc[r] = "patch"
      /\ f \in toDelete[r]
      /\ toDelete' = [toDelete EXCEPT ![r] = @ \ {f}]
      /\ nodes' = [nodes EXCEPT ![f] = [s \in Symbol |-> Absent]]
      /\ bm25' \in {bm25, Without(bm25, gone)}
      /\ embedded' \in {embedded, Without(embedded, gone)}
      /\ member' \in {member, Without(member, gone)}
      /\ cid' = cid \ gone
      /\ edges' \in {edges, EdgesWithout(gone)}
      /\ UNCHANGED <<env, last, procs, pc, target, toParse, parsed, todo, group>>

\* The transaction fails; ApplyPatch logs the error and goes on.
DeleteFails(r, f) ==
  /\ "busy" \in faults
  /\ pc[r] = "patch"
  /\ f \in toDelete[r]
  /\ toDelete' = [toDelete EXCEPT ![r] = @ \ {f}]
  /\ UNCHANGED <<env, last, nodes, derived, pc, target, toParse, parsed, todo, group>>

\* A worker of the parser pool reads f from the worktree; a file that is gone
\* by now is skipped.
ParseFile(r, f) ==
  /\ pc[r] = "patch"
  /\ toDelete[r] = {}
  /\ f \in toParse[r]
  /\ toParse' = [toParse EXCEPT ![r] = @ \ {f}]
  /\ parsed' = [parsed EXCEPT ![r][f] = work[f]]
  /\ UNCHANGED <<env, last, nodes, derived, pc, target, toDelete, todo, group>>

\* BatchUpsertNodes, one transaction: a row that is there is overwritten, a
\* row whose symbol the file no longer declares is not touched.
UpsertNodes(r) ==
  /\ toDelete[r] = {} /\ toParse[r] = {}
  /\ Goto(r, "patch", "bm25")
  /\ nodes' = [f \in File |-> [s \in Symbol |->
                 IF s \in DefsOf(parsed[r][f]) THEN parsed[r][f] ELSE nodes[f][s]]]
  /\ todo' = [todo EXCEPT ![r] = ParsedUids(parsed[r])]
  /\ UNCHANGED <<env, last, derived, target, toDelete, toParse, parsed, group>>

\* Mutant: the term rows are keyed by the symbol's name.
KeyedByName(u) == u[2]

\* The symbol_uid of u's term rows.
TermKey(u) == u

\* IndexNodesBM25: one transaction a node.
IndexNodeBM25(r, u) ==
  /\ pc[r] = "bm25"
  /\ u \in todo[r]
  /\ bm25' = bm25 \cup {TermKey(u)}
  /\ todo' = [todo EXCEPT ![r] = @ \ {u}]
  /\ UNCHANGED <<env, last, nodes, edges, member, cid, procs, embedded,
                 pc, target, toDelete, toParse, parsed, group>>

\* Resolve over the parsed files, then BatchUpsertEdges in one transaction.
UpsertEdges(r) ==
  /\ todo[r] = {}
  /\ Goto(r, "bm25", "clusters")
  /\ \E new \in Resolutions(parsed[r]) : edges' = edges \cup new
  /\ UNCHANGED <<env, last, nodes, bm25, member, cid, procs, embedded,
                 target, toDelete, toParse, parsed, todo, group>>

\* Mutant: an incremental run clusters what it parsed.
ParsedNodes(r) == ParsedUids(parsed[r])

\* The nodes Louvain clusters: all of the table, not the parsed ones.
AllNodes(r) == Present

\* DeleteAllClusters, one transaction; then AllNodes is read.
DeleteAllClusters(r) ==
  /\ Goto(r, "clusters", "community")
  /\ member' = {} /\ cid' = {}
  /\ todo' = [todo EXCEPT ![r] = AllNodes(r)]
  /\ UNCHANGED <<env, last, nodes, bm25, edges, procs, embedded,
                 target, toDelete, toParse, parsed, group>>

\* Statements of both fail without anybody noticing: cluster_members keeps its
\* rows (clusters.go:224-225), and AllNodes returns some of its rows or none
\* (analyze.go:186-187).
ClearsPartly(r) ==
  /\ "discarded" \in faults
  /\ Goto(r, "clusters", "community")
  /\ member' \in {member, {}} /\ cid' = {}
  /\ \E read \in SUBSET Present : todo' = [todo EXCEPT ![r] = read]
  /\ UNCHANGED <<env, last, nodes, bm25, edges, procs, embedded,
                 target, toDelete, toParse, parsed, group>>

\* UpsertCluster and UpsertClusterMembers of the next community.  Louvain
\* partitions the nodes read; which partition is left open here.
UpsertClusterMembers(r, c) ==
  /\ c # {} /\ c \subseteq todo[r]
  /\ Goto(r, "community", "ids")
  /\ member' = member \cup c
  /\ todo' = [todo EXCEPT ![r] = @ \ c]
  /\ group' = [group EXCEPT ![r] = c]
  /\ UNCHANGED <<env, last, nodes, bm25, edges, cid, procs, embedded,
                 target, toDelete, toParse, parsed>>

\* SetClusterForNodes: an UPDATE, which touches rows that exist.
SetClusterForNodes(r) ==
  /\ Goto(r, "ids", "community")
  /\ cid' = cid \cup (group[r] \cap Present)
  /\ group' = [group EXCEPT ![r] = {}]
  /\ UNCHANGED <<env, last, nodes, bm25, edges, member, procs, embedded,
                 target, toDelete, toParse, parsed, todo>>

\* Mutant: an incremental run traces from what it parsed.
ParsedEntryPoints(r) == EntryPoints \cap ParsedUids(parsed[r])

\* The nodes it looks at are all of the table again.
Traced(r) == EntryPoints

\* FindEntryPoints reads the graph.
FindEntryPoints(r) ==
  /\ todo[r] = {}
  /\ Goto(r, "community", "trace")
  /\ todo' = [todo EXCEPT ![r] = Traced(r)]
  /\ UNCHANGED <<env, last, nodes, derived, target, toDelete, toParse, parsed, group>>

\* AllNodes returns some of its rows, and some of their edges are not told
\* (analyze.go:220, tracer.go:33-36).
FindsPartly(r) ==
  /\ "discarded" \in faults
  /\ todo[r] = {}
  /\ Goto(r, "community", "trace")
  /\ \E asked \in SUBSET Present : todo' = [todo EXCEPT ![r] = EntriesAmong(asked)]
  /\ UNCHANGED <<env, last, nodes, derived, target, toDelete, toParse, parsed, group>>

\* TraceProcess, UpsertProcess, UpsertProcessSteps: the steps of e replaced.
TraceProcess(r, e) ==
  /\ pc[r] = "trace"
  /\ e \in todo[r]
  /\ procs' = [procs EXCEPT ![e] = Reach(e, MaxDepth)]
  /\ todo' = [todo EXCEPT ![r] = @ \ {e}]
  /\ UNCHANGED <<env, last, nodes, bm25, edges, member, cid, embedded,
                 pc, target, toDelete, toParse, parsed, group>>

\* The trace does not go on from symbols whose edges it was not told
\* (tracer.go:119-122).
TracesPartly(r, e) ==
  /\ "discarded" \in faults
  /\ pc[r] = "trace"
  /\ e \in todo[r]
  /\ \E asked \in SUBSET Reach(e, MaxDepth) :
       procs' = [procs EXCEPT ![e] = ReachOver({ x \in edges : x[1] \in asked }, e, MaxDepth)]
  /\ todo' = [todo EXCEPT ![r] = @ \ {e}]
  /\ UNCHANGED <<env, last, nodes, bm25, edges, member, cid, embedded,
                 pc, target, toDelete, toParse, parsed, group>>

\* Mutants: HEAD is read again at the end; a run that parsed nothing, because
\* files were only deleted, is taken for a run that did nothing.
HeadAtTheEnd(r) == head
UnlessNothingParsed(r) == IF ParsedUids(parsed[r]) = {} THEN last ELSE target[r]

\* headSHA, which IsStale read before anything was indexed.
Recorded(r) == target[r]

\* SetMeta("last_commit", headSHA); the embed jobs are enqueued after it.
RecordCommit(r) ==
  /\ todo[r] = {}
  /\ Goto(r, "trace", "embed")
  /\ last' = Recorded(r)
  /\ todo' = [todo EXCEPT ![r] = ParsedUids(parsed[r])]
  /\ UNCHANGED <<env, nodes, derived, target, toDelete, toParse, parsed, group>>

\* SetMeta fails, and the run goes on (analyze.go:240).
CommitNotRecorded(r) ==
  /\ "discarded" \in faults
  /\ todo[r] = {}
  /\ Goto(r, "trace", "embed")
  /\ todo' = [todo EXCEPT ![r] = ParsedUids(parsed[r])]
  /\ UNCHANGED <<env, last, nodes, derived, target, toDelete, toParse, parsed, group>>

\* Process r forgets everything it held in memory.
Forget(r) ==
  /\ pc' = [pc EXCEPT ![r] = "idle"]
  /\ target' = [target EXCEPT ![r] = NoCommit]
  /\ toDelete' = [toDelete EXCEPT ![r] = {}]
  /\ toParse' = [toParse EXCEPT ![r] = {}]
  /\ parsed' = [parsed EXCEPT ![r] = [f \in File |-> Absent]]
  /\ todo' = [todo EXCEPT ![r] = {}]
  /\ group' = [group EXCEPT ![r] = {}]

\* The embed worker stores the vectors it got (module EmbedWorker has the
\* details: any of the jobs may be lost), and the run ends.
Embed(r) ==
  /\ pc[r] = "embed"
  /\ \E done \in SUBSET todo[r] : embedded' = embedded \cup done
  /\ Forget(r)
  /\ UNCHANGED <<env, last, nodes, bm25, edges, member, cid, procs>>

Crash(r) ==
  /\ "crash" \in faults
  /\ pc[r] # "idle"
  /\ Forget(r)
  /\ UNCHANGED <<env, last, nodes, derived>>

Step(r) ==
  \/ Start(r) \/ ClearRepo(r) \/ PlanFull(r) \/ PlanPatch(r) \/ CollectFiles(r)
  \/ \E f \in File : DeleteNodesByFile(r, f) \/ DeleteFails(r, f) \/ ParseFile(r, f)
  \/ UpsertNodes(r) \/ UpsertEdges(r) \/ DeleteAllClusters(r)
  \/ \E u \in Uid : IndexNodeBM25(r, u) \/ TraceProcess(r, u)
  \/ \E c \in SUBSET todo[r] : UpsertClusterMembers(r, c)
  \/ SetClusterForNodes(r) \/ FindEntryPoints(r) \/ RecordCommit(r) \/ Embed(r)
  \/ PlanPartly(r) \/ \E f \in File : DeletesPartly(r, f)
  \/ ClearsPartly(r) \/ FindsPartly(r) \/ \E u \in Uid : TracesPartly(r, u)
  \/ CommitNotRecorded(r)

Environment ==
  \/ \E c \in Commit : MoveHead(c)
  \/ \E f \in File, v \in Version \cup {Absent} : EditWorktree(f, v)

Next ==
  \/ Environment
  \/ \E r \in Runner : Step(r) \/ Crash(r)

Spec == Init /\ [][Next]_vars

\* The post-commit hook starts an analyze process after every commit, and a
\* process that is not killed goes on to its end.  Some step of a runner is
\* always possible, so this is weak fairness of Step(r).
FairSpec == Spec /\ \A r \in Runner : []<><<Step(r)>>_vars
-----------------------------------------------------------------------------
(* Properties.  Each names the faults it tolerates.                        *)

\* The variables hold what their declarations say.
TypeOK ==
  /\ faults \in SUBSET FaultKinds
  /\ head \in Commit
  /\ work \in [File -> Version \cup {Absent}]
  /\ last \in Commit \cup {NoCommit}
  /\ nodes \in [File -> [Symbol -> Version \cup {Absent}]]
  /\ bm25 \subseteq Uid /\ member \subseteq Uid /\ cid \subseteq Uid
  /\ embedded \subseteq Uid
  /\ edges \subseteq Uid \X Uid
  /\ procs \in [Uid -> SUBSET Uid]
  /\ pc \in [Runner -> PCs]
  /\ target \in [Runner -> Commit \cup {NoCommit}]
  /\ toDelete \in [Runner -> SUBSET File]
  /\ toParse \in [Runner -> SUBSET File]
  /\ parsed \in [Runner -> [File -> Version \cup {Absent}]]
  /\ todo \in [Runner -> SUBSET Uid]
  /\ group \in [Runner -> SUBSET Uid]

\* No text of a file ever comes back: what two commits agree on, the commits
\* between them agree on too.
NoRevert ==
  \A i, j, k \in Commit : \A f \in File :
    i <= j /\ j <= k /\ Tree[i][f] = Tree[k][f] => Tree[j][f] = Tree[i][f]

\* f, which every plan looks at, is the same at commit c and at HEAD: a run from
\* c will not look at it.
Settled(c, f) == f \notin Skipped /\ c # NoCommit /\ Tree[c][f] = Tree[head][f]

\* The symbols f has at HEAD are in `nodes`, from that text; and in bm25_index.
RowsThere(f) == \A s \in DefsOf(Tree[head][f]) : nodes[f][s] = Tree[head][f]
TermsThere(f) == \A s \in DefsOf(Tree[head][f]) : <<f, s>> \in bm25

\* Incremental indexing rests on this: a file git calls unchanged since
\* last_commit has each of its symbols in `nodes`, from the text it has at
\* HEAD, and in bm25_index.  It holds at every moment of a run, whatever
\* crashes, commits made during the run, failed diffs, failed deletes and
\* discarded errors came before (analyze.go:130-169, patcher.go:39-83).
Forward == faults \cap {"rewind", "dirty", "overlap", "dropped"} = {}
IndexComplete ==
  Forward => \A f \in File : Settled(last, f) => RowsThere(f) /\ TermsThere(f)

\* Rows of the other tables, none of which the schema ties to nodes except
\* edges, belong to rows of nodes (schema.go:20-76, nodes.go:72-100): no
\* search hit, cluster member, vector or edge refers to a symbol that is not
\* there, in any environment in which runs do not overlap and the deletes of a
\* transaction do not fail unnoticed.
RowsHaveNodes ==
  /\ bm25 \cup member \cup cid \cup embedded \subseteq Present
  /\ edges \subseteq Present \X Present
DerivedRowsHaveNodes == faults \cap {"overlap", "discarded"} = {} => RowsHaveNodes

\* An index reported current is analyzed: every symbol is in a community and
\* carries its cluster_id, and every entry point has exactly the steps that a
\* trace of the stored edges gives (analyze.go:183-236 before 239-241).  It takes
\* statements that do not fail unnoticed.
AnalysisCurrent ==
  (Forward /\ "discarded" \notin faults /\ Idle /\ last = head) =>
    /\ member = Present /\ cid = Present
    /\ \A u \in EntryPoints : procs[u] = Reach(u, MaxDepth)

\* Every stored call is a call the caller's stored text makes.
EdgesJustified ==
  faults = {} =>
    \A e \in edges : LET v == nodes[e[1][1]][e[1][2]]
                     IN  v # Absent /\ <<e[1][2], e[2][2]>> \in Calls[v]

\* HEAD moves finitely often; from then on runs bring the index to HEAD
\* again and again, crashes and commits that are not recorded apart.
Converges == (faults \cap {"crash", "rewind", "discarded"} = {}) => []<>(last = head)

\* The table `nodes` of an index of commit c.
SymbolsAt ==
  [c \in Commit |-> [f \in File |-> [s \in Symbol |->
     IF s \in DefsOf(Tree[c][f]) THEN Tree[c][f] ELSE Absent]]]

\* Runs that are left alone, in a repository without files that a walk leaves
\* out, implement the abstract graph: whenever the index is reported current,
\* `nodes` is the symbol table of HEAD, and it stays so until HEAD moves or a
\* forced run clears it.
ReportedGraph == IF faults = {} /\ Skipped = {} /\ last = head THEN nodes ELSE Absent
Snapshot == INSTANCE HeadSnapshot WITH graph <- ReportedGraph, Unknown <- Absent
ImplementsSnapshot == Snapshot!Spec

\* Post-commit hooks start runs in the background, so that two of them may
\* interleave their transactions.  If none of them dies and HEAD rests, the
\* `nodes` and bm25_index are complete again once all have ended, also when some
\* deletes, diffs or statements failed, noticed or not: each run deletes before
\* it writes.  If none failed unnoticed every symbol is in a community, since a
\* run deletes the communities after every row it wrote; if none failed at all,
\* and every file is one that a walk collects, the index is exact
\* (analyze.go:106-241).
OverlapSettles ==
  (faults \subseteq {"overlap", "busy", "diff_fails", "discarded"} /\ Idle /\ last = head) =>
    /\ \A f \in File \ Skipped : RowsThere(f) /\ TermsThere(f)
    /\ "discarded" \notin faults => Present \subseteq member \cap cid
    /\ faults = {"overlap"} /\ Skipped = {} => nodes = SymbolsAt[head] /\ RowsHaveNodes

\* The claim of docs/guide.md, section 6, that the graph is always in sync with
\* HEAD, for the call edges: those of a current index are the ones a full
\* index of HEAD would have resolved.
EdgesInSync ==
  (faults = {} /\ Idle /\ last = head) => edges \in Resolutions(Tree[head])

\* "respecting `.gitignore`" (docs/architecture.md:23, of the enumeration of
\* files): a current index has no symbols of files that a walk leaves out.
SkippedStayOut ==
  (faults = {} /\ Idle /\ last = head) => \A u \in Present : u[1] \notin Skipped
=============================================================================
