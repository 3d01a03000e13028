# Mimir: a verification project

Mimir indexes git repositories into a SQLite knowledge graph and serves it to
coding agents over MCP. This directory holds TLA+ models of the parts of the
program that keep state, the TLC runs that check them on small instances, and
TLAPS proofs of nearly every safety property that the runs check. Every
definition that models code is tied to its lines in `PROJECT.json` ("map").
Paths below are relative to the repository.

Run everything inside this directory: `tlc -workers 2 -config MCRegistry.cfg
MCRegistry.tla` (and so on for the other configurations), and `tlapm
RegistryProofs.tla` (and so on for the other modules whose name ends in
`Proofs`; each takes between half a minute and five).

## 1. Inventory

| Component | State | Operations | Hard behaviour | What makes it correct |
|---|---|---|---|---|
| `mimir analyze` (`cmd/mimir/analyze.go`, `internal/incremental`) | the index database, its `last_commit`; HEAD and worktree belong to git | stale check, full index, patch, upserts, clustering, tracing, recording the commit | some dozen transactions, a crash or a commit between any two; HEAD read three times; statements whose errors are discarded | a file that git calls unchanged since `last_commit` is in the index; derived tables refer to rows that exist; runs converge to HEAD |
| store, write side (`internal/store`) | the SQLite tables | one transaction each | no foreign keys but those written out by hand; deletes inside a transaction that are not checked | no delete forgets a table |
| store, queries (`internal/store/query.go`, `embeddings.go`) | none | the statements behind each tool, `QueryImpact`, `bm25Search` | every statement is a transaction of its own; cycles in a recursive query | an answer comes from one index; the rows follow from the graph |
| clustering (`internal/cluster`) | graph of the level, communities, renumbering | `phase1`, `phase2`, levels | termination, double counting of loops, renumbering | levels shrink, symbols stay in their component, modularity does not drop |
| process tracing (`internal/process`) | queue, visited set | `FindEntryPoints`, `TraceProcess`, `ClassifyProcess` | cycles, depth bound, row order, queries that fail and are passed over | shortest distances, each symbol once |
| parser pool (`internal/parser/pool.go`) | two channels, wait group | `Run`, its workers, its closer | close against send, full channels, cancellation | every file once, no panic, no goroutine left |
| parser (`internal/parser/parser.go`) | none | `walk` and the extractors of six languages | nesting: functions, classes, anonymous functions inside one another | every declaration is a symbol, every call belongs to the innermost one |
| resolver (`internal/resolver`) | symbol table, channel of edges | two passes of goroutines, collector | barrier between the passes, candidate order, a full channel | edges that the texts justify, none missing |
| embed worker (`internal/embedder/worker.go`) | queue, batch, cache, vectors | `Enqueue`, `Start`, `Close` | full queue, close with jobs queued, failing provider | right vector or an accounted loss, no write after close |
| registry (`internal/registry`, `clean`) | `registry.json`, `indexes/<name>.db` | `Load`, `Save`, `Register`, `Unregister`, lookups | processes without a lock, torn file, names that collide | an index is listed, and found by the same name that filled it |
| daemon (`internal/daemon`, `mimir daemon`) | PID file, processes | start, stop, restart, status | overlapping starts, stale PID, reuse; a server that exits while it loads the registry; starts that fail after the spawn | no daemon without its PID file, a start reported as done leaves one up |
| MCP server (`mcp/server.go`) | the loaded registry, signal context | loop over stdin | `Scan` blocks, end of input | it ends when it is told to |
| MCP tools and resources, HTTP bridge (`mcp/tools.go`, `mcp/resources.go`, `api/http.go`) | none that outlives a call | twelve tools, the resources and five handlers, each a sequence of statements | runs write between two statements; statements fail | an index reported current is answered from, whole |
| editor setup (`internal/setup`) | configuration files of others | `SetupAll`, hooks, context files | read, merge, write without a lock; files that do not parse or are not read; writes that fail and commands that die after the truncation | what the code puts at risk, and nothing else, is lost; what was reported as written lists mimir |
| walker (`internal/walker`) | none | `CollectFiles` | it knows rules that the incremental plan does not | both modes see the same files |
| communities, skills and wiki (`internal/store/clusters.go`, `internal/setup/skills.go`, `cmd/mimir/wiki.go`) | tables of communities, files made of them | rewriting the tables, `AllClusters`, `InstallDynamicSkills`, `runWiki` | many transactions and files; labels that are not unique | one community each; files describe the communities there are |
| prompts, the page of the bridge, status and list output | none that the program reads back | – | – | not modelled, see section 8 |

How they interact. `analyze` registers the repository (**registry**), opens
`<name>.db` (**store**), compares `last_commit` with HEAD (**incremental**),
collects files (**walker**) into the **parser pool**, hands the result to the
**resolver**, stores nodes, terms and edges, reads the whole graph back for
**clustering** and **tracing**, records the commit, runs the **embed worker**
over the store, and then calls `daemon.Start` (**daemon**) and the **editor
setup**). `mimir mcp` processes (**MCP server**) load the registry once and open a
database for each tool call; the **HTTP bridge** does the same for each request.
Processes meet in files only: the database, `registry.json`, the PID file and
the configuration files.

The hazards, each at its line and with the properties that watch it, are listed
in `PROJECT.json`.

## 2. Modules

| Module | Models | State | Steps |
|---|---|---|---|
| `IndexPipeline` | `analyze` processes (`Runner`) on one repository, over a moving HEAD | the tables as sets of rows, `last`, HEAD, worktree; per process its `pc` and local variables | one action per transaction or read of `runAnalyze`; `PlanPartly`, `DeletesPartly`, `ClearsPartly`, `FindsPartly`, `TracesPartly`, `CommitNotRecorded` for errors that are discarded; `MoveHead`, `EditWorktree`, `Crash` |
| `HeadSnapshot` | abstract: what a reader of a current index is promised | `head`, `graph` | `Move`, `Invalidate`, `Publish` |
| `IndexPipelineInvariants` | the inductive invariants of `IndexPipeline` | | |
| `IndexPipelineProofs` | theorems about `IndexPipeline`, and the refinement of `HeadSnapshot` | | |
| `ToolCalls` | a tool call, a resource or a handler of the bridge over an index that processes write | those of `IndexPipeline`, `call` (the statements to come and what was read), `steady` | one action per SQL statement or file read, `StatementFails`, `DiffFails`, `MissesChanges`, `Meanwhile` (a step of `IndexPipeline`) |
| `ToolCallsProofs` | theorems about `ToolCalls` | | |
| `EmbedWorker` | the embedding phase: main goroutine and worker | channel, batch, how much of it has been looked up, answer, tables, what was dropped or failed | the arms of each `select`, `Lookup`, `LookupDone`, `Embed`, `CacheVector`, `Store`, their errors, `Kill` |
| `EmbedWorkerProofs` | theorems about `EmbedWorker` | | |
| `ParserPool` | the goroutines around `ParserPool.Run`, for `fullIndex` (fed concurrently) and `ApplyPatch` (prefilled) | both channels, each worker, the caller | each channel operation, `CloseOut`, `Cancel` |
| `Extraction` | `walk`, the extractors of six languages, `NodeUID` | none: operators over a syntax tree | |
| `Resolver` | `resolver.Resolve` after the pool: both passes, the symbol table, the collector | those of `ParserPool`, `table`, `toResolve`, the channel of edges, `edges` | `Register`, `StartPassTwo`, `ResolveRef` (a lookup and a send), `CollectEdge`, closing and returning |
| `ResolverProofs` | theorems about `ParserPool` and `Resolver` | | |
| `Registry` | `analyze`, `clean` and a server on one `~/.mimir` | file, databases, and per process `pc`, arguments and its copy of the registry | load, register, truncate, write, open, index, remove, unregister, crash; server start, stop and tool call |
| `RepositoryMap` | abstract: what commands that take turns are promised of the registry | `repos`, a map from names to repositories | `Enter`, `Remove`, `Lose` |
| `RegistryProofs` | theorems about `Registry`, and the refinement of `RepositoryMap` | | |
| `Daemon` | daemon commands, servers, editors | PID file, who has it open, process table, signals, pipes | one action per file or process operation, the error returns of `Start`; a server loads the registry, or exits, and then has the two steps of its loop |
| `Louvain` | `cluster.Louvain` | graph of the level, `comm`, `nodeToSuper` | `Visit` (one node of `phase1`), `Aggregate` (`phase2`), `Finish` |
| `ProcessTracer` | the tracing that follows the clustering; `QueryImpact` as an operator | queue and steps of one process, whether a query of it failed | `StartTrace`, `Expand`, `SkipSymbol`, `Classify` |
| `GraphAnalysisProofs` | theorems about `Louvain` and `ProcessTracer` | | |
| `Communities` | `analyze` from the clustering on and `wiki`, over the tables of communities | the tables, the skill files, the wiki; per command its `pc` and what it holds | one action per transaction, statement and file; `ClearsPartly` and `ClustersUnread` for errors that are discarded; `Crash` |
| `CommunitiesProofs` | theorems about `Communities` | | |
| `EditorSetup` | commands and the user on an editor's configuration, the hooks file and the context files | contents of each file, which were reported as written, what each command holds | `Begin`, `Skip`, `ReadFile`, `Truncate`, `Write`, `WriteFails`, `CommandDies`; the user's `Put`, `Remove` |
| `CommandProofs` | theorems about `Daemon` and `EditorSetup` | | |

Composition. `Resolver` extends `ParserPool` (it starts when the pool's caller
has every file) and `Extraction` (what a parsed file holds): together they go
from paths to edges. `ToolCalls` extends `IndexPipeline`: readers and writers
of one database. `ProcessTracer` extends `Louvain`: tracing reads the clusters.
`IndexPipeline` instantiates `HeadSnapshot` as its abstraction, and `Registry`
`RepositoryMap`. `IndexPipeline` stands for what the smaller modules detail: its
`ParseFile` for a run of `ParserPool`, its `Resolutions` for the edges that `Resolver` may return, its
`UpsertClusterMembers` for any partition (that Louvain returns one is checked
in `Louvain`; whose community is whose, and under which label, is in
`Communities`), its `Embed` for any outcome of `EmbedWorker`.

Conventions. Every module with an environment has a constant `FaultSets`, from
which `Init` picks the faults of the behaviour (`faults`, which never changes):
a property names the faults that it tolerates, and one run checks many
environments. A definition preceded by the comment "Mutant" is a plausible bug
of the definition below it; no specification uses it, and with it in place of
that definition TLC finds the property of `PROJECT.json` violated.

### Abstractions that matter

* A file's text is a `Version`; `Defs` and `Calls` are what parser and resolver
  make of it. The constant `Skipped` has the files that the walk of a full
  index leaves out (`.gitignore`, vendored directories, generated suffixes) and
  that the incremental plan, which knows the extensions only, does not.
* A row is present or absent; of a `nodes` row the version it was parsed from is
  kept. Scores, labels and line numbers are not; `Resolver` has confidences, in
  per cent. Uids are pairs of file and name in `IndexPipeline`, of file,
  qualifier, name and kind in `Extraction`; that hashes may collide is left out.
* A syntax tree (`Extraction`) has one word for a construct, whatever its
  grammar calls it: the grammars are tree-sitter's. What an extractor does with
  the construct, whether its walk returns there and which callees it
  understands are those of each language.
* A store transaction is one step, and so is the parse of a file. A statement
  of a tool call is a transaction, since the code opens none around them.
* `Louvain` has integer weights and compares gains exactly, scaled by
  `2 * total^2`; the code has floats and takes the first best community in the
  order of a Go map, so that the model takes any of the best. Sums are sums of
  functions over finite sets, which do not depend on an order.
* `QueryImpact` is a recursive function of the depth. Its rows of depth one are
  there whatever the bound is, as in the code, so that the function is also
  defined for a bound of 0.
* `os.WriteFile` is two steps, truncation and write; a write over what another
  process wrote meanwhile may leave a garbled file, and so may one that fails or
  whose process dies. A file of the user's is then empty or garbled; a PID written
  over a longer one is the number of no process.
* A statement whose error the code discards may fail in the environments with
  `discarded`: a read gives a part of its rows, or none, a delete leaves some
  tables as they were, `SetMeta` records nothing. SQLITE_BUSY is an ordinary
  reason, since the DSN (store.go:24) sets no busy timeout and its other
  parameters are not in the syntax of the driver that the program uses.

## 3. Runs

| Run | Result | Instance and what it shows |
|---|---|---|
| `pipeline` | passes, 0.8 million states | Two files, two symbols, four commits in which one file is edited and deleted and the other is added and loses a symbol; one process. Fault sets: none; crash, commits during a run and failed deletes; failed diffs and commits during a run; crash and checkout of older commits; edits without a commit; statements that fail unnoticed; changes that a plan leaves out, with commits during a run. |
| `tool_calls` | passes, 1.7 million states | Three commits, two processes that are alike (symmetry), and one server that answers one call after the other, for each of the tools, resources and handlers. Fault sets: none; commits during a run, crash and failed diffs; failed statements and diffs; overlapping runs, without failures, with failures that are noticed, and with ones that are not; statements that fail unnoticed, and changes left out, without overlap. |
| `incremental_edges` | violated | `EdgesInSync`: after an incremental run the call edges into the changed file are gone. |
| `skipped_files` | violated | `SkippedStayOut`: an incremental run indexes a file that a full run leaves out. |
| `embed_worker` | passes, 0.4 million states | Four symbols, two with the same text, a channel of two, batches of up to three: full queues, full, partial and empty batches, partly cached batches. |
| `parsing` | passes, 0.3 million states | Three files in two directories, with nine texts in six languages (methods, nested and anonymous functions, class expressions, a name declared in several files, two `init`), two workers, channels of one: every sender waits at some time; any files broken; cancellation at any time; both callers of the pool. |
| `registry` | passes, 0.3 million states | Two processes, two repositories with the same or different basenames, two names. Fault sets: clean and crash; with `--name` as well; overlap; clean and a server. |
| `daemon` | passes, 0.4 million states | Three PIDs, two commands. Fault sets: servers that die or do not find a registry that parses; editors' servers; starts that fail before or after the spawn; reused PIDs and crashes (all with every command); overlapping starts, with PIDs of one length and of several. Deadlock is checked. |
| `graph_analysis` | passes, 0.2 million states | Five symbols: all 1024 acyclic call graphs with a method edge, and cyclic graphs on which Louvain has three levels; trace depth two; queries of the tracing may fail. |
| `modularity` | violated | `OptimizesModularity` on a graph with three levels. |
| `communities` | passes, 2.7 million states | Four symbols, three of one directory, and three partitions of them; analyses and wikis. Fault sets: crash, with three commands one after the other; overlapping analyses; files that cannot be written, with two commands at a time; statements that fail unnoticed, with two commands one after the other. |
| `editor_setup` | passes, 1.7 million states | Three commands, two entries of others, two edits. Fault sets: edits during a command, comments and files that are not read; edits, commands that die and writes that fail; comments and commands that die; overlapping commands. In all of them editors may not be installed. |

`CHECK_DEADLOCK FALSE` is set where the system really stops: an embedding phase,
a parse and a clustering end, bounded registries and edits run out. `tool_calls`
has a state constraint, `MCNoCallsInOverlap`: in its environments with overlapping
runs nobody calls, since the promises about calls are about runs that do
not overlap. That of `communities`, `MCBound`, lets three commands run
in sequence or two at a time. Where statements fail unnoticed it lets two run in
sequence, with `--skip-skills` and no more rows of members than symbols, some of
which may be left over from the first.
The processes of both are alike (symmetry). Where statements fail unnoticed a row
or an edge may lose its nodes at every step, and the number of combinations
explodes; a constraint `MCFewLeftovers` keeps `pipeline` there to two commits, in
both of which both files exist, runs with `--skip-embeddings` and at most two such
leftovers, and `tool_calls` to its first two commits, `detect_changes`, no
embeddings and one leftover. What must survive there (`IndexComplete`,
`OverlapSettles`) is about rows that are missing, which the leftovers do not
touch, and is proved without these bounds.

Why the bounds are enough. Four commits let a run fail between two heads
and another record a third, with a fourth that must find what both left behind,
and have room for a file to be added, edited and deleted; `tool_calls` has one less,
in which a file is edited and deleted between or during the statements of a call.
Two files are a caller and a callee. `Limit` of two is not reached: which hits a full
answer drops depends on scores, which are left open.
The queue capacity and the batch size stand for 100000 and 64, and the channel of
edges of one per file for four: what matters is that each can be
reached while jobs are left. `MaxEntry` of three leaves room for a duplicate
of either repository. `MaxEdits` of two gives an entry before a command and
one during it. Five nodes suffice for three levels of
Louvain; its level counter stops at `Deep`, since later levels are alike.

### What the properties say

* **IndexComplete** – a file that git calls unchanged since `last_commit` has all
  its symbols, from the right text, in `nodes` and in `bm25_index`, at every
  moment, after crashes, commits during a run, failed diffs, failed deletes, and
  statements that fail without anybody noticing: a run that has read nothing back
  clusters nothing, but its symbols and terms are written already. It does not
  hold where a plan leaves out a change (`dropped`: a change whose blobs cannot be
  read, diffplanner.go:72-75, or all of them when the second read of `last_commit`
  fails, analyze.go:142), and the run records the commit all the same.
  It is why a patch may leave unchanged files alone. It is not claimed for
  checkouts of older commits or a dirty worktree: a full index reads the
  worktree and records HEAD.
* **DerivedRowsHaveNodes** – terms, members, vectors and edges refer to nodes
  that exist, unless runs overlap or a delete inside a transaction fails
  unnoticed (nodes.go:91-94 do not look at their errors): the rows of that table
  then stay when their node goes.
* **AnalysisCurrent** – an index that is reported current has every symbol
  clustered, and its processes are those of its edges, also after crashes and
  failed transactions. It excludes statements that fail unnoticed, because there the
  code does not keep it (section 4).
  (Processes of former entry points stay in the tables.)
* **EdgesJustified** – every stored call is one that the stored text makes.
* **ImplementsSnapshot** – the refinement: whenever `last_commit` is HEAD,
  `nodes` is the symbol table of HEAD, no more and no less, until HEAD moves or
  `--force` clears it. It is claimed for runs that are left alone, which is as
  far as the code goes: with a commit during a run, or a failed delete, a removed
  symbol stays for good, because a full index after a failure does not clear
  the tables and an upsert does not touch rows that are no longer declared.
* **Converges** – once HEAD rests, runs bring the index to it, again and
  again, unless they crash or cannot record the commit for ever.
* **OverlapSettles** – overlapping post-commit runs, none of which dies, leave
  every symbol and term of HEAD in the index once HEAD rests and all have ended,
  whatever fails, noticed or not; and every symbol in a community, if nothing
  failed unnoticed. Runs that overlap get SQLITE_BUSY, and `runAnalyze` discards
  it when it reads the graph back, so that no more than this can be said. While
  they run, rows of one may refer to symbols the other has just deleted. If no
  transaction failed, they also leave no symbol and no row too many; this is
  said of repositories without files that a walk leaves out (see below).
* **SteadyAnswersExact** – a call during which the index was reported current
  for one HEAD, by runs none of whose statements failed unnoticed, is answered
  exactly from HEAD, if none of its own failed: no definition missing, no body of
  another symbol, no edge without its node, no flow of an older graph, whatever
  runs began or ended meanwhile.
* **UnreportedIsIndexed** – `detect_changes` never keeps quiet about a file whose
  symbols are not in the index, also between the transactions of a run and
  after crashes; it depends on `last_commit` being written last and read first.
* **VectorsOfTheirText, LossAccounted, NoWriteAfterClose, AnalyzeEnds** – the
  embedding phase: no mixed-up vectors, every missing vector explained by a
  drop or a failure, so that `Close` loses no job, no write after `Close`, and
  it ends.
* **NoPanic, EveryFileOnce** – the parser pool: nobody sends on a closed
  channel, every file is parsed once.
* **EdgesExplained** – every edge is there for a reference in the text of its
  symbol and goes to what that name means once all files are known, whichever
  goroutine came first; only a name with one meaning gets more than the
  confidence of a guess.
* **NothingMissed** – a call whose name means something has an edge from the
  innermost symbol around it, however full the channel was.
* **AllReturns** – parsing and resolving end with all goroutines gone.
* **UniqueEntries, EveryIndexListed, ReanalysisKeepsRegistry, ReadersFindIt** – the
  registry: no duplicates, every database has an entry
  wherever a process dies, overlapping re-analysis changes nothing, the
  database that a run fills is the one that lookups by path and name lead to,
  and different basenames never share one.
* **ImplementsMap** – the registry refines `RepositoryMap`: to commands that take
  turns and leave the naming to mimir it is a map from basenames to repositories,
  of which `analyze` and `clean` change their one entry at once, wherever one dies.
  Only a death, or a write that fails, between the truncation and the write of
  `registry.json` (`Lose`) costs the map, and then for good. (A failed write is a
  `Crash` of the command here: `Save` returns the error and the command ends.) To
  commands that overlap or use `--name` the abstract specification promises nothing.
* **NoOrphan, StartedIsUp, StoppedDaemonEnds** – the daemon. Commands that do
  not overlap or die, and can write their files, leave none behind that the PID
  file does not name, whatever servers die or exit while they load the registry. A
  start that reports success has a daemon up (loading or serving), also after
  starts that failed with an orphan behind them, unless servers die or the
  registry does not parse: `Start` returns when the process is there, and
  `mimir mcp` loads the registry after that (main.go:33-37). Of overlapping starts
  the PID file names one that is up when all have returned, if their PIDs are of
  one length; a shorter one written over a longer one is garbage. A daemon that
  was stopped ends.
* **WithinComponent, LevelsShrink, EarlyLevelsOptimize** – Louvain.
* **TracesNearest, ImpactMatchesTrace** – tracing is breadth first on any graph
  and row order; where a query of it failed, some symbols are missing, but none is
  too many or nearer than it says. Without failures the recursive query agrees
  with it in both of its directions: one is the calls, the other the calls
  reversed. Which of them is called downstream is left out of the property, since
  the comment of the query and its code disagree (section 4).
* **EveryoneInACommunity** – while analyses do not overlap, at every moment and
  wherever one dies, a symbol is in one community at most, that has a row, and
  `cluster_id` names no other; when overlapping ones have ended, every symbol
  is in a community that has a row. Where errors are discarded only the part about
  `cluster_id` is left: an analysis that reads no symbol ends with empty tables.
* **SkillsOfNow, WikiExact** – after an analysis that ran alone
  the file of each module's name describes a module of now; a wiki written
  alone is that of the tables, page by page; no link of `WIKI.md` is dead,
  whatever dies.
* **LossOnlyOfExposed, ConfiguredListsMimir** – editor setup. Commands that run
  one at a time, on files that they can read, lose of the user's entries only
  those that were put in between their read and their write, and those that a
  file held when a write of it failed or its command died after the truncation:
  each of these loses the whole file, which the code does nothing against. What
  is entered again is safe again. A file whose last write was reported as done
  lists mimir (a configuration once) until a later command truncates it, and no
  write that failed is ever reported. Files with comments or that are not
  read are replaced as a whole (section 4), so that only the second property
  covers them.

### Fairness

* `IndexPipeline`: every process takes steps again and again (`[]<><<Step>>`):
  the post-commit hook of the guide starts a run after each commit, and a
  run does not stop by itself. Some step is always possible, so this is weak
  fairness of `Step`. `Converges` excludes crashes, which could go on for ever.
* `EmbedWorker`: weak fairness of each goroutine, which the Go
  scheduler gives; a provider call returns, since its HTTP client has a
  timeout of 30 seconds.
* `Resolver`: weak fairness of `Goroutine`, the disjunction of all of them: the
  scheduler runs some goroutine as long as one can go on. This is less than
  the scheduler gives and is enough, because every step brings one of
  finitely many files or references further. Cancellation has none.
* `Daemon`: weak fairness of each server's loop. Commands and editors have none.
* The others check safety only.

## 4. Findings

Three runs show a disagreement between the code and what the repository says
of it; `PROJECT.json` quotes the lines.

1. Incremental runs lose call edges between changed and unchanged files
   (`incremental_edges`).
2. Incremental runs index files that a full run leaves out (`skipped_files`).
3. From the third level on, Louvain's moves may lower modularity, because
   `phase2` puts a self-loop into the adjacency list once and counts it twice
   (`modularity`). The first two levels are right (`EarlyLevelsOptimize`).

Seen while modelling, without a run of their own.

* Discarded errors. `runAnalyze` ignores the errors of `AllNodes` and `AllEdges`
  (analyze.go:186-187), after it has deleted the communities, and records
  `last_commit` at the end: the index is reported current with symbols in no
  community and without processes, until HEAD moves or `--force` is given
  (docs/guide.md:66: "always in sync with your `HEAD`"). `ClearsPartly`,
  `FindsPartly`, `TracesPartly` of `IndexPipeline` and `ClearsPartly` of
  `Communities` have it; `AnalysisCurrent` and the communities of `OverlapSettles`
  leave it out.
* Directions of `QueryImpact`. Its comment has `"downstream" (callers of target) or
  "upstream" (callees of target)` (query.go:175); the code below it selects the
  callees for downstream, which is the default of `impact`, and the callers for
  upstream (`Impact` in `ProcessTracer`). The skills ask for upstream.
* Servers. `list_repos` misses what was indexed after the server started. A
  server that waits in `Scan` does not see SIGTERM until its next line, and at the
  end of its input it goes on waiting, also when its editor has died. `Start`
  reports success before the server has loaded the registry, and returns an error
  and leaves an orphan when the PID file cannot be written (daemon.go:72-75).
* Tools. `detect_changes` compares two commits and never looks at the worktree
  (docs/features.md:16 has "uncommitted"). A node pattern of Cypher without an
  inline `{…}` takes all that follows the colon as the kind (mcp/tools.go:854),
  so that the query of docs/guide.md:54-59 finds nothing. The tokenizer of a query
  does not split camel case, that of the index does; `query` ranks by BM25 only.
  `find_symbol_body` cuts the lines of the index out of the worktree of now.
  `context` does not tell an error of its edge queries from "no edges". A
  `max_depth` of 0 still returns the direct neighbours.
* Extraction. Selector and field calls of Go, Rust and C++ and all calls of Java
  are not taken, and `this.a.b()` never resolves. `extractHeritage` depends on a
  field "heritage" of the grammar. Uids collide for methods of one name in a
  Python, Java, Rust or C++ file, in TypeScript class expressions and for Go's
  `init`. README.md has C among the languages, but `.c` and `.h` are not in `extToLang`.
* Runs. Where the text of a file comes back while runs and commits interleave,
  an index may be reported current and hold the rows of another text (the
  behaviour is spelled out in section 5, under `NoRevert`). Of two overlapping
  hooks one may die and leave an index that is reported current without all
  symbols of HEAD; also when both end, a symbol may be in two communities, and
  its `cluster_id` name one that it is not in. A file that a walk leaves out may
  leave rows without a symbol: an incremental run has written its nodes when a
  forced one clears the tables and does not index it, and goes on to write its
  terms and members. Embeddings that were dropped are not tried again until
  their file changes.
* Setup. A configuration with comments, as VS Code and Zed allow them, does not
  parse and is replaced as a whole, also by a command that runs alone, although
  mcp_writer.go:79 says "Never overwrites other mcpServers."; so is one that cannot
  be read, and the value under the key of the servers or hooks if it is not of the
  expected type (`Parsed` and `Merged` in `EditorSetup`); one that is the JSON `null` leaves a nil map, and the write to it
  panics. `appendMatchers` adds the same hooks on every run; `AGENTS.md` and
  `CLAUDE.md` are overwritten; the post-write hook calls `analyze` without its
  argument. A module skill is named by its label alone, the most common directory of its
  community, so that communities of one directory overwrite each other's file
  (README.md:189: "dynamic module skills per cluster"). Skill files of labels
  that no community has any more stay.

## 5. Proofs

The theorems hold for every value of the constants: any number of processes,
files, symbols, jobs, workers and commits, any history, fault sets and
capacities. `PROJECT.json` lists them with the property that each proves; all
invariants and action properties of the passing runs are among them, and
the two refinements; liveness is not (see "Only model-checked"). Each proof
has the same plan: an inductive invariant, which TLC checked on the
instance of the run before it was proved; a lemma per action or group of actions
which says that it is kept; and a theorem for each property that follows from it.
`PROJECT.json` does not list the lemmas.

### IndexPipelineProofs

The invariants are in `IndexPipelineInvariants`. That runs take turns
(`OneAtATime`) follows from the guard of `Start`, so no theorem assumes one
process; the properties themselves name the fault sets they are about.

* **TypeCorrect**.
* **DerivedRows**: `DerivedRowsHaveNodes` is not inductive, since a run writes
  rows about symbols that it holds in memory. `DerivedInv` adds that from the
  upsert on everything a process has still to write about is in `nodes`; it
  is preserved because a process deletes only before it upserts.
* **Completeness** (`IndexComplete`): `CompleteInv` adds, for a running process,
  that its target lies between `last_commit` and HEAD, that what it deletes
  belongs to changed files, and that a file which is the same at its target and
  at HEAD has been read, is still to be read, or did not need to be.
* **CurrentIsAnalyzed** (`AnalysisCurrent`): `AnalyzedInv` adds that a run aims at a
  commit newer than the recorded one, so that its own table is never
  reported current before it records, and that each symbol is in a community or
  in what the run has still to write. The invariant, as the property, is about
  environments in which no statement fails unnoticed; everything else may fail.
* **Refinement** (`ImplementsSnapshot`): `ExactInv` says, file by file, that the table
  is that of `last_commit` before the patch, is half-way within it, and is that of
  HEAD after the upsert. With it every step is a step of `HeadSnapshot` or a stutter:
  `MoveHead` is `Move`, a clear `Invalidate`, `RecordCommit` `Publish`.
* **StoredCallsAreCalls** (`EdgesJustified`).
* **OverlapIsSettled** (`OverlapSettles`): runs that overlap share HEAD, which moves
  between them only, so that all read the same texts and record the same
  commit. `SettleInv` has three parts. `NothingForgotten`: a file whose rows or terms
  are missing is the business of some run that will read it or write its terms,
  and while nothing is recorded some run will record HEAD. `NobodyAlone`: a symbol
  that is in no community is one that some run will put into one, since who writes
  rows clusters later, and who clears the communities reads all symbols after it.
  `NothingStale`: rows of other texts than HEAD's are in files that each run past
  its plan has still to delete. When the last run ends, nobody is left with
  anything to do, and the three say that nothing is missing and nothing too much.
  `NobodyAlone` takes that no statement fails unnoticed. `NothingForgotten` does
  not, but needs `TextsStayGone` then: a run whose `SetMeta` fails leaves an
  older `last_commit` over rows that it has deleted, and the next run of a text that
  came back would be told that nothing has changed. The theorem has `NoRevert` for
  these environments only.

`Completeness` and the two theorems below that use it assume `NoRevert`: no text
of a file comes back later in the history. The instances of the runs satisfy
it, and it cannot be dropped. A run aims at commit 2, HEAD moves to 3 and the
run parses the text of 3, then records 2; if commit 4 has the text of 2 again,
git calls the file unchanged between 2 and 4, no run reads it, and the rows stay
those of 3. TLC finds this behaviour in an instance of four commits.

### ToolCallsProofs

* **CallTypes**: what a call holds has its type (`CallTypeOK`, which is proved and in
  no run). The proof needs that what is left of a plan is a suffix of it, by the
  lemmas on `Rests`.
* **Unreported** (`UnreportedIsIndexed`): `CallInv` has that what `detect_changes`
  read of `last_commit` is what it compares with HEAD; the rest is `CompleteInv`.
* **SteadyAnswers** (`SteadyAnswersExact`): while the index is reported current for one
  HEAD no run writes to the tables (`Quiet`), so what a call has read is what it
  would read now (`ReadsNow`, tool by tool), and `CompleteInv`, `DerivedInv` and
  `AnalyzedInv` say that this is right.

### RegistryProofs

`RegistryInv` has the types; that processes take turns and hold what is in
the file (`TurnsInv`); that what `Register` puts is the first of its name and of
its path (`FindsInv`, from a lemma on the first index of a sequence that satisfies a
condition); that the registry has no doubles, is named by basenames and lists
every database (`GoodInv`); and that overlapping re-analyses read and write the
same registry (`SameInv`). From it follow **NothingTwice**, **EveryIndexIsListed**,
**HooksKeepRegistry** and **IndexIsFound**.

**RegistryIsAMap** (`ImplementsMap`): the map is that of the entries of the file
(`Entries`; each entry has its place in it because there are no doubles), and
between truncation and write that of the copy that the only writer holds
(`Promised`). `SavingInv` says that what a command is about to save differs from
the file by the entry of its own repository. `Truncate` is then `Enter` or
`Remove`, `Write` a stutter, since it puts into the file what was promised
already, a `Crash` of the writer `Lose`, and every other step a stutter. With
overlapping commands or `--name` the abstract step is `Unordered`, so that
nothing is claimed there.

### EmbedWorkerProofs

`WorkerInv` says how far the worker is with its batch (`StageInv`), that the
answer belongs to the uncached jobs position by position (`VectorInv`), how the
two goroutines wait for each other (`EndInv`), and that every job is somewhere
(`KeptInv`). **WorkerTypes**, **NoVectorIsMixedUp**, **LossesAreAccounted** and
**NothingWrittenAfterClose** follow.

### ResolverProofs

`PoolInv` has each file in one place at a time, and there once; `StagesInv` that no
stage ends before the one it takes its files from. From them: **NoSendAfterClose**
and **FilesArriveOnce**. `ResolveInv` carries this through both passes: the table is
complete before the first lookup, and each reference of a file is still to be
looked up, or gave no edge, or its edge is in the channel or collected. From it:
**ResolverTypes**, **EdgesHaveReasons** and **NoCallIsMissed**.

The walk of `Extraction` is a recursive function over the nodes of a tree in
which a parent comes before its children (`IsTree`, an assumption on `Sources`).
What it computes is not characterised in closed form; the lemmas about it say that
the function exists and that each of its values follows from that of the parent,
which is what typing the symbols and references takes. The arms of the CASEs in
`Meanings` and `Outcomes` exclude each other, so that the code's first match is
the only one and the proofs do not depend on the order in which TLC tries arms.

### CommandProofs

`AloneInv` (a command that runs alone finds the PID file as it has left it) and
`OneDaemonInv` (the daemon that is up is that of the PID file or the one the
command has in hand) give **NoDaemonIsLeft**, where starts do not fail. With starts
that fail there may be more than one daemon, but a PID in the file is that of one
that is up as long as no server dies or fails to load (`UpInv`); with it and
`StartsInv` (starts that overlap: an empty PID file is about to be written) follows
**StartMeansUp**.

In `EditorSetup` what a command holds is related to the file as it read
it: it lists mimir (`HeldMimir`), and it has every entry of others that is wanted
and is not `exposed` (`HeldEntries`), because nobody else is active and the
file is empty just between a truncation and a write (`InTurn`). When the command
writes, the file takes this over; when the write fails or the command dies, what
was wanted of the file becomes exposed, and the file is no longer among those
reported since its truncation. Hence **OnlyExposedEntriesAreLost** and
**ReportedListsMimir**.

### CommunitiesProofs

**EveryonePlaced** has two halves. While analyses do not overlap, a symbol that
has been put into a community is in none of those still to come (`OneCommunityInv`).
When they do, there is always one, the last that cleared the tables, which places
every symbol or has died (`CoverInv`). Both are about commands none of whose
statements fails unnoticed; that `cluster_id` names a community of its symbol
(`ClusterIdInv`) does not depend on it, since it is set after the member row and
cleared by the one statement of the transaction whose error is looked at.
**SkillsAreOfNow** and **WikiIsExact** follow
from `AloneInv` (a command that no other overlaps has in hand what the tables hold)
and `PagesInv` (a page that a wiki has treated is there).

### GraphAnalysisProofs

* **GraphTypes**, **LouvainEnds** (`LevelsShrink`): `LevelInv` has that a level
  starts with every node alone, and that after a first move some community is
  empty, which stays so because moves lead to communities with members. `Remap`
  numbers the communities in the order of their first members, without gaps
  (`RemapNumbers`), so that an empty one makes fewer numbers.
* **ClustersAreConnected** (`WithinComponent`): `SidesInv` says of every set of
  symbols that no call leaves that no node stands for symbols of both sides, no
  link leads across and no community is of both; a sum over links that are all
  zero is zero when `phase2` adds them up.
* **EarlyMovesOptimize** (`EarlyLevelsOptimize`) rests on `ScaleInv`: the graph of
  the first two levels is that of the store between the sets of symbols that
  its nodes stand for, every weight multiplied by the number of the level
  (`ContractScales`: `phase2` doubles what is between different nodes, the degrees
  and the total; only the self-loops are not, which is why the third level is
  different). Both terms of the modularity are sums over the pairs of symbols
  that share a community (`TermsAre`); a move changes them by the pairs of the symbols
  that move with the rest of either community (`SumOfMove`), and that is the gain
  that `phase1` compares, times a square (`GainsAgree`). The community that is left
  need not be among those compared; it is worth no more than the best even then
  (`ChosenIsBetter`).
* **TracesAreNearest** (`TracesNearest`): `BreadthFirst` has that the depths of the
  steps do not decrease, that those in the queue are at most one deeper than its
  head, that nobody is nearer than calls lead to, and that what a treated symbol
  calls has a step no deeper than one below it. When the queue is empty this
  makes every symbol within the bound a step, by induction over the depth.
* **ImpactAgrees** (`ImpactMatchesTrace`): both `Within`, which the tracing computes,
  and the rows of `Impact` are characterised by walks along calls
  (`WithinIsWalks`, `RowsAreWalks`). The rows of either direction grow at the far
  end of the walk, which is its end in one and its start in the other (`LeadsOn`).

Induction over numbers is done by hand where it is needed: a set of numbers has a
least one (`LeastNumber`), so that one which contains 0 and the successor of
each of its members is all of `Nat` (`NumbersFromZero`). That a recursive
function exists is proved the same way (`Recursion`), and with it that the sums of
`Louvain` are numbers. What sums over unions, pairs and products are is proved by
an induction over the parts of a finite set, each of which is a set of sets
(`PartsFromEmpty`), not an operator.

### Assumptions

Those on the constants, each named in the module that declares them. They say
what the constants are; the ones with content are that `Version`, `Text`, `Pid`
and so on do not contain the value that stands for "none", that the sets of files,
commands, workers and edges are finite, that a partition covers the symbols with
disjoint, non-empty members, that a parsed text is a tree, that a confidence is a
number, that the resolver makes no edge of an import (resolver.go:66-80), and that the
torn registry file is neither a sequence of entries nor a map.

### Only model-checked

* Liveness, which is beyond this prover: `Converges`, `AnalyzeEnds`, `AllReturns`,
  `StoppedDaemonEnds`.

## 6. Plan

Written so far, in this order: `HeadSnapshot` and `IndexPipeline` (the core), its
first proofs, `EmbedWorker`, `ParserPool`, `Registry`, `Daemon`, `Louvain`,
`ProcessTracer`, `EditorSetup`; then overlapping runs and skipped files in
`IndexPipeline`, `ToolCalls` over it, `Extraction`, `Resolver` over the pool, and
`Communities`; then the proofs of section 5, and `RepositoryMap`, which `Registry`
refines.

Extending the model, where it is worth it: rank fusion of `HybridSearch` against
a reference definition, should `VectorSearch` get a caller.

## 7. What the checks do not show

TLC's results are about the instances above. The models assume that SQLite
transactions are atomic and that the operating system does what its calls
promise. The theorems are about the models; that these are faithful rests
on the comparison with the mapped lines.

Coarser than the code, on purpose:

* a delete of a transaction that fails unnoticed keeps all rows of its table, or
  loses them all; the code's deletes are one statement per table and file, so
  that this is what can happen (`DeletesPartly`, `ClearsPartly`);
* a run whose second `GetMeta` fails plans paths relative to the root, and if it
  was started there it also adds rows for these paths; they are left out
  (`PlanPartly`);
* a `Save` of the registry that fails ends its command, as a death does
  (`Crash` in `Registry`), and leaves the same file.

## 8. Not modelled

* tree-sitter's grammars, and where in a file a symbol is;
* tokenising and scores of BM25, the text of Cypher queries, filters and limits
  of answers: pure functions of text;
* the rules of `.gitignore` and suffixes themselves (their effect is `Skipped`);
* `WalkRepo`, `WatchAndRestart` and `VectorSearch`, which the program does not call;
* prompts, the schema resource, the list of resources, the static skills, the wording
  of files that are generated, the page of the bridge, status and list output:
  texts that the program does not read back;
* HTTP to embedding providers, logging, packaging and the web site.
