------------------------------ MODULE ToolCalls ------------------------------
(***************************************************************************)
(* The calls that read an index while analyze processes write it: the      *)
(* tools of the MCP server (mcp/tools.go), its resources (mcp/resources.go)*)
(* and the handlers of the HTTP bridge (api/http.go), over the queries of  *)
(* internal/store/query.go.                                                *)
(*                                                                         *)
(* Every SQL statement is a read transaction of its own, so that HEAD, the *)
(* worktree and the tables may change between two statements of one call.  *)
(* A server treats its calls one after the other, and calls write nothing: *)
(* one call at a time is enough.                                           *)
(***************************************************************************)
EXTENDS IndexPipeline, Sequences

CONSTANT Limit  \* the limit of a search

ASSUME LimitAssumption == Limit \in Nat
ASSUME RepositoryIsFinite == IsFiniteSet(File) /\ IsFiniteSet(Symbol)

VARIABLES
  call,   \* the call under way, or the last one and its answer
  steady  \* the index has been reported current for one HEAD since the call began

callVars == <<vars, call, steady>>

\* The statements of each tool, in order.
query == <<"terms", "hydrate">>
context == <<"symbol", "from", "to">>
findReferencing == <<"symbol", "to", "callers">>
impact == <<"symbol", "impact">>
symbolCoordinates == <<"symbols">>
rename == <<"symbols">>  \* a plan; nothing is written, dry run or not
findSymbolBody == <<"symbols", "bodies">>
getSymbolsOverview == <<"file">>
detectChanges == <<"last_commit", "diff">>
cypher == <<"match">>

\* The handler /graph, whose reads are also those of the resource `context`;
\* and the resource and handler for processes.
handleGraph == <<"nodes", "edges">>
readProcesses == <<"entries", "steps">>

Statements ==
  [ query |-> query, context |-> context, find_referencing |-> findReferencing,
    impact |-> impact, symbol_coordinates |-> symbolCoordinates, rename |-> rename,
    find_symbol_body |-> findSymbolBody, get_symbols_overview |-> getSymbolsOverview,
    detect_changes |-> detectChanges, cypher |-> cypher,
    graph |-> handleGraph, processes |-> readProcesses ]

Tool == DOMAIN Statements

\* What a call is about.
About(tool) ==
  CASE tool = "get_symbols_overview" -> File
    [] tool \in {"detect_changes", "cypher", "graph", "processes"} -> {Absent}
    [] OTHER -> Symbol

\* A call: the statements to come, and what it has read so far.
NewCall(tool, x) ==
  [ tool |-> tool, about |-> x, plan |-> Statements[tool],
    rows    |-> {},        \* rows of `nodes`, as pairs of a uid and a version
    links   |-> {},        \* rows of `edges`
    refs    |-> {},        \* rows of `nodes` found through an edge
    left    |-> {},        \* uids to fetch, one statement each
    bodies  |-> {},        \* pairs of a row and the text it was cut out of
    flows   |-> {},        \* pairs of an entry point and its steps
    since   |-> NoCommit,  \* last_commit
    changed |-> {},        \* files
    failed  |-> FALSE ]    \* the answer is an error

Doing(statement) == call.plan # <<>> /\ Head(call.plan) = statement
Asked == call.tool # "none" /\ call.plan = Statements[call.tool]
Answered == call.tool # "none" /\ call.plan = <<>>

\* The server waits for a request.
NoCall == [NewCall("graph", Absent) EXCEPT !.tool = "none", !.plan = <<>>]
-----------------------------------------------------------------------------
CallInit ==
  /\ Init
  /\ call = NoCall
  /\ steady = FALSE

Ask(tool, x) ==
  /\ call = NoCall
  /\ call' = NewCall(tool, x)
  /\ steady' = (last = head)
  /\ UNCHANGED vars

\* The answer has been written.
Sent ==
  /\ Answered
  /\ call' = NoCall
  /\ steady' = FALSE
  /\ UNCHANGED vars

\* The call goes on with what it read, its statement done.
Then(read) ==
  /\ call' = [read EXCEPT !.plan = Tail(@)]
  /\ UNCHANGED <<vars, steady>>

\* The answer is what was read so far.
Reply(read) ==
  /\ call' = [read EXCEPT !.plan = <<>>]
  /\ UNCHANGED <<vars, steady>>

RowsOf(uids) == { <<u, nodes[u[1]][u[2]]>> : u \in uids \cap Present }
Named(name) == { u \in Present : u[2] = name }
InFile(f) == { u \in Present : u[1] = f }

\* bm25Search: the best 2 * Limit symbols that have a term of the query;
\* HybridSearch keeps Limit of them, and without a vector for the query their
\* order is that of the terms.  Which ones are the best is left open.
Atmost(n, S) ==
  { T \in SUBSET S : Cardinality(T) = IF Cardinality(S) <= n THEN Cardinality(S) ELSE n }

SearchTerms ==
  /\ Doing("terms")
  /\ \E hits \in Atmost(2 * Limit, { u \in bm25 : u[2] = call.about }) :
       \E best \in Atmost(Limit, hits) : Then([call EXCEPT !.left = best])

\* hydrateNodes: the hits that have a row by now.
HydrateNodes ==
  /\ Doing("hydrate")
  /\ Then([call EXCEPT !.rows = RowsOf(call.left), !.left = {}])

\* QuerySymbol, for the tools that look at one symbol: the first of the rows
\* with that name, in no stated order.
FirstOfName ==
  /\ Doing("symbol")
  /\ \E row \in RowsOf(Named(call.about)) : Then([call EXCEPT !.rows = {row}])

NotFound ==
  /\ Doing("symbol")
  /\ Named(call.about) = {}
  /\ Reply(call)

\* QuerySymbol, for those that look at all of them.
AllOfName ==
  /\ Doing("symbols")
  /\ Then([call EXCEPT !.rows = RowsOf(Named(call.about)), !.left = Named(call.about)])

\* readLines cuts the lines of the next row out of the file as it is now.
ReadBody ==
  /\ Doing("bodies")
  /\ \E row \in call.rows :
       /\ row[1] \in call.left
       /\ call' = [call EXCEPT !.bodies = @ \cup {<<row, work[row[1][1]]>>},
                               !.left = @ \ {row[1]}]
  /\ UNCHANGED <<vars, steady>>

\* The symbols whose rows were read first.
Subject == { row[1] : row \in call.rows }

EdgesFrom(uids) == { e \in edges : e[1] \in uids }

\* Mutant: both queries name the same column.
SameColumn(uids) == EdgesFrom(uids)

EdgesTo(uids) == { e \in edges : e[2] \in uids }

QueryEdgesFrom ==
  /\ Doing("from")
  /\ Then([call EXCEPT !.links = EdgesFrom(Subject)])

QueryEdgesTo ==
  /\ Doing("to")
  /\ LET found == EdgesTo(Subject)
     IN  Then([call EXCEPT !.links = @ \cup found, !.left = { e[1] : e \in found }])

\* A caller whose row is gone by now is left out.
QueryNodeByUID(u) ==
  /\ Doing("callers")
  /\ u \in call.left
  /\ call' = [call EXCEPT !.refs = @ \cup RowsOf({u}), !.left = @ \ {u}]
  /\ UNCHANGED <<vars, steady>>

\* QueryImpact, one recursive statement: the default direction follows calls
\* from the caller to the callee.  Module ProcessTracer has the query itself.
ImpactDepth == 5
Downstream(uids) == UNION { Reach(e[2], ImpactDepth - 1) : e \in EdgesFrom(uids) }
QueryImpact ==
  /\ Doing("impact")
  /\ Then([call EXCEPT !.refs = RowsOf(Downstream(Subject))])

\* Symbols stand for functions and types here; methods are left out.
QueryTopLevelByFile ==
  /\ Doing("file")
  /\ Then([call EXCEPT !.rows = RowsOf(InFile(call.about))])

GetLastCommit ==
  /\ Doing("last_commit")
  /\ Then([call EXCEPT !.since = last])

\* GetChangedFiles against HEAD as it is now; without a commit to start from
\* every file of the tree is new.
GetChangedFiles ==
  /\ Doing("diff")
  /\ Then([call EXCEPT !.changed =
       IF call.since = NoCommit THEN { f \in File : Tree[head][f] # Absent }
       ELSE Changed(call.since, head)])

\* Changes whose blobs cannot be read are left out, without an error.
MissesChanges ==
  /\ "dropped" \in faults
  /\ Doing("diff") /\ call.since # NoCommit
  /\ \E seen \in SUBSET Changed(call.since, head) : Then([call EXCEPT !.changed = seen])

\* An edge pattern of Cypher joins the edges with both of their rows; its
\* conditions, columns and limit are left out.
MatchEdges ==
  /\ Doing("match")
  /\ Then([call EXCEPT !.links = edges \cap (Present \X Present)])

ReadNodes ==
  /\ Doing("nodes")
  /\ Then([call EXCEPT !.rows = RowsOf(Uid)])

ReadEdges ==
  /\ Doing("edges")
  /\ Then([call EXCEPT !.links = edges])

\* AllProcesses: the table processes, then the steps of each of its rows.
ReadProcesses ==
  /\ Doing("entries")
  /\ Then([call EXCEPT !.left = { u \in Uid : procs[u] # {} }])

ReadSteps(u) ==
  /\ Doing("steps")
  /\ u \in call.left
  /\ call' = [call EXCEPT !.flows = @ \cup {<<u, procs[u]>>}, !.left = @ \ {u}]
  /\ UNCHANGED <<vars, steady>>

\* The loops over rows end.
LoopEnds ==
  /\ Doing("bodies") \/ Doing("callers") \/ Doing("steps")
  /\ call.left = {}
  /\ Reply(call)

\* A statement fails because a process is writing.  `context` ignores the error
\* of its edge queries, detect_changes that of GetMeta, as if no commit were
\* recorded, and find_referencing skips the caller.  The handler /impact answers
\* that it has no target (http.go:155-158), and get_symbols_overview, if it cannot
\* read the root of a relative path, finds nothing in it (tools.go:569-574).  Any
\* other call answers with an error.
Ignored ==
  Doing("last_commit") \/ (call.tool = "context" /\ (Doing("from") \/ Doing("to")))
StatementFails ==
  /\ "busy" \in faults /\ ~Idle /\ call.plan # <<>>
  /\ \/ Ignored /\ Then(call)
     \/ Doing("callers") /\ \E u \in call.left :
          call' = [call EXCEPT !.left = @ \ {u}] /\ UNCHANGED <<vars, steady>>
     \/ /\ Doing("file") \/ (call.tool = "impact" /\ Doing("symbol"))
        /\ Reply(call)
     \/ /\ ~Ignored /\ ~Doing("callers") /\ ~Doing("bodies") /\ ~Doing("diff")
        /\ Reply([call EXCEPT !.failed = TRUE])

\* go-git cannot diff last_commit against HEAD.
DiffFails ==
  /\ "diff_fails" \in faults /\ Doing("diff") /\ call.since # NoCommit
  /\ Reply([call EXCEPT !.failed = TRUE])

Read ==
  \/ SearchTerms \/ HydrateNodes \/ FirstOfName \/ NotFound \/ AllOfName \/ ReadBody
  \/ QueryEdgesFrom \/ QueryEdgesTo \/ QueryImpact \/ QueryTopLevelByFile
  \/ GetLastCommit \/ GetChangedFiles \/ MissesChanges \/ MatchEdges
  \/ ReadNodes \/ ReadEdges \/ ReadProcesses
  \/ \E u \in Uid : QueryNodeByUID(u) \/ ReadSteps(u)
  \/ LoopEnds \/ StatementFails \/ DiffFails

\* The index, HEAD or the worktree changes under the call.  What happens before
\* its first statement might as well have happened before the request, and
\* what happens after its last one changes no answer.
Meanwhile ==
  /\ ~Asked /\ ~Answered
  /\ Next
  /\ steady' = (steady /\ last' = head' /\ head' = head)
  /\ UNCHANGED call

CallNext ==
  \/ \E tool \in Tool : \E x \in About(tool) : Ask(tool, x)
  \/ Read \/ Sent
  \/ Meanwhile

CallSpec == CallInit /\ [][CallNext]_callVars
-----------------------------------------------------------------------------
(* Properties.                                                             *)

\* What may be left of a plan.
Rests(plan) == { SubSeq(plan, i, Len(plan)) : i \in 1..Len(plan) + 1 }
Plans == UNION { Rests(Statements[tool]) : tool \in Tool }

CallRecord ==
  [ tool : Tool \cup {"none"}, about : Symbol \cup File \cup {Absent},
    plan : Plans, rows : SUBSET (Uid \X Version),
    links : SUBSET (Uid \X Uid), refs : SUBSET (Uid \X Version), left : SUBSET Uid,
    bodies : SUBSET ((Uid \X Version) \X (Version \cup {Absent})),
    flows : SUBSET (Uid \X SUBSET Uid), since : Commit \cup {NoCommit},
    changed : SUBSET File, failed : BOOLEAN ]

\* The variables hold what their declarations say; a call is about what its tool
\* is about, has some of its statements left, and its bodies are of rows it found.
CallTypeOK ==
  /\ TypeOK
  /\ call \in CallRecord
  /\ call.tool # "none" => call.about \in About(call.tool)
  /\ call.plan # <<>> => call.tool \in Tool /\ call.plan \in Rests(Statements[call.tool])
  /\ \A body \in call.bodies : body[1] \in call.rows
  /\ steady \in BOOLEAN

\* The rows that any index of HEAD has for the uids: not those of files that a
\* walk leaves out.
HeadRows(uids) ==
  { <<u, Tree[head][u[1]]>> :
      u \in { v \in uids : v[1] \notin Skipped /\ v[2] \in DefsOf(Tree[head][v[1]]) } }
HeadRowsNamed(name) == HeadRows({ u \in Uid : u[2] = name })

\* A call during which the index was reported current for one HEAD, whatever
\* runs began or ended meanwhile, is answered from the texts at HEAD and is
\* not torn: every definition is found, its body is its own, the edges and
\* flows are those of one graph, and no change is reported (tools.go:149-745,
\* http.go:111-224, resources.go:83-106).  Nothing is promised where
\* statements may fail, since `context` hides that.
SteadyAnswersExact ==
  (Answered /\ ~call.failed /\ steady /\ Forward /\ faults \cap {"busy", "discarded"} = {}) =>
    CASE call.tool \in {"symbol_coordinates", "rename"} -> HeadRowsNamed(call.about) \subseteq call.rows
      [] call.tool = "find_symbol_body" ->
           { <<row, row[2]>> : row \in HeadRowsNamed(call.about) } \subseteq call.bodies
      [] call.tool = "get_symbols_overview" ->
           HeadRows({call.about} \X Symbol) \subseteq call.rows
      [] call.tool = "query" ->
           HeadRowsNamed(call.about) \subseteq call.rows \/ Cardinality(call.rows) = Limit
      [] call.tool = "detect_changes" -> call.changed = {}
      [] call.tool = "cypher" -> call.links = edges
      [] call.tool = "context" -> call.links = { e \in edges : {e[1], e[2]} \cap Subject # {} }
      [] call.tool = "find_referencing" ->
           \A u \in Uid : (\E s \in Subject : <<u, s>> \in edges) <=> (\E row \in call.refs : row[1] = u)
      [] call.tool = "impact" ->
           { row[1] : row \in call.refs } \ Subject = (UNION { Reach(u, ImpactDepth) : u \in Subject }) \ Subject
      [] call.tool = "graph" ->
           \A e \in call.links : {e[1], e[2]} \subseteq Subject
      [] call.tool = "processes" -> \A u \in EntryPoints : <<u, Reach(u, MaxDepth)>> \in call.flows

\* What detect_changes does not report is indexed: unless a run has recorded a
\* commit or cleared the index since it read last_commit, every file that it
\* leaves out, and a walk does not, has its symbols in the index, from the text
\* at HEAD; also while a run is under way, and after runs that died
\* (tools.go:312-313).
UnreportedIsIndexed ==
  (Answered /\ call.tool = "detect_changes" /\ ~call.failed /\ Forward /\ last = call.since) =>
    \A f \in File \ (Skipped \cup call.changed) : RowsThere(f) /\ TermsThere(f)

=============================================================================
