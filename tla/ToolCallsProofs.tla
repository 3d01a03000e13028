---------------------------- MODULE ToolCallsProofs ----------------------------
(***************************************************************************)
(* Proofs about module ToolCalls: what a call has read, statement by       *)
(* statement, while runs begin and end under it.                           *)
(***************************************************************************)
EXTENDS ToolCalls, IndexPipelineProofs, SequenceTheorems, FiniteSetTheorems,
        WellFoundedInduction

\* The statements that a call of each tool may have left.
StageOf(tool, plan) ==
  \/ plan = <<>>
  \/ tool = "query" /\ plan \in {query, <<"hydrate">>}
  \/ tool = "context" /\ plan \in {context, <<"from", "to">>, <<"to">>}
  \/ /\ tool = "find_referencing"
     /\ plan \in {findReferencing, <<"to", "callers">>, <<"callers">>}
  \/ tool = "impact" /\ plan \in {impact, <<"impact">>}
  \/ tool = "symbol_coordinates" /\ plan = symbolCoordinates
  \/ tool = "rename" /\ plan = rename
  \/ tool = "find_symbol_body" /\ plan \in {findSymbolBody, <<"bodies">>}
  \/ tool = "get_symbols_overview" /\ plan = getSymbolsOverview
  \/ tool = "detect_changes" /\ plan \in {detectChanges, <<"diff">>}
  \/ tool = "cypher" /\ plan = cypher
  \/ tool = "graph" /\ plan \in {handleGraph, <<"edges">>}
  \/ tool = "processes" /\ plan \in {readProcesses, <<"steps">>}
Stage == StageOf(call.tool, call.plan)

\* A call that has not begun has read nothing; bodies are read by one tool.
Fresh ==
  /\ Asked => /\ {} = call.rows \cup call.refs /\ {} = call.links /\ {} = call.left
              /\ {} = call.bodies /\ {} = call.flows
  /\ call.bodies # {} => call.tool = "find_symbol_body" /\ call.plan \in {<<"bodies">>, <<>>}

\* The hits a search may return, and the callers of the symbol.
BestHits(best) ==
  \E hits \in Atmost(2 * Limit, { u \in bm25 : u[2] = call.about }) : best \in Atmost(Limit, hits)
Callers == { u \in Uid : \E s \in Subject : <<u, s>> \in edges }
Found(rows) == { row[1] : row \in rows }

\* The index rests under the call, and no statement fails.
Quiet == steady /\ Forward /\ faults \cap {"busy", "discarded"} = {} /\ ~call.failed

\* What a call has read so far is what its statements would read now.
ReadsNow ==
  /\ call.tool = "query" =>
       /\ call.plan = <<"hydrate">> => BestHits(call.left)
       /\ call.plan = <<>> => \E best \in SUBSET Uid : BestHits(best) /\ call.rows = RowsOf(best)
  /\ call.tool = "context" =>
       /\ call.plan = <<"from", "to">> => call.links = {}
       /\ call.plan = <<"to">> => call.links = EdgesFrom(Subject)
       /\ call.plan = <<>> => call.links = EdgesFrom(Subject) \cup EdgesTo(Subject)
  /\ call.tool = "find_referencing" =>
       /\ call.plan = <<"to", "callers">> => call.links = {} /\ call.refs = {}
       /\ call.plan = <<"callers">> => Callers = call.left \cup Found(call.refs)
       /\ call.plan = <<>> => Callers = Found(call.refs)
  /\ call.tool = "impact" /\ call.plan = <<>> => call.refs = RowsOf(Downstream(Subject))
  /\ call.tool \in {"symbol_coordinates", "rename"} /\ call.plan = <<>> =>
       call.rows = RowsOf(Named(call.about))
  /\ call.tool = "find_symbol_body" /\ call.plan \in {<<"bodies">>, <<>>} =>
       /\ call.rows = RowsOf(Named(call.about))
       /\ \A row \in call.rows : row[1] \in call.left \/ <<row, work[row[1][1]]>> \in call.bodies
       /\ call.plan = <<>> => call.left = {}
  /\ call.tool = "get_symbols_overview" /\ call.plan = <<>> => call.rows = RowsOf(InFile(call.about))
  /\ call.tool = "detect_changes" =>
       /\ call.plan = <<"diff">> => call.since = last
       /\ call.plan = <<>> => call.changed = {}
  /\ call.tool = "cypher" /\ call.plan = <<>> => call.links = edges \cap (Present \X Present)
  /\ call.tool = "graph" =>
       /\ call.plan = <<"edges">> => call.rows = RowsOf(Uid)
       /\ call.plan = <<>> => call.rows = RowsOf(Uid) /\ call.links = edges
  /\ call.tool = "processes" /\ call.plan \in {<<"steps">>, <<>>} =>
       /\ \A u \in Uid : procs[u] # {} => u \in call.left \/ <<u, procs[u]>> \in call.flows
       /\ call.plan = <<>> => call.left = {}

\* detect_changes reports the files that differ between the commit it read and
\* HEAD, which rests once it has answered, if none of them is passed over.
Reported ==
  ("dropped" \notin faults /\ Answered /\ call.tool = "detect_changes" /\ ~call.failed) =>
    call.changed = IF call.since = NoCommit THEN { f \in File : Tree[head][f] # Absent }
                   ELSE Changed(call.since, head)

CallInv ==
  /\ Stage /\ Fresh /\ Reported
  /\ steady => last = head
  /\ Quiet => ReadsNow
-----------------------------------------------------------------------------
\* What is left of a plan of one, two or three statements.
LEMMA RestsOfOne ==
  ASSUME NEW a PROVE Rests(<<a>>) = {<<a>>, <<>>}
<1> DEFINE s == <<a>>
<1>1. s \in Seq({a}) /\ Len(s) = 1
  OBVIOUS
<1> HIDE DEF s
<1>2. SubSeq(s, 1, 1) = s /\ SubSeq(s, 2, 1) = <<>>
  <2>1. s = SubSeq(s, 1, Len(s))
    BY <1>1, SubSeqFull
  <2>2. SubSeq(s, 2, 1) = <<>>
    BY SubSeqEmpty
  <2>3. QED
    BY <1>1, <2>1, <2>2
<1>3. Rests(s) = {SubSeq(s, 1, 1), SubSeq(s, 2, 1)}
  BY <1>1 DEF Rests
<1>4. QED
  BY <1>2, <1>3 DEF s

LEMMA RestsOfTwo ==
  ASSUME NEW a, NEW b PROVE Rests(<<a, b>>) = {<<a, b>>, <<b>>, <<>>}
<1> DEFINE s == <<a, b>>
<1>1. s \in Seq({a, b}) /\ Len(s) = 2 /\ s # <<>> /\ Tail(s) = <<b>>
  OBVIOUS
<1> HIDE DEF s
<1>2. SubSeq(s, 1, 2) = s /\ SubSeq(s, 2, 2) = <<b>> /\ SubSeq(s, 3, 2) = <<>>
  <2>1. s = SubSeq(s, 1, Len(s))
    BY <1>1, SubSeqFull
  <2>2. Tail(s) = SubSeq(s, 2, Len(s))
    BY <1>1, TailIsSubSeq
  <2>3. SubSeq(s, 3, 2) = <<>>
    BY SubSeqEmpty
  <2>4. QED
    BY <1>1, <2>1, <2>2, <2>3
<1>3. Rests(s) = {SubSeq(s, 1, 2), SubSeq(s, 2, 2), SubSeq(s, 3, 2)}
  BY <1>1 DEF Rests
<1>4. QED
  BY <1>2, <1>3 DEF s

LEMMA RestsOfThree ==
  ASSUME NEW a, NEW b, NEW c PROVE Rests(<<a, b, c>>) = {<<a, b, c>>, <<b, c>>, <<c>>, <<>>}
<1> DEFINE s == <<a, b, c>>
<1>1. s \in Seq({a, b, c}) /\ Len(s) = 3 /\ s # <<>> /\ Tail(s) = <<b, c>> /\ Tail(<<b, c>>) = <<c>>
  OBVIOUS
<1> HIDE DEF s
<1>2. SubSeq(s, 1, 3) = s /\ SubSeq(s, 2, 3) = <<b, c>> /\ SubSeq(s, 4, 3) = <<>>
  <2>1. s = SubSeq(s, 1, Len(s))
    BY <1>1, SubSeqFull
  <2>2. Tail(s) = SubSeq(s, 2, Len(s))
    BY <1>1, TailIsSubSeq
  <2>3. SubSeq(s, 4, 3) = <<>>
    BY SubSeqEmpty
  <2>4. QED
    BY <1>1, <2>1, <2>2, <2>3
<1>3. SubSeq(s, 3, 3) = <<c>>
  <2>1. 2 \in 1..Len(s) /\ 3 \in 2..Len(s)
    BY <1>1
  <2>2. Tail(SubSeq(s, 2, 3)) = SubSeq(s, 2 + 1, 3)
    BY <1>1, <2>1, HeadTailOfSubSeq
  <2>3. 2 + 1 = 3
    OBVIOUS
  <2>4. Tail(SubSeq(s, 2, 3)) = SubSeq(s, 3, 3)
    BY <2>2, <2>3
  <2>5. QED
    BY <1>1, <1>2, <2>4, Zenon
<1>4. Rests(s) = {SubSeq(s, 1, 3), SubSeq(s, 2, 3), SubSeq(s, 3, 3), SubSeq(s, 4, 3)}
  BY <1>1 DEF Rests
<1>5. QED
  BY <1>2, <1>3, <1>4 DEF s

\* A call is at a stage of its tool.
LEMMA StageOfRests ==
  ASSUME NEW tool \in Tool, NEW plan
  PROVE  StageOf(tool, plan) <=> plan \in Rests(Statements[tool])
<1> USE DEF Statements, query, context, findReferencing, impact, symbolCoordinates, rename,
         findSymbolBody, getSymbolsOverview, detectChanges, cypher, handleGraph, readProcesses
<1>1. \A t \in {"symbol_coordinates", "rename", "get_symbols_overview", "cypher"} :
        Rests(Statements[t]) = {Statements[t], <<>>}
  BY RestsOfOne
<1>2. /\ Rests(Statements["query"]) = {query, <<"hydrate">>, <<>>}
      /\ Rests(Statements["impact"]) = {impact, <<"impact">>, <<>>}
      /\ Rests(Statements["find_symbol_body"]) = {findSymbolBody, <<"bodies">>, <<>>}
      /\ Rests(Statements["detect_changes"]) = {detectChanges, <<"diff">>, <<>>}
      /\ Rests(Statements["graph"]) = {handleGraph, <<"edges">>, <<>>}
      /\ Rests(Statements["processes"]) = {readProcesses, <<"steps">>, <<>>}
  BY RestsOfTwo
<1>3. /\ Rests(Statements["context"]) = {context, <<"from", "to">>, <<"to">>, <<>>}
      /\ Rests(Statements["find_referencing"]) =
           {findReferencing, <<"to", "callers">>, <<"callers">>, <<>>}
  BY RestsOfThree
<1>4. QED
  BY <1>1, <1>2, <1>3 DEF StageOf, Tool
\* What follows a stage is another one, and never the tool's whole plan.
LEMMA NextStage ==
  ASSUME NEW tool \in Tool, NEW plan, StageOf(tool, plan), plan # <<>>
  PROVE  StageOf(tool, Tail(plan)) /\ Tail(plan) # Statements[tool] /\ Tail(plan) \in Plans
<1> USE DEF Statements, query, context, findReferencing, impact, symbolCoordinates, rename,
         findSymbolBody, getSymbolsOverview, detectChanges, cypher, handleGraph, readProcesses
<1>1. \A t \in Tool : <<>> # Statements[t]
  BY DEF Tool
<1> DEFINE Follows(rest) == StageOf(tool, rest) /\ rest # Statements[tool]
<1>2. ASSUME NEW a, plan = <<a>> PROVE Follows(Tail(plan))
  <2>1. Tail(plan) = <<>>
    BY <1>2
  <2>2. QED
    BY <1>1, <2>1 DEF StageOf
<1>3. ASSUME NEW a, NEW b, plan = <<a, b>> PROVE Follows(Tail(plan))
  <2>1. Tail(plan) = <<b>>
    BY <1>3
  <2>2. Follows(<<b>>)
    BY <1>3 DEF StageOf, Tool
  <2>3. QED
    BY <2>1, <2>2
<1>4. ASSUME NEW a, NEW b, NEW c, plan = <<a, b, c>> PROVE Follows(Tail(plan))
  <2>1. Tail(plan) = <<b, c>>
    BY <1>4
  <2>2. Follows(<<b, c>>)
    BY <1>4 DEF StageOf, Tool
  <2>3. QED
    BY <2>1, <2>2
<1>5. (\E a : plan = <<a>>) \/ (\E a, b : plan = <<a, b>>) \/ (\E a, b, c : plan = <<a, b, c>>)
  BY DEF StageOf
<1>6. Follows(Tail(plan))
  BY <1>2, <1>3, <1>4, <1>5
<1>7. Tail(plan) \in Rests(Statements[tool])
  BY <1>6, StageOfRests
<1>8. QED
  BY <1>6, <1>7 DEF Plans

\* Which statement a call is at says which tool it is of, and what comes next.
LEMMA AtStatement ==
  ASSUME Stage
  PROVE  /\ Doing("terms") => /\ call.tool = "query" /\ call.plan = query
                              /\ Tail(call.plan) = <<"hydrate">>
         /\ Doing("hydrate") => call.tool = "query" /\ call.plan = <<"hydrate">> /\ Tail(call.plan) = <<>>
         /\ Doing("symbol") =>
              \/ call.tool = "context" /\ call.plan = context /\ Tail(call.plan) = <<"from", "to">>
              \/ /\ call.tool = "find_referencing" /\ call.plan = findReferencing
                 /\ Tail(call.plan) = <<"to", "callers">>
              \/ call.tool = "impact" /\ call.plan = impact /\ Tail(call.plan) = <<"impact">>
         /\ Doing("from") => call.tool = "context" /\ call.plan = <<"from", "to">> /\ Tail(call.plan) = <<"to">>
         /\ Doing("to") =>
              \/ call.tool = "context" /\ call.plan = <<"to">> /\ Tail(call.plan) = <<>>
              \/ /\ call.tool = "find_referencing" /\ call.plan = <<"to", "callers">>
                 /\ Tail(call.plan) = <<"callers">>
         /\ Doing("callers") => call.tool = "find_referencing" /\ call.plan = <<"callers">>
         /\ Doing("impact") => call.tool = "impact" /\ call.plan = <<"impact">> /\ Tail(call.plan) = <<>>
         /\ Doing("symbols") =>
              \/ /\ call.tool \in {"symbol_coordinates", "rename"} /\ Tail(call.plan) = <<>>
                 /\ call.plan = Statements[call.tool]
              \/ /\ call.tool = "find_symbol_body" /\ call.plan = findSymbolBody
                 /\ Tail(call.plan) = <<"bodies">>
         /\ Doing("bodies") => call.tool = "find_symbol_body" /\ call.plan = <<"bodies">>
         /\ Doing("file") => /\ call.tool = "get_symbols_overview" /\ call.plan = getSymbolsOverview
                             /\ Tail(call.plan) = <<>>
         /\ Doing("last_commit") => /\ call.tool = "detect_changes" /\ call.plan = detectChanges
                                    /\ Tail(call.plan) = <<"diff">>
         /\ Doing("diff") => call.tool = "detect_changes" /\ call.plan = <<"diff">> /\ Tail(call.plan) = <<>>
         /\ Doing("match") => call.tool = "cypher" /\ call.plan = cypher /\ Tail(call.plan) = <<>>
         /\ Doing("nodes") => call.tool = "graph" /\ call.plan = handleGraph /\ Tail(call.plan) = <<"edges">>
         /\ Doing("edges") => call.tool = "graph" /\ call.plan = <<"edges">> /\ Tail(call.plan) = <<>>
         /\ Doing("entries") => /\ call.tool = "processes" /\ call.plan = readProcesses
                                /\ Tail(call.plan) = <<"steps">>
         /\ Doing("steps") => call.tool = "processes" /\ call.plan = <<"steps">>
<1> DEFINE At(plan, statement, rest) ==
             call.plan = plan => /\ call.plan # <<>> /\ Head(call.plan) = statement
                                 /\ Tail(call.plan) = rest
<1>1. At(query, "terms", <<"hydrate">>)
  BY DEF query
<1>2. At(<<"hydrate">>, "hydrate", <<>>)
  OBVIOUS
<1>3. At(context, "symbol", <<"from", "to">>)
  BY DEF context
<1>4. At(<<"from", "to">>, "from", <<"to">>)
  OBVIOUS
<1>5. At(<<"to">>, "to", <<>>)
  OBVIOUS
<1>6. At(findReferencing, "symbol", <<"to", "callers">>)
  BY DEF findReferencing
<1>7. At(<<"to", "callers">>, "to", <<"callers">>)
  OBVIOUS
<1>8. At(<<"callers">>, "callers", <<>>)
  OBVIOUS
<1>9. At(impact, "symbol", <<"impact">>)
  BY DEF impact
<1>10. At(<<"impact">>, "impact", <<>>)
  OBVIOUS
<1>11. At(symbolCoordinates, "symbols", <<>>)
  BY DEF symbolCoordinates
<1>12. At(rename, "symbols", <<>>)
  BY DEF rename
<1>13. At(findSymbolBody, "symbols", <<"bodies">>)
  BY DEF findSymbolBody
<1>14. At(<<"bodies">>, "bodies", <<>>)
  OBVIOUS
<1>15. At(getSymbolsOverview, "file", <<>>)
  BY DEF getSymbolsOverview
<1>16. At(detectChanges, "last_commit", <<"diff">>)
  BY DEF detectChanges
<1>17. At(<<"diff">>, "diff", <<>>)
  OBVIOUS
<1>18. At(cypher, "match", <<>>)
  BY DEF cypher
<1>19. At(handleGraph, "nodes", <<"edges">>)
  BY DEF handleGraph
<1>20. At(<<"edges">>, "edges", <<>>)
  OBVIOUS
<1>21. At(readProcesses, "entries", <<"steps">>)
  BY DEF readProcesses
<1>22. At(<<"steps">>, "steps", <<>>)
  OBVIOUS
<1>23. Statements["symbol_coordinates"] = symbolCoordinates /\ Statements["rename"] = rename
  BY DEF Statements
<1>24. QED
  BY <1>1, <1>2, <1>3, <1>4, <1>5, <1>6, <1>7, <1>8, <1>9, <1>10, <1>11, <1>12, <1>13, <1>14, <1>15, <1>16, <1>17, <1>18, <1>19, <1>20, <1>21, <1>22, <1>23 DEF Stage, StageOf, Doing

\* Calls write nothing, and what happens to the index under a call is what
\* happens to it without one: the theorems of IndexPipelineProofs hold here.
LEMMA ReadsWriteNothing == Read => UNCHANGED <<vars, steady>>
BY DEF Read, Then, Reply, SearchTerms, HydrateNodes, FirstOfName, NotFound, AllOfName, ReadBody,
       QueryEdgesFrom, QueryEdgesTo, QueryImpact, QueryTopLevelByFile, GetLastCommit,
       GetChangedFiles, MissesChanges, MatchEdges, ReadNodes, ReadEdges, ReadProcesses, QueryNodeByUID, ReadSteps,
       LoopEnds, StatementFails, DiffFails

LEMMA CallsAreSteps == CallSpec => Spec
<1>1. CallInit => Init
  BY DEF CallInit
<1>2. [CallNext]_callVars => [Next]_vars
  BY ReadsWriteNothing DEF CallNext, callVars, Ask, Sent, Meanwhile
<1>3. QED
  BY <1>1, <1>2, PTL DEF CallSpec, Spec

-----------------------------------------------------------------------------
\* A statement leaves a call at a later stage, or goes on with its loop.
LEMMA ReadTyped ==
  ASSUME CallTypeOK, Stage, call.plan # <<>>,
         NEW read \in CallRecord, read.tool = call.tool, read.about = call.about,
         read.plan = call.plan,
         \A body \in read.bodies : body[1] \in read.rows,
         read.bodies # {} => call.plan = <<"bodies">>,
         UNCHANGED <<vars, steady>>,
         \/ Then(read)
         \/ Reply(read)
         \/ call' = read /\ call.plan \in {<<"bodies">>, <<"callers">>, <<"steps">>}
  PROVE  CallTypeOK' /\ Stage' /\ Fresh'
<1> DEFINE rest == call'.plan
<1>1. call.tool \in Tool /\ StageOf(call.tool, call.plan)
  BY DEF CallTypeOK, Stage
<1>2. StageOf(call.tool, <<>>) /\ <<>> # Statements[call.tool] /\ <<>> \in Plans
  <2>1. StageOf(call.tool, <<>>)
    BY DEF StageOf
  <2>2. <<>> \in Rests(Statements[call.tool])
    BY <1>1, <2>1, StageOfRests
  <2>3. <<>> # Statements[call.tool]
    BY <1>1 DEF Tool, Statements, query, context, findReferencing, impact, symbolCoordinates, rename,
         findSymbolBody, getSymbolsOverview, detectChanges, cypher, handleGraph, readProcesses
  <2>4. QED
    BY <1>1, <2>1, <2>2, <2>3 DEF Plans
<1>3. /\ StageOf(call.tool, Tail(call.plan)) /\ Tail(call.plan) # Statements[call.tool]
      /\ Tail(call.plan) \in Plans
  BY <1>1, NextStage
<1>4. call.plan \in {<<"bodies">>, <<"callers">>, <<"steps">>} => call.plan # Statements[call.tool]
  BY <1>1 DEF Tool, Statements, query, context, findReferencing, impact, symbolCoordinates, rename,
       findSymbolBody, getSymbolsOverview, detectChanges, cypher, handleGraph, readProcesses
<1>5. \E p \in Plans : /\ call' = [read EXCEPT !.plan = p]
                       /\ p = Tail(call.plan) \/ p = <<>> \/ p = call.plan
                       /\ StageOf(call.tool, p) /\ p # Statements[call.tool]
  <2>1. CASE Then(read)
    BY <1>3, <2>1 DEF Then
  <2>2. CASE Reply(read)
    BY <1>2, <2>2 DEF Reply
  <2>3. CASE call' = read /\ call.plan \in {<<"bodies">>, <<"callers">>, <<"steps">>}
    <3>1. [read EXCEPT !.plan = read.plan] = read /\ read.plan \in Plans
      BY DEF CallRecord
    <3>2. QED
      BY <1>1, <1>4, <2>3, <3>1
  <2>4. QED
    BY <2>1, <2>2, <2>3
<1>6. PICK p \in Plans : /\ call' = [read EXCEPT !.plan = p]
                         /\ p = Tail(call.plan) \/ p = <<>> \/ p = call.plan
                         /\ StageOf(call.tool, p) /\ p # Statements[call.tool]
  BY <1>5
<1>7. /\ call' \in CallRecord /\ call'.tool = call.tool /\ call'.plan = p
      /\ call'.rows = read.rows /\ call'.bodies = read.bodies /\ call'.about = call.about
  BY <1>6 DEF CallRecord
<1>8. CallTypeOK'
  <2>1. TypeOK' /\ steady' \in BOOLEAN
    BY DEF CallTypeOK, TypeOK, vars, env, derived, local
  <2>2. p \in Rests(Statements[call.tool])
    BY <1>1, <1>6, StageOfRests
  <2>3. QED
    BY <1>1, <1>7, <2>1, <2>2 DEF CallTypeOK
<1>9. Stage'
  BY <1>6, <1>7 DEF Stage
<1>10. Fresh'
  <2>1. ~Asked'
    BY <1>6, <1>7 DEF Asked
  <2>2. ASSUME call'.bodies # {} PROVE call'.tool = "find_symbol_body" /\ p \in {<<"bodies">>, <<>>}
    <3>1. call.plan = <<"bodies">>
      BY <1>7, <2>2
    <3>2. call.tool = "find_symbol_body"
      BY <1>1, <3>1 DEF StageOf, query, context, findReferencing, impact, symbolCoordinates, rename,
         findSymbolBody, getSymbolsOverview, detectChanges, cypher, handleGraph, readProcesses
    <3>3. Tail(call.plan) = <<>>
      BY <3>1
    <3>4. QED
      BY <1>6, <1>7, <3>1, <3>2, <3>3
  <2>3. QED
    BY <1>7, <2>1, <2>2 DEF Fresh
<1>11. QED
  BY <1>8, <1>9, <1>10

\* While an index that is current for HEAD stays so, runs begin, clear nothing,
\* store vectors, end or die: what calls read does not change.
LEMMA CurrentRests ==
  ASSUME TypeOK, AnalyzedInv, Forward, "discarded" \notin faults, Next,
         last = head, last' = head', head' = head
  PROVE  UNCHANGED <<work, nodes, bm25, edges, procs>>
<1> USE DEF Goto, env, derived, local
<1>1. CASE Environment
  BY <1>1 DEF Environment, MoveHead, EditWorktree, Forward
<1>2. ASSUME NEW r \in Runner, Step(r) \/ Crash(r)
      PROVE  UNCHANGED <<work, nodes, bm25, edges, procs>>
  <2>1. pc[r] \notin Working
    <3>1. RunsForward
      BY DEF AnalyzedInv
    <3>2. head \in Nat /\ target[r] \in Nat
      BY PipelineAssumption DEF TypeOK, Commit, NoCommit
    <3>3. target[r] <= head /\ (pc[r] \in Working => last < target[r])
      BY <3>1 DEF RunsForward
    <3>4. QED
      BY <3>2, <3>3
  <2>2. CASE Start(r)
    BY <2>2 DEF Start
  <2>3. ~ClearRepo(r)
    BY DEF ClearRepo, ClearedMeta, TypeOK, Commit, NoCommit
  <2>4. CASE Embed(r)
    BY <2>4 DEF Embed
  <2>5. CASE Crash(r)
    BY <2>5 DEF Crash
  <2>6. Step(r) => Start(r) \/ ClearRepo(r) \/ Embed(r)
    BY <2>1 DEF Step, Working, PlanFull, PlanPatch, CollectFiles, DeleteNodesByFile, DeleteFails,
                ParseFile, UpsertNodes, UpsertEdges, DeleteAllClusters, IndexNodeBM25, TraceProcess,
                UpsertClusterMembers, SetClusterForNodes, FindEntryPoints, RecordCommit,
                PlanPartly, DeletesPartly, ClearsPartly, FindsPartly, TracesPartly,
                CommitNotRecorded
  <2>7. QED
    BY <1>2, <2>2, <2>3, <2>4, <2>5, <2>6
<1>3. QED
  BY <1>1, <1>2 DEF Next

\* Rows are of uids, and hold texts.
LEMMA RowsType ==
  ASSUME TypeOK, NEW uids
  PROVE  RowsOf(uids) \in SUBSET (Uid \X Version)
<1>1. ASSUME NEW u \in uids \cap Present PROVE <<u, nodes[u[1]][u[2]]>> \in Uid \X Version
  BY DEF Present, TypeOK, Uid
<1>2. QED
  BY <1>1 DEF RowsOf

-----------------------------------------------------------------------------
\* Every statement keeps the invariant: it reads the tables as they are.
LEMMA ReadsKeepInv ==
  ASSUME CallTypeOK, DerivedInv, CallInv, Read
  PROVE  CallTypeOK' /\ CallInv'
<1> USE DEF CallInv
<1>t. TypeOK /\ call \in CallRecord
  BY DEF CallTypeOK
<1>u. UNCHANGED <<vars, steady>>
  BY ReadsWriteNothing
<1>v. /\ UNCHANGED <<faults, head, work, last, nodes, bm25, edges, procs, steady>>
      /\ Forward' = Forward /\ Present' = Present
  BY <1>u DEF vars, env, derived, Forward, Present
<1>b. call.bodies = {} \/ call.plan \in {<<"bodies">>, <<>>}
  BY DEF Fresh
<1> DEFINE Keeps == CallTypeOK' /\ Stage' /\ Fresh' /\ Reported' /\ (Quiet' => ReadsNow')
<1>r. \A e \in edges : Quiet => e \in Present \X Present
  BY DEF DerivedInv, RowsHaveNodes, Quiet, Forward
<1>w. Keeps => CallTypeOK' /\ CallInv'
  BY <1>v
<1> HIDE DEF CallInv
<1>i. Stage /\ Fresh /\ Reported /\ (Quiet => ReadsNow)
  BY DEF CallInv
<1>f. ASSUME Reply([call EXCEPT !.failed = TRUE]), call.plan # <<>>
      PROVE  CallTypeOK' /\ Stage' /\ Fresh' /\ Reported' /\ ~Quiet'
  <2> DEFINE read == [call EXCEPT !.failed = TRUE]
  <2>1. /\ read \in CallRecord /\ read.tool = call.tool /\ read.about = call.about /\ read.plan = call.plan
        /\ read.bodies = call.bodies /\ read.rows = call.rows
    BY <1>t DEF CallRecord
  <2>2. call'.failed = TRUE
    BY <1>t, <1>f DEF Reply, CallRecord
  <2>3. Reply(read)
    BY <1>f
  <2> HIDE DEF read
  <2>4. CallTypeOK' /\ Stage' /\ Fresh'
    BY <1>b, <1>f, <1>i, <1>u, <2>1, <2>3, ReadTyped DEF CallTypeOK
  <2>5. QED
    BY <2>2, <2>4 DEF Reported, Quiet
<1>1. CASE SearchTerms
  <2>1. call.tool = "query" /\ call.plan # <<>> /\ call.bodies = {} /\ Tail(call.plan) = <<"hydrate">>
    BY <1>1, <1>i, <1>b, AtStatement DEF SearchTerms, query, Doing
  <2>2. PICK best : BestHits(best) /\ Then([call EXCEPT !.left = best])
    BY <1>1 DEF SearchTerms, BestHits
  <2>3. best \in SUBSET Uid
    BY <2>2, <1>t DEF BestHits, Atmost, TypeOK
  <2>4. [call EXCEPT !.left = best] \in CallRecord
    BY <1>t, <2>3 DEF CallRecord
  <2>5. CallTypeOK' /\ Stage' /\ Fresh'
    BY <1>t, <1>i, <1>u, <2>1, <2>2, <2>4, ReadTyped DEF CallRecord
  <2>6. /\ call'.tool = "query" /\ call'.plan = <<"hydrate">> /\ call'.left = best
        /\ call'.about = call.about
    BY <1>t, <2>1, <2>2 DEF Then, CallRecord
  <2>7. Reported'
    BY <2>6 DEF Reported, Answered
  <2>8. BestHits(best)'
    BY <1>v, <2>2, <2>6 DEF BestHits, Atmost
  <2>9. Quiet' => ReadsNow'
    BY <2>6, <2>8 DEF ReadsNow
  <2>10. QED
    BY <1>w, <2>5, <2>7, <2>9
<1>2. CASE HydrateNodes
  <2>1. /\ call.tool = "query" /\ call.plan = <<"hydrate">> /\ call.plan # <<>> /\ call.bodies = {}
        /\ Tail(call.plan) = <<>>
    BY <1>2, <1>i, <1>b, AtStatement DEF HydrateNodes, Doing
  <2> DEFINE read == [call EXCEPT !.rows = RowsOf(call.left), !.left = {}]
  <2>2. Then(read)
    BY <1>2 DEF HydrateNodes
  <2>3. read \in CallRecord
    BY <1>t, RowsType DEF CallRecord
  <2>4. CallTypeOK' /\ Stage' /\ Fresh'
    BY <1>t, <1>i, <1>u, <2>1, <2>2, <2>3, ReadTyped DEF CallRecord
  <2>5. /\ call'.tool = "query" /\ call'.plan = <<>> /\ call'.rows = RowsOf(call.left)
        /\ call'.about = call.about /\ call'.failed = call.failed
    BY <1>t, <2>1, <2>2 DEF Then, CallRecord
  <2>6. Reported'
    BY <2>5 DEF Reported
  <2>7. ASSUME Quiet' PROVE ReadsNow'
    <3>1. BestHits(call.left)
      BY <1>i, <1>v, <2>1, <2>5, <2>7 DEF Quiet, ReadsNow
    <3>2. \A best : BestHits(best)' = BestHits(best)
      BY <1>v, <2>5 DEF BestHits, Atmost
    <3>3. \A best : RowsOf(best)' = RowsOf(best)
      BY <1>v DEF RowsOf
    <3>4. call.left \in SUBSET Uid
      BY <1>t DEF CallRecord
    <3>5. \E best \in SUBSET Uid : BestHits(best)' /\ call'.rows = RowsOf(best)'
      BY <2>5, <3>1, <3>2, <3>3, <3>4
    <3>6. QED
      BY <2>5, <3>5 DEF ReadsNow
  <2>8. QED
    BY <1>w, <2>4, <2>6, <2>7
<1>3. CASE FirstOfName
  <2>1. call.plan # <<>> /\ call.bodies = {}
        /\ \/ call.tool = "context" /\ Tail(call.plan) = <<"from", "to">>
           \/ call.tool = "find_referencing" /\ Tail(call.plan) = <<"to", "callers">>
           \/ call.tool = "impact" /\ Tail(call.plan) = <<"impact">>
    BY <1>3, <1>i, <1>b, AtStatement DEF FirstOfName, Doing, context, findReferencing, impact
  <2>2. PICK row \in RowsOf(Named(call.about)) : Then([call EXCEPT !.rows = {row}])
    BY <1>3 DEF FirstOfName
  <2>3. [call EXCEPT !.rows = {row}] \in CallRecord
    <3>1. row \in Uid \X Version
      BY <1>t, RowsType
    <3>2. QED
      BY <1>t, <3>1 DEF CallRecord
  <2>4. CallTypeOK' /\ Stage' /\ Fresh'
    BY <1>t, <1>i, <1>u, <2>1, <2>2, <2>3, ReadTyped DEF CallRecord
  <2>5. /\ call'.tool = call.tool /\ call'.plan = Tail(call.plan)
        /\ call'.links = call.links /\ call'.refs = call.refs
    BY <1>t, <2>1, <2>2 DEF Then, CallRecord
  <2>6. Reported'
    BY <2>1, <2>5 DEF Reported
  <2>7. call.links = {} /\ call.refs = {}
    BY <1>3, <1>i, <2>1, AtStatement DEF FirstOfName, Fresh, Asked, Statements
  <2>8. ReadsNow'
    <3>1. CASE call'.tool = "context" /\ call'.plan = <<"from", "to">>
      <4>1. <<"from", "to">> # <<"to">> /\ <<"from", "to">> # <<>>
        OBVIOUS
      <4>2. QED
        BY <2>5, <2>7, <3>1, <4>1 DEF ReadsNow
    <3>2. CASE call'.tool = "find_referencing" /\ call'.plan = <<"to", "callers">>
      <4>1. <<"to", "callers">> # <<"callers">> /\ <<"to", "callers">> # <<>>
        OBVIOUS
      <4>2. QED
        BY <2>5, <2>7, <3>2, <4>1 DEF ReadsNow
    <3>3. CASE call'.tool = "impact" /\ call'.plan = <<"impact">>
      BY <3>3 DEF ReadsNow
    <3>4. QED
      BY <2>1, <2>5, <3>1, <3>2, <3>3
  <2>9. QED
    BY <1>w, <2>4, <2>6, <2>8
<1>4. CASE NotFound
  <2>1. call.plan # <<>> /\ call.bodies = {} /\ call.links = {} /\ call.refs = {} /\ call.rows = {}
        /\ call.tool \in {"context", "find_referencing", "impact"}
    BY <1>4, <1>i, <1>b, AtStatement DEF NotFound, Doing, context, findReferencing, impact,
       Fresh, Asked, Statements
  <2>2. CallTypeOK' /\ Stage' /\ Fresh'
    BY <1>4, <1>t, <1>i, <1>u, <2>1, ReadTyped DEF NotFound
  <2>3. /\ call'.tool = call.tool /\ call'.plan = <<>> /\ call'.rows = {}
        /\ call'.links = call.links /\ call'.refs = call.refs
    BY <1>4, <1>t, <2>1 DEF NotFound, Reply, CallRecord
  <2>4. Reported'
    BY <2>1, <2>3 DEF Reported
  <2>5. Subject' = {} /\ EdgesFrom(Subject)' = {} /\ EdgesTo(Subject)' = {} /\ Callers' = {}
        /\ Found(call.refs)' = {} /\ RowsOf(Downstream(Subject))' = {}
    <3>1. Subject' = {}
      BY <2>3 DEF Subject
    <3>2. QED
      BY <2>1, <2>3, <3>1 DEF EdgesFrom, EdgesTo, Callers, Found, RowsOf, Downstream
  <2>6. ReadsNow'
    BY <2>1, <2>3, <2>5 DEF ReadsNow
  <2>7. QED
    BY <1>w, <2>2, <2>4, <2>6
<1>5. CASE AllOfName
  <2>1. call.plan # <<>> /\ call.bodies = {}
        /\ \/ call.tool \in {"symbol_coordinates", "rename"} /\ Tail(call.plan) = <<>>
           \/ call.tool = "find_symbol_body" /\ Tail(call.plan) = <<"bodies">>
    BY <1>5, <1>i, <1>b, AtStatement DEF AllOfName, Doing, Statements, symbolCoordinates, rename, findSymbolBody
  <2> DEFINE read == [call EXCEPT !.rows = RowsOf(Named(call.about)), !.left = Named(call.about)]
  <2>2. Then(read)
    BY <1>5 DEF AllOfName
  <2>3. read \in CallRecord
    <3>1. Named(call.about) \in SUBSET Uid
      BY DEF Named, Present
    <3>2. QED
      BY <1>t, <3>1, RowsType DEF CallRecord
  <2>4. CallTypeOK' /\ Stage' /\ Fresh'
    BY <1>t, <1>i, <1>u, <2>1, <2>2, <2>3, ReadTyped DEF CallRecord
  <2>5. /\ call'.tool = call.tool /\ call'.plan = Tail(call.plan) /\ call'.about = call.about
        /\ call'.rows = RowsOf(Named(call.about)) /\ call'.left = Named(call.about)
    BY <1>t, <2>1, <2>2 DEF Then, CallRecord
  <2>6. Reported'
    BY <2>1, <2>5 DEF Reported
  <2>7. RowsOf(Named(call.about))' = RowsOf(Named(call.about))
    BY <1>v, <2>5 DEF RowsOf, Named
  <2>8. \A row \in call'.rows : row[1] \in call'.left
    BY <2>5 DEF RowsOf
  <2>9. ReadsNow'
    BY <2>1, <2>5, <2>7, <2>8 DEF ReadsNow
  <2>10. QED
    BY <1>w, <2>4, <2>6, <2>9
<1>6. CASE ReadBody
  <2>1. call.plan = <<"bodies">> /\ call.plan # <<>> /\ call.tool = "find_symbol_body"
    BY <1>6, <1>i, AtStatement DEF ReadBody, Doing
  <2>2. PICK row \in call.rows :
          call' = [call EXCEPT !.bodies = @ \cup {<<row, work[row[1][1]]>>}, !.left = @ \ {row[1]}]
    BY <1>6 DEF ReadBody
  <2> DEFINE read == [call EXCEPT !.bodies = @ \cup {<<row, work[row[1][1]]>>}, !.left = @ \ {row[1]}]
  <2>3. read \in CallRecord
    <3>1. row \in Uid \X Version /\ work[row[1][1]] \in Version \cup {Absent}
      BY <1>t DEF CallRecord, Uid, TypeOK
    <3>2. call.bodies \cup {<<row, work[row[1][1]]>>} \in SUBSET ((Uid \X Version) \X (Version \cup {Absent}))
      BY <1>t, <3>1 DEF CallRecord
    <3>3. QED
      BY <1>t, <3>2 DEF CallRecord
  <2>4. /\ read.tool = call.tool /\ read.about = call.about /\ read.plan = call.plan /\ read.rows = call.rows
        /\ read.bodies = call.bodies \cup {<<row, work[row[1][1]]>>} /\ read.left = call.left \ {row[1]}
        /\ read.about = call.about /\ read.failed = call.failed
    BY <1>t DEF CallRecord
  <2>5. \A body \in read.bodies : body[1] \in read.rows
    BY <2>2, <2>4 DEF CallTypeOK
  <2>6. call' = read
    BY <2>2
  <2> HIDE DEF read
  <2>7. CallTypeOK' /\ Stage' /\ Fresh'
    BY <1>i, <1>u, <2>1, <2>3, <2>4, <2>5, <2>6, ReadTyped
  <2>8. Reported'
    BY <2>1, <2>4, <2>6 DEF Reported
  <2>9. ASSUME Quiet' PROVE ReadsNow'
    <3>1. ReadsNow
      BY <1>i, <1>v, <2>4, <2>6, <2>9 DEF Quiet
    <3>2. RowsOf(Named(call.about))' = RowsOf(Named(call.about))
      BY <1>v, <2>4, <2>6 DEF RowsOf, Named
    <3>3. /\ call.rows = RowsOf(Named(call.about))
          /\ \A x \in call.rows : x[1] \in call.left \/ <<x, work[x[1][1]]>> \in call.bodies
      BY <2>1, <3>1 DEF ReadsNow
    <3>4. ASSUME NEW x \in call.rows, x[1] \notin call.left \ {row[1]} PROVE <<x, work[x[1][1]]>> \in read.bodies
      <4>1. CASE x[1] = row[1]
        <5>1. x = row
          BY <2>2, <3>3, <4>1 DEF RowsOf
        <5>2. QED
          BY <2>4, <5>1
      <4>2. CASE x[1] # row[1]
        BY <2>4, <3>3, <3>4, <4>2
      <4>3. QED
        BY <4>1, <4>2
    <3>5. QED
      BY <1>v, <2>1, <2>4, <2>6, <3>2, <3>3, <3>4 DEF ReadsNow
  <2>10. QED
    BY <1>w, <2>7, <2>8, <2>9
<1>7. CASE QueryEdgesFrom
  <2>1. /\ call.tool = "context" /\ call.plan = <<"from", "to">> /\ call.plan # <<>> /\ call.bodies = {}
        /\ Tail(call.plan) = <<"to">>
    BY <1>7, <1>i, <1>b, AtStatement DEF QueryEdgesFrom, Doing
  <2> DEFINE read == [call EXCEPT !.links = EdgesFrom(Subject)]
  <2>2. Then(read)
    BY <1>7 DEF QueryEdgesFrom
  <2>3. read \in CallRecord
    <3>1. EdgesFrom(Subject) \in SUBSET (Uid \X Uid)
      BY <1>t DEF EdgesFrom, TypeOK
    <3>2. QED
      BY <1>t, <3>1 DEF CallRecord
  <2>4. CallTypeOK' /\ Stage' /\ Fresh'
    BY <1>t, <1>i, <1>u, <2>1, <2>2, <2>3, ReadTyped DEF CallRecord
  <2>5. /\ call'.tool = "context" /\ call'.plan = <<"to">> /\ call'.rows = call.rows
        /\ call'.links = EdgesFrom(Subject)
    BY <1>t, <2>1, <2>2 DEF Then, CallRecord
  <2>6. Reported'
    BY <2>5 DEF Reported
  <2>7. EdgesFrom(Subject)' = EdgesFrom(Subject)
    BY <1>v, <2>5 DEF EdgesFrom, Subject
  <2>8. ReadsNow'
    BY <2>5, <2>7 DEF ReadsNow
  <2>9. QED
    BY <1>w, <2>4, <2>6, <2>8
<1>8. CASE QueryEdgesTo
  <2>1. call.plan # <<>> /\ call.bodies = {}
        /\ \/ call.tool = "context" /\ call.plan = <<"to">> /\ Tail(call.plan) = <<>>
           \/ /\ call.tool = "find_referencing" /\ call.plan = <<"to", "callers">>
              /\ Tail(call.plan) = <<"callers">>
    BY <1>8, <1>i, <1>b, AtStatement DEF QueryEdgesTo, Doing
  <2> DEFINE found == EdgesTo(Subject)
             read == [call EXCEPT !.links = @ \cup found, !.left = { e[1] : e \in found }]
  <2>2. Then(read)
    BY <1>8 DEF QueryEdgesTo
  <2>3. read \in CallRecord
    <3>1. found \in SUBSET (Uid \X Uid)
      BY <1>t DEF EdgesTo, TypeOK
    <3>2. call.links \cup found \in SUBSET (Uid \X Uid) /\ { e[1] : e \in found } \in SUBSET Uid
      BY <1>t, <3>1 DEF CallRecord
    <3>3. QED
      BY <1>t, <3>2 DEF CallRecord
  <2>4. CallTypeOK' /\ Stage' /\ Fresh'
    BY <1>t, <1>i, <1>u, <2>1, <2>2, <2>3, ReadTyped DEF CallRecord
  <2>5. /\ call'.tool = call.tool /\ call'.plan = Tail(call.plan) /\ call'.rows = call.rows
        /\ call'.links = call.links \cup found /\ call'.left = { e[1] : e \in found }
        /\ call'.refs = call.refs /\ call'.failed = call.failed
    BY <1>t, <2>1, <2>2 DEF Then, CallRecord
  <2>6. Reported'
    BY <2>1, <2>5 DEF Reported
  <2>7. /\ Subject' = Subject
        /\ EdgesTo(Subject)' = found
        /\ EdgesFrom(Subject)' = EdgesFrom(Subject)
    BY <1>v, <2>5 DEF EdgesFrom, EdgesTo, Subject
  <2>8. ASSUME Quiet' PROVE ReadsNow'
    <3>1. ReadsNow
      BY <1>i, <1>v, <2>5, <2>8 DEF Quiet
    <3>2. CASE call.tool = "context" /\ call.plan = <<"to">> /\ Tail(call.plan) = <<>>
      <4>1. call.links = EdgesFrom(Subject)
        BY <3>1, <3>2 DEF ReadsNow
      <4>2. call'.links = EdgesFrom(Subject)' \cup EdgesTo(Subject)'
        BY <2>5, <2>7, <4>1
      <4>3. QED
        BY <2>5, <3>2, <4>2 DEF ReadsNow
    <3>3. CASE /\ call.tool = "find_referencing" /\ call.plan = <<"to", "callers">>
               /\ Tail(call.plan) = <<"callers">>
      <4>1. call.refs = {}
        BY <3>1, <3>3 DEF ReadsNow
      <4>2. Callers' = call'.left
        <5>1. Callers' = { u \in Uid : \E s \in Subject : <<u, s>> \in edges }
          BY <1>v, <2>7 DEF Callers
        <5>2. \A e \in found : e \in Uid \X Uid /\ e \in edges /\ e[2] \in Subject
          BY <1>t DEF EdgesTo, TypeOK
        <5>3. ASSUME NEW u \in Uid, NEW s \in Subject, <<u, s>> \in edges
              PROVE  u \in { e[1] : e \in found }
          BY <5>3 DEF EdgesTo
        <5>4. ASSUME NEW e \in found PROVE e[1] \in Uid /\ \E s \in Subject : <<e[1], s>> \in edges
          <6>1. e = <<e[1], e[2]>>
            BY <5>2
          <6>2. QED
            BY <5>2, <6>1
        <5>5. { u \in Uid : \E s \in Subject : <<u, s>> \in edges } = { e[1] : e \in found }
          BY <5>3, <5>4
        <5>6. QED
          BY <2>5, <5>1, <5>5
      <4>3. Found(call.refs)' = {}
        BY <2>5, <4>1 DEF Found
      <4>4. QED
        BY <2>5, <3>3, <4>2, <4>3 DEF ReadsNow
    <3>4. QED
      BY <2>1, <3>2, <3>3
  <2>9. QED
    BY <1>w, <2>4, <2>6, <2>8
<1>9. ASSUME NEW u \in Uid, QueryNodeByUID(u) PROVE CallTypeOK' /\ CallInv'
  <2>1. /\ call.tool = "find_referencing" /\ call.plan = <<"callers">> /\ call.plan # <<>>
        /\ call.bodies = {} /\ u \in call.left
    BY <1>9, <1>i, <1>b, AtStatement DEF QueryNodeByUID, Doing
  <2> DEFINE read == [call EXCEPT !.refs = @ \cup RowsOf({u}), !.left = @ \ {u}]
  <2>2. call' = read
    BY <1>9 DEF QueryNodeByUID
  <2>3. read \in CallRecord
    <3>1. RowsOf({u}) \in SUBSET (Uid \X Version)
      BY <1>t, RowsType
    <3>2. call.refs \cup RowsOf({u}) \in SUBSET (Uid \X Version)
      BY <1>t, <3>1 DEF CallRecord
    <3>3. QED
      BY <1>t, <3>2 DEF CallRecord
  <2>4. /\ read.tool = call.tool /\ read.about = call.about /\ read.plan = call.plan /\ read.rows = call.rows
        /\ read.bodies = call.bodies /\ read.left = call.left \ {u}
        /\ read.refs = call.refs \cup RowsOf({u}) /\ read.failed = call.failed
    BY <1>t DEF CallRecord
  <2> HIDE DEF read
  <2>5. CallTypeOK' /\ Stage' /\ Fresh'
    BY <1>i, <1>u, <2>1, <2>2, <2>3, <2>4, ReadTyped
  <2>6. Reported'
    BY <2>1, <2>2, <2>4 DEF Reported
  <2>7. ASSUME Quiet' PROVE ReadsNow'
    <3>1. ReadsNow /\ Quiet
      BY <1>i, <1>v, <2>2, <2>4, <2>7 DEF Quiet
    <3>2. Callers = call.left \cup Found(call.refs)
      BY <2>1, <3>1 DEF ReadsNow
    <3>3. u \in Present
      <4>1. PICK s \in Subject : <<u, s>> \in edges
        BY <2>1, <3>2 DEF Callers
      <4>2. QED
        <5>1. <<u, s>> \in Present \X Present
          BY <1>r, <3>1, <4>1
        <5>2. QED
          BY <5>1
    <3>4. Callers' = Callers
      BY <1>v, <2>2, <2>4 DEF Callers, Subject
    <3>5. Found(call.refs)' = Found(call.refs) \cup {u}
      <4> DEFINE row == <<u, nodes[u[1]][u[2]]>>
      <4>1. RowsOf({u}) = {row} /\ row[1] = u
        BY <3>3 DEF RowsOf
      <4> HIDE DEF row
      <4>2. Found(call.refs)' = { x[1] : x \in call.refs \cup {row} }
        BY <2>2, <2>4, <4>1 DEF Found
      <4>3. { x[1] : x \in call.refs \cup {row} } = { x[1] : x \in call.refs } \cup {row[1]}
        OBVIOUS
      <4>4. QED
        BY <4>1, <4>2, <4>3 DEF Found
    <3>6. Callers' = call'.left \cup Found(call.refs)'
      BY <2>1, <2>2, <2>4, <3>2, <3>4, <3>5
    <3>7. call'.tool = "find_referencing" /\ call'.plan = <<"callers">>
      BY <2>1, <2>2, <2>4
    <3>8. <<"callers">> # <<>> /\ <<"callers">> # <<"to", "callers">>
      OBVIOUS
    <3>9. QED
      BY <3>6, <3>7, <3>8 DEF ReadsNow
  <2>8. QED
    BY <1>w, <2>5, <2>6, <2>7
<1>10. CASE QueryImpact
  <2>1. /\ call.tool = "impact" /\ call.plan # <<>> /\ call.bodies = {} /\ Tail(call.plan) = <<>>
        /\ call.plan = <<"impact">>
    BY <1>10, <1>i, <1>b, AtStatement DEF QueryImpact, Doing
  <2> DEFINE read == [call EXCEPT !.refs = RowsOf(Downstream(Subject))]
  <2>2. Then(read)
    BY <1>10 DEF QueryImpact
  <2>3. read \in CallRecord
    BY <1>t, RowsType DEF CallRecord
  <2>4. CallTypeOK' /\ Stage' /\ Fresh'
    BY <1>t, <1>i, <1>u, <2>1, <2>2, <2>3, ReadTyped DEF CallRecord
  <2>5. /\ call'.tool = "impact" /\ call'.plan = <<>> /\ call'.rows = call.rows
        /\ call'.refs = RowsOf(Downstream(Subject))
    BY <1>t, <2>1, <2>2 DEF Then, CallRecord
  <2>6. Reported'
    BY <2>5 DEF Reported
  <2>7. RowsOf(Downstream(Subject))' = RowsOf(Downstream(Subject))
    <3>1. Subject' = Subject
      BY <2>5 DEF Subject
    <3>2. Downstream(Subject)' = Downstream(Subject)
      BY <1>v, <3>1 DEF Downstream, EdgesFrom, Reach, ImpactDepth
    <3>3. QED
      BY <1>v, <3>2 DEF RowsOf
  <2>8. ReadsNow'
    BY <2>5, <2>7 DEF ReadsNow
  <2>9. QED
    BY <1>w, <2>4, <2>6, <2>8
<1>11. CASE QueryTopLevelByFile
  <2>1. /\ call.tool = "get_symbols_overview" /\ call.plan # <<>> /\ call.bodies = {}
        /\ Tail(call.plan) = <<>>
    BY <1>11, <1>i, <1>b, AtStatement DEF QueryTopLevelByFile, Doing, getSymbolsOverview
  <2> DEFINE read == [call EXCEPT !.rows = RowsOf(InFile(call.about))]
  <2>2. Then(read)
    BY <1>11 DEF QueryTopLevelByFile
  <2>3. read \in CallRecord
    BY <1>t, RowsType DEF CallRecord
  <2>4. CallTypeOK' /\ Stage' /\ Fresh'
    BY <1>t, <1>i, <1>u, <2>1, <2>2, <2>3, ReadTyped DEF CallRecord
  <2>5. /\ call'.tool = call.tool /\ call'.plan = <<>> /\ call'.about = call.about
        /\ call'.rows = RowsOf(InFile(call.about))
    BY <1>t, <2>1, <2>2 DEF Then, CallRecord
  <2>6. Reported'
    BY <2>1, <2>5 DEF Reported
  <2>7. RowsOf(InFile(call.about))' = RowsOf(InFile(call.about))
    BY <1>v, <2>5 DEF RowsOf, InFile
  <2>8. ReadsNow'
    BY <2>1, <2>5, <2>7 DEF ReadsNow
  <2>9. QED
    BY <1>w, <2>4, <2>6, <2>8
<1>12. CASE GetLastCommit
  <2>1. /\ call.tool = "detect_changes" /\ call.plan # <<>> /\ call.bodies = {}
        /\ Tail(call.plan) = <<"diff">>
    BY <1>12, <1>i, <1>b, AtStatement DEF GetLastCommit, Doing, detectChanges
  <2> DEFINE read == [call EXCEPT !.since = last]
  <2>2. Then(read)
    BY <1>12 DEF GetLastCommit
  <2>3. read \in CallRecord
    BY <1>t DEF CallRecord, TypeOK
  <2>4. CallTypeOK' /\ Stage' /\ Fresh'
    BY <1>t, <1>i, <1>u, <2>1, <2>2, <2>3, ReadTyped DEF CallRecord
  <2>5. call'.tool = "detect_changes" /\ call'.plan = <<"diff">> /\ call'.since = last
    BY <1>t, <2>1, <2>2 DEF Then, CallRecord
  <2>6. Reported'
    <3>1. ~Answered'
      BY <2>5 DEF Answered
    <3>2. QED
      BY <3>1 DEF Reported
  <2>7. ReadsNow'
    BY <1>v, <2>5 DEF ReadsNow
  <2>8. QED
    BY <1>w, <2>4, <2>6, <2>7
<1>13. CASE GetChangedFiles
  <2>1. /\ call.tool = "detect_changes" /\ call.plan # <<>> /\ call.bodies = {} /\ Tail(call.plan) = <<>>
        /\ call.plan = <<"diff">>
    BY <1>13, <1>i, <1>b, AtStatement DEF GetChangedFiles, Doing
  <2> DEFINE changes == IF call.since = NoCommit THEN { f \in File : Tree[head][f] # Absent }
                        ELSE Changed(call.since, head)
             read == [call EXCEPT !.changed = changes]
  <2>2. Then(read)
    BY <1>13 DEF GetChangedFiles
  <2>3. read \in CallRecord
    <3>1. changes \in SUBSET File
      BY DEF Changed
    <3>2. QED
      BY <1>t, <3>1 DEF CallRecord
  <2>4. CallTypeOK' /\ Stage' /\ Fresh'
    BY <1>t, <1>i, <1>u, <2>1, <2>2, <2>3, ReadTyped DEF CallRecord
  <2>5. /\ call'.tool = "detect_changes" /\ call'.plan = <<>> /\ call'.since = call.since
        /\ call'.changed = changes /\ call'.failed = call.failed
    BY <1>t, <2>1, <2>2 DEF Then, CallRecord
  <2>6. Reported'
    BY <1>v, <2>5 DEF Reported, Changed
  <2>7. ASSUME Quiet' PROVE ReadsNow'
    <3>1. call.since = last
      BY <1>i, <1>v, <2>1, <2>5, <2>7 DEF Quiet, ReadsNow
    <3>2. last = head
      BY <1>v, <2>7 DEF CallInv, Quiet
    <3>3. last # NoCommit
      BY <1>t, <3>2 DEF TypeOK, Commit, NoCommit
    <3>4. changes = {}
      BY <3>1, <3>2, <3>3 DEF Changed
    <3>5. QED
      BY <2>5, <3>4 DEF ReadsNow
  <2>8. QED
    BY <1>w, <2>4, <2>6, <2>7
<1>14. CASE MatchEdges
  <2>1. call.tool = "cypher" /\ call.plan # <<>> /\ call.bodies = {} /\ Tail(call.plan) = <<>>
    BY <1>14, <1>i, <1>b, AtStatement DEF MatchEdges, Doing, cypher
  <2> DEFINE read == [call EXCEPT !.links = edges \cap (Present \X Present)]
  <2>2. Then(read)
    BY <1>14 DEF MatchEdges
  <2>3. read \in CallRecord
    BY <1>t DEF CallRecord, TypeOK
  <2>4. CallTypeOK' /\ Stage' /\ Fresh'
    BY <1>t, <1>i, <1>u, <2>1, <2>2, <2>3, ReadTyped DEF CallRecord
  <2>5. /\ call'.tool = "cypher" /\ call'.plan = <<>>
        /\ call'.links = edges \cap (Present \X Present)
    BY <1>t, <2>1, <2>2 DEF Then, CallRecord
  <2>6. Reported'
    BY <2>5 DEF Reported
  <2>7. ReadsNow'
    BY <1>v, <2>5 DEF ReadsNow
  <2>8. QED
    BY <1>w, <2>4, <2>6, <2>7
<1>15. CASE ReadNodes
  <2>1. /\ call.tool = "graph" /\ call.plan # <<>> /\ call.bodies = {}
        /\ Tail(call.plan) = <<"edges">>
    BY <1>15, <1>i, <1>b, AtStatement DEF ReadNodes, Doing, handleGraph
  <2> DEFINE read == [call EXCEPT !.rows = RowsOf(Uid)]
  <2>2. Then(read)
    BY <1>15 DEF ReadNodes
  <2>3. read \in CallRecord
    BY <1>t, RowsType DEF CallRecord
  <2>4. CallTypeOK' /\ Stage' /\ Fresh'
    BY <1>t, <1>i, <1>u, <2>1, <2>2, <2>3, ReadTyped DEF CallRecord
  <2>5. call'.tool = "graph" /\ call'.plan = <<"edges">> /\ call'.rows = RowsOf(Uid)
    BY <1>t, <2>1, <2>2 DEF Then, CallRecord
  <2>6. Reported'
    BY <2>5 DEF Reported
  <2>7. RowsOf(Uid)' = RowsOf(Uid)
    BY <1>v DEF RowsOf, Uid
  <2>8. ReadsNow'
    BY <2>5, <2>7 DEF ReadsNow
  <2>9. QED
    BY <1>w, <2>4, <2>6, <2>8
<1>16. CASE ReadEdges
  <2>1. /\ call.tool = "graph" /\ call.plan # <<>> /\ call.bodies = {} /\ Tail(call.plan) = <<>>
        /\ call.plan = <<"edges">>
    BY <1>16, <1>i, <1>b, AtStatement DEF ReadEdges, Doing
  <2> DEFINE read == [call EXCEPT !.links = edges]
  <2>2. Then(read)
    BY <1>16 DEF ReadEdges
  <2>3. read \in CallRecord
    BY <1>t DEF CallRecord, TypeOK
  <2>4. CallTypeOK' /\ Stage' /\ Fresh'
    BY <1>t, <1>i, <1>u, <2>1, <2>2, <2>3, ReadTyped DEF CallRecord
  <2>5. /\ call'.tool = "graph" /\ call'.plan = <<>> /\ call'.rows = call.rows
        /\ call'.links = edges /\ call'.failed = call.failed
    BY <1>t, <2>1, <2>2 DEF Then, CallRecord
  <2>6. Reported'
    BY <2>5 DEF Reported
  <2>7. ASSUME Quiet' PROVE ReadsNow'
    <3>1. call.rows = RowsOf(Uid)
      BY <1>i, <1>v, <2>1, <2>5, <2>7 DEF Quiet, ReadsNow
    <3>2. RowsOf(Uid)' = RowsOf(Uid)
      BY <1>v DEF RowsOf, Uid
    <3>3. QED
      BY <1>v, <2>5, <3>1, <3>2 DEF ReadsNow
  <2>8. QED
    BY <1>w, <2>4, <2>6, <2>7
<1>17. CASE ReadProcesses
  <2>1. /\ call.tool = "processes" /\ call.plan # <<>> /\ call.bodies = {}
        /\ Tail(call.plan) = <<"steps">>
    BY <1>17, <1>i, <1>b, AtStatement DEF ReadProcesses, Doing, readProcesses
  <2> DEFINE entries == { u \in Uid : procs[u] # {} }
             read == [call EXCEPT !.left = entries]
  <2>2. Then(read)
    BY <1>17 DEF ReadProcesses
  <2>3. read \in CallRecord
    BY <1>t DEF CallRecord
  <2>4. CallTypeOK' /\ Stage' /\ Fresh'
    BY <1>t, <1>i, <1>u, <2>1, <2>2, <2>3, ReadTyped DEF CallRecord
  <2>5. call'.tool = "processes" /\ call'.plan = <<"steps">> /\ call'.left = entries
    BY <1>t, <2>1, <2>2 DEF Then, CallRecord
  <2>6. Reported'
    BY <2>5 DEF Reported
  <2>7. ReadsNow'
    <3>1. <<"steps">> # <<>>
      OBVIOUS
    <3>2. QED
      BY <1>v, <2>5, <3>1 DEF ReadsNow
  <2>8. QED
    BY <1>w, <2>4, <2>6, <2>7
<1>18. ASSUME NEW u \in Uid, ReadSteps(u) PROVE CallTypeOK' /\ CallInv'
  <2>1. /\ call.tool = "processes" /\ call.plan = <<"steps">> /\ call.plan # <<>> /\ call.bodies = {}
        /\ u \in call.left
    BY <1>18, <1>i, <1>b, AtStatement DEF ReadSteps, Doing
  <2> DEFINE read == [call EXCEPT !.flows = @ \cup {<<u, procs[u]>>}, !.left = @ \ {u}]
  <2>2. call' = read
    BY <1>18 DEF ReadSteps
  <2>3. read \in CallRecord
    <3>1. call.flows \cup {<<u, procs[u]>>} \in SUBSET (Uid \X SUBSET Uid)
      BY <1>t DEF CallRecord, TypeOK
    <3>2. QED
      BY <1>t, <3>1 DEF CallRecord
  <2>4. /\ read.tool = call.tool /\ read.about = call.about /\ read.plan = call.plan /\ read.rows = call.rows
        /\ read.bodies = call.bodies /\ read.left = call.left \ {u}
        /\ read.flows = call.flows \cup {<<u, procs[u]>>} /\ read.failed = call.failed
    BY <1>t DEF CallRecord
  <2> HIDE DEF read
  <2>5. CallTypeOK' /\ Stage' /\ Fresh'
    BY <1>i, <1>u, <2>1, <2>2, <2>3, <2>4, ReadTyped
  <2>6. Reported'
    BY <2>1, <2>2, <2>4 DEF Reported
  <2>7. ASSUME Quiet' PROVE ReadsNow'
    <3>1. \A x \in Uid : procs[x] # {} => x \in call.left \/ <<x, procs[x]>> \in call.flows
      BY <1>i, <1>v, <2>1, <2>2, <2>4, <2>7 DEF Quiet, ReadsNow
    <3>2. <<"steps">> # <<>>
      OBVIOUS
    <3>3. QED
      BY <1>v, <2>1, <2>2, <2>4, <3>1, <3>2 DEF ReadsNow
  <2>8. QED
    BY <1>w, <2>5, <2>6, <2>7
<1>19. CASE LoopEnds
  <2>1. /\ call.plan # <<>> /\ call.left = {}
        /\ call.bodies # {} => call.plan = <<"bodies">>
        /\ \/ call.tool = "find_symbol_body" /\ call.plan = <<"bodies">>
           \/ call.tool = "find_referencing" /\ call.plan = <<"callers">>
           \/ call.tool = "processes" /\ call.plan = <<"steps">>
    BY <1>19, <1>i, <1>b, AtStatement DEF LoopEnds, Doing
  <2>2. Reply(call)
    BY <1>19 DEF LoopEnds
  <2>3. CallTypeOK' /\ Stage' /\ Fresh'
    BY <1>t, <1>i, <1>u, <2>1, <2>2, ReadTyped DEF CallTypeOK
  <2>4. /\ call'.tool = call.tool /\ call'.plan = <<>> /\ call'.about = call.about
        /\ call'.rows = call.rows /\ call'.refs = call.refs /\ call'.left = {}
        /\ call'.bodies = call.bodies /\ call'.flows = call.flows /\ call'.failed = call.failed
    BY <1>t, <2>1, <2>2 DEF Reply, CallRecord
  <2>5. Reported'
    BY <2>1, <2>4 DEF Reported
  <2>6. ASSUME Quiet' PROVE ReadsNow'
    <3>1. ReadsNow
      BY <1>i, <1>v, <2>4, <2>6 DEF Quiet
    <3>2. CASE call.tool = "find_symbol_body" /\ call.plan = <<"bodies">>
      <4>1. RowsOf(Named(call.about))' = RowsOf(Named(call.about))
        BY <1>v, <2>4 DEF RowsOf, Named
      <4>2. /\ call.rows = RowsOf(Named(call.about))
            /\ \A row \in call.rows : row[1] \in call.left \/ <<row, work[row[1][1]]>> \in call.bodies
        BY <3>1, <3>2 DEF ReadsNow
      <4>3. QED
        BY <1>v, <2>1, <2>4, <3>2, <4>1, <4>2 DEF ReadsNow
    <3>3. CASE call.tool = "find_referencing" /\ call.plan = <<"callers">>
      <4>1. Callers' = Callers /\ Found(call.refs)' = Found(call.refs)
        BY <1>v, <2>4 DEF Callers, Subject, Found
      <4>2. Callers = Found(call.refs)
        BY <2>1, <3>1, <3>3 DEF ReadsNow
      <4>3. QED
        BY <2>4, <3>3, <4>1, <4>2 DEF ReadsNow
    <3>4. CASE call.tool = "processes" /\ call.plan = <<"steps">>
      <4>1. \A x \in Uid : procs[x] # {} => x \in call.left \/ <<x, procs[x]>> \in call.flows
        BY <3>1, <3>4 DEF ReadsNow
      <4>2. QED
        BY <1>v, <2>1, <2>4, <3>4, <4>1 DEF ReadsNow
    <3>5. QED
      BY <2>1, <3>2, <3>3, <3>4
  <2>7. QED
    BY <1>w, <2>3, <2>5, <2>6
<1>20. CASE StatementFails
  <2>1. ~Quiet'
    BY <1>20, <1>v DEF StatementFails, Quiet
  <2>2. call.plan # <<>> /\ (call.bodies # {} => call.plan = <<"bodies">>)
    BY <1>20, <1>b DEF StatementFails
  <2>3. CASE Ignored /\ Then(call)
    <3>1. /\ Tail(call.plan) \in {<<"diff">>, <<"to">>} \/ call.tool = "context"
      BY <1>i, <2>3, AtStatement DEF Ignored
    <3>2. CallTypeOK' /\ Stage' /\ Fresh'
      BY <1>t, <1>i, <1>u, <2>2, <2>3, ReadTyped DEF CallTypeOK
    <3>3. Reported'
      BY <1>t, <2>3, <3>1 DEF Reported, Answered, Then, CallRecord
    <3>4. QED
      BY <1>w, <2>1, <3>2, <3>3
  <2>4. CASE Doing("callers") /\ \E u \in call.left :
               call' = [call EXCEPT !.left = @ \ {u}] /\ UNCHANGED <<vars, steady>>
    <3> PICK u \in call.left : call' = [call EXCEPT !.left = @ \ {u}]
      BY <2>4
    <3> DEFINE read == [call EXCEPT !.left = @ \ {u}]
    <3>1. call.tool = "find_referencing" /\ call.plan = <<"callers">> /\ call.bodies = {}
      BY <1>i, <1>b, <2>2, <2>4, AtStatement
    <3>2. /\ call' = read /\ read \in CallRecord /\ read.tool = call.tool /\ read.about = call.about /\ read.plan = call.plan
          /\ read.bodies = {}
      BY <1>t, <3>1 DEF CallRecord
    <3> HIDE DEF read
    <3>3. CallTypeOK' /\ Stage' /\ Fresh'
      BY <1>i, <1>u, <2>2, <3>1, <3>2, ReadTyped
    <3>4. Reported'
      BY <3>1, <3>2 DEF Reported
    <3>5. QED
      BY <1>w, <2>1, <3>3, <3>4
  <2>5. CASE Reply([call EXCEPT !.failed = TRUE])
    <3>1. CallTypeOK' /\ Stage' /\ Fresh' /\ Reported'
      BY <1>f, <2>2, <2>5
    <3>2. QED
      BY <1>w, <2>1, <3>1
  <2>6. CASE /\ Doing("file") \/ (call.tool = "impact" /\ Doing("symbol"))
             /\ Reply(call)
    <3>1. call.bodies = {} /\ call.tool \in {"get_symbols_overview", "impact"}
      BY <1>i, <1>b, <2>2, <2>6, AtStatement DEF findSymbolBody, getSymbolsOverview, impact
    <3>2. CallTypeOK' /\ Stage' /\ Fresh'
      BY <1>t, <1>i, <1>u, <2>2, <2>6, <3>1, ReadTyped
    <3>3. Reported'
      BY <1>t, <2>6, <3>1 DEF Reported, Reply, CallRecord
    <3>4. QED
      BY <1>w, <2>1, <3>2, <3>3
  <2>7. QED
    BY <1>20, <2>3, <2>4, <2>5, <2>6 DEF StatementFails
<1>21. CASE DiffFails
  <2>1. Reply([call EXCEPT !.failed = TRUE]) /\ call.plan # <<>>
    BY <1>21 DEF DiffFails, Doing
  <2>2. CallTypeOK' /\ Stage' /\ Fresh' /\ Reported' /\ ~Quiet'
    BY <1>f, <2>1
  <2>3. QED
    BY <1>w, <2>2
<1>22. CASE MissesChanges
  <2>1. PICK seen \in SUBSET Changed(call.since, head) : Then([call EXCEPT !.changed = seen])
    BY <1>22 DEF MissesChanges
  <2>2. /\ call.tool = "detect_changes" /\ call.plan # <<>> /\ call.bodies = {}
    BY <1>22, <1>i, <1>b, AtStatement DEF MissesChanges, Doing
  <2> DEFINE read == [call EXCEPT !.changed = seen]
  <2>3. read \in CallRecord
    <3>1. seen \in SUBSET File
      BY DEF Changed
    <3>2. QED
      BY <1>t, <3>1 DEF CallRecord
  <2>4. CallTypeOK' /\ Stage' /\ Fresh'
    BY <1>t, <1>i, <1>u, <2>1, <2>2, <2>3, ReadTyped DEF CallRecord
  <2>5. Reported' /\ ~Quiet'
    BY <1>22, <1>v DEF MissesChanges, Reported, Quiet, Forward
  <2>6. QED
    BY <1>w, <2>4, <2>5
<1>23. QED
  BY <1>1, <1>2, <1>3, <1>4, <1>5, <1>6, <1>7, <1>8, <1>9, <1>10, <1>11, <1>12, <1>13, <1>14,
     <1>15, <1>16, <1>17, <1>18, <1>19, <1>20, <1>21, <1>22 DEF Read

-----------------------------------------------------------------------------
\* The empty call is one; so is a call that has not begun.
LEMMA NewCallTyped ==
  ASSUME NEW tool \in Tool, NEW x \in About(tool)
  PROVE  /\ NewCall(tool, x) \in CallRecord
         /\ Statements[tool] \in Rests(Statements[tool])
         /\ Statements[tool] # <<>>
         /\ NoCall \in CallRecord
<1>1. StageOf(tool, Statements[tool]) /\ Statements[tool] # <<>> /\ StageOf(tool, <<>>)
  BY DEF StageOf, Tool, Statements, query, context, findReferencing, impact, symbolCoordinates, rename,
         findSymbolBody, getSymbolsOverview, detectChanges, cypher, handleGraph, readProcesses
<1>2. Statements[tool] \in Rests(Statements[tool]) /\ <<>> \in Rests(Statements[tool])
  BY <1>1, StageOfRests
<1>3. Statements[tool] \in Plans /\ <<>> \in Plans
  BY <1>2 DEF Plans
<1>4. x \in Symbol \cup File \cup {Absent}
  BY DEF About
<1>5. NewCall(tool, x) \in CallRecord
  BY <1>3, <1>4 DEF NewCall, CallRecord
<1>6. NoCall \in CallRecord
  BY <1>3 DEF NoCall, NewCall, CallRecord
<1>7. QED
  BY <1>1, <1>2, <1>5, <1>6

\* What has not begun has read nothing yet.
LEMMA NothingRead ==
  ASSUME call'.tool \in Tool, call'.plan = Statements[call'.tool]
  PROVE  ReadsNow'
<1> USE DEF Statements, query, context, findReferencing, impact, symbolCoordinates, rename,
         findSymbolBody, getSymbolsOverview, detectChanges, cypher, handleGraph, readProcesses
<1>1. call'.plan # <<>>
  BY DEF Tool
<1>2. call'.tool = "query" => call'.plan # <<"hydrate">>
  OBVIOUS
<1>3. call'.tool = "context" => call'.plan # <<"from", "to">> /\ call'.plan # <<"to">>
  OBVIOUS
<1>4. call'.tool = "find_referencing" => call'.plan # <<"to", "callers">> /\ call'.plan # <<"callers">>
  OBVIOUS
<1>5. call'.tool = "find_symbol_body" => call'.plan # <<"bodies">>
  OBVIOUS
<1>6. call'.tool = "detect_changes" => call'.plan # <<"diff">>
  OBVIOUS
<1>7. call'.tool = "graph" => call'.plan # <<"edges">>
  OBVIOUS
<1>8. call'.tool = "processes" => call'.plan # <<"steps">>
  OBVIOUS
<1>9. QED
  BY <1>1, <1>2, <1>3, <1>4, <1>5, <1>6, <1>7, <1>8 DEF ReadsNow

\* It stays so while what calls read does not change.
LEMMA ReadsNowKept ==
  ASSUME ReadsNow, UNCHANGED <<work, nodes, bm25, edges, procs, last, call>>
  PROVE  ReadsNow'
<1>1. Present' = Present /\ Subject' = Subject /\ Found(call.refs)' = Found(call.refs)
  BY DEF Present, Subject, Found
<1>2. /\ RowsOf(Named(call.about))' = RowsOf(Named(call.about))
      /\ RowsOf(InFile(call.about))' = RowsOf(InFile(call.about))
      /\ RowsOf(Uid)' = RowsOf(Uid)
  BY <1>1 DEF RowsOf, Named, InFile, Uid
<1>3. /\ EdgesFrom(Subject)' = EdgesFrom(Subject) /\ EdgesTo(Subject)' = EdgesTo(Subject)
      /\ Callers' = Callers
  BY <1>1 DEF EdgesFrom, EdgesTo, Callers
<1>4. RowsOf(Downstream(Subject))' = RowsOf(Downstream(Subject))
  <2>1. Downstream(Subject)' = Downstream(Subject)
    BY <1>1 DEF Downstream, EdgesFrom, Reach, ReachOver, ImpactDepth
  <2>2. QED
    BY <1>1, <2>1 DEF RowsOf
<1>5. /\ BestHits(call.left)' = BestHits(call.left)
      /\ \A best : BestHits(best)' = BestHits(best)
      /\ \A best : RowsOf(best)' = RowsOf(best)
  BY <1>1 DEF BestHits, Atmost, RowsOf
<1>6. QED
  BY <1>1, <1>2, <1>3, <1>4, <1>5 DEF ReadsNow

\* The whole invariant, of the calls and of the index under them.
LEMMA CallInvariant == CallSpec => [](CallTypeOK /\ CallInv)
<1>1. CallInit /\ TypeOK => CallTypeOK /\ CallInv
  <2> SUFFICES ASSUME CallInit, TypeOK PROVE CallTypeOK /\ CallInv
    OBVIOUS
  <2>1. NoCall \in CallRecord
    <3>1. "cypher" \in Tool /\ Absent \in About("cypher")
      BY DEF Tool, Statements, About
    <3>2. QED
      BY <3>1, NewCallTyped
  <2>2. call = NoCall /\ call.tool = "none" /\ call.plan = <<>> /\ call.bodies = {} /\ steady = FALSE
    BY DEF CallInit, NoCall, NewCall
  <2>3. CallTypeOK
    BY <2>1, <2>2 DEF CallTypeOK
  <2>4. CallInv
    BY <2>2 DEF CallInv, Stage, StageOf, Fresh, Asked, Reported, Answered, Quiet
  <2>5. QED
    BY <2>3, <2>4
<1>2. /\ TypeOK' /\ DerivedInv /\ AnalyzedInv /\ CallTypeOK /\ CallInv /\ [CallNext]_callVars
      => CallTypeOK' /\ CallInv'
  <2> SUFFICES ASSUME TypeOK', DerivedInv, AnalyzedInv, CallTypeOK, CallInv, [CallNext]_callVars
               PROVE  CallTypeOK' /\ CallInv'
    OBVIOUS
  <2>1. ASSUME NEW tool \in Tool, NEW x \in About(tool), Ask(tool, x) PROVE CallTypeOK' /\ CallInv'
    <3>1. /\ call' = NewCall(tool, x) /\ call'.tool = tool /\ call'.plan = Statements[tool]
          /\ call'.about = x
          /\ call'.bodies = {} /\ call'.rows = {} /\ call'.refs = {} /\ call'.links = {}
          /\ call'.left = {} /\ call'.flows = {}
          /\ steady' = (last' = head')
      BY <2>1 DEF Ask, NewCall, vars, env
    <3>2. CallTypeOK'
      BY <3>1, NewCallTyped DEF CallTypeOK
    <3>3. Stage'
      BY <3>1, NewCallTyped, StageOfRests DEF Stage
    <3>4. Fresh'
      BY <3>1 DEF Fresh
    <3>5. Reported'
      BY <3>1, NewCallTyped DEF Reported, Answered
    <3>6. ReadsNow'
      BY <3>1, NothingRead
    <3>7. QED
      BY <3>1, <3>2, <3>3, <3>4, <3>5, <3>6 DEF CallInv
  <2>2. CASE Read
    BY <2>2, ReadsKeepInv
  <2>3. CASE Sent
    <3>1. NoCall \in CallRecord
      <4>1. "cypher" \in Tool /\ Absent \in About("cypher")
        BY DEF Tool, Statements, About
      <4>2. QED
        BY <4>1, NewCallTyped
    <3>2. call' = NoCall /\ call'.tool = "none" /\ call'.plan = <<>> /\ call'.bodies = {} /\ steady' = FALSE
      BY <2>3 DEF Sent, NoCall, NewCall
    <3>3. CallTypeOK'
      BY <3>1, <3>2 DEF CallTypeOK
    <3>4. CallInv'
      BY <3>2 DEF CallInv, Stage, StageOf, Fresh, Asked, Reported, Answered, Quiet
    <3>5. QED
      BY <3>3, <3>4
  <2>4. CASE Meanwhile
    <3>1. /\ call' = call /\ ~Asked /\ ~Answered /\ Next
          /\ steady' = (steady /\ last' = head' /\ head' = head)
      BY <2>4 DEF Meanwhile
    <3>2. CallTypeOK'
      BY <3>1 DEF CallTypeOK
    <3>3. Stage' /\ Fresh' /\ Reported'
      BY <3>1 DEF CallInv, Stage, Fresh, Reported, Asked, Answered
    <3>4. ASSUME Quiet' PROVE ReadsNow'
      <4>1. Forward /\ Quiet /\ last = head /\ last' = head' /\ head' = head
        <5>1. faults' = faults
          BY <3>1, FaultsFixed DEF CallTypeOK
        <5>2. QED
          BY <3>1, <3>4, <5>1 DEF Quiet, Forward, CallInv
      <4>2. UNCHANGED <<work, nodes, bm25, edges, procs, last, head, call>>
        BY <3>1, <4>1, CurrentRests DEF CallTypeOK, Quiet
      <4>3. ReadsNow
        BY <4>1 DEF CallInv
      <4>4. QED
        BY <4>2, <4>3, ReadsNowKept
    <3>5. QED
      BY <3>1, <3>2, <3>3, <3>4 DEF CallInv
  <2>5. CASE UNCHANGED callVars
    <3>1. CallTypeOK'
      BY <2>5 DEF CallTypeOK, callVars
    <3>2. UNCHANGED <<work, nodes, bm25, edges, procs, last, head, faults, call, steady>>
      BY <2>5 DEF callVars, vars, env, derived
    <3>3. Stage' /\ Fresh' /\ Reported' /\ (steady' => last' = head')
      BY <3>2 DEF CallInv, Stage, Fresh, Reported, Asked, Answered
    <3>4. Quiet' => ReadsNow'
      BY <3>2, ReadsNowKept DEF CallInv, Quiet, Forward
    <3>5. QED
      BY <3>1, <3>3, <3>4 DEF CallInv
  <2>6. QED
    BY <2>1, <2>2, <2>3, <2>4, <2>5 DEF CallNext
<1>3. QED
  BY <1>1, <1>2, CallsAreSteps, TypeCorrect, DerivedInvariant, AnalyzedInvariant, PTL DEF CallSpec
-----------------------------------------------------------------------------
\* What induction rests on here: a set of natural numbers has a least one.
LEMMA LeastNumber ==
  ASSUME NEW S \in SUBSET Nat, S # {}
  PROVE  \E m \in S : \A k \in S : m <= k
<1> DEFINE R == OpToRel(<, Nat)
<1>1. IsWellFoundedOn(R, Nat)
  BY NatLessThanWellFounded
<1>2. \A x, y \in Nat : x < y => <<x, y>> \in R
  BY DEF OpToRel
<1> HIDE DEF R
<1>3. PICK m \in S : \A k \in S : ~ (<<k, m>> \in R)
  BY <1>1, WFMin
<1>4. ASSUME NEW k \in S PROVE m <= k
  <2>1. ~ (k < m)
    BY <1>2, <1>3
  <2>2. QED
    BY <2>1
<1>5. QED
  BY <1>4

\* A set with 0 and, with each number, the next one, is that of all numbers.
LEMMA NumbersFromZero ==
  ASSUME NEW S, 0 \in S, \A n \in Nat : n \in S => n + 1 \in S
  PROVE  Nat \subseteq S
<1> SUFFICES ASSUME Nat \ S # {} PROVE FALSE
  OBVIOUS
<1>1. PICK m \in Nat \ S : \A k \in Nat \ S : m <= k
  BY LeastNumber
<1>2. m - 1 \in Nat /\ m - 1 \in S
  BY <1>1
<1>3. m - 1 + 1 \in S
  BY <1>2
<1>4. QED
  BY <1>3

\* The symbols of S and what they call.
Near(S) == S \cup { e[2] : e \in { x \in edges : x[1] \in S } }

\* The levels of Reach, as a function.
IsLevels(f, u, d) == f = [i \in 0..d |-> IF i = 0 THEN {u} ELSE Near(f[i-1])]
Levels(u, d) == CHOOSE f : IsLevels(f, u, d)
Level(u, d) == Levels(u, d)[d]

LEMMA ReachIsLevel ==
  ASSUME NEW u, NEW d PROVE Reach(u, d) = { v \in Uid : v \in Level(u, d) }
BY DEF Reach, ReachOver, Level, Levels, IsLevels, Near

LEMMA LevelsExist == ASSUME NEW u, NEW d \in Nat PROVE IsLevels(Levels(u, d), u, d)
<1> DEFINE Some(n) == \E f : IsLevels(f, u, n)
           S == { n \in Nat : Some(n) }
<1>1. Some(0)
  <2> DEFINE f == [i \in 0..0 |-> {u}]
  <2>1. IsLevels(f, u, 0)
    BY DEF IsLevels
  <2>2. QED
    BY <2>1
<1>2. ASSUME NEW n \in Nat, Some(n) PROVE Some(n + 1)
  <2> PICK g : IsLevels(g, u, n)
    BY <1>2
  <2> DEFINE f == [i \in 0..n + 1 |-> IF i = n + 1 THEN Near(g[n]) ELSE g[i]]
  <2>1. ASSUME NEW i \in 0..n + 1 PROVE f[i] = IF i = 0 THEN {u} ELSE Near(f[i-1])
    <3>1. CASE i = n + 1
      BY <3>1
    <3>2. CASE i \in 0..n
      <4>1. f[i] = g[i] /\ (i # 0 => f[i-1] = g[i-1])
        BY <3>2
      <4>2. g[i] = IF i = 0 THEN {u} ELSE Near(g[i-1])
        BY <3>2 DEF IsLevels
      <4>3. QED
        BY <4>1, <4>2
    <3>3. QED
      BY <3>1, <3>2
  <2>2. IsLevels(f, u, n + 1)
    BY <2>1 DEF IsLevels
  <2>3. QED
    BY <2>2
<1> HIDE DEF Some
<1>3. 0 \in S /\ \A n \in Nat : n \in S => n + 1 \in S
  BY <1>1, <1>2
<1>4. Nat \subseteq S
  BY <1>3, NumbersFromZero
<1>5. QED
  BY <1>4 DEF Some, Levels

\* Two functions of levels agree where both are defined.
LEMMA LevelsAgree ==
  ASSUME NEW u, NEW d \in Nat, NEW i \in 0..d
  PROVE  Levels(u, d + 1)[i] = Levels(u, d)[i]
<1> DEFINE f == Levels(u, d + 1)
           g == Levels(u, d)
           S == { n \in Nat : n <= d => f[n] = g[n] }
<1>1. IsLevels(f, u, d + 1) /\ IsLevels(g, u, d)
  BY LevelsExist
<1>2. /\ \A n \in 0..d + 1 : f[n] = IF n = 0 THEN {u} ELSE Near(f[n-1])
      /\ \A n \in 0..d : g[n] = IF n = 0 THEN {u} ELSE Near(g[n-1])
  BY <1>1 DEF IsLevels
<1> HIDE DEF f, g
<1>3. 0 \in S
  BY <1>2
<1>4. ASSUME NEW n \in Nat, n \in S PROVE n + 1 \in S
  BY <1>2, <1>4
<1>5. Nat \subseteq S
  BY <1>3, <1>4, NumbersFromZero
<1>6. QED
  BY <1>5 DEF f, g

\* One level after another, from the symbol itself.
LEMMA LevelSteps ==
  ASSUME NEW u, NEW d \in Nat
  PROVE  Level(u, 0) = {u} /\ Level(u, d + 1) = Near(Level(u, d))
<1>1. IsLevels(Levels(u, 0), u, 0) /\ IsLevels(Levels(u, d + 1), u, d + 1)
  BY LevelsExist
<1>2. Levels(u, 0)[0] = {u} /\ Levels(u, d + 1)[d + 1] = Near(Levels(u, d + 1)[d])
  BY <1>1 DEF IsLevels
<1>3. QED
  BY <1>2, LevelsAgree DEF Level

\* The symbol is at every level, and the others are called by something.
LEMMA LevelBounds ==
  ASSUME NEW u, NEW d \in Nat
  PROVE  u \in Level(u, d) /\ Level(u, d) \subseteq {u} \cup { e[2] : e \in edges }
<1> DEFINE S == { n \in Nat : /\ u \in Level(u, n)
                              /\ Level(u, n) \subseteq {u} \cup { e[2] : e \in edges } }
<1>1. 0 \in S
  BY LevelSteps
<1>2. ASSUME NEW n \in Nat, n \in S PROVE n + 1 \in S
  <2>1. Level(u, n + 1) = Near(Level(u, n))
    BY LevelSteps
  <2>2. \A T : T \subseteq Near(T) /\ Near(T) \subseteq T \cup { e[2] : e \in edges }
    BY DEF Near
  <2>3. QED
    BY <1>2, <2>1, <2>2
<1>3. Nat \subseteq S
  BY <1>1, <1>2, NumbersFromZero
<1>4. QED
  BY <1>3

\* What a symbol reaches is itself and what its callees reach with one call less.
LEMMA FirstCall ==
  ASSUME NEW u, NEW d \in Nat
  PROVE  Level(u, d + 1) = {u} \cup UNION { Level(e[2], d) : e \in EdgesFrom({u}) }
<1> DEFINE callees == EdgesFrom({u})
           Later(n) == UNION { Level(e[2], n) : e \in callees }
           S == { n \in Nat : Level(u, n + 1) = {u} \cup Later(n) }
<1>1. 0 \in S
  <2>1. \A e \in callees : Level(e[2], 0) = {e[2]}
    BY LevelSteps
  <2>2. Later(0) = { e[2] : e \in callees }
    BY <2>1
  <2>3. Level(u, 0 + 1) = Near({u})
    <3>1. 0 \in Nat /\ Level(u, 0) = {u}
      BY LevelSteps
    <3>2. QED
      BY <3>1, LevelSteps
  <2>4. QED
    BY <2>2, <2>3 DEF Near, EdgesFrom
<1>2. ASSUME NEW n \in Nat, n \in S PROVE n + 1 \in S
  <2>1. Level(u, n + 1 + 1) = Near({u} \cup Later(n))
    <3>1. Level(u, n + 1) = {u} \cup Later(n)
      BY <1>2
    <3>2. n + 1 \in Nat
      OBVIOUS
    <3>3. Level(u, n + 1 + 1) = Near(Level(u, n + 1))
      BY <3>2, LevelSteps
    <3>4. QED
      BY <3>1, <3>3
  <2>2. \A e \in callees : e[2] \in Level(e[2], n + 1) /\ Level(e[2], n + 1) = Near(Level(e[2], n))
    BY LevelSteps, LevelBounds
  <2>3. Near({u} \cup Later(n)) = {u} \cup { e[2] : e \in callees } \cup Near(Later(n))
    BY DEF Near, EdgesFrom
  <2>4. Near(Later(n)) = Later(n + 1)
    <3>1. ASSUME NEW v \in Near(Later(n)) PROVE \E e \in callees : v \in Near(Level(e[2], n))
      BY <3>1 DEF Near
    <3>2. ASSUME NEW e \in callees, NEW v \in Near(Level(e[2], n)) PROVE v \in Near(Later(n))
      BY <3>2 DEF Near
    <3>3. QED
      BY <2>2, <3>1, <3>2
  <2>5. { e[2] : e \in callees } \subseteq Later(n + 1)
    BY <2>2
  <2>6. Level(u, n + 1 + 1) = {u} \cup Later(n + 1)
    BY <2>1, <2>3, <2>4, <2>5
  <2>7. QED
    BY <2>6
<1>3. Nat \subseteq S
  BY <1>1, <1>2, NumbersFromZero
<1>4. QED
  BY <1>3
-----------------------------------------------------------------------------
\* The variables hold what their declarations say, whatever runs do under a
\* call: a call has some of its tool's statements left, and has cut bodies out
\* for rows it found only.
THEOREM CallTypes == CallSpec => []CallTypeOK
BY CallInvariant, PTL

\* What detect_changes does not report is indexed, for any history in which no
\* text of a file comes back, with any number of analyze processes.
THEOREM Unreported ==
  ASSUME NoRevert
  PROVE  CallSpec => []UnreportedIsIndexed
<1>1. CallTypeOK /\ CallInv /\ CompleteInv => UnreportedIsIndexed
  <2> SUFFICES ASSUME CallTypeOK, CallInv, CompleteInv,
                      Answered, call.tool = "detect_changes", ~call.failed, Forward,
                      last = call.since, NEW f \in File \ (Skipped \cup call.changed)
               PROVE  RowsThere(f) /\ TermsThere(f)
    BY DEF UnreportedIsIndexed
  <2>1. call.changed = IF call.since = NoCommit THEN { g \in File : Tree[head][g] # Absent }
                       ELSE Changed(call.since, head)
    BY DEF CallInv, Reported, Forward
  <2>2. CASE call.since = NoCommit
    BY <2>1, <2>2 DEF RowsThere, TermsThere, DefsOf
  <2>3. CASE call.since # NoCommit
    <3>1. Settled(last, f)
      BY <2>1, <2>3 DEF Settled, Changed
    <3>2. QED
      BY <3>1 DEF CompleteInv
  <2>4. QED
    BY <2>2, <2>3
<1>2. QED
  BY <1>1, CallInvariant, CallsAreSteps, CompleteInvariant, PTL

\* Every definition at HEAD, except those of skipped files, has its row and its
\* terms in an index that is current.
LEMMA DefinitionsThere ==
  ASSUME TypeOK, CompleteInv, Forward, last = head, NEW u \in Uid,
         u[1] \notin Skipped, u[2] \in DefsOf(Tree[head][u[1]])
  PROVE  /\ nodes[u[1]][u[2]] = Tree[head][u[1]] /\ u \in Present /\ u \in bm25
         /\ <<u, Tree[head][u[1]]>> = <<u, nodes[u[1]][u[2]]>>
<1>1. u[1] \in File /\ u = <<u[1], u[2]>> /\ last # NoCommit
  BY DEF Uid, TypeOK, Commit, NoCommit
<1>2. Settled(last, u[1])
  BY <1>1 DEF Settled
<1>3. RowsThere(u[1]) /\ TermsThere(u[1])
  BY <1>1, <1>2 DEF CompleteInv
<1>4. nodes[u[1]][u[2]] = Tree[head][u[1]] /\ u \in bm25
  BY <1>1, <1>3 DEF RowsThere, TermsThere
<1>5. Tree[head][u[1]] # Absent
  BY DEF DefsOf
<1>6. QED
  BY <1>4, <1>5 DEF Present

LEMMA HeadRowsThere ==
  ASSUME TypeOK, CompleteInv, Forward, last = head, NEW uids \in SUBSET Uid
  PROVE  HeadRows(uids) \subseteq RowsOf(uids \cap Present)
<1>1. ASSUME NEW u \in uids, u[1] \notin Skipped, u[2] \in DefsOf(Tree[head][u[1]])
      PROVE  <<u, Tree[head][u[1]]>> \in RowsOf(uids \cap Present)
  BY <1>1, DefinitionsThere DEF RowsOf
<1>2. QED
  BY <1>1 DEF HeadRows

\* A search finds every symbol that has the term, or as many as it may return.
LEMMA SearchFinds ==
  ASSUME DerivedInv, faults \cap {"overlap", "discarded"} = {}, TypeOK,
         NEW best, BestHits(best)
  PROVE  \/ \A u \in bm25 : u[2] = call.about => u \in best
         \/ Cardinality(RowsOf(best)) = Limit
<1> DEFINE having == { u \in bm25 : u[2] = call.about }
<1>1. IsFiniteSet(having) /\ having \subseteq Uid
  <2>1. IsFiniteSet(Uid)
    BY RepositoryIsFinite, FS_Product DEF Uid
  <2>2. QED
    BY <2>1, FS_Subset DEF TypeOK
<1>2. PICK hits : hits \in Atmost(2 * Limit, having) /\ best \in Atmost(Limit, hits)
  BY DEF BestHits
<1> HIDE DEF having
<1>3. /\ hits \subseteq having /\ best \subseteq hits
      /\ Cardinality(hits) = IF Cardinality(having) <= 2 * Limit THEN Cardinality(having) ELSE 2 * Limit
      /\ Cardinality(best) = IF Cardinality(hits) <= Limit THEN Cardinality(hits) ELSE Limit
  BY <1>2 DEF Atmost
<1>4. IsFiniteSet(hits) /\ IsFiniteSet(best)
  BY <1>1, <1>3, FS_Subset
<1>5. Cardinality(having) \in Nat /\ Cardinality(hits) \in Nat /\ Cardinality(best) \in Nat
  BY <1>1, <1>4, FS_CardinalityType
<1>6. CASE Cardinality(best) = Limit
  <2>1. best \subseteq Present
    BY <1>3 DEF having, DerivedInv, RowsHaveNodes
  <2> DEFINE row == [u \in best |-> <<u, nodes[u[1]][u[2]]>>]
  <2>2. row \in Bijection(best, RowsOf(best))
    <3>1. RowsOf(best) = { row[u] : u \in best }
      BY <2>1 DEF RowsOf
    <3>2. row \in Surjection(best, RowsOf(best))
      BY <3>1 DEF Surjection
    <3>3. row \in Injection(best, RowsOf(best))
      BY <3>1 DEF Injection, IsInjective
    <3>4. QED
      BY <3>2, <3>3 DEF Bijection
  <2>3. Cardinality(RowsOf(best)) = Cardinality(best)
    BY <1>4, <2>2, FS_Bijection DEF ExistsBijection
  <2>4. QED
    BY <1>6, <2>3
<1>7. CASE Cardinality(best) # Limit
  <2>1. Cardinality(best) = Cardinality(hits) /\ Cardinality(hits) < Limit
    BY <1>3, <1>5, <1>7, LimitAssumption
  <2>2. Cardinality(hits) = Cardinality(having)
    BY <1>3, <1>5, <2>1, LimitAssumption
  <2>3. best = hits /\ hits = having
    BY <1>1, <1>3, <1>4, <2>1, <2>2, FS_Subset
  <2>4. QED
    BY <2>3 DEF having
<1>8. QED
  BY <1>6, <1>7

\* A row for each symbol that is there.
LEMMA FoundRows ==
  ASSUME NEW uids PROVE Found(RowsOf(uids)) = uids \cap Present
<1> DEFINE row(u) == <<u, nodes[u[1]][u[2]]>>
<1>1. \A u : row(u)[1] = u
  OBVIOUS
<1>2. RowsOf(uids) = { row(u) : u \in uids \cap Present }
  BY DEF RowsOf
<1> HIDE DEF row
<1>3. { x[1] : x \in { row(u) : u \in uids \cap Present } } = { row(u)[1] : u \in uids \cap Present }
  OBVIOUS
<1>4. { row(u)[1] : u \in uids \cap Present } = uids \cap Present
  BY <1>1
<1>5. QED
  BY <1>2, <1>3, <1>4 DEF Found

\* What `impact` reads is what the symbols reach.
LEMMA ImpactReaches ==
  ASSUME TypeOK, edges \subseteq Present \X Present, NEW uids \in SUBSET Uid
  PROVE  Found(RowsOf(Downstream(uids))) \ uids = (UNION { Reach(u, ImpactDepth) : u \in uids }) \ uids
<1>1. ASSUME NEW u \in uids
      PROVE  Reach(u, ImpactDepth) = {u} \cup UNION { Reach(e[2], ImpactDepth - 1) : e \in EdgesFrom({u}) }
  <2>1. ImpactDepth - 1 \in Nat /\ ImpactDepth - 1 + 1 = ImpactDepth
    BY DEF ImpactDepth
  <2>2. Level(u, ImpactDepth) = {u} \cup UNION { Level(e[2], ImpactDepth - 1) : e \in EdgesFrom({u}) }
    BY <2>1, FirstCall
  <2>3. /\ Reach(u, ImpactDepth) = { v \in Uid : v \in Level(u, ImpactDepth) }
        /\ \A e : Reach(e[2], ImpactDepth - 1) = { v \in Uid : v \in Level(e[2], ImpactDepth - 1) }
    BY ReachIsLevel
  <2> HIDE DEF ImpactDepth
  <2>4. ASSUME NEW v \in Uid
        PROVE  v \in Level(u, ImpactDepth)
                 <=> v = u \/ \E e \in EdgesFrom({u}) : v \in Reach(e[2], ImpactDepth - 1)
    <3>1. v \in Level(u, ImpactDepth) <=> v = u \/ \E e \in EdgesFrom({u}) : v \in Level(e[2], ImpactDepth - 1)
      BY <2>2
    <3>2. \A e : v \in Reach(e[2], ImpactDepth - 1) <=> v \in Level(e[2], ImpactDepth - 1)
      BY <2>3
    <3>3. QED
      BY <3>1, <3>2
  <2>5. u \in Uid /\ \A e : Reach(e[2], ImpactDepth - 1) \subseteq Uid
    BY <2>3
  <2>6. Reach(u, ImpactDepth) = { v \in Uid : v = u \/ \E e \in EdgesFrom({u}) : v \in Reach(e[2], ImpactDepth - 1) }
    BY <2>3, <2>4
  <2>7. QED
    BY <2>5, <2>6
<1>2. Downstream(uids) \subseteq Present
  <2>1. ASSUME NEW e \in edges PROVE Reach(e[2], ImpactDepth - 1) \subseteq Present
    <3>1. ImpactDepth - 1 \in Nat
      BY DEF ImpactDepth
    <3>2. Level(e[2], ImpactDepth - 1) \subseteq {e[2]} \cup { x[2] : x \in edges }
      BY <3>1, LevelBounds
    <3>3. { x[2] : x \in edges } \subseteq Present /\ e[2] \in Present
      OBVIOUS
    <3>4. QED
      BY <3>2, <3>3, ReachIsLevel
  <2>2. QED
    BY <2>1 DEF Downstream, EdgesFrom
<1>3. Found(RowsOf(Downstream(uids))) = Downstream(uids)
  BY <1>2, FoundRows
<1>4. UNION { Reach(u, ImpactDepth) : u \in uids } = uids \cup Downstream(uids)
  <2>1. ASSUME NEW u \in uids, NEW v \in Reach(u, ImpactDepth) PROVE v \in uids \cup Downstream(uids)
    BY <1>1, <2>1 DEF Downstream, EdgesFrom
  <2>2. ASSUME NEW v \in Downstream(uids) PROVE \E u \in uids : v \in Reach(u, ImpactDepth)
    <3>1. PICK e \in EdgesFrom(uids) : v \in Reach(e[2], ImpactDepth - 1)
      BY <2>2 DEF Downstream
    <3>2. e[1] \in uids /\ e \in EdgesFrom({e[1]})
      BY <3>1 DEF EdgesFrom
    <3>3. QED
      BY <1>1, <3>1, <3>2
  <2>3. uids \subseteq UNION { Reach(u, ImpactDepth) : u \in uids }
    BY <1>1
  <2>4. QED
    BY <2>1, <2>2, <2>3
<1>5. QED
  BY <1>3, <1>4

\* A call under which the index rests is answered from the texts at HEAD, and is
\* not torn, for any history in which no text of a file comes back, any number
\* of analyze processes and any limit of a search.
THEOREM SteadyAnswers ==
  ASSUME NoRevert
  PROVE  CallSpec => []SteadyAnswersExact
<1>1. CallTypeOK /\ CallInv /\ CompleteInv /\ DerivedInv /\ AnalyzedInv => SteadyAnswersExact
  <2> SUFFICES ASSUME CallTypeOK, CallInv, CompleteInv, DerivedInv, AnalyzedInv,
                      Answered, ~call.failed, steady, Forward,
                      faults \cap {"busy", "discarded"} = {}
               PROVE  SteadyAnswersExact
    BY DEF SteadyAnswersExact
  <2>1. /\ TypeOK /\ call \in CallRecord /\ call.tool \in Tool /\ call.plan = <<>> /\ last = head
        /\ faults \cap {"overlap", "discarded"} = {}
    <3>1. call.tool \in Tool
      BY DEF CallTypeOK, CallRecord, Answered
    <3>2. QED
      BY <3>1 DEF CallTypeOK, CallInv, Answered, Forward
  <2>2. ReadsNow
    BY DEF CallInv, Quiet
  <2>3. /\ edges \subseteq Present \X Present /\ bm25 \subseteq Present /\ Present \subseteq Uid
        /\ work = Tree[head] /\ Analyzed
    BY <2>1 DEF DerivedInv, RowsHaveNodes, CompleteInv, AnalyzedInv, Present
  <2>4. HeadRowsNamed(call.about) \subseteq RowsOf(Named(call.about))
    <3> DEFINE uids == { u \in Uid : u[2] = call.about }
    <3>1. HeadRows(uids) \subseteq RowsOf(uids \cap Present)
      BY <2>1, HeadRowsThere
    <3>2. uids \cap Present = Named(call.about)
      BY <2>3 DEF Named
    <3>3. QED
      BY <3>1, <3>2 DEF HeadRowsNamed
  <2>5. ASSUME call.tool \in {"symbol_coordinates", "rename"}
        PROVE  HeadRowsNamed(call.about) \subseteq call.rows
    BY <2>1, <2>2, <2>4, <2>5 DEF ReadsNow
  <2>6. ASSUME call.tool = "find_symbol_body"
        PROVE  { <<row, row[2]>> : row \in HeadRowsNamed(call.about) } \subseteq call.bodies
    <3>1. /\ call.rows = RowsOf(Named(call.about))
          /\ \A row \in call.rows : <<row, work[row[1][1]]>> \in call.bodies
      BY <2>1, <2>2, <2>6 DEF ReadsNow
    <3>2. \A row \in HeadRowsNamed(call.about) : row[2] = work[row[1][1]]
      BY <2>3 DEF HeadRowsNamed, HeadRows
    <3>3. QED
      BY <2>4, <3>1, <3>2
  <2>7. ASSUME call.tool = "get_symbols_overview"
        PROVE  HeadRows({call.about} \X Symbol) \subseteq call.rows
    <3> DEFINE uids == ({call.about} \X Symbol) \cap Uid
    <3>1. HeadRows(uids) \subseteq RowsOf(uids \cap Present)
      BY <2>1, HeadRowsThere
    <3>2. uids \cap Present \subseteq InFile(call.about)
      BY DEF InFile
    <3>3. call.rows = RowsOf(InFile(call.about))
      BY <2>1, <2>2, <2>7 DEF ReadsNow
    <3>4. call.about \in File
      BY <2>7 DEF CallTypeOK, About
    <3>5. ({call.about} \X Symbol) = uids
      BY <3>4 DEF Uid
    <3>6. RowsOf(uids \cap Present) \subseteq RowsOf(InFile(call.about))
      BY <3>2 DEF RowsOf
    <3>7. QED
      BY <3>1, <3>3, <3>5, <3>6
  <2>8. ASSUME call.tool = "query"
        PROVE  HeadRowsNamed(call.about) \subseteq call.rows \/ Cardinality(call.rows) = Limit
    <3>1. PICK best \in SUBSET Uid : BestHits(best) /\ call.rows = RowsOf(best)
      BY <2>1, <2>2, <2>8 DEF ReadsNow
    <3>2. CASE Cardinality(RowsOf(best)) = Limit
      BY <3>1, <3>2
    <3>3. CASE \A u \in bm25 : u[2] = call.about => u \in best
      <4>1. ASSUME NEW u \in Uid, u[2] = call.about, u[1] \notin Skipped,
                   u[2] \in DefsOf(Tree[head][u[1]])
            PROVE  <<u, Tree[head][u[1]]>> \in RowsOf(best)
        BY <2>1, <3>3, <4>1, DefinitionsThere DEF RowsOf
      <4>2. QED
        BY <3>1, <4>1 DEF HeadRowsNamed, HeadRows
    <3>4. QED
      BY <2>1, <3>1, <3>2, <3>3, SearchFinds
  <2>9. ASSUME call.tool = "detect_changes" PROVE call.changed = {}
    BY <2>1, <2>2, <2>9 DEF ReadsNow
  <2>10. ASSUME call.tool = "cypher" PROVE call.links = edges
    BY <2>1, <2>2, <2>3, <2>10 DEF ReadsNow
  <2>11. ASSUME call.tool = "context"
         PROVE  call.links = { e \in edges : {e[1], e[2]} \cap Subject # {} }
    <3>1. call.links = EdgesFrom(Subject) \cup EdgesTo(Subject)
      BY <2>1, <2>2, <2>11 DEF ReadsNow
    <3>2. QED
      BY <3>1 DEF EdgesFrom, EdgesTo
  <2>12. ASSUME call.tool = "find_referencing", NEW u \in Uid
         PROVE  (\E s \in Subject : <<u, s>> \in edges) <=> (\E row \in call.refs : row[1] = u)
    <3>1. Callers = Found(call.refs)
      BY <2>1, <2>2, <2>12 DEF ReadsNow
    <3>2. QED
      BY <3>1 DEF Callers, Found
  <2>13. ASSUME call.tool = "impact"
         PROVE  { row[1] : row \in call.refs } \ Subject
                  = (UNION { Reach(u, ImpactDepth) : u \in Subject }) \ Subject
    <3>1. call.refs = RowsOf(Downstream(Subject))
      BY <2>1, <2>2, <2>13 DEF ReadsNow
    <3>2. Subject \in SUBSET Uid
      BY <2>1 DEF Subject, CallRecord
    <3>3. QED
      BY <2>1, <2>3, <3>1, <3>2, ImpactReaches DEF Found
  <2>14. ASSUME call.tool = "graph", NEW e \in call.links PROVE {e[1], e[2]} \subseteq Subject
    <3>1. call.rows = RowsOf(Uid) /\ e \in edges
      BY <2>1, <2>2, <2>14 DEF ReadsNow
    <3>2. Subject = Present
      BY <2>3, <3>1, FoundRows DEF Subject, Found
    <3>3. QED
      BY <2>3, <3>1, <3>2
  <2>15. ASSUME call.tool = "processes", NEW u \in EntryPoints
         PROVE  <<u, Reach(u, MaxDepth)>> \in call.flows
    <3>1. procs[u] = Reach(u, MaxDepth) /\ u \in Uid
      BY <2>3 DEF Analyzed, EntryPoints, EntriesAmong, Present
    <3>2. u \in Reach(u, MaxDepth)
      <4>1. MaxDepth \in Nat
        BY DEF MaxDepth
      <4>2. QED
        BY <3>1, <4>1, LevelBounds, ReachIsLevel
    <3>3. \A v \in Uid : procs[v] # {} => <<v, procs[v]>> \in call.flows
      BY <2>1, <2>2, <2>15 DEF ReadsNow
    <3>4. QED
      BY <3>1, <3>2, <3>3
  <2>16. call.tool \in {"query", "context", "find_referencing", "impact", "symbol_coordinates", "rename",
           "find_symbol_body", "get_symbols_overview", "detect_changes", "cypher", "graph", "processes"}
    BY <2>1 DEF Tool, Statements
  <2>17. CASE call.tool \in {"symbol_coordinates", "rename"}
    BY <2>5, <2>17 DEF SteadyAnswersExact
  <2>18. CASE call.tool = "query"
    BY <2>8, <2>18 DEF SteadyAnswersExact
  <2>19. CASE call.tool = "context"
    BY <2>11, <2>19 DEF SteadyAnswersExact
  <2>20. CASE call.tool = "find_referencing"
    BY <2>12, <2>20 DEF SteadyAnswersExact
  <2>21. CASE call.tool = "impact"
    BY <2>13, <2>21 DEF SteadyAnswersExact
  <2>22. CASE call.tool = "find_symbol_body"
    BY <2>6, <2>22 DEF SteadyAnswersExact
  <2>23. CASE call.tool = "get_symbols_overview"
    BY <2>7, <2>23 DEF SteadyAnswersExact
  <2>24. CASE call.tool = "detect_changes"
    BY <2>9, <2>24 DEF SteadyAnswersExact
  <2>25. CASE call.tool = "cypher"
    BY <2>10, <2>25 DEF SteadyAnswersExact
  <2>26. CASE call.tool = "graph"
    BY <2>14, <2>26 DEF SteadyAnswersExact
  <2>27. CASE call.tool = "processes"
    BY <2>15, <2>27 DEF SteadyAnswersExact
  <2>28. QED
    BY <2>16, <2>17, <2>18, <2>19, <2>20, <2>21, <2>22, <2>23, <2>24, <2>25, <2>26, <2>27
<1>2. QED
  BY <1>1, CallInvariant, CallsAreSteps, CompleteInvariant, DerivedInvariant, AnalyzedInvariant, PTL
=============================================================================
