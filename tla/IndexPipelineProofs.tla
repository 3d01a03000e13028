------------------------- MODULE IndexPipelineProofs -------------------------
(***************************************************************************)
(* Proofs about module IndexPipeline, for every history, every number of   *)
(* files and symbols, and every set of faults.                             *)
(***************************************************************************)
EXTENDS IndexPipelineInvariants, TLAPS

USE PipelineAssumption DEF Commit, NoCommit

\* The parser gives symbols.
LEMMA DefsOfType ==
  ASSUME NEW v \in Version \cup {Absent}
  PROVE  DefsOf(v) \subseteq Symbol
BY DEF DefsOf

\* The resolver gives edges between symbols.
LEMMA ResolutionsType ==
  ASSUME NEW p \in [File -> Version \cup {Absent}], NEW new \in Resolutions(p)
  PROVE  new \subseteq ParsedUids(p) \X ParsedUids(p)
<1> DEFINE sites == Sites(p)
           choice == [x \in sites |-> Candidates(p, x[1], x[3])]
<1>1. \A x \in sites : /\ x \in File \X Symbol \X Symbol
                       /\ <<x[1], x[2]>> \in ParsedUids(p)
                       /\ Candidates(p, x[1], x[3]) \subseteq ParsedUids(p)
  BY DEF Sites, Candidates, ParsedUids, Uid, DefsOf
<1>2. PICK g : /\ \A x \in sites : g[x] \in choice[x]
               /\ new = { <<<<x[1], x[2]>>, g[x]>> : x \in { y \in sites : g[y] # <<y[1], y[2]>> } }
  BY DEF Resolutions
<1>3. \A x \in sites : g[x] \in ParsedUids(p)
  BY <1>1, <1>2
<1>4. QED
  BY <1>1, <1>2, <1>3

\* Every variable keeps its type: the tables hold uids of known files and
\* symbols, and every process is at a known place.
THEOREM TypeCorrect == Spec => []TypeOK
<1>1. Init => TypeOK
  BY DEF Init, TypeOK, PCs, Uid
<1>2. TypeOK /\ [Next]_vars => TypeOK'
  <2> SUFFICES ASSUME TypeOK, [Next]_vars PROVE TypeOK'
    OBVIOUS
  <2> USE DEF TypeOK, PCs, Goto, env, derived, local
  <2>1. ASSUME NEW c \in Commit, MoveHead(c) PROVE TypeOK'
    BY <2>1 DEF MoveHead
  <2>2. ASSUME NEW f \in File, NEW v \in Version \cup {Absent}, EditWorktree(f, v) PROVE TypeOK'
    BY <2>2 DEF EditWorktree
  <2>3. ASSUME NEW r \in Runner, Start(r) PROVE TypeOK'
    BY <2>3 DEF Start
  <2>4. ASSUME NEW r \in Runner, ClearRepo(r) PROVE TypeOK'
    BY <2>4 DEF ClearRepo, ClearedMeta, Uid
  <2>5. ASSUME NEW r \in Runner, PlanFull(r) PROVE TypeOK'
    BY <2>5 DEF PlanFull
  <2>6. ASSUME NEW r \in Runner, PlanPatch(r) PROVE TypeOK'
    BY <2>6 DEF PlanPatch, Outdated, Changed
  <2>7. ASSUME NEW r \in Runner, CollectFiles(r) PROVE TypeOK'
    BY <2>7 DEF CollectFiles
  <2>8. ASSUME NEW r \in Runner, NEW f \in File, DeleteNodesByFile(r, f) PROVE TypeOK'
    BY <2>8 DEF DeleteNodesByFile, Without, EdgesWithout
  <2>9. ASSUME NEW r \in Runner, NEW f \in File, DeleteFails(r, f) PROVE TypeOK'
    BY <2>9 DEF DeleteFails
  <2>10. ASSUME NEW r \in Runner, NEW f \in File, ParseFile(r, f) PROVE TypeOK'
    BY <2>10 DEF ParseFile
  <2>11. ASSUME NEW r \in Runner, UpsertNodes(r) PROVE TypeOK'
    BY <2>11, DefsOfType DEF UpsertNodes, ParsedUids
  <2>12. ASSUME NEW r \in Runner, UpsertEdges(r) PROVE TypeOK'
    BY <2>12, ResolutionsType DEF UpsertEdges, ParsedUids
  <2>13. ASSUME NEW r \in Runner, DeleteAllClusters(r) PROVE TypeOK'
    BY <2>13 DEF DeleteAllClusters, AllNodes, Present
  <2>14. ASSUME NEW r \in Runner, NEW u \in Uid, IndexNodeBM25(r, u) PROVE TypeOK'
    BY <2>14 DEF IndexNodeBM25, TermKey
  <2>15. ASSUME NEW r \in Runner, NEW u \in Uid, TraceProcess(r, u) PROVE TypeOK'
    BY <2>15 DEF TraceProcess, Reach, ReachOver
  <2>16. ASSUME NEW r \in Runner, NEW c \in SUBSET todo[r], UpsertClusterMembers(r, c) PROVE TypeOK'
    BY <2>16 DEF UpsertClusterMembers
  <2>17. ASSUME NEW r \in Runner, SetClusterForNodes(r) PROVE TypeOK'
    BY <2>17 DEF SetClusterForNodes, Present
  <2>18. ASSUME NEW r \in Runner, FindEntryPoints(r) PROVE TypeOK'
    BY <2>18 DEF FindEntryPoints, Traced, EntryPoints, EntriesAmong, Present
  <2>19. ASSUME NEW r \in Runner, RecordCommit(r) PROVE TypeOK'
    BY <2>19 DEF RecordCommit, Recorded, ParsedUids
  <2>20. ASSUME NEW r \in Runner, Embed(r) PROVE TypeOK'
    BY <2>20 DEF Embed, Forget
  <2>21. ASSUME NEW r \in Runner, Crash(r) PROVE TypeOK'
    BY <2>21 DEF Crash, Forget
  <2>22. ASSUME NEW r \in Runner, PlanPartly(r) PROVE TypeOK'
    BY <2>22 DEF PlanPartly, Outdated, Changed
  <2>23. ASSUME NEW r \in Runner, NEW f \in File, DeletesPartly(r, f) PROVE TypeOK'
    BY <2>23 DEF DeletesPartly, Without, EdgesWithout
  <2>24. ASSUME NEW r \in Runner, ClearsPartly(r) PROVE TypeOK'
    BY <2>24 DEF ClearsPartly, Present
  <2>25. ASSUME NEW r \in Runner, FindsPartly(r) PROVE TypeOK'
    BY <2>25 DEF FindsPartly, EntriesAmong, Present
  <2>26. ASSUME NEW r \in Runner, NEW u \in Uid, TracesPartly(r, u) PROVE TypeOK'
    BY <2>26 DEF TracesPartly, ReachOver
  <2>27. ASSUME NEW r \in Runner, CommitNotRecorded(r) PROVE TypeOK'
    BY <2>27 DEF CommitNotRecorded, ParsedUids
  <2>28. CASE UNCHANGED vars
    BY <2>28 DEF vars
  <2>29. QED
    BY <2>1, <2>2, <2>3, <2>4, <2>5, <2>6, <2>7, <2>8, <2>9, <2>10, <2>11, <2>12, <2>13,
       <2>14, <2>15, <2>16, <2>17, <2>18, <2>19, <2>20, <2>21, <2>22, <2>23, <2>24, <2>25,
       <2>26, <2>27, <2>28
       DEF Next, Environment, Step
<1>3. QED
  BY <1>1, <1>2, PTL DEF Spec

-----------------------------------------------------------------------------
\* What a process has in memory.
Held(s) == <<pc[s], target[s], toDelete[s], toParse[s], parsed[s], todo[s], group[s]>>

\* A process changes no other process, nor HEAD, nor the worktree.
LEMMA OthersHeld ==
  ASSUME TypeOK, NEW r \in Runner, Step(r) \/ Crash(r)
  PROVE  env' = env /\ \A s \in Runner \ {r} : Held(s)' = Held(s)
<1> USE DEF TypeOK, Goto, env, Held
<1>1. CASE Start(r) \/ ClearRepo(r) \/ PlanFull(r) \/ PlanPatch(r) \/ CollectFiles(r)
  BY <1>1 DEF Start, ClearRepo, PlanFull, PlanPatch, CollectFiles
<1>2. CASE \E f \in File : DeleteNodesByFile(r, f) \/ DeleteFails(r, f) \/ ParseFile(r, f)
  BY <1>2 DEF DeleteNodesByFile, DeleteFails, ParseFile
<1>3. CASE UpsertNodes(r) \/ UpsertEdges(r) \/ DeleteAllClusters(r)
  BY <1>3 DEF UpsertNodes, UpsertEdges, DeleteAllClusters
<1>4. CASE \E u \in Uid : IndexNodeBM25(r, u) \/ TraceProcess(r, u)
  BY <1>4 DEF IndexNodeBM25, TraceProcess
<1>5. CASE \E c \in SUBSET todo[r] : UpsertClusterMembers(r, c)
  BY <1>5 DEF UpsertClusterMembers
<1>6. CASE SetClusterForNodes(r) \/ FindEntryPoints(r) \/ RecordCommit(r)
  BY <1>6 DEF SetClusterForNodes, FindEntryPoints, RecordCommit
<1>7. CASE Embed(r) \/ Crash(r)
  BY <1>7 DEF Embed, Crash, Forget
<1>8. CASE PlanPartly(r) \/ ClearsPartly(r) \/ FindsPartly(r) \/ CommitNotRecorded(r)
  BY <1>8 DEF PlanPartly, ClearsPartly, FindsPartly, CommitNotRecorded
<1>9. CASE (\E f \in File : DeletesPartly(r, f)) \/ \E u \in Uid : TracesPartly(r, u)
  BY <1>9 DEF DeletesPartly, TracesPartly
<1>10. QED
  BY <1>1, <1>2, <1>3, <1>4, <1>5, <1>6, <1>7, <1>8, <1>9 DEF Step

\* What may go wrong is settled at the start.
LEMMA FaultsFixed ==
  ASSUME TypeOK, [Next]_vars
  PROVE  faults' = faults
<1>1. ASSUME Environment PROVE faults' = faults
  BY <1>1 DEF Environment, MoveHead, EditWorktree
<1>2. ASSUME NEW r \in Runner, Step(r) \/ Crash(r) PROVE faults' = faults
  BY <1>2, OthersHeld DEF env
<1>3. QED
  BY <1>1, <1>2 DEF Next, vars, env

\* A process that takes a step was running already, or starts.
LEMMA RunningOrStarts ==
  ASSUME TypeOK, NEW r \in Runner, Step(r) \/ Crash(r)
  PROVE  pc[r] # "idle" \/ Start(r)
BY DEF Step, Crash, Goto, ClearRepo, PlanFull, PlanPatch, CollectFiles, DeleteNodesByFile,
       DeleteFails, ParseFile, UpsertNodes, UpsertEdges, DeleteAllClusters, IndexNodeBM25,
       TraceProcess, UpsertClusterMembers, SetClusterForNodes, FindEntryPoints, RecordCommit, Embed,
       PlanPartly, DeletesPartly, ClearsPartly, FindsPartly, TracesPartly, CommitNotRecorded

\* Where runs do not overlap, a process works alone.
LEMMA WorksAlone ==
  ASSUME TypeOK, OneAtATime, "overlap" \notin faults,
         NEW r \in Runner, Step(r) \/ Crash(r), NEW s \in Runner \ {r}
  PROVE  /\ pc[s] = "idle" /\ pc'[s] = "idle" /\ target'[s] = NoCommit
         /\ toDelete'[s] = {} /\ toParse'[s] = {} /\ parsed'[s] = [f \in File |-> Absent]
         /\ todo'[s] = {} /\ group'[s] = {}
<1>1. pc[s] = "idle"
  BY RunningOrStarts DEF Start, Idle, OneAtATime
<1>2. Held(s)' = Held(s)
  BY OthersHeld
<1>3. QED
  BY <1>1, <1>2 DEF Held, OneAtATime

\* Start is the only way to run, and a run that ends forgets everything.
LEMMA RunnersTakeTurns == Spec => []OneAtATime
<1>1. Init => OneAtATime
  BY DEF Init, OneAtATime
<1>2. TypeOK /\ TypeOK' /\ OneAtATime /\ [Next]_vars => OneAtATime'
  <2> SUFFICES ASSUME TypeOK, TypeOK', OneAtATime, [Next]_vars PROVE OneAtATime'
    OBVIOUS
  <2>1. ASSUME UNCHANGED <<faults, local>> PROVE OneAtATime'
    BY <2>1 DEF OneAtATime, local
  <2>2. ASSUME NEW r \in Runner, Step(r) \/ Crash(r) PROVE OneAtATime'
    <3>1. \A s \in Runner \ {r} : Held(s)' = Held(s)
      BY <2>2, OthersHeld
    <3>2. faults' = faults
      BY <2>2, OthersHeld DEF env
    <3>3. pc'[r] = "idle" =>
            /\ target'[r] = NoCommit /\ toDelete'[r] = {} /\ toParse'[r] = {}
            /\ parsed'[r] = [f \in File |-> Absent]
            /\ todo'[r] = {}
      <4> SUFFICES ASSUME pc'[r] = "idle" PROVE Embed(r) \/ Crash(r)
        BY DEF Embed, Crash, Forget, TypeOK
      <4>1. pc[r] # "idle" \/ Start(r)
        BY <2>2, RunningOrStarts
      <4>2. QED
        BY <2>2, <4>1 DEF Step, Goto, TypeOK, Start, ClearRepo, PlanFull, PlanPatch, CollectFiles,
             DeleteNodesByFile, DeleteFails, ParseFile, UpsertNodes, UpsertEdges, DeleteAllClusters,
             IndexNodeBM25, TraceProcess, UpsertClusterMembers, SetClusterForNodes,
             FindEntryPoints, RecordCommit, PlanPartly, DeletesPartly, ClearsPartly, FindsPartly,
             TracesPartly, CommitNotRecorded
    <3>4. "overlap" \notin faults => \A s \in Runner \ {r} : pc'[s] = "idle"
      BY <2>2, WorksAlone
    <3>5. pc'[r] # "ids" => group'[r] = {}
      <4>1. CASE Embed(r) \/ Crash(r)
        BY <4>1 DEF Embed, Crash, Forget, TypeOK
      <4>2. CASE SetClusterForNodes(r)
        BY <4>2 DEF SetClusterForNodes, TypeOK
      <4>3. CASE \E c \in SUBSET todo[r] : UpsertClusterMembers(r, c)
        BY <4>3 DEF UpsertClusterMembers, Goto, TypeOK
      <4>4. CASE \E f \in File : DeleteNodesByFile(r, f) \/ DeleteFails(r, f) \/ ParseFile(r, f)
        BY <4>4 DEF DeleteNodesByFile, DeleteFails, ParseFile, OneAtATime
      <4>5. CASE \E u \in Uid : IndexNodeBM25(r, u) \/ TraceProcess(r, u)
        BY <4>5 DEF IndexNodeBM25, TraceProcess, OneAtATime
      <4>6. CASE \/ Start(r) \/ ClearRepo(r) \/ PlanFull(r) \/ PlanPatch(r) \/ CollectFiles(r)
                 \/ UpsertNodes(r) \/ UpsertEdges(r) \/ DeleteAllClusters(r)
                 \/ FindEntryPoints(r) \/ RecordCommit(r)
        BY <4>6 DEF Start, ClearRepo, PlanFull, PlanPatch, CollectFiles, UpsertNodes, UpsertEdges,
             DeleteAllClusters, FindEntryPoints, RecordCommit, Goto, OneAtATime, TypeOK
      <4>7. CASE \/ PlanPartly(r) \/ ClearsPartly(r) \/ FindsPartly(r) \/ CommitNotRecorded(r)
                 \/ \E f \in File : DeletesPartly(r, f)
                 \/ \E u \in Uid : TracesPartly(r, u)
        BY <4>7 DEF PlanPartly, DeletesPartly, ClearsPartly, FindsPartly, TracesPartly,
             CommitNotRecorded, Goto, OneAtATime, TypeOK
      <4>8. QED
        BY <2>2, <4>1, <4>2, <4>3, <4>4, <4>5, <4>6, <4>7 DEF Step
    <3>6. ASSUME NEW s \in Runner, s # r
          PROVE  /\ pc'[s] = "idle" => /\ target'[s] = NoCommit /\ toDelete'[s] = {} /\ toParse'[s] = {}
                                       /\ parsed'[s] = [f \in File |-> Absent] /\ todo'[s] = {}
                 /\ pc'[s] # "ids" => group'[s] = {}
      BY <3>1, <3>6 DEF OneAtATime, Held
    <3>7. QED
      BY <3>2, <3>3, <3>4, <3>5, <3>6 DEF OneAtATime
  <2>3. QED
    BY <2>1, <2>2 DEF Next, Environment, MoveHead, EditWorktree, vars, env
<1>3. QED
  BY <1>1, <1>2, TypeCorrect, PTL DEF Spec

-----------------------------------------------------------------------------
\* Rows are written about symbols that are in `nodes`, and go with them.
LEMMA DerivedInvariant == Spec => []DerivedInv
<1>1. Init => DerivedInv
  BY DEF Init, DerivedInv, RowsHaveNodes, Upserted
<1>2. TypeOK /\ TypeOK' /\ OneAtATime /\ OneAtATime' /\ DerivedInv /\ [Next]_vars => DerivedInv'
  <2> SUFFICES ASSUME TypeOK, TypeOK', OneAtATime, OneAtATime', DerivedInv, [Next]_vars,
                      faults' \cap {"overlap", "discarded"} = {}
               PROVE  DerivedInv'
    BY DEF DerivedInv
  <2>f. "overlap" \notin faults /\ "discarded" \notin faults
    BY FaultsFixed
  <2> DEFINE Work(r) == ParsedUids(parsed[r]) \cup todo[r] \cup group[r]
  <2>a. /\ RowsHaveNodes
        /\ \A r \in Runner : /\ pc[r] \in Upserted => Work(r) \subseteq Present
                             /\ pc[r] # "ids" => group[r] = {}
    BY <2>f DEF DerivedInv, OneAtATime
  <2>b. ASSUME RowsHaveNodes',
               \A r \in Runner : pc'[r] \in Upserted => Work(r)' \subseteq Present'
        PROVE  DerivedInv'
    BY <2>b DEF DerivedInv
  <2>c. ASSUME nodes' = nodes PROVE Present' = Present
    BY <2>c DEF Present
  \* What is left to show of a step of r: the other processes are idle.
  <2>d. ASSUME NEW r \in Runner, Step(r) \/ Crash(r), RowsHaveNodes',
               pc'[r] \in Upserted => Work(r)' \subseteq Present'
        PROVE  DerivedInv'
    <3>1. \A s \in Runner \ {r} : pc'[s] = "idle"
      BY <2>d, <2>f, WorksAlone
    <3>2. QED
      BY <2>d, <2>b, <3>1 DEF Upserted
  <2> USE DEF Goto, env, derived, local
  <2>1. ASSUME UNCHANGED <<nodes, derived, local>> PROVE DerivedInv'
    BY <2>1, <2>a, <2>b, <2>c DEF RowsHaveNodes, ParsedUids
  \* Steps that write no table and come before the upsert.
  <2>2. ASSUME NEW r \in Runner, \/ Start(r) \/ PlanFull(r) \/ PlanPatch(r) \/ PlanPartly(r)
                                 \/ CollectFiles(r)
                                 \/ \E f \in File : DeleteFails(r, f) \/ ParseFile(r, f)
        PROVE  DerivedInv'
    <3>1. UNCHANGED <<nodes, derived, group>> /\ pc'[r] \notin Upserted /\ pc[r] # "ids"
      BY <2>2 DEF Start, PlanFull, PlanPatch, PlanPartly, CollectFiles, DeleteFails, ParseFile, TypeOK, Upserted
    <3>2. RowsHaveNodes'
      BY <3>1, <2>a, <2>c DEF RowsHaveNodes
    <3>3. QED
      BY <3>1, <3>2, <2>2, <2>a, <2>d DEF Step
  <2>3. ASSUME NEW r \in Runner, ClearRepo(r) PROVE DerivedInv'
    <3>1. RowsHaveNodes'
      BY <2>3 DEF ClearRepo, RowsHaveNodes
    <3>2. pc'[r] \notin Upserted /\ group'[r] = {}
      BY <2>3, <2>a DEF ClearRepo, TypeOK, Upserted
    <3>3. QED
      BY <3>1, <3>2, <2>3, <2>d DEF Step
  <2>4. ASSUME NEW r \in Runner, NEW f \in File, DeleteNodesByFile(r, f) PROVE DerivedInv'
    <3> DEFINE gone == { u \in Present : u[1] = f }
    <3>1. Present' = Present \ gone
      BY <2>4 DEF DeleteNodesByFile, Present, Uid, TypeOK
    <3>2. RowsHaveNodes'
      BY <3>1, <2>4, <2>a DEF DeleteNodesByFile, Without, EdgesWithout, RowsHaveNodes
    <3>3. pc'[r] \notin Upserted /\ group'[r] = {}
      BY <2>4, <2>a DEF DeleteNodesByFile, Upserted
    <3>4. QED
      BY <3>2, <3>3, <2>4, <2>d DEF Step
  <2>5. ASSUME NEW r \in Runner, UpsertNodes(r) PROVE DerivedInv'
    <3>1. Present \subseteq Present'
      BY <2>5 DEF UpsertNodes, Present, Uid, TypeOK, DefsOf
    <3>2. ParsedUids(parsed[r]) \subseteq Present'
      BY <2>5 DEF UpsertNodes, Present, ParsedUids, Uid, TypeOK, DefsOf
    <3>3. group'[r] = {} /\ Work(r)' \subseteq Present'
      BY <2>5, <2>a, <3>2 DEF UpsertNodes, TypeOK, ParsedUids
    <3>4. RowsHaveNodes'
      BY <3>1, <2>5, <2>a DEF UpsertNodes, RowsHaveNodes
    <3>5. QED
      BY <3>3, <3>4, <2>5, <2>d DEF Step
  \* From the upsert on, no step takes a row out of `nodes`.
  <2>e. ASSUME NEW r \in Runner, Step(r), nodes' = nodes, parsed' = parsed, RowsHaveNodes',
               pc[r] \in Upserted, todo'[r] \cup group'[r] \subseteq Present
        PROVE  DerivedInv'
    <3>1. Work(r)' \subseteq Present'
      BY <2>e, <2>a, <2>c DEF ParsedUids
    <3>2. QED
      BY <2>e, <3>1, <2>d
  <2> USE DEF Upserted
  <2>6. ASSUME NEW r \in Runner, NEW u \in Uid, IndexNodeBM25(r, u) PROVE DerivedInv'
    <3>1. RowsHaveNodes'
      BY <2>6, <2>a, <2>c DEF IndexNodeBM25, TermKey, RowsHaveNodes
    <3>2. Step(r)
      BY <2>6 DEF Step
    <3>3. QED
      BY <2>6, <3>1, <3>2, <2>a, <2>e DEF IndexNodeBM25, TypeOK
  <2>7. ASSUME NEW r \in Runner, UpsertEdges(r) PROVE DerivedInv'
    <3>1. PICK new \in Resolutions(parsed[r]) : edges' = edges \cup new
      BY <2>7 DEF UpsertEdges
    <3>2. parsed[r] \in [File -> Version \cup {Absent}]
      BY DEF TypeOK
    <3>3. new \subseteq ParsedUids(parsed[r]) \X ParsedUids(parsed[r])
      BY <3>2, ResolutionsType
    <3>4. ParsedUids(parsed[r]) \subseteq Present
      BY <2>7, <2>a DEF UpsertEdges
    <3>5. UNCHANGED <<nodes, bm25, member, cid, embedded>>
      BY <2>7 DEF UpsertEdges
    <3>6. RowsHaveNodes'
      BY <3>1, <3>3, <3>4, <3>5, <2>a, <2>c DEF RowsHaveNodes
    <3>7. QED
      BY <2>7, <3>6, <2>a, <2>e DEF Step, UpsertEdges, TypeOK
  <2>8. ASSUME NEW r \in Runner, DeleteAllClusters(r) PROVE DerivedInv'
    <3>1. RowsHaveNodes'
      BY <2>8, <2>a, <2>c DEF DeleteAllClusters, RowsHaveNodes
    <3>2. QED
      BY <2>8, <3>1, <2>a, <2>e DEF Step, DeleteAllClusters, AllNodes, TypeOK
  <2>9. ASSUME NEW r \in Runner, NEW c \in SUBSET todo[r], UpsertClusterMembers(r, c)
        PROVE  DerivedInv'
    <3>1. RowsHaveNodes'
      BY <2>9, <2>a, <2>c DEF UpsertClusterMembers, RowsHaveNodes
    <3>2. QED
      BY <2>9, <3>1, <2>a, <2>e DEF Step, UpsertClusterMembers, TypeOK
  <2>10. ASSUME NEW r \in Runner, SetClusterForNodes(r) PROVE DerivedInv'
    <3>1. RowsHaveNodes'
      BY <2>10, <2>a, <2>c DEF SetClusterForNodes, RowsHaveNodes
    <3>2. QED
      BY <2>10, <3>1, <2>a, <2>e DEF Step, SetClusterForNodes, TypeOK
  <2>11. ASSUME NEW r \in Runner, FindEntryPoints(r) PROVE DerivedInv'
    <3>1. RowsHaveNodes'
      BY <2>11, <2>a, <2>c DEF FindEntryPoints, RowsHaveNodes
    <3>2. Step(r)
      BY <2>11 DEF Step
    <3>3. QED
      BY <2>11, <3>1, <3>2, <2>a, <2>e DEF FindEntryPoints, Traced, EntryPoints, EntriesAmong, TypeOK
  <2>12. ASSUME NEW r \in Runner, NEW u \in Uid, TraceProcess(r, u) PROVE DerivedInv'
    <3>1. RowsHaveNodes'
      BY <2>12, <2>a, <2>c DEF TraceProcess, RowsHaveNodes
    <3>2. Step(r)
      BY <2>12 DEF Step
    <3>3. QED
      BY <2>12, <3>1, <3>2, <2>a, <2>e DEF TraceProcess, TypeOK
  <2>13. ASSUME NEW r \in Runner, RecordCommit(r) PROVE DerivedInv'
    <3>1. RowsHaveNodes'
      BY <2>13, <2>a, <2>c DEF RecordCommit, RowsHaveNodes
    <3>2. Step(r)
      BY <2>13 DEF Step
    <3>3. QED
      BY <2>13, <3>1, <3>2, <2>a, <2>e DEF RecordCommit, TypeOK
  <2>14. ASSUME NEW r \in Runner, Embed(r) PROVE DerivedInv'
    <3>1. RowsHaveNodes'
      BY <2>14, <2>a, <2>c DEF Embed, RowsHaveNodes
    <3>2. pc'[r] = "idle" /\ group'[r] = {}
      BY <2>14 DEF Embed, Forget, TypeOK
    <3>3. QED
      BY <3>1, <3>2, <2>14, <2>d DEF Step
  <2>15. ASSUME NEW r \in Runner, Crash(r) PROVE DerivedInv'
    <3>1. RowsHaveNodes'
      BY <2>15, <2>a, <2>c DEF Crash, RowsHaveNodes
    <3>2. pc'[r] = "idle" /\ group'[r] = {}
      BY <2>15 DEF Crash, Forget, TypeOK
    <3>3. QED
      BY <3>1, <3>2, <2>15, <2>d DEF Step
  <2>16. QED
    BY <2>1, <2>2, <2>3, <2>4, <2>5, <2>6, <2>7, <2>8, <2>9, <2>10, <2>11, <2>12, <2>13,
       <2>14, <2>15, <2>f
       DEF Next, Environment, Step, MoveHead, EditWorktree, vars, DeletesPartly, ClearsPartly,
           FindsPartly, TracesPartly, CommitNotRecorded
<1>3. QED
  BY <1>1, <1>2, TypeCorrect, RunnersTakeTurns, PTL DEF Spec

\* No search hit, cluster member, vector or call edge of the tables refers to
\* a symbol that is not in `nodes`, in any environment in which runs do not
\* overlap and no delete fails unnoticed: the deletes of DeleteNodesByFile and
\* clearRepo are complete, and every later write is about rows upserted before it
\* by the same process.
THEOREM DerivedRows == Spec => []DerivedRowsHaveNodes
<1>1. DerivedInv => DerivedRowsHaveNodes
  BY DEF DerivedInv, DerivedRowsHaveNodes
<1>2. QED
  BY <1>1, DerivedInvariant, PTL

-----------------------------------------------------------------------------
\* What a step may leave alone: rows, terms and the text at HEAD of a file.
LEMMA RowsKept ==
  ASSUME NEW f \in File, Tree[head'][f] = Tree[head][f],
         nodes' = nodes, bm25 \subseteq bm25'
  PROVE  /\ RowsThere(f) => RowsThere(f)'
         /\ TermsThere(f) => TermsThere(f)'
BY DEF RowsThere, TermsThere

\* A file that has not changed since last_commit has not changed since the
\* commit a running process aims at.
LEMMA SettledTarget ==
  ASSUME NoRevert, TypeOK, NEW r \in Runner, NEW f \in File,
         target[r] # NoCommit, last <= target[r], target[r] <= head, Settled(last, f)
  PROVE  Settled(target[r], f)
<1>1. last \in Commit /\ target[r] \in Commit /\ head \in Commit
  BY DEF TypeOK, Settled
<1>2. QED
  BY <1>1 DEF Settled, NoRevert

\* A file that has not changed since last_commit, or since the commit a run aims
\* at, has its rows: at the latest when the run is past its upsert.
LEMMA CompleteInvariant == ASSUME NoRevert PROVE Spec => []CompleteInv
<1>1. Init => CompleteInv
  BY DEF Init, CompleteInv, RunComplete, Settled, TypeOK, Indexed
<1>2. TypeOK /\ TypeOK' /\ OneAtATime /\ CompleteInv /\ [Next]_vars => CompleteInv'
  <2> SUFFICES ASSUME TypeOK, TypeOK', OneAtATime, CompleteInv, [Next]_vars, Forward' PROVE CompleteInv'
    BY DEF CompleteInv
  <2>a. faults' = faults
    BY FaultsFixed
  <2> USE DEF Goto, env, derived, local
  <2>b. Forward
    BY <2>a DEF Forward
  <2>c. /\ work = Tree[head]
        /\ last <= head
        /\ \A f \in File : Settled(last, f) => RowsThere(f) /\ TermsThere(f)
        /\ \A r \in Runner : RunComplete(r)
    BY <2>b DEF CompleteInv
  <2>d. \A r \in Runner : RunComplete(r)
    BY <2>c
  \* What is left to show of a step of r: the other processes are idle.
  <2>e. ASSUME NEW r \in Runner, Step(r) \/ Crash(r), last' <= head,
               \A f \in File : Settled(last', f) => RowsThere(f)' /\ TermsThere(f)',
               RunComplete(r)'
        PROVE  CompleteInv'
    <3>1. UNCHANGED <<head, work>>
      BY <2>e, OthersHeld DEF env
    <3>2. ASSUME NEW s \in Runner \ {r} PROVE RunComplete(s)'
      <4>1. /\ pc'[s] = "idle" /\ target'[s] = NoCommit /\ toDelete'[s] = {}
            /\ parsed'[s] = [f \in File |-> Absent]
        BY <2>b, <2>e, WorksAlone DEF Forward
      <4>2. QED
        BY <4>1, <3>1 DEF RunComplete, Settled, Indexed, TypeOK
    <3>3. QED
      BY <2>e, <3>1, <3>2, <2>c DEF CompleteInv, Settled
  <2>f. /\ head \in Commit /\ last \in Commit \cup {NoCommit}
        /\ \A r \in Runner : target[r] \in Commit \cup {NoCommit}
    BY DEF TypeOK
  <2>1. ASSUME NEW c \in Commit, MoveHead(c) PROVE CompleteInv'
    <3>1. /\ head < c /\ head' = c /\ work' = Tree[c]
          /\ UNCHANGED <<last, nodes, derived, local>>
      BY <2>1, <2>b, <2>f DEF MoveHead, Forward
    <3>2. ASSUME NEW d \in Commit, d <= head, NEW f \in File, Tree[d][f] = Tree[c][f]
          PROVE  Tree[d][f] = Tree[head][f] /\ Tree[head][f] = Tree[c][f]
      BY <3>1, <3>2, <2>f DEF NoRevert
    <3>3. \A f \in File : Settled(last, f)' => RowsThere(f)' /\ TermsThere(f)'
      <4> SUFFICES ASSUME NEW f \in File, Settled(last, f)' PROVE RowsThere(f)' /\ TermsThere(f)'
        OBVIOUS
      <4>1. Tree[last][f] = Tree[head][f] /\ Tree[head'][f] = Tree[head][f] /\ last # NoCommit
        BY <3>1, <3>2, <2>c, <2>f DEF Settled
      <4>2. RowsThere(f) /\ TermsThere(f)
        BY <4>1, <2>c DEF Settled
      <4>3. QED
        BY <4>1, <4>2, <3>1, RowsKept
    <3>4. ASSUME NEW r \in Runner PROVE RunComplete(r)'
      <4>1. RunComplete(r)
        BY <2>c
      <4>2. /\ target'[r] <= head'
            /\ pc'[r] = "idle" => parsed'[r] = [f \in File |-> Absent]
            /\ pc'[r] # "idle" => target'[r] # NoCommit /\ last' <= target'[r]
        BY <4>1, <3>1, <2>f DEF RunComplete
      <4>3. ASSUME NEW f \in toDelete'[r]
            PROVE  pc'[r] = "patch" /\ last' # NoCommit /\ Tree[last'][f] # Tree[head'][f]
        <5>1. f \in toDelete[r] /\ f \in File
          BY <4>3, <3>1 DEF TypeOK
        <5>2. QED
          BY <5>1, <4>1, <3>1, <3>2, <2>c, <2>f DEF RunComplete
      <4>4. ASSUME NEW f \in File, Settled(target[r], f)'
            PROVE  /\ Settled(target[r], f) /\ Tree[head'][f] = Tree[head][f]
                   /\ Settled(last, f) => Settled(last, f)'
        BY <4>4, <4>1, <3>1, <3>2, <2>f DEF RunComplete, Settled
      <4>5. ASSUME NEW f \in File, Settled(target[r], f)'
            PROVE  /\ parsed'[r][f] \in {Absent, Tree[head'][f]}
                   /\ pc'[r] = "patch" => \/ f \in toParse'[r] \/ parsed'[r][f] = Tree[head'][f]
                                         \/ Settled(last, f)'
                   /\ pc'[r] \in Indexed \cup {"bm25"} => RowsThere(f)'
                   /\ pc'[r] \in Indexed => TermsThere(f)'
                   /\ pc'[r] = "bm25" =>
                        \A s \in DefsOf(Tree[head'][f]) : <<f, s>> \in bm25' \cup todo'[r]
        BY <4>5, <4>4, <4>1, <3>1, RowsKept DEF RunComplete
      <4>6. QED
        BY <4>2, <4>3, <4>5 DEF RunComplete
    <3>5. QED
      BY <3>1, <3>3, <3>4, <2>c, <2>f DEF CompleteInv
  <2>2. ASSUME NEW f \in File, NEW v \in Version \cup {Absent}, EditWorktree(f, v)
        PROVE  CompleteInv'
    BY <2>2, <2>b DEF EditWorktree, Forward
  \* The tables and HEAD as they were: what is left to show is about r.
  <2>g. ASSUME UNCHANGED <<env, last, nodes, bm25>>
        PROVE  /\ last' <= head
               /\ \A f \in File : Settled(last', f) => RowsThere(f)' /\ TermsThere(f)'
               /\ \A c \in Commit \cup {NoCommit}, f \in File : Settled(c, f)' <=> Settled(c, f)
    BY <2>g, <2>c DEF Settled, RowsThere, TermsThere
  <2>3. ASSUME NEW r \in Runner, Start(r) PROVE CompleteInv'
    <3>1. /\ UNCHANGED <<env, last, nodes, bm25, toDelete, parsed>>
          /\ pc[r] = "idle" /\ pc'[r] \in {"plan", "clear"} /\ target'[r] = head
      BY <2>3 DEF Start, TypeOK
    <3>2. RunComplete(r)'
      BY <3>1, <2>d, <2>c, <2>f DEF RunComplete, Indexed
    <3>3. QED
      BY <3>1, <3>2, <2>3, <2>e, <2>g DEF Step
  <2>4. ASSUME NEW r \in Runner, ClearRepo(r) PROVE CompleteInv'
    <3>1. /\ UNCHANGED <<env, toDelete, parsed, target>> /\ last' = NoCommit
          /\ pc[r] = "clear" /\ pc'[r] = "collect"
      BY <2>4 DEF ClearRepo, ClearedMeta, TypeOK
    <3>2. RunComplete(r)'
      <4>1. \A f \in File : Settled(target[r], f)' <=> Settled(target[r], f)
        BY <3>1 DEF Settled
      <4>2. QED
        BY <3>1, <4>1, <2>d, <2>f DEF RunComplete, Indexed
    <3>3. QED
      BY <3>1, <3>2, <2>4, <2>e, <2>f DEF Step, Settled
  <2>5. ASSUME NEW r \in Runner, PlanFull(r) PROVE CompleteInv'
    <3>1. /\ UNCHANGED <<env, last, nodes, bm25, toDelete, parsed, target>>
          /\ pc[r] = "plan" /\ pc'[r] = "collect"
      BY <2>5 DEF PlanFull, TypeOK
    <3>2. RunComplete(r)'
      BY <3>1, <2>d, <2>f, <2>g DEF RunComplete, Indexed
    <3>3. QED
      BY <3>1, <3>2, <2>5, <2>e, <2>g DEF Step
  <2>6. ASSUME NEW r \in Runner, PlanPatch(r) PROVE CompleteInv'
    <3>1. /\ UNCHANGED <<env, last, nodes, bm25, parsed, target>> /\ last # NoCommit
          /\ pc[r] = "plan" /\ pc'[r] = "patch"
          /\ toDelete'[r] = Outdated(last, head)
          /\ toParse'[r] = { f \in Changed(last, head) : Tree[head][f] # Absent }
      BY <2>6 DEF PlanPatch, TypeOK
    <3>2. \A f \in toDelete'[r] : pc'[r] = "patch" /\ last' # NoCommit /\ Tree[last'][f] # Tree[head'][f]
      BY <3>1 DEF Outdated, Changed
    <3>3. ASSUME NEW f \in File, Settled(target[r], f)
          PROVE  f \in toParse'[r] \/ parsed'[r][f] = Tree[head'][f] \/ Settled(last, f)'
      BY <3>1, <3>3, <2>d DEF RunComplete, Changed, Settled
    <3>4. RunComplete(r)'
      BY <3>1, <3>2, <3>3, <2>d, <2>f, <2>g DEF RunComplete, Indexed
    <3>5. QED
      BY <3>1, <3>4, <2>6, <2>e, <2>g DEF Step
  <2>7. ASSUME NEW r \in Runner, CollectFiles(r) PROVE CompleteInv'
    <3>1. /\ UNCHANGED <<env, last, nodes, bm25, parsed, target, toDelete>>
          /\ pc[r] = "collect" /\ pc'[r] = "patch"
          /\ toParse'[r] = { f \in File \ Skipped : work[f] # Absent }
      BY <2>7 DEF CollectFiles, TypeOK
    <3>2. ASSUME NEW f \in File, Settled(target[r], f)
          PROVE  f \in toParse'[r] \/ parsed'[r][f] = Tree[head'][f]
      BY <3>1, <3>2, <2>c, <2>d DEF RunComplete, Settled
    <3>3. RunComplete(r)'
      BY <3>1, <3>2, <2>d, <2>f, <2>g DEF RunComplete, Indexed
    <3>4. QED
      BY <3>1, <3>3, <2>7, <2>e, <2>g DEF Step
  <2>8. ASSUME NEW r \in Runner, NEW f \in File, DeleteNodesByFile(r, f) \/ DeletesPartly(r, f)
        PROVE  CompleteInv'
    <3>1. /\ last # NoCommit /\ Tree[last][f] # Tree[head][f] /\ UNCHANGED <<head, last>>
          /\ \A g \in File \ {f} : nodes'[g] = nodes[g]
          /\ \A u \in bm25 : u[1] # f => u \in bm25'
      BY <2>8, <2>d DEF DeleteNodesByFile, DeletesPartly, RunComplete, TypeOK, Without
    <3>2. \A g \in File : Settled(last, g) => RowsThere(g)' /\ TermsThere(g)'
      BY <3>1, <2>c DEF Settled, RowsThere, TermsThere
    <3>3. /\ UNCHANGED <<pc, target, toParse, parsed>> /\ pc[r] = "patch"
          /\ toDelete'[r] = toDelete[r] \ {f}
      BY <2>8 DEF DeleteNodesByFile, DeletesPartly, TypeOK
    <3>4. RunComplete(r)'
      BY <3>1, <3>3, <2>d DEF RunComplete, Settled, Indexed
    <3>5. QED
      BY <3>1, <3>2, <3>4, <2>8, <2>c, <2>e DEF Step
  <2>9. ASSUME NEW r \in Runner, NEW f \in File, DeleteFails(r, f) PROVE CompleteInv'
    <3>1. /\ UNCHANGED <<env, last, nodes, bm25, parsed, target, toParse, pc>>
          /\ pc[r] = "patch" /\ toDelete'[r] \subseteq toDelete[r]
      BY <2>9 DEF DeleteFails, TypeOK
    <3>2. RunComplete(r)'
      BY <3>1, <2>d, <2>f, <2>g DEF RunComplete, Indexed
    <3>3. QED
      BY <3>1, <3>2, <2>9, <2>e, <2>g DEF Step
  <2>10. ASSUME NEW r \in Runner, NEW f \in File, ParseFile(r, f) PROVE CompleteInv'
    <3>1. /\ UNCHANGED <<env, last, nodes, bm25, target, pc, toDelete>>
          /\ pc[r] = "patch" /\ toDelete[r] = {}
          /\ \A g \in File \ {f} : /\ parsed'[r][g] = parsed[r][g]
                                   /\ g \in toParse[r] => g \in toParse'[r]
          /\ parsed'[r][f] = Tree[head][f]
      BY <2>10, <2>c DEF ParseFile, TypeOK
    <3>2. ASSUME NEW g \in File, Settled(target[r], g)
          PROVE  /\ parsed'[r][g] \in {Absent, Tree[head][g]}
                 /\ g \in toParse'[r] \/ parsed'[r][g] = Tree[head][g] \/ Settled(last, g)
      BY <3>1, <3>2, <2>d DEF RunComplete
    <3>3. RunComplete(r)'
      BY <3>1, <3>2, <2>d, <2>f, <2>g DEF RunComplete, Indexed
    <3>4. QED
      BY <3>1, <3>3, <2>10, <2>e, <2>g DEF Step
  \* The files the run aims at are in the table now.
  <2>11. ASSUME NEW r \in Runner, UpsertNodes(r) PROVE CompleteInv'
    <3>1. /\ UNCHANGED <<env, last, bm25, target, parsed, toDelete>>
          /\ pc[r] = "patch" /\ pc'[r] = "bm25" /\ toDelete[r] = {} /\ toParse[r] = {}
          /\ todo'[r] = ParsedUids(parsed[r])
          /\ \A f \in File, s \in Symbol :
               nodes'[f][s] = IF s \in DefsOf(parsed[r][f]) THEN parsed[r][f] ELSE nodes[f][s]
      BY <2>11 DEF UpsertNodes, TypeOK
    <3>2. ASSUME NEW f \in File, Settled(target[r], f)
          PROVE  /\ RowsThere(f)'
                 /\ \A s \in DefsOf(Tree[head'][f]) : <<f, s>> \in bm25' \cup todo'[r]
      <4>1. parsed[r][f] \in {Absent, Tree[head][f]} /\ Tree[head][f] \in Version \cup {Absent}
        BY <3>2, <2>d DEF RunComplete, TypeOK
      <4>2. DefsOf(Tree[head][f]) \subseteq Symbol
        BY <4>1, DefsOfType
      <4>3. CASE parsed[r][f] = Tree[head][f]
        BY <4>2, <4>3, <3>1 DEF RowsThere, ParsedUids, Uid
      <4>4. CASE Settled(last, f) /\ parsed[r][f] = Absent
        BY <4>2, <4>4, <3>1, <2>c DEF RowsThere, TermsThere, DefsOf
      <4>5. QED
        BY <4>1, <4>3, <4>4, <3>1, <3>2, <2>d DEF RunComplete
    <3>3. ASSUME NEW f \in File, Settled(last, f) PROVE RowsThere(f)' /\ TermsThere(f)'
      <4>1. Settled(target[r], f)
        BY <3>1, <3>3, <2>d, SettledTarget DEF RunComplete
      <4>2. QED
        BY <3>1, <3>2, <3>3, <4>1, <2>c DEF TermsThere
    <3>4. \A c \in Commit \cup {NoCommit}, f \in File : Settled(c, f)' <=> Settled(c, f)
      BY <3>1 DEF Settled
    <3>5. RunComplete(r)'
      BY <3>1, <3>2, <3>4, <2>d, <2>f DEF RunComplete, Indexed
    <3>6. QED
      BY <3>1, <3>3, <3>4, <3>5, <2>c, <2>11, <2>e, <2>f DEF Step
  <2>12. ASSUME NEW r \in Runner, NEW u \in Uid, IndexNodeBM25(r, u) PROVE CompleteInv'
    <3>1. /\ UNCHANGED <<env, last, nodes, target, parsed, toDelete, pc>>
          /\ pc[r] = "bm25"
          /\ bm25 \cup todo[r] \subseteq bm25' \cup todo'[r] /\ bm25 \subseteq bm25'
      BY <2>12 DEF IndexNodeBM25, TermKey, TypeOK
    <3>2. \A c \in Commit \cup {NoCommit}, f \in File : Settled(c, f)' <=> Settled(c, f)
      BY <3>1 DEF Settled
    <3>3. \A f \in File : /\ RowsThere(f) => RowsThere(f)'
                          /\ TermsThere(f) => TermsThere(f)'
      BY <3>1, RowsKept
    <3>4. RunComplete(r)'
      BY <3>1, <3>2, <3>3, <2>d, <2>f DEF RunComplete, Indexed
    <3>5. QED
      BY <3>1, <3>2, <3>3, <3>4, <2>c, <2>12, <2>e, <2>f DEF Step
  <2>13. ASSUME NEW r \in Runner, UpsertEdges(r) PROVE CompleteInv'
    <3>1. /\ UNCHANGED <<env, last, nodes, bm25, target, parsed, toDelete>>
          /\ pc[r] = "bm25" /\ pc'[r] = "clusters" /\ todo[r] = {}
      BY <2>13 DEF UpsertEdges, TypeOK
    <3>2. \A f \in File : /\ RowsThere(f) => RowsThere(f)'
                          /\ TermsThere(f) => TermsThere(f)'
      BY <3>1, RowsKept
    <3>3. \A f \in File : Settled(target[r], f) => TermsThere(f)
      BY <3>1, <2>d DEF RunComplete, TermsThere
    <3>4. RunComplete(r)'
      BY <3>1, <3>2, <3>3, <2>d, <2>f, <2>g DEF RunComplete, Indexed
    <3>5. QED
      BY <3>1, <3>4, <2>13, <2>e, <2>g DEF Step
  \* Clustering and tracing leave `nodes` and `bm25_index` alone.
  <2>14. ASSUME NEW r \in Runner, Step(r), UNCHANGED <<env, last, nodes, bm25, target, parsed, toDelete>>,
                pc[r] \in Indexed, pc'[r] \in Indexed
         PROVE  CompleteInv'
    <3>1. \A f \in File : /\ RowsThere(f) => RowsThere(f)'
                          /\ TermsThere(f) => TermsThere(f)'
      BY <2>14, RowsKept
    <3>2. RunComplete(r)'
      BY <2>14, <3>1, <2>d, <2>f, <2>g DEF RunComplete, Indexed
    <3>3. QED
      BY <2>14, <3>2, <2>e, <2>g DEF Step
  <2>15. ASSUME NEW r \in Runner, \/ DeleteAllClusters(r) \/ SetClusterForNodes(r) \/ FindEntryPoints(r)
                                  \/ ClearsPartly(r) \/ FindsPartly(r)
                                  \/ \E c \in SUBSET todo[r] : UpsertClusterMembers(r, c)
                                  \/ \E u \in Uid : TraceProcess(r, u) \/ TracesPartly(r, u)
         PROVE  CompleteInv'
    <3>1. /\ UNCHANGED <<env, last, nodes, bm25, target, parsed, toDelete>>
          /\ pc[r] \in Indexed /\ pc'[r] \in Indexed
      BY <2>15 DEF DeleteAllClusters, SetClusterForNodes, FindEntryPoints, UpsertClusterMembers,
                   TraceProcess, ClearsPartly, FindsPartly, TracesPartly, Indexed, TypeOK
    <3>2. QED
      BY <3>1, <2>15, <2>14 DEF Step
  <2>16. ASSUME NEW r \in Runner, RecordCommit(r) PROVE CompleteInv'
    <3>1. /\ UNCHANGED <<env, nodes, bm25, target, parsed, toDelete>> /\ last' = target[r]
          /\ pc[r] = "trace" /\ pc'[r] = "embed"
      BY <2>16 DEF RecordCommit, Recorded, TypeOK
    <3>2. \A f \in File : /\ RowsThere(f) => RowsThere(f)'
                          /\ TermsThere(f) => TermsThere(f)'
      BY <3>1, RowsKept
    <3>3. \A f \in File : Settled(last', f) => RowsThere(f)' /\ TermsThere(f)'
      BY <3>1, <3>2, <2>d DEF RunComplete, Indexed
    <3>4. \A f \in File : Settled(target[r], f)' <=> Settled(target[r], f)
      BY <3>1 DEF Settled
    <3>5. RunComplete(r)'
      BY <3>1, <3>4, <2>d, <2>f DEF RunComplete, Indexed
    <3>6. QED
      BY <3>1, <3>3, <3>5, <2>d, <2>16, <2>e DEF Step, RunComplete
  <2>17. ASSUME NEW r \in Runner, Embed(r) \/ Crash(r) PROVE CompleteInv'
    <3>1. /\ UNCHANGED <<env, last, nodes, bm25>>
          /\ pc'[r] = "idle" /\ target'[r] = NoCommit /\ toDelete'[r] = {}
          /\ parsed'[r] = [f \in File |-> Absent]
      BY <2>17 DEF Embed, Crash, Forget, TypeOK
    <3>2. RunComplete(r)'
      BY <3>1, <2>f DEF RunComplete, Settled, Indexed
    <3>3. QED
      BY <3>1, <3>2, <2>17, <2>e, <2>g DEF Step
  <2>18. ASSUME NEW r \in Runner, CommitNotRecorded(r) PROVE CompleteInv'
    <3>1. /\ UNCHANGED <<env, last, nodes, bm25, target, parsed, toDelete>>
          /\ pc[r] = "trace" /\ pc'[r] = "embed"
      BY <2>18 DEF CommitNotRecorded, TypeOK
    <3>2. RunComplete(r)'
      BY <3>1, <2>d, <2>f, <2>g DEF RunComplete, Indexed
    <3>3. QED
      BY <3>1, <3>2, <2>18, <2>e, <2>g DEF Step
  <2>19. ASSUME NEW r \in Runner, PlanPartly(r) PROVE FALSE
    BY <2>19, <2>b DEF PlanPartly, Forward
  <2>20. CASE UNCHANGED vars
    <3>1. \A f \in File : /\ RowsThere(f) => RowsThere(f)'
                          /\ TermsThere(f) => TermsThere(f)'
      BY <2>20, RowsKept DEF vars
    <3>2. ASSUME NEW r \in Runner PROVE RunComplete(r)'
      <4>1. UNCHANGED <<env, last, nodes, bm25, local>>
        BY <2>20 DEF vars
      <4>2. QED
        BY <4>1, <3>1, <2>d, <2>f, <2>g DEF RunComplete
    <3>3. UNCHANGED <<env, last, nodes, bm25>>
      BY <2>20 DEF vars
    <3>4. \A f \in File : Settled(last, f)' => RowsThere(f)' /\ TermsThere(f)'
      BY <3>1, <3>3, <2>c DEF Settled
    <3>5. work' = Tree[head'] /\ last' <= head'
      BY <3>3, <2>c
    <3>6. QED
      BY <3>2, <3>4, <3>5 DEF CompleteInv
  <2>21. QED
    BY <2>1, <2>2, <2>3, <2>4, <2>5, <2>6, <2>7, <2>8, <2>9, <2>10, <2>11, <2>12, <2>13,
       <2>15, <2>16, <2>17, <2>18, <2>19, <2>20 DEF Next, Environment, Step
<1>3. QED
  BY <1>1, <1>2, TypeCorrect, RunnersTakeTurns, PTL DEF Spec

\* Incremental indexing never loses a symbol of a file that git calls
\* unchanged since last_commit, whatever crashes, commits made during a run,
\* failed diffs, failed deletes and discarded errors it meets; provided that runs
\* do not overlap, that no change is dropped from a plan, and that no file's text
\* comes back.
THEOREM Completeness ==
  ASSUME NoRevert
  PROVE  Spec => []IndexComplete
<1>1. CompleteInv => IndexComplete
  BY DEF CompleteInv, IndexComplete
<1>2. QED
  BY <1>1, CompleteInvariant, PTL
-----------------------------------------------------------------------------
\* What is derived from `nodes` and `edges` changes with them only.
LEMMA GraphKept ==
  ASSUME nodes' = nodes, edges' = edges
  PROVE  /\ Present' = Present /\ EntryPoints' = EntryPoints
         /\ \A u \in Uid : Reach(u, MaxDepth)' = Reach(u, MaxDepth)
<1>1. Present' = Present /\ EntryPoints' = EntryPoints
  BY DEF Present, EntryPoints, EntriesAmong
<1>2. ASSUME NEW u \in Uid PROVE Reach(u, MaxDepth)' = Reach(u, MaxDepth)
  BY DEF Reach, ReachOver, MaxDepth
<1>3. QED
  BY <1>1, <1>2

LEMMA EntryPointsAreUids == EntryPoints \subseteq Uid /\ Present \subseteq Uid
BY DEF EntryPoints, EntriesAmong, Present

\* A run clusters and traces the whole table after its last write to it, and
\* aims at a commit newer than the one recorded.
LEMMA AnalyzedInvariant == Spec => []AnalyzedInv
<1>1. Init => AnalyzedInv
  BY DEF Init, AnalyzedInv, RunsForward, RunAnalyzed, Working
<1>2. TypeOK /\ TypeOK' /\ OneAtATime /\ AnalyzedInv /\ [Next]_vars => AnalyzedInv'
  <2> SUFFICES ASSUME TypeOK, TypeOK', OneAtATime, AnalyzedInv, [Next]_vars, Forward',
                      "discarded" \notin faults'
               PROVE  AnalyzedInv'
    BY DEF AnalyzedInv
  <2>a. faults' = faults /\ Forward /\ "discarded" \notin faults
    BY FaultsFixed DEF Forward
  <2>b. RunsForward /\ (last = head => Analyzed) /\ \A r \in Runner : RunAnalyzed(r)
    BY <2>a DEF AnalyzedInv
  <2>c. /\ head \in Commit /\ last \in Commit \cup {NoCommit}
        /\ \A r \in Runner : target[r] \in Commit \cup {NoCommit}
    BY DEF TypeOK
  <2> USE DEF Goto, env, derived, local
  \* What is left to show of a step of r: the other processes are idle.
  <2>d. ASSUME NEW r \in Runner, Step(r) \/ Crash(r), last' <= head, last' = head => Analyzed',
               target'[r] <= head, pc'[r] # "idle" => target'[r] # NoCommit,
               pc'[r] \in Working => last' < target'[r], RunAnalyzed(r)'
        PROVE  AnalyzedInv'
    <3>1. head' = head
      BY <2>d, OthersHeld DEF env
    <3>2. \A s \in Runner \ {r} : pc'[s] = "idle" /\ target'[s] = NoCommit
      BY <2>a, <2>d, WorksAlone DEF Forward
    <3>3. RunsForward'
      BY <2>c, <2>d, <3>1, <3>2 DEF RunsForward, Working
    <3>4. \A s \in Runner : RunAnalyzed(s)'
      BY <2>d, <3>2 DEF RunAnalyzed
    <3>5. QED
      BY <2>d, <3>1, <3>3, <3>4 DEF AnalyzedInv
  \* The tables as they were.
  <2>e. ASSUME UNCHANGED <<nodes, edges, member, cid, procs>>
        PROVE  /\ Analyzed => Analyzed'
               /\ Present' = Present /\ EntryPoints' = EntryPoints
               /\ \A u \in EntryPoints : Reach(u, MaxDepth)' = Reach(u, MaxDepth)
    BY <2>e, GraphKept, EntryPointsAreUids DEF Analyzed
  <2>1. ASSUME NEW c \in Commit, MoveHead(c) PROVE AnalyzedInv'
    <3>1. /\ head < c /\ head' = c /\ UNCHANGED <<last, nodes, derived, local>>
      BY <2>1, <2>a, <2>c DEF MoveHead, Forward
    <3>2. last' # head' /\ RunsForward'
      BY <3>1, <2>b, <2>c DEF RunsForward
    <3>3. \A r \in Runner : RunAnalyzed(r)'
      BY <3>1, <2>b, <2>e DEF RunAnalyzed
    <3>4. QED
      BY <3>2, <3>3 DEF AnalyzedInv
  <2>2. ASSUME NEW f \in File, NEW v \in Version \cup {Absent}, EditWorktree(f, v)
        PROVE  AnalyzedInv'
    BY <2>2, <2>a DEF EditWorktree, Forward
  \* Steps before the upsert, and after the commit is recorded.
  <2>3. ASSUME NEW r \in Runner, Start(r) PROVE AnalyzedInv'
    <3>1. /\ UNCHANGED <<head, last, nodes, edges, member, cid, procs>>
          /\ target'[r] = head /\ pc'[r] \in {"plan", "clear"}
          /\ pc'[r] = "plan" => last # head
      BY <2>3, <2>a DEF Start, TypeOK
    <3>2. last' = head => Analyzed'
      BY <3>1, <2>b, <2>e
    <3>3. /\ last' <= head /\ target'[r] <= head /\ target'[r] # NoCommit
          /\ pc'[r] \in Working => last' < target'[r]
      BY <3>1, <2>b, <2>c DEF RunsForward, Working
    <3>4. RunAnalyzed(r)' /\ Step(r)
      BY <2>3, <3>1 DEF RunAnalyzed, Step
    <3>5. QED
      BY <3>2, <3>3, <3>4, <2>d
  <2>4. ASSUME NEW r \in Runner, ClearRepo(r) PROVE AnalyzedInv'
    <3>1. /\ UNCHANGED <<head, target>> /\ last' = NoCommit
          /\ pc[r] = "clear" /\ pc'[r] = "collect"
      BY <2>4 DEF ClearRepo, ClearedMeta, TypeOK
    <3>2. QED
      BY <2>4, <3>1, <2>b, <2>c, <2>d DEF Step, RunsForward, RunAnalyzed, Working
  \* The run works on the tables: the index is not reported current.
  <2>f. ASSUME NEW r \in Runner, Step(r), UNCHANGED <<head, last, target>>,
               pc[r] \in Working, pc'[r] \in Working, RunAnalyzed(r)'
        PROVE  AnalyzedInv'
    BY <2>f, <2>b, <2>c, <2>d DEF RunsForward, Working
  <2>5. ASSUME NEW r \in Runner, \/ PlanFull(r) \/ PlanPatch(r) \/ CollectFiles(r)
                                 \/ UpsertNodes(r) \/ UpsertEdges(r)
        PROVE  AnalyzedInv'
    <3>1. /\ UNCHANGED <<head, last, target>>
          /\ pc[r] \in Working /\ pc'[r] \in Working \ {"community", "ids", "trace"}
      BY <2>5 DEF PlanFull, PlanPatch, CollectFiles, UpsertNodes, UpsertEdges, Working, TypeOK
    <3>2. QED
      BY <2>5, <3>1, <2>f DEF Step, RunAnalyzed
  <2>6. ASSUME NEW r \in Runner, NEW f \in File,
               DeleteNodesByFile(r, f) \/ DeleteFails(r, f) \/ ParseFile(r, f)
        PROVE  AnalyzedInv'
    <3>1. /\ UNCHANGED <<head, last, target, pc>> /\ pc[r] = "patch"
      BY <2>6 DEF DeleteNodesByFile, DeleteFails, ParseFile
    <3>2. QED
      BY <2>6, <3>1, <2>f DEF Step, RunAnalyzed, Working
  <2>7. ASSUME NEW r \in Runner, NEW u \in Uid, IndexNodeBM25(r, u) PROVE AnalyzedInv'
    <3>1. /\ UNCHANGED <<head, last, target, pc>> /\ pc[r] = "bm25"
      BY <2>7 DEF IndexNodeBM25
    <3>2. QED
      BY <2>7, <3>1, <2>f DEF Step, RunAnalyzed, Working
  \* The whole table is put into communities.
  <2>8. ASSUME NEW r \in Runner, DeleteAllClusters(r) PROVE AnalyzedInv'
    <3>1. /\ UNCHANGED <<head, last, target, nodes, group>> /\ member' = {} /\ cid' = {}
          /\ pc[r] = "clusters" /\ pc'[r] = "community" /\ todo'[r] = Present
      BY <2>8 DEF DeleteAllClusters, AllNodes, TypeOK
    <3>2. group'[r] = {} /\ Present' = Present
      BY <3>1 DEF OneAtATime, Present
    <3>3. QED
      BY <2>8, <3>1, <3>2, <2>f DEF Step, RunAnalyzed, Working
  <2>9. ASSUME NEW r \in Runner, NEW c \in SUBSET todo[r], UpsertClusterMembers(r, c)
        PROVE  AnalyzedInv'
    <3>1. /\ UNCHANGED <<head, last, target, nodes, cid>> /\ member' = member \cup c
          /\ pc[r] = "community" /\ pc'[r] = "ids"
          /\ todo'[r] = todo[r] \ c /\ group'[r] = c
      BY <2>9 DEF UpsertClusterMembers, TypeOK
    <3>2. Present' = Present
      BY <3>1 DEF Present
    <3>3. cid = member /\ member \cup todo[r] = Present
      <4>1. cid \cup group[r] = member /\ member \cup todo[r] = Present
        BY <3>1, <2>b DEF RunAnalyzed
      <4>2. group[r] = {}
        BY <3>1 DEF OneAtATime
      <4>3. QED
        BY <4>1, <4>2
    <3>4. RunAnalyzed(r)'
      BY <3>1, <3>2, <3>3 DEF RunAnalyzed
    <3>5. QED
      BY <2>9, <3>1, <3>4, <2>f DEF Step, Working
  <2>10. ASSUME NEW r \in Runner, SetClusterForNodes(r) PROVE AnalyzedInv'
    <3>1. /\ UNCHANGED <<head, last, target, nodes, member, todo>>
          /\ cid' = cid \cup (group[r] \cap Present)
          /\ pc[r] = "ids" /\ pc'[r] = "community" /\ group'[r] = {}
      BY <2>10 DEF SetClusterForNodes, TypeOK
    <3>2. Present' = Present
      BY <3>1 DEF Present
    <3>3. cid' = member /\ member \cup todo[r] = Present
      BY <3>1, <2>b DEF RunAnalyzed
    <3>4. RunAnalyzed(r)'
      BY <3>1, <3>2, <3>3 DEF RunAnalyzed
    <3>5. QED
      BY <2>10, <3>1, <3>4, <2>f DEF Step, Working
  \* Every entry point of the whole table is traced.
  <2>11. ASSUME NEW r \in Runner, FindEntryPoints(r) PROVE AnalyzedInv'
    <3>1. /\ UNCHANGED <<head, last, target, nodes, edges, member, cid, procs>>
          /\ pc[r] = "community" /\ pc'[r] = "trace"
          /\ todo[r] = {} /\ todo'[r] = EntryPoints
      BY <2>11 DEF FindEntryPoints, Traced, TypeOK
    <3>2. member = Present /\ cid = Present
      <4>1. group[r] = {}
        BY <3>1 DEF OneAtATime
      <4>2. member \cup todo[r] = Present /\ cid \cup group[r] = member
        BY <3>1, <2>b DEF RunAnalyzed
      <4>3. QED
        BY <3>1, <4>1, <4>2
    <3>3. RunAnalyzed(r)'
      BY <3>1, <3>2, <2>e DEF RunAnalyzed
    <3>4. QED
      BY <2>11, <3>1, <3>3, <2>f DEF Step, Working
  <2>12. ASSUME NEW r \in Runner, NEW u \in Uid, TraceProcess(r, u) PROVE AnalyzedInv'
    <3>1. /\ UNCHANGED <<head, last, target, pc, nodes, edges, member, cid>>
          /\ procs' = [procs EXCEPT ![u] = Reach(u, MaxDepth)]
          /\ pc[r] = "trace" /\ todo'[r] = todo[r] \ {u}
      BY <2>12 DEF TraceProcess, TypeOK
    <3>2. /\ Present' = Present /\ EntryPoints' = EntryPoints /\ EntryPoints \subseteq Uid
          /\ \A e \in Uid : Reach(e, MaxDepth)' = Reach(e, MaxDepth)
      BY <3>1, GraphKept, EntryPointsAreUids
    <3>3. procs \in [Uid -> SUBSET Uid]
      BY DEF TypeOK
    <3>4. ASSUME NEW e \in EntryPoints \ todo'[r] PROVE procs'[e] = Reach(e, MaxDepth)
      BY <3>1, <3>2, <3>3, <2>b DEF RunAnalyzed
    <3>5. RunAnalyzed(r)'
      BY <3>1, <3>2, <3>4, <2>b DEF RunAnalyzed
    <3>6. Step(r)
      BY <2>12 DEF Step
    <3>7. QED
      BY <3>1, <3>5, <3>6, <2>f DEF Working
  \* The run is over: what it recorded is analyzed.
  <2>13. ASSUME NEW r \in Runner, RecordCommit(r) PROVE AnalyzedInv'
    <3>1. /\ UNCHANGED <<head, target, nodes, edges, member, cid, procs>> /\ last' = target[r]
          /\ pc[r] = "trace" /\ pc'[r] = "embed" /\ todo[r] = {}
      BY <2>13 DEF RecordCommit, Recorded, TypeOK
    <3>2. Analyzed'
      BY <3>1, <2>b, <2>e DEF RunAnalyzed, Analyzed
    <3>3. QED
      BY <2>13, <3>1, <3>2, <2>b, <2>d DEF Step, RunsForward, RunAnalyzed, Working
  <2>14. ASSUME NEW r \in Runner, Embed(r) \/ Crash(r) PROVE AnalyzedInv'
    <3>1. /\ UNCHANGED <<head, last, nodes, edges, member, cid, procs>>
          /\ pc'[r] = "idle" /\ target'[r] = NoCommit
      BY <2>14 DEF Embed, Crash, Forget, TypeOK
    <3>2. QED
      BY <2>14, <3>1, <2>b, <2>c, <2>d, <2>e DEF Step, RunsForward, RunAnalyzed, Working
  <2>15. CASE UNCHANGED vars
    <3>1. UNCHANGED <<head, last, nodes, derived, local>>
      BY <2>15 DEF vars
    <3>2. RunsForward' /\ (last' = head' => Analyzed') /\ Present' = Present
      BY <3>1, <2>b, <2>e DEF RunsForward
    <3>3. \A r \in Runner : RunAnalyzed(r)'
      BY <3>1, <3>2, <2>b, <2>e DEF RunAnalyzed
    <3>4. QED
      BY <3>2, <3>3 DEF AnalyzedInv
  <2>16. QED
    BY <2>1, <2>2, <2>3, <2>4, <2>5, <2>6, <2>7, <2>8, <2>9, <2>10, <2>11, <2>12, <2>13,
       <2>14, <2>15, <2>a
       DEF Next, Environment, Step, Forward, PlanPartly, DeletesPartly, ClearsPartly, FindsPartly,
           TracesPartly, CommitNotRecorded
<1>3. QED
  BY <1>1, <1>2, TypeCorrect, RunnersTakeTurns, PTL DEF Spec

\* An index reported current is analyzed, whatever crashes, commits made during
\* a run, failed diffs and failed deletes came before, as long as no statement
\* fails unnoticed: a run clusters and traces
\* the whole table after its last write to it, and records its commit after
\* that; and it aims at a commit that is newer than the one recorded.
THEOREM CurrentIsAnalyzed == Spec => []AnalysisCurrent
<1>1. AnalyzedInv => AnalysisCurrent
  BY DEF AnalyzedInv, AnalysisCurrent, Analyzed
<1>2. QED
  BY <1>1, AnalyzedInvariant, PTL
-----------------------------------------------------------------------------
\* A file without a text has no rows.
LEMMA NoRows == RowsOfText(Absent) = [s \in Symbol |-> Absent]
BY DEF RowsOfText, DefsOf

\* Between two runs, and until a run's patch, the table is that of last_commit;
\* from its upsert on, that of HEAD.
LEMMA ExactInvariant == Spec => []ExactInv
<1>1. Init => ExactInv
  BY NoRows DEF Init, ExactInv, RunExact, HoldsFile, TextAt, Before, Working, Indexed
<1>2. TypeOK /\ TypeOK' /\ OneAtATime /\ ExactInv /\ [Next]_vars => ExactInv'
  <2> SUFFICES ASSUME TypeOK, TypeOK', OneAtATime, ExactInv, [Next]_vars, faults' = {}
               PROVE  ExactInv'
    BY DEF ExactInv
  <2>a. faults = {}
    BY FaultsFixed
  <2>b. /\ work = Tree[head] /\ last <= head
        /\ Idle => \A f \in File : HoldsFile(last, f)
        /\ \A r \in Runner : RunExact(r)
    BY <2>a DEF ExactInv
  <2>c. head \in Commit /\ last \in Commit \cup {NoCommit}
    BY DEF TypeOK
  <2> USE DEF Goto, env, derived, local
  \* What is left to show of a step of r: the other processes are idle.
  <2>d. ASSUME NEW r \in Runner, Step(r), last' <= head, RunExact(r)',
               pc'[r] = "idle" => \A f \in File : HoldsFile(last, f)'
        PROVE  ExactInv'
    <3>1. UNCHANGED <<head, work>>
      BY <2>d, OthersHeld DEF env
    <3>2. \A s \in Runner \ {r} : pc'[s] = "idle"
      BY <2>a, <2>d, WorksAlone
    <3>3. \A s \in Runner : RunExact(s)'
      BY <2>d, <3>2 DEF RunExact, Before, Working, Indexed
    <3>4. QED
      BY <2>b, <2>d, <3>1, <3>3 DEF ExactInv, Idle
  \* What holds of the table goes on to hold while nobody writes it.
  <2>e. ASSUME nodes' = nodes
        PROVE  \A c \in Commit \cup {NoCommit}, f \in File : HoldsFile(c, f) => HoldsFile(c, f)'
    BY <2>e DEF HoldsFile
  <2>1. ASSUME NEW c \in Commit, MoveHead(c) PROVE ExactInv'
    <3>1. /\ Idle /\ head < c /\ head' = c /\ work' = Tree[c]
          /\ UNCHANGED <<last, nodes, pc>>
      BY <2>1, <2>a, <2>c DEF MoveHead
    <3>2. \A r \in Runner : pc'[r] = "idle"
      BY <3>1 DEF Idle
    <3>3. \A r \in Runner : RunExact(r)'
      BY <3>2 DEF RunExact, Before, Working, Indexed
    <3>4. \A f \in File : HoldsFile(last, f)'
      BY <3>1, <2>b DEF HoldsFile
    <3>5. QED
      BY <3>1, <3>3, <3>4, <2>b, <2>c DEF ExactInv
  <2>2. ASSUME NEW f \in File, NEW v \in Version \cup {Absent}, EditWorktree(f, v)
        PROVE  ExactInv'
    BY <2>2, <2>a DEF EditWorktree
  <2>3. ASSUME NEW r \in Runner, Start(r) PROVE ExactInv'
    <3>1. /\ UNCHANGED <<env, last, nodes, toDelete, parsed>>
          /\ Idle /\ pc[r] = "idle" /\ target'[r] = head
          /\ pc'[r] \in {"plan", "clear"}
          /\ pc'[r] = "plan" => last # head
      BY <2>3, <2>a DEF Start, TypeOK
    <3>2. toDelete[r] = {} /\ \A f \in File : parsed[r][f] = Absent
      BY <3>1 DEF OneAtATime
    <3>3. \A f \in File : HoldsFile(last, f)'
      BY <3>1, <2>b DEF HoldsFile
    <3>4. RunExact(r)'
      BY <3>1, <3>2, <3>3 DEF RunExact, Working, Before, Indexed
    <3>5. QED
      BY <2>3, <3>1, <3>4, <2>b, <2>d DEF Step
  <2>4. ASSUME NEW r \in Runner, ClearRepo(r) PROVE ExactInv'
    <3>1. /\ UNCHANGED <<env, target, toDelete, parsed>> /\ last' = NoCommit
          /\ pc[r] = "clear" /\ pc'[r] = "collect"
          /\ \A f \in File : nodes'[f] = [s \in Symbol |-> Absent]
      BY <2>4 DEF ClearRepo, ClearedMeta, TypeOK
    <3>2. \A f \in File : HoldsFile(last, f)'
      BY <3>1, NoRows DEF HoldsFile, TextAt
    <3>3. target[r] = head
      BY <3>1, <2>b DEF RunExact
    <3>4. RunExact(r)'
      BY <3>1, <3>2, <3>3, <2>b, <2>c DEF RunExact, Working, Before, Indexed
    <3>5. QED
      BY <2>4, <3>1, <3>4, <2>c, <2>d DEF Step
  <2>5. ASSUME NEW r \in Runner, PlanFull(r) PROVE ExactInv'
    <3>1. /\ UNCHANGED <<env, last, nodes, target, toDelete, parsed>>
          /\ last = NoCommit /\ pc[r] = "plan" /\ pc'[r] = "collect"
      BY <2>5, <2>a DEF PlanFull, TypeOK
    <3>2. \A f \in File : HoldsFile(last, f)'
      BY <3>1, <2>b DEF RunExact, Before, HoldsFile
    <3>3. RunExact(r)'
      BY <3>1, <3>2, <2>b DEF RunExact, Working, Before, Indexed
    <3>4. QED
      BY <2>5, <3>1, <3>3, <2>b, <2>d DEF Step
  <2>6. ASSUME NEW r \in Runner, PlanPatch(r) PROVE ExactInv'
    <3>1. /\ UNCHANGED <<env, last, nodes, target, parsed>>
          /\ last # NoCommit /\ pc[r] = "plan" /\ pc'[r] = "patch"
          /\ toDelete'[r] = Outdated(last, head)
          /\ toParse'[r] = { f \in Changed(last, head) : Tree[head][f] # Absent }
      BY <2>6 DEF PlanPatch, TypeOK
    <3>2. /\ target[r] = head /\ last # head
          /\ \A f \in File : HoldsFile(last, f) /\ parsed[r][f] = Absent
      BY <3>1, <2>b DEF RunExact, Before, Working
    <3>3. ASSUME NEW f \in File PROVE InPatch(r, f)'
      <4>1. /\ f \in toDelete'[r] <=> Tree[last][f] # Tree[head][f] /\ Tree[last][f] # Absent
            /\ f \in toParse'[r] <=> Tree[last][f] # Tree[head][f] /\ Tree[head][f] # Absent
        BY <3>1 DEF Outdated, Changed
      <4>2. nodes[f] = RowsOfText(Tree[last][f]) \/ (f \in Skipped /\ nodes[f] = RowsOfText(Absent))
        BY <3>1, <3>2 DEF HoldsFile, TextAt
      <4>3. QED
        BY <4>1, <4>2, <3>1, <3>2, <2>c DEF InPatch, HoldsFile, TextAt
    <3>4. RunExact(r)'
      BY <3>1, <3>2, <3>3 DEF RunExact, Working, Before, Indexed
    <3>5. QED
      BY <2>6, <3>1, <3>4, <2>b, <2>d DEF Step
  <2>7. ASSUME NEW r \in Runner, CollectFiles(r) PROVE ExactInv'
    <3>1. /\ UNCHANGED <<env, last, nodes, target, toDelete, parsed>>
          /\ pc[r] = "collect" /\ pc'[r] = "patch"
          /\ toParse'[r] = { f \in File \ Skipped : work[f] # Absent }
      BY <2>7 DEF CollectFiles, TypeOK
    <3>2. /\ target[r] = head /\ last # head /\ last = NoCommit /\ toDelete[r] = {}
          /\ \A f \in File : nodes[f] = RowsOfText(Absent) /\ parsed[r][f] = Absent
      BY <3>1, <2>b DEF RunExact, Before, Working, HoldsFile, TextAt
    <3>3. \A f \in File : InPatch(r, f)'
      BY <3>1, <3>2, <2>b, <2>c DEF InPatch, HoldsFile, TextAt
    <3>4. RunExact(r)'
      BY <3>1, <3>2, <3>3 DEF RunExact, Working, Before, Indexed
    <3>5. QED
      BY <2>7, <3>1, <3>4, <2>b, <2>d DEF Step
  \* The patch goes on: one file changes its place in it.
  <2>f. ASSUME NEW r \in Runner, Step(r), UNCHANGED <<env, last, target>>,
               pc[r] = "patch", pc'[r] = "patch", \A f \in File : InPatch(r, f)'
        PROVE  ExactInv'
    <3>1. RunExact(r)'
      BY <2>f, <2>b DEF RunExact, Working, Before, Indexed
    <3>2. QED
      BY <2>f, <3>1, <2>b, <2>d
  <2>8. ASSUME NEW r \in Runner, NEW f \in File, DeleteNodesByFile(r, f) PROVE ExactInv'
    <3>1. /\ UNCHANGED <<env, last, target, pc, toParse, parsed>> /\ pc[r] = "patch"
          /\ f \in toDelete[r] /\ toDelete'[r] = toDelete[r] \ {f}
          /\ nodes'[f] = RowsOfText(Absent)
          /\ \A g \in File \ {f} : nodes'[g] = nodes[g]
      BY <2>8, NoRows DEF DeleteNodesByFile, TypeOK
    <3>2. ASSUME NEW g \in File PROVE InPatch(r, g)'
      <4>1. InPatch(r, g)
        BY <3>1, <2>b DEF RunExact
      <4>2. CASE g = f
        BY <3>1, <4>1, <4>2, <2>c DEF InPatch, HoldsFile, TextAt
      <4>3. CASE g # f
        BY <3>1, <4>1, <4>3 DEF InPatch, HoldsFile
      <4>4. QED
        BY <4>2, <4>3
    <3>3. QED
      BY <2>8, <3>1, <3>2, <2>f DEF Step
  <2>9. ASSUME NEW r \in Runner, NEW f \in File, DeleteFails(r, f) PROVE ExactInv'
    BY <2>9, <2>a DEF DeleteFails
  <2>10. ASSUME NEW r \in Runner, NEW f \in File, ParseFile(r, f) PROVE ExactInv'
    <3>1. /\ UNCHANGED <<env, last, target, pc, toDelete, nodes>> /\ pc[r] = "patch"
          /\ toDelete[r] = {} /\ f \in toParse[r] /\ toParse'[r] = toParse[r] \ {f}
          /\ parsed'[r][f] = Tree[head][f]
          /\ \A g \in File \ {f} : parsed'[r][g] = parsed[r][g]
      BY <2>10, <2>b DEF ParseFile, TypeOK
    <3>2. ASSUME NEW g \in File PROVE InPatch(r, g)'
      <4>1. InPatch(r, g)
        BY <3>1, <2>b DEF RunExact
      <4>2. QED
        BY <3>1, <4>1 DEF InPatch, HoldsFile
    <3>3. QED
      BY <2>10, <3>1, <3>2, <2>f DEF Step
  \* The files that were parsed get their rows; they had none.
  <2>11. ASSUME NEW r \in Runner, UpsertNodes(r) PROVE ExactInv'
    <3>1. /\ UNCHANGED <<env, last, target, toDelete, parsed>>
          /\ pc[r] = "patch" /\ pc'[r] = "bm25" /\ toDelete[r] = {} /\ toParse[r] = {}
          /\ \A f \in File : nodes'[f] = [s \in Symbol |->
                IF s \in DefsOf(parsed[r][f]) THEN parsed[r][f] ELSE nodes[f][s]]
      BY <2>11 DEF UpsertNodes, TypeOK
    <3>2. ASSUME NEW f \in File
          PROVE  /\ HoldsFile(head, f)'
                 /\ parsed'[r][f] # Absent => nodes'[f] = RowsOfText(parsed'[r][f])
      <4>1. InPatch(r, f)
        BY <3>1, <2>b DEF RunExact
      <4>2. CASE nodes[f] = RowsOfText(Absent) /\ parsed[r][f] = Tree[head][f]
        <5>1. nodes'[f] = RowsOfText(Tree[head][f])
          <6>1. \A s \in Symbol : nodes[f][s] = Absent
            BY <4>2, NoRows
          <6>2. nodes'[f] = [s \in Symbol |->
                  IF s \in DefsOf(parsed[r][f]) THEN parsed[r][f] ELSE nodes[f][s]]
            BY <3>1
          <6>3. QED
            BY <6>1, <6>2, <4>2 DEF RowsOfText
        <5>2. QED
          BY <5>1, <4>2, <3>1, <2>c DEF HoldsFile, TextAt
      <4>3. CASE HoldsFile(head, f) /\ parsed[r][f] = Absent
        <5>1. nodes[f] = [s \in Symbol |-> nodes[f][s]]
          BY DEF TypeOK
        <5>2. nodes'[f] = nodes[f]
          BY <3>1, <4>3, <5>1 DEF DefsOf
        <5>3. QED
          BY <5>2, <4>3, <3>1 DEF HoldsFile
      <4>4. QED
        BY <3>1, <4>1, <4>2, <4>3 DEF InPatch
    <3>3. target[r] = head /\ last # head
      BY <3>1, <2>b DEF RunExact, Working
    <3>4. RunExact(r)'
      BY <3>1, <3>2, <3>3 DEF RunExact, Working, Before, Indexed
    <3>5. QED
      BY <2>11, <3>1, <3>4, <2>b, <2>d DEF Step
  \* From the upsert on, `nodes` rests until the next run.
  <2>g. ASSUME NEW r \in Runner, Step(r), UNCHANGED <<env, last, nodes, target, parsed>>,
               pc[r] \in Indexed \cup {"bm25"}, pc'[r] \in Indexed \/ pc' = pc
        PROVE  ExactInv'
    <3>1. RunExact(r)'
      BY <2>g, <2>b DEF RunExact, Working, Before, Indexed, HoldsFile
    <3>2. pc'[r] # "idle"
      BY <2>g DEF Indexed
    <3>3. QED
      BY <2>g, <3>1, <3>2, <2>b, <2>d
  <2>12. ASSUME NEW r \in Runner, NEW u \in Uid, IndexNodeBM25(r, u) \/ TraceProcess(r, u)
         PROVE  ExactInv'
    <3>1. UNCHANGED <<env, last, nodes, target, parsed, pc>> /\ pc[r] \in Indexed \cup {"bm25"}
      BY <2>12 DEF IndexNodeBM25, TraceProcess, Indexed
    <3>2. Step(r)
      BY <2>12 DEF Step
    <3>3. QED
      BY <3>1, <3>2, <2>g
  <2>13. ASSUME NEW r \in Runner, \/ UpsertEdges(r) \/ DeleteAllClusters(r)
                                  \/ SetClusterForNodes(r) \/ FindEntryPoints(r)
                                  \/ \E c \in SUBSET todo[r] : UpsertClusterMembers(r, c)
         PROVE  ExactInv'
    <3>1. /\ UNCHANGED <<env, last, nodes, target, parsed>>
          /\ pc[r] \in Indexed \cup {"bm25"} /\ pc'[r] \in Indexed
      BY <2>13 DEF UpsertEdges, DeleteAllClusters, SetClusterForNodes, FindEntryPoints,
                   UpsertClusterMembers, Indexed, TypeOK
    <3>2. QED
      BY <2>13, <3>1, <2>g DEF Step
  <2>14. ASSUME NEW r \in Runner, RecordCommit(r) PROVE ExactInv'
    <3>1. /\ UNCHANGED <<env, nodes, target>> /\ last' = target[r]
          /\ pc[r] = "trace" /\ pc'[r] = "embed"
      BY <2>14 DEF RecordCommit, Recorded, TypeOK
    <3>2. last' = head /\ \A f \in File : HoldsFile(head, f)
      BY <3>1, <2>b DEF RunExact, Working, Indexed
    <3>3. \A f \in File : HoldsFile(last, f)'
      BY <3>1, <3>2 DEF HoldsFile
    <3>4. RunExact(r)'
      BY <3>1, <3>3 DEF RunExact, Working, Before, Indexed
    <3>5. QED
      BY <2>14, <3>1, <3>2, <3>4, <2>c, <2>d DEF Step
  <2>15. ASSUME NEW r \in Runner, Embed(r) PROVE ExactInv'
    <3>1. /\ UNCHANGED <<env, last, nodes>> /\ pc[r] = "embed" /\ pc'[r] = "idle"
      BY <2>15 DEF Embed, Forget, TypeOK
    <3>2. \A f \in File : HoldsFile(last, f)'
      BY <3>1, <2>b DEF RunExact, Before, HoldsFile
    <3>3. RunExact(r)'
      BY <3>1 DEF RunExact, Working, Before, Indexed
    <3>4. QED
      BY <2>15, <3>1, <3>2, <3>3, <2>b, <2>d DEF Step
  <2>16. ASSUME NEW r \in Runner, Crash(r) PROVE ExactInv'
    BY <2>16, <2>a DEF Crash
  <2>17. CASE UNCHANGED vars
    <3>1. UNCHANGED <<env, last, nodes, local>>
      BY <2>17 DEF vars
    <3>2. ASSUME NEW r \in Runner PROVE RunExact(r)'
      BY <3>1, <2>b DEF RunExact, InPatch, HoldsFile
    <3>3. QED
      BY <3>1, <3>2, <2>b DEF ExactInv, Idle, HoldsFile
  <2>18. QED
    BY <2>1, <2>2, <2>3, <2>4, <2>5, <2>6, <2>7, <2>8, <2>9, <2>10, <2>11, <2>12, <2>13,
       <2>14, <2>15, <2>16, <2>17, <2>a
       DEF Next, Environment, Step, PlanPartly, DeletesPartly, ClearsPartly, FindsPartly,
           TracesPartly, CommitNotRecorded
<1>3. QED
  BY <1>1, <1>2, TypeCorrect, RunnersTakeTurns, PTL DEF Spec
-----------------------------------------------------------------------------
\* The index implements the abstract graph: a move of HEAD and a clear are the
\* steps that take it out of date, RecordCommit publishes the table of HEAD,
\* and no other step changes what is reported.
THEOREM Refinement == Spec => ImplementsSnapshot
<1>1. Init => Snapshot!Init
  BY DEF Init, Snapshot!Init, ReportedGraph
<1>2. TypeOK /\ TypeOK' /\ OneAtATime /\ ExactInv /\ [Next]_vars
        => [Snapshot!Next]_<<head, ReportedGraph>>
  <2> SUFFICES ASSUME TypeOK, TypeOK', OneAtATime, ExactInv, [Next]_vars
               PROVE  [Snapshot!Next]_<<head, ReportedGraph>>
    OBVIOUS
  <2>a. faults' = faults
    BY FaultsFixed
  <2>b. head \in Commit /\ head' \in Commit
    BY DEF TypeOK
  <2> USE DEF Goto, env, derived, local
  <2>1. ASSUME UNCHANGED <<head, last, nodes>> PROVE UNCHANGED <<head, ReportedGraph>>
    BY <2>1, <2>a DEF ReportedGraph
  <2>2. ASSUME NEW c \in Commit, MoveHead(c) PROVE Snapshot!Move
    <3>1. ReportedGraph' = Absent
      BY <2>2, <2>a, <2>b DEF MoveHead, ReportedGraph, ExactInv, TypeOK
    <3>2. QED
      BY <2>2, <3>1 DEF MoveHead, Snapshot!Move
  <2>3. ASSUME NEW r \in Runner, ClearRepo(r) PROVE Snapshot!Invalidate
    <3>1. UNCHANGED head /\ last' = NoCommit
      BY <2>3 DEF ClearRepo, ClearedMeta
    <3>2. QED
      BY <3>1, <2>b DEF Snapshot!Invalidate, ReportedGraph
  \* Rows are written by runs that aim at a commit not recorded yet.
  <2>4. ASSUME NEW r \in Runner, \/ UpsertNodes(r)
                                 \/ \E f \in File : DeleteNodesByFile(r, f) \/ DeletesPartly(r, f)
        PROVE  UNCHANGED <<head, ReportedGraph>>
    <3>1. UNCHANGED <<head, last>> /\ pc[r] = "patch"
      BY <2>4 DEF UpsertNodes, DeleteNodesByFile, DeletesPartly
    <3>2. faults = {} => last # head
      BY <3>1 DEF ExactInv, RunExact, Working
    <3>3. QED
      BY <3>1, <3>2, <2>a DEF ReportedGraph
  <2>5. ASSUME NEW r \in Runner, RecordCommit(r)
        PROVE  Snapshot!Publish \/ UNCHANGED <<head, ReportedGraph>>
    <3>1. /\ UNCHANGED <<head, nodes>> /\ last' = target[r] /\ pc[r] = "trace"
      BY <2>5 DEF RecordCommit, Recorded
    <3>2. CASE faults = {} /\ Skipped = {}
      <4>1. last' = head /\ \A f \in File : nodes[f] = RowsOfText(Tree[head][f])
        BY <3>1, <3>2, <2>b DEF ExactInv, RunExact, Working, Indexed, HoldsFile, TextAt
      <4>2. nodes = [f \in File |-> nodes[f]]
        BY DEF TypeOK
      <4>3. nodes = SymbolsAt[head]
        BY <4>1, <4>2, <2>b DEF SymbolsAt, RowsOfText
      <4>4. QED
        BY <3>1, <3>2, <4>1, <4>3, <2>a DEF Snapshot!Publish, ReportedGraph
    <3>3. CASE ~(faults = {} /\ Skipped = {})
      BY <3>1, <3>3, <2>a DEF ReportedGraph
    <3>4. QED
      BY <3>2, <3>3
  <2>6. ASSUME NEW r \in Runner,
               \/ Start(r) \/ PlanFull(r) \/ PlanPatch(r) \/ CollectFiles(r)
               \/ \E f \in File : DeleteFails(r, f) \/ ParseFile(r, f)
               \/ UpsertEdges(r) \/ DeleteAllClusters(r)
               \/ \E u \in Uid : IndexNodeBM25(r, u) \/ TraceProcess(r, u)
               \/ \E c \in SUBSET todo[r] : UpsertClusterMembers(r, c)
               \/ SetClusterForNodes(r) \/ FindEntryPoints(r) \/ Embed(r) \/ Crash(r)
               \/ PlanPartly(r) \/ ClearsPartly(r) \/ FindsPartly(r) \/ CommitNotRecorded(r)
               \/ \E u \in Uid : TracesPartly(r, u)
        PROVE  UNCHANGED <<head, last, nodes>>
    BY <2>6 DEF Start, PlanFull, PlanPatch, CollectFiles, DeleteFails, ParseFile, UpsertEdges,
       DeleteAllClusters, IndexNodeBM25, TraceProcess, UpsertClusterMembers,
       SetClusterForNodes, FindEntryPoints, Embed, Crash, PlanPartly, ClearsPartly, FindsPartly,
       CommitNotRecorded, TracesPartly
  <2>7. ASSUME NEW f \in File, NEW v \in Version \cup {Absent}, EditWorktree(f, v)
        PROVE  UNCHANGED <<head, last, nodes>>
    BY <2>7 DEF EditWorktree
  <2>8. CASE UNCHANGED vars
    BY <2>8, <2>1 DEF vars
  <2>9. QED
    BY <2>1, <2>2, <2>3, <2>4, <2>5, <2>6, <2>7, <2>8
       DEF Next, Environment, Step, Snapshot!Next
<1>3. QED
  BY <1>1, <1>2, TypeCorrect, RunnersTakeTurns, ExactInvariant, PTL
     DEF Spec, ImplementsSnapshot, Snapshot!Spec
-----------------------------------------------------------------------------
\* The resolver makes an edge of a call site of a parsed text, named as there.
LEMMA ResolutionsAreCalls ==
  ASSUME NEW p \in [File -> Version \cup {Absent}], NEW new \in Resolutions(p), NEW e \in new
  PROVE  /\ p[e[1][1]] # Absent /\ e[1][2] \in DefsOf(p[e[1][1]])
         /\ <<e[1][2], e[2][2]>> \in Calls[p[e[1][1]]]
<1> DEFINE sites == Sites(p)
           choice == [x \in sites |-> Candidates(p, x[1], x[3])]
<1>1. \A x \in sites : /\ p[x[1]] # Absent /\ x[2] \in DefsOf(p[x[1]])
                       /\ <<x[2], x[3]>> \in Calls[p[x[1]]]
                       /\ \A u \in Candidates(p, x[1], x[3]) : u[2] = x[3]
  BY DEF Sites, Candidates, DefsOf
<1>2. PICK g : /\ \A x \in sites : g[x] \in choice[x]
               /\ new = { <<<<x[1], x[2]>>, g[x]>> : x \in { y \in sites : g[y] # <<y[1], y[2]>> } }
  BY DEF Resolutions
<1>3. PICK x \in sites : e = <<<<x[1], x[2]>>, g[x]>>
  BY <1>2
<1>4. g[x][2] = x[3]
  BY <1>1, <1>2
<1>5. QED
  BY <1>1, <1>3, <1>4

\* Every stored call of runs that are left alone is a call the caller's stored
\* text makes: the edges of a file go with its rows, the rows of a file that is
\* parsed were gone, and the edges of a run come from the texts it stored.
THEOREM StoredCallsAreCalls == Spec => []EdgesJustified
<1> DEFINE Justified(e) == LET v == nodes[e[1][1]][e[1][2]]
                           IN  v # Absent /\ <<e[1][2], e[2][2]>> \in Calls[v]
<1>1. Init => EdgesJustified
  BY DEF Init, EdgesJustified
<1>2. TypeOK /\ TypeOK' /\ DerivedInv /\ ExactInv /\ EdgesJustified /\ [Next]_vars => EdgesJustified'
  <2> SUFFICES ASSUME TypeOK, TypeOK', DerivedInv, ExactInv, EdgesJustified, [Next]_vars,
                      faults' = {}, NEW e \in edges'
               PROVE  Justified(e)'
    BY DEF EdgesJustified
  <2>a. faults = {}
    BY FaultsFixed
  <2>b. \A d \in edges : Justified(d) /\ d[1] \in Present /\ d[1][1] \in File /\ d[1][2] \in Symbol
    BY <2>a DEF EdgesJustified, DerivedInv, RowsHaveNodes, Present, Uid
  <2>c. \A r \in Runner : RunExact(r)
    BY <2>a DEF ExactInv
  <2> USE DEF Goto, env, derived, local
  <2>1. ASSUME UNCHANGED <<nodes, edges>> PROVE Justified(e)'
    BY <2>1, <2>b
  <2>2. ASSUME NEW r \in Runner, ClearRepo(r) PROVE Justified(e)'
    BY <2>2 DEF ClearRepo
  <2>3. ASSUME NEW r \in Runner, NEW f \in File, DeleteNodesByFile(r, f) PROVE Justified(e)'
    <3>1. e \in edges /\ e[1][1] # f
      BY <2>3, <2>b DEF DeleteNodesByFile, EdgesWithout
    <3>2. nodes'[e[1][1]] = nodes[e[1][1]]
      BY <2>3, <3>1, <2>b DEF DeleteNodesByFile, TypeOK
    <3>3. QED
      BY <3>1, <3>2, <2>b
  <2>4. ASSUME NEW r \in Runner, UpsertNodes(r) PROVE Justified(e)'
    <3> DEFINE f == e[1][1]
               s == e[1][2]
    <3>1. /\ e \in edges /\ pc[r] = "patch" /\ toDelete[r] = {} /\ toParse[r] = {}
          /\ nodes'[f][s] = IF s \in DefsOf(parsed[r][f]) THEN parsed[r][f] ELSE nodes[f][s]
      BY <2>4, <2>b DEF UpsertNodes
    <3>2. nodes[f] # RowsOfText(Absent)
      BY <3>1, <2>b, NoRows
    <3>3. parsed[r][f] = Absent
      BY <3>1, <3>2, <2>b, <2>c DEF RunExact, InPatch
    <3>4. QED
      BY <3>1, <3>3, <2>b DEF DefsOf
  <2>5. ASSUME NEW r \in Runner, UpsertEdges(r) PROVE Justified(e)'
    <3>1. PICK new \in Resolutions(parsed[r]) : edges' = edges \cup new
      BY <2>5 DEF UpsertEdges
    <3>2. pc[r] = "bm25" /\ nodes' = nodes /\ parsed[r] \in [File -> Version \cup {Absent}]
      BY <2>5 DEF UpsertEdges, TypeOK
    <3>3. CASE e \in new
      <4> DEFINE v == parsed[r][e[1][1]]
      <4>1. /\ v # Absent /\ e[1][2] \in DefsOf(v)
            /\ <<e[1][2], e[2][2]>> \in Calls[v]
        BY <3>2, <3>3, ResolutionsAreCalls
      <4>2. e[1] \in Uid /\ e[1][1] \in File /\ e[1][2] \in Symbol
        BY <3>2, <3>3, ResolutionsType DEF ParsedUids, Uid
      <4>3. nodes[e[1][1]] = RowsOfText(v)
        BY <3>2, <4>1, <4>2, <2>c DEF RunExact
      <4>4. nodes[e[1][1]][e[1][2]] = v
        BY <4>1, <4>2, <4>3 DEF RowsOfText
      <4>5. QED
        BY <3>2, <4>1, <4>4
    <3>4. QED
      BY <3>1, <3>2, <3>3, <2>b
  <2>6. ASSUME NEW r \in Runner,
               \/ Start(r) \/ PlanFull(r) \/ PlanPatch(r) \/ CollectFiles(r)
               \/ \E f \in File : DeleteFails(r, f) \/ ParseFile(r, f)
               \/ DeleteAllClusters(r)
               \/ \E u \in Uid : IndexNodeBM25(r, u) \/ TraceProcess(r, u)
               \/ \E c \in SUBSET todo[r] : UpsertClusterMembers(r, c)
               \/ SetClusterForNodes(r) \/ FindEntryPoints(r) \/ RecordCommit(r)
               \/ Embed(r) \/ Crash(r)
        PROVE  UNCHANGED <<nodes, edges>>
    BY <2>6 DEF Start, PlanFull, PlanPatch, CollectFiles, DeleteFails, ParseFile,
       DeleteAllClusters, IndexNodeBM25, TraceProcess, UpsertClusterMembers,
       SetClusterForNodes, FindEntryPoints, RecordCommit, Embed, Crash
  <2>7. QED
    BY <2>1, <2>2, <2>3, <2>4, <2>5, <2>6, <2>a
       DEF Next, Environment, Step, MoveHead, EditWorktree, vars, PlanPartly, DeletesPartly,
           ClearsPartly, FindsPartly, TracesPartly, CommitNotRecorded
<1>3. QED
  BY <1>1, <1>2, TypeCorrect, DerivedInvariant, ExactInvariant, PTL DEF Spec
-----------------------------------------------------------------------------
\* A file that is covered stays so in a step that covers it, or that takes none
\* of its rows and terms away.
LEMMA CoverKept ==
  ASSUME TypeOK, NEW r \in Runner, Step(r), NEW f \in File, Covered(f),
         \/ Searchable(f)' \/ WillIndex(r, f)'
         \/ /\ RowsThere(f) => RowsThere(f)'
            /\ \A s \in Symbol : <<f, s>> \in bm25 => <<f, s>> \in bm25'
            /\ WillIndex(r, f) => Searchable(f)' \/ WillIndex(r, f)'
  PROVE  Covered(f)'
<1>1. head' = head /\ \A s \in Runner \ {r} : Held(s)' = Held(s)
  BY OthersHeld DEF env
<1>2. DefsOf(Tree[head][f]) \subseteq Symbol
  BY DEF DefsOf, TypeOK
<1>3. CASE Searchable(f)' \/ WillIndex(r, f)'
  BY <1>3 DEF Covered
<1>4. CASE ~(Searchable(f)' \/ WillIndex(r, f)')
  <2>1. /\ RowsThere(f) => RowsThere(f)'
        /\ \A s \in Symbol : <<f, s>> \in bm25 => <<f, s>> \in bm25'
        /\ ~WillIndex(r, f)
    BY <1>4
  <2>2. Searchable(f) => Searchable(f)'
    BY <1>1, <1>2, <2>1 DEF Searchable, TermsThere
  <2>3. ASSUME NEW s \in Runner, WillIndex(s, f) PROVE WillIndex(s, f)'
    <3>1. Held(s)' = Held(s)
      BY <1>1, <2>1, <2>3
    <3>2. QED
      BY <1>1, <1>2, <2>1, <2>3, <3>1 DEF WillIndex, Held
  <2>4. QED
    BY <2>2, <2>3 DEF Covered
<1>5. QED
  BY <1>3, <1>4

\* No step uncovers a file, and a run that comes to record HEAD covers every file
\* it does not find settled.
LEMMA SettlingCovers ==
  ASSUME TypeOK, TypeOK', OneAtATime, Survived, NothingForgotten,
         NEW r \in Runner, Step(r), NEW f \in File \ Skipped
  PROVE  /\ Covered(f) => Covered(f)'
         /\ pc'[r] \in Recording => pc[r] \in Recording \/ Covered(f)'
<1> DEFINE Kept == /\ RowsThere(f) => RowsThere(f)'
                   /\ \A s \in Symbol : <<f, s>> \in bm25 => <<f, s>> \in bm25'
<1>a. Covered(f) /\ Kept /\ (WillIndex(r, f) => Searchable(f)' \/ WillIndex(r, f)') => Covered(f)'
  BY CoverKept
<1>b. Searchable(f)' \/ WillIndex(r, f)' => Covered(f)'
  BY DEF Covered
<1>c. /\ head' = head /\ work = Tree[head] /\ head \in Commit
      /\ \A g \in File : parsed[r][g] \in {Absent, Tree[head][g]}
      /\ \A g \in toDelete[r] : g \in toParse[r] \/ Tree[head][g] = Absent
  BY OthersHeld DEF env, NothingForgotten, SameHead, TypeOK
<1>d. DefsOf(Tree[head][f]) \subseteq Symbol /\ (Tree[head][f] = Absent => DefsOf(Tree[head][f]) = {})
  BY <1>c DEF DefsOf
<1>e. Tree[head][f] = Absent => Searchable(f)'
  BY <1>c, <1>d DEF Searchable, RowsThere, TermsThere
<1>g. ASSUME UNCHANGED <<nodes, bm25>> PROVE Kept
  BY <1>c, <1>g DEF RowsThere
<1> USE DEF Goto, env, derived, local
<1>1. CASE ClearRepo(r) \/ PlanFull(r)
  <2>1. pc'[r] = "collect"
    BY <1>1 DEF ClearRepo, PlanFull, TypeOK
  <2>2. QED
    BY <2>1, <1>b DEF WillIndex
<1>2. CASE CollectFiles(r)
  <2>1. pc'[r] = "patch" /\ toParse'[r] = { g \in File \ Skipped : work[g] # Absent }
    BY <1>2 DEF CollectFiles, TypeOK
  <2>2. QED
    BY <2>1, <1>b, <1>c, <1>e DEF WillIndex
<1>3. CASE PlanPatch(r)
  <2>1. /\ UNCHANGED <<nodes, bm25, last>> /\ last # NoCommit /\ pc[r] = "plan" /\ pc'[r] = "patch"
        /\ toParse'[r] = { g \in Changed(last, head) : Tree[head][g] # Absent }
    BY <1>3 DEF PlanPatch, TypeOK
  <2>2. Covered(f) => Covered(f)'
    BY <2>1, <1>a, <1>g DEF WillIndex
  <2>3. CASE f \in Changed(last, head)
    BY <2>1, <2>3, <1>b, <1>e DEF WillIndex
  <2>4. CASE f \notin Changed(last, head)
    <3>1. Settled(last, f)
      BY <2>1, <2>4 DEF Settled, Changed
    <3>2. QED
      BY <3>1, <2>2 DEF NothingForgotten
  <2>5. QED
    BY <2>2, <2>3, <2>4
<1>4. CASE \E g \in File : DeleteNodesByFile(r, g) \/ DeletesPartly(r, g)
  <2>1. PICK g \in File : DeleteNodesByFile(r, g) \/ DeletesPartly(r, g)
    BY <1>4
  <2>2. /\ pc[r] = "patch" /\ pc' = pc /\ g \in toDelete[r] /\ UNCHANGED <<toParse, parsed>>
        /\ nodes' = [nodes EXCEPT ![g] = [s \in Symbol |-> Absent]]
        /\ bm25 \ { u \in Present : u[1] = g } \subseteq bm25'
    BY <2>1 DEF DeleteNodesByFile, DeletesPartly, Without
  <2>3. CASE g = f
    BY <2>2, <2>3, <1>b, <1>c, <1>e DEF WillIndex, Recording
  <2>4. CASE g # f
    <3>1. Kept
      BY <2>2, <2>4, <1>c DEF RowsThere, TypeOK
    <3>2. WillIndex(r, f) => WillIndex(r, f)'
      BY <2>2, <1>c DEF WillIndex
    <3>3. QED
      BY <2>2, <3>1, <3>2, <1>a DEF Recording
  <2>5. QED
    BY <2>3, <2>4
<1>5. CASE \E g \in File : ParseFile(r, g)
  <2>1. PICK g \in File : ParseFile(r, g)
    BY <1>5
  <2>2. /\ pc[r] = "patch" /\ UNCHANGED <<pc, nodes, bm25>>
        /\ toParse' = [toParse EXCEPT ![r] = @ \ {g}]
        /\ parsed' = [parsed EXCEPT ![r][g] = Tree[head][g]]
    BY <2>1, <1>c DEF ParseFile
  <2>3. WillIndex(r, f) => WillIndex(r, f)'
    BY <2>2, <1>c DEF WillIndex, TypeOK
  <2>4. QED
    BY <2>2, <2>3, <1>a, <1>g DEF Recording
<1>6. CASE UpsertNodes(r)
  <2>1. /\ pc[r] = "patch" /\ pc'[r] = "bm25" /\ toParse[r] = {} /\ UNCHANGED <<bm25, parsed>>
        /\ \A s \in Symbol : nodes'[f][s] =
             IF s \in DefsOf(parsed[r][f]) THEN parsed[r][f] ELSE nodes[f][s]
        /\ todo'[r] = ParsedUids(parsed[r])
    BY <1>6 DEF UpsertNodes, TypeOK
  <2>2. Kept
    BY <2>1, <1>c, <1>d DEF RowsThere, DefsOf
  <2>3. ASSUME WillIndex(r, f) PROVE WillIndex(r, f)'
    <3>1. parsed[r][f] = Tree[head][f]
      BY <2>1, <2>3 DEF WillIndex
    <3>2. \A s \in DefsOf(Tree[head][f]) : nodes'[f][s] = Tree[head][f] /\ <<f, s>> \in todo'[r]
      BY <2>1, <3>1, <1>d DEF ParsedUids, Uid
    <3>3. QED
      BY <2>1, <3>2, <1>c DEF WillIndex, RowsThere
  <2>4. QED
    BY <2>1, <2>2, <2>3, <1>a DEF Recording
<1>7. CASE \E u \in Uid : IndexNodeBM25(r, u)
  <2>1. PICK u \in Uid : IndexNodeBM25(r, u)
    BY <1>7
  <2>2. /\ pc[r] = "bm25" /\ UNCHANGED <<pc, nodes>> /\ bm25' = bm25 \cup {u}
        /\ todo' = [todo EXCEPT ![r] = @ \ {u}]
    BY <2>1 DEF IndexNodeBM25, TermKey
  <2>3. Kept
    BY <2>2, <1>c DEF RowsThere
  <2>4. WillIndex(r, f) => WillIndex(r, f)'
    BY <2>2, <2>3, <1>c DEF WillIndex, TypeOK
  <2>5. QED
    BY <2>2, <2>3, <2>4, <1>a DEF Recording
<1>8. CASE UpsertEdges(r)
  <2>1. pc[r] = "bm25" /\ todo[r] = {} /\ UNCHANGED <<nodes, bm25>>
    BY <1>8 DEF UpsertEdges
  <2>2. WillIndex(r, f) => Searchable(f)'
    BY <2>1, <1>c DEF WillIndex, Searchable, RowsThere, TermsThere
  <2>3. QED
    BY <2>1, <2>2, <1>a, <1>g DEF Recording
\* Steps that leave nodes and terms alone, of runs that have nothing to index.
<1>9. CASE \/ Start(r) \/ DeleteAllClusters(r) \/ SetClusterForNodes(r) \/ FindEntryPoints(r)
           \/ RecordCommit(r) \/ Embed(r) \/ \E u \in Uid : TraceProcess(r, u)
           \/ \E c \in SUBSET todo[r] : UpsertClusterMembers(r, c)
           \/ ClearsPartly(r) \/ FindsPartly(r) \/ CommitNotRecorded(r)
           \/ \E u \in Uid : TracesPartly(r, u)
  <2>1. /\ UNCHANGED <<nodes, bm25>> /\ ~WillIndex(r, f)
        /\ pc'[r] \in Recording => pc[r] \in Recording
    BY <1>9 DEF Start, DeleteAllClusters, SetClusterForNodes, FindEntryPoints, RecordCommit, Embed,
         Forget, TraceProcess, UpsertClusterMembers, ClearsPartly, FindsPartly, CommitNotRecorded,
         TracesPartly, WillIndex, Recording, TypeOK
  <2>2. QED
    BY <2>1, <1>a, <1>g
<1>10. CASE \E g \in File : DeleteFails(r, g)
  <2>1. pc[r] = "patch" /\ UNCHANGED <<nodes, bm25, pc, toParse, parsed>>
    BY <1>10 DEF DeleteFails
  <2>2. WillIndex(r, f) => WillIndex(r, f)'
    BY <2>1, <1>c DEF WillIndex
  <2>3. QED
    BY <2>1, <2>2, <1>a, <1>g DEF Recording
<1>11. QED
  BY <1>1, <1>2, <1>3, <1>4, <1>5, <1>6, <1>7, <1>8, <1>9, <1>10 DEF Step, PlanPartly, Survived

\* A run aims at HEAD, reads the texts of HEAD, and deletes the rows of files
\* that it will read or that are gone.
LEMMA SameHeadKept ==
  ASSUME TypeOK, TypeOK', OneAtATime, Survived, NothingForgotten, NEW r \in Runner, Step(r)
  PROVE  SameHead(r)'
<1>a. /\ head' = head /\ work = Tree[head] /\ SameHead(r)
  BY OthersHeld DEF env, NothingForgotten
<1> USE DEF Goto, env, derived, local
<1>1. CASE Start(r) \/ PlanPatch(r)
  BY <1>1, <1>a DEF Start, PlanPatch, SameHead, TypeOK, Outdated
<1>2. CASE ClearRepo(r) \/ PlanFull(r) \/ CollectFiles(r)
  BY <1>2, <1>a DEF ClearRepo, PlanFull, CollectFiles, SameHead, TypeOK
<1>3. CASE \E f \in File : DeleteNodesByFile(r, f) \/ DeletesPartly(r, f) \/ DeleteFails(r, f)
  BY <1>3, <1>a DEF DeleteNodesByFile, DeletesPartly, DeleteFails, SameHead, TypeOK
<1>4. CASE \E f \in File : ParseFile(r, f)
  BY <1>4, <1>a DEF ParseFile, SameHead, TypeOK
<1>5. CASE \/ UpsertNodes(r) \/ UpsertEdges(r) \/ DeleteAllClusters(r) \/ SetClusterForNodes(r)
           \/ FindEntryPoints(r) \/ RecordCommit(r)
           \/ \E u \in Uid : IndexNodeBM25(r, u) \/ TraceProcess(r, u) \/ TracesPartly(r, u)
           \/ \E c \in SUBSET todo[r] : UpsertClusterMembers(r, c)
           \/ ClearsPartly(r) \/ FindsPartly(r) \/ CommitNotRecorded(r)
  <2>1. /\ UNCHANGED <<target, parsed, toDelete>> /\ toDelete[r] = {} /\ pc[r] # "idle"
    BY <1>5, <1>a DEF UpsertNodes, UpsertEdges, DeleteAllClusters, SetClusterForNodes,
       FindEntryPoints, RecordCommit, IndexNodeBM25, TraceProcess, UpsertClusterMembers,
       ClearsPartly, FindsPartly, TracesPartly, CommitNotRecorded, SameHead
  <2>2. QED
    BY <2>1, <1>a DEF SameHead
<1>6. CASE Embed(r)
  BY <1>6, <1>a DEF Embed, Forget, SameHead, TypeOK
<1>7. QED
  BY <1>1, <1>2, <1>3, <1>4, <1>5, <1>6 DEF Step, PlanPartly, Survived

\* A run goes on until it has recorded HEAD, unless that fails unnoticed, and a
\* clear makes it record it again.
LEMMA RunGoesOn ==
  ASSUME TypeOK, TypeOK', NEW r \in Runner, Step(r), SameHead(r)
  PROVE  \/ pc[r] = "trace" /\ pc'[r] = "embed" /\ last' = head
         \/ pc[r] = "trace" /\ pc'[r] = "embed" /\ last' = last /\ "discarded" \in faults
         \/ pc[r] = "embed" /\ pc'[r] = "idle" /\ last' = last
         \/ pc'[r] = "collect" /\ last' = NoCommit
         \/ /\ pc[r] # "embed" /\ pc'[r] \notin {"embed", "idle"} /\ last' = last
            /\ pc[r] \in Recording => pc'[r] \in Recording
<1> USE DEF Goto, TypeOK
<1>1. CASE RecordCommit(r)
  BY <1>1 DEF RecordCommit, Recorded, SameHead
<1>2. CASE Embed(r) \/ ClearRepo(r)
  BY <1>2 DEF Embed, Forget, ClearRepo, ClearedMeta
<1>3. CASE \/ Start(r) \/ PlanFull(r) \/ PlanPatch(r) \/ CollectFiles(r)
           \/ UpsertNodes(r) \/ UpsertEdges(r) \/ DeleteAllClusters(r)
           \/ SetClusterForNodes(r) \/ FindEntryPoints(r)
           \/ \E c \in SUBSET todo[r] : UpsertClusterMembers(r, c)
  BY <1>3 DEF Start, PlanFull, PlanPatch, CollectFiles, UpsertNodes, UpsertEdges,
     DeleteAllClusters, SetClusterForNodes, FindEntryPoints, UpsertClusterMembers, Recording
<1>4. CASE \E f \in File : \/ DeleteNodesByFile(r, f) \/ DeletesPartly(r, f)
                          \/ DeleteFails(r, f) \/ ParseFile(r, f)
  BY <1>4 DEF DeleteNodesByFile, DeletesPartly, DeleteFails, ParseFile
<1>5. CASE \E u \in Uid : IndexNodeBM25(r, u) \/ TraceProcess(r, u) \/ TracesPartly(r, u)
  BY <1>5 DEF IndexNodeBM25, TraceProcess, TracesPartly
<1>6. CASE PlanPartly(r) \/ ClearsPartly(r) \/ FindsPartly(r) \/ CommitNotRecorded(r)
  BY <1>6 DEF PlanPartly, ClearsPartly, FindsPartly, CommitNotRecorded, Recording
<1>7. QED
  BY <1>1, <1>2, <1>3, <1>4, <1>5, <1>6 DEF Step

\* So no file is forgotten while some run goes on, and when the last one ends,
\* HEAD is recorded and every file is found.
LEMMA ForgottenInvariant == Spec => [](Survived /\ TextsStayGone => NothingForgotten)
<1> DEFINE Inv == Survived /\ TextsStayGone => NothingForgotten
           Records == \E s \in Runner : pc[s] \in Recording
<1>1. Init => Inv
  BY PipelineAssumption DEF Init, NothingForgotten, SameHead, Settled, Recording, Commit, NoCommit
<1>2. TypeOK /\ TypeOK' /\ OneAtATime /\ Inv /\ [Next]_vars => Inv'
  <2> SUFFICES ASSUME TypeOK, TypeOK', OneAtATime, NothingForgotten, [Next]_vars, Survived,
                      TextsStayGone
               PROVE  NothingForgotten'
    BY FaultsFixed DEF Survived, TextsStayGone
  <2>a. /\ head \in Commit /\ last \in Commit \cup {NoCommit} /\ work = Tree[head]
        /\ last <= head /\ faults' = faults
    BY FaultsFixed DEF TypeOK, NothingForgotten
  <2>1. ASSUME NEW c \in Commit, MoveHead(c) PROVE NothingForgotten'
    <3>1. /\ \A r \in Runner : pc[r] = "idle" /\ pc'[r] = "idle"
          /\ head' = c /\ work' = Tree[c] /\ UNCHANGED <<last, nodes, derived, local>>
          /\ head < c
      BY <2>1 DEF MoveHead, Idle, Survived, local, Commit, TypeOK
    <3>2. \A r \in Runner : SameHead(r)'
      BY <3>1 DEF SameHead, OneAtATime, local
    <3>3. last' <= head'
      BY <3>1, <2>a DEF Commit, NoCommit
    <3>4. ASSUME NEW f \in File \ Skipped, "discarded" \notin faults
          PROVE  /\ last' # NoCommit => IndexedAt(last, f)'
                 /\ Settled(last, f)' => Covered(f)'
      <4>1. last # NoCommit => IndexedAt(last, f)
        BY <3>1, <3>4 DEF NothingForgotten, Idle
      <4>2. QED
        BY <3>1, <4>1 DEF IndexedAt, Settled, Covered, Searchable, RowsThere, TermsThere, derived
    <3>5. ASSUME NEW f \in File \ Skipped, NoRevert, Settled(last, f)' PROVE Covered(f)'
      <4>1. /\ last \in Commit /\ last <= head /\ head <= c
            /\ Tree[last][f] = Tree[c][f]
        BY <3>1, <3>5, <2>a DEF Settled, Commit, NoCommit
      <4>2. Tree[head][f] = Tree[last][f]
        BY <3>5, <4>1, <2>a DEF NoRevert
      <4>3. Searchable(f)
        BY <3>1, <4>1, <4>2, <3>5 DEF NothingForgotten, Settled, Covered, WillIndex, NoCommit, Commit
      <4>4. QED
        BY <3>1, <4>1, <4>2, <4>3 DEF Covered, Searchable, RowsThere, TermsThere, derived
    <3>6. QED
      BY <3>1, <3>2, <3>3, <3>4, <3>5, <2>a DEF NothingForgotten, Recording, TextsStayGone
  <2>2. ASSUME NEW r \in Runner, Step(r) PROVE NothingForgotten'
    <3>1. /\ UNCHANGED env
          /\ \A s \in Runner \ {r} : Held(s)' = Held(s)
      BY <2>2, OthersHeld
    <3>2. \A f \in File \ Skipped : /\ Covered(f) => Covered(f)'
                                    /\ pc'[r] \in Recording => pc[r] \in Recording \/ Covered(f)'
      BY <2>2, SettlingCovers
    <3>3. SameHead(r)'
      BY <2>2, SameHeadKept
    <3>4. \/ pc[r] = "trace" /\ pc'[r] = "embed" /\ last' = head
          \/ pc[r] = "trace" /\ pc'[r] = "embed" /\ last' = last /\ "discarded" \in faults
          \/ pc[r] = "embed" /\ pc'[r] = "idle" /\ last' = last
          \/ pc'[r] = "collect" /\ last' = NoCommit
          \/ /\ pc[r] # "embed" /\ pc'[r] \notin {"embed", "idle"} /\ last' = last
             /\ pc[r] \in Recording => pc'[r] \in Recording
      BY <2>2, RunGoesOn DEF NothingForgotten
    <3>5. \A s \in Runner : SameHead(s)'
      BY <3>1, <3>3 DEF SameHead, Held, NothingForgotten, env
    <3>0. last' <= head'
      BY <3>1, <3>4, <2>a DEF env, Commit, NoCommit
    <3>6. "discarded" \notin faults /\ (\E s \in Runner : pc'[s] = "embed") =>
            last' = head' \/ \E s \in Runner : pc'[s] \in Recording
      BY <3>1, <3>4 DEF Held, NothingForgotten, Recording, env
    <3>7. ASSUME NEW f \in File \ Skipped
          PROVE  /\ Settled(last, f)' => Covered(f)'
                 /\ (\E s \in Runner : pc'[s] \in Recording) => Covered(f)'
      <4>1. (\E s \in Runner : pc[s] \in Recording) => Covered(f)'
        BY <3>2 DEF NothingForgotten
      <4>2. Settled(last, f) => Covered(f)'
        BY <3>2 DEF NothingForgotten
      <4>3. Settled(last, f)' => Covered(f)'
        BY <3>1, <3>4, <4>1, <4>2 DEF Settled, Recording, env
      <4>4. (\E s \in Runner : pc'[s] \in Recording) => Covered(f)'
        BY <3>1, <3>2, <4>1 DEF Held
      <4>5. QED
        BY <4>3, <4>4
    \* Only the end of the last run leaves nobody at work.
    <3>8. ASSUME NEW f \in File \ Skipped, Idle', last' # NoCommit, "discarded" \notin faults
          PROVE  IndexedAt(last, f)'
      <4>1. pc[r] = "embed" /\ last' = last /\ \A s \in Runner \ {r} : pc[s] = "idle"
        BY <3>1, <3>4, <3>8 DEF Idle, Held
      <4>2. last = head
        BY <4>1, <3>8 DEF NothingForgotten, Recording
      <4>3. Covered(f)'
        BY <3>1, <3>7, <4>1, <4>2, <3>8, <2>a DEF Settled, env
      <4>4. Searchable(f)'
        BY <4>3, <3>8 DEF Covered, WillIndex, Idle
      <4>5. QED
        BY <3>1, <4>1, <4>2, <4>4 DEF Searchable, RowsThere, TermsThere, IndexedAt, env
    <3>9. QED
      BY <3>0, <3>1, <3>5, <3>6, <3>7, <3>8, <2>a DEF NothingForgotten, env
  <2>3. ASSUME UNCHANGED vars PROVE NothingForgotten'
    <3>1. UNCHANGED <<env, last, nodes, bm25, local>>
      BY <2>3 DEF vars, derived
    <3>2. \A f \in File : /\ Covered(f) => Covered(f)'
                          /\ Settled(last, f)' => Settled(last, f)
                          /\ IndexedAt(last, f) => IndexedAt(last, f)'
      BY <3>1 DEF Covered, Searchable, RowsThere, TermsThere, WillIndex, Settled, IndexedAt, env, local
    <3>3. \A r \in Runner : SameHead(r) => SameHead(r)'
      BY <3>1 DEF SameHead, env, local
    <3>4. QED
      <4>1. UNCHANGED <<head, work, last, pc>>
        BY <3>1 DEF env, local
      <4>2. \A f \in File \ Skipped : /\ "discarded" \notin faults' /\ Idle' /\ last' # NoCommit
                                           => IndexedAt(last, f)'
                                      /\ Settled(last, f)' => Covered(f)'
                                      /\ (\E r \in Runner : pc'[r] \in Recording) => Covered(f)'
        BY <3>2, <4>1, <2>a DEF NothingForgotten, Idle
      <4>3. QED
        BY <3>3, <4>1, <4>2, <2>a DEF NothingForgotten
  <2>4. QED
    BY <2>1, <2>2, <2>3 DEF Next, Environment, EditWorktree, Crash, Survived
<1>3. QED
  BY <1>1, <1>2, TypeCorrect, RunnersTakeTurns, PTL DEF Spec

\* Every symbol is in a community, or a run is about to put it into one: who
\* writes rows clusters after that, and who clears the communities writes them anew.
LEMMA ClusteredInvariant == Spec => [](Survived /\ "discarded" \notin faults => NobodyAlone)
<1>1. Init => NobodyAlone
  BY DEF Init, NobodyAlone, Present, Uid
<1> DEFINE Inv == Survived /\ "discarded" \notin faults => NobodyAlone
<1>2. TypeOK /\ TypeOK' /\ Inv /\ [Next]_vars => Inv'
  <2> SUFFICES ASSUME TypeOK, TypeOK', NobodyAlone, [Next]_vars, Survived, "discarded" \notin faults,
                      NEW u \in Present'
               PROVE  u \in member' \cap cid' \/ \E s \in Runner : WillCluster(s, u)'
    BY FaultsFixed DEF Survived, NobodyAlone
  <2>a. u \in Uid
    BY DEF Present
  \* What is left to show of a step of r: the others do what they were about to.
  <2>b. ASSUME NEW r \in Runner, Step(r), u \in Present,
               u \in member => u \in member', u \in cid => u \in cid',
               WillCluster(r, u) => WillCluster(r, u)' \/ u \in member' \cap cid'
        PROVE  u \in member' \cap cid' \/ \E s \in Runner : WillCluster(s, u)'
    <3>1. \A s \in Runner \ {r} : Held(s)' = Held(s)
      BY <2>b, OthersHeld
    <3>2. ASSUME NEW s \in Runner, s # r, WillCluster(s, u) PROVE WillCluster(s, u)'
      BY <3>1, <3>2, <2>b DEF WillCluster, Held
    <3>3. QED
      BY <3>2, <2>b DEF NobodyAlone
  <2> USE DEF Goto, env, derived, local
  <2>1. ASSUME UNCHANGED <<nodes, derived, local>>
        PROVE  u \in member' \cap cid' \/ \E s \in Runner : WillCluster(s, u)'
    <3>1. u \in Present /\ UNCHANGED <<member, cid, pc, todo, group>>
      BY <2>1 DEF Present
    <3>2. QED
      BY <3>1 DEF NobodyAlone, WillCluster
  <2>2. ASSUME NEW r \in Runner, UpsertNodes(r) \/ UpsertEdges(r) \/ DeleteAllClusters(r)
        PROVE  \E s \in Runner : WillCluster(s, u)'
    <3>1. CASE UpsertNodes(r) \/ UpsertEdges(r)
      BY <3>1 DEF UpsertNodes, UpsertEdges, WillCluster, TypeOK
    <3>2. CASE DeleteAllClusters(r)
      BY <3>2 DEF DeleteAllClusters, AllNodes, Present, WillCluster, TypeOK
    <3>3. QED
      BY <2>2, <3>1, <3>2
  <2>3. ASSUME NEW r \in Runner, ClearRepo(r) PROVE FALSE
    BY <2>3 DEF ClearRepo, Present, Uid
  <2>4. ASSUME NEW r \in Runner, NEW f \in File, DeleteNodesByFile(r, f)
        PROVE  u \in member' \cap cid' \/ \E s \in Runner : WillCluster(s, u)'
    <3>1. /\ pc[r] = "patch" /\ nodes' = [nodes EXCEPT ![f] = [s \in Symbol |-> Absent]]
          /\ member' = member \ { v \in Present : v[1] = f }
          /\ cid' = cid \ { v \in Present : v[1] = f }
      BY <2>4 DEF DeleteNodesByFile, Without
    <3>2. u \in Present /\ u[1] # f
      BY <3>1, <2>a DEF Present, Uid, TypeOK
    <3>3. QED
      BY <3>1, <3>2, <2>4, <2>b DEF Step, WillCluster
  <2>5. ASSUME NEW r \in Runner, NEW c \in SUBSET todo[r], UpsertClusterMembers(r, c)
        PROVE  u \in member' \cap cid' \/ \E s \in Runner : WillCluster(s, u)'
    <3>1. /\ pc[r] = "community" /\ pc'[r] = "ids" /\ UNCHANGED <<nodes, cid>>
          /\ member' = member \cup c /\ todo'[r] = todo[r] \ c /\ group'[r] = c
      BY <2>5 DEF UpsertClusterMembers, TypeOK
    <3>2. u \in Present
      BY <3>1 DEF Present
    <3>3. QED
      BY <3>1, <3>2, <2>5, <2>b DEF Step, WillCluster
  <2>6. ASSUME NEW r \in Runner, SetClusterForNodes(r)
        PROVE  u \in member' \cap cid' \/ \E s \in Runner : WillCluster(s, u)'
    <3>1. /\ pc[r] = "ids" /\ pc'[r] = "community" /\ UNCHANGED <<nodes, member, todo>>
          /\ cid' = cid \cup (group[r] \cap Present)
      BY <2>6 DEF SetClusterForNodes, TypeOK
    <3>2. u \in Present
      BY <3>1 DEF Present
    <3>3. QED
      BY <3>1, <3>2, <2>6, <2>b DEF Step, WillCluster
  \* Steps of runs that were not about to put u into a community.
  <2>7. ASSUME NEW r \in Runner,
               \/ Start(r) \/ PlanFull(r) \/ PlanPatch(r) \/ CollectFiles(r)
               \/ \E f \in File : DeleteFails(r, f) \/ ParseFile(r, f)
               \/ \E v \in Uid : IndexNodeBM25(r, v) \/ TraceProcess(r, v)
               \/ FindEntryPoints(r) \/ RecordCommit(r) \/ Embed(r)
        PROVE  u \in member' \cap cid' \/ \E s \in Runner : WillCluster(s, u)'
    <3>1. /\ UNCHANGED <<nodes, member, cid>>
          /\ WillCluster(r, u) => pc[r] = "bm25" /\ pc' = pc
      BY <2>7 DEF Start, PlanFull, PlanPatch, CollectFiles, DeleteFails, ParseFile, IndexNodeBM25,
         TraceProcess, FindEntryPoints, RecordCommit, Embed, WillCluster
    <3>2. u \in Present
      BY <3>1 DEF Present
    <3>3. QED
      BY <3>1, <3>2, <2>7, <2>b DEF Step, WillCluster
  <2>8. QED
    BY <2>1, <2>2, <2>3, <2>4, <2>5, <2>6, <2>7
       DEF Next, Environment, Step, MoveHead, EditWorktree, Crash, Survived, vars,
           PlanPartly, DeletesPartly, ClearsPartly, FindsPartly, TracesPartly, CommitNotRecorded
<1>3. QED
  BY <1>1, <1>2, TypeCorrect, PTL DEF Spec

\* A step of a run leaves no row of another text than HEAD's in a file that had
\* none.
LEMMA CleanKept ==
  ASSUME TypeOK, TypeOK', NEW r \in Runner, Step(r), SameHead(r), NEW f \in File, Clean(f)
  PROVE  Clean(f)'
<1>a. head' = head /\ head \in Commit
  BY OthersHeld DEF env, TypeOK
<1> USE DEF Goto, env, derived, local
<1>1. CASE nodes'[f] = nodes[f]
  BY <1>1, <1>a DEF Clean, RowsOfText
<1>2. CASE ClearRepo(r)
  BY <1>2, <1>a DEF ClearRepo, Clean
<1>3. CASE \E g \in File : DeleteNodesByFile(r, g) \/ DeletesPartly(r, g)
  BY <1>3, <1>1, <1>a DEF DeleteNodesByFile, DeletesPartly, Clean, TypeOK
<1>4. CASE UpsertNodes(r)
  <2>1. ASSUME NEW s \in Symbol
        PROVE  nodes'[f][s] \in {Absent, RowsOfText(Tree[head][f])[s]}
    <3>1. nodes'[f][s] = IF s \in DefsOf(parsed[r][f]) THEN parsed[r][f] ELSE nodes[f][s]
      BY <1>4 DEF UpsertNodes
    <3>2. CASE s \in DefsOf(parsed[r][f])
      <4>1. parsed[r][f] = Tree[head][f]
        BY <3>2 DEF SameHead, DefsOf
      <4>2. QED
        BY <3>1, <3>2, <4>1 DEF RowsOfText
    <3>3. QED
      BY <3>1, <3>2 DEF Clean
  <2>2. QED
    BY <2>1, <1>a DEF Clean, RowsOfText
<1>5. CASE \/ Start(r) \/ PlanFull(r) \/ PlanPatch(r) \/ CollectFiles(r)
           \/ \E g \in File : DeleteFails(r, g) \/ ParseFile(r, g)
           \/ UpsertEdges(r) \/ DeleteAllClusters(r)
           \/ \E u \in Uid : IndexNodeBM25(r, u) \/ TraceProcess(r, u)
           \/ \E c \in SUBSET todo[r] : UpsertClusterMembers(r, c)
           \/ SetClusterForNodes(r) \/ FindEntryPoints(r) \/ RecordCommit(r) \/ Embed(r)
           \/ PlanPartly(r) \/ ClearsPartly(r) \/ FindsPartly(r) \/ CommitNotRecorded(r)
           \/ \E u \in Uid : TracesPartly(r, u)
  <2>1. nodes' = nodes
    BY <1>5 DEF Start, PlanFull, PlanPatch, CollectFiles, DeleteFails, ParseFile, UpsertEdges,
       DeleteAllClusters, IndexNodeBM25, TraceProcess, UpsertClusterMembers,
       SetClusterForNodes, FindEntryPoints, RecordCommit, Embed, PlanPartly, ClearsPartly,
       FindsPartly, CommitNotRecorded, TracesPartly
  <2>2. QED
    BY <2>1, <1>1
<1>6. QED
  BY <1>2, <1>3, <1>4, <1>5 DEF Step

\* Where runs only overlap, their statements succeed.
LEMMA NoErrors ==
  ASSUME faults = {"overlap"}, NEW r \in Runner
  PROVE  /\ ~PlanPartly(r) /\ ~ClearsPartly(r) /\ ~FindsPartly(r) /\ ~CommitNotRecorded(r)
         /\ \A f \in File : ~DeleteFails(r, f) /\ ~DeletesPartly(r, f)
         /\ \A u \in Uid : ~TracesPartly(r, u)
BY DEF PlanPartly, ClearsPartly, FindsPartly, CommitNotRecorded, DeleteFails, DeletesPartly,
   TracesPartly

\* Where no row is of another text, every symbol of the table is at HEAD.
LEMMA CleanIsAtHead ==
  ASSUME TypeOK, \A f \in File : Clean(f)
  PROVE  Present \subseteq AtHead
<1>1. ASSUME NEW u \in Present PROVE u \in AtHead
  <2>1. u \in Uid /\ u[1] \in File /\ u[2] \in Symbol /\ nodes[u[1]][u[2]] # Absent
    BY <1>1 DEF Present, Uid
  <2>2. u[2] \in DefsOf(Tree[head][u[1]])
    BY <2>1 DEF Clean, RowsOfText
  <2>3. QED
    BY <2>1, <2>2 DEF AtHead, ParsedUids
<1>2. QED
  BY <1>1

\* What a run has parsed is at HEAD.
LEMMA ParsedIsAtHead ==
  ASSUME NEW r \in Runner, SameHead(r)
  PROVE  ParsedUids(parsed[r]) \subseteq AtHead
BY DEF SameHead, AtHead, ParsedUids, DefsOf, Uid

\* The plan of a run knows every file that has rows of another text than HEAD's,
\* and a run that is past its patch has no such file left.
LEMMA PlanIsClean ==
  ASSUME TypeOK, TypeOK', faults = {"overlap"}, NothingForgotten, NothingStale, NEW r \in Runner, Step(r)
  PROVE  /\ \A f \in File : TextAt(last, f)' \in {Absent, Tree[head'][f]} => Clean(f)'
         /\ pc'[r] \in Recording \cup {"embed"} => \A f \in File : f \in toDelete'[r] \/ Clean(f)'
<1>a. /\ head' = head /\ head \in Commit /\ SameHead(r)
      /\ \A f \in File : Clean(f) => Clean(f)'
  BY OthersHeld, CleanKept DEF env, NothingForgotten, TypeOK
<1>b. /\ \A f \in File : TextAt(last, f) \in {Absent, Tree[head][f]} => Clean(f)
      /\ pc[r] \in Recording \cup {"embed"} => \A f \in File : f \in toDelete[r] \/ Clean(f)
  BY DEF NothingStale
<1> USE DEF Goto, env, derived, local
<1>1. CASE ClearRepo(r)
  BY <1>1, <1>a DEF ClearRepo, Clean
<1>2. CASE PlanFull(r)
  <2>1. UNCHANGED <<head, last>> /\ last = NoCommit
    BY <1>2 DEF PlanFull
  <2>2. \A f \in File : Clean(f)'
    BY <2>1, <1>a, <1>b DEF TextAt
  <2>3. QED
    BY <2>2
<1>3. CASE PlanPatch(r)
  <2>1. /\ UNCHANGED <<head, last>> /\ last \in Commit /\ toDelete'[r] = Outdated(last, head)
    BY <1>3 DEF PlanPatch, TypeOK
  <2>2. \A f \in File : TextAt(last, f)' \in {Absent, Tree[head'][f]} => Clean(f)'
    BY <2>1, <1>a, <1>b DEF TextAt
  <2>3. \A f \in File : f \in toDelete'[r] \/ TextAt(last, f) \in {Absent, Tree[head][f]}
    BY <2>1 DEF Outdated, Changed, TextAt
  <2>4. QED
    BY <2>1, <2>2, <2>3, <1>a DEF TextAt
<1>4. CASE \E g \in File : DeleteNodesByFile(r, g)
  <2>1. PICK g \in File : DeleteNodesByFile(r, g)
    BY <1>4
  <2>2. /\ UNCHANGED <<head, last>> /\ pc[r] = "patch" /\ toDelete'[r] = toDelete[r] \ {g}
        /\ nodes'[g] = [s \in Symbol |-> Absent]
    BY <2>1 DEF DeleteNodesByFile, TypeOK
  <2>3. Clean(g)'
    BY <2>2 DEF Clean
  <2>4. QED
    BY <2>2, <2>3, <1>a, <1>b DEF TextAt, Recording
<1>5. CASE RecordCommit(r)
  <2>1. pc[r] = "trace" /\ toDelete[r] = {}
    BY <1>5, <1>a DEF RecordCommit, SameHead
  <2>2. \A f \in File : Clean(f)'
    BY <2>1, <1>a, <1>b DEF Recording
  <2>3. QED
    BY <2>2
<1>6. CASE \/ Start(r) \/ CollectFiles(r) \/ \E f \in File : ParseFile(r, f)
           \/ UpsertNodes(r) \/ UpsertEdges(r) \/ DeleteAllClusters(r)
           \/ SetClusterForNodes(r) \/ FindEntryPoints(r)
           \/ \E u \in Uid : IndexNodeBM25(r, u) \/ TraceProcess(r, u)
           \/ \E c \in SUBSET todo[r] : UpsertClusterMembers(r, c)
           \/ Embed(r)
  <2>1. /\ UNCHANGED <<head, last>>
        /\ \/ pc'[r] \notin Recording \cup {"embed"}
           \/ pc[r] \in Recording /\ toDelete'[r] = toDelete[r]
    BY <1>6 DEF Start, CollectFiles, ParseFile, UpsertNodes, UpsertEdges, DeleteAllClusters,
       SetClusterForNodes, FindEntryPoints, IndexNodeBM25, TraceProcess, UpsertClusterMembers,
       Embed, Forget, Recording, TypeOK
  <2>2. QED
    BY <2>1, <1>a, <1>b DEF TextAt
<1>7. QED
  BY <1>1, <1>2, <1>3, <1>4, <1>5, <1>6, NoErrors DEF Step

\* What a run has still to write about is at HEAD.
LEMMA TodoIsAtHead ==
  ASSUME TypeOK, TypeOK', faults = {"overlap"}, OneAtATime, NothingForgotten, NothingStale,
         NEW r \in Runner, Step(r)
  PROVE  todo'[r] \cup group'[r] \subseteq AtHead
<1>a. SameHead(r) /\ todo[r] \cup group[r] \subseteq AtHead /\ ParsedUids(parsed[r]) \subseteq AtHead
  BY ParsedIsAtHead DEF NothingForgotten, NothingStale
<1>b. pc[r] \in {"clusters", "community"} => Present \subseteq AtHead
  BY <1>a, CleanIsAtHead DEF NothingStale, SameHead, Recording
<1> USE DEF Goto, TypeOK
<1>1. CASE UpsertNodes(r) \/ RecordCommit(r)
  BY <1>1, <1>a DEF UpsertNodes, RecordCommit
<1>2. CASE DeleteAllClusters(r) \/ FindEntryPoints(r)
  BY <1>2, <1>a, <1>b DEF DeleteAllClusters, AllNodes, FindEntryPoints, Traced, EntryPoints,
     EntriesAmong
<1>3. CASE \E c \in SUBSET todo[r] : UpsertClusterMembers(r, c)
  BY <1>3, <1>a DEF UpsertClusterMembers
<1>4. CASE SetClusterForNodes(r) \/ Embed(r)
  BY <1>4, <1>a DEF SetClusterForNodes, Embed, Forget
<1>5. CASE \E u \in Uid : IndexNodeBM25(r, u) \/ TraceProcess(r, u)
  BY <1>5, <1>a DEF IndexNodeBM25, TraceProcess
<1>6. CASE \/ Start(r) \/ ClearRepo(r) \/ PlanFull(r) \/ PlanPatch(r) \/ CollectFiles(r)
           \/ \E f \in File : DeleteNodesByFile(r, f) \/ ParseFile(r, f)
           \/ UpsertEdges(r)
  BY <1>6, <1>a DEF Start, ClearRepo, PlanFull, PlanPatch, CollectFiles, DeleteNodesByFile,
     ParseFile, UpsertEdges
<1>7. QED
  BY <1>1, <1>2, <1>3, <1>4, <1>5, <1>6, NoErrors DEF Step

\* So are the rows it writes, if their symbol is not in `nodes`.
LEMMA RowsAreAtHead ==
  ASSUME TypeOK, TypeOK', faults = {"overlap"}, NothingForgotten, NothingStale,
         NEW r \in Runner, Step(r)
  PROVE  /\ bm25' \cup member' \cup cid' \cup embedded' \subseteq Present' \cup AtHead
         /\ edges' \subseteq (Present' \cup AtHead) \X (Present' \cup AtHead)
<1> DEFINE rows == bm25 \cup member \cup cid \cup embedded
           Known == Present \cup AtHead
<1>a. /\ todo[r] \cup group[r] \subseteq AtHead /\ ParsedUids(parsed[r]) \subseteq AtHead
      /\ rows \subseteq Known /\ edges \subseteq Known \X Known
  BY ParsedIsAtHead DEF NothingForgotten, NothingStale
<1>b. nodes' = nodes => Present' = Present
  BY DEF Present
<1> USE DEF Goto, env, derived, local
<1>1. CASE ClearRepo(r)
  BY <1>1 DEF ClearRepo
<1>2. CASE \E f \in File : DeleteNodesByFile(r, f)
  <2>1. PICK f \in File : DeleteNodesByFile(r, f)
    BY <1>2
  <2> DEFINE gone == { u \in Present : u[1] = f }
  <2>2. Present' = Present \ gone
    BY <2>1 DEF DeleteNodesByFile, Present, Uid, TypeOK
  <2>3. QED
    BY <2>1, <2>2, <1>a DEF DeleteNodesByFile, Without, EdgesWithout
<1>3. CASE UpsertNodes(r)
  <2>1. Present \subseteq Present'
    BY <1>3 DEF UpsertNodes, Present, Uid, TypeOK, DefsOf
  <2>2. QED
    BY <1>3, <2>1, <1>a DEF UpsertNodes
<1>4. CASE UpsertEdges(r)
  <2>1. PICK new \in Resolutions(parsed[r]) : edges' = edges \cup new
    BY <1>4 DEF UpsertEdges
  <2>2. new \subseteq ParsedUids(parsed[r]) \X ParsedUids(parsed[r])
    BY ResolutionsType DEF TypeOK
  <2>3. UNCHANGED <<nodes, bm25, member, cid, embedded>>
    BY <1>4 DEF UpsertEdges
  <2>4. QED
    BY <2>1, <2>2, <2>3, <1>a, <1>b
<1>5. CASE \E u \in Uid : IndexNodeBM25(r, u) \/ TraceProcess(r, u)
  BY <1>5, <1>a, <1>b DEF IndexNodeBM25, TermKey, TraceProcess
<1>6. CASE \E c \in SUBSET todo[r] : UpsertClusterMembers(r, c)
  BY <1>6, <1>a, <1>b DEF UpsertClusterMembers
<1>7. CASE SetClusterForNodes(r) \/ Embed(r) \/ DeleteAllClusters(r)
  BY <1>7, <1>a, <1>b DEF SetClusterForNodes, Embed, DeleteAllClusters
<1>8. CASE \/ Start(r) \/ PlanFull(r) \/ PlanPatch(r) \/ CollectFiles(r)
           \/ \E f \in File : ParseFile(r, f)
           \/ FindEntryPoints(r) \/ RecordCommit(r)
  BY <1>8, <1>a, <1>b DEF Start, PlanFull, PlanPatch, CollectFiles, ParseFile,
     FindEntryPoints, RecordCommit
<1>9. QED
  BY <1>1, <1>2, <1>3, <1>4, <1>5, <1>6, <1>7, <1>8, NoErrors DEF Step

\* Rows of other texts are left only in files that every run past its plan has
\* still to delete; when the last run ends there are none.
LEMMA StaleInvariant == Spec => [](faults = {"overlap"} /\ Skipped = {} => NothingStale)
<1> DEFINE Inv == faults = {"overlap"} /\ Skipped = {} => NothingStale
           Indexing == Survived /\ TextsStayGone => NothingForgotten
<1>1. Init => Inv
  BY NoRows DEF Init, NothingStale, Recording, Clean, TextAt, RowsHaveNodes
<1>2. /\ TypeOK /\ TypeOK' /\ OneAtATime /\ Indexing /\ Indexing' /\ Inv /\ [Next]_vars
      => Inv'
  <2> SUFFICES ASSUME TypeOK, TypeOK', OneAtATime, NothingForgotten, NothingForgotten', NothingStale,
                      [Next]_vars, faults = {"overlap"}, Skipped = {}
               PROVE  NothingStale'
    BY FaultsFixed DEF Survived, TextsStayGone
  <2>a. head \in Commit /\ last \in Commit \cup {NoCommit}
    BY DEF TypeOK
  <2>1. ASSUME NEW c \in Commit, MoveHead(c) PROVE NothingStale'
    <3>1. /\ \A r \in Runner : pc[r] = "idle" /\ todo[r] = {} /\ group[r] = {}
          /\ \A f \in File : nodes[f] = RowsOfText(TextAt(last, f))
          /\ RowsHaveNodes
      BY <2>1 DEF MoveHead, Idle, OneAtATime, NothingStale
    <3>2. head' = c /\ UNCHANGED <<last, nodes, bm25, edges, member, cid, embedded, pc, todo, group>>
      BY <2>1 DEF MoveHead, derived, local
    <3>3. ASSUME NEW f \in File, TextAt(last, f)' \in {Absent, Tree[head'][f]} PROVE Clean(f)'
      <4>1. nodes'[f] = RowsOfText(TextAt(last, f)')
        BY <3>1, <3>2 DEF TextAt
      <4>2. QED
        BY <3>3, <4>1 DEF Clean, RowsOfText, DefsOf
    <3>4. Present' = Present
      BY <3>2 DEF Present
    <3>5. RowsHaveNodes'
      BY <3>1, <3>2, <3>4 DEF RowsHaveNodes
    <3>6. \A f \in File : nodes'[f] = RowsOfText(TextAt(last, f)')
      BY <3>1, <3>2 DEF TextAt
    <3>7. /\ bm25' \cup member' \cup cid' \cup embedded' \subseteq Present' \cup AtHead'
          /\ edges' \subseteq (Present' \cup AtHead') \X (Present' \cup AtHead')
      BY <3>5 DEF RowsHaveNodes
    <3>8. QED
      BY <3>1, <3>2, <3>3, <3>5, <3>6, <3>7 DEF NothingStale, Recording
  <2>2. ASSUME NEW r \in Runner, Step(r) PROVE NothingStale'
    <3>1. UNCHANGED env /\ \A s \in Runner \ {r} : Held(s)' = Held(s)
      BY <2>2, OthersHeld
    <3>2. head' = head /\ AtHead' = AtHead
      BY <3>1 DEF env, AtHead
    <3>3. /\ \A f \in File : TextAt(last, f)' \in {Absent, Tree[head'][f]} => Clean(f)'
          /\ pc'[r] \in Recording \cup {"embed"} => \A f \in File : f \in toDelete'[r] \/ Clean(f)'
      BY <2>2, PlanIsClean
    <3>4. ASSUME NEW s \in Runner, pc'[s] \in Recording \cup {"embed"}, NEW f \in File
          PROVE  f \in toDelete'[s] \/ Clean(f)'
      <4>1. CASE s = r
        BY <3>3, <3>4, <4>1
      <4>2. CASE s # r
        <5>1. f \in toDelete[s] \/ Clean(f)
          BY <3>1, <3>4, <4>2 DEF Held, NothingStale
        <5>2. Clean(f) => Clean(f)'
          BY <2>2, CleanKept DEF NothingForgotten
        <5>3. QED
          BY <3>1, <4>2, <5>1, <5>2 DEF Held
      <4>3. QED
        BY <4>1, <4>2
    <3>5. ASSUME NEW s \in Runner PROVE todo'[s] \cup group'[s] \subseteq AtHead'
      BY <2>2, <3>1, <3>2, TodoIsAtHead DEF Held, NothingStale
    <3>6. /\ bm25' \cup member' \cup cid' \cup embedded' \subseteq Present' \cup AtHead'
          /\ edges' \subseteq (Present' \cup AtHead') \X (Present' \cup AtHead')
      BY <2>2, <3>2, RowsAreAtHead
    \* The last run has ended: rows of HEAD's texts only, and all of them.
    <3>7. ASSUME Idle' PROVE (\A f \in File : nodes[f] = RowsOfText(TextAt(last, f)))' /\ RowsHaveNodes'
      <4>1. pc[r] = "embed" /\ last' = last /\ \A s \in Runner \ {r} : pc[s] = "idle"
        BY <2>2, <3>1, <3>7, RunGoesOn DEF Idle, Held, NothingForgotten
      <4>2. last = head
        BY <4>1 DEF NothingForgotten, Recording
      <4>3. ASSUME NEW f \in File PROVE nodes'[f] = RowsOfText(Tree[head][f])
        <5>1. IndexedAt(last, f)'
          BY <3>7, <4>1, <4>2, <2>a, FaultsFixed DEF NothingForgotten
        <5>2. Clean(f)'
          BY <3>2, <3>3, <4>1, <4>2, <2>a DEF TextAt
        <5>3. ASSUME NEW s \in Symbol PROVE nodes'[f][s] = RowsOfText(Tree[head][f])[s]
          BY <5>1, <5>2, <3>2, <4>1, <4>2 DEF IndexedAt, Clean, RowsOfText
        <5>4. nodes'[f] = [s \in Symbol |-> nodes'[f][s]]
          BY DEF TypeOK
        <5>5. QED
          BY <5>3, <5>4 DEF RowsOfText
      <4>4. \A f \in File : nodes'[f] = RowsOfText(TextAt(last, f)')
        BY <3>2, <4>1, <4>2, <4>3, <2>a DEF TextAt
      <4>5. AtHead \subseteq Present'
        <5>1. ASSUME NEW u \in AtHead PROVE u \in Present'
          <6>1. u \in Uid /\ u[1] \in File /\ u[2] \in Symbol /\ u[2] \in DefsOf(Tree[head][u[1]])
            BY DEF AtHead, ParsedUids, Uid
          <6>2. nodes'[u[1]][u[2]] = Tree[head][u[1]] /\ Tree[head][u[1]] # Absent
            BY <6>1, <4>3 DEF RowsOfText, DefsOf
          <6>3. QED
            BY <6>1, <6>2 DEF Present
        <5>2. QED
          BY <5>1
      <4>6. RowsHaveNodes'
        BY <3>2, <3>6, <4>5 DEF RowsHaveNodes
      <4>7. QED
        BY <4>4, <4>6
    <3>8. QED
      BY <3>3, <3>4, <3>5, <3>6, <3>7 DEF NothingStale
  <2>3. ASSUME UNCHANGED vars PROVE NothingStale'
    BY <2>3 DEF NothingStale, Clean, TextAt, AtHead, Present, RowsHaveNodes, Idle,
       vars, env, derived, local
  <2>4. QED
    BY <2>1, <2>2, <2>3 DEF Next, Environment, EditWorktree, Crash
<1>3. QED
  BY <1>1, <1>2, TypeCorrect, RunnersTakeTurns, ForgottenInvariant, PTL DEF Spec

\* The three parts together.
LEMMA SettleInvariant == Spec => []SettleInv
<1>1. /\ Survived /\ TextsStayGone => NothingForgotten
      /\ Survived /\ "discarded" \notin faults => NobodyAlone
      /\ faults = {"overlap"} /\ Skipped = {} => NothingStale
      => SettleInv
  BY DEF SettleInv
<1>2. QED
  BY <1>1, ForgottenInvariant, ClusteredInvariant, StaleInvariant, PTL

\* When the last of some overlapping runs has ended, an index that is reported
\* current is complete: what one run deleted or cleared, another had still to
\* write.  Where statements may fail unnoticed, among them the one that records
\* the commit, this takes a history without reverts; where none does, every symbol
\* is in a community too.  If no transaction failed, and no file is left out by
\* walks, it is the index of HEAD and nothing else.
THEOREM OverlapIsSettled ==
  Spec => [](NoRevert \/ "discarded" \notin faults => OverlapSettles)
<1>1. TypeOK /\ SettleInv /\ TextsStayGone => OverlapSettles
  <2> SUFFICES ASSUME TypeOK, SettleInv, TextsStayGone, Survived, Idle, last = head
               PROVE  /\ \A f \in File \ Skipped : RowsThere(f) /\ TermsThere(f)
                      /\ "discarded" \notin faults => Present \subseteq member \cap cid
                      /\ faults = {"overlap"} /\ Skipped = {} =>
                           nodes = SymbolsAt[head] /\ RowsHaveNodes
    BY DEF OverlapSettles, Survived
  <2>1. head \in Commit /\ last # NoCommit
    BY DEF TypeOK, Commit, NoCommit
  <2>2. ASSUME NEW f \in File \ Skipped PROVE RowsThere(f) /\ TermsThere(f)
    <3>1. Settled(last, f)
      BY <2>1 DEF Settled
    <3>2. Covered(f)
      BY <3>1 DEF SettleInv, NothingForgotten
    <3>3. QED
      BY <3>2 DEF Covered, WillIndex, Searchable, Idle
  <2>3. ASSUME "discarded" \notin faults PROVE Present \subseteq member \cap cid
    BY <2>3 DEF SettleInv, NobodyAlone, WillCluster, Idle
  <2>4. ASSUME faults = {"overlap"}, Skipped = {} PROVE nodes = SymbolsAt[head] /\ RowsHaveNodes
    <3>1. RowsHaveNodes /\ \A f \in File : nodes[f] = RowsOfText(Tree[head][f])
      BY <2>1, <2>4 DEF SettleInv, NothingStale, TextAt
    <3>2. nodes = [f \in File |-> nodes[f]]
      BY DEF TypeOK
    <3>3. QED
      BY <2>1, <3>1, <3>2 DEF SymbolsAt, RowsOfText
  <2>5. QED
    BY <2>2, <2>3, <2>4
<1>2. TypeOK /\ SettleInv => (NoRevert \/ "discarded" \notin faults => OverlapSettles)
  BY <1>1 DEF TextsStayGone
<1>3. QED
  BY <1>2, TypeCorrect, SettleInvariant, PTL
=============================================================================
