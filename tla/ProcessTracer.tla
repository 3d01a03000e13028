----------------------------- MODULE ProcessTracer -----------------------------
(***************************************************************************)
(* What follows the clustering in `mimir analyze`: entry points are looked *)
(* for in the stored graph and the flow from each is traced                *)
(* (internal/process); and the query that readers put to the same graph    *)
(* later, QueryImpact (internal/store/query.go).                           *)
(***************************************************************************)
EXTENDS Louvain, Sequences, SequencesExt

CONSTANTS
  Exported,    \* nodes that are exported
  Named,       \* nodes whose name or file makes them entry points
  TraceDepth   \* maxDepth of TraceProcess

\* The resolver goes over the imports of a file, and makes no edge of them.
ASSUME TracerAssumption ==
  /\ \A edges \in Calls : \A e \in edges : e.type # "IMPORTS"
  /\ Exported \cup Named \subseteq Nodes(Size)
  /\ TraceDepth \in Nat

VARIABLES
  entry,     \* the entry point, NoEntry before it is chosen
  queue,     \* the queue of the search: [uid, depth]
  steps,     \* the steps of the process, in order: [uid, depth]
  flowType,  \* the type of the process, "unknown" at first
  complete   \* no query of the search has failed

traceVars == <<entry, queue, steps, flowType, complete>>
vars == <<louvainVars, traceVars>>

NoEntry == Size

TracerInit ==
  /\ Init
  /\ entry = NoEntry
  /\ queue = <<>> /\ steps = <<>>
  /\ flowType = "unknown"
  /\ complete = TRUE

\* QueryEdgesFrom, the CALLS edges.
Callees(u) == { e.to : e \in { x \in stored : x.type = "CALLS" /\ x.from = u } }
Callers(u) == { e.from : e \in { x \in stored : x.type = "CALLS" /\ x.to = u } }

\* FindEntryPoints; heuristic c does not ask whether the function is exported.
\* Of the nodes whose query fails the calls are not known.
EntryPoints(asked) ==
  { u \in Nodes(Size) : \/ u \in Named
                        \/ u \in Exported \cap asked /\ Callers(u) \cap asked = {} /\ Callees(u) # {} }

\* Each entry point is traced on its own, so that one of them will do.
StartTrace(u) ==
  /\ status = "done" /\ entry = NoEntry
  /\ \E asked \in SUBSET Nodes(Size) : u \in EntryPoints(asked)
  /\ entry' = u
  /\ queue' = <<[uid |-> u, depth |-> 0]>>
  /\ steps' = queue'
  /\ UNCHANGED <<louvainVars, flowType, complete>>

Visited == { s.uid : s \in ToSet(steps) }

\* Mutant: a symbol is marked when its item is taken, not when it is queued.
Unfinished(u) == Callees(u) \ { s.uid : s \in ToSet(steps) \ ToSet(Tail(queue)) }

\* Targets that are not visited yet.
Fresh(u) == Callees(u) \ Visited

TooDeep(d) == d >= TraceDepth

\* The rows of a query come in any order.
Orders(S) ==
  { s \in [1..Cardinality(S) -> S] : \A i, j \in DOMAIN s : s[i] = s[j] => i = j }

\* One turn of the loop of TraceProcess.
Expand ==
  /\ queue # <<>>
  /\ LET item == Head(queue)
         targets == IF TooDeep(item.depth) THEN {} ELSE Fresh(item.uid)
     IN \E order \in Orders(targets) :
          LET new == [i \in DOMAIN order |-> [uid |-> order[i], depth |-> item.depth + 1]]
          IN  queue' = Tail(queue) \o new /\ steps' = steps \o new
  /\ UNCHANGED <<louvainVars, entry, flowType, complete>>

\* A query that fails: the loop goes on without what the symbol calls.
SkipSymbol ==
  /\ queue # <<>> /\ ~ TooDeep(Head(queue).depth)
  /\ queue' = Tail(queue)
  /\ complete' = FALSE
  /\ UNCHANGED <<louvainVars, entry, steps, flowType>>

\* ClassifyProcess; every node is in a cluster by now, but the query of one may
\* fail, and then it counts as one that is not.
ClustersOf(uids) == { Assigned[u] : u \in uids }
Classify ==
  /\ entry # NoEntry /\ queue = <<>> /\ flowType = "unknown"
  /\ flowType' \in { "external", IF Cardinality(ClustersOf(Visited)) > 1
                                 THEN "cross_community" ELSE "single_community" }
  /\ UNCHANGED <<louvainVars, entry, queue, steps, complete>>

Trace == (\E u \in Nodes(Size) : StartTrace(u)) \/ Expand \/ SkipSymbol \/ Classify

Next == (Cluster /\ UNCHANGED traceVars) \/ Trace

Spec == TracerInit /\ [][Next]_vars
-----------------------------------------------------------------------------
(* QueryImpact: a recursive query over the edges, whose rows are pairs of  *)
(* a symbol and a depth here; a row's confidence decides nothing.          *)

Relevant(min) ==
  { e \in stored : e.type \in {"CALLS", "IMPORTS"} /\ e.confidence >= min }

\* Mutant: the columns are not swapped.
AlwaysForward(e, direction) == <<e.from, e.to>>

\* fromCol and toCol.
Ends(e, direction) ==
  IF direction = "upstream" THEN <<e.to, e.from>> ELSE <<e.from, e.to>>

Links(direction, min) == { Ends(e, direction) : e \in Relevant(min) }

\* The rows of the query: those of depth one whatever the bound is.
Impact(u, direction, min, maxDepth) ==
  LET links == Links(direction, min)
      rows[d \in Nat] ==
        IF d <= 1 THEN { <<l[2], 1>> : l \in { x \in links : x[1] = u } }
        ELSE rows[d - 1] \cup
             { <<l[2], d>> : l \in { x \in links : <<x[1], d - 1>> \in rows[d - 1] } }
  IN rows[maxDepth]
-----------------------------------------------------------------------------
(* Properties.                                                             *)

Traced == flowType # "unknown"

\* The nodes that calls lead to from u in d steps or fewer.
Within(u, d) ==
  LET ball[i \in Nat] ==
        IF i = 0 THEN {u} ELSE ball[i - 1] \cup UNION { Callees(v) : v \in ball[i - 1] }
  IN ball[d]

\* A process has every symbol that calls lead to within the bound, each once
\* and at its distance from the entry point, whatever the order of the rows
\* and the cycles of the graph.  Where queries failed some are missing, and with
\* them the shorter ways, but none is there that calls do not lead to in as many
\* steps as it says (TraceProcess).
TracesNearest ==
  Traced =>
    /\ \A i, j \in DOMAIN steps : steps[i].uid = steps[j].uid => i = j
    /\ \A s \in ToSet(steps) : s.depth <= TraceDepth /\ s.uid \in Within(entry, s.depth)
    /\ complete =>
         /\ Within(entry, TraceDepth) \subseteq Visited
         /\ \A s \in ToSet(steps) :
              s.depth > 0 => s.uid \notin Within(entry, s.depth - 1)

\* The two ways in which the program follows calls agree: in one direction an
\* impact query of the entry point reports the symbols that a process whose
\* queries succeed traces from it, and in the other the queries of just these
\* symbols report the entry point, with the same bound (QueryImpact, TraceProcess).
\* Which of the two directions is called downstream is not part of it: the comment
\* at query.go:175 has them the other way round than the code.
ImpactMatchesTrace ==
  Traced /\ complete /\ TraceDepth > 0 =>
    \E along, against \in {"downstream", "upstream"} :
      along # against /\ \A u \in Nodes(Size) \ {entry} :
        /\ u \in Visited <=> \E d \in 1 .. TraceDepth : <<u, d>> \in Impact(entry, along, 0, TraceDepth)
        /\ u \in Visited <=> \E d \in 1 .. TraceDepth : <<entry, d>> \in Impact(u, against, 0, TraceDepth)
=============================================================================
