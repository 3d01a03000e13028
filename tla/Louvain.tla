-------------------------------- MODULE Louvain --------------------------------
(***************************************************************************)
(* Louvain community detection (internal/cluster/louvain.go) as `mimir     *)
(* analyze` uses it.  A level visits the nodes of the current graph in     *)
(* order (phase1) and then makes one node of each community (phase2); the  *)
(* levels repeat until one moves nothing.  Weights are integers, so a gain *)
(* is compared exactly, scaled by 2 * total ^ 2; the code has floats.  The *)
(* choice among communities of equal gain is free: the code takes the      *)
(* first in the order of a Go map.                                         *)
(***************************************************************************)
EXTENDS Naturals, FiniteSets, FiniteSetsExt, Functions

CONSTANTS
  Size,        \* the number of nodes in the store
  Calls,       \* sets of edges in the store: [from, to, type, confidence]
  Resolution   \* the --resolution flag

Nodes(n) == 0 .. n - 1

ASSUME LouvainAssumption ==
  /\ Size \in Nat
  /\ Resolution \in Nat
  /\ \A edges \in Calls : IsFiniteSet(edges) /\ \A e \in edges : e.confidence \in Nat
-----------------------------------------------------------------------------
(* Graphs: adj[i][j] is the weight in the adjacency list of i towards j.   *)

Used(edges) ==
  { e \in edges : /\ e.type \in {"CALLS", "IMPORTS"}
                  /\ {e.from, e.to} \subseteq Nodes(Size) }

Confidences(edges) == SumFunction([e \in edges |-> e.confidence])
Weight(edges, i, j) == Confidences({ e \in edges : e.from = i /\ e.to = j })

Degrees(n, adj) == [i \in Nodes(n) |-> SumFunction(adj[i])]

\* An edge goes into the lists of both its ends; a self-edge twice into one.
BuildGraph(edges) ==
  LET kept == Used(edges)
      adj == [i \in Nodes(Size) |-> [j \in Nodes(Size) |->
                Weight(kept, i, j) + Weight(kept, j, i)]]
  IN [size |-> Size, adj |-> adj, degree |-> Degrees(Size, adj),
      total |-> Confidences(kept)]

Members(c, of) == { i \in DOMAIN of : of[i] = c }

\* The communities renumbered in the order of their first members (remap).
Unnumbered(of) == of
Remap(of) ==
  [i \in DOMAIN of |->
     Cardinality({ of[j] : j \in 0 .. Min(Members(of[i], of)) - 1 })]
Count(of) == Cardinality({ of[i] : i \in DOMAIN of })

\* edgeAcc: what the adjacency lists hold between the members of c and of d,
\* both ways.
Between(g, of, c, d) ==
  LET ends == { p \in Nodes(g.size) \X Nodes(g.size) :
                  {of[p[1]], of[p[2]]} = {c, d} }
  IN SumFunction([p \in ends |-> g.adj[p[1]][p[2]]])

\* The graph of the communities.  A self-loop goes into a list once, but
\* counts twice in the degree.
Contract(g, of) ==
  LET n == Count(of)
      adj == [c \in Nodes(n) |-> [d \in Nodes(n) |-> Between(g, of, c, d)]]
      upper == { p \in Nodes(n) \X Nodes(n) : p[1] <= p[2] }
  IN [size |-> n, adj |-> adj,
      degree |-> [c \in Nodes(n) |-> Degrees(n, adj)[c] + adj[c][c]],
      total |-> SumFunction([p \in upper |-> adj[p[1]][p[2]]])]
-----------------------------------------------------------------------------
VARIABLES
  stored,       \* the edges of the store; never change
  input,        \* the graph BuildGraph makes of them
  graph,        \* currentG
  comm,         \* comm[i]: the community of node i of the current graph
  next,         \* the node that phase1 visits next
  improved,     \* whether this level has moved a node
  nodeToSuper,  \* the node of the current graph that stands for an original one
  level,        \* the number of this level; Deep for the third and later ones
  status        \* "running", "done"

louvainVars == <<stored, input, graph, comm, next, improved, nodeToSuper, level, status>>

Deep == 3

Alone(n) == [i \in Nodes(n) |-> i]

Init ==
  /\ stored \in Calls
  /\ input = BuildGraph(stored)
  /\ graph = input
  /\ comm = Alone(Size)
  /\ next = 0
  /\ improved = FALSE
  /\ nodeToSuper = Alone(Size)
  /\ level = 1
  /\ status = "running"

Neighbors(i) == { j \in Nodes(graph.size) \ {i} : graph.adj[i][j] > 0 }
NeighborCommunities(i) == { comm[j] : j \in Neighbors(i) }

\* neighComms[c], and commWeight[c] without the node itself.
WithItself(i, c) == SumFunctionOnSet(graph.degree, Members(c, comm))
CommWeight(i, c) == SumFunctionOnSet(graph.degree, Members(c, comm) \ {i})
LinksTo(i, c) == SumFunctionOnSet(graph.adj[i], Members(c, comm) \ {i})

Reward(i, c) == 2 * graph.total * Resolution * LinksTo(i, c)
Penalty(i, c) == CommWeight(i, c) * graph.degree[i]

\* A gain above zero: staying is worth zero at the start.
Gainful(i) == { c \in NeighborCommunities(i) : Reward(i, c) > Penalty(i, c) }
Best(i) ==
  { c \in Gainful(i) : \A d \in Gainful(i) :
      Reward(i, c) + Penalty(i, d) >= Reward(i, d) + Penalty(i, c) }
Chosen(i) == IF Gainful(i) = {} THEN {comm[i]} ELSE Best(i)
HasCandidates(i, c) == NeighborCommunities(i) # {}
Moves(i, c) == c # comm[i]

\* phase1, one node.
Visit ==
  /\ status = "running"
  /\ graph.total > 0
  /\ next < graph.size
  /\ \E c \in Chosen(next) :
       /\ comm' = [comm EXCEPT ![next] = c]
       /\ improved' = (improved \/ Moves(next, c))
  /\ next' = next + 1
  /\ UNCHANGED <<stored, input, graph, nodeToSuper, level, status>>

LevelEnded == next = graph.size \/ graph.total = 0

\* nodeToSuper[i] = newComm[nodeToSuper[i]]
LiftByPlace(new) ==
  [i \in Nodes(Size) |-> IF i \in DOMAIN new THEN new[i] ELSE new[nodeToSuper[i]]]
Lift(new) == [i \in Nodes(Size) |-> new[nodeToSuper[i]]]

\* phase2.
Aggregate ==
  /\ status = "running"
  /\ LevelEnded
  /\ improved
  /\ LET new == Remap(comm)
     IN /\ graph' = Contract(graph, new)
        /\ nodeToSuper' = Lift(new)
        /\ comm' = Alone(Count(new))
  /\ next' = 0
  /\ improved' = FALSE
  /\ level' = IF level < Deep THEN level + 1 ELSE Deep
  /\ UNCHANGED <<stored, input, status>>

Finish ==
  /\ status = "running"
  /\ LevelEnded
  /\ ~improved
  /\ status' = "done"
  /\ UNCHANGED <<stored, input, graph, comm, next, improved, nodeToSuper, level>>

Cluster == Visit \/ Aggregate \/ Finish

Clustering == Init /\ [][Cluster]_louvainVars
-----------------------------------------------------------------------------
(* Properties.                                                             *)

\* The community of each original node.
Assigned == [i \in Nodes(Size) |-> comm[nodeToSuper[i]]]

\* The types; every node of the current graph stands for an original one, so
\* that no community of the result is empty (Louvain, groups).
TypeOK ==
  /\ graph.size \in 0 .. Size
  /\ graph.adj \in [Nodes(graph.size) -> [Nodes(graph.size) -> Nat]]
  /\ graph.degree \in [Nodes(graph.size) -> Nat]
  /\ graph.total \in Nat
  /\ comm \in [Nodes(graph.size) -> Nodes(graph.size)]
  /\ next \in 0 .. graph.size
  /\ improved \in BOOLEAN
  /\ nodeToSuper \in [Nodes(Size) -> Nodes(graph.size)]
  /\ { nodeToSuper[i] : i \in Nodes(Size) } = Nodes(graph.size)
  /\ level \in 1 .. Deep
  /\ status \in {"running", "done"}

\* No call leads from S to the rest of the store, or back.
Closed(S) == \A i \in S, j \in Nodes(Size) \ S : input.adj[i][j] = 0

\* A cluster holds only symbols that calls connect, directly or through
\* others, however the levels renumber them: a set of symbols that no call
\* leaves shares no community with the rest (Louvain, nodeToSuper).
WithinComponent ==
  \A S \in SUBSET Nodes(Size) :
    Closed(S) => \A i \in S, j \in Nodes(Size) \ S : Assigned[i] # Assigned[j]

\* Every level leaves a smaller graph, which is what ends the loop of Louvain:
\* phase1 reports an improvement only if it emptied a community.
LevelsShrink == [][graph' # graph => graph'.size < graph.size]_louvainVars

\* The two terms of the modularity of a partition of the store's graph, over
\* (2 * total) ^ 2: what its communities hold, and what is expected of them.
Held(of) ==
  LET within == { p \in Nodes(Size) \X Nodes(Size) : of[p[1]] = of[p[2]] }
  IN 2 * input.total * Resolution * SumFunction([p \in within |-> input.adj[p[1]][p[2]]])
Expected(of) ==
  LET degree(c) == SumFunctionOnSet(input.degree, Members(c, of))
  IN SumFunction([c \in { of[i] : i \in Nodes(Size) } |-> degree(c) * degree(c)])

Lowers == Held(Assigned') + Expected(Assigned) < Held(Assigned) + Expected(Assigned')

\* In the first two levels no move of phase1 lowers the modularity of the
\* store's graph (it may keep it: among equal gains the code does not prefer
\* the community that the node is in).  The gain it compares is that of the
\* move, on the graph that phase2 contracted as well as on the original one.
EarlyLevelsOptimize == [][level < Deep => ~Lowers]_louvainVars

\* "It iteratively optimizes Modularity" (docs/algorithms.md:15): no step of
\* the algorithm lowers it.  The code breaks this from the third level on:
\* phase2 adds up a self-loop once where it adds up other edges twice.
OptimizesModularity == [][~Lowers]_louvainVars
=============================================================================
