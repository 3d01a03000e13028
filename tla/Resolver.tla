------------------------------- MODULE Resolver -------------------------------
(***************************************************************************)
(* From files to edges: the pool parses the files, and Resolve (internal/  *)
(* resolver) turns their references into edges.  Each file has a goroutine *)
(* that registers its symbols, then, after all of them, one that looks its *)
(* references up and sends the edges to the collector.                     *)
(***************************************************************************)
EXTENDS ParserPool, Extraction

CONSTANTS
  Dir,          \* Dir[f]: the directory of file f, which is also its package path
  Sources,      \* Sources[f]: a sequence of what f may be, a [lang, tree] each
  EdgesPerFile  \* the capacity of edgeCh per file, 4

ASSUME ResolverAssumption ==
  /\ DOMAIN Dir = File /\ DOMAIN Sources = File
  /\ \A f \in File : \A i \in DOMAIN Sources[f] :
       Sources[f][i].lang \in DOMAIN extractor /\ IsTree(Sources[f][i].tree)
  /\ EdgesPerFile \in Nat \ {0}

VARIABLES
  source,    \* source[f]: which of Sources[f] file f is, 0 before Resolve
  table,     \* the files registered in the SymbolTable, in order
  pass,      \* 0 before Resolve, 1 and 2 in its passes
  toResolve, \* toResolve[f]: the references goroutine f has still to look up
  edgeCh,    \* the channel of edges
  shut,      \* edgeCh is closed
  edges,     \* the edges collected
  resolved   \* Resolve has returned

resolverVars == <<source, table, pass, toResolve, edgeCh, shut, edges, resolved>>
allVars == <<vars, resolverVars>>

ResolverInit ==
  /\ Init
  /\ source = [f \in File |-> 0]
  /\ table = <<>> /\ pass = 0
  /\ toResolve = [f \in File |-> <<>>]
  /\ edgeCh = <<>> /\ shut = FALSE
  /\ edges = {} /\ resolved = FALSE

\* The FileSymbols of every file that may be met.
Extracted ==
  [f \in File |-> [s \in DOMAIN Sources[f] |->
     LET lang == Sources[f][s].lang  tree == Sources[f][s].tree
         nodes == Declared(lang, tree)
     IN [nodes |-> nodes,
         uid |-> [i \in nodes |-> NodeUID(f, lang, tree, i)],
         refs |-> Refs(f, lang, tree)]]]

Symbols(f) == Extracted[f][source[f]]
DeclaredIn(f) == Symbols(f).nodes
UID(f, i) == Symbols(f).uid[i]
Text(f) == Sources[f][source[f]]

-----------------------------------------------------------------------------
(* SymbolTable.                                                            *)

\* The symbols of some files that have a name, as pairs of file and index.
Candidates(some, name) ==
  UNION { {f} \X { i \in DeclaredIn(f) : Text(f).tree[i].name = name } : f \in some }

SameDir(f) == { g \in File : Dir[g] = Dir[f] }

\* The candidates of a package are in the order in which files were registered.
First(candidates) ==
  LET file == table[Min({ i \in DOMAIN table : \E c \in candidates : c[1] = table[i] })]
  IN  <<file, Min({ c[2] : c \in { x \in candidates : x[1] = file } })>>

Found(c, confidence) == [to |-> UID(c[1], c[2]), confidence |-> confidence]

\* A name with more than one candidate is a guess.
Guess == 60

\* Mutant: the candidates share the confidence.
Shared(candidates, confidence) == confidence \div Cardinality(candidates)

Sure(candidates, confidence) == IF Cardinality(candidates) = 1 THEN confidence ELSE Guess

\* Resolve, in per cent: the outcomes for a name that f mentions.  Go ranges
\* over the packages in any order, so that the first of any may come first.
Resolve(f, name) ==
  LET known == ToSet(table)
      own == Candidates(known \cap {f}, name)
      package == Candidates(known \cap SameDir(f), name)
      all == Candidates(known, name)
  IN CASE own # {} -> { Found(First(own), Sure(own, 95)) }
       [] own = {} /\ package # {} -> { Found(First(package), Sure(package, 95)) }
       [] OTHER -> { Found(First(Candidates(known \cap SameDir(c[1]), name)), Sure(all, 75)) :
                       c \in all }

\* ResolveQualified: what follows the first dot is looked up, and of a chain
\* that is a name with a dot, which no symbol has.
Outcomes(f, ref) ==
  CASE ref.type = "MEMBER_OF" -> { [to |-> ref.to, confidence |-> 100] }
    [] ref.type # "MEMBER_OF" /\ ref.of = "chain" -> {}
    [] OTHER -> Resolve(f, ref.name)

Edge(ref, outcome) ==
  [from |-> ref.from, to |-> outcome.to, type |-> ref.type, confidence |-> outcome.confidence]

\* A call that resolves to its own caller is dropped.
Dropped(edge) == edge.type = "CALLS" /\ edge.to = edge.from
-----------------------------------------------------------------------------
(* Resolve.                                                                *)

MostSources == Max({ Len(Sources[f]) : f \in File })

\* The caller has all files, and starts a goroutine for each.  What the files
\* are matters from here on only, so that it is chosen here.
StartResolve ==
  /\ done /\ pass = 0
  /\ pass' = 1
  /\ source' \in { s \in [File -> 1 .. MostSources] : \A f \in File : s[f] \in DOMAIN Sources[f] }
  /\ UNCHANGED <<vars, table, toResolve, edgeCh, shut, edges, resolved>>

\* Register holds the lock of the table throughout.
Register(f) ==
  /\ pass # 0 /\ f \in Parsed \ ToSet(table)
  /\ table' = Append(table, f)
  /\ UNCHANGED <<vars, source, pass, toResolve, edgeCh, shut, edges, resolved>>

\* Mutant: the second pass does not wait for the first.
SomeRegistered == table # <<>>

\* wg1.Wait() returns.
AllRegistered == ToSet(table) = Parsed

StartPassTwo ==
  /\ pass = 1 /\ AllRegistered
  /\ pass' = 2
  /\ toResolve' = [f \in File |->
       IF f \in Parsed THEN Symbols(f).refs ELSE <<>>]
  /\ UNCHANGED <<vars, source, table, edgeCh, shut, edges, resolved>>

EdgeRoom == Room(edgeCh, EdgesPerFile * Cardinality(Parsed))

\* One turn of a loop of resolveFile: a lookup, and the send of its edge.
ResolveRef(f) ==
  /\ toResolve[f] # <<>>
  /\ toResolve' = [toResolve EXCEPT ![f] = Tail(@)]
  /\ LET ref == Head(toResolve[f])
     IN IF Outcomes(f, ref) = {}
        THEN UNCHANGED edgeCh
        ELSE \E outcome \in Outcomes(f, ref) :
               IF Dropped(Edge(ref, outcome))
               THEN UNCHANGED edgeCh
               ELSE ~shut /\ EdgeRoom /\ edgeCh' = Append(edgeCh, Edge(ref, outcome))
  /\ UNCHANGED <<vars, source, table, pass, shut, edges, resolved>>

\* wg2.Wait() returns: every goroutine is through with its file.
CloseEdges ==
  /\ pass = 2 /\ ~shut /\ \A f \in File : toResolve[f] = <<>>
  /\ shut' = TRUE
  /\ UNCHANGED <<vars, source, table, pass, toResolve, edgeCh, edges, resolved>>

CollectEdge ==
  /\ edgeCh # <<>>
  /\ edges' = edges \cup {Head(edgeCh)}
  /\ edgeCh' = Tail(edgeCh)
  /\ UNCHANGED <<vars, source, table, pass, toResolve, shut, resolved>>

ResolveReturns ==
  /\ ~resolved /\ shut /\ edgeCh = <<>>
  /\ resolved' = TRUE
  /\ UNCHANGED <<vars, source, table, pass, toResolve, edgeCh, shut, edges>>

Caller2 == StartResolve \/ StartPassTwo \/ CollectEdge \/ ResolveReturns

Goroutine ==
  \/ (Feeder \/ (\E w \in Worker : Work(w)) \/ CloseOut \/ Caller) /\ UNCHANGED resolverVars
  \/ Caller2 \/ CloseEdges
  \/ \E f \in File : Register(f) \/ ResolveRef(f)

ResolverNext == Goroutine \/ (Cancel /\ UNCHANGED resolverVars)

\* The scheduler runs some goroutine while one can go on; each is finite, so
\* that none keeps the others from their turn for ever.
ResolverSpec ==
  ResolverInit /\ [][ResolverNext]_allVars /\ WF_allVars(Goroutine)
-----------------------------------------------------------------------------
(* Properties.                                                             *)

\* What a name may mean to file f: a symbol of its own, else one of its
\* directory, else any.
Meanings(f, name) ==
  LET own == Candidates(Parsed \cap {f}, name)
      near == Candidates(Parsed \cap SameDir(f), name)
  IN  CASE own # {} -> own
        [] own = {} /\ near # {} -> near
        [] OTHER -> Candidates(Parsed, name)

UIDs(symbols) == { UID(s[1], s[2]) : s \in symbols }

\* The references that the text of f makes with the symbol i around them.
Written(f, type, i) ==
  LET word == CASE type = "CALLS" -> "call"
                [] type = "EXTENDS" -> "extends"
                [] OTHER -> "implements"
      tree == Text(f).tree
  IN  { j \in DOMAIN tree : i \in Around(tree, j) /\ tree[j].kind = word }

Explained(e) ==
  \E f \in Parsed : \E i \in DeclaredIn(f) :
    /\ e.from = UID(f, i)
    /\ IF e.type = "MEMBER_OF"
       THEN \E j \in Around(Text(f).tree, i) : e.to = UID(f, j)
       ELSE \E j \in Written(f, e.type, i) :
              LET meant == Meanings(f, Text(f).tree[j].name)
              IN  e.to \in UIDs(meant) /\ (e.confidence > Guess => Cardinality(meant) = 1)

\* Every edge is there for a reference in the text of its symbol, goes to what
\* that name means once all files are known, whichever goroutine came first,
\* and is given more than a guess's confidence only where the name can mean one
\* symbol (resolver.go:11-51, "Pass 2 MUST NOT start before Pass 1 finishes",
\* and symbol_table.go:66-104).
EdgesExplained == \A e \in edges : Explained(e)

\* The calls of file f with the innermost symbol whose body they are in.
Attributed(f) ==
  LET lang == Text(f).lang  tree == Text(f).tree
  IN  { <<Max(Bodies(lang, tree) \cap Around(tree, j)), j>> :
          j \in { k \in DOMAIN tree : /\ Understood(lang, tree[k]) /\ tree[k].of # "chain"
                                      /\ Bodies(lang, tree) \cap Around(tree, k) # {} } }

\* When Resolve returns, a call whose name means something has an edge from the
\* innermost symbol around it, however many goroutines shared the channel of
\* edges; only where the name may mean the caller itself there may be none
\* (parser.go:288-307, resolver.go:33-50 and 119).
NothingMissed ==
  resolved =>
    \A f \in Parsed : \A call \in Attributed(f) :
      LET caller == UID(f, call[1])
          meant == UIDs(Meanings(f, Text(f).tree[call[2]].name))
      IN  \/ meant = {} \/ caller \in meant
          \/ \E e \in edges : e.type = "CALLS" /\ e.from = caller /\ e.to \in meant

ResolverTypeOK ==
  /\ TypeOK
  /\ \A f \in File : source[f] \in DOMAIN Sources[f] \/ (pass = 0 /\ source[f] = 0)
  /\ ToSet(table) \subseteq Parsed /\ Len(table) = Cardinality(ToSet(table))
  /\ pass \in 0 .. 2 /\ shut \in BOOLEAN /\ resolved \in BOOLEAN
  /\ \A e \in edges \cup ToSet(edgeCh) :
       /\ e.type \in {"CALLS", "EXTENDS", "IMPLEMENTS", "MEMBER_OF"}
       /\ e.confidence \in {Guess, 75, 95, 100}
       /\ e.from.file \in Parsed /\ e.to.file \in Parsed

\* All of it ends, although every channel is smaller than what goes through it:
\* the edges are there, and unless the context is cancelled no goroutine is
\* left behind (pool.go:66-120, analyze.go:376-392, resolver.go:30-50).
AllReturns == <>(resolved /\ (cancelled \/ (fed /\ AllExited)))
=============================================================================
