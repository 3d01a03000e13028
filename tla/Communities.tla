----------------------------- MODULE Communities -----------------------------
(***************************************************************************)
(* The tables of communities: how `mimir analyze` rewrites them            *)
(* (cmd/mimir/analyze.go, internal/store/clusters.go), and what is made of *)
(* them, the module skills (internal/setup/skills.go) and the wiki         *)
(* (cmd/mimir/wiki.go).                                                    *)
(*                                                                         *)
(* Every transaction and every file is one step.  The symbols stay the     *)
(* same here; Louvain may return another partition of them each time,      *)
(* since it depends on the order of Go maps.                               *)
(***************************************************************************)
EXTENDS Naturals, FiniteSets

CONSTANTS
  Symbol,     \* uids of the index
  Dir,        \* Dir[s]: the last two directories of the path of s
  Edges,      \* the edges as pairs of symbols, of one weight
  Partition,  \* Partition[n]: what Louvain may return for the symbols n: sets of sets of them
  FileName,   \* FileName[l]: sanitizeFilename of label l
  Command,    \* processes, each of them one command
  Absent,     \* "no row", "no file"
  FaultSets   \* the environments considered: sets of FaultKinds

FaultKinds ==
  { "crash",         \* a command dies, or returns an error, between two steps
    "overlap",       \* an analyze runs while another one does
    "discarded",     \* a statement fails whose error nobody looks at
    "write_fails" }  \* a file cannot be written

Id == 0 .. Cardinality(Symbol) - 1
Label == { Dir[s] : s \in Symbol }

\* A row of clusters without its id, and a community as it is in memory.
Row == [label : Label, module : BOOLEAN]
CommunityType == [id : Id, label : Label, module : BOOLEAN, members : SUBSET Symbol]

ASSUME CommunitiesAssumption ==
  /\ IsFiniteSet(Symbol)
  /\ Edges \subseteq Symbol \X Symbol
  /\ \A n \in SUBSET Symbol : \A p \in Partition[n] :
       UNION p = n /\ {} \notin p /\ \A a, b \in p : a = b \/ a \cap b = {}
  /\ DOMAIN Dir = Symbol /\ { Dir[s] : s \in Symbol } \subseteq DOMAIN FileName
  /\ Absent \notin Command /\ Absent \notin Id /\ Absent \notin Row /\ Absent \notin CommunityType
  /\ FaultSets \subseteq SUBSET FaultKinds

VARIABLES
  faults,     \* what may go wrong in this behavior; never changes
  kind,       \* kind[c]: "analyze" or "wiki"
  clusters,   \* table clusters: clusters[id] has a label and is a module or not
  member,     \* table cluster_members, pairs of an id and a symbol
  clusterId,  \* column cluster_id of nodes
  skills,     \* skills[name]: the community in modules/<name>.md
  pages,      \* pages[id]: the community in wiki/<id>.md
  overview,   \* the communities that WIKI.md lists and links
  pc,         \* pc[c]: where command c is
  todo,       \* todo[c]: the communities its loop has still to treat
  current,    \* current[c]: the one it is writing
  read,       \* read[c]: the communities it has read, with their members
  latest,     \* the command that was started last
  alone       \* no other was running then

tables == <<clusters, member, clusterId>>
outputs == <<skills, pages, overview>>
history == <<latest, alone>>
vars == <<faults, kind, tables, outputs, pc, todo, current, read, history>>

-----------------------------------------------------------------------------
(* internal/cluster.                                                       *)

\* The adjacency lists of BuildGraph.
Links(edges) == edges \cup { <<e[2], e[1]>> : e \in edges }

\* cohesion, at least the 0.3 of a module.
IsModule(members, edges) ==
  LET total == { l \in Links(edges) : l[1] \in members }
      intra == { l \in total : l[2] \in members }
  IN  total # {} /\ 10 * Cardinality(intra) >= 3 * Cardinality(total)

\* LabelCommunity and topKey: the most common directory, any of several.
LabelCommunity(members) ==
  LET dirCount(l) == Cardinality({ s \in members : Dir[s] = l })
  IN  { l \in Label : \A k \in Label : dirCount(k) <= dirCount(l) }

Community(id, label, module, members) ==
  [id |-> id, label |-> label, module |-> module, members |-> members]

\* What the levels may end in: without edges every symbol stays alone.
Partitions(n, edges) == IF edges = {} THEN {{ {s} : s \in n }} ELSE Partition[n]

\* The communities that Louvain may return: numbered from 0, in any order.
Louvain(n, edges) ==
  UNION { LET numbers == { f \in [p -> 0 .. Cardinality(p) - 1] : \A a, b \in p : f[a] = f[b] => a = b }
              labels == { l \in [p -> Label] : \A m \in p : l[m] \in LabelCommunity(m) }
          IN { { Community(f[m], l[m], IsModule(m, edges), m) : m \in p } : f \in numbers, l \in labels } :
          p \in Partitions(n, edges) }
-----------------------------------------------------------------------------
Init ==
  /\ faults \in FaultSets
  /\ kind \in [Command -> {"analyze", "wiki"}]
  /\ clusters = [id \in Id |-> Absent] /\ member = {}
  /\ clusterId = [s \in Symbol |-> Absent]
  /\ skills = [name \in { FileName[l] : l \in Label } |-> Absent]
  /\ pages = [id \in Id |-> Absent] /\ overview = {}
  /\ pc = [c \in Command |-> "idle"]
  /\ todo = [c \in Command |-> {}] /\ current = [c \in Command |-> Absent]
  /\ read = [c \in Command |-> {}]
  /\ latest = Absent /\ alone = TRUE

Running == { c \in Command : pc[c] \notin {"idle", "done", "skipped", "dead"} }

Go(c, where) == pc' = [pc EXCEPT ![c] = where]
Put(x, c, value) == [x EXCEPT ![c] = value]
\* The process is gone.
Ends(c, how) ==
  /\ Go(c, how)
  /\ todo' = Put(todo, c, {}) /\ current' = Put(current, c, Absent) /\ read' = Put(read, c, {})
Treated(c, x) == todo' = Put(todo, c, todo[c] \ {x})

Start(c) ==
  /\ pc[c] = "idle"
  /\ kind[c] = "analyze" /\ "overlap" \notin faults => \A d \in Running : kind[d] = "wiki"
  /\ Go(c, IF kind[c] = "analyze" THEN "clear" ELSE "rows")
  /\ latest' = c /\ alone' = (Running = {})
  /\ UNCHANGED <<faults, kind, tables, outputs, todo, current, read>>

\* Mutant: the members are left to a cascade that the schema does not have.
RowsOnly == member

\* What DeleteAllClusters leaves of cluster_members.
MembersLeft == {}

\* One transaction; then the graph is read and clustered.
DeleteAllClusters(c) ==
  /\ pc[c] = "clear"
  /\ clusters' = [id \in Id |-> Absent]
  /\ member' = MembersLeft
  /\ clusterId' = [s \in Symbol |-> Absent]
  /\ \E communities \in Louvain(Symbol, Edges) : todo' = Put(todo, c, communities)
  /\ Go(c, "cluster")
  /\ UNCHANGED <<faults, kind, outputs, current, read, history>>

\* Of the three statements only the last is asked how it went, and neither are
\* AllNodes and AllEdges: their rows may end early, or not come at all.
ClearsPartly(c) ==
  /\ "discarded" \in faults
  /\ pc[c] = "clear"
  /\ clusters' \in { clusters, [id \in Id |-> Absent] }
  /\ member' \in { member, MembersLeft }
  /\ clusterId' = [s \in Symbol |-> Absent]
  /\ \E n \in SUBSET Symbol, edges \in SUBSET Edges : \E communities \in Louvain(n, edges) :
       todo' = Put(todo, c, communities)
  /\ Go(c, "cluster")
  /\ UNCHANGED <<faults, kind, outputs, current, read, history>>

UpsertCluster(c) ==
  /\ pc[c] = "cluster"
  /\ \E x \in todo[c] :
       /\ clusters' = [clusters EXCEPT ![x.id] = [label |-> x.label, module |-> x.module]]
       /\ current' = Put(current, c, x)
       /\ Treated(c, x)
  /\ Go(c, "members")
  /\ UNCHANGED <<faults, kind, member, clusterId, outputs, read, history>>

\* The rows that UpsertClusterMembers inserts: its key is the pair.
NewMembers(x) == {x.id} \X x.members

UpsertClusterMembers(c) ==
  /\ pc[c] = "members"
  /\ member' = member \cup NewMembers(current[c])
  /\ Go(c, "ids")
  /\ UNCHANGED <<faults, kind, clusters, clusterId, outputs, todo, current, read, history>>

SetClusterForNodes(c) ==
  /\ pc[c] = "ids"
  /\ clusterId' = [s \in Symbol |-> IF s \in current[c].members THEN current[c].id ELSE clusterId[s]]
  /\ current' = Put(current, c, Absent)
  /\ Go(c, "cluster")
  /\ UNCHANGED <<faults, kind, clusters, member, outputs, todo, read, history>>

\* On to the skills, unless --skip-skills; what lies between is about other
\* tables and files.
Clustered(c) ==
  /\ pc[c] = "cluster" /\ todo[c] = {}
  /\ Go(c, "rows") \/ Go(c, "skipped")
  /\ UNCHANGED <<faults, kind, tables, outputs, todo, current, read, history>>

\* AllClusters: the rows, then the members of each, one statement each.
AllClusters(c) ==
  /\ pc[c] = "rows"
  /\ todo' = Put(todo, c, { Community(id, clusters[id].label, clusters[id].module, {}) :
                              id \in { i \in Id : clusters[i] # Absent } })
  /\ Go(c, "read_members")
  /\ UNCHANGED <<faults, kind, tables, outputs, current, read, history>>

MembersOf(id) == { s \in Symbol : <<id, s>> \in member }

ReadMembers(c) ==
  /\ pc[c] = "read_members"
  /\ \E x \in todo[c] :
       /\ read' = Put(read, c, read[c] \cup {[x EXCEPT !.members = MembersOf(x.id)]})
       /\ Treated(c, x)
  /\ UNCHANGED <<faults, kind, tables, outputs, pc, current, history>>

HasRead(c) ==
  /\ pc[c] = "read_members" /\ todo[c] = {}
  /\ todo' = Put(todo, c, read[c])
  /\ Go(c, IF kind[c] = "analyze" THEN "skills" ELSE "pages")
  /\ UNCHANGED <<faults, kind, tables, outputs, current, read, history>>

\* The error of AllClusters ends a wiki; an analyze goes on with no community.
ClustersUnread(c) ==
  /\ "discarded" \in faults
  /\ kind[c] = "analyze" /\ pc[c] \in {"rows", "read_members"}
  /\ todo' = Put(todo, c, {}) /\ read' = Put(read, c, {})
  /\ Go(c, "skills")
  /\ UNCHANGED <<faults, kind, tables, outputs, current, history>>
-----------------------------------------------------------------------------
(* InstallDynamicSkills.                                                   *)

\* Mutant: communities of low cohesion are not left out.
AnyCommunity(x) == TRUE

Worthy(x) == x.module

WriteSkill(c) ==
  /\ pc[c] = "skills"
  /\ \E x \in todo[c] :
       /\ skills' = IF Worthy(x) THEN [skills EXCEPT ![FileName[x.label]] = x] ELSE skills
       /\ Treated(c, x)
  /\ UNCHANGED <<faults, kind, tables, pages, overview, pc, current, read, history>>

\* The error ends the loop, and is ignored.
SkillFails(c) ==
  /\ "write_fails" \in faults
  /\ pc[c] = "skills" /\ \E x \in todo[c] : Worthy(x)
  /\ todo' = Put(todo, c, {})
  /\ UNCHANGED <<faults, kind, tables, outputs, pc, current, read, history>>

SkillsInstalled(c) ==
  /\ pc[c] = "skills" /\ todo[c] = {}
  /\ Ends(c, "done")
  /\ UNCHANGED <<faults, kind, tables, outputs, history>>
-----------------------------------------------------------------------------
(* runWiki.                                                                *)

\* A page that cannot be written is only warned of.
WritePage(c) ==
  /\ pc[c] = "pages"
  /\ \E x \in todo[c] :
       /\ \/ pages' = [pages EXCEPT ![x.id] = x]
          \/ "write_fails" \in faults /\ UNCHANGED pages
       /\ Treated(c, x)
  /\ UNCHANGED <<faults, kind, tables, skills, overview, pc, current, read, history>>

\* Mutant: WIKI.md does not wait for the pages.
AtOnce(c) == TRUE

PagesWritten(c) == todo[c] = {}

WriteOverview(c) ==
  /\ pc[c] = "pages" /\ PagesWritten(c)
  /\ overview' = read[c]
  /\ Ends(c, "done")
  /\ UNCHANGED <<faults, kind, tables, skills, pages, history>>

Crash(c) ==
  /\ "crash" \in faults
  /\ c \in Running
  /\ Ends(c, "dead")
  /\ UNCHANGED <<faults, kind, tables, outputs, history>>

Next ==
  \E c \in Command :
    \/ Start(c) \/ DeleteAllClusters(c) \/ ClearsPartly(c)
    \/ UpsertCluster(c) \/ UpsertClusterMembers(c) \/ SetClusterForNodes(c) \/ Clustered(c)
    \/ AllClusters(c) \/ ReadMembers(c) \/ HasRead(c) \/ ClustersUnread(c)
    \/ WriteSkill(c) \/ SkillFails(c) \/ SkillsInstalled(c)
    \/ WritePage(c) \/ WriteOverview(c)
    \/ Crash(c)

Spec == Init /\ [][Next]_vars
-----------------------------------------------------------------------------
(* Properties.                                                             *)

\* The communities that the tables hold.
Stored ==
  { Community(id, clusters[id].label, clusters[id].module, { s \in Symbol : <<id, s>> \in member }) :
      id \in { i \in Id : clusters[i] # Absent } }

\* The command that was started last has ended, and no other ran meanwhile.
EndedAlone(k) == latest # Absent /\ alone /\ kind[latest] = k /\ pc[latest] = "done"

\* The analyses that have ended.
Clusterers == { c \in Command : kind[c] = "analyze" /\ pc[c] \in {"done", "skipped"} }

\* While analyses do not overlap, wherever one dies and at every moment, a
\* symbol is in one community at most, which has a row, and cluster_id names
\* no other, not even where an error was discarded.  Analyses that overlap put a
\* symbol into the communities of both, but once all have ended it is in one
\* that has a row, since each writes all of its communities after it has deleted
\* those of the others.  Both need the statements whose errors are discarded to
\* succeed: an analysis that reads no symbol ends without any community
\* (clusters.go:36-91 and 220-229, analyze.go:183-215).
EveryoneInACommunity ==
  /\ "overlap" \notin faults =>
       /\ "discarded" \notin faults =>
            /\ \A m, n \in member : m[2] = n[2] => m = n
            /\ \A m \in member : clusters[m[1]] # Absent
       /\ \A s \in Symbol : clusterId[s] = Absent \/ <<clusterId[s], s>> \in member
  /\ ("discarded" \notin faults /\ Running = {} /\ Clusterers # {} /\ \A c \in Command : pc[c] # "dead") =>
       \A s \in Symbol : \E x \in Stored : s \in x.members

\* After an analysis that ran alone, whatever died before it, the file of each
\* module's name describes a module of now that has this name, whole, unless a
\* file could not be written or the communities not be read
\* (skills.go:34-50, analyze.go:300-313).
SkillsOfNow ==
  (EndedAlone("analyze") /\ faults \cap {"write_fails", "discarded"} = {}) =>
    \A x \in Stored : x.module =>
      \E y \in Stored : y.module /\ FileName[y.label] = FileName[x.label] /\ skills[FileName[x.label]] = y

\* A wiki that was written alone lists the communities of the tables, and the
\* page behind each link is that of its community; whatever dies half-way or
\* runs at the same time, a link of WIKI.md leads to a page, since the pages
\* are written first and none is ever removed (wiki.go:49-121).
WikiExact ==
  "write_fails" \notin faults =>
    /\ \A x \in overview : pages[x.id] # Absent
    /\ EndedAlone("wiki") => overview = Stored /\ \A x \in overview : pages[x.id] = x
=============================================================================
