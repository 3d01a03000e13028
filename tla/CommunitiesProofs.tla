-------------------------- MODULE CommunitiesProofs --------------------------
(***************************************************************************)
(* Proofs about module Communities: the tables of communities, the skills  *)
(* and the wiki, for any symbols, partitions and number of commands.       *)
(***************************************************************************)
EXTENDS Communities, FiniteSetTheorems, TLAPS

\* Where an analysis fills the tables, and where it has cleared them.
Filling == {"cluster", "members", "ids"}
PastClear == Filling \cup {"rows", "read_members", "skills", "done", "skipped"}

Types ==
  /\ faults \in FaultSets
  /\ kind \in [Command -> {"analyze", "wiki"}]
  /\ clusters \in [Id -> Row \cup {Absent}] /\ member \in SUBSET (Id \X Symbol)
  /\ clusterId \in [Symbol -> Id \cup {Absent}]
  /\ DOMAIN skills = { FileName[l] : l \in Label }
  /\ DOMAIN pages = Id
  /\ pc \in [Command -> PastClear \cup {"idle", "clear", "pages", "dead"}]
  /\ todo \in [Command -> SUBSET CommunityType]
  /\ current \in [Command -> CommunityType \cup {Absent}]
  /\ read \in [Command -> SUBSET CommunityType]
  /\ latest \in Command \cup {Absent} /\ alone \in BOOLEAN
  /\ \A c \in Command :
       /\ pc[c] \in {"members", "ids"} => current[c] # Absent
       /\ pc[c] \in Filling \cup {"idle", "clear", "rows"} => read[c] = {}
       /\ pc[c] \in Filling \cup {"clear", "skills", "skipped"} => kind[c] = "analyze"
       /\ pc[c] = "pages" => kind[c] = "wiki"
       /\ pc[c] = "done" => todo[c] = {}

\* Analyses that do not overlap; what cluster_id names is in the table.
ClusterIdInv ==
  "overlap" \notin faults =>
    /\ \A c, d \in Running : kind[c] = "analyze" /\ kind[d] = "analyze" => c = d
    /\ \A s \in Symbol : clusterId[s] = Absent \/ <<clusterId[s], s>> \in member
    /\ \A c \in Command : pc[c] = "ids" => {current[c].id} \X current[c].members \subseteq member

\* A symbol that has been put into a community is in none of those to come.
OneCommunityInv ==
  "overlap" \notin faults /\ "discarded" \notin faults =>
    /\ \A m, n \in member : m[2] = n[2] => m = n
    /\ \A m \in member : clusters[m[1]] # Absent
    /\ \A c \in Command : pc[c] \in Filling =>
         /\ \A x, y \in todo[c] : x # y => x.members \cap y.members = {}
         /\ \A x \in todo[c], m \in member : m[2] \notin x.members
         /\ pc[c] = "members" =>
              /\ clusters[current[c].id] # Absent
              /\ \A x \in todo[c] : x.members \cap current[c].members = {}
              /\ \A m \in member : m[2] \notin current[c].members

\* The symbol is in a community that has a row.
Placed(s) == \E id \in Id : <<id, s>> \in member /\ clusters[id] # Absent

\* The analysis d places the symbol, or has placed it.
PlacedBy(d, s) ==
  \/ Placed(s)
  \/ pc[d] \in Filling /\ \E x \in todo[d] : s \in x.members
  \/ pc[d] = "members" /\ s \in current[d].members /\ clusters[current[d].id] # Absent

\* Once an analysis has cleared the tables there is one, the last that did, that
\* places every symbol, unless it has died.
CoverInv ==
  ("discarded" \notin faults /\ \E c \in Command : kind[c] = "analyze" /\ pc[c] \in PastClear) =>
    \E d \in Command :
      \/ pc[d] = "dead"
      \/ kind[d] = "analyze" /\ pc[d] \in PastClear /\ \A s \in Symbol : PlacedBy(d, s)

\* A community as AllClusters knows it before it has read the members.
Bare(y) == [y EXCEPT !.members = {}]

\* The command that was started last runs alone if no other did then; it has in
\* hand what the tables hold, and what it has treated is in the files.
AloneInv ==
  latest # Absent /\ alone =>
    /\ Running \subseteq {latest}
    /\ pc[latest] = "read_members" =>
         /\ todo[latest] \subseteq { Bare(y) : y \in Stored }
         /\ read[latest] \subseteq Stored
         /\ \A y \in Stored : y \in read[latest] \/ Bare(y) \in todo[latest]
    /\ pc[latest] = "skills" => todo[latest] \subseteq Stored
    /\ (pc[latest] = "skills" \/ (pc[latest] = "done" /\ kind[latest] = "analyze")) /\ faults \cap {"write_fails", "discarded"} = {} =>
         \A x \in Stored \ todo[latest] : x.module =>
           \E y \in Stored : y.module /\ FileName[y.label] = FileName[x.label] /\ skills[FileName[x.label]] = y
    /\ pc[latest] = "pages" =>
         /\ todo[latest] \subseteq Stored /\ read[latest] = Stored
         /\ "write_fails" \notin faults => \A x \in Stored \ todo[latest] : pages[x.id] = x
    /\ pc[latest] = "done" /\ kind[latest] = "wiki" /\ "write_fails" \notin faults =>
         overview = Stored /\ \A x \in Stored : pages[x.id] = x

\* A page that a wiki has treated is there, and no page ever goes.
PagesInv ==
  "write_fails" \notin faults =>
    /\ \A x \in overview : pages[x.id] # Absent
    /\ \A c \in Command : pc[c] = "pages" =>
         \A x \in read[c] : x \in todo[c] \/ pages[x.id] # Absent
-----------------------------------------------------------------------------
\* The communities of some symbols have ids of the index, and every one of the
\* symbols is in exactly one of them.
LEMMA LouvainGives ==
  ASSUME NEW nodes \in SUBSET Symbol, NEW edges \in SUBSET Edges, NEW communities \in Louvain(nodes, edges)
  PROVE  /\ communities \subseteq CommunityType
         /\ \A x, y \in communities : x # y => x.members \cap y.members = {}
         /\ \A s \in nodes : \E x \in communities : s \in x.members
<1> DEFINE numbers(p) == { n \in [p -> 0 .. Cardinality(p) - 1] : \A a, b \in p : n[a] = n[b] => a = b }
           labels(p) == { l \in [p -> Label] : \A m \in p : l[m] \in LabelCommunity(m) }
           result(p, n, l) == { Community(n[m], l[m], IsModule(m, edges), m) : m \in p }
<1>0. PICK p \in Partitions(nodes, edges) :
        \E n \in [p -> 0 .. Cardinality(p) - 1], l \in [p -> Label] : communities = result(p, n, l)
  <2>1. Louvain(nodes, edges) =
          UNION { { result(p, n, l) : n \in numbers(p), l \in labels(p) } : p \in Partitions(nodes, edges) }
    BY DEF Louvain
  <2> HIDE DEF result
  <2>2. PICK p \in Partitions(nodes, edges) : communities \in { result(p, n, l) : n \in numbers(p), l \in labels(p) }
    BY <2>1
  <2>3. QED
    BY <2>2
<1>1. PICK n \in [p -> 0 .. Cardinality(p) - 1], l \in [p -> Label] :
        communities = { Community(n[m], l[m], IsModule(m, edges), m) : m \in p }
  BY <1>0
<1>2. UNION p = nodes /\ {} \notin p /\ \A a, b \in p : a = b \/ a \cap b = {}
  <2>1. CASE edges = {}
    <3>1. p = { {s} : s \in nodes }
      BY <2>1 DEF Partitions
    <3>2. \A m \in p : \E s \in nodes : m = {s}
      BY <3>1
    <3>3. \A s \in nodes : {s} \in p
      BY <3>1
    <3>4. ASSUME NEW a \in p, NEW b \in p PROVE a = b \/ a \cap b = {}
      <4>1. PICK s \in nodes, t \in nodes : a = {s} /\ b = {t}
        BY <3>2
      <4>2. CASE s = t
        BY <4>1, <4>2
      <4>3. CASE s # t
        BY <4>1, <4>3
      <4>4. QED
        BY <4>2, <4>3
    <3>5. UNION p = nodes
      <4>1. ASSUME NEW s \in UNION p PROVE s \in nodes
        <5>1. PICK m \in p : s \in m
          BY <4>1
        <5>2. PICK t \in nodes : m = {t}
          BY <3>2
        <5>3. QED
          BY <5>1, <5>2
      <4>2. ASSUME NEW s \in nodes PROVE s \in UNION p
        BY <3>3, <4>2
      <4>3. QED
        BY <4>1, <4>2
    <3>6. {} \notin p
      BY <3>2
    <3>7. QED
      BY <3>4, <3>5, <3>6
  <2>2. CASE edges # {}
    BY <2>2, CommunitiesAssumption DEF Partitions
  <2>3. QED
    BY <2>1, <2>2
<1>3. IsFiniteSet(p) /\ Cardinality(p) <= Cardinality(Symbol)
  <2>1. p \subseteq SUBSET Symbol
    BY <1>2
  <2>2. IsFiniteSet(p)
    <3>1. IsFiniteSet(SUBSET Symbol)
      BY FS_SUBSET, CommunitiesAssumption, Zenon
    <3>2. QED
      BY <2>1, <3>1, FS_Subset
  <2> DEFINE f == [m \in p |-> CHOOSE s \in m : TRUE]
  <2>3. \A m \in p : f[m] \in m
    <3>1. ASSUME NEW m \in p PROVE (CHOOSE s \in m : TRUE) \in m
      <4>0. m # {}
        <5>1. {} \notin p
          BY <1>2
        <5>2. QED
          BY <5>1
      <4>1. \E s \in m : TRUE
        BY <4>0
      <4>2. QED
        BY <4>1, Zenon
    <3>2. QED
      BY <3>1
  <2>4. f \in [p -> Symbol]
    BY <1>2, <2>3
  <2>5. \A a, b \in p : f[a] = f[b] => a = b
    BY <1>2, <2>3
  <2> HIDE DEF f
  <2>6. f \in Injection(p, Symbol)
    BY <2>4, <2>5 DEF Injection, IsInjective
  <2>7. Cardinality(p) <= Cardinality(Symbol)
    BY <2>2, <2>6, FS_Injection, CommunitiesAssumption
  <2>8. QED
    BY <2>2, <2>7
<1>4. Cardinality(p) \in Nat /\ Cardinality(Symbol) \in Nat
  BY <1>3, FS_CardinalityType, CommunitiesAssumption
<1>5. \A m \in p : n[m] \in Id /\ l[m] \in Label /\ IsModule(m, edges) \in BOOLEAN /\ m \in SUBSET Symbol
  BY <1>1, <1>2, <1>3, <1>4 DEF Id, IsModule
<1>6. \A m \in p : Community(n[m], l[m], IsModule(m, edges), m) \in CommunityType
                   /\ Community(n[m], l[m], IsModule(m, edges), m).members = m
  BY <1>5 DEF Community, CommunityType
<1>7. \A x \in communities : x.members \in p /\ x = Community(n[x.members], l[x.members], IsModule(x.members, edges), x.members)
  BY <1>1, <1>6
<1>8. \A x, y \in communities : x # y => x.members \cap y.members = {}
  BY <1>2, <1>7
<1>9. \A s \in nodes : \E x \in communities : s \in x.members
  BY <1>1, <1>2, <1>6
<1>10. QED
  BY <1>1, <1>6, <1>8, <1>9

\* The types.
LEMMA TypesKept ==
  ASSUME Types, [Next]_vars
  PROVE  Types'
<1>1. CASE UNCHANGED vars
  BY <1>1 DEF vars, tables, outputs, history, Types
<1>2. ASSUME NEW c \in Command, Start(c) PROVE Types'
  BY <1>2 DEF Start, Go, tables, outputs, Types, PastClear, Filling
<1>3. ASSUME NEW c \in Command, DeleteAllClusters(c) PROVE Types'
  <2>1. PICK communities \in Louvain(Symbol, Edges) : todo' = [todo EXCEPT ![c] = communities]
    BY <1>3 DEF DeleteAllClusters, Put
  <2>2. communities \in SUBSET CommunityType
    BY LouvainGives
  <2>3. QED
    BY <1>3, <2>1, <2>2 DEF DeleteAllClusters, MembersLeft, Go, outputs, history, Types, PastClear, Filling
<1>17. ASSUME NEW c \in Command, ClearsPartly(c) PROVE Types'
  <2>1. PICK nodes \in SUBSET Symbol, edges \in SUBSET Edges : \E communities \in Louvain(nodes, edges) :
          todo' = [todo EXCEPT ![c] = communities]
    BY <1>17 DEF ClearsPartly, Put
  <2>2. PICK communities \in Louvain(nodes, edges) : todo' = [todo EXCEPT ![c] = communities]
    BY <2>1
  <2>3. communities \in SUBSET CommunityType
    BY LouvainGives
  <2>4. clusters' \in [Id -> Row \cup {Absent}] /\ member' \in SUBSET (Id \X Symbol)
        /\ clusterId' \in [Symbol -> Id \cup {Absent}]
    BY <1>17 DEF ClearsPartly, MembersLeft, Types
  <2>5. pc[c] = "clear" /\ pc' = [pc EXCEPT ![c] = "cluster"]
        /\ UNCHANGED <<faults, kind, skills, pages, overview, current, read, latest, alone>>
    BY <1>17 DEF ClearsPartly, Go, outputs, history
  <2>6. QED
    BY <2>2, <2>3, <2>4, <2>5 DEF Types, PastClear, Filling
<1>18. ASSUME NEW c \in Command, ClustersUnread(c) PROVE Types'
  BY <1>18 DEF ClustersUnread, Go, Put, tables, outputs, history, Types, PastClear, Filling
<1>4. ASSUME NEW c \in Command, UpsertCluster(c) PROVE Types'
  <2>1. PICK x \in todo[c] : /\ clusters' = [clusters EXCEPT ![x.id] = [label |-> x.label, module |-> x.module]]
                             /\ current' = Put(current, c, x) /\ Treated(c, x)
    BY <1>4 DEF UpsertCluster
  <2>2. x \in CommunityType
    BY DEF Types
  <2>3. [label |-> x.label, module |-> x.module] \in Row /\ x # Absent
    BY <2>2, CommunitiesAssumption DEF CommunityType, Row
  <2>4. clusters' \in [Id -> Row \cup {Absent}]
    BY <2>1, <2>3 DEF Types
  <2>5. /\ current' = [current EXCEPT ![c] = x] /\ todo' = [todo EXCEPT ![c] = todo[c] \ {x}]
        /\ pc[c] = "cluster" /\ pc' = [pc EXCEPT ![c] = "members"]
        /\ UNCHANGED <<faults, kind, member, clusterId, skills, pages, overview, read, latest, alone>>
    BY <1>4, <2>1 DEF UpsertCluster, Put, Treated, Go, outputs, history
  <2>6. QED
    BY <2>2, <2>3, <2>4, <2>5 DEF Types, PastClear, Filling
<1>5. ASSUME NEW c \in Command, UpsertClusterMembers(c) PROVE Types'
  <2>1. current[c] \in CommunityType /\ pc[c] = "members"
    BY <1>5 DEF UpsertClusterMembers, Types
  <2>2. NewMembers(current[c]) \in SUBSET (Id \X Symbol)
    BY <2>1 DEF NewMembers, CommunityType
  <2>3. QED
    BY <1>5, <2>1, <2>2 DEF UpsertClusterMembers, Go, outputs, history, Types, PastClear, Filling
<1>6. ASSUME NEW c \in Command, SetClusterForNodes(c) PROVE Types'
  <2>1. current[c] \in CommunityType /\ pc[c] = "ids"
    BY <1>6 DEF SetClusterForNodes, Types
  <2>2. current[c].id \in Id
    BY <2>1 DEF CommunityType
  <2>3. clusterId' \in [Symbol -> Id \cup {Absent}]
    BY <1>6, <2>2 DEF SetClusterForNodes, Types
  <2>4. QED
    BY <1>6, <2>1, <2>3 DEF SetClusterForNodes, Go, Put, outputs, history, Types, PastClear, Filling
<1>7. ASSUME NEW c \in Command, Clustered(c) PROVE Types'
  BY <1>7 DEF Clustered, Go, tables, outputs, history, Types, PastClear, Filling
<1>8. ASSUME NEW c \in Command, AllClusters(c) PROVE Types'
  <2> DEFINE rows == { Community(id, clusters[id].label, clusters[id].module, {}) :
                         id \in { i \in Id : clusters[i] # Absent } }
  <2>1. rows \in SUBSET CommunityType
    BY DEF Types, Row, Community, CommunityType
  <2>2. /\ todo' = [todo EXCEPT ![c] = rows] /\ pc[c] = "rows" /\ pc' = [pc EXCEPT ![c] = "read_members"]
        /\ UNCHANGED <<faults, kind, clusters, member, clusterId, skills, pages, overview, current, read, latest, alone>>
    BY <1>8 DEF AllClusters, Go, Put, tables, outputs, history
  <2> HIDE DEF rows
  <2>3. QED
    BY <2>1, <2>2 DEF Types, PastClear, Filling
<1>9. ASSUME NEW c \in Command, ReadMembers(c) PROVE Types'
  <2>1. PICK x \in todo[c] : /\ read' = Put(read, c, read[c] \cup {[x EXCEPT !.members = MembersOf(x.id)]})
                             /\ Treated(c, x)
    BY <1>9 DEF ReadMembers
  <2> DEFINE y == [x EXCEPT !.members = MembersOf(x.id)]
  <2>2. x \in CommunityType
    BY DEF Types
  <2>3. y \in CommunityType
    BY <2>2 DEF CommunityType, MembersOf
  <2>4. /\ read' = [read EXCEPT ![c] = read[c] \cup {y}] /\ todo' = [todo EXCEPT ![c] = todo[c] \ {x}]
        /\ pc[c] = "read_members"
        /\ UNCHANGED <<faults, kind, clusters, member, clusterId, skills, pages, overview, pc, current, latest, alone>>
    BY <1>9, <2>1 DEF ReadMembers, Put, Treated, tables, outputs, history
  <2> HIDE DEF y
  <2>5. QED
    BY <2>3, <2>4 DEF Types, PastClear, Filling
<1>10. ASSUME NEW c \in Command, HasRead(c) PROVE Types'
  BY <1>10 DEF HasRead, Go, Put, tables, outputs, history, Types, PastClear, Filling
<1>11. ASSUME NEW c \in Command, WriteSkill(c) PROVE Types'
  <2>1. PICK x \in todo[c] : /\ skills' = IF Worthy(x) THEN [skills EXCEPT ![FileName[x.label]] = x] ELSE skills
                             /\ Treated(c, x)
    BY <1>11 DEF WriteSkill
  <2>2. DOMAIN skills' = DOMAIN skills
    BY <2>1
  <2>3. QED
    BY <1>11, <2>1, <2>2 DEF WriteSkill, Treated, Put, tables, history, Types, PastClear, Filling
<1>12. ASSUME NEW c \in Command, SkillFails(c) PROVE Types'
  BY <1>12 DEF SkillFails, Put, tables, outputs, history, Types, PastClear, Filling
<1>13. ASSUME NEW c \in Command, SkillsInstalled(c) \/ Crash(c) PROVE Types'
  BY <1>13 DEF SkillsInstalled, Crash, Running, Ends, Put, Go, tables, outputs, history, Types, PastClear, Filling
<1>14. ASSUME NEW c \in Command, WritePage(c) PROVE Types'
  <2>1. PICK x \in todo[c] : (pages' = [pages EXCEPT ![x.id] = x] \/ pages' = pages) /\ Treated(c, x)
    BY <1>14 DEF WritePage
  <2>2. QED
    BY <1>14, <2>1 DEF WritePage, Treated, Put, tables, history, Types, PastClear, Filling
<1>15. ASSUME NEW c \in Command, WriteOverview(c) PROVE Types'
  BY <1>15 DEF WriteOverview, Ends, Put, Go, tables, history, Types, PastClear, Filling
<1>16. QED
  BY <1>1, <1>2, <1>3, <1>4, <1>5, <1>6, <1>7, <1>8, <1>9, <1>10, <1>11, <1>12, <1>13, <1>14, <1>15,
     <1>17, <1>18 DEF Next

\* The steps that leave the tables alone.
Aside(c) ==
  \/ Start(c) \/ Clustered(c) \/ AllClusters(c) \/ ReadMembers(c) \/ HasRead(c) \/ ClustersUnread(c)
  \/ WriteSkill(c) \/ SkillFails(c) \/ SkillsInstalled(c) \/ WritePage(c) \/ WriteOverview(c) \/ Crash(c)

LEMMA AsideIs ==
  ASSUME Types, NEW c \in Command, Aside(c)
  PROVE  /\ UNCHANGED <<faults, kind, clusters, member, clusterId>>
         /\ \A d \in Command \ {c} : pc'[d] = pc[d] /\ todo'[d] = todo[d] /\ current'[d] = current[d] /\ read'[d] = read[d]
         /\ pc'[c] \notin Filling
         /\ pc[c] \in Filling => pc'[c] = "dead" \/ (pc[c] = "cluster" /\ todo[c] = {})
         /\ kind[c] = "analyze" => (pc'[c] \in PastClear => pc[c] \in PastClear)
                                   /\ (pc[c] \in PastClear => pc'[c] \in PastClear \cup {"dead"})
         /\ c \in Running' /\ kind[c] = "analyze" /\ "overlap" \notin faults =>
              c \in Running \/ \A d \in Running : kind[d] = "wiki"
<1>1. CASE Start(c)
  BY <1>1 DEF Start, Go, Running, tables, outputs, history, Types, Filling, PastClear
<1>2. CASE Clustered(c)
  BY <1>2 DEF Clustered, Go, Running, tables, outputs, history, Types, Filling, PastClear
<1>3. CASE AllClusters(c)
  BY <1>3 DEF AllClusters, Go, Put, Running, tables, outputs, history, Types, Filling, PastClear
<1>4. CASE ReadMembers(c)
  BY <1>4 DEF ReadMembers, Treated, Put, Running, tables, outputs, history, Types, Filling, PastClear
<1>5. CASE HasRead(c)
  BY <1>5 DEF HasRead, Go, Put, Running, tables, outputs, history, Types, Filling, PastClear
<1>6. CASE WriteSkill(c)
  BY <1>6 DEF WriteSkill, Treated, Put, Running, tables, outputs, history, Types, Filling, PastClear
<1>7. CASE SkillFails(c)
  BY <1>7 DEF SkillFails, Put, Running, tables, outputs, history, Types, Filling, PastClear
<1>8. CASE SkillsInstalled(c)
  BY <1>8 DEF SkillsInstalled, Ends, Put, Go, Running, tables, outputs, history, Types, Filling, PastClear
<1>9. CASE WritePage(c)
  BY <1>9 DEF WritePage, Treated, Put, Running, tables, outputs, history, Types, Filling, PastClear
<1>10. CASE WriteOverview(c)
  BY <1>10 DEF WriteOverview, Ends, Put, Go, Running, tables, outputs, history, Types, Filling, PastClear
<1>11. CASE Crash(c)
  BY <1>11 DEF Crash, Ends, Put, Go, Running, tables, outputs, history, Types, Filling, PastClear
<1>12. CASE ClustersUnread(c)
  BY <1>12 DEF ClustersUnread, Put, Go, Running, tables, outputs, history, Types, Filling, PastClear
<1>13. QED
  BY <1>1, <1>2, <1>3, <1>4, <1>5, <1>6, <1>7, <1>8, <1>9, <1>10, <1>11, <1>12 DEF Aside

\* The steps that fill the tables, with the community in hand.
LEMMA FillingIs ==
  ASSUME Types, NEW c \in Command
  PROVE  /\ UpsertCluster(c) => \E x \in todo[c] :
              /\ x \in CommunityType /\ pc[c] = "cluster" /\ kind[c] = "analyze"
              /\ pc' = [pc EXCEPT ![c] = "members"] /\ todo' = [todo EXCEPT ![c] = @ \ {x}]
              /\ current' = [current EXCEPT ![c] = x]
              /\ clusters'[x.id] # Absent /\ \A id \in Id : clusters[id] # Absent => clusters'[id] # Absent
              /\ UNCHANGED <<faults, kind, member, clusterId, read>>
         /\ UpsertClusterMembers(c) =>
              /\ current[c] \in CommunityType /\ pc[c] = "members" /\ kind[c] = "analyze"
              /\ pc' = [pc EXCEPT ![c] = "ids"] /\ member' = member \cup ({current[c].id} \X current[c].members)
              /\ UNCHANGED <<faults, kind, clusters, clusterId, todo, current, read>>
         /\ SetClusterForNodes(c) =>
              /\ current[c] \in CommunityType /\ pc[c] = "ids" /\ kind[c] = "analyze"
              /\ pc' = [pc EXCEPT ![c] = "cluster"]
              /\ clusterId' = [s \in Symbol |-> IF s \in current[c].members THEN current[c].id ELSE clusterId[s]]
              /\ \A d \in Command \ {c} : current'[d] = current[d]
              /\ UNCHANGED <<faults, kind, clusters, member, todo, read>>
<1>1. ASSUME UpsertCluster(c)
      PROVE  \E x \in todo[c] :
              /\ x \in CommunityType /\ pc[c] = "cluster" /\ kind[c] = "analyze"
              /\ pc' = [pc EXCEPT ![c] = "members"] /\ todo' = [todo EXCEPT ![c] = @ \ {x}]
              /\ current' = [current EXCEPT ![c] = x]
              /\ clusters'[x.id] # Absent /\ \A id \in Id : clusters[id] # Absent => clusters'[id] # Absent
              /\ UNCHANGED <<faults, kind, member, clusterId, read>>
  <2>1. PICK x \in todo[c] : /\ clusters' = [clusters EXCEPT ![x.id] = [label |-> x.label, module |-> x.module]]
                             /\ current' = Put(current, c, x) /\ Treated(c, x)
    BY <1>1 DEF UpsertCluster
  <2>2. x \in CommunityType /\ x.id \in Id /\ [label |-> x.label, module |-> x.module] \in Row
    BY DEF Types, CommunityType, Row
  <2>3. [label |-> x.label, module |-> x.module] # Absent
    BY <2>2, CommunitiesAssumption
  <2> DEFINE row == [label |-> x.label, module |-> x.module]
  <2> HIDE DEF row
  <2>4. clusters'[x.id] # Absent /\ \A id \in Id : clusters[id] # Absent => clusters'[id] # Absent
    <3>1. clusters' = [clusters EXCEPT ![x.id] = row] /\ row # Absent /\ DOMAIN clusters = Id
      BY <2>1, <2>3 DEF row, Types
    <3>2. QED
      BY <2>2, <3>1
  <2>5. pc[c] = "cluster" /\ kind[c] = "analyze"
    BY <1>1 DEF UpsertCluster, Types, Filling
  <2>6. QED
    BY <1>1, <2>1, <2>2, <2>4, <2>5 DEF UpsertCluster, Put, Treated, Go
<1>2. ASSUME UpsertClusterMembers(c)
      PROVE  /\ current[c] \in CommunityType /\ pc[c] = "members" /\ kind[c] = "analyze"
             /\ pc' = [pc EXCEPT ![c] = "ids"] /\ member' = member \cup ({current[c].id} \X current[c].members)
             /\ UNCHANGED <<faults, kind, clusters, clusterId, todo, current, read>>
  BY <1>2 DEF UpsertClusterMembers, NewMembers, Go, Types, Filling
<1>3. ASSUME SetClusterForNodes(c)
      PROVE  /\ current[c] \in CommunityType /\ pc[c] = "ids" /\ kind[c] = "analyze"
             /\ pc' = [pc EXCEPT ![c] = "cluster"]
             /\ clusterId' = [s \in Symbol |-> IF s \in current[c].members THEN current[c].id ELSE clusterId[s]]
             /\ \A d \in Command \ {c} : current'[d] = current[d]
             /\ UNCHANGED <<faults, kind, clusters, member, todo, read>>
  BY <1>3 DEF SetClusterForNodes, Put, Go, Types, Filling
<1>4. QED
  BY <1>1, <1>2, <1>3

LEMMA NextIs ==
  ASSUME [Next]_vars
  PROVE  \/ UNCHANGED vars
         \/ \E c \in Command : \/ Aside(c) \/ DeleteAllClusters(c) \/ ClearsPartly(c)
                               \/ UpsertCluster(c) \/ UpsertClusterMembers(c) \/ SetClusterForNodes(c)
BY DEF Next, Aside

LEMMA FaultsKept ==
  ASSUME Types, [Next]_vars
  PROVE  UNCHANGED <<faults, kind>>
BY NextIs, AsideIs, FillingIs DEF DeleteAllClusters, ClearsPartly, vars

\* While analyses do not overlap, an analysis that fills the tables is alone with them.
LEMMA OnlyOneFills ==
  ASSUME Types, ClusterIdInv, "overlap" \notin faults, NEW c \in Command, pc[c] \in Filling \cup {"clear"}
  PROVE  c \in Running /\ \A d \in Command : pc[d] \in Filling => d = c
<1>1. \A d \in Command : pc[d] \in Filling \cup {"clear"} => d \in Running /\ kind[d] = "analyze"
  BY DEF Running, Filling, Types
<1>2. QED
  BY <1>1 DEF ClusterIdInv

\* Neither does a symbol get a cluster_id without its row of cluster_members.
LEMMA ClusterIdKept ==
  ASSUME Types, ClusterIdInv, [Next]_vars
  PROVE  ClusterIdInv'
<1> SUFFICES ASSUME "overlap" \notin faults' PROVE ClusterIdInv'
  BY DEF ClusterIdInv
<1>0. "overlap" \notin faults
  BY FaultsKept
<1>1. CASE UNCHANGED vars
  BY <1>1 DEF vars, tables, ClusterIdInv, Running
<1>2. ASSUME NEW c \in Command, UNCHANGED <<faults, kind>>, c \in Running \/ \A d \in Running : kind[d] = "wiki",
             \A d \in Command \ {c} : pc'[d] = pc[d]
      PROVE  \A d, e \in Running' : kind'[d] = "analyze" /\ kind'[e] = "analyze" => d = e
  BY <1>0, <1>2 DEF ClusterIdInv, Running
<1>3. ASSUME NEW c \in Command, Aside(c) PROVE ClusterIdInv'
  <2>1. /\ UNCHANGED <<faults, kind, clusters, member, clusterId>>
        /\ \A d \in Command \ {c} : pc'[d] = pc[d] /\ todo'[d] = todo[d] /\ current'[d] = current[d]
        /\ pc'[c] \notin Filling
        /\ c \in Running' /\ kind[c] = "analyze" => c \in Running \/ \A d \in Running : kind[d] = "wiki"
    BY <1>0, <1>3, AsideIs
  <2>2. \A d, e \in Running' : kind'[d] = "analyze" /\ kind'[e] = "analyze" => d = e
    <3>1. CASE c \in Running' /\ kind[c] = "analyze"
      BY <1>2, <2>1, <3>1
    <3>2. CASE ~ (c \in Running' /\ kind[c] = "analyze")
      <4>1. \A d \in Running' : kind'[d] = "analyze" => d \in Running /\ kind[d] = "analyze"
        BY <2>1, <3>2 DEF Running
      <4>2. QED
        BY <1>0, <2>1, <4>1 DEF ClusterIdInv
    <3>3. QED
      BY <3>1, <3>2
  <2>3. QED
    BY <1>0, <2>1, <2>2 DEF ClusterIdInv, Filling
<1>4. ASSUME NEW c \in Command, DeleteAllClusters(c) \/ ClearsPartly(c) PROVE ClusterIdInv'
  <2>1. /\ pc[c] = "clear" /\ pc' = [pc EXCEPT ![c] = "cluster"] /\ UNCHANGED <<faults, kind>>
        /\ clusterId' = [s \in Symbol |-> Absent]
    BY <1>4 DEF DeleteAllClusters, ClearsPartly, Go
  <2>2. c \in Running /\ \A d \in Command : pc[d] \in Filling => d = c
    BY <1>0, <2>1, OnlyOneFills
  <2>3. \A d, e \in Running' : kind'[d] = "analyze" /\ kind'[e] = "analyze" => d = e
    BY <1>2, <2>1, <2>2
  <2>4. \A d \in Command : pc'[d] # "ids"
    BY <2>1, <2>2 DEF Filling, Types
  <2>5. QED
    BY <2>1, <2>3, <2>4 DEF ClusterIdInv
<1>6. ASSUME NEW c \in Command, UpsertCluster(c) PROVE ClusterIdInv'
  <2>1. /\ pc[c] = "cluster" /\ pc' = [pc EXCEPT ![c] = "members"] /\ UNCHANGED <<faults, kind, member, clusterId>>
    BY <1>6, FillingIs
  <2>2. c \in Running /\ \A d \in Command : pc[d] \in Filling => d = c
    BY <1>0, <2>1, OnlyOneFills DEF Filling
  <2>3. \A d, e \in Running' : kind'[d] = "analyze" /\ kind'[e] = "analyze" => d = e
    BY <1>2, <2>1, <2>2
  <2>4. \A d \in Command : pc'[d] # "ids"
    BY <2>1, <2>2 DEF Filling, Types
  <2>5. QED
    BY <1>0, <2>1, <2>3, <2>4 DEF ClusterIdInv
<1>7. ASSUME NEW c \in Command, UpsertClusterMembers(c) PROVE ClusterIdInv'
  <2>1. /\ pc[c] = "members" /\ pc' = [pc EXCEPT ![c] = "ids"]
        /\ member' = member \cup ({current[c].id} \X current[c].members)
        /\ UNCHANGED <<faults, kind, clusterId, current>>
    BY <1>7, FillingIs
  <2>2. c \in Running /\ \A d \in Command : pc[d] \in Filling => d = c
    BY <1>0, <2>1, OnlyOneFills DEF Filling
  <2>3. \A d, e \in Running' : kind'[d] = "analyze" /\ kind'[e] = "analyze" => d = e
    BY <1>2, <2>1, <2>2
  <2>4. \A d \in Command : pc'[d] = "ids" => d = c
    BY <2>1, <2>2 DEF Filling, Types
  <2>5. QED
    BY <1>0, <2>1, <2>3, <2>4 DEF ClusterIdInv
<1>8. ASSUME NEW c \in Command, SetClusterForNodes(c) PROVE ClusterIdInv'
  <2>1. /\ pc[c] = "ids" /\ pc' = [pc EXCEPT ![c] = "cluster"]
        /\ clusterId' = [s \in Symbol |-> IF s \in current[c].members THEN current[c].id ELSE clusterId[s]]
        /\ UNCHANGED <<faults, kind, member>>
    BY <1>8, FillingIs
  <2>2. c \in Running /\ \A d \in Command : pc[d] \in Filling => d = c
    BY <1>0, <2>1, OnlyOneFills DEF Filling
  <2>3. \A d, e \in Running' : kind'[d] = "analyze" /\ kind'[e] = "analyze" => d = e
    BY <1>2, <2>1, <2>2
  <2>4. \A d \in Command : pc'[d] # "ids"
    BY <2>1, <2>2 DEF Filling, Types
  <2>5. \A s \in Symbol : clusterId'[s] = Absent \/ <<clusterId'[s], s>> \in member
    BY <1>0, <2>1 DEF ClusterIdInv
  <2>6. QED
    BY <2>1, <2>3, <2>4, <2>5 DEF ClusterIdInv
<1>9. QED
  BY <1>1, <1>3, <1>4, <1>6, <1>7, <1>8, NextIs

\* While analyses do not overlap, no symbol is put into two communities.
LEMMA OneCommunityKept ==
  ASSUME Types, ClusterIdInv, OneCommunityInv, [Next]_vars
  PROVE  OneCommunityInv'
<1> SUFFICES ASSUME "overlap" \notin faults', "discarded" \notin faults' PROVE OneCommunityInv'
  BY DEF OneCommunityInv
<1>0. "overlap" \notin faults /\ "discarded" \notin faults
  BY FaultsKept
<1>1. CASE UNCHANGED vars
  BY <1>1 DEF vars, tables, OneCommunityInv
<1>3. ASSUME NEW c \in Command, Aside(c) PROVE OneCommunityInv'
  <2>1. /\ UNCHANGED <<faults, clusters, member>>
        /\ \A d \in Command \ {c} : pc'[d] = pc[d] /\ todo'[d] = todo[d] /\ current'[d] = current[d]
        /\ pc'[c] \notin Filling
    BY <1>3, AsideIs
  <2>2. QED
    BY <1>0, <2>1 DEF OneCommunityInv, Filling
<1>4. ASSUME NEW c \in Command, DeleteAllClusters(c) PROVE OneCommunityInv'
  <2>1. PICK communities \in Louvain(Symbol, Edges) : todo' = [todo EXCEPT ![c] = communities]
    BY <1>4 DEF DeleteAllClusters, Put
  <2>2. \A x, y \in communities : x # y => x.members \cap y.members = {}
    BY LouvainGives
  <2>3. pc[c] = "clear" /\ pc' = [pc EXCEPT ![c] = "cluster"] /\ member' = {}
    BY <1>4 DEF DeleteAllClusters, MembersLeft, Go
  <2>4. \A d \in Command : pc'[d] \in Filling => d = c
    BY <1>0, <2>3, OnlyOneFills DEF Types
  <2>5. todo'[c] = communities /\ pc'[c] = "cluster"
    BY <2>1, <2>3 DEF Types
  <2>6. QED
    BY <2>2, <2>3, <2>4, <2>5 DEF OneCommunityInv
<1>6. ASSUME NEW c \in Command, UpsertCluster(c) PROVE OneCommunityInv'
  <2>1. PICK x \in todo[c] :
              /\ x \in CommunityType /\ pc[c] = "cluster" /\ kind[c] = "analyze"
              /\ pc' = [pc EXCEPT ![c] = "members"] /\ todo' = [todo EXCEPT ![c] = @ \ {x}]
              /\ current' = [current EXCEPT ![c] = x]
              /\ clusters'[x.id] # Absent /\ \A id \in Id : clusters[id] # Absent => clusters'[id] # Absent
              /\ UNCHANGED <<faults, kind, member, clusterId, read>>
    BY <1>6, FillingIs
  <2>2. c \in Running /\ \A d \in Command : pc[d] \in Filling => d = c
    BY <1>0, <2>1, OnlyOneFills DEF Filling
  <2>4. pc'[c] = "members" /\ todo'[c] = todo[c] \ {x} /\ current'[c] = x
        /\ \A d \in Command : pc'[d] \in Filling => d = c
    BY <2>1, <2>2 DEF Types
  <2>5. \A m \in member : m[1] \in Id
    BY DEF Types
  <2>6. pc[c] \in Filling
    BY <2>1 DEF Filling
  <2>7. QED
    BY <1>0, <2>1, <2>4, <2>5, <2>6 DEF OneCommunityInv
<1>7. ASSUME NEW c \in Command, UpsertClusterMembers(c) PROVE OneCommunityInv'
  <2>1. /\ current[c] \in CommunityType /\ pc[c] = "members" /\ kind[c] = "analyze"
        /\ pc' = [pc EXCEPT ![c] = "ids"] /\ member' = member \cup ({current[c].id} \X current[c].members)
        /\ UNCHANGED <<faults, kind, clusters, clusterId, todo, current, read>>
    BY <1>7, FillingIs
  <2>2. c \in Running /\ (\A d \in Command : pc[d] \in Filling => d = c) /\ pc[c] \in Filling
    BY <1>0, <2>1, OnlyOneFills DEF Filling
  <2>4. /\ \A m, n \in member : m[2] = n[2] => m = n
        /\ \A m \in member : clusters[m[1]] # Absent
        /\ \A x, y \in todo[c] : x # y => x.members \cap y.members = {}
        /\ \A x \in todo[c], m \in member : m[2] \notin x.members
        /\ clusters[current[c].id] # Absent
        /\ \A x \in todo[c] : x.members \cap current[c].members = {}
        /\ \A m \in member : m[2] \notin current[c].members
    BY <1>0, <2>1, <2>2 DEF OneCommunityInv
  <2>5. pc'[c] = "ids" /\ \A d \in Command : pc'[d] \in Filling => d = c
    BY <2>1, <2>2 DEF Types
  <2>6. \A m \in member' : m \in member \/ (m = <<current[c].id, m[2]>> /\ m[1] = current[c].id /\ m[2] \in current[c].members)
    BY <2>1
  <2>7. \A m, n \in member' : m[2] = n[2] => m = n
    BY <2>4, <2>6
  <2>8. \A m \in member' : clusters'[m[1]] # Absent
    BY <2>1, <2>4, <2>6
  <2>9. \A x \in todo'[c], m \in member' : m[2] \notin x.members
    BY <2>1, <2>4, <2>6
  <2>10. QED
    BY <2>1, <2>4, <2>5, <2>7, <2>8, <2>9 DEF OneCommunityInv
<1>8. ASSUME NEW c \in Command, SetClusterForNodes(c) PROVE OneCommunityInv'
  <2>1. /\ current[c] \in CommunityType /\ pc[c] = "ids" /\ kind[c] = "analyze"
        /\ pc' = [pc EXCEPT ![c] = "cluster"]
        /\ clusterId' = [s \in Symbol |-> IF s \in current[c].members THEN current[c].id ELSE clusterId[s]]
        /\ UNCHANGED <<faults, kind, clusters, member, todo, read>>
    BY <1>8, FillingIs
  <2>2. c \in Running /\ (\A d \in Command : pc[d] \in Filling => d = c) /\ pc[c] \in Filling
    BY <1>0, <2>1, OnlyOneFills DEF Filling
  <2>4. pc'[c] = "cluster" /\ \A d \in Command : pc'[d] \in Filling => d = c
    BY <2>1, <2>2 DEF Types
  <2>5. QED
    BY <1>0, <2>1, <2>2, <2>4 DEF OneCommunityInv
<1>9. QED
  BY <1>0, <1>1, <1>3, <1>4, <1>6, <1>7, <1>8, NextIs DEF ClearsPartly

\* Wherever analyses overlap, the last that has cleared the tables places everyone.
LEMMA CoverKept ==
  ASSUME Types, CoverInv, [Next]_vars
  PROVE  CoverInv'
<1> SUFFICES ASSUME "discarded" \notin faults' PROVE CoverInv'
  BY DEF CoverInv
<1>0. "discarded" \notin faults /\ faults' = faults
  BY FaultsKept
<1>1. CASE UNCHANGED vars
  BY <1>0, <1>1 DEF vars, tables, CoverInv, PlacedBy, Placed
<1>2. ASSUME \A id \in Id : clusters[id] # Absent => clusters'[id] # Absent, member \subseteq member'
      PROVE  \A s : Placed(s) => Placed(s)'
  BY <1>2 DEF Placed
<1>3. ASSUME NEW c \in Command, Aside(c) PROVE CoverInv'
  <2>1. /\ UNCHANGED <<faults, kind, clusters, member, clusterId>>
        /\ \A d \in Command \ {c} : pc'[d] = pc[d] /\ todo'[d] = todo[d] /\ current'[d] = current[d]
        /\ pc[c] \in Filling => pc'[c] = "dead" \/ (pc[c] = "cluster" /\ todo[c] = {})
        /\ kind[c] = "analyze" => (pc'[c] \in PastClear => pc[c] \in PastClear)
                                  /\ (pc[c] \in PastClear => pc'[c] \in PastClear \cup {"dead"})
    BY <1>3, AsideIs
  <2>2. pc[c] # "dead"
    BY <1>3 DEF Aside, Start, Clustered, AllClusters, ReadMembers, HasRead, ClustersUnread, WriteSkill, SkillFails, SkillsInstalled,
       WritePage, WriteOverview, Crash, Running
  <2>3. \A s : Placed(s) => Placed(s)'
    BY <1>2, <2>1
  <2> SUFFICES ASSUME \E d \in Command : kind'[d] = "analyze" /\ pc'[d] \in PastClear PROVE CoverInv'
    BY DEF CoverInv
  <2>4. \E d \in Command : kind[d] = "analyze" /\ pc[d] \in PastClear
    BY <2>1
  <2>5. PICK d \in Command : pc[d] = "dead" \/ (kind[d] = "analyze" /\ pc[d] \in PastClear /\ \A s \in Symbol : PlacedBy(d, s))
    BY <1>0, <2>4 DEF CoverInv
  <2>6. CASE d # c
    <3>1. \A s \in Symbol : PlacedBy(d, s) => PlacedBy(d, s)'
      BY <2>1, <2>3, <2>6 DEF PlacedBy
    <3>2. QED
      BY <2>1, <2>5, <2>6, <3>1 DEF CoverInv
  <2>7. CASE d = c
    <3>1. kind[c] = "analyze" /\ pc'[c] \in PastClear \cup {"dead"} /\ \A s \in Symbol : PlacedBy(c, s)
      BY <2>1, <2>2, <2>5, <2>7
    <3>2. ASSUME pc'[c] # "dead", NEW s \in Symbol PROVE PlacedBy(c, s)'
      <4>1. Placed(s)
        BY <2>1, <3>1, <3>2 DEF PlacedBy, Filling
      <4>2. QED
        BY <2>3, <4>1 DEF PlacedBy
    <3>3. QED
      BY <2>1, <3>1, <3>2 DEF CoverInv
  <2>8. QED
    BY <2>6, <2>7
<1>4. ASSUME NEW c \in Command, DeleteAllClusters(c) PROVE CoverInv'
  <2>1. PICK communities \in Louvain(Symbol, Edges) : todo' = [todo EXCEPT ![c] = communities]
    BY <1>4 DEF DeleteAllClusters, Put
  <2>2. \A s \in Symbol : \E x \in communities : s \in x.members
    BY LouvainGives
  <2>3. todo'[c] = communities /\ pc'[c] = "cluster" /\ kind'[c] = "analyze"
    BY <1>4, <2>1 DEF DeleteAllClusters, Go, Types
  <2>4. \A s \in Symbol : PlacedBy(c, s)'
    BY <2>2, <2>3 DEF PlacedBy, Filling
  <2>5. QED
    BY <2>3, <2>4 DEF CoverInv, PastClear, Filling
<1>5. ASSUME NEW c \in Command, UNCHANGED kind, kind[c] = "analyze", pc[c] \in Filling, pc'[c] \in Filling,
             \A id \in Id : clusters[id] # Absent => clusters'[id] # Absent, member \subseteq member',
             \A d \in Command \ {c} : pc'[d] = pc[d] /\ todo'[d] = todo[d] /\ current'[d] = current[d],
             \A s \in Symbol : PlacedBy(c, s) => PlacedBy(c, s)'
      PROVE  CoverInv'
  <2>1. pc[c] \in PastClear /\ pc'[c] \in PastClear /\ pc[c] # "dead"
    BY <1>5 DEF PastClear, Filling
  <2>2. \A d \in Command : pc'[d] \in PastClear <=> pc[d] \in PastClear
    BY <1>5, <2>1
  <2>3. \A s : Placed(s) => Placed(s)'
    BY <1>2, <1>5
  <2>4. \A d \in Command, s \in Symbol : PlacedBy(d, s) => PlacedBy(d, s)'
    <3>1. ASSUME NEW d \in Command \ {c}, NEW s \in Symbol, PlacedBy(d, s) PROVE PlacedBy(d, s)'
      <4>1. CASE pc[d] = "members" /\ s \in current[d].members /\ clusters[current[d].id] # Absent
        <5>1. current[d].id \in Id
          BY <4>1 DEF Types, CommunityType
        <5>2. QED
          BY <1>5, <4>1, <5>1 DEF PlacedBy
      <4>2. CASE pc[d] \in Filling /\ \E x \in todo[d] : s \in x.members
        BY <1>5, <4>2 DEF PlacedBy
      <4>3. CASE Placed(s)
        BY <2>3, <4>3 DEF PlacedBy
      <4>4. QED
        BY <3>1, <4>1, <4>2, <4>3 DEF PlacedBy
    <3>2. QED
      BY <1>5, <3>1
  <2>5. \A d \in Command : pc[d] = "dead" => pc'[d] = "dead"
    BY <1>5, <2>1
  <2> SUFFICES ASSUME \E d \in Command : kind'[d] = "analyze" /\ pc'[d] \in PastClear PROVE CoverInv'
    BY DEF CoverInv
  <2>6. PICK d \in Command : pc[d] = "dead" \/ (kind[d] = "analyze" /\ pc[d] \in PastClear /\ \A s \in Symbol : PlacedBy(d, s))
    BY <1>0, <1>5, <2>2 DEF CoverInv
  <2>7. pc'[d] = "dead" \/ (kind'[d] = "analyze" /\ pc'[d] \in PastClear /\ \A s \in Symbol : PlacedBy(d, s)')
    BY <1>5, <2>2, <2>4, <2>5, <2>6
  <2>8. QED
    BY <2>7 DEF CoverInv
<1>6. ASSUME NEW c \in Command, UpsertCluster(c) PROVE CoverInv'
  <2>1. PICK x \in todo[c] :
              /\ x \in CommunityType /\ pc[c] = "cluster" /\ kind[c] = "analyze"
              /\ pc' = [pc EXCEPT ![c] = "members"] /\ todo' = [todo EXCEPT ![c] = @ \ {x}]
              /\ current' = [current EXCEPT ![c] = x]
              /\ clusters'[x.id] # Absent /\ \A id \in Id : clusters[id] # Absent => clusters'[id] # Absent
              /\ UNCHANGED <<faults, kind, member, clusterId, read>>
    BY <1>6, FillingIs
  <2>2. pc'[c] = "members" /\ todo'[c] = todo[c] \ {x} /\ current'[c] = x
    BY <2>1 DEF Types
  <2>3. \A s : Placed(s) => Placed(s)'
    BY <1>2, <2>1
  <2>4. \A s \in Symbol : PlacedBy(c, s) => PlacedBy(c, s)'
    BY <2>1, <2>2, <2>3 DEF PlacedBy, Filling
  <2>5. QED
    BY <1>5, <2>1, <2>2, <2>4 DEF Types, Filling
<1>7. ASSUME NEW c \in Command, UpsertClusterMembers(c) PROVE CoverInv'
  <2>1. /\ current[c] \in CommunityType /\ pc[c] = "members" /\ kind[c] = "analyze"
        /\ pc' = [pc EXCEPT ![c] = "ids"] /\ member' = member \cup ({current[c].id} \X current[c].members)
        /\ UNCHANGED <<faults, kind, clusters, clusterId, todo, current, read>>
    BY <1>7, FillingIs
  <2>2. pc'[c] = "ids" /\ current[c].id \in Id
    BY <2>1 DEF Types, CommunityType
  <2>3. \A s : Placed(s) => Placed(s)'
    BY <1>2, <2>1
  <2>4. ASSUME NEW s \in Symbol, PlacedBy(c, s) PROVE PlacedBy(c, s)'
    <3>1. CASE s \in current[c].members /\ clusters[current[c].id] # Absent
      <4>1. Placed(s)'
        BY <2>1, <2>2, <3>1 DEF Placed
      <4>2. QED
        BY <4>1 DEF PlacedBy
    <3>2. CASE pc[c] \in Filling /\ \E x \in todo[c] : s \in x.members
      BY <2>1, <2>2, <3>2 DEF PlacedBy, Filling
    <3>3. CASE Placed(s)
      BY <2>3, <3>3 DEF PlacedBy
    <3>4. QED
      BY <2>4, <3>1, <3>2, <3>3 DEF PlacedBy
  <2>5. QED
    BY <1>5, <2>1, <2>2, <2>4 DEF Types, Filling
<1>8. ASSUME NEW c \in Command, SetClusterForNodes(c) PROVE CoverInv'
  <2>1. /\ current[c] \in CommunityType /\ pc[c] = "ids" /\ kind[c] = "analyze"
        /\ pc' = [pc EXCEPT ![c] = "cluster"]
        /\ \A d \in Command \ {c} : current'[d] = current[d]
        /\ UNCHANGED <<faults, kind, clusters, member, todo, read>>
    BY <1>8, FillingIs
  <2>2. pc'[c] = "cluster"
    BY <2>1 DEF Types
  <2>3. \A s : Placed(s) => Placed(s)'
    BY <1>2, <2>1
  <2>4. \A s \in Symbol : PlacedBy(c, s) => PlacedBy(c, s)'
    BY <2>1, <2>2, <2>3 DEF PlacedBy, Filling
  <2>5. QED
    BY <1>5, <2>1, <2>2, <2>4 DEF Types, Filling
<1>9. QED
  BY <1>0, <1>1, <1>3, <1>4, <1>6, <1>7, <1>8, NextIs DEF ClearsPartly

\* What the tables hold has one community for each id, with the members of the id.
LEMMA StoredIs ==
  ASSUME Types
  PROVE  /\ Stored \subseteq CommunityType
         /\ \A x, y \in Stored : x.id = y.id => x = y
         /\ \A y \in Stored : /\ Bare(y).id = y.id
                              /\ [Bare(y) EXCEPT !.members = MembersOf(Bare(y).id)] = y
         /\ { Community(id, clusters[id].label, clusters[id].module, {}) : id \in { i \in Id : clusters[i] # Absent } }
              = { Bare(y) : y \in Stored }
<1> DEFINE row(id) == Community(id, clusters[id].label, clusters[id].module, MembersOf(id))
           ids == { i \in Id : clusters[i] # Absent }
           bare(id) == Community(id, clusters[id].label, clusters[id].module, {})
<1>1. Stored = { row(id) : id \in ids }
  BY DEF Stored, MembersOf
<1>2. \A id \in ids : /\ row(id) \in CommunityType /\ row(id).id = id /\ Bare(row(id)) = bare(id)
                      /\ bare(id).id = id /\ [bare(id) EXCEPT !.members = MembersOf(id)] = row(id)
  <2> SUFFICES ASSUME NEW id \in ids
               PROVE  /\ row(id) \in CommunityType /\ row(id).id = id /\ Bare(row(id)) = bare(id)
                      /\ bare(id).id = id /\ [bare(id) EXCEPT !.members = MembersOf(id)] = row(id)
    OBVIOUS
  <2>1. clusters[id] \in Row /\ MembersOf(id) \in SUBSET Symbol /\ id \in Id
    BY DEF Types, MembersOf
  <2>2. clusters[id].label \in Label /\ clusters[id].module \in BOOLEAN
    BY <2>1 DEF Row
  <2> QED
    BY <2>1, <2>2 DEF Community, CommunityType, Bare
<1> HIDE DEF row, ids, bare
<1>3. { bare(id) : id \in ids } = { Bare(y) : y \in Stored }
  BY <1>1, <1>2
<1>4. \A y \in Stored : \E id \in ids : y = row(id)
  BY <1>1
<1>5. /\ Stored \subseteq CommunityType /\ \A x, y \in Stored : x.id = y.id => x = y
      /\ \A y \in Stored : Bare(y).id = y.id /\ [Bare(y) EXCEPT !.members = MembersOf(Bare(y).id)] = y
  BY <1>2, <1>4
<1>6. QED
  BY <1>3, <1>5 DEF bare, ids

\* The steps of a command that runs alone.
LEMMA AloneKept ==
  ASSUME Types, AloneInv, [Next]_vars
  PROVE  AloneInv'
<1>1. CASE UNCHANGED vars
  <2>1. Stored' = Stored /\ Running' = Running
    BY <1>1 DEF vars, tables, Stored, Running
  <2>2. UNCHANGED <<faults, kind, skills, pages, overview, pc, todo, read, latest, alone>>
    BY <1>1 DEF vars, outputs, history
  <2>3. QED
    BY <2>1, <2>2 DEF AloneInv
<1> SUFFICES ASSUME latest' # Absent, alone', NEW c \in Command,
                    \/ Start(c) \/ DeleteAllClusters(c) \/ ClearsPartly(c)
                    \/ UpsertCluster(c) \/ UpsertClusterMembers(c) \/ SetClusterForNodes(c) \/ Clustered(c)
                    \/ AllClusters(c) \/ ReadMembers(c) \/ HasRead(c) \/ ClustersUnread(c)
                    \/ WriteSkill(c) \/ SkillFails(c) \/ SkillsInstalled(c)
                    \/ WritePage(c) \/ WriteOverview(c)
                    \/ Crash(c)
             PROVE  AloneInv'
  BY <1>1 DEF Next, AloneInv
<1>2. CASE Start(c)
  <2>1. latest' = c /\ Running = {} /\ pc' = [pc EXCEPT ![c] = IF kind[c] = "analyze" THEN "clear" ELSE "rows"]
    BY <1>2 DEF Start, Go
  <2>2. pc'[c] \in {"clear", "rows"} /\ Running' \subseteq {c}
    BY <2>1 DEF Running, Types
  <2>3. QED
    BY <2>1, <2>2 DEF AloneInv
<1>3. ASSUME ~ Start(c)
      PROVE  /\ UNCHANGED <<latest, alone, faults, kind>> /\ c \in Running
             /\ \A d \in Command \ {c} : pc'[d] = pc[d]
    <2>1. UNCHANGED <<latest, alone, faults, kind>> /\ c \in Running
      BY <1>3 DEF DeleteAllClusters, ClearsPartly, ClustersUnread, UpsertCluster, UpsertClusterMembers, SetClusterForNodes, Clustered, AllClusters,
         ReadMembers, HasRead, WriteSkill, SkillFails, SkillsInstalled, WritePage, WriteOverview, Crash, history, Running
    <2>2. \A d \in Command \ {c} : pc'[d] = pc[d]
      BY <1>3 DEF DeleteAllClusters, ClearsPartly, ClustersUnread, UpsertCluster, UpsertClusterMembers, SetClusterForNodes, Clustered, AllClusters,
         ReadMembers, HasRead, WriteSkill, SkillFails, SkillsInstalled, WritePage, WriteOverview, Crash, Ends, Go, Types
    <2>3. QED
      BY <2>1, <2>2
<1>4. ASSUME ~ Start(c) PROVE c = latest /\ latest' = c /\ Running \subseteq {c} /\ Running' \subseteq {c}
  <2>1. Running \subseteq {latest}
    BY <1>3, <1>4 DEF AloneInv
  <2>2. QED
    BY <1>3, <1>4, <2>1 DEF Running
<1>5. ASSUME UNCHANGED <<clusters, member>> PROVE Stored' = Stored
  BY <1>5 DEF Stored
<1>6. CASE DeleteAllClusters(c) \/ ClearsPartly(c) \/ UpsertCluster(c) \/ UpsertClusterMembers(c) \/ SetClusterForNodes(c)
           \/ Clustered(c) \/ Crash(c)
  <2>1. ~ Start(c)
    BY <1>6 DEF DeleteAllClusters, ClearsPartly, UpsertCluster, UpsertClusterMembers, SetClusterForNodes, Clustered, Crash, Running, Start
  <2>2. pc'[c] \in {"cluster", "members", "ids", "rows", "skipped", "dead"}
    BY <1>6 DEF DeleteAllClusters, ClearsPartly, UpsertCluster, UpsertClusterMembers, SetClusterForNodes, Clustered, Crash, Ends, Go, Types
  <2>3. QED
    BY <1>4, <2>1, <2>2 DEF AloneInv
<1>7. CASE AllClusters(c)
  <2>1. ~ Start(c) /\ read[c] = {} /\ Stored' = Stored
    BY <1>5, <1>7 DEF AllClusters, Start, Types, tables
  <2>2. todo'[c] = { Bare(y) : y \in Stored } /\ pc'[c] = "read_members" /\ read' = read
    BY <1>7, StoredIs DEF AllClusters, Put, Go, Types
  <2>3. \A y : Bare(y)' = Bare(y)
    BY DEF Bare
  <2>4. QED
    BY <1>4, <2>1, <2>2, <2>3 DEF AloneInv
<1>8. CASE ReadMembers(c)
  <2>1. ~ Start(c) /\ Stored' = Stored /\ pc[c] = "read_members" /\ pc' = pc
    BY <1>5, <1>8 DEF ReadMembers, Start, tables
  <2>2. PICK x \in todo[c] : /\ read' = Put(read, c, read[c] \cup {[x EXCEPT !.members = MembersOf(x.id)]})
                             /\ Treated(c, x)
    BY <1>8 DEF ReadMembers
  <2>3. c = latest /\ latest' = c /\ Running' \subseteq {c} /\ alone
    BY <1>3, <1>4, <2>1
  <2>4. /\ todo[c] \subseteq { Bare(y) : y \in Stored } /\ read[c] \subseteq Stored
        /\ \A y \in Stored : y \in read[c] \/ Bare(y) \in todo[c]
    BY <1>3, <2>1, <2>3 DEF AloneInv
  <2>5. PICK z \in Stored : x = Bare(z)
    BY <2>2, <2>4
  <2>6. [x EXCEPT !.members = MembersOf(x.id)] = z
    BY <2>5, StoredIs
  <2>7. read'[c] = read[c] \cup {z} /\ todo'[c] = todo[c] \ {x}
    BY <2>2, <2>6 DEF Put, Treated, Types
  <2>8. \A y \in Stored : Bare(y) = x => y = z
    BY <2>5, StoredIs
  <2>9. \A y : Bare(y)' = Bare(y)
    BY DEF Bare
  <2>10. QED
    BY <2>1, <2>3, <2>4, <2>7, <2>8, <2>9 DEF AloneInv
<1>9. CASE HasRead(c)
  <2>1. /\ ~ Start(c) /\ Stored' = Stored /\ pc[c] = "read_members" /\ todo[c] = {} /\ read' = read
        /\ todo' = [todo EXCEPT ![c] = read[c]] /\ pc' = [pc EXCEPT ![c] = IF kind[c] = "analyze" THEN "skills" ELSE "pages"]
    BY <1>5, <1>9 DEF HasRead, Start, tables, Put, Go
  <2>2. c = latest /\ latest' = c /\ Running' \subseteq {c} /\ alone
    BY <1>3, <1>4, <2>1
  <2>3. read[c] = Stored
    BY <2>1, <2>2 DEF AloneInv
  <2>4. todo'[c] = Stored /\ read'[c] = Stored /\ pc'[c] \in {"skills", "pages"}
    BY <2>1, <2>3 DEF Types
  <2>5. QED
    BY <2>1, <2>2, <2>4 DEF AloneInv
<1>16. CASE ClustersUnread(c)
  <2>1. /\ ~ Start(c) /\ Stored' = Stored /\ todo' = [todo EXCEPT ![c] = {}] /\ pc' = [pc EXCEPT ![c] = "skills"]
        /\ "discarded" \in faults /\ faults' = faults
    BY <1>5, <1>16 DEF ClustersUnread, Start, tables, Put, Go
  <2>2. c = latest /\ latest' = c /\ Running' \subseteq {c} /\ todo'[c] = {} /\ pc'[c] = "skills"
    BY <1>3, <1>4, <2>1 DEF Types
  <2>3. QED
    BY <2>1, <2>2 DEF AloneInv
<1>10. CASE WriteSkill(c)
  <2>1. ~ Start(c) /\ Stored' = Stored /\ pc[c] = "skills" /\ pc' = pc
    BY <1>5, <1>10 DEF WriteSkill, Start, tables
  <2>2. PICK x \in todo[c] : /\ skills' = IF Worthy(x) THEN [skills EXCEPT ![FileName[x.label]] = x] ELSE skills
                             /\ Treated(c, x)
    BY <1>10 DEF WriteSkill
  <2>3. c = latest /\ latest' = c /\ Running' \subseteq {c} /\ alone /\ UNCHANGED <<faults, kind>>
    BY <1>3, <1>4, <2>1
  <2>4. todo'[c] = todo[c] \ {x} /\ todo[c] \subseteq Stored /\ todo'[c] \subseteq Stored
    BY <2>1, <2>2, <2>3 DEF Treated, Put, Types, AloneInv
  <2>5. FileName[x.label] \in DOMAIN skills
    BY DEF Types, CommunityType
  <2>6. ASSUME faults \cap {"write_fails", "discarded"} = {}, NEW z \in Stored \ todo'[c], z.module
        PROVE  \E y \in Stored : y.module /\ FileName[y.label] = FileName[z.label] /\ skills'[FileName[z.label]] = y
    <3>1. CASE x.module /\ FileName[z.label] = FileName[x.label]
      <4>1. skills'[FileName[x.label]] = x
        BY <2>2, <2>5, <3>1 DEF Worthy
      <4>2. QED
        BY <2>2, <2>4, <3>1, <4>1
    <3>2. CASE ~ (x.module /\ FileName[z.label] = FileName[x.label])
      <4>1. z # x /\ z \notin todo[c]
        BY <2>4, <2>6, <3>2
      <4>2. PICK y \in Stored : y.module /\ FileName[y.label] = FileName[z.label] /\ skills[FileName[z.label]] = y
        BY <2>1, <2>3, <2>6, <4>1 DEF AloneInv
      <4>3. skills'[FileName[z.label]] = skills[FileName[z.label]]
        BY <2>2, <3>2 DEF Worthy
      <4>4. QED
        BY <4>2, <4>3
    <3>3. QED
      BY <3>1, <3>2
  <2>7. QED
    BY <2>1, <2>3, <2>4, <2>6 DEF AloneInv
<1>11. CASE SkillFails(c)
  <2>1. /\ ~ Start(c) /\ Stored' = Stored /\ pc[c] = "skills" /\ pc' = pc /\ todo' = [todo EXCEPT ![c] = {}]
        /\ "write_fails" \in faults /\ faults' = faults
    BY <1>5, <1>11 DEF SkillFails, Start, tables, Put
  <2>2. c = latest /\ latest' = c /\ Running' \subseteq {c} /\ todo'[c] = {}
    BY <1>3, <1>4, <2>1 DEF Types
  <2>3. QED
    BY <2>1, <2>2 DEF AloneInv
<1>12. CASE SkillsInstalled(c)
  <2>1. /\ ~ Start(c) /\ Stored' = Stored /\ pc[c] = "skills" /\ todo[c] = {} /\ pc' = [pc EXCEPT ![c] = "done"]
        /\ todo' = [todo EXCEPT ![c] = {}] /\ UNCHANGED <<faults, kind, skills>>
    BY <1>5, <1>12 DEF SkillsInstalled, Start, Ends, Put, Go, tables, outputs
  <2>2. c = latest /\ latest' = c /\ Running' \subseteq {c} /\ alone
    BY <1>3, <1>4, <2>1
  <2>3. kind[c] = "analyze" /\ pc'[c] = "done" /\ todo'[c] = {}
    BY <2>1 DEF Types
  <2>4. faults \cap {"write_fails", "discarded"} = {} =>
          \A x \in Stored : x.module =>
            \E y \in Stored : y.module /\ FileName[y.label] = FileName[x.label] /\ skills[FileName[x.label]] = y
    BY <2>1, <2>2 DEF AloneInv
  <2>5. QED
    BY <2>1, <2>2, <2>3, <2>4 DEF AloneInv
<1>13. CASE WritePage(c)
  <2>1. ~ Start(c) /\ Stored' = Stored /\ pc[c] = "pages" /\ pc' = pc /\ read' = read /\ faults' = faults
    BY <1>5, <1>13 DEF WritePage, Start, tables
  <2>2. PICK x \in todo[c] : /\ (pages' = [pages EXCEPT ![x.id] = x] \/ ("write_fails" \in faults /\ pages' = pages))
                             /\ Treated(c, x)
    BY <1>13 DEF WritePage
  <2>3. c = latest /\ latest' = c /\ Running' \subseteq {c} /\ alone
    BY <1>3, <1>4, <2>1
  <2>4. todo'[c] = todo[c] \ {x} /\ todo[c] \subseteq Stored /\ read[c] = Stored
        /\ ("write_fails" \notin faults => \A z \in Stored \ todo[c] : pages[z.id] = z)
    BY <2>1, <2>2, <2>3 DEF Treated, Put, Types, AloneInv
  <2>5. ASSUME "write_fails" \notin faults, NEW z \in Stored \ todo'[c] PROVE pages'[z.id] = z
    <3>1. x.id \in DOMAIN pages /\ pages' = [pages EXCEPT ![x.id] = x]
      BY <2>2, <2>5 DEF Types, CommunityType
    <3>2. z = x \/ (z.id # x.id /\ z \notin todo[c])
      BY <2>2, <2>4, <2>5, StoredIs
    <3>3. QED
      BY <2>4, <2>5, <3>1, <3>2
  <2>6. QED
    BY <2>1, <2>3, <2>4, <2>5 DEF AloneInv
<1>14. CASE WriteOverview(c)
  <2>1. /\ ~ Start(c) /\ Stored' = Stored /\ pc[c] = "pages" /\ todo[c] = {} /\ overview' = read[c]
        /\ pc' = [pc EXCEPT ![c] = "done"] /\ UNCHANGED <<faults, kind, pages>>
    BY <1>5, <1>14 DEF WriteOverview, PagesWritten, Start, Ends, Go, tables
  <2>2. c = latest /\ latest' = c /\ Running' \subseteq {c} /\ alone
    BY <1>3, <1>4, <2>1
  <2>3. kind[c] = "wiki" /\ pc'[c] = "done"
    BY <2>1 DEF Types
  <2>4. read[c] = Stored /\ ("write_fails" \notin faults => \A x \in Stored : pages[x.id] = x)
    BY <2>1, <2>2 DEF AloneInv
  <2>5. QED
    BY <2>1, <2>2, <2>3, <2>4 DEF AloneInv
<1>15. QED
  BY <1>2, <1>6, <1>7, <1>8, <1>9, <1>10, <1>11, <1>12, <1>13, <1>14, <1>16

\* Pages are there before they are linked, and stay.
LEMMA PagesKept ==
  ASSUME Types, PagesInv, [Next]_vars
  PROVE  PagesInv'
<1> SUFFICES ASSUME "write_fails" \notin faults' PROVE PagesInv'
  BY DEF PagesInv
<1>0. "write_fails" \notin faults
  BY FaultsKept
<1>1. CASE UNCHANGED vars
  BY <1>1 DEF vars, outputs, PagesInv
<1>2. ASSUME NEW c \in Command, ~ WritePage(c), ~ WriteOverview(c),
             \/ Aside(c) \/ DeleteAllClusters(c) \/ ClearsPartly(c) \/ UpsertCluster(c) \/ UpsertClusterMembers(c) \/ SetClusterForNodes(c)
      PROVE  PagesInv'
  <2>1. UNCHANGED <<pages, overview>>
    BY <1>2 DEF Aside, Start, DeleteAllClusters, ClearsPartly, UpsertCluster, UpsertClusterMembers, SetClusterForNodes, Clustered,
       AllClusters, ReadMembers, HasRead, ClustersUnread, WriteSkill, SkillFails, SkillsInstalled, Crash, outputs
  <2>2. /\ \A d \in Command \ {c} : pc'[d] = pc[d] /\ todo'[d] = todo[d] /\ read'[d] = read[d]
        /\ pc'[c] = "pages" => todo'[c] = read'[c]
    <3>1. CASE Aside(c)
      <4>1. \A d \in Command \ {c} : pc'[d] = pc[d] /\ todo'[d] = todo[d] /\ read'[d] = read[d]
        BY <3>1, AsideIs
      <4>2. pc'[c] = "pages" => HasRead(c)
        BY <1>2, <3>1 DEF Aside, Start, Clustered, AllClusters, ReadMembers, ClustersUnread, WriteSkill, SkillFails, SkillsInstalled,
           Crash, Ends, Go, Types
      <4>3. HasRead(c) => todo'[c] = read'[c]
        BY DEF HasRead, Put, Types
      <4>4. QED
        BY <4>1, <4>2, <4>3
    <3>2. CASE DeleteAllClusters(c) \/ ClearsPartly(c)
      BY <3>2 DEF DeleteAllClusters, ClearsPartly, Put, Go, Types
    <3>3. CASE UpsertCluster(c)
      BY <3>3 DEF UpsertCluster, Treated, Put, Go, Types
    <3>4. CASE UpsertClusterMembers(c) \/ SetClusterForNodes(c)
      BY <3>4 DEF UpsertClusterMembers, SetClusterForNodes, Put, Go, Types
    <3>5. QED
      BY <1>2, <3>1, <3>2, <3>3, <3>4
  <2>3. QED
    BY <1>0, <2>1, <2>2 DEF PagesInv
<1>3. ASSUME NEW c \in Command, WritePage(c) PROVE PagesInv'
  <2>1. PICK x \in todo[c] : pages' = [pages EXCEPT ![x.id] = x] /\ Treated(c, x)
    BY <1>0, <1>3 DEF WritePage
  <2>2. x.id \in DOMAIN pages /\ x # Absent /\ UNCHANGED <<overview, pc, read>>
    BY <1>3, CommunitiesAssumption DEF WritePage, Types, CommunityType
  <2>3. pages'[x.id] # Absent /\ \A id : pages[id] # Absent => pages'[id] # Absent
    BY <2>1, <2>2
  <2>4. todo'[c] = todo[c] \ {x} /\ \A d \in Command \ {c} : todo'[d] = todo[d]
    BY <2>1 DEF Treated, Put, Types
  <2>5. QED
    BY <1>0, <2>2, <2>3, <2>4 DEF PagesInv
<1>4. ASSUME NEW c \in Command, WriteOverview(c) PROVE PagesInv'
  <2>1. /\ pc[c] = "pages" /\ todo[c] = {} /\ overview' = read[c] /\ pages' = pages
        /\ pc'[c] = "done" /\ \A d \in Command \ {c} : pc'[d] = pc[d] /\ todo'[d] = todo[d] /\ read'[d] = read[d]
    BY <1>4 DEF WriteOverview, PagesWritten, Ends, Put, Go, Types
  <2>2. QED
    BY <1>0, <2>1 DEF PagesInv
<1>5. QED
  BY <1>1, <1>2, <1>3, <1>4, NextIs

\* What holds in every state.
LEMMA CommunitiesInvariant == Spec => [](Types /\ ClusterIdInv /\ OneCommunityInv /\ CoverInv /\ AloneInv /\ PagesInv)
<1>1. Init => Types /\ ClusterIdInv /\ OneCommunityInv /\ CoverInv /\ AloneInv /\ PagesInv
  <2> SUFFICES ASSUME Init PROVE Types /\ ClusterIdInv /\ OneCommunityInv /\ CoverInv /\ AloneInv /\ PagesInv
    OBVIOUS
  <2>1. Types
    BY DEF Init, Types, PastClear, Filling
  <2>2. ClusterIdInv /\ OneCommunityInv /\ CoverInv /\ AloneInv /\ PagesInv
    BY DEF Init, ClusterIdInv, OneCommunityInv, CoverInv, AloneInv, PagesInv, Running, PastClear, Filling
  <2>3. QED
    BY <2>1, <2>2
<1>2. Types /\ ClusterIdInv /\ OneCommunityInv /\ CoverInv /\ AloneInv /\ PagesInv /\ [Next]_vars
        => (Types /\ ClusterIdInv /\ OneCommunityInv /\ CoverInv /\ AloneInv /\ PagesInv)'
  BY TypesKept, ClusterIdKept, OneCommunityKept, CoverKept, AloneKept, PagesKept
<1>3. QED
  BY <1>1, <1>2, PTL DEF Spec

\* While analyses do not overlap a symbol is in one community at most, at every
\* moment and wherever one dies, and cluster_id names no other, not even where an
\* error was discarded; when any number of them have overlapped and all have ended
\* without one it is in one that has a row (clusters.go:36-91, analyze.go:183-215).
THEOREM EveryonePlaced == Spec => []EveryoneInACommunity
<1>1. Types /\ ClusterIdInv /\ OneCommunityInv /\ CoverInv /\ AloneInv /\ PagesInv => EveryoneInACommunity
  <2> SUFFICES ASSUME Types, ClusterIdInv, OneCommunityInv, CoverInv PROVE EveryoneInACommunity
    OBVIOUS
  <2>1. ASSUME "discarded" \notin faults, Running = {}, Clusterers # {}, \A c \in Command : pc[c] # "dead", NEW s \in Symbol
        PROVE  \E x \in Stored : s \in x.members
    <3>1. PICK c \in Command : kind[c] = "analyze" /\ pc[c] \in PastClear
      BY <2>1 DEF Clusterers, PastClear
    <3>2. PICK d \in Command : pc[d] \in PastClear /\ PlacedBy(d, s)
      BY <2>1, <3>1 DEF CoverInv
    <3>3. d \notin Running
      BY <2>1
    <3>4. Placed(s)
      BY <3>2, <3>3 DEF PlacedBy, Running, Filling
    <3>5. PICK id \in Id : <<id, s>> \in member /\ clusters[id] # Absent
      BY <3>4 DEF Placed
    <3> DEFINE x == Community(id, clusters[id].label, clusters[id].module, { t \in Symbol : <<id, t>> \in member })
    <3>6. x \in Stored
      BY <3>5 DEF Stored
    <3>7. s \in x.members
      BY <3>5 DEF Community
    <3>8. QED
      BY <3>6, <3>7
  <2>2. QED
    BY <2>1 DEF EveryoneInACommunity, ClusterIdInv, OneCommunityInv
<1>2. QED
  BY <1>1, CommunitiesInvariant, PTL

\* After an analysis that ran alone the skill of each module's name is that of a
\* module of now, whatever died before it (skills.go:34-50, analyze.go:300-313).
THEOREM SkillsAreOfNow == Spec => []SkillsOfNow
<1>1. Types /\ ClusterIdInv /\ OneCommunityInv /\ CoverInv /\ AloneInv /\ PagesInv => SkillsOfNow
  <2> SUFFICES ASSUME Types, AloneInv, EndedAlone("analyze"), faults \cap {"write_fails", "discarded"} = {},
                      NEW x \in Stored, x.module
               PROVE  \E y \in Stored : /\ y.module /\ FileName[y.label] = FileName[x.label]
                                        /\ skills[FileName[x.label]] = y
    BY DEF SkillsOfNow
  <2>1. /\ latest # Absent /\ alone /\ kind[latest] = "analyze" /\ pc[latest] = "done" /\ latest \in Command
    BY DEF EndedAlone, Types
  <2>2. todo[latest] = {}
    BY <2>1 DEF Types
  <2>3. QED
    BY <2>1, <2>2 DEF AloneInv
<1>2. QED
  BY <1>1, CommunitiesInvariant, PTL

\* A link of WIKI.md leads to a page at every moment, and after a wiki that was
\* written alone to the page of the community of now (wiki.go:49-121).
THEOREM WikiIsExact == Spec => []WikiExact
<1>1. Types /\ ClusterIdInv /\ OneCommunityInv /\ CoverInv /\ AloneInv /\ PagesInv => WikiExact
  <2> SUFFICES ASSUME Types, AloneInv, PagesInv, "write_fails" \notin faults
               PROVE  /\ \A x \in overview : pages[x.id] # Absent
                      /\ EndedAlone("wiki") => overview = Stored /\ \A x \in overview : pages[x.id] = x
    BY DEF WikiExact
  <2>1. ASSUME EndedAlone("wiki") PROVE overview = Stored /\ \A x \in overview : pages[x.id] = x
    <3>1. /\ latest # Absent /\ alone /\ kind[latest] = "wiki" /\ pc[latest] = "done"
      BY <2>1 DEF EndedAlone
    <3>2. QED
      BY <3>1 DEF AloneInv
  <2>2. QED
    BY <2>1 DEF PagesInv
<1>2. QED
  BY <1>1, CommunitiesInvariant, PTL
=============================================================================
