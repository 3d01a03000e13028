--------------------------- MODULE GraphAnalysisProofs ---------------------------
(***************************************************************************)
(* Proofs about what `mimir analyze` makes of the stored graph: modules    *)
(* Louvain and ProcessTracer, for any number of symbols, any edges and     *)
(* weights, any resolution and depth.                                      *)
(***************************************************************************)
EXTENDS ProcessTracer, FiniteSetTheorems, NaturalsInduction, TLAPS

-----------------------------------------------------------------------------
(* Numbers, and sums over finite sets.                                     *)

\* A set of numbers has a least one.
LEMMA LeastNumber ==
  ASSUME NEW S \in SUBSET Nat, S # {}
  PROVE  \E m \in S : \A k \in S : m <= k
<1> DEFINE R == OpToRel(<, Nat)
<1>1. IsWellFoundedOn(R, Nat)
  BY NatLessThanWellFounded
<1>2. \A x, y \in Nat : x < y => <<x, y>> \in R
  BY DEF OpToRel
<1> HIDE DEF R
<1>3. PICK m \in S : \A k \in S : ~ (<<k, m>> \in R)
  BY <1>1, WFMin
<1>4. ASSUME NEW k \in S PROVE m <= k
  <2>1. ~ (k < m)
    BY <1>2, <1>3
  <2>2. QED
    BY <2>1
<1>5. QED
  BY <1>4

LEMMA MinOf ==
  ASSUME NEW S \in SUBSET Nat, S # {}
  PROVE  Min(S) \in S /\ \A k \in S : Min(S) <= k
<1>1. \E m \in S : \A k \in S : m <= k
  BY LeastNumber
<1>2. QED
  BY <1>1 DEF Min

\* A set with 0 and, with each number, the next one, is that of all numbers.
LEMMA NumbersFromZero ==
  ASSUME NEW S, 0 \in S, \A n \in Nat : n \in S => n + 1 \in S
  PROVE  Nat \subseteq S
<1> SUFFICES ASSUME Nat \ S # {} PROVE FALSE
  OBVIOUS
<1>1. PICK m \in Nat \ S : \A k \in Nat \ S : m <= k
  BY LeastNumber
<1>2. m - 1 \in Nat /\ m - 1 \in S
  BY <1>1
<1>3. m - 1 + 1 \in S
  BY <1>2
<1>4. QED
  BY <1>3

\* The recursive function of a sum: it adds up f over each set of T, a family
\* of sets that has, with a set, what is left of it when an element is taken.
Taken(s) == CHOOSE x \in s : TRUE
IsSum(it, f, T) ==
  it = [s \in T |-> IF s = {} THEN 0 ELSE f[Taken(s)] + it[s \ {Taken(s)}]]
Sums(f, S) == CHOOSE it : IsSum(it, f, SUBSET S)

LEMMA SumIs ==
  ASSUME NEW f, NEW S PROVE SumFunctionOnSet(f, S) = Sums(f, S)[S]
BY DEF SumFunctionOnSet, FoldFunctionOnSet, MapThenFoldSet, Sums, IsSum, Taken

\* It exists.
LEMMA SumsExist ==
  ASSUME NEW f, NEW S, IsFiniteSet(S)
  PROVE  IsSum(Sums(f, S), f, SUBSET S)
<1> DEFINE Small(n) == { s \in SUBSET S : Cardinality(s) <= n }
           N == { n \in Nat : \E it : IsSum(it, f, Small(n)) }
<1>1. \A s \in SUBSET S : IsFiniteSet(s) /\ Cardinality(s) \in Nat
  BY FS_Subset, FS_CardinalityType
<1>2. \A s \in SUBSET S : s # {} => Taken(s) \in s /\ Cardinality(s \ {Taken(s)}) = Cardinality(s) - 1
  BY <1>1, FS_RemoveElement DEF Taken
<1>3. \A s \in SUBSET S : Cardinality(s) = 0 <=> s = {}
  BY <1>1, FS_EmptySet
<1>4. 0 \in N
  <2>1. IsSum([s \in Small(0) |-> 0], f, Small(0))
    BY <1>1, <1>3 DEF IsSum
  <2>2. QED
    BY <2>1
<1>5. ASSUME NEW n \in Nat, n \in N PROVE n + 1 \in N
  <2>1. PICK g : IsSum(g, f, Small(n))
    BY <1>5
  <2> DEFINE value(s) == IF s = {} THEN 0 ELSE f[Taken(s)] + g[s \ {Taken(s)}]
             it == [s \in Small(n + 1) |-> value(s)]
  <2>2. \A s \in Small(n) : s \in Small(n + 1) /\ g[s] = value(s)
    <3>1. \A s \in Small(n) : s \in Small(n + 1)
      BY <1>1
    <3> HIDE DEF Small
    <3>2. \A s \in Small(n) : g[s] = value(s)
      BY <2>1 DEF IsSum
    <3>3. QED
      BY <3>1, <3>2
  <2>3. \A s \in Small(n + 1) : s # {} => s \ {Taken(s)} \in Small(n)
    BY <1>1, <1>2
  <2>4. \A s \in Small(n) : it[s] = g[s]
    BY <2>2
  <2> HIDE DEF Small
  <2>5. \A s \in Small(n + 1) : it[s] = IF s = {} THEN 0 ELSE f[Taken(s)] + it[s \ {Taken(s)}]
    BY <2>3, <2>4
  <2> HIDE DEF value
  <2>6. it = [s \in Small(n + 1) |-> it[s]]
    OBVIOUS
  <2> HIDE DEF it
  <2>7. it = [s \in Small(n + 1) |-> IF s = {} THEN 0 ELSE f[Taken(s)] + it[s \ {Taken(s)}]]
    BY <2>5, <2>6
  <2>8. IsSum(it, f, Small(n + 1))
    BY <2>7 DEF IsSum
  <2>9. QED
    BY <2>8
<1>6. Nat \subseteq N
  <2> HIDE DEF N
  <2>1. QED
    BY <1>4, <1>5, NumbersFromZero
<1>7. Cardinality(S) \in N
  BY <1>1, <1>6
<1>8. Small(Cardinality(S)) = SUBSET S
  BY <1>1, FS_Subset
<1>9. \E it : IsSum(it, f, SUBSET S)
  BY <1>7, <1>8
<1>10. QED
  BY <1>9 DEF Sums

\* A sum of numbers is a number, and one of zeros is zero.
LEMMA SumOfNumbers ==
  ASSUME NEW f, NEW S, IsFiniteSet(S), \A x \in S : f[x] \in Nat
  PROVE  /\ SumFunctionOnSet(f, S) \in Nat
         /\ (\A x \in S : f[x] = 0) => SumFunctionOnSet(f, S) = 0
<1> DEFINE it == Sums(f, S)
           good(s) == it[s] \in Nat /\ ((\A x \in S : f[x] = 0) => it[s] = 0)
           N == { n \in Nat : \A s \in SUBSET S : Cardinality(s) = n => good(s) }
<1>1. \A s \in SUBSET S : IsFiniteSet(s) /\ Cardinality(s) \in Nat
  BY FS_Subset, FS_CardinalityType
<1>2. \A s \in SUBSET S : s # {} => Taken(s) \in s /\ Cardinality(s \ {Taken(s)}) = Cardinality(s) - 1
  BY <1>1, FS_RemoveElement DEF Taken
<1>3. \A s \in SUBSET S : Cardinality(s) = 0 <=> s = {}
  BY <1>1, FS_EmptySet
<1>4. \A s \in SUBSET S : it[s] = IF s = {} THEN 0 ELSE f[Taken(s)] + it[s \ {Taken(s)}]
  <2>1. IsSum(it, f, SUBSET S)
    BY SumsExist
  <2> HIDE DEF it
  <2>2. QED
    BY <2>1 DEF IsSum
<1> HIDE DEF it
<1>5. 0 \in N
  BY <1>3, <1>4
<1>6. ASSUME NEW n \in Nat, n \in N PROVE n + 1 \in N
  <2> SUFFICES ASSUME NEW s \in SUBSET S, Cardinality(s) = n + 1 PROVE good(s)
    OBVIOUS
  <2>1. s # {}
    BY <1>3
  <2>2. Taken(s) \in S /\ s \ {Taken(s)} \in SUBSET S /\ Cardinality(s \ {Taken(s)}) = n
    BY <1>2, <2>1
  <2>3. good(s \ {Taken(s)})
    BY <1>6, <2>2
  <2>4. it[s] = f[Taken(s)] + it[s \ {Taken(s)}]
    BY <1>4, <2>1
  <2>5. QED
    BY <2>2, <2>3, <2>4
<1>7. Nat \subseteq N
  <2> HIDE DEF N
  <2>1. QED
    BY <1>5, <1>6, NumbersFromZero
<1>8. good(S)
  BY <1>1, <1>7
<1>9. QED
  BY <1>8, SumIs DEF it
-----------------------------------------------------------------------------
(* Louvain.                                                                *)

LEMMA NodesFinite ==
  ASSUME NEW n \in Nat
  PROVE  /\ IsFiniteSet(Nodes(n)) /\ Cardinality(Nodes(n)) = n /\ Nodes(n) \subseteq Nat
         /\ IsFiniteSet(Nodes(n) \X Nodes(n))
<1>1. IsFiniteSet(Nodes(n)) /\ Cardinality(Nodes(n)) = n
  <2>1. n - 1 \in Int /\ 0 <= n
    OBVIOUS
  <2>2. QED
    BY <2>1, FS_Interval DEF Nodes
<1>2. IsFiniteSet(Nodes(n) \X Nodes(n))
  BY <1>1, FS_Product
<1>3. QED
  BY <1>1, <1>2 DEF Nodes

\* The renumbering of phase2: it tells communities apart exactly as they were,
\* and uses every number below that of the communities.
LEMMA RemapNumbers ==
  ASSUME NEW n \in Nat, NEW of \in [Nodes(n) -> Nodes(n)]
  PROVE  /\ Count(Remap(of)) \in Nat /\ Count(Remap(of)) <= n
         /\ (\E empty \in Nodes(n) : \A i \in Nodes(n) : of[i] # empty) => Count(Remap(of)) < n
         /\ Remap(of) \in [Nodes(n) -> Nodes(Count(Remap(of)))]
         /\ { Remap(of)[i] : i \in Nodes(n) } = Nodes(Count(Remap(of)))
         /\ \A i, j \in Nodes(n) : Remap(of)[i] = Remap(of)[j] <=> of[i] = of[j]
<1> DEFINE first(c) == Min(Members(c, of))
           before(c) == { of[j] : j \in 0 .. first(c) - 1 }
           number(c) == Cardinality(before(c))
           C == { of[i] : i \in Nodes(n) }
           K == Cardinality(C)
           h == [c \in C |-> number(c)]
<1>1. /\ IsFiniteSet(Nodes(n)) /\ Cardinality(Nodes(n)) = n /\ Nodes(n) \subseteq Nat
      /\ \A i \in Nodes(n) : 0 .. i - 1 \subseteq Nodes(n) \ {i}
  <2>1. \A i \in Nodes(n) : 0 .. i - 1 \subseteq Nodes(n) \ {i}
    BY DEF Nodes
  <2>2. QED
    BY <2>1, NodesFinite
<1>2. IsFiniteSet(C) /\ K \in Nat /\ K <= n
  <2>1. C \in SUBSET Nodes(n)
    OBVIOUS
  <2>2. QED
    BY <1>1, <2>1, FS_Subset, FS_CardinalityType
<1>3. (\E empty \in Nodes(n) : \A i \in Nodes(n) : of[i] # empty) => K < n
  <2> SUFFICES ASSUME NEW empty \in Nodes(n), \A i \in Nodes(n) : of[i] # empty PROVE K < n
    OBVIOUS
  <2>1. IsFiniteSet(Nodes(n) \ {empty}) /\ Cardinality(Nodes(n) \ {empty}) = n - 1
    BY <1>1, FS_RemoveElement
  <2>2. C \in SUBSET (Nodes(n) \ {empty})
    OBVIOUS
  <2>3. K <= n - 1
    BY <2>1, <2>2, FS_Subset
  <2>4. QED
    BY <1>2, <2>3
<1>4. ASSUME NEW c \in C
      PROVE  first(c) \in Nodes(n) /\ of[first(c)] = c /\ \A j \in 0 .. first(c) - 1 : of[j] # c
  <2>1. Members(c, of) \in SUBSET Nodes(n) /\ Members(c, of) # {}
    BY DEF Members
  <2>2. first(c) \in Members(c, of) /\ \A k \in Members(c, of) : first(c) <= k
    BY <1>1, <2>1, MinOf
  <2> HIDE DEF first
  <2>3. first(c) \in Nodes(n) /\ of[first(c)] = c
    BY <2>2 DEF Members
  <2>4. ASSUME NEW j \in 0 .. first(c) - 1, of[j] = c PROVE FALSE
    <3>1. j \in Members(c, of)
      BY <1>1, <2>3, <2>4 DEF Members
    <3>2. QED
      BY <1>1, <2>2, <2>3, <3>1
  <2>5. QED
    BY <2>3, <2>4
<1> HIDE DEF first
<1>5. ASSUME NEW c \in C
      PROVE  /\ before(c) \in SUBSET (C \ {c}) /\ IsFiniteSet(before(c))
             /\ number(c) \in Nat /\ number(c) <= K - 1
  <2>1. before(c) \in SUBSET (C \ {c})
    BY <1>1, <1>4
  <2>2. IsFiniteSet(C \ {c}) /\ Cardinality(C \ {c}) = K - 1
    BY <1>2, FS_RemoveElement
  <2> HIDE DEF before, C
  <2>3. QED
    BY <2>1, <2>2, FS_Subset, FS_CardinalityType
<1>6. ASSUME NEW c \in C, NEW d \in C, first(c) < first(d) PROVE number(c) < number(d)
  <2>1. before(c) \cup {c} \subseteq before(d)
    <3>1. 0 .. first(c) - 1 \subseteq 0 .. first(d) - 1 /\ first(c) \in 0 .. first(d) - 1
      BY <1>1, <1>4, <1>6
    <3>2. c \in before(d)
      BY <1>4, <3>1
    <3>3. QED
      BY <3>1, <3>2
  <2>2. before(c) # before(d)
    BY <1>5, <2>1
  <2>3. QED
    <3> HIDE DEF before, C
    <3>1. before(c) \in SUBSET before(d)
      BY <2>1
    <3>2. number(c) <= number(d) /\ number(d) # number(c)
      BY <1>5, <2>2, <3>1, FS_Subset
    <3>3. QED
      BY <1>5, <3>2
<1>7. ASSUME NEW c \in C, NEW d \in C, c # d PROVE number(c) # number(d)
  <2>1. first(c) \in Nat /\ first(d) \in Nat /\ first(c) # first(d)
    BY <1>1, <1>4, <1>7
  <2>2. first(c) < first(d) \/ first(d) < first(c)
    BY <2>1
  <2> HIDE DEF before, number
  <2>3. number(c) \in Nat /\ number(d) \in Nat
    BY <1>5
  <2>4. QED
    BY <1>6, <2>2, <2>3
<1> HIDE DEF before, number
<1>8. h \in Injection(C, Nodes(K))
  <2>1. \A c \in C : number(c) \in Nodes(K)
    <3> HIDE DEF C
    <3>1. QED
      BY <1>2, <1>5 DEF Nodes
  <2>2. QED
    BY <1>7, <2>1 DEF Injection, IsInjective
<1>9. { number(c) : c \in C } = Nodes(K)
  <2>1. IsFiniteSet(Nodes(K)) /\ Cardinality(Nodes(K)) = K
    BY <1>2, NodesFinite
  <2> HIDE DEF C, h
  <2>2. h \in Surjection(C, Nodes(K))
    <3>1. K = Cardinality(Nodes(K)) <=> h \in Surjection(C, Nodes(K))
      BY <1>8, <2>1, FS_Injection
    <3>2. QED
      BY <2>1, <3>1
  <2>3. QED
    BY <2>2 DEF Surjection, h
<1>10. Remap(of) = [i \in Nodes(n) |-> number(of[i])]
  BY DEF Remap, number, before, first
<1>11. { Remap(of)[i] : i \in DOMAIN Remap(of) } = Nodes(K)
  BY <1>9, <1>10
<1>12. Count(Remap(of)) = K
  BY <1>2, <1>11, NodesFinite DEF Count
<1>13. \A i \in Nodes(n) : Remap(of)[i] = number(of[i]) /\ of[i] \in C
  BY <1>10
<1>14. Remap(of) \in [Nodes(n) -> Nodes(K)] /\ { Remap(of)[i] : i \in Nodes(n) } = Nodes(K)
  BY <1>10, <1>11
<1>15. \A i, j \in Nodes(n) : Remap(of)[i] = Remap(of)[j] <=> of[i] = of[j]
  <2> HIDE DEF C
  <2>1. QED
    BY <1>7, <1>13
<1> HIDE DEF K
<1>16. QED
  BY <1>2, <1>3, <1>12, <1>14, <1>15

\* The types of a graph with n nodes.
GraphType(g, n) ==
  /\ g.size = n
  /\ g.adj \in [Nodes(n) -> [Nodes(n) -> Nat]]
  /\ g.degree \in [Nodes(n) -> Nat]
  /\ g.total \in Nat

LEMMA SumOfFunction ==
  ASSUME NEW f, IsFiniteSet(DOMAIN f), \A x \in DOMAIN f : f[x] \in Nat
  PROVE  /\ SumFunction(f) \in Nat
         /\ (\A x \in DOMAIN f : f[x] = 0) => SumFunction(f) = 0
BY SumOfNumbers DEF SumFunction

LEMMA DegreesType ==
  ASSUME NEW n \in Nat, NEW adj \in [Nodes(n) -> [Nodes(n) -> Nat]]
  PROVE  Degrees(n, adj) \in [Nodes(n) -> Nat]
<1>1. ASSUME NEW i \in Nodes(n) PROVE SumFunction(adj[i]) \in Nat
  <2>1. DOMAIN adj[i] = Nodes(n) /\ \A j \in Nodes(n) : adj[i][j] \in Nat
    OBVIOUS
  <2>2. QED
    BY <2>1, NodesFinite, SumOfFunction
<1>2. QED
  BY <1>1 DEF Degrees

\* What BuildGraph makes of the store; an edge weighs the same from both ends.
LEMMA GraphBuilt ==
  ASSUME NEW edges \in Calls
  PROVE  /\ GraphType(BuildGraph(edges), Size)
         /\ \A i, j \in Nodes(Size) : BuildGraph(edges).adj[i][j] = BuildGraph(edges).adj[j][i]
<1> DEFINE kept == Used(edges)
           adj == [i \in Nodes(Size) |-> [j \in Nodes(Size) |->
                     Weight(kept, i, j) + Weight(kept, j, i)]]
<1>1. Size \in Nat /\ IsFiniteSet(edges) /\ \A e \in edges : e.confidence \in Nat
  BY LouvainAssumption
<1>2. ASSUME NEW some \in SUBSET edges PROVE Confidences(some) \in Nat
  <2> DEFINE f == [e \in some |-> e.confidence]
  <2>1. DOMAIN f = some /\ \A e \in some : f[e] \in Nat
    BY <1>1
  <2>2. IsFiniteSet(some)
    BY <1>1, FS_Subset
  <2>3. SumFunction(f) \in Nat
    <3> HIDE DEF f
    <3>1. QED
      BY <2>1, <2>2, SumOfFunction
  <2>4. QED
    BY <2>3 DEF Confidences
<1>3. kept \in SUBSET edges
  BY DEF Used
<1>4. \A i, j \in Nodes(Size) : Weight(kept, i, j) \in Nat
  <2> SUFFICES ASSUME NEW i \in Nodes(Size), NEW j \in Nodes(Size) PROVE Weight(kept, i, j) \in Nat
    OBVIOUS
  <2>1. { e \in kept : e.from = i /\ e.to = j } \in SUBSET edges
    BY <1>3
  <2>2. QED
    BY <1>2, <2>1 DEF Weight
<1> HIDE DEF kept
<1>5. adj \in [Nodes(Size) -> [Nodes(Size) -> Nat]]
  BY <1>4
<1>6. \A i, j \in Nodes(Size) : adj[i][j] = adj[j][i]
  BY <1>4
<1> HIDE DEF adj
<1>7. BuildGraph(edges) = [size |-> Size, adj |-> adj, degree |-> Degrees(Size, adj), total |-> Confidences(kept)]
  BY DEF BuildGraph, kept, adj
<1>8. Degrees(Size, adj) \in [Nodes(Size) -> Nat] /\ Confidences(kept) \in Nat
  BY <1>1, <1>2, <1>3, <1>5, DegreesType
<1>9. QED
  BY <1>5, <1>6, <1>7, <1>8 DEF GraphType

\* No link leads from a member of c to one of d, or back.
Unlinked(g, n, of, c, d) ==
  \A i, j \in Nodes(n) : {of[i], of[j]} = {c, d} => g.adj[i][j] = 0

\* phase2 makes a graph of the communities; two of them are linked only if
\* members of them are.
LEMMA GraphContracted ==
  ASSUME NEW n \in Nat, NEW g, GraphType(g, n), NEW k \in Nat, NEW of \in [Nodes(n) -> Nodes(k)],
         Count(of) = k
  PROVE  /\ GraphType(Contract(g, of), k)
         /\ \A c, d \in Nodes(k) : Unlinked(g, n, of, c, d) => Contract(g, of).adj[c][d] = 0
<1> DEFINE adj == [c \in Nodes(k) |-> [d \in Nodes(k) |-> Between(g, of, c, d)]]
           upper == { p \in Nodes(k) \X Nodes(k) : p[1] <= p[2] }
<1>1. g.size = n /\ \A i, j \in Nodes(n) : g.adj[i][j] \in Nat
  BY DEF GraphType
<1>2. ASSUME NEW c \in Nodes(k), NEW d \in Nodes(k)
      PROVE  /\ Between(g, of, c, d) \in Nat
             /\ Unlinked(g, n, of, c, d) => Between(g, of, c, d) = 0
  <2> DEFINE ends == { p \in Nodes(n) \X Nodes(n) : {of[p[1]], of[p[2]]} = {c, d} }
             f == [p \in ends |-> g.adj[p[1]][p[2]]]
  <2>1. IsFiniteSet(ends)
    <3>1. ends \in SUBSET (Nodes(n) \X Nodes(n))
      OBVIOUS
    <3>2. QED
      BY <3>1, NodesFinite, FS_Subset
  <2>2. DOMAIN f = ends /\ \A p \in ends : f[p] \in Nat
    BY <1>1
  <2>3. Unlinked(g, n, of, c, d) => \A p \in ends : f[p] = 0
    BY DEF Unlinked
  <2>4. Between(g, of, c, d) = SumFunction(f)
    BY <1>1 DEF Between
  <2> HIDE DEF f, ends
  <2>5. QED
    BY <2>1, <2>2, <2>3, <2>4, SumOfFunction
<1>3. adj \in [Nodes(k) -> [Nodes(k) -> Nat]]
  BY <1>2
<1>4. \A c, d \in Nodes(k) : adj[c][d] = Between(g, of, c, d)
  OBVIOUS
<1> HIDE DEF adj
<1>5. SumFunction([p \in upper |-> adj[p[1]][p[2]]]) \in Nat
  <2> DEFINE f == [p \in upper |-> adj[p[1]][p[2]]]
  <2>1. upper \in SUBSET (Nodes(k) \X Nodes(k))
    OBVIOUS
  <2>2. IsFiniteSet(upper)
    BY <2>1, NodesFinite, FS_Subset
  <2>3. DOMAIN f = upper /\ \A p \in upper : f[p] \in Nat
    BY <1>3
  <2> HIDE DEF f, upper
  <2>4. SumFunction(f) \in Nat
    BY <2>2, <2>3, SumOfFunction
  <2>5. QED
    BY <2>4 DEF f
<1>6. [c \in Nodes(k) |-> Degrees(k, adj)[c] + adj[c][c]] \in [Nodes(k) -> Nat]
  BY <1>3, DegreesType
<1>7. Contract(g, of) = [size |-> k, adj |-> adj,
                         degree |-> [c \in Nodes(k) |-> Degrees(k, adj)[c] + adj[c][c]],
                         total |-> SumFunction([p \in upper |-> adj[p[1]][p[2]]])]
  BY DEF Contract, adj
<1> HIDE DEF upper
<1>8. GraphType(Contract(g, of), k) /\ Contract(g, of).adj = adj
  BY <1>3, <1>5, <1>6, <1>7 DEF GraphType
<1>9. QED
  BY <1>2, <1>4, <1>8

\* TypeOK, and what the graph of the store is.
LouvainTypes ==
  /\ TypeOK
  /\ \A i, j \in Nodes(Size) : input.adj[i][j] = input.adj[j][i]

\* A level starts with every node alone in a community of its own number; the
\* first move empties the community of the node that moves, and later moves
\* lead into communities that have members.
LevelInv ==
  /\ ~improved => comm = Alone(graph.size)
  /\ improved => \E empty \in Nodes(graph.size) : \A i \in Nodes(graph.size) : comm[i] # empty

\* The nodes that stand for the symbols of S.
Side(S) == { nodeToSuper[i] : i \in S }

\* What WithinComponent rests on: no node stands for symbols of both sides of a
\* closed set, no link leads from one side to the other, and no community is
\* of both.
SidesInv ==
  \A S \in SUBSET Nodes(Size) : Closed(S) =>
    \A a \in Side(S), b \in Side(Nodes(Size) \ S) :
      a # b /\ graph.adj[a][b] = 0 /\ graph.adj[b][a] = 0 /\ comm[a] # comm[b]

\* Every node is on one of the two sides.
LEMMA OnASide ==
  ASSUME LouvainTypes, NEW S \in SUBSET Nodes(Size)
  PROVE  /\ Side(S) \cup Side(Nodes(Size) \ S) = Nodes(graph.size)
         /\ Side(S) \subseteq Nodes(graph.size)
         /\ Side(Nodes(Size) \ S) \subseteq Nodes(graph.size)
BY DEF LouvainTypes, TypeOK, Side

\* A node only ever moves to the community of a node that it is linked to.
LEMMA ChosenIsNear ==
  ASSUME NEW i \in Nodes(graph.size), NEW c \in Chosen(i)
  PROVE  c = comm[i] \/ \E j \in Nodes(graph.size) : graph.adj[i][j] > 0 /\ c = comm[j]
BY DEF Chosen, Best, Gainful, NeighborCommunities, Neighbors

LEMMA VisitKeeps ==
  ASSUME LouvainTypes, LevelInv, SidesInv, Visit
  PROVE  LouvainTypes' /\ LevelInv' /\ SidesInv'
<1>1. next \in Nodes(graph.size) /\ next + 1 \in 0 .. graph.size /\ graph.size \in Nat
  BY LouvainAssumption DEF LouvainTypes, TypeOK, Visit, Nodes
<1>2. PICK c \in Chosen(next) :
        /\ comm' = [comm EXCEPT ![next] = c]
        /\ improved' = (improved \/ Moves(next, c))
  BY DEF Visit
<1>3. c = comm[next] \/ \E j \in Nodes(graph.size) : graph.adj[next][j] > 0 /\ c = comm[j]
  BY <1>1, <1>2, ChosenIsNear
<1>4. /\ comm \in [Nodes(graph.size) -> Nodes(graph.size)] /\ improved \in BOOLEAN
      /\ graph.adj \in [Nodes(graph.size) -> [Nodes(graph.size) -> Nat]]
  BY DEF LouvainTypes, TypeOK
<1>5. PICK j \in Nodes(graph.size) : c = comm[j] /\ (j = next \/ graph.adj[next][j] > 0)
  BY <1>1, <1>3
<1>6. UNCHANGED <<stored, input, graph, nodeToSuper, level, status>> /\ next' = next + 1
  BY DEF Visit
<1>7. comm' \in [Nodes(graph.size) -> Nodes(graph.size)] /\ improved' \in BOOLEAN
  BY <1>2, <1>4, <1>5 DEF Moves
<1>8. LouvainTypes'
  BY <1>1, <1>6, <1>7 DEF LouvainTypes, TypeOK
<1>9. LevelInv'
  <2>1. ~improved' => comm' = Alone(graph.size)
    BY <1>1, <1>2, <1>4 DEF LevelInv, Moves, Alone
  <2>2. improved' => \E empty \in Nodes(graph.size) : \A i \in Nodes(graph.size) : comm'[i] # empty
    <3>1. CASE improved
      <4>1. PICK empty \in Nodes(graph.size) : \A i \in Nodes(graph.size) : comm[i] # empty
        BY <3>1 DEF LevelInv
      <4>2. c # empty
        BY <1>5, <4>1
      <4>3. \A i \in Nodes(graph.size) : comm'[i] # empty
        BY <1>2, <1>4, <4>1, <4>2
      <4>4. QED
        BY <4>3
    <3>2. CASE ~improved /\ Moves(next, c)
      <4>1. comm = [i \in Nodes(graph.size) |-> i]
        BY <3>2 DEF LevelInv, Alone
      <4>2. c # next
        BY <1>1, <3>2, <4>1 DEF Moves
      <4>3. \A i \in Nodes(graph.size) : comm'[i] # next
        BY <1>1, <1>2, <4>1, <4>2
      <4>4. QED
        BY <1>1, <4>3
    <3>3. QED
      BY <1>2, <3>1, <3>2
  <2>3. QED
    BY <1>6, <2>1, <2>2 DEF LevelInv
<1>10. SidesInv'
  <2> SUFFICES ASSUME NEW S \in SUBSET Nodes(Size), Closed(S),
                      NEW a \in Side(S), NEW b \in Side(Nodes(Size) \ S)
               PROVE  comm'[a] # comm'[b]
    BY <1>6 DEF SidesInv, Closed, Side
  <2>1. Side(S) \cup Side(Nodes(Size) \ S) = Nodes(graph.size)
        /\ a \in Nodes(graph.size) /\ b \in Nodes(graph.size)
    BY OnASide
  <2>2. \A x \in Side(S), y \in Side(Nodes(Size) \ S) :
          x # y /\ graph.adj[x][y] = 0 /\ graph.adj[y][x] = 0 /\ comm[x] # comm[y]
    BY DEF SidesInv
  <2>3. \A i \in Nodes(graph.size) : comm'[i] = IF i = next THEN comm[j] ELSE comm[i]
    BY <1>2, <1>4, <1>5
  <2>4. CASE a = next
    <3>1. j \in Side(S)
      <4>1. CASE j # next
        <5>1. graph.adj[next][j] # 0
          BY <1>5, <4>1
        <5>2. j \notin Side(Nodes(Size) \ S)
          BY <2>2, <2>4, <5>1
        <5>3. QED
          BY <2>1, <5>2
      <4>2. QED
        BY <2>4, <4>1
    <3>2. comm[j] # comm[b] /\ b # next
      BY <2>2, <2>4, <3>1
    <3>3. QED
      BY <2>1, <2>3, <2>4, <3>2
  <2>5. CASE b = next
    <3>1. j \in Side(Nodes(Size) \ S)
      <4>1. CASE j # next
        <5>1. graph.adj[next][j] # 0
          BY <1>5, <4>1
        <5>2. j \notin Side(S)
          BY <2>2, <2>5, <5>1
        <5>3. QED
          BY <2>1, <5>2
      <4>2. QED
        BY <2>5, <4>1
    <3>2. QED
      BY <2>1, <2>2, <2>3, <2>5, <3>1
  <2>6. CASE a # next /\ b # next
    BY <2>1, <2>2, <2>3, <2>6
  <2>7. QED
    BY <2>4, <2>5, <2>6
<1>11. QED
  BY <1>8, <1>9, <1>10

\* phase2 starts a level, on a smaller graph.
LEMMA AggregateKeeps ==
  ASSUME LouvainTypes, LevelInv, SidesInv, Aggregate
  PROVE  LouvainTypes' /\ LevelInv' /\ SidesInv' /\ graph'.size < graph.size
<1> DEFINE n == graph.size
           new == Remap(comm)
           k == Count(new)
<1>1. /\ n \in Nat /\ n <= Size /\ Size \in Nat
      /\ comm \in [Nodes(n) -> Nodes(n)] /\ GraphType(graph, n)
      /\ nodeToSuper \in [Nodes(Size) -> Nodes(n)]
      /\ { nodeToSuper[i] : i \in Nodes(Size) } = Nodes(n)
  BY LouvainAssumption DEF LouvainTypes, TypeOK, GraphType
<1>2. \E empty \in Nodes(n) : \A i \in Nodes(n) : comm[i] # empty
  BY DEF LevelInv, Aggregate
<1>3. /\ graph' = Contract(graph, new) /\ nodeToSuper' = Lift(new) /\ comm' = Alone(k)
      /\ next' = 0 /\ improved' = FALSE
      /\ UNCHANGED <<stored, input, status>>
      /\ level' = IF level < Deep THEN level + 1 ELSE Deep
  BY DEF Aggregate
<1> HIDE DEF n
<1>4. /\ k \in Nat /\ k < n
      /\ new \in [Nodes(n) -> Nodes(k)] /\ { new[i] : i \in Nodes(n) } = Nodes(k)
      /\ \A i, j \in Nodes(n) : new[i] = new[j] <=> comm[i] = comm[j]
  BY <1>1, <1>2, RemapNumbers
<1> HIDE DEF new
<1>5. Count(new) = k
  OBVIOUS
<1> HIDE DEF k
<1>6. /\ GraphType(graph', k)
      /\ \A c, d \in Nodes(k) : Unlinked(graph, n, new, c, d) => graph'.adj[c][d] = 0
  BY <1>1, <1>3, <1>4, <1>5, GraphContracted
<1>7. \A i \in Nodes(Size) : nodeToSuper'[i] = new[nodeToSuper[i]] /\ nodeToSuper[i] \in Nodes(n)
  BY <1>1, <1>3 DEF Lift
<1>8. nodeToSuper' \in [Nodes(Size) -> Nodes(k)] /\ { nodeToSuper'[i] : i \in Nodes(Size) } = Nodes(k)
  <2>1. nodeToSuper' = [i \in Nodes(Size) |-> new[nodeToSuper[i]]]
    BY <1>3 DEF Lift
  <2>2. { new[nodeToSuper[i]] : i \in Nodes(Size) } = { new[m] : m \in Nodes(n) }
    BY <1>1
  <2>3. QED
    BY <1>1, <1>4, <2>1, <2>2
<1>9. comm' \in [Nodes(k) -> Nodes(k)] /\ graph'.size = k
  BY <1>3, <1>6 DEF Alone, GraphType
<1>10. LouvainTypes'
  <2>1. level' \in 1 .. Deep /\ status' \in {"running", "done"}
    BY <1>3 DEF LouvainTypes, TypeOK, Deep
  <2>2. k \in 0 .. Size /\ 0 \in 0 .. k
    BY <1>1, <1>4
  <2>3. \A i, j \in Nodes(Size) : input'.adj[i][j] = input'.adj[j][i]
    BY <1>3 DEF LouvainTypes
  <2>4. QED
    BY <1>3, <1>6, <1>8, <1>9, <2>1, <2>2, <2>3 DEF LouvainTypes, TypeOK, GraphType
<1>11. LevelInv'
  BY <1>3, <1>9 DEF LevelInv
<1>12. SidesInv'
  <2> SUFFICES ASSUME NEW S \in SUBSET Nodes(Size), Closed(S),
                      NEW i \in S, NEW j \in Nodes(Size) \ S
               PROVE  /\ nodeToSuper'[i] # nodeToSuper'[j]
                      /\ graph'.adj[nodeToSuper'[i]][nodeToSuper'[j]] = 0
                      /\ graph'.adj[nodeToSuper'[j]][nodeToSuper'[i]] = 0
                      /\ comm'[nodeToSuper'[i]] # comm'[nodeToSuper'[j]]
    BY <1>3 DEF SidesInv, Closed, Side
  <2> DEFINE c == nodeToSuper'[i]
             d == nodeToSuper'[j]
  <2>1. c \in Nodes(k) /\ d \in Nodes(k)
    BY <1>8
  <2>2. \A a \in Side(S), b \in Side(Nodes(Size) \ S) :
          graph.adj[a][b] = 0 /\ graph.adj[b][a] = 0 /\ comm[a] # comm[b]
    BY DEF SidesInv
  <2>3. nodeToSuper[i] \in Side(S) /\ nodeToSuper[j] \in Side(Nodes(Size) \ S)
    BY DEF Side
  <2>4. c = new[nodeToSuper[i]] /\ d = new[nodeToSuper[j]]
    BY <1>7
  <2>5. c # d
    BY <1>4, <1>7, <2>2, <2>3, <2>4
  <2>6. Side(S) \cup Side(Nodes(Size) \ S) = Nodes(n)
    BY OnASide DEF n
  <2>7. Unlinked(graph, n, new, c, d) /\ Unlinked(graph, n, new, d, c)
    <3> SUFFICES ASSUME NEW a \in Nodes(n), NEW b \in Nodes(n), {new[a], new[b]} = {c, d}
                 PROVE  graph.adj[a][b] = 0
      BY DEF Unlinked
    <3>1. (new[a] = c /\ new[b] = d) \/ (new[a] = d /\ new[b] = c)
      OBVIOUS
    <3>2. \/ comm[a] = comm[nodeToSuper[i]] /\ comm[b] = comm[nodeToSuper[j]]
          \/ comm[a] = comm[nodeToSuper[j]] /\ comm[b] = comm[nodeToSuper[i]]
      BY <1>4, <1>7, <2>4, <3>1
    <3>3. (a \in Side(S) /\ b \in Side(Nodes(Size) \ S)) \/ (b \in Side(S) /\ a \in Side(Nodes(Size) \ S))
      BY <2>2, <2>3, <2>6, <3>2
    <3>4. QED
      BY <2>2, <3>3
  <2> HIDE DEF c, d
  <2>8. graph'.adj[c][d] = 0 /\ graph'.adj[d][c] = 0
    BY <1>6, <2>1, <2>7
  <2>9. comm'[c] # comm'[d]
    BY <1>3, <2>1, <2>5 DEF Alone
  <2>10. QED
    BY <2>5, <2>8, <2>9 DEF c, d
<1>13. QED
  BY <1>4, <1>9, <1>10, <1>11, <1>12 DEF n

LEMMA LouvainStarts ==
  ASSUME TracerInit
  PROVE  LouvainTypes /\ LevelInv /\ SidesInv
<1>1. /\ stored \in Calls /\ input = BuildGraph(stored) /\ graph = input /\ comm = Alone(Size)
      /\ next = 0 /\ improved = FALSE /\ nodeToSuper = Alone(Size) /\ level = 1 /\ status = "running"
  BY DEF TracerInit, Init
<1>2. GraphType(input, Size) /\ \A i, j \in Nodes(Size) : input.adj[i][j] = input.adj[j][i]
  BY <1>1, GraphBuilt
<1>3. Size \in Nat /\ Size \in 0 .. Size /\ 0 \in 0 .. Size /\ 1 \in 1 .. Deep
  BY LouvainAssumption DEF Deep
<1>4. Alone(Size) \in [Nodes(Size) -> Nodes(Size)] /\ { Alone(Size)[i] : i \in Nodes(Size) } = Nodes(Size)
  BY DEF Alone
<1>5. LouvainTypes
  <2>1. graph.size = Size
    BY <1>1, <1>2 DEF GraphType
  <2>2. /\ graph.adj \in [Nodes(Size) -> [Nodes(Size) -> Nat]] /\ graph.degree \in [Nodes(Size) -> Nat]
        /\ graph.total \in Nat
    BY <1>1, <1>2 DEF GraphType
  <2>3. improved \in BOOLEAN /\ level \in 1 .. Deep /\ status \in {"running", "done"} /\ next \in 0 .. Size
    BY <1>1, <1>3
  <2>4. { nodeToSuper[i] : i \in Nodes(Size) } = Nodes(Size)
    BY <1>1, <1>4
  <2>5. comm \in [Nodes(Size) -> Nodes(Size)] /\ nodeToSuper \in [Nodes(Size) -> Nodes(Size)]
    BY <1>1, <1>4
  <2>6. TypeOK
    BY <1>3, <2>1, <2>2, <2>3, <2>4, <2>5 DEF TypeOK
  <2>7. QED
    BY <1>2, <2>6 DEF LouvainTypes
<1>6. LevelInv
  BY <1>1, <1>2 DEF LevelInv, GraphType
<1>7. SidesInv
  <2> SUFFICES ASSUME NEW S \in SUBSET Nodes(Size), Closed(S),
                      NEW i \in S, NEW j \in Nodes(Size) \ S
               PROVE  i # j /\ input.adj[i][j] = 0 /\ input.adj[j][i] = 0
    BY <1>1 DEF SidesInv, Side, Alone
  <2>1. QED
    BY <1>2 DEF Closed
<1>8. QED
  BY <1>5, <1>6, <1>7

\* The tracing leaves the clustering alone.
LEMMA ClusterSteps == [Next]_vars => [Cluster]_louvainVars
BY DEF Next, Trace, StartTrace, Expand, SkipSymbol, Classify, vars, louvainVars

LEMMA LouvainKept ==
  ASSUME LouvainTypes, LevelInv, SidesInv, [Next]_vars
  PROVE  /\ LouvainTypes' /\ LevelInv' /\ SidesInv'
         /\ graph' # graph => graph'.size < graph.size
<1>1. [Cluster]_louvainVars
  BY ClusterSteps
<1>2. CASE Visit
  BY <1>2, VisitKeeps DEF Visit
<1>3. CASE Aggregate
  BY <1>3, AggregateKeeps
<1>4. CASE Finish \/ UNCHANGED louvainVars
  <2>1. UNCHANGED <<stored, input, graph, comm, next, improved, nodeToSuper, level>> /\ status' \in {"running", "done"}
    BY <1>4 DEF Finish, louvainVars, LouvainTypes, TypeOK
  <2>2. LouvainTypes'
    BY <2>1 DEF LouvainTypes, TypeOK
  <2>3. LevelInv'
    BY <2>1 DEF LevelInv
  <2>4. \A S : Side(S)' = Side(S) /\ (Closed(S)' <=> Closed(S))
    BY <2>1 DEF Side, Closed
  <2>5. SidesInv'
    BY <2>1, <2>4 DEF SidesInv
  <2>6. QED
    BY <2>1, <2>2, <2>3, <2>5
<1>5. QED
  BY <1>1, <1>2, <1>3, <1>4 DEF Cluster

LEMMA LouvainInvariant == Spec => [](LouvainTypes /\ LevelInv /\ SidesInv)
<1>1. TracerInit => LouvainTypes /\ LevelInv /\ SidesInv
  BY LouvainStarts
<1>2. LouvainTypes /\ LevelInv /\ SidesInv /\ [Next]_vars => (LouvainTypes /\ LevelInv /\ SidesInv)'
  BY LouvainKept
<1>3. QED
  BY <1>1, <1>2, PTL DEF Spec

\* The graph of every level has its types, and each of its nodes stands for a
\* symbol: no community of the result is empty (louvain.go:99-117).
THEOREM GraphTypes == Spec => []TypeOK
<1>1. LouvainTypes /\ LevelInv /\ SidesInv => TypeOK
  BY DEF LouvainTypes
<1>2. QED
  BY <1>1, LouvainInvariant, PTL

\* Symbols that no calls connect are never put into one community, at any level,
\* for every resolution and choice among equal gains: neither a move of phase1
\* nor the renumbering of phase2 leads across (louvain.go:84-98, 146-210).
THEOREM ClustersAreConnected == Spec => []WithinComponent
<1>1. LouvainTypes /\ LevelInv /\ SidesInv => WithinComponent
  <2> SUFFICES ASSUME SidesInv, NEW S \in SUBSET Nodes(Size), Closed(S), NEW i \in S, NEW j \in Nodes(Size) \ S
               PROVE  Assigned[i] # Assigned[j]
    BY DEF WithinComponent
  <2>1. nodeToSuper[i] \in Side(S) /\ nodeToSuper[j] \in Side(Nodes(Size) \ S)
    BY DEF Side
  <2>2. comm[nodeToSuper[i]] # comm[nodeToSuper[j]]
    BY <2>1 DEF SidesInv
  <2>3. QED
    BY <2>2 DEF Assigned
<1>2. QED
  BY <1>1, LouvainInvariant, PTL

\* Every level of Louvain leaves a smaller graph, for every store, every
\* resolution, and every choice among equal gains: with the number of symbols
\* as a bound, the loop ends (louvain.go:84-98).
THEOREM LouvainEnds == Spec => LevelsShrink
<1>1. LouvainTypes /\ LevelInv /\ SidesInv /\ [Next]_vars
        => [graph' # graph => graph'.size < graph.size]_louvainVars
  BY LouvainKept
<1>2. QED
  BY <1>1, LouvainInvariant, PTL DEF Spec, LevelsShrink
-----------------------------------------------------------------------------
(* Sums over parts, pairs and products.                                    *)

\* Induction over a finite set: a family of sets that has the empty one and, with
\* a part of S, the part with one element more has S itself.
LEMMA PartsFromEmpty ==
  ASSUME NEW S, IsFiniteSet(S), NEW P, {} \in P,
         \A T \in SUBSET S : T \in P => \A x \in S \ T : T \cup {x} \in P
  PROVE  S \in P
<1> DEFINE N == { n \in Nat : \A T \in SUBSET S : Cardinality(T) = n => T \in P }
<1>1. \A T \in SUBSET S : IsFiniteSet(T) /\ Cardinality(T) \in Nat /\ (Cardinality(T) = 0 <=> T = {})
  BY FS_Subset, FS_CardinalityType, FS_EmptySet
<1>2. 0 \in N
  BY <1>1
<1>3. ASSUME NEW n \in Nat, n \in N PROVE n + 1 \in N
  <2> SUFFICES ASSUME NEW T \in SUBSET S, Cardinality(T) = n + 1 PROVE T \in P
    OBVIOUS
  <2>1. PICK x \in T : TRUE
    BY <1>1
  <2>2. Cardinality(T \ {x}) = n
    <3>1. IsFiniteSet(T) /\ x \in T /\ n + 1 - 1 = n
      BY <1>1, <2>1
    <3>2. Cardinality(T \ {x}) = Cardinality(T) - 1
      BY <3>1, FS_RemoveElement
    <3> QED BY <3>1, <3>2
  <2>3. T \ {x} \in P /\ x \in S \ (T \ {x})
    BY <1>3, <2>2
  <2>4. (T \ {x}) \cup {x} = T
    OBVIOUS
  <2> QED BY <2>3, <2>4
<1>4. Nat \subseteq N
  <2> HIDE DEF N
  <2> QED BY <1>2, <1>3, NumbersFromZero
<1> QED BY <1>1, <1>4

\* The recursion of a sum over S gives that over each part of S.
LEMMA SumOfPart ==
  ASSUME NEW f, NEW S, IsFiniteSet(S), NEW T \in SUBSET S
  PROVE  SumFunctionOnSet(f, T) = Sums(f, S)[T]
<1> DEFINE N == { n \in Nat : \A s \in SUBSET T : Cardinality(s) = n => Sums(f, S)[s] = Sums(f, T)[s] }
<1>1. \A s \in SUBSET T : IsFiniteSet(s) /\ Cardinality(s) \in Nat /\ (Cardinality(s) = 0 <=> s = {})
  BY FS_Subset, FS_CardinalityType, FS_EmptySet
<1>2. \A s \in SUBSET T : s # {} => Taken(s) \in s /\ Cardinality(s \ {Taken(s)}) = Cardinality(s) - 1
  BY <1>1, FS_RemoveElement DEF Taken
<1>3. /\ \A s \in SUBSET S : Sums(f, S)[s] = IF s = {} THEN 0 ELSE f[Taken(s)] + Sums(f, S)[s \ {Taken(s)}]
      /\ \A s \in SUBSET T : Sums(f, T)[s] = IF s = {} THEN 0 ELSE f[Taken(s)] + Sums(f, T)[s \ {Taken(s)}]
  <2> DEFINE it == Sums(f, S)
             of == Sums(f, T)
  <2>1. IsSum(it, f, SUBSET S) /\ IsSum(of, f, SUBSET T)
    BY SumsExist, FS_Subset
  <2> HIDE DEF it, of
  <2>2. /\ \A s \in SUBSET S : it[s] = IF s = {} THEN 0 ELSE f[Taken(s)] + it[s \ {Taken(s)}]
        /\ \A s \in SUBSET T : of[s] = IF s = {} THEN 0 ELSE f[Taken(s)] + of[s \ {Taken(s)}]
    BY <2>1 DEF IsSum
  <2> QED BY <2>2 DEF it, of
<1>4. 0 \in N
  BY <1>1, <1>3
<1>5. ASSUME NEW n \in Nat, n \in N PROVE n + 1 \in N
  <2> SUFFICES ASSUME NEW s \in SUBSET T, Cardinality(s) = n + 1 PROVE Sums(f, S)[s] = Sums(f, T)[s]
    OBVIOUS
  <2>1. s # {}
    BY <1>1
  <2>2. s \ {Taken(s)} \in SUBSET T /\ Cardinality(s \ {Taken(s)}) = n
    BY <1>2, <2>1
  <2>3. Sums(f, S)[s \ {Taken(s)}] = Sums(f, T)[s \ {Taken(s)}]
    BY <1>5, <2>2
  <2> QED BY <1>3, <2>1, <2>3
<1>6. Nat \subseteq N
  <2> HIDE DEF N
  <2> QED BY <1>4, <1>5, NumbersFromZero
<1>7. T \in SUBSET T /\ Cardinality(T) \in N
  BY <1>1, <1>6
<1> QED BY <1>7, SumIs

LEMMA SumOfNone == ASSUME NEW f PROVE SumFunctionOnSet(f, {}) = 0
<1>1. IsFiniteSet({}) /\ {} \in SUBSET {}
  BY FS_EmptySet
<1>2. IsSum(Sums(f, {}), f, SUBSET {})
  BY <1>1, SumsExist
<1> DEFINE it == Sums(f, {})
<1> HIDE DEF it
<1>3. it[{}] = 0
  <2>1. IsSum(it, f, SUBSET {})
    BY <1>2 DEF it
  <2> QED BY <1>1, <2>1 DEF IsSum
<1> QED BY <1>3, SumIs DEF it

\* Whichever element is taken, the sum is it and the rest.
LEMMA SumWith ==
  ASSUME NEW f, NEW S, IsFiniteSet(S), \A x \in S : f[x] \in Nat, NEW e \in S
  PROVE  SumFunctionOnSet(f, S) = f[e] + SumFunctionOnSet(f, S \ {e})
<1> DEFINE F(s) == SumFunctionOnSet(f, s)
           N == { n \in Nat : \A s \in SUBSET S : Cardinality(s) = n => \A x \in s : F(s) = f[x] + F(s \ {x}) }
<1>1. \A s \in SUBSET S : IsFiniteSet(s) /\ Cardinality(s) \in Nat /\ (Cardinality(s) = 0 <=> s = {})
  BY FS_Subset, FS_CardinalityType, FS_EmptySet
<1>2. \A s \in SUBSET S : \A x \in s : Cardinality(s \ {x}) = Cardinality(s) - 1
  BY <1>1, FS_RemoveElement
<1>3. \A s \in SUBSET S : F(s) \in Nat
  BY <1>1, SumOfNumbers
<1>4. \A s \in SUBSET S : s # {} => Taken(s) \in s /\ F(s) = f[Taken(s)] + F(s \ {Taken(s)})
  <2> DEFINE it == Sums(f, S)
  <2>1. IsSum(it, f, SUBSET S)
    BY SumsExist
  <2>2. \A s \in SUBSET S : F(s) = it[s]
    BY SumOfPart
  <2> HIDE DEF it, F
  <2>3. \A s \in SUBSET S : it[s] = IF s = {} THEN 0 ELSE f[Taken(s)] + it[s \ {Taken(s)}]
    BY <2>1 DEF IsSum
  <2>4. \A s \in SUBSET S : s # {} => Taken(s) \in s /\ s \ {Taken(s)} \in SUBSET S
    BY DEF Taken
  <2> QED BY <2>2, <2>3, <2>4
<1> HIDE DEF F
<1>5. 0 \in N
  BY <1>1
<1>6. ASSUME NEW n \in Nat, n \in N PROVE n + 1 \in N
  <2> SUFFICES ASSUME NEW s \in SUBSET S, Cardinality(s) = n + 1, NEW x \in s PROVE F(s) = f[x] + F(s \ {x})
    OBVIOUS
  <2> DEFINE t == Taken(s)
  <2>1. t \in s /\ F(s) = f[t] + F(s \ {t})
    BY <1>4
  <2> HIDE DEF t
  <2>2. CASE x # t
    <3>1. Cardinality(s \ {x}) = n /\ Cardinality(s \ {t}) = n
      BY <1>2, <2>1
    <3>2. F(s \ {t}) = f[x] + F((s \ {t}) \ {x}) /\ F(s \ {x}) = f[t] + F((s \ {x}) \ {t})
      BY <1>6, <2>1, <2>2, <3>1
    <3>3. (s \ {t}) \ {x} = (s \ {x}) \ {t} /\ (s \ {x}) \ {t} \in SUBSET S
      OBVIOUS
    <3>4. f[x] \in Nat /\ f[t] \in Nat /\ F((s \ {x}) \ {t}) \in Nat
      BY <1>3, <2>1, <3>3
    <3> QED BY <2>1, <3>2, <3>3, <3>4
  <2> QED BY <2>1, <2>2
<1>7. Nat \subseteq N
  <2> HIDE DEF N
  <2> QED BY <1>5, <1>6, NumbersFromZero
<1>8. S \in SUBSET S /\ Cardinality(S) \in N
  BY <1>1, <1>7
<1> QED BY <1>8 DEF F

\* Two functions that agree have one sum,
LEMMA SumOfSame ==
  ASSUME NEW f, NEW g, NEW S, IsFiniteSet(S), \A x \in S : f[x] \in Nat /\ f[x] = g[x]
  PROVE  SumFunctionOnSet(f, S) = SumFunctionOnSet(g, S)
<1> DEFINE P == { T \in SUBSET S : SumFunctionOnSet(f, T) = SumFunctionOnSet(g, T) }
<1>1. {} \in P
  BY SumOfNone
<1>2. ASSUME NEW T \in SUBSET S, T \in P, NEW x \in S \ T PROVE T \cup {x} \in P
  <2> DEFINE U == T \cup {x}
  <2>1. /\ U \in SUBSET S /\ x \in U /\ U \ {x} = T /\ IsFiniteSet(U) /\ f[x] = g[x]
        /\ \A y \in U : f[y] \in Nat /\ g[y] \in Nat
    BY FS_Subset
  <2> HIDE DEF U
  <2>2. SumFunctionOnSet(f, U) = f[x] + SumFunctionOnSet(f, T) /\ SumFunctionOnSet(g, U) = g[x] + SumFunctionOnSet(g, T)
    BY <2>1, SumWith
  <2>3. SumFunctionOnSet(f, U) = SumFunctionOnSet(g, U)
    BY <1>2, <2>1, <2>2
  <2> QED BY <2>1, <2>3 DEF U
<1>3. S \in P
  <2> HIDE DEF P
  <2> QED BY <1>1, <1>2, PartsFromEmpty
<1> QED BY <1>3

\* the sum of a multiple is the multiple,
LEMMA SumOfMultiple ==
  ASSUME NEW f, NEW g, NEW S, IsFiniteSet(S), NEW k \in Nat, \A x \in S : f[x] \in Nat /\ g[x] = k * f[x]
  PROVE  SumFunctionOnSet(g, S) = k * SumFunctionOnSet(f, S)
<1> DEFINE P == { T \in SUBSET S : SumFunctionOnSet(g, T) = k * SumFunctionOnSet(f, T) }
<1>1. {} \in P
  BY SumOfNone
<1>2. ASSUME NEW T \in SUBSET S, T \in P, NEW x \in S \ T PROVE T \cup {x} \in P
  <2> DEFINE U == T \cup {x}
  <2>1. /\ U \in SUBSET S /\ x \in U /\ U \ {x} = T /\ IsFiniteSet(U) /\ IsFiniteSet(T)
        /\ \A y \in U : f[y] \in Nat /\ g[y] \in Nat
    BY FS_Subset
  <2> HIDE DEF U
  <2>2. SumFunctionOnSet(f, U) = f[x] + SumFunctionOnSet(f, T) /\ SumFunctionOnSet(g, U) = g[x] + SumFunctionOnSet(g, T)
    BY <2>1, SumWith
  <2>3. SumFunctionOnSet(f, T) \in Nat /\ f[x] \in Nat /\ g[x] = k * f[x]
    BY <2>1, SumOfNumbers
  <2>4. \A a, b \in Nat : k * (a + b) = k * a + k * b
    OBVIOUS
  <2>5. SumFunctionOnSet(g, U) = k * SumFunctionOnSet(f, U)
    BY <1>2, <2>2, <2>3, <2>4
  <2> QED BY <2>1, <2>5 DEF U
<1>3. S \in P
  <2> HIDE DEF P
  <2> QED BY <1>1, <1>2, PartsFromEmpty
<1> QED BY <1>3

\* and that of a sum the sum.
LEMMA SumOfBoth ==
  ASSUME NEW f, NEW g, NEW h, NEW S, IsFiniteSet(S),
         \A x \in S : f[x] \in Nat /\ g[x] \in Nat /\ h[x] = f[x] + g[x]
  PROVE  SumFunctionOnSet(h, S) = SumFunctionOnSet(f, S) + SumFunctionOnSet(g, S)
<1> DEFINE P == { T \in SUBSET S : SumFunctionOnSet(h, T) = SumFunctionOnSet(f, T) + SumFunctionOnSet(g, T) }
<1>1. {} \in P
  BY SumOfNone
<1>2. ASSUME NEW T \in SUBSET S, T \in P, NEW x \in S \ T PROVE T \cup {x} \in P
  <2> DEFINE U == T \cup {x}
  <2>1. /\ U \in SUBSET S /\ x \in U /\ U \ {x} = T /\ IsFiniteSet(U) /\ IsFiniteSet(T)
        /\ \A y \in U : f[y] \in Nat /\ g[y] \in Nat /\ h[y] \in Nat
    BY FS_Subset
  <2> HIDE DEF U
  <2>2. /\ SumFunctionOnSet(f, U) = f[x] + SumFunctionOnSet(f, T) /\ SumFunctionOnSet(g, U) = g[x] + SumFunctionOnSet(g, T)
        /\ SumFunctionOnSet(h, U) = h[x] + SumFunctionOnSet(h, T)
    BY <2>1, SumWith
  <2>3. /\ SumFunctionOnSet(f, T) \in Nat /\ SumFunctionOnSet(g, T) \in Nat /\ f[x] \in Nat /\ g[x] \in Nat
        /\ h[x] = f[x] + g[x]
    BY <2>1, SumOfNumbers
  <2>4. SumFunctionOnSet(h, U) = SumFunctionOnSet(f, U) + SumFunctionOnSet(g, U)
    BY <1>2, <2>2, <2>3
  <2> QED BY <2>1, <2>4 DEF U
<1>3. S \in P
  <2> HIDE DEF P
  <2> QED BY <1>1, <1>2, PartsFromEmpty
<1> QED BY <1>3

\* The sum over two sets with nothing in common.
LEMMA SumOfUnion ==
  ASSUME NEW f, NEW A, NEW B, IsFiniteSet(A), IsFiniteSet(B), A \cap B = {}, \A x \in A \cup B : f[x] \in Nat
  PROVE  SumFunctionOnSet(f, A \cup B) = SumFunctionOnSet(f, A) + SumFunctionOnSet(f, B)
<1> DEFINE P == { T \in SUBSET B : SumFunctionOnSet(f, A \cup T) = SumFunctionOnSet(f, A) + SumFunctionOnSet(f, T) }
<1>1. {} \in P
  <2>1. SumFunctionOnSet(f, A) \in Nat /\ A \cup {} = A
    BY SumOfNumbers
  <2> QED BY <2>1, SumOfNone
<1>2. ASSUME NEW T \in SUBSET B, T \in P, NEW x \in B \ T PROVE T \cup {x} \in P
  <2> DEFINE U == T \cup {x}
             V == A \cup U
  <2>1. /\ U \in SUBSET B /\ x \in U /\ U \ {x} = T /\ IsFiniteSet(U) /\ IsFiniteSet(T)
        /\ x \in V /\ V \ {x} = A \cup T
        /\ \A y \in V : f[y] \in Nat
    BY FS_Subset
  <2>6. IsFiniteSet(V)
    BY <2>1, FS_Union
  <2> HIDE DEF U
  <2>2. SumFunctionOnSet(f, U) = f[x] + SumFunctionOnSet(f, T)
    BY <2>1, SumWith
  <2>3. SumFunctionOnSet(f, V) = f[x] + SumFunctionOnSet(f, A \cup T)
    <3> HIDE DEF V
    <3> QED BY <2>1, <2>6, SumWith
  <2>4. SumFunctionOnSet(f, A) \in Nat /\ SumFunctionOnSet(f, T) \in Nat /\ f[x] \in Nat
    BY <2>1, SumOfNumbers
  <2>5. SumFunctionOnSet(f, V) = SumFunctionOnSet(f, A) + SumFunctionOnSet(f, U)
    BY <1>2, <2>2, <2>3, <2>4
  <2> QED BY <2>1, <2>5 DEF U, V
<1>3. B \in P
  <2> HIDE DEF P
  <2> QED BY <1>1, <1>2, PartsFromEmpty
<1> QED BY <1>3

\* The same numbers under other names.
LEMMA SumRenamed ==
  ASSUME NEW f, NEW S, IsFiniteSet(S), NEW b, \A x, y \in S : b[x] = b[y] => x = y,
         NEW g, \A x \in S : g[x] \in Nat /\ g[x] = f[b[x]]
  PROVE  SumFunctionOnSet(f, { b[x] : x \in S }) = SumFunctionOnSet(g, S)
<1> DEFINE im(T) == { b[x] : x \in T }
           P == { T \in SUBSET S : IsFiniteSet(im(T)) /\ SumFunctionOnSet(f, im(T)) = SumFunctionOnSet(g, T) }
<1>1. {} \in P
  <2>1. im({}) = {}
    OBVIOUS
  <2> QED BY <2>1, SumOfNone, FS_EmptySet
<1>2. ASSUME NEW T \in SUBSET S, T \in P, NEW x \in S \ T PROVE T \cup {x} \in P
  <2> DEFINE U == T \cup {x}
  <2>1. /\ U \in SUBSET S /\ x \in U /\ U \ {x} = T /\ IsFiniteSet(U)
        /\ \A y \in U : g[y] \in Nat
    BY FS_Subset
  <2>2. b[x] \in im(U) /\ im(U) \ {b[x]} = im(T) /\ im(U) = im(T) \cup {b[x]} /\ \A z \in im(U) : f[z] \in Nat
    OBVIOUS
  <2>3. IsFiniteSet(im(U))
    <3>1. IsFiniteSet(im(T))
      BY <1>2
    <3>2. IsFiniteSet(im(T) \cup {b[x]})
      <4> HIDE DEF im
      <4> QED BY <3>1, FS_AddElement
    <3> QED BY <2>2, <3>2
  <2> HIDE DEF U, im
  <2>4. SumFunctionOnSet(g, U) = g[x] + SumFunctionOnSet(g, T)
    BY <2>1, SumWith
  <2>5. SumFunctionOnSet(f, im(U)) = f[b[x]] + SumFunctionOnSet(f, im(T))
    BY <2>2, <2>3, SumWith
  <2>6. SumFunctionOnSet(f, im(U)) = SumFunctionOnSet(g, U)
    BY <1>2, <2>4, <2>5
  <2> QED BY <2>1, <2>3, <2>6 DEF U
<1>3. S \in P
  <2> HIDE DEF P
  <2> QED BY <1>1, <1>2, PartsFromEmpty
<1> QED BY <1>3

\* The sum over a union of sets that have nothing in common is that of their sums.
Parts(f, M, Z, g) ==
  /\ \A c \in M : IsFiniteSet(Z[c]) /\ g[c] = SumFunctionOnSet(f, Z[c])
  /\ \A c \in M : \A x \in Z[c] : f[x] \in Nat
  /\ \A c, d \in M : c # d => Z[c] \cap Z[d] = {}

LEMMA SumOfParts ==
  ASSUME NEW f, NEW M, IsFiniteSet(M), NEW Z, NEW g, Parts(f, M, Z, g)
  PROVE  SumFunctionOnSet(f, UNION { Z[c] : c \in M }) = SumFunctionOnSet(g, M)
<1> USE DEF Parts
<1> DEFINE all(T) == UNION { Z[c] : c \in T }
           P == { T \in SUBSET M : IsFiniteSet(all(T)) /\ SumFunctionOnSet(f, all(T)) = SumFunctionOnSet(g, T) }
<1>1. {} \in P
  <2>1. all({}) = {}
    OBVIOUS
  <2> QED BY <2>1, SumOfNone, FS_EmptySet
<1>2. ASSUME NEW T \in SUBSET M, T \in P, NEW x \in M \ T PROVE T \cup {x} \in P
  <2> DEFINE U == T \cup {x}
  <2>1. /\ U \in SUBSET M /\ x \in U /\ U \ {x} = T /\ IsFiniteSet(U)
    BY FS_Subset
  <2>2. \A y \in U : g[y] \in Nat
    BY SumOfNumbers
  <2>3. all(U) = all(T) \cup Z[x] /\ all(T) \cap Z[x] = {} /\ \A z \in all(T) \cup Z[x] : f[z] \in Nat
    OBVIOUS
  <2>4. IsFiniteSet(all(T)) /\ IsFiniteSet(Z[x]) /\ g[x] = SumFunctionOnSet(f, Z[x])
        /\ SumFunctionOnSet(f, all(T)) = SumFunctionOnSet(g, T)
    BY <1>2
  <2> HIDE DEF U, all
  <2>5. SumFunctionOnSet(g, U) = g[x] + SumFunctionOnSet(g, T)
    BY <2>1, <2>2, SumWith
  <2>6. SumFunctionOnSet(f, all(U)) = SumFunctionOnSet(f, all(T)) + SumFunctionOnSet(f, Z[x])
    BY <2>3, <2>4, SumOfUnion
  <2>7. SumFunctionOnSet(f, all(T)) \in Nat /\ g[x] \in Nat
    BY <2>2, <2>1, <2>3, <2>4, SumOfNumbers
  <2>8. IsFiniteSet(all(U))
    <3>1. IsFiniteSet(all(T) \cup Z[x])
      BY <2>4, FS_Union
    <3> QED BY <2>3, <3>1
  <2>9. SumFunctionOnSet(f, all(U)) = SumFunctionOnSet(g, U)
    BY <2>3, <2>4, <2>5, <2>6, <2>7
  <2> QED BY <2>1, <2>8, <2>9 DEF U
<1>3. M \in P
  <2> HIDE DEF P
  <2> QED BY <1>1, <1>2, PartsFromEmpty
<1> QED BY <1>3

Pairs(A, B) == A \X B

\* Sums over pairs: of one row,
IsRow(g, f, i, B) == \A j \in B : g[j] \in Nat /\ g[j] = f[<<i, j>>]

LEMMA SumOfRow ==
  ASSUME NEW f, NEW i, NEW B, IsFiniteSet(B), NEW g, IsRow(g, f, i, B)
  PROVE  SumFunctionOnSet(f, Pairs({i}, B)) = SumFunctionOnSet(g, B)
<1> DEFINE b == [j \in B |-> <<i, j>>]
<1>1. { b[j] : j \in B } = Pairs({i}, B)
  BY DEF Pairs
<1>2. /\ \A x, y \in B : b[x] = b[y] => x = y
      /\ \A x \in B : g[x] \in Nat /\ g[x] = f[b[x]]
  BY DEF IsRow
<1> HIDE DEF b
<1>3. SumFunctionOnSet(f, { b[j] : j \in B }) = SumFunctionOnSet(g, B)
  BY <1>2, SumRenamed
<1> QED BY <1>1, <1>3

\* of all rows,
LEMMA SumOfRows ==
  ASSUME NEW f, NEW A, NEW B, IsFiniteSet(A), IsFiniteSet(B), NEW g,
         \A i \in A : g[i] = SumFunctionOnSet(f, Pairs({i}, B)),
         \A p \in Pairs(A, B) : f[p] \in Nat
  PROVE  SumFunctionOnSet(f, Pairs(A, B)) = SumFunctionOnSet(g, A)
<1> DEFINE Z == [i \in A |-> Pairs({i}, B)]
<1>1. UNION { Z[i] : i \in A } = Pairs(A, B)
  BY DEF Pairs
<1>2. \A i \in A : IsFiniteSet(Z[i])
  <2>1. \A i \in A : IsFiniteSet({i}) /\ IsFiniteSet(Pairs({i}, B))
    BY FS_Singleton, FS_Product DEF Pairs
  <2> QED BY <2>1
<1>3. /\ \A i \in A : g[i] = SumFunctionOnSet(f, Z[i]) /\ \A p \in Z[i] : f[p] \in Nat
      /\ \A i, j \in A : i # j => Z[i] \cap Z[j] = {}
  BY DEF Pairs
<1>4. Parts(f, A, Z, g)
  BY <1>2, <1>3 DEF Parts
<1> HIDE DEF Z
<1>5. SumFunctionOnSet(f, UNION { Z[i] : i \in A }) = SumFunctionOnSet(g, A)
  BY <1>4, SumOfParts
<1> QED BY <1>1, <1>5

\* and the other way round.
LEMMA SumTurned ==
  ASSUME NEW f, NEW A, NEW B, IsFiniteSet(A), IsFiniteSet(B),
         \A p \in Pairs(A, B) : f[p] \in Nat /\ f[<<p[2], p[1]>>] = f[p]
  PROVE  SumFunctionOnSet(f, Pairs(B, A)) = SumFunctionOnSet(f, Pairs(A, B))
<1> USE DEF Pairs
<1> DEFINE b == [p \in Pairs(A, B) |-> <<p[2], p[1]>>]
<1>1. { b[p] : p \in Pairs(A, B) } = Pairs(B, A)
  <2>1. \A p \in Pairs(A, B) : b[p] \in Pairs(B, A)
    OBVIOUS
  <2>2. ASSUME NEW q \in Pairs(B, A) PROVE q \in { b[p] : p \in Pairs(A, B) }
    <3>1. <<q[2], q[1]>> \in Pairs(A, B) /\ b[<<q[2], q[1]>>] = q
      OBVIOUS
    <3> HIDE DEF b
    <3> QED BY <3>1
  <2> QED BY <2>1, <2>2
<1>2. /\ \A x, y \in Pairs(A, B) : b[x] = b[y] => x = y
      /\ \A x \in Pairs(A, B) : f[x] \in Nat /\ f[x] = f[b[x]]
  OBVIOUS
<1>3. IsFiniteSet(Pairs(A, B))
  BY FS_Product
<1> DEFINE S == Pairs(A, B)
<1> HIDE DEF b, S, Pairs
<1>4. SumFunctionOnSet(f, { b[p] : p \in S }) = SumFunctionOnSet(f, S)
  BY <1>2, <1>3, SumRenamed DEF S
<1> QED BY <1>1, <1>4 DEF S

\* A product of sums is the sum of the products.
Products(d, U) == [p \in Pairs(U, U) |-> d[p[1]] * d[p[2]]]

LEMMA SumOfProducts ==
  ASSUME NEW d, NEW U, IsFiniteSet(U), \A i \in U : d[i] \in Nat, NEW A \in SUBSET U, NEW B \in SUBSET U
  PROVE  SumFunctionOnSet(Products(d, U), Pairs(A, B)) = SumFunctionOnSet(d, A) * SumFunctionOnSet(d, B)
<1> DEFINE f == Products(d, U)
           k == SumFunctionOnSet(d, B)
           g == [i \in A |-> k * d[i]]
<1>1. IsFiniteSet(A) /\ IsFiniteSet(B) /\ k \in Nat /\ SumFunctionOnSet(d, A) \in Nat
  <2>1. IsFiniteSet(A) /\ IsFiniteSet(B)
    BY FS_Subset
  <2> QED BY <2>1, SumOfNumbers
<1>2. \A a, b \in Nat : a * b = b * a /\ a * b \in Nat
  OBVIOUS
<1>3. \A i \in A, j \in B : f[<<i, j>>] = d[i] * d[j]
  BY DEF Products, Pairs
<1>4. \A p \in Pairs(A, B) : f[p] \in Nat
  <2>1. \A p \in Pairs(A, B) : f[p] = d[p[1]] * d[p[2]] /\ d[p[1]] \in Nat /\ d[p[2]] \in Nat
    BY DEF Products, Pairs
  <2> QED BY <1>2, <2>1
<1> HIDE DEF f
<1>5. ASSUME NEW i \in A PROVE g[i] = SumFunctionOnSet(f, Pairs({i}, B))
  <2> DEFINE m == d[i]
             row == [j \in B |-> m * d[j]]
  <2>1. IsRow(row, f, i, B)
    BY <1>2, <1>3 DEF IsRow
  <2>2. \A j \in B : d[j] \in Nat /\ row[j] = m * d[j]
    OBVIOUS
  <2>3. m \in Nat /\ g[i] = k * m
    OBVIOUS
  <2> HIDE DEF row, m, g, k
  <2>4. SumFunctionOnSet(f, Pairs({i}, B)) = SumFunctionOnSet(row, B)
    BY <1>1, <2>1, SumOfRow
  <2>5. SumFunctionOnSet(row, B) = m * k
    BY <1>1, <2>2, <2>3, SumOfMultiple DEF k
  <2> QED BY <1>1, <1>2, <2>3, <2>4, <2>5
<1>6. \A i \in A : d[i] \in Nat /\ g[i] = k * d[i]
  OBVIOUS
<1> HIDE DEF g, k
<1>7. SumFunctionOnSet(f, Pairs(A, B)) = SumFunctionOnSet(g, A)
  BY <1>1, <1>4, <1>5, SumOfRows
<1>8. SumFunctionOnSet(g, A) = k * SumFunctionOnSet(d, A)
  BY <1>1, <1>6, SumOfMultiple
<1>9. k * SumFunctionOnSet(d, A) = SumFunctionOnSet(d, A) * k
  BY <1>1, <1>2
<1> QED BY <1>7, <1>8, <1>9 DEF f, k

\* The pairs of one community, and who else is in c when A is left out.
Same(n, of) == { p \in Pairs(Nodes(n), Nodes(n)) : of[p[1]] = of[p[2]] }
Rest(n, of, A, c) == { i \in Nodes(n) \ A : of[i] = c }

\* A weight of pairs that is the same from both sides.
Symmetric(f, n) == \A p \in Pairs(Nodes(n), Nodes(n)) : f[p] \in Nat /\ f[<<p[2], p[1]>>] = f[p]

LEMMA SumOfSides ==
  ASSUME NEW n \in Nat, NEW f, Symmetric(f, n), NEW A \in SUBSET Nodes(n), NEW B \in SUBSET Nodes(n), A \cap B = {},
         NEW K \in SUBSET Pairs(Nodes(n), Nodes(n)), K \cap (Pairs(A, B) \cup Pairs(B, A)) = {}
  PROVE  /\ SumFunctionOnSet(f, K \cup (Pairs(A, B) \cup Pairs(B, A)))
              = SumFunctionOnSet(f, K) + 2 * SumFunctionOnSet(f, Pairs(A, B))
         /\ SumFunctionOnSet(f, K) \in Nat /\ SumFunctionOnSet(f, Pairs(A, B)) \in Nat
<1> DEFINE X == Pairs(A, B)
           Y == Pairs(B, A)
<1>1. IsFiniteSet(A) /\ IsFiniteSet(B) /\ IsFiniteSet(Pairs(Nodes(n), Nodes(n)))
  BY NodesFinite, FS_Subset DEF Pairs
<1>2. X \in SUBSET Pairs(Nodes(n), Nodes(n)) /\ Y \in SUBSET Pairs(Nodes(n), Nodes(n)) /\ X \cap Y = {}
  BY DEF Pairs
<1>3. IsFiniteSet(K) /\ IsFiniteSet(X) /\ IsFiniteSet(Y) /\ IsFiniteSet(X \cup Y)
  <2> HIDE DEF X, Y
  <2>1. X \cup Y \in SUBSET Pairs(Nodes(n), Nodes(n))
    BY <1>2
  <2> QED BY <1>1, <1>2, <2>1, FS_Subset
<1>4. \A p \in K \cup (X \cup Y) : f[p] \in Nat
  <2> HIDE DEF X, Y
  <2> QED BY <1>2 DEF Symmetric
<1>5. SumFunctionOnSet(f, Y) = SumFunctionOnSet(f, X)
  <2>1. \A p \in Pairs(A, B) : f[p] \in Nat /\ f[<<p[2], p[1]>>] = f[p]
    BY <1>2 DEF Symmetric
  <2> QED BY <1>1, <2>1, SumTurned
<1> HIDE DEF X, Y
<1>6. SumFunctionOnSet(f, X \cup Y) = SumFunctionOnSet(f, X) + SumFunctionOnSet(f, Y)
  BY <1>2, <1>3, <1>4, SumOfUnion
<1>7. SumFunctionOnSet(f, K \cup (X \cup Y)) = SumFunctionOnSet(f, K) + SumFunctionOnSet(f, X \cup Y)
  <2>1. K \cap (X \cup Y) = {}
    BY DEF X, Y
  <2> QED BY <1>3, <1>4, <2>1, SumOfUnion
<1>8. SumFunctionOnSet(f, K) \in Nat /\ SumFunctionOnSet(f, X) \in Nat
  BY <1>3, <1>4, SumOfNumbers
<1> QED BY <1>5, <1>6, <1>7, <1>8 DEF X, Y

\* What a move of A from one community to another changes: the pairs of A with
\* the rest of either.
LEMMA SumOfMove ==
  ASSUME NEW n \in Nat, NEW f, Symmetric(f, n), NEW of, NEW to, NEW A \in SUBSET Nodes(n),
         NEW c, NEW d, c # d,
         \A i \in A : of[i] = c /\ to[i] = d,
         \A i \in Nodes(n) \ A : to[i] = of[i]
  PROVE  /\ SumFunctionOnSet(f, Same(n, of)) + 2 * SumFunctionOnSet(f, Pairs(A, Rest(n, of, A, d)))
              = SumFunctionOnSet(f, Same(n, to)) + 2 * SumFunctionOnSet(f, Pairs(A, Rest(n, of, A, c)))
<1> DEFINE K == { p \in Pairs(Nodes(n), Nodes(n)) : of[p[1]] = of[p[2]] /\ to[p[1]] = to[p[2]] }
           B == Rest(n, of, A, c)
           C == Rest(n, of, A, d)
<1>1. B \in SUBSET Nodes(n) /\ C \in SUBSET Nodes(n) /\ A \cap B = {} /\ A \cap C = {}
  BY DEF Rest
<1>2. Same(n, of) = K \cup (Pairs(A, B) \cup Pairs(B, A)) /\ K \cap (Pairs(A, B) \cup Pairs(B, A)) = {}
  BY DEF Same, Pairs, Rest
<1>3. Same(n, to) = K \cup (Pairs(A, C) \cup Pairs(C, A)) /\ K \cap (Pairs(A, C) \cup Pairs(C, A)) = {}
  BY DEF Same, Pairs, Rest
<1>4. K \in SUBSET Pairs(Nodes(n), Nodes(n))
  OBVIOUS
<1> HIDE DEF K, B, C
<1>5. ASSUME NEW D \in {B, C}
      PROVE  /\ SumFunctionOnSet(f, K \cup (Pairs(A, D) \cup Pairs(D, A)))
                  = SumFunctionOnSet(f, K) + 2 * SumFunctionOnSet(f, Pairs(A, D))
             /\ SumFunctionOnSet(f, K) \in Nat /\ SumFunctionOnSet(f, Pairs(A, D)) \in Nat
  <2>1. D \in SUBSET Nodes(n) /\ A \cap D = {} /\ K \cap (Pairs(A, D) \cup Pairs(D, A)) = {}
    BY <1>1, <1>2, <1>3
  <2> QED BY <1>4, <2>1, SumOfSides
<1> QED BY <1>2, <1>3, <1>5 DEF B, C

-----------------------------------------------------------------------------
(* The modularity of the first two levels (Louvain, EarlyLevelsOptimize).  *)

\* SumFunction adds up over the domain.
LEMMA SumOfDomain ==
  ASSUME NEW f, NEW S, IsFiniteSet(S), NEW g, DOMAIN g = S, \A x \in S : g[x] \in Nat /\ g[x] = f[x]
  PROVE  SumFunction(g) = SumFunctionOnSet(f, S)
<1>1. SumFunctionOnSet(g, S) = SumFunctionOnSet(f, S)
  BY SumOfSame
<1> QED BY <1>1 DEF SumFunction

\* The weights of a graph with n nodes, as a function of pairs.
LinkOf(adj, n) == [p \in Pairs(Nodes(n), Nodes(n)) |-> adj[p[1]][p[2]]]

\* What the graph of the store is: a degree is the sum of a row, and all rows
\* together have every edge twice.
Weighed(g, n) ==
  /\ GraphType(g, n)
  /\ \A i, j \in Nodes(n) : g.adj[i][j] = g.adj[j][i]
  /\ \A i \in Nodes(n) : g.degree[i] = SumFunctionOnSet(g.adj[i], Nodes(n))
  /\ 2 * g.total = SumFunctionOnSet(LinkOf(g.adj, n), Pairs(Nodes(n), Nodes(n)))

LEMMA LinkTypes ==
  ASSUME NEW n \in Nat, NEW g, GraphType(g, n)
  PROVE  /\ LinkOf(g.adj, n) \in [Pairs(Nodes(n), Nodes(n)) -> Nat]
         /\ IsFiniteSet(Pairs(Nodes(n), Nodes(n)))
         /\ \A i, j \in Nodes(n) : LinkOf(g.adj, n)[<<i, j>>] = g.adj[i][j] /\ g.adj[i][j] \in Nat
BY NodesFinite DEF GraphType, LinkOf, Pairs

LEMMA StoreWeighed ==
  ASSUME NEW edges \in Calls
  PROVE  Weighed(BuildGraph(edges), Size)
<1> DEFINE g == BuildGraph(edges)
           N == Nodes(Size)
           kept == Used(edges)
           conf == [e \in edges |-> e.confidence]
           out == [p \in Pairs(N, N) |-> Weight(kept, p[1], p[2])]
           in == [p \in Pairs(N, N) |-> Weight(kept, p[2], p[1])]
           link == LinkOf(g.adj, Size)
           Z == [p \in Pairs(N, N) |-> { e \in kept : e.from = p[1] /\ e.to = p[2] }]
           turn == [p \in Pairs(N, N) |-> <<p[2], p[1]>>]
<1>1. Size \in Nat /\ IsFiniteSet(edges) /\ \A e \in edges : conf[e] \in Nat
  BY LouvainAssumption
<1>2. GraphType(g, Size) /\ \A i, j \in N : g.adj[i][j] = g.adj[j][i]
  BY GraphBuilt
<1>3. ASSUME NEW some \in SUBSET edges
      PROVE  Confidences(some) = SumFunctionOnSet(conf, some) /\ Confidences(some) \in Nat /\ IsFiniteSet(some)
  <2> DEFINE h == [e \in some |-> e.confidence]
  <2>1. IsFiniteSet(some)
    BY <1>1, FS_Subset
  <2>2. DOMAIN h = some /\ \A e \in some : h[e] \in Nat /\ h[e] = conf[e] /\ conf[e] \in Nat
    BY <1>1
  <2>3. Confidences(some) = SumFunction(h)
    BY DEF Confidences
  <2> HIDE DEF h, conf
  <2>4. SumFunction(h) = SumFunctionOnSet(conf, some)
    BY <2>1, <2>2, SumOfDomain
  <2>5. SumFunctionOnSet(conf, some) \in Nat
    BY <2>1, <2>2, SumOfNumbers
  <2> QED BY <2>1, <2>3, <2>4, <2>5
<1>4. kept \in SUBSET edges /\ \A e \in kept : e.from \in N /\ e.to \in N
  BY DEF Used
<1>5. IsFiniteSet(N) /\ IsFiniteSet(Pairs(N, N))
  BY <1>1, NodesFinite DEF Pairs
<1>6. \A i, j \in N : /\ { e \in kept : e.from = i /\ e.to = j } \in SUBSET edges
                      /\ Weight(kept, i, j) = Confidences({ e \in kept : e.from = i /\ e.to = j })
  BY <1>4 DEF Weight
<1>7. \A i, j \in N : Weight(kept, i, j) \in Nat
  BY <1>3, <1>6
<1> HIDE DEF kept
<1>8. g.adj = [i \in N |-> [j \in N |-> Weight(kept, i, j) + Weight(kept, j, i)]]
      /\ g.degree = Degrees(Size, g.adj) /\ g.total = Confidences(kept)
  BY DEF BuildGraph, kept
<1> HIDE DEF g
\* The edges from one node to another, for all of them, are all edges.
<1>9. SumFunctionOnSet(out, Pairs(N, N)) = Confidences(kept)
  <2>1. UNION { Z[p] : p \in Pairs(N, N) } = kept
    <3>1. \A e \in kept : <<e.from, e.to>> \in Pairs(N, N) /\ e \in Z[<<e.from, e.to>>]
      BY <1>4 DEF Pairs
    <3>2. \A p \in Pairs(N, N) : Z[p] \subseteq kept
      OBVIOUS
    <3> HIDE DEF Z
    <3> QED BY <3>1, <3>2
  <2>2. \A p \in Pairs(N, N) : Z[p] \in SUBSET edges /\ out[p] = Confidences(Z[p])
    BY <1>4, <1>6 DEF Pairs
  <2>3. \A p, q \in Pairs(N, N) : p # q => Z[p] \cap Z[q] = {}
    BY DEF Pairs
  <2> HIDE DEF Z, out, conf
  <2>4. Parts(conf, Pairs(N, N), Z, out)
    BY <1>1, <1>3, <2>2, <2>3 DEF Parts
  <2>5. SumFunctionOnSet(conf, kept) = SumFunctionOnSet(out, Pairs(N, N))
    BY <1>5, <2>1, <2>4, SumOfParts
  <2> QED BY <1>3, <1>4, <2>5
<1>10. SumFunctionOnSet(in, Pairs(N, N)) = SumFunctionOnSet(out, Pairs(N, N))
  <2>1. { turn[p] : p \in Pairs(N, N) } = Pairs(N, N)
    <3>1. \A p \in Pairs(N, N) : turn[p] \in Pairs(N, N) /\ turn[turn[p]] = p
      BY DEF Pairs
    <3> HIDE DEF turn
    <3> QED BY <3>1
  <2>2. /\ \A p, q \in Pairs(N, N) : turn[p] = turn[q] => p = q
        /\ \A p \in Pairs(N, N) : in[p] \in Nat /\ in[p] = out[turn[p]]
    BY <1>7 DEF Pairs
  <2> HIDE DEF turn, in, out
  <2>3. SumFunctionOnSet(out, { turn[p] : p \in Pairs(N, N) }) = SumFunctionOnSet(in, Pairs(N, N))
    BY <1>5, <2>2, SumRenamed
  <2> QED BY <2>1, <2>3
<1>11. 2 * g.total = SumFunctionOnSet(link, Pairs(N, N))
  <2>1. \A p \in Pairs(N, N) : out[p] \in Nat /\ in[p] \in Nat /\ link[p] = out[p] + in[p]
    BY <1>7, <1>8 DEF Pairs, LinkOf
  <2> HIDE DEF out, in, link
  <2>2. SumFunctionOnSet(link, Pairs(N, N)) = SumFunctionOnSet(out, Pairs(N, N)) + SumFunctionOnSet(in, Pairs(N, N))
    BY <1>5, <2>1, SumOfBoth
  <2>3. Confidences(kept) \in Nat
    BY <1>3, <1>4
  <2> QED BY <1>8, <1>9, <1>10, <2>2, <2>3
<1>12. \A i \in N : g.degree[i] = SumFunctionOnSet(g.adj[i], N)
  <2>1. \A i \in N : g.degree[i] = SumFunction(g.adj[i]) /\ DOMAIN g.adj[i] = N
    BY <1>8 DEF Degrees
  <2> QED BY <2>1 DEF SumFunction
<1> QED BY <1>2, <1>11, <1>12 DEF Weighed, g

\* The weight between two sets of nodes.
Across(g, n, A, B) == SumFunctionOnSet(LinkOf(g.adj, n), Pairs(A, B))

LEMMA AcrossTypes ==
  ASSUME NEW n \in Nat, NEW g, Weighed(g, n)
  PROVE  /\ Symmetric(LinkOf(g.adj, n), n)
         /\ \A A, B \in SUBSET Nodes(n) : Across(g, n, A, B) \in Nat
<1>1. GraphType(g, n) /\ \A i, j \in Nodes(n) : g.adj[i][j] = g.adj[j][i]
  BY DEF Weighed
<1>2. Symmetric(LinkOf(g.adj, n), n)
  BY <1>1, LinkTypes DEF Symmetric, Pairs, GraphType, LinkOf
<1>3. ASSUME NEW A \in SUBSET Nodes(n), NEW B \in SUBSET Nodes(n) PROVE Across(g, n, A, B) \in Nat
  <2>1. Pairs(A, B) \in SUBSET Pairs(Nodes(n), Nodes(n))
    BY DEF Pairs
  <2>2. IsFiniteSet(Pairs(A, B)) /\ \A p \in Pairs(A, B) : LinkOf(g.adj, n)[p] \in Nat
    BY <1>1, <1>2, <2>1, LinkTypes, FS_Subset DEF Symmetric
  <2> QED BY <2>2, SumOfNumbers DEF Across
<1> QED BY <1>2, <1>3

\* The degrees of the nodes of A add up to the weight between A and all.
LEMMA DegreesAcross ==
  ASSUME NEW n \in Nat, NEW g, Weighed(g, n), NEW A \in SUBSET Nodes(n)
  PROVE  SumFunctionOnSet(g.degree, A) = Across(g, n, A, Nodes(n))
<1> DEFINE N == Nodes(n)
           link == LinkOf(g.adj, n)
           degree == g.degree
<1>1. /\ IsFiniteSet(N) /\ IsFiniteSet(A)
      /\ GraphType(g, n) /\ \A i \in N : degree[i] = SumFunctionOnSet(g.adj[i], N)
  BY NodesFinite, FS_Subset DEF Weighed
<1>2. \A p \in Pairs(A, N) : link[p] \in Nat
  <2>1. Pairs(A, N) \subseteq Pairs(N, N)
    BY DEF Pairs
  <2>2. link \in [Pairs(N, N) -> Nat]
    BY <1>1, LinkTypes
  <2> HIDE DEF link, N
  <2> QED BY <2>1, <2>2
<1>3. ASSUME NEW i \in A PROVE degree[i] = SumFunctionOnSet(link, Pairs({i}, N))
  <2> DEFINE row == g.adj[i]
  <2>1. IsRow(row, link, i, N)
    BY <1>1, LinkTypes DEF IsRow
  <2> HIDE DEF row, link
  <2>2. SumFunctionOnSet(link, Pairs({i}, N)) = SumFunctionOnSet(row, N)
    BY <1>1, <2>1, SumOfRow
  <2> QED BY <1>1, <2>2 DEF row
<1> HIDE DEF link, N, degree
<1>4. SumFunctionOnSet(link, Pairs(A, N)) = SumFunctionOnSet(degree, A)
  BY <1>1, <1>2, <1>3, SumOfRows
<1> QED BY <1>4 DEF Across, link, N, degree

\* Every number but one is zero.
LEMMA SumOfOne ==
  ASSUME NEW f, NEW S, IsFiniteSet(S), NEW c \in S, f[c] \in Nat, \A d \in S \ {c} : f[d] = 0
  PROVE  SumFunctionOnSet(f, S) = f[c]
<1>1. \A d \in S : f[d] \in Nat
  OBVIOUS
<1>2. SumFunctionOnSet(f, S) = f[c] + SumFunctionOnSet(f, S \ {c})
  BY <1>1, SumWith
<1>3. IsFiniteSet(S \ {c}) /\ \A d \in S \ {c} : f[d] \in Nat
  BY FS_Subset
<1>4. SumFunctionOnSet(f, S \ {c}) = 0
  BY <1>3, SumOfNumbers
<1> QED BY <1>2, <1>4

\* The weight between A and each of some sets.
LEMMA AcrossParts ==
  ASSUME NEW n \in Nat, NEW g, Weighed(g, n), NEW A \in SUBSET Nodes(n),
         NEW M, IsFiniteSet(M), NEW S, \A c \in M : S[c] \in SUBSET Nodes(n),
         \A c, d \in M : c # d => S[c] \cap S[d] = {},
         NEW w, \A c \in M : w[c] = Across(g, n, A, S[c])
  PROVE  SumFunctionOnSet(w, M) = Across(g, n, A, UNION { S[c] : c \in M })
<1> DEFINE link == LinkOf(g.adj, n)
           Z == [c \in M |-> Pairs(A, S[c])]
<1>1. UNION { Z[c] : c \in M } = Pairs(A, UNION { S[c] : c \in M })
  BY DEF Pairs
<1>2. \A c \in M : Z[c] \in SUBSET Pairs(Nodes(n), Nodes(n)) /\ w[c] = SumFunctionOnSet(link, Z[c])
  BY DEF Across, Pairs
<1>3. \A c, d \in M : c # d => Z[c] \cap Z[d] = {}
  BY DEF Pairs
<1>4. IsFiniteSet(Pairs(Nodes(n), Nodes(n))) /\ \A p \in Pairs(Nodes(n), Nodes(n)) : link[p] \in Nat
  BY LinkTypes DEF Weighed
<1> HIDE DEF link, Z
<1>5. Parts(link, M, Z, w)
  BY <1>2, <1>3, <1>4, FS_Subset DEF Parts
<1>6. SumFunctionOnSet(link, UNION { Z[c] : c \in M }) = SumFunctionOnSet(w, M)
  BY <1>5, SumOfParts
<1> QED BY <1>1, <1>6 DEF Across, link

\* The pairs of nodes between two communities, both ways.
Toward(n, of, c, d) == { p \in Pairs(Nodes(n), Nodes(n)) : {of[p[1]], of[p[2]]} = {c, d} }

\* Two communities are linked by twice the weight between them, one with
\* itself by the weight within it.
LEMMA BetweenIs ==
  ASSUME NEW n \in Nat, NEW g, Weighed(g, n), NEW k \in Nat, NEW of \in [Nodes(n) -> Nodes(k)],
         NEW c \in Nodes(k), NEW d \in Nodes(k)
  PROVE  /\ Between(g, of, c, d) = SumFunctionOnSet(LinkOf(g.adj, n), Toward(n, of, c, d))
         /\ Between(g, of, c, d) \in Nat
         /\ c # d => Between(g, of, c, d) = 2 * Across(g, n, Members(c, of), Members(d, of))
         /\ Between(g, of, c, c) = Across(g, n, Members(c, of), Members(c, of))
<1> DEFINE link == LinkOf(g.adj, n)
           A == Members(c, of)
           B == Members(d, of)
<1>1. g.size = n /\ GraphType(g, n)
  BY DEF Weighed, GraphType
<1>2. /\ IsFiniteSet(Pairs(Nodes(n), Nodes(n))) /\ \A p \in Pairs(Nodes(n), Nodes(n)) : link[p] \in Nat
      /\ Symmetric(link, n)
  BY <1>1, LinkTypes, AcrossTypes
<1>3. ASSUME NEW e \in Nodes(k)
      PROVE  /\ Between(g, of, c, e) = SumFunctionOnSet(link, Toward(n, of, c, e))
             /\ Between(g, of, c, e) \in Nat
  <2> DEFINE ends == Toward(n, of, c, e)
             f == [p \in ends |-> g.adj[p[1]][p[2]]]
  <2>1. ends \in SUBSET Pairs(Nodes(n), Nodes(n)) /\ ends = { p \in Nodes(n) \X Nodes(n) : {of[p[1]], of[p[2]]} = {c, e} }
    BY DEF Toward, Pairs
  <2>2. Between(g, of, c, e) = SumFunction(f)
    BY <1>1, <2>1 DEF Between
  <2>3. IsFiniteSet(ends)
    BY <1>2, <2>1, FS_Subset
  <2>4. DOMAIN f = ends /\ \A p \in ends : f[p] = link[p]
    BY <2>1 DEF LinkOf
  <2>5. \A p \in ends : f[p] \in Nat /\ f[p] = link[p] /\ link[p] \in Nat
    BY <1>2, <2>1, <2>4
  <2> HIDE DEF f, ends, link
  <2>6. SumFunction(f) = SumFunctionOnSet(link, ends)
    BY <2>3, <2>4, <2>5, SumOfDomain
  <2>7. SumFunctionOnSet(link, ends) \in Nat
    BY <2>3, <2>5, SumOfNumbers
  <2> QED BY <2>2, <2>6, <2>7 DEF ends
<1>4. A \in SUBSET Nodes(n) /\ B \in SUBSET Nodes(n) /\ (c # d => A \cap B = {})
  BY DEF Members
<1>5. Toward(n, of, c, c) = Pairs(A, A)
  BY DEF Toward, Pairs, Members
<1>6. ASSUME c # d PROVE Toward(n, of, c, d) = {} \cup (Pairs(A, B) \cup Pairs(B, A))
  <2>1. \A p \in Pairs(Nodes(n), Nodes(n)) :
          {of[p[1]], of[p[2]]} = {c, d} <=> (of[p[1]] = c /\ of[p[2]] = d) \/ (of[p[1]] = d /\ of[p[2]] = c)
    OBVIOUS
  <2>2. \A p \in Pairs(Nodes(n), Nodes(n)) :
          /\ (of[p[1]] = c /\ of[p[2]] = d) <=> p \in Pairs(A, B)
          /\ (of[p[1]] = d /\ of[p[2]] = c) <=> p \in Pairs(B, A)
    BY DEF Pairs, Members
  <2>3. Pairs(A, B) \subseteq Pairs(Nodes(n), Nodes(n)) /\ Pairs(B, A) \subseteq Pairs(Nodes(n), Nodes(n))
    BY DEF Pairs, Members
  <2> HIDE DEF A, B
  <2> QED BY <2>1, <2>2, <2>3 DEF Toward
<1>7. SumFunctionOnSet(link, {}) = 0
  BY SumOfNone
<1> HIDE DEF link, A, B
<1>8. ASSUME c # d PROVE Between(g, of, c, d) = 2 * SumFunctionOnSet(link, Pairs(A, B))
  <2>1. A \cap B = {} /\ {} \in SUBSET Pairs(Nodes(n), Nodes(n)) /\ {} \cap (Pairs(A, B) \cup Pairs(B, A)) = {}
    BY <1>4, <1>8
  <2>2. /\ SumFunctionOnSet(link, {} \cup (Pairs(A, B) \cup Pairs(B, A)))
             = SumFunctionOnSet(link, {}) + 2 * SumFunctionOnSet(link, Pairs(A, B))
        /\ SumFunctionOnSet(link, Pairs(A, B)) \in Nat
    BY <1>2, <1>4, <2>1, SumOfSides
  <2>3. Between(g, of, c, d) = SumFunctionOnSet(link, {} \cup (Pairs(A, B) \cup Pairs(B, A)))
    <3>1. Between(g, of, c, d) = SumFunctionOnSet(link, Toward(n, of, c, d))
      BY <1>3
    <3> QED BY <1>6, <1>8, <3>1
  <2> QED BY <1>7, <2>2, <2>3
<1> QED BY <1>3, <1>5, <1>8 DEF Across, link, A, B

\* phase2 doubles the total, the degrees and the weights between communities
\* (louvain.go, phase2): the graph of the communities is that of the nodes, but
\* for its self-loops.
LEMMA ContractScales ==
  ASSUME NEW n \in Nat, NEW g, Weighed(g, n), NEW k \in Nat, NEW of \in [Nodes(n) -> Nodes(k)],
         Count(of) = k
  PROVE  /\ Contract(g, of).total = 2 * g.total
         /\ \A c \in Nodes(k) : Contract(g, of).degree[c] = 2 * SumFunctionOnSet(g.degree, Members(c, of))
         /\ \A c, d \in Nodes(k) : c # d =>
              Contract(g, of).adj[c][d] = 2 * Across(g, n, Members(c, of), Members(d, of))
<1> DEFINE N == Nodes(n)
           link == LinkOf(g.adj, n)
           adj == [c \in Nodes(k) |-> [d \in Nodes(k) |-> Between(g, of, c, d)]]
           upper == { p \in Nodes(k) \X Nodes(k) : p[1] <= p[2] }
           f == [p \in upper |-> adj[p[1]][p[2]]]
           Z == [p \in upper |-> Toward(n, of, p[1], p[2])]
<1>1. /\ Contract(g, of).adj = adj /\ Contract(g, of).total = SumFunction(f)
      /\ \A c \in Nodes(k) : Contract(g, of).degree[c] = Degrees(k, adj)[c] + adj[c][c]
  BY DEF Contract
<1>2. GraphType(g, n) /\ IsFiniteSet(Pairs(N, N)) /\ \A p \in Pairs(N, N) : link[p] \in Nat
  BY LinkTypes, AcrossTypes DEF Weighed, Symmetric
<1>3. \A c, d \in Nodes(k) :
        /\ adj[c][d] = SumFunctionOnSet(link, Toward(n, of, c, d))
        /\ adj[c][d] \in Nat
        /\ c # d => adj[c][d] = 2 * Across(g, n, Members(c, of), Members(d, of))
        /\ adj[c][c] = Across(g, n, Members(c, of), Members(c, of))
  BY BetweenIs
<1>4. IsFiniteSet(Nodes(k)) /\ Nodes(k) \subseteq Nat
  BY NodesFinite
<1>5. SumFunction(f) = 2 * g.total
  <2>1. UNION { Z[p] : p \in upper } = Pairs(N, N)
    <3>1. ASSUME NEW p \in Pairs(N, N) PROVE \E q \in upper : p \in Z[q]
      <4>1. of[p[1]] \in Nodes(k) /\ of[p[2]] \in Nodes(k)
        BY DEF Pairs
      <4>2. CASE of[p[1]] <= of[p[2]]
        <5>1. <<of[p[1]], of[p[2]]>> \in upper
          BY <4>1, <4>2
        <5> QED BY <5>1 DEF Toward
      <4>3. CASE of[p[2]] <= of[p[1]]
        <5>1. <<of[p[2]], of[p[1]]>> \in upper
          BY <4>1, <4>3
        <5> QED BY <5>1 DEF Toward
      <4> QED BY <1>4, <4>1, <4>2, <4>3
    <3>2. \A q \in upper : Z[q] \subseteq Pairs(N, N)
      BY DEF Toward
    <3> HIDE DEF Z, upper
    <3> QED BY <3>1, <3>2
  <2>2. \A p, q \in upper : p # q => Z[p] \cap Z[q] = {}
    <3> SUFFICES ASSUME NEW p \in upper, NEW q \in upper, NEW x \in Z[p], x \in Z[q] PROVE p = q
      OBVIOUS
    <3>1. {p[1], p[2]} = {q[1], q[2]}
      BY DEF Toward
    <3>2. p[1] \in Nat /\ p[2] \in Nat /\ q[1] \in Nat /\ q[2] \in Nat /\ p[1] <= p[2] /\ q[1] <= q[2]
      BY <1>4
    <3>3. p[1] = q[1] /\ p[2] = q[2]
      BY <3>1, <3>2
    <3> QED BY <3>3
  <2>3. \A p \in upper : /\ Z[p] \in SUBSET Pairs(N, N) /\ f[p] = SumFunctionOnSet(link, Z[p])
                         /\ f[p] \in Nat
    <3> SUFFICES ASSUME NEW p \in upper
                 PROVE  Z[p] \in SUBSET Pairs(N, N) /\ f[p] = SumFunctionOnSet(link, Z[p]) /\ f[p] \in Nat
      OBVIOUS
    <3>1. p[1] \in Nodes(k) /\ p[2] \in Nodes(k)
      OBVIOUS
    <3>2. Z[p] = Toward(n, of, p[1], p[2]) /\ f[p] = adj[p[1]][p[2]]
      <4> HIDE DEF adj, upper
      <4> QED OBVIOUS
    <3>3. Z[p] \in SUBSET Pairs(N, N)
      BY <3>2 DEF Toward
    <3> HIDE DEF Z, f, adj, link, upper, N
    <3> QED BY <1>3, <3>1, <3>2, <3>3
  <2>4. IsFiniteSet(upper) /\ DOMAIN f = upper
    <3>1. upper \in SUBSET (Nodes(k) \X Nodes(k))
      OBVIOUS
    <3> QED BY <3>1, NodesFinite, FS_Subset
  <2> HIDE DEF Z, f, upper, link, N
  <2>5. Parts(link, upper, Z, f)
    BY <1>2, <2>2, <2>3, FS_Subset DEF Parts
  <2>6. SumFunctionOnSet(link, UNION { Z[p] : p \in upper }) = SumFunctionOnSet(f, upper)
    BY <2>4, <2>5, SumOfParts
  <2>7. SumFunction(f) = SumFunctionOnSet(f, upper)
    BY <2>4 DEF SumFunction
  <2>8. 2 * g.total = SumFunctionOnSet(link, Pairs(N, N))
    BY DEF Weighed, link, N
  <2> QED BY <2>1, <2>6, <2>7, <2>8
<1>6. ASSUME NEW c \in Nodes(k)
      PROVE  Degrees(k, adj)[c] + adj[c][c] = 2 * SumFunctionOnSet(g.degree, Members(c, of))
  <2> DEFINE A == Members(c, of)
             S == [d \in Nodes(k) |-> Members(d, of)]
             w == [d \in Nodes(k) |-> Across(g, n, A, S[d])]
             extra == [d \in Nodes(k) |-> IF d = c THEN adj[c][c] ELSE 0]
             row == adj[c]
             twice == [d \in Nodes(k) |-> 2 * w[d]]
  <2>1. Degrees(k, adj)[c] = SumFunction(adj[c]) /\ DOMAIN row = Nodes(k)
    BY DEF Degrees
  <2>2. Degrees(k, adj)[c] = SumFunctionOnSet(row, Nodes(k))
    BY <2>1 DEF SumFunction
  <2>3. /\ A \in SUBSET N /\ UNION { S[d] : d \in Nodes(k) } = N
        /\ \A d \in Nodes(k) : S[d] \in SUBSET N
        /\ \A d, e \in Nodes(k) : d # e => S[d] \cap S[e] = {}
    BY DEF Members
  <2>4. \A d \in Nodes(k) : w[d] = Across(g, n, A, S[d]) /\ w[d] \in Nat
    BY <2>3, AcrossTypes
  <2>5. \A d \in Nodes(k) : /\ row[d] \in Nat /\ extra[d] \in Nat /\ twice[d] = row[d] + extra[d]
                            /\ twice[d] = 2 * w[d]
    BY <1>3, <2>4
  <2>6. extra[c] = adj[c][c] /\ extra[c] \in Nat /\ \A d \in Nodes(k) \ {c} : extra[d] = 0
    BY <1>3
  <2> HIDE DEF S, w, extra, row, twice, A
  <2>7. SumFunctionOnSet(twice, Nodes(k)) = SumFunctionOnSet(row, Nodes(k)) + SumFunctionOnSet(extra, Nodes(k))
    BY <1>4, <2>5, SumOfBoth
  <2>8. SumFunctionOnSet(twice, Nodes(k)) = 2 * SumFunctionOnSet(w, Nodes(k))
    BY <1>4, <2>4, <2>5, SumOfMultiple
  <2>9. SumFunctionOnSet(extra, Nodes(k)) = extra[c]
    BY <1>4, <2>6, SumOfOne
  <2>10. SumFunctionOnSet(w, Nodes(k)) = Across(g, n, A, N)
    <3>1. SumFunctionOnSet(w, Nodes(k)) = Across(g, n, A, UNION { S[d] : d \in Nodes(k) })
      BY <1>4, <2>3, <2>4, AcrossParts
    <3> QED BY <2>3, <3>1
  <2>11. SumFunctionOnSet(g.degree, A) = Across(g, n, A, N)
    BY <2>3, DegreesAcross
  <2>12. 2 * SumFunctionOnSet(g.degree, A) = Degrees(k, adj)[c] + adj[c][c]
    BY <2>2, <2>6, <2>7, <2>8, <2>9, <2>10, <2>11
  <2> QED BY <2>12 DEF A
<1> HIDE DEF adj, f
<1> QED BY <1>1, <1>3, <1>5, <1>6

LEMMA SumOfSingle ==
  ASSUME NEW f, NEW x, f[x] \in Nat
  PROVE  SumFunctionOnSet(f, {x}) = f[x]
<1> DEFINE S == {x}
<1>1. IsFiniteSet(S) /\ x \in S /\ \A y \in S \ {x} : f[y] = 0
  BY FS_Singleton
<1> HIDE DEF S
<1>2. SumFunctionOnSet(f, S) = f[x]
  BY <1>1, SumOfOne
<1> QED BY <1>2 DEF S

\* What the graph of the store is, which is that of the first level.
StoreInv ==
  /\ Weighed(input, Size)
  /\ level = 1 => graph = input /\ nodeToSuper = Alone(Size)

\* In the first two levels the graph is that of the store, its weights
\* multiplied by the number of the level: a node has the degree of the symbols
\* that it stands for, and two nodes the weight between those.
ScaleInv ==
  level < Deep =>
    /\ graph.total = level * input.total
    /\ \A a \in Nodes(graph.size) :
         graph.degree[a] = level * SumFunctionOnSet(input.degree, Members(a, nodeToSuper))
    /\ \A a, b \in Nodes(graph.size) : a # b =>
         graph.adj[a][b] = level * Across(input, Size, Members(a, nodeToSuper), Members(b, nodeToSuper))

LEMMA ScalesStart ==
  ASSUME TracerInit
  PROVE  StoreInv /\ ScaleInv
<1>1. /\ stored \in Calls /\ input = BuildGraph(stored) /\ graph = input
      /\ nodeToSuper = Alone(Size) /\ level = 1
  BY DEF TracerInit, Init
<1>2. Weighed(input, Size) /\ Size \in Nat
  BY <1>1, StoreWeighed, LouvainAssumption
<1>3. GraphType(input, Size) /\ graph.size = Size
  BY <1>1, <1>2 DEF Weighed, GraphType
<1>4. \A a \in Nodes(Size) : Members(a, nodeToSuper) = {a}
  BY <1>1 DEF Members, Alone
<1>5. ASSUME NEW a \in Nodes(Size) PROVE SumFunctionOnSet(input.degree, {a}) = input.degree[a] /\ input.degree[a] \in Nat
  <2>1. input.degree[a] \in Nat
    BY <1>3 DEF GraphType
  <2> QED BY <2>1, SumOfSingle
<1>6. ASSUME NEW a \in Nodes(Size), NEW b \in Nodes(Size)
      PROVE  Across(input, Size, {a}, {b}) = input.adj[a][b] /\ input.adj[a][b] \in Nat
  <2>1. LinkOf(input.adj, Size)[<<a, b>>] = input.adj[a][b] /\ input.adj[a][b] \in Nat
    BY <1>2, <1>3, LinkTypes
  <2>2. Pairs({a}, {b}) = {<<a, b>>}
    BY DEF Pairs
  <2>3. SumFunctionOnSet(LinkOf(input.adj, Size), {<<a, b>>}) = LinkOf(input.adj, Size)[<<a, b>>]
    BY <2>1, SumOfSingle
  <2> QED BY <2>1, <2>2, <2>3 DEF Across
<1>7. \A a \in Nodes(Size) : graph.degree[a] = level * SumFunctionOnSet(input.degree, Members(a, nodeToSuper))
  <2> SUFFICES ASSUME NEW a \in Nodes(Size)
               PROVE  graph.degree[a] = 1 * SumFunctionOnSet(input.degree, Members(a, nodeToSuper))
    BY <1>1
  <2> QED BY <1>1, <1>4, <1>5
<1>8. \A a, b \in Nodes(Size) :
        graph.adj[a][b] = level * Across(input, Size, Members(a, nodeToSuper), Members(b, nodeToSuper))
  <2> SUFFICES ASSUME NEW a \in Nodes(Size), NEW b \in Nodes(Size)
               PROVE  graph.adj[a][b] = 1 * Across(input, Size, Members(a, nodeToSuper), Members(b, nodeToSuper))
    BY <1>1
  <2>1. Members(a, nodeToSuper) = {a} /\ Members(b, nodeToSuper) = {b} /\ graph.adj[a][b] = input.adj[a][b]
    BY <1>1, <1>4
  <2>2. Across(input, Size, {a}, {b}) = input.adj[a][b] /\ input.adj[a][b] \in Nat
    BY <1>6
  <2> QED BY <2>1, <2>2
<1>9. graph.total = level * input.total
  BY <1>1, <1>3 DEF GraphType
<1>10. StoreInv
  BY <1>1, <1>2 DEF StoreInv
<1> QED BY <1>3, <1>7, <1>8, <1>9, <1>10 DEF ScaleInv

LEMMA ScalesKept ==
  ASSUME LouvainTypes, StoreInv, ScaleInv, [Cluster]_louvainVars
  PROVE  StoreInv' /\ ScaleInv'
<1>1. CASE UNCHANGED <<input, graph, nodeToSuper, level>>
  BY <1>1 DEF StoreInv, ScaleInv
<1>2. CASE Aggregate
  <2> DEFINE new == Remap(comm)
             k == Count(new)
  <2>1. /\ graph' = Contract(graph, new) /\ nodeToSuper' = Lift(new) /\ input' = input
        /\ level' = IF level < Deep THEN level + 1 ELSE Deep
    BY <1>2 DEF Aggregate
  <2>2. /\ level \in 1 .. Deep /\ comm \in [Nodes(graph.size) -> Nodes(graph.size)]
        /\ Size \in Nat
    BY LouvainAssumption DEF LouvainTypes, TypeOK
  <2>3. level' # 1 /\ (level' < Deep => level = 1 /\ level' = 2)
    BY <2>1, <2>2 DEF Deep
  <2>4. StoreInv'
    BY <2>1, <2>3 DEF StoreInv
  <2>5. ASSUME level' < Deep
        PROVE  /\ graph'.total = 2 * input.total
               /\ \A a \in Nodes(graph'.size) :
                    graph'.degree[a] = 2 * SumFunctionOnSet(input.degree, Members(a, nodeToSuper'))
               /\ \A a, b \in Nodes(graph'.size) : a # b =>
                    graph'.adj[a][b] = 2 * Across(input, Size, Members(a, nodeToSuper'), Members(b, nodeToSuper'))
    <3>1. graph = input /\ nodeToSuper = Alone(Size) /\ Weighed(input, Size)
      BY <2>3, <2>5 DEF StoreInv
    <3>2. graph.size = Size /\ GraphType(input, Size)
      BY <3>1 DEF Weighed, GraphType
    <3>3. comm \in [Nodes(Size) -> Nodes(Size)]
      BY <2>2, <3>2
    <3>4. k \in Nat /\ new \in [Nodes(Size) -> Nodes(k)]
      BY <2>2, <3>3, RemapNumbers
    <3>5. nodeToSuper' = new
      BY <2>1, <3>1, <3>4 DEF Lift, Alone
    <3>6. Count(new) = k
      OBVIOUS
    <3> HIDE DEF new, k
    <3>7. GraphType(Contract(input, new), k)
      BY <2>2, <3>2, <3>4, <3>6, GraphContracted
    <3>8. graph'.size = k
      BY <2>1, <3>1, <3>7 DEF GraphType
    <3>9. /\ Contract(input, new).total = 2 * input.total
          /\ \A c \in Nodes(k) : Contract(input, new).degree[c] = 2 * SumFunctionOnSet(input.degree, Members(c, new))
          /\ \A c, d \in Nodes(k) : c # d =>
               Contract(input, new).adj[c][d] = 2 * Across(input, Size, Members(c, new), Members(d, new))
      BY <2>2, <3>1, <3>4, <3>6, ContractScales
    <3> QED BY <2>1, <3>1, <3>5, <3>8, <3>9
  <2>6. ScaleInv'
    BY <2>1, <2>3, <2>5 DEF ScaleInv
  <2> QED BY <2>4, <2>6
<1> QED BY <1>1, <1>2 DEF Cluster, Visit, Finish, louvainVars

\* The two terms of the modularity as sums over the pairs that share a
\* community.
LEMMA TermsAre ==
  ASSUME StoreInv, NEW of, DOMAIN of = Nodes(Size)
  PROVE  /\ Held(of) = 2 * input.total * Resolution * SumFunctionOnSet(LinkOf(input.adj, Size), Same(Size, of))
         /\ Expected(of) = SumFunctionOnSet(Products(input.degree, Nodes(Size)), Same(Size, of))
         /\ SumFunctionOnSet(LinkOf(input.adj, Size), Same(Size, of)) \in Nat
         /\ Expected(of) \in Nat
<1> DEFINE N == Nodes(Size)
           link == LinkOf(input.adj, Size)
           same == Same(Size, of)
           degree == input.degree
           prod == Products(degree, N)
<1>1. /\ Size \in Nat /\ GraphType(input, Size) /\ IsFiniteSet(N) /\ IsFiniteSet(Pairs(N, N))
      /\ \A p \in Pairs(N, N) : link[p] \in Nat
      /\ \A i \in N : degree[i] \in Nat
  <2>1. Size \in Nat /\ GraphType(input, Size)
    BY LouvainAssumption DEF StoreInv, Weighed
  <2>2. IsFiniteSet(N) /\ IsFiniteSet(Pairs(N, N)) /\ link \in [Pairs(N, N) -> Nat]
    BY <2>1, NodesFinite, LinkTypes
  <2>3. \A i \in N : degree[i] \in Nat
    BY <2>1 DEF GraphType
  <2> HIDE DEF link, N, degree
  <2> QED BY <2>1, <2>2, <2>3
<1>2. same \in SUBSET Pairs(N, N) /\ IsFiniteSet(same)
  <2>1. same \in SUBSET Pairs(N, N)
    BY DEF Same
  <2> QED BY <1>1, <2>1, FS_Subset
<1>3. Held(of) = 2 * input.total * Resolution * SumFunctionOnSet(link, same)
  <2> DEFINE f == [p \in same |-> input.adj[p[1]][p[2]]]
  <2>1. same = { p \in N \X N : of[p[1]] = of[p[2]] }
    BY DEF Same, Pairs
  <2>2. Held(of) = 2 * input.total * Resolution * SumFunction(f)
    BY <2>1 DEF Held
  <2>3. DOMAIN f = same /\ \A p \in same : f[p] \in Nat /\ f[p] = link[p]
    BY <1>1, <1>2 DEF LinkOf
  <2> HIDE DEF f, same, link
  <2>4. SumFunction(f) = SumFunctionOnSet(link, same)
    BY <1>2, <2>3, SumOfDomain
  <2> QED BY <2>2, <2>4
<1>4. Expected(of) = SumFunctionOnSet(prod, same)
  <2> DEFINE M == { of[i] : i \in N }
             at(c) == SumFunctionOnSet(degree, Members(c, of))
             f == [c \in M |-> at(c) * at(c)]
             Z == [c \in M |-> Pairs(Members(c, of), Members(c, of))]
  <2>1. UNION { Z[c] : c \in M } = same
    <3>1. \A p \in same : of[p[1]] \in M /\ p \in Z[of[p[1]]]
      BY DEF Same, Pairs, Members
    <3>2. \A c \in M : Z[c] \subseteq same
      BY DEF Same, Pairs, Members
    <3> HIDE DEF Z, M
    <3> QED BY <3>1, <3>2
  <2>2. \A c, d \in M : c # d => Z[c] \cap Z[d] = {}
    BY DEF Pairs, Members
  <2>3. \A c \in M : Members(c, of) \in SUBSET N
    BY DEF Members
  <2>4. ASSUME NEW c \in M PROVE f[c] = SumFunctionOnSet(prod, Z[c])
    <3> HIDE DEF degree, N, at
    <3>1. SumFunctionOnSet(prod, Pairs(Members(c, of), Members(c, of))) = at(c) * at(c)
      BY <1>1, <2>3, SumOfProducts DEF at
    <3> QED BY <3>1
  <2>5. \A c \in M : Z[c] \in SUBSET Pairs(N, N)
    BY <2>3 DEF Pairs
  <2>6. \A p \in Pairs(N, N) : prod[p] \in Nat
    BY <1>1 DEF Products, Pairs
  <2>7. IsFiniteSet(M)
    <3> DEFINE P == { T \in SUBSET N : IsFiniteSet({ of[i] : i \in T }) }
    <3>1. {} \in P
      <4>1. { of[i] : i \in {} } = {}
        OBVIOUS
      <4> QED BY <4>1, FS_EmptySet
    <3>2. ASSUME NEW T \in SUBSET N, T \in P, NEW x \in N \ T PROVE T \cup {x} \in P
      <4>1. { of[i] : i \in T \cup {x} } = { of[i] : i \in T } \cup {of[x]}
        OBVIOUS
      <4> QED BY <3>2, <4>1, FS_AddElement
    <3>3. N \in P
      <4> HIDE DEF P
      <4> QED BY <1>1, <3>1, <3>2, PartsFromEmpty
    <3> QED BY <3>3
  <2>8. Expected(of) = SumFunction(f) /\ DOMAIN f = M
    BY DEF Expected
  <2> HIDE DEF Z, f, M, prod, N
  <2>9. Parts(prod, M, Z, f)
    BY <1>1, <2>2, <2>4, <2>5, <2>6, FS_Subset DEF Parts
  <2>10. SumFunctionOnSet(prod, UNION { Z[c] : c \in M }) = SumFunctionOnSet(f, M)
    BY <2>7, <2>9, SumOfParts
  <2>11. SumFunction(f) = SumFunctionOnSet(f, M)
    BY <2>8 DEF SumFunction
  <2> QED BY <2>1, <2>8, <2>10, <2>11
<1>5. SumFunctionOnSet(link, same) \in Nat /\ SumFunctionOnSet(prod, same) \in Nat
  <2>1. \A p \in same : link[p] \in Nat /\ prod[p] \in Nat
    BY <1>1, <1>2 DEF Products, Pairs
  <2> HIDE DEF link, prod, same
  <2> QED BY <1>2, <2>1, SumOfNumbers
<1> QED BY <1>3, <1>4, <1>5

\* What phase1 adds up for a node and a community, of the symbols that they
\* stand for.
LEMMA GainWeights ==
  ASSUME LouvainTypes, StoreInv, ScaleInv, level < Deep,
         NEW a \in Nodes(graph.size), NEW c \in Nodes(graph.size),
         NEW A, A = Members(a, nodeToSuper), NEW C, C = Rest(Size, Assigned, A, c)
  PROVE  /\ A \in SUBSET Nodes(Size) /\ C \in SUBSET Nodes(Size)
         /\ LinksTo(a, c) = level * Across(input, Size, A, C)
         /\ CommWeight(a, c) = level * SumFunctionOnSet(input.degree, C)
         /\ graph.degree[a] = level * SumFunctionOnSet(input.degree, A)
<1> DEFINE M == Members(c, comm) \ {a}
           S == [b \in M |-> Members(b, nodeToSuper)]
           w == [b \in M |-> Across(input, Size, A, S[b])]
           v == [b \in M |-> SumFunctionOnSet(input.degree, S[b])]
           row == graph.adj[a]
           degree == graph.degree
<1>1. /\ Size \in Nat /\ Weighed(input, Size) /\ level \in Nat
      /\ graph.size \in Nat /\ comm \in [Nodes(graph.size) -> Nodes(graph.size)]
      /\ nodeToSuper \in [Nodes(Size) -> Nodes(graph.size)]
  BY LouvainAssumption DEF LouvainTypes, TypeOK, StoreInv, Deep
<1>2. IsFiniteSet(Nodes(Size)) /\ \A i \in Nodes(Size) : input.degree[i] \in Nat
  BY <1>1, NodesFinite DEF Weighed, GraphType
<1>3. IsFiniteSet(M) /\ \A b \in M : b \in Nodes(graph.size) /\ b # a
  <2>1. M \in SUBSET Nodes(graph.size)
    BY <1>1 DEF Members
  <2> QED BY <1>1, <2>1, NodesFinite, FS_Subset
<1>4. A \in SUBSET Nodes(Size) /\ C \in SUBSET Nodes(Size)
  BY <1>1 DEF Members, Rest
<1>5. UNION { S[b] : b \in M } = C
  <2>1. \A i \in Nodes(Size), b \in M : i \in S[b] <=> nodeToSuper[i] = b
    BY <1>1 DEF Members
  <2>2. \A i \in Nodes(Size) : i \in C <=> nodeToSuper[i] \in M
    BY <1>1 DEF Members, Rest, Assigned
  <2>3. \A b \in M : S[b] \subseteq Nodes(Size)
    BY <1>1 DEF Members
  <2> HIDE DEF M, S
  <2> QED BY <1>4, <2>1, <2>2, <2>3
<1>6. /\ \A b \in M : S[b] \in SUBSET Nodes(Size)
      /\ \A b, d \in M : b # d => S[b] \cap S[d] = {}
  BY <1>1 DEF Members
<1>7. \A b \in M : /\ row[b] = level * w[b] /\ w[b] = Across(input, Size, A, S[b])
                   /\ degree[b] = level * v[b] /\ v[b] = SumFunctionOnSet(input.degree, S[b])
  BY <1>3 DEF ScaleInv
<1>8. graph.degree[a] = level * SumFunctionOnSet(input.degree, A)
  BY DEF ScaleInv
<1>9. LinksTo(a, c) = SumFunctionOnSet(row, M) /\ CommWeight(a, c) = SumFunctionOnSet(degree, M)
  BY DEF LinksTo, CommWeight
<1> HIDE DEF M, S, w, v, row, degree
<1>10. ASSUME NEW b \in M PROVE w[b] \in Nat /\ v[b] \in Nat
  <2>1. w[b] \in Nat
    <3>1. Across(input, Size, A, S[b]) \in Nat
      BY <1>1, <1>4, <1>6, AcrossTypes
    <3> QED BY <1>7, <3>1
  <2>2. IsFiniteSet(S[b]) /\ \A i \in S[b] : input.degree[i] \in Nat
    BY <1>2, <1>6, FS_Subset
  <2>3. SumFunctionOnSet(input.degree, S[b]) \in Nat
    BY <2>2, SumOfNumbers
  <2> QED BY <1>7, <2>1, <2>3
<1>11. SumFunctionOnSet(row, M) = level * SumFunctionOnSet(w, M)
  BY <1>1, <1>3, <1>7, <1>10, SumOfMultiple
<1>12. SumFunctionOnSet(degree, M) = level * SumFunctionOnSet(v, M)
  BY <1>1, <1>3, <1>7, <1>10, SumOfMultiple
<1>13. SumFunctionOnSet(w, M) = Across(input, Size, A, C)
  <2>1. SumFunctionOnSet(w, M) = Across(input, Size, A, UNION { S[b] : b \in M })
    <3>1. \A b \in M : w[b] = Across(input, Size, A, S[b])
      BY <1>7
    <3>2. IsFiniteSet(M) /\ A \in SUBSET Nodes(Size) /\ Size \in Nat /\ Weighed(input, Size)
      BY <1>1, <1>3, <1>4
    <3>3. \A b \in M : S[b] \in SUBSET Nodes(Size)
      BY <1>6
    <3>4. \A b, d \in M : b # d => S[b] \cap S[d] = {}
      BY <1>6
    <3> QED BY <3>1, <3>2, <3>3, <3>4, AcrossParts
  <2> QED BY <1>5, <2>1
<1>14. SumFunctionOnSet(v, M) = SumFunctionOnSet(input.degree, C)
  <2>1. \A b \in M : v[b] = SumFunctionOnSet(input.degree, S[b])
    BY <1>7
  <2>2. Parts(input.degree, M, S, v)
    BY <1>2, <1>6, <2>1, FS_Subset DEF Parts
  <2>3. SumFunctionOnSet(input.degree, UNION { S[b] : b \in M }) = SumFunctionOnSet(v, M)
    BY <1>3, <2>2, SumOfParts
  <2> QED BY <1>5, <2>3
<1> QED BY <1>4, <1>8, <1>9, <1>11, <1>12, <1>13, <1>14

\* The gain that phase1 compares is that of the move, scaled: what the
\* numbers of the current graph say, those of the store's graph say.
LEMMA GainsAgree ==
  ASSUME NEW k \in {1, 2}, NEW u \in Nat,
         NEW x \in Nat, NEW y \in Nat, NEW d \in Nat, NEW e \in Nat, NEW f \in Nat,
         k * u * (k * x) + k * e * (k * d) >= k * u * (k * y) + k * f * (k * d)
  PROVE  u * x + e * d >= u * y + f * d
<1>1. CASE k = 1
  BY <1>1
<1>2. CASE k = 2
  <2>1. /\ 2 * u * (2 * x) = 4 * (u * x) /\ 2 * e * (2 * d) = 4 * (e * d)
        /\ 2 * u * (2 * y) = 4 * (u * y) /\ 2 * f * (2 * d) = 4 * (f * d)
    OBVIOUS
  <2>2. u * x \in Nat /\ e * d \in Nat /\ u * y \in Nat /\ f * d \in Nat
    OBVIOUS
  <2>3. 4 * (u * x) + 4 * (e * d) >= 4 * (u * y) + 4 * (f * d)
    BY <1>2, <2>1
  <2> DEFINE p == u * x
             q == e * d
             r == u * y
             s == f * d
  <2> HIDE DEF p, q, r, s
  <2>4. p \in Nat /\ q \in Nat /\ r \in Nat /\ s \in Nat /\ 4 * p + 4 * q >= 4 * r + 4 * s
    BY <2>2, <2>3 DEF p, q, r, s
  <2>5. p + q >= r + s
    BY <2>4
  <2> QED BY <2>5 DEF p, q, r, s
<1> QED BY <1>1, <1>2

LEMMA Scaled ==
  ASSUME NEW k \in {1, 2}, NEW t \in Nat, NEW r \in Nat, NEW s, s = k * t
  PROVE  k * (2 * t * r) = 2 * s * r
<1>1. CASE k = 1
  BY <1>1
<1>2. CASE k = 2
  BY <1>2
<1> QED BY <1>1, <1>2

\* The terms of a partition before and after a move.
LEMMA TermsMove ==
  ASSUME NEW u \in Nat, NEW s \in Nat, NEW t \in Nat, NEW x \in Nat, NEW y \in Nat, s + 2 * x = t + 2 * y,
         NEW p \in Nat, NEW q \in Nat, NEW v \in Nat, NEW w \in Nat, p + 2 * w = q + 2 * v,
         u * x + v >= u * y + w
  PROVE  u * t + p >= u * s + q
<1> DEFINE us == u * s
           ut == u * t
           ux == u * x
           uy == u * y
<1>1. us \in Nat /\ ut \in Nat /\ ux \in Nat /\ uy \in Nat
  OBVIOUS
<1>2. us + 2 * ux = ut + 2 * uy
  <2>1. u * (s + 2 * x) = us + 2 * ux /\ u * (t + 2 * y) = ut + 2 * uy
    OBVIOUS
  <2> QED BY <2>1
<1> HIDE DEF us, ut, ux, uy
<1>3. ux + v >= uy + w
  BY DEF ux, uy
<1>4. ut + p >= us + q
  BY <1>1, <1>2, <1>3
<1> QED BY <1>4 DEF us, ut

LEMMA GainTypes ==
  ASSUME LouvainTypes, NEW a \in Nodes(graph.size), NEW c \in Nodes(graph.size)
  PROVE  /\ LinksTo(a, c) \in Nat /\ CommWeight(a, c) \in Nat
         /\ Reward(a, c) \in Nat /\ Penalty(a, c) \in Nat
         /\ (\A j \in Members(c, comm) \ {a} : graph.adj[a][j] = 0) => Reward(a, c) = 0
<1> DEFINE M == Members(c, comm) \ {a}
           row == graph.adj[a]
           degree == graph.degree
<1>1. /\ graph.size \in Nat /\ Resolution \in Nat /\ graph.total \in Nat
      /\ comm \in [Nodes(graph.size) -> Nodes(graph.size)]
      /\ \A j \in Nodes(graph.size) : row[j] \in Nat /\ degree[j] \in Nat
  BY LouvainAssumption DEF LouvainTypes, TypeOK
<1>2. IsFiniteSet(M) /\ \A j \in M : row[j] \in Nat /\ degree[j] \in Nat
  <2>1. M \in SUBSET Nodes(graph.size)
    BY <1>1 DEF Members
  <2> QED BY <1>1, <2>1, NodesFinite, FS_Subset
<1>3. LinksTo(a, c) = SumFunctionOnSet(row, M) /\ CommWeight(a, c) = SumFunctionOnSet(degree, M)
  BY DEF LinksTo, CommWeight
<1>4. degree[a] \in Nat /\ Penalty(a, c) = CommWeight(a, c) * degree[a]
  BY <1>1 DEF Penalty
<1> HIDE DEF M, row, degree
<1>5. /\ LinksTo(a, c) \in Nat /\ CommWeight(a, c) \in Nat
      /\ (\A j \in M : row[j] = 0) => LinksTo(a, c) = 0
  BY <1>2, <1>3, SumOfNumbers
<1>6. 2 * graph.total * Resolution \in Nat
  BY <1>1
<1>7. Reward(a, c) \in Nat /\ (LinksTo(a, c) = 0 => Reward(a, c) = 0)
  <2> DEFINE u == 2 * graph.total * Resolution
  <2>1. Reward(a, c) = u * LinksTo(a, c) /\ u \in Nat
    BY <1>6 DEF Reward
  <2> HIDE DEF u
  <2> QED BY <1>5, <2>1
<1>8. Penalty(a, c) \in Nat
  BY <1>4, <1>5
<1> QED BY <1>5, <1>7, <1>8 DEF M, row

\* The community that phase1 moves a node to is worth no less than the one it
\* leaves, also if that one is not among those compared.
LEMMA ChosenIsBetter ==
  ASSUME LouvainTypes, NEW a \in Nodes(graph.size), NEW c \in Chosen(a), c # comm[a]
  PROVE  /\ c \in Nodes(graph.size) /\ comm[a] \in Nodes(graph.size)
         /\ Reward(a, c) + Penalty(a, comm[a]) >= Reward(a, comm[a]) + Penalty(a, c)
<1> DEFINE o == comm[a]
<1>1. /\ comm \in [Nodes(graph.size) -> Nodes(graph.size)]
      /\ \A i, j \in Nodes(graph.size) : graph.adj[i][j] \in Nat
  BY DEF LouvainTypes, TypeOK
<1>2. c \in Best(a) /\ c \in Gainful(a)
  BY DEF Chosen, Best
<1>3. c \in Nodes(graph.size) /\ o \in Nodes(graph.size)
  BY <1>1, <1>2 DEF Gainful, NeighborCommunities, Neighbors
<1>4. /\ Reward(a, c) \in Nat /\ Penalty(a, c) \in Nat /\ Reward(a, o) \in Nat /\ Penalty(a, o) \in Nat
      /\ (\A j \in Members(o, comm) \ {a} : graph.adj[a][j] = 0) => Reward(a, o) = 0
  BY <1>3, GainTypes
<1>5. Reward(a, c) > Penalty(a, c)
  BY <1>2 DEF Gainful
<1>6. CASE o \in Gainful(a)
  BY <1>2, <1>3, <1>6 DEF Best
<1>7. CASE o \notin Gainful(a)
  <2>1. Reward(a, o) <= Penalty(a, o)
    <3>1. CASE o \in NeighborCommunities(a)
      <4>1. ~(Reward(a, o) > Penalty(a, o))
        BY <1>7, <3>1 DEF Gainful
      <4> QED BY <1>4, <4>1
    <3>2. CASE o \notin NeighborCommunities(a)
      <4>1. ASSUME NEW j \in Members(o, comm) \ {a} PROVE graph.adj[a][j] = 0
        <5>1. j \in Nodes(graph.size) /\ comm[j] = o /\ j # a
          BY <1>1 DEF Members
        <5>2. ~(graph.adj[a][j] > 0)
          BY <3>2, <5>1 DEF NeighborCommunities, Neighbors
        <5>3. graph.adj[a][j] \in Nat
          BY <1>1, <5>1
        <5> QED BY <5>2, <5>3
      <4> QED BY <1>4, <4>1
    <3> QED BY <3>1, <3>2
  <2> HIDE DEF o
  <2> QED BY <1>3, <1>4, <1>5, <2>1 DEF o
<1> QED BY <1>6, <1>7

\* A step that regroups nobody.
LEMMA SameTerms ==
  ASSUME StoreInv, LouvainTypes, Same(Size, Assigned') = Same(Size, Assigned)
  PROVE  ~Lowers
<1> DEFINE h == SumFunctionOnSet(LinkOf(input.adj, Size), Same(Size, Assigned))
           u == 2 * input.total * Resolution
<1>1. DOMAIN Assigned = Nodes(Size) /\ DOMAIN Assigned' = Nodes(Size)
  BY DEF Assigned
<1>2. u \in Nat
  <2>1. input.total \in Nat /\ Resolution \in Nat
    BY LouvainAssumption DEF StoreInv, Weighed, GraphType
  <2> QED BY <2>1
<1> HIDE DEF u
<1>3. /\ Held(Assigned) = u * h /\ h \in Nat
      /\ Expected(Assigned) \in Nat
      /\ Held(Assigned') = u * h /\ Expected(Assigned') = Expected(Assigned)
  <2>1. /\ Held(Assigned) = u * h /\ h \in Nat /\ Expected(Assigned) \in Nat
        /\ Expected(Assigned) = SumFunctionOnSet(Products(input.degree, Nodes(Size)), Same(Size, Assigned))
    BY <1>1, TermsAre DEF u
  <2>2. /\ Held(Assigned') = u * SumFunctionOnSet(LinkOf(input.adj, Size), Same(Size, Assigned'))
        /\ Expected(Assigned') = SumFunctionOnSet(Products(input.degree, Nodes(Size)), Same(Size, Assigned'))
    BY <1>1, TermsAre DEF u
  <2> HIDE DEF h
  <2> QED BY <2>1, <2>2 DEF h
<1> HIDE DEF h
<1>4. Held(Assigned) \in Nat
  BY <1>2, <1>3
<1> QED BY <1>3, <1>4 DEF Lowers

\* A node that moves takes the symbols it stands for along.
LEMMA VisitRaises ==
  ASSUME LouvainTypes, StoreInv, ScaleInv, level < Deep, Visit
  PROVE  ~Lowers
<1> DEFINE a == next
           o == comm[a]
           A == Members(a, nodeToSuper)
           B == Rest(Size, Assigned, A, o)
           N == Nodes(Size)
           link == LinkOf(input.adj, Size)
           prod == Products(input.degree, N)
           to == Assigned'
           u == 2 * input.total * Resolution
           sum(S) == SumFunctionOnSet(input.degree, S)
<1>1. /\ Size \in Nat /\ Weighed(input, Size) /\ GraphType(input, Size) /\ u \in Nat
      /\ comm \in [Nodes(graph.size) -> Nodes(graph.size)]
      /\ nodeToSuper \in [N -> Nodes(graph.size)]
  <2>1. Size \in Nat /\ Weighed(input, Size) /\ GraphType(input, Size) /\ Resolution \in Nat
    BY LouvainAssumption DEF StoreInv, Weighed
  <2>2. input.total \in Nat
    BY <2>1 DEF GraphType
  <2>3. u \in Nat
    BY <2>1, <2>2
  <2>4. comm \in [Nodes(graph.size) -> Nodes(graph.size)] /\ nodeToSuper \in [N -> Nodes(graph.size)]
    BY DEF LouvainTypes, TypeOK
  <2> HIDE DEF u
  <2> QED BY <2>1, <2>3, <2>4
<1>2. a \in Nodes(graph.size) /\ level \in {1, 2}
  BY LouvainAssumption DEF LouvainTypes, TypeOK, Visit, Nodes, Deep
<1>3. PICK c \in Chosen(a) : comm' = [comm EXCEPT ![a] = c]
  BY DEF Visit
<1>4. /\ Assigned = [i \in N |-> comm[nodeToSuper[i]]]
      /\ to = [i \in N |-> comm'[nodeToSuper[i]]]
  BY DEF Visit, Assigned
<1>5. CASE c = o
  <2>1. to = Assigned
    BY <1>1, <1>2, <1>3, <1>4, <1>5
  <2> QED BY <2>1, SameTerms
<1>6. CASE c # o
  <2> DEFINE C == Rest(Size, Assigned, A, c)
  <2>1. /\ c \in Nodes(graph.size) /\ o \in Nodes(graph.size)
        /\ Reward(a, c) + Penalty(a, o) >= Reward(a, o) + Penalty(a, c)
    BY <1>2, <1>3, <1>6, ChosenIsBetter
  <2>2. ASSUME NEW d \in {c, o}
        PROVE  /\ A \in SUBSET N /\ Rest(Size, Assigned, A, d) \in SUBSET N
               /\ LinksTo(a, d) = level * Across(input, Size, A, Rest(Size, Assigned, A, d))
               /\ CommWeight(a, d) = level * sum(Rest(Size, Assigned, A, d))
               /\ graph.degree[a] = level * sum(A)
    <3>1. d \in Nodes(graph.size)
      BY <2>1
    <3> QED BY <1>2, <3>1, GainWeights
  <2>3. /\ \A i \in A : Assigned[i] = o /\ to[i] = c
        /\ \A i \in N \ A : to[i] = Assigned[i]
    BY <1>1, <1>2, <1>3, <1>4 DEF Members
  <2>4. A \in SUBSET N /\ B \in SUBSET N /\ C \in SUBSET N
    BY <2>2
  <2>5. /\ LinksTo(a, c) = level * Across(input, Size, A, C)
        /\ LinksTo(a, o) = level * Across(input, Size, A, B)
        /\ CommWeight(a, c) = level * sum(C) /\ CommWeight(a, o) = level * sum(B)
        /\ graph.degree[a] = level * sum(A)
    BY <2>2
  <2>6. DOMAIN Assigned = N /\ DOMAIN to = N
    BY <1>4
  <2>7. graph.total = level * input.total
    BY DEF ScaleInv
  <2>8. Symmetric(link, Size) /\ \A S, T \in SUBSET N : Across(input, Size, S, T) \in Nat
    BY <1>1, AcrossTypes
  <2>9. IsFiniteSet(N) /\ \A i \in N : input.degree[i] \in Nat
    BY <1>1, NodesFinite DEF GraphType
  <2>10. Symmetric(prod, Size)
    BY <2>9 DEF Symmetric, Products, Pairs
  <2>11. ASSUME NEW S \in SUBSET N PROVE sum(S) \in Nat
    <3>1. IsFiniteSet(S) /\ \A i \in S : input.degree[i] \in Nat
      BY <2>9, FS_Subset
    <3> QED BY <3>1, SumOfNumbers
  <2> HIDE DEF A, N, o, B, C, link, prod, to
  \* What the two terms lose and gain.
  <2>12. ASSUME NEW f \in {link, prod}
         PROVE  SumFunctionOnSet(f, Same(Size, Assigned)) + 2 * SumFunctionOnSet(f, Pairs(A, C))
                  = SumFunctionOnSet(f, Same(Size, to)) + 2 * SumFunctionOnSet(f, Pairs(A, B))
    <3>1. Symmetric(f, Size) /\ A \in SUBSET Nodes(Size) /\ Size \in Nat
      BY <1>1, <2>4, <2>8, <2>10 DEF N
    <3>2. (\A i \in A : Assigned[i] = o /\ to[i] = c) /\ \A i \in Nodes(Size) \ A : to[i] = Assigned[i]
      BY <2>3 DEF N
    <3>3. SumFunctionOnSet(f, Same(Size, Assigned)) + 2 * SumFunctionOnSet(f, Pairs(A, Rest(Size, Assigned, A, c)))
            = SumFunctionOnSet(f, Same(Size, to)) + 2 * SumFunctionOnSet(f, Pairs(A, Rest(Size, Assigned, A, o)))
      BY <1>6, <3>1, <3>2, SumOfMove
    <3> QED BY <3>3 DEF B, C
  <2>13. SumFunctionOnSet(prod, Pairs(A, C)) = sum(A) * sum(C) /\ SumFunctionOnSet(prod, Pairs(A, B)) = sum(A) * sum(B)
    BY <2>4, <2>9, SumOfProducts DEF prod
  <2>14. /\ SumFunctionOnSet(link, Pairs(A, C)) = Across(input, Size, A, C)
         /\ SumFunctionOnSet(link, Pairs(A, B)) = Across(input, Size, A, B)
    BY DEF Across, link
  <2> DEFINE x == Across(input, Size, A, C)
             y == Across(input, Size, A, B)
             s == SumFunctionOnSet(link, Same(Size, Assigned))
             t == SumFunctionOnSet(link, Same(Size, to))
             p == Expected(Assigned)
             q == Expected(to)
             da == sum(A)
             db == sum(B)
             dc == sum(C)
  <2>15. /\ Held(Assigned) = u * s /\ s \in Nat /\ p \in Nat
         /\ p = SumFunctionOnSet(prod, Same(Size, Assigned))
    BY <2>6, TermsAre DEF link, prod, N
  <2>16. /\ Held(to) = u * t /\ t \in Nat /\ q \in Nat
         /\ q = SumFunctionOnSet(prod, Same(Size, to))
    BY <2>6, TermsAre DEF link, prod, N
  <2>17. x \in Nat /\ y \in Nat /\ da \in Nat /\ db \in Nat /\ dc \in Nat
    BY <2>4, <2>8, <2>11
  <2>18. s + 2 * x = t + 2 * y
    BY <2>12, <2>14
  <2>19. p + 2 * (da * dc) = q + 2 * (da * db)
    <3>1. SumFunctionOnSet(prod, Same(Size, Assigned)) + 2 * SumFunctionOnSet(prod, Pairs(A, C))
            = SumFunctionOnSet(prod, Same(Size, to)) + 2 * SumFunctionOnSet(prod, Pairs(A, B))
      BY <2>12
    <3> QED BY <2>13, <2>15, <2>16, <3>1
  <2>20. /\ Reward(a, c) = level * u * (level * x) /\ Reward(a, o) = level * u * (level * y)
         /\ Penalty(a, c) = level * dc * (level * da) /\ Penalty(a, o) = level * db * (level * da)
    <3>1. level * u = 2 * graph.total * Resolution
      <4>1. input.total \in Nat /\ Resolution \in Nat
        BY <1>1, LouvainAssumption DEF GraphType
      <4> QED BY <1>2, <2>7, <4>1, Scaled
    <3>2. Reward(a, c) = level * u * LinksTo(a, c) /\ Reward(a, o) = level * u * LinksTo(a, o)
      BY <3>1 DEF Reward
    <3>3. Penalty(a, c) = CommWeight(a, c) * graph.degree[a] /\ Penalty(a, o) = CommWeight(a, o) * graph.degree[a]
      BY DEF Penalty
    <3> HIDE DEF u, x, y, da, db, dc
    <3> QED BY <2>5, <3>2, <3>3 DEF x, y, da, db, dc
  <2> HIDE DEF u, x, y, s, t, p, q, da, db, dc
  <2>21. level * u * (level * x) + level * db * (level * da) >= level * u * (level * y) + level * dc * (level * da)
    BY <2>1, <2>20
  <2>22. u * x + db * da >= u * y + dc * da
    BY <1>1, <1>2, <2>17, <2>21, GainsAgree
  <2>23. da * db \in Nat /\ da * dc \in Nat /\ da * db = db * da /\ da * dc = dc * da
    BY <2>17
  <2>24. u * t + p >= u * s + q
    <3> DEFINE v == da * db
               w == da * dc
    <3>1. v \in Nat /\ w \in Nat /\ p + 2 * w = q + 2 * v /\ u * x + v >= u * y + w
      BY <2>19, <2>22, <2>23
    <3> HIDE DEF v, w
    <3> QED BY <1>1, <2>15, <2>16, <2>17, <2>18, <3>1, TermsMove
  <2> DEFINE ut == u * t
             us == u * s
  <2>25. ut \in Nat /\ us \in Nat /\ Held(to) = ut /\ Held(Assigned) = us /\ ut + p >= us + q
    BY <1>1, <2>15, <2>16, <2>24
  <2> HIDE DEF ut, us
  <2>26. ~(Held(to) + p < Held(Assigned) + q)
    BY <2>15, <2>16, <2>25
  <2> QED BY <2>26 DEF Lowers, to, p, q
<1> QED BY <1>5, <1>6

LEMMA AggregateRegroupsNobody ==
  ASSUME LouvainTypes, Aggregate
  PROVE  Same(Size, Assigned') = Same(Size, Assigned)
<1> DEFINE n == graph.size
           new == Remap(comm)
           k == Count(new)
<1>1. /\ n \in Nat /\ comm \in [Nodes(n) -> Nodes(n)] /\ nodeToSuper \in [Nodes(Size) -> Nodes(n)]
  BY LouvainAssumption DEF LouvainTypes, TypeOK
<1>2. nodeToSuper' = Lift(new) /\ comm' = Alone(k)
  BY DEF Aggregate
<1> HIDE DEF n
<1>3. /\ new \in [Nodes(n) -> Nodes(k)]
      /\ \A i, j \in Nodes(n) : new[i] = new[j] <=> comm[i] = comm[j]
  BY <1>1, RemapNumbers
<1> HIDE DEF new, k
<1>4. \A i \in Nodes(Size) : Assigned'[i] = new[nodeToSuper[i]] /\ Assigned[i] = comm[nodeToSuper[i]]
  BY <1>1, <1>2, <1>3 DEF Lift, Alone, Assigned
<1>5. \A i, j \in Nodes(Size) : Assigned'[i] = Assigned'[j] <=> Assigned[i] = Assigned[j]
  BY <1>1, <1>3, <1>4
<1> QED BY <1>5 DEF Same, Pairs

\* In the first two levels no move of phase1 lowers the modularity of the
\* store's graph (louvain.go, phase1 and phase2): the gain that phase1 compares
\* is that of the move, on the graph that phase2 contracted as well as on the
\* original one.
THEOREM EarlyMovesOptimize == Spec => EarlyLevelsOptimize
<1>1. TracerInit => StoreInv /\ ScaleInv
  BY ScalesStart
<1>2. LouvainTypes /\ StoreInv /\ ScaleInv /\ [Next]_vars => (StoreInv /\ ScaleInv)'
  BY ClusterSteps, ScalesKept
<1>3. LouvainTypes /\ StoreInv /\ ScaleInv /\ [Next]_vars => [level < Deep => ~Lowers]_louvainVars
  <2> SUFFICES ASSUME LouvainTypes, StoreInv, ScaleInv, [Next]_vars, level < Deep PROVE ~Lowers
    OBVIOUS
  <2>1. [Cluster]_louvainVars
    BY ClusterSteps
  <2>2. CASE Visit
    BY <2>2, VisitRaises
  <2>3. CASE Aggregate
    BY <2>3, AggregateRegroupsNobody, SameTerms
  <2>4. CASE Finish \/ UNCHANGED louvainVars
    <3>1. Assigned' = Assigned
      BY <2>4 DEF Finish, louvainVars, Assigned
    <3> QED BY <3>1, SameTerms
  <2> QED BY <2>1, <2>2, <2>3, <2>4 DEF Cluster
<1> QED BY <1>1, <1>2, <1>3, LouvainInvariant, PTL DEF Spec, EarlyLevelsOptimize
-----------------------------------------------------------------------------
(* Recursion over the numbers, and the walks of the stored graph.          *)

\* Values defined one from the other, as far as n.
Iterates(g, n, base, step) ==
  g[0] = base /\ \A i \in 0 .. n - 1 : g[i + 1] = step[<<i, g[i]>>]

AllIterates(f, X, base, step) ==
  f \in [Nat -> X] /\ f[0] = base /\ \A n \in Nat : f[n + 1] = step[<<n, f[n]>>]

LEMMA Recursion ==
  ASSUME NEW X, NEW base \in X, NEW step \in [Nat \X X -> X]
  PROVE  \E f : AllIterates(f, X, base, step)
<1> DEFINE N == { n \in Nat : \E g \in [0 .. n -> X] : Iterates(g, n, base, step) }
           g(n) == CHOOSE h \in [0 .. n -> X] : Iterates(h, n, base, step)
           f == [n \in Nat |-> g(n)[n]]
<1>1. 0 \in N
  <2>1. [i \in 0 .. 0 |-> base] \in [0 .. 0 -> X] /\ Iterates([i \in 0 .. 0 |-> base], 0, base, step)
    BY DEF Iterates
  <2>2. QED
    BY <2>1
<1>2. ASSUME NEW n \in Nat, n \in N PROVE n + 1 \in N
  <2>1. PICK h \in [0 .. n -> X] : Iterates(h, n, base, step)
    BY <1>2
  <2> DEFINE new == [i \in 0 .. n + 1 |-> IF i = n + 1 THEN step[<<n, h[n]>>] ELSE h[i]]
  <2>2. step[<<n, h[n]>>] \in X
    OBVIOUS
  <2>3. new \in [0 .. n + 1 -> X] /\ new[n + 1] = step[<<n, h[n]>>] /\ \A i \in 0 .. n : new[i] = h[i]
    BY <2>2
  <2> HIDE DEF new
  <2>4. \A i \in 0 .. n : new[i + 1] = step[<<i, new[i]>>]
    <3> SUFFICES ASSUME NEW i \in 0 .. n PROVE new[i + 1] = step[<<i, new[i]>>]
      OBVIOUS
    <3>1. CASE i = n
      BY <2>3, <3>1
    <3>2. CASE i # n
      <4>1. i \in 0 .. n - 1 /\ i + 1 \in 0 .. n
        BY <3>2
      <4>2. h[i + 1] = step[<<i, h[i]>>]
        BY <2>1, <4>1 DEF Iterates
      <4>3. QED
        BY <2>3, <4>1, <4>2
    <3>3. QED
      BY <3>1, <3>2
  <2>5. Iterates(new, n + 1, base, step)
    BY <2>1, <2>3, <2>4 DEF Iterates
  <2>6. QED
    BY <2>3, <2>5
<1>3. Nat \subseteq N
  <2> HIDE DEF N
  <2>1. QED
    BY <1>1, <1>2, NumbersFromZero
<1>4. \A n \in Nat : g(n) \in [0 .. n -> X] /\ Iterates(g(n), n, base, step)
  <2> SUFFICES ASSUME NEW n \in Nat PROVE g(n) \in [0 .. n -> X] /\ Iterates(g(n), n, base, step)
    OBVIOUS
  <2>1. \E h \in [0 .. n -> X] : Iterates(h, n, base, step)
    BY <1>3
  <2>2. QED
    BY <2>1, Zenon
<1> HIDE DEF g
<1>5. ASSUME NEW n \in Nat PROVE \A i \in 0 .. n : g(n + 1)[i] = g(n)[i]
  <2> DEFINE M == { i \in Nat : i <= n => g(n + 1)[i] = g(n)[i] }
  <2>1. 0 \in M
    BY <1>4 DEF Iterates
  <2>2. ASSUME NEW i \in Nat, i \in M PROVE i + 1 \in M
    <3> SUFFICES ASSUME i + 1 <= n PROVE g(n + 1)[i + 1] = g(n)[i + 1]
      OBVIOUS
    <3>1. i \in 0 .. n - 1 /\ i \in 0 .. n + 1 - 1 /\ n + 1 \in Nat
      OBVIOUS
    <3>2. g(n + 1)[i + 1] = step[<<i, g(n + 1)[i]>>] /\ g(n)[i + 1] = step[<<i, g(n)[i]>>]
      BY <1>4, <3>1 DEF Iterates
    <3>3. g(n + 1)[i] = g(n)[i]
      BY <2>2, <3>1
    <3>4. QED
      BY <3>2, <3>3
  <2> HIDE DEF M
  <2>3. Nat \subseteq M
    BY <2>1, <2>2, NumbersFromZero
  <2>4. QED
    BY <2>3 DEF M
<1>6. f \in [Nat -> X]
  <2>1. \A n \in Nat : g(n)[n] \in X
    BY <1>4
  <2>2. QED
    BY <2>1
<1>7. f[0] = base
  BY <1>4 DEF Iterates
<1>8. ASSUME NEW n \in Nat PROVE f[n + 1] = step[<<n, f[n]>>]
  <2>1. n \in 0 .. n + 1 - 1 /\ n \in 0 .. n /\ n + 1 \in Nat
    OBVIOUS
  <2>2. g(n + 1)[n + 1] = step[<<n, g(n + 1)[n]>>]
    BY <1>4, <2>1 DEF Iterates
  <2>3. g(n + 1)[n] = g(n)[n]
    BY <1>5, <2>1
  <2>4. f[n + 1] = g(n + 1)[n + 1] /\ f[n] = g(n)[n]
    BY <2>1
  <2>5. QED
    BY <2>2, <2>3, <2>4
<1> HIDE DEF f
<1>9. QED
  BY <1>6, <1>7, <1>8 DEF AllIterates

\* All that the store names.
Uids == Nodes(Size) \cup { e.from : e \in stored } \cup { e.to : e \in stored }

\* The recursive function of Within.
Balls(u) ==
  CHOOSE ball : ball = [i \in Nat |->
    IF i = 0 THEN {u} ELSE ball[i - 1] \cup UNION { Callees(v) : v \in ball[i - 1] }]

LEMMA WithinUnfolds ==
  ASSUME NEW u
  PROVE  /\ Within(u, 0) = {u}
         /\ \A d \in Nat : Within(u, d + 1) = Within(u, d) \cup UNION { Callees(v) : v \in Within(u, d) }
<1> DEFINE All == Uids \cup {u}
           X == SUBSET All
           next1(B) == B \cup UNION { Callees(v) : v \in B }
           step == [p \in Nat \X X |-> next1(p[2])]
           IsBall(b) == b = [i \in Nat |-> IF i = 0 THEN {u} ELSE next1(b[i - 1])]
<1>1. \A v : Callees(v) \subseteq Uids
  BY DEF Callees, Uids
<1>2. \A B \in X : next1(B) \in X
  BY <1>1
<1>3. step \in [Nat \X X -> X] /\ \A n \in Nat, B \in X : step[<<n, B>>] = next1(B)
  BY <1>2
<1>4. {u} \in X
  OBVIOUS
<1> HIDE DEF step, X, next1
<1>5. PICK f : AllIterates(f, X, {u}, step)
  BY <1>3, <1>4, Recursion
<1>6. \A i \in Nat : f[i] = IF i = 0 THEN {u} ELSE next1(f[i - 1])
  <2> SUFFICES ASSUME NEW i \in Nat, i # 0 PROVE f[i] = next1(f[i - 1])
    BY <1>5 DEF AllIterates
  <2>1. i - 1 \in Nat /\ i - 1 + 1 = i
    OBVIOUS
  <2>2. f[i - 1 + 1] = step[<<i - 1, f[i - 1]>>] /\ f[i - 1] \in X
    BY <1>5, <2>1 DEF AllIterates
  <2>3. QED
    BY <1>3, <2>1, <2>2
<1>7. IsBall(f)
  <2>1. f = [i \in Nat |-> f[i]]
    BY <1>5 DEF AllIterates
  <2>2. QED
    BY <1>6, <2>1
<1>8. Balls(u) = CHOOSE b : IsBall(b)
  BY DEF Balls, next1
<1>9. IsBall(Balls(u))
  <2> HIDE DEF IsBall
  <2>1. QED
    BY <1>7, <1>8
<1>10. \A d : Within(u, d) = Balls(u)[d]
  BY DEF Within, Balls
<1>11. \A i \in Nat : Balls(u)[i] = IF i = 0 THEN {u} ELSE next1(Balls(u)[i - 1])
  BY <1>9
<1>12. Within(u, 0) = {u}
  BY <1>10, <1>11
<1>13. ASSUME NEW d \in Nat PROVE Within(u, d + 1) = next1(Within(u, d))
  <2>1. d + 1 \in Nat /\ d + 1 # 0 /\ d + 1 - 1 = d
    OBVIOUS
  <2>2. Balls(u)[d + 1] = next1(Balls(u)[d])
    BY <1>11, <2>1
  <2>3. QED
    BY <1>10, <2>2
<1>14. QED
  BY <1>12, <1>13 DEF next1

\* The depth of a walk may be larger than it needs to be.
LEMMA WithinGrows ==
  ASSUME NEW u, NEW d \in Nat, NEW e \in Nat, d <= e
  PROVE  Within(u, d) \subseteq Within(u, e)
<1> DEFINE N == { n \in Nat : Within(u, d) \subseteq Within(u, d + n) }
<1>1. 0 \in N
  OBVIOUS
<1>2. ASSUME NEW n \in Nat, n \in N PROVE n + 1 \in N
  <2>1. Within(u, d + n) \subseteq Within(u, d + n + 1) /\ d + n + 1 = d + (n + 1)
    BY WithinUnfolds
  <2>2. QED
    BY <1>2, <2>1
<1> HIDE DEF N
<1>3. Nat \subseteq N
  BY <1>1, <1>2, NumbersFromZero
<1>4. e - d \in N /\ d + (e - d) = e
  BY <1>3
<1>5. QED
  BY <1>4 DEF N

\* A walk along k calls.
Walk(p, a, b, k) ==
  /\ p \in [0 .. k -> Uids] /\ p[0] = a /\ p[k] = b
  /\ \A i \in 0 .. k - 1 : p[i + 1] \in Callees(p[i])
Walks(a, b, k) == \E p : Walk(p, a, b, k)

LEMMA WalkNowhere == ASSUME NEW a \in Uids PROVE \A b : Walks(a, b, 0) <=> a = b
<1>1. Walk([i \in 0 .. 0 |-> a], a, a, 0)
  BY DEF Walk
<1>2. ASSUME NEW b, NEW p, Walk(p, a, b, 0) PROVE a = b
  BY <1>2 DEF Walk
<1>3. QED
  BY <1>1, <1>2 DEF Walks

\* A walk has a last step,
LEMMA WalkOn ==
  ASSUME NEW a, NEW b, NEW k \in Nat
  PROVE  Walks(a, b, k + 1) <=> \E c \in Uids : Walks(a, c, k) /\ b \in Callees(c)
<1>1. ASSUME NEW p, Walk(p, a, b, k + 1) PROVE \E c \in Uids : Walks(a, c, k) /\ b \in Callees(c)
  <2> DEFINE q == [i \in 0 .. k |-> p[i]]
  <2>1. k \in 0 .. k + 1 /\ 0 .. k \subseteq 0 .. k + 1 /\ k \in 0 .. k + 1 - 1 /\ 0 .. k - 1 \subseteq 0 .. k + 1 - 1
        /\ \A i \in 0 .. k - 1 : i + 1 \in 0 .. k /\ i \in 0 .. k
    OBVIOUS
  <2>2. p[k] \in Uids /\ b \in Callees(p[k])
    BY <1>1, <2>1 DEF Walk
  <2>3. Walk(q, a, p[k], k)
    BY <1>1, <2>1 DEF Walk
  <2>4. QED
    BY <2>2, <2>3 DEF Walks
<1>2. ASSUME NEW c \in Uids, NEW p, Walk(p, a, c, k), b \in Callees(c) PROVE Walks(a, b, k + 1)
  <2> DEFINE q == [i \in 0 .. k + 1 |-> IF i = k + 1 THEN b ELSE p[i]]
  <2>1. b \in Uids
    BY <1>2 DEF Callees, Uids
  <2>2. \A i \in 0 .. k : i \in 0 .. k + 1 /\ i # k + 1
    OBVIOUS
  <2>3. q \in [0 .. k + 1 -> Uids] /\ q[k + 1] = b /\ \A i \in 0 .. k : q[i] = p[i]
    BY <1>2, <2>1, <2>2 DEF Walk
  <2> HIDE DEF q
  <2>4. ASSUME NEW i \in 0 .. k + 1 - 1 PROVE q[i + 1] \in Callees(q[i])
    <3>1. CASE i = k
      BY <1>2, <2>3, <3>1 DEF Walk
    <3>2. CASE i # k
      <4>1. i \in 0 .. k - 1 /\ i \in 0 .. k /\ i + 1 \in 0 .. k
        BY <3>2
      <4>2. QED
        BY <1>2, <2>3, <4>1 DEF Walk
    <3>3. QED
      BY <3>1, <3>2
  <2>5. q[0] = a
    BY <1>2, <2>3 DEF Walk
  <2>6. Walk(q, a, b, k + 1)
    BY <2>3, <2>4, <2>5 DEF Walk
  <2>7. QED
    BY <2>6 DEF Walks
<1>3. QED
  BY <1>1, <1>2 DEF Walks

\* and a first one.
LEMMA WalkFrom ==
  ASSUME NEW a \in Uids, NEW b, NEW k \in Nat
  PROVE  Walks(a, b, k + 1) <=> \E c \in Callees(a) : Walks(c, b, k)
<1>1. ASSUME NEW p, Walk(p, a, b, k + 1) PROVE \E c \in Callees(a) : Walks(c, b, k)
  <2> DEFINE q == [i \in 0 .. k |-> p[i + 1]]
  <2>1. /\ 0 \in 0 .. k + 1 - 1 /\ \A i \in 0 .. k : i + 1 \in 0 .. k + 1
        /\ \A i \in 0 .. k - 1 : i \in 0 .. k /\ i + 1 \in 0 .. k /\ i + 1 \in 0 .. k + 1 - 1
    OBVIOUS
  <2>2. p[1] \in Callees(a)
    BY <1>1, <2>1 DEF Walk
  <2>3. Walk(q, p[1], b, k)
    <3>1. q \in [0 .. k -> Uids] /\ q[0] = p[1] /\ q[k] = b
      BY <1>1, <2>1 DEF Walk
    <3>2. \A i \in 0 .. k - 1 : q[i + 1] \in Callees(q[i])
      BY <1>1, <2>1 DEF Walk
    <3>3. QED
      BY <3>1, <3>2 DEF Walk
  <2>4. QED
    BY <2>2, <2>3 DEF Walks
<1>2. ASSUME NEW c \in Callees(a), NEW p, Walk(p, c, b, k) PROVE Walks(a, b, k + 1)
  <2> DEFINE q == [i \in 0 .. k + 1 |-> IF i = 0 THEN a ELSE p[i - 1]]
  <2>1. \A i \in 0 .. k + 1 : i # 0 => i - 1 \in 0 .. k
    OBVIOUS
  <2>2. q \in [0 .. k + 1 -> Uids] /\ q[0] = a /\ \A i \in 0 .. k + 1 : i # 0 => q[i] = p[i - 1]
    BY <1>2, <2>1 DEF Walk
  <2> HIDE DEF q
  <2>3. ASSUME NEW i \in 0 .. k + 1 - 1 PROVE q[i + 1] \in Callees(q[i])
    <3>1. i + 1 \in 0 .. k + 1 /\ i + 1 # 0 /\ i + 1 - 1 = i
      OBVIOUS
    <3>2. q[i + 1] = p[i]
      BY <2>2, <3>1
    <3>3. CASE i = 0
      BY <1>2, <2>2, <3>2, <3>3 DEF Walk
    <3>4. CASE i # 0
      <4>1. i - 1 \in 0 .. k - 1 /\ i - 1 + 1 = i /\ i \in 0 .. k + 1
        BY <3>4
      <4>2. p[i - 1 + 1] \in Callees(p[i - 1])
        BY <1>2, <4>1 DEF Walk
      <4>3. QED
        BY <2>2, <3>2, <3>4, <4>1, <4>2
    <3>5. QED
      BY <3>3, <3>4
  <2>4. q[k + 1] = b
    <3>1. k + 1 \in 0 .. k + 1 /\ k + 1 # 0 /\ k + 1 - 1 = k
      OBVIOUS
    <3>2. QED
      BY <1>2, <2>2, <3>1 DEF Walk
  <2>5. Walk(q, a, b, k + 1)
    BY <2>2, <2>3, <2>4 DEF Walk
  <2>6. QED
    BY <2>5 DEF Walks
<1>3. QED
  BY <1>1, <1>2 DEF Walks

\* Within has what walks lead to.
LEMMA WithinIsWalks ==
  ASSUME NEW u \in Uids, NEW d \in Nat
  PROVE  \A v : v \in Within(u, d) <=> \E k \in 0 .. d : Walks(u, v, k)
<1> DEFINE N == { n \in Nat : \A v : v \in Within(u, n) <=> \E k \in 0 .. n : Walks(u, v, k) }
<1>1. 0 \in N
  BY WalkNowhere, WithinUnfolds
<1>2. ASSUME NEW n \in Nat, n \in N PROVE n + 1 \in N
  <2>1. Within(u, n + 1) = Within(u, n) \cup UNION { Callees(v) : v \in Within(u, n) }
    BY WithinUnfolds
  <2>2. \A v : v \in Within(u, n) <=> \E k \in 0 .. n : Walks(u, v, k)
    BY <1>2
  <2>3. ASSUME NEW v, v \in Within(u, n + 1) PROVE \E k \in 0 .. n + 1 : Walks(u, v, k)
    <3>1. CASE v \in Within(u, n)
      <4>1. PICK k \in 0 .. n : Walks(u, v, k)
        BY <2>2, <3>1
      <4>2. k \in 0 .. n + 1
        OBVIOUS
      <4>3. QED
        BY <4>1, <4>2
    <3>2. CASE v \notin Within(u, n)
      <4>1. PICK c \in Within(u, n) : v \in Callees(c)
        BY <2>1, <2>3, <3>2
      <4>2. PICK k \in 0 .. n : Walks(u, c, k)
        BY <2>2, <4>1
      <4>3. c \in Uids
        BY <4>2 DEF Walks, Walk
      <4>4. Walks(u, v, k + 1) /\ k + 1 \in 0 .. n + 1
        BY <4>1, <4>2, <4>3, WalkOn
      <4>5. QED
        BY <4>4
    <3>3. QED
      BY <3>1, <3>2
  <2>4. ASSUME NEW v, NEW k \in 0 .. n + 1, Walks(u, v, k) PROVE v \in Within(u, n + 1)
    <3>1. CASE k \in 0 .. n
      BY <2>1, <2>2, <2>4, <3>1
    <3>2. CASE k = n + 1
      <4>1. PICK c \in Uids : Walks(u, c, n) /\ v \in Callees(c)
        BY <2>4, <3>2, WalkOn
      <4>2. c \in Within(u, n)
        BY <2>2, <4>1
      <4>3. QED
        BY <2>1, <4>1, <4>2
    <3>3. QED
      BY <3>1, <3>2
  <2>5. QED
    BY <2>3, <2>4
<1> HIDE DEF N
<1>3. d \in N
  BY <1>1, <1>2, NumbersFromZero
<1>4. QED
  BY <1>3 DEF N

\* The recursive function of Impact.
FirstRows(u, links) == { <<l[2], 1>> : l \in { x \in links : x[1] = u } }
MoreRows(above, links, d, e) == { <<l[2], e>> : l \in { x \in links : <<x[1], d>> \in above } }
Rows(u, links) ==
  CHOOSE rows : rows = [d \in Nat |->
    IF d <= 1 THEN FirstRows(u, links) ELSE rows[d - 1] \cup MoreRows(rows[d - 1], links, d - 1, d)]

HasRow(above, w, d) == <<w, d>> \in above
LEMMA MoreRowsAre ==
  ASSUME NEW above, NEW links, NEW d, NEW e, NEW r
  PROVE  r \in MoreRows(above, links, d, e) <=> \E l \in links : HasRow(above, l[1], d) /\ r = <<l[2], e>>
BY DEF MoreRows, HasRow

LEMMA RowsUnfold ==
  ASSUME NEW u, NEW links
  PROVE  /\ Rows(u, links)[1] = FirstRows(u, links)
         /\ \A d \in Nat \ {0} :
              Rows(u, links)[d + 1] = Rows(u, links)[d] \cup MoreRows(Rows(u, links)[d], links, d, d + 1)
<1> DEFINE X == SUBSET ({ l[2] : l \in links } \X Nat)
           first == FirstRows(u, links)
           value(d, B) == IF d <= 1 THEN first ELSE B \cup MoreRows(B, links, d - 1, d)
           step == [p \in Nat \X X |-> value(p[1] + 1, p[2])]
           IsRows(b) == b = [d \in Nat |-> value(d, b[d - 1])]
<1>1. first \in X /\ \A d \in Nat, B \in X : MoreRows(B, links, d - 1, d) \in X
  <2>1. ASSUME NEW l \in links, NEW d \in Nat PROVE <<l[2], d>> \in { k[2] : k \in links } \X Nat
    OBVIOUS
  <2>2. first \in X
    BY <2>1 DEF FirstRows
  <2>3. ASSUME NEW d \in Nat, NEW B \in X PROVE MoreRows(B, links, d - 1, d) \in X
    <3> DEFINE some == { x \in links : <<x[1], d - 1>> \in B }
    <3>1. some \subseteq links
      OBVIOUS
    <3> HIDE DEF some
    <3>2. { <<l[2], d>> : l \in some } \subseteq { k[2] : k \in links } \X Nat
      BY <2>1, <3>1
    <3>3. QED
      BY <3>2 DEF MoreRows, some
  <2>4. QED
    BY <2>2, <2>3
<1>2. \A d \in Nat, B \in X : value(d, B) \in X
  <2>1. \A B \in X, D \in X : B \cup D \in X
    OBVIOUS
  <2> HIDE DEF X, first
  <2>2. QED
    BY <1>1, <2>1
<1>3. step \in [Nat \X X -> X] /\ \A n \in Nat, B \in X : step[<<n, B>>] = value(n + 1, B)
  <2> HIDE DEF X, value
  <2>1. QED
    BY <1>2
<1>4. \A B : value(0, B) = first
  OBVIOUS
<1> HIDE DEF step, X, value, first
<1>5. PICK f : AllIterates(f, X, first, step)
  BY <1>1, <1>3, Recursion
<1>6. \A d \in Nat : f[d] = value(d, f[d - 1])
  <2> SUFFICES ASSUME NEW d \in Nat, d # 0 PROVE f[d] = value(d, f[d - 1])
    BY <1>4, <1>5 DEF AllIterates
  <2>1. d - 1 \in Nat /\ d - 1 + 1 = d
    OBVIOUS
  <2>2. f[d - 1 + 1] = step[<<d - 1, f[d - 1]>>] /\ f[d - 1] \in X
    BY <1>5, <2>1 DEF AllIterates
  <2>3. QED
    BY <1>3, <2>1, <2>2
<1>7. IsRows(f)
  <2>1. f = [d \in Nat |-> f[d]]
    BY <1>5 DEF AllIterates
  <2>2. QED
    BY <1>6, <2>1
<1>8. Rows(u, links) = CHOOSE b : IsRows(b)
  BY DEF Rows, value, first
<1>9. IsRows(Rows(u, links))
  <2> HIDE DEF IsRows
  <2>1. QED
    BY <1>7, <1>8
<1>10. \A d \in Nat : Rows(u, links)[d] = value(d, Rows(u, links)[d - 1])
  BY <1>9
<1>11. Rows(u, links)[1] = first
  <2>1. Rows(u, links)[1] = value(1, Rows(u, links)[1 - 1])
    BY <1>10
  <2>2. \A B : value(1, B) = first
    BY DEF value
  <2>3. QED
    BY <2>1, <2>2
<1>12. ASSUME NEW d \in Nat \ {0}
       PROVE  Rows(u, links)[d + 1] = Rows(u, links)[d] \cup MoreRows(Rows(u, links)[d], links, d, d + 1)
  <2>1. d + 1 \in Nat /\ d + 1 - 1 = d /\ ~ (d + 1 <= 1)
    OBVIOUS
  <2>2. Rows(u, links)[d + 1] = value(d + 1, Rows(u, links)[d])
    BY <1>10, <2>1
  <2>3. QED
    BY <2>1, <2>2 DEF value
<1>13. QED
  BY <1>11, <1>12 DEF first

\* Calls lead from the subject to a row of a downstream query, and from a row of
\* an upstream query to its subject.
Leads(direction, u, w, k) ==
  IF direction = "upstream" THEN Walks(w, u, k) ELSE Walks(u, w, k)

\* The links of a downstream query are the calls, those of an upstream one are
\* the calls reversed.
LEMMA LinksAreCalls ==
  ASSUME stored \in Calls
  PROVE  /\ \A l \in Links("upstream", 0) : l = <<l[1], l[2]>> /\ l[1] \in Callees(l[2]) /\ l[2] \in Uids
         /\ \A b : \A a \in Callees(b) : <<a, b>> \in Links("upstream", 0) /\ a \in Uids /\ b \in Uids
         /\ \A l \in Links("downstream", 0) : l = <<l[1], l[2]>> /\ l[2] \in Callees(l[1]) /\ l[1] \in Uids
         /\ \A b : \A a \in Callees(b) : <<b, a>> \in Links("downstream", 0)
<1>1. \A e \in stored : e.confidence >= 0 /\ e.type # "IMPORTS"
  BY LouvainAssumption, TracerAssumption
<1>2. Links("upstream", 0) = { <<e.to, e.from>> : e \in { x \in stored : x.type = "CALLS" } }
  BY <1>1 DEF Links, Relevant, Ends
<1>3. Links("downstream", 0) = { <<e.from, e.to>> : e \in { x \in stored : x.type = "CALLS" } }
  BY <1>1 DEF Links, Relevant, Ends
<1>4. QED
  BY <1>2, <1>3 DEF Callees, Uids

\* What leads to a row one link further leads to the other end of that link.
LEMMA LeadsOn ==
  ASSUME stored \in Calls, NEW direction \in {"downstream", "upstream"}, NEW u \in Uids, NEW w, NEW k \in Nat
  PROVE  /\ Leads(direction, u, w, k + 1) <=>
              \E c : <<c, w>> \in Links(direction, 0) /\ Leads(direction, u, c, k)
         /\ \A c : <<c, w>> \in Links(direction, 0) => (Leads(direction, u, c, 0) <=> c = u)
<1>1. CASE direction = "upstream"
  <2> DEFINE links == Links("upstream", 0)
  <2>1. /\ \A c : <<c, w>> \in links <=> c \in Callees(w)
        /\ \A c \in Callees(w) : c \in Uids /\ w \in Uids
    <3>1. ASSUME NEW c, <<c, w>> \in links PROVE c \in Callees(w)
      <4>1. <<c, w>>[1] \in Callees(<<c, w>>[2])
        BY <3>1, LinksAreCalls
      <4>2. QED
        BY <4>1
    <3>2. \A c \in Callees(w) : <<c, w>> \in links /\ c \in Uids /\ w \in Uids
      BY LinksAreCalls
    <3>3. QED
      BY <3>1, <3>2
  <2> HIDE DEF links
  <2>2. Walks(w, u, k + 1) <=> \E c : c \in Callees(w) /\ Walks(c, u, k)
    <3>1. CASE w \in Uids
      BY <3>1, WalkFrom
    <3>2. CASE w \notin Uids
      <4>1. ASSUME NEW p, Walk(p, w, u, k + 1) PROVE FALSE
        <5>1. 0 \in 0 .. k + 1
          OBVIOUS
        <5>2. QED
          BY <3>2, <4>1, <5>1 DEF Walk
      <4>2. QED
        BY <2>1, <3>2, <4>1 DEF Walks
    <3>3. QED
      BY <3>1, <3>2
  <2>3. \A c \in Callees(w) : Walks(c, u, 0) <=> c = u
    BY <2>1, WalkNowhere
  <2>4. \A c, n : Leads(direction, u, c, n) <=> Walks(c, u, n)
    BY <1>1 DEF Leads
  <2>5. QED
    BY <1>1, <2>1, <2>2, <2>3, <2>4 DEF links
<1>2. CASE direction = "downstream"
  <2> DEFINE links == Links("downstream", 0)
  <2>1. \A c : <<c, w>> \in links <=> c \in Uids /\ w \in Callees(c)
    <3>1. ASSUME NEW c, <<c, w>> \in links PROVE c \in Uids /\ w \in Callees(c)
      <4>1. <<c, w>>[2] \in Callees(<<c, w>>[1]) /\ <<c, w>>[1] \in Uids
        BY <3>1, LinksAreCalls
      <4>2. QED
        BY <4>1
    <3>2. \A c : w \in Callees(c) => <<c, w>> \in links
      BY LinksAreCalls
    <3>3. QED
      BY <3>1, <3>2
  <2> HIDE DEF links
  <2>2. Walks(u, w, k + 1) <=> \E c \in Uids : Walks(u, c, k) /\ w \in Callees(c)
    BY WalkOn
  <2>3. \A c : Walks(u, c, 0) <=> c = u
    BY WalkNowhere
  <2>4. \A c, n : Leads(direction, u, c, n) <=> Walks(u, c, n)
    BY <1>2 DEF Leads
  <2>5. QED
    BY <1>2, <2>1, <2>2, <2>3, <2>4 DEF links
<1>3. QED
  BY <1>1, <1>2

\* A row of a query says how far calls lead between its subject and the row.
LEMMA RowsAreWalks ==
  ASSUME stored \in Calls, NEW direction \in {"downstream", "upstream"}, NEW u \in Uids, NEW D \in Nat \ {0}
  PROVE  \A w, j : <<w, j>> \in Impact(u, direction, 0, D) <=> j \in 1 .. D /\ Leads(direction, u, w, j)
<1> DEFINE links == Links(direction, 0)
           rows(d) == Rows(u, links)[d]
           N == { n \in Nat : \A w, j : <<w, j>> \in rows(n + 1) <=> j \in 1 .. n + 1 /\ Leads(direction, u, w, j) }
<1>1. \A l \in links : l = <<l[1], l[2]>>
  BY LinksAreCalls
<1>2. rows(1) = FirstRows(u, links)
      /\ \A d \in Nat \ {0} : rows(d + 1) = rows(d) \cup MoreRows(rows(d), links, d, d + 1)
  BY RowsUnfold
<1>3. \A c, w : <<c, w>> \in links => (Leads(direction, u, c, 0) <=> c = u)
  BY LeadsOn
<1>4. ASSUME NEW w, NEW k \in Nat
      PROVE  Leads(direction, u, w, k + 1) <=> \E c : <<c, w>> \in links /\ Leads(direction, u, c, k)
  BY LeadsOn
<1> HIDE DEF links, rows
<1>5. 0 \in N
  <2>1. \A w, j : <<w, j>> \in FirstRows(u, links) <=> j = 1 /\ <<u, w>> \in links
    <3>1. \A w, j : <<w, j>> \in FirstRows(u, links) => j = 1 /\ <<u, w>> \in links
      BY <1>1 DEF FirstRows
    <3>2. ASSUME NEW w, <<u, w>> \in links PROVE <<w, 1>> \in FirstRows(u, links)
      <4>1. <<u, w>> \in { x \in links : x[1] = u } /\ <<w, 1>> = <<<<u, w>>[2], 1>>
        BY <3>2
      <4>2. QED
        BY <4>1 DEF FirstRows
    <3>3. QED
      BY <3>1, <3>2
  <2>2. ASSUME NEW w PROVE Leads(direction, u, w, 1) <=> <<u, w>> \in links
    <3>1. Leads(direction, u, w, 0 + 1) <=> \E c : <<c, w>> \in links /\ Leads(direction, u, c, 0)
      BY <1>4
    <3>2. \A c : <<c, w>> \in links => (Leads(direction, u, c, 0) <=> c = u)
      BY <1>3
    <3>3. 0 + 1 = 1
      OBVIOUS
    <3>4. Leads(direction, u, w, 1) <=> \E c : <<c, w>> \in links /\ Leads(direction, u, c, 0)
      BY <3>1, <3>3
    <3>5. QED
      BY <3>2, <3>4, Zenon
  <2>3. \A j : j \in 1 .. 0 + 1 <=> j = 1
    OBVIOUS
  <2>4. ASSUME NEW w, NEW j PROVE <<w, j>> \in rows(1) <=> j \in 1 .. 1 /\ Leads(direction, u, w, j)
    <3>1. rows(1) = FirstRows(u, links)
      BY <1>2
    <3>2. <<w, j>> \in rows(1) <=> j = 1 /\ <<u, w>> \in links
      BY <2>1, <3>1
    <3>3. j = 1 => (Leads(direction, u, w, j) <=> <<u, w>> \in links)
      BY <2>2
    <3>4. QED
      BY <3>2, <3>3
  <2>5. 0 + 1 = 1
    OBVIOUS
  <2>6. QED
    BY <2>4, <2>5
<1>6. ASSUME NEW n \in Nat, n \in N PROVE n + 1 \in N
  <2> DEFINE d == n + 1
  <2>1. d \in Nat \ {0} /\ n + 1 \in Nat
    OBVIOUS
  <2>2. \A w, j : <<w, j>> \in rows(d) <=> j \in 1 .. d /\ Leads(direction, u, w, j)
    BY <1>6
  <2> HIDE DEF d
  <2>3. \A w, j : <<w, j>> \in MoreRows(rows(d), links, d, d + 1) <=> j = d + 1 /\ Leads(direction, u, w, d + 1)
    <3> DEFINE e == d + 1
               more == MoreRows(rows(d), links, d, e)
    <3> HIDE DEF e
    <3>1. \A r : r \in more <=> \E l \in links : HasRow(rows(d), l[1], d) /\ r = <<l[2], e>>
      BY MoreRowsAre
    <3> HIDE DEF more
    <3>2. \A w, j : <<w, j>> \in more <=> \E l \in links : HasRow(rows(d), l[1], d) /\ w = l[2] /\ j = e
      BY <3>1
    <3>3. ASSUME NEW w, NEW j, <<w, j>> \in more
          PROVE  j = e /\ Leads(direction, u, w, d + 1)
      <4>1. PICK l \in links : HasRow(rows(d), l[1], d) /\ w = l[2] /\ j = e
        BY <3>2, <3>3
      <4>2. <<l[1], w>> \in links /\ Leads(direction, u, l[1], d)
        BY <1>1, <2>2, <4>1 DEF HasRow
      <4>3. QED
        BY <1>4, <2>1, <4>1, <4>2
    <3>4. ASSUME NEW w, Leads(direction, u, w, d + 1) PROVE <<w, e>> \in more
      <4>1. PICK c : <<c, w>> \in links /\ Leads(direction, u, c, d)
        BY <1>4, <2>1, <3>4
      <4>2. <<c, w>> \in links /\ <<c, d>> \in rows(d)
        BY <1>1, <2>1, <2>2, <4>1
      <4>3. HasRow(rows(d), <<c, w>>[1], d) /\ w = <<c, w>>[2]
        BY <4>2 DEF HasRow
      <4>4. QED
        BY <3>2, <4>2, <4>3
    <3>5. \A w, j : <<w, j>> \in more <=> j = e /\ Leads(direction, u, w, d + 1)
      BY <3>3, <3>4
    <3>6. QED
      BY <3>5 DEF more, e
  <2>4. \A j : j \in 1 .. d + 1 <=> j \in 1 .. d \/ j = d + 1
    BY <2>1
  <2>5. \A w, j : <<w, j>> \in rows(d + 1) <=> j \in 1 .. d + 1 /\ Leads(direction, u, w, j)
    BY <1>2, <2>1, <2>2, <2>3, <2>4
  <2>6. QED
    BY <2>1, <2>5 DEF d
<1> HIDE DEF N
<1>7. Nat \subseteq N
  BY <1>5, <1>6, NumbersFromZero
<1>8. D - 1 \in N /\ D - 1 + 1 = D
  BY <1>7
<1>9. \A w, j : <<w, j>> \in rows(D) <=> j \in 1 .. D /\ Leads(direction, u, w, j)
  BY <1>8 DEF N
<1>10. Impact(u, direction, 0, D) = rows(D)
  BY DEF Impact, Rows, FirstRows, MoreRows, rows, links
<1>11. QED
  BY <1>9, <1>10
-----------------------------------------------------------------------------
(* TraceProcess.                                                           *)

\* The rows of a query, in whatever order, have every element once.
LEMMA OrdersHaveAll ==
  ASSUME NEW S, IsFiniteSet(S), NEW order \in Orders(S)
  PROVE  /\ Cardinality(S) \in Nat /\ order \in [1 .. Cardinality(S) -> S]
         /\ \A i, j \in 1 .. Cardinality(S) : order[i] = order[j] => i = j
         /\ \A v \in S : \E i \in 1 .. Cardinality(S) : order[i] = v
<1> DEFINE n == Cardinality(S)
<1>1. n \in Nat
  BY FS_CardinalityType
<1>2. order \in [1 .. n -> S] /\ \A i, j \in 1 .. n : order[i] = order[j] => i = j
  BY DEF Orders
<1> HIDE DEF n
<1>3. order \in Injection(1 .. n, S)
  BY <1>2 DEF Injection, IsInjective
<1>4. Cardinality(1 .. n) = n
  <2>1. Cardinality(1 .. n) = IF 1 > n THEN 0 ELSE n - 1 + 1
    BY <1>1, FS_Interval
  <2>2. QED
    BY <1>1, <2>1
<1>5. order \in Surjection(1 .. n, S)
  <2>1. Cardinality(1 .. n) = Cardinality(S) <=> order \in Surjection(1 .. n, S)
    BY <1>3, FS_Injection
  <2>2. QED
    BY <1>4, <2>1 DEF n
<1>6. QED
  BY <1>1, <1>2, <1>5 DEF n, Surjection

Item == [uid : Uids, depth : Nat]

\* How many items have been taken from the queue; the others are in it, in order.
Done == Len(steps) - Len(queue)

TraceTypes ==
  /\ stored \in Calls
  /\ steps \in Seq(Item) /\ queue \in Seq(Item)
  /\ Len(queue) <= Len(steps)
  /\ \A i \in 1 .. Len(queue) : queue[i] = steps[Done + i]
  /\ entry = NoEntry => steps = <<>> /\ queue = <<>> /\ flowType = "unknown"
  /\ entry # NoEntry => /\ entry \in Nodes(Size)
                        /\ Len(steps) >= 1 /\ steps[1] = [uid |-> entry, depth |-> 0]
  /\ flowType # "unknown" => queue = <<>>
  /\ complete \in BOOLEAN

NoNearerThanCalls ==
  \A i \in DOMAIN steps : /\ steps[i].depth <= TraceDepth
                          /\ steps[i].uid \in Within(entry, steps[i].depth)

CalleesHaveSteps ==
  complete => \A i \in 1 .. Done : steps[i].depth < TraceDepth =>
    \A v \in Callees(steps[i].uid) :
      \E k \in DOMAIN steps : steps[k].uid = v /\ steps[k].depth <= steps[i].depth + 1

\* What TracesNearest rests on.  The steps are in the order of their depths, and
\* those of the queue are at most one deeper than its head; each symbol is in
\* one, no nearer than calls lead to it; and what a treated one calls has one,
\* unless a query has failed.
BreadthFirst ==
  /\ \A i, j \in DOMAIN steps : steps[i].uid = steps[j].uid => i = j
  /\ \A i, j \in DOMAIN steps : i <= j => steps[i].depth <= steps[j].depth
  /\ queue # <<>> => \A i \in DOMAIN steps : steps[i].depth <= steps[Done + 1].depth + 1
  /\ NoNearerThanCalls
  /\ CalleesHaveSteps

LEMMA Concatenation ==
  ASSUME NEW X, NEW s \in Seq(X), NEW t \in Seq(X)
  PROVE  /\ s \o t \in Seq(X) /\ Len(s \o t) = Len(s) + Len(t)
         /\ \A i \in 1 .. Len(s) : (s \o t)[i] = s[i]
         /\ \A i \in 1 .. Len(t) : (s \o t)[Len(s) + i] = t[i]
<1>1. /\ Len(s) \in Nat /\ Len(t) \in Nat /\ s \o t \in Seq(X) /\ Len(s \o t) = Len(s) + Len(t)
      /\ \A i \in 1 .. Len(s) + Len(t) : (s \o t)[i] = IF i <= Len(s) THEN s[i] ELSE t[i - Len(s)]
  OBVIOUS
<1>2. \A i \in 1 .. Len(t) : Len(s) + i \in 1 .. Len(s) + Len(t) /\ ~ (Len(s) + i <= Len(s)) /\ Len(s) + i - Len(s) = i
  BY <1>1
<1>3. QED
  BY <1>1, <1>2

\* What a turn of the loop adds.
Targets(item) == IF TooDeep(item.depth) THEN {} ELSE Fresh(item.uid)

LEMMA ExpandAdds ==
  ASSUME TraceTypes, Expand
  PROVE  /\ Done + 1 \in 1 .. Len(steps) /\ Done' = Done + 1 /\ Len(steps') \in Nat
         /\ steps' \in Seq(Item) /\ queue' \in Seq(Item)
         /\ Len(steps) <= Len(steps') /\ Len(queue') <= Len(steps')
         /\ \A i \in 1 .. Len(steps) : steps'[i] = steps[i]
         /\ \A i \in Len(steps) + 1 .. Len(steps') :
              steps'[i].uid \in Targets(steps[Done + 1]) /\ steps'[i].depth = steps[Done + 1].depth + 1
         /\ \A i, j \in Len(steps) + 1 .. Len(steps') : steps'[i].uid = steps'[j].uid => i = j
         /\ \A v \in Targets(steps[Done + 1]) : \E i \in Len(steps) + 1 .. Len(steps') : steps'[i].uid = v
         /\ \A i \in 1 .. Len(queue') : queue'[i] = steps'[Done' + i]
<1> DEFINE item == Head(queue)
           S == Targets(item)
           n == Cardinality(S)
<1>1. /\ steps \in Seq(Item) /\ queue \in Seq(Item) /\ queue # <<>>
      /\ Len(steps) \in Nat /\ Len(queue) \in Nat /\ Len(queue) >= 1 /\ Len(queue) <= Len(steps)
  BY DEF TraceTypes, Expand
<1>2. item = steps[Done + 1] /\ item \in Item /\ Done + 1 \in 1 .. Len(steps) /\ Done \in Nat
  BY <1>1 DEF TraceTypes, Done
<1>3. PICK order \in Orders(S) :
        LET new == [i \in DOMAIN order |-> [uid |-> order[i], depth |-> item.depth + 1]]
        IN  queue' = Tail(queue) \o new /\ steps' = steps \o new
  BY DEF Expand, Targets
<1> DEFINE new == [i \in 1 .. n |-> [uid |-> order[i], depth |-> item.depth + 1]]
<1>4. IsFiniteSet(S) /\ S \subseteq Uids
  <2>1. Callees(item.uid) \subseteq Uids /\ IsFiniteSet(Callees(item.uid))
    <3> DEFINE calls == { x \in stored : x.type = "CALLS" /\ x.from = item.uid }
               f == [e \in calls |-> e.to]
    <3>1. IsFiniteSet(stored) /\ calls \in SUBSET stored
      BY LouvainAssumption DEF TraceTypes
    <3>2. IsFiniteSet(calls)
      BY <3>1, FS_Subset
    <3>3. f \in Surjection(calls, Callees(item.uid))
      BY DEF Surjection, Callees
    <3> HIDE DEF f, calls
    <3>4. IsFiniteSet(Callees(item.uid))
      BY <3>2, <3>3, FS_Surjection
    <3>5. QED
      BY <3>4 DEF Callees, Uids
  <2>2. S \in SUBSET Callees(item.uid)
    BY DEF Targets, Fresh
  <2>3. QED
    BY <2>1, <2>2, FS_Subset
<1> HIDE DEF S
<1>5. /\ n \in Nat /\ order \in [1 .. n -> S]
      /\ \A i, j \in 1 .. n : order[i] = order[j] => i = j
      /\ \A v \in S : \E i \in 1 .. n : order[i] = v
  BY <1>4, OrdersHaveAll
<1> HIDE DEF n, item
<1>6. /\ new \in Seq(Item) /\ Len(new) = n
      /\ \A i \in 1 .. n : new[i].uid = order[i] /\ new[i].depth = item.depth + 1
  <2>1. \A i \in 1 .. n : [uid |-> order[i], depth |-> item.depth + 1] \in Item
    BY <1>2, <1>4, <1>5 DEF Item
  <2>2. QED
    BY <1>5, <2>1
<1>7. queue' = Tail(queue) \o new /\ steps' = steps \o new
  <2>1. DOMAIN order = 1 .. n
    BY <1>5
  <2>2. QED
    BY <1>3, <2>1
<1> HIDE DEF new
<1>8. Tail(queue) \in Seq(Item) /\ Len(Tail(queue)) = Len(queue) - 1
      /\ \A i \in 1 .. Len(queue) - 1 : Tail(queue)[i] = queue[i + 1]
  BY <1>1
<1>9. /\ steps' \in Seq(Item) /\ Len(steps') = Len(steps) + n
      /\ \A i \in 1 .. Len(steps) : steps'[i] = steps[i]
      /\ \A i \in 1 .. n : steps'[Len(steps) + i] = new[i]
  <2>1. /\ steps \o new \in Seq(Item) /\ Len(steps \o new) = Len(steps) + Len(new)
        /\ \A i \in 1 .. Len(steps) : (steps \o new)[i] = steps[i]
        /\ \A i \in 1 .. Len(new) : (steps \o new)[Len(steps) + i] = new[i]
    <3>1. new \in Seq(Item)
      BY <1>6
    <3>2. QED
      BY <1>1, <3>1, Concatenation
  <2>2. Len(new) = n
    BY <1>6
  <2> DEFINE both == steps \o new
  <2>3. steps' = both
    BY <1>7
  <2> HIDE DEF both
  <2>4. QED
    BY <2>1, <2>2, <2>3 DEF both
<1>10. /\ queue' \in Seq(Item) /\ Len(queue') = Len(queue) - 1 + n
       /\ \A i \in 1 .. Len(queue) - 1 : queue'[i] = queue[i + 1]
       /\ \A i \in 1 .. n : queue'[Len(queue) - 1 + i] = new[i]
  <2> DEFINE rest == Tail(queue)
  <2>1. /\ rest \in Seq(Item) /\ Len(rest) = Len(queue) - 1
        /\ \A i \in 1 .. Len(queue) - 1 : rest[i] = queue[i + 1]
        /\ queue' = rest \o new
    BY <1>7, <1>8
  <2> HIDE DEF rest
  <2>2. /\ rest \o new \in Seq(Item) /\ Len(rest \o new) = Len(rest) + Len(new)
        /\ \A i \in 1 .. Len(rest) : (rest \o new)[i] = rest[i]
        /\ \A i \in 1 .. Len(new) : (rest \o new)[Len(rest) + i] = new[i]
    <3>1. rest \in Seq(Item)
      BY <2>1
    <3>2. new \in Seq(Item)
      BY <1>6
    <3>3. QED
      BY <3>1, <3>2, Concatenation
  <2>3. Len(new) = n
    BY <1>6
  <2> DEFINE both == rest \o new
  <2>4. queue' = both
    BY <2>1
  <2> HIDE DEF both
  <2>5. QED
    BY <2>1, <2>2, <2>3, <2>4 DEF both
<1>11. Done' = Done + 1 /\ Len(steps') \in Nat /\ Len(steps) <= Len(steps') /\ Len(queue') <= Len(steps')
  BY <1>1, <1>5, <1>9, <1>10 DEF Done
<1>12. \A i \in Len(steps) + 1 .. Len(steps') : i - Len(steps) \in 1 .. n /\ steps'[i] = new[i - Len(steps)]
  <2> SUFFICES ASSUME NEW i \in Len(steps) + 1 .. Len(steps')
               PROVE  i - Len(steps) \in 1 .. n /\ steps'[i] = new[i - Len(steps)]
    OBVIOUS
  <2>1. i - Len(steps) \in 1 .. n /\ Len(steps) + (i - Len(steps)) = i
    BY <1>1, <1>5, <1>9
  <2>2. QED
    BY <1>9, <2>1
<1>13. \A i \in Len(steps) + 1 .. Len(steps') : steps'[i].uid \in S /\ steps'[i].depth = item.depth + 1
  BY <1>5, <1>6, <1>12
<1>14. ASSUME NEW i \in Len(steps) + 1 .. Len(steps'), NEW j \in Len(steps) + 1 .. Len(steps'),
              steps'[i].uid = steps'[j].uid
       PROVE  i = j
  <2>1. order[i - Len(steps)] = order[j - Len(steps)]
    BY <1>6, <1>12, <1>14
  <2>2. i - Len(steps) = j - Len(steps)
    BY <1>5, <1>12, <2>1
  <2>3. QED
    BY <1>1, <2>2
<1>15. ASSUME NEW v \in S PROVE \E i \in Len(steps) + 1 .. Len(steps') : steps'[i].uid = v
  <2>1. PICK i \in 1 .. n : order[i] = v
    BY <1>5
  <2>2. Len(steps) + i \in Len(steps) + 1 .. Len(steps') /\ steps'[Len(steps) + i].uid = v
    BY <1>1, <1>5, <1>6, <1>9, <2>1
  <2>3. QED
    BY <2>2
<1>16. ASSUME NEW i \in 1 .. Len(queue') PROVE queue'[i] = steps'[Done' + i]
  <2>1. CASE i \in 1 .. Len(queue) - 1
    <3>1. i + 1 \in 1 .. Len(queue) /\ Done + (i + 1) = Done' + i /\ Done + (i + 1) \in 1 .. Len(steps)
      BY <1>1, <1>2, <1>11, <2>1 DEF Done
    <3>2. queue[i + 1] = steps[Done + (i + 1)]
      BY <3>1 DEF TraceTypes
    <3>3. QED
      BY <1>9, <1>10, <2>1, <3>1, <3>2
  <2>2. CASE i \notin 1 .. Len(queue) - 1
    <3>1. /\ i - (Len(queue) - 1) \in 1 .. n /\ Len(queue) - 1 + (i - (Len(queue) - 1)) = i
          /\ Len(steps) + (i - (Len(queue) - 1)) = Done' + i
      <4>1. i \in Int /\ 1 <= i /\ i <= Len(queue) - 1 + n /\ Len(queue) - 1 < i
        BY <1>1, <1>5, <1>10, <2>2
      <4>2. Done' = Len(steps) - Len(queue) + 1
        BY <1>11 DEF Done
      <4>3. QED
        BY <1>1, <1>5, <4>1, <4>2
    <3>2. QED
      BY <1>9, <1>10, <3>1
  <2>3. QED
    BY <2>1, <2>2
<1>17. QED
  BY <1>2, <1>9, <1>10, <1>11, <1>13, <1>14, <1>15, <1>16 DEF S

\* The stored edges do not change.
LEMMA TraceFrame ==
  ASSUME stored' = stored
  PROVE  /\ Uids' = Uids /\ Item' = Item
         /\ \A u : Callees(u)' = Callees(u)
         /\ \A u, d : Within(u, d)' = Within(u, d)
<1>1. Uids' = Uids /\ Item' = Item
  BY DEF Uids, Item
<1>2. \A u : Callees(u)' = Callees(u)
  BY DEF Callees
<1>3. \A u, d : Within(u, d)' = Within(u, d)
  BY DEF Within, Callees
<1>4. QED
  BY <1>1, <1>2, <1>3

LEMMA ExpandKeeps ==
  ASSUME TraceTypes, BreadthFirst, Expand
  PROVE  TraceTypes' /\ BreadthFirst'
<1> DEFINE head == steps[Done + 1]
<1>1. /\ stored' = stored /\ entry' = entry /\ flowType' = flowType /\ complete' = complete /\ queue # <<>>
  BY DEF Expand, louvainVars
<1>2. /\ entry # NoEntry /\ flowType = "unknown" /\ Len(steps) \in Nat /\ Len(steps) >= 1
      /\ steps[1] = [uid |-> entry, depth |-> 0] /\ Done \in Nat
      /\ \A i \in 1 .. Len(steps) : steps[i] \in Item
  BY <1>1 DEF TraceTypes, Done
<1>3. /\ Done + 1 \in 1 .. Len(steps) /\ Done' = Done + 1 /\ Len(steps') \in Nat
      /\ steps' \in Seq(Item) /\ queue' \in Seq(Item)
      /\ Len(steps) <= Len(steps') /\ Len(queue') <= Len(steps')
      /\ \A i \in 1 .. Len(steps) : steps'[i] = steps[i]
      /\ \A i \in 1 .. Len(queue') : queue'[i] = steps'[Done' + i]
  BY ExpandAdds
<1>4. /\ \A i \in Len(steps) + 1 .. Len(steps') :
           steps'[i].uid \in Targets(head) /\ steps'[i].depth = head.depth + 1
      /\ \A i, j \in Len(steps) + 1 .. Len(steps') : steps'[i].uid = steps'[j].uid => i = j
      /\ \A v \in Targets(head) : \E i \in Len(steps) + 1 .. Len(steps') : steps'[i].uid = v
  BY ExpandAdds
<1>5. /\ DOMAIN steps = 1 .. Len(steps) /\ DOMAIN steps' = 1 .. Len(steps')
  BY <1>3 DEF TraceTypes
<1>6. \A i \in DOMAIN steps' : i \in DOMAIN steps \/ i \in Len(steps) + 1 .. Len(steps')
  BY <1>2, <1>3, <1>5
<1>7. head \in Item /\ head.depth \in Nat /\ Done + 1 \in DOMAIN steps
  BY <1>2, <1>3, <1>5 DEF Item
<1>8. \A i \in DOMAIN steps : i \in DOMAIN steps' /\ steps'[i] = steps[i] /\ steps[i].depth \in Nat
  BY <1>2, <1>3, <1>5 DEF Item
<1>9. \A u, d : Within(u, d)' = Within(u, d) /\ Callees(u)' = Callees(u)
  BY <1>1, TraceFrame
<1>10. TraceTypes'
  <2>1. Item' = Item
    BY <1>1, TraceFrame
  <2>2. Len(steps') >= 1 /\ steps'[1] = steps[1]
    BY <1>2, <1>3
  <2>3. QED
    BY <1>1, <1>2, <1>3, <2>1, <2>2 DEF TraceTypes, NoEntry
<1>11. \A v : v \in Targets(head) => /\ head.depth < TraceDepth /\ v \in Callees(head.uid)
                                     /\ \A i \in DOMAIN steps : steps[i].uid # v
  BY <1>7, TracerAssumption DEF Targets, Fresh, TooDeep, Visited, ToSet
<1>12. ASSUME NEW i \in DOMAIN steps', NEW j \in DOMAIN steps', steps'[i].uid = steps'[j].uid PROVE i = j
  BY <1>4, <1>6, <1>8, <1>11, <1>12 DEF BreadthFirst
<1>13. ASSUME NEW i \in DOMAIN steps', NEW j \in DOMAIN steps', i <= j PROVE steps'[i].depth <= steps'[j].depth
  <2>1. CASE j \in DOMAIN steps
    <3>1. i \in DOMAIN steps
      BY <1>2, <1>5, <1>13, <2>1
    <3>2. QED
      BY <1>8, <1>13, <2>1, <3>1 DEF BreadthFirst
  <2>2. CASE j \in Len(steps) + 1 .. Len(steps')
    <3>1. steps'[j].depth = head.depth + 1
      BY <1>4, <2>2
    <3>2. CASE i \in DOMAIN steps
      BY <1>1, <1>8, <3>1, <3>2 DEF BreadthFirst
    <3>3. CASE i \in Len(steps) + 1 .. Len(steps')
      BY <1>4, <1>7, <3>1, <3>3
    <3>4. QED
      BY <1>6, <3>2, <3>3
  <2>3. QED
    BY <1>6, <2>1, <2>2
<1>14. \A i \in DOMAIN steps' : steps'[i].depth \in Nat /\ steps'[i].depth <= head.depth + 1
  <2> SUFFICES ASSUME NEW i \in DOMAIN steps' PROVE steps'[i].depth \in Nat /\ steps'[i].depth <= head.depth + 1
    OBVIOUS
  <2>1. CASE i \in DOMAIN steps
    BY <1>1, <1>8, <2>1 DEF BreadthFirst
  <2>2. CASE i \in Len(steps) + 1 .. Len(steps')
    BY <1>4, <1>7, <2>2
  <2>3. QED
    BY <1>6, <2>1, <2>2
<1>15. ASSUME queue' # <<>>, NEW i \in DOMAIN steps' PROVE steps'[i].depth <= steps'[Done' + 1].depth + 1
  <2>1. Len(queue') \in Nat /\ Len(queue') >= 1 /\ Done' = Len(steps') - Len(queue')
    BY <1>3, <1>15 DEF Done
  <2>2. Done' + 1 \in DOMAIN steps' /\ Done + 1 \in DOMAIN steps' /\ Done + 1 <= Done' + 1
    BY <1>2, <1>3, <1>5, <2>1
  <2>3. steps'[Done + 1].depth <= steps'[Done' + 1].depth
    BY <1>13, <2>2
  <2>4. steps'[Done + 1] = head
    BY <1>7, <1>8
  <2>5. QED
    BY <1>7, <1>14, <2>2, <2>3, <2>4
<1>16. ASSUME NEW i \in DOMAIN steps' PROVE steps'[i].depth <= TraceDepth /\ steps'[i].uid \in Within(entry, steps'[i].depth)
  <2>1. CASE i \in DOMAIN steps
    BY <1>8, <2>1 DEF BreadthFirst, NoNearerThanCalls
  <2>2. CASE i \in Len(steps) + 1 .. Len(steps')
    <3>1. steps'[i].depth = head.depth + 1 /\ head.depth < TraceDepth /\ steps'[i].uid \in Callees(head.uid)
      BY <1>4, <1>11, <2>2
    <3>2. head.uid \in Within(entry, head.depth)
      BY <1>7 DEF BreadthFirst, NoNearerThanCalls
    <3>3. Within(entry, head.depth + 1) = Within(entry, head.depth) \cup UNION { Callees(v) : v \in Within(entry, head.depth) }
      BY <1>7, WithinUnfolds
    <3>4. steps'[i].depth <= TraceDepth
      BY <1>7, <3>1, TracerAssumption
    <3>5. QED
      BY <3>1, <3>2, <3>3, <3>4
  <2>3. QED
    BY <1>6, <2>1, <2>2
<1>17. ASSUME complete, NEW i \in 1 .. Done', steps'[i].depth < TraceDepth, NEW v \in Callees(steps'[i].uid)
       PROVE  \E k \in DOMAIN steps' : steps'[k].uid = v /\ steps'[k].depth <= steps'[i].depth + 1
  <2>1. i \in DOMAIN steps /\ steps'[i] = steps[i] /\ (i \in 1 .. Done \/ i = Done + 1)
    BY <1>2, <1>3, <1>5, <1>8
  <2>2. CASE i \in 1 .. Done
    <3>1. PICK k \in DOMAIN steps : steps[k].uid = v /\ steps[k].depth <= steps[i].depth + 1
      BY <1>17, <2>1, <2>2 DEF BreadthFirst, CalleesHaveSteps
    <3>2. QED
      BY <1>8, <2>1, <3>1
  <2>3. CASE i = Done + 1 /\ v \in Targets(head)
    <3>1. PICK k \in Len(steps) + 1 .. Len(steps') : steps'[k].uid = v
      BY <1>4, <2>3
    <3>2. steps'[k].depth = head.depth + 1 /\ k \in DOMAIN steps'
      BY <1>2, <1>4, <1>5
    <3>3. QED
      BY <1>7, <2>1, <2>3, <3>1, <3>2
  <2>4. CASE i = Done + 1 /\ v \notin Targets(head)
    <3>1. v \in Visited
      BY <1>7, <1>17, <2>1, <2>4, TracerAssumption DEF Targets, Fresh, TooDeep
    <3>2. PICK k \in DOMAIN steps : steps[k].uid = v
      BY <3>1 DEF Visited, ToSet
    <3>3. QED
      BY <1>1, <1>8, <2>1, <2>4, <3>2 DEF BreadthFirst
  <2>5. QED
    BY <2>1, <2>2, <2>3, <2>4
<1>18. BreadthFirst'
  <2>1. NoNearerThanCalls'
    BY <1>1, <1>9, <1>16 DEF NoNearerThanCalls
  <2>2. CalleesHaveSteps'
    BY <1>1, <1>9, <1>17 DEF CalleesHaveSteps
  <2>3. QED
    BY <1>1, <1>12, <1>13, <1>15, <2>1, <2>2 DEF BreadthFirst
<1>19. QED
  BY <1>10, <1>18

\* A query that fails takes an item from the queue and adds none.
LEMMA SkipKeeps ==
  ASSUME TraceTypes, BreadthFirst, SkipSymbol
  PROVE  TraceTypes' /\ BreadthFirst'
<1>1. /\ stored' = stored /\ entry' = entry /\ flowType' = flowType /\ steps' = steps
      /\ complete' = FALSE /\ queue # <<>> /\ queue' = Tail(queue)
  BY DEF SkipSymbol, louvainVars
<1>2. /\ steps \in Seq(Item) /\ queue \in Seq(Item) /\ Len(steps) \in Nat /\ Len(queue) \in Nat
      /\ Len(queue) >= 1 /\ Len(queue) <= Len(steps) /\ entry # NoEntry /\ flowType = "unknown"
  BY <1>1 DEF TraceTypes
<1>3. /\ queue' \in Seq(Item) /\ Len(queue') = Len(queue) - 1
      /\ \A i \in 1 .. Len(queue) - 1 : queue'[i] = queue[i + 1]
  BY <1>1, <1>2
<1>4. Done \in Nat /\ Done' = Done + 1 /\ Done + 1 \in 1 .. Len(steps)
  BY <1>1, <1>2, <1>3 DEF Done
<1>5. ASSUME NEW i \in 1 .. Len(queue') PROVE queue'[i] = steps'[Done' + i]
  <2>1. i + 1 \in 1 .. Len(queue) /\ Done + (i + 1) = Done' + i /\ i \in 1 .. Len(queue) - 1
    BY <1>2, <1>3, <1>4
  <2>2. queue[i + 1] = steps[Done + (i + 1)]
    BY <2>1 DEF TraceTypes
  <2>3. QED
    BY <1>1, <1>3, <2>1, <2>2
<1>6. TraceTypes'
  <2>1. Item' = Item
    BY <1>1, TraceFrame
  <2>2. Len(queue') <= Len(steps')
    BY <1>1, <1>2, <1>3
  <2>3. QED
    BY <1>1, <1>2, <1>3, <1>5, <2>1, <2>2 DEF TraceTypes, NoEntry
<1>7. BreadthFirst'
  <2>1. \A u, d : Within(u, d)' = Within(u, d)
    BY <1>1, TraceFrame
  <2>2. NoNearerThanCalls'
    BY <1>1, <2>1 DEF BreadthFirst, NoNearerThanCalls
  <2>3. CalleesHaveSteps'
    BY <1>1 DEF CalleesHaveSteps
  <2>4. DOMAIN steps = 1 .. Len(steps) /\ \A i \in DOMAIN steps : steps[i].depth \in Nat
    <3>1. \A i \in DOMAIN steps : steps[i] \in Item
      BY <1>2
    <3>2. QED
      BY <1>2, <3>1 DEF Item
  <2>5. ASSUME queue' # <<>>, NEW i \in DOMAIN steps' PROVE steps'[i].depth <= steps'[Done' + 1].depth + 1
    <3>1. Len(queue') >= 1
      BY <1>3, <2>5
    <3>2. Done' + 1 \in DOMAIN steps /\ Done + 1 \in DOMAIN steps /\ Done + 1 <= Done' + 1
      BY <1>2, <1>3, <1>4, <2>4, <3>1 DEF Done
    <3>3. steps[Done + 1].depth <= steps[Done' + 1].depth
      BY <3>2 DEF BreadthFirst
    <3>4. steps[i].depth <= steps[Done + 1].depth + 1
      BY <1>1, <2>5 DEF BreadthFirst
    <3>5. QED
      BY <1>1, <2>4, <2>5, <3>2, <3>3, <3>4
  <2>6. QED
    BY <1>1, <2>2, <2>3, <2>5 DEF BreadthFirst
<1>8. QED
  BY <1>6, <1>7

LEMMA StartKeeps ==
  ASSUME TraceTypes, BreadthFirst, NEW u \in Nodes(Size), StartTrace(u)
  PROVE  TraceTypes' /\ BreadthFirst'
<1> DEFINE first == [uid |-> u, depth |-> 0]
<1>1. /\ stored' = stored /\ entry' = u /\ steps' = <<first>> /\ queue' = <<first>>
      /\ flowType' = flowType /\ flowType = "unknown" /\ complete' = complete /\ u # NoEntry
  BY LouvainAssumption DEF StartTrace, louvainVars, TraceTypes, NoEntry, Nodes
<1>2. first \in Item'
  BY DEF Item, Uids
<1>3. TraceTypes'
  <2>1. Len(steps') = 1 /\ Len(queue') = 1 /\ steps'[1] = first /\ queue'[1] = first /\ Done' = 0
    BY <1>1 DEF Done
  <2>2. steps' \in Seq(Item') /\ queue' \in Seq(Item')
    BY <1>1, <1>2
  <2>3. stored' \in Calls
    BY <1>1 DEF TraceTypes
  <2> HIDE DEF first
  <2>4. QED
    BY <1>1, <2>1, <2>2, <2>3 DEF TraceTypes, NoEntry, first
<1>4. BreadthFirst'
  <2>1. \A v, d : Within(v, d)' = Within(v, d)
    BY <1>1, TraceFrame
  <2>2. u \in Within(u, 0)
    BY WithinUnfolds
  <2>3. DOMAIN steps' = {1} /\ steps'[1].uid = u /\ steps'[1].depth = 0 /\ Done' = 0
    BY <1>1 DEF Done
  <2>4. \A i \in DOMAIN steps' : i = 1 /\ steps'[i].depth <= TraceDepth /\ steps'[i].uid \in Within(entry', steps'[i].depth)
    BY <1>1, <2>2, <2>3, TracerAssumption
  <2>5. \A i \in 1 .. Done' : FALSE
    BY <2>3
  <2>6. QED
    BY <2>1, <2>3, <2>4, <2>5 DEF BreadthFirst, NoNearerThanCalls, CalleesHaveSteps
<1>5. QED
  BY <1>3, <1>4

LEMMA TraceUndisturbed ==
  ASSUME TraceTypes, BreadthFirst, UNCHANGED <<stored, entry, queue, steps, complete>>,
         flowType' # "unknown" => queue = <<>>, entry = NoEntry => flowType' = flowType
  PROVE  TraceTypes' /\ BreadthFirst'
<1>1. Item' = Item /\ Done' = Done /\ \A u : Callees(u)' = Callees(u) /\ \A d : Within(u, d)' = Within(u, d)
  BY TraceFrame DEF Done
<1>2. TraceTypes'
  BY <1>1 DEF TraceTypes, NoEntry
<1>3. BreadthFirst'
  <2>1. NoNearerThanCalls'
    BY <1>1 DEF BreadthFirst, NoNearerThanCalls
  <2>2. CalleesHaveSteps'
    BY <1>1 DEF BreadthFirst, CalleesHaveSteps
  <2>3. QED
    BY <1>1, <2>1, <2>2 DEF BreadthFirst
<1>4. QED
  BY <1>2, <1>3

LEMMA TraceInvariant == Spec => [](TraceTypes /\ BreadthFirst)
<1>1. TracerInit => TraceTypes /\ BreadthFirst
  <2> SUFFICES ASSUME TracerInit PROVE TraceTypes /\ BreadthFirst
    OBVIOUS
  <2>1. stored \in Calls /\ entry = NoEntry /\ steps = <<>> /\ queue = <<>> /\ flowType = "unknown" /\ complete = TRUE
    BY DEF TracerInit, Init
  <2>2. Len(steps) = 0 /\ Len(queue) = 0 /\ DOMAIN steps = {} /\ Done = 0
    BY <2>1 DEF Done
  <2>3. TraceTypes
    BY <2>1, <2>2 DEF TraceTypes
  <2>4. \A i \in 1 .. Done : FALSE
    BY <2>2
  <2>5. BreadthFirst
    BY <2>1, <2>2, <2>4 DEF BreadthFirst, NoNearerThanCalls, CalleesHaveSteps
  <2>6. QED
    BY <2>3, <2>5
<1>2. TraceTypes /\ BreadthFirst /\ [Next]_vars => (TraceTypes /\ BreadthFirst)'
  <2> SUFFICES ASSUME TraceTypes, BreadthFirst, [Next]_vars PROVE TraceTypes' /\ BreadthFirst'
    OBVIOUS
  <2>1. CASE Cluster /\ UNCHANGED traceVars
    <3>1. stored' = stored
      BY <2>1 DEF Cluster, Visit, Aggregate, Finish
    <3>2. QED
      BY <2>1, <3>1, TraceUndisturbed DEF traceVars, TraceTypes
  <2>2. CASE \E u \in Nodes(Size) : StartTrace(u)
    BY <2>2, StartKeeps
  <2>3. CASE Expand
    BY <2>3, ExpandKeeps
  <2>7. CASE SkipSymbol
    BY <2>7, SkipKeeps
  <2>4. CASE Classify
    BY <2>4, TraceUndisturbed DEF Classify, louvainVars
  <2>5. CASE UNCHANGED vars
    BY <2>5, TraceUndisturbed DEF vars, louvainVars, traceVars, TraceTypes
  <2>6. QED
    BY <2>1, <2>2, <2>3, <2>4, <2>5, <2>7 DEF Next, Trace
<1>3. QED
  BY <1>1, <1>2, PTL DEF Spec

\* When the queue is empty, nothing within the bound is missing.
LEMMA NothingIsMissed ==
  ASSUME TraceTypes, BreadthFirst, complete, entry # NoEntry, queue = <<>>
  PROVE  \A d \in 0 .. TraceDepth : \A v \in Within(entry, d) :
           \E i \in DOMAIN steps : steps[i].uid = v /\ steps[i].depth <= d
<1> DEFINE Reached(d) == \A v \in Within(entry, d) : \E i \in DOMAIN steps : steps[i].uid = v /\ steps[i].depth <= d
           N == { n \in Nat : n <= TraceDepth => Reached(n) }
<1>1. /\ Len(steps) \in Nat /\ Len(steps) >= 1 /\ DOMAIN steps = 1 .. Len(steps) /\ Done = Len(steps)
      /\ steps[1].uid = entry /\ steps[1].depth = 0 /\ 1 \in DOMAIN steps
      /\ \A i \in DOMAIN steps : steps[i].depth \in Nat
  <2>1. steps \in Seq(Item) /\ Len(steps) >= 1 /\ steps[1] = [uid |-> entry, depth |-> 0] /\ Len(queue) = 0
    BY DEF TraceTypes
  <2>2. \A i \in DOMAIN steps : steps[i] \in Item
    BY <2>1
  <2>3. QED
    BY <2>1, <2>2 DEF Done, Item
<1>2. 0 \in N
  BY <1>1, WithinUnfolds
<1>3. ASSUME NEW n \in Nat, n \in N PROVE n + 1 \in N
  <2> SUFFICES ASSUME n + 1 <= TraceDepth, NEW v \in Within(entry, n + 1)
               PROVE  \E i \in DOMAIN steps : steps[i].uid = v /\ steps[i].depth <= n + 1
    OBVIOUS
  <2>1. Reached(n) /\ n < TraceDepth
    BY <1>3, TracerAssumption
  <2>2. CASE v \in Within(entry, n)
    <3>1. PICK i \in DOMAIN steps : steps[i].uid = v /\ steps[i].depth <= n
      BY <2>1, <2>2
    <3>2. QED
      BY <1>1, <3>1
  <2>3. CASE v \notin Within(entry, n)
    <3>1. PICK c \in Within(entry, n) : v \in Callees(c)
      <4>1. Within(entry, n + 1) = Within(entry, n) \cup UNION { Callees(c) : c \in Within(entry, n) }
        BY WithinUnfolds
      <4>2. QED
        BY <2>3, <4>1
    <3>2. PICK i \in DOMAIN steps : steps[i].uid = c /\ steps[i].depth <= n
      BY <2>1, <3>1
    <3>3. i \in 1 .. Done /\ steps[i].depth < TraceDepth
      BY <1>1, <2>1, <3>2, TracerAssumption
    <3>4. PICK k \in DOMAIN steps : steps[k].uid = v /\ steps[k].depth <= steps[i].depth + 1
      BY <3>1, <3>2, <3>3 DEF BreadthFirst, CalleesHaveSteps
    <3>5. QED
      BY <1>1, <3>2, <3>4
  <2>4. QED
    BY <2>2, <2>3
<1> HIDE DEF N
<1>4. Nat \subseteq N
  BY <1>2, <1>3, NumbersFromZero
<1>5. QED
  BY <1>4, TracerAssumption DEF N

LEMMA TracesAre == TraceTypes /\ BreadthFirst => TracesNearest
<1> SUFFICES ASSUME TraceTypes, BreadthFirst, Traced PROVE TracesNearest
  BY DEF TracesNearest
<1>1. entry # NoEntry /\ queue = <<>>
  BY DEF Traced, TraceTypes
<1>2. \A i \in DOMAIN steps : steps[i].depth \in Nat /\ steps[i].depth <= TraceDepth
                              /\ steps[i].uid \in Within(entry, steps[i].depth)
  <2>1. \A i \in DOMAIN steps : steps[i] \in Item
    BY DEF TraceTypes
  <2>2. QED
    BY <2>1 DEF BreadthFirst, NoNearerThanCalls, Item
<1>3. ASSUME NEW s \in ToSet(steps) PROVE s.depth <= TraceDepth /\ s.uid \in Within(entry, s.depth)
  BY <1>2 DEF ToSet
<1>4. ASSUME complete, NEW v \in Within(entry, TraceDepth) PROVE v \in Visited
  <2>1. TraceDepth \in 0 .. TraceDepth
    BY TracerAssumption
  <2>2. PICK i \in DOMAIN steps : steps[i].uid = v
    BY <1>1, <1>4, <2>1, NothingIsMissed
  <2>3. QED
    BY <2>2 DEF Visited, ToSet
<1>5. ASSUME complete, NEW s \in ToSet(steps), s.depth > 0, s.uid \in Within(entry, s.depth - 1) PROVE FALSE
  <2>1. PICK i \in DOMAIN steps : s = steps[i]
    BY DEF ToSet
  <2>2. s.depth - 1 \in 0 .. TraceDepth /\ s.depth \in Nat
    BY <1>2, <1>5, <2>1, TracerAssumption
  <2>3. PICK k \in DOMAIN steps : steps[k].uid = s.uid /\ steps[k].depth <= s.depth - 1
    BY <1>1, <1>5, <2>2, NothingIsMissed
  <2>4. k = i
    BY <2>1, <2>3 DEF BreadthFirst
  <2>5. QED
    BY <2>1, <2>2, <2>3, <2>4
<1>6. QED
  BY <1>3, <1>4, <1>5 DEF TracesNearest, BreadthFirst

\* A process whose queries succeed has exactly the symbols that calls lead to
\* within the bound, each once and at its distance, for every graph, bound and
\* order of the rows of its queries: a symbol is marked when it is queued, and the
\* queue is first in, first out.  Where queries fail it has some of them, each
\* once, and no further away than it says (tracer.go:88-143).
THEOREM TracesAreNearest == Spec => []TracesNearest
BY TraceInvariant, TracesAre, PTL

\* A process and the impact queries of the same bound say the same of who is
\* reached from the entry point, though one marks what it has visited and the
\* other has rows for every depth: the query of the entry point along the calls,
\* and the queries of the others against them (tracer.go:88-143, query.go
\* QueryImpact).
THEOREM ImpactAgrees == Spec => []ImpactMatchesTrace
<1>1. ASSUME TraceTypes, BreadthFirst, Traced, complete, TraceDepth > 0, NEW u \in Nodes(Size) \ {entry}
      PROVE  /\ u \in Visited <=> \E d \in 1 .. TraceDepth : <<u, d>> \in Impact(entry, "downstream", 0, TraceDepth)
             /\ u \in Visited <=> \E d \in 1 .. TraceDepth : <<entry, d>> \in Impact(u, "upstream", 0, TraceDepth)
  <2>1. entry \in Uids /\ u \in Uids /\ TraceDepth \in Nat \ {0} /\ stored \in Calls
    BY <1>1, TracerAssumption DEF Traced, TraceTypes, Uids
  <2>2. u \in Visited <=> \E k \in 0 .. TraceDepth : Walks(entry, u, k)
    <3>1. Visited = Within(entry, TraceDepth)
      <4>1. Within(entry, TraceDepth) \subseteq Visited
        BY <1>1, TracesAre DEF TracesNearest
      <4>2. ASSUME NEW v \in Visited PROVE v \in Within(entry, TraceDepth)
        <5>1. PICK i \in DOMAIN steps : steps[i].uid = v
          BY <4>2 DEF Visited, ToSet
        <5>2. steps[i].depth \in Nat /\ steps[i].depth <= TraceDepth /\ v \in Within(entry, steps[i].depth)
          <6>1. steps[i] \in Item
            BY <1>1 DEF TraceTypes
          <6>2. QED
            BY <1>1, <5>1, <6>1 DEF BreadthFirst, NoNearerThanCalls, Item
        <5>3. Within(entry, steps[i].depth) \subseteq Within(entry, TraceDepth)
          BY <5>2, TracerAssumption, WithinGrows
        <5>4. QED
          BY <5>2, <5>3
      <4>3. QED
        BY <4>1, <4>2
    <3>2. QED
      BY <2>1, <3>1, WithinIsWalks
  <2>3. ~ Walks(entry, u, 0)
    BY <2>1, WalkNowhere
  <2>4. \A k : k \in 0 .. TraceDepth <=> k = 0 \/ k \in 1 .. TraceDepth
    BY <2>1
  <2>5. /\ \A d : <<u, d>> \in Impact(entry, "downstream", 0, TraceDepth) <=> d \in 1 .. TraceDepth /\ Walks(entry, u, d)
        /\ \A d : <<entry, d>> \in Impact(u, "upstream", 0, TraceDepth) <=> d \in 1 .. TraceDepth /\ Walks(entry, u, d)
    BY <2>1, RowsAreWalks DEF Leads
  <2>6. QED
    BY <2>2, <2>3, <2>4, <2>5
<1>2. TraceTypes /\ BreadthFirst => ImpactMatchesTrace
  <2> SUFFICES ASSUME TraceTypes, BreadthFirst, Traced, complete, TraceDepth > 0
               PROVE  \E along, against \in {"downstream", "upstream"} :
                        along # against /\ \A u \in Nodes(Size) \ {entry} :
                          /\ u \in Visited <=> \E d \in 1 .. TraceDepth : <<u, d>> \in Impact(entry, along, 0, TraceDepth)
                          /\ u \in Visited <=> \E d \in 1 .. TraceDepth : <<entry, d>> \in Impact(u, against, 0, TraceDepth)
    BY DEF ImpactMatchesTrace
  <2> WITNESS "downstream" \in {"downstream", "upstream"}, "upstream" \in {"downstream", "upstream"}
  <2>1. QED
    BY <1>1
<1>3. QED
  BY <1>2, TraceInvariant, PTL
=============================================================================
