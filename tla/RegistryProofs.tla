---------------------------- MODULE RegistryProofs ----------------------------
(***************************************************************************)
(* Proofs about module Registry: what commands find in ~/.mimir, for every *)
(* set of repositories, names and processes.                               *)
(***************************************************************************)
EXTENDS Registry, FiniteSetTheorems, FunctionTheorems, SequenceTheorems, WellFoundedInduction, TLAPS

Entry == [name : Name, path : Path]
Registries == Seq(Entry)
PCs == {"idle", "register", "save", "write", "open", "index", "remove", "unregister"}

\* The variables hold what their declarations say, process by process.
TypeInv ==
  /\ faults \in FaultSets /\ base \in Bases
  /\ start \in {<<>>} \cup Everyone
  /\ file \in Registries \cup {Torn}
  /\ db \in [Name -> (SUBSET Path) \cup {None}]
  /\ pc \in [Process -> PCs]
  /\ path \in [Process -> Path \cup {None}]
  /\ name \in [Process -> Name \cup {None}]
  /\ mem \in [Process -> Registries]
  /\ linked \subseteq Process
  /\ server \in Registries \cup {None}
  /\ server # None => "server" \in faults
  /\ \A q \in Process :
       /\ pc[q] \in {"register", "open", "index"} => path[q] \in Path
       /\ pc[q] \in {"index", "remove", "unregister"} => name[q] \in Name
       /\ pc[q] \in {"idle", "remove", "unregister"} => path[q] = None
       /\ q \in linked => pc[q] = "index" /\ db[name[q]] \in SUBSET Path

\* The name under which the repository of q is registered, and what makes it the
\* one that readers find.
RegisteredAs(q) == IF name[q] = None THEN base[path[q]] ELSE name[q]
Finds(reg, n, p) == FindByPath(reg, p) = n /\ Get(reg, n) = p

\* Processes take turns, and their copies are the file while they read it.
TurnsInv ==
  "overlap" \notin faults =>
    /\ \A q, r \in Process : q # r => pc[q] = "idle" \/ pc[r] = "idle"
    /\ \A q \in Process : /\ pc[q] \in {"register", "remove", "unregister"} => mem[q] = file /\ file # Torn
                          /\ pc[q] = "write" => file = Torn
                          /\ pc[q] \in {"open", "index"} => mem[q] = file

\* A repository that has been registered is the first of its name and its path.
FindsInv ==
  \A q \in Process :
    pc[q] \in {"save", "write", "open", "index"} /\ path[q] # None =>
      Finds(mem[q], RegisteredAs(q), path[q])

\* A registry without doubles, whose names are basenames, and which lists every
\* database.
Unique(reg) ==
  \A i, j \in DOMAIN reg : reg[i].name = reg[j].name \/ reg[i].path = reg[j].path => i = j
Basenames(reg) == \A i \in DOMAIN reg : reg[i].name = base[reg[i].path]
Lists(reg) == \A n \in Name : Exists(n) => ByName(reg, n) # {}
Good(reg) == Unique(reg) /\ Basenames(reg) /\ Lists(reg)

GoodInv ==
  faults \cap {"named", "overlap"} = {} =>
    /\ file # Torn => Good(file)
    /\ \A q \in Process :
         /\ pc[q] \in {"save", "write", "open", "index"} => Good(mem[q])
         /\ pc[q] = "register" => name[q] = FindByPath(mem[q], path[q])
         /\ pc[q] = "unregister" => ~Exists(name[q])
    /\ \A n \in Name : db[n] # None => \A p \in db[n] : base[p] = n

\* Where everyone is registered, what is read and written is the same registry.
SameInv ==
  (start # <<>> /\ faults \subseteq {"overlap", "server"}) =>
    /\ file = start \/ (file = Torn /\ \E q \in Process : pc[q] = "write")
    /\ \A q \in Process : /\ pc[q] \notin {"remove", "unregister"}
                          /\ pc[q] # "idle" => mem[q] = start
                          /\ pc[q] = "register" => name[q] = FindByPath(start, path[q])
-----------------------------------------------------------------------------
\* A set of natural numbers has a least one, which First returns.
LEMMA FirstIsLeast ==
  ASSUME NEW S \in SUBSET Nat, S # {}
  PROVE  First(S) \in S /\ \A j \in S : First(S) <= j
<1> DEFINE R == OpToRel(<, Nat)
<1>1. IsWellFoundedOn(R, Nat)
  BY NatLessThanWellFounded
<1>2. \A x, y \in Nat : x < y => <<x, y>> \in R
  BY DEF OpToRel
<1> HIDE DEF R
<1>3. PICK m \in S : \A k \in S : ~ (<<k, m>> \in R)
  BY <1>1, WFMin
<1>4. ASSUME NEW k \in S PROVE m <= k
  <2>1. ~ (k < m)
    BY <1>2, <1>3
  <2>2. QED
    BY <2>1
<1>5. QED
  BY <1>4 DEF First

\* The first entry of a name, and of a path.
LEMMA Lookups ==
  ASSUME NEW reg \in Registries, NEW n, NEW p
  PROVE  /\ Matches(reg, n, p) \subseteq 1..Len(reg) /\ ByName(reg, n) \subseteq 1..Len(reg)
         /\ ByPath(reg, p) \subseteq 1..Len(reg)
         /\ ByName(reg, n) # {} =>
              /\ First(ByName(reg, n)) \in ByName(reg, n)
              /\ Get(reg, n) = reg[First(ByName(reg, n))].path
         /\ ByPath(reg, p) # {} =>
              /\ First(ByPath(reg, p)) \in ByPath(reg, p)
              /\ FindByPath(reg, p) = reg[First(ByPath(reg, p))].name
         /\ Matches(reg, n, p) # {} =>
              /\ First(Matches(reg, n, p)) \in Matches(reg, n, p)
              /\ \A i \in Matches(reg, n, p) : First(Matches(reg, n, p)) <= i
         /\ \A i \in 1..Len(reg) : reg[i] \in Entry
<1>1. DOMAIN reg = 1..Len(reg) /\ Len(reg) \in Nat /\ \A i \in 1..Len(reg) : reg[i] \in Entry
  BY DEF Registries
<1>2. /\ ByName(reg, n) \subseteq 1..Len(reg) /\ ByPath(reg, p) \subseteq 1..Len(reg)
      /\ Matches(reg, n, p) \subseteq 1..Len(reg)
  BY <1>1 DEF ByName, ByPath, Matches
<1>3. \A S \in SUBSET (1..Len(reg)) : S # {} => First(S) \in S /\ \A j \in S : First(S) <= j
  BY FirstIsLeast
<1>4. QED
  BY <1>1, <1>2, <1>3 DEF Get, FindByPath

\* An entry without another one of its name or its path before it is found.
LEMMA FoundFirst ==
  ASSUME NEW reg \in Registries, NEW k \in 1..Len(reg),
         \A i \in 1..k - 1 : reg[i].name # reg[k].name /\ reg[i].path # reg[k].path
  PROVE  Finds(reg, reg[k].name, reg[k].path)
<1>1. DOMAIN reg = 1..Len(reg)
  BY DEF Registries
<1>2. k \in ByName(reg, reg[k].name) /\ k \in ByPath(reg, reg[k].path)
  BY <1>1 DEF ByName, ByPath
<1>3. /\ \A i \in ByName(reg, reg[k].name) : k <= i
      /\ \A i \in ByPath(reg, reg[k].path) : k <= i
  BY <1>1 DEF ByName, ByPath
<1>4. First(ByName(reg, reg[k].name)) = k
  <2>1. /\ First(ByName(reg, reg[k].name)) \in ByName(reg, reg[k].name)
        /\ First(ByName(reg, reg[k].name)) <= k
    <3>1. ByName(reg, reg[k].name) \in SUBSET Nat
      BY <1>1 DEF ByName
    <3>2. QED
      BY <1>2, <3>1, FirstIsLeast
  <2>2. QED
    BY <1>1, <1>3, <2>1 DEF ByName
<1>5. First(ByPath(reg, reg[k].path)) = k
  <2>1. /\ First(ByPath(reg, reg[k].path)) \in ByPath(reg, reg[k].path)
        /\ First(ByPath(reg, reg[k].path)) <= k
    <3>1. ByPath(reg, reg[k].path) \in SUBSET Nat
      BY <1>1 DEF ByPath
    <3>2. QED
      BY <1>2, <3>1, FirstIsLeast
  <2>2. QED
    BY <1>1, <1>3, <2>1 DEF ByPath
<1>6. QED
  BY <1>2, <1>4, <1>5 DEF Finds, FindByPath, Get

\* What Register changes: one entry, the first that fits, or a new last one.
LEMMA RegisterPlace ==
  ASSUME NEW reg \in Registries, NEW n \in Name, NEW p \in Path
  PROVE  \E k \in 1..Len(reg) + 1 :
           /\ Register(reg, n, p) \in Registries
           /\ Len(Register(reg, n, p)) = IF k = Len(reg) + 1 THEN Len(reg) + 1 ELSE Len(reg)
           /\ k \in 1..Len(Register(reg, n, p))
           /\ Register(reg, n, p)[k] = [name |-> n, path |-> p]
           /\ \A i \in 1..Len(reg) : i # k => Register(reg, n, p)[i] = reg[i]
           /\ k = Len(reg) + 1 => Matches(reg, n, p) = {}
           /\ k \in 1..Len(reg) => k \in Matches(reg, n, p)
           /\ \A i \in 1..k - 1 : i \notin Matches(reg, n, p)
<1> DEFINE e == [name |-> n, path |-> p]
<1>0. e \in Entry /\ reg \in Seq(Entry) /\ Len(reg) \in Nat
  BY DEF Entry, Registries
<1>1. CASE Matches(reg, n, p) = {}
  <2> DEFINE k == Len(reg) + 1
  <2>1. Register(reg, n, p) = Append(reg, e)
    BY <1>1 DEF Register
  <2>2. /\ Append(reg, e) \in Seq(Entry) /\ Len(Append(reg, e)) = Len(reg) + 1
        /\ Append(reg, e)[k] = e /\ \A i \in 1..Len(reg) : Append(reg, e)[i] = reg[i]
    BY <1>0, AppendProperties
  <2>3. k \in 1..Len(reg) + 1 /\ k \notin 1..Len(reg)
    BY <1>0
  <2>4. QED
    BY <1>0, <1>1, <2>1, <2>2, <2>3 DEF Registries
<1>2. CASE Matches(reg, n, p) # {}
  <2> DEFINE k == First(Matches(reg, n, p))
  <2>1. Register(reg, n, p) = [reg EXCEPT ![k] = e]
    BY <1>2 DEF Register
  <2>2. k \in Matches(reg, n, p) /\ k \in 1..Len(reg) /\ \A i \in Matches(reg, n, p) : k <= i
    BY <1>2, Lookups
  <2> HIDE DEF k
  <2>3. /\ [reg EXCEPT ![k] = e] \in Seq(Entry) /\ Len([reg EXCEPT ![k] = e]) = Len(reg)
        /\ [reg EXCEPT ![k] = e][k] = e
        /\ \A i \in 1..Len(reg) : i # k => [reg EXCEPT ![k] = e][i] = reg[i]
    BY <1>0, <2>2, ExceptSeq
  <2>4. k # Len(reg) + 1 /\ k \in 1..Len(reg) + 1 /\ \A i \in 1..k - 1 : i \notin Matches(reg, n, p)
    BY <1>0, <2>2
  <2>5. QED
    BY <1>0, <2>1, <2>2, <2>3, <2>4 DEF Registries
<1>3. QED
  BY <1>1, <1>2

\* A repository that Register has entered is found, and no name is lost.
LEMMA RegisterFinds ==
  ASSUME NEW reg \in Registries, NEW n \in Name, NEW p \in Path
  PROVE  /\ Register(reg, n, p) \in Registries
         /\ Finds(Register(reg, n, p), n, p)
<1>1. PICK k \in 1..Len(reg) + 1 :
           /\ Register(reg, n, p) \in Registries
           /\ Len(Register(reg, n, p)) = IF k = Len(reg) + 1 THEN Len(reg) + 1 ELSE Len(reg)
           /\ k \in 1..Len(Register(reg, n, p))
           /\ Register(reg, n, p)[k] = [name |-> n, path |-> p]
           /\ \A i \in 1..Len(reg) : i # k => Register(reg, n, p)[i] = reg[i]
           /\ k = Len(reg) + 1 => Matches(reg, n, p) = {}
           /\ k \in 1..Len(reg) => k \in Matches(reg, n, p)
           /\ \A i \in 1..k - 1 : i \notin Matches(reg, n, p)
  BY RegisterPlace
<1>2. Len(reg) \in Nat /\ DOMAIN reg = 1..Len(reg)
  BY DEF Registries
<1>3. ASSUME NEW i \in 1..k - 1
      PROVE  Register(reg, n, p)[i].name # n /\ Register(reg, n, p)[i].path # p
  <2>1. i \in 1..Len(reg) /\ i # k /\ i \notin Matches(reg, n, p)
    BY <1>1, <1>2
  <2>2. reg[i].name # n /\ reg[i].path # p
    BY <1>2, <2>1 DEF Matches, ByName, ByPath
  <2>3. QED
    BY <1>1, <2>1, <2>2
<1>4. Finds(Register(reg, n, p), n, p)
  BY <1>1, <1>3, FoundFirst
<1>5. QED
  BY <1>1, <1>4

\* The name that an unnamed analyze registers p under.
NameOf(reg, p) == IF FindByPath(reg, p) = None THEN base[p] ELSE FindByPath(reg, p)

\* It keeps a registry without doubles as it should be.
LEMMA RegisterKeeps ==
  ASSUME NEW reg \in Registries, NEW p \in Path, base \in [Path -> Name], Unique(reg), Basenames(reg)
  PROVE  /\ NameOf(reg, p) = base[p] /\ base[p] \in Name
         /\ Unique(Register(reg, base[p], p)) /\ Basenames(Register(reg, base[p], p))
         /\ \A m : ByName(reg, m) # {} => ByName(Register(reg, base[p], p), m) # {}
<1> DEFINE n == base[p]
           new == Register(reg, n, p)
<1>1. n \in Name
  OBVIOUS
<1>2. PICK k \in 1..Len(reg) + 1 :
           /\ new \in Registries
           /\ Len(new) = IF k = Len(reg) + 1 THEN Len(reg) + 1 ELSE Len(reg)
           /\ k \in 1..Len(new)
           /\ new[k] = [name |-> n, path |-> p]
           /\ \A i \in 1..Len(reg) : i # k => new[i] = reg[i]
           /\ k = Len(reg) + 1 => Matches(reg, n, p) = {}
           /\ k \in 1..Len(reg) => k \in Matches(reg, n, p)
           /\ \A i \in 1..k - 1 : i \notin Matches(reg, n, p)
  BY <1>1, RegisterPlace
<1>3. /\ Len(reg) \in Nat /\ DOMAIN reg = 1..Len(reg) /\ DOMAIN new = 1..Len(new)
      /\ \A i \in 1..Len(reg) : reg[i] \in Entry /\ reg[i].name = base[reg[i].path]
  BY <1>2, Lookups DEF Registries, Basenames
<1>4. NameOf(reg, p) = n
  <2>1. CASE ByPath(reg, p) = {}
    BY <2>1 DEF NameOf, FindByPath
  <2>2. CASE ByPath(reg, p) # {}
    <3> DEFINE i == First(ByPath(reg, p))
    <3>1. i \in ByPath(reg, p) /\ FindByPath(reg, p) = reg[i].name
      BY <2>2, Lookups
    <3>2. FindByPath(reg, p) = n
      BY <1>3, <3>1 DEF ByPath
    <3>3. QED
      BY <3>2 DEF NameOf
  <2>3. QED
    BY <2>1, <2>2
<1> HIDE DEF new
<1>5. ASSUME NEW i \in 1..Len(reg), i # k PROVE reg[i].name # n /\ reg[i].path # p
  <2>1. i \notin Matches(reg, n, p)
    <3>1. CASE k = Len(reg) + 1
      BY <1>2, <3>1
    <3>2. CASE k \in 1..Len(reg)
      <4>1. k \in Matches(reg, n, p)
        BY <1>2, <3>2
      <4>2. reg[k].name = n
        BY <1>3, <3>2, <4>1 DEF Matches, ByName, ByPath
      <4>3. reg[i].name # n
        BY <1>3, <1>5, <3>2, <4>2 DEF Unique
      <4>4. QED
        BY <1>3, <4>3 DEF Matches, ByName, ByPath
    <3>3. QED
      BY <1>2, <1>3, <3>1, <3>2
  <2>2. QED
    BY <1>3, <2>1 DEF Matches, ByName, ByPath
<1>6. Unique(new)
  <2> SUFFICES ASSUME NEW i \in 1..Len(new), NEW j \in 1..Len(new), i # j
               PROVE  new[i].name # new[j].name /\ new[i].path # new[j].path
    BY <1>3 DEF Unique
  <2>1. \A x \in 1..Len(new) : x # k => x \in 1..Len(reg) /\ new[x] = reg[x]
    BY <1>2, <1>3
  <2>2. CASE i = k
    BY <1>2, <1>5, <2>1, <2>2
  <2>3. CASE j = k
    BY <1>2, <1>5, <2>1, <2>3
  <2>4. CASE i # k /\ j # k
    BY <1>3, <2>1, <2>4 DEF Unique
  <2>5. QED
    BY <2>2, <2>3, <2>4
<1>7. Basenames(new)
  <2>1. \A x \in 1..Len(new) : x # k => x \in 1..Len(reg) /\ new[x] = reg[x]
    BY <1>2, <1>3
  <2>2. QED
    BY <1>2, <1>3, <2>1 DEF Basenames
<1>8. ASSUME NEW m, ByName(reg, m) # {} PROVE ByName(new, m) # {}
  <2>1. PICK i \in 1..Len(reg) : reg[i].name = m
    BY <1>3, <1>8 DEF ByName
  <2>2. i \in 1..Len(new)
    BY <1>2, <1>3
  <2>3. CASE i # k
    BY <1>2, <1>3, <2>1, <2>2, <2>3 DEF ByName
  <2>4. CASE i = k
    <3>1. k \in Matches(reg, n, p)
      BY <1>2, <2>4
    <3>2. m = n
      BY <1>3, <2>1, <2>4, <3>1 DEF Matches, ByName, ByPath
    <3>3. QED
      BY <1>2, <1>3, <2>2, <2>4, <3>2 DEF ByName
  <2>5. QED
    BY <2>3, <2>4
<1>9. QED
  BY <1>1, <1>4, <1>6, <1>7, <1>8 DEF new

\* Unregister takes out one entry and moves up those after it.
Old(i, j) == IF j < i THEN j ELSE j + 1

LEMMA UnregisterMoves ==
  ASSUME NEW reg \in Registries, NEW i \in 1..Len(reg)
  PROVE  /\ Unregister(reg, i) \in Registries
         /\ Len(Unregister(reg, i)) = Len(reg) - 1
         /\ \A j \in 1..Len(reg) - 1 : /\ Old(i, j) \in 1..Len(reg) /\ Old(i, j) # i
                                      /\ Unregister(reg, i)[j] = reg[Old(i, j)]
         /\ \A k \in 1..Len(reg) : k # i => \E j \in 1..Len(reg) - 1 : Old(i, j) = k
         /\ \A j, k \in 1..Len(reg) - 1 : Old(i, j) = Old(i, k) => j = k
<1> DEFINE new == Unregister(reg, i)
<1> USE DEF Old
<1>1. reg \in Seq(Entry) /\ Len(reg) \in Nat /\ DOMAIN reg = 1..Len(reg) /\ i \in Nat
  BY DEF Registries
<1>2. /\ SubSeq(reg, 1, i - 1) \in Seq(Entry) /\ Len(SubSeq(reg, 1, i - 1)) = i - 1
      /\ \A j \in 1..i - 1 : SubSeq(reg, 1, i - 1)[j] = reg[j]
  BY <1>1
<1>3. /\ SubSeq(reg, i + 1, Len(reg)) \in Seq(Entry) /\ Len(SubSeq(reg, i + 1, Len(reg))) = Len(reg) - i
      /\ \A j \in 1..Len(reg) - i : SubSeq(reg, i + 1, Len(reg))[j] = reg[i + j]
  <2>1. i + 1 \in 1..Len(reg) + 1 /\ Len(reg) \in i..Len(reg)
    BY <1>1
  <2> DEFINE b == SubSeq(reg, i + 1, Len(reg))
  <2>2. /\ b \in Seq(Entry) /\ Len(b) = IF i + 1 <= Len(reg) THEN Len(reg) - (i + 1) + 1 ELSE 0
        /\ \A j \in 1..Len(reg) - (i + 1) + 1 : b[j] = reg[i + 1 + j - 1]
    BY <1>1, <2>1, SubSeqProperties
  <2> HIDE DEF b
  <2>3. Len(b) = Len(reg) - i
    <3>1. Len(b) = IF i + 1 <= Len(reg) THEN Len(reg) - (i + 1) + 1 ELSE 0
      BY <2>2
    <3>2. i <= Len(reg) /\ i \in Nat /\ Len(reg) \in Nat
      BY <1>1
    <3>3. QED
      BY <3>1, <3>2
  <2>4. \A j \in 1..Len(reg) - i : j \in 1..Len(reg) - (i + 1) + 1 /\ i + 1 + j - 1 = i + j
    BY <1>1
  <2>5. \A j \in 1..Len(reg) - i : b[j] = reg[i + j]
    BY <2>2, <2>4
  <2>6. QED
    BY <2>2, <2>3, <2>5 DEF b
<1>4. /\ new \in Seq(Entry) /\ Len(new) = Len(reg) - 1
      /\ \A j \in 1..Len(reg) - 1 : new[j] = reg[Old(i, j)]
  <2> DEFINE a == SubSeq(reg, 1, i - 1)
             b == SubSeq(reg, i + 1, Len(reg))
  <2>1. new = a \o b
    BY DEF Unregister, RemoveAt
  <2>2. /\ a \in Seq(Entry) /\ b \in Seq(Entry) /\ Len(a) = i - 1 /\ Len(b) = Len(reg) - i
        /\ \A j \in 1..i - 1 : a[j] = reg[j]
        /\ \A j \in 1..Len(reg) - i : b[j] = reg[i + j]
    BY <1>2, <1>3
  <2> HIDE DEF a, b, new
  <2>3. /\ new \in Seq(Entry) /\ Len(new) = Len(a) + Len(b)
        /\ \A j \in 1..Len(a) + Len(b) : new[j] = IF j <= Len(a) THEN a[j] ELSE b[j - Len(a)]
    BY <2>1, <2>2, ConcatProperties
  <2>4. Len(new) = Len(reg) - 1 /\ Len(a) + Len(b) = Len(reg) - 1
    BY <1>1, <2>2, <2>3
  <2>5. ASSUME NEW j \in 1..Len(reg) - 1 PROVE new[j] = reg[Old(i, j)]
    <3>1. CASE j < i
      <4>1. j \in 1..i - 1 /\ j <= Len(a) /\ j \in 1..Len(a) + Len(b)
        BY <1>1, <2>2, <3>1
      <4>2. QED
        BY <2>2, <2>3, <3>1, <4>1
    <3>2. CASE ~(j < i)
      <4>1. j - Len(a) \in 1..Len(reg) - i /\ i + (j - Len(a)) = j + 1 /\ ~(j <= Len(a))
        BY <1>1, <2>2, <3>2
      <4>2. QED
        BY <2>2, <2>3, <2>4, <3>2, <4>1
    <3>3. QED
      BY <3>1, <3>2
  <2>6. QED
    BY <2>3, <2>4, <2>5
<1> HIDE DEF new
<1>5. \A j \in 1..Len(reg) - 1 : Old(i, j) \in 1..Len(reg) /\ Old(i, j) # i
  BY <1>1
<1>6. \A j, k \in 1..Len(reg) - 1 : Old(i, j) = Old(i, k) => j = k
  BY <1>1
<1>7. ASSUME NEW k \in 1..Len(reg), k # i PROVE \E j \in 1..Len(reg) - 1 : Old(i, j) = k
  <2>1. k < i => k \in 1..Len(reg) - 1 /\ Old(i, k) = k
    BY <1>1
  <2>2. k > i => k - 1 \in 1..Len(reg) - 1 /\ Old(i, k - 1) = k
    BY <1>1
  <2>3. k < i \/ k > i
    BY <1>1, <1>7
  <2>4. QED
    BY <2>1, <2>2, <2>3
<1> HIDE DEF Old
<1>8. QED
  BY <1>4, <1>5, <1>6, <1>7 DEF new, Registries

\* What it leaves is as it was.
LEMMA UnregisterKeeps ==
  ASSUME NEW reg \in Registries, NEW i \in 1..Len(reg)
  PROVE  /\ Unregister(reg, i) \in Registries
         /\ Unique(reg) => Unique(Unregister(reg, i))
         /\ Basenames(reg) => Basenames(Unregister(reg, i))
         /\ Unique(reg) => \A m : ByName(reg, m) # {} /\ m # reg[i].name
                                    => ByName(Unregister(reg, i), m) # {}
<1> DEFINE new == Unregister(reg, i)
<1>1. /\ new \in Registries /\ DOMAIN new = 1..Len(reg) - 1 /\ DOMAIN reg = 1..Len(reg)
      /\ \A j \in 1..Len(reg) - 1 : Old(i, j) \in DOMAIN reg /\ new[j] = reg[Old(i, j)]
      /\ \A k \in 1..Len(reg) : k # i => \E j \in 1..Len(reg) - 1 : Old(i, j) = k
      /\ \A j, k \in 1..Len(reg) - 1 : Old(i, j) = Old(i, k) => j = k
  BY UnregisterMoves DEF Registries
<1> HIDE DEF new
<1>2. Unique(reg) => Unique(new)
  <2> SUFFICES ASSUME Unique(reg), NEW j \in 1..Len(reg) - 1, NEW k \in 1..Len(reg) - 1,
                      new[j].name = new[k].name \/ new[j].path = new[k].path
               PROVE  j = k
    BY <1>1 DEF Unique
  <2>1. new[j] = reg[Old(i, j)] /\ new[k] = reg[Old(i, k)] /\ Old(i, j) \in DOMAIN reg /\ Old(i, k) \in DOMAIN reg
    BY <1>1
  <2>2. Old(i, j) = Old(i, k)
    BY <2>1 DEF Unique
  <2>3. QED
    BY <1>1, <2>2
<1>3. Basenames(reg) => Basenames(new)
  BY <1>1 DEF Basenames
<1>4. ASSUME NEW m, ByName(reg, m) # {}, m # reg[i].name PROVE ByName(new, m) # {}
  <2>1. PICK k \in 1..Len(reg) : reg[k].name = m
    BY <1>1, <1>4 DEF ByName
  <2>2. PICK j \in 1..Len(reg) - 1 : Old(i, j) = k
    BY <1>1, <1>4, <2>1
  <2>3. QED
    BY <1>1, <2>1, <2>2 DEF ByName
<1>5. QED
  BY <1>1, <1>2, <1>3, <1>4 DEF new

\* Where everyone is registered, everyone is found under the basename, and to
\* register a repository again changes nothing.
LEMMA EveryoneIsThere ==
  ASSUME base \in [Path -> Name], NEW reg \in Everyone
  PROVE  /\ reg \in Registries /\ Unique(reg) /\ Basenames(reg)
         /\ \A p \in Path : FindByPath(reg, p) = base[p] /\ Register(reg, base[p], p) = reg
<1> DEFINE N == Cardinality(Path)
           R == { [name |-> base[p], path |-> p] : p \in Path }
<1>1. N \in Nat /\ IsFiniteSet(Path)
  BY RegistryAssumption, FS_CardinalityType
<1>2. /\ reg \in [1..N -> R] /\ DOMAIN reg = 1..N
      /\ \A i, j \in 1..N : reg[i].name = reg[j].name => i = j
  BY DEF Everyone
<1>3. \A i \in 1..N : reg[i] \in Entry /\ reg[i].name = base[reg[i].path] /\ reg[i].path \in Path
  BY <1>2 DEF Entry
<1> HIDE DEF N, R
<1>4. reg \in Registries /\ Len(reg) = N
  BY <1>1, <1>2, <1>3 DEF Registries
<1>5. Unique(reg) /\ Basenames(reg)
  BY <1>2, <1>3 DEF Unique, Basenames
<1> DEFINE f == [i \in 1..N |-> reg[i].path]
<1>6. f \in Injection(1..N, Path)
  <2>1. f \in [1..N -> Path] /\ \A i, j \in 1..N : f[i] = f[j] => i = j
    BY <1>2, <1>3
  <2>2. QED
    BY <2>1 DEF Injection, IsInjective
<1>7. f \in Surjection(1..N, Path)
  <2>1. Cardinality(1..N) = N
    <3>1. Cardinality(1..N) = IF 1 > N THEN 0 ELSE N - 1 + 1
      BY <1>1, FS_Interval
    <3>2. QED
      BY <1>1, <3>1
  <2>2. Cardinality(1..N) = Cardinality(Path) <=> f \in Surjection(1..N, Path)
    BY <1>1, <1>6, FS_Injection
  <2>3. QED
    BY <2>1, <2>2 DEF N
<1>8. ASSUME NEW p \in Path PROVE FindByPath(reg, p) = base[p] /\ Register(reg, base[p], p) = reg
  <2>1. PICK k \in 1..N : reg[k].path = p
    BY <1>7 DEF Surjection
  <2>2. reg[k].name = base[p] /\ \A i \in 1..N : reg[i].name = base[p] \/ reg[i].path = p => i = k
    BY <1>2, <1>3, <2>1
  <2>3. ByPath(reg, p) = {k} /\ Matches(reg, base[p], p) = {k}
    BY <1>2, <2>1, <2>2 DEF ByPath, ByName, Matches
  <2>4. First({k}) = k
    <3>1. {k} \in SUBSET Nat /\ {k} # {}
      BY <1>1
    <3>2. First({k}) \in {k}
      BY <3>1, FirstIsLeast
    <3>3. QED
      BY <3>2
  <2>5. FindByPath(reg, p) = base[p]
    BY <2>2, <2>3, <2>4 DEF FindByPath
  <2>6. reg[k] = [name |-> base[p], path |-> p]
    BY <1>3, <2>1, <2>2 DEF Entry
  <2>7. Register(reg, base[p], p) = [reg EXCEPT ![k] = [name |-> base[p], path |-> p]]
    BY <2>3, <2>4 DEF Register
  <2>8. [reg EXCEPT ![k] = reg[k]] = reg
    BY <1>2
  <2>9. QED
    BY <2>5, <2>6, <2>7, <2>8
<1>9. QED
  BY <1>4, <1>5, <1>8
-----------------------------------------------------------------------------
\* A step of one command changes the variables of its process only, and those as
\* they should be.
LEMMA CommandTyped ==
  ASSUME TypeInv, FindsInv, Command
  PROVE  TypeInv' /\ FindsInv'
<1>0. /\ None \notin Name /\ None \notin Path /\ Bases \subseteq [Path -> Name]
      /\ base \in [Path -> Name]
  BY RegistryAssumption DEF TypeInv
<1> DEFINE Mine(r) ==
      /\ pc[r] \in {"register", "open", "index"} => path[r] \in Path
      /\ pc[r] \in {"index", "remove", "unregister"} => name[r] \in Name
      /\ pc[r] \in {"idle", "remove", "unregister"} => path[r] = None
      /\ pc[r] \in {"save", "write", "open", "index"} /\ path[r] # None =>
           Finds(mem[r], RegisteredAs(r), path[r])
<1>1. PICK q \in Process :
    \/ \E p \in Path, n \in Name \cup {None} : StartAnalyze(q, p, n)
    \/ \E n \in Name : StartClean(q, n)
    \/ RegisterRepo(q) \/ Truncate(q) \/ Write(q) \/ OpenDB(q)
    \/ \E mode \in Modes : Index(q, mode)
    \/ RemoveDB(q) \/ UnregisterRepo(q) \/ Crash(q)
  BY DEF Command
<1> DEFINE Others == /\ pc' = [pc EXCEPT ![q] = pc'[q]] /\ path' = [path EXCEPT ![q] = path'[q]]
                     /\ name' = [name EXCEPT ![q] = name'[q]] /\ mem' = [mem EXCEPT ![q] = mem'[q]]
           Own == /\ pc'[q] \in PCs /\ path'[q] \in Path \cup {None} /\ name'[q] \in Name \cup {None}
                  /\ mem'[q] \in Registries
           Shared == /\ file' \in Registries \cup {Torn} /\ db' \in [Name -> (SUBSET Path) \cup {None}]
                     /\ linked' \subseteq Process /\ UNCHANGED <<given, server>>
           Held == \A r \in linked' : pc'[r] = "index" /\ db'[name'[r]] \in SUBSET Path
           Fewer == /\ linked' \subseteq linked /\ q \notin linked'
                    /\ \A n \in Name : db[n] \in SUBSET Path => db'[n] \in SUBSET Path
<1>2. ASSUME Others, Own, Shared, Held, Mine(q)' PROVE TypeInv' /\ FindsInv'
  <2>1. /\ pc' \in [Process -> PCs] /\ path' \in [Process -> Path \cup {None}]
        /\ name' \in [Process -> Name \cup {None}] /\ mem' \in [Process -> Registries]
    BY <1>2 DEF TypeInv
  <2>2. ASSUME NEW r \in Process PROVE Mine(r)'
    <3>1. CASE r = q
      BY <1>2, <3>1
    <3>2. CASE r # q
      <4>1. pc'[r] = pc[r] /\ path'[r] = path[r] /\ name'[r] = name[r] /\ mem'[r] = mem[r] /\ base' = base
        BY <1>2, <3>2 DEF TypeInv, given
      <4>2. Mine(r)
        BY DEF TypeInv, FindsInv
      <4>3. QED
        BY <4>1, <4>2 DEF RegisteredAs, Finds, FindByPath, Get, ByPath, ByName
    <3>3. QED
      BY <3>1, <3>2
  <2>3. TypeInv'
    BY <1>2, <2>1, <2>2 DEF TypeInv, given, Everyone
  <2>4. QED
    BY <2>2, <2>3 DEF FindsInv
<1>3. /\ \A r \in Process : Mine(r) /\ pc[r] \in PCs /\ mem[r] \in Registries
                            /\ name[r] \in Name \cup {None} /\ path[r] \in Path \cup {None}
      /\ DOMAIN pc = Process /\ DOMAIN path = Process /\ DOMAIN name = Process /\ DOMAIN mem = Process
      /\ \A r \in linked : pc[r] = "index" /\ name[r] \in Name /\ db[name[r]] \in SUBSET Path
  BY DEF TypeInv, FindsInv
<1>4. \A X : \A f \in [Process -> X] : f = [f EXCEPT ![q] = f[q]]
  OBVIOUS
<1>5. pc = [pc EXCEPT ![q] = pc[q]] /\ path = [path EXCEPT ![q] = path[q]]
      /\ name = [name EXCEPT ![q] = name[q]] /\ mem = [mem EXCEPT ![q] = mem[q]]
  BY <1>4 DEF TypeInv
<1>6. ASSUME Exit(q) PROVE Others /\ Own /\ Mine(q)'
  <2>1. <<>> \in Registries
    BY DEF Registries
  <2>2. /\ pc' = [pc EXCEPT ![q] = "idle"] /\ path' = [path EXCEPT ![q] = None]
        /\ name' = [name EXCEPT ![q] = None] /\ mem' = [mem EXCEPT ![q] = <<>>]
    BY <1>6 DEF Exit
  <2>3. pc'[q] = "idle" /\ path'[q] = None /\ name'[q] = None /\ mem'[q] = <<>>
    BY <1>3, <2>2
  <2>4. QED
    BY <2>1, <2>2, <2>3 DEF PCs
<1>7. ASSUME Others, Fewer PROVE Held
  <2>1. ASSUME NEW r \in linked' PROVE pc'[r] = "index" /\ db'[name'[r]] \in SUBSET Path
    <3>1. r \in Process /\ r # q /\ r \in linked
      BY <1>7 DEF TypeInv
    <3>2. pc'[r] = pc[r] /\ name'[r] = name[r]
      BY <1>3, <1>7, <3>1
    <3>3. QED
      BY <1>3, <1>7, <3>1, <3>2
  <2>2. QED
    BY <2>1
<1>8. ASSUME NEW p \in Path, NEW n \in Name \cup {None}, StartAnalyze(q, p, n) PROVE TypeInv' /\ FindsInv'
  <2>1. file \in Registries
    BY <1>8 DEF StartAnalyze, TypeInv
  <2>2. FindByPath(file, p) \in Name \cup {None}
    <3>1. CASE ByPath(file, p) = {}
      BY <3>1 DEF FindByPath
    <3>2. CASE ByPath(file, p) # {}
      BY <2>1, <3>2, Lookups DEF Entry
    <3>3. QED
      BY <3>1, <3>2
  <2>3. Others /\ pc'[q] = "register" /\ mem'[q] = file /\ path'[q] = p /\ name'[q] \in Name \cup {None}
    BY <1>3, <1>8, <2>2 DEF StartAnalyze, Goto
  <2>4. Own /\ Mine(q)'
    BY <2>1, <2>3 DEF PCs
  <2>5. Shared /\ Fewer
    BY <1>3, <1>8 DEF StartAnalyze, Goto, TypeInv
  <2>6. QED
    BY <1>2, <1>7, <2>3, <2>4, <2>5
<1>9. ASSUME NEW n \in Name, StartClean(q, n) PROVE TypeInv' /\ FindsInv'
  <2>1. file \in Registries /\ path[q] = None
    BY <1>3, <1>9 DEF StartClean, TypeInv, Goto
  <2>2. Others /\ pc'[q] = "remove" /\ mem'[q] = file /\ path'[q] = None /\ name'[q] = n
    BY <1>3, <1>5, <1>9, <2>1 DEF StartClean, Goto
  <2>3. Own /\ Mine(q)'
    BY <2>1, <2>2 DEF PCs
  <2>4. Shared /\ Fewer
    BY <1>3, <1>9 DEF StartClean, Goto, TypeInv
  <2>5. QED
    BY <1>2, <1>7, <2>2, <2>3, <2>4
<1>10. ASSUME RegisterRepo(q) PROVE TypeInv' /\ FindsInv'
  <2> DEFINE n == IF name[q] = None THEN base[path[q]] ELSE name[q]
  <2>1. path[q] \in Path /\ n \in Name
    BY <1>0, <1>3, <1>10 DEF RegisterRepo, Goto
  <2>2. Register(mem[q], n, path[q]) \in Registries /\ Finds(Register(mem[q], n, path[q]), n, path[q])
    BY <1>3, <2>1, RegisterFinds
  <2>3. /\ Others /\ pc'[q] = "save" /\ mem'[q] = Register(mem[q], n, path[q])
        /\ path' = path /\ name' = name /\ base' = base
    BY <1>3, <1>5, <1>10 DEF RegisterRepo, Goto, args, given
  <2>4. RegisteredAs(q)' = n
    BY <2>3 DEF RegisteredAs
  <2>5. Own /\ Mine(q)'
    BY <1>3, <2>2, <2>3, <2>4 DEF PCs, Finds
  <2>6. Shared /\ Fewer
    BY <1>3, <1>10 DEF RegisterRepo, Goto, TypeInv
  <2>7. QED
    BY <1>2, <1>7, <2>3, <2>5, <2>6
<1>11. ASSUME Truncate(q) PROVE TypeInv' /\ FindsInv'
  <2>1. /\ Others /\ pc[q] = "save" /\ pc'[q] = "write" /\ path' = path /\ name' = name /\ mem' = mem /\ base' = base
    BY <1>3, <1>5, <1>11 DEF Truncate, Goto, args, given
  <2>2. Own /\ Mine(q)'
    BY <1>3, <2>1 DEF PCs, Finds, RegisteredAs
  <2>3. Shared /\ Fewer
    BY <1>3, <1>11 DEF Truncate, Goto, TypeInv
  <2>4. QED
    BY <1>2, <1>7, <2>1, <2>2, <2>3
<1>12. ASSUME Write(q) PROVE TypeInv' /\ FindsInv'
  <2>1. Shared /\ Fewer
    <3>1. linked' \subseteq linked /\ q \notin linked' /\ linked' \subseteq Process
      BY <1>3, <1>12 DEF Write, Exit, TypeInv
    <3>2. file' \in Registries \cup {Torn}
      BY <1>3, <1>12 DEF Write, Written, TypeInv
    <3>3. QED
      BY <1>12, <3>1, <3>2 DEF Write, TypeInv
  <2>2. CASE path[q] = None
    BY <1>2, <1>6, <1>7, <1>12, <2>1, <2>2 DEF Write
  <2>3. CASE path[q] # None
    <3>1. /\ Others /\ pc[q] = "write" /\ pc'[q] = "open" /\ path' = path /\ name' = name /\ mem' = mem /\ base' = base
      BY <1>3, <1>5, <1>12, <2>3 DEF Write, args, given
    <3>2. Own /\ Mine(q)'
      BY <1>3, <2>3, <3>1 DEF PCs, Finds, RegisteredAs
    <3>3. QED
      BY <1>2, <1>7, <2>1, <3>1, <3>2
  <2>4. QED
    BY <2>2, <2>3
<1>13. ASSUME OpenDB(q) PROVE TypeInv' /\ FindsInv'
  <2>1. pc[q] = "open" /\ path[q] \in Path /\ path[q] # None
    BY <1>0, <1>3, <1>13 DEF OpenDB, Goto
  <2>2. RepoName(q) = RegisteredAs(q) /\ RegisteredAs(q) \in Name
    BY <1>0, <1>3, <2>1 DEF RepoName, RegisteredAs, Finds
  <2>3. /\ Others /\ pc'[q] = "index" /\ path' = path /\ mem' = mem /\ base' = base /\ name'[q] = RegisteredAs(q)
    BY <1>3, <1>5, <1>13, <2>2 DEF OpenDB, Goto, args, given
  <2>4. RegisteredAs(q)' = RegisteredAs(q)
    BY <1>0, <2>2, <2>3 DEF RegisteredAs
  <2>5. Own /\ Mine(q)'
    BY <1>0, <1>3, <2>1, <2>2, <2>3, <2>4 DEF PCs, Finds
  <2>6. Shared
    <3>1. db' \in [Name -> (SUBSET Path) \cup {None}]
      BY <1>13 DEF OpenDB, TypeInv
    <3>2. QED
      BY <1>13, <3>1 DEF OpenDB, TypeInv
  <2>7. Held
    <3>1. ASSUME NEW r \in linked' PROVE pc'[r] = "index" /\ db'[name'[r]] \in SUBSET Path
      <4>1. ASSUME NEW n \in Name, n = RegisteredAs(q) \/ db[n] \in SUBSET Path PROVE db'[n] \in SUBSET Path
        BY <1>13, <2>2, <4>1 DEF OpenDB, TypeInv
      <4>2. CASE r = q
        BY <2>2, <2>3, <4>1, <4>2
      <4>3. CASE r # q
        <5>1. r \in Process /\ r \in linked
          BY <1>13, <4>3 DEF OpenDB, TypeInv
        <5>2. pc'[r] = pc[r] /\ name'[r] = name[r]
          BY <1>3, <2>3, <4>3, <5>1
        <5>3. QED
          BY <1>3, <4>1, <5>1, <5>2
      <4>4. QED
        BY <4>2, <4>3
    <3>2. QED
      BY <3>1
  <2>8. QED
    BY <1>2, <2>3, <2>5, <2>6, <2>7
<1>14. ASSUME NEW mode \in Modes, Index(q, mode) PROVE TypeInv' /\ FindsInv'
  <2>1. db' \in [Name -> (SUBSET Path) \cup {None}]
    <3>1. name[q] \in Name /\ path[q] \in Path
      BY <1>3, <1>14 DEF Index
    <3>2. db[name[q]] \in (SUBSET Path) \cup {None}
      BY <3>1 DEF TypeInv
    <3>3. CASE q \notin linked \/ mode = "current"
      BY <1>14, <3>3 DEF Index, TypeInv
    <3>4. CASE ~(q \notin linked \/ mode = "current")
      <4>1. db[name[q]] \in SUBSET Path
        BY <1>3, <3>4
      <4>2. QED
        BY <1>14, <3>1, <3>4, <4>1 DEF Index, TypeInv
    <3>5. QED
      BY <3>3, <3>4
  <2>2. Shared /\ Fewer
    <3>1. linked' = linked \ {q}
      BY <1>14 DEF Index, Exit
    <3>2. ASSUME NEW n \in Name, db[n] \in SUBSET Path PROVE db'[n] \in SUBSET Path
      BY <1>3, <1>14, <3>2 DEF Index, TypeInv
    <3>3. QED
      BY <1>14, <2>1, <3>1, <3>2 DEF Index, TypeInv
  <2>3. QED
    BY <1>2, <1>6, <1>7, <1>14, <2>2 DEF Index
<1>15. ASSUME RemoveDB(q) PROVE TypeInv' /\ FindsInv'
  <2>1. /\ Others /\ pc[q] = "remove" /\ pc'[q] = "unregister" /\ path' = path /\ name' = name /\ mem' = mem /\ base' = base
    BY <1>3, <1>5, <1>15 DEF RemoveDB, Goto, args, given
  <2>2. Own /\ Mine(q)'
    BY <1>3, <2>1 DEF PCs
  <2>3. Shared
    BY <1>15 DEF RemoveDB, TypeInv
  <2>4. Held
    <3>1. ASSUME NEW r \in linked' PROVE pc'[r] = "index" /\ db'[name'[r]] \in SUBSET Path
      <4>1. r \in Process /\ r \in linked /\ name[r] # name[q] /\ r # q
        BY <1>15 DEF RemoveDB, TypeInv
      <4>2. pc'[r] = pc[r] /\ name'[r] = name[r] /\ db'[name[r]] = db[name[r]]
        BY <1>3, <1>15, <2>1, <4>1 DEF RemoveDB, TypeInv
      <4>3. QED
        BY <1>3, <4>1, <4>2
    <3>2. QED
      BY <3>1
  <2>5. QED
    BY <1>2, <2>1, <2>2, <2>3, <2>4
<1>16. ASSUME UnregisterRepo(q) PROVE TypeInv' /\ FindsInv'
  <2> DEFINE found == ByName(mem[q], name[q])
  <2>1. Shared /\ Fewer
    BY <1>3, <1>16 DEF UnregisterRepo, Exit, TypeInv
  <2>2. CASE found = {}
    BY <1>2, <1>6, <1>7, <1>16, <2>1, <2>2 DEF UnregisterRepo
  <2>3. CASE found # {}
    <3>1. First(found) \in 1..Len(mem[q])
      <4>1. mem[q] \in Registries
        BY <1>3
      <4>2. QED
        BY <2>3, <4>1, Lookups
    <3>2. Unregister(mem[q], First(found)) \in Registries
      BY <1>3, <3>1, UnregisterKeeps
    <3>3. /\ Others /\ pc[q] = "unregister" /\ pc'[q] = "save" /\ path' = path /\ name' = name
          /\ mem'[q] = Unregister(mem[q], First(found))
      BY <1>3, <1>5, <1>16, <2>3 DEF UnregisterRepo, args
    <3>4. Own /\ Mine(q)'
      BY <1>3, <3>2, <3>3 DEF PCs
    <3>5. QED
      BY <1>2, <1>7, <2>1, <3>3, <3>4
  <2>4. QED
    BY <2>2, <2>3
<1>17. ASSUME Crash(q) PROVE TypeInv' /\ FindsInv'
  <2>1. Shared /\ Fewer
    BY <1>17 DEF Crash, Exit, TypeInv
  <2>2. QED
    BY <1>2, <1>6, <1>7, <1>17, <2>1 DEF Crash
<1>18. QED
  BY <1>1, <1>8, <1>9, <1>10, <1>11, <1>12, <1>13, <1>14, <1>15, <1>16, <1>17

\* The steps of one process.
Acts(q) ==
  \/ \E p \in Path, n \in Name \cup {None} : StartAnalyze(q, p, n)
  \/ \E n \in Name : StartClean(q, n)
  \/ RegisterRepo(q) \/ Truncate(q) \/ Write(q) \/ OpenDB(q)
  \/ \E mode \in Modes : Index(q, mode)
  \/ RemoveDB(q) \/ UnregisterRepo(q) \/ Crash(q)

\* They leave the other processes where they are.
LEMMA OthersKept ==
  ASSUME TypeInv, NEW q \in Process, Acts(q)
  PROVE  /\ \A r \in Process : r # q => /\ pc'[r] = pc[r] /\ path'[r] = path[r]
                                        /\ name'[r] = name[r] /\ mem'[r] = mem[r]
         /\ UNCHANGED <<faults, base, start, server>>
<1>1. DOMAIN pc = Process /\ DOMAIN path = Process /\ DOMAIN name = Process /\ DOMAIN mem = Process
  BY DEF TypeInv
<1>2. \E p, n : pc' = [pc EXCEPT ![q] = n] /\ (path' = path \/ path' = [path EXCEPT ![q] = p])
  BY DEF Acts, StartAnalyze, StartClean, RegisterRepo, Truncate, Write, OpenDB, Index, RemoveDB,
         UnregisterRepo, Crash, Exit, Goto, args
<1>3. \E n : name' = name \/ name' = [name EXCEPT ![q] = n]
  BY DEF Acts, StartAnalyze, StartClean, RegisterRepo, Truncate, Write, OpenDB, Index, RemoveDB,
         UnregisterRepo, Crash, Exit, Goto, args
<1>4. \E m : mem' = mem \/ mem' = [mem EXCEPT ![q] = m]
  BY DEF Acts, StartAnalyze, StartClean, RegisterRepo, Truncate, Write, OpenDB, Index, RemoveDB,
         UnregisterRepo, Crash, Exit, Goto, args
<1>5. UNCHANGED <<faults, base, start, server>>
  BY DEF Acts, StartAnalyze, StartClean, RegisterRepo, Truncate, Write, OpenDB, Index, RemoveDB,
         UnregisterRepo, Crash, Exit, Goto, given
<1>6. QED
  BY <1>1, <1>2, <1>3, <1>4, <1>5

\* In every behavior the types are kept, and what was registered is found.
LEMMA TypesHold == Spec => [](TypeInv /\ FindsInv)
<1>1. Init => TypeInv /\ FindsInv
  <2> SUFFICES ASSUME Init PROVE TypeInv /\ FindsInv
    OBVIOUS
  <2>1. base \in [Path -> Name] /\ <<>> \in Registries
    BY RegistryAssumption DEF Init, Registries
  <2>2. start \in Registries
    BY <2>1, EveryoneIsThere DEF Init
  <2>3. QED
    BY <2>1, <2>2 DEF Init, TypeInv, FindsInv, PCs
<1>2. TypeInv /\ FindsInv /\ [Next]_vars => TypeInv' /\ FindsInv'
  <2> SUFFICES ASSUME TypeInv, FindsInv, [Next]_vars PROVE TypeInv' /\ FindsInv'
    OBVIOUS
  <2> DEFINE Still == UNCHANGED <<given, file, pc, args, mem, linked>>
  <2>1. ASSUME Still, db' \in [Name -> (SUBSET Path) \cup {None}],
               \A n \in Name : db[n] \in SUBSET Path => db'[n] \in SUBSET Path,
               server' \in Registries \cup {None}, server' # None => "server" \in faults
        PROVE  TypeInv' /\ FindsInv'
    <3>1. /\ faults' = faults /\ base' = base /\ start' = start /\ file' = file /\ pc' = pc
          /\ path' = path /\ name' = name /\ mem' = mem /\ linked' = linked
      BY <2>1 DEF given, args
    <3>2. FindsInv'
      <4>1. \A q \in Process : RegisteredAs(q)' = RegisteredAs(q)
        BY <3>1 DEF RegisteredAs, Finds, FindByPath, Get, ByPath, ByName
      <4>2. QED
        BY <3>1, <4>1 DEF FindsInv
    <3>3. ASSUME NEW q \in Process, q \in linked PROVE pc'[q] = "index" /\ db'[name'[q]] \in SUBSET Path
      BY <2>1, <3>1, <3>3 DEF TypeInv
    <3>4. TypeInv'
      BY <2>1, <3>1, <3>3 DEF TypeInv, Everyone
    <3>5. QED
      BY <3>2, <3>4
  <2>2. CASE Command
    BY <2>2, CommandTyped
  <2>3. CASE StartServer
    BY <2>1, <2>3 DEF StartServer, TypeInv
  <2>4. CASE StopServer
    BY <2>1, <2>4 DEF StopServer, TypeInv
  <2>5. ASSUME NEW n \in Name \cup {None}, Call(n) PROVE TypeInv' /\ FindsInv'
    <3>1. \A m \in Name : db'[m] = IF m = ResolveRepoName(n) /\ db[m] = None THEN {} ELSE db[m]
      BY <2>5 DEF Call
    <3>2. db' \in [Name -> (SUBSET Path) \cup {None}]
      BY <2>5, <3>1 DEF Call, TypeInv
    <3>3. \A m \in Name : db[m] \in SUBSET Path => db'[m] \in SUBSET Path
      BY <3>1
    <3>4. QED
      BY <2>1, <2>5, <3>2, <3>3 DEF Call, TypeInv
  <2>6. CASE UNCHANGED vars
    BY <2>1, <2>6 DEF vars, given, args, TypeInv
  <2>7. QED
    BY <2>2, <2>3, <2>4, <2>5, <2>6 DEF Next
<1>3. QED
  BY <1>1, <1>2, PTL DEF Spec

\* What a process that takes turns finds in its copy is what the file says.
LEMMA TurnsKept ==
  ASSUME TypeInv, TurnsInv, [Next]_vars
  PROVE  TurnsInv'
<1> SUFFICES ASSUME "overlap" \notin faults'
             PROVE  /\ \A q, r \in Process : q # r => pc'[q] = "idle" \/ pc'[r] = "idle"
                    /\ \A q \in Process :
                         /\ pc'[q] \in {"register", "remove", "unregister"} => mem'[q] = file' /\ file' # Torn
                         /\ pc'[q] = "write" => file' = Torn
                         /\ pc'[q] \in {"open", "index"} => mem'[q] = file'
  BY DEF TurnsInv
<1>1. ASSUME UNCHANGED <<given, file, pc, mem>>
      PROVE  TurnsInv'
  BY <1>1 DEF TurnsInv, given
<1>2. ASSUME NEW q \in Process, Acts(q) PROVE TurnsInv'
  <2>1. /\ \A r \in Process : r # q => pc'[r] = pc[r] /\ mem'[r] = mem[r]
        /\ faults' = faults
    BY <1>2, OthersKept
  <2>2. \A r \in Process : r # q => pc[r] = "idle"
    <3>1. \A x, r \in Process : x # r => pc[x] = "idle" \/ pc[r] = "idle"
      BY <2>1 DEF TurnsInv
    <3>2. CASE pc[q] # "idle"
      BY <3>1, <3>2
    <3>3. CASE pc[q] = "idle"
      BY <1>2, <2>1, <3>3 DEF Acts, StartAnalyze, StartClean, Free, RegisterRepo, Truncate, Write, OpenDB,
                              Index, RemoveDB, UnregisterRepo, Crash, Goto
    <3>4. QED
      BY <3>2, <3>3
  <2> DEFINE Mine == /\ pc'[q] \in {"register", "remove", "unregister"} => mem'[q] = file' /\ file' # Torn
                     /\ pc'[q] = "write" => file' = Torn
                     /\ pc'[q] \in {"open", "index"} => mem'[q] = file'
  <2>3. /\ pc[q] \in {"register", "remove", "unregister"} => mem[q] = file /\ file # Torn
        /\ pc[q] = "write" => file = Torn
        /\ pc[q] \in {"open", "index"} => mem[q] = file
    BY <2>1 DEF TurnsInv
  <2> SUFFICES Mine
    BY <2>1, <2>2 DEF TurnsInv
  <2>4. DOMAIN pc = Process /\ DOMAIN mem = Process
    BY DEF TypeInv
  <2>5. ASSUME Exit(q) PROVE Mine
    BY <2>4, <2>5 DEF Exit
  <2>6. ASSUME NEW p \in Path, NEW n \in Name \cup {None}, StartAnalyze(q, p, n) PROVE Mine
    BY <2>4, <2>6 DEF StartAnalyze, Goto
  <2>7. ASSUME NEW n \in Name, StartClean(q, n) PROVE Mine
    BY <2>4, <2>7 DEF StartClean, Goto
  <2>8. CASE RegisterRepo(q) \/ Truncate(q)
    BY <2>4, <2>8 DEF RegisterRepo, Truncate, Goto
  <2>9. CASE Write(q)
    <3>1. file' = mem[q]
      BY <2>3, <2>9 DEF Write, Written
    <3>2. QED
      BY <2>4, <2>5, <2>9, <3>1 DEF Write
  <2>10. CASE OpenDB(q)
    BY <2>3, <2>4, <2>10 DEF OpenDB, Goto
  <2>11. CASE Crash(q) \/ \E mode \in Modes : Index(q, mode)
    BY <2>5, <2>11 DEF Crash, Index
  <2>12. CASE RemoveDB(q)
    BY <2>3, <2>4, <2>12 DEF RemoveDB, Goto
  <2>13. CASE UnregisterRepo(q)
    BY <2>4, <2>5, <2>13 DEF UnregisterRepo
  <2>14. QED
    BY <1>2, <2>6, <2>7, <2>8, <2>9, <2>10, <2>11, <2>12, <2>13 DEF Acts
<1>3. CASE Command
  BY <1>2, <1>3 DEF Command, Acts, TurnsInv
<1>4. CASE StartServer \/ StopServer \/ UNCHANGED vars \/ \E n \in Name \cup {None} : Call(n)
  BY <1>1, <1>4 DEF StartServer, StopServer, Call, vars, TurnsInv
<1>5. QED
  BY <1>3, <1>4 DEF Next, TurnsInv

\* Where every repository is registered, no copy of the registry differs from it.
LEMMA SameKept ==
  ASSUME TypeInv, SameInv, [Next]_vars
  PROVE  SameInv'
<1> SUFFICES ASSUME start' # <<>>, faults' \subseteq {"overlap", "server"}
             PROVE  SameInv'
  BY DEF SameInv
<1>1. start' = start /\ faults' = faults
  BY OthersKept DEF Next, Command, Acts, StartServer, StopServer, Call, vars, given
<1>2. /\ start # <<>> /\ faults \subseteq {"overlap", "server"}
      /\ file = start \/ (file = Torn /\ \E q \in Process : pc[q] = "write")
      /\ \A q \in Process : /\ pc[q] \notin {"remove", "unregister"}
                            /\ pc[q] # "idle" => mem[q] = start
                            /\ pc[q] = "register" => name[q] = FindByPath(start, path[q])
  BY <1>1 DEF SameInv
<1>3. ASSUME UNCHANGED <<start, faults, file, pc, path, name, mem>>
      PROVE  SameInv'
  <2>1. \A q \in Process : FindByPath(start, path[q])' = FindByPath(start, path[q])
    BY <1>3 DEF FindByPath, ByPath
  <2>2. QED
    BY <1>3, <2>1 DEF SameInv
<1>4. ASSUME NEW q \in Process, Acts(q) PROVE SameInv'
  <2>1. \A r \in Process : r # q => /\ pc'[r] = pc[r] /\ path'[r] = path[r]
                                    /\ name'[r] = name[r] /\ mem'[r] = mem[r]
    BY <1>4, OthersKept
  <2>2. DOMAIN pc = Process /\ DOMAIN mem = Process /\ DOMAIN name = Process /\ DOMAIN path = Process
    BY DEF TypeInv
  <2> DEFINE Mine == /\ pc'[q] \notin {"remove", "unregister"}
                     /\ pc'[q] # "idle" => mem'[q] = start
                     /\ pc'[q] = "register" => name'[q] = FindByPath(start, path'[q])
             FileOk == file' = start \/ (file' = Torn /\ pc'[q] = "write")
                         \/ (file' = file /\ pc[q] # "write")
  <2>3. ASSUME Mine, FileOk PROVE SameInv'
    <3>1. file' = start \/ (file' = Torn /\ \E r \in Process : pc'[r] = "write")
      BY <1>2, <2>1, <2>3
    <3>2. \A r \in Process : /\ pc'[r] \notin {"remove", "unregister"}
                             /\ pc'[r] # "idle" => mem'[r] = start
                             /\ pc'[r] = "register" => name'[r] = FindByPath(start, path'[r])
      BY <1>2, <2>1, <2>3
    <3>3. QED
      BY <1>1, <3>1, <3>2 DEF SameInv, FindByPath, ByPath
  <2>4. ASSUME Exit(q) PROVE Mine
    BY <2>2, <2>4 DEF Exit
  <2>5. ASSUME NEW p \in Path, NEW n \in Name \cup {None}, StartAnalyze(q, p, n) PROVE SameInv'
    <3>1. file = start /\ n = None
      BY <1>2, <2>5 DEF StartAnalyze
    <3>2. Mine /\ FileOk
      BY <2>2, <2>5, <3>1 DEF StartAnalyze, Goto
    <3>3. QED
      BY <2>3, <3>2
  <2>6. CASE RegisterRepo(q)
    <3> DEFINE n == IF name[q] = None THEN base[path[q]] ELSE name[q]
    <3>1. pc[q] = "register" /\ path[q] \in Path /\ start \in Everyone /\ base \in [Path -> Name]
      BY <1>2, <2>6, RegistryAssumption DEF RegisterRepo, Goto, TypeInv
    <3>2. FindByPath(start, path[q]) = base[path[q]] /\ Register(start, base[path[q]], path[q]) = start
      BY <3>1, EveryoneIsThere
    <3>3. n = base[path[q]] /\ mem[q] = start
      BY <1>2, <3>1, <3>2
    <3>4. mem' = [mem EXCEPT ![q] = Register(mem[q], n, path[q])]
      BY <2>2, <2>6 DEF RegisterRepo
    <3>5. mem'[q] = start
      BY <2>2, <3>2, <3>3, <3>4
    <3>6. Mine /\ FileOk
      BY <2>2, <2>6, <3>5 DEF RegisterRepo, Goto
    <3>7. QED
      BY <2>3, <3>6
  <2>7. CASE Truncate(q)
    <3>1. Mine /\ FileOk
      BY <1>2, <2>2, <2>7 DEF Truncate, Goto
    <3>2. QED
      BY <2>3, <3>1
  <2>8. CASE Write(q)
    <3>1. mem[q] = start /\ file' = start
      BY <1>2, <2>8 DEF Write, Written
    <3>2. Mine
      BY <2>2, <2>4, <2>8, <3>1 DEF Write
    <3>3. QED
      BY <2>3, <3>1, <3>2
  <2>9. CASE OpenDB(q)
    <3>1. Mine /\ FileOk
      BY <1>2, <2>2, <2>9 DEF OpenDB, Goto
    <3>2. QED
      BY <2>3, <3>1
  <2>10. CASE \E mode \in Modes : Index(q, mode)
    <3>1. Mine /\ FileOk
      BY <2>4, <2>10 DEF Index
    <3>2. QED
      BY <2>3, <3>1
  <2>11. ~Crash(q) /\ ~RemoveDB(q) /\ ~UnregisterRepo(q) /\ \A n \in Name : ~StartClean(q, n)
    BY <1>2 DEF Crash, RemoveDB, UnregisterRepo, StartClean, Goto
  <2>12. QED
    BY <1>4, <2>5, <2>6, <2>7, <2>8, <2>9, <2>10, <2>11 DEF Acts
<1>5. CASE Command
  BY <1>4, <1>5 DEF Command, Acts
<1>6. CASE StartServer \/ StopServer \/ UNCHANGED vars \/ \E n \in Name \cup {None} : Call(n)
  BY <1>3, <1>6 DEF StartServer, StopServer, Call, vars, given, args
<1>7. QED
  BY <1>5, <1>6 DEF Next

\* Without given names and without overlapping processes, no registry that a
\* process holds or leaves behind has doubles or misses a database.
LEMMA GoodKept ==
  ASSUME TypeInv, FindsInv, TurnsInv, GoodInv, [Next]_vars
  PROVE  GoodInv'
<1> SUFFICES ASSUME faults' \cap {"named", "overlap"} = {}
             PROVE  GoodInv'
  BY DEF GoodInv
<1>1. faults' = faults /\ base' = base
  BY OthersKept DEF Next, Command, Acts, StartServer, StopServer, Call, vars, given
<1>2. /\ faults \cap {"named", "overlap"} = {} /\ "overlap" \notin faults /\ "named" \notin faults
      /\ file # Torn => Good(file)
      /\ \A q \in Process :
           /\ pc[q] \in {"save", "write", "open", "index"} => Good(mem[q])
           /\ pc[q] = "register" => name[q] = FindByPath(mem[q], path[q])
           /\ pc[q] = "unregister" => ~Exists(name[q])
      /\ \A n \in Name : db[n] # None => \A p \in db[n] : base[p] = n
  BY <1>1 DEF GoodInv
<1>3. ASSUME UNCHANGED <<file, pc, path, name, mem>>,
             \A n \in Name : db'[n] = db[n] \/ (db'[n] = {} /\ "server" \in faults)
      PROVE  GoodInv'
  <2>1. \A n \in Name : Exists(n)' => Exists(n)
    BY <1>1, <1>3 DEF Exists
  <2>2. \A n \in Name : db'[n] # None => \A p \in db'[n] : base[p] = n
    BY <1>2, <1>3
  <2>3. file # Torn => Good(file)'
    BY <1>1, <1>2, <1>3, <2>1 DEF Good, Unique, Basenames, Lists, ByName
  <2>4. \A q \in Process : pc[q] \in {"save", "write", "open", "index"} => Good(mem[q])'
    BY <1>1, <1>2, <1>3, <2>1 DEF Good, Unique, Basenames, Lists, ByName
  <2>5. \A q \in Process : /\ pc[q] = "register" => name[q] = FindByPath(mem[q], path[q])'
                           /\ pc[q] = "unregister" => ~Exists(name[q])'
    <3>1. ASSUME NEW q \in Process, pc[q] = "unregister" PROVE ~Exists(name[q])'
      BY <1>2, <1>3, <2>1, <3>1 DEF TypeInv
    <3>2. \A q \in Process : FindByPath(mem[q], path[q])' = FindByPath(mem[q], path[q])
      BY <1>3 DEF FindByPath, ByPath
    <3>3. QED
      BY <1>2, <1>3, <3>1, <3>2
  <2>6. QED
    BY <1>1, <1>3, <2>2, <2>3, <2>4, <2>5 DEF GoodInv
<1>4. ASSUME NEW q \in Process, Acts(q) PROVE GoodInv'
  <2>1. \A r \in Process : r # q => /\ pc'[r] = pc[r] /\ path'[r] = path[r]
                                    /\ name'[r] = name[r] /\ mem'[r] = mem[r]
    BY <1>4, OthersKept
  <2>2. \A r \in Process : r # q => pc'[r] = "idle"
    <3>1. TurnsInv'
      BY TurnsKept, <1>4 DEF Next, Command, Acts
    <3>2. \A x, r \in Process : x # r => pc'[x] = "idle" \/ pc'[r] = "idle"
      BY <1>1, <1>2, <3>1 DEF TurnsInv
    <3>3. CASE pc'[q] # "idle"
      BY <3>2, <3>3
    <3>4. CASE pc'[q] = "idle"
      <4>1. pc[q] # "idle"
        BY <1>4, <3>4 DEF Acts, StartAnalyze, StartClean, RegisterRepo, Truncate, Write, OpenDB,
                          Index, RemoveDB, UnregisterRepo, Crash, Goto, TypeInv
      <4>2. QED
        BY <1>2, <2>1, <4>1 DEF TurnsInv
    <3>5. QED
      BY <3>3, <3>4
  <2>3. DOMAIN pc = Process /\ DOMAIN mem = Process /\ DOMAIN name = Process /\ DOMAIN path = Process
    BY DEF TypeInv
  <2>4. /\ pc[q] \in {"register", "remove", "unregister"} => mem[q] = file /\ file # Torn
        /\ pc[q] = "write" => file = Torn
        /\ pc[q] \in {"open", "index"} => mem[q] = file
        /\ mem[q] \in Registries
    BY <1>2 DEF TurnsInv, TypeInv
  <2> DEFINE Listed(reg) == \A n \in Name : Exists(n)' => Exists(n) \/ ByName(reg, n) # {}
             Homes == \A n \in Name : db'[n] # None => \A p \in db'[n] : base[p] = n
             Mine == /\ pc'[q] \in {"save", "write", "open", "index"} => Good(mem[q])'
                     /\ pc'[q] = "register" => name'[q] = FindByPath(mem[q], path[q])'
                     /\ pc'[q] = "unregister" => ~Exists(name[q])'
  <2>5. ASSUME Homes, Mine, file' # Torn => Good(file)' PROVE GoodInv'
    <3>1. ASSUME NEW r \in Process
          PROVE  /\ pc'[r] \in {"save", "write", "open", "index"} => Good(mem[r])'
                 /\ pc'[r] = "register" => name'[r] = FindByPath(mem[r], path[r])'
                 /\ pc'[r] = "unregister" => ~Exists(name[r])'
      BY <2>2, <2>5
    <3>2. QED
      BY <1>1, <2>5, <3>1 DEF GoodInv
  <2>6. ASSUME db' = db PROVE Homes /\ \A n : Exists(n)' <=> Exists(n)
    BY <1>1, <1>2, <2>6 DEF Exists
  <2>7. ASSUME file' = file, Listed(file), file # Torn PROVE Good(file)'
    BY <1>1, <1>2, <2>7 DEF Good, Unique, Basenames, Lists, ByName
  <2>8. ASSUME mem'[q] = mem[q], Listed(mem[q]), Good(mem[q]) PROVE Good(mem[q])'
    BY <1>1, <2>8 DEF Good, Unique, Basenames, Lists, ByName
  <2>9. ASSUME Exit(q) PROVE Mine
    BY <2>3, <2>9 DEF Exit
  <2>10. ASSUME NEW p \in Path, NEW n \in Name \cup {None}, StartAnalyze(q, p, n) PROVE GoodInv'
    <3>1. n = None /\ db' = db /\ file' = file
      BY <1>2, <2>10 DEF StartAnalyze
    <3>2. /\ pc'[q] = "register" /\ mem'[q] = file /\ path'[q] = p /\ name'[q] = FindByPath(file, p)
      BY <2>3, <2>10, <3>1 DEF StartAnalyze, Goto
    <3>3. Mine
      BY <3>2 DEF FindByPath, ByPath
    <3>4. QED
      BY <2>5, <2>6, <2>7, <3>1, <3>3
  <2>11. ASSUME NEW n \in Name, StartClean(q, n) PROVE GoodInv'
    <3>1. db' = db /\ file' = file /\ pc'[q] = "remove"
      BY <2>3, <2>11 DEF StartClean, Goto
    <3>2. QED
      BY <2>5, <2>6, <2>7, <3>1
  <2>12. CASE RegisterRepo(q)
    <3> DEFINE n == IF name[q] = None THEN base[path[q]] ELSE name[q]
    <3>1. pc[q] = "register" /\ path[q] \in Path /\ base \in [Path -> Name]
      BY <2>12, RegistryAssumption DEF RegisterRepo, Goto, TypeInv
    <3>2. Good(mem[q]) /\ n = NameOf(mem[q], path[q])
      BY <1>2, <2>4, <3>1 DEF NameOf
    <3>3. /\ n = base[path[q]]
          /\ Unique(Register(mem[q], n, path[q])) /\ Basenames(Register(mem[q], n, path[q]))
          /\ \A m : ByName(mem[q], m) # {} => ByName(Register(mem[q], n, path[q]), m) # {}
      BY <2>4, <3>1, <3>2, RegisterKeeps DEF Good
    <3>4. pc'[q] = "save" /\ mem'[q] = Register(mem[q], n, path[q]) /\ db' = db /\ file' = file
      BY <2>3, <2>12 DEF RegisterRepo, Goto
    <3> HIDE DEF n
    <3>5. Good(mem[q])'
      BY <1>1, <2>6, <3>2, <3>3, <3>4 DEF Good, Unique, Basenames, Lists, ByName
    <3>6. QED
      BY <2>5, <2>6, <2>7, <3>4, <3>5
  <2>13. CASE Truncate(q)
    <3>1. pc[q] = "save" /\ pc'[q] = "write" /\ db' = db /\ file' = Torn /\ mem'[q] = mem[q]
      BY <2>3, <2>13 DEF Truncate, Goto
    <3>2. Good(mem[q])'
      BY <1>2, <2>6, <2>8, <3>1
    <3>3. QED
      BY <2>5, <2>6, <3>1, <3>2
  <2>14. CASE Write(q)
    <3>1. pc[q] = "write" /\ db' = db /\ file' = mem[q] /\ Good(mem[q])
      BY <1>2, <2>4, <2>14 DEF Write, Written
    <3>2. Good(file)'
      BY <1>1, <2>6, <3>1 DEF Good, Unique, Basenames, Lists, ByName
    <3>3. Mine
      <4>1. CASE path[q] = None
        BY <2>9, <2>14, <4>1 DEF Write
      <4>2. CASE path[q] # None
        <5>1. pc'[q] = "open" /\ mem'[q] = mem[q]
          BY <2>3, <2>14, <4>2 DEF Write
        <5>2. QED
          BY <2>6, <2>8, <3>1, <5>1
      <4>3. QED
        BY <4>1, <4>2
    <3>4. QED
      BY <2>5, <2>6, <3>1, <3>2, <3>3
  <2>15. CASE OpenDB(q)
    <3> DEFINE n == RepoName(q)
    <3>1. pc[q] = "open" /\ pc'[q] = "index" /\ file' = file /\ mem' = mem /\ mem[q] = file /\ Good(mem[q])
      BY <1>2, <2>3, <2>4, <2>15 DEF OpenDB, Goto
    <3>2. \A m \in Name : m # n => db'[m] = db[m]
      BY <2>15 DEF OpenDB, TypeInv
    <3>3. n \in Name => db'[n] = IF db[n] = None THEN {} ELSE db[n]
      BY <2>15 DEF OpenDB, TypeInv
    <3>4. path[q] \in Path /\ path[q] # None
      BY <3>1, RegistryAssumption DEF TypeInv
    <3>5. n = RegisteredAs(q) /\ Get(mem[q], n) = path[q]
      BY <3>1, <3>4, RegistryAssumption DEF FindsInv, Finds, RepoName, RegisteredAs, TypeInv
    <3>6. ByName(mem[q], n) # {}
      BY <3>4, <3>5 DEF Get
    <3>7. Listed(mem[q])
      BY <1>1, <3>2, <3>6 DEF Exists
    <3>8. Homes
      BY <1>2, <3>2, <3>3
    <3> HIDE DEF n
    <3>9. QED
      BY <2>5, <2>7, <2>8, <3>1, <3>7, <3>8
  <2>16. ASSUME NEW mode \in Modes, Index(q, mode) PROVE GoodInv'
    <3>1. /\ pc[q] = "index" /\ file' = file /\ mem[q] = file /\ Good(mem[q])
          /\ path[q] \in Path /\ path[q] # None /\ name[q] \in Name /\ name[q] # None
      BY <1>2, <2>4, <2>16, RegistryAssumption DEF Index, TypeInv
    <3>2. FindByPath(mem[q], path[q]) = name[q] /\ Get(mem[q], name[q]) = path[q]
      BY <3>1 DEF FindsInv, Finds, RegisteredAs
    <3>3. ByName(mem[q], name[q]) # {} /\ ByPath(mem[q], path[q]) # {}
      BY <3>1, <3>2 DEF Get, FindByPath
    <3>4. base[path[q]] = name[q]
      <4> DEFINE i == First(ByPath(mem[q], path[q]))
      <4>1. i \in ByPath(mem[q], path[q]) /\ mem[q][i].name = name[q]
        BY <2>4, <3>2, <3>3, Lookups
      <4>2. QED
        BY <3>1, <4>1 DEF Good, Basenames, ByPath
    <3>5. \A m \in Name : m # name[q] => db'[m] = db[m]
      BY <2>16 DEF Index, TypeInv
    <3>6. Listed(mem[q])
      BY <1>1, <3>3, <3>5 DEF Exists
    <3>7. ASSUME db'[name[q]] # None, NEW p \in db'[name[q]] PROVE base[p] = name[q]
      <4>1. CASE db' = db
        BY <1>2, <3>1, <3>7, <4>1
      <4>2. CASE db' # db
        <5>1. q \in linked /\ db'[name[q]] = IF mode = "force" THEN {path[q]} ELSE db[name[q]] \cup {path[q]}
          BY <2>16, <3>1, <4>2 DEF Index, TypeInv
        <5>2. p = path[q] \/ p \in db[name[q]]
          BY <3>7, <5>1
        <5>3. CASE p = path[q]
          BY <3>4, <5>3
        <5>4. CASE p # path[q]
          <6>1. db[name[q]] # None
            BY <5>1, RegistryAssumption DEF TypeInv
          <6>2. QED
            BY <1>2, <3>1, <5>2, <5>4, <6>1
        <5>5. QED
          BY <5>3, <5>4
      <4>3. QED
        BY <4>1, <4>2
    <3>8. Homes
      BY <1>2, <3>5, <3>7
    <3>9. Mine
      BY <2>9, <2>16 DEF Index
    <3>10. QED
      BY <2>5, <2>7, <3>1, <3>6, <3>8, <3>9
  <2>17. CASE RemoveDB(q)
    <3>1. pc'[q] = "unregister" /\ file' = file /\ name' = name /\ pc[q] = "remove" /\ name[q] \in Name
      BY <2>3, <2>17 DEF RemoveDB, Goto, args, TypeInv
    <3>2. db'[name[q]] = None /\ \A m \in Name : m # name[q] => db'[m] = db[m]
      BY <2>17, <3>1 DEF RemoveDB, TypeInv
    <3>3. ~Exists(name[q])' /\ Listed(file) /\ Homes
      BY <1>1, <1>2, <3>1, <3>2 DEF Exists
    <3>4. QED
      BY <2>5, <2>7, <3>1, <3>3
  <2>18. CASE UnregisterRepo(q)
    <3> DEFINE found == ByName(mem[q], name[q])
    <3>1. db' = db /\ file' = file /\ pc[q] = "unregister" /\ mem[q] = file /\ Good(mem[q]) /\ ~Exists(name[q])
      BY <1>2, <2>4, <2>18 DEF UnregisterRepo
    <3>2. CASE found = {}
      BY <2>5, <2>6, <2>7, <2>9, <2>18, <3>1, <3>2 DEF UnregisterRepo
    <3>3. CASE found # {}
      <4> DEFINE i == First(found)
      <4>1. i \in found /\ i \in 1..Len(mem[q]) /\ mem[q][i].name = name[q]
        <5>1. mem[q] \in Registries
          BY <2>4
        <5>2. i \in found /\ found \subseteq 1..Len(mem[q])
          BY <3>3, <5>1, Lookups
        <5>3. QED
          BY <5>2 DEF ByName
      <4>2. pc'[q] = "save" /\ mem'[q] = Unregister(mem[q], i)
        BY <2>3, <2>18, <3>3 DEF UnregisterRepo
      <4> HIDE DEF i, found
      <4>3. /\ Unique(Unregister(mem[q], i)) /\ Basenames(Unregister(mem[q], i))
            /\ \A m : ByName(mem[q], m) # {} /\ m # name[q] => ByName(Unregister(mem[q], i), m) # {}
        BY <2>4, <3>1, <4>1, UnregisterKeeps DEF Good
      <4>4. Good(mem[q])'
        BY <1>1, <2>6, <3>1, <4>2, <4>3 DEF Good, Unique, Basenames, Lists, ByName
      <4>5. QED
        BY <2>5, <2>6, <2>7, <3>1, <4>2, <4>4
    <3>4. QED
      BY <3>2, <3>3
  <2>19. CASE Crash(q)
    BY <2>5, <2>6, <2>7, <2>9, <2>19 DEF Crash
  <2>20. QED
    BY <1>4, <2>10, <2>11, <2>12, <2>13, <2>14, <2>15, <2>16, <2>17, <2>18, <2>19 DEF Acts
<1>5. CASE Command
  BY <1>4, <1>5 DEF Command, Acts
<1>6. CASE StartServer \/ StopServer \/ UNCHANGED vars
  <2>1. UNCHANGED <<file, pc, path, name, mem, db>>
    BY <1>6 DEF StartServer, StopServer, vars, args
  <2>2. \A n \in Name : db'[n] = db[n]
    BY <2>1
  <2>3. QED
    BY <1>3, <2>1, <2>2
<1>7. ASSUME NEW n \in Name \cup {None}, Call(n) PROVE GoodInv'
  <2>1. "server" \in faults
    BY <1>7 DEF Call, TypeInv
  <2>2. \A m \in Name : db'[m] = db[m] \/ db'[m] = {}
    BY <1>7 DEF Call
  <2>3. QED
    BY <1>3, <1>7, <2>1, <2>2 DEF Call, args
<1>8. QED
  BY <1>5, <1>6, <1>7 DEF Next
-----------------------------------------------------------------------------
\* The inductive invariant.
RegistryInv == TypeInv /\ FindsInv /\ TurnsInv /\ GoodInv /\ SameInv

LEMMA RegistryInvariant == Spec => []RegistryInv
<1>1. Init => TurnsInv /\ GoodInv /\ SameInv
  <2> SUFFICES ASSUME Init PROVE TurnsInv /\ GoodInv /\ SameInv
    OBVIOUS
  <2>1. TurnsInv /\ SameInv
    BY DEF Init, TurnsInv, SameInv
  <2>2. base \in [Path -> Name]
    BY RegistryAssumption DEF Init
  <2>3. Unique(start) /\ Basenames(start)
    <3>1. CASE start = <<>>
      BY <3>1 DEF Unique, Basenames
    <3>2. CASE start # <<>>
      BY <2>2, <3>2, EveryoneIsThere DEF Init
    <3>3. QED
      BY <3>1, <3>2
  <2>4. Good(file)
    BY <2>3 DEF Init, Good, Unique, Basenames, Lists, Exists
  <2>5. QED
    BY <2>1, <2>4 DEF Init, GoodInv
<1>2. TypeInv /\ FindsInv /\ TurnsInv /\ GoodInv /\ SameInv /\ [Next]_vars
        => TurnsInv' /\ GoodInv' /\ SameInv'
  BY TurnsKept, GoodKept, SameKept
<1>3. QED
  BY <1>1, <1>2, TypesHold, PTL DEF Spec, RegistryInv

\* Nothing is in the registry twice: Register replaces the entry of the path or of
\* the name, and an unnamed repository is entered under its basename, so that both
\* are the same entry (registry.go:88-101).
THEOREM NothingTwice == Spec => []UniqueEntries
<1>1. RegistryInv => UniqueEntries
  BY DEF RegistryInv, GoodInv, Good, Unique, UniqueEntries
<1>2. QED
  BY <1>1, RegistryInvariant, PTL

\* Every database is listed, wherever a process died: analyze has registered the
\* repository when it opens the database (analyze.go:78-101), and clean has removed
\* the file when it takes out the entry (main.go:89-94).
THEOREM EveryIndexIsListed == Spec => []EveryIndexListed
<1>1. RegistryInv => EveryIndexListed
  BY DEF RegistryInv, GoodInv, Good, Lists, EveryIndexListed
<1>2. QED
  BY <1>1, RegistryInvariant, PTL

\* Hooks that analyze registered repositories all at once leave the registry as it
\* is, for any number of processes: each reads and writes the same one.
THEOREM HooksKeepRegistry == Spec => []ReanalysisKeepsRegistry
<1>1. RegistryInv => ReanalysisKeepsRegistry
  BY DEF RegistryInv, SameInv, ReanalysisKeepsRegistry
<1>2. QED
  BY <1>1, RegistryInvariant, PTL

\* Readers find the database that analyze fills: the entry it wrote is the first of
\* its path and of its name, and no other process changes it before the database is
\* filled; without given names and equal basenames it is the repository's own.
THEOREM IndexIsFound == Spec => []ReadersFindIt
<1>1. RegistryInv => ReadersFindIt
  <2> SUFFICES ASSUME RegistryInv PROVE ReadersFindIt
    OBVIOUS
  <2>1. ASSUME "overlap" \notin faults, NEW q \in Process, pc[q] = "index"
        PROVE  FindByPath(file, path[q]) = name[q] /\ Get(file, name[q]) = path[q]
    <3>1. mem[q] = file /\ path[q] \in Path /\ path[q] # None /\ name[q] \in Name /\ name[q] # None
      BY <2>1, RegistryAssumption DEF RegistryInv, TurnsInv, TypeInv
    <3>2. QED
      BY <2>1, <3>1 DEF RegistryInv, FindsInv, Finds, RegisteredAs
  <2>2. ASSUME faults \cap {"named", "overlap"} = {}, \A p, o \in Path : base[p] = base[o] => p = o,
               NEW n \in Name, db[n] # None, NEW p \in db[n], NEW o \in db[n]
        PROVE  p = o
    <3>1. base[p] = n /\ base[o] = n
      BY <2>2 DEF RegistryInv, GoodInv
    <3>2. p \in Path /\ o \in Path
      BY <2>2 DEF RegistryInv, TypeInv
    <3>3. QED
      BY <2>2, <3>1, <3>2
  <2>3. QED
    BY <2>1, <2>2 DEF ReadersFindIt
<1>2. QED
  BY <1>1, RegistryInvariant, PTL
-----------------------------------------------------------------------------
(* The map of names that the registry is to commands that take turns.      *)

\* A registry without doubles is the map of its entries.
LEMMA EntriesAre ==
  ASSUME NEW reg \in Registries, Unique(reg)
  PROVE  /\ DOMAIN Entries(reg) = { reg[i].name : i \in 1..Len(reg) }
         /\ \A i \in 1..Len(reg) : /\ reg[i].name \in DOMAIN Entries(reg)
                                   /\ Entries(reg)[reg[i].name] = reg[i].path
<1>1. DOMAIN reg = 1..Len(reg)
  BY DEF Registries
<1>2. ASSUME NEW i \in 1..Len(reg) PROVE Get(reg, reg[i].name) = reg[i].path
  <2> DEFINE j == First(ByName(reg, reg[i].name))
  <2>1. ByName(reg, reg[i].name) # {}
    BY <1>1 DEF ByName
  <2>2. j \in ByName(reg, reg[i].name) /\ Get(reg, reg[i].name) = reg[j].path
    BY <2>1, Lookups
  <2> HIDE DEF j
  <2>3. j \in DOMAIN reg /\ reg[j].name = reg[i].name
    BY <2>2 DEF ByName
  <2>4. j = i
    BY <1>1, <2>3 DEF Unique
  <2>5. QED
    BY <2>2, <2>4
<1>3. QED
  BY <1>1, <1>2 DEF Entries

\* It maps names to repositories, so that it is not what a torn file stands for.
LEMMA EntriesMap ==
  ASSUME NEW reg \in Registries
  PROVE  /\ DOMAIN Entries(reg) \subseteq Name /\ Entries(reg) # Torn
         /\ \A n \in DOMAIN Entries(reg) :
              \E i \in 1..Len(reg) : n = reg[i].name /\ Entries(reg)[n] = reg[i].path
<1>1. DOMAIN reg = 1..Len(reg) /\ \A i \in 1..Len(reg) : reg[i] \in Entry
  BY DEF Registries
<1>2. ASSUME NEW n \in DOMAIN Entries(reg)
      PROVE  n \in Name /\ \E i \in 1..Len(reg) : n = reg[i].name /\ Entries(reg)[n] = reg[i].path
  <2>1. Entries(reg)[n] = Get(reg, n) /\ ByName(reg, n) # {}
    BY <1>1 DEF Entries, ByName
  <2>2. PICK i \in ByName(reg, n) : Get(reg, n) = reg[i].path
    BY <2>1, Lookups
  <2>3. QED
    BY <1>1, <2>1, <2>2 DEF ByName, Entry
<1>3. DOMAIN Entries(reg) \in SUBSET Name /\ Entries(reg) \in [DOMAIN Entries(reg) -> Path]
  <2>1. Entries(reg) = [n \in DOMAIN Entries(reg) |-> Entries(reg)[n]]
    BY DEF Entries
  <2>2. \A n \in DOMAIN Entries(reg) : n \in Name /\ Entries(reg)[n] \in Path
    BY <1>1, <1>2 DEF Entry
  <2>3. QED
    BY <2>1, <2>2
<1>4. QED
  BY <1>2, <1>3, RegistryAssumption

\* A map with p under n, and one without n.
Entered(map, n, p) == [m \in DOMAIN map \cup {n} |-> IF m = n THEN p ELSE map[m]]
Left(map, n) == [m \in DOMAIN map \ {n} |-> map[m]]

\* Register enters a repository under its basename.
LEMMA EntriesOfRegister ==
  ASSUME NEW reg \in Registries, NEW p \in Path, base \in [Path -> Name], Unique(reg), Basenames(reg)
  PROVE  Entries(Register(reg, base[p], p)) = Entered(Entries(reg), base[p], p)
<1> DEFINE n == base[p]
           new == Register(reg, n, p)
<1>1. n \in Name
  OBVIOUS
<1>2. PICK k \in 1..Len(reg) + 1 :
           /\ new \in Registries
           /\ Len(new) = IF k = Len(reg) + 1 THEN Len(reg) + 1 ELSE Len(reg)
           /\ k \in 1..Len(new)
           /\ new[k] = [name |-> n, path |-> p]
           /\ \A i \in 1..Len(reg) : i # k => new[i] = reg[i]
           /\ k = Len(reg) + 1 => Matches(reg, n, p) = {}
           /\ k \in 1..Len(reg) => k \in Matches(reg, n, p)
           /\ \A i \in 1..k - 1 : i \notin Matches(reg, n, p)
  BY <1>1, RegisterPlace
<1>3. Len(reg) \in Nat /\ DOMAIN reg = 1..Len(reg)
  BY DEF Registries
<1>4. Unique(new)
  BY RegisterKeeps
<1> HIDE DEF new
<1>5. k \in 1..Len(reg) => reg[k].name = n
  BY <1>2, <1>3 DEF Matches, ByName, ByPath, Basenames
<1>6. \A i \in 1..Len(new) : i # k => i \in 1..Len(reg) /\ new[i] = reg[i]
  BY <1>2, <1>3
<1>7. \A i \in 1..Len(reg) : i # k => i \in 1..Len(new) /\ new[i] = reg[i]
  BY <1>2, <1>3
<1>8. /\ DOMAIN Entries(reg) = { reg[i].name : i \in 1..Len(reg) }
      /\ \A i \in 1..Len(reg) : Entries(reg)[reg[i].name] = reg[i].path
  BY EntriesAre
<1>9. /\ DOMAIN Entries(new) = { new[i].name : i \in 1..Len(new) }
      /\ \A i \in 1..Len(new) : Entries(new)[new[i].name] = new[i].path
  BY <1>2, <1>4, EntriesAre
<1>10. DOMAIN Entries(new) = DOMAIN Entries(reg) \cup {n}
  <2>1. ASSUME NEW m \in DOMAIN Entries(new) PROVE m \in DOMAIN Entries(reg) \cup {n}
    BY <1>2, <1>6, <1>8, <1>9, <2>1
  <2>2. ASSUME NEW m \in DOMAIN Entries(reg) PROVE m \in DOMAIN Entries(new)
    <3>1. PICK i \in 1..Len(reg) : m = reg[i].name
      BY <1>8, <2>2
    <3>2. CASE i = k
      BY <1>2, <1>5, <1>9, <3>1, <3>2
    <3>3. CASE i # k
      BY <1>7, <1>9, <3>1, <3>3
    <3>4. QED
      BY <3>2, <3>3
  <2>3. n \in DOMAIN Entries(new)
    BY <1>2, <1>9
  <2>4. QED
    BY <2>1, <2>2, <2>3
<1>11. ASSUME NEW m \in DOMAIN Entries(new) PROVE Entries(new)[m] = Entered(Entries(reg), n, p)[m]
  <2>1. CASE m = n
    BY <1>2, <1>9, <1>10, <2>1 DEF Entered
  <2>2. CASE m # n
    <3>1. PICK i \in 1..Len(reg) : m = reg[i].name
      BY <1>8, <1>10, <2>2
    <3>2. i # k /\ i \in 1..Len(new) /\ new[i] = reg[i]
      BY <1>5, <1>7, <2>2, <3>1
    <3>3. Entries(new)[m] = reg[i].path /\ Entries(reg)[m] = reg[i].path
      BY <1>8, <1>9, <3>1, <3>2
    <3>4. QED
      BY <1>10, <2>2, <3>3 DEF Entered
  <2>3. QED
    BY <2>1, <2>2
<1>12. Entries(new) = [m \in DOMAIN Entries(new) |-> Entries(new)[m]]
  BY DEF Entries
<1>13. Entered(Entries(reg), n, p) = [m \in DOMAIN Entries(new) |-> Entered(Entries(reg), n, p)[m]]
  BY <1>10 DEF Entered
<1>14. QED
  BY <1>11, <1>12, <1>13 DEF new

\* Unregister takes one out.
LEMMA EntriesOfUnregister ==
  ASSUME NEW reg \in Registries, NEW i \in 1..Len(reg), Unique(reg)
  PROVE  Entries(Unregister(reg, i)) = Left(Entries(reg), reg[i].name)
<1> DEFINE new == Unregister(reg, i)
           n == reg[i].name
<1>1. /\ new \in Registries /\ Unique(new)
      /\ \A j \in 1..Len(new) : \E k \in 1..Len(reg) : k # i /\ new[j] = reg[k]
      /\ \A k \in 1..Len(reg) : k # i => \E j \in 1..Len(new) : new[j] = reg[k]
  <2>1. /\ new \in Registries /\ Unique(new) /\ Len(new) = Len(reg) - 1
        /\ \A j \in 1..Len(reg) - 1 : Old(i, j) \in 1..Len(reg) /\ Old(i, j) # i /\ new[j] = reg[Old(i, j)]
        /\ \A k \in 1..Len(reg) : k # i => \E j \in 1..Len(reg) - 1 : Old(i, j) = k
    BY UnregisterMoves, UnregisterKeeps
  <2> HIDE DEF new
  <2>2. QED
    BY <2>1
<1> HIDE DEF new
<1>2. /\ DOMAIN Entries(reg) = { reg[k].name : k \in 1..Len(reg) }
      /\ \A k \in 1..Len(reg) : Entries(reg)[reg[k].name] = reg[k].path
  BY EntriesAre
<1>3. /\ DOMAIN Entries(new) = { new[j].name : j \in 1..Len(new) }
      /\ \A j \in 1..Len(new) : Entries(new)[new[j].name] = new[j].path
  BY <1>1, EntriesAre
<1>4. \A k \in 1..Len(reg) : k # i => reg[k].name # n
  BY DEF Unique, Registries
<1>5. DOMAIN Entries(new) = DOMAIN Entries(reg) \ {n}
  <2>1. ASSUME NEW m \in DOMAIN Entries(new) PROVE m \in DOMAIN Entries(reg) /\ m # n
    <3>1. PICK j \in 1..Len(new) : m = new[j].name
      BY <1>3
    <3>2. PICK k \in 1..Len(reg) : k # i /\ new[j] = reg[k]
      BY <1>1
    <3>3. QED
      BY <1>2, <1>4, <3>1, <3>2
  <2>2. ASSUME NEW m \in DOMAIN Entries(reg), m # n PROVE m \in DOMAIN Entries(new)
    <3>1. PICK k \in 1..Len(reg) : m = reg[k].name
      BY <1>2
    <3>2. PICK j \in 1..Len(new) : new[j] = reg[k]
      BY <1>1, <2>2, <3>1
    <3>3. QED
      BY <1>3, <3>1, <3>2
  <2>3. QED
    BY <2>1, <2>2
<1>6. ASSUME NEW m \in DOMAIN Entries(new) PROVE Entries(new)[m] = Entries(reg)[m]
  <2>1. PICK j \in 1..Len(new) : m = new[j].name
    BY <1>3
  <2>2. PICK k \in 1..Len(reg) : new[j] = reg[k]
    BY <1>1
  <2>3. QED
    BY <1>2, <1>3, <2>1, <2>2
<1>7. Entries(new) = [m \in DOMAIN Entries(new) |-> Entries(new)[m]]
  BY DEF Entries
<1>8. QED
  BY <1>5, <1>6, <1>7 DEF Left, new, n

\* What a command is about to save differs from the file by one entry.
SavingInv ==
  faults \cap {"named", "overlap"} = {} =>
    \A q \in Process : pc[q] = "save" =>
      /\ file # Torn
      /\ path[q] # None => Entries(mem[q]) = Entered(Entries(file), base[path[q]], path[q])
      /\ path[q] = None => /\ name[q] \in DOMAIN Entries(file)
                           /\ Entries(mem[q]) = Left(Entries(file), name[q])

\* While commands take turns, only one of them acts.
LEMMA OneActs ==
  ASSUME TypeInv, TurnsInv, "overlap" \notin faults, NEW q \in Process, Acts(q), NEW r \in Process, r # q
  PROVE  pc[r] = "idle"
<1>1. pc[q] = "idle" => Free
  BY DEF Acts, StartAnalyze, StartClean, RegisterRepo, Truncate, Write, OpenDB, Index, RemoveDB,
         UnregisterRepo, Crash, Goto
<1>2. QED
  BY <1>1 DEF Free, TurnsInv

LEMMA SavingKept ==
  ASSUME RegistryInv, SavingInv, [Next]_vars
  PROVE  SavingInv'
<1>1. TypeInv /\ TurnsInv /\ GoodInv
  BY DEF RegistryInv
<1>2. UNCHANGED <<faults, base>>
  BY DEF Next, Command, StartAnalyze, StartClean, RegisterRepo, Truncate, Write, OpenDB, Index, RemoveDB,
         UnregisterRepo, Crash, StartServer, StopServer, Call, given, vars
<1> SUFFICES ASSUME faults \cap {"named", "overlap"} = {}, NEW q \in Process, pc'[q] = "save"
             PROVE  /\ file' # Torn
                    /\ path'[q] # None => Entries(mem'[q]) = Entered(Entries(file'), base[path'[q]], path'[q])
                    /\ path'[q] = None => /\ name'[q] \in DOMAIN Entries(file')
                                          /\ Entries(mem'[q]) = Left(Entries(file'), name'[q])
  <2>1. faults' = faults /\ base' = base
    BY <1>2
  <2>2. \A q \in Process : /\ Entries(mem[q])' = Entries(mem'[q]) /\ Entries(file)' = Entries(file')
                           /\ Left(Entries(file), name[q])' = Left(Entries(file'), name'[q])
                           /\ Entered(Entries(file), base[path[q]], path[q])'
                                = Entered(Entries(file'), base'[path'[q]], path'[q])
    BY DEF Entries, Entered, Left, Get, ByName
  <2>3. QED
    BY <2>1, <2>2 DEF SavingInv
<1>3. DOMAIN pc = Process /\ DOMAIN mem = Process /\ mem[q] \in Registries /\ base \in [Path -> Name]
  BY <1>1, RegistryAssumption DEF TypeInv
<1>4. CASE UNCHANGED <<file, pc, path, name, mem>>
  BY <1>4 DEF SavingInv
<1>5. ASSUME NEW r \in Process, Acts(r) PROVE r = q
  <2>1. r # q => pc[q] = "idle" /\ pc'[q] = pc[q]
    BY <1>1, <1>5, OneActs, OthersKept
  <2>2. QED
    BY <2>1
<1>6. CASE Acts(q)
  <2>1. RegisterRepo(q) \/ UnregisterRepo(q)
    BY <1>3, <1>6 DEF Acts, StartAnalyze, StartClean, RegisterRepo, Truncate, Write, OpenDB, Index, RemoveDB,
                      UnregisterRepo, Crash, Goto, Exit
  <2>2. CASE RegisterRepo(q)
    <3> DEFINE n == IF name[q] = None THEN base[path[q]] ELSE name[q]
    <3>1. /\ pc[q] = "register" /\ mem'[q] = Register(mem[q], n, path[q])
          /\ UNCHANGED <<file, path, name>>
      BY <1>3, <2>2 DEF RegisterRepo, Goto, args
    <3>2. mem[q] = file /\ file # Torn /\ path[q] \in Path /\ name[q] = FindByPath(mem[q], path[q])
      BY <1>1, <3>1 DEF TurnsInv, GoodInv, TypeInv
    <3>3. Unique(mem[q]) /\ Basenames(mem[q])
      BY <1>1, <3>2 DEF GoodInv, Good
    <3>4. n = base[path[q]]
      BY <1>3, <3>2, <3>3, RegisterKeeps DEF NameOf
    <3> HIDE DEF n
    <3>5. Entries(mem'[q]) = Entered(Entries(file), base[path[q]], path[q])
      BY <1>3, <3>1, <3>2, <3>3, <3>4, EntriesOfRegister
    <3>6. path[q] # None
      BY <3>2, RegistryAssumption
    <3>7. QED
      BY <3>1, <3>2, <3>5, <3>6
  <2>3. CASE UnregisterRepo(q)
    <3> DEFINE found == ByName(mem[q], name[q])
               i == First(found)
    <3>1. pc[q] = "unregister" /\ found # {} /\ mem'[q] = Unregister(mem[q], i) /\ UNCHANGED <<file, path, name>>
      BY <1>3, <2>3 DEF UnregisterRepo, Exit, args
    <3>2. mem[q] = file /\ file # Torn /\ path[q] = None
      BY <1>1, <3>1 DEF TurnsInv, TypeInv
    <3>3. Unique(mem[q])
      BY <1>1, <3>2 DEF GoodInv, Good
    <3>4. i \in 1..Len(mem[q]) /\ mem[q][i].name = name[q]
      <4>1. i \in found /\ found \subseteq 1..Len(mem[q])
        BY <1>3, <3>1, Lookups
      <4>2. QED
        BY <4>1 DEF ByName
    <3> HIDE DEF i, found
    <3>5. Entries(mem'[q]) = Left(Entries(file), name[q]) /\ name[q] \in DOMAIN Entries(file)
      BY <1>3, <3>1, <3>2, <3>3, <3>4, EntriesOfUnregister, EntriesAre
    <3>6. QED
      BY <3>1, <3>2, <3>5
  <2>4. QED
    BY <2>1, <2>2, <2>3
<1>7. CASE Command
  <2>1. PICK r \in Process : Acts(r)
    BY <1>7 DEF Command, Acts
  <2>2. QED
    BY <1>5, <1>6, <2>1
<1>8. CASE StartServer \/ StopServer \/ (\E n \in Name \cup {None} : Call(n)) \/ UNCHANGED vars
  BY <1>4, <1>8 DEF StartServer, StopServer, Call, vars, args
<1>9. QED
  BY <1>7, <1>8 DEF Next

\* While commands take turns, there is one writer at most, and it finds the file
\* truncated.
AtOnce ==
  /\ file # Torn => Promised = Entries(file)
  /\ \A q \in Process : pc[q] = "write" => file = Torn /\ Promised = Entries(mem[q])
  /\ (\A q \in Process : pc[q] # "write") /\ file = Torn => Promised = Torn

LEMMA PromisedIs == TypeInv /\ TurnsInv /\ "overlap" \notin faults => AtOnce
<1> SUFFICES ASSUME TypeInv, TurnsInv, "overlap" \notin faults PROVE AtOnce
  OBVIOUS
<1>1. file # Torn => Promised = Entries(file)
  BY DEF Promised
<1>2. ASSUME NEW q \in Process, pc[q] = "write" PROVE file = Torn /\ Promised = Entries(mem[q])
  <2>1. file = Torn /\ Writers = {q}
    BY <1>2 DEF TurnsInv, Writers
  <2>2. (CHOOSE r \in Writers : TRUE) = q
    BY <2>1
  <2>3. QED
    BY <2>1, <2>2 DEF Promised
<1>3. (\A q \in Process : pc[q] # "write") /\ file = Torn => Promised = Torn
  BY DEF Promised, Writers
<1>4. QED
  BY <1>1, <1>2, <1>3 DEF AtOnce

\* Commands that take turns and leave the naming to mimir implement the map from
\* names to repositories (registry.go:67-114): what other processes and readers
\* see of an analysis or a clean is that one entry changes, at once, and a
\* death in between loses nothing unless it comes before the write.
THEOREM RegistryIsAMap == Spec => ImplementsMap
<1>1. Init => Repositories!Init /\ SavingInv
  <2> SUFFICES ASSUME Init PROVE Repositories!Init /\ SavingInv
    OBVIOUS
  <2>1. base \in [Path -> Name]
    BY RegistryAssumption DEF Init
  <2>2. start \in Registries /\ Basenames(start)
    <3>1. CASE start = <<>>
      BY <3>1 DEF Basenames, Registries
    <3>2. CASE start # <<>>
      BY <2>1, <3>2, EveryoneIsThere DEF Init
    <3>3. QED
      BY <3>1, <3>2
  <2>3. /\ DOMAIN Entries(start) \subseteq Name
        /\ \A n \in DOMAIN Entries(start) :
             \E i \in 1..Len(start) : n = start[i].name /\ Entries(start)[n] = start[i].path
    BY <2>2, EntriesMap
  <2>4. \A i \in 1..Len(start) : start[i].path \in Path /\ start[i].name = base[start[i].path]
    <3>1. DOMAIN start = 1..Len(start) /\ \A i \in 1..Len(start) : start[i] \in Entry
      BY <2>2 DEF Registries
    <3>2. QED
      BY <2>2, <3>1 DEF Entry, Basenames
  <2>5. file = start /\ file # Torn /\ Promised = Entries(start)
    BY <2>2, RegistryAssumption DEF Init, Promised, Registries, Entry
  <2>6. SavingInv
    BY DEF Init, SavingInv
  <2>7. QED
    BY <2>3, <2>4, <2>5, <2>6 DEF Repositories!Init
<1> DEFINE Seen == "overlap" \notin faults => AtOnce
<1>a. RegistryInv => Seen
  BY PromisedIs DEF RegistryInv
<1>2. RegistryInv /\ Seen /\ Seen' /\ SavingInv /\ [Next]_vars
        => [Repositories!Next]_<<faults, base, Promised>>
  <2> SUFFICES ASSUME RegistryInv, Seen, Seen', SavingInv, [Next]_vars
               PROVE  [Repositories!Next]_<<faults, base, Promised>>
    OBVIOUS
  <2>1. UNCHANGED <<faults, base>>
    BY DEF Next, Command, StartAnalyze, StartClean, RegisterRepo, Truncate, Write, OpenDB, Index, RemoveDB,
           UnregisterRepo, Crash, StartServer, StopServer, Call, given, vars
  <2>2. CASE faults \cap {"named", "overlap"} # {}
    BY <2>1, <2>2 DEF Repositories!Next, Repositories!Unordered, Repositories!InTurns
  <2>3. CASE faults \cap {"named", "overlap"} = {}
    <3>1. /\ TypeInv /\ TurnsInv /\ GoodInv /\ "overlap" \notin faults
          /\ AtOnce /\ "overlap" \notin faults'
          /\ Repositories!InTurns
      BY <2>1, <2>3 DEF RegistryInv, Repositories!InTurns
    <3>2. /\ file' # Torn => Promised' = Entries(file')
          /\ \A q \in Process : pc'[q] = "write" => file' = Torn /\ Promised' = Entries(mem'[q])
          /\ (\A q \in Process : pc'[q] # "write") /\ file' = Torn => Promised' = Torn
      BY <3>1 DEF AtOnce
    <3>3. ASSUME UNCHANGED <<file, pc, mem>> PROVE Promised' = Promised
      BY <3>3 DEF Promised, Writers, Entries, Get, ByName
    <3>4. ASSUME NEW q \in Process, Acts(q)
          PROVE  \/ Promised' = Promised
                 \/ "crash" \in faults /\ Promised' = Torn
                 \/ \E p \in Path : Promised # Torn /\ Promised' = Entered(Promised, base[p], p)
                 \/ \E n \in Name : Promised # Torn /\ n \in DOMAIN Promised /\ Promised' = Left(Promised, n)
      <4>1. \A r \in Process : r # q => pc[r] = "idle" /\ pc'[r] = "idle"
        BY <3>1, <3>4, OneActs, OthersKept
      <4>2. /\ DOMAIN pc = Process /\ DOMAIN mem = Process /\ mem[q] \in Registries
            /\ path[q] \in Path \cup {None} /\ None \notin Path
            /\ name[q] \in Name \cup {None} /\ Torn \notin Registries
        BY <3>1, RegistryAssumption DEF TypeInv, Registries, Entry
      <4>3. CASE Truncate(q)
        <5>1. pc[q] = "save" /\ pc'[q] = "write" /\ mem' = mem
          BY <4>2, <4>3 DEF Truncate, Goto
        <5>2. file # Torn /\ Promised = Entries(file) /\ Promised' = Entries(mem[q]) /\ file \in Registries
          BY <2>3, <3>1, <3>2, <5>1 DEF AtOnce, SavingInv, TypeInv
        <5>3. Promised # Torn /\ DOMAIN Entries(file) \subseteq Name
          BY <5>2, EntriesMap
        <5>4. CASE path[q] = None
          <6>1. name[q] \in DOMAIN Entries(file) /\ Entries(mem[q]) = Left(Entries(file), name[q])
            BY <2>3, <5>1, <5>4 DEF SavingInv
          <6>2. QED
            BY <5>2, <5>3, <6>1
        <5>5. CASE path[q] # None
          <6>1. Entries(mem[q]) = Entered(Entries(file), base[path[q]], path[q])
            BY <2>3, <5>1, <5>5 DEF SavingInv
          <6>2. QED
            BY <4>2, <5>2, <5>3, <5>5, <6>1
        <5>6. QED
          BY <5>4, <5>5
      <4>4. CASE Write(q)
        <5>1. pc[q] = "write" /\ file = Torn /\ Promised = Entries(mem[q])
          BY <3>1, <4>4 DEF AtOnce, Write
        <5>2. file' = mem[q]
          BY <4>4, <5>1 DEF Write, Written
        <5>3. QED
          BY <3>2, <4>2, <5>1, <5>2
      <4>5. CASE Crash(q)
        <5>1. "crash" \in faults /\ file' = file /\ pc'[q] = "idle"
          BY <4>2, <4>5 DEF Crash, Exit
        <5>2. CASE file # Torn
          BY <3>1, <3>2, <5>1, <5>2 DEF AtOnce
        <5>3. CASE file = Torn
          <6>1. \A r \in Process : pc'[r] # "write"
            BY <4>1, <5>1
          <6>2. QED
            BY <3>2, <5>1, <5>3, <6>1
        <5>4. QED
          BY <5>2, <5>3
      <4>6. CASE ~(Truncate(q) \/ Write(q) \/ Crash(q))
        <5>1. file' = file /\ pc[q] # "write" /\ pc'[q] # "write"
          BY <3>4, <4>2, <4>6 DEF Acts, StartAnalyze, StartClean, RegisterRepo, OpenDB, Index, RemoveDB,
                                  UnregisterRepo, Goto, Exit
        <5>2. \A r \in Process : pc[r] # "write" /\ pc'[r] # "write"
          BY <4>1, <5>1
        <5>3. QED
          BY <3>1, <3>2, <5>1, <5>2 DEF AtOnce
      <4>7. QED
        BY <4>3, <4>4, <4>5, <4>6
    <3>5. ASSUME NEW q \in Process, Acts(q) PROVE [Repositories!Next]_<<faults, base, Promised>>
      <4>1. \A p : Repositories!With(p) = Entered(Promised, base[p], p)
        BY DEF Repositories!With, Entered
      <4>2. \A n : Repositories!Without(n) = Left(Promised, n)
        BY DEF Repositories!Without, Left
      <4>3. QED
        BY <2>1, <3>1, <3>4, <3>5, <4>1, <4>2
           DEF Repositories!Next, Repositories!Lose, Repositories!Enter, Repositories!Remove
    <3>6. CASE Command
      <4>1. PICK q \in Process : Acts(q)
        BY <3>6 DEF Command, Acts
      <4>2. QED
        BY <3>5, <4>1
    <3>7. CASE StartServer \/ StopServer \/ (\E n \in Name \cup {None} : Call(n)) \/ UNCHANGED vars
      BY <2>1, <3>3, <3>7 DEF StartServer, StopServer, Call, vars
    <3>8. QED
      BY <3>6, <3>7 DEF Next
  <2>4. QED
    BY <2>2, <2>3
<1>3. RegistryInv /\ SavingInv /\ [Next]_vars => SavingInv'
  BY SavingKept
<1>4. QED
  BY <1>a, <1>1, <1>2, <1>3, RegistryInvariant, PTL DEF Spec, ImplementsMap, Repositories!Spec
=============================================================================
