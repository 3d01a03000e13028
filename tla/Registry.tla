------------------------------- MODULE Registry -------------------------------
(***************************************************************************)
(* ~/.mimir: the file registry.json, which maps names to repositories      *)
(* (internal/registry/registry.go), and the databases indexes/<name>.db.   *)
(* Processes that run `mimir analyze` and `mimir clean` load the file into *)
(* memory, change their copy and write it back, without a lock; a server   *)
(* (`mimir mcp`, mcp/tools.go) loads the file once and opens the database  *)
(* that a tool call names.                                                 *)
(***************************************************************************)
EXTENDS Naturals, Sequences, SequencesExt, FiniteSets

CONSTANTS
  Name,       \* names of repositories
  Path,       \* absolute paths of repositories
  Bases,      \* the functions considered for filepath.Base on Path
  Process,    \* mimir processes
  None,       \* no such file, no such name
  Torn,       \* registry.json is truncated and does not parse
  MaxEntry,   \* bounds the registry
  FaultSets   \* the environments considered: sets of FaultKinds

FaultKinds ==
  { "clean",    \* mimir clean
    "named",    \* analyze --name
    "overlap",  \* a process starts while another one runs
    "crash",    \* a process dies between two steps, or its Save fails
    "server" }  \* an editor has a server run, and calls its tools

ASSUME RegistryAssumption ==
  /\ Bases \subseteq [Path -> Name]
  /\ None \notin Name \cup Path /\ \A S \in SUBSET Path : S # None
  /\ Torn \notin Seq([name : Name, path : Path]) /\ \A S \in SUBSET Name : Torn \notin [S -> Path]
  /\ IsFiniteSet(Path)
  /\ FaultSets \subseteq SUBSET FaultKinds

VARIABLES
  faults,  \* what may go wrong in this behavior; never changes
  base,    \* filepath.Base; never changes
  start,   \* the registry at the beginning of this behavior; never changes
  file,    \* registry.json: a sequence of entries, or Torn
  db,      \* db[n]: the repositories indexed in <n>.db, or None
  pc,      \* pc[q]: where process q is
  path,    \* path[q]: the repository it analyzes, None for clean
  name,    \* name[q]: repoName, or the argument of clean; "" is None
  mem,     \* mem[q]: its copy of the registry
  linked,  \* processes whose open database file is still in the directory
  server   \* the registry as the server has loaded it, None without a server

args == <<path, name>>
given == <<faults, base, start>>
vars == <<given, file, db, pc, args, mem, linked, server>>

-----------------------------------------------------------------------------
(* Lookups: all of them take the first entry that fits.                    *)

First(S) == CHOOSE i \in S : \A j \in S : i <= j

ByName(reg, n) == { i \in DOMAIN reg : reg[i].name = n }
ByPath(reg, p) == { i \in DOMAIN reg : reg[i].path = p }

\* Get, as the path of the entry.
Get(reg, n) == IF ByName(reg, n) = {} THEN None ELSE reg[First(ByName(reg, n))].path

\* FindByPath, as the name of the entry.
FindByPath(reg, p) == IF ByPath(reg, p) = {} THEN None ELSE reg[First(ByPath(reg, p))].name

\* Mutants: an entry is found by its path only; the name is looked for first.
PathMatches(reg, n, p) == ByPath(reg, p)
NameThenPath(reg, n, p) == IF ByName(reg, n) # {} THEN ByName(reg, n) ELSE ByPath(reg, p)

\* The entries that Register looks for the first of.
Matches(reg, n, p) == ByName(reg, n) \cup ByPath(reg, p)

\* Mutant: an entry that is there already is not looked for.
AlwaysAppend(reg, n, p) == Append(reg, [name |-> n, path |-> p])

Register(reg, n, p) ==
  IF Matches(reg, n, p) = {} THEN Append(reg, [name |-> n, path |-> p])
  ELSE [reg EXCEPT ![First(Matches(reg, n, p))] = [name |-> n, path |-> p]]

\* Mutant: the entries after the removed one are lost.
CutAt(reg, i) == SubSeq(reg, 1, i - 1)

Unregister(reg, i) == RemoveAt(reg, i)
-----------------------------------------------------------------------------
\* The registries that have every repository under its basename, once.
Everyone ==
  { reg \in [1..Cardinality(Path) -> { [name |-> base[p], path |-> p] : p \in Path }] :
      \A i, j \in DOMAIN reg : reg[i].name = reg[j].name => i = j }

Init ==
  /\ faults \in FaultSets
  /\ base \in Bases
  /\ start \in {<<>>} \cup Everyone
  /\ file = start
  /\ db = [n \in Name |-> None]
  /\ pc = [q \in Process |-> "idle"]
  /\ path = [q \in Process |-> None]
  /\ name = [q \in Process |-> None]
  /\ mem = [q \in Process |-> <<>>]
  /\ linked = {}
  /\ server = None

Goto(q, from, to) == pc[q] = from /\ pc' = [pc EXCEPT ![q] = to]

\* Every return of a command, with or without an error.
Exit(q) ==
  /\ pc' = [pc EXCEPT ![q] = "idle"]
  /\ path' = [path EXCEPT ![q] = None]
  /\ name' = [name EXCEPT ![q] = None]
  /\ mem' = [mem EXCEPT ![q] = <<>>]
  /\ linked' = linked \ {q}

Free == "overlap" \in faults \/ \A q \in Process : pc[q] = "idle"

\* mimir analyze p [--name n]
StartAnalyze(q, p, n) ==
  /\ Free
  /\ n # None => "named" \in faults
  /\ Goto(q, "idle", "register")
  /\ file # Torn  \* otherwise Load fails and the command ends
  /\ mem' = [mem EXCEPT ![q] = file]
  /\ path' = [path EXCEPT ![q] = p]
  /\ name' = [name EXCEPT ![q] = IF n = None THEN FindByPath(file, p) ELSE n]
  /\ UNCHANGED <<given, file, db, linked, server>>

\* Register, in memory; the name defaults to the basename of the path.
RegisterRepo(q) ==
  LET n == IF name[q] = None THEN base[path[q]] ELSE name[q]
  IN  /\ Goto(q, "register", "save")
      /\ mem' = [mem EXCEPT ![q] = Register(@, n, path[q])]
      /\ Len(mem'[q]) <= MaxEntry
      /\ UNCHANGED <<given, file, db, args, linked, server>>

\* Save: WriteFile truncates the file, then writes it.
Truncate(q) ==
  /\ Goto(q, "save", "write")
  /\ file' = Torn
  /\ UNCHANGED <<given, db, args, mem, linked, server>>

\* The write starts at offset 0.  Over what another process wrote since the
\* truncation it may leave a tail of the longer text.
Written(q) == IF file \in {Torn, mem[q]} THEN {mem[q]} ELSE {mem[q], Torn}

Write(q) ==
  /\ pc[q] = "write"
  /\ file' \in Written(q)
  /\ IF path[q] = None THEN Exit(q)
     ELSE /\ pc' = [pc EXCEPT ![q] = "open"]
          /\ UNCHANGED <<args, mem, linked>>
  /\ UNCHANGED <<given, db, server>>

\* The name as it is after the registration (analyze.go:82-90).
RepoName(q) == IF name[q] # None THEN name[q] ELSE FindByPath(mem[q], path[q])

\* OpenStore creates the file if there is none.
OpenDB(q) ==
  /\ Goto(q, "open", "index")
  /\ name' = [name EXCEPT ![q] = RepoName(q)]
  /\ db' = [db EXCEPT ![RepoName(q)] = IF @ = None THEN {} ELSE @]
  /\ linked' = linked \cup {q}
  /\ UNCHANGED <<given, file, path, mem, server>>

\* The index of the repository is added to what the database holds; with
\* --force it replaces it; if the database is current, it is left alone: what it
\* holds then has the same HEAD, and may be a clone that has the same name.  A
\* file that was removed meanwhile is written all the same, and is gone when it
\* is closed.
Modes == {"force", "stale", "current"}
Index(q, mode) ==
  /\ pc[q] = "index"
  /\ mode = "current" => db[name[q]] # {}
  /\ db' = IF q \notin linked \/ mode = "current" THEN db
           ELSE [db EXCEPT ![name[q]] = IF mode = "force" THEN {path[q]} ELSE @ \cup {path[q]}]
  /\ Exit(q)
  /\ UNCHANGED <<given, file, server>>

\* mimir clean n
StartClean(q, n) ==
  /\ "clean" \in faults
  /\ Free
  /\ Goto(q, "idle", "remove")
  /\ file # Torn
  /\ mem' = [mem EXCEPT ![q] = file]
  /\ name' = [name EXCEPT ![q] = n]
  /\ UNCHANGED <<given, file, db, path, linked, server>>

RemoveDB(q) ==
  /\ Goto(q, "remove", "unregister")
  /\ db' = [db EXCEPT ![name[q]] = None]
  /\ linked' = { r \in linked : name[r] # name[q] }
  /\ UNCHANGED <<given, file, args, mem, server>>

\* Unregister removes the first entry of that name; without one it fails, which
\* is only a warning.
UnregisterRepo(q) ==
  LET found == ByName(mem[q], name[q])
  IN  /\ pc[q] = "unregister"
      /\ IF found = {} THEN Exit(q)
         ELSE /\ pc' = [pc EXCEPT ![q] = "save"]
              /\ mem' = [mem EXCEPT ![q] = Unregister(@, First(found))]
              /\ UNCHANGED <<args, linked>>
      /\ UNCHANGED <<given, file, db, server>>

\* A Save that fails, before or after the truncation, ends both commands as well:
\* analyze returns the error, and clean, which has nothing left to do, warns.
Crash(q) ==
  /\ "crash" \in faults
  /\ pc[q] # "idle"
  /\ Exit(q)
  /\ UNCHANGED <<given, file, db, server>>

\* mimir mcp: Load, then Serve.
StartServer ==
  /\ "server" \in faults
  /\ server = None
  /\ file # Torn
  /\ server' = file
  /\ UNCHANGED <<given, file, db, pc, args, mem, linked>>

StopServer ==
  /\ server # None
  /\ server' = None
  /\ UNCHANGED <<given, file, db, pc, args, mem, linked>>

\* The repository of a call is the one it names, or the only one listed; the
\* name "" stands for no repository of ours.
ResolveRepoName(n) == IF n = None /\ Len(server) = 1 THEN server[1].name ELSE n

\* A call of a tool that reads: OpenStore, the query, Close.  The name is not
\* looked up, and the file is created if there is none.
Call(n) ==
  /\ server # None
  /\ db' = [m \in Name |-> IF m = ResolveRepoName(n) /\ db[m] = None THEN {} ELSE db[m]]
  /\ UNCHANGED <<given, file, pc, args, mem, linked, server>>

Command ==
  \E q \in Process :
    \/ \E p \in Path, n \in Name \cup {None} : StartAnalyze(q, p, n)
    \/ \E n \in Name : StartClean(q, n)
    \/ RegisterRepo(q) \/ Truncate(q) \/ Write(q) \/ OpenDB(q)
    \/ \E mode \in Modes : Index(q, mode)
    \/ RemoveDB(q) \/ UnregisterRepo(q) \/ Crash(q)

Next == Command \/ StartServer \/ StopServer \/ \E n \in Name \cup {None} : Call(n)

Spec == Init /\ [][Next]_vars
-----------------------------------------------------------------------------
\* While processes do not overlap and leave the naming to mimir, no name and no
\* path is in the registry twice, also when processes die and basenames are
\* the same (registry.go:88-101).
UniqueEntries ==
  (faults \cap {"named", "overlap"} = {} /\ file # Torn) =>
    \A i, j \in DOMAIN file :
      file[i].name = file[j].name \/ file[i].path = file[j].path => i = j

\* A database that has been opened; the empty ones, once servers may make them
\* for any name they are asked for, do not count.
Exists(n) == db[n] # None /\ ("server" \in faults => db[n] # {})

\* Then every database has its entry, so that list_repos and clean reach it,
\* wherever a process died: analyze registers before it opens, and clean removes
\* the file before the entry.
EveryIndexListed ==
  (faults \cap {"named", "overlap"} = {} /\ file # Torn) =>
    \A n \in Name : Exists(n) => ByName(file, n) # {}

\* Once every repository is registered under its basename, analyze processes may
\* overlap as they like, as post-commit hooks make them do: each writes the
\* registry it read, and a torn file is about to be written.
ReanalysisKeepsRegistry ==
  (start # <<>> /\ faults \subseteq {"overlap", "server"}) =>
    file = start \/ (file = Torn /\ \E q \in Process : pc[q] = "write")

\* The entry that analyze has written is the one a reader finds, by the path
\* (analyze, status) and by the name (the MCP tools), whatever names were given
\* to whatever repositories before: the database it fills is the one they open.
\* Repositories that are not named and have different basenames never share one
\* (registry.go:88-149, analyze.go:75-90).
ReadersFindIt ==
  /\ "overlap" \notin faults =>
       \A q \in Process : pc[q] = "index" =>
         FindByPath(file, path[q]) = name[q] /\ Get(file, name[q]) = path[q]
  /\ (faults \cap {"named", "overlap"} = {} /\ \A p, o \in Path : base[p] = base[o] => p = o) =>
       \A n \in Name : db[n] # None => \A p, o \in db[n] : p = o

\* The map that the entries stand for, and how commands see it: it has changed
\* once the file is truncated, since the writer is the only one that goes on.
Entries(reg) == [n \in { reg[i].name : i \in DOMAIN reg } |-> Get(reg, n)]
Writers == { q \in Process : pc[q] = "write" }
Promised ==
  IF file # Torn THEN Entries(file)
  ELSE IF Writers # {} THEN Entries(mem[CHOOSE q \in Writers : TRUE]) ELSE Torn

\* Commands that take turns and leave the naming to mimir implement the map:
\* analyze enters its repository and clean takes out the one it is told,
\* nothing else changes, and only a death between the truncation and the write,
\* or a write that fails, loses anything (registry.go:67-114).
Repositories == INSTANCE RepositoryMap WITH repos <- Promised, Lost <- Torn
ImplementsMap == Repositories!Spec
=============================================================================
