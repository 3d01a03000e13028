----------------------------- MODULE CommandProofs -----------------------------
(***************************************************************************)
(* Proofs about the commands that share a file with other processes:       *)
(* module Daemon, what the PID file says, for any number of process ids    *)
(* and commands; and module EditorSetup, what becomes of the files that    *)
(* mimir writes itself into.                                               *)
(***************************************************************************)
EXTENDS Daemon, EditorSetup, TLAPS

Kinds == {"start", "stop", "restart", "status"}
Places == { "isRunning", "probe", "unlink", "spawn", "truncate", "write", "stop", "remove", "signal", "end", "failed" }

\* A context is cancelled only in a server, what is no server has no pipe, and a
\* command holds a PID wherever it is to use one.
DaemonTypes ==
  /\ faults \in FaultSets
  /\ pidFile \in Pid \cup {None, Empty}
  /\ opened \subseteq Command
  /\ proc \in [Pid -> {"none", "load", "check", "read", "other"}]
  /\ stdin \in [Pid -> {"null", "open", "line", "closed"}]
  /\ signalled \subseteq { p \in Pid : Handles(p) }
  /\ \A p \in Pid \ Servers : stdin[p] = "null"
  /\ kind \in [Command -> Kinds \cup {"none"}]
  /\ pc \in [Command -> Places \cup {"idle"}]
  /\ seen \in [Command -> Pid \cup {None}]
  /\ \A c \in Command :
       /\ pc[c] \in {"probe", "unlink", "truncate", "write", "remove", "signal"} => seen[c] \in Pid
       /\ pc[c] \in {"stop", "remove", "signal"} => kind[c] \in {"stop", "restart"}
  /\ "reuse" \notin faults => \A p \in Pid : proc[p] # "other"
  /\ "fails" \notin faults => \A c \in Command : pc[c] # "failed"

\* One command at a time finds the PID file as it has left it.
AloneInv ==
  faults \cap {"overlap", "reuse", "crash"} = {} =>
    /\ \A c, d \in Command : pc[c] # "idle" /\ pc[d] # "idle" => c = d
    /\ \A c \in Command :
         /\ pc[c] \in {"probe", "unlink", "remove"} => pidFile = seen[c]
         /\ pc[c] = "write" => pidFile = Empty /\ c \in opened

\* When, besides, no start fails: the daemon that is up, if there is one, is that
\* of the PID file or the one that the command has in hand.
OneDaemonInv ==
  faults \cap {"overlap", "reuse", "crash", "fails"} = {} =>
    /\ Quiet => Up \subseteq {pidFile}
    /\ \A c \in Command :
         /\ pc[c] \in {"isRunning", "probe", "stop", "remove", "end"} => Up \subseteq {pidFile}
         /\ pc[c] \in {"unlink", "spawn"} => Up = {}
         /\ pc[c] \in {"truncate", "write", "signal"} => Up \subseteq {seen[c]}

\* When no server dies, but a start may fail: a PID in the file is that of a
\* daemon that is up.
UpInv ==
  faults \cap {"overlap", "reuse", "crash", "dies", "torn"} = {} =>
    /\ pidFile \in Pid => pidFile \in Up
    /\ \A c \in Command :
         /\ pc[c] \in {"truncate", "write"} => seen[c] \in Up
         /\ pc[c] = "signal" => pidFile = None
         /\ pc[c] = "end" /\ kind[c] \in {"start", "restart"} => pidFile \in Up

\* Starts that overlap: an empty file is about to be written, and where there is a
\* daemon and no file, one is about to be made.
StartsInv ==
  faults = {"overlap"} =>
    /\ signalled = {} /\ \A p \in Pid : stdin[p] = "null" /\ proc[p] # "other"
    /\ \A c \in Command : kind[c] \in {"none", "start"} /\ pc[c] \notin {"unlink", "stop", "remove", "signal"}
    /\ pidFile \in Pid => pidFile \in Alive
    /\ \A c \in Command : pc[c] \in {"probe", "truncate", "write"} => seen[c] \in Alive
    /\ \A c \in Command : pc[c] = "write" => c \in opened
    /\ pidFile = Empty => \E c \in Command : pc[c] = "write"
    /\ pidFile = None => Alive = {} \/ \E c \in Command : pc[c] = "truncate"
-----------------------------------------------------------------------------
USE DEF files, Handles

\* The types.
LEMMA TypesKept ==
  ASSUME DaemonTypes, [Next]_vars
  PROVE  DaemonTypes'
<1>1. CASE UNCHANGED vars
  BY <1>1 DEF vars, servers, commands, DaemonTypes, Servers
<1>2. ASSUME NEW c \in Command, NEW k \in Kinds, Run(c, k) PROVE DaemonTypes'
  BY <1>2 DEF Run, FirstStep, DaemonTypes, Servers, servers, Places, Kinds
<1>3. ASSUME NEW c \in Command, ReadPidFile(c) PROVE DaemonTypes'
  <2>1. NotRunning(c) \in {"spawn", "end"}
    BY DEF NotRunning
  <2>2. QED
    BY <1>3, <2>1 DEF ReadPidFile, Goto, DaemonTypes, Servers, servers, Places
<1>4. ASSUME NEW c \in Command, Probe(c) PROVE DaemonTypes'
  <2>1. Running(c) \in {"stop", "end"} /\ (Running(c) = "stop" => kind[c] = "stop")
    BY DEF Running
  <2>2. QED
    BY <1>4, <2>1 DEF Probe, Goto, DaemonTypes, Servers, servers, Places
<1>5. ASSUME NEW c \in Command, UnlinkStale(c) PROVE DaemonTypes'
  <2>1. NotRunning(c) \in {"spawn", "end"}
    BY DEF NotRunning
  <2>2. QED
    BY <1>5, <2>1 DEF UnlinkStale, Goto, DaemonTypes, Servers, servers, Places
<1>6. ASSUME NEW c \in Command, NEW p \in Pid, Spawn(c, p) PROVE DaemonTypes'
  BY <1>6 DEF Spawn, Goto, DaemonTypes, Servers, Places
<1>7. ASSUME NEW c \in Command, TruncatePidFile(c) PROVE DaemonTypes'
  BY <1>7 DEF TruncatePidFile, Goto, DaemonTypes, Servers, servers, Places
<1>8. ASSUME NEW c \in Command, WritePidFile(c) PROVE DaemonTypes'
  BY <1>8 DEF WritePidFile, ChildPid, Goto, DaemonTypes, Servers, servers, Places
<1>9. ASSUME NEW c \in Command, ReadToStop(c) PROVE DaemonTypes'
  BY <1>9 DEF ReadToStop, Goto, DaemonTypes, Servers, servers, Places
<1>10. ASSUME NEW c \in Command, RemovePidFile(c) PROVE DaemonTypes'
  BY <1>10 DEF RemovePidFile, Removed, Goto, DaemonTypes, Servers, servers, Places
<1>11. ASSUME NEW c \in Command, Signal(c) PROVE DaemonTypes'
  BY <1>11 DEF Signal, Interrupt, Goto, DaemonTypes, Servers, Places
<1>12. ASSUME NEW c \in Command, End(c) \/ Crash(c) PROVE DaemonTypes'
  BY <1>12 DEF End, Crash, Finish, DaemonTypes, Servers, servers, Places, Kinds
<1>13. ASSUME NEW p \in Pid, CheckContext(p) \/ Die(p) PROVE DaemonTypes'
  BY <1>13 DEF CheckContext, Die, Exit, DaemonTypes, Servers, commands
<1>13a. ASSUME NEW p \in Pid, LoadRegistry(p) PROVE DaemonTypes'
  BY <1>13a DEF LoadRegistry, Exit, DaemonTypes, Servers, commands
<1>13b. ASSUME NEW c \in Command, StartFails(c) PROVE DaemonTypes'
  BY <1>13b DEF StartFails, Goto, DaemonTypes, Servers, servers, Places
<1>14. ASSUME NEW p \in Pid, Scan(p) PROVE DaemonTypes'
  BY <1>14 DEF Scan, KeepWaiting, DaemonTypes, Servers, commands
<1>15. ASSUME NEW p \in Pid, OtherProgram(p) PROVE DaemonTypes'
  BY <1>15 DEF OtherProgram, DaemonTypes, Servers, commands
<1>16. ASSUME NEW p \in Pid, EditorStarts(p) PROVE DaemonTypes'
  BY <1>16 DEF EditorStarts, DaemonTypes, Servers, commands
<1>17. ASSUME NEW p \in Pid, NEW s \in {"line", "closed"}, EditorWrites(p, s) PROVE DaemonTypes'
  BY <1>17 DEF EditorWrites, DaemonTypes, Servers, commands
<1>18. ASSUME NEW p \in Pid, EditorTerminates(p) PROVE DaemonTypes'
  BY <1>18 DEF EditorTerminates, Interrupt, DaemonTypes, Servers, commands
<1>19. QED
  BY <1>1, <1>2, <1>3, <1>4, <1>5, <1>6, <1>7, <1>8, <1>9, <1>10, <1>11, <1>12, <1>13, <1>13a, <1>13b, <1>14, <1>15,
     <1>16, <1>17, <1>18 DEF Next, Step, Serve, Kinds

\* What a step of one of the commands or servers is.
LEMMA StepIs ==
  ASSUME [Next]_vars
  PROVE  \/ UNCHANGED vars
         \/ \E c \in Command :
              \/ \E k \in Kinds : Run(c, k)
              \/ ReadPidFile(c) \/ Probe(c) \/ UnlinkStale(c) \/ TruncatePidFile(c) \/ WritePidFile(c)
              \/ StartFails(c) \/ \E p \in Pid : Spawn(c, p)
              \/ ReadToStop(c) \/ RemovePidFile(c) \/ Signal(c) \/ End(c) \/ Crash(c)
         \/ \E p \in Pid :
              \/ LoadRegistry(p) \/ CheckContext(p) \/ Scan(p) \/ Die(p) \/ OtherProgram(p) \/ EditorStarts(p) \/ EditorTerminates(p)
              \/ \E s \in {"line", "closed"} : EditorWrites(p, s)
BY DEF Next, Step, Serve, Kinds

\* A command that runs alone: each of its steps leaves the file as the next one
\* expects it.
LEMMA AloneKept ==
  ASSUME DaemonTypes, AloneInv, [Next]_vars
  PROVE  AloneInv'
<1> DEFINE Calm == faults \cap {"overlap", "reuse", "crash"} = {}
<1>1. ASSUME UNCHANGED <<faults, pidFile, opened, pc, seen>> PROVE AloneInv'
  BY <1>1 DEF AloneInv
<1>2. ASSUME NEW c \in Command, NEW to \in Places \cup {"idle"},
             faults' = faults, pc' = [pc EXCEPT ![c] = to], seen' = [seen EXCEPT ![c] = seen'[c]],
             Calm => \A d \in Command : pc[d] # "idle" => d = c,
             Calm /\ to \in {"probe", "unlink", "remove"} => pidFile' = seen'[c],
             to = "write" => pidFile' = Empty /\ c \in opened'
      PROVE  AloneInv'
  <2>1. Calm => \A d \in Command : pc'[d] # "idle" => d = c
    BY <1>2 DEF DaemonTypes
  <2>2. QED
    BY <1>2, <2>1 DEF AloneInv, DaemonTypes
<1>3. ASSUME NEW c \in Command, pc[c] # "idle" PROVE Calm => \A d \in Command : pc[d] # "idle" => d = c
  BY <1>3 DEF AloneInv
<1>4. ASSUME NEW c \in Command, NEW k \in Kinds, Run(c, k) PROVE AloneInv'
  <2>1. FirstStep(k) \in {"stop", "isRunning"}
    BY DEF FirstStep
  <2>2. QED
    BY <1>2, <1>4, <2>1 DEF Run, Free, servers, Places, DaemonTypes
<1>5. ASSUME NEW c \in Command, ReadPidFile(c) \/ ReadToStop(c) PROVE AloneInv'
  <2>1. NotRunning(c) \in {"spawn", "end"}
    BY DEF NotRunning
  <2>2. PICK to \in Places :
          /\ pc' = [pc EXCEPT ![c] = to] /\ to \notin {"unlink", "write"}
          /\ to \in {"probe", "remove"} => pidFile \in Pid
    BY <1>5, <2>1 DEF ReadPidFile, ReadToStop, Goto, Places
  <2>3. /\ pc[c] # "idle" /\ faults' = faults
        /\ seen' = [seen EXCEPT ![c] = seen'[c]] /\ (pidFile \in Pid => pidFile' = seen'[c])
    BY <1>5 DEF ReadPidFile, ReadToStop, Goto, DaemonTypes
  <2>4. Calm => \A d \in Command : pc[d] # "idle" => d = c
    BY <1>3, <2>3
  <2>5. /\ Calm /\ to \in {"probe", "unlink", "remove"} => pidFile' = seen'[c]
        /\ to # "write"
    BY <2>2, <2>3
  <2> HIDE DEF Calm
  <2>6. QED
    BY <1>2, <2>2, <2>3, <2>4, <2>5
<1>6. ASSUME NEW c \in Command, Probe(c) PROVE AloneInv'
  <2>1. Running(c) \in {"stop", "end"}
    BY DEF Running
  <2>2. Calm => pidFile = seen[c]
    BY <1>6 DEF Probe, Goto, AloneInv
  <2>3. QED
    BY <1>2, <1>3, <1>6, <2>1, <2>2 DEF Probe, Goto, Places, DaemonTypes
<1>7. ASSUME NEW c \in Command,
             \/ UnlinkStale(c) \/ (\E p \in Pid : Spawn(c, p)) \/ WritePidFile(c) \/ StartFails(c)
             \/ RemovePidFile(c) \/ Signal(c) \/ End(c) \/ Crash(c)
      PROVE  AloneInv'
  <2>1. NotRunning(c) \in {"spawn", "end"}
    BY DEF NotRunning
  <2>2. PICK to \in (Places \cup {"idle"}) \ {"probe", "unlink", "remove", "write"} :
          pc' = [pc EXCEPT ![c] = to]
    BY <1>7, <2>1 DEF UnlinkStale, Spawn, WritePidFile, StartFails, RemovePidFile, Signal, End, Crash, Finish,
       Goto, Places
  <2>3. pc[c] # "idle" /\ faults' = faults /\ seen' = [seen EXCEPT ![c] = seen'[c]]
    BY <1>7 DEF UnlinkStale, Spawn, WritePidFile, StartFails, RemovePidFile, Signal, End, Crash, Finish, Goto,
       DaemonTypes
  <2>4. QED
    BY <1>2, <1>3, <2>2, <2>3
<1>8. ASSUME NEW c \in Command, TruncatePidFile(c) PROVE AloneInv'
  BY <1>2, <1>3, <1>8 DEF TruncatePidFile, Goto, Places, DaemonTypes
<1>9. ASSUME NEW p \in Pid,
             \/ LoadRegistry(p) \/ CheckContext(p) \/ Scan(p) \/ Die(p) \/ OtherProgram(p) \/ EditorStarts(p)
             \/ EditorTerminates(p) \/ \E s \in {"line", "closed"} : EditorWrites(p, s)
      PROVE  AloneInv'
  BY <1>1, <1>9 DEF LoadRegistry, CheckContext, Scan, Die, Exit, OtherProgram, EditorStarts, EditorTerminates,
     EditorWrites, commands
<1>10. CASE UNCHANGED vars
  BY <1>1, <1>10 DEF vars, commands
<1>11. QED
  BY <1>4, <1>5, <1>6, <1>7, <1>8, <1>9, <1>10, StepIs

\* One daemon at most, and where it is known.
LEMMA OneDaemonKept ==
  ASSUME DaemonTypes, AloneInv, OneDaemonInv, [Next]_vars
  PROVE  OneDaemonInv'
<1> DEFINE Calm == faults \cap {"overlap", "reuse", "crash", "fails"} = {}
<1>1. CASE UNCHANGED vars
  BY <1>1 DEF vars, servers, commands, OneDaemonInv, Quiet, Up, Daemons, Servers
<1>2. ASSUME NEW c \in Command, NEW k \in Kinds, Run(c, k) PROVE OneDaemonInv'
  <2>1. Calm => Quiet
    BY <1>2 DEF Run, Free, Quiet
  <2>2. UNCHANGED <<faults, pidFile, proc, stdin, signalled, seen>> /\ Up' = Up
    BY <1>2 DEF Run, servers, Up, Daemons, Servers
  <2>3. pc' = [pc EXCEPT ![c] = FirstStep(k)] /\ FirstStep(k) \in {"stop", "isRunning"}
    BY <1>2 DEF Run, FirstStep
  <2>4. QED
    BY <2>1, <2>2, <2>3 DEF AloneInv, OneDaemonInv, DaemonTypes, Quiet
<1>3. ASSUME NEW c \in Command, ReadPidFile(c) PROVE OneDaemonInv'
  <2>1. NotRunning(c) \in {"spawn", "end"}
    BY DEF NotRunning
  <2>2. UNCHANGED <<faults, pidFile, proc, stdin, signalled>> /\ Up' = Up /\ Up \subseteq Pid
    BY <1>3 DEF ReadPidFile, servers, Up, Daemons, Servers
  <2>3. /\ pc[c] = "isRunning"
        /\ pc' = [pc EXCEPT ![c] = IF pidFile \in Pid THEN "probe" ELSE NotRunning(c)]
        /\ seen' = [seen EXCEPT ![c] = IF pidFile \in Pid THEN pidFile ELSE None]
    BY <1>3 DEF ReadPidFile, Goto
  <2>4. QED
    BY <2>1, <2>2, <2>3 DEF AloneInv, OneDaemonInv, DaemonTypes, Quiet
<1>4. ASSUME NEW c \in Command, Probe(c) PROVE OneDaemonInv'
  <2>1. Running(c) \in {"stop", "end"}
    BY DEF Running
  <2>2. UNCHANGED <<faults, pidFile, proc, stdin, signalled, seen>> /\ Up' = Up /\ Up \subseteq Alive
    BY <1>4 DEF Probe, servers, Up, Daemons, Servers, Alive
  <2>3. pc[c] = "probe" /\ pc' = [pc EXCEPT ![c] = IF seen[c] \in Alive THEN Running(c) ELSE "unlink"]
    BY <1>4 DEF Probe, Goto
  <2>4. QED
    BY <2>1, <2>2, <2>3 DEF AloneInv, OneDaemonInv, DaemonTypes, Quiet
<1>5. ASSUME NEW c \in Command, UnlinkStale(c) PROVE OneDaemonInv'
  <2>1. NotRunning(c) \in {"spawn", "end"}
    BY DEF NotRunning
  <2>2. UNCHANGED <<faults, proc, stdin, signalled, seen>> /\ Up' = Up
    BY <1>5 DEF UnlinkStale, servers, Up, Daemons, Servers
  <2>3. pc[c] = "unlink" /\ pc' = [pc EXCEPT ![c] = NotRunning(c)]
    BY <1>5 DEF UnlinkStale, Goto
  <2>4. QED
    BY <2>1, <2>2, <2>3 DEF AloneInv, OneDaemonInv, DaemonTypes, Quiet
<1>6. ASSUME NEW c \in Command, NEW p \in Pid, Spawn(c, p) PROVE OneDaemonInv'
  <2>1. Up' \subseteq Up \cup {p} /\ faults' = faults /\ pidFile' = pidFile
    BY <1>6 DEF Spawn, DaemonTypes, Up, Daemons, Servers
  <2>2. pc[c] = "spawn" /\ pc' = [pc EXCEPT ![c] = "truncate"] /\ seen' = [seen EXCEPT ![c] = p]
    BY <1>6 DEF Spawn, Goto
  <2>3. QED
    BY <2>1, <2>2 DEF AloneInv, OneDaemonInv, DaemonTypes, Quiet
<1>7. ASSUME NEW c \in Command, TruncatePidFile(c) PROVE OneDaemonInv'
  <2>1. UNCHANGED <<faults, seen>> /\ Up' = Up
    BY <1>7 DEF TruncatePidFile, servers, Up, Daemons, Servers
  <2>2. pc[c] = "truncate" /\ pc' = [pc EXCEPT ![c] = "write"]
    BY <1>7 DEF TruncatePidFile, Goto
  <2>3. QED
    BY <2>1, <2>2 DEF AloneInv, OneDaemonInv, DaemonTypes, Quiet
<1>8. ASSUME NEW c \in Command, WritePidFile(c) PROVE OneDaemonInv'
  <2>1. UNCHANGED <<faults, seen>> /\ Up' = Up /\ (pidFile = Empty /\ c \in opened => pidFile' = seen[c])
    BY <1>8 DEF WritePidFile, ChildPid, servers, Up, Daemons, Servers
  <2>2. pc[c] = "write" /\ pc' = [pc EXCEPT ![c] = "end"]
    BY <1>8 DEF WritePidFile, Goto
  <2>3. QED
    BY <2>1, <2>2 DEF AloneInv, OneDaemonInv, DaemonTypes, Quiet
<1>9. ASSUME NEW c \in Command, ReadToStop(c) PROVE OneDaemonInv'
  <2>1. UNCHANGED <<faults, pidFile>> /\ Up' = Up
    BY <1>9 DEF ReadToStop, servers, Up, Daemons, Servers
  <2>2. \E to \in {"remove", "isRunning", "end"} :
          /\ pc[c] = "stop" /\ pc' = [pc EXCEPT ![c] = to] /\ (to = "remove" <=> pidFile \in Pid)
          /\ seen' = [seen EXCEPT ![c] = IF pidFile \in Pid THEN pidFile ELSE None]
    BY <1>9 DEF ReadToStop, Goto
  <2>3. QED
    BY <2>1, <2>2 DEF AloneInv, OneDaemonInv, DaemonTypes, Quiet
<1>10. ASSUME NEW c \in Command, RemovePidFile(c) PROVE OneDaemonInv'
  <2>1. UNCHANGED <<faults, seen>> /\ Up' = Up
    BY <1>10 DEF RemovePidFile, servers, Up, Daemons, Servers
  <2>2. pc[c] = "remove" /\ pc' = [pc EXCEPT ![c] = "signal"]
    BY <1>10 DEF RemovePidFile, Goto
  <2>3. QED
    BY <2>1, <2>2 DEF AloneInv, OneDaemonInv, DaemonTypes, Quiet
<1>11. ASSUME NEW c \in Command, Signal(c) PROVE OneDaemonInv'
  <2>1. UNCHANGED <<faults, seen, pidFile>> /\ Up' \subseteq Up \ {seen[c]}
    BY <1>11 DEF Signal, Interrupt, DaemonTypes, Up, Daemons, Servers
  <2>2. \E to \in {"isRunning", "end"} : pc[c] = "signal" /\ pc' = [pc EXCEPT ![c] = to]
    BY <1>11 DEF Signal, Goto
  <2>3. QED
    BY <2>1, <2>2 DEF AloneInv, OneDaemonInv, DaemonTypes, Quiet
<1>12. ASSUME NEW c \in Command, End(c) \/ Crash(c) PROVE OneDaemonInv'
  <2>1. UNCHANGED <<faults, pidFile>> /\ Up' = Up
    BY <1>12 DEF End, Crash, Finish, servers, Up, Daemons, Servers
  <2>2. /\ pc' = [pc EXCEPT ![c] = "idle"] /\ seen' = [seen EXCEPT ![c] = None]
        /\ Calm => pc[c] = "end"
    BY <1>12 DEF End, Crash, Finish, DaemonTypes
  <2>3. QED
    BY <2>1, <2>2 DEF AloneInv, OneDaemonInv, DaemonTypes, Quiet
<1>12a. ASSUME NEW c \in Command, StartFails(c) PROVE OneDaemonInv'
  BY <1>12a DEF StartFails, OneDaemonInv
<1>13. ASSUME UNCHANGED <<faults, pidFile, kind, pc, seen>>, Calm => Up' \subseteq Up PROVE OneDaemonInv'
  BY <1>13 DEF AloneInv, OneDaemonInv, Quiet
<1>14. ASSUME NEW p \in Pid,
              \/ LoadRegistry(p) \/ CheckContext(p) \/ Scan(p) \/ Die(p) \/ OtherProgram(p) \/ EditorStarts(p) \/ EditorTerminates(p)
              \/ \E s \in {"line", "closed"} : EditorWrites(p, s)
       PROVE  OneDaemonInv'
  <2>1. CASE LoadRegistry(p) \/ CheckContext(p) \/ Die(p)
    BY <1>13, <2>1 DEF LoadRegistry, CheckContext, Die, Exit, commands, DaemonTypes, Up, Daemons, Servers
  <2>2. CASE Scan(p)
    BY <1>13, <2>2 DEF Scan, KeepWaiting, commands, DaemonTypes, Up, Daemons, Servers
  <2>3. CASE OtherProgram(p)
    BY <1>13, <2>3 DEF OtherProgram, commands, DaemonTypes, Up, Daemons, Servers
  <2>4. CASE EditorStarts(p)
    BY <1>13, <2>4 DEF EditorStarts, commands, DaemonTypes, Up, Daemons, Servers
  <2>5. CASE EditorTerminates(p)
    BY <1>13, <2>5 DEF EditorTerminates, Interrupt, commands, DaemonTypes, Up, Daemons, Servers
  <2>6. CASE \E s \in {"line", "closed"} : EditorWrites(p, s)
    BY <1>13, <2>6 DEF EditorWrites, commands, DaemonTypes, Up, Daemons, Servers
  <2>7. QED
    BY <1>14, <2>1, <2>2, <2>3, <2>4, <2>5, <2>6
<1>15. QED
  BY <1>1, <1>2, <1>3, <1>4, <1>5, <1>6, <1>7, <1>8, <1>9, <1>10, <1>11, <1>12, <1>12a, <1>14, StepIs

\* A PID in the file is that of a daemon that is up, unless servers die or fail to load.
LEMMA UpKept ==
  ASSUME DaemonTypes, AloneInv, UpInv, [Next]_vars
  PROVE  UpInv'
<1> DEFINE Calm == faults \cap {"overlap", "reuse", "crash", "dies", "torn"} = {}
<1>1. CASE UNCHANGED vars
  BY <1>1 DEF vars, servers, commands, UpInv, Up, Daemons, Servers
<1>2. ASSUME NEW c \in Command,
             \/ \E k \in Kinds : Run(c, k)
             \/ ReadPidFile(c) \/ Probe(c) \/ ReadToStop(c) \/ StartFails(c) \/ End(c) \/ Crash(c)
      PROVE  UpInv'
  <2>1. UNCHANGED <<faults, pidFile>> /\ Up' = Up
    BY <1>2 DEF Run, ReadPidFile, Probe, ReadToStop, StartFails, End, Crash, Finish, servers, Up, Daemons, Servers
  <2>2. \A d \in Command \ {c} : pc'[d] = pc[d] /\ kind'[d] = kind[d] /\ seen'[d] = seen[d]
    BY <1>2 DEF Run, ReadPidFile, Probe, ReadToStop, StartFails, End, Crash, Finish, Goto, DaemonTypes
  <2>3. pc'[c] \notin {"truncate", "write", "signal"}
    <3>1. CASE \E k \in Kinds : Run(c, k)
      BY <3>1 DEF Run, FirstStep, DaemonTypes
    <3>2. CASE ReadPidFile(c)
      BY <3>2 DEF ReadPidFile, Goto, NotRunning, DaemonTypes
    <3>3. CASE Probe(c)
      BY <3>3 DEF Probe, Goto, Running, DaemonTypes
    <3>4. CASE ReadToStop(c)
      BY <3>4 DEF ReadToStop, Goto, DaemonTypes
    <3>5. CASE End(c) \/ Crash(c)
      BY <3>5 DEF End, Crash, Finish, DaemonTypes
    <3>6. CASE StartFails(c)
      BY <3>6 DEF StartFails, Goto, DaemonTypes
    <3>7. QED
      BY <1>2, <3>1, <3>2, <3>3, <3>4, <3>5, <3>6
  <2>4. ASSUME Calm, pc'[c] = "end", kind'[c] \in {"start", "restart"} PROVE pidFile \in Up
    <3>1. ~ (\E k \in Kinds : Run(c, k)) /\ ~ StartFails(c) /\ ~ End(c) /\ ~ Crash(c)
      BY <2>4 DEF Run, StartFails, Goto, FirstStep, End, Crash, Finish, DaemonTypes
    <3>2. ~ ReadPidFile(c)
      BY <2>4 DEF ReadPidFile, Goto, NotRunning, DaemonTypes
    <3>3. ~ ReadToStop(c)
      BY <2>4 DEF ReadToStop, Goto, DaemonTypes
    <3>4. CASE Probe(c)
      <4>1. pc[c] = "probe" /\ seen[c] \in Pid
        BY <3>4 DEF Probe, Goto, DaemonTypes
      <4>2. pidFile = seen[c]
        BY <2>4, <4>1 DEF AloneInv
      <4>3. QED
        BY <2>4, <4>1, <4>2 DEF UpInv
    <3>5. QED
      BY <1>2, <3>1, <3>2, <3>3, <3>4
  <2>5. QED
    BY <2>1, <2>2, <2>3, <2>4 DEF UpInv
<1>3. ASSUME NEW c \in Command, UnlinkStale(c) PROVE UpInv'
  <2>1. UNCHANGED <<faults, kind, seen>> /\ Up' = Up /\ pidFile' = None /\ None \notin Pid
    BY <1>3, DaemonAssumption DEF UnlinkStale, Goto, servers, Up, Daemons, Servers
  <2>2. pc[c] = "unlink" /\ pc' = [pc EXCEPT ![c] = NotRunning(c)]
    BY <1>3 DEF UnlinkStale, Goto
  <2>3. Calm => \A d \in Command : pc[d] # "idle" => d = c
    BY <2>2 DEF AloneInv
  <2>4. QED
    BY <2>1, <2>2, <2>3 DEF UpInv, NotRunning, DaemonTypes
<1>4. ASSUME NEW c \in Command, NEW p \in Pid, Spawn(c, p) PROVE UpInv'
  <2>1. /\ Up' = Up \cup {p} /\ UNCHANGED <<faults, pidFile, kind>>
        /\ pc' = [pc EXCEPT ![c] = "truncate"] /\ seen' = [seen EXCEPT ![c] = p]
    BY <1>4 DEF Spawn, Goto, DaemonTypes, Up, Daemons, Servers
  <2>2. QED
    BY <2>1 DEF UpInv, DaemonTypes
<1>5. ASSUME NEW c \in Command, TruncatePidFile(c) \/ RemovePidFile(c) PROVE UpInv'
  <2>1. /\ Up' = Up /\ UNCHANGED <<faults, seen, kind>> /\ pidFile' \in {None, Empty}
        /\ (pc[c] = "truncate" /\ pidFile' = Empty) \/ (pc[c] = "remove" /\ pidFile' = None)
        /\ pc' = [pc EXCEPT ![c] = IF pc[c] = "truncate" THEN "write" ELSE "signal"]
    <3>1. CASE TruncatePidFile(c)
      BY <3>1 DEF TruncatePidFile, Goto, servers, Up, Daemons, Servers
    <3>2. CASE RemovePidFile(c)
      BY <3>2 DEF RemovePidFile, Removed, Goto, servers, Up, Daemons, Servers
    <3>3. QED
      BY <1>5, <3>1, <3>2
  <2>2. pidFile' \notin Pid
    BY <2>1, DaemonAssumption
  <2>3. Calm => \A d \in Command : pc[d] # "idle" => d = c
    BY <2>1 DEF AloneInv
  <2>4. QED
    BY <2>1, <2>2, <2>3 DEF UpInv, DaemonTypes
<1>6. ASSUME NEW c \in Command, WritePidFile(c) PROVE UpInv'
  <2>1. /\ Up' = Up /\ UNCHANGED <<faults, seen, kind>>
        /\ pidFile = Empty /\ c \in opened => pidFile' = seen[c]
        /\ pc[c] = "write" /\ pc' = [pc EXCEPT ![c] = "end"]
    BY <1>6 DEF WritePidFile, ChildPid, Goto, servers, Up, Daemons, Servers
  <2>2. Calm => \A d \in Command : pc[d] # "idle" => d = c
    BY <2>1 DEF AloneInv
  <2>3. Calm => pidFile' = seen[c]
    BY <2>1 DEF AloneInv
  <2>4. QED
    BY <2>1, <2>2, <2>3 DEF UpInv, DaemonTypes
<1>7. ASSUME NEW c \in Command, Signal(c) PROVE UpInv'
  <2>1. /\ UNCHANGED <<faults, seen, kind, pidFile>> /\ pc[c] = "signal" /\ None \notin Pid
        /\ pc' = [pc EXCEPT ![c] = IF kind[c] = "restart" THEN "isRunning" ELSE "end"]
    BY <1>7, DaemonAssumption DEF Signal, Goto
  <2>2. kind[c] \in {"stop", "restart"}
    BY <2>1 DEF DaemonTypes
  <2>3. Calm => pidFile = None /\ \A d \in Command : pc[d] # "idle" => d = c
    BY <2>1 DEF AloneInv, UpInv
  <2>4. QED
    BY <2>1, <2>2, <2>3 DEF UpInv, DaemonTypes
<1>8. ASSUME UNCHANGED <<faults, pidFile, kind, pc, seen>>, Calm => Up \subseteq Up' PROVE UpInv'
  BY <1>8 DEF UpInv
<1>9. ASSUME NEW p \in Pid,
             \/ LoadRegistry(p) \/ CheckContext(p) \/ Scan(p) \/ Die(p) \/ OtherProgram(p) \/ EditorStarts(p) \/ EditorTerminates(p)
             \/ \E s \in {"line", "closed"} : EditorWrites(p, s)
      PROVE  UpInv'
  <2>1. CASE LoadRegistry(p) \/ CheckContext(p) \/ Die(p)
    BY <1>8, <2>1 DEF LoadRegistry, CheckContext, Die, Exit, commands, DaemonTypes, Up, Daemons, Servers
  <2>2. CASE Scan(p)
    BY <1>8, <2>2 DEF Scan, KeepWaiting, commands, DaemonTypes, Up, Daemons, Servers
  <2>3. CASE OtherProgram(p)
    BY <1>8, <2>3 DEF OtherProgram, commands, DaemonTypes, Up, Daemons, Servers
  <2>4. CASE EditorStarts(p)
    BY <1>8, <2>4 DEF EditorStarts, commands, DaemonTypes, Up, Daemons, Servers
  <2>5. CASE EditorTerminates(p)
    BY <1>8, <2>5 DEF EditorTerminates, Interrupt, commands, DaemonTypes, Up, Daemons, Servers
  <2>6. CASE \E s \in {"line", "closed"} : EditorWrites(p, s)
    BY <1>8, <2>6 DEF EditorWrites, commands, DaemonTypes, Up, Daemons, Servers
  <2>7. QED
    BY <1>9, <2>1, <2>2, <2>3, <2>4, <2>5, <2>6
<1>10. QED
  BY <1>1, <1>2, <1>3, <1>4, <1>5, <1>6, <1>7, <1>9, StepIs

\* Starts that overlap.  While no server dies and none is stopped, all that are
\* alive are up.
LEMMA StartsKept ==
  ASSUME DaemonTypes, StartsInv, [Next]_vars
  PROVE  StartsInv'
<1> SUFFICES ASSUME faults' = {"overlap"} PROVE StartsInv'
  BY DEF StartsInv
<1>0. faults = {"overlap"}
  BY DEF Next, vars, Step, Serve, Run, ReadPidFile, Probe, UnlinkStale, Spawn, TruncatePidFile, WritePidFile,
     ReadToStop, RemovePidFile, Signal, StartFails, End, Crash, Finish, LoadRegistry, CheckContext, Scan, Die, Exit, OtherProgram,
     EditorStarts, EditorWrites, EditorTerminates
<1>1. /\ signalled = {} /\ \A p \in Pid : stdin[p] = "null" /\ proc[p] # "other"
      /\ \A c \in Command : kind[c] \in {"none", "start"} /\ pc[c] \notin {"unlink", "stop", "remove", "signal"}
      /\ pidFile \in Pid => pidFile \in Alive
      /\ \A c \in Command : pc[c] \in {"probe", "truncate", "write"} => seen[c] \in Alive
      /\ \A c \in Command : pc[c] = "write" => c \in opened
      /\ pidFile = Empty => \E c \in Command : pc[c] = "write"
      /\ pidFile = None => Alive = {} \/ \E c \in Command : pc[c] = "truncate"
  BY <1>0 DEF StartsInv
<1>2. CASE UNCHANGED vars
  BY <1>1, <1>2 DEF vars, servers, commands, StartsInv, Alive
<1>3. ASSUME NEW c \in Command,
             \/ \E k \in Kinds : Run(c, k)
             \/ ReadPidFile(c) \/ Probe(c) \/ End(c)
      PROVE  StartsInv'
  <2>1. UNCHANGED <<pidFile, proc, stdin, signalled>> /\ Alive' = Alive /\ opened \ {c} \subseteq opened'
    BY <1>3 DEF Run, ReadPidFile, Probe, End, Finish, servers, Alive
  <2>2. \A d \in Command \ {c} : pc'[d] = pc[d] /\ kind'[d] = kind[d] /\ seen'[d] = seen[d]
    BY <1>3 DEF Run, ReadPidFile, Probe, End, Finish, Goto, DaemonTypes
  <2>3. /\ pc[c] \notin {"write", "truncate"} /\ kind'[c] \in {"none", "start"}
        /\ pc'[c] \in {"idle", "isRunning", "probe", "spawn", "end"} /\ (pc'[c] = "probe" => seen'[c] \in Alive)
    <3>1. CASE \E k \in Kinds : Run(c, k)
      BY <1>0, <3>1 DEF Run, FirstStep, DaemonTypes
    <3>2. CASE ReadPidFile(c)
      BY <1>1, <3>2 DEF ReadPidFile, Goto, NotRunning, DaemonTypes
    <3>3. CASE Probe(c)
      BY <1>1, <3>3 DEF Probe, Goto, Running, DaemonTypes
    <3>4. CASE End(c)
      BY <3>4 DEF End, Finish, DaemonTypes
    <3>5. QED
      BY <1>3, <3>1, <3>2, <3>3, <3>4
  <2>4. \A d \in Command : pc[d] \in {"write", "truncate"} => pc'[d] = pc[d]
    BY <2>2, <2>3
  <2>5. QED
    BY <1>1, <2>1, <2>2, <2>3, <2>4 DEF StartsInv
<1>4. ASSUME NEW c \in Command, \/ UnlinkStale(c) \/ ReadToStop(c) \/ RemovePidFile(c) \/ Signal(c)
                                \/ StartFails(c) \/ Crash(c)
      PROVE FALSE
  BY <1>0, <1>1, <1>4 DEF StartFails, UnlinkStale, ReadToStop, RemovePidFile, Signal, Crash, Goto
<1>5. ASSUME NEW c \in Command, NEW p \in Pid, Spawn(c, p) PROVE StartsInv'
  <2>1. /\ Alive' = Alive \cup {p} /\ UNCHANGED <<pidFile, opened, kind, signalled>>
        /\ pc[c] = "spawn" /\ pc' = [pc EXCEPT ![c] = "truncate"] /\ seen' = [seen EXCEPT ![c] = p]
        /\ \A q \in Pid : stdin'[q] = "null" /\ proc'[q] # "other"
    BY <1>1, <1>5 DEF Spawn, Goto, DaemonTypes, Alive
  <2>2. pc'[c] = "truncate" /\ \A d \in Command : pc[d] = "write" => pc'[d] = "write"
    BY <2>1 DEF DaemonTypes
  <2>3. QED
    BY <1>1, <2>1, <2>2 DEF StartsInv, DaemonTypes
<1>6. ASSUME NEW c \in Command, TruncatePidFile(c) PROVE StartsInv'
  <2>1. /\ Alive' = Alive /\ UNCHANGED <<proc, stdin, kind, signalled, seen>> /\ pidFile' = Empty
        /\ opened' = opened \cup {c}
        /\ pc[c] = "truncate" /\ pc' = [pc EXCEPT ![c] = "write"]
    BY <1>6 DEF TruncatePidFile, Goto, servers, Alive
  <2>2. pc'[c] = "write" /\ pidFile' \notin Pid /\ pidFile' # None
    BY <2>1, DaemonAssumption DEF DaemonTypes
  <2>3. QED
    BY <1>1, <2>1, <2>2 DEF StartsInv, DaemonTypes
<1>7. ASSUME NEW c \in Command, WritePidFile(c) PROVE StartsInv'
  <2>1. /\ Alive' = Alive /\ UNCHANGED <<proc, stdin, kind, signalled, seen>> /\ pidFile' = seen[c]
        /\ pc[c] = "write" /\ pc' = [pc EXCEPT ![c] = "end"] /\ opened' = opened \ {c}
    BY <1>0, <1>1, <1>7 DEF WritePidFile, ChildPid, Goto, servers, Alive
  <2>2. pidFile' \in Alive /\ pidFile' # None /\ pidFile' # Empty
    BY <1>1, <2>1, DaemonAssumption DEF DaemonTypes
  <2>3. QED
    BY <1>1, <2>1, <2>2 DEF StartsInv, DaemonTypes
<1>8. ASSUME NEW p \in Pid, LoadRegistry(p) \/ CheckContext(p) \/ Scan(p) PROVE StartsInv'
  <2>1. /\ Alive' = Alive /\ UNCHANGED <<pidFile, opened, kind, pc, seen, signalled>>
        /\ \A q \in Pid : stdin'[q] = "null" /\ proc'[q] # "other"
    BY <1>0, <1>1, <1>8 DEF LoadRegistry, CheckContext, Scan, KeepWaiting, commands, DaemonTypes, Alive
  <2>2. QED
    BY <1>1, <2>1 DEF StartsInv
<1>9. ASSUME NEW p \in Pid, \/ Die(p) \/ OtherProgram(p) \/ EditorStarts(p) \/ EditorTerminates(p)
                            \/ \E s \in {"line", "closed"} : EditorWrites(p, s)
      PROVE FALSE
  BY <1>0, <1>1, <1>9 DEF Die, OtherProgram, EditorStarts, EditorTerminates, EditorWrites
<1>10. QED
  BY <1>2, <1>3, <1>4, <1>5, <1>6, <1>7, <1>8, <1>9, StepIs

\* What holds in every state.
LEMMA DaemonInvariant == Spec => [](DaemonTypes /\ AloneInv /\ OneDaemonInv /\ UpInv /\ StartsInv)
<1>1. Init => DaemonTypes /\ AloneInv /\ OneDaemonInv /\ UpInv /\ StartsInv
  <2> SUFFICES ASSUME Init PROVE DaemonTypes /\ AloneInv /\ OneDaemonInv /\ UpInv /\ StartsInv
    OBVIOUS
  <2>1. Servers = {} /\ Up = {} /\ Alive = {} /\ None \notin Pid /\ None # Empty
    BY DaemonAssumption DEF Init, Servers, Up, Daemons, Alive
  <2>2. DaemonTypes
    BY <2>1 DEF Init, DaemonTypes
  <2>3. AloneInv /\ OneDaemonInv /\ UpInv /\ StartsInv
    BY <2>1 DEF Init, AloneInv, OneDaemonInv, UpInv, StartsInv
  <2>4. QED
    BY <2>2, <2>3
<1>2. DaemonTypes /\ AloneInv /\ OneDaemonInv /\ UpInv /\ StartsInv /\ [Next]_vars
        => (DaemonTypes /\ AloneInv /\ OneDaemonInv /\ UpInv /\ StartsInv)'
  BY TypesKept, AloneKept, OneDaemonKept, UpKept, StartsKept
<1>3. QED
  BY <1>1, <1>2, PTL DEF Spec

\* No daemon is left behind by any sequence of start, stop, restart and status
\* that can write the PID file, whatever servers die between their steps or fail
\* to load the registry, and however many servers editors run (daemon.go:45-95).
THEOREM NoDaemonIsLeft == Spec => []NoOrphan
<1>1. DaemonTypes /\ AloneInv /\ OneDaemonInv /\ UpInv /\ StartsInv => NoOrphan
  BY DEF OneDaemonInv, NoOrphan
<1>2. QED
  BY <1>1, DaemonInvariant, PTL

\* A start or restart that reports success has a daemon that is up, unless it dies
\* or cannot load the registry, and any number of starts that overlap leave the
\* PID of one in the file, if PIDs have one length (main.go:157-171, 222-240).
THEOREM StartMeansUp == Spec => []StartedIsUp
<1>1. DaemonTypes /\ AloneInv /\ OneDaemonInv /\ UpInv /\ StartsInv => StartedIsUp
  <2> SUFFICES ASSUME DaemonTypes, UpInv, StartsInv PROVE StartedIsUp
    OBVIOUS
  <2>1. ASSUME Quiet, faults = {"overlap"} PROVE pidFile \in Up \/ (pidFile = None /\ Alive = {})
    <3>1. pidFile # Empty /\ (pidFile = None => Alive = {}) /\ (pidFile \in Pid => pidFile \in Alive)
      BY <2>1 DEF StartsInv, Quiet
    <3>2. Alive \subseteq Up
      BY <2>1 DEF StartsInv, DaemonTypes, Alive, Up, Daemons, Servers
    <3>3. QED
      BY <3>1, <3>2 DEF DaemonTypes
  <2>2. QED
    BY <2>1 DEF StartedIsUp, UpInv
<1>2. QED
  BY <1>1, DaemonInvariant, PTL
-----------------------------------------------------------------------------
(* Module EditorSetup: what the commands do to the editor's configuration, *)
(* the hooks and the context files, for any number of commands, entries    *)
(* and edits.                                                              *)

\* Only `mimir analyze` goes on to the hooks and the context files.
SetupTypes ==
  /\ setupFaults \in SetupFaultSets
  /\ file \in [File -> Content]
  /\ wanted \in [File -> SUBSET Entry]
  /\ exposed \in [File -> SUBSET Entry]
  /\ reported \subseteq File
  /\ task \in [Writer -> {"none", "setup", "analyze"}]
  /\ stage \in [Writer -> {"idle", "read", "truncate", "write", "end"}]
  /\ at \in [Writer -> File]
  /\ held \in [Writer -> Content]
  /\ \A c \in Writer :
       /\ at[c] # "config" => task[c] = "analyze"
       /\ stage[c] # "idle" => task[c] # "none"

\* Commands one at a time: between its truncation and its write a file is empty,
\* and no longer reported.
InTurn ==
  "overlap" \notin setupFaults =>
    /\ \A c, d \in Active : c = d
    /\ \A f \in File : Writing(f) # {} => file[f].form = "empty" /\ f \notin reported

\* What a command holds lists mimir.
HeldMimir ==
  "overlap" \notin setupFaults =>
    \A f \in File : \A c \in Holding(f) :
      /\ held[c].form = "plain"
      /\ held[c].mimir > 0
      /\ f = "config" => held[c].mimir = 1

\* Without comments, what a command holds has the entries that were in the file
\* when it read it and have not been removed since.
HeldEntries ==
  setupFaults \subseteq {"edits", "crash", "fails"} =>
    \A f \in Merging :
      /\ file[f].form # "commented"
      /\ file[f].form # "plain" => file[f].others = {}
      /\ \A c \in Holding(f) : wanted[f] \ exposed[f] \subseteq held[c].others

SetupInv ==
  /\ SetupTypes /\ InTurn /\ HeldMimir /\ HeldEntries
  /\ LossOnlyOfExposed /\ ConfiguredListsMimir

USE DEF File, Merging, Content, Forms, Blank

\* The types.
LEMMA SetupTypesInit == SetupInit => SetupTypes
  BY DEF SetupInit, SetupTypes

LEMMA SetupTypesRun ==
  ASSUME SetupTypes, NEW c \in Writer, NEW k \in {"setup", "analyze"}, Begin(c, k)
  PROVE  SetupTypes'
  BY DEF Begin, user, SetupTypes

\* What is held is made of what is read.
LEMMA MergedType ==
  ASSUME NEW f \in File, NEW s \in Content, NEW t \in Parsed(f, s)
  PROVE  /\ Merged(f, t) \in Content
         /\ Merged(f, t).form = "plain"
         /\ Merged(f, t).mimir > 0
         /\ f # "hooks" => Merged(f, t).mimir = 1
         /\ f \in Merging /\ s.form = "plain" /\ "unread" \notin setupFaults
              => Merged(f, t).others = s.others
<1>1. t \in Content /\ t.form = "plain"
  <2>1. CASE t \in {Blank("plain"), s} /\ t.form = "plain"
    BY <2>1
  <2>2. CASE t \in PartsOf(s) /\ s.form = "plain"
    <3>1. PICK kept \in SUBSET s.others, n \in {0, s.mimir} :
           t = [form |-> "plain", others |-> kept, mimir |-> n]
      BY <2>2 DEF PartsOf
    <3> QED BY <2>2, <3>1
  <2>3. \/ t \in {Blank("plain"), s} /\ t.form = "plain"
        \/ t \in PartsOf(s) /\ s.form = "plain"
    BY DEF Parsed
  <2> QED BY <2>1, <2>2, <2>3
<1>2. f \in Merging /\ s.form = "plain" /\ "unread" \notin setupFaults => t = s
  BY DEF Parsed
<1> QED BY <1>1, <1>2 DEF Merged

LEMMA SetupTypesRead ==
  ASSUME SetupTypes, NEW c \in Writer, ReadFile(c)
  PROVE  SetupTypes'
<1>1. PICK t \in Parsed(at[c], file[at[c]]) : held' = [held EXCEPT ![c] = Merged(at[c], t)]
  BY DEF ReadFile
<1>2. Merged(at[c], t) \in Content
  BY MergedType DEF SetupTypes
<1> QED BY <1>1, <1>2 DEF ReadFile, user, SetupTypes

LEMMA SetupTypesTruncate ==
  ASSUME SetupTypes, NEW c \in Writer, Truncate(c)
  PROVE  SetupTypes'
  BY DEF Truncate, user, SetupTypes

\* A command goes on to its next file, or ends.
LEMMA GoesOn ==
  ASSUME SetupTypes, NEW c \in Writer, stage[c] # "idle", GoOn(c)
  PROVE  /\ stage' = [stage EXCEPT ![c] = stage'[c]] /\ stage'[c] \in {"read", "end"}
         /\ at' = [at EXCEPT ![c] = at'[c]] /\ at'[c] \in File
         /\ at'[c] # "config" => task[c] = "analyze"
<1>1. CASE task[c] = "setup" \/ at[c] = "context"
  BY <1>1 DEF GoOn, SetupTypes
<1>2. CASE ~ (task[c] = "setup" \/ at[c] = "context")
  <2>1. at' = [at EXCEPT ![c] = After(at[c])] /\ stage' = [stage EXCEPT ![c] = "read"]
    BY <1>2 DEF GoOn
  <2>2. task[c] = "analyze"
    BY <1>2 DEF SetupTypes
  <2> QED BY <2>1, <2>2 DEF After, SetupTypes
<1> QED BY <1>1, <1>2

LEMMA SetupTypesGoOn ==
  ASSUME SetupTypes, NEW c \in Writer, stage[c] # "idle",
         stage' = [stage EXCEPT ![c] = stage'[c]], stage'[c] \in {"read", "end"},
         at' = [at EXCEPT ![c] = at'[c]], at'[c] \in File, at'[c] # "config" => task[c] = "analyze",
         UNCHANGED <<setupFaults, wanted, task, held>>, file' \in [File -> Content],
         exposed' \in [File -> SUBSET Entry], reported' \subseteq File
  PROVE  SetupTypes'
<1>1. stage' \in [Writer -> {"idle", "read", "truncate", "write", "end"}] /\ at' \in [Writer -> File]
  BY DEF SetupTypes
<1>2. ASSUME NEW d \in Writer
      PROVE  (at'[d] # "config" => task'[d] = "analyze") /\ (stage'[d] # "idle" => task'[d] # "none")
  BY DEF SetupTypes
<1> QED BY <1>1, <1>2 DEF SetupTypes

LEMMA SetupTypesWrite ==
  ASSUME SetupTypes, NEW c \in Writer, Write(c)
  PROVE  SetupTypes'
<1>1. PICK s \in Written(c) : file' = [file EXCEPT ![at[c]] = s]
  BY DEF Write
<1>2. s \in Content
  BY <1>1 DEF Written, SetupTypes
<1>3. file' \in [File -> Content] /\ reported' \subseteq File /\ exposed' \in [File -> SUBSET Entry]
  BY <1>1, <1>2 DEF Write, user, SetupTypes
<1>4. UNCHANGED <<setupFaults, wanted, exposed, task, held>> /\ GoOn(c) /\ stage[c] # "idle"
  BY DEF Write, user
<1>5. /\ stage' = [stage EXCEPT ![c] = stage'[c]] /\ stage'[c] \in {"read", "end"}
      /\ at' = [at EXCEPT ![c] = at'[c]] /\ at'[c] \in File
      /\ at'[c] # "config" => task[c] = "analyze"
  BY <1>4, GoesOn
<1> QED BY <1>3, <1>4, <1>5, SetupTypesGoOn

\* A command that stops at a file, by an error, its end or the user's choice.
LEMMA SetupTypesStops ==
  ASSUME SetupTypes, NEW c \in Writer, Skip(c) \/ WriteFails(c) \/ CommandDies(c)
  PROVE  /\ SetupTypes'
         /\ c \in Active /\ Interrupted(c)
         /\ stage' = [stage EXCEPT ![c] = stage'[c]] /\ stage'[c] \in {"read", "end"}
         /\ at' = [at EXCEPT ![c] = at'[c]]
         /\ UNCHANGED <<setupFaults, wanted, reported, held>>
<1>1. c \in Active /\ Interrupted(c) /\ UNCHANGED <<setupFaults, wanted, reported, task, held>>
  BY DEF Skip, WriteFails, CommandDies, Interrupted, Active, user
<1>2. /\ stage' = [stage EXCEPT ![c] = stage'[c]] /\ stage'[c] \in {"read", "end"}
      /\ at' = [at EXCEPT ![c] = at'[c]] /\ at'[c] \in File
      /\ at'[c] # "config" => task[c] = "analyze"
  <2>1. CASE GoOn(c)
    BY <1>1, <2>1, GoesOn DEF Active
  <2>2. CASE CommandDies(c)
    BY <2>2 DEF CommandDies, SetupTypes
  <2> QED BY <2>1, <2>2 DEF Skip, WriteFails
<1>3. file' \in [File -> Content] /\ exposed' \in [File -> SUBSET Entry]
  BY <1>1 DEF Interrupted, SetupTypes
<1>4. wanted' = wanted /\ reported' \subseteq File /\ stage[c] # "idle"
  BY <1>1 DEF SetupTypes, Active
<1> QED BY <1>1, <1>2, <1>3, <1>4, SetupTypesGoOn

\* A save of the editor.
LEMMA SavedType ==
  ASSUME SetupTypes, NEW f \in File, NEW others \in SUBSET Entry, NEW s \in Saved(f, others)
  PROVE  /\ s \in Content
         /\ s.others = others
         /\ s.mimir = file[f].mimir
         /\ s.form \in {"plain", "commented"}
         /\ "comments" \notin setupFaults => s.form = "plain"
<1>1. PICK form \in {"plain", "commented"} :
        /\ s = [file[f] EXCEPT !.form = form, !.others = others]
        /\ "comments" \notin setupFaults => form = "plain"
  BY DEF Saved
<1>2. file[f] \in Content
  BY DEF SetupTypes
<1> QED BY <1>1, <1>2

LEMMA SetupTypesPut ==
  ASSUME SetupTypes, NEW f \in File, NEW e \in Entry, Put(f, e)
  PROVE  SetupTypes'
<1> DEFINE others == file[f].others \cup {e}
<1>1. PICK s \in Saved(f, others) : file' = [file EXCEPT ![f] = s]
  BY DEF Put
<1>2. s \in Content
  <2>1. others \in SUBSET Entry
    BY DEF SetupTypes
  <2> HIDE DEF others
  <2> QED BY <2>1, SavedType
<1> QED BY <1>1, <1>2 DEF Put, writers, SetupTypes

LEMMA SetupTypesRemove ==
  ASSUME SetupTypes, NEW f \in File, NEW e \in Entry, Remove(f, e)
  PROVE  SetupTypes'
<1> DEFINE others == file[f].others \ {e}
<1>1. PICK s \in Saved(f, others) : file' = [file EXCEPT ![f] = s]
  BY DEF Remove
<1>2. s \in Content
  <2>1. others \in SUBSET Entry
    BY DEF SetupTypes
  <2> HIDE DEF others
  <2> QED BY <2>1, SavedType
<1> QED BY <1>1, <1>2 DEF Remove, writers, SetupTypes

-----------------------------------------------------------------------------
\* The rest, action by action; a command runs:
LEMMA SetupRun ==
  ASSUME SetupInv, SetupTypes', NEW c \in Writer, NEW k \in {"setup", "analyze"}, Begin(c, k)
  PROVE  SetupInv'
<1> USE DEF SetupInv, SetupTypes, Active, Holding, Writing, user, writers, Begin
<1>1. InTurn'
  BY DEF InTurn
<1>2. HeldMimir'
  BY DEF HeldMimir
<1>3. HeldEntries'
  BY DEF HeldEntries
<1>4. LossOnlyOfExposed'
  BY DEF LossOnlyOfExposed
<1>5. ConfiguredListsMimir'
  BY DEF ConfiguredListsMimir
<1> QED BY <1>1, <1>2, <1>3, <1>4, <1>5

\* It reads the file, which is whole while no other command is active.
LEMMA SetupRead ==
  ASSUME SetupInv, SetupTypes', NEW c \in Writer, ReadFile(c)
  PROVE  SetupInv'
<1> USE DEF SetupInv, SetupTypes, Active, Holding, Writing, user
<1>0. PICK t \in Parsed(at[c], file[at[c]]) : held' = [held EXCEPT ![c] = Merged(at[c], t)]
  BY DEF ReadFile
<1> DEFINE s == Merged(at[c], t)
<1>1. InTurn'
  BY DEF ReadFile, InTurn
<1>2. /\ held' = [held EXCEPT ![c] = s]
      /\ stage' = [stage EXCEPT ![c] = "truncate"]
      /\ UNCHANGED <<setupFaults, file, wanted, exposed, task, at>>
      /\ stage[c] = "read"
  BY <1>0 DEF ReadFile
<1>3. /\ s.form = "plain" /\ s.mimir > 0 /\ (at[c] = "config" => s.mimir = 1)
      /\ at[c] \in Merging /\ file[at[c]].form = "plain" /\ "unread" \notin setupFaults
           => s.others = file[at[c]].others
  <2>1. at[c] \in File /\ file[at[c]] \in Content
    OBVIOUS
  <2> QED BY <1>0, <2>1, MergedType
<1> HIDE DEF s
<1>4. HeldMimir'
  BY <1>2, <1>3 DEF HeldMimir
<1>5. HeldEntries'
  <2> SUFFICES ASSUME setupFaults \subseteq {"edits", "crash", "fails"}, NEW f \in Merging
               PROVE  /\ file[f].form # "commented"
                      /\ file[f].form # "plain" => file[f].others = {}
                      /\ \A d \in Holding(f)' : wanted[f] \ exposed[f] \subseteq held'[d].others
    BY <1>2 DEF HeldEntries
  <2>1. /\ file[f].form # "commented"
        /\ file[f].form # "plain" => file[f].others = {}
        /\ \A d \in Holding(f) : wanted[f] \ exposed[f] \subseteq held[d].others
    BY DEF HeldEntries
  <2>2. CASE at[c] # f
    BY <1>2, <2>1, <2>2
  <2>3. CASE at[c] = f
    <3>1. Active = {c} /\ Active' = {c}
      BY <1>2 DEF InTurn
    <3>2. Writing(f) = {}
      BY <1>2, <3>1
    <3>3. wanted[f] \ exposed[f] \subseteq file[f].others
      BY <3>2 DEF LossOnlyOfExposed
    <3>4. s.others = file[f].others \/ file[f].others = {}
      BY <1>3, <2>1, <2>3
    <3>5. held'[c] = s
      BY <1>2
    <3> QED BY <2>1, <3>1, <3>3, <3>4, <3>5
  <2> QED BY <2>2, <2>3
<1>6. LossOnlyOfExposed'
  BY DEF ReadFile, LossOnlyOfExposed
<1>7. ConfiguredListsMimir'
  BY DEF ReadFile, ConfiguredListsMimir
<1> QED BY <1>1, <1>4, <1>5, <1>6, <1>7

\* It empties the file.
LEMMA SetupTruncate ==
  ASSUME SetupInv, SetupTypes', NEW c \in Writer, Truncate(c)
  PROVE  SetupInv'
<1> USE DEF SetupInv, SetupTypes, Active, Holding, Writing, user, writers, Truncate
<1>1. InTurn'
  BY DEF InTurn
<1>2. HeldMimir'
  BY DEF HeldMimir
<1>3. HeldEntries'
  BY DEF HeldEntries
<1>4. LossOnlyOfExposed'
  BY DEF LossOnlyOfExposed
<1>5. ConfiguredListsMimir'
  BY DEF ConfiguredListsMimir
<1> QED BY <1>1, <1>2, <1>3, <1>4, <1>5

\* It leaves the file, after which no command that is active holds anything.
LEMMA Released ==
  ASSUME SetupInv, "overlap" \notin setupFaults, NEW c \in Active,
         stage' = [stage EXCEPT ![c] = stage'[c]], stage'[c] \in {"read", "end"},
         at' = [at EXCEPT ![c] = at'[c]]
  PROVE  /\ Active = {c} /\ Active' \subseteq {c}
         /\ \A f \in File : Holding(f)' = {} /\ Writing(f)' = {}
         /\ \A f \in File \ {at[c]} : Writing(f) = {}
<1>1. Active = {c}
  BY DEF SetupInv, InTurn
<1>2. \A d \in Writer : stage'[d] \notin {"idle", "end"} => d = c
  BY <1>1 DEF Active, SetupInv, SetupTypes
<1> QED BY <1>1, <1>2 DEF Active, Holding, Writing

\* It writes what it holds, and reports the file.
LEMMA SetupWrite ==
  ASSUME SetupInv, SetupTypes', NEW c \in Writer, Write(c)
  PROVE  SetupInv'
<1> SUFFICES ASSUME "overlap" \notin setupFaults
             PROVE  InTurn' /\ HeldMimir' /\ HeldEntries' /\ LossOnlyOfExposed' /\ ConfiguredListsMimir'
  BY DEF SetupInv, InTurn, HeldMimir, HeldEntries, LossOnlyOfExposed, ConfiguredListsMimir,
         Write
<1> DEFINE g == at[c]
<1>1. g \in File /\ c \in Active /\ c \in Writing(g) /\ c \in Holding(g)
  BY DEF Write, Active, Writing, Holding, SetupInv, SetupTypes
<1>2. file[g].form = "empty"
  BY <1>1 DEF InTurn, SetupInv
<1>3. /\ file' = [file EXCEPT ![g] = held[c]] /\ reported' = reported \cup {g}
      /\ UNCHANGED <<setupFaults, wanted, exposed, task, held>>
  BY <1>2 DEF Write, Written, user
<1>4. /\ Active = {c} /\ Active' \subseteq {c}
      /\ \A f \in File : Holding(f)' = {} /\ Writing(f)' = {}
      /\ \A f \in File \ {g} : Writing(f) = {}
  BY <1>1, GoesOn, Released DEF Write, SetupInv
<1>5. held[c].form = "plain" /\ held[c].mimir > 0 /\ (g = "config" => held[c].mimir = 1)
  BY <1>1 DEF HeldMimir, SetupInv
<1>6. file'[g] = held[c] /\ \A f \in File \ {g} : file'[f] = file[f]
  BY <1>1, <1>3 DEF SetupInv, SetupTypes
<1> HIDE DEF g
<1>7. InTurn' /\ HeldMimir'
  BY <1>4 DEF InTurn, HeldMimir
<1>8. HeldEntries'
  BY <1>1, <1>3, <1>4, <1>5, <1>6 DEF HeldEntries, SetupInv
<1>9. LossOnlyOfExposed'
  BY <1>1, <1>3, <1>4, <1>6 DEF HeldEntries, LossOnlyOfExposed, SetupInv
<1>10. ConfiguredListsMimir'
  BY <1>1, <1>3, <1>5, <1>6 DEF ConfiguredListsMimir, SetupInv
<1> QED BY <1>7, <1>8, <1>9, <1>10

\* It stops there: what it had truncated is lost.
LEMMA SetupStops ==
  ASSUME SetupInv, NEW c \in Writer, Skip(c) \/ WriteFails(c) \/ CommandDies(c)
  PROVE  SetupInv'
<1>1. /\ SetupTypes'
      /\ c \in Active /\ Interrupted(c)
      /\ stage' = [stage EXCEPT ![c] = stage'[c]] /\ stage'[c] \in {"read", "end"}
      /\ at' = [at EXCEPT ![c] = at'[c]]
      /\ UNCHANGED <<setupFaults, wanted, reported, held>>
  BY SetupTypesStops DEF SetupInv
<1> SUFFICES ASSUME "overlap" \notin setupFaults
             PROVE  InTurn' /\ HeldMimir' /\ HeldEntries' /\ LossOnlyOfExposed' /\ ConfiguredListsMimir'
  BY <1>1 DEF SetupInv, InTurn, HeldMimir, HeldEntries, LossOnlyOfExposed, ConfiguredListsMimir
<1> DEFINE g == at[c]
<1>2. g \in File
  BY DEF SetupInv, SetupTypes
<1>3. /\ Active = {c} /\ Active' \subseteq {c}
      /\ \A f \in File : Holding(f)' = {} /\ Writing(f)' = {}
      /\ \A f \in File \ {g} : Writing(f) = {}
  BY <1>1, Released
<1>4. CASE stage[c] = "write"
  <2>1. c \in Writing(g)
    BY <1>1, <1>4 DEF Writing
  <2>2. file[g].form = "empty" /\ g \notin reported
    BY <1>2, <2>1 DEF InTurn, SetupInv
  <2>3. /\ \A f \in File \ {g} : file'[f] = file[f] /\ exposed'[f] = exposed[f]
        /\ file'[g] \in {file[g], Blank("garbled")} /\ exposed'[g] = exposed[g] \cup wanted[g]
    BY <1>1, <1>2, <1>4 DEF Interrupted, SetupInv, SetupTypes
  <2> HIDE DEF g
  <2>4. InTurn' /\ HeldMimir'
    BY <1>3 DEF InTurn, HeldMimir
  <2>5. HeldEntries'
    BY <1>1, <1>2, <1>3, <2>2, <2>3 DEF HeldEntries, SetupInv
  <2>6. LossOnlyOfExposed'
    BY <1>1, <1>3, <2>3 DEF LossOnlyOfExposed, SetupInv
  <2>7. ConfiguredListsMimir'
    BY <1>1, <2>2, <2>3 DEF ConfiguredListsMimir, SetupInv, SetupTypes
  <2> QED BY <2>4, <2>5, <2>6, <2>7
<1>5. CASE stage[c] # "write"
  <2>1. UNCHANGED <<file, exposed>>
    BY <1>1, <1>5 DEF Interrupted
  <2>2. \A f \in File : Writing(f) = {}
    BY <1>3, <1>5 DEF Writing
  <2>3. InTurn' /\ HeldMimir'
    BY <1>3 DEF InTurn, HeldMimir
  <2>4. HeldEntries' /\ LossOnlyOfExposed' /\ ConfiguredListsMimir'
    BY <1>1, <1>3, <2>1, <2>2 DEF HeldEntries, LossOnlyOfExposed, ConfiguredListsMimir, SetupInv
  <2> QED BY <2>3, <2>4
<1> QED BY <1>4, <1>5

\* The user puts an entry into a file,
LEMMA SetupPut ==
  ASSUME SetupInv, SetupTypes', NEW f \in File, NEW e \in Entry, Put(f, e)
  PROVE  SetupInv'
<1> DEFINE others == file[f].others \cup {e}
<1>1. PICK s \in Saved(f, others) : file' = [file EXCEPT ![f] = s]
  BY DEF Put
<1>2. others \in SUBSET Entry
  BY DEF SetupInv, SetupTypes
<1>3. /\ s.others = others /\ s.mimir = file[f].mimir
      /\ s.form \in {"plain", "commented"}
      /\ "comments" \notin setupFaults => s.form = "plain"
  BY <1>2, SavedType DEF SetupInv
<1> USE DEF SetupInv, SetupTypes
<1>4. file'[f] = s /\ \A g \in File \ {f} : file'[g] = file[g]
  BY <1>1
<1>5. /\ UNCHANGED <<setupFaults, reported, task, stage, at, held>>
      /\ Active' = Active
      /\ \A g \in File : Holding(g)' = Holding(g) /\ Writing(g)' = Writing(g)
  BY DEF Put, writers, Active, Holding, Writing
<1>6. Writing(f) = {}
  BY DEF Put, MayEdit
\* An entry that is put into a file that is held is late.
<1>7. /\ \A g \in File \ {f} : wanted'[g] = wanted[g] /\ exposed'[g] = exposed[g]
      /\ Holding(f) # {} => wanted'[f] \ exposed'[f] \subseteq wanted[f] \ exposed[f]
      /\ (wanted[f] \ exposed[f]) \subseteq file[f].others => wanted'[f] \ exposed'[f] \subseteq others
  BY DEF Put
<1> HIDE DEF SetupInv, SetupTypes
<1>8. InTurn'
  BY <1>3, <1>4, <1>5, <1>6 DEF InTurn, SetupInv
<1>9. HeldMimir'
  BY <1>5 DEF HeldMimir, SetupInv
<1>10. HeldEntries'
  BY <1>3, <1>4, <1>5, <1>7 DEF HeldEntries, SetupInv
<1>11. LossOnlyOfExposed'
  BY <1>3, <1>4, <1>5, <1>6, <1>7 DEF LossOnlyOfExposed, SetupInv
<1>12. ConfiguredListsMimir'
  BY <1>3, <1>4, <1>5, <1>6 DEF ConfiguredListsMimir, SetupInv, SetupTypes
<1> QED BY <1>8, <1>9, <1>10, <1>11, <1>12 DEF SetupInv

\* or removes one.
LEMMA SetupRemove ==
  ASSUME SetupInv, SetupTypes', NEW f \in File, NEW e \in Entry, Remove(f, e)
  PROVE  SetupInv'
<1> DEFINE others == file[f].others \ {e}
<1>1. PICK s \in Saved(f, others) : file' = [file EXCEPT ![f] = s]
  BY DEF Remove
<1>2. others \in SUBSET Entry
  BY DEF SetupInv, SetupTypes
<1>3. /\ s.others = others /\ s.mimir = file[f].mimir
      /\ s.form \in {"plain", "commented"}
      /\ "comments" \notin setupFaults => s.form = "plain"
  BY <1>2, SavedType DEF SetupInv
<1> USE DEF SetupInv, SetupTypes
<1>4. file'[f] = s /\ \A g \in File \ {f} : file'[g] = file[g]
  BY <1>1
<1>5. /\ UNCHANGED <<setupFaults, reported, task, stage, at, held>>
      /\ Active' = Active
      /\ \A g \in File : Holding(g)' = Holding(g) /\ Writing(g)' = Writing(g)
  BY DEF Remove, writers, Active, Holding, Writing
<1>6. Writing(f) = {}
  BY DEF Remove, MayEdit
\* What is removed is no longer wanted.
<1>7. /\ \A g \in File \ {f} : wanted'[g] = wanted[g] /\ exposed'[g] = exposed[g]
      /\ Holding(f) # {} => wanted'[f] \ exposed'[f] \subseteq wanted[f] \ exposed[f]
      /\ (wanted[f] \ exposed[f]) \subseteq file[f].others => wanted'[f] \ exposed'[f] \subseteq others
  BY DEF Remove
<1> HIDE DEF SetupInv, SetupTypes
<1>8. InTurn'
  BY <1>3, <1>4, <1>5, <1>6 DEF InTurn, SetupInv
<1>9. HeldMimir'
  BY <1>5 DEF HeldMimir, SetupInv
<1>10. HeldEntries'
  BY <1>3, <1>4, <1>5, <1>7 DEF HeldEntries, SetupInv
<1>11. LossOnlyOfExposed'
  BY <1>3, <1>4, <1>5, <1>6, <1>7 DEF LossOnlyOfExposed, SetupInv
<1>12. ConfiguredListsMimir'
  BY <1>3, <1>4, <1>5, <1>6 DEF ConfiguredListsMimir, SetupInv, SetupTypes
<1> QED BY <1>8, <1>9, <1>10, <1>11, <1>12 DEF SetupInv

\* The invariant, from start to end.
THEOREM SetupSafety == SetupSpec => []SetupInv
<1>1. SetupInit => SetupInv
  <2> SUFFICES ASSUME SetupInit PROVE SetupInv
    OBVIOUS
  <2>1. SetupTypes
    BY SetupTypesInit
  <2>2. Active = {}
    BY DEF SetupInit, Active
  <2> QED BY <2>1, <2>2 DEF SetupInit, SetupInv, InTurn, HeldMimir, HeldEntries, Holding, Writing,
                           LossOnlyOfExposed, ConfiguredListsMimir
<1>2. ASSUME SetupInv, [SetupNext]_setupVars PROVE SetupInv'
  <2> USE DEF SetupInv
  <2>1. ASSUME NEW f \in File, NEW e \in Entry, Put(f, e) PROVE SetupInv'
    BY <1>2, <2>1, SetupTypesPut, SetupPut
  <2>2. ASSUME NEW f \in File, NEW e \in Entry, Remove(f, e) PROVE SetupInv'
    BY <1>2, <2>2, SetupTypesRemove, SetupRemove
  <2>3. ASSUME NEW c \in Writer, NEW k \in {"setup", "analyze"}, Begin(c, k) PROVE SetupInv'
    BY <1>2, <2>3, SetupTypesRun, SetupRun
  <2>4. ASSUME NEW c \in Writer, ReadFile(c) PROVE SetupInv'
    BY <1>2, <2>4, SetupTypesRead, SetupRead
  <2>5. ASSUME NEW c \in Writer, Truncate(c) PROVE SetupInv'
    BY <1>2, <2>5, SetupTypesTruncate, SetupTruncate
  <2>6. ASSUME NEW c \in Writer, Write(c) PROVE SetupInv'
    BY <1>2, <2>6, SetupTypesWrite, SetupWrite
  <2>7. ASSUME NEW c \in Writer, Skip(c) \/ WriteFails(c) \/ CommandDies(c) PROVE SetupInv'
    BY <1>2, <2>7, SetupStops
  <2>8. CASE UNCHANGED setupVars
    BY <1>2, <2>8 DEF setupVars, user, writers, SetupTypes, InTurn, HeldMimir, HeldEntries,
       Active, Holding, Writing, LossOnlyOfExposed, ConfiguredListsMimir
  <2> QED BY <1>2, <2>1, <2>2, <2>3, <2>4, <2>5, <2>6, <2>7, <2>8 DEF SetupNext
<1> QED BY <1>1, <1>2, PTL DEF SetupSpec

\* While commands run one at a time and the files can be read and have no
\* comments, the only entries that a file loses are those that were put into it
\* between the read and the write of a command, and those it held when a write of
\* it failed or its command died halfway (WriteToEditor, mergeSettings).
THEOREM OnlyExposedEntriesAreLost == SetupSpec => []LossOnlyOfExposed
  BY SetupSafety, PTL DEF SetupInv

\* A file whose last write was reported as configured, installed or written lists
\* mimir, whatever it held before, whatever its user does to it, and whatever
\* becomes of later commands until one has truncated it, if none overlap (SetupAll).
THEOREM ReportedListsMimir == SetupSpec => []ConfiguredListsMimir
  BY SetupSafety, PTL DEF SetupInv
=============================================================================
