-------------------------------- MODULE Daemon --------------------------------
(***************************************************************************)
(* `mimir mcp` processes (mcp/server.go) and the commands that manage one  *)
(* of them as a background daemon through a PID file                       *)
(* (internal/daemon/daemon.go, `mimir daemon ...`, and the daemon.Start at *)
(* the end of `mimir analyze`).  Editors start servers of their own, on a  *)
(* pipe; the daemon reads the null device.                                 *)
(***************************************************************************)
EXTENDS Naturals, FiniteSets

CONSTANTS
  Pid,       \* process ids of servers
  Command,   \* command processes that may run at the same time
  None,      \* no PID file, no process
  Empty,     \* a PID file that is truncated
  FaultSets  \* the environments considered: sets of FaultKinds

FaultKinds ==
  { "overlap",  \* commands run at the same time
    "manage",   \* stop, restart and status besides start
    "dies",     \* a server dies of itself, or is killed, or the machine reboots
    "reuse",    \* the system gives the PID of a dead server to another process
    "crash",    \* a command dies between two steps
    "fails",    \* the directory, the log or the PID file cannot be written
    "torn",     \* the registry does not parse when a server loads it
    "lengths",  \* PIDs have different numbers of digits
    "editor" }  \* editors run servers

ASSUME DaemonAssumption ==
  /\ None \notin Pid /\ Empty \notin Pid /\ None # Empty
  /\ FaultSets \subseteq SUBSET FaultKinds

VARIABLES
  faults,     \* what may happen in this behavior; never changes
  pidFile,    \* ~/.mimir/mcp.pid
  opened,     \* commands that have opened it, and have it not removed since
  proc,       \* proc[p]: where server p is; "none", or "other" program
  stdin,      \* stdin[p]: "null" for a daemon; "open", "line", "closed": a pipe
  signalled,  \* servers whose context is cancelled
  kind,       \* kind[c]: the command c runs
  pc,         \* pc[c]: where it is
  seen        \* seen[c]: the pid it holds

servers == <<proc, stdin, signalled>>
commands == <<kind, pc, seen>>
files == <<pidFile, opened>>
vars == <<faults, files, servers, commands>>

Alive == { p \in Pid : proc[p] # "none" }
Servers == { p \in Pid : proc[p] \in {"load", "check", "read"} }
Daemons == { p \in Servers : stdin[p] = "null" }
\* Those that are not about to exit: they load the registry, or serve.
Up == Daemons \ signalled

Init ==
  /\ faults \in FaultSets
  /\ pidFile = None
  /\ opened = {}
  /\ proc = [p \in Pid |-> "none"]
  /\ stdin = [p \in Pid |-> "null"]
  /\ signalled = {}
  /\ kind = [c \in Command |-> "none"]
  /\ pc = [c \in Command |-> "idle"]
  /\ seen = [c \in Command |-> None]
-----------------------------------------------------------------------------
(* Commands.                                                               *)

Free == "overlap" \in faults \/ \A c \in Command : pc[c] = "idle"

\* What Restart does first, and what the other commands do first: IsRunning.
FirstStep(k) == IF k = "restart" THEN "stop" ELSE "isRunning"

Run(c, k) ==
  /\ Free
  /\ pc[c] = "idle"
  /\ k = "start" \/ "manage" \in faults
  /\ kind' = [kind EXCEPT ![c] = k]
  /\ pc' = [pc EXCEPT ![c] = FirstStep(k)]
  /\ UNCHANGED <<faults, files, servers, seen>>

Goto(c, from, to) ==
  /\ pc[c] = from
  /\ pc' = [pc EXCEPT ![c] = to]
  /\ UNCHANGED kind

\* readPID fails if there is no file or no number in it.
NotRunning(c) == IF kind[c] \in {"start", "restart"} THEN "spawn" ELSE "end"
Running(c) == IF kind[c] = "stop" THEN "stop" ELSE "end"

\* IsRunning: the PID file is read,
ReadPidFile(c) ==
  /\ Goto(c, "isRunning", IF pidFile \in Pid THEN "probe" ELSE NotRunning(c))
  /\ seen' = [seen EXCEPT ![c] = IF pidFile \in Pid THEN pidFile ELSE None]
  /\ UNCHANGED <<faults, files, servers>>

\* the process is sent signal 0,
Probe(c) ==
  /\ Goto(c, "probe", IF seen[c] \in Alive THEN Running(c) ELSE "unlink")
  /\ UNCHANGED <<faults, files, servers, seen>>

\* and a stale file is removed.
UnlinkStale(c) ==
  /\ Goto(c, "unlink", NotRunning(c))
  /\ pidFile' = None /\ opened' = {}
  /\ UNCHANGED <<faults, servers, seen>>

\* Start: a process on the null device, which is to become a server,
Spawn(c, p) ==
  /\ proc[p] = "none"
  /\ Goto(c, "spawn", "truncate")
  /\ proc' = [proc EXCEPT ![p] = "load"]
  /\ stdin' = [stdin EXCEPT ![p] = "null"]
  /\ seen' = [seen EXCEPT ![c] = p]
  /\ UNCHANGED <<faults, files, signalled>>

\* and its PID, which WriteFile writes into the file it has truncated.
TruncatePidFile(c) ==
  /\ Goto(c, "truncate", "write")
  /\ pidFile' = Empty /\ opened' = opened \cup {c}
  /\ UNCHANGED <<faults, servers, seen>>

\* Mutant: the PID of the command itself, which is gone soon.
OwnPid(c) == None

ChildPid(c) == seen[c]

\* Nothing of it is seen if the file has been removed since; over a longer PID,
\* the last digits of that one stay, and the number may be any.
WritePidFile(c) ==
  /\ Goto(c, "write", "end")
  /\ pidFile' \in IF c \notin opened THEN {pidFile}
                   ELSE {ChildPid(c)} \cup (IF "lengths" \in faults /\ pidFile # Empty THEN Pid ELSE {})
  /\ opened' = opened \ {c}
  /\ UNCHANGED <<faults, servers, seen>>

\* Start returns an error: before there is a process, or with the process left
\* running and the file as it is.
StartFails(c) ==
  /\ "fails" \in faults
  /\ \E from \in {"spawn", "truncate", "write"} : Goto(c, from, "failed")
  /\ opened' = opened \ {c}
  /\ UNCHANGED <<faults, pidFile, servers, seen>>

\* Stop: the PID file is read again; without one there is nothing to stop.
ReadToStop(c) ==
  /\ Goto(c, "stop", IF pidFile \in Pid THEN "remove"
                     ELSE IF kind[c] = "restart" THEN "isRunning" ELSE "end")
  /\ seen' = [seen EXCEPT ![c] = IF pidFile \in Pid THEN pidFile ELSE None]
  /\ UNCHANGED <<faults, files, servers>>

\* Mutant: the PID file is left to IsRunning, which finds it stale later.
LeftInPlace == pidFile

Removed == None

\* The file is removed before the signal is sent.
RemovePidFile(c) ==
  /\ Goto(c, "remove", "signal")
  /\ pidFile' = Removed /\ opened' = {}
  /\ UNCHANGED <<faults, servers, seen>>

\* SIGINT and SIGTERM cancel the context of a server, and end a process that
\* has not come to mcp.Serve, or another program.
Handles(p) == proc[p] \in {"check", "read"}

Interrupt(p) ==
  IF Handles(p)
  THEN signalled' = signalled \cup {p} /\ UNCHANGED <<proc, stdin>>
  ELSE /\ proc' = [proc EXCEPT ![p] = "none"]
       /\ stdin' = [stdin EXCEPT ![p] = "null"]
       /\ UNCHANGED signalled

\* Restart waits half a second after it, and goes on in any case.
Signal(c) ==
  /\ Goto(c, "signal", IF kind[c] = "restart" THEN "isRunning" ELSE "end")
  /\ Interrupt(seen[c])
  /\ UNCHANGED <<faults, files, seen>>

Finish(c) ==
  /\ pc' = [pc EXCEPT ![c] = "idle"]
  /\ kind' = [kind EXCEPT ![c] = "none"]
  /\ seen' = [seen EXCEPT ![c] = None]
  /\ opened' = opened \ {c}
  /\ UNCHANGED <<faults, pidFile, servers>>

End(c) == pc[c] \in {"end", "failed"} /\ Finish(c)
Crash(c) == "crash" \in faults /\ pc[c] # "idle" /\ Finish(c)
-----------------------------------------------------------------------------
(* A server: mcp.Serve, once the registry is loaded, and the loop of run.  *)

\* Mutant: at the end of the input it waits for more without a look at the
\* context.
KeepReading == "read"

KeepWaiting == "check"

Exit(p) ==
  /\ proc' = [proc EXCEPT ![p] = "none"]
  /\ signalled' = signalled \ {p}
  /\ stdin' = [stdin EXCEPT ![p] = "null"]
  /\ UNCHANGED <<faults, files, commands>>

LoadRegistry(p) ==
  /\ proc[p] = "load"
  /\ \/ "torn" \in faults /\ Exit(p)
     \/ /\ proc' = [proc EXCEPT ![p] = "check"]
        /\ UNCHANGED <<faults, files, stdin, signalled, commands>>

CheckContext(p) ==
  /\ proc[p] = "check"
  /\ IF p \in signalled THEN Exit(p)
     ELSE /\ proc' = [proc EXCEPT ![p] = "read"]
          /\ UNCHANGED <<faults, files, stdin, signalled, commands>>

\* Scan returns: at the end of the input, after which the server sleeps and
\* goes on; or with a line, which it answers.  On a pipe that is open and has
\* no line, Scan does not return.
Scan(p) ==
  /\ proc[p] = "read"
  /\ \/ /\ stdin[p] \in {"null", "closed"}
        /\ proc' = [proc EXCEPT ![p] = KeepWaiting]
        /\ UNCHANGED stdin
     \/ /\ stdin[p] = "line"
        /\ proc' = [proc EXCEPT ![p] = "check"]
        /\ stdin' = [stdin EXCEPT ![p] = "open"]
  /\ UNCHANGED <<faults, files, signalled, commands>>

Die(p) ==
  /\ "dies" \in faults /\ p \in Servers
  /\ Exit(p)

OtherProgram(p) ==
  /\ "reuse" \in faults
  /\ \/ proc[p] = "none" /\ proc' = [proc EXCEPT ![p] = "other"]
     \/ proc[p] = "other" /\ proc' = [proc EXCEPT ![p] = "none"]
  /\ UNCHANGED <<faults, files, stdin, signalled, commands>>

\* An editor starts its server, writes to it, closes the pipe, or ends it with
\* SIGTERM.
EditorStarts(p) ==
  /\ "editor" \in faults /\ proc[p] = "none"
  /\ proc' = [proc EXCEPT ![p] = "load"]
  /\ stdin' = [stdin EXCEPT ![p] = "open"]
  /\ UNCHANGED <<faults, files, signalled, commands>>

EditorWrites(p, s) ==
  /\ p \in Servers /\ stdin[p] = "open"
  /\ stdin' = [stdin EXCEPT ![p] = s]
  /\ UNCHANGED <<faults, files, proc, signalled, commands>>

EditorTerminates(p) ==
  /\ p \in Servers /\ stdin[p] # "null"
  /\ Interrupt(p)
  /\ UNCHANGED <<faults, files, commands>>

Serve(p) == LoadRegistry(p) \/ CheckContext(p) \/ Scan(p)

Step(c) ==
  \/ ReadPidFile(c) \/ Probe(c) \/ UnlinkStale(c)
  \/ (\E p \in Pid : Spawn(c, p)) \/ TruncatePidFile(c) \/ WritePidFile(c)
  \/ StartFails(c)
  \/ ReadToStop(c) \/ RemovePidFile(c) \/ Signal(c) \/ End(c)

Next ==
  \/ \E c \in Command : \/ \E k \in {"start", "stop", "restart", "status"} : Run(c, k)
                        \/ Step(c) \/ Crash(c)
  \/ \E p \in Pid : \/ Serve(p) \/ Die(p) \/ OtherProgram(p) \/ EditorStarts(p)
                    \/ \E s \in {"line", "closed"} : EditorWrites(p, s)
                    \/ EditorTerminates(p)

\* Servers are scheduled.
Spec == Init /\ [][Next]_vars /\ \A p \in Pid : WF_vars(Serve(p))
-----------------------------------------------------------------------------
Quiet == \A c \in Command : pc[c] = "idle"

\* While commands do not overlap, do not die and can write their files, no daemon
\* is left behind: the PID file names the one that is up, so that there is at
\* most one, and stop reaches it, also while it is still loading the registry;
\* servers may die, fail to load it, or run for editors (daemon.go:45-95).
NoOrphan ==
  (Quiet /\ faults \cap {"overlap", "reuse", "crash", "fails"} = {}) => Up \subseteq {pidFile}

\* While commands do not overlap and do not die, and no server dies or fails to
\* load the registry, the PID file names a daemon that is up when start or restart
\* reports success: also while the one that was stopped has not gone yet, and
\* after starts that failed.  And when runs of analyze overlap and each starts the
\* daemon, so that more than one may come up, the PID file names one that is when
\* they have all returned, if PIDs are all of one length (main.go:157-171, 222-240).
StartedIsUp ==
  /\ faults \cap {"overlap", "reuse", "crash", "dies", "torn"} = {} =>
       \A c \in Command :
         pc[c] = "end" /\ kind[c] \in {"start", "restart"} => pidFile \in Up
  /\ (Quiet /\ faults = {"overlap"}) =>
       pidFile \in Up \/ (pidFile = None /\ Alive = {})

\* A daemon that was stopped ends.
StoppedDaemonEnds == \A p \in Pid : (p \in Daemons \cap signalled) ~> (proc[p] = "none")
=============================================================================
