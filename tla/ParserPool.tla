------------------------------ MODULE ParserPool ------------------------------
(***************************************************************************)
(* The goroutines that parse files: a feeder (fullIndex, or ApplyPatch,    *)
(* which fills the channel beforehand), the workers of ParserPool.Run, the *)
(* goroutine that closes the output when all workers have returned, and    *)
(* the caller, which collects the output.                                  *)
(***************************************************************************)
EXTENDS Naturals, FiniteSets, Sequences

CONSTANTS
  File,     \* files to parse
  Worker,   \* goroutines of the pool
  None,     \* no file
  FeedCap,  \* capacity of fileCh in fullIndex
  OutCap    \* capacity of out

ASSUME PoolAssumption ==
  /\ None \notin File
  /\ FeedCap \in Nat \ {0} /\ OutCap \in Nat \ {0}
  /\ IsFiniteSet(File) /\ IsFiniteSet(Worker) /\ Worker # {}

VARIABLES
  broken,     \* files that cannot be read or parsed; never changes
  pending,    \* files the feeder has still to send
  files,      \* fileCh
  fed,        \* fileCh is closed
  pc,         \* pc[w]: where worker w is
  held,       \* held[w]: the file w is working on
  out,        \* the output channel
  closed,     \* out is closed
  collected,  \* how often the caller has appended a file to allSymbols
  done,       \* the caller's loop over out has ended
  cancelled   \* the context is done; no caller of this program cancels it

vars == <<broken, pending, files, fed, pc, held, out, closed, collected, done, cancelled>>

\* ApplyPatch makes the channel as large as its list, fills and closes it
\* before it starts the pool.
Prefilled == /\ pending = {} /\ fed
             /\ files \in { s \in [1..Cardinality(File) -> File] :
                              \A i, j \in DOMAIN s : s[i] = s[j] => i = j }

\* fullIndex starts the feeder first, then the pool.
Concurrent == pending = File /\ ~fed /\ files = <<>>

Init ==
  /\ broken \in SUBSET File
  /\ fed \in BOOLEAN
  /\ IF fed THEN Prefilled ELSE Concurrent
  /\ pc = [w \in Worker |-> "select"]
  /\ held = [w \in Worker |-> None]
  /\ out = <<>> /\ closed = FALSE
  /\ collected = [f \in File |-> 0] /\ done = FALSE /\ cancelled = FALSE
-----------------------------------------------------------------------------
Room(channel, cap) == Len(channel) < cap

(* The feeder.                                                             *)

SendFile(f) ==
  /\ f \in pending /\ Room(files, FeedCap)
  /\ files' = Append(files, f)
  /\ pending' = pending \ {f}
  /\ UNCHANGED <<broken, fed, pc, held, out, closed, collected, done, cancelled>>

CloseFiles ==
  /\ ~fed /\ pending = {}
  /\ fed' = TRUE
  /\ UNCHANGED <<broken, pending, files, pc, held, out, closed, collected, done, cancelled>>
-----------------------------------------------------------------------------
(* A worker.                                                               *)

Go(w, to, f) == pc' = [pc EXCEPT ![w] = to] /\ held' = [held EXCEPT ![w] = f]

TakeFile(w) ==
  /\ pc[w] = "select" /\ files # <<>>
  /\ Go(w, "parse", Head(files))
  /\ files' = Tail(files)
  /\ UNCHANGED <<broken, pending, fed, out, closed, collected, done, cancelled>>

\* os.ReadFile and parse; an error skips the file.
Parse(w) ==
  /\ pc[w] = "parse"
  /\ IF held[w] \in broken THEN Go(w, "select", None) ELSE Go(w, "send", held[w])
  /\ UNCHANGED <<broken, pending, files, fed, out, closed, collected, done, cancelled>>

\* A send on a closed channel would panic.
Send(w) ==
  /\ pc[w] = "send" /\ ~closed /\ Room(out, OutCap)
  /\ out' = Append(out, held[w])
  /\ Go(w, "select", None)
  /\ UNCHANGED <<broken, pending, files, fed, closed, collected, done, cancelled>>

\* Mutant: a worker returns when the channel is closed, whatever it holds.
ClosedOnly == fed

NoMoreFiles == fed /\ files = <<>>

\* The channel is closed and empty, or one of the selects sees ctx.Done.
WorkerReturns(w) ==
  /\ \/ pc[w] = "select" /\ (NoMoreFiles \/ cancelled)
     \/ pc[w] = "send" /\ cancelled
  /\ Go(w, "exit", None)
  /\ UNCHANGED <<broken, pending, files, fed, out, closed, collected, done, cancelled>>
-----------------------------------------------------------------------------
(* The closing goroutine, and the caller.                                  *)

\* Mutant: one worker is waited for.
SomeExited == \E w \in Worker : pc[w] = "exit"

\* wg.Wait() returns.
AllExited == \A w \in Worker : pc[w] = "exit"

CloseOut ==
  /\ ~closed /\ AllExited
  /\ closed' = TRUE
  /\ UNCHANGED <<broken, pending, files, fed, pc, held, out, collected, done, cancelled>>

\* Mutant: Run waits for its workers before it returns the channel.
AfterRun == closed

\* Run returns at once, so that the caller receives while the workers parse.
WhileRunning == TRUE

Collect ==
  /\ WhileRunning
  /\ out # <<>>
  /\ collected' = [collected EXCEPT ![Head(out)] = @ + 1]
  /\ out' = Tail(out)
  /\ UNCHANGED <<broken, pending, files, fed, pc, held, closed, done, cancelled>>

EndOfOutput ==
  /\ ~done /\ closed /\ out = <<>>
  /\ done' = TRUE
  /\ UNCHANGED <<broken, pending, files, fed, pc, held, out, closed, collected, cancelled>>

Cancel ==
  /\ ~cancelled /\ ~done
  /\ cancelled' = TRUE
  /\ UNCHANGED <<broken, pending, files, fed, pc, held, out, closed, collected, done>>

Feeder == (\E f \in File : SendFile(f)) \/ CloseFiles
Work(w) == TakeFile(w) \/ Parse(w) \/ Send(w) \/ WorkerReturns(w)
Caller == Collect \/ EndOfOutput
-----------------------------------------------------------------------------
\* The files in allSymbols.
Parsed == { f \in File : collected[f] > 0 }

TypeOK ==
  /\ broken \subseteq File /\ pending \subseteq File
  /\ files \in Seq(File) /\ out \in Seq(File) /\ Len(out) <= OutCap
  /\ collected \in [File -> Nat]
  /\ fed \in BOOLEAN /\ closed \in BOOLEAN /\ done \in BOOLEAN /\ cancelled \in BOOLEAN
  /\ pc \in [Worker -> {"select", "parse", "send", "exit"}]
  /\ held \in [Worker -> File \cup {None}]

\* No worker is at its send when the channel is closed, which would end the
\* process (pool.go:97-110).
NoPanic == \A w \in Worker : pc[w] = "send" => ~closed

\* The caller gets every file that can be parsed, once, whichever worker takes
\* it and however many of the others are broken; a file that cannot be read or
\* parsed costs that file only (pool.go:78-103, analyze.go:376-392).
EveryFileOnce ==
  done => /\ \A f \in File : collected[f] <= 1
          /\ Parsed \subseteq File \ broken
          /\ ~cancelled => Parsed = File \ broken
=============================================================================
