----------------------------- MODULE EmbedWorker -----------------------------
(***************************************************************************)
(* The embedding phase of `mimir analyze`: the main goroutine enqueues one *)
(* job per parsed symbol and closes the queue; the worker goroutine        *)
(* (internal/embedder/worker.go) collects batches, asks the cache and the  *)
(* provider for vectors, and stores them.  A vector is represented by the  *)
(* text it was computed from.                                              *)
(***************************************************************************)
EXTENDS Naturals, Sequences, SequencesExt

CONSTANTS
  Job,        \* symbols to embed, one job each
  Text,       \* "name file kind" strings
  TextOf,     \* TextOf[j]; two symbols may have the same
  None,       \* no vector
  QueueCap,   \* capacity of the channel (100000 in the code)
  BatchSize,  \* batchSize (64 in the code)
  FaultSets   \* the environments considered: sets of FaultKinds

FaultKinds ==
  { "fails",   \* the provider returns an error, or its 30 s timeout expires
    "short",   \* the provider returns fewer vectors than it was given texts
    "busy",    \* the transaction of BatchUpdateEmbeddings fails
    "cancel",  \* the context is cancelled (analyze itself never cancels it)
    "kill" }   \* the process dies

ASSUME WorkerAssumption ==
  /\ TextOf \in [Job -> Text]
  /\ None \notin Text
  /\ QueueCap \in Nat \ {0} /\ BatchSize \in Nat \ {0}
  /\ FaultSets \subseteq SUBSET FaultKinds

VARIABLES
  faults,     \* what may go wrong in this behavior; never changes
  producer,   \* where the main goroutine is
  todo,       \* jobs it has not enqueued yet
  queue,      \* the channel
  closed,     \* the channel is closed
  cancelled,  \* the context is done
  pc,         \* where the worker goroutine is
  final,      \* collectBatch returned false: this batch is the last
  batch,      \* jobs collected
  seen,       \* how many of them the cache has been asked for
  uncached,   \* uncachedIdx: positions in batch, a sequence
  answer,     \* the vectors the provider returned
  result,     \* the map from jobs to vectors
  cache,      \* table embed_cache
  stored,     \* table node_embeddings
  dropped,    \* history: jobs dropped because the queue was full
  failed      \* history: jobs of batches that failed

mainVars == <<producer, todo>>
workVars == <<pc, final, batch, seen, uncached, answer, result>>
tables == <<cache, stored>>
history == <<dropped, failed>>
vars == <<faults, mainVars, queue, closed, cancelled, workVars, tables, history>>

NoResult == [j \in Job |-> None]

Init ==
  /\ faults \in FaultSets
  /\ producer = "enqueue" /\ todo = Job
  /\ queue = <<>> /\ closed = FALSE /\ cancelled = FALSE
  /\ pc = "collect" /\ final = FALSE
  /\ batch = <<>> /\ seen = 0 /\ uncached = <<>> /\ answer = <<>> /\ result = NoResult
  /\ \E known \in SUBSET Text :  \* what earlier runs have cached
       cache = [t \in Text |-> IF t \in known THEN t ELSE None]
  /\ stored = NoResult
  /\ dropped = {} /\ failed = {}
-----------------------------------------------------------------------------
(* The main goroutine.                                                     *)

\* Mutant: a send that blocks when the channel is full.
BlockingSend(j) == Len(queue) < QueueCap /\ queue' = Append(queue, j) /\ UNCHANGED dropped

\* The select with a default arm.
Send(j) ==
  IF Len(queue) < QueueCap
  THEN queue' = Append(queue, j) /\ UNCHANGED dropped
  ELSE dropped' = dropped \cup {j} /\ UNCHANGED queue

Enqueue(j) ==
  /\ producer = "enqueue"
  /\ j \in todo
  /\ Send(j)
  /\ todo' = todo \ {j}
  /\ UNCHANGED <<faults, producer, closed, cancelled, workVars, tables, failed>>

\* Close, first half: close(w.queue).
CloseQueue ==
  /\ producer = "enqueue" /\ todo = {}
  /\ closed' = TRUE
  /\ producer' = "wait"
  /\ UNCHANGED <<faults, todo, queue, cancelled, workVars, tables, history>>

\* Mutant: Close does not wait for the worker.
NoWait == TRUE

\* w.wg.Wait() returns.
Waited == pc = "exit"

\* Close, second half; the caller then closes the store.
Finish ==
  /\ producer = "wait" /\ Waited
  /\ producer' = "done"
  /\ UNCHANGED <<faults, todo, queue, closed, cancelled, workVars, tables, history>>
-----------------------------------------------------------------------------
(* The worker goroutine: collectBatch.                                     *)

\* Mutant: a batch ends one job late.
OneMore(jobs) == Len(jobs) > BatchSize

BatchFull(jobs) == Len(jobs) >= BatchSize

Receive ==
  /\ pc = "collect" /\ queue # <<>>
  /\ batch' = Append(batch, Head(queue))
  /\ queue' = Tail(queue)
  /\ pc' = IF BatchFull(batch') THEN "lookup" ELSE "collect"
  /\ UNCHANGED <<faults, mainVars, closed, cancelled, final, seen, uncached, answer, result,
                 tables, history>>

\* The timer ends a batch that is not full.  An empty batch is collected anew,
\* which changes nothing.
Timer ==
  /\ pc = "collect" /\ batch # <<>>
  /\ pc' = "lookup"
  /\ UNCHANGED <<faults, mainVars, queue, closed, cancelled, final, batch, seen, uncached,
                 answer, result, tables, history>>

\* Mutant: the rest is thrown away when the channel is closed.
ExitAtOnce == "exit"

\* What Start does with the last batch.
Remaining == IF batch = <<>> THEN "exit" ELSE "lookup"

\* A receive reports that the channel is closed once it is empty.
Drained == closed /\ queue = <<>>

\* The channel is closed and empty, or the context is done.
LastBatch ==
  /\ pc = "collect"
  /\ Drained \/ cancelled
  /\ final' = TRUE
  /\ pc' = Remaining
  /\ UNCHANGED <<faults, mainVars, queue, closed, cancelled, batch, seen, uncached, answer,
                 result, tables, history>>
-----------------------------------------------------------------------------
(* The worker goroutine: processBatch.                                     *)

\* GetEmbedCache for one job after the other; an error is taken for a miss.
Lookup ==
  /\ pc = "lookup" /\ seen < Len(batch)
  /\ seen' = seen + 1
  /\ LET j == batch[seen + 1]
         known == cache[TextOf[j]]
     IN  \/ known # None /\ result' = [result EXCEPT ![j] = known] /\ UNCHANGED uncached
         \/ /\ known = None \/ "busy" \in faults
            /\ uncached' = Append(uncached, seen + 1) /\ UNCHANGED result
  /\ UNCHANGED <<faults, mainVars, queue, closed, cancelled, pc, final, batch, answer, tables,
                 history>>

LookupDone ==
  /\ pc = "lookup" /\ seen = Len(batch)
  /\ pc' = IF uncached = <<>> THEN "store" ELSE "embed"
  /\ UNCHANGED <<faults, mainVars, queue, closed, cancelled, final, batch, seen, uncached, answer,
                 result, tables, history>>

\* The provider answers, position by position.
Embed ==
  /\ pc = "embed"
  /\ LET vectors == [i \in DOMAIN uncached |-> TextOf[batch[uncached[i]]]]
     IN  \/ answer' = vectors
         \/ /\ "short" \in faults
            /\ \E n \in 0..(Len(vectors) - 1) : answer' = SubSeq(vectors, 1, n)
  /\ pc' = "cache"
  /\ UNCHANGED <<faults, mainVars, queue, closed, cancelled, final, batch, seen, uncached, result,
                 tables, history>>

\* Mutant: the uncached jobs are taken for the last ones of the batch.
LastOfBatch == batch[Len(batch) - Len(uncached) + 1]

\* jobs[idx], where idx is the next of uncachedIdx.
NextJob == batch[Head(uncached)]

\* One turn of the loop over the answer: UpsertEmbedCache, one transaction.
\* Its ON CONFLICT DO NOTHING keeps a vector that is there; an error is only
\* logged.
CacheVector ==
  /\ pc = "cache" /\ uncached # <<>> /\ answer # <<>>
  /\ result' = [result EXCEPT ![NextJob] = Head(answer)]
  /\ LET t == TextOf[NextJob]
     IN  \/ cache' = [cache EXCEPT ![t] = IF @ = None THEN Head(answer) ELSE @]
         \/ "busy" \in faults /\ UNCHANGED cache
  /\ uncached' = Tail(uncached)
  /\ answer' = Tail(answer)
  /\ UNCHANGED <<faults, mainVars, queue, closed, cancelled, pc, final, batch, seen, stored,
                 history>>

CacheDone ==
  /\ pc = "cache" /\ (uncached = <<>> \/ answer = <<>>)
  /\ pc' = "store"
  /\ UNCHANGED <<faults, mainVars, queue, closed, cancelled, final, batch, seen, uncached, answer,
                 result, tables, history>>

\* processBatch returns to the loop in Start.
Return ==
  /\ batch' = <<>> /\ seen' = 0 /\ uncached' = <<>> /\ answer' = <<>> /\ result' = NoResult
  /\ pc' = IF final THEN "exit" ELSE "collect"
  /\ UNCHANGED <<faults, mainVars, queue, closed, cancelled, final, dropped>>

\* An error of the provider gives up the whole batch, the cached part too.
EmbedFails ==
  /\ "fails" \in faults
  /\ pc = "embed"
  /\ failed' = failed \cup ToSet(batch)
  /\ Return
  /\ UNCHANGED tables

\* BatchUpdateEmbeddings, one transaction.
Store ==
  /\ pc = "store"
  /\ stored' = [j \in Job |-> IF result[j] # None THEN result[j] ELSE stored[j]]
  /\ failed' = failed \cup { j \in ToSet(batch) : result[j] = None }
  /\ Return
  /\ UNCHANGED cache

StoreFails ==
  /\ "busy" \in faults
  /\ pc = "store"
  /\ failed' = failed \cup ToSet(batch)
  /\ Return
  /\ UNCHANGED tables
-----------------------------------------------------------------------------
Cancel ==
  /\ "cancel" \in faults
  /\ ~cancelled /\ producer \notin {"done", "dead"}
  /\ cancelled' = TRUE
  /\ UNCHANGED <<faults, mainVars, queue, closed, workVars, tables, history>>

\* SIGINT or SIGKILL: analyze handles neither.  Only the tables remain.
Kill ==
  /\ "kill" \in faults
  /\ producer \notin {"done", "dead"}
  /\ producer' = "dead" /\ pc' = "dead"
  /\ todo' = {} /\ queue' = <<>> /\ batch' = <<>> /\ seen' = 0 /\ uncached' = <<>>
  /\ answer' = <<>> /\ result' = NoResult
  /\ UNCHANGED <<faults, closed, cancelled, final, tables, history>>

Main == (\E j \in Job : Enqueue(j)) \/ CloseQueue \/ Finish
Worker == \/ Receive \/ Timer \/ LastBatch
          \/ Lookup \/ LookupDone \/ Embed \/ EmbedFails \/ CacheVector \/ CacheDone
          \/ Store \/ StoreFails
Next == Main \/ Worker \/ Cancel \/ Kill

\* Both goroutines are scheduled; every call to the provider returns within its
\* timeout.
Spec == Init /\ [][Next]_vars /\ WF_vars(Main) /\ WF_vars(Worker)
-----------------------------------------------------------------------------
TypeOK ==
  /\ faults \in SUBSET FaultKinds
  /\ producer \in {"enqueue", "wait", "done", "dead"}
  /\ todo \subseteq Job
  /\ queue \in Seq(Job) /\ Len(queue) <= QueueCap
  /\ closed \in BOOLEAN /\ cancelled \in BOOLEAN /\ final \in BOOLEAN
  /\ pc \in {"collect", "lookup", "embed", "cache", "store", "exit", "dead"}
  /\ batch \in Seq(Job) /\ Len(batch) <= BatchSize
  /\ seen \in 0..Len(batch)
  /\ uncached \in Seq(DOMAIN batch)
  /\ answer \in Seq(Text)
  /\ result \in [Job -> Text \cup {None}] /\ stored \in [Job -> Text \cup {None}]
  /\ cache \in [Text -> Text \cup {None}]
  /\ dropped \subseteq Job /\ failed \subseteq Job

\* A symbol never gets the vector of another symbol's text, and neither does a
\* text in the cache, whatever part of the batch was cached, however short the
\* answer, and wherever the process dies (worker.go:110-148).
VectorsOfTheirText ==
  /\ \A j \in Job : stored[j] \in {None, TextOf[j]}
  /\ \A t \in Text : cache[t] \in {None, t}

\* A symbol that is without a vector when Close returns is one whose batch
\* failed, or that was dropped, or, when the context is done, one the worker
\* never took; and where nothing can fail no batch does.  The jobs that are in
\* the channel when it is closed, and a batch that is not full then, are not
\* lost (worker.go:56-68, 73-101).
LossAccounted ==
  producer = "done" =>
    /\ \A j \in Job : stored[j] = None =>
         j \in dropped \cup failed \/ (cancelled /\ j \in ToSet(queue))
    /\ faults = {} => failed = {}

\* After Close has returned nobody writes the store any more; runAnalyze closes
\* it, and mimir may delete it, after that (worker.go:73-76, analyze.go:97-101).
NoWriteAfterClose == [][producer = "done" => UNCHANGED tables]_vars

\* The enqueuing never gets stuck behind the worker, nor Close: analyze ends,
\* however slow the provider is and whether or not the context is cancelled.
AnalyzeEnds == <>(producer \in {"done", "dead"})
=============================================================================
