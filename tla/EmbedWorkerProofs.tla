-------------------------- MODULE EmbedWorkerProofs ---------------------------
(***************************************************************************)
(* Proofs about module EmbedWorker, for any number of jobs, any capacity   *)
(* of the channel and any size of a batch.                                 *)
(***************************************************************************)
EXTENDS EmbedWorker, SequenceTheorems, TLAPS

\* What is in the worker's variables, by where it is.
StageInv ==
  /\ pc \in {"collect", "exit", "dead"} => seen = 0 /\ uncached = <<>> /\ answer = <<>>
  /\ pc = "collect" => Len(batch) < BatchSize
  /\ pc \in {"exit", "dead"} => batch = <<>>
  /\ pc \in {"embed", "cache", "store"} => seen = Len(batch)

\* The answer belongs to the uncached jobs, position by position, and what the
\* worker has for a job is the vector of its text.
VectorInv ==
  /\ \A j \in Job : result[j] \in {None, TextOf[j]} /\ stored[j] \in {None, TextOf[j]}
  /\ \A t \in Text : cache[t] \in {None, t}
  /\ pc = "cache" =>
       /\ Len(answer) <= Len(uncached)
       /\ \A i \in 1..Len(answer) : answer[i] = TextOf[batch[uncached[i]]]

\* How far the two goroutines are.
EndInv ==
  /\ producer = "enqueue" => ~closed
  /\ producer \in {"wait", "done"} => todo = {} /\ closed
  /\ producer = "done" => pc = "exit"
  /\ pc = "dead" => producer = "dead"
  /\ pc = "exit" => final
  /\ final => producer = "dead" \/ Drained \/ cancelled

\* Nothing gets lost on the way: every job is somewhere, and the jobs of a batch
\* for which there is no vector yet are among the uncached ones.
Somewhere(j) == j \in todo \cup ToSet(queue) \cup ToSet(batch) \cup dropped \cup failed
KeptInv ==
  /\ producer # "dead" => \A j \in Job : stored[j] # None \/ Somewhere(j)
  /\ \A i \in 1..Len(batch) : i <= seen => result[batch[i]] # None \/ i \in ToSet(uncached)
  /\ faults = {} =>
       /\ failed = {}
       /\ pc = "cache" => Len(answer) = Len(uncached)
       /\ pc = "store" => uncached = <<>>
-----------------------------------------------------------------------------
\* The elements of a sequence that grows at its end or loses its head.
LEMMA Elements ==
  ASSUME NEW X, NEW s \in Seq(X)
  PROVE  /\ \A x \in X : Append(s, x) \in Seq(X) /\ ToSet(Append(s, x)) = ToSet(s) \cup {x}
         /\ s # <<>> => /\ Head(s) \in X /\ Tail(s) \in Seq(X) /\ Len(Tail(s)) = Len(s) - 1
                        /\ ToSet(s) = {Head(s)} \cup ToSet(Tail(s))
                        /\ \A i \in 1..Len(s) - 1 : Tail(s)[i] = s[i + 1]
         /\ ToSet(<<>>) = {}
<1>1. DOMAIN s = 1..Len(s) /\ Len(s) \in Nat
  OBVIOUS
<1>2. ASSUME NEW x \in X PROVE Append(s, x) \in Seq(X) /\ ToSet(Append(s, x)) = ToSet(s) \cup {x}
  <2>1. /\ Append(s, x) \in Seq(X) /\ Len(Append(s, x)) = Len(s) + 1 /\ Append(s, x)[Len(s) + 1] = x
        /\ \A i \in 1..Len(s) : Append(s, x)[i] = s[i]
        /\ DOMAIN Append(s, x) = 1..Len(s) + 1
    BY AppendProperties
  <2>2. 1..Len(s) + 1 = (1..Len(s)) \cup {Len(s) + 1}
    BY <1>1
  <2>3. QED
    BY <1>1, <2>1, <2>2 DEF ToSet
<1>3. ASSUME s # <<>>
      PROVE  /\ Head(s) \in X /\ Tail(s) \in Seq(X) /\ Len(Tail(s)) = Len(s) - 1
             /\ ToSet(s) = {Head(s)} \cup ToSet(Tail(s))
             /\ \A i \in 1..Len(s) - 1 : Tail(s)[i] = s[i + 1]
  <2>1. /\ Head(s) \in X /\ Head(s) = s[1] /\ Tail(s) \in Seq(X) /\ Len(Tail(s)) = Len(s) - 1
        /\ \A i \in 1..Len(Tail(s)) : Tail(s)[i] = s[i + 1]
        /\ DOMAIN Tail(s) = 1..Len(Tail(s)) /\ Len(s) >= 1
    BY <1>1, <1>3, HeadTailProperties
  <2>2. \A x \in ToSet(s) : x \in {Head(s)} \cup ToSet(Tail(s))
    <3>1. ASSUME NEW i \in 1..Len(s) PROVE s[i] \in {Head(s)} \cup ToSet(Tail(s))
      <4>1. CASE i = 1
        BY <2>1, <4>1
      <4>2. CASE i # 1
        <5>1. i - 1 \in 1..Len(Tail(s)) /\ i - 1 + 1 = i
          BY <1>1, <2>1, <4>2
        <5>2. QED
          BY <2>1, <5>1 DEF ToSet
      <4>3. QED
        BY <4>1, <4>2
    <3>2. QED
      BY <1>1, <3>1 DEF ToSet
  <2>3. \A x \in {Head(s)} \cup ToSet(Tail(s)) : x \in ToSet(s)
    <3>1. ASSUME NEW i \in 1..Len(Tail(s)) PROVE Tail(s)[i] \in ToSet(s)
      <4>1. i + 1 \in 1..Len(s)
        BY <1>1, <2>1
      <4>2. QED
        BY <1>1, <2>1, <4>1 DEF ToSet
    <3>2. Head(s) \in ToSet(s)
      BY <1>1, <2>1 DEF ToSet
    <3>3. QED
      BY <2>1, <3>1, <3>2 DEF ToSet
  <2>4. QED
    BY <2>1, <2>2, <2>3
<1>4. ToSet(<<>>) = {}
  BY DEF ToSet
<1>5. QED
  BY <1>2, <1>3, <1>4
-----------------------------------------------------------------------------
\* No action leaves a type.
LEMMA TypesKept ==
  ASSUME TypeOK, StageInv, [Next]_vars
  PROVE  TypeOK' /\ StageInv'
<1>0. /\ TextOf \in [Job -> Text] /\ BatchSize \in Nat /\ BatchSize >= 1 /\ QueueCap \in Nat
      /\ Len(batch) \in Nat /\ DOMAIN batch = 1..Len(batch) /\ seen \in Nat
      /\ <<>> \in Seq(Job) /\ <<>> \in Seq(Text) /\ Len(<<>>) = 0 /\ \A X : <<>> \in Seq(X)
      /\ NoResult \in [Job -> Text \cup {None}]
  BY WorkerAssumption DEF TypeOK, NoResult
<1>1. CASE \E j \in Job : Enqueue(j)
  <2>1. PICK j \in Job : Enqueue(j)
    BY <1>1
  <2>2. /\ queue \in Seq(Job) /\ Len(queue) \in Nat /\ Len(queue) <= QueueCap /\ dropped \subseteq Job
        /\ Append(queue, j) \in Seq(Job) /\ Len(Append(queue, j)) = Len(queue) + 1
    BY DEF TypeOK
  <2>3. queue' \in Seq(Job) /\ Len(queue') <= QueueCap /\ dropped' \subseteq Job
    <3>1. CASE Len(queue) < QueueCap
      <4>1. queue' = Append(queue, j) /\ dropped' = dropped
        BY <2>1, <3>1 DEF Enqueue, Send
      <4>2. QED
        BY <1>0, <2>2, <3>1, <4>1
    <3>2. CASE ~(Len(queue) < QueueCap)
      BY <2>1, <2>2, <3>2 DEF Enqueue, Send
    <3>3. QED
      BY <3>1, <3>2
  <2>4. QED
    BY <1>0, <2>1, <2>3 DEF TypeOK, StageInv, Enqueue, workVars, tables
<1>2. CASE CloseQueue \/ Finish \/ Cancel
  <2>1. CASE CloseQueue
    BY <2>1 DEF TypeOK, StageInv, CloseQueue, workVars, tables, history
  <2>2. CASE Finish
    BY <1>0, <2>2 DEF TypeOK, StageInv, Finish, workVars, tables, history
  <2>3. CASE Cancel
    BY <1>0, <2>3 DEF TypeOK, StageInv, Cancel, mainVars, workVars, tables, history
  <2>4. QED
    BY <1>2, <2>1, <2>2, <2>3
<1>3. CASE Receive
  <2>1. /\ Head(queue) \in Job /\ Tail(queue) \in Seq(Job) /\ Len(Tail(queue)) = Len(queue) - 1
        /\ Append(batch, Head(queue)) \in Seq(Job)
        /\ Len(Append(batch, Head(queue))) = Len(batch) + 1
    BY <1>0, <1>3, Elements DEF TypeOK, Receive
  <2>2. Len(batch) < BatchSize /\ seen = 0 /\ uncached = <<>> /\ answer = <<>>
    BY <1>3 DEF StageInv, Receive
  <2>3. QED
    BY <1>0, <1>3, <2>1, <2>2 DEF TypeOK, StageInv, Receive, BatchFull, mainVars, tables, history
<1>4. CASE Timer \/ LastBatch \/ LookupDone \/ CacheDone
  <2>1. CASE Timer \/ LastBatch
    BY <1>0, <2>1 DEF TypeOK, StageInv, Timer, LastBatch, Remaining, mainVars, workVars, tables, history
  <2>2. CASE LookupDone
    BY <1>0, <2>2 DEF TypeOK, StageInv, LookupDone, mainVars, tables, history
  <2>3. CASE CacheDone
    BY <1>0, <2>3 DEF TypeOK, StageInv, CacheDone, mainVars, tables, history
  <2>4. QED
    BY <1>4, <2>1, <2>2, <2>3
<1>5. CASE Lookup
  <2>1. /\ Append(uncached, seen + 1) \in Seq(DOMAIN batch) /\ batch[seen + 1] \in Job /\ seen + 1 \in 0..Len(batch)
    BY <1>0, <1>5, Elements DEF TypeOK, Lookup
  <2>2. cache[TextOf[batch[seen + 1]]] \in Text \cup {None}
    BY <1>0, <2>1 DEF TypeOK
  <2>3. result' \in [Job -> Text \cup {None}] /\ uncached' \in Seq(DOMAIN batch)
    BY <1>5, <2>1, <2>2 DEF TypeOK, Lookup
  <2>4. QED
    BY <1>0, <1>5, <2>1, <2>3 DEF TypeOK, StageInv, Lookup, mainVars, tables, history
<1>6. CASE Embed
  <2> DEFINE vectors == [i \in DOMAIN uncached |-> TextOf[batch[uncached[i]]]]
  <2>1. vectors \in Seq(Text) /\ Len(vectors) = Len(uncached)
    <3>1. uncached \in Seq(1..Len(batch)) /\ DOMAIN uncached = 1..Len(uncached) /\ Len(uncached) \in Nat
      BY <1>0 DEF TypeOK
    <3>2. \A i \in 1..Len(uncached) : TextOf[batch[uncached[i]]] \in Text
      BY <1>0, <3>1 DEF TypeOK
    <3>3. QED
      BY <3>1, <3>2
  <2>2. \A n \in 0..Len(vectors) - 1 : SubSeq(vectors, 1, n) \in Seq(Text)
    BY <2>1
  <2>3. answer' \in Seq(Text)
    BY <1>6, <2>1, <2>2 DEF Embed
  <2>4. QED
    BY <1>0, <1>6, <2>3 DEF TypeOK, StageInv, Embed, mainVars, tables, history
<1>7. CASE CacheVector
  <2>1. /\ Head(uncached) \in 1..Len(batch) /\ Tail(uncached) \in Seq(DOMAIN batch)
        /\ Head(answer) \in Text /\ Tail(answer) \in Seq(Text)
    BY <1>0, <1>7, Elements DEF TypeOK, CacheVector
  <2>2. NextJob \in Job /\ TextOf[NextJob] \in Text
    BY <1>0, <2>1 DEF NextJob, TypeOK
  <2>3. result' \in [Job -> Text \cup {None}] /\ cache' \in [Text -> Text \cup {None}]
    BY <1>7, <2>1, <2>2 DEF TypeOK, CacheVector
  <2>4. QED
    BY <1>0, <1>7, <2>1, <2>3 DEF TypeOK, StageInv, CacheVector, mainVars, history
<1>8. ASSUME Return PROVE /\ batch' \in Seq(Job) /\ Len(batch') <= BatchSize /\ seen' \in 0..Len(batch')
                          /\ uncached' \in Seq(DOMAIN batch') /\ answer' \in Seq(Text)
                          /\ result' \in [Job -> Text \cup {None}] /\ pc' \in {"collect", "exit"}
                          /\ StageInv'
  <2>1. batch' = <<>> /\ seen' = 0 /\ uncached' = <<>> /\ answer' = <<>> /\ result' = NoResult
        /\ pc' \in {"collect", "exit"}
    BY <1>8 DEF Return
  <2>2. batch' \in Seq(Job) /\ Len(batch') = 0 /\ uncached' \in Seq(DOMAIN batch') /\ answer' \in Seq(Text)
    BY <1>0, <2>1
  <2>3. seen' \in 0..Len(batch') /\ result' \in [Job -> Text \cup {None}] /\ pc' \in {"collect", "exit"}
    BY <1>0, <2>1, <2>2
  <2>4. StageInv'
    <3>1. Len(batch') < BatchSize
      BY <1>0, <2>2
    <3>2. QED
      BY <2>1, <3>1 DEF StageInv
  <2>5. QED
    BY <1>0, <2>2, <2>3, <2>4
<1>9. CASE EmbedFails \/ StoreFails
  <2>1. failed' \subseteq Job
    BY <1>0, <1>9 DEF EmbedFails, StoreFails, TypeOK, ToSet
  <2>2. QED
    BY <1>8, <1>9, <2>1 DEF EmbedFails, StoreFails, Return, TypeOK, mainVars, tables
<1>10. CASE Store
  <2>1. failed' \subseteq Job /\ stored' \in [Job -> Text \cup {None}]
    BY <1>0, <1>10 DEF Store, TypeOK, ToSet
  <2>2. QED
    BY <1>8, <1>10, <2>1 DEF Store, Return, TypeOK, mainVars
<1>11. CASE Kill
  <2>1. batch' = <<>> /\ seen' = 0 /\ uncached' = <<>> /\ answer' = <<>> /\ result' = NoResult
        /\ pc' = "dead" /\ queue' = <<>> /\ todo' = {} /\ producer' = "dead"
    BY <1>11 DEF Kill
  <2>2. /\ batch' \in Seq(Job) /\ Len(batch') = 0 /\ uncached' \in Seq(DOMAIN batch')
        /\ answer' \in Seq(Text) /\ queue' \in Seq(Job) /\ Len(queue') = 0
    BY <1>0, <2>1
  <2>3. seen' \in 0..Len(batch') /\ result' \in [Job -> Text \cup {None}] /\ todo' \subseteq Job
    BY <1>0, <2>1, <2>2
  <2>4. StageInv'
    BY <2>1 DEF StageInv
  <2>5. UNCHANGED <<faults, closed, cancelled, final, tables, history>> /\ producer' = "dead" /\ pc' = "dead"
    BY <1>11 DEF Kill
  <2>6. QED
    BY <1>0, <2>2, <2>3, <2>4, <2>5 DEF TypeOK, tables, history
<1>12. CASE UNCHANGED vars
  BY <1>12 DEF vars, mainVars, workVars, tables, history, TypeOK, StageInv
<1>13. QED
  BY <1>1, <1>2, <1>3, <1>4, <1>5, <1>6, <1>7, <1>9, <1>10, <1>11, <1>12 DEF Next, Main, Worker

\* Vectors stay with their texts.
LEMMA VectorsKept ==
  ASSUME TypeOK, StageInv, VectorInv, [Next]_vars
  PROVE  VectorInv'
<1>0. /\ TextOf \in [Job -> Text] /\ None \notin Text
      /\ DOMAIN batch = 1..Len(batch) /\ uncached \in Seq(1..Len(batch)) /\ answer \in Seq(Text)
      /\ \A i \in 1..Len(batch) : batch[i] \in Job
      /\ \A j \in Job : result[j] \in {None, TextOf[j]} /\ stored[j] \in {None, TextOf[j]}
      /\ \A t \in Text : cache[t] \in {None, t}
  BY WorkerAssumption DEF TypeOK, VectorInv
<1>1. ASSUME pc' # "cache", result' \in {result, NoResult}, UNCHANGED tables
      PROVE  VectorInv'
  BY <1>0, <1>1 DEF VectorInv, tables, NoResult
<1>2. CASE (\E j \in Job : Enqueue(j)) \/ CloseQueue \/ Finish \/ Cancel \/ UNCHANGED vars
  BY <1>2 DEF VectorInv, Enqueue, CloseQueue, Finish, Cancel, vars, mainVars, workVars, tables
<1>3. CASE Receive \/ Timer \/ LastBatch \/ LookupDone \/ CacheDone \/ EmbedFails \/ StoreFails \/ Kill
  BY <1>1, <1>3 DEF Receive, Timer, LastBatch, LookupDone, CacheDone, EmbedFails, StoreFails, Kill,
                    Remaining, Return, workVars
<1>4. CASE Lookup
  <2>1. batch[seen + 1] \in Job /\ TextOf[batch[seen + 1]] \in Text
    BY <1>0, <1>4 DEF Lookup, TypeOK
  <2>2. /\ pc' = "lookup" /\ UNCHANGED tables
        /\ \/ result' = result
           \/ result' = [result EXCEPT ![batch[seen + 1]] = cache[TextOf[batch[seen + 1]]]]
    BY <1>4 DEF Lookup
  <2>3. \A j \in Job : result'[j] \in {None, TextOf[j]}
    BY <1>0, <2>1, <2>2 DEF TypeOK
  <2>4. QED
    BY <1>0, <2>2, <2>3 DEF VectorInv, tables
<1>5. CASE Embed
  <2> DEFINE vectors == [i \in DOMAIN uncached |-> TextOf[batch[uncached[i]]]]
  <2>1. /\ vectors \in Seq(Text) /\ Len(vectors) = Len(uncached) /\ Len(uncached) \in Nat
        /\ \A i \in 1..Len(uncached) : vectors[i] = TextOf[batch[uncached[i]]]
    <3>1. \A i \in 1..Len(uncached) : TextOf[batch[uncached[i]]] \in Text
      BY <1>0
    <3>2. DOMAIN uncached = 1..Len(uncached) /\ Len(uncached) \in Nat
      BY <1>0
    <3>3. QED
      BY <3>1, <3>2
  <2>2. answer' = vectors \/ \E n \in 0..Len(vectors) - 1 : answer' = SubSeq(vectors, 1, n)
    BY <1>5 DEF Embed
  <2> HIDE DEF vectors
  <2>3. Len(answer') <= Len(uncached) /\ \A i \in 1..Len(answer') : answer'[i] = vectors[i]
    <3>1. ASSUME NEW n \in 0..Len(vectors) - 1
          PROVE  /\ Len(SubSeq(vectors, 1, n)) = n
                 /\ \A i \in 1..n : SubSeq(vectors, 1, n)[i] = vectors[i]
      BY <2>1
    <3>2. QED
      BY <2>1, <2>2, <3>1
  <2>4. QED
    BY <1>0, <1>5, <2>1, <2>3 DEF Embed, VectorInv, tables
<1>6. CASE CacheVector
  <2>1. /\ uncached # <<>> /\ answer # <<>>
        /\ Head(answer) \in Text /\ Tail(answer) \in Seq(Text) /\ Len(Tail(answer)) = Len(answer) - 1
        /\ Head(uncached) \in 1..Len(batch) /\ Len(Tail(uncached)) = Len(uncached) - 1
        /\ \A i \in 1..Len(answer) - 1 : Tail(answer)[i] = answer[i + 1]
        /\ \A i \in 1..Len(uncached) - 1 : Tail(uncached)[i] = uncached[i + 1]
        /\ Head(answer) = answer[1] /\ Head(uncached) = uncached[1]
        /\ Len(answer) \in Nat /\ Len(answer) >= 1 /\ Len(uncached) \in Nat /\ Len(uncached) >= 1
    BY <1>0, <1>6, Elements DEF CacheVector
  <2>2. /\ Len(answer) <= Len(uncached)
        /\ \A i \in 1..Len(answer) : answer[i] = TextOf[batch[uncached[i]]]
    BY <1>6 DEF VectorInv, CacheVector
  <2>3. NextJob \in Job /\ Head(answer) = TextOf[NextJob]
    <3>1. NextJob = batch[uncached[1]] /\ 1 \in 1..Len(answer)
      BY <2>1 DEF NextJob
    <3>2. QED
      BY <1>0, <2>1, <2>2, <3>1
  <2>4. \A j \in Job : result'[j] \in {None, TextOf[j]}
    BY <1>0, <1>6, <2>3 DEF CacheVector, TypeOK
  <2>5. \A t \in Text : cache'[t] \in {None, t}
    BY <1>0, <1>6, <2>3 DEF CacheVector, TypeOK
  <2>6. \A i \in 1..Len(answer') : answer'[i] = TextOf[batch'[uncached'[i]]]
    <3>1. answer' = Tail(answer) /\ uncached' = Tail(uncached) /\ batch' = batch
      BY <1>6 DEF CacheVector
    <3>2. ASSUME NEW i \in 1..Len(answer) - 1
          PROVE  Tail(answer)[i] = TextOf[batch[Tail(uncached)[i]]]
      <4>1. i + 1 \in 1..Len(answer) /\ i \in 1..Len(uncached) - 1
        BY <2>1, <2>2
      <4>2. QED
        BY <2>1, <2>2, <4>1
    <3>3. QED
      BY <2>1, <3>1, <3>2
  <2>7. stored' = stored /\ Len(answer') <= Len(uncached')
    BY <1>6, <2>1, <2>2 DEF CacheVector
  <2>8. QED
    BY <1>0, <2>4, <2>5, <2>6, <2>7 DEF VectorInv
<1>7. CASE Store
  <2>1. \A j \in Job : stored'[j] \in {None, TextOf[j]}
    BY <1>0, <1>7 DEF Store
  <2>2. pc' # "cache" /\ result' = NoResult /\ cache' = cache
    BY <1>7 DEF Store, Return
  <2>3. QED
    BY <1>0, <2>1, <2>2 DEF VectorInv, NoResult
<1>8. QED
  BY <1>2, <1>3, <1>4, <1>5, <1>6, <1>7 DEF Next, Main, Worker

\* The worker ends its work when the channel is closed and empty, or cancelled.
LEMMA EndKept ==
  ASSUME TypeOK, StageInv, EndInv, [Next]_vars
  PROVE  EndInv'
<1>1. CASE (\E j \in Job : Enqueue(j)) \/ CloseQueue \/ Finish \/ Cancel \/ Kill \/ UNCHANGED vars
  BY <1>1 DEF EndInv, Enqueue, CloseQueue, Finish, Cancel, Kill, Waited, Drained, vars, mainVars, workVars
<1>2. CASE Receive
  BY <1>2 DEF EndInv, StageInv, Receive, Drained, mainVars
<1>3. CASE Timer \/ LastBatch \/ Lookup \/ LookupDone \/ Embed \/ CacheVector \/ CacheDone
  BY <1>3 DEF EndInv, Timer, LastBatch, Remaining, Lookup, LookupDone, Embed, CacheVector, CacheDone,
              Drained, mainVars
<1>4. CASE EmbedFails \/ Store \/ StoreFails
  BY <1>4 DEF EndInv, EmbedFails, Store, StoreFails, Return, Drained, mainVars
<1>5. QED
  BY <1>1, <1>2, <1>3, <1>4 DEF Next, Main, Worker

\* No job is lost on its way through the channel and the batch.
LEMMA JobsKept ==
  ASSUME TypeOK, StageInv, VectorInv, KeptInv, [Next]_vars
  PROVE  KeptInv'
<1>0. /\ None \notin Text /\ TextOf \in [Job -> Text]
      /\ batch \in Seq(Job) /\ queue \in Seq(Job) /\ uncached \in Seq(1..Len(batch)) /\ answer \in Seq(Text)
      /\ Len(batch) \in Nat /\ seen \in Nat /\ seen <= Len(batch)
      /\ \A i \in 1..Len(batch) : batch[i] \in Job
      /\ \A i \in 1..Len(batch) : i <= seen => result[batch[i]] # None \/ i \in ToSet(uncached)
      /\ ToSet(<<>>) = {} /\ Len(<<>>) = 0
      /\ DOMAIN batch = 1..Len(batch)
  <2>1. ToSet(<<>>) = {}
    BY DEF ToSet
  <2>2. QED
    BY <2>1, WorkerAssumption DEF TypeOK, KeptInv
<1> DEFINE All == producer # "dead" => \A j \in Job : stored[j] # None \/ Somewhere(j)
           Covered == \A i \in 1..Len(batch) : i <= seen => result[batch[i]] # None \/ i \in ToSet(uncached)
           NoFailure == faults = {} => /\ failed = {}
                                       /\ pc = "cache" => Len(answer) = Len(uncached)
                                       /\ pc = "store" => uncached = <<>>
<1>1. CASE \E j \in Job : Enqueue(j)
  <2>1. PICK j \in Job : Enqueue(j)
    BY <1>1
  <2>2. ToSet(Append(queue, j)) = ToSet(queue) \cup {j}
    BY <1>0, Elements
  <2>3. \/ queue' = Append(queue, j) /\ dropped' = dropped
        \/ queue' = queue /\ dropped' = dropped \cup {j}
    BY <2>1 DEF Enqueue, Send
  <2>4. ToSet(queue)' = ToSet(queue') /\ ToSet(batch)' = ToSet(batch)
    BY <2>1 DEF Enqueue, ToSet, workVars
  <2>5. /\ todo' = todo \ {j} /\ producer' = producer /\ stored' = stored /\ failed' = failed
        /\ producer = "enqueue"
    BY <2>1 DEF Enqueue, tables
  <2>6. All'
    BY <2>2, <2>3, <2>4, <2>5 DEF KeptInv, Somewhere
  <2>7. QED
    BY <2>1, <2>6 DEF Enqueue, KeptInv, ToSet, workVars
<1>2. CASE CloseQueue \/ Finish \/ Cancel \/ UNCHANGED vars
  BY <1>2 DEF KeptInv, Somewhere, CloseQueue, Finish, Cancel, ToSet, vars, mainVars, workVars, tables, history
<1>3. CASE Receive
  <2> DEFINE j == Head(queue)
  <2>1. /\ j \in Job /\ ToSet(queue) = {j} \cup ToSet(Tail(queue))
        /\ ToSet(Append(batch, j)) = ToSet(batch) \cup {j}
    BY <1>0, <1>3, Elements DEF Receive
  <2>2. /\ queue' = Tail(queue) /\ batch' = Append(batch, j) /\ pc = "collect" /\ seen = 0
        /\ UNCHANGED <<faults, producer, todo, seen, uncached, answer, result, stored, dropped, failed>>
        /\ pc' \in {"lookup", "collect"}
    BY <1>3 DEF Receive, StageInv, mainVars, tables, history
  <2>3. All'
    BY <2>1, <2>2 DEF KeptInv, Somewhere
  <2>4. Covered'
    BY <2>2
  <2>5. NoFailure'
    BY <2>2 DEF KeptInv
  <2>6. QED
    BY <2>3, <2>4, <2>5 DEF KeptInv
<1>4. CASE Timer \/ LastBatch
  BY <1>4 DEF KeptInv, Somewhere, Timer, LastBatch, Remaining, ToSet, mainVars, tables, history
<1>5. CASE Lookup
  <2> DEFINE j == batch[seen + 1]
  <2>1. seen + 1 \in 1..Len(batch) /\ j \in Job /\ DOMAIN result = Job
    BY <1>0, <1>5 DEF Lookup, TypeOK
  <2>2. ToSet(Append(uncached, seen + 1)) = ToSet(uncached) \cup {seen + 1}
    <3>1. \A X : \A s \in Seq(X) : \A x \in X : ToSet(Append(s, x)) = ToSet(s) \cup {x}
      BY Elements
    <3>2. uncached \in Seq(1..Len(batch))
      BY <1>0
    <3>3. QED
      BY <2>1, <3>1, <3>2
  <2>3. /\ \/ cache[TextOf[j]] # None /\ result' = [result EXCEPT ![j] = cache[TextOf[j]]] /\ uncached' = uncached
           \/ uncached' = Append(uncached, seen + 1) /\ result' = result
        /\ seen' = seen + 1 /\ pc' = "lookup"
        /\ UNCHANGED <<faults, producer, todo, queue, batch, answer, stored, dropped, failed>>
    BY <1>5 DEF Lookup, mainVars, tables, history
  <2>4. Covered'
    <3>1. ASSUME NEW i \in 1..Len(batch), i <= seen + 1
          PROVE  result'[batch[i]] # None \/ i \in ToSet(uncached')
      <4>1. CASE i = seen + 1
        BY <2>1, <2>2, <2>3, <4>1
      <4>2. CASE i <= seen
        BY <1>0, <2>1, <2>2, <2>3, <4>2
      <4>3. QED
        BY <1>0, <3>1, <4>1, <4>2
    <3>2. QED
      BY <2>3, <3>1
  <2>5. All'
    BY <2>3 DEF KeptInv, Somewhere, ToSet
  <2>6. NoFailure'
    BY <2>3 DEF KeptInv
  <2>7. QED
    BY <2>4, <2>5, <2>6 DEF KeptInv
<1>6. CASE LookupDone \/ CacheDone
  <2>1. /\ pc' \in {"store", "embed"}
        /\ pc' = "store" => uncached = <<>> \/ (pc = "cache" /\ answer = <<>>)
        /\ UNCHANGED <<faults, producer, todo, queue, batch, seen, uncached, answer, result, stored, dropped, failed>>
    BY <1>6 DEF LookupDone, CacheDone, mainVars, tables, history
  <2>2. answer = <<>> /\ Len(answer) = Len(uncached) => uncached = <<>>
    BY <1>0
  <2>3. NoFailure'
    BY <2>1, <2>2 DEF KeptInv
  <2>4. All' /\ Covered'
    BY <2>1 DEF KeptInv, Somewhere, ToSet
  <2>5. QED
    BY <2>3, <2>4 DEF KeptInv
<1>7. CASE Embed
  <2>1. /\ pc' = "cache" /\ UNCHANGED <<faults, producer, todo, queue, batch, seen, uncached, result, stored, dropped, failed>>
    BY <1>7 DEF Embed, mainVars, tables, history
  <2>2. "short" \notin faults => Len(answer') = Len(uncached)
    <3> DEFINE vectors == [i \in DOMAIN uncached |-> TextOf[batch[uncached[i]]]]
    <3>1. DOMAIN uncached = 1..Len(uncached) /\ Len(uncached) \in Nat
      BY <1>0
    <3>2. Len(vectors) = Len(uncached)
      BY <3>1
    <3>3. QED
      BY <1>7, <3>2 DEF Embed
  <2>3. All' /\ Covered' /\ NoFailure'
    BY <2>1, <2>2 DEF KeptInv, Somewhere, ToSet
  <2>4. QED
    BY <2>3 DEF KeptInv
<1>8. CASE CacheVector
  <2>1. /\ uncached # <<>> /\ answer # <<>>
        /\ Head(answer) \in Text /\ Len(Tail(answer)) = Len(answer) - 1
        /\ Head(uncached) \in 1..Len(batch) /\ Len(Tail(uncached)) = Len(uncached) - 1
        /\ ToSet(uncached) = {Head(uncached)} \cup ToSet(Tail(uncached))
    BY <1>0, <1>8, Elements DEF CacheVector
  <2>2. /\ pc = "cache" /\ pc' = "cache" /\ answer' = Tail(answer) /\ uncached' = Tail(uncached)
        /\ result' = [result EXCEPT ![batch[Head(uncached)]] = Head(answer)]
        /\ UNCHANGED <<faults, producer, todo, queue, batch, seen, stored, dropped, failed>>
    BY <1>8 DEF CacheVector, NextJob, mainVars, history
  <2>3. Covered'
    <3>1. ASSUME NEW i \in 1..Len(batch), i <= seen
          PROVE  result'[batch[i]] # None \/ i \in ToSet(uncached')
      <4>1. CASE batch[i] = batch[Head(uncached)]
        BY <1>0, <2>1, <2>2, <4>1 DEF TypeOK
      <4>2. CASE batch[i] # batch[Head(uncached)]
        BY <1>0, <2>1, <2>2, <3>1, <4>2 DEF TypeOK
      <4>3. QED
        BY <4>1, <4>2
    <3>2. QED
      BY <2>2, <3>1
  <2>4. All'
    BY <2>2 DEF KeptInv, Somewhere, ToSet
  <2>5. NoFailure'
    BY <2>1, <2>2 DEF KeptInv
  <2>6. QED
    BY <2>3, <2>4, <2>5 DEF KeptInv
<1>9. ASSUME Return PROVE /\ ToSet(batch') = {} /\ Covered' /\ pc' \in {"exit", "collect"}
                          /\ UNCHANGED <<faults, producer, todo, queue, dropped>>
  <2>1. batch' = <<>> /\ pc' \in {"exit", "collect"} /\ UNCHANGED <<faults, producer, todo, queue, dropped>>
    BY <1>9 DEF Return, mainVars
  <2>2. ToSet(batch') = {} /\ Len(batch') = 0
    BY <1>0, <2>1
  <2>3. QED
    BY <2>1, <2>2
<1>10. CASE EmbedFails \/ StoreFails
  <2>1. Return /\ failed' = failed \cup ToSet(batch) /\ stored' = stored /\ faults # {}
    BY <1>10 DEF EmbedFails, StoreFails, tables
  <2>2. All' /\ NoFailure'
    BY <1>9, <2>1 DEF KeptInv, Somewhere
  <2>3. QED
    BY <1>9, <2>1, <2>2 DEF KeptInv
<1>11. CASE Store
  <2>1. /\ Return /\ pc = "store"
        /\ stored' = [j \in Job |-> IF result[j] # None THEN result[j] ELSE stored[j]]
        /\ failed' = failed \cup { j \in ToSet(batch) : result[j] = None }
    BY <1>11 DEF Store
  <2>2. All'
    BY <1>9, <2>1 DEF KeptInv, Somewhere
  <2>3. NoFailure'
    <3>1. ASSUME faults = {}, NEW j \in ToSet(batch) PROVE result[j] # None
      <4>1. uncached = <<>> /\ seen = Len(batch)
        BY <2>1, <3>1 DEF KeptInv, StageInv
      <4>2. PICK i \in 1..Len(batch) : j = batch[i]
        BY <1>0 DEF ToSet
      <4>3. i <= seen /\ i \notin ToSet(uncached)
        BY <1>0, <4>1
      <4>4. QED
        BY <1>0, <4>2, <4>3
    <3>2. QED
      BY <1>9, <2>1, <3>1 DEF KeptInv
  <2>4. QED
    BY <1>9, <2>1, <2>2, <2>3 DEF KeptInv
<1>12. CASE Kill
  <2>1. batch' = <<>> /\ pc' = "dead" /\ producer' = "dead" /\ faults' = faults /\ faults # {}
    BY <1>12 DEF Kill
  <2>2. Len(batch') = 0
    BY <1>0, <2>1
  <2>3. QED
    BY <2>1, <2>2 DEF KeptInv
<1>13. QED
  BY <1>1, <1>2, <1>3, <1>4, <1>5, <1>6, <1>7, <1>8, <1>10, <1>11, <1>12 DEF Next, Main, Worker
-----------------------------------------------------------------------------
\* The inductive invariant.
WorkerInv == TypeOK /\ StageInv /\ VectorInv /\ EndInv /\ KeptInv

LEMMA WorkerInvariant == Spec => []WorkerInv
<1>1. Init => WorkerInv
  <2> SUFFICES ASSUME Init PROVE WorkerInv
    OBVIOUS
  <2>1. /\ TextOf \in [Job -> Text] /\ None \notin Text /\ BatchSize \in Nat \ {0} /\ QueueCap \in Nat
        /\ FaultSets \subseteq SUBSET FaultKinds
    BY WorkerAssumption
  <2>2. Len(<<>>) = 0 /\ \A X : <<>> \in Seq(X)
    OBVIOUS
  <2>3. /\ queue \in Seq(Job) /\ Len(queue) = 0 /\ batch \in Seq(Job) /\ Len(batch) = 0
        /\ uncached \in Seq(DOMAIN batch) /\ answer \in Seq(Text)
    BY <2>2 DEF Init
  <2>4. cache \in [Text -> Text \cup {None}] /\ \A t \in Text : cache[t] \in {None, t}
    BY DEF Init
  <2>5. result \in [Job -> Text \cup {None}] /\ stored \in [Job -> Text \cup {None}]
        /\ \A j \in Job : result[j] = None /\ stored[j] = None
    BY DEF Init, NoResult
  <2>6. faults \in SUBSET FaultKinds /\ seen = 0 /\ pc = "collect" /\ producer = "enqueue" /\ todo = Job
        /\ ~closed /\ closed \in BOOLEAN /\ ~cancelled /\ cancelled \in BOOLEAN /\ ~final /\ final \in BOOLEAN
        /\ dropped = {} /\ failed = {} /\ uncached = <<>> /\ answer = <<>>
    BY <2>1 DEF Init
  <2>7. TypeOK
    BY <2>1, <2>3, <2>4, <2>5, <2>6 DEF TypeOK
  <2>8. StageInv /\ VectorInv /\ EndInv
    BY <2>1, <2>3, <2>4, <2>5, <2>6 DEF StageInv, VectorInv, EndInv
  <2>9. KeptInv
    BY <2>3, <2>6 DEF KeptInv, Somewhere
  <2>10. QED
    BY <2>7, <2>8, <2>9 DEF WorkerInv
<1>2. WorkerInv /\ [Next]_vars => WorkerInv'
  BY TypesKept, VectorsKept, EndKept, JobsKept DEF WorkerInv
<1>3. QED
  BY <1>1, <1>2, PTL DEF Spec

\* The types, among them the bounds of the channel and of a batch.
THEOREM WorkerTypes == Spec => []TypeOK
<1>1. WorkerInv => TypeOK
  BY DEF WorkerInv
<1>2. QED
  BY <1>1, WorkerInvariant, PTL

\* No vector goes to the wrong symbol or under the wrong text: the answer is read
\* with the positions of the uncached jobs, and what is left of it stays in step
\* with what is left of them (worker.go:110-148).
THEOREM NoVectorIsMixedUp == Spec => []VectorsOfTheirText
<1>1. WorkerInv => VectorsOfTheirText
  BY DEF WorkerInv, VectorInv, VectorsOfTheirText
<1>2. QED
  BY <1>1, WorkerInvariant, PTL

\* A job without a vector was dropped, failed, or was left in the channel by a
\* cancelled worker: until then every job is in the channel or in the batch, and
\* the worker ends only on an empty channel (worker.go:56-68, 73-101).
THEOREM LossesAreAccounted == Spec => []LossAccounted
<1>1. WorkerInv => LossAccounted
  <2> SUFFICES ASSUME WorkerInv, producer = "done" PROVE LossAccounted
    BY DEF LossAccounted
  <2>1. todo = {} /\ batch = <<>> /\ (Drained \/ cancelled)
    BY DEF WorkerInv, EndInv, StageInv
  <2>2. ToSet(<<>>) = {}
    BY DEF ToSet
  <2>3. ASSUME NEW j \in Job, stored[j] = None
        PROVE  j \in dropped \cup failed \/ (cancelled /\ j \in ToSet(queue))
    <3>1. Somewhere(j)
      BY <2>3 DEF WorkerInv, KeptInv
    <3>2. j \in ToSet(queue) => cancelled
      BY <2>1, <2>2 DEF Drained
    <3>3. QED
      BY <2>1, <2>2, <3>1, <3>2 DEF Somewhere
  <2>4. faults = {} => failed = {}
    BY DEF WorkerInv, KeptInv
  <2>5. QED
    BY <2>3, <2>4 DEF LossAccounted
<1>2. QED
  BY <1>1, WorkerInvariant, PTL

\* The worker has returned when Close returns, so nobody writes into the store that
\* analyze closes next (worker.go:73-76).
THEOREM NothingWrittenAfterClose == Spec => NoWriteAfterClose
<1>1. WorkerInv /\ [Next]_vars => [producer = "done" => UNCHANGED tables]_vars
  <2> SUFFICES ASSUME WorkerInv, Next, producer = "done" PROVE UNCHANGED tables
    OBVIOUS
  <2>1. pc = "exit"
    BY DEF WorkerInv, EndInv
  <2>2. ~Worker /\ ~Kill
    BY <2>1 DEF Worker, Receive, Timer, LastBatch, Lookup, LookupDone, Embed, EmbedFails, CacheVector,
                CacheDone, Store, StoreFails, Kill
  <2>3. QED
    BY <2>2 DEF Next, Main, Enqueue, CloseQueue, Finish, Cancel
<1>2. QED
  BY <1>1, WorkerInvariant, PTL DEF Spec, NoWriteAfterClose
=============================================================================
