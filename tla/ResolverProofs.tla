---------------------------- MODULE ResolverProofs ----------------------------
(***************************************************************************)
(* Proofs about modules ParserPool, Extraction and Resolver: from files to *)
(* edges, for any files, any number of workers and channels of any size.   *)
(***************************************************************************)
EXTENDS Resolver, FiniteSetTheorems, FunctionTheorems, SequenceTheorems, WellFoundedInduction, TLAPS

\* The files that workers hold.
InHands == { held[w] : w \in Worker } \ {None}
NoDoubles(s) == \A i, j \in DOMAIN s : s[i] = s[j] => i = j

\* On its way a file is in one place at a time, and there once.
PoolInv ==
  /\ NoDoubles(files) /\ NoDoubles(out)
  /\ \A v, w \in Worker : held[v] = held[w] /\ held[v] # None => v = w
  /\ \A f \in File :
       /\ f \in pending => f \notin ToSet(files) \cup InHands \cup ToSet(out) \cup Parsed
       /\ f \in ToSet(files) => f \notin InHands \cup ToSet(out) \cup Parsed
       /\ f \in InHands => f \notin ToSet(out) \cup Parsed
       /\ f \in ToSet(out) => f \notin Parsed
       /\ collected[f] <= 1
       /\ f \in ToSet(out) \cup Parsed => f \notin broken
  /\ \A w \in Worker : /\ pc[w] \in {"parse", "send"} => held[w] # None
                       /\ pc[w] = "send" => held[w] \notin broken

\* No stage ends before the one it takes its files from, and none of them is lost
\* unless the context is done.
StagesInv ==
  /\ fed => pending = {}
  /\ \A w \in Worker : pc[w] = "exit" => NoMoreFiles \/ cancelled
  /\ closed => AllExited
  /\ done => closed /\ out = <<>>
  /\ ~cancelled => File \ broken \subseteq pending \cup ToSet(files) \cup InHands \cup ToSet(out) \cup Parsed
  /\ \A w \in Worker : pc[w] \in {"select", "exit"} => held[w] = None
-----------------------------------------------------------------------------
\* The elements of a sequence that grows at its end or loses its head.
LEMMA Elements ==
  ASSUME NEW X, NEW s \in Seq(X)
  PROVE  /\ \A x \in X : Append(s, x) \in Seq(X) /\ ToSet(Append(s, x)) = ToSet(s) \cup {x}
         /\ s # <<>> => /\ Head(s) \in X /\ Tail(s) \in Seq(X) /\ Len(Tail(s)) = Len(s) - 1
                        /\ ToSet(s) = {Head(s)} \cup ToSet(Tail(s))
                        /\ \A i \in 1..Len(s) - 1 : Tail(s)[i] = s[i + 1]
         /\ ToSet(<<>>) = {}
<1>1. DOMAIN s = 1..Len(s) /\ Len(s) \in Nat
  OBVIOUS
<1>2. ASSUME NEW x \in X PROVE Append(s, x) \in Seq(X) /\ ToSet(Append(s, x)) = ToSet(s) \cup {x}
  <2>1. /\ Append(s, x) \in Seq(X) /\ Len(Append(s, x)) = Len(s) + 1 /\ Append(s, x)[Len(s) + 1] = x
        /\ \A i \in 1..Len(s) : Append(s, x)[i] = s[i]
        /\ DOMAIN Append(s, x) = 1..Len(s) + 1
    BY AppendProperties
  <2>2. 1..Len(s) + 1 = (1..Len(s)) \cup {Len(s) + 1}
    BY <1>1
  <2>3. QED
    BY <1>1, <2>1, <2>2 DEF ToSet
<1>3. ASSUME s # <<>>
      PROVE  /\ Head(s) \in X /\ Tail(s) \in Seq(X) /\ Len(Tail(s)) = Len(s) - 1
             /\ ToSet(s) = {Head(s)} \cup ToSet(Tail(s))
             /\ \A i \in 1..Len(s) - 1 : Tail(s)[i] = s[i + 1]
  <2>1. /\ Head(s) \in X /\ Head(s) = s[1] /\ Tail(s) \in Seq(X) /\ Len(Tail(s)) = Len(s) - 1
        /\ \A i \in 1..Len(Tail(s)) : Tail(s)[i] = s[i + 1]
        /\ DOMAIN Tail(s) = 1..Len(Tail(s)) /\ Len(s) >= 1
    BY <1>1, <1>3, HeadTailProperties
  <2>2. \A x \in ToSet(s) : x \in {Head(s)} \cup ToSet(Tail(s))
    <3>1. ASSUME NEW i \in 1..Len(s) PROVE s[i] \in {Head(s)} \cup ToSet(Tail(s))
      <4>1. CASE i = 1
        BY <2>1, <4>1
      <4>2. CASE i # 1
        <5>1. i - 1 \in 1..Len(Tail(s)) /\ i - 1 + 1 = i
          BY <1>1, <2>1, <4>2
        <5>2. QED
          BY <2>1, <5>1 DEF ToSet
      <4>3. QED
        BY <4>1, <4>2
    <3>2. QED
      BY <1>1, <3>1 DEF ToSet
  <2>3. \A x \in {Head(s)} \cup ToSet(Tail(s)) : x \in ToSet(s)
    <3>1. ASSUME NEW i \in 1..Len(Tail(s)) PROVE Tail(s)[i] \in ToSet(s)
      <4>1. i + 1 \in 1..Len(s)
        BY <1>1, <2>1
      <4>2. QED
        BY <1>1, <2>1, <4>1 DEF ToSet
    <3>2. Head(s) \in ToSet(s)
      BY <1>1, <2>1 DEF ToSet
    <3>3. QED
      BY <2>1, <3>1, <3>2 DEF ToSet
  <2>4. QED
    BY <2>1, <2>2, <2>3
<1>4. ToSet(<<>>) = {}
  BY DEF ToSet
<1>5. QED
  BY <1>2, <1>3, <1>4

\* The steps of the goroutines around the pool.
PoolNext == Feeder \/ (\E w \in Worker : Work(w)) \/ CloseOut \/ Caller \/ Cancel

\* A sequence without doubles stays so.
LEMMA NoDoublesKept ==
  ASSUME NEW X, NEW s \in Seq(X), NoDoubles(s)
  PROVE  /\ \A x \in X : x \notin ToSet(s) => NoDoubles(Append(s, x))
         /\ s # <<>> => NoDoubles(Tail(s)) /\ Head(s) \notin ToSet(Tail(s))
<1>1. DOMAIN s = 1..Len(s) /\ Len(s) \in Nat
  OBVIOUS
<1>2. ASSUME NEW x \in X, x \notin ToSet(s) PROVE NoDoubles(Append(s, x))
  <2>1. /\ Append(s, x)[Len(s) + 1] = x /\ \A i \in 1..Len(s) : Append(s, x)[i] = s[i]
        /\ DOMAIN Append(s, x) = 1..Len(s) + 1
    BY AppendProperties
  <2>2. \A i \in 1..Len(s) : s[i] # x
    BY <1>1, <1>2 DEF ToSet
  <2>3. \A i \in 1..Len(s) + 1 : i = Len(s) + 1 \/ i \in 1..Len(s)
    BY <1>1
  <2>4. QED
    BY <1>1, <2>1, <2>2, <2>3 DEF NoDoubles
<1>3. ASSUME s # <<>> PROVE NoDoubles(Tail(s)) /\ Head(s) \notin ToSet(Tail(s))
  <2>1. /\ Head(s) = s[1] /\ \A i \in 1..Len(s) - 1 : Tail(s)[i] = s[i + 1] /\ i + 1 \in 1..Len(s)
        /\ DOMAIN Tail(s) = 1..Len(s) - 1 /\ 1 \in 1..Len(s)
    BY <1>1, <1>3, HeadTailProperties
  <2>2. QED
    BY <1>1, <2>1 DEF NoDoubles, ToSet
<1>4. QED
  BY <1>2, <1>3

\* What the hands hold when a worker changes what it holds.
LEMMA HandsChange ==
  ASSUME TypeOK, PoolInv, NEW w \in Worker, NEW x \in File \cup {None}, held' = [held EXCEPT ![w] = x]
  PROVE  InHands' = (InHands \ {held[w]}) \cup ({x} \ {None})
<1>1. DOMAIN held = Worker /\ held'[w] = x /\ \A v \in Worker : v # w => held'[v] = held[v]
  BY DEF TypeOK
<1>2. InHands' = { held'[v] : v \in Worker } \ {None}
  BY DEF InHands
<1>3. \A v \in Worker : v # w => held[v] # held[w] \/ held[v] = None
  BY DEF PoolInv
<1>4. QED
  BY <1>1, <1>2, <1>3 DEF InHands

\* The types of the pool.
LEMMA PoolTypes ==
  ASSUME TypeOK, PoolInv, PoolNext
  PROVE  TypeOK'
<1>0. /\ OutCap \in Nat /\ \A f \in File : Append(files, f) \in Seq(File) /\ Append(out, f) \in Seq(File)
      /\ \A f \in File : Len(Append(out, f)) = Len(out) + 1
      /\ files # <<>> => Head(files) \in File /\ Tail(files) \in Seq(File)
      /\ out # <<>> => Head(out) \in File /\ Tail(out) \in Seq(File) /\ Len(Tail(out)) <= OutCap
      /\ Len(out) \in Nat
  BY PoolAssumption DEF TypeOK
<1>1. CASE \E f \in File : SendFile(f)
  BY <1>0, <1>1 DEF TypeOK, SendFile
<1>2. CASE CloseFiles \/ CloseOut \/ EndOfOutput \/ Cancel
  BY <1>2 DEF TypeOK, CloseFiles, CloseOut, EndOfOutput, Cancel
<1>3. CASE Collect
  <2>1. collected' \in [File -> Nat]
    BY <1>0, <1>3 DEF TypeOK, Collect
  <2>2. QED
    BY <1>0, <1>3, <2>1 DEF TypeOK, Collect
<1>4. ASSUME NEW w \in Worker, Work(w) PROVE TypeOK'
  <2>1. held[w] \in File \cup {None}
    BY DEF TypeOK
  <2>2. CASE TakeFile(w)
    BY <1>0, <2>2 DEF TypeOK, TakeFile, Go
  <2>3. CASE Parse(w)
    BY <2>1, <2>3 DEF TypeOK, Parse, Go
  <2>4. CASE Send(w)
    <3>1. held[w] \in File
      BY <2>1, <2>4 DEF Send, PoolInv
    <3>2. out' \in Seq(File) /\ Len(out') <= OutCap
      BY <1>0, <2>4, <3>1 DEF TypeOK, Send, Room
    <3>3. QED
      BY <2>4, <3>2 DEF TypeOK, Send, Go
  <2>5. CASE WorkerReturns(w)
    BY <2>5 DEF TypeOK, WorkerReturns, Go
  <2>6. QED
    BY <1>4, <2>2, <2>3, <2>4, <2>5 DEF Work
<1>5. QED
  BY <1>1, <1>2, <1>3, <1>4 DEF PoolNext, Feeder, Caller


\* Each step moves at most one file on to the next place.
LEMMA PoolStep ==
  ASSUME TypeOK, PoolInv, StagesInv, PoolNext
  PROVE  PoolInv' /\ StagesInv'
<1>0. /\ None \notin File /\ files \in Seq(File) /\ out \in Seq(File)
      /\ DOMAIN pc = Worker /\ DOMAIN held = Worker /\ \A w \in Worker : held[w] \in File \cup {None}
      /\ \A f \in File : collected[f] \in Nat
      /\ collected \in [File -> Nat]
  BY PoolAssumption DEF TypeOK
<1>1. ASSUME NEW f \in File, SendFile(f) PROVE PoolInv' /\ StagesInv'
  <2>1. f \in pending /\ f \notin ToSet(files) /\ pending # {} /\ ~fed
    BY <1>1 DEF SendFile, PoolInv, StagesInv
  <2>2. ToSet(Append(files, f)) = ToSet(files) \cup {f} /\ NoDoubles(Append(files, f))
    BY <1>0, <2>1, Elements, NoDoublesKept DEF PoolInv
  <2>3. /\ files' = Append(files, f) /\ pending' = pending \ {f} /\ ToSet(files)' = ToSet(files) \cup {f}
        /\ UNCHANGED <<broken, fed, pc, held, out, closed, collected, done, cancelled>>
    BY <1>1, <2>2 DEF SendFile
  <2>4. InHands' = InHands /\ ToSet(out)' = ToSet(out) /\ Parsed' = Parsed
    BY <2>3 DEF InHands, ToSet, Parsed
  <2>5. PoolInv'
    BY <2>1, <2>2, <2>3, <2>4 DEF PoolInv
  <2>6. StagesInv'
    BY <2>1, <2>3, <2>4 DEF StagesInv, NoMoreFiles, AllExited
  <2>7. QED
    BY <2>5, <2>6
<1>2. CASE CloseFiles \/ CloseOut \/ EndOfOutput \/ Cancel
  <2>1. UNCHANGED <<broken, pending, files, pc, held, out, collected>>
    BY <1>2 DEF CloseFiles, CloseOut, EndOfOutput, Cancel
  <2>2. InHands' = InHands /\ ToSet(out)' = ToSet(out) /\ Parsed' = Parsed /\ ToSet(files)' = ToSet(files)
    BY <2>1 DEF InHands, ToSet, Parsed
  <2>3. PoolInv'
    BY <2>1, <2>2 DEF PoolInv, NoDoubles
  <2>4. StagesInv'
    BY <1>2, <2>1, <2>2 DEF StagesInv, CloseFiles, CloseOut, EndOfOutput, Cancel, NoMoreFiles, AllExited
  <2>5. QED
    BY <2>3, <2>4
<1>3. CASE Collect
  <2> DEFINE f == Head(out)
  <2>1. /\ f \in File /\ ToSet(out) = {f} \cup ToSet(Tail(out)) /\ NoDoubles(Tail(out)) /\ f \notin ToSet(Tail(out))
        /\ out # <<>>
    BY <1>0, <1>3, Elements, NoDoublesKept DEF PoolInv, Collect
  <2>2. /\ out' = Tail(out) /\ ToSet(out)' = ToSet(Tail(out)) /\ collected' = [collected EXCEPT ![f] = collected[f] + 1]
        /\ UNCHANGED <<broken, pending, files, fed, pc, held, closed, done, cancelled>>
    BY <1>3 DEF Collect
  <2> HIDE DEF f
  <2>3. InHands' = InHands /\ ToSet(files)' = ToSet(files)
    BY <2>2 DEF InHands, ToSet
  <2>4. f \notin Parsed /\ f \notin broken /\ f \notin pending \cup ToSet(files) \cup InHands
    BY <2>1 DEF PoolInv
  <2>5. collected[f] = 0 /\ collected'[f] = 1 /\ \A g \in File : g # f => collected'[g] = collected[g]
    BY <1>0, <2>1, <2>2, <2>4 DEF Parsed
  <2>6. Parsed' = Parsed \cup {f}
    <3>1. Parsed' = { g \in File : collected'[g] > 0 }
      BY DEF Parsed
    <3>2. QED
      BY <2>1, <2>5, <3>1 DEF Parsed
  <2>7. \A g \in File : collected'[g] <= 1
    BY <2>5 DEF PoolInv
  <2>8. PoolInv'
    BY <2>1, <2>2, <2>3, <2>4, <2>6, <2>7 DEF PoolInv, NoDoubles
  <2>9. StagesInv'
    BY <2>1, <2>2, <2>3, <2>6 DEF StagesInv, NoMoreFiles, AllExited
  <2>10. QED
    BY <2>8, <2>9
<1>4. ASSUME NEW w \in Worker, TakeFile(w) PROVE PoolInv' /\ StagesInv'
  <2> DEFINE f == Head(files)
  <2>1. /\ f \in File /\ ToSet(files) = {f} \cup ToSet(Tail(files)) /\ NoDoubles(Tail(files))
        /\ f \notin ToSet(Tail(files)) /\ files # <<>> /\ pc[w] = "select" /\ held[w] = None
    BY <1>0, <1>4, Elements, NoDoublesKept DEF PoolInv, StagesInv, TakeFile
  <2>2. /\ files' = Tail(files) /\ ToSet(files)' = ToSet(Tail(files))
        /\ pc' = [pc EXCEPT ![w] = "parse"] /\ held' = [held EXCEPT ![w] = f]
        /\ UNCHANGED <<broken, pending, fed, out, closed, collected, done, cancelled>>
    BY <1>4 DEF TakeFile, Go
  <2> HIDE DEF f
  <2>3. InHands' = InHands \cup {f} /\ ToSet(out)' = ToSet(out) /\ Parsed' = Parsed
    <3>1. InHands' = (InHands \ {held[w]}) \cup ({f} \ {None})
      BY <2>1, <2>2, HandsChange
    <3>2. None \notin InHands
      BY DEF InHands
    <3>3. QED
      BY <1>0, <2>1, <2>2, <3>1, <3>2 DEF ToSet, Parsed
  <2>4. f \notin InHands \cup ToSet(out) \cup Parsed
    BY <2>1 DEF PoolInv
  <2>5. \A v, u \in Worker : held'[v] = held'[u] /\ held'[v] # None => v = u
    <3>1. \A v \in Worker : held[v] # f
      BY <1>0, <2>1, <2>4 DEF InHands
    <3>2. QED
      BY <1>0, <2>2, <3>1 DEF PoolInv
  <2>6. \A v \in Worker : /\ pc'[v] \in {"parse", "send"} => held'[v] # None
                          /\ pc'[v] = "send" => held'[v] \notin broken
    BY <1>0, <2>1, <2>2 DEF PoolInv
  <2>7. PoolInv'
    BY <2>1, <2>2, <2>3, <2>4, <2>5, <2>6 DEF PoolInv, NoDoubles
  <2>8. \A v \in Worker : pc'[v] = "exit" => pc[v] = "exit" /\ v # w
    BY <1>0, <2>2
  <2>9. ~closed /\ (\A v \in Worker : pc'[v] = "exit" => cancelled)
    BY <2>1, <2>8 DEF StagesInv, AllExited, NoMoreFiles
  <2>10. \A v \in Worker : pc'[v] \in {"select", "exit"} => held'[v] = None
    BY <1>0, <2>2 DEF StagesInv
  <2>11. StagesInv'
    BY <2>1, <2>2, <2>3, <2>9, <2>10 DEF StagesInv
  <2>12. QED
    BY <2>7, <2>11
<1>5. ASSUME NEW w \in Worker, Parse(w) PROVE PoolInv' /\ StagesInv'
  <2>1. held[w] \in File /\ held[w] # None /\ pc[w] = "parse"
    BY <1>0, <1>5 DEF Parse, PoolInv
  <2>2. /\ UNCHANGED <<broken, pending, files, fed, out, closed, collected, done, cancelled>>
        /\ \/ held[w] \in broken /\ pc' = [pc EXCEPT ![w] = "select"] /\ held' = [held EXCEPT ![w] = None]
           \/ held[w] \notin broken /\ pc' = [pc EXCEPT ![w] = "send"] /\ held' = [held EXCEPT ![w] = held[w]]
    BY <1>5 DEF Parse, Go
  <2>3. ToSet(out)' = ToSet(out) /\ Parsed' = Parsed /\ ToSet(files)' = ToSet(files)
    BY <2>2 DEF ToSet, Parsed
  <2>4. InHands' = InHands \/ (held[w] \in broken /\ InHands' = InHands \ {held[w]})
    <3>1. CASE held' = [held EXCEPT ![w] = None] /\ held[w] \in broken
      <4>1. InHands' = (InHands \ {held[w]}) \cup ({None} \ {None})
        BY <3>1, HandsChange
      <4>2. QED
        BY <3>1, <4>1
    <3>2. CASE held' = [held EXCEPT ![w] = held[w]]
      <4>1. held' = held
        BY <1>0, <3>2 DEF TypeOK
      <4>2. QED
        BY <4>1 DEF InHands
    <3>3. QED
      BY <2>2, <3>1, <3>2
  <2>5. \A v, u \in Worker : held'[v] = held'[u] /\ held'[v] # None => v = u
    BY <1>0, <2>2 DEF PoolInv
  <2>6. \A v \in Worker : /\ pc'[v] \in {"parse", "send"} => held'[v] # None
                          /\ pc'[v] = "send" => held'[v] \notin broken
    BY <1>0, <2>1, <2>2 DEF PoolInv
  <2>7. PoolInv'
    BY <2>2, <2>3, <2>4, <2>5, <2>6 DEF PoolInv, NoDoubles
  <2>8. ~closed /\ \A v \in Worker : pc'[v] = "exit" => pc[v] = "exit"
    BY <1>0, <2>1, <2>2 DEF StagesInv, AllExited
  <2>9. \A v \in Worker : pc'[v] \in {"select", "exit"} => held'[v] = None
    BY <1>0, <2>2 DEF StagesInv
  <2>10. StagesInv'
    BY <2>2, <2>3, <2>4, <2>8, <2>9 DEF StagesInv, NoMoreFiles
  <2>11. QED
    BY <2>7, <2>10
<1>6. ASSUME NEW w \in Worker, Send(w) PROVE PoolInv' /\ StagesInv'
  <2> DEFINE f == held[w]
  <2>1. f \in File /\ f # None /\ pc[w] = "send" /\ f \notin broken /\ f \in InHands /\ ~closed
    BY <1>0, <1>6 DEF Send, PoolInv, InHands
  <2>2. f \notin ToSet(out) \cup Parsed
    BY <2>1 DEF PoolInv
  <2>3. ToSet(Append(out, f)) = ToSet(out) \cup {f} /\ NoDoubles(Append(out, f))
    BY <1>0, <2>1, <2>2, Elements, NoDoublesKept DEF PoolInv
  <2>4. /\ out' = Append(out, f) /\ ToSet(out)' = ToSet(out) \cup {f}
        /\ pc' = [pc EXCEPT ![w] = "select"] /\ held' = [held EXCEPT ![w] = None]
        /\ UNCHANGED <<broken, pending, files, fed, closed, collected, done, cancelled>>
    BY <1>6, <2>3 DEF Send, Go
  <2>5. InHands' = InHands \ {f} /\ ToSet(files)' = ToSet(files) /\ Parsed' = Parsed
    <3>1. InHands' = (InHands \ {held[w]}) \cup ({None} \ {None})
      BY <2>4, HandsChange
    <3>2. QED
      BY <2>4, <3>1 DEF ToSet, Parsed
  <2>6. \A v, u \in Worker : held'[v] = held'[u] /\ held'[v] # None => v = u
    BY <1>0, <2>4 DEF PoolInv
  <2>7. \A v \in Worker : /\ pc'[v] \in {"parse", "send"} => held'[v] # None
                          /\ pc'[v] = "send" => held'[v] \notin broken
    BY <1>0, <2>4 DEF PoolInv
  <2>8. \A v \in Worker : pc'[v] \in {"select", "exit"} => held'[v] = None
    BY <1>0, <2>4 DEF StagesInv
  <2>9. \A v \in Worker : pc'[v] = "exit" => pc[v] = "exit"
    BY <1>0, <2>4
  <2> HIDE DEF f
  <2>10. PoolInv'
    BY <2>1, <2>2, <2>3, <2>4, <2>5, <2>6, <2>7 DEF PoolInv, NoDoubles
  <2>11. done = FALSE
    BY <2>1 DEF StagesInv, TypeOK
  <2>12. StagesInv'
    BY <2>1, <2>4, <2>5, <2>8, <2>9, <2>11 DEF StagesInv, NoMoreFiles
  <2>13. QED
    BY <2>10, <2>12
<1>7. ASSUME NEW w \in Worker, WorkerReturns(w) PROVE PoolInv' /\ StagesInv'
  <2>1. /\ pc' = [pc EXCEPT ![w] = "exit"] /\ held' = [held EXCEPT ![w] = None]
        /\ \/ pc[w] = "select" /\ (NoMoreFiles \/ cancelled)
           \/ pc[w] = "send" /\ cancelled
        /\ UNCHANGED <<broken, pending, files, fed, out, closed, collected, done, cancelled>>
    BY <1>7 DEF WorkerReturns, Go
  <2>2. ToSet(out)' = ToSet(out) /\ Parsed' = Parsed /\ ToSet(files)' = ToSet(files)
    BY <2>1 DEF ToSet, Parsed
  <2>3. InHands' = InHands \ {held[w]}
    <3>1. InHands' = (InHands \ {held[w]}) \cup ({None} \ {None})
      BY <2>1, HandsChange
    <3>2. QED
      BY <3>1
  <2>4. ~cancelled => held[w] = None /\ InHands' = InHands
    BY <2>1, <2>3 DEF StagesInv, InHands
  <2>5. \A v, u \in Worker : held'[v] = held'[u] /\ held'[v] # None => v = u
    BY <1>0, <2>1 DEF PoolInv
  <2>6. \A v \in Worker : /\ pc'[v] \in {"parse", "send"} => held'[v] # None
                          /\ pc'[v] = "send" => held'[v] \notin broken
    BY <1>0, <2>1 DEF PoolInv
  <2>7. PoolInv'
    BY <2>1, <2>2, <2>3, <2>5, <2>6 DEF PoolInv, NoDoubles
  <2>8. \A v \in Worker : /\ pc'[v] = "exit" => NoMoreFiles \/ cancelled
                          /\ pc'[v] \in {"select", "exit"} => held'[v] = None
                          /\ pc[v] = "exit" => pc'[v] = "exit"
    BY <1>0, <2>1 DEF StagesInv
  <2>9. StagesInv'
    BY <2>1, <2>2, <2>4, <2>8 DEF StagesInv, NoMoreFiles, AllExited
  <2>10. QED
    BY <2>7, <2>9
<1>8. QED
  BY <1>1, <1>2, <1>3, <1>4, <1>5, <1>6, <1>7 DEF PoolNext, Feeder, Work, Caller
\* Before the pool starts, the feeder or the channel has every file.
LEMMA PoolInit ==
  ASSUME Init
  PROVE  TypeOK /\ PoolInv /\ StagesInv
<1>1. /\ InHands = {} /\ ToSet(out) = {} /\ Parsed = {} /\ \A f \in File : collected[f] = 0
      /\ out = <<>> /\ None \notin File
      /\ \A w \in Worker : held[w] = None /\ pc[w] = "select"
      /\ broken \subseteq File /\ fed \in BOOLEAN /\ closed = FALSE /\ done = FALSE /\ cancelled = FALSE
      /\ NoDoubles(out)
  BY PoolAssumption DEF Init, InHands, ToSet, Parsed, NoDoubles
<1>2. /\ pending \subseteq File /\ files \in Seq(File) /\ NoDoubles(files)
      /\ fed => pending = {} /\ ToSet(files) = File
      /\ ~fed => pending = File /\ ToSet(files) = {}
  <2>1. CASE ~fed
    BY <2>1 DEF Init, Concurrent, NoDoubles, ToSet
  <2>2. CASE fed
    <3> DEFINE N == Cardinality(File)
    <3>1. N \in Nat /\ IsFiniteSet(File)
      BY PoolAssumption, FS_CardinalityType
    <3>2. /\ pending = {} /\ files \in [1..N -> File] /\ DOMAIN files = 1..N
          /\ \A i, j \in 1..N : files[i] = files[j] => i = j
      BY <2>2 DEF Init, Prefilled
    <3>3. Cardinality(1..N) = N
      <4> HIDE DEF N
      <4>1. Cardinality(1..N) = IF 1 > N THEN 0 ELSE N - 1 + 1
        BY <3>1, FS_Interval
      <4>2. QED
        BY <3>1, <4>1
    <3>4. files \in Injection(1..N, File)
      BY <3>2 DEF Injection, IsInjective
    <3>5. files \in Surjection(1..N, File)
      <4>1. Cardinality(1..N) = Cardinality(File) <=> files \in Surjection(1..N, File)
        BY <3>1, <3>4, FS_Injection
      <4>2. QED
        BY <3>3, <4>1
    <3> HIDE DEF N
    <3>6. ToSet(files) = File
      BY <3>2, <3>5 DEF ToSet, Surjection
    <3>7. files \in Seq(File)
      BY <3>1, <3>2
    <3>8. QED
      BY <2>2, <3>2, <3>6, <3>7 DEF NoDoubles
  <2>3. QED
    BY <2>1, <2>2
<1>3. TypeOK
  <2>1. Len(out) <= OutCap
    BY <1>1, PoolAssumption
  <2>2. /\ collected \in [File -> Nat]
        /\ pc \in [Worker -> {"select", "parse", "send", "exit"}] /\ held \in [Worker -> File \cup {None}]
    BY DEF Init
  <2>3. out \in Seq(File)
    BY <1>1
  <2>4. pending \subseteq File /\ files \in Seq(File)
    BY <1>2
  <2>5. QED
    BY <1>1, <2>1, <2>2, <2>3, <2>4 DEF TypeOK
<1>4. PoolInv
  BY <1>1, <1>2 DEF PoolInv
<1>5. StagesInv
  <2>1. ~AllExited
    BY <1>1, PoolAssumption DEF AllExited
  <2>2. File \subseteq pending \cup ToSet(files)
    BY <1>1, <1>2
  <2>3. QED
    BY <1>1, <1>2, <2>1, <2>2 DEF StagesInv
<1>6. QED
  BY <1>3, <1>4, <1>5

\* What the pool is in every state of the resolver's specification.
LEMMA PoolInvariant == ResolverSpec => [](TypeOK /\ PoolInv /\ StagesInv)
<1>1. ResolverInit => TypeOK /\ PoolInv /\ StagesInv
  BY PoolInit DEF ResolverInit
<1>2. TypeOK /\ PoolInv /\ StagesInv /\ [ResolverNext]_allVars => (TypeOK /\ PoolInv /\ StagesInv)'
  <2> SUFFICES ASSUME TypeOK, PoolInv, StagesInv, [ResolverNext]_allVars
               PROVE  TypeOK' /\ PoolInv' /\ StagesInv'
    OBVIOUS
  <2>1. PoolNext \/ UNCHANGED vars
    <3>1. CASE UNCHANGED allVars
      BY <3>1 DEF allVars
    <3>2. ASSUME Caller2 \/ CloseEdges \/ \E f \in File : Register(f) \/ ResolveRef(f) PROVE UNCHANGED vars
      BY <3>2 DEF Caller2, CloseEdges, StartResolve, StartPassTwo, CollectEdge, ResolveReturns, Register, ResolveRef
    <3>3. QED
      BY <3>1, <3>2 DEF ResolverNext, Goroutine, PoolNext
  <2>2. CASE PoolNext
    BY <2>2, PoolTypes, PoolStep
  <2>3. CASE UNCHANGED vars
    BY <2>3 DEF vars, TypeOK, PoolInv, StagesInv, NoDoubles, InHands, ToSet, Parsed, NoMoreFiles, AllExited
  <2>4. QED
    BY <2>1, <2>2, <2>3
<1>3. QED
  BY <1>1, <1>2, PTL DEF ResolverSpec

\* No worker is at its send when the output channel has been closed: the
\* closing goroutine waits for all of them (pool.go:97-110).
THEOREM NoSendAfterClose == ResolverSpec => []NoPanic
<1>1. TypeOK /\ PoolInv /\ StagesInv => NoPanic
  BY DEF StagesInv, NoPanic, AllExited
<1>2. QED
  BY <1>1, PoolInvariant, PTL

\* When the caller has seen the end of the output it has every file that can be
\* parsed, and has it once, for any number of files, workers and places in the
\* channels (pool.go:78-103, analyze.go:376-392).
THEOREM FilesArriveOnce == ResolverSpec => []EveryFileOnce
<1>1. TypeOK /\ PoolInv /\ StagesInv => EveryFileOnce
  <2> SUFFICES ASSUME TypeOK, PoolInv, StagesInv, done
               PROVE  /\ \A f \in File : collected[f] <= 1
                      /\ Parsed \subseteq File \ broken
                      /\ ~cancelled => Parsed = File \ broken
    BY DEF EveryFileOnce
  <2>1. AllExited /\ out = <<>> /\ ToSet(out) = {}
    BY DEF StagesInv, ToSet
  <2>2. (\A f \in File : collected[f] <= 1) /\ Parsed \subseteq File \ broken
    BY DEF PoolInv, Parsed
  <2>3. ASSUME ~cancelled PROVE File \ broken \subseteq Parsed
    <3>1. PICK w \in Worker : pc[w] = "exit"
      BY <2>1, PoolAssumption DEF AllExited
    <3>2. NoMoreFiles
      BY <2>3, <3>1 DEF StagesInv
    <3>3. pending = {} /\ ToSet(files) = {}
      BY <3>2 DEF StagesInv, NoMoreFiles, ToSet
    <3>4. InHands = {}
      BY <2>1 DEF StagesInv, AllExited, InHands
    <3>5. QED
      BY <2>1, <2>3, <3>3, <3>4 DEF StagesInv
  <2>4. QED
    BY <2>2, <2>3
<1>2. QED
  BY <1>1, PoolInvariant, PTL
-----------------------------------------------------------------------------
(* What the extraction takes from a tree.                                  *)

\* A set of numbers has a least one.
LEMMA LeastNumber ==
  ASSUME NEW S \in SUBSET Nat, S # {}
  PROVE  \E m \in S : \A k \in S : m <= k
<1> DEFINE R == OpToRel(<, Nat)
<1>1. IsWellFoundedOn(R, Nat)
  BY NatLessThanWellFounded
<1>2. \A x, y \in Nat : x < y => <<x, y>> \in R
  BY DEF OpToRel
<1> HIDE DEF R
<1>3. PICK m \in S : \A k \in S : ~ (<<k, m>> \in R)
  BY <1>1, WFMin
<1>4. ASSUME NEW k \in S PROVE m <= k
  <2>1. ~ (k < m)
    BY <1>2, <1>3
  <2>2. QED
    BY <2>1
<1>5. QED
  BY <1>4

LEMMA MinOf ==
  ASSUME NEW S \in SUBSET Nat, S # {}
  PROVE  Min(S) \in S
<1>1. \E m \in S : \A k \in S : m <= k
  BY LeastNumber
<1>2. QED
  BY <1>1 DEF Min

\* A set of numbers up to n has a greatest one.
LEMMA MaxOf ==
  ASSUME NEW n \in Nat, NEW S \in SUBSET (0 .. n), S # {}
  PROVE  Max(S) \in S
<1> DEFINE T == { k \in 0 .. n : n - k \in S }
<1>1. T \in SUBSET Nat
  OBVIOUS
<1>2. T # {}
  <2>1. PICK s \in S : TRUE
    OBVIOUS
  <2>2. s \in 0 .. n /\ n - s \in 0 .. n /\ n - (n - s) = s
    OBVIOUS
  <2>3. n - s \in T
    BY <2>1, <2>2
  <2>4. QED
    BY <2>3
<1>3. PICK m \in T : \A k \in T : m <= k
  BY <1>1, <1>2, LeastNumber
<1>4. n - m \in S
  BY <1>3
<1>5. ASSUME NEW s \in S PROVE n - m >= s
  <2>1. s \in 0 .. n /\ n - s \in 0 .. n /\ n - (n - s) = s
    OBVIOUS
  <2>2. n - s \in T
    BY <1>5, <2>1
  <2>3. m <= n - s /\ m \in 0 .. n
    BY <1>3, <2>2
  <2>4. QED
    BY <2>1, <2>3
<1>6. QED
  BY <1>4, <1>5 DEF Max

\* SetToSeq has the elements of a finite set.
LEMMA SequenceOfSet ==
  ASSUME NEW S, IsFiniteSet(S)
  PROVE  SetToSeq(S) \in Seq(S) /\ ToSet(SetToSeq(S)) = S
<1> DEFINE n == Cardinality(S)
<1>1. n \in Nat
  BY FS_CardinalityType
<1>2. PICK b : b \in Bijection(1 .. n, S)
  BY FS_CardinalityType DEF ExistsBijection
<1>3. b \in [1 .. n -> S] /\ IsInjective(b)
  BY <1>2 DEF Bijection, Injection
<1>4. SetToSeq(S) \in [1 .. n -> S] /\ IsInjective(SetToSeq(S))
  BY <1>3 DEF SetToSeq
<1>5. SetToSeq(S) \in Injection(1 .. n, S)
  BY <1>4 DEF Injection
<1>6. Cardinality(1 .. n) = n
  <2> HIDE DEF n
  <2>1. Cardinality(1..n) = IF 1 > n THEN 0 ELSE n - 1 + 1
    BY <1>1, FS_Interval
  <2>2. QED
    BY <1>1, <2>1
<1>7. SetToSeq(S) \in Surjection(1 .. n, S)
  <2>1. Cardinality(1 .. n) = Cardinality(S) <=> SetToSeq(S) \in Surjection(1 .. n, S)
    BY <1>5, FS_Injection
  <2>2. QED
    BY <1>6, <2>1
<1> HIDE DEF n
<1>8. QED
  BY <1>1, <1>4, <1>7 DEF ToSet, Surjection

\* A set with 0 and, with each number, the next one, is that of all numbers.
LEMMA NumbersFromZero ==
  ASSUME NEW S, 0 \in S, \A n \in Nat : n \in S => n + 1 \in S
  PROVE  Nat \subseteq S
<1> SUFFICES ASSUME Nat \ S # {} PROVE FALSE
  OBVIOUS
<1>1. PICK m \in Nat \ S : \A k \in Nat \ S : m <= k
  BY LeastNumber
<1>2. m - 1 \in Nat /\ m - 1 \in S
  BY <1>1
<1>3. m - 1 + 1 \in S
  BY <1>2
<1>4. QED
  BY <1>3

\* The indices around each node of a tree are those around its parent, and its
\* parent: the recursive function of Around is well defined.
IsAbove(f, tree, n) ==
  f = [j \in 0 .. n |-> IF j = 0 THEN {} ELSE f[tree[j].parent] \cup ({tree[j].parent} \ {0})]

Aboves(tree) == CHOOSE f : IsAbove(f, tree, Len(tree))

LEMMA AroundIsAbove ==
  ASSUME NEW tree, NEW i PROVE Around(tree, i) = Aboves(tree)[i]
BY DEF Around, Aboves, IsAbove

LEMMA AbovesExist ==
  ASSUME NEW tree, IsTree(tree)
  PROVE  IsAbove(Aboves(tree), tree, Len(tree))
<1> DEFINE S == { n \in Nat : n <= Len(tree) => \E f : IsAbove(f, tree, n) }
<1>1. Len(tree) \in Nat /\ DOMAIN tree = 1 .. Len(tree) /\ \A j \in 1 .. Len(tree) : tree[j].parent \in 0 .. j - 1
  BY DEF IsTree
<1>2. 0 \in S
  <2>1. IsAbove([j \in 0 .. 0 |-> {}], tree, 0)
    BY DEF IsAbove
  <2>2. QED
    BY <2>1
<1>3. ASSUME NEW n \in Nat, n \in S PROVE n + 1 \in S
  <2> SUFFICES ASSUME n + 1 <= Len(tree) PROVE \E f : IsAbove(f, tree, n + 1)
    OBVIOUS
  <2>1. PICK g : IsAbove(g, tree, n)
    BY <1>1, <1>3
  <2> DEFINE new == g[tree[n + 1].parent] \cup ({tree[n + 1].parent} \ {0})
             f == [j \in 0 .. n + 1 |-> IF j = n + 1 THEN new ELSE g[j]]
  <2>2. tree[n + 1].parent \in 0 .. n
    BY <1>1
  <2>3. \A j \in 0 .. n : j # n + 1 /\ j \in 0 .. n + 1
    OBVIOUS
  <2>4. \A j \in 0 .. n : g[j] = IF j = 0 THEN {} ELSE g[tree[j].parent] \cup ({tree[j].parent} \ {0})
    BY <2>1 DEF IsAbove
  <2>5. \A j \in 0 .. n : j # 0 => tree[j].parent \in 0 .. n
    BY <1>1
  <2>6. f[n + 1] = new /\ \A j \in 0 .. n : f[j] = g[j]
    BY <2>3
  <2> HIDE DEF f
  <2>7. \A j \in 0 .. n + 1 :
          f[j] = IF j = 0 THEN {} ELSE f[tree[j].parent] \cup ({tree[j].parent} \ {0})
    <3> SUFFICES ASSUME NEW j \in 0 .. n + 1
                 PROVE  f[j] = IF j = 0 THEN {} ELSE f[tree[j].parent] \cup ({tree[j].parent} \ {0})
      OBVIOUS
    <3>1. CASE j = n + 1
      <4>1. f[tree[n + 1].parent] = g[tree[n + 1].parent]
        BY <2>2, <2>6
      <4>2. f[n + 1] = f[tree[n + 1].parent] \cup ({tree[n + 1].parent} \ {0})
        BY <2>6, <4>1
      <4>3. j # 0
        BY <3>1
      <4>4. QED
        BY <3>1, <4>2, <4>3
    <3>2. CASE j # n + 1
      <4>1. j \in 0 .. n
        BY <3>2
      <4>2. QED
        BY <2>4, <2>5, <2>6, <4>1
    <3>3. QED
      BY <3>1, <3>2
  <2>8. f = [j \in 0 .. n + 1 |-> f[j]]
    BY DEF f
  <2>9. f = [j \in 0 .. n + 1 |->
               IF j = 0 THEN {} ELSE f[tree[j].parent] \cup ({tree[j].parent} \ {0})]
    BY <2>7, <2>8
  <2>10. QED
    BY <2>9 DEF IsAbove
<1> HIDE DEF S
<1>4. Nat \subseteq S
  BY <1>2, <1>3, NumbersFromZero
<1>5. Len(tree) \in S
  BY <1>1, <1>4
<1>6. \E f : IsAbove(f, tree, Len(tree))
  BY <1>1, <1>5 DEF S
<1>7. QED
  BY <1>6 DEF Aboves

LEMMA AroundUnfolds ==
  ASSUME NEW tree, IsTree(tree)
  PROVE  \A i \in DOMAIN tree :
           /\ tree[i].parent = 0 => Around(tree, i) = {}
           /\ tree[i].parent # 0 => Around(tree, i) = Around(tree, tree[i].parent) \cup {tree[i].parent}
           /\ Around(tree, i) \subseteq 1 .. i - 1
<1>1. Len(tree) \in Nat /\ DOMAIN tree = 1 .. Len(tree) /\ \A j \in 1 .. Len(tree) : tree[j].parent \in 0 .. j - 1
  BY DEF IsTree
<1> DEFINE f == Aboves(tree)
<1>8. IsAbove(f, tree, Len(tree))
  BY AbovesExist
<1> HIDE DEF f
<1>2. \A j \in 0 .. Len(tree) :
        f[j] = IF j = 0 THEN {} ELSE f[tree[j].parent] \cup ({tree[j].parent} \ {0})
  BY <1>8 DEF IsAbove
<1>3. ASSUME NEW j \in 1 .. Len(tree) PROVE f[j] = f[tree[j].parent] \cup ({tree[j].parent} \ {0})
  <2>1. j \in 0 .. Len(tree) /\ j # 0
    BY <1>1
  <2>2. f[j] = IF j = 0 THEN {} ELSE f[tree[j].parent] \cup ({tree[j].parent} \ {0})
    BY <1>2, <2>1
  <2>3. QED
    BY <2>1, <2>2
<1>4. f[0] = {}
  <2>1. 0 \in 0 .. Len(tree)
    BY <1>1
  <2>2. f[0] = IF 0 = 0 THEN {} ELSE f[tree[0].parent] \cup ({tree[0].parent} \ {0})
    BY <1>2, <2>1
  <2>3. QED
    BY <2>2
<1> DEFINE S == { n \in Nat : \A j \in 1 .. Len(tree) : j <= n => f[j] \subseteq 1 .. j - 1 }
<1>5. Nat \subseteq S
  <2>1. 0 \in S
    BY <1>1
  <2>2. ASSUME NEW n \in Nat, n \in S PROVE n + 1 \in S
    <3> SUFFICES ASSUME NEW j \in 1 .. Len(tree), j <= n + 1 PROVE f[j] \subseteq 1 .. j - 1
      OBVIOUS
    <3>1. tree[j].parent \in 0 .. j - 1 /\ f[j] = f[tree[j].parent] \cup ({tree[j].parent} \ {0})
      BY <1>1, <1>3
    <3>2. CASE tree[j].parent = 0
      BY <1>4, <3>1, <3>2
    <3>3. CASE tree[j].parent # 0
      <4>1. tree[j].parent \in 1 .. Len(tree) /\ tree[j].parent <= n
        BY <1>1, <3>1, <3>3
      <4>2. f[tree[j].parent] \subseteq 1 .. tree[j].parent - 1
        BY <2>2, <4>1
      <4>3. QED
        BY <1>1, <3>1, <3>3, <4>2
    <3>4. QED
      BY <3>2, <3>3
  <2> HIDE DEF S
  <2>3. QED
    BY <2>1, <2>2, NumbersFromZero
<1>6. \A j \in 1 .. Len(tree) : f[j] \subseteq 1 .. j - 1
  <2>1. Len(tree) \in S
    BY <1>1, <1>5
  <2>2. QED
    BY <1>1, <2>1
<1>7. \A i \in 0 .. Len(tree) : Around(tree, i) = f[i]
  BY AroundIsAbove DEF f
<1>9. QED
  <2> SUFFICES ASSUME NEW i \in 1 .. Len(tree)
               PROVE  /\ tree[i].parent = 0 => Around(tree, i) = {}
                      /\ tree[i].parent # 0 => Around(tree, i) = Around(tree, tree[i].parent) \cup {tree[i].parent}
                      /\ Around(tree, i) \subseteq 1 .. i - 1
    BY <1>1
  <2>1. i \in 0 .. Len(tree) /\ tree[i].parent \in 0 .. Len(tree)
    BY <1>1
  <2>2. Around(tree, i) = f[i] /\ Around(tree, tree[i].parent) = f[tree[i].parent]
    BY <1>7, <2>1
  <2>3. QED
    BY <1>3, <1>4, <1>6, <2>2

\* What is around a node around i is around i, so that the walk visits what is
\* around what it visits.
LEMMA AroundTransitive ==
  ASSUME NEW tree, IsTree(tree), NEW i \in DOMAIN tree, NEW j \in Around(tree, i)
  PROVE  j \in DOMAIN tree /\ Around(tree, j) \subseteq Around(tree, i)
<1>1. Len(tree) \in Nat /\ DOMAIN tree = 1 .. Len(tree) /\ \A k \in 1 .. Len(tree) : tree[k].parent \in 0 .. k - 1
  BY DEF IsTree
<1> DEFINE Closed(k) == \A l \in Around(tree, k) : Around(tree, l) \subseteq Around(tree, k)
           S == { n \in Nat : \A k \in 1 .. Len(tree) : k <= n => Closed(k) }
<1>2. 0 \in S
  BY <1>1
<1>3. ASSUME NEW n \in Nat, n \in S PROVE n + 1 \in S
  <2> SUFFICES ASSUME NEW k \in 1 .. Len(tree), k <= n + 1 PROVE Closed(k)
    OBVIOUS
  <2> DEFINE up == tree[k].parent
  <2>1. /\ up = 0 => Around(tree, k) = {}
        /\ up # 0 => Around(tree, k) = Around(tree, up) \cup {up}
    BY <1>1, AroundUnfolds
  <2>2. CASE up = 0
    BY <2>1, <2>2
  <2>3. CASE up # 0
    <3>1. up \in 1 .. Len(tree) /\ up <= n
      BY <1>1, <2>3
    <3>2. Closed(up)
      BY <1>3, <3>1
    <3> HIDE DEF up
    <3>3. QED
      BY <2>1, <2>3, <3>2
  <2>4. QED
    BY <2>2, <2>3
<1> HIDE DEF S
<1>4. Len(tree) \in S
  BY <1>1, <1>2, <1>3, NumbersFromZero
<1>5. Closed(i)
  BY <1>1, <1>4 DEF S
<1>6. Around(tree, i) \subseteq 1 .. i - 1
  BY AroundUnfolds
<1>7. QED
  BY <1>1, <1>5, <1>6

LEMMA AroundIsDeclared ==
  ASSUME NEW lang, NEW tree, IsTree(tree), NEW i \in Declared(lang, tree), NEW j \in Around(tree, i)
  PROVE  HasCase(lang, tree[j]) => j \in Declared(lang, tree)
<1>1. i \in DOMAIN tree /\ \A up \in Around(tree, i) : ~Returns(lang, tree[up])
  BY DEF Declared, Walked
<1>2. j \in DOMAIN tree /\ Around(tree, j) \subseteq Around(tree, i)
  BY <1>1, AroundTransitive
<1>3. QED
  BY <1>1, <1>2 DEF Declared, Walked

\* A class that currentClassUID names is a declared one around the node.
LEMMA ClassIsDeclared ==
  ASSUME NEW lang \in DOMAIN extractor, NEW tree, IsTree(tree), NEW i \in Declared(lang, tree),
         CurrentClass(lang, tree, i) # 0
  PROVE  CurrentClass(lang, tree, i) \in Around(tree, i) \cap Declared(lang, tree)
<1> DEFINE classes == { j \in Around(tree, i) : tree[j].kind = "class" }
<1>1. lang = "typescript" /\ classes # {} /\ CurrentClass(lang, tree, i) = Max(classes)
  BY DEF CurrentClass
<1>2. i \in DOMAIN tree /\ i \in Nat /\ DOMAIN tree = 1 .. Len(tree) /\ Len(tree) \in Nat
  BY DEF Declared, Walked, IsTree
<1>3. classes \in SUBSET (0 .. i)
  <2>1. Around(tree, i) \subseteq 1 .. i - 1
    BY <1>2, AroundUnfolds
  <2>2. QED
    BY <1>2, <2>1
<1>4. Max(classes) \in classes
  <2> HIDE DEF classes
  <2>1. QED
    BY <1>1, <1>2, <1>3, MaxOf
<1>5. HasCase(lang, tree[Max(classes)])
  BY <1>1, <1>4 DEF HasCase, extractor, extractTS
<1>6. QED
  BY <1>1, <1>4, <1>5, AroundIsDeclared

\* A set whose elements are values of a function on a finite set is finite.
LEMMA FiniteValues ==
  ASSUME NEW D, IsFiniteSet(D), NEW g, NEW S, \A s \in S : \E d \in D : g[d] = s
  PROVE  IsFiniteSet(S)
<1> DEFINE E == { d \in D : g[d] \in S }
           h == [d \in E |-> g[d]]
<1>1. IsFiniteSet(E)
  BY FS_Subset
<1>2. h \in Surjection(E, S)
  BY DEF Surjection
<1> HIDE DEF h, E
<1>3. QED
  BY <1>1, <1>2, FS_Surjection

\* The references of a text.
CallRefs(file, lang, tree) == UNION { extractCalls(file, lang, tree, i) : i \in Bodies(lang, tree) }
AllRefs(file, lang, tree) ==
  MemberRefs(file, lang, tree) \cup extractHeritage(file, lang, tree) \cup CallRefs(file, lang, tree)

\* Refs has all of them.
LEMMA RefsOf ==
  ASSUME NEW file, NEW lang, NEW tree, IsTree(tree)
  PROVE  /\ Refs(file, lang, tree) \in Seq(AllRefs(file, lang, tree))
         /\ ToSet(Refs(file, lang, tree)) = AllRefs(file, lang, tree)
<1> DEFINE members == MemberRefs(file, lang, tree)
           rest == extractHeritage(file, lang, tree) \cup CallRefs(file, lang, tree)
<1>1. DOMAIN tree = 1 .. Len(tree) /\ Len(tree) \in Nat /\ IsFiniteSet(DOMAIN tree)
  BY FS_Interval DEF IsTree
<1>2. IsFiniteSet(members)
  <2> DEFINE g == [i \in DOMAIN tree |-> Ref(NodeUID(file, lang, tree, i), "MEMBER_OF", "", "",
                                           NodeUID(file, lang, tree, CurrentClass(lang, tree, i)))]
  <2>1. \A s \in members : \E i \in DOMAIN tree : g[i] = s
    BY DEF MemberRefs, Declared, Walked
  <2> HIDE DEF g
  <2>2. QED
    BY <1>1, <2>1, FiniteValues
<1>3. IsFiniteSet(extractHeritage(file, lang, tree))
  <2> DEFINE g == [i \in DOMAIN tree |->
                     Ref(NodeUID(file, lang, tree, tree[i].parent),
                         IF tree[i].kind = "extends" THEN "EXTENDS" ELSE "IMPLEMENTS",
                         tree[i].name, "plain", "")]
  <2>1. \A s \in extractHeritage(file, lang, tree) : \E i \in DOMAIN tree : g[i] = s
    BY DEF extractHeritage
  <2> HIDE DEF g
  <2>2. QED
    BY <1>1, <2>1, FiniteValues
<1>4. IsFiniteSet(CallRefs(file, lang, tree))
  <2> DEFINE N == DOMAIN tree
             D == N \X N
             g == [p \in D |-> Ref(NodeUID(file, lang, tree, p[1]), "CALLS", tree[p[2]].name, tree[p[2]].of, "")]
  <2>1. IsFiniteSet(D)
    <3>1. \A T : IsFiniteSet(T) => IsFiniteSet(T \X T)
      BY FS_Product, Zenon
    <3>2. IsFiniteSet(N)
      BY <1>1
    <3> HIDE DEF N
    <3>3. QED
      BY <3>1, <3>2
  <2>2. ASSUME NEW s \in CallRefs(file, lang, tree) PROVE \E p \in D : g[p] = s
    <3>1. PICK i \in Bodies(lang, tree) : s \in extractCalls(file, lang, tree, i)
      BY <2>2 DEF CallRefs
    <3>2. PICK j \in DOMAIN tree : s = Ref(NodeUID(file, lang, tree, i), "CALLS", tree[j].name, tree[j].of, "")
      BY <3>1 DEF extractCalls
    <3>3. i \in DOMAIN tree
      BY DEF Bodies, Declared, Walked
    <3>4. <<i, j>> \in D /\ <<i, j>>[1] = i /\ <<i, j>>[2] = j
      <4>1. i \in N /\ j \in N
        BY <3>3
      <4> HIDE DEF N
      <4>2. QED
        BY <4>1
    <3>5. g[<<i, j>>] = s
      BY <3>2, <3>4
    <3>6. QED
      BY <3>4, <3>5
  <2> HIDE DEF g, D
  <2>3. QED
    BY <2>1, <2>2, FiniteValues
<1>5. IsFiniteSet(rest)
  BY <1>3, <1>4, FS_Union
<1>6. /\ SetToSeq(members) \in Seq(members) /\ ToSet(SetToSeq(members)) = members
      /\ SetToSeq(rest) \in Seq(rest) /\ ToSet(SetToSeq(rest)) = rest
  BY <1>2, <1>5, SequenceOfSet
<1>7. Refs(file, lang, tree) = SetToSeq(members) \o SetToSeq(rest)
  BY DEF Refs, CallRefs
<1>8. AllRefs(file, lang, tree) = members \cup rest
  BY DEF AllRefs
<1> HIDE DEF members, rest
<1> DEFINE s == SetToSeq(members)
           t == SetToSeq(rest)
<1>9. s \in Seq(members \cup rest) /\ t \in Seq(members \cup rest)
  BY <1>6
<1> HIDE DEF s, t
<1>10. /\ s \o t \in Seq(members \cup rest) /\ DOMAIN (s \o t) = 1 .. Len(s) + Len(t)
       /\ \A i \in 1 .. Len(s) + Len(t) : (s \o t)[i] = IF i <= Len(s) THEN s[i] ELSE t[i - Len(s)]
       /\ Len(s) \in Nat /\ Len(t) \in Nat /\ DOMAIN s = 1 .. Len(s) /\ DOMAIN t = 1 .. Len(t)
  BY <1>9, ConcatProperties
<1>11. ToSet(s) \cup ToSet(t) \subseteq ToSet(s \o t)
  <2>1. ASSUME NEW i \in 1 .. Len(s) PROVE s[i] \in ToSet(s \o t)
    <3>1. i \in 1 .. Len(s) + Len(t) /\ (s \o t)[i] = s[i]
      BY <1>10
    <3>2. QED
      BY <1>10, <3>1 DEF ToSet
  <2>2. ASSUME NEW i \in 1 .. Len(t) PROVE t[i] \in ToSet(s \o t)
    <3>1. Len(s) + i \in 1 .. Len(s) + Len(t) /\ ~ (Len(s) + i <= Len(s)) /\ Len(s) + i - Len(s) = i
      BY <1>10
    <3>2. (s \o t)[Len(s) + i] = t[i]
      BY <1>10, <3>1
    <3>3. QED
      BY <1>10, <3>1, <3>2 DEF ToSet
  <2>3. QED
    BY <1>10, <2>1, <2>2 DEF ToSet
<1>12. ToSet(s \o t) \subseteq ToSet(s) \cup ToSet(t)
  <2>1. ASSUME NEW i \in 1 .. Len(s) + Len(t) PROVE (s \o t)[i] \in ToSet(s) \cup ToSet(t)
    <3>1. CASE i <= Len(s)
      <4>1. i \in DOMAIN s /\ (s \o t)[i] = s[i]
        BY <1>10, <3>1
      <4>2. QED
        BY <4>1 DEF ToSet
    <3>2. CASE ~ (i <= Len(s))
      <4>1. i - Len(s) \in DOMAIN t /\ (s \o t)[i] = t[i - Len(s)]
        BY <1>10, <3>2
      <4>2. QED
        BY <4>1 DEF ToSet
    <3>3. QED
      BY <3>1, <3>2
  <2>2. QED
    BY <1>10, <2>1 DEF ToSet
<1>13. ToSet(s \o t) = ToSet(s) \cup ToSet(t) /\ ToSet(s) = members /\ ToSet(t) = rest
  BY <1>6, <1>11, <1>12 DEF s, t
<1>14. QED
  BY <1>7, <1>8, <1>10, <1>13 DEF s, t

\* The files are one of their texts each, from the first pass on.
TextsChosen == \A f \in File : source[f] \in DOMAIN Sources[f]

LEMMA SymbolsOf ==
  ASSUME TextsChosen, NEW f \in File
  PROVE  /\ IsTree(Text(f).tree) /\ Text(f).lang \in DOMAIN extractor
         /\ DeclaredIn(f) = Declared(Text(f).lang, Text(f).tree)
         /\ DeclaredIn(f) \subseteq DOMAIN Text(f).tree /\ DeclaredIn(f) \subseteq Nat
         /\ \A i \in DeclaredIn(f) : UID(f, i) = NodeUID(f, Text(f).lang, Text(f).tree, i)
         /\ Symbols(f).refs = Refs(f, Text(f).lang, Text(f).tree)
<1>1. source[f] \in DOMAIN Sources[f]
  BY DEF TextsChosen
<1>2. IsTree(Text(f).tree) /\ Text(f).lang \in DOMAIN extractor
  BY <1>1, ResolverAssumption DEF Text
<1>3. Symbols(f) = [nodes |-> Declared(Text(f).lang, Text(f).tree),
                    uid |-> [i \in Declared(Text(f).lang, Text(f).tree) |->
                               NodeUID(f, Text(f).lang, Text(f).tree, i)],
                    refs |-> Refs(f, Text(f).lang, Text(f).tree)]
  BY <1>1 DEF Symbols, Extracted, Text
<1>4. /\ DeclaredIn(f) = Declared(Text(f).lang, Text(f).tree)
      /\ \A i \in DeclaredIn(f) : UID(f, i) = NodeUID(f, Text(f).lang, Text(f).tree, i)
      /\ Symbols(f).refs = Refs(f, Text(f).lang, Text(f).tree)
  BY <1>3 DEF DeclaredIn, UID
<1>5. DOMAIN Text(f).tree = 1 .. Len(Text(f).tree) /\ Len(Text(f).tree) \in Nat
  BY <1>2 DEF IsTree
<1>6. DeclaredIn(f) \subseteq DOMAIN Text(f).tree
  BY <1>4 DEF Declared, Walked
<1>7. DOMAIN Text(f).tree \subseteq Nat
  BY <1>5
<1>8. QED
  BY <1>2, <1>4, <1>6, <1>7

\* A candidate is a file and one of its symbols.
LEMMA CandidateIs ==
  ASSUME NEW some, NEW name, NEW c
  PROVE  c \in Candidates(some, name) <=>
           /\ c = <<c[1], c[2]>> /\ c[1] \in some
           /\ c[2] \in DeclaredIn(c[1]) /\ Text(c[1]).tree[c[2]].name = name
<1>1. \A f \in some : c \in {f} \X { i \in DeclaredIn(f) : Text(f).tree[i].name = name } <=>
        /\ c = <<c[1], c[2]>> /\ c[1] = f
        /\ c[2] \in DeclaredIn(f) /\ Text(f).tree[c[2]].name = name
  OBVIOUS
<1>2. QED
  BY <1>1 DEF Candidates

\* The first of some candidates is one of them.
LEMMA FirstIsCandidate ==
  ASSUME TextsChosen, table \in Seq(File), NEW some \in SUBSET ToSet(table), NEW name,
         Candidates(some, name) # {}
  PROVE  First(Candidates(some, name)) \in Candidates(some, name)
<1> DEFINE candidates == Candidates(some, name)
           places == { i \in DOMAIN table : \E c \in candidates : c[1] = table[i] }
           file == table[Min(places)]
           symbols == { c[2] : c \in { x \in candidates : x[1] = file } }
<1>1. DOMAIN table = 1 .. Len(table) /\ Len(table) \in Nat /\ ToSet(table) \subseteq File
  BY DEF ToSet
<1>2. \A c \in candidates : c = <<c[1], c[2]>> /\ c[1] \in some /\ c[2] \in DeclaredIn(c[1])
  BY CandidateIs
<1>3. places \in SUBSET Nat /\ places # {}
  <2>1. PICK c \in candidates : TRUE
    OBVIOUS
  <2>2. PICK i \in DOMAIN table : table[i] = c[1]
    BY <1>2, <2>1 DEF ToSet
  <2>3. QED
    BY <1>1, <2>1, <2>2
<1>4. Min(places) \in places
  <2> HIDE DEF places
  <2>1. QED
    BY <1>3, MinOf
<1>5. PICK c \in candidates : c[1] = file
  BY <1>4
<1>6. symbols \in SUBSET Nat /\ symbols # {}
  <2>1. \A f \in File : DeclaredIn(f) \subseteq Nat
    BY SymbolsOf
  <2>2. QED
    BY <1>1, <1>2, <1>5, <2>1
<1>7. Min(symbols) \in symbols
  <2> HIDE DEF symbols
  <2>1. QED
    BY <1>6, MinOf
<1>8. PICK d \in candidates : d[1] = file /\ d[2] = Min(symbols)
  BY <1>7
<1>9. First(candidates) = <<file, Min(symbols)>>
  BY DEF First
<1>10. QED
  BY <1>2, <1>8, <1>9

\* The outcomes of a lookup, when every file is in the table, are what the name
\* means; it is surer than a guess of the only meaning.
LEMMA ResolveMeans ==
  ASSUME TextsChosen, table \in Seq(File), ToSet(table) = Parsed, NEW f \in Parsed, NEW name
  PROVE  /\ \A o \in Resolve(f, name) :
              /\ \E c \in Meanings(f, name) : o.to = UID(c[1], c[2]) /\ c[1] \in Parsed /\ c[2] \in DeclaredIn(c[1])
              /\ o.confidence \in {Guess, 75, 95}
              /\ o.confidence > Guess => Cardinality(Meanings(f, name)) = 1
         /\ Resolve(f, name) = {} => Meanings(f, name) = {}
<1> DEFINE own == Candidates(Parsed \cap {f}, name)
           near == Candidates(Parsed \cap SameDir(f), name)
           all == Candidates(Parsed, name)
           others == { Found(First(Candidates(Parsed \cap SameDir(c[1]), name)), Sure(all, 75)) : c \in all }
<1>0. /\ Resolve(f, name) = CASE own # {} -> { Found(First(own), Sure(own, 95)) }
                              [] own = {} /\ near # {} -> { Found(First(near), Sure(near, 95)) }
                              [] OTHER -> others
      /\ Meanings(f, name) = CASE own # {} -> own [] own = {} /\ near # {} -> near [] OTHER -> all
  BY Zenon DEF Resolve, Meanings
<1>1. /\ own # {} => Resolve(f, name) = { Found(First(own), Sure(own, 95)) } /\ Meanings(f, name) = own
      /\ own = {} /\ near # {} => Resolve(f, name) = { Found(First(near), Sure(near, 95)) } /\ Meanings(f, name) = near
      /\ own = {} /\ near = {} => Resolve(f, name) = others /\ Meanings(f, name) = all
  <2> HIDE DEF own, near, all, others
  <2>1. QED
    BY <1>0
<1>2. \A c \in own \cup near : c[1] \in Parsed /\ c[2] \in DeclaredIn(c[1])
  <2>1. \A some : \A c \in Candidates(Parsed \cap some, name) : c[1] \in Parsed /\ c[2] \in DeclaredIn(c[1])
    BY CandidateIs
  <2>2. QED
    BY <2>1
<1>3. /\ own # {} => First(own) \in own
      /\ near # {} => First(near) \in near
  BY FirstIsCandidate
<1>4. \A c \in all : First(Candidates(Parsed \cap SameDir(c[1]), name)) \in all
  <2> SUFFICES ASSUME NEW c \in all PROVE First(Candidates(Parsed \cap SameDir(c[1]), name)) \in all
    OBVIOUS
  <2> DEFINE some == Parsed \cap SameDir(c[1])
  <2>1. c = <<c[1], c[2]>> /\ c[1] \in Parsed /\ c[2] \in DeclaredIn(c[1]) /\ Text(c[1]).tree[c[2]].name = name
    BY CandidateIs
  <2>2. c[1] \in some
    BY <2>1 DEF SameDir, Parsed
  <2> HIDE DEF some
  <2>3. c \in Candidates(some, name)
    BY <2>1, <2>2, CandidateIs
  <2>4. some \in SUBSET ToSet(table)
    BY DEF some
  <2>5. First(Candidates(some, name)) \in Candidates(some, name)
    BY <2>3, <2>4, FirstIsCandidate
  <2>6. Candidates(some, name) \subseteq all
    BY CandidateIs DEF some
  <2>7. QED
    BY <2>5, <2>6 DEF some
<1>5. ASSUME NEW candidates, NEW d \in candidates, NEW n \in {75, 95}
      PROVE  /\ Found(d, Sure(candidates, n)).to = UID(d[1], d[2])
             /\ Found(d, Sure(candidates, n)).confidence \in {Guess, 75, 95}
             /\ Found(d, Sure(candidates, n)).confidence > Guess => Cardinality(candidates) = 1
  BY DEF Found, Sure, Guess
<1>6. \A c \in all : c[1] \in Parsed /\ c[2] \in DeclaredIn(c[1])
  BY CandidateIs
<1> HIDE DEF own, near, all
<1>7. CASE own # {}
  <2>1. Meanings(f, name) = own /\ Resolve(f, name) = { Found(First(own), Sure(own, 95)) } /\ First(own) \in own
    BY <1>1, <1>3, <1>7
  <2>2. /\ Found(First(own), Sure(own, 95)).to = UID(First(own)[1], First(own)[2])
        /\ Found(First(own), Sure(own, 95)).confidence \in {Guess, 75, 95}
        /\ Found(First(own), Sure(own, 95)).confidence > Guess => Cardinality(own) = 1
    BY <1>5, <2>1
  <2>3. QED
    BY <1>2, <2>1, <2>2
<1>8. CASE own = {} /\ near # {}
  <2>1. Meanings(f, name) = near /\ Resolve(f, name) = { Found(First(near), Sure(near, 95)) } /\ First(near) \in near
    BY <1>1, <1>3, <1>8
  <2>2. /\ Found(First(near), Sure(near, 95)).to = UID(First(near)[1], First(near)[2])
        /\ Found(First(near), Sure(near, 95)).confidence \in {Guess, 75, 95}
        /\ Found(First(near), Sure(near, 95)).confidence > Guess => Cardinality(near) = 1
    BY <1>5, <2>1
  <2>3. QED
    BY <1>2, <2>1, <2>2
<1>9. CASE own = {} /\ near = {}
  <2>1. Meanings(f, name) = all /\ Resolve(f, name) = others
    BY <1>1, <1>9
  <2>2. ASSUME NEW d \in all
        PROVE  /\ Found(d, Sure(all, 75)).to = UID(d[1], d[2])
               /\ Found(d, Sure(all, 75)).confidence \in {Guess, 75, 95}
               /\ Found(d, Sure(all, 75)).confidence > Guess => Cardinality(all) = 1
    BY <1>5
  <2>3. \A o \in others : \E d \in all : o = Found(d, Sure(all, 75))
    BY <1>4
  <2>4. others = {} => all = {}
    OBVIOUS
  <2> HIDE DEF others
  <2>5. QED
    BY <1>6, <2>1, <2>2, <2>3, <2>4
<1>10. QED
  BY <1>7, <1>8, <1>9

\* An edge of the right type, with a reason in the texts.
TypedEdge(e) ==
  /\ e.type \in {"CALLS", "EXTENDS", "IMPLEMENTS", "MEMBER_OF"}
  /\ e.confidence \in {Guess, 75, 95, 100}
  /\ e.from.file \in Parsed /\ e.to.file \in Parsed

RefsIn(f) == AllRefs(f, Text(f).lang, Text(f).tree)

LEMMA UidFile ==
  ASSUME NEW file, NEW lang, NEW tree, NEW i
  PROVE  NodeUID(file, lang, tree, i).file = file
BY Zenon DEF NodeUID

\* A lookup of a name that is written where the reference says.
LEMMA LookedUp ==
  ASSUME TextsChosen, table \in Seq(File), ToSet(table) = Parsed, NEW f \in Parsed,
         NEW i \in DeclaredIn(f), NEW type \in {"CALLS", "EXTENDS", "IMPLEMENTS"},
         NEW j \in Written(f, type, i),
         NEW ref, ref.from = UID(f, i), ref.type = type, ref.name = Text(f).tree[j].name,
         NEW o \in Resolve(f, ref.name)
  PROVE  Explained(Edge(ref, o)) /\ TypedEdge(Edge(ref, o))
<1> DEFINE e == Edge(ref, o)
           meant == Meanings(f, Text(f).tree[j].name)
<1>1. e.from = UID(f, i) /\ e.to = o.to /\ e.type = type /\ e.confidence = o.confidence
  BY DEF Edge
<1>2. PICK c \in meant : o.to = UID(c[1], c[2]) /\ c[1] \in Parsed /\ c[2] \in DeclaredIn(c[1])
  BY ResolveMeans
<1>3. o.confidence \in {Guess, 75, 95} /\ (o.confidence > Guess => Cardinality(meant) = 1)
  BY ResolveMeans
<1>4. o.to \in UIDs(meant)
  BY <1>2 DEF UIDs
<1>5. \A g \in Parsed : \A k \in DeclaredIn(g) : UID(g, k).file = g
  <2> SUFFICES ASSUME NEW g \in Parsed, NEW k \in DeclaredIn(g) PROVE UID(g, k).file = g
    OBVIOUS
  <2>1. UID(g, k) = NodeUID(g, Text(g).lang, Text(g).tree, k)
    BY SymbolsOf DEF Parsed
  <2>2. QED
    BY <2>1, UidFile
<1> HIDE DEF e, meant
<1>6. TypedEdge(e)
  BY <1>1, <1>2, <1>3, <1>5 DEF TypedEdge
<1>7. Explained(e)
  <2>1. e.to \in UIDs(meant) /\ (e.confidence > Guess => Cardinality(meant) = 1) /\ e.type # "MEMBER_OF"
    BY <1>1, <1>3, <1>4
  <2>2. \E k \in Written(f, e.type, i) :
          LET m == Meanings(f, Text(f).tree[k].name)
          IN  e.to \in UIDs(m) /\ (e.confidence > Guess => Cardinality(m) = 1)
    BY <1>1, <2>1 DEF meant
  <2>3. QED
    BY <1>1, <2>1, <2>2 DEF Explained
<1>8. QED
  BY <1>6, <1>7 DEF e

\* Every edge that a lookup gives is explained.
LEMMA EdgeIsGood ==
  ASSUME TextsChosen, table \in Seq(File), ToSet(table) = Parsed, NEW f \in Parsed,
         NEW ref \in RefsIn(f), NEW o \in Outcomes(f, ref)
  PROVE  Explained(Edge(ref, o)) /\ TypedEdge(Edge(ref, o))
<1> DEFINE lang == Text(f).lang
           tree == Text(f).tree
<1>1. /\ f \in File /\ IsTree(tree) /\ lang \in DOMAIN extractor /\ DeclaredIn(f) = Declared(lang, tree)
      /\ \A i \in DeclaredIn(f) : UID(f, i) = NodeUID(f, lang, tree, i)
      /\ DeclaredIn(f) \subseteq DOMAIN tree
  BY SymbolsOf DEF Parsed
<1>2. CASE ref \in MemberRefs(f, lang, tree)
  <2>1. PICK i \in Declared(lang, tree) :
          /\ CurrentClass(lang, tree, i) # 0
          /\ ref = Ref(NodeUID(f, lang, tree, i), "MEMBER_OF", "", "",
                       NodeUID(f, lang, tree, CurrentClass(lang, tree, i)))
    BY <1>2 DEF MemberRefs
  <2> DEFINE k == CurrentClass(lang, tree, i)
             e == Edge(ref, o)
  <2>2. k \in Around(tree, i) /\ k \in DeclaredIn(f)
    BY <1>1, <2>1, ClassIsDeclared
  <2>3. ref.type = "MEMBER_OF" /\ ref.from = UID(f, i) /\ ref.to = UID(f, k)
    BY <1>1, <2>1, <2>2 DEF Ref
  <2>4. o = [to |-> ref.to, confidence |-> 100]
    BY <2>3 DEF Outcomes
  <2>5. e.from = UID(f, i) /\ e.to = UID(f, k) /\ e.type = "MEMBER_OF" /\ e.confidence = 100
    BY <2>3, <2>4 DEF Edge
  <2>6. UID(f, i).file = f /\ UID(f, k).file = f
    <3>1. \A n \in DeclaredIn(f) : UID(f, n).file = f
      <4>1. \A n : NodeUID(f, lang, tree, n).file = f
        BY UidFile
      <4>2. QED
        BY <1>1, <4>1
    <3>2. i \in DeclaredIn(f)
      BY <1>1
    <3> HIDE DEF k
    <3>3. QED
      BY <2>2, <3>1, <3>2
  <2>7. TypedEdge(e)
    <3> HIDE DEF e, k
    <3>1. QED
      BY <2>5, <2>6 DEF TypedEdge
  <2>8. Explained(e)
    <3> HIDE DEF e, k
    <3>1. i \in DeclaredIn(f)
      BY <1>1, <2>1
    <3>2. QED
      BY <2>2, <2>5, <3>1 DEF Explained
  <2>9. QED
    BY <2>7, <2>8
<1>3. CASE ref \in extractHeritage(f, lang, tree)
  <2>1. PICK j \in DOMAIN tree :
          /\ tree[j].kind \in {"extends", "implements"} /\ tree[j].parent \in Declared(lang, tree)
          /\ ref = Ref(NodeUID(f, lang, tree, tree[j].parent),
                       IF tree[j].kind = "extends" THEN "EXTENDS" ELSE "IMPLEMENTS",
                       tree[j].name, "plain", "")
    BY <1>3 DEF extractHeritage
  <2> DEFINE i == tree[j].parent
             type == IF tree[j].kind = "extends" THEN "EXTENDS" ELSE "IMPLEMENTS"
  <2>2. i \in DeclaredIn(f) /\ ref.from = UID(f, i) /\ ref.type = type /\ ref.name = tree[j].name /\ ref.of = "plain"
    BY <1>1, <2>1 DEF Ref
  <2>3. i # 0 /\ i \in Around(tree, j)
    <3>1. i \in DOMAIN tree
      BY <1>1, <2>2
    <3>2. DOMAIN tree = 1 .. Len(tree)
      BY <1>1 DEF IsTree
    <3>3. QED
      BY <1>1, <3>1, <3>2, AroundUnfolds
  <2>4. j \in Written(f, type, i) /\ type \in {"CALLS", "EXTENDS", "IMPLEMENTS"}
    BY <2>1, <2>3 DEF Written
  <2>5. o \in Resolve(f, ref.name)
    BY <2>2 DEF Outcomes
  <2> HIDE DEF i, type
  <2>6. QED
    BY <2>2, <2>4, <2>5, LookedUp
<1>4. CASE ref \in CallRefs(f, lang, tree)
  <2>1. PICK i \in Bodies(lang, tree) : ref \in extractCalls(f, lang, tree, i)
    BY <1>4 DEF CallRefs
  <2>2. PICK j \in DOMAIN tree : /\ i \in Around(tree, j) /\ tree[j].kind = "call"
                                 /\ ref = Ref(NodeUID(f, lang, tree, i), "CALLS", tree[j].name, tree[j].of, "")
    BY <2>1 DEF extractCalls, Understood
  <2>3. i \in DeclaredIn(f)
    BY <1>1 DEF Bodies
  <2>4. ref.from = UID(f, i) /\ ref.type = "CALLS" /\ ref.name = tree[j].name
    BY <1>1, <2>2, <2>3 DEF Ref
  <2>5. j \in Written(f, "CALLS", i)
    BY <2>2 DEF Written
  <2>6. o \in Resolve(f, ref.name)
    BY <2>4 DEF Outcomes
  <2>7. QED
    BY <2>3, <2>4, <2>5, <2>6, LookedUp
<1>5. QED
  BY <1>2, <1>3, <1>4 DEF RefsIn, AllRefs

\* What a lookup gives depends on the texts, the table and the files parsed.
LEMMA LookupsSame ==
  ASSUME UNCHANGED <<source, table>>, Parsed' = Parsed
  PROVE  /\ \A f, ref : Outcomes(f, ref)' = Outcomes(f, ref)
         /\ \A e : (Explained(e)' <=> Explained(e)) /\ (TypedEdge(e)' <=> TypedEdge(e))
         /\ \A f : RefsIn(f)' = RefsIn(f) /\ Symbols(f)' = Symbols(f)
         /\ TextsChosen' <=> TextsChosen
<1>1. \A f : Text(f)' = Text(f) /\ Symbols(f)' = Symbols(f) /\ RefsIn(f)' = RefsIn(f)
  BY DEF Text, Symbols, RefsIn
<1>2. \A f : DeclaredIn(f)' = DeclaredIn(f) /\ \A i : UID(f, i)' = UID(f, i)
  BY <1>1 DEF DeclaredIn, UID
<1>3. \A some, name : Candidates(some, name)' = Candidates(some, name)
  BY <1>1, <1>2 DEF Candidates
<1>4. \A c : First(c)' = First(c)
  BY DEF First
<1>5. \A c, n : Found(c, n)' = Found(c, n)
  BY <1>2 DEF Found
<1>6. ToSet(table)' = ToSet(table)
  OBVIOUS
<1>7. \A f, name : Resolve(f, name)' = Resolve(f, name) /\ Meanings(f, name)' = Meanings(f, name)
  <2> SUFFICES ASSUME NEW f, NEW name
               PROVE  Resolve(f, name)' = Resolve(f, name) /\ Meanings(f, name)' = Meanings(f, name)
    OBVIOUS
  <2>1. \A some : Candidates(ToSet(table) \cap some, name)' = Candidates(ToSet(table) \cap some, name)
    BY <1>3, <1>6
  <2>2. \A some : Candidates(Parsed \cap some, name)' = Candidates(Parsed \cap some, name)
    BY <1>3
  <2>3. Candidates(ToSet(table), name)' = Candidates(ToSet(table), name)
        /\ Candidates(Parsed, name)' = Candidates(Parsed, name)
    BY <1>3, <1>6
  <2> DEFINE own == Candidates(ToSet(table) \cap {f}, name)
             near == Candidates(ToSet(table) \cap SameDir(f), name)
             all == Candidates(ToSet(table), name)
             a == { Found(First(own), Sure(own, 95)) }
             b == { Found(First(near), Sure(near, 95)) }
             c == { Found(First(Candidates(ToSet(table) \cap SameDir(d[1]), name)), Sure(all, 75)) : d \in all }
  <2>4. a' = a /\ b' = b
    BY <1>4, <1>5, <2>1
  <2>5. c' = c
    <3> DEFINE x(d) == Found(First(Candidates(ToSet(table) \cap SameDir(d[1]), name)), Sure(all, 75))
    <3>1. all' = all
      BY <2>3
    <3>2. \A d : x(d)' = x(d)
      <4>1. \A d : Candidates(ToSet(table) \cap SameDir(d[1]), name)' = Candidates(ToSet(table) \cap SameDir(d[1]), name)
        BY <2>1
      <4> HIDE DEF all
      <4>2. QED
        BY <1>4, <1>5, <3>1, <4>1
    <3>3. c = { x(d) : d \in all } /\ c' = { x(d)' : d \in all' }
      OBVIOUS
    <3> HIDE DEF x, all, c
    <3>4. QED
      BY <3>1, <3>2, <3>3
  <2>6. own' = own /\ near' = near
    BY <2>1
  <2>7. /\ Resolve(f, name) = CASE own # {} -> a [] own = {} /\ near # {} -> b [] OTHER -> c
        /\ Resolve(f, name)' = CASE own' # {} -> a' [] own' = {} /\ near' # {} -> b' [] OTHER -> c'
    BY Zenon DEF Resolve
  <2> HIDE DEF own, near, all, a, b, c
  <2>8. Resolve(f, name)' = Resolve(f, name)
    BY <2>4, <2>5, <2>6, <2>7
  <2>9. Meanings(f, name)' = Meanings(f, name)
    BY <2>2, <2>3 DEF Meanings
  <2>10. QED
    BY <2>8, <2>9
<1>8. \A f, ref : Outcomes(f, ref)' = Outcomes(f, ref)
  BY <1>7 DEF Outcomes
<1>9. \A f, type, i : Written(f, type, i)' = Written(f, type, i)
  BY <1>1 DEF Written
<1>10. \A symbols : UIDs(symbols)' = UIDs(symbols)
  BY <1>2 DEF UIDs
<1>11. \A e : Explained(e)' <=> Explained(e)
  BY <1>1, <1>2, <1>7, <1>9, <1>10 DEF Explained
<1>12. \A e : TypedEdge(e)' <=> TypedEdge(e)
  BY DEF TypedEdge
<1>13. TextsChosen' <=> TextsChosen
  BY DEF TextsChosen
<1>14. QED
  BY <1>1, <1>8, <1>11, <1>12, <1>13
-----------------------------------------------------------------------------
\* A reference gave no edge, or one that is on its way.
Handled(f, ref) ==
  \/ Outcomes(f, ref) = {}
  \/ \E o \in Outcomes(f, ref) : Dropped(Edge(ref, o)) \/ Edge(ref, o) \in edges \cup ToSet(edgeCh)

\* The passes of Resolve: the table is complete before the first lookup; a
\* reference is still to be looked up or has been handled; nothing comes through
\* the channel after it is shut.
ResolveInv ==
  /\ table \in Seq(File) /\ NoDoubles(table) /\ ToSet(table) \subseteq Parsed
  /\ pass \in 0 .. 2 /\ shut \in BOOLEAN /\ resolved \in BOOLEAN
  /\ DOMAIN toResolve = File
  /\ pass = 0 => table = <<>> /\ \A f \in File : source[f] = 0
  /\ pass # 0 => done /\ TextsChosen
  /\ pass # 2 => (\A f \in File : toResolve[f] = <<>>) /\ edgeCh = <<>> /\ edges = {} /\ ~shut
  /\ pass = 2 =>
       /\ ToSet(table) = Parsed
       /\ \A f \in File \ Parsed : toResolve[f] = <<>>
       /\ \A f \in Parsed : /\ toResolve[f] \in Seq(RefsIn(f))
                            /\ \A ref \in RefsIn(f) : ref \in ToSet(toResolve[f]) \/ Handled(f, ref)
  /\ edgeCh \in Seq(ToSet(edgeCh))
  /\ \A e \in edges \cup ToSet(edgeCh) : Explained(e) /\ TypedEdge(e)
  /\ shut => \A f \in File : toResolve[f] = <<>>
  /\ resolved => shut /\ edgeCh = <<>>

\* A sequence is one of its own elements, and of more.
LEMMA OwnElements ==
  ASSUME NEW X, NEW s \in Seq(X)
  PROVE  s \in Seq(ToSet(s)) /\ \A Y : ToSet(s) \subseteq Y => s \in Seq(Y)
<1>1. Len(s) \in Nat /\ DOMAIN s = 1 .. Len(s) /\ s = [i \in 1 .. Len(s) |-> s[i]]
  OBVIOUS
<1>2. \A i \in 1 .. Len(s) : s[i] \in ToSet(s)
  BY <1>1 DEF ToSet
<1>3. ASSUME NEW Y, ToSet(s) \subseteq Y PROVE s \in Seq(Y)
  <2>1. s \in [1 .. Len(s) -> Y]
    BY <1>1, <1>2, <1>3
  <2>2. QED
    BY <1>1, <2>1
<1>4. QED
  BY <1>3

\* What has been handled stays so while edges only move on.
LEMMA HandledStays ==
  ASSUME UNCHANGED <<source, table>>, Parsed' = Parsed,
         edges \cup ToSet(edgeCh) \subseteq edges' \cup ToSet(edgeCh)'
  PROVE  \A f, ref : Handled(f, ref) => Handled(f, ref)'
<1>1. \A f, ref : Outcomes(f, ref)' = Outcomes(f, ref)
  BY LookupsSame
<1>2. \A ref, o : Edge(ref, o)' = Edge(ref, o) /\ (Dropped(Edge(ref, o))' <=> Dropped(Edge(ref, o)))
  BY DEF Edge, Dropped
<1>3. QED
  BY <1>1, <1>2 DEF Handled

\* Steps of others than the goroutines of Resolve.
LEMMA ResolveFrame ==
  ASSUME TypeOK, PoolInv, StagesInv, ResolveInv, UNCHANGED resolverVars, PoolNext \/ UNCHANGED vars
  PROVE  ResolveInv'
<1>1. UNCHANGED <<source, table, pass, toResolve, edgeCh, shut, edges, resolved>>
  BY DEF resolverVars
<1>2. CASE pass = 0
  <2>1. /\ table = <<>> /\ edgeCh = <<>> /\ edges = {} /\ ~shut /\ ~resolved
        /\ (\A f \in File : source[f] = 0) /\ (\A f \in File : toResolve[f] = <<>>)
        /\ shut \in BOOLEAN /\ resolved \in BOOLEAN /\ DOMAIN toResolve = File
    BY <1>2 DEF ResolveInv
  <2>2. table \in Seq(File) /\ NoDoubles(table) /\ edgeCh \in Seq(ToSet(edgeCh))
    BY DEF ResolveInv
  <2>3. ToSet(table) = {} /\ ToSet(edgeCh) = {}
    <3>1. ToSet(<<>>) = {}
      BY DEF ToSet
    <3>2. QED
      BY <2>1, <3>1
  <2>4. ToSet(edgeCh)' = ToSet(edgeCh) /\ ToSet(table)' = ToSet(table) /\ (NoDoubles(table)' <=> NoDoubles(table))
    BY <1>1 DEF NoDoubles
  <2>5. QED
    BY <1>1, <1>2, <2>1, <2>2, <2>3, <2>4 DEF ResolveInv
<1>3. CASE pass # 0
  <2>1. done /\ out = <<>>
    BY <1>3 DEF ResolveInv, StagesInv
  <2>2. done' /\ collected' = collected
    <3>1. ~Collect /\ ~EndOfOutput
      BY <2>1 DEF Collect, EndOfOutput
    <3>2. ASSUME (\E f \in File : SendFile(f)) \/ CloseFiles \/ CloseOut \/ Cancel PROVE UNCHANGED <<done, collected>>
      BY <3>2 DEF SendFile, CloseFiles, CloseOut, Cancel
    <3>3. ASSUME NEW w \in Worker, Work(w) PROVE UNCHANGED <<done, collected>>
      BY <3>3 DEF Work, TakeFile, Parse, Send, WorkerReturns
    <3>4. CASE UNCHANGED vars
      BY <2>1, <3>4 DEF vars
    <3>5. QED
      BY <2>1, <3>1, <3>2, <3>3, <3>4 DEF PoolNext, Feeder, Caller
  <2>3. Parsed' = Parsed
    BY <2>2 DEF Parsed
  <2>4. /\ \A f, ref : Handled(f, ref) => Handled(f, ref)'
        /\ \A e : (Explained(e)' <=> Explained(e)) /\ (TypedEdge(e)' <=> TypedEdge(e))
        /\ \A f : RefsIn(f)' = RefsIn(f)
        /\ TextsChosen' <=> TextsChosen
    BY <1>1, <2>3, LookupsSame, HandledStays
  <2>5. ToSet(edgeCh)' = ToSet(edgeCh) /\ ToSet(table)' = ToSet(table) /\ (NoDoubles(table)' <=> NoDoubles(table))
    BY <1>1 DEF NoDoubles
  <2>6. pass' = 2 =>
          /\ ToSet(table)' = Parsed'
          /\ \A f \in File \ Parsed' : toResolve'[f] = <<>>
          /\ \A f \in Parsed' : /\ toResolve'[f] \in Seq(RefsIn(f)')
                                /\ \A ref \in RefsIn(f)' : ref \in ToSet(toResolve[f])' \/ Handled(f, ref)'
    BY <1>1, <2>3, <2>4, <2>5 DEF ResolveInv
  <2>7. QED
    BY <1>1, <1>3, <2>2, <2>3, <2>4, <2>5, <2>6 DEF ResolveInv
<1>4. QED
  BY <1>2, <1>3

\* The second pass is left with its invariant when it looks nothing up and the
\* edges only move on.
LEMMA PassTwoKept ==
  ASSUME ResolveInv, pass = 2, UNCHANGED <<vars, source, table, pass, toResolve>>,
         edges' \cup ToSet(edgeCh)' = edges \cup ToSet(edgeCh),
         edgeCh' \in Seq(ToSet(edgeCh)'), shut' \in BOOLEAN, resolved' \in BOOLEAN,
         shut' => \A f \in File : toResolve[f] = <<>>,
         resolved' => shut' /\ edgeCh' = <<>>
  PROVE  ResolveInv'
<1>1. Parsed' = Parsed /\ done' = done /\ ToSet(table)' = ToSet(table) /\ NoDoubles(table)'
  BY DEF vars, Parsed, ResolveInv, NoDoubles
<1>2. /\ \A f, ref : Handled(f, ref) => Handled(f, ref)'
      /\ \A e : (Explained(e)' <=> Explained(e)) /\ (TypedEdge(e)' <=> TypedEdge(e))
      /\ \A f : RefsIn(f)' = RefsIn(f)
      /\ TextsChosen' <=> TextsChosen
  BY <1>1, LookupsSame, HandledStays
<1>3. /\ ToSet(table)' = Parsed'
      /\ \A f \in File \ Parsed' : toResolve'[f] = <<>>
      /\ \A f \in Parsed' : /\ toResolve'[f] \in Seq(RefsIn(f)')
                            /\ \A ref \in RefsIn(f)' : ref \in ToSet(toResolve[f])' \/ Handled(f, ref)'
  BY <1>1, <1>2 DEF ResolveInv
<1>4. \A e \in edges' \cup ToSet(edgeCh)' : Explained(e)' /\ TypedEdge(e)'
  BY <1>2 DEF ResolveInv
<1>5. /\ table' \in Seq(File) /\ ToSet(table)' \subseteq Parsed' /\ pass' = 2 /\ DOMAIN toResolve' = File
      /\ done' /\ TextsChosen' /\ toResolve' = toResolve
  BY <1>1, <1>2 DEF ResolveInv
<1>6. QED
  BY <1>1, <1>3, <1>4, <1>5 DEF ResolveInv

\* One turn of the loop of a goroutine of the second pass.
LEMMA ResolveRefKeeps ==
  ASSUME TypeOK, ResolveInv, NEW f \in File, ResolveRef(f)
  PROVE  ResolveInv'
<1>1. toResolve[f] # <<>> /\ pass = 2 /\ f \in Parsed /\ ~shut /\ ~resolved
  BY DEF ResolveRef, ResolveInv
<1>2. /\ done /\ TextsChosen /\ ToSet(table) = Parsed /\ table \in Seq(File) /\ DOMAIN toResolve = File
      /\ toResolve[f] \in Seq(RefsIn(f)) /\ edgeCh \in Seq(ToSet(edgeCh))
  BY <1>1 DEF ResolveInv
<1>3. PICK ref, rest : /\ ref = Head(toResolve[f]) /\ rest = Tail(toResolve[f])
                       /\ ref \in RefsIn(f) /\ rest \in Seq(RefsIn(f))
                       /\ ToSet(toResolve[f]) = {ref} \cup ToSet(rest)
  <2>1. \A X : \A s \in Seq(X) : s # <<>> =>
          Head(s) \in X /\ Tail(s) \in Seq(X) /\ ToSet(s) = {Head(s)} \cup ToSet(Tail(s))
    BY Elements
  <2>2. /\ Head(toResolve[f]) \in RefsIn(f) /\ Tail(toResolve[f]) \in Seq(RefsIn(f))
        /\ ToSet(toResolve[f]) = {Head(toResolve[f])} \cup ToSet(Tail(toResolve[f]))
    BY <1>1, <1>2, <2>1, Zenon
  <2>3. QED
    BY <2>2, Zenon
<1>4. /\ UNCHANGED <<vars, source, table, pass, shut, edges, resolved>>
      /\ toResolve' = [toResolve EXCEPT ![f] = rest]
      /\ \/ Outcomes(f, ref) = {} /\ edgeCh' = edgeCh
         \/ \E o \in Outcomes(f, ref) :
              \/ Dropped(Edge(ref, o)) /\ edgeCh' = edgeCh
              \/ edgeCh' = Append(edgeCh, Edge(ref, o))
  BY <1>3 DEF ResolveRef
<1>5. Parsed' = Parsed /\ done' = done /\ ToSet(table)' = ToSet(table) /\ NoDoubles(table)'
  BY <1>4 DEF vars, Parsed, ResolveInv, NoDoubles
<1>6. /\ edgeCh' \in Seq(ToSet(edgeCh)') /\ ToSet(edgeCh) \subseteq ToSet(edgeCh)'
      /\ \A e \in ToSet(edgeCh)' \ ToSet(edgeCh) : \E o \in Outcomes(f, ref) : e = Edge(ref, o)
      /\ \/ Outcomes(f, ref) = {}
         \/ \E o \in Outcomes(f, ref) : Dropped(Edge(ref, o)) \/ Edge(ref, o) \in ToSet(edgeCh)'
  <2>1. CASE edgeCh' = edgeCh /\ (Outcomes(f, ref) = {} \/ \E o \in Outcomes(f, ref) : Dropped(Edge(ref, o)))
    BY <1>2, <2>1
  <2>2. ASSUME NEW o \in Outcomes(f, ref), edgeCh' = Append(edgeCh, Edge(ref, o))
        PROVE  /\ edgeCh' \in Seq(ToSet(edgeCh)') /\ ToSet(edgeCh) \subseteq ToSet(edgeCh)'
               /\ \A e \in ToSet(edgeCh)' \ ToSet(edgeCh) : e = Edge(ref, o)
               /\ Edge(ref, o) \in ToSet(edgeCh)'
    <3> DEFINE e == Edge(ref, o)
               X == ToSet(edgeCh) \cup {e}
    <3>1. edgeCh \in Seq(X) /\ e \in X
      BY <1>2, OwnElements
    <3>2. Append(edgeCh, e) \in Seq(X) /\ ToSet(Append(edgeCh, e)) = ToSet(edgeCh) \cup {e}
      <4> HIDE DEF e, X
      <4>1. QED
        BY <3>1, Elements
    <3>3. QED
      BY <2>2, <3>2
  <2>3. QED
    BY <1>4, <2>1, <2>2
<1>7. /\ \A g, r : Handled(g, r) => Handled(g, r)'
      /\ \A g, r : Outcomes(g, r)' = Outcomes(g, r)
      /\ \A e : (Explained(e)' <=> Explained(e)) /\ (TypedEdge(e)' <=> TypedEdge(e))
      /\ \A g : RefsIn(g)' = RefsIn(g)
      /\ TextsChosen' <=> TextsChosen
  BY <1>4, <1>5, <1>6, LookupsSame, HandledStays
<1>8. Handled(f, ref)'
  BY <1>6, <1>7 DEF Handled, Edge, Dropped
<1>9. \A e \in edges' \cup ToSet(edgeCh)' : Explained(e)' /\ TypedEdge(e)'
  <2>1. \A e \in edges \cup ToSet(edgeCh) : Explained(e) /\ TypedEdge(e)
    BY DEF ResolveInv
  <2>2. \A o \in Outcomes(f, ref) : Explained(Edge(ref, o)) /\ TypedEdge(Edge(ref, o))
    BY <1>1, <1>2, <1>3, EdgeIsGood
  <2>3. QED
    BY <1>4, <1>6, <1>7, <2>1, <2>2
<1>10. /\ \A g \in File \ Parsed' : toResolve'[g] = <<>>
       /\ \A g \in Parsed' : /\ toResolve'[g] \in Seq(RefsIn(g)')
                             /\ \A r \in RefsIn(g)' : r \in ToSet(toResolve[g])' \/ Handled(g, r)'
  <2>1. toResolve'[f] = rest /\ \A g \in File : g # f => toResolve'[g] = toResolve[g]
    BY <1>2, <1>4
  <2>2. \A g \in File \ Parsed : toResolve[g] = <<>>
    BY <1>1 DEF ResolveInv
  <2>3. \A g \in Parsed : /\ toResolve[g] \in Seq(RefsIn(g))
                          /\ \A r \in RefsIn(g) : r \in ToSet(toResolve[g]) \/ Handled(g, r)
    BY <1>1 DEF ResolveInv
  <2>4. Parsed \subseteq File
    BY DEF Parsed
  <2>5. ToSet(toResolve[f])' = ToSet(rest)
    BY <2>1
  <2>6. ASSUME NEW g \in Parsed, g # f
        PROVE  toResolve'[g] \in Seq(RefsIn(g)) /\ \A r \in RefsIn(g) : r \in ToSet(toResolve[g])' \/ Handled(g, r)'
    <3>1. toResolve'[g] = toResolve[g] /\ ToSet(toResolve[g])' = ToSet(toResolve[g])
      BY <2>1, <2>4, <2>6
    <3>2. QED
      BY <1>7, <2>3, <3>1
  <2>7. toResolve'[f] \in Seq(RefsIn(f)) /\ \A r \in RefsIn(f) : r \in ToSet(toResolve[f])' \/ Handled(f, r)'
    BY <1>1, <1>3, <1>7, <1>8, <2>1, <2>3, <2>5
  <2>8. QED
    BY <1>1, <1>5, <1>7, <2>1, <2>2, <2>6, <2>7
<1>11. /\ table' \in Seq(File) /\ ToSet(table)' = Parsed' /\ pass' = 2 /\ DOMAIN toResolve' = File
       /\ done' /\ TextsChosen' /\ shut' = shut /\ resolved' = resolved
  BY <1>1, <1>2, <1>4, <1>5, <1>7
<1>12. shut' = FALSE /\ resolved' = FALSE
  BY <1>1, <1>11 DEF ResolveInv
<1>13. QED
  BY <1>5, <1>6, <1>9, <1>10, <1>11, <1>12 DEF ResolveInv

\* The steps before the second pass.
LEMMA FirstPassKeeps ==
  ASSUME TypeOK, ResolveInv, StartResolve \/ \E f \in File : Register(f)
  PROVE  ResolveInv'
<1>1. /\ table \in Seq(File) /\ NoDoubles(table) /\ ToSet(table) \subseteq Parsed /\ pass \in 0 .. 2
      /\ DOMAIN toResolve = File
      /\ shut \in BOOLEAN /\ resolved \in BOOLEAN /\ edgeCh \in Seq(ToSet(edgeCh))
      /\ resolved => shut /\ edgeCh = <<>>
  BY DEF ResolveInv
<1>2. ToSet(<<>>) = {}
  BY DEF ToSet
<1>3. ASSUME pass # 2, UNCHANGED <<vars, toResolve, edgeCh, shut, edges, resolved>>,
             table' \in Seq(File), NoDoubles(table)', ToSet(table)' \subseteq Parsed',
             pass' = 1, done, TextsChosen'
      PROVE  ResolveInv'
  <2>1. (\A f \in File : toResolve[f] = <<>>) /\ edgeCh = <<>> /\ edges = {} /\ ~shut /\ ~resolved
    BY <1>3 DEF ResolveInv
  <2>2. done' /\ ToSet(edgeCh)' = {} /\ edgeCh' \in Seq(ToSet(edgeCh)')
    BY <1>1, <1>2, <1>3, <2>1 DEF vars
  <2>3. pass' # 0 /\ pass' # 2 /\ pass' \in 0 .. 2
    BY <1>3
  <2>4. QED
    BY <1>1, <1>3, <2>1, <2>2, <2>3 DEF ResolveInv
<1>4. ASSUME StartResolve PROVE ResolveInv'
  <2>1. /\ pass = 0 /\ pass' = 1 /\ done /\ UNCHANGED <<vars, table, toResolve, edgeCh, shut, edges, resolved>>
        /\ source' \in { s \in [File -> 1 .. MostSources] : \A f \in File : s[f] \in DOMAIN Sources[f] }
    BY <1>4 DEF StartResolve
  <2>2. TextsChosen'
    BY <2>1 DEF TextsChosen
  <2>3. Parsed' = Parsed /\ ToSet(table)' = ToSet(table) /\ NoDoubles(table)'
    BY <1>1, <2>1 DEF vars, Parsed, NoDoubles
  <2>4. QED
    BY <1>1, <1>3, <2>1, <2>2, <2>3
<1>5. ASSUME NEW f \in File, Register(f) PROVE ResolveInv'
  <2>1. /\ pass # 0 /\ f \in Parsed /\ f \notin ToSet(table) /\ table' = Append(table, f)
        /\ UNCHANGED <<vars, source, pass, toResolve, edgeCh, shut, edges, resolved>>
    BY <1>5 DEF Register
  <2>2. pass = 1 /\ done /\ TextsChosen
    BY <1>1, <2>1 DEF ResolveInv
  <2>3. TextsChosen' /\ Parsed' = Parsed
    BY <2>1, <2>2 DEF TextsChosen, vars, Parsed
  <2>4. NoDoubles(Append(table, f)) /\ Append(table, f) \in Seq(File) /\ ToSet(Append(table, f)) = ToSet(table) \cup {f}
    BY <1>1, <2>1, Elements, NoDoublesKept
  <2>5. NoDoubles(table)' /\ ToSet(table)' = ToSet(table) \cup {f}
    BY <2>1, <2>4 DEF NoDoubles
  <2>6. table' \in Seq(File) /\ ToSet(table)' \subseteq Parsed'
    BY <1>1, <2>1, <2>3, <2>4, <2>5
  <2>7. pass # 2 /\ pass' = 1
    BY <2>1, <2>2
  <2>8. QED
    BY <1>3, <2>1, <2>2, <2>3, <2>5, <2>6, <2>7
<1>6. QED
  BY <1>4, <1>5

\* The second pass begins with all references of all files.
LEMMA StartPassTwoKeeps ==
  ASSUME TypeOK, ResolveInv, StartPassTwo
  PROVE  ResolveInv'
<1>1. /\ table \in Seq(File) /\ NoDoubles(table) /\ shut \in BOOLEAN /\ resolved \in BOOLEAN
      /\ resolved => shut /\ edgeCh = <<>>
      /\ edgeCh \in Seq(ToSet(edgeCh)) /\ \A e \in edges \cup ToSet(edgeCh) : Explained(e) /\ TypedEdge(e)
  BY DEF ResolveInv
<1>2. /\ pass = 1 /\ pass' = 2 /\ ToSet(table) = Parsed
      /\ UNCHANGED <<vars, source, table, edgeCh, shut, edges, resolved>>
      /\ toResolve' = [f \in File |-> IF f \in Parsed THEN Symbols(f).refs ELSE <<>>]
  BY DEF StartPassTwo, AllRegistered
<1>3. done /\ TextsChosen /\ ~shut /\ ~resolved
  BY <1>2 DEF ResolveInv
<1>4. Parsed' = Parsed /\ Parsed \subseteq File /\ done' /\ ToSet(table)' = ToSet(table) /\ NoDoubles(table)'
  BY <1>1, <1>2, <1>3 DEF vars, Parsed, NoDoubles
<1>5. /\ \A e : (Explained(e)' <=> Explained(e)) /\ (TypedEdge(e)' <=> TypedEdge(e))
      /\ \A f : RefsIn(f)' = RefsIn(f)
      /\ TextsChosen'
  BY <1>2, <1>3, <1>4, LookupsSame
<1>6. /\ \A f \in File \ Parsed' : toResolve'[f] = <<>>
      /\ \A f \in Parsed' : /\ toResolve'[f] \in Seq(RefsIn(f)')
                            /\ \A ref \in RefsIn(f)' : ref \in ToSet(toResolve[f])' \/ Handled(f, ref)'
  <2>1. ASSUME NEW f \in Parsed
        PROVE  toResolve'[f] \in Seq(RefsIn(f)) /\ ToSet(toResolve[f])' = RefsIn(f)
    <3>1. Symbols(f).refs = Refs(f, Text(f).lang, Text(f).tree) /\ IsTree(Text(f).tree)
      BY <1>3, <1>4, SymbolsOf
    <3>2. Symbols(f).refs \in Seq(RefsIn(f)) /\ ToSet(Symbols(f).refs) = RefsIn(f)
      BY <3>1, RefsOf DEF RefsIn
    <3>3. toResolve'[f] = Symbols(f).refs
      BY <1>2, <1>4
    <3>4. ToSet(toResolve[f])' = ToSet(Symbols(f).refs)
      BY <3>3
    <3>5. QED
      BY <3>2, <3>3, <3>4
  <2>2. \A f \in File \ Parsed : toResolve'[f] = <<>>
    BY <1>2
  <2>3. QED
    BY <1>4, <1>5, <2>1, <2>2
<1>7. \A e \in edges' \cup ToSet(edgeCh)' : Explained(e)' /\ TypedEdge(e)'
  BY <1>1, <1>2, <1>5
<1>8. /\ table' \in Seq(File) /\ ToSet(table)' = Parsed' /\ DOMAIN toResolve' = File
      /\ shut' = FALSE /\ resolved' = FALSE /\ edgeCh' \in Seq(ToSet(edgeCh)')
  BY <1>1, <1>2, <1>3, <1>4
<1>9. QED
  BY <1>2, <1>4, <1>5, <1>6, <1>7, <1>8 DEF ResolveInv

\* The collector, and the end of Resolve.
LEMMA CollectorKeeps ==
  ASSUME TypeOK, ResolveInv, CloseEdges \/ CollectEdge \/ ResolveReturns
  PROVE  ResolveInv'
<1>1. shut \in BOOLEAN /\ resolved \in BOOLEAN /\ edgeCh \in Seq(ToSet(edgeCh)) /\ pass \in 0 .. 2
  BY DEF ResolveInv
<1>2. CASE CloseEdges
  <2>1. /\ pass = 2 /\ shut' = TRUE /\ (\A f \in File : toResolve[f] = <<>>)
        /\ UNCHANGED <<vars, source, table, pass, toResolve, edgeCh, edges, resolved>>
    BY <1>2 DEF CloseEdges
  <2>2. resolved' => shut' /\ edgeCh' = <<>>
    BY <2>1 DEF ResolveInv
  <2>3. QED
    BY <1>1, <2>1, <2>2, PassTwoKept
<1>3. CASE CollectEdge
  <2>1. /\ edgeCh # <<>> /\ edges' = edges \cup {Head(edgeCh)} /\ edgeCh' = Tail(edgeCh)
        /\ UNCHANGED <<vars, source, table, pass, toResolve, shut, resolved>>
    BY <1>3 DEF CollectEdge
  <2>2. /\ pass = 2 /\ (shut => \A f \in File : toResolve[f] = <<>>) /\ ~resolved
    BY <2>1 DEF ResolveInv
  <2>3. Tail(edgeCh) \in Seq(ToSet(edgeCh)) /\ ToSet(edgeCh) = {Head(edgeCh)} \cup ToSet(Tail(edgeCh))
    BY <1>1, <2>1, Elements
  <2>4. Tail(edgeCh) \in Seq(ToSet(Tail(edgeCh)))
    BY <2>3, OwnElements
  <2>5. edgeCh' \in Seq(ToSet(edgeCh)') /\ edges' \cup ToSet(edgeCh)' = edges \cup ToSet(edgeCh)
    BY <2>1, <2>3, <2>4
  <2>6. QED
    BY <1>1, <2>1, <2>2, <2>5, PassTwoKept
<1>4. CASE ResolveReturns
  <2>1. /\ shut /\ edgeCh = <<>> /\ resolved' = TRUE
        /\ UNCHANGED <<vars, source, table, pass, toResolve, edgeCh, shut, edges>>
    BY <1>4 DEF ResolveReturns
  <2>2. pass = 2 /\ \A f \in File : toResolve[f] = <<>>
    BY <2>1 DEF ResolveInv
  <2>3. ToSet(edgeCh)' = ToSet(edgeCh)
    BY <2>1
  <2>4. QED
    BY <1>1, <2>1, <2>2, <2>3, PassTwoKept
<1>5. QED
  BY <1>2, <1>3, <1>4

\* What the pool and the passes of Resolve are in every state.
LEMMA ResolverInvariant == ResolverSpec => [](TypeOK /\ PoolInv /\ StagesInv /\ ResolveInv)
<1>1. ResolverInit => ResolveInv
  <2> SUFFICES ASSUME ResolverInit PROVE ResolveInv
    OBVIOUS
  <2>1. /\ source = [f \in File |-> 0] /\ table = <<>> /\ pass = 0 /\ toResolve = [f \in File |-> <<>>]
        /\ edgeCh = <<>> /\ shut = FALSE /\ edges = {} /\ resolved = FALSE
    BY DEF ResolverInit
  <2>2. ToSet(<<>>) = {} /\ NoDoubles(<<>>)
    BY DEF ToSet, NoDoubles
  <2>3. ToSet(table) = {} /\ NoDoubles(table) /\ ToSet(edgeCh) = {}
    BY <2>1, <2>2
  <2>4. table \in Seq(File) /\ edgeCh \in Seq(ToSet(edgeCh)) /\ ToSet(table) \subseteq Parsed
    BY <2>1, <2>3
  <2>5. /\ DOMAIN toResolve = File /\ pass # 2 /\ pass \in 0 .. 2 /\ \A f \in File : source[f] = 0
        /\ (\A f \in File : toResolve[f] = <<>>) /\ edges = {} /\ ~shut /\ ~resolved /\ pass = 0
        /\ table = <<>> /\ edgeCh = <<>>
    BY <2>1
  <2>6. /\ pass # 0 => done /\ TextsChosen
        /\ pass # 2 => (\A f \in File : toResolve[f] = <<>>) /\ edgeCh = <<>> /\ edges = {} /\ ~shut
        /\ \A e \in edges \cup ToSet(edgeCh) : Explained(e) /\ TypedEdge(e)
        /\ shut \in BOOLEAN /\ resolved \in BOOLEAN
    BY <2>1, <2>3, <2>5
  <2>7. QED
    BY <2>3, <2>4, <2>5, <2>6 DEF ResolveInv
<1>2. TypeOK /\ PoolInv /\ StagesInv /\ ResolveInv /\ [ResolverNext]_allVars => ResolveInv'
  <2> SUFFICES ASSUME TypeOK, PoolInv, StagesInv, ResolveInv, [ResolverNext]_allVars PROVE ResolveInv'
    OBVIOUS
  <2>1. CASE UNCHANGED allVars
    BY <2>1, ResolveFrame DEF allVars
  <2>2. CASE PoolNext /\ UNCHANGED resolverVars
    BY <2>2, ResolveFrame
  <2>3. CASE StartResolve \/ \E f \in File : Register(f)
    BY <2>3, FirstPassKeeps
  <2>4. CASE StartPassTwo
    BY <2>4, StartPassTwoKeeps
  <2>5. CASE \E f \in File : ResolveRef(f)
    BY <2>5, ResolveRefKeeps
  <2>6. CASE CloseEdges \/ CollectEdge \/ ResolveReturns
    BY <2>6, CollectorKeeps
  <2>7. QED
    BY <2>1, <2>2, <2>3, <2>4, <2>5, <2>6 DEF ResolverNext, Goroutine, Caller2, PoolNext
<1>3. QED
  BY <1>1, <1>2, PoolInvariant, PTL DEF ResolverSpec

\* A sequence without doubles is as long as the set of its elements is large.
LEMMA LengthOfNoDoubles ==
  ASSUME NEW X, NEW s \in Seq(X), NoDoubles(s)
  PROVE  Len(s) = Cardinality(ToSet(s))
<1> DEFINE n == Len(s)
<1>1. n \in Nat /\ DOMAIN s = 1 .. n /\ s \in [1 .. n -> ToSet(s)]
  <2>1. s \in Seq(ToSet(s))
    BY OwnElements
  <2>2. QED
    BY <2>1
<1>2. \A i, j \in 1 .. n : s[i] = s[j] => i = j
  BY <1>1 DEF NoDoubles
<1>3. \A x \in ToSet(s) : \E i \in 1 .. n : s[i] = x
  BY <1>1 DEF ToSet
<1> HIDE DEF n
<1>4. s \in Injection(1 .. n, ToSet(s)) /\ s \in Surjection(1 .. n, ToSet(s))
  BY <1>1, <1>2, <1>3 DEF Injection, IsInjective, Surjection
<1>5. s \in Bijection(1 .. n, ToSet(s))
  BY <1>4 DEF Bijection
<1>6. IsFiniteSet(1 .. n) /\ Cardinality(1 .. n) = n
  <2>1. IsFiniteSet(1 .. n) /\ Cardinality(1 .. n) = IF 1 > n THEN 0 ELSE n - 1 + 1
    BY <1>1, FS_Interval
  <2>2. QED
    BY <1>1, <2>1
<1>7. Cardinality(1 .. n) = Cardinality(ToSet(s))
  BY <1>5, <1>6, FS_Bijection DEF ExistsBijection
<1>8. QED
  BY <1>6, <1>7 DEF n

\* The types of Resolve's state; the table has each file once, whichever
\* goroutine registers it first (symbol_table.go:33-47, resolver.go:15-26).
THEOREM ResolverTypes == ResolverSpec => []ResolverTypeOK
<1>1. TypeOK /\ PoolInv /\ StagesInv /\ ResolveInv => ResolverTypeOK
  <2> SUFFICES ASSUME TypeOK, ResolveInv PROVE ResolverTypeOK
    OBVIOUS
  <2>1. /\ table \in Seq(File) /\ NoDoubles(table) /\ ToSet(table) \subseteq Parsed
        /\ pass \in 0 .. 2 /\ shut \in BOOLEAN /\ resolved \in BOOLEAN
    BY DEF ResolveInv
  <2>2. Len(table) = Cardinality(ToSet(table))
    BY <2>1, LengthOfNoDoubles
  <2>3. \A f \in File : source[f] \in DOMAIN Sources[f] \/ (pass = 0 /\ source[f] = 0)
    BY DEF ResolveInv, TextsChosen
  <2>4. \A e \in edges \cup ToSet(edgeCh) : TypedEdge(e)
    BY DEF ResolveInv
  <2>5. QED
    BY <2>1, <2>2, <2>3, <2>4 DEF ResolverTypeOK, TypedEdge
<1>2. QED
  BY <1>1, ResolverInvariant, PTL

\* Every edge is there for a reference in the text of its symbol, and goes to what
\* the name means when all files are known, whatever the files are and however
\* the goroutines take turns (resolver.go:11-51 and symbol_table.go:66-104).
THEOREM EdgesHaveReasons == ResolverSpec => []EdgesExplained
<1>1. TypeOK /\ PoolInv /\ StagesInv /\ ResolveInv => EdgesExplained
  BY DEF ResolveInv, EdgesExplained
<1>2. QED
  BY <1>1, ResolverInvariant, PTL

\* When Resolve returns no call has been lost between the passes, the lookups and
\* the channel of edges (parser.go:288-307, resolver.go:33-50 and 119).
THEOREM NoCallIsMissed == ResolverSpec => []NothingMissed
<1>1. TypeOK /\ PoolInv /\ StagesInv /\ ResolveInv => NothingMissed
  <2> SUFFICES ASSUME TypeOK, ResolveInv, resolved, NEW f \in Parsed, NEW call \in Attributed(f)
               PROVE  LET caller == UID(f, call[1])
                          meant == UIDs(Meanings(f, Text(f).tree[call[2]].name))
                      IN  \/ meant = {} \/ caller \in meant
                          \/ \E e \in edges : e.type = "CALLS" /\ e.from = caller /\ e.to \in meant
    BY DEF NothingMissed
  <2> DEFINE lang == Text(f).lang
             tree == Text(f).tree
             B(j) == Bodies(lang, tree) \cap Around(tree, j)
  <2>1. shut /\ edgeCh = <<>> /\ pass = 2 /\ f \in File
    BY DEF ResolveInv, Parsed
  <2>2. /\ TextsChosen /\ table \in Seq(File) /\ ToSet(table) = Parsed /\ toResolve[f] = <<>>
        /\ \A ref \in RefsIn(f) : ref \in ToSet(toResolve[f]) \/ Handled(f, ref)
    BY <2>1 DEF ResolveInv
  <2>3. ToSet(toResolve[f]) = {} /\ ToSet(edgeCh) = {}
    <3>1. ToSet(<<>>) = {}
      BY DEF ToSet
    <3>2. QED
      BY <2>1, <2>2, <3>1
  <2>4. PICK j \in DOMAIN tree : /\ call = <<Max(B(j)), j>> /\ Understood(lang, tree[j])
                                 /\ tree[j].of # "chain" /\ B(j) # {}
    BY DEF Attributed
  <2>5. /\ IsTree(tree) /\ lang \in DOMAIN extractor /\ DeclaredIn(f) = Declared(lang, tree)
        /\ \A i \in DeclaredIn(f) : UID(f, i) = NodeUID(f, lang, tree, i)
    BY <2>1, <2>2, SymbolsOf
  <2>6. DOMAIN tree = 1 .. Len(tree) /\ Len(tree) \in Nat
    BY <2>5 DEF IsTree
  <2>7. Max(B(j)) \in B(j)
    <3>1. B(j) \in SUBSET (0 .. Len(tree))
      BY <2>6 DEF Bodies, Declared, Walked
    <3> HIDE DEF B
    <3>2. QED
      BY <2>4, <2>6, <3>1, MaxOf
  <2> DEFINE i == Max(B(j))
             ref == Ref(NodeUID(f, lang, tree, i), "CALLS", tree[j].name, tree[j].of, "")
             meant == Meanings(f, tree[j].name)
  <2>8. i \in Bodies(lang, tree) /\ i \in Around(tree, j) /\ i \in DeclaredIn(f)
    BY <2>5, <2>7 DEF Bodies
  <2>9. call[1] = i /\ call[2] = j /\ UID(f, i) = NodeUID(f, lang, tree, i)
    BY <2>4, <2>5, <2>8
  <2>10. ref \in RefsIn(f)
    <3>1. ref \in extractCalls(f, lang, tree, i)
      BY <2>4, <2>8 DEF extractCalls
    <3>2. ref \in CallRefs(f, lang, tree)
      BY <2>8, <3>1, Zenon DEF CallRefs
    <3>3. QED
      BY <3>2, Zenon DEF RefsIn, AllRefs
  <2>11. ref.from = UID(f, i) /\ ref.type = "CALLS" /\ ref.name = tree[j].name /\ ref.of # "chain"
    BY <2>4, <2>9 DEF Ref
  <2>12. Handled(f, ref)
    BY <2>2, <2>3, <2>10
  <2>13. Outcomes(f, ref) = Resolve(f, tree[j].name)
    BY <2>11 DEF Outcomes
  <2>14. /\ Resolve(f, tree[j].name) = {} => meant = {}
         /\ \A o \in Resolve(f, tree[j].name) : \E c \in meant : o.to = UID(c[1], c[2])
    BY <2>1, <2>2, ResolveMeans
  <2>15. CASE Outcomes(f, ref) = {}
    BY <2>9, <2>13, <2>14, <2>15 DEF UIDs
  <2>16. CASE Outcomes(f, ref) # {}
    <3>1. PICK o \in Outcomes(f, ref) : Dropped(Edge(ref, o)) \/ Edge(ref, o) \in edges
      BY <2>3, <2>12, <2>16 DEF Handled
    <3>2. o.to \in UIDs(meant)
      BY <2>13, <2>14, <3>1 DEF UIDs
    <3>3. Edge(ref, o).type = "CALLS" /\ Edge(ref, o).from = UID(f, i) /\ Edge(ref, o).to = o.to
      BY <2>11 DEF Edge
    <3>4. CASE Dropped(Edge(ref, o))
      BY <2>9, <3>2, <3>3, <3>4 DEF Dropped
    <3>5. CASE Edge(ref, o) \in edges
      BY <2>9, <3>2, <3>3, <3>5
    <3>6. QED
      BY <3>1, <3>4, <3>5
  <2>17. QED
    BY <2>15, <2>16
<1>2. QED
  BY <1>1, ResolverInvariant, PTL
=============================================================================
