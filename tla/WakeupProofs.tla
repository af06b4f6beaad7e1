---------------------------- MODULE WakeupProofs ----------------------------
(***************************************************************************)
(* Proofs that nobody is left waiting for a wake-up that has been given    *)
(* away.  KeyedEvent, for any threads, keys and processes: a waiter and a  *)
(* releaser do not miss each other, and a thread has a wake-up exactly     *)
(* when it was taken off the queue.  LazyFlush, for any number of hives    *)
(* and of hives per work item: a timer that goes off has the worker        *)
(* queued, if the system is suspended only between work items, and a       *)
(* complete sweep passes over no hive but those that would shrink.         *)
(***************************************************************************)
EXTENDS KeyedEvent, FiniteSetTheorems, SequenceTheorems, TLAPS

Places == 1 .. Len(queue)

Sleeping == {"wait", "cancel"}

(* A thread is queued once, and only while it sleeps or gives up.          *)
QueueInv ==
    /\ \A i, j \in Places : queue[i] = queue[j] => i = j
    /\ \A i \in Places : pc[queue[i]] \in Sleeping /\ value[queue[i]] \in KeyValues

(* Releasers are at the front of the queue, which is what allows a wait to *)
(* stop its search at the first waiter.                                    *)
ReleasersFirst ==
    \A i, j \in Places : i < j /\ value[queue[j]].release => value[queue[i]].release

(* The call of t has been matched and has not returned.                    *)
Matched(t) == pc[t] \in {"wait", "cancel", "await"} /\ ~InQueue(t)

(* u is about to release the semaphore of t.                               *)
Wakes(u, t) == pc[u] = "signal" /\ target[u] = t

(* A wake-up is either on its way from one thread or in the semaphore.     *)
WakeInv ==
    \A t \in Threads :
        /\ sem[t] = 1 => Matched(t) /\ \A u \in Threads : ~Wakes(u, t)
        /\ \A u \in Threads : Wakes(u, t) => Matched(t)
        /\ \A u, v \in Threads : Wakes(u, t) /\ Wakes(v, t) => u = v
        /\ Matched(t) => sem[t] = 1 \/ \E u \in Threads : Wakes(u, t)
        /\ pc[t] = "await" => ~InQueue(t)
        /\ pc[t] = "signal" => target[t] \in Threads

(* The inductive invariant.                                                *)
IInv == TypeOK /\ QueueInv /\ ReleasersFirst /\ NoneMissed /\ WakeInv

-----------------------------------------------------------------------------
(* What Remove leaves of a queue, and where.                               *)
LEMMA RemoveFacts ==
    ASSUME NEW S, NEW q \in Seq(S), NEW i \in 1 .. Len(q)
    PROVE  /\ Remove(q, i) \in Seq(S)
           /\ Len(Remove(q, i)) = Len(q) - 1
           /\ \A j \in 1 .. Len(q) - 1 :
                 Remove(q, i)[j] = IF j < i THEN q[j] ELSE q[j + 1]
<1> DEFINE a == SubSeq(q, 1, i - 1)
           b == SubSeq(q, i + 1, Len(q))
<1>1. Len(q) \in Nat /\ i \in Int /\ i >= 1 /\ i <= Len(q)
  BY LenProperties
<1>2. \A j \in 1 .. Len(q) : q[j] \in S
  BY ElementOfSeq
<1>3. /\ a \in Seq(S) /\ Len(a) = i - 1
      /\ \A j \in 1 .. i - 1 : a[j] = q[j]
  <2>1. \A j \in 1 .. i - 1 : q[j] \in S
    BY <1>1, <1>2
  <2>2. /\ a \in Seq(S)
        /\ Len(a) = IF 1 <= i - 1 THEN (i - 1) - 1 + 1 ELSE 0
        /\ \A j \in 1 .. (i - 1) - 1 + 1 : a[j] = q[1 + j - 1]
    BY <1>1, <2>1, SubSeqProperties
  <2> HIDE DEF a
  <2> QED  BY <1>1, <2>2
<1>4. /\ b \in Seq(S) /\ Len(b) = Len(q) - i
      /\ \A j \in 1 .. Len(q) - i : b[j] = q[i + j]
  <2>1. \A j \in i + 1 .. Len(q) : q[j] \in S
    BY <1>1, <1>2
  <2>2. /\ b \in Seq(S)
        /\ Len(b) = IF i + 1 <= Len(q) THEN Len(q) - (i + 1) + 1 ELSE 0
        /\ \A j \in 1 .. Len(q) - (i + 1) + 1 : b[j] = q[(i + 1) + j - 1]
    BY <1>1, <2>1, SubSeqProperties
  <2> HIDE DEF b
  <2> QED  BY <1>1, <2>2
<1> HIDE DEF a, b
<1>5. /\ a \o b \in Seq(S)
      /\ Len(a \o b) = Len(a) + Len(b)
      /\ \A j \in 1 .. Len(a) + Len(b) :
            (a \o b)[j] = IF j <= Len(a) THEN a[j] ELSE b[j - Len(a)]
  BY Zenon, <1>3, <1>4, ConcatProperties
<1>6. \A j \in 1 .. Len(q) - 1 : (a \o b)[j] = IF j < i THEN q[j] ELSE q[j + 1]
  BY <1>1, <1>3, <1>4, <1>5
<1>7. Remove(q, i) = a \o b
  BY DEF Remove, a, b
<1>8. Len(a \o b) = Len(q) - 1
  BY <1>1, <1>3, <1>4, <1>5
<1> QED
  BY Zenon, <1>5, <1>6, <1>7, <1>8, Zenon

(* The place in the queue from which Remove(queue, i) takes its j-th.      *)
From(i, j) == IF j < i THEN j ELSE j + 1

(* Taking a thread off the queue keeps the invariants of the queue: no     *)
(* value, process or pc of another queued thread changes.                  *)
LEMMA RemoveKeepsQueue ==
    ASSUME TypeOK, QueueInv, ReleasersFirst, NoneMissed,
           NEW i \in Places, queue' = Remove(queue, i), process' = process,
           \A t \in Threads : t # queue[i] => value'[t] = value[t],
           \A t \in Threads : t # queue[i] /\ pc[t] \in Sleeping => pc'[t] = pc[t]
    PROVE  /\ queue' \in Seq(Threads)
           /\ QueueInv' /\ ReleasersFirst' /\ NoneMissed'
           /\ \A t \in Threads : InQueue(t)' <=> InQueue(t) /\ t # queue[i]
<1>1. /\ queue' \in Seq(Threads) /\ Len(queue') = Len(queue) - 1
      /\ \A j \in 1 .. Len(queue) - 1 : queue'[j] = queue[From(i, j)]
  <2>1. queue \in Seq(Threads) /\ i \in 1 .. Len(queue)
    BY DEF TypeOK, Places
  <2>2. /\ Remove(queue, i) \in Seq(Threads)
        /\ Len(Remove(queue, i)) = Len(queue) - 1
        /\ \A j \in 1 .. Len(queue) - 1 :
              Remove(queue, i)[j] = IF j < i THEN queue[j] ELSE queue[j + 1]
    BY <2>1, RemoveFacts
  <2> QED  BY <2>2 DEF From
<1>2. Len(queue) \in Nat /\ i \in 1 .. Len(queue) /\ \A j \in Places : queue[j] \in Threads
  BY LenProperties, ElementOfSeq DEF TypeOK, Places
<1>3. \A j \in Places' : /\ From(i, j) \in Places /\ From(i, j) # i
                         /\ queue'[j] = queue[From(i, j)]
                         /\ queue'[j] \in Threads /\ queue'[j] # queue[i]
                         /\ j \in Int
  <2> TAKE j \in Places'
  <2>1. j \in 1 .. Len(queue) - 1
    BY <1>1 DEF Places
  <2>2. From(i, j) \in Places /\ From(i, j) # i /\ j \in Int
    BY <1>2, <2>1 DEF Places, From
  <2> QED  BY ZenonT(60), <1>1, <1>2, <2>1, <2>2 DEF QueueInv
<1>4. \A j, k \in Places' : /\ From(i, j) = From(i, k) => j = k
                            /\ j < k => From(i, j) < From(i, k)
  BY <1>2, <1>3 DEF From, Places
<1>5. \A j \in Places' : /\ value'[queue'[j]] = value[queue[From(i, j)]]
                         /\ process'[queue'[j]] = process[queue[From(i, j)]]
                         /\ pc'[queue'[j]] = pc[queue[From(i, j)]]
  BY <1>3 DEF QueueInv
<1>6. QueueInv'
  BY <1>3, <1>4, <1>5 DEF QueueInv
<1>7. ReleasersFirst'
  BY <1>3, <1>4, <1>5 DEF ReleasersFirst
<1>8. NoneMissed'
  <2>1. SUFFICES ASSUME NEW j \in Places', NEW k \in Places',
                        value'[queue'[j]].key = value'[queue'[k]].key,
                        value'[queue'[j]].release # value'[queue'[k]].release,
                        process'[queue'[j]] = process'[queue'[k]]
                 PROVE  FALSE
    BY DEF NoneMissed, Places
  <2>2. From(i, j) \in Places /\ From(i, k) \in Places
    BY <1>3
  <2> QED  BY <1>5, <2>1, <2>2 DEF NoneMissed, Places
<1>9. ASSUME NEW t \in Threads
      PROVE  InQueue(t)' <=> InQueue(t) /\ t # queue[i]
  <2>1. ASSUME InQueue(t)' PROVE InQueue(t) /\ t # queue[i]
    BY <1>3, <2>1 DEF InQueue, Places
  <2>2. ASSUME InQueue(t), t # queue[i] PROVE InQueue(t)'
    <3>1. PICK k \in Places : queue[k] = t
      BY <2>2 DEF InQueue, Places
    <3> DEFINE j == IF k < i THEN k ELSE k - 1
    <3>2. k # i /\ k \in Int
      BY <2>2, <3>1 DEF Places
    <3>3. j \in 1 .. Len(queue) - 1 /\ From(i, j) = k
      BY <1>2, <3>2 DEF From, Places
    <3> QED  BY <1>1, <3>1, <3>3 DEF InQueue
  <2> QED  BY <2>1, <2>2
<1> QED
  BY <1>1, <1>6, <1>7, <1>8, <1>9

(* The place in the queue from which Insert(t, release) takes its j-th,    *)
(* and the place of t itself.                                              *)
Source(release, j) == IF release THEN j - 1 ELSE j
Own(release) == IF release THEN 1 ELSE Len(queue) + 1

(* What Insert makes of the queue.                                         *)
LEMMA InsertFacts ==
    ASSUME queue \in Seq(Threads), NEW t \in Threads, NEW release \in BOOLEAN
    PROVE  /\ Insert(t, release) \in Seq(Threads)
           /\ Len(Insert(t, release)) = Len(queue) + 1
           /\ Insert(t, release)[Own(release)] = t
           /\ \A j \in 1 .. Len(queue) + 1 :
                 j # Own(release) => Insert(t, release)[j] = queue[Source(release, j)]
<1>1. Len(queue) \in Nat
  BY LenProperties
<1>2. CASE release
  <2>1. <<t>> \in Seq(Threads) /\ Len(<<t>>) = 1 /\ <<t>>[1] = t
    OBVIOUS
  <2> DEFINE q == <<t>> \o queue
  <2>2. /\ q \in Seq(Threads) /\ Len(q) = 1 + Len(queue)
        /\ \A j \in 1 .. 1 + Len(queue) :
              q[j] = IF j <= 1 THEN <<t>>[j] ELSE queue[j - 1]
    BY <2>1, ConcatProperties
  <2>3. Insert(t, release) = q
    BY <1>2 DEF Insert
  <2> HIDE DEF q
  <2>4. q[1] = t
    BY <1>1, <2>1, <2>2
  <2>5. \A j \in 1 .. Len(queue) + 1 : j # 1 => q[j] = queue[j - 1]
    BY <1>1, <2>2
  <2>6. Own(release) = 1 /\ \A j : Source(release, j) = j - 1
    BY <1>2 DEF Own, Source
  <2>7. Len(q) = Len(queue) + 1
    BY <1>1, <2>2
  <2> QED  BY Zenon, <2>2, <2>3, <2>4, <2>5, <2>6, <2>7, Zenon
<1>3. CASE ~release
  <2> DEFINE q == Append(queue, t)
  <2>1. /\ q \in Seq(Threads) /\ Len(q) = Len(queue) + 1
        /\ \A j \in 1 .. Len(queue) : q[j] = queue[j]
        /\ q[Len(queue) + 1] = t
    BY <1>1, AppendProperties
  <2>2. Insert(t, release) = q
    BY <1>3 DEF Insert
  <2> HIDE DEF q
  <2> QED  BY <1>1, <1>3, <2>1, <2>2 DEF Own, Source
<1> QED
  BY <1>2, <1>3

(* Queueing a thread whose search found no match keeps the invariants of   *)
(* the queue.                                                              *)
LEMMA InsertKeepsQueue ==
    ASSUME TypeOK, QueueInv, ReleasersFirst, NoneMissed,
           NEW t \in Threads, NEW k \in Keys, NEW release \in BOOLEAN,
           CallQueues(t, k, release)
    PROVE  /\ queue' \in Seq(Threads)
           /\ QueueInv' /\ ReleasersFirst' /\ NoneMissed'
           /\ \A u \in Threads : InQueue(u)' <=> InQueue(u) \/ u = t
<1> DEFINE own == Own(release)
           new == [key |-> k, release |-> release]
<1>1. Len(queue) \in Nat /\ \A j \in Places : queue[j] \in Threads
  BY LenProperties, ElementOfSeq DEF TypeOK, Places
<1>2. /\ queue' \in Seq(Threads) /\ Len(queue') = Len(queue) + 1 /\ queue'[own] = t
      /\ \A j \in 1 .. Len(queue) + 1 :
            j # own => queue'[j] = queue[Source(release, j)]
  BY InsertFacts DEF CallQueues, TypeOK
<1>3. own \in Places'
  BY <1>1, <1>2 DEF Places, Own
<1>4. /\ new \in KeyValues /\ value'[t] = new /\ pc'[t] = "wait"
      /\ \A u \in Threads : u # t => value'[u] = value[u] /\ pc'[u] = pc[u]
      /\ process' = process
  BY DEF CallQueues, TypeOK, KeyValues
<1>5. \A j \in Places : queue[j] # t
  <2>1. pc[t] = "idle"
    BY DEF CallQueues
  <2> QED  BY <2>1 DEF QueueInv, Sleeping
<1>6. ASSUME NEW j \in Places', j # own
      PROVE  /\ j \in Int /\ Source(release, j) \in Places
             /\ queue'[j] = queue[Source(release, j)] /\ queue'[j] \in Threads /\ queue'[j] # t
             /\ value'[queue'[j]] = value[queue[Source(release, j)]]
             /\ pc'[queue'[j]] = pc[queue[Source(release, j)]]
  <2>1. j \in 1 .. Len(queue) + 1 /\ j \in Int
    BY <1>1, <1>2 DEF Places
  <2>2. Source(release, j) \in Places
    BY <1>1, <1>6, <2>1 DEF Places, Source, Own
  <2>3. queue'[j] = queue[Source(release, j)]
    BY <1>2, <1>6, <2>1
  <2> QED  BY <1>1, <1>4, <1>5, <2>1, <2>2, <2>3
<1>7. \A i, j \in Places' :
         i # own /\ j # own =>
            /\ Source(release, i) = Source(release, j) => i = j
            /\ i < j => Source(release, i) < Source(release, j)
  BY <1>6 DEF Source
<1> HIDE DEF own, new
<1>8. QueueInv'
  <2>1. ASSUME NEW i \in Places', NEW j \in Places', queue'[i] = queue'[j]
        PROVE  i = j
    <3>1. CASE i = own
      BY <1>2, <1>6, <2>1, <3>1
    <3>2. CASE j = own
      BY <1>2, <1>6, <2>1, <3>2
    <3>3. CASE i # own /\ j # own
      BY <1>6, <1>7, <2>1, <3>3 DEF QueueInv
    <3> QED  BY <3>1, <3>2, <3>3
  <2>2. ASSUME NEW i \in Places'
        PROVE  pc'[queue'[i]] \in Sleeping /\ value'[queue'[i]] \in KeyValues
    <3>1. CASE i = own
      BY <1>2, <1>4, <3>1 DEF Sleeping
    <3>2. CASE i # own
      BY <1>6, <3>2 DEF QueueInv
    <3> QED  BY <3>1, <3>2
  <2> QED  BY <2>1, <2>2 DEF QueueInv
<1>9. new.key = k /\ new.release = release
  BY DEF new
<1>10. ReleasersFirst'
  <2>1. SUFFICES ASSUME NEW i \in Places', NEW j \in Places', i < j,
                        value'[queue'[j]].release
                 PROVE  value'[queue'[i]].release
    BY DEF ReleasersFirst
  <2>2. CASE i # own /\ j # own
    BY <1>6, <1>7, <2>1, <2>2 DEF ReleasersFirst
  <2>3. CASE i = own
    <3>1. own < Len(queue) + 1
      BY <1>1, <1>2, <2>1, <2>3 DEF Places
    <3>2. release
      BY <1>1, <3>1 DEF own, Own
    <3> QED  BY Zenon, <1>2, <1>4, <1>9, <2>3, <3>2
  <2>4. CASE j = own
    <3>1. 1 < own
      BY <1>1, <1>2, <2>1, <2>4 DEF Places
    <3>2. ~release
      BY <3>1 DEF own, Own
    <3> QED  BY <1>2, <1>4, <1>9, <2>1, <2>4, <3>2
  <2> QED  BY <2>2, <2>3, <2>4
<1>11. ASSUME NEW i \in Places, value[queue[i]].key = k,
              value[queue[i]].release # release,
              process[queue[i]] = process[t]
       PROVE  FALSE
  <2>1. value[queue[i]] \in KeyValues
    BY DEF QueueInv
  <2>2. value[queue[i]] = [key |-> k, release |-> ~release]
    BY <1>11, <2>1 DEF KeyValues
  <2>3. Reached(release, i)
    <3>1. ASSUME ~release, NEW j \in 1 .. i
          PROVE  value[queue[j]].release
      <4>1. j \in Places /\ (j < i \/ j = i)
        BY <1>1, <3>1 DEF Places
      <4>2. value[queue[i]].release
        BY <1>11, <2>1, <3>1 DEF KeyValues
      <4> QED  BY Zenon, <4>1, <4>2 DEF ReleasersFirst
    <3> QED  BY <3>1 DEF Reached
  <2>4. Matches(t, k, release, i)
    BY <1>11, <2>2, <2>3 DEF Matches
  <2> QED  BY <2>4 DEF CallQueues, Places
<1>12. NoneMissed'
  <2>1. SUFFICES ASSUME NEW i \in Places', NEW j \in Places',
                        value'[queue'[i]].key = value'[queue'[j]].key,
                        value'[queue'[i]].release # value'[queue'[j]].release,
                        process'[queue'[i]] = process'[queue'[j]]
                 PROVE  FALSE
    BY DEF NoneMissed, Places
  <2>2. CASE i # own /\ j # own
    BY <1>4, <1>6, <2>1, <2>2 DEF NoneMissed, Places
  <2>3. CASE i = own /\ j # own
    BY <1>2, <1>4, <1>6, <1>9, <1>11, <2>1, <2>3
  <2>4. CASE i # own /\ j = own
    BY <1>2, <1>4, <1>6, <1>9, <1>11, <2>1, <2>4
  <2>5. CASE i = own /\ j = own
    BY <2>1, <2>5
  <2> QED  BY <2>2, <2>3, <2>4, <2>5
<1>13. ASSUME NEW u \in Threads
       PROVE  InQueue(u)' <=> InQueue(u) \/ u = t
  <2>1. ASSUME InQueue(u)' PROVE InQueue(u) \/ u = t
    <3>1. PICK j \in Places' : queue'[j] = u
      BY <2>1 DEF InQueue, Places
    <3> QED  BY <1>2, <1>6, <3>1 DEF InQueue, Places
  <2>2. ASSUME InQueue(u) PROVE InQueue(u)'
    <3>1. PICK i \in Places : queue[i] = u
      BY <2>2 DEF InQueue, Places
    <3> DEFINE j == IF release THEN i + 1 ELSE i
    <3>2. j \in Places' /\ j # own /\ Source(release, j) = i
      BY <1>1, <1>2 DEF Places, own, Own, Source
    <3> QED  BY <1>6, <3>1, <3>2 DEF InQueue, Places
  <2>3. InQueue(t)'
    BY <1>2, <1>3 DEF InQueue, Places
  <2> QED  BY <2>1, <2>2, <2>3
<1> QED
  BY <1>2, <1>8, <1>10, <1>12, <1>13

(* A step that leaves the queue and the values of the queued threads alone *)
(* and moves no queued thread but from its wait to giving up.              *)
LEMMA QueueUntouched ==
    ASSUME TypeOK, QueueInv, ReleasersFirst, NoneMissed,
           queue' = queue, process' = process,
           \A i \in Places : /\ value'[queue[i]] = value[queue[i]]
                             /\ pc'[queue[i]] \in Sleeping
    PROVE  QueueInv' /\ ReleasersFirst' /\ NoneMissed'
<1>1. Places' = Places
  BY DEF Places
<1>2. QueueInv'
  BY <1>1 DEF QueueInv
<1>3. ReleasersFirst'
  BY <1>1 DEF ReleasersFirst
<1>4. NoneMissed'
  BY DEF NoneMissed, Places
<1> QED
  BY <1>2, <1>3, <1>4

-----------------------------------------------------------------------------
(* CallQueues preserves the invariant: the thread that queues up is owed   *)
(* nothing, before and after.                                              *)
LEMMA CallQueuesStep ==
    ASSUME IInv, NEW t \in Threads, NEW k \in Keys, NEW release \in BOOLEAN,
           CallQueues(t, k, release)
    PROVE  IInv'
<1> USE DEF IInv
<1>1. /\ queue' \in Seq(Threads) /\ QueueInv' /\ ReleasersFirst' /\ NoneMissed'
      /\ \A u \in Threads : InQueue(u)' <=> InQueue(u) \/ u = t
  BY InsertKeepsQueue
<1>2. TypeOK'
  BY <1>1 DEF TypeOK, CallQueues, PCs, KeyValues
<1>3. /\ pc[t] = "idle" /\ pc'[t] = "wait" /\ sem' = sem /\ target' = target
      /\ \A u \in Threads : u # t => pc'[u] = pc[u]
  BY DEF TypeOK, CallQueues
<1>4. \A u \in Threads : Matched(u)' <=> Matched(u)
  BY <1>1, <1>3 DEF Matched
<1>5. \A u, v \in Threads : Wakes(u, v)' <=> Wakes(u, v)
  BY <1>3 DEF Wakes
<1>6. WakeInv'
  BY <1>1, <1>3, <1>4, <1>5 DEF WakeInv
<1> QED
  BY <1>1, <1>2, <1>6

(* CallTakes preserves the invariant: the thread taken off the queue, and  *)
(* only that one, has a wake-up on its way from t.                         *)
LEMMA CallTakesStep ==
    ASSUME IInv, NEW t \in Threads, NEW k \in Keys, NEW release \in BOOLEAN,
           CallTakes(t, k, release)
    PROVE  IInv'
<1> USE DEF IInv
<1>1. PICK i \in Places : /\ target' = [target EXCEPT ![t] = queue[i]]
                          /\ queue' = Remove(queue, i)
  BY Zenon DEF CallTakes, Places
<1> DEFINE x == queue[i]
<1>2. x \in Threads /\ pc[x] \in Sleeping /\ InQueue(x)
  BY ElementOfSeq DEF TypeOK, QueueInv, Places, InQueue
<1>3. /\ pc[t] = "idle" /\ pc'[t] = "signal" /\ sem' = sem /\ value' = value
      /\ process' = process
      /\ \A u \in Threads : u # t => pc'[u] = pc[u]
  BY DEF TypeOK, CallTakes
<1>4. /\ target'[t] = x /\ x # t
      /\ \A u \in Threads : u # t => target'[u] = target[u]
  BY <1>1, <1>2, <1>3 DEF TypeOK, Sleeping
<1> HIDE DEF x
<1>5. /\ queue' \in Seq(Threads) /\ QueueInv' /\ ReleasersFirst' /\ NoneMissed'
      /\ \A u \in Threads : InQueue(u)' <=> InQueue(u) /\ u # x
  <2>1. \A u \in Threads : u # queue[i] => value'[u] = value[u]
    BY <1>3
  <2>2. \A u \in Threads : u # queue[i] /\ pc[u] \in Sleeping => pc'[u] = pc[u]
    BY <1>3 DEF Sleeping
  <2> QED  BY <1>1, <1>3, <2>1, <2>2, RemoveKeepsQueue DEF x
<1>6. TypeOK'
  BY <1>1, <1>2, <1>5 DEF TypeOK, CallTakes, PCs, x
<1>7. \A u \in Threads : Matched(u)' <=> Matched(u) \/ u = x
  BY <1>2, <1>3, <1>4, <1>5 DEF Matched, Sleeping
<1>8. \A u, v \in Threads : Wakes(u, v)' <=> Wakes(u, v) \/ (u = t /\ v = x)
  BY <1>2, <1>3, <1>4 DEF Wakes
<1>9. /\ ~Matched(x) /\ sem[x] # 1
      /\ \A u \in Threads : ~Wakes(u, x) /\ ~Wakes(t, u)
  BY <1>2, <1>3 DEF Matched, WakeInv, Wakes
<1>10. WakeInv'
  <2> SUFFICES ASSUME NEW u \in Threads
               PROVE  /\ sem'[u] = 1 => Matched(u)' /\ \A v \in Threads : ~Wakes(v, u)'
                      /\ \A v \in Threads : Wakes(v, u)' => Matched(u)'
                      /\ \A v, w \in Threads : Wakes(v, u)' /\ Wakes(w, u)' => v = w
                      /\ Matched(u)' => sem'[u] = 1 \/ \E v \in Threads : Wakes(v, u)'
                      /\ pc'[u] = "await" => ~InQueue(u)'
                      /\ pc'[u] = "signal" => target'[u] \in Threads
    BY DEF WakeInv
  <2>1. CASE u = x
    BY <1>2, <1>3, <1>4, <1>7, <1>8, <1>9, <2>1 DEF WakeInv, Sleeping
  <2>2. CASE u # x
    BY <1>2, <1>3, <1>4, <1>5, <1>7, <1>8, <2>2 DEF WakeInv
  <2> QED  BY <2>1, <2>2
<1> QED
  BY <1>5, <1>6, <1>10

(* Signal preserves the invariant: the semaphore of the target was not     *)
(* signaled, and nobody else is about to release it.                       *)
LEMMA SignalStep ==
    ASSUME IInv, NEW t \in Threads, Signal(t)
    PROVE  IInv'
<1> USE DEF IInv
<1> DEFINE x == target[t]
<1>1. /\ pc[t] = "signal" /\ pc'[t] = "idle"
      /\ queue' = queue /\ value' = value /\ process' = process
      /\ \A u \in Threads : u # t => pc'[u] = pc[u] /\ target'[u] = target[u]
  BY DEF TypeOK, Signal
<1>2. x \in Threads /\ Wakes(t, x) /\ Matched(x)
  BY <1>1 DEF WakeInv, Wakes
<1>3. sem[x] = 0 /\ x # t
  BY <1>1, <1>2 DEF TypeOK, WakeInv, Matched
<1>4. sem'[x] = 1 /\ \A u \in Threads : u # x => sem'[u] = sem[u]
  BY <1>2, <1>3 DEF TypeOK, Signal
<1> HIDE DEF x
<1>5. QueueInv' /\ ReleasersFirst' /\ NoneMissed'
  <2>1. \A i \in Places : queue[i] \in Threads /\ pc[queue[i]] \in Sleeping
    BY ElementOfSeq DEF TypeOK, QueueInv, Places
  <2>2. \A i \in Places : value'[queue[i]] = value[queue[i]] /\ pc'[queue[i]] \in Sleeping
    BY <1>1, <2>1 DEF Sleeping
  <2> QED  BY <1>1, <2>2, QueueUntouched
<1>6. TypeOK'
  <2>1. sem' \in [Threads -> {0, 1}]
    BY <1>2, <1>3 DEF TypeOK, Signal, x
  <2> QED  BY <2>1 DEF TypeOK, Signal, PCs
<1>7. \A u \in Threads : /\ Matched(u)' <=> Matched(u)
                         /\ InQueue(u)' <=> InQueue(u)
  BY <1>1 DEF Matched, InQueue
<1>8. \A u, v \in Threads : Wakes(u, v)' <=> Wakes(u, v) /\ u # t
  BY <1>1 DEF Wakes
<1>9. \A u, v \in Threads : Wakes(u, v)' => v # x
  BY <1>2, <1>8 DEF WakeInv
<1>10. \A v \in Threads : v # x => ~Wakes(t, v)
  BY DEF Wakes, x
<1>11. WakeInv'
  <2> SUFFICES ASSUME NEW u \in Threads
               PROVE  /\ sem'[u] = 1 => Matched(u)' /\ \A v \in Threads : ~Wakes(v, u)'
                      /\ \A v \in Threads : Wakes(v, u)' => Matched(u)'
                      /\ \A v, w \in Threads : Wakes(v, u)' /\ Wakes(w, u)' => v = w
                      /\ Matched(u)' => sem'[u] = 1 \/ \E v \in Threads : Wakes(v, u)'
                      /\ pc'[u] = "await" => ~InQueue(u)'
                      /\ pc'[u] = "signal" => target'[u] \in Threads
    BY DEF WakeInv
  <2>1. CASE u = x
    BY <1>1, <1>2, <1>3, <1>4, <1>7, <1>9, <2>1 DEF WakeInv
  <2>2. CASE u # x
    BY <1>1, <1>4, <1>7, <1>8, <1>10, <2>2 DEF WakeInv
  <2> QED  BY <2>1, <2>2
<1> QED
  BY <1>5, <1>6, <1>11

(* Taking a count of the semaphore preserves the invariant: the thread was *)
(* matched, is in no queue and has no other wake-up.                       *)
LEMMA TakeSemaphoreStep ==
    ASSUME IInv, NEW t \in Threads, TakeSemaphore(t)
    PROVE  IInv'
<1> USE DEF IInv
<1>1. /\ sem[t] = 1 /\ sem'[t] = 0 /\ pc'[t] = "idle"
      /\ queue' = queue /\ target' = target /\ process' = process
      /\ \A u \in Threads : u # t => /\ pc'[u] = pc[u] /\ sem'[u] = sem[u]
                                     /\ value'[u] = value[u]
  BY DEF TypeOK, TakeSemaphore
<1>2. Matched(t) /\ \A u \in Threads : ~Wakes(u, t)
  BY <1>1 DEF WakeInv
<1>3. pc[t] # "signal" /\ \A i \in Places : queue[i] # t
  BY <1>2 DEF Matched, InQueue, Places
<1>4. QueueInv' /\ ReleasersFirst' /\ NoneMissed'
  <2>1. \A i \in Places : queue[i] \in Threads /\ pc[queue[i]] \in Sleeping
    BY ElementOfSeq DEF TypeOK, QueueInv, Places
  <2>2. \A i \in Places : value'[queue[i]] = value[queue[i]] /\ pc'[queue[i]] \in Sleeping
    BY <1>1, <1>3, <2>1
  <2> QED  BY <1>1, <2>2, QueueUntouched
<1>5. TypeOK'
  BY <1>1 DEF TypeOK, TakeSemaphore, PCs
<1>6. \A u \in Threads : /\ Matched(u)' <=> Matched(u) /\ u # t
                         /\ InQueue(u)' <=> InQueue(u)
  BY <1>1 DEF Matched, InQueue
<1>7. \A u, v \in Threads : Wakes(u, v)' <=> Wakes(u, v)
  BY <1>1, <1>3 DEF Wakes
<1>8. WakeInv'
  BY <1>1, <1>2, <1>6, <1>7 DEF WakeInv
<1> QED
  BY <1>4, <1>5, <1>8

(* WaitFails preserves the invariant: a thread that gives up is still      *)
(* queued, or still owed its wake-up.                                      *)
LEMMA WaitFailsStep ==
    ASSUME IInv, NEW t \in Threads, WaitFails(t)
    PROVE  IInv'
<1> USE DEF IInv
<1>1. /\ pc[t] = "wait" /\ pc'[t] = "cancel"
      /\ UNCHANGED <<process, queue, value, sem, target>>
      /\ \A u \in Threads : u # t => pc'[u] = pc[u]
  BY DEF TypeOK, WaitFails
<1>2. QueueInv' /\ ReleasersFirst' /\ NoneMissed'
  <2>1. \A i \in Places : queue[i] \in Threads /\ pc[queue[i]] \in Sleeping
    BY ElementOfSeq DEF TypeOK, QueueInv, Places
  <2>2. \A i \in Places : value'[queue[i]] = value[queue[i]] /\ pc'[queue[i]] \in Sleeping
    BY <1>1, <2>1 DEF Sleeping
  <2> QED  BY <1>1, <2>2, QueueUntouched
<1>3. TypeOK'
  BY DEF TypeOK, WaitFails, PCs
<1>4. \A u \in Threads : /\ Matched(u)' <=> Matched(u)
                         /\ InQueue(u)' <=> InQueue(u)
  BY <1>1 DEF Matched, InQueue
<1>5. \A u, v \in Threads : Wakes(u, v)' <=> Wakes(u, v)
  BY <1>1 DEF Wakes
<1>6. WakeInv'
  BY <1>1, <1>4, <1>5 DEF WakeInv
<1> QED
  BY <1>2, <1>3, <1>6

(* Cancel preserves the invariant: a thread that is still queued leaves    *)
(* and is owed nothing; one that is not waits for the wake-up it is owed.  *)
LEMMA CancelStep ==
    ASSUME IInv, NEW t \in Threads, Cancel(t)
    PROVE  IInv'
<1> USE DEF IInv
<1>1. /\ pc[t] = "cancel" /\ process' = process /\ sem' = sem /\ target' = target
  BY DEF Cancel
<1>2. ASSUME NEW i \in Places, queue[i] = t, queue' = Remove(queue, i),
             value' = [value EXCEPT ![t] = None], pc' = [pc EXCEPT ![t] = "idle"]
      PROVE  IInv'
  <2>1. /\ pc'[t] = "idle"
        /\ \A u \in Threads : u # t => pc'[u] = pc[u] /\ value'[u] = value[u]
    BY <1>2 DEF TypeOK
  <2>2. /\ queue' \in Seq(Threads) /\ QueueInv' /\ ReleasersFirst' /\ NoneMissed'
        /\ \A u \in Threads : InQueue(u)' <=> InQueue(u) /\ u # t
    BY <1>1, <1>2, <2>1, RemoveKeepsQueue
  <2>3. TypeOK'
    BY <1>1, <1>2, <2>2 DEF TypeOK, PCs
  <2>4. InQueue(t)
    BY <1>2 DEF InQueue, Places
  <2>5. \A u \in Threads : Matched(u)' <=> Matched(u)
    BY <2>1, <2>2, <2>4 DEF Matched
  <2>6. \A u, v \in Threads : Wakes(u, v)' <=> Wakes(u, v)
    BY <1>1, <2>1 DEF Wakes
  <2>7. WakeInv'
    BY <1>1, <2>1, <2>2, <2>5, <2>6 DEF WakeInv
  <2> QED  BY <2>2, <2>3, <2>7
<1>3. ASSUME \A i \in Places : queue[i] # t, pc' = [pc EXCEPT ![t] = "await"],
             queue' = queue, value' = value
      PROVE  IInv'
  <2>1. /\ pc'[t] = "await"
        /\ \A u \in Threads : u # t => pc'[u] = pc[u]
    BY <1>3 DEF TypeOK
  <2>2. QueueInv' /\ ReleasersFirst' /\ NoneMissed'
    <3>1. \A i \in Places : queue[i] \in Threads /\ pc[queue[i]] \in Sleeping
      BY ElementOfSeq DEF TypeOK, QueueInv, Places
    <3>2. \A i \in Places : value'[queue[i]] = value[queue[i]] /\ pc'[queue[i]] \in Sleeping
      BY <1>3, <2>1, <3>1
    <3> QED  BY <1>1, <1>3, <3>2, QueueUntouched
  <2>3. TypeOK'
    BY <1>1, <1>3 DEF TypeOK, PCs
  <2>4. ~InQueue(t)
    BY <1>3 DEF InQueue, Places
  <2>5. \A u \in Threads : /\ Matched(u)' <=> Matched(u)
                           /\ InQueue(u)' <=> InQueue(u)
    BY <1>1, <1>3, <2>1 DEF Matched, InQueue
  <2>6. \A u, v \in Threads : Wakes(u, v)' <=> Wakes(u, v)
    BY <1>1, <2>1 DEF Wakes
  <2>7. WakeInv'
    BY <1>1, <2>1, <2>4, <2>5, <2>6 DEF WakeInv
  <2> QED  BY <2>2, <2>3, <2>7
<1> QED
  BY <1>2, <1>3 DEF Cancel, Places

-----------------------------------------------------------------------------
(* A freshly created keyed event satisfies the invariant.                  *)
LEMMA Initially == Init => IInv
<1> SUFFICES ASSUME Init PROVE IInv
  OBVIOUS
<1>1. queue = <<>> /\ Len(queue) = 0 /\ Places = {}
  BY DEF Init, Places
<1>2. TypeOK
  BY DEF Init, TypeOK, PCs
<1>3. QueueInv /\ ReleasersFirst /\ NoneMissed
  BY <1>1 DEF QueueInv, ReleasersFirst, NoneMissed, Places
<1>4. \A t \in Threads : pc[t] = "idle" /\ sem[t] = 0
  BY DEF Init
<1>5. WakeInv
  BY <1>4 DEF WakeInv, Matched, Wakes
<1> QED
  BY <1>2, <1>3, <1>5 DEF IInv

(* Every step preserves the invariant.                                     *)
LEMMA Inductive == IInv /\ [Next]_vars => IInv'
<1> SUFFICES ASSUME IInv, [Next]_vars PROVE IInv'
  OBVIOUS
<1>1. CASE UNCHANGED vars
  BY <1>1 DEF vars, IInv, TypeOK, QueueInv, ReleasersFirst, NoneMissed, WakeInv,
              Places, Matched, Wakes, InQueue
<1>2. ASSUME NEW t \in Threads, Call(t) PROVE IInv'
  BY <1>2, CallQueuesStep, CallTakesStep DEF Call
<1>3. ASSUME NEW t \in Threads, Proceed(t) PROVE IInv'
  BY <1>3, SignalStep, TakeSemaphoreStep, CancelStep
     DEF Proceed, WaitSucceeds, AwaitWake
<1>4. ASSUME NEW t \in Threads, WaitFails(t) PROVE IInv'
  BY <1>4, WaitFailsStep
<1> QED
  BY <1>1, <1>2, <1>3, <1>4 DEF Next

(* The invariant counts the wake-ups as WakeupOwed does.              *)
LEMMA CountsWakeups == IInv => WakeupOwed
<1> SUFFICES ASSUME IInv, NEW t \in Threads
             PROVE  /\ sem[t] + Cardinality(Wakers(t)) = IF Matched(t) THEN 1 ELSE 0
                    /\ pc[t] = "await" => Matched(t)
  BY DEF WakeupOwed, Matched
<1>1. sem[t] \in {0, 1} /\ \A u : u \in Wakers(t) <=> u \in Threads /\ Wakes(u, t)
  BY DEF IInv, TypeOK, Wakers, Wakes
<1>2. CASE ~Matched(t)
  <2>1. Wakers(t) = {} /\ sem[t] = 0
    BY <1>1, <1>2 DEF IInv, WakeInv
  <2>2. Cardinality(Wakers(t)) = 0
    BY <2>1, FS_EmptySet
  <2> QED  BY <1>2, <2>1, <2>2 DEF IInv, WakeInv, Matched
<1>3. CASE Matched(t) /\ sem[t] = 1
  <2>1. Wakers(t) = {}
    BY <1>1, <1>3 DEF IInv, WakeInv
  <2>2. Cardinality(Wakers(t)) = 0
    BY <2>1, FS_EmptySet
  <2> QED  BY <1>3, <2>2
<1>4. CASE Matched(t) /\ sem[t] = 0
  <2>1. PICK u \in Threads : Wakes(u, t)
    BY <1>4 DEF IInv, WakeInv
  <2>2. Wakers(t) = {u}
    BY <1>1, <2>1 DEF IInv, WakeInv
  <2>3. Cardinality(Wakers(t)) = 1
    BY Zenon, <2>2, FS_Singleton
  <2> QED  BY <1>4, <2>3
<1> QED
  BY <1>1, <1>2, <1>3, <1>4

(* The variables keep their types; above all the count of a                *)
(* KeyedWaitSemaphore stays within its limit of 1.                         *)
THEOREM KeyedTypes == Spec => []TypeOK
<1>1. IInv => TypeOK
  BY DEF IInv
<1> QED
  BY Initially, Inductive, <1>1, PTL DEF Spec

(* NtWaitForKeyedEvent and NtReleaseKeyedEvent do not miss each other, for *)
(* any number of threads, keys and processes.                              *)
THEOREM Meeting == Spec => []NoneMissed
<1>1. IInv => NoneMissed
  BY DEF IInv
<1> QED
  BY Initially, Inductive, <1>1, PTL DEF Spec

(* Exactly the threads that were taken off the queue and have not returned *)
(* have a wake-up, whether or not their wait has failed meanwhile.         *)
THEOREM WakeupOwedOnce == Spec => []WakeupOwed
  BY Initially, Inductive, CountsWakeups, PTL DEF Spec
-----------------------------------------------------------------------------
(***************************************************************************)
(* The lazy flusher.                                                       *)
(***************************************************************************)
CONSTANTS Number, HiveCount, SuspendAnytime

VARIABLES unsaved, shrinks, flushed, force, flushPending, hold, diskFull, timer, worker,
          forced, place, left, more, refused

F == INSTANCE LazyFlush

(* There is a hive, and CmpLazyFlushHiveCount is a ULONG.                  *)
Counts == Number \in Nat \ {0} /\ HiveCount \in Nat

Sweeping == worker \in {"sweep", "finish"}

(* Behind the place of the worker the hives that are not marked are those  *)
(* it refused; a worker with the registry to itself refuses none.          *)
SweepInv ==
    Sweeping => /\ refused = {h \in F!Hives : h < place /\ ~flushed[h]}
                /\ forced => refused = {}

FlushInv == F!TypeOK /\ SweepInv

(* CmpLazyFlushPending says whether there is a work item, and there is     *)
(* none while the flusher is held.                                         *)
PendingInv == /\ flushPending \in BOOLEAN /\ hold \in BOOLEAN
              /\ flushPending <=> worker # "idle"
              /\ hold => worker = "idle"

-----------------------------------------------------------------------------
(* Going on to the next hive stays within the list.                        *)
LEMMA OnwardsFacts ==
    ASSUME Counts, F!TypeOK, worker = "sweep", NEW stop \in BOOLEAN, F!Onwards(stop)
    PROVE  /\ place \in F!Hives /\ place' = place + 1
           /\ place' \in 1 .. Number + 1
           /\ worker' \in {"sweep", "finish"}
           /\ worker' = "sweep" => place' <= Number
           /\ \A h \in F!Hives : h < place' <=> h < place \/ h = place
  BY DEF Counts, F!TypeOK, F!Onwards, F!Hives

(* Init establishes the invariant.                                         *)
LEMMA FlushInitially == ASSUME Counts PROVE F!Init => FlushInv
<1> SUFFICES ASSUME F!Init PROVE FlushInv
  OBVIOUS
<1>1. SweepInv
  BY DEF F!Init, SweepInv, Sweeping
<1>2. /\ place \in 1 .. Number + 1 /\ left \in 0 .. HiveCount + 1
      /\ worker \in {"idle", "queued", "lock", "sweep", "finish"}
      /\ worker # "sweep"
  BY DEF Counts, F!Init
<1>3. F!TypeOK
  BY Zenon, <1>2 DEF F!Init, F!TypeOK
<1> QED
  BY <1>1, <1>3 DEF FlushInv

(* The steps that are not the worker's leave what the sweep depends on.    *)
LEMMA OthersStep ==
    ASSUME Counts, FlushInv,
           \/ \E h \in F!Hives, s \in BOOLEAN : F!MarkDirty(h, s)
           \/ \E h \in F!Hives : F!CmFlushKey(h)
           \/ \E S \in SUBSET F!Hives : F!CmpDoFlushAll(S)
           \/ F!Suspend \/ F!Resume \/ F!TimerFires
           \/ UNCHANGED F!vars
    PROVE  FlushInv'
<1> USE DEF FlushInv, F!hiveVars, F!sweepVars
<1>1. /\ UNCHANGED <<flushed, F!sweepVars>>
      /\ worker' = worker \/ worker' = "queued"
  BY Zenon DEF F!MarkDirty, F!CmFlushKey, F!CmpDoFlushAll, F!Suspend, F!Resume, F!TimerFires, F!vars
<1>2. SweepInv'
  BY <1>1 DEF SweepInv, Sweeping
<1>3. CASE \E h \in F!Hives, s \in BOOLEAN : F!MarkDirty(h, s)
  BY <1>2, <1>3 DEF F!MarkDirty, F!CmpLazyFlush, F!TypeOK
<1>4. CASE \E h \in F!Hives : F!CmFlushKey(h)
  BY <1>2, <1>4 DEF F!CmFlushKey, F!TypeOK
<1>5. CASE \E S \in SUBSET F!Hives : F!CmpDoFlushAll(S)
  BY <1>2, <1>5 DEF F!CmpDoFlushAll, F!TypeOK
<1>6. CASE F!Suspend \/ F!Resume \/ F!TimerFires
  BY Zenon, <1>2, <1>6 DEF F!Suspend, F!Resume, F!TimerFires, F!TypeOK
<1>7. CASE UNCHANGED F!vars
  BY <1>2, <1>7 DEF F!vars, F!TypeOK
<1> QED
  BY <1>3, <1>4, <1>5, <1>6, <1>7

(* The worker takes the lock and begins a sweep, behind whose place there  *)
(* is no hive yet; or it ends.                                             *)
LEMMA ItemStep ==
    ASSUME Counts, FlushInv, F!WorkerBegins \/ F!SweepBegins \/ F!WorkerEnds
    PROVE  FlushInv'
<1> USE DEF FlushInv, F!hiveVars, F!sweepVars
<1>1. CASE F!WorkerBegins
  <2>1. SweepInv'
    BY <1>1 DEF F!WorkerBegins, SweepInv, Sweeping
  <2> QED  BY <1>1, <2>1 DEF F!WorkerBegins, F!TypeOK
<1>2. CASE F!SweepBegins
  <2>1. SweepInv'
    BY <1>2 DEF F!SweepBegins, SweepInv, Sweeping, F!Hives
  <2>2. /\ place' \in 1 .. Number + 1 /\ left' \in 0 .. HiveCount + 1
        /\ place' <= Number
    BY <1>2 DEF F!SweepBegins, Counts
  <2> QED  BY Zenon, <1>2, <2>1, <2>2 DEF F!SweepBegins, F!TypeOK
<1>3. CASE F!WorkerEnds
  <2>1. SweepInv'
    BY <1>3 DEF F!WorkerEnds, SweepInv, Sweeping
  <2>2. flushed' \in [F!Hives -> BOOLEAN] /\ timer' \in BOOLEAN
    BY Zenon, <1>3, Zenon DEF F!WorkerEnds, F!TypeOK, F!CmpLazyFlush
  <2> QED  BY Zenon, <1>3, <2>1, <2>2 DEF F!WorkerEnds, F!TypeOK
<1> QED
  BY <1>1, <1>2, <1>3

(* A visit marks the hive, or refuses it, and goes on to the next one.     *)
LEMMA VisitStep ==
    ASSUME Counts, FlushInv,
           F!VisitFlushed \/ F!VisitClean \/ F!VisitShrinking \/ \E ok \in BOOLEAN : F!VisitSync(ok)
    PROVE  FlushInv'
<1> USE DEF FlushInv, F!hiveVars
<1>1. CASE F!VisitFlushed
  <2>1. worker = "sweep" /\ flushed[place] /\ F!Onwards(FALSE)
        /\ UNCHANGED <<F!hiveVars, force, flushPending, hold, diskFull, timer, forced, left, refused>>
    BY Zenon, <1>1 DEF F!VisitFlushed
  <2>2. /\ place \in F!Hives /\ place' = place + 1 /\ place' \in 1 .. Number + 1
        /\ worker' \in {"sweep", "finish"} /\ (worker' = "sweep" => place' <= Number)
        /\ \A h \in F!Hives : h < place' <=> h < place \/ h = place
    BY Zenon, <2>1, OnwardsFacts
  <2>3. SweepInv'
    BY <2>1, <2>2 DEF SweepInv, Sweeping
  <2>4. more' \in BOOLEAN
    BY <1>1, <2>2 DEF F!VisitFlushed, F!TypeOK
  <2> QED  BY <2>1, <2>2, <2>3, <2>4 DEF F!TypeOK
<1>2. CASE F!VisitClean
  <2>1. worker = "sweep" /\ flushed' = [flushed EXCEPT ![place] = TRUE] /\ F!Onwards(FALSE)
        /\ UNCHANGED <<unsaved, shrinks, force, flushPending, hold, diskFull, timer, forced,
                       left, more, refused>>
    BY Zenon, <1>2 DEF F!VisitClean
  <2>2. /\ place \in F!Hives /\ place' = place + 1 /\ place' \in 1 .. Number + 1
        /\ worker' \in {"sweep", "finish"} /\ (worker' = "sweep" => place' <= Number)
        /\ \A h \in F!Hives : h < place' <=> h < place \/ h = place
    BY Zenon, <2>1, OnwardsFacts
  <2>3. flushed'[place] /\ \A h \in F!Hives : h # place => flushed'[h] = flushed[h]
    BY <2>1, <2>2 DEF F!TypeOK
  <2>4. \A h \in F!Hives : h < place => h # place
    BY <2>2 DEF F!Hives, Counts
  <2>5. SweepInv'
    BY <2>1, <2>2, <2>3, <2>4 DEF SweepInv, Sweeping
  <2> QED  BY <2>1, <2>2, <2>5 DEF F!TypeOK
<1>3. CASE F!VisitShrinking
  <2>1. /\ worker = "sweep" /\ ~flushed[place] /\ ~forced /\ F!Onwards(FALSE)
        /\ force' = TRUE /\ refused' = refused \cup {place}
        /\ UNCHANGED <<F!hiveVars, flushPending, hold, diskFull, timer, forced, left, more>>
    BY Zenon, <1>3 DEF F!VisitShrinking
  <2>2. /\ place \in F!Hives /\ place' = place + 1 /\ place' \in 1 .. Number + 1
        /\ worker' \in {"sweep", "finish"} /\ (worker' = "sweep" => place' <= Number)
        /\ \A h \in F!Hives : h < place' <=> h < place \/ h = place
    BY Zenon, <2>1, OnwardsFacts
  <2>3. SweepInv'
    BY <2>1, <2>2 DEF SweepInv, Sweeping
  <2> QED  BY <2>1, <2>2, <2>3 DEF F!TypeOK
<1>4. ASSUME NEW ok \in BOOLEAN, F!VisitSync(ok) PROVE FlushInv'
  <2>1. /\ worker = "sweep" /\ F!Onwards(left = 1 /\ ~forced)
        /\ unsaved' = [unsaved EXCEPT ![place] = ~ok]
        /\ shrinks' = [shrinks EXCEPT ![place] = @ /\ ~ok]
        /\ flushed' = [flushed EXCEPT ![place] = TRUE]
        /\ left' = IF left > 0 THEN left - 1 ELSE left
        /\ UNCHANGED <<force, flushPending, hold, diskFull, timer, forced, more, refused>>
    BY <1>4 DEF F!VisitSync
  <2>2. /\ place \in F!Hives /\ place' = place + 1 /\ place' \in 1 .. Number + 1
        /\ worker' \in {"sweep", "finish"} /\ (worker' = "sweep" => place' <= Number)
        /\ \A h \in F!Hives : h < place' <=> h < place \/ h = place
    <3>1. (left = 1 /\ ~forced) \in BOOLEAN
      OBVIOUS
    <3> QED  BY Zenon, <2>1, <3>1, OnwardsFacts
  <2>3. flushed'[place] /\ \A h \in F!Hives : h # place => flushed'[h] = flushed[h]
    BY <2>1, <2>2 DEF F!TypeOK
  <2>4. \A h \in F!Hives : h < place => h # place
    BY <2>2 DEF F!Hives, Counts
  <2>5. SweepInv'
    BY <2>1, <2>2, <2>3, <2>4 DEF SweepInv, Sweeping
  <2>6. left' \in 0 .. HiveCount + 1
    BY <2>1 DEF F!TypeOK, Counts
  <2>7. /\ unsaved' \in [F!Hives -> BOOLEAN] /\ shrinks' \in [F!Hives -> BOOLEAN]
        /\ flushed' \in [F!Hives -> BOOLEAN]
    BY Zenon, <2>1 DEF F!TypeOK
  <2> QED  BY <2>1, <2>2, <2>5, <2>6, <2>7 DEF F!TypeOK
<1> QED
  BY <1>1, <1>2, <1>3, <1>4

(* Every step preserves the invariant.                                     *)
LEMMA FlushInductive == ASSUME Counts PROVE FlushInv /\ [F!Next]_F!vars => FlushInv'
<1> SUFFICES ASSUME FlushInv, [F!Next]_F!vars PROVE FlushInv'
  OBVIOUS
<1> QED
  BY OthersStep, ItemStep, VisitStep DEF F!Next

-----------------------------------------------------------------------------
(* The types, and that CmpDoFlushNextHive's p does not run past the head   *)
(* of the list, for any number of hives.                                   *)
THEOREM LazyTypes == ASSUME Counts PROVE F!Spec => []F!TypeOK
<1>1. F!Init => FlushInv
  BY FlushInitially
<1>2. FlushInv /\ [F!Next]_F!vars => FlushInv'
  BY FlushInductive
<1>3. FlushInv => F!TypeOK
  BY DEF FlushInv
<1> QED
  BY <1>1, <1>2, <1>3, PTL DEF F!Spec

(* A sweep that has come to the end of the list, over however many work    *)
(* items, has passed over no hive but those that would shrink.             *)
THEOREM CompleteSweep == ASSUME Counts PROVE F!Spec => []F!SweepComplete
<1>1. F!Init => FlushInv
  BY FlushInitially
<1>2. FlushInv /\ [F!Next]_F!vars => FlushInv'
  BY FlushInductive
<1>3. FlushInv => F!SweepComplete
  <2> SUFFICES ASSUME FlushInv, worker = "finish", place > Number
               PROVE  /\ {h \in F!Hives : ~flushed[h]} = refused
                      /\ forced => refused = {}
    BY DEF F!SweepComplete
  <2>1. \A h \in F!Hives : h < place
    BY DEF FlushInv, F!TypeOK, F!Hives, Counts
  <2> QED  BY <2>1 DEF FlushInv, SweepInv, Sweeping
<1> QED
  BY <1>1, <1>2, <1>3, PTL DEF F!Spec

(* If the system is suspended only between work items, a timer that goes   *)
(* off while the flusher is enabled has CmpLazyFlushWorker queued or at    *)
(* work: CmpLazyFlushPending is never left set without a work item.        *)
THEOREM TimerHeeded == ASSUME ~SuspendAnytime PROVE F!Spec => F!TimerQueuesWorker
<1>1. F!Init => PendingInv
  BY Zenon DEF F!Init, PendingInv
<1>2. PendingInv /\ [F!Next]_F!vars => PendingInv'
  <2> SUFFICES ASSUME PendingInv, [F!Next]_F!vars PROVE PendingInv'
    OBVIOUS
  <2> USE DEF PendingInv
  <2>1. CASE UNCHANGED F!vars
    BY <2>1 DEF F!vars
  <2>2. CASE \/ \E h \in F!Hives, s \in BOOLEAN : F!MarkDirty(h, s)
             \/ \E h \in F!Hives : F!CmFlushKey(h)
             \/ \E S \in SUBSET F!Hives : F!CmpDoFlushAll(S)
    <3>1. UNCHANGED <<flushPending, hold, worker>>
      BY Zenon, <2>2 DEF F!MarkDirty, F!CmFlushKey, F!CmpDoFlushAll
    <3> QED  BY <3>1
  <2>3. CASE F!Suspend
    <3>1. worker = "idle" /\ hold' = TRUE /\ UNCHANGED <<flushPending, worker>>
      BY <2>3 DEF F!Suspend
    <3> QED  BY <3>1
  <2>4. CASE F!Resume
    BY Zenon, <2>4 DEF F!Resume
  <2>5. CASE F!TimerFires
    <3>1. /\ UNCHANGED hold
          /\ \/ ~hold /\ flushPending' = TRUE /\ worker' = "queued"
             \/ UNCHANGED <<flushPending, worker>>
      BY <2>5 DEF F!TimerFires
    <3>2. CASE ~hold /\ flushPending' = TRUE /\ worker' = "queued"
      BY <3>1, <3>2
    <3>3. CASE UNCHANGED <<flushPending, worker>>
      BY <3>1, <3>3
    <3> QED  BY Zenon, <3>1, <3>2, <3>3
  <2>6. CASE F!WorkerBegins
    <3>1. worker = "queued" /\ ~hold
      BY <2>6 DEF F!WorkerBegins
    <3> QED  BY <2>6, <3>1 DEF F!WorkerBegins
  <2>7. CASE F!SweepBegins
    <3>1. worker = "lock" /\ worker' = "sweep" /\ UNCHANGED <<flushPending, hold>>
      BY <2>7 DEF F!SweepBegins
    <3> QED  BY <3>1
  <2>8. CASE F!WorkerEnds
    BY Zenon, <2>8 DEF F!WorkerEnds
  <2>9. CASE F!VisitFlushed \/ F!VisitClean \/ F!VisitShrinking \/ \E ok \in BOOLEAN : F!VisitSync(ok)
    <3>1. /\ worker = "sweep" /\ worker' \in {"sweep", "finish"}
          /\ UNCHANGED <<flushPending, hold>>
      BY <2>9 DEF F!VisitFlushed, F!VisitClean, F!VisitShrinking, F!VisitSync, F!Onwards
    <3> QED  BY <3>1
  <2> QED  BY <2>1, <2>2, <2>3, <2>4, <2>5, <2>6, <2>7, <2>8, <2>9 DEF F!Next
<1>3. PendingInv /\ [F!Next]_F!vars => [timer /\ ~timer' /\ ~hold => worker' # "idle"]_F!vars
  <2> SUFFICES ASSUME PendingInv, F!Next, timer, ~timer', ~hold
               PROVE  worker' # "idle"
    OBVIOUS
  <2>1. CASE F!TimerFires
    BY <2>1 DEF F!TimerFires, PendingInv
  <2>2. ASSUME ~F!TimerFires PROVE FALSE
    BY Zenon, <2>2 DEF F!Next, F!MarkDirty, F!CmFlushKey, F!CmpDoFlushAll, F!Suspend, F!Resume,
         F!WorkerBegins, F!SweepBegins, F!WorkerEnds, F!VisitFlushed, F!VisitClean,
         F!VisitShrinking, F!VisitSync, F!CmpLazyFlush
  <2> QED  BY <2>1, <2>2
<1> QED
  BY <1>1, <1>2, <1>3, PTL DEF F!Spec, F!TimerQueuesWorker
=============================================================================
