--------------------------- MODULE PushLockProofs ---------------------------
(***************************************************************************)
(* Proofs about PushLock for any finite set of threads: the push lock is a *)
(* reader-writer lock, its share count is exact, no walk of the chain      *)
(* leaves the wait blocks of threads that wait, and no waiter is lost.     *)
(***************************************************************************)
EXTENDS PushLockWalks, FiniteSetTheorems

(* The sizes of sets of threads.                                           *)
LEMMA CountedHolds == Counted
<1>1. Cardinality({}) = 0 /\ Cardinality(Threads) \in Nat
  BY Zenon, ThreadsAssumption, FS_EmptySet, FS_CardinalityType
<1>2. ASSUME NEW S \in SUBSET Threads
      PROVE  /\ Cardinality(S) \in 0 .. Cardinality(Threads)
             /\ Cardinality(S) = 0 => S = {}
             /\ \A t \in Threads \ S : Cardinality(S \cup {t}) = Cardinality(S) + 1
             /\ \A t \in S : Cardinality(S \ {t}) = Cardinality(S) - 1
  <2>1. IsFiniteSet(S) /\ Cardinality(S) <= Cardinality(Threads)
    BY Zenon, ThreadsAssumption, FS_Subset
  <2>2. Cardinality(S) \in Nat
    BY Zenon, <2>1, FS_CardinalityType
  <2>3. Cardinality(S) = 0 => S = {}
    BY Zenon, <2>1, FS_EmptySet
  <2>4. \A t \in Threads \ S : Cardinality(S \cup {t}) = Cardinality(S) + 1
    BY Zenon, <2>1, FS_AddElement
  <2>5. \A t \in S : Cardinality(S \ {t}) = Cardinality(S) - 1
    BY Zenon, <2>1, FS_RemoveElement
  <2> QED  BY <1>1, <2>1, <2>2, <2>3, <2>4, <2>5
<1> QED
  BY Zenon, <1>1, <1>2 DEF Counted

-----------------------------------------------------------------------------
LEMMA InitInv == Init => Inv
<1> SUFFICES ASSUME Init PROVE Inv
  OBVIOUS
<1> USE DEF Init
<1>1. /\ ~word.waiting /\ ~word.waking /\ ~word.lock /\ ~word.multi /\ word.rest = 0
      /\ 0 \notin Threads
  BY ThreadsAssumption DEF Free
<1>2. TypeOK
  BY Zenon, CountedHolds, <1>1, Constants DEF TypeOK, PCs
<1>3. Frames /\ OneWaker
  BY Zenon, <1>1 DEF Frames, InCall, OutOfCall, Holding, OneWaker, WakingPCs
<1>4. PICK P, pos : P = [t \in Threads |-> {}] /\ pos = [t \in Threads |-> 0]
  OBVIOUS
<1>5. Shape({}, pos, Null, Null)
  BY Zenon, <1>1 DEF Shape
<1>6. Members({}, P)
  BY Zenon, <1>4 DEF Members, Queued, Published
<1>7. Lists(P, pos)
  BY Zenon, <1>4 DEF Lists, ListPCs
<1>8. Walks({}, pos, Null, Null) /\ Releases({}, Null)
  BY Zenon DEF Walks, Releases, Release, WakingPCs
<1>9. Owners(Null)
  <2>1. Sharers = {} /\ Cardinality({}) = 0
    BY Zenon, CountedHolds, NoneOrOne DEF Sharers
  <2> QED  BY Zenon, <1>1, <2>1 DEF Owners, NoBlock
<1>10. IInv({}, P, pos, Null, Null)
  BY <1>2, <1>3, <1>4, <1>5, <1>6, <1>7, <1>8, <1>9 DEF IInv, Chain
<1> QED  BY Zenon, <1>10 DEF Inv

(* The inductive invariant, for any finite set of threads.                 *)
THEOREM Invariant == Spec => []Inv
<1>1. Inv /\ [Next]_vars => Inv'
  BY Zenon, CountedHolds, NextInv
<1> QED
  BY <1>1, InitInv, PTL DEF Spec

(* Every variable keeps its type; in particular the count never runs over  *)
(* the number of threads.                                                  *)
THEOREM TypeCorrect == Spec => []TypeOK
<1>1. Inv => TypeOK
  BY Zenon DEF Inv, IInv
<1> QED  BY <1>1, Invariant, PTL

(* No walk leaves the blocks of threads that wait in their frames, and a   *)
(* gate is signalled while its thread waits on it.                         *)
THEOREM BlocksStayLive == Spec => []WaitBlocksLive
<1>1. ASSUME Inv PROVE WaitBlocksLive
  <2>1. PICK C, P, pos, o, f : IInv(C, P, pos, o, f)
    BY Zenon, <1>1 DEF Inv
  <2>2. ASSUME NEW t \in Threads,
               pc[t] \in {"optWalk", "wakeWalk", "wakeTake", "relsWalk", "relsCount"}
        PROVE  wb[t] \in Threads /\ Queued(wb[t])
    <3>1. wb[t] \in C
      <4>1. CASE pc[t] \in {"optWalk", "wakeWalk"}
        BY ZenonT(60), <2>1, <4>1 DEF IInv, Chain, Walks, Walk, WalkPCs, WakingPCs
      <4>2. CASE pc[t] = "wakeTake"
        <5>1. pc[t] \in WakingPCs
          BY Zenon, <4>2 DEF WakingPCs
        <5> QED  BY <2>1, <4>2, <5>1, WakerFacts DEF Walk
      <4>3. CASE pc[t] \in {"relsWalk", "relsCount"}
        BY ZenonT(60), <2>1, <4>3 DEF IInv, Chain, Releases, Release, Shape
      <4> QED  BY ZenonT(60), <2>2, <4>1, <4>2, <4>3
    <3> QED  BY Zenon, <2>1, <3>1 DEF IInv, Chain, Members
  <2>3. ASSUME NEW t \in Threads, pc[t] \in {"wakeAnd", "wakeClear"}
        PROVE  wb[t] \in Threads /\ Queued(wb[t])
    BY ZenonT(60), <2>1, <2>3 DEF IInv, Chain, Lists, ListPCs, Members
  <2>4. ASSUME NEW t \in Threads, pc[t] = "wakeSignal"
        PROVE  pc[wb[t]] = "sleep" /\ block[wb[t]].gate = "clear"
    BY Zenon, <2>1, <2>4 DEF IInv, Chain, Lists
  <2> QED  BY Zenon, <2>2, <2>3, <2>4 DEF WaitBlocksLive
<1> QED  BY <1>1, Invariant, PTL

(* A set of threads with one member at most has size one at most.          *)
LEMMA AtMostOne ==
    ASSUME NEW S \in SUBSET Threads, \A t, u \in S : t = u
    PROVE  Cardinality(S) = IF S = {} THEN 0 ELSE 1
<1>1. CASE S = {}
  BY Zenon, CountedHolds, <1>1, NoneOrOne
<1>2. CASE S # {}
  <2>1. PICK t \in S : S = {t}
    BY Zenon, <1>2
  <2> QED  BY Zenon, CountedHolds, <2>1, NoneOrOne
<1> QED  BY Zenon, <1>1, <1>2

(* The share count is exact, wherever it is kept.                          *)
THEOREM CountExact == Spec => []ShareCountExact
<1>1. ASSUME Inv PROVE ShareCountExact
  <2>1. PICK C, P, pos, o, f : IInv(C, P, pos, o, f)
    BY <1>1 DEF Inv
  <2>2. ~word.waiting => word.rest = Cardinality(Sharers)
    BY Zenon, <2>1 DEF IInv, Chain, Owners
  <2>3. ASSUME word.waiting, word.multi
        PROVE  \E t \in Threads : /\ Queued(t) /\ block[t].last = t
                                  /\ block[t].share = Cardinality(Sharers)
    <3>1. o \in Threads /\ Queued(o) /\ block[o].last = o
      BY ZenonT(60), <2>1, <2>3 DEF IInv, Chain, Shape, Members
    <3>2. block[o].share = Cardinality(Sharers)
      BY Zenon, <2>1, <2>3 DEF IInv, Chain, Owners
    <3> QED  BY Zenon, <3>1, <3>2
  <2>4. ASSUME word.waiting, ~word.multi
        PROVE  Cardinality(Sharers) <= 1
    <3>1. \A t, u \in Sharers : t = u
      BY Zenon, <2>1, <2>4 DEF IInv, Chain, Owners, Sharers
    <3>2. Sharers \in SUBSET Threads
      BY ZenonT(60) DEF Sharers
    <3> QED  BY <3>1, <3>2, AtMostOne
  <2> QED  BY Zenon, <2>2, <2>3, <2>4 DEF ShareCountExact
<1> QED  BY <1>1, Invariant, PTL

(* The assertions of the source hold, and one thread at a time owns the    *)
(* links of the chain.                                                     *)
THEOREM AssertionsHold == Spec => []SourceAsserts
<1>1. ASSUME Inv PROVE SourceAsserts
  <2>1. PICK C, P, pos, o, f : IInv(C, P, pos, o, f)
    BY <1>1 DEF Inv
  <2>2. WakingOwned
    <3> DEFINE owners == {t \in Threads : pc[t] \in WakingPCs}
    <3>1. owners \in SUBSET Threads /\ \A t, u \in owners : t = u
      BY Zenon, <2>1 DEF IInv, OneWaker
    <3>2. owners # {} <=> word.waking
      BY Zenon, <2>1 DEF IInv, OneWaker
    <3>3. Cardinality(owners) = IF word.waking THEN 1 ELSE 0
      BY Zenon, <3>1, <3>2, AtMostOne
    <3>4. word.waking => word.waiting
      BY Zenon, <2>1 DEF IInv, Chain, Shape
    <3> QED  BY Zenon, <3>3, <3>4 DEF WakingOwned
  <2>3. ASSUME NEW t \in Threads
        PROVE  /\ held[t] = "shared" => word.lock /\ (word.waiting \/ word.rest > 0)
               /\ held[t] = "exclusive" => word.lock /\ (word.waiting \/ word.rest = 0)
    <3>1. held[t] # "none" => word.lock
      BY Zenon, <2>1 DEF IInv, Chain, Owners
    <3>2. ASSUME held[t] = "shared", ~word.waiting
          PROVE  word.rest > 0
      <4>1. Sharers # {} /\ Sharers \in SUBSET Threads
        BY Zenon, <3>2 DEF Sharers
      <4>2. Cardinality(Sharers) \in Nat /\ Cardinality(Sharers) # 0
        BY Zenon, CountedHolds, <4>1, Sizes
      <4>3. word.rest = Cardinality(Sharers)
        BY Zenon, <2>1, <3>2 DEF IInv, Chain, Owners
      <4> QED  BY <4>2, <4>3
    <3>3. ASSUME held[t] = "exclusive", ~word.waiting
          PROVE  word.rest = 0
      <4>1. Sharers = {}
        BY Zenon, <2>1, <3>3 DEF IInv, Chain, Owners, Sharers
      <4>2. word.rest = Cardinality(Sharers)
        BY Zenon, <2>1, <3>3 DEF IInv, Chain, Owners
      <4> QED  BY ZenonT(60), CountedHolds, <4>1, <4>2, NoneOrOne
    <3> QED  BY Zenon, <3>1, <3>2, <3>3
  <2>4. ASSUME NEW t \in Threads
        PROVE  /\ pc[t] = "wakeTop" => /\ ~top[t].multi
                                       /\ top[t].lock => top[t].waiting /\ top[t].waking
               /\ pc[t] = "optSwap" => top[t].lock /\ top[t].waking
    BY Zenon, <2>1 DEF IInv, Chain, Walks, Walk, WakingPCs, WakePCs
  <2>5. ASSUME NEW t \in Threads, pc[t] = "wakeAnd"
        PROVE  word.waiting /\ top[t].rest # wb[t]
    <3>1. wb[t] \in P[t] /\ wb[t] \notin C
      BY Zenon, <2>1, <2>5 DEF IInv, Chain, Lists, ListPCs, Members
    <3>2. pc[t] \in WakingPCs
      BY Zenon, <2>5 DEF WakingPCs
    <3> QED  BY ZenonT(60), <2>1, <3>1, <3>2, WakerFacts DEF Walk
  <2>6. ASSUME NEW t \in Threads, pc[t] = "relsCount"
        PROVE  block[wb[t]].share > 0 /\ block[wb[t]].excl
    <3>1. word.multi /\ wb[t] = o /\ held[t] = "shared"
      BY ZenonT(60), <2>1, <2>6 DEF IInv, Chain, Releases, Release, Frames
    <3>2. word.waiting /\ block[o].excl /\ block[o].share = Cardinality(Sharers)
      BY ZenonT(60), <2>1, <3>1 DEF IInv, Chain, Shape, Owners
    <3>3. Sharers # {} /\ Sharers \in SUBSET Threads
      BY Zenon, <3>1 DEF Sharers
    <3>4. Cardinality(Sharers) \in Nat /\ Cardinality(Sharers) # 0
      BY CountedHolds, <3>3, Sizes
    <3> QED  BY <3>1, <3>2, <3>4
  <2>7. ASSUME NEW t \in Threads, Woken(t)
        PROVE  block[t].share = 0
    <3>1. ~Queued(t)
      BY Zenon, <2>7 DEF Queued
    <3> QED  BY <2>1, <3>1 DEF IInv, Chain, Owners, Shape, Members
  <2> QED  BY <2>2, <2>3, <2>4, <2>5, <2>6, <2>7 DEF SourceAsserts
<1> QED  BY <1>1, Invariant, PTL

-----------------------------------------------------------------------------
(* The push lock is a reader-writer lock: what each kind of step does to   *)
(* held.                                                                   *)
LEMMA HoldsStep ==
    ASSUME NEW C, NEW P, NEW pos, NEW o, NEW f, IInv(C, P, pos, o, f),
           NEW t \in Threads, NEW h \in {"none", "shared", "exclusive"},
           held' = [held EXCEPT ![t] = h],
           h = "exclusive" /\ held[t] = "none" => ~word.lock,
           h = "shared" /\ held[t] = "none" => ~word.lock \/ (~word.waiting /\ word.rest # 0),
           h = "exclusive" /\ held[t] = "shared" => ~word.waiting /\ word.rest <= 1
    PROVE  [RW!Next]_held
<1> USE DEF RW!Next, RW!Acquire, RW!Release, RW!Downgrade, RW!Upgrade, RW!Others
<1>1. /\ held \in [Threads -> {"none", "shared", "exclusive"}]
      /\ ~word.lock => \A u \in Threads : held[u] = "none"
  BY Zenon DEF IInv, TypeOK, Chain, Owners
<1>2. CASE h = held[t]
  BY Zenon, <1>1, <1>2
<1>3. CASE h = "none" /\ held[t] # "none"
  BY Zenon, <1>3
<1>4. CASE h = "exclusive" /\ held[t] = "none"
  BY Zenon, <1>1, <1>4
<1>5. CASE h = "shared" /\ held[t] = "none"
  <2>1. ASSUME NEW u \in Threads, held[u] = "exclusive"
        PROVE  FALSE
    <3>1. ~word.waiting /\ word.rest # 0
      BY ZenonT(60), <1>1, <1>5, <2>1
    <3>2. word.rest = Cardinality(Sharers)
      BY Zenon, <3>1 DEF IInv, Chain, Owners
    <3>3. Sharers = {}
      BY Zenon, <2>1 DEF IInv, Chain, Owners, Sharers
    <3> QED  BY ZenonT(60), CountedHolds, <3>1, <3>2, <3>3, NoneOrOne
  <2>2. RW!Others(t, {"none", "shared"})
    BY Zenon, <1>1, <2>1
  <2> QED  BY Zenon, <1>5, <2>2
<1>6. CASE h = "exclusive" /\ held[t] = "shared"
  <2>1. Alone(t)
    BY ZenonT(60), CountedHolds, <1>6, SoleOwner
  <2> QED  BY Zenon, <1>6, <2>1 DEF Alone
<1>7. CASE h = "shared" /\ held[t] = "exclusive"
  BY Zenon, <1>7
<1> QED  BY ZenonT(60), <1>1, <1>2, <1>3, <1>4, <1>5, <1>6, <1>7

(* Every history of the push lock is one of the reader-writer lock.        *)
THEOREM Refinement == Spec => ImplementsRWLock
<1>1. Init => RW!Init
  BY Zenon DEF Init, RW!Init
<1>2. ASSUME Inv, [Next]_vars PROVE [RW!Next]_held
  <2>1. PICK C, P, pos, o, f : IInv(C, P, pos, o, f)
    BY Zenon, <1>2 DEF Inv
  <2>2. CASE held' = held
    BY Zenon, <2>2
  <2>3. ASSUME NEW t \in Threads, AcquireExclusive(t) \/ TryAcquireExclusive(t)
        PROVE  [RW!Next]_held
    <3>1. CASE word.lock
      BY <2>1, <2>2, <2>3, <3>1
         DEF IInv, TypeOK, AcquireExclusive, TryAcquireExclusive, Begin, Hold
    <3>2. CASE ~word.lock
      <4>1. held' = [held EXCEPT ![t] = "exclusive"] /\ held[t] = "none"
        BY Zenon, <2>3, <3>2 DEF AcquireExclusive, TryAcquireExclusive, Begin, Hold
      <4> QED  BY Zenon, <2>1, <3>2, <4>1, HoldsStep
    <3> QED  BY Zenon, <3>1, <3>2
  <2>4. ASSUME NEW t \in Threads, AcquireShared(t) \/ TryAcquireShared(t)
        PROVE  [RW!Next]_held
    <3>1. CASE held' # held
      <4>1. held' = [held EXCEPT ![t] = "shared"] /\ held[t] = "none" /\ ~word.lock
        BY <2>4, <3>1 DEF AcquireShared, TryAcquireShared, Begin, Hold, Swap, Free
      <4> QED  BY Zenon, <2>1, <4>1, HoldsStep
    <3> QED  BY Zenon, <2>2, <3>1
  <2>5. ASSUME NEW t \in Threads, AcqTake(t)
        PROVE  [RW!Next]_held
    <3>1. CASE held' # held
      <4>1. /\ old[t] = word /\ Available(word, mode[t]) /\ pc[t] = "acqLoop"
            /\ held' = [held EXCEPT ![t] = IF mode[t] = "passing" THEN "exclusive" ELSE mode[t]]
        BY Zenon, <2>5, <3>1 DEF AcqTake, Swap, Mismatch, Hold
      <4>2. held[t] = "none" /\ mode[t] \in {"shared", "exclusive", "passing"}
        BY Zenon, <2>1, <4>1 DEF IInv, TypeOK, Frames, InCall, Holding
      <4>3. CASE mode[t] = "shared"
        <5>1. held' = [held EXCEPT ![t] = "shared"]
          BY Zenon, <4>1, <4>3
        <5>2. ~word.lock \/ (~word.waiting /\ word.rest # 0)
          BY <4>1 DEF Available, Shared
        <5> QED  BY ZenonT(60), <2>1, <4>2, <5>1, <5>2, HoldsStep
      <4>4. CASE mode[t] # "shared"
        <5>1. held' = [held EXCEPT ![t] = "exclusive"] /\ ~word.lock
          BY Zenon, <4>1, <4>2, <4>4 DEF Available
        <5> QED  BY ZenonT(60), <2>1, <4>2, <5>1, HoldsStep
      <4> QED  BY Zenon, <4>3, <4>4
    <3> QED  BY <2>2, <3>1
  <2>6. ASSUME NEW t \in Threads, TryLoop(t)
        PROVE  [RW!Next]_held
    <3>1. CASE held' # held
      <4>1. /\ word = old[t] /\ Available(word, "shared") /\ pc[t] = "tryLoop"
            /\ held' = [held EXCEPT ![t] = "shared"]
        BY Zenon, <2>6, <3>1 DEF TryLoop, Swap, Hold
      <4>2. held[t] = "none" /\ (~word.lock \/ (~word.waiting /\ word.rest # 0))
        BY <2>1, <4>1 DEF IInv, Frames, Holding, Available, Shared
      <4> QED  BY Zenon, <2>1, <4>1, <4>2, HoldsStep
    <3> QED  BY <2>2, <3>1
  <2>7. ASSUME NEW t \in Threads,
               ReleaseExclusive(t) \/ ReleaseShared(t) \/ RelLoop(t) \/ RelsLoop(t)
                  \/ RelsCount(t) \/ RelsUnlock(t)
        PROVE  [RW!Next]_held
    <3>1. held' = held \/ held' = [held EXCEPT ![t] = "none"]
      BY Zenon, <2>7 DEF ReleaseExclusive, ReleaseShared, RelLoop, RelsLoop, RelsCount, RelsUnlock, Hold
    <3> QED  BY Zenon, <2>1, <2>2, <3>1, HoldsStep
  <2>8. ASSUME NEW t \in Threads, ConvertToShared(t)
        PROVE  [RW!Next]_held
    <3>1. held[t] = "exclusive" /\ held' = [held EXCEPT ![t] = "shared"]
      BY Zenon, <2>8 DEF ConvertToShared, BeginRelease, Hold
    <3> QED  BY Zenon, <2>1, <3>1, HoldsStep
  <2>9. ASSUME NEW t \in Threads, TryConvertToExclusive(t)
        PROVE  [RW!Next]_held
    <3>1. /\ held[t] = "shared" /\ held' = [held EXCEPT ![t] = "exclusive"]
          /\ ~word.waiting /\ word.rest = 1
      BY Zenon, <2>9 DEF TryConvertToExclusive, BeginRelease, Hold, Swap, OneSharer, Exclusive, Free
    <3>2. word.rest <= 1
      BY <3>1
    <3> QED  BY Zenon, <2>1, <3>1, <3>2, HoldsStep
  <2>10. ASSUME NEW t \in Threads,
                Reads(t) \/ Waits(t) \/ RelsWalk(t) \/ TryWakeSwap(t) \/ AcqPush(t)
         PROVE  held' = held
    BY Zenon, <2>10 DEF Reads, AcqRead, TryRead, RelRead, RelsRead, AcquireRelease, ReleaseExclusiveExf,
       ReleaseGeneric, TryWake, Waits, GateInit, Park, Awake, RelsWalk, TryWakeSwap, AcqPush
  <2>11. ASSUME NEW t \in Threads,
                \/ OptTop(t) \/ OptWalk(t) \/ OptSwap(t) \/ WakeTop(t) \/ WakeWalk(t)
                \/ WakeTake(t) \/ WakeAnd(t) \/ WakeClear(t) \/ WakeSignal(t)
         PROVE  held' = held
    BY Zenon, <2>11 DEF OptTop, OptWalk, OptSwap, WakeTop, WakeWalk, WakeTake, WakeAnd, WakeClear,
       WakeSignal
  <2>12. CASE UNCHANGED vars
    BY Zenon, <2>12 DEF vars
  <2>13. ASSUME NEW t \in Threads, BeginCall(t) \/ OwnerCall(t) \/ Convert(t)
         PROVE  [RW!Next]_held
    BY <2>2, <2>3, <2>4, <2>7, <2>8, <2>9, <2>10, <2>13
       DEF BeginCall, OwnerCall, Convert, Reads
  <2>14. ASSUME NEW t \in Threads, Continue(t)
         PROVE  [RW!Next]_held
    BY <2>2, <2>5, <2>6, <2>7, <2>10, <2>11, <2>14 DEF Continue, Reads, Waits
  <2> QED  BY Zenon, <1>2, <2>12, <2>13, <2>14 DEF Next
<1> QED  BY <1>1, <1>2, Invariant, PTL DEF Spec, ImplementsRWLock, RW!Spec

-----------------------------------------------------------------------------
(* No waiter is forgotten.  The lock is free with waiters nobody is to     *)
(* wake only if a thread attends to them.                                  *)
Pending == word.waiting /\ ~word.lock /\ ~word.waking
Attended == Pending => \E t \in Threads : Attends(t)

(* Who attends goes on attending while another thread moves.               *)
LEMMA OthersAttend ==
    ASSUME NEW t \in Threads, NEW u \in Threads, Attends(u),
           word' = word, pc'[u] = pc[u], top'[u] = top[u], mode'[u] = mode[u],
           block'[u].spin => block[u].spin,
           block[u].gate = "set" => block'[u].gate = "set"
    PROVE  Attends(u)'
  BY Zenon DEF Attends, Woken, Published

(* What a step that leaves the word does not take from the other threads.  *)
Spares(t) ==
    \A u \in Threads : u # t =>
        /\ pc'[u] = pc[u] /\ top'[u] = top[u] /\ mode'[u] = mode[u]
        /\ block'[u].spin => block[u].spin
        /\ block[u].gate = "set" => block'[u].gate = "set"

LEMMA AttendStep ==
    ASSUME NEW C, NEW P, NEW pos, NEW o, NEW f, IInv(C, P, pos, o, f), Attended,
           NEW t \in Threads,
           Pending' => word' = word \/ Attends(t)',
           Pending /\ word' = word => Spares(t) /\ (Attends(t) => \E s \in Threads : Attends(s)')
    PROVE  Attended'
<1> SUFFICES ASSUME Pending' PROVE \E s \in Threads : Attends(s)'
  BY Zenon DEF Attended
<1>1. CASE Attends(t)'
  BY Zenon, <1>1
<1>2. CASE word' = word
  <2>1. Pending
    BY Zenon, <1>2 DEF Pending
  <2>2. PICK u \in Threads : Attends(u)
    BY Zenon, <2>1 DEF Attended
  <2>3. CASE u = t
    BY ZenonT(60), <1>2, <2>1, <2>2, <2>3
  <2>4. CASE u # t
    <3>1. Attends(u)'
      BY ZenonT(60), <1>2, <2>1, <2>2, <2>4, OthersAttend DEF Spares
    <3> QED  BY Zenon, <3>1
  <2> QED  BY Zenon, <2>3, <2>4
<1> QED  BY Zenon, <1>1, <1>2

(* A step of an acquire or of a release.                                   *)
LEMMA CallsAttend ==
    ASSUME NEW C, NEW P, NEW pos, NEW o, NEW f, IInv(C, P, pos, o, f), Attended,
           NEW t \in Threads, Reads(t) \/ Takes(t) \/ Drops(t) \/ RelsCount(t) \/ Convert(t)
    PROVE  Attended'
<1>1. ASSUME Pending', word' # word
      PROVE  FALSE
  <2>1. ~Reads(t) /\ ~RelsCount(t)
    BY Zenon, <1>1 DEF Reads, AcqRead, TryRead, RelRead, RelsRead, AcquireRelease, ReleaseExclusiveExf,
       ReleaseGeneric, TryWake, RelsCount
  <2>2. ~Takes(t)
    <3>1. word \in Words /\ old[t] \in Words
      BY ZenonT(60) DEF IInv, TypeOK
    <3> QED
      BY ZenonT(60), <1>1, <3>1 DEF Takes, AcquireExclusive, TryAcquireExclusive, AcquireShared,
         TryAcquireShared, AcqTake, TryLoop, Swap, Mismatch, Lock, Taken, OneSharer, Exclusive,
         Free, Words, Pending
  <2>3. ~Drops(t)
    <3>1. word \in Words /\ old[t] \in Words
      BY DEF IInv, TypeOK
    <3> QED
      BY <1>1, <3>1 DEF Drops, ReleaseShared, RelsLoop, RelsWalk, Swap, Mismatch, OneFewer, Free,
         Words, Pending
  <2>4. ~Convert(t)
    BY Zenon, <1>1 DEF Convert, ConvertToShared, TryConvertToExclusive, Swap, OneSharer, Exclusive, Free,
       Pending
  <2> QED  BY ZenonT(60), <2>1, <2>2, <2>3, <2>4
<1>2. Spares(t)
  <2>1. CASE Reads(t) \/ Drops(t) \/ Convert(t)
    BY ZenonT(60), <2>1 DEF IInv, TypeOK, Spares, Reads, AcqRead, TryRead, RelRead, RelsRead,
       AcquireRelease, ReleaseExclusiveExf, ReleaseGeneric, TryWake, Drops, ReleaseShared,
       RelsLoop, RelsWalk, Convert, ConvertToShared, TryConvertToExclusive, Goto, SetTop
  <2>3. CASE RelsCount(t)
    <3>1. block \in [Threads -> Blocks] /\ block' = [block EXCEPT ![wb[t]].share = @ - 1]
      BY Zenon, <2>3 DEF RelsCount, IInv, TypeOK
    <3>2. \A u \in Threads : block'[u].spin = block[u].spin /\ block'[u].gate = block[u].gate
      BY ZenonT(60), <3>1 DEF Blocks
    <3> QED  BY Zenon, <2>3, <3>2 DEF IInv, TypeOK, Spares, RelsCount, Goto
  <2>2. CASE Takes(t)
    BY ZenonT(60), <2>2 DEF IInv, TypeOK, Spares, Takes, AcquireExclusive, TryAcquireExclusive,
       AcquireShared, TryAcquireShared, AcqTake, TryLoop, LeaveFrame, Goto, SetTop
  <2> QED  BY ZenonT(60), <2>1, <2>2, <2>3
<1>3. ASSUME Pending, word' = word, Attends(t)
      PROVE  Attends(t)'
  <2>1. pc[t] \in {"tryWake", "acqRead", "acqLoop"}
    BY ZenonT(60), <1>3 DEF IInv, TypeOK, Frames, OutOfCall, Holding, Attends, Woken, Published, Reads,
       AcqRead, TryRead, RelRead, RelsRead, AcquireRelease, ReleaseExclusiveExf, ReleaseGeneric,
       TryWake, Begin, BeginRelease, Takes, AcquireExclusive, TryAcquireExclusive,
       AcquireShared, TryAcquireShared, AcqTake, TryLoop, Drops, ReleaseShared, RelsLoop,
       RelsWalk, RelsCount, Convert, ConvertToShared, TryConvertToExclusive
  <2>2. \/ pc'[t] \in {"acqRead", "acqLoop"}
        \/ pc'[t] = "tryWakeSwap" /\ top'[t] = word
    <3>1. CASE pc[t] = "tryWake"
      <4>1. TryWake(t)
        BY ZenonT(60), <3>1 DEF Reads, AcqRead, TryRead, RelRead, RelsRead, AcquireRelease,
           ReleaseExclusiveExf, ReleaseGeneric, Begin, BeginRelease, Takes, AcquireExclusive,
           TryAcquireExclusive, AcquireShared, TryAcquireShared, AcqTake, TryLoop, Drops,
           ReleaseShared, RelsLoop, RelsWalk, RelsCount, Convert, ConvertToShared,
           TryConvertToExclusive
      <4> QED  BY ZenonT(60), <1>3, <4>1 DEF TryWake, Pending, Goto, SetTop, IInv, TypeOK
    <3>2. CASE pc[t] \in {"acqRead", "acqLoop"}
      <4>1. AcqRead(t) \/ AcqTake(t)
        BY ZenonT(60), <3>2 DEF Reads, TryRead, RelRead, RelsRead, AcquireRelease, ReleaseExclusiveExf,
           ReleaseGeneric, TryWake, Begin, BeginRelease, Takes, AcquireExclusive,
           TryAcquireExclusive, AcquireShared, TryAcquireShared, TryLoop, Drops, ReleaseShared,
           RelsLoop, RelsWalk, RelsCount, Convert, ConvertToShared, TryConvertToExclusive
      <4>2. CASE AcqRead(t)
        BY Zenon, <4>2 DEF AcqRead, Goto, IInv, TypeOK
      <4>3. CASE AcqTake(t)
        <5>1. word.lock \in BOOLEAN /\ ~word.lock /\ ~word'.lock
          BY ZenonT(60), <1>3 DEF Pending, IInv, TypeOK, Words
        <5>2. Mismatch(old[t])
          BY ZenonT(60), <4>3, <5>1 DEF AcqTake, Swap, Taken, Lock, IInv, TypeOK, Words
        <5> QED  BY ZenonT(60), <4>3, <5>2 DEF AcqTake, Swap, Mismatch, Goto, IInv, TypeOK
      <4> QED  BY ZenonT(60), <4>1, <4>2, <4>3
    <3> QED  BY ZenonT(60), <2>1, <3>1, <3>2
  <2> QED  BY Zenon, <1>3, <2>2 DEF Attends
<1> QED  BY ZenonT(60), <1>1, <1>2, <1>3, AttendStep

(* A step of a waiter, and the compare-exchange that makes one.            *)
LEMMA WaitersAttend ==
    ASSUME NEW C, NEW P, NEW pos, NEW o, NEW f, IInv(C, P, pos, o, f), Attended,
           NEW t \in Threads, Waits(t) \/ AcqPush(t)
    PROVE  Attended'
<1>1. ASSUME Pending', word' # word
      PROVE  FALSE
  <2>1. AcqPush(t) /\ old[t].lock /\ word' = Pushed(t, old[t], mode[t])
    BY ZenonT(60), <1>1 DEF Waits, GateInit, Park, Awake, AcqPush, Available, Swap, Mismatch
  <2> QED  BY Zenon, <1>1, <2>1 DEF Pushed, Pending, IInv, TypeOK, Words
<1>2. Spares(t)
  BY DEF IInv, TypeOK, Spares, Waits, GateInit, Park, Awake, AcqPush, Goto, SetTop
<1>3. ASSUME Pending, word' = word, Attends(t)
      PROVE  Attends(t)'
  <2>1. CASE AcqPush(t)
    <3>1. word.lock \in BOOLEAN /\ ~word.lock
      BY Zenon, <1>3 DEF Pending, IInv, TypeOK, Words
    <3>2. pc' = [pc EXCEPT ![t] = "acqRead"]
      BY Zenon, <2>1, <3>1 DEF AcqPush, Available, Swap, Mismatch, Goto
    <3> QED  BY Zenon, <3>2 DEF Attends, IInv, TypeOK
  <2>2. CASE Waits(t)
    <3>1. Woken(t) /\ pc[t] \in {"gateInit", "park", "sleep"}
      BY Zenon, <1>3, <2>2 DEF Attends, Waits, GateInit, Park, Awake
    <3>2. CASE GateInit(t)
      <4>1. pc'[t] = "park" /\ block'[t].spin = block[t].spin /\ mode' = mode
        BY <3>2 DEF GateInit, Goto, IInv, TypeOK, Blocks
      <4>2. Woken(t)'
        BY ZenonT(60), <3>1, <3>2, <4>1 DEF Woken, Published, GateInit
      <4> QED  BY Zenon, <4>2 DEF Attends
    <3>3. CASE Park(t) \/ Awake(t)
      <4>1. pc'[t] = "acqLoop"
        BY ZenonT(60), <3>1, <3>3 DEF Park, Awake, Woken, Goto, IInv, TypeOK
      <4> QED  BY Zenon, <4>1 DEF Attends
    <3> QED  BY Zenon, <2>2, <3>2, <3>3 DEF Waits
  <2> QED  BY ZenonT(60), <2>1, <2>2
<1> QED  BY Zenon, <1>1, <1>2, <1>3, AttendStep

(* Who unlocks wakes, or is about to try, or leaves it to the owner of     *)
(* Waking.                                                                 *)
LEMMA UnlockersAttend ==
    ASSUME NEW C, NEW P, NEW pos, NEW o, NEW f, IInv(C, P, pos, o, f), Attended,
           NEW t \in Threads, ReleaseExclusive(t) \/ Unlocks(t) \/ TryWakeSwap(t)
    PROVE  Attended'
<1>1. word \in Words /\ old[t] \in Words /\ top[t] \in Words
  BY Zenon DEF IInv, TypeOK
<1>2. ASSUME Pending', word' # word
      PROVE  Attends(t)'
  <2>1. ~Unlocks(t) /\ ~TryWakeSwap(t)
    <3>1. ~RelsUnlock(t)
      BY Zenon, <1>1, <1>2 DEF RelsUnlock, UnlockAndWake, Swap, Mismatch, Unlock, Waking, Pending, Words
    <3>2. ~RelLoop(t)
      BY Zenon, <1>1, <1>2 DEF RelLoop, UnlockAndWake, Swap, Mismatch, Unlock, Waking, Pending, Words
    <3>3. ~TryWakeSwap(t)
      BY Zenon, <1>1, <1>2 DEF TryWakeSwap, Swap, Mismatch, Waking, Pending, Words
    <3> QED  BY ZenonT(60), <3>1, <3>2, <3>3 DEF Unlocks
  <2>2. ReleaseExclusive(t) /\ word.waiting /\ ~word.waking
    BY Zenon, <1>1, <1>2, <2>1 DEF ReleaseExclusive, Unlock, Pending, Words
  <2>3. pc'[t] = "tryWake"
    BY Zenon, <2>2 DEF ReleaseExclusive, Goto, IInv, TypeOK
  <2> QED  BY Zenon, <2>3 DEF Attends
<1>3. Spares(t)
  BY ZenonT(60) DEF IInv, TypeOK, Spares, ReleaseExclusive, Unlocks, RelLoop, RelsUnlock, UnlockAndWake,
     TryWakeSwap, Goto, SetTop
<1>4. ASSUME Pending, word' = word
      PROVE  ~Attends(t)
  <2>1. pc[t] \in {"idle", "relLoop", "relsUnlock", "tryWakeSwap"} /\ mode[t] = "none"
    BY Zenon DEF IInv, Frames, OutOfCall, ReleaseExclusive, BeginRelease, Unlocks, RelLoop, RelsUnlock,
       TryWakeSwap
  <2>2. ASSUME pc[t] = "tryWakeSwap", top[t] = word
        PROVE  FALSE
    <3>1. TryWakeSwap(t)
      BY Zenon, <2>2 DEF ReleaseExclusive, BeginRelease, Unlocks, RelLoop, RelsUnlock
    <3>2. word' = Waking(word, TRUE)
      BY Zenon, <2>2, <3>1 DEF TryWakeSwap, Swap, Mismatch
    <3> QED  BY Zenon, <1>1, <1>4, <3>2 DEF Waking, Pending, Words
  <2> QED  BY Zenon, <2>1, <2>2 DEF Attends, Woken, Published
<1> QED  BY ZenonT(60), <1>2, <1>3, <1>4, AttendStep

(* The owner of Waking attends until it gives up a lock that is held, or   *)
(* has waiters to wake.                                                    *)
LEMMA WakersAttend ==
    ASSUME NEW C, NEW P, NEW pos, NEW o, NEW f, IInv(C, P, pos, o, f), Attended,
           NEW t \in Threads,
           \/ OptTop(t) \/ OptWalk(t) \/ OptSwap(t) \/ WakeTop(t) \/ WakeWalk(t)
           \/ WakeTake(t) \/ WakeAnd(t)
    PROVE  Attended'
<1>1. pc[t] \in WakingPCs
  BY Zenon DEF OptTop, OptWalk, OptSwap, WakeTop, WakeWalk, WakeTake, WakeAnd, WakingPCs
<1>2. ~Pending /\ word \in Words /\ top[t] \in Words /\ Walk(t, C, pos, o, f)
  BY ZenonT(60), <1>1, WakerFacts DEF Pending, IInv, TypeOK
<1>3. ASSUME Pending', word' # word
      PROVE  Attends(t)'
  <2>1. ~OptTop(t) /\ ~OptWalk(t) /\ ~WakeWalk(t)
    BY Zenon, <1>3 DEF OptTop, OptWalk, WakeWalk
  <2>2. ~OptSwap(t)
    <3>1. pc[t] = "optSwap" => top[t].lock
      BY Zenon, <1>2 DEF Walk
    <3> QED  BY ZenonT(60), <1>2, <1>3, <3>1 DEF OptSwap, Swap, Mismatch, Waking, Pending, Words
  <2>3. ~WakeTop(t)
    BY ZenonT(60), <1>2, <1>3 DEF WakeTop, Swap, Mismatch, Waking, Pending, Words
  <2>4. ~WakeTake(t)
    BY <1>3 DEF WakeTake, Swap, Mismatch, Free, Pending
  <2>5. pc'[t] = "wakeClear"
    BY ZenonT(60), <2>1, <2>2, <2>3, <2>4 DEF WakeAnd, Goto, IInv, TypeOK
  <2> QED  BY Zenon, <2>5 DEF Attends
<1>4. Pending' => word' = word \/ Attends(t)'
  BY Zenon, <1>3
<1> QED  BY ZenonT(60), <1>2, <1>4, AttendStep

(* Who wakes has woken a waiter when it leaves.                            *)
LEMMA WakesAttend ==
    ASSUME NEW C, NEW P, NEW pos, NEW o, NEW f, IInv(C, P, pos, o, f), Attended,
           NEW t \in Threads, WakeClear(t) \/ WakeSignal(t)
    PROVE  Attended'
<1>1. PICK b : b = wb[t]
  OBVIOUS
<1>2. pc[t] \in {"wakeClear", "wakeSignal"} /\ word' = word /\ mode' = mode
      /\ block \in [Threads -> Blocks] /\ pc \in [Threads -> PCs]
  BY Zenon DEF WakeClear, WakeSignal, IInv, TypeOK
<1>3. b \in Threads /\ Queued(b) /\ (pc[t] = "wakeSignal" => pc[b] = "sleep" /\ b # t)
  BY ZenonT(60), <1>1, <1>2 DEF IInv, Chain, Lists, ListPCs, Members
<1>4. /\ \A u \in Threads : u # b => block'[u] = block[u]
      /\ block'[b].spin => block[b].spin
      /\ block[b].gate = "set" => block'[b].gate = "set"
  BY <1>1, <1>2, <1>3 DEF WakeClear, WakeSignal, Blocks
<1>5. Spares(t)
  BY <1>2, <1>4 DEF Spares, WakeClear, WakeSignal, WakeReturn, Goto, SetTop, IInv, TypeOK
<1>6. \/ pc'[t] \in {"wakeClear", "wakeSignal"}
      \/ pc'[t] \in {"idle", "gateInit"} /\ (pc[t] = "wakeSignal" \/ block[b].spin)
  BY Zenon, <1>1, <1>2 DEF WakeClear, WakeSignal, WakeReturn, Goto
<1>7. ASSUME pc'[t] \in {"idle", "gateInit"}, pc[t] = "wakeSignal" \/ block[b].spin
      PROVE  Woken(b)'
  <2>1. Published(b)
    BY Zenon, <1>3 DEF Queued
  <2>2. CASE pc[t] = "wakeSignal"
    <3>1. pc'[b] = "sleep" /\ block'[b].gate = "set"
      BY <1>1, <1>2, <1>3, <1>5, <2>2 DEF WakeClear, WakeSignal, Spares, Blocks
    <3> QED  BY ZenonT(60), <1>2, <2>1, <3>1 DEF Woken, Published
  <2>3. CASE pc[t] = "wakeClear"
    <3>1. block[b].spin /\ ~block'[b].spin
      BY ZenonT(60), <1>1, <1>2, <1>3, <1>7, <2>3 DEF WakeClear, WakeSignal, Blocks
    <3>2. pc[b] # "sleep"
      BY ZenonT(60), <1>3, <3>1 DEF IInv, Frames
    <3>3. pc'[b] # "sleep" /\ (b = t => mode[t] # "none") /\ pc'[b] \notin {"acqRead", "acqLoop"}
      BY ZenonT(60), <1>3, <1>5, <1>7, <2>1, <3>2 DEF Spares, Published
    <3> QED  BY ZenonT(60), <1>2, <2>1, <3>1, <3>3 DEF Woken, Published
  <2> QED  BY ZenonT(60), <1>2, <2>2, <2>3
<1>8. \E s \in Threads : Attends(s)'
  BY ZenonT(60), <1>3, <1>6, <1>7 DEF Attends
<1> QED  BY Zenon, <1>2, <1>5, <1>8, AttendStep

LEMMA NextAttended == Inv /\ Attended /\ [Next]_vars => Attended'
<1> SUFFICES ASSUME Inv, Attended, [Next]_vars PROVE Attended'
  OBVIOUS
<1>1. PICK C, P, pos, o, f : IInv(C, P, pos, o, f)
  BY Zenon DEF Inv
<1>2. CASE UNCHANGED vars
  BY Zenon, <1>2 DEF vars, Attended, Pending, Attends, Woken, Published
<1>3. ASSUME NEW t \in Threads, BeginCall(t) \/ OwnerCall(t) \/ Convert(t)
      PROVE  Attended'
  BY ZenonT(60), <1>1, <1>3, CallsAttend, UnlockersAttend DEF BeginCall, OwnerCall, Reads, Takes, Drops
<1>4. ASSUME NEW t \in Threads, Continue(t)
      PROVE  Attended'
  BY <1>1, <1>4, CallsAttend, WaitersAttend, UnlockersAttend, WakersAttend, WakesAttend
     DEF Continue, Reads, Takes, Drops, Waits, Unlocks
<1> QED  BY ZenonT(60), <1>2, <1>3, <1>4 DEF Next

(* No waiter is forgotten.                                                 *)
THEOREM NoneForgotten == Spec => []WaitersRemembered
<1>1. Init => Attended
  BY DEF Init, Attended, Pending, Free
<1>2. ASSUME Inv, Attended PROVE WaitersRemembered
  <2>1. PICK C, P, pos, o, f : IInv(C, P, pos, o, f)
    BY Zenon, <1>2 DEF Inv
  <2>2. ASSUME ~word.waiting, NEW u \in Threads, Queued(u)
        PROVE  \E t \in Threads : pc[t] \in {"wakeClear", "wakeSignal"}
    <3>1. C = {} /\ ~word.waking
      BY ZenonT(60), <2>1, <2>2 DEF IInv, Chain, Shape
    <3>2. PICK t \in Threads : u \in P[t]
      BY ZenonT(60), <2>1, <2>2, <3>1 DEF IInv, Chain, Members
    <3>3. pc[t] \in ListPCs /\ pc[t] \notin WakingPCs
      BY ZenonT(60), <2>1, <3>1, <3>2 DEF IInv, Chain, Lists, OneWaker
    <3> QED  BY ZenonT(60), <3>3 DEF ListPCs, WakingPCs
  <2> QED  BY ZenonT(60), <1>2, <2>2 DEF WaitersRemembered, Attended, Pending
<1> QED  BY <1>1, <1>2, Invariant, NextAttended, PTL DEF Spec
=============================================================================
