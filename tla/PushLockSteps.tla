--------------------------- MODULE PushLockSteps ---------------------------
(***************************************************************************)
(* The inductive invariant of PushLock, and that the steps of a thread     *)
(* other than the walks of the chain keep it.  The walks are in            *)
(* PushLockWalks, the theorems that follow in PushLockProofs.              *)
(***************************************************************************)
EXTENDS PushLock, TLAPS

(* The inductive invariant speaks of the chain, which the variables hold   *)
(* as links only: C is the set of the wait blocks on it, o is the oldest,  *)
(* f the newest one whose Last pointer is set, and pos numbers the blocks  *)
(* from old to new.  P[t] is the set of the blocks that t has taken off    *)
(* the chain and is to wake.                                               *)

ListPCs == {"wakeAnd", "wakeClear", "wakeSignal"}
WalkPCs == {"optWalk", "wakeWalk"}
WakePCs == {"wakeTop", "wakeWalk", "wakeTake", "wakeAnd"}

(* What each thread may rely on in its own frame.                          *)
InCall    == {"acqRead", "acqLoop", "gateInit", "park", "sleep", "optTop", "optWalk", "optSwap"}
OutOfCall == {"idle", "tryRead", "tryLoop", "tryWake", "tryWakeSwap", "relRead", "relLoop",
              "relsRead", "relsLoop", "relsWalk", "relsCount", "relsUnlock"}
Holding   == {"relRead", "relLoop", "relsRead", "relsLoop", "relsWalk", "relsCount"}

Frames ==
    \A t \in Threads :
        /\ pc[t] \in InCall => mode[t] # "none"
        /\ pc[t] \in OutOfCall => mode[t] = "none"
        /\ held[t] # "none" => pc[t] \in {"idle", "relsUnlock"} \cup Holding
        /\ pc[t] \in Holding => held[t] # "none"
        /\ pc[t] \in {"relRead", "relLoop"} => held[t] = "exclusive"
        /\ pc[t] \in {"relsWalk", "relsCount"} => held[t] = "shared"
        /\ pc[t] = "sleep" => ~block[t].spin /\ block[t].gate # "uninit"
        /\ pc[t] = "park" => block[t].gate = "clear"
        /\ pc[t] = "tryWakeSwap" => top[t].waiting /\ ~top[t].waking /\ ~top[t].lock

(* Waking has one owner.                                                   *)
OneWaker ==
    /\ word.waking <=> \E t \in Threads : pc[t] \in WakingPCs
    /\ \A t, u \in Threads : pc[t] \in WakingPCs /\ pc[u] \in WakingPCs => t = u

(* Who owns the lock, and where the share count is.  A thread at           *)
(* relsUnlock that holds nothing is the last sharer, about to unlock.      *)
Owners(o) ==
    /\ ~word.lock => /\ ~word.multi /\ (~word.waiting => word.rest = 0)
                     /\ \A t \in Threads : held[t] = "none" /\ pc[t] # "relsUnlock"
    /\ \A t \in Threads : held[t] = "exclusive" =>
          /\ ~word.multi
          /\ \A u \in Threads \ {t} : held[u] = "none"
    /\ ~word.waiting => word.rest = Cardinality(Sharers)
    /\ word.waiting /\ word.multi => block[o].share = Cardinality(Sharers)
    /\ word.waiting /\ ~word.multi =>
          \A t, u \in Threads : held[t] # "none" /\ held[u] # "none" => t = u
    /\ \A u \in Threads : block[u].share # 0 => word.multi /\ u = o
    /\ \A t \in Threads : pc[t] = "relsUnlock" /\ held[t] = "none" =>
          \A u \in Threads : held[u] = "none" /\ (pc[u] = "relsUnlock" => u = t)

(* The links of the chain.                                                 *)
Shape(C, pos, o, f) ==
    /\ ~word.waiting => C = {} /\ ~word.multi /\ ~word.waking
    /\ word.waiting => /\ word.rest \in C /\ o \in C /\ f \in C
                       /\ block[f].last = o
    /\ word.multi => /\ block[o].last = o /\ block[o].excl
                     /\ \A u \in C : block[u].last \in {Null, o}
    /\ \A u \in C :
          /\ pos[o] <= pos[u] /\ pos[u] <= pos[word.rest]
          /\ u # o => block[u].next \in C /\ pos[block[u].next] = pos[u] - 1
          /\ block[u].prev # Null => block[u].prev \in C /\ pos[block[u].prev] = pos[u] + 1
          /\ pos[u] > pos[f] => block[u].last = Null
          /\ pos[u] < pos[f] => block[u].prev # Null
    /\ \A u, v \in C : pos[u] = pos[v] => u = v

(* What is on the chain or to be woken waits, and nobody else does.        *)
Members(C, P) ==
    /\ C \subseteq Threads /\ P \in [Threads -> SUBSET Threads]
    /\ \A u \in C : Queued(u)
    /\ \A t \in Threads : \A u \in P[t] : Queued(u) /\ u \notin C
    /\ \A s, t \in Threads : \A u \in Threads : u \in P[s] /\ u \in P[t] => s = t
    /\ \A u \in Threads : Queued(u) => u \in C \/ \E t \in Threads : u \in P[t]

(* The links of what a thread is to wake.                                  *)
Lists(P, pos) ==
    \A t \in Threads :
        /\ pc[t] \in ListPCs <=> P[t] # {}
        /\ pc[t] \in ListPCs => wb[t] \in P[t]
        /\ \A u \in P[t] :
              /\ pos[wb[t]] <= pos[u]
              /\ block[u].prev # Null => block[u].prev \in P[t] /\ pos[block[u].prev] = pos[u] + 1
              /\ \A v \in P[t] : pos[u] < pos[v] => block[u].prev # Null
              /\ \A v \in P[t] : pos[u] = pos[v] => u = v
        /\ pc[t] = "wakeSignal" => /\ pc[wb[t]] = "sleep" /\ block[wb[t]].gate = "clear"
                                   /\ top[t].rest = block[wb[t]].prev

(* The walk of the owner of Waking, from the block that was the newest.    *)
Walk(t, C, pos, o, f) ==
    /\ top[t].rest \in C /\ pos[f] <= pos[top[t].rest]
    /\ \A u \in C : pos[top[t].rest] <= pos[u] => block[u].prev = Null
    /\ pc[t] # "wakeAnd" => top[t].waiting /\ top[t].waking
    /\ pc[t] = "optTop" /\ ~top[t].lock => ~word.multi /\ ~top[t].multi
    /\ pc[t] \in WakePCs => ~word.multi /\ ~top[t].multi
    /\ pc[t] \in {"wakeWalk", "wakeTake"} => ~top[t].lock
    /\ pc[t] \in {"optWalk", "optSwap"} => top[t].lock
    /\ pc[t] \in WalkPCs =>
          /\ wb[t] \in C /\ pos[f] <= pos[wb[t]] /\ pos[wb[t]] <= pos[top[t].rest]
          /\ \A u \in C : pos[wb[t]] <= pos[u] /\ pos[u] < pos[top[t].rest]
                             => block[u].prev # Null
    /\ pc[t] = "wakeTake" =>
          /\ wb[t] = o
          /\ \A u \in C : pos[u] < pos[top[t].rest] => block[u].prev # Null

Walks(C, pos, o, f) ==
    \A t \in Threads : pc[t] \in WakingPCs => Walk(t, C, pos, o, f)

(* The walk of a sharer that releases a lock with waiters.                 *)
Release(t, C, o) ==
    /\ pc[t] = "relsLoop" /\ old[t].waiting =>
          /\ word.waiting /\ word.multi = old[t].multi
          /\ old[t].multi => old[t].rest \in C
    /\ pc[t] = "relsWalk" => word.multi /\ wb[t] \in C
    /\ pc[t] = "relsCount" => word.multi /\ wb[t] = o
    /\ pc[t] = "relsUnlock" => word.waiting /\ (word.multi <=> held[t] = "none")

Releases(C, o) == \A t \in Threads : Release(t, C, o)

Chain(C, P, pos, o, f) ==
    /\ pos \in [Threads -> Int]
    /\ Shape(C, pos, o, f)
    /\ Members(C, P)
    /\ Lists(P, pos)
    /\ Walks(C, pos, o, f)
    /\ Releases(C, o)
    /\ Owners(o)

IInv(C, P, pos, o, f) == TypeOK /\ Frames /\ OneWaker /\ Chain(C, P, pos, o, f)

Inv == \E C, P, pos, o, f : IInv(C, P, pos, o, f)

-----------------------------------------------------------------------------
(* What the proofs below use of sizes: it is shown in PushLockProofs.      *)
Counted ==
    /\ Cardinality({}) = 0 /\ Cardinality(Threads) \in Nat
    /\ \A S \in SUBSET Threads :
          /\ Cardinality(S) \in 0 .. Cardinality(Threads)
          /\ Cardinality(S) = 0 => S = {}
          /\ \A t \in Threads \ S : Cardinality(S \cup {t}) = Cardinality(S) + 1
          /\ \A t \in S : Cardinality(S \ {t}) = Cardinality(S) - 1

(* A set of threads has a size.                                            *)
LEMMA Sizes ==
    ASSUME Counted, NEW S \in SUBSET Threads
    PROVE  /\ Cardinality(S) \in 0 .. Cardinality(Threads)
           /\ Cardinality(S) \in Nat /\ Cardinality(Threads) \in Nat
           /\ Cardinality(S) = 0 <=> S = {}
           /\ \A t, u \in S : Cardinality(S) <= 1 => t = u
<1>1. /\ Cardinality(S) \in 0 .. Cardinality(Threads) /\ Cardinality(Threads) \in Nat
      /\ Cardinality(S) = 0 <=> S = {}
  BY Zenon DEF Counted
<1>2. ASSUME NEW t \in S, NEW u \in S, Cardinality(S) <= 1
      PROVE  t = u
  <2>1. Cardinality(S \ {t}) = Cardinality(S) - 1
    BY Zenon DEF Counted
  <2>2. S \ {t} \in SUBSET Threads
    OBVIOUS
  <2>3. Cardinality(S \ {t}) \in Nat /\ (Cardinality(S \ {t}) = 0 => S \ {t} = {})
    BY <2>2 DEF Counted
  <2>4. S \ {t} = {}
    BY <1>1, <1>2, <2>1, <2>3
  <2> QED  BY Zenon, <2>4
<1> QED  BY <1>1, <1>2

LEMMA NoneOrOne ==
    ASSUME Counted
    PROVE  Cardinality({}) = 0 /\ \A t \in Threads : Cardinality({t}) = 1
<1>1. Cardinality({}) = 0
  BY Zenon DEF Counted
<1>2. ASSUME NEW t \in Threads PROVE Cardinality({t}) = 1
  <2>1. Cardinality({} \cup {t}) = Cardinality({}) + 1
    BY Zenon DEF Counted
  <2> QED  BY <1>1, <2>1
<1> QED  BY Zenon, <1>1, <1>2

LEMMA Constants ==
    ASSUME Counted
    PROVE  Free \in Words /\ NoBlock \in Blocks
  BY Zenon, Sizes DEF Free, Words, NoBlock, Blocks

LEMMA BlockFields ==
    ASSUME NEW b \in Blocks
    PROVE  /\ \A x \in Threads \cup {Null} :
                 [b EXCEPT !.prev = x] \in Blocks /\ [b EXCEPT !.last = x] \in Blocks
           /\ \A n \in 0 .. Cardinality(Threads) : [b EXCEPT !.share = n] \in Blocks
           /\ \A g \in {"clear", "set"} : [b EXCEPT !.gate = g] \in Blocks
           /\ [b EXCEPT !.spin = FALSE] \in Blocks
  BY Zenon DEF Blocks

(* Positions on the chain are integers.                                    *)
LEMMA NotBeyond == \A a, b \in Int : a <= b => ~(b + 1 <= a)
  OBVIOUS

(* The number of sharers follows what a thread that changes its hold does. *)
LEMMA SharersStep ==
    ASSUME Counted, held \in [Threads -> {"none", "shared", "exclusive"}],
           NEW t \in Threads, NEW h \in {"none", "shared", "exclusive"},
           held' = [held EXCEPT ![t] = h]
    PROVE  /\ held[t] # "shared" /\ h = "shared" =>
                  Cardinality(Sharers') = Cardinality(Sharers) + 1
           /\ held[t] = "shared" /\ h # "shared" =>
                  Cardinality(Sharers') = Cardinality(Sharers) - 1
           /\ (held[t] = "shared" <=> h = "shared") => Sharers' = Sharers
<1>1. Sharers \in SUBSET Threads
  BY Zenon DEF Sharers
<1>2. ASSUME held[t] # "shared", h = "shared"
      PROVE  Cardinality(Sharers') = Cardinality(Sharers) + 1
  <2>1. Sharers' = Sharers \cup {t} /\ t \notin Sharers
    BY Zenon, <1>2 DEF Sharers
  <2> QED  BY Zenon, <1>1, <2>1 DEF Counted
<1>3. ASSUME held[t] = "shared", h # "shared"
      PROVE  Cardinality(Sharers') = Cardinality(Sharers) - 1
  <2>1. Sharers' = Sharers \ {t} /\ t \in Sharers
    BY Zenon, <1>3 DEF Sharers
  <2> QED  BY Zenon, <1>1, <2>1 DEF Counted
<1>4. (held[t] = "shared" <=> h = "shared") => Sharers' = Sharers
  BY Zenon DEF Sharers
<1> QED  BY Zenon, <1>2, <1>3, <1>4

-----------------------------------------------------------------------------
SameLinks(b, c) == b.next = c.next /\ b.last = c.last /\ b.prev = c.prev /\ b.excl = c.excl

(* Only t moves; the lock bit and share counts may change.                 *)
Moves(t) ==
    /\ word'.waiting = word.waiting /\ word'.waking = word.waking
    /\ word'.multi = word.multi /\ (word.waiting => word'.rest = word.rest)
    /\ \A u \in Threads : u # t =>
          /\ SameLinks(block'[u], block[u])
          /\ block'[u].spin = block[u].spin /\ block'[u].gate = block[u].gate
          /\ pc'[u] = pc[u] /\ mode'[u] = mode[u] /\ held'[u] = held[u]
          /\ old'[u] = old[u] /\ top'[u] = top[u] /\ wb'[u] = wb[u]

OnlyMoves(t) == Moves(t) /\ \A u \in Threads : u # t => block'[u] = block[u]

(* A step of t outside the walks of the owner of Waking leaves the chain   *)
(* as it is.                                                               *)
LEMMA QuietStep ==
    ASSUME NEW C, NEW P, NEW pos, NEW o, NEW f, IInv(C, P, pos, o, f),
           NEW t \in Threads, Moves(t),
           pc[t] \notin WakingPCs \cup ListPCs,
           pc'[t] \notin WakingPCs \cup ListPCs,
           pc[t] = "sleep" => block[t].gate = "set",
           Queued(t)' <=> Queued(t),
           Queued(t) => SameLinks(block'[t], block[t]),
           Release(t, C, o)'
    PROVE  /\ OneWaker' /\ Shape(C, pos, o, f)' /\ Members(C, P)' /\ Lists(P, pos)'
           /\ Walks(C, pos, o, f)' /\ Releases(C, o)' /\ pos \in [Threads -> Int]
<1> USE DEF IInv, Chain, Moves
<1>1. OneWaker'
  BY Zenon DEF OneWaker
<1>2. \A u \in Threads : Queued(u)' <=> Queued(u)
  <2>1. ASSUME NEW u \in Threads, u # t
        PROVE  Queued(u)' <=> Queued(u)
    BY Zenon, <2>1 DEF Queued, Published, Woken
  <2> QED  BY Zenon, <2>1
<1>3. \A u \in Threads : Queued(u) => SameLinks(block'[u], block[u])
  BY Zenon DEF SameLinks
<1>4. \A u \in C : u \in Threads /\ SameLinks(block'[u], block[u])
  BY Zenon, <1>3 DEF Members
<1>5. \A s \in Threads : \A u \in P[s] : u \in Threads /\ SameLinks(block'[u], block[u])
  BY Zenon, <1>3 DEF Members
<1>6. Shape(C, pos, o, f)'
  BY <1>4 DEF Shape, SameLinks
<1>7. Members(C, P)'
  BY Zenon, <1>2 DEF Members
<1>8. Lists(P, pos)'
  BY <1>5 DEF Lists, SameLinks, ListPCs
<1>9. Walks(C, pos, o, f)'
  BY <1>4 DEF Walks, Walk, SameLinks
<1>10. Releases(C, o)'
  BY DEF Releases, Release
<1> QED  BY Zenon, <1>1, <1>6, <1>7, <1>8, <1>9, <1>10

(* Nor does it change the owners, unless it takes or gives the lock.       *)
LEMMA OwnersKept ==
    ASSUME NEW C, NEW P, NEW pos, NEW o, NEW f, IInv(C, P, pos, o, f),
           NEW t \in Threads, OnlyMoves(t), UNCHANGED <<word, held>>,
           block'[t].share = block[t].share \/ (block'[t].share = 0 /\ ~Queued(t)),
           pc'[t] = "relsUnlock" => held[t] # "none" \/ pc[t] = "relsUnlock"
    PROVE  Owners(o)'
<1> USE DEF IInv, Chain, Moves, OnlyMoves
<1>1. Sharers' = Sharers
  BY Zenon DEF Sharers
<1>2. word.multi => word.waiting /\ o \in Threads /\ Queued(o)
  BY Zenon DEF Shape, Members
<1>3. \A u \in Threads : block'[u].share # 0 => block'[u].share = block[u].share
  OBVIOUS
<1>4. word.multi => block'[o].share = block[o].share
  BY Zenon, <1>2
<1> QED  BY <1>1, <1>3, <1>4, <1>2 DEF Owners

(* Steps that only read the word.                                          *)
Reads(t) == \/ AcqRead(t) \/ TryRead(t) \/ RelRead(t) \/ RelsRead(t)
            \/ AcquireRelease(t) \/ ReleaseExclusiveExf(t) \/ ReleaseGeneric(t)
            \/ TryWake(t)

LEMMA ReadsStep ==
    ASSUME NEW C, NEW P, NEW pos, NEW o, NEW f, IInv(C, P, pos, o, f),
           NEW t \in Threads, Reads(t)
    PROVE  IInv(C, P, pos, o, f)'
<1> USE DEF Reads, AcqRead, TryRead, RelRead, RelsRead, AcquireRelease, ReleaseExclusiveExf,
            ReleaseGeneric, TryWake, Begin, BeginRelease, Goto, SetOld, SetTop
<1>1. TypeOK'
  BY CallsAssumption DEF IInv, TypeOK, PCs, WakingPCs
<1>2. Frames'
  BY DEF IInv, TypeOK, Frames, InCall, OutOfCall, Holding
<1>3. OnlyMoves(t) /\ UNCHANGED <<word, held>>
  BY ZenonT(60) DEF IInv, TypeOK, OnlyMoves, Moves, SameLinks
<1>4. /\ pc[t] \notin WakingPCs \cup ListPCs /\ pc'[t] \notin WakingPCs \cup ListPCs
      /\ pc[t] # "sleep" /\ pc'[t] # "relsUnlock" /\ block' = block
  BY ZenonT(60) DEF IInv, TypeOK, WakingPCs, ListPCs
<1>5. Queued(t)' <=> Queued(t)
  BY Zenon DEF IInv, TypeOK, Frames, InCall, OutOfCall, Queued, Published, Woken
<1>6. Release(t, C, o)'
  BY DEF IInv, TypeOK, Chain, Frames, Holding, Releases, Release, Shape
<1> QED
  BY Zenon, <1>1, <1>2, <1>3, <1>4, <1>5, <1>6, QuietStep, OwnersKept
     DEF IInv, Chain, SameLinks, OnlyMoves

(* Who takes a lock that is not held owns it alone.                        *)
LEMMA TakeExclusive ==
    ASSUME Counted, NEW C, NEW P, NEW pos, NEW o, NEW f, IInv(C, P, pos, o, f),
           NEW t \in Threads, OnlyMoves(t),
           ~word.lock, word' = Lock(word), held' = [held EXCEPT ![t] = "exclusive"],
           block'[t].share \in {0, block[t].share}, pc'[t] # "relsUnlock"
    PROVE  Owners(o)'
<1> USE DEF IInv, Chain, Moves, OnlyMoves
<1>1. Sharers' = {} /\ Sharers = {} /\ Cardinality(Sharers) = 0
  <2>1. Sharers = {}
    BY Zenon DEF Owners, Sharers
  <2>2. Sharers' = {}
    BY Zenon DEF Owners, Sharers, TypeOK
  <2> QED  BY Zenon, <2>1, <2>2, NoneOrOne
<1>2. /\ word'.lock /\ ~word'.multi /\ word'.rest = word.rest
      /\ word'.waiting = word.waiting
  BY Zenon DEF Lock, TypeOK, Words, Owners
<1>3. \A u \in Threads : block[u].share = 0 /\ block'[u].share = 0
  BY ZenonT(60) DEF Owners
<1>4. \A u \in Threads : pc'[u] # "relsUnlock"
  BY ZenonT(60) DEF Owners
<1>5. \A u \in Threads : held'[u] # "none" <=> u = t
  BY ZenonT(60) DEF Owners, TypeOK
<1> QED  BY <1>1, <1>2, <1>3, <1>4, <1>5 DEF Owners

(* A sharer of a lock that is not held, or that is shared and has no       *)
(* waiters, is counted, or is the only one if there are waiters.           *)
LEMMA TakeShared ==
    ASSUME Counted, NEW C, NEW P, NEW pos, NEW o, NEW f, IInv(C, P, pos, o, f),
           NEW t \in Threads, OnlyMoves(t), held[t] = "none",
           Available(word, "shared"), word' = Taken(word, "shared"),
           held' = [held EXCEPT ![t] = "shared"],
           block'[t].share \in {0, block[t].share}, pc'[t] # "relsUnlock"
    PROVE  Owners(o)' /\ word' \in Words /\ (word'.waiting <=> word'.rest \in Threads)
<1> USE DEF IInv, Chain, Moves, OnlyMoves
<1> DEFINE n == Cardinality(Sharers)
<1>1. /\ Cardinality(Sharers') = n + 1 /\ n \in Nat
      /\ n = 0 <=> Sharers = {}
      /\ held' \in [Threads -> {"none", "shared", "exclusive"}]
      /\ n + 1 \in 0 .. Cardinality(Threads)
  <2>1. held' \in [Threads -> {"none", "shared", "exclusive"}]
    BY Zenon DEF TypeOK
  <2>2. Sharers \in SUBSET Threads /\ Sharers' \in SUBSET Threads
    BY Zenon DEF Sharers
  <2>3. Cardinality(Sharers') = n + 1
    BY Zenon, SharersStep DEF TypeOK
  <2> HIDE DEF n
  <2>4. /\ n \in Nat /\ (n = 0 <=> Sharers = {})
        /\ Cardinality(Sharers') \in 0 .. Cardinality(Threads)
    BY Zenon, <2>2, Sizes DEF n
  <2> QED  BY Zenon, <2>1, <2>3, <2>4
<1>2. ASSUME NEW u \in Threads
      PROVE  held[u] # "exclusive"
  <2>1. CASE ~word.lock
    BY Zenon, <2>1 DEF Owners
  <2>2. CASE word.lock
    <3>1. ~word.waiting /\ word.rest > 0
      BY Zenon, <2>2 DEF Available, Shared
    <3>2. Sharers # {}
      BY <3>1, <1>1 DEF Owners
    <3> QED  BY Zenon, <3>2 DEF Owners, Sharers
  <2> QED  BY Zenon, <2>1, <2>2
<1>3. /\ word'.lock /\ ~word'.multi /\ ~word.multi
      /\ word'.waiting = word.waiting
      /\ ~word.waiting => word'.rest = word.rest + 1
      /\ word.waiting => word'.rest = word.rest /\ ~word.lock
  BY Zenon DEF Taken, Lock, TypeOK, Words, Owners, Shape, Available, Shared
<1>4. \A u \in Threads : block[u].share = 0 /\ block'[u].share = 0
  BY <1>3 DEF Owners
<1>5. \A u \in Threads : pc'[u] # "relsUnlock"
  <2>1. ~word.waiting \/ ~word.lock
    BY Zenon, <1>3
  <2> QED  BY ZenonT(60), <2>1 DEF Owners, Releases, Release
<1>6. ~word'.waiting => word'.rest = Cardinality(Sharers')
  BY <1>1, <1>3 DEF Owners
<1>7. word.waiting => \A u \in Threads : held'[u] # "none" => u = t
  BY ZenonT(60), <1>3 DEF Owners, TypeOK
<1>8. \A u \in Threads : held'[u] # "exclusive"
  BY ZenonT(60), <1>2 DEF TypeOK
<1>9. Owners(o)'
  BY <1>3, <1>4, <1>5, <1>6, <1>7, <1>8 DEF Owners
<1>10. word' \in Words /\ (word'.waiting <=> word'.rest \in Threads)
  <2>1. CASE word.waiting
    <3>1. word' = [word EXCEPT !.lock = TRUE]
      BY Zenon, <2>1 DEF Taken, Lock
    <3> QED  BY Zenon, <2>1, <3>1 DEF TypeOK, Words
  <2>2. CASE ~word.waiting
    <3>1. word' = [word EXCEPT !.lock = TRUE, !.rest = n + 1]
      BY Zenon, <2>2, <1>1, <1>6, <1>3 DEF Taken, Lock, TypeOK, Words
    <3>2. n + 1 \notin Threads
      BY <1>1, ThreadsAssumption
    <3> HIDE DEF n
    <3> QED  BY ZenonT(60), <2>2, <1>1, <3>1, <3>2 DEF TypeOK, Words
  <2> QED  BY Zenon, <2>1, <2>2
<1> QED  BY Zenon, <1>9, <1>10

(* Attempts to take the lock.                                              *)
Takes(t) == \/ AcquireExclusive(t) \/ TryAcquireExclusive(t)
            \/ AcquireShared(t) \/ TryAcquireShared(t)
            \/ AcqTake(t) \/ TryLoop(t)

LEMMA TakesStep ==
    ASSUME Counted, NEW C, NEW P, NEW pos, NEW o, NEW f, IInv(C, P, pos, o, f),
           NEW t \in Threads, Takes(t)
    PROVE  IInv(C, P, pos, o, f)'
<1> USE DEF Takes, AcquireExclusive, TryAcquireExclusive, AcquireShared, TryAcquireShared,
            AcqTake, TryLoop, Begin, LeaveFrame, Goto, Hold, SetOld, SetTop, SetWb, Swap,
            Mismatch
<1>1. /\ held[t] = "none" /\ pc[t] \in {"idle", "acqLoop", "tryLoop"}
      /\ pc'[t] \in {"idle", "acqRead", "tryRead", "tryLoop", "relRead"}
      /\ pc' \in [Threads -> PCs]
      /\ block'[t] \in {block[t], NoBlock}
  BY DEF IInv, TypeOK, Frames, Holding, PCs
<1>2. /\ \/ UNCHANGED <<word, held>>
         \/ /\ ~word.lock /\ word' = Lock(word)
            /\ held' = [held EXCEPT ![t] = "exclusive"]
         \/ /\ Available(word, "shared") /\ word' = Taken(word, "shared")
            /\ held' = [held EXCEPT ![t] = "shared"]
  <2>1. word.lock => Lock(word) = word
    BY Zenon DEF IInv, TypeOK, Words, Lock
  <2>2. OneSharer = Taken(Free, "shared") /\ Available(Free, "shared")
    BY DEF OneSharer, Exclusive, Taken, Lock, Free, Available
  <2>3. \A w : Available(w, mode[t]) /\ mode[t] # "shared" => ~w.lock /\ Taken(w, mode[t]) = Lock(w)
    BY ZenonT(60) DEF Available, Taken
  <2> QED  BY <2>1, <2>2, <2>3 DEF IInv, TypeOK, Frames, InCall
<1>3. \A u \in Threads : u # t =>
          /\ block'[u] = block[u] /\ pc'[u] = pc[u] /\ mode'[u] = mode[u]
          /\ held'[u] = held[u] /\ old'[u] = old[u] /\ top'[u] = top[u]
          /\ wb'[u] = wb[u]
  BY ZenonT(60) DEF IInv, TypeOK
<1>4. ~Queued(t) /\ ~Queued(t)'
  BY Zenon DEF IInv, TypeOK, Frames, InCall, OutOfCall, Queued, Published
<1>5. /\ block' \in {block, [block EXCEPT ![t] = NoBlock]}
      /\ mode' = [mode EXCEPT ![t] = mode'[t]]
      /\ mode'[t] \in {"none", "shared", "exclusive", "passing"}
      /\ old' \in {old, [old EXCEPT ![t] = word], [old EXCEPT ![t] = Free]}
      /\ top' \in {top, [top EXCEPT ![t] = Free]}
      /\ wb' \in {wb, [wb EXCEPT ![t] = Null]}
      /\ acquires' = acquires \/ (acquires[t] > 0 /\ acquires' = [acquires EXCEPT ![t] = @ - 1])
  BY ZenonT(60) DEF IInv, TypeOK
<1>12. /\ pc'[t] = "relRead" => held'[t] = "exclusive"
       /\ pc'[t] \in {"acqRead", "tryRead", "tryLoop"} => held'[t] = "none"
       /\ pc'[t] = "acqRead" <=> mode'[t] # "none"
  BY <1>1 DEF IInv, TypeOK, Frames, InCall, OutOfCall
<1> HIDE DEF Takes, AcquireExclusive, TryAcquireExclusive, AcquireShared, TryAcquireShared,
             AcqTake, TryLoop, Begin, LeaveFrame, Goto, Hold, SetOld, SetTop, SetWb, Swap,
             Mismatch
<1>6. OnlyMoves(t)
  <2>1. ASSUME word' = Lock(word) \/ word' = Taken(word, "shared") \/ word' = word
        PROVE  /\ word'.waiting = word.waiting /\ word'.waking = word.waking
               /\ word'.multi = word.multi /\ (word.waiting => word'.rest = word.rest)
    BY Zenon, <2>1 DEF IInv, TypeOK, Lock, Taken, Words
  <2> QED  BY Zenon, <1>2, <1>3, <2>1 DEF OnlyMoves, Moves, SameLinks
<1>7. block'[t].share \in {0, block[t].share} /\ pc'[t] # "relsUnlock"
  BY <1>1 DEF NoBlock
<1>8. Owners(o)' /\ word' \in Words /\ (word'.waiting <=> word'.rest \in Threads)
  <2>1. CASE UNCHANGED <<word, held>>
    BY Zenon, <2>1, <1>4, <1>6, <1>7, OwnersKept DEF IInv, TypeOK
  <2>2. CASE ~word.lock /\ word' = Lock(word) /\ held' = [held EXCEPT ![t] = "exclusive"]
    <3>1. Owners(o)'
      BY Zenon, <2>2, <1>6, <1>7, TakeExclusive
    <3> QED  BY Zenon, <2>2, <3>1 DEF IInv, TypeOK, Lock, Words
  <2>3. CASE /\ Available(word, "shared") /\ word' = Taken(word, "shared")
             /\ held' = [held EXCEPT ![t] = "shared"]
    BY Zenon, <2>3, <1>1, <1>6, <1>7, TakeShared
  <2> QED  BY Zenon, <1>2, <2>1, <2>2, <2>3
<1>9. TypeOK'
  <2>2. held' \in [Threads -> {"none", "shared", "exclusive"}]
    BY Zenon, <1>2 DEF IInv, TypeOK
  <2>3. block' \in [Threads -> Blocks]
    BY Zenon, <1>5, Constants DEF IInv, TypeOK
  <2>4. /\ old' \in [Threads -> Words] /\ top' \in [Threads -> Words]
        /\ wb' \in [Threads -> Threads \cup {Null}]
        /\ mode' \in [Threads -> {"none", "shared", "exclusive", "passing"}]
    BY <1>5, Constants DEF IInv, TypeOK
  <2>5. acquires' \in [Threads -> 0 .. MaxAcquires]
    BY <1>5, CallsAssumption DEF IInv, TypeOK
  <2> QED  BY Zenon, <1>1, <1>8, <2>2, <2>3, <2>4, <2>5 DEF TypeOK
<1>10. Frames'
  BY <1>1, <1>3, <1>12 DEF IInv, TypeOK, Frames, InCall, OutOfCall, Holding
<1>11. Release(t, C, o)'
  BY ZenonT(60), <1>1 DEF Release
<1> QED
  BY ZenonT(60), <1>1, <1>4, <1>6, <1>8, <1>9, <1>10, <1>11, QuietStep
     DEF IInv, Chain, OnlyMoves, WakingPCs, ListPCs

(* What a waiter does with its own block.                                  *)
Waits(t) == GateInit(t) \/ Park(t) \/ Awake(t)

LEMMA WaitsStep ==
    ASSUME Counted, NEW C, NEW P, NEW pos, NEW o, NEW f, IInv(C, P, pos, o, f),
           NEW t \in Threads, Waits(t)
    PROVE  IInv(C, P, pos, o, f)'
<1> USE DEF Waits, GateInit, Park, Awake, Goto
<1>1. /\ pc[t] \in {"gateInit", "park", "sleep"} /\ mode[t] # "none"
      /\ pc'[t] \in {"park", "sleep", "acqLoop"}
      /\ pc[t] = "sleep" => block[t].gate = "set"
      /\ UNCHANGED <<word, held, mode, old, top, wb, acquires>>
      /\ pc' \in [Threads -> PCs]
  BY ZenonT(60) DEF IInv, TypeOK, Frames, InCall, PCs
<1>11. \/ block' = [block EXCEPT ![t].gate = "clear"]
       \/ block' = [block EXCEPT ![t].spin = FALSE]
       \/ block' = [block EXCEPT ![t] = NoBlock] /\ ~Queued(t)
  <2>1. CASE GateInit(t)
    BY Zenon, <2>1
  <2>2. CASE Park(t)
    BY Zenon, <2>2 DEF Queued, Woken
  <2>3. CASE Awake(t)
    BY Zenon, <2>3 DEF Queued, Woken, Published
  <2> QED  BY Zenon, <2>1, <2>2, <2>3
<1>2. Queued(t)' <=> Queued(t)
  BY DEF IInv, TypeOK, Blocks, Frames, InCall, Queued, Published, Woken
<1>3. \A u \in Threads : u # t => block'[u] = block[u] /\ pc'[u] = pc[u]
  BY Zenon DEF IInv, TypeOK
<1>4. Frames'
  <2>1. block \in [Threads -> Blocks] /\ pc \in [Threads -> PCs] /\ Frames
    BY Zenon DEF IInv, TypeOK
  <2>2. pc[t] = "park" => block[t].gate = "clear"
    BY Zenon, <2>1 DEF Frames
  <2>3. /\ pc'[t] = "sleep" => ~block'[t].spin /\ block'[t].gate = "clear"
        /\ pc'[t] = "park" => block'[t].gate = "clear"
    BY ZenonT(60), <2>1, <2>2 DEF Blocks
  <2> HIDE DEF Waits, GateInit, Park, Awake, Goto
  <2>4. held[t] = "none"
    BY Zenon, <1>1, <2>1 DEF Frames, Holding
  <2> QED  BY <1>1, <1>3, <2>1, <2>3, <2>4 DEF Frames, InCall, OutOfCall, Holding
<1> HIDE DEF Waits, GateInit, Park, Awake, Goto
<1>5. block' \in [Threads -> Blocks]
  <2>1. CASE block' = [block EXCEPT ![t].gate = "clear"]
    BY Zenon, <2>1, BlockFields DEF IInv, TypeOK
  <2>2. CASE block' = [block EXCEPT ![t].spin = FALSE]
    BY Zenon, <2>2, BlockFields DEF IInv, TypeOK
  <2>3. CASE block' = [block EXCEPT ![t] = NoBlock]
    BY Zenon, <2>3, Constants DEF IInv, TypeOK
  <2> QED  BY Zenon, <1>11, <2>1, <2>2, <2>3
<1>6. TypeOK'
  BY Zenon, <1>1, <1>5 DEF IInv, TypeOK
<1>7. /\ Queued(t) => SameLinks(block'[t], block[t])
      /\ block'[t].share = block[t].share \/ (block'[t].share = 0 /\ ~Queued(t))
  BY <1>11 DEF IInv, TypeOK, Blocks, SameLinks, NoBlock
<1>8. OnlyMoves(t)
  BY Zenon, <1>1, <1>3 DEF OnlyMoves, Moves, SameLinks
<1>9. Release(t, C, o)'
  BY Zenon, <1>1 DEF Release
<1>10. Owners(o)'
  BY Zenon, <1>1, <1>7, <1>8, OwnersKept
<1> QED
  BY ZenonT(60), <1>1, <1>2, <1>4, <1>6, <1>7, <1>8, <1>9, <1>10, QuietStep
     DEF IInv, Chain, OnlyMoves, WakingPCs, ListPCs

(* Who owns the lock exclusively, or without a count while others wait, or *)
(* as the one sharer, or is about to unlock it, is alone.                  *)
Alone(t) == \A u \in Threads : u # t => held[u] = "none" /\ pc[u] # "relsUnlock"

LEMMA SoleOwner ==
    ASSUME Counted,
           NEW C, NEW P, NEW pos, NEW o, NEW f, IInv(C, P, pos, o, f), NEW t \in Threads,
           \/ held[t] = "exclusive"
           \/ held[t] # "none" /\ word.waiting /\ ~word.multi
           \/ held[t] = "shared" /\ ~word.waiting /\ word.rest <= 1
           \/ pc[t] = "relsUnlock"
    PROVE  /\ Alone(t) /\ word.lock
           /\ \A u \in Threads : block[u].share = 0
<1> USE DEF IInv, Chain
<1>1. \A u \in Threads : pc[u] = "relsUnlock" => word.waiting /\ (word.multi <=> held[u] = "none")
  BY Zenon DEF Releases, Release
<1>2. CASE held[t] = "exclusive"
  BY Zenon, <1>1, <1>2 DEF Owners, Alone
<1>3. CASE held[t] # "none" /\ word.waiting /\ ~word.multi
  BY Zenon, <1>1, <1>3 DEF Owners, Alone
<1>4. CASE held[t] = "shared" /\ ~word.waiting /\ word.rest <= 1
  <2>1. Sharers \in SUBSET Threads /\ t \in Sharers
    BY Zenon, <1>4 DEF Sharers
  <2>2. ~word.multi /\ word.lock /\ Cardinality(Sharers) <= 1
    BY Zenon, <1>4 DEF Owners, Shape
  <2>3. \A u \in Threads : held[u] = "shared" => u = t
    BY <2>1, <2>2, Sizes DEF Sharers
  <2>4. \A u \in Threads : held[u] # "none" => u = t
    BY Zenon, <1>4, <2>3 DEF Owners, TypeOK
  <2> QED  BY Zenon, <1>1, <1>4, <2>2, <2>4 DEF Owners, Alone
<1>5. CASE pc[t] = "relsUnlock" /\ held[t] = "none"
  <2>1. word.waiting /\ word.multi
    BY Zenon, <1>1, <1>5
  <2>2. Sharers = {}
    BY Zenon, <1>5 DEF Owners, Sharers
  <2>3. block[o].share = 0
    BY Zenon, <2>1, <2>2, NoneOrOne DEF Owners
  <2> QED  BY Zenon, <1>1, <1>5, <2>1, <2>3 DEF Owners, Alone
<1> QED  BY Zenon, <1>1, <1>2, <1>3, <1>4, <1>5

(* When it has let go, the lock has no owner.                              *)
LEMMA LetGo ==
    ASSUME Counted,
           NEW C, NEW P, NEW pos, NEW o, NEW f, IInv(C, P, pos, o, f), NEW t \in Threads,
           Alone(t), \A u \in Threads : block'[u].share = 0,
           held' = [held EXCEPT ![t] = "none"],
           \A u \in Threads : u # t => pc'[u] = pc[u], pc'[t] # "relsUnlock",
           ~word'.lock, ~word'.multi, ~word'.waiting => word'.rest = 0
    PROVE  Owners(o)'
<1>1. \A u \in Threads : held'[u] = "none" /\ pc'[u] # "relsUnlock"
  BY Zenon DEF IInv, TypeOK, Alone
<1>2. Sharers' = {}
  BY Zenon, <1>1 DEF Sharers
<1>3. Cardinality(Sharers') = 0
  BY Zenon, <1>2, NoneOrOne
<1> QED  BY Zenon, <1>1, <1>3 DEF Owners

LEMMA ReleaseExclusiveStep ==
    ASSUME Counted, NEW C, NEW P, NEW pos, NEW o, NEW f, IInv(C, P, pos, o, f),
           NEW t \in Threads, ReleaseExclusive(t)
    PROVE  IInv(C, P, pos, o, f)'
<1> USE DEF ReleaseExclusive, BeginRelease, Goto, Hold
<1>1. /\ pc[t] = "idle" /\ held[t] = "exclusive" /\ pc'[t] \in {"tryWake", "idle"}
      /\ word' = Unlock(word) /\ held' = [held EXCEPT ![t] = "none"]
      /\ pc' \in [Threads -> PCs]
  BY Zenon DEF IInv, TypeOK, PCs
<1>2. Frames'
  BY <1>1 DEF IInv, TypeOK, Frames, InCall, OutOfCall, Holding
<1>3. /\ ~word'.lock /\ word'.multi = word.multi /\ word'.rest = word.rest
      /\ word'.waiting = word.waiting /\ word'.waking = word.waking
      /\ word' \in Words
  BY Zenon, <1>1 DEF IInv, TypeOK, Words, Unlock
<1>4. OnlyMoves(t)
  BY Zenon, <1>3 DEF IInv, TypeOK, OnlyMoves, Moves, SameLinks
<1>5. TypeOK'
  BY Zenon, <1>1, <1>3 DEF IInv, TypeOK
<1>6. ~Queued(t) /\ ~Queued(t)' /\ Release(t, C, o)'
  BY Zenon, <1>1 DEF IInv, TypeOK, Frames, OutOfCall, Queued, Published, Release
<1>7. Alone(t) /\ \A u \in Threads : block'[u].share = 0
  BY Zenon, <1>1, SoleOwner
<1>8. ~word'.multi /\ (~word'.waiting => word'.rest = 0)
  <2>1. Sharers = {}
    BY Zenon, <1>1, <1>7 DEF Alone, Sharers
  <2>2. Cardinality(Sharers) = 0
    BY Zenon, <2>1, NoneOrOne
  <2> QED  BY Zenon, <1>1, <1>3, <2>2 DEF IInv, Chain, Owners
<1>9. \A u \in Threads : u # t => pc'[u] = pc[u]
  BY Zenon, <1>4 DEF OnlyMoves, Moves
<1>10. Owners(o)'
  BY Zenon, <1>1, <1>3, <1>7, <1>8, <1>9, LetGo
<1> HIDE DEF ReleaseExclusive, BeginRelease, Goto, Hold
<1> QED
  BY Zenon, <1>1, <1>2, <1>4, <1>5, <1>6, <1>10, QuietStep
     DEF IInv, Chain, OnlyMoves, WakingPCs, ListPCs

(* A sharer that nobody waits for takes itself off the count.              *)
LEMMA OneLess ==
    ASSUME Counted,
           NEW C, NEW P, NEW pos, NEW o, NEW f, IInv(C, P, pos, o, f), NEW t \in Threads,
           held[t] # "none", ~word.waiting, word' = OneFewer(word), block' = block,
           held' = [held EXCEPT ![t] = "none"],
           \A u \in Threads : u # t => pc'[u] = pc[u], pc'[t] # "relsUnlock"
    PROVE  /\ Owners(o)' /\ word' \in Words /\ (word'.waiting <=> word'.rest \in Threads)
           /\ word'.waiting = word.waiting /\ word'.waking = word.waking
           /\ word'.multi = word.multi
<1> USE DEF IInv, Chain
<1> DEFINE n == Cardinality(Sharers)
<1>1. ~word.multi /\ ~word.waking /\ word.rest = n /\ word.lock
  BY Zenon DEF Shape, Owners
<1>2. Sharers \in SUBSET Threads /\ n \in 0 .. Cardinality(Threads) /\ Cardinality(Threads) \in Nat
  BY Zenon, Sizes DEF Sharers
<1>3. \A u \in Threads : pc[u] # "relsUnlock"
  BY Zenon DEF Releases, Release
<1>4. CASE word.rest > 1
  <2>1. held[t] = "shared"
    <3>1. ASSUME held[t] = "exclusive"
          PROVE  FALSE
      <4>1. Sharers = {}
        BY Zenon, <3>1 DEF Owners, Sharers
      <4> QED  BY <4>1, <1>1, <1>4, NoneOrOne
    <3> QED  BY Zenon, <3>1 DEF TypeOK
  <2>2. Cardinality(Sharers') = n - 1
    BY Zenon, <2>1, SharersStep DEF TypeOK
  <2>3. word' = [word EXCEPT !.rest = n - 1]
    BY Zenon, <1>1, <1>4 DEF OneFewer
  <2> HIDE DEF n
  <2>4. n - 1 \notin Threads /\ n - 1 \in 0 .. Cardinality(Threads)
    BY <1>1, <1>2, <1>4, ThreadsAssumption
  <2>5. /\ word'.waiting = word.waiting /\ word'.waking = word.waking
        /\ word'.multi = word.multi /\ word'.lock = word.lock /\ word'.rest = n - 1
        /\ word' \in Words
    BY Zenon, <2>3, <2>4 DEF TypeOK, Words
  <2>6. \A u \in Threads : held'[u] # "exclusive" /\ pc'[u] # "relsUnlock"
    BY Zenon, <1>3, <2>1 DEF Owners, TypeOK
  <2>7. Owners(o)'
    BY Zenon, <1>1, <2>2, <2>5, <2>6 DEF Owners
  <2> QED  BY Zenon, <2>4, <2>5, <2>7
<1>5. CASE ~(word.rest > 1)
  <2>1. word.rest <= 1 /\ held[t] \in {"shared", "exclusive"}
    BY <1>1, <1>2, <1>5 DEF TypeOK
  <2>2. Alone(t) /\ \A u \in Threads : block'[u].share = 0
    BY Zenon, <2>1, SoleOwner
  <2>3. word' = Free
    BY Zenon, <1>5 DEF OneFewer
  <2>4. ~word'.lock /\ ~word'.multi /\ ~word'.waiting /\ ~word'.waking /\ word'.rest = 0
    BY <2>3 DEF Free
  <2>5. Owners(o)'
    BY Zenon, <2>2, <2>4, LetGo
  <2>6. 0 \notin Threads
    BY ThreadsAssumption
  <2>7. word'.waiting = FALSE /\ word'.waking = FALSE /\ word'.multi = FALSE
    BY <2>3 DEF Free
  <2> QED  BY Zenon, <1>1, <2>3, <2>4, <2>5, <2>6, <2>7, Constants DEF TypeOK, Words
<1> QED  BY Zenon, <1>4, <1>5

(* A sharer that releases, before it unlocks.                              *)
Drops(t) == ReleaseShared(t) \/ RelsLoop(t) \/ RelsWalk(t)

LEMMA DropsStep ==
    ASSUME Counted, NEW C, NEW P, NEW pos, NEW o, NEW f, IInv(C, P, pos, o, f),
           NEW t \in Threads, Drops(t)
    PROVE  IInv(C, P, pos, o, f)'
<1> USE DEF Drops, ReleaseShared, RelsLoop, RelsWalk, BeginRelease, Goto, Hold, SetOld, SetWb,
            Swap, Mismatch
<1>1. /\ pc[t] \in {"idle", "relsLoop", "relsWalk"}
      /\ pc'[t] \in {"idle", "relsRead", "relsLoop", "relsWalk", "relsCount", "relsUnlock"}
      /\ pc' = [pc EXCEPT ![t] = pc'[t]]
      /\ block' = block /\ mode' = mode /\ top' = top /\ acquires' = acquires
      /\ held[t] # "none" /\ mode[t] = "none"
      /\ old' \in {old, [old EXCEPT ![t] = word], [old EXCEPT ![t] = Free]}
      /\ wb' = [wb EXCEPT ![t] = wb'[t]]
  BY DEF IInv, TypeOK, Frames, OutOfCall, Holding
<1>2. \/ UNCHANGED <<word, held>> /\ (pc'[t] = "idle" => pc[t] = "idle")
      \/ /\ ~word.waiting /\ word' = OneFewer(word)
         /\ held' = [held EXCEPT ![t] = "none"] /\ pc'[t] = "idle"
  <2>1. OneFewer(OneSharer) = Free /\ ~OneSharer.waiting
    BY DEF OneFewer, OneSharer, Exclusive, Free
  <2> QED  BY Zenon, <1>1, <2>1 DEF IInv, TypeOK
<1>3. Release(t, C, o)' /\ wb'[t] \in Threads \cup {Null}
  <2>1. CASE ReleaseShared(t)
    BY Zenon, <1>1, <2>1 DEF Release, IInv, TypeOK
  <2>2. CASE RelsLoop(t)
    <3>1. /\ pc[t] = "relsLoop"
          /\ word.waiting => word.rest \in C
          /\ C \subseteq Threads /\ held[t] # "none"
      BY Zenon, <1>1, <2>2 DEF IInv, Chain, Shape, Members
    <3>2. old[t].waiting => /\ word.waiting /\ word.multi = old[t].multi
                            /\ old[t].multi => old[t].rest \in C
      BY Zenon, <3>1 DEF IInv, Chain, Releases, Release
    <3>3. CASE pc'[t] = "idle"
      BY Zenon, <2>2, <3>3 DEF Release, IInv, TypeOK
    <3>4. CASE pc'[t] = "relsLoop"
      <4>1. old'[t] = word /\ UNCHANGED <<word, wb>>
        BY Zenon, <2>2, <3>4 DEF IInv, TypeOK
      <4> QED  BY Zenon, <3>1, <3>4, <4>1 DEF Release, IInv, TypeOK
    <3>5. CASE pc'[t] = "relsWalk"
      <4>1. old[t].waiting /\ old[t].multi /\ wb'[t] = old[t].rest /\ UNCHANGED word
        BY Zenon, <2>2, <3>5 DEF IInv, TypeOK
      <4> QED  BY Zenon, <3>1, <3>2, <3>5, <4>1 DEF Release
    <3>6. CASE pc'[t] = "relsUnlock"
      <4>1. old[t].waiting /\ ~old[t].multi /\ UNCHANGED <<word, held, wb>>
        BY Zenon, <2>2, <3>6 DEF IInv, TypeOK
      <4> QED  BY Zenon, <3>1, <3>2, <3>6, <4>1 DEF Release, IInv, TypeOK
    <3> QED  BY Zenon, <2>2, <3>3, <3>4, <3>5, <3>6 DEF IInv, TypeOK
  <2>3. CASE RelsWalk(t)
    <3>1. word.multi /\ wb[t] \in C /\ C \subseteq Threads /\ o \in C
      BY ZenonT(60), <2>3 DEF IInv, Chain, Releases, Release, Shape, Members
    <3>2. block[wb[t]].last = Null => wb[t] # o
      BY ZenonT(60), <3>1, ThreadsAssumption DEF IInv, Chain, Shape
    <3>3. /\ block[wb[t]].last = Null => block[wb[t]].next \in C
          /\ block[wb[t]].last # Null => block[wb[t]].last = o
      BY Zenon, <3>1, <3>2 DEF IInv, Chain, Shape
    <3>4. \/ pc'[t] = "relsWalk" /\ wb'[t] \in C
          \/ pc'[t] = "relsCount" /\ wb'[t] = o
      BY Zenon, <2>3, <3>3 DEF IInv, TypeOK
    <3> QED  BY Zenon, <2>3, <3>1, <3>4 DEF Release
  <2> QED  BY Zenon, <2>1, <2>2, <2>3
<1>4. pc'[t] \in {"relsWalk", "relsCount"} => held[t] = "shared"
  <2>1. pc'[t] \in {"relsWalk", "relsCount"} => word.multi
    <3>1. word' = word \/ pc'[t] = "idle"
      BY Zenon, <1>2
    <3> QED  BY Zenon, <1>3, <3>1 DEF Release
  <2> QED  BY Zenon, <1>1, <2>1 DEF IInv, TypeOK, Chain, Owners
<1> HIDE DEF Drops, ReleaseShared, RelsLoop, RelsWalk, BeginRelease, Goto, Hold, SetOld, SetWb,
             Swap, Mismatch
<1>5. /\ Owners(o)' /\ word' \in Words /\ (word'.waiting <=> word'.rest \in Threads)
      /\ OnlyMoves(t)
  <2>1. CASE UNCHANGED <<word, held>> /\ (pc'[t] = "idle" => pc[t] = "idle")
    <3>1. OnlyMoves(t)
      BY ZenonT(60), <1>1, <2>1 DEF OnlyMoves, Moves, SameLinks, IInv, TypeOK
    <3> QED  BY Zenon, <1>1, <2>1, <3>1, OwnersKept DEF IInv, TypeOK
  <2>2. CASE /\ ~word.waiting /\ word' = OneFewer(word)
             /\ held' = [held EXCEPT ![t] = "none"] /\ pc'[t] = "idle"
    <3>1. \A u \in Threads : u # t => pc'[u] = pc[u]
      BY Zenon, <1>1 DEF IInv, TypeOK
    <3>2. /\ Owners(o)' /\ word' \in Words /\ (word'.waiting <=> word'.rest \in Threads)
          /\ word'.waiting = word.waiting /\ word'.waking = word.waking
          /\ word'.multi = word.multi
      BY Zenon, <1>1, <2>2, <3>1, OneLess
    <3> QED  BY ZenonT(60), <1>1, <2>2, <3>2 DEF OnlyMoves, Moves, SameLinks, IInv, TypeOK
  <2> QED  BY Zenon, <1>2, <2>1, <2>2
<1>6. TypeOK'
  <2>1. held' \in [Threads -> {"none", "shared", "exclusive"}]
    BY Zenon, <1>2 DEF IInv, TypeOK
  <2>2. old' \in [Threads -> Words] /\ wb' \in [Threads -> Threads \cup {Null}]
    BY <1>1, <1>3, Constants DEF IInv, TypeOK
  <2>3. pc' \in [Threads -> PCs]
    BY <1>1 DEF IInv, TypeOK, PCs
  <2> QED  BY Zenon, <1>1, <1>5, <2>1, <2>2, <2>3 DEF IInv, TypeOK
<1>7. Frames'
  <2>1. ASSUME NEW u \in Threads, u # t
        PROVE  /\ pc'[u] = pc[u] /\ mode'[u] = mode[u] /\ held'[u] = held[u]
               /\ block'[u] = block[u] /\ top'[u] = top[u]
    BY Zenon, <1>5, <2>1 DEF OnlyMoves, Moves
  <2>2. /\ pc'[t] = "idle" => held'[t] = "none" \/ pc[t] = "idle"
        /\ pc'[t] # "idle" => held'[t] = held[t]
        /\ mode'[t] = "none"
    BY Zenon, <1>1, <1>2 DEF IInv, TypeOK
  <2> QED  BY <1>1, <1>4, <2>1, <2>2 DEF IInv, Frames, InCall, OutOfCall, Holding
<1>8. Queued(t)' <=> Queued(t)
  BY Zenon, <1>1 DEF Queued, Published
<1> QED
  BY ZenonT(60), <1>1, <1>3, <1>5, <1>6, <1>7, <1>8, QuietStep
     DEF IInv, Chain, OnlyMoves, WakingPCs, ListPCs, SameLinks

(* A sharer takes itself off the count in the oldest waiter's block.       *)
LEMMA RelsCountStep ==
    ASSUME Counted, NEW C, NEW P, NEW pos, NEW o, NEW f, IInv(C, P, pos, o, f),
           NEW t \in Threads, RelsCount(t)
    PROVE  IInv(C, P, pos, o, f)'
<1> USE DEF RelsCount, Goto, Hold, SetOld, SetWb
<1> DEFINE n == Cardinality(Sharers)
<1>1. /\ pc[t] = "relsCount" /\ held[t] = "shared" /\ mode[t] = "none"
      /\ pc'[t] \in {"idle", "relsUnlock"} /\ pc' = [pc EXCEPT ![t] = pc'[t]]
      /\ held' = [held EXCEPT ![t] = "none"]
      /\ UNCHANGED <<word, mode, top, acquires>>
      /\ old' \in {old, [old EXCEPT ![t] = Free]} /\ wb' = [wb EXCEPT ![t] = Null]
  BY Zenon DEF IInv, TypeOK, Frames, OutOfCall
<1>2. word.multi /\ wb[t] = o /\ word.waiting /\ o \in C /\ o \in Threads /\ Queued(o) /\ o # t
  BY <1>1 DEF IInv, Chain, Releases, Release, Shape, Members, Queued, Published
<1>3. block[o].share = n /\ t \in Sharers
  BY Zenon, <1>1, <1>2 DEF IInv, Chain, Owners, Sharers
<1>4. Sharers \in SUBSET Threads /\ n \in 1 .. Cardinality(Threads) /\ Cardinality(Threads) \in Nat
  BY <1>3, Sizes DEF Sharers
<1>5. Cardinality(Sharers') = n - 1
  BY Zenon, <1>1, SharersStep DEF IInv, TypeOK
<1> HIDE DEF n
<1>6. /\ block' = [block EXCEPT ![o].share = n - 1]
      /\ n > 1 => pc'[t] = "idle"
      /\ n <= 1 => pc'[t] = "relsUnlock"
  BY <1>2, <1>3, <1>4 DEF IInv, TypeOK
<1> HIDE DEF RelsCount, Goto, Hold, SetOld, SetWb
<1>7. /\ n - 1 \in 0 .. Cardinality(Threads)
      /\ block' \in [Threads -> Blocks]
  <2>1. n - 1 \in 0 .. Cardinality(Threads)
    BY <1>4
  <2> QED  BY Zenon, <1>2, <1>6, <2>1, BlockFields DEF IInv, TypeOK
<1>8. TypeOK'
  <2>1. old' \in [Threads -> Words] /\ wb' \in [Threads -> Threads \cup {Null}]
    BY <1>1, Constants DEF IInv, TypeOK
  <2>2. pc' \in [Threads -> PCs] /\ held' \in [Threads -> {"none", "shared", "exclusive"}]
    BY <1>1 DEF IInv, TypeOK, PCs
  <2> QED  BY Zenon, <1>1, <1>7, <2>1, <2>2 DEF IInv, TypeOK
<1>9. \A u \in Threads : SameLinks(block'[u], block[u])
                         /\ block'[u].spin = block[u].spin /\ block'[u].gate = block[u].gate
  BY <1>2, <1>6 DEF SameLinks, IInv, TypeOK, Blocks
<1>10. /\ block'[o].share = n - 1
       /\ \A u \in Threads : u # o => block'[u].share = block[u].share
  BY ZenonT(60), <1>2, <1>6 DEF IInv, TypeOK, Blocks
<1>11. Moves(t)
  BY ZenonT(60), <1>1, <1>9 DEF Moves, IInv, TypeOK
<1>12. Frames'
  BY <1>1, <1>9 DEF IInv, TypeOK, Frames, InCall, OutOfCall, Holding
<1>13. Release(t, C, o)' /\ ~Queued(t) /\ ~Queued(t)'
  BY ZenonT(60), <1>1, <1>2 DEF Release, Queued, Published, IInv, TypeOK
<1>14. Owners(o)'
  <2>1. word.lock /\ \A u \in Threads : held[u] # "exclusive" /\ pc[u] # "relsUnlock"
    BY Zenon, <1>1, <1>2 DEF IInv, Chain, Owners, Releases, Release
  <2>2. \A u \in Threads : held'[u] # "exclusive" /\ (pc'[u] = "relsUnlock" => u = t)
    BY ZenonT(60), <1>1, <2>1 DEF IInv, TypeOK
  <2>3. ASSUME pc'[t] = "relsUnlock"
        PROVE  \A u \in Threads : held'[u] = "none"
    <3>1. n <= 1 /\ n \in Nat
      BY <1>4, <1>6, <2>3
    <3>2. \A u \in Threads : held[u] = "shared" => u = t
      BY Zenon, <1>3, <1>4, <3>1, Sizes DEF Sharers, n
    <3> QED  BY Zenon, <1>1, <2>1, <3>2 DEF IInv, TypeOK
  <2>4. \A u \in Threads : block'[u].share # 0 => u = o
    BY Zenon, <1>2, <1>10 DEF IInv, Chain, Owners
  <2> QED  BY <1>1, <1>2, <1>5, <1>10, <2>1, <2>2, <2>3, <2>4 DEF Owners
<1> QED
  BY Zenon, <1>1, <1>8, <1>11, <1>12, <1>13, <1>14, QuietStep DEF IInv, Chain, WakingPCs, ListPCs

(* Conversions.                                                            *)
LEMMA ConvertStep ==
    ASSUME Counted, NEW C, NEW P, NEW pos, NEW o, NEW f, IInv(C, P, pos, o, f),
           NEW t \in Threads, Convert(t)
    PROVE  IInv(C, P, pos, o, f)'
<1> USE DEF Convert, ConvertToShared, TryConvertToExclusive, BeginRelease, Hold, Swap
<1> DEFINE n == Cardinality(Sharers)
<1>1. /\ pc[t] = "idle" /\ held[t] # "none" /\ held'[t] # "none"
      /\ held' = [held EXCEPT ![t] = held'[t]]
      /\ UNCHANGED <<block, pc, mode, old, top, wb, acquires>>
  BY Zenon DEF IInv, TypeOK
<1>2. \/ /\ held[t] = "exclusive" /\ held'[t] = "shared"
         /\ \/ word = Exclusive /\ word' = OneSharer
            \/ word.waiting /\ word' = word
      \/ /\ held[t] = "shared" /\ held'[t] = "exclusive"
         /\ word = OneSharer /\ word' = Exclusive
  BY Zenon DEF IInv, TypeOK
<1> HIDE DEF Convert, ConvertToShared, TryConvertToExclusive, BeginRelease, Hold, Swap
<1>3. /\ Exclusive.lock = TRUE /\ Exclusive.waiting = FALSE /\ Exclusive.waking = FALSE
      /\ Exclusive.multi = FALSE /\ Exclusive.rest = 0
      /\ OneSharer.lock = TRUE /\ OneSharer.waiting = FALSE /\ OneSharer.waking = FALSE
      /\ OneSharer.multi = FALSE /\ OneSharer.rest = 1
  BY Zenon DEF Exclusive, OneSharer, Free
<1>4. /\ word'.waiting = word.waiting /\ word'.waking = word.waking
      /\ word'.multi = word.multi /\ word'.lock = word.lock
      /\ ~word.waiting => word'.rest = IF held'[t] = "shared" THEN 1 ELSE 0
      /\ word.waiting => word' = word
  <2>1. CASE word = Exclusive /\ word' = OneSharer /\ held'[t] = "shared"
    BY Zenon, <2>1, <1>3
  <2>2. CASE word = OneSharer /\ word' = Exclusive /\ held'[t] = "exclusive"
    BY Zenon, <2>2, <1>3
  <2>3. CASE word.waiting /\ word' = word
    BY Zenon, <2>3
  <2> QED  BY Zenon, <1>2, <2>1, <2>2, <2>3
<1>5. \A u \in Threads : u # t => held'[u] = held[u]
  BY Zenon, <1>1 DEF IInv, TypeOK
<1>6. Alone(t) /\ word.lock /\ \A u \in Threads : block[u].share = 0
  BY <1>2, <1>3, SoleOwner
<1>7. ~word.multi /\ pc'[t] # "relsUnlock"
  BY Zenon, <1>1, <1>2, <1>3 DEF IInv, Chain, Owners
<1>8. Cardinality(Sharers') = IF held'[t] = "shared" THEN 1 ELSE 0
  <2>1. Sharers' = IF held'[t] = "shared" THEN {t} ELSE {}
    BY Zenon, <1>5, <1>6 DEF Sharers, Alone
  <2> QED  BY Zenon, <2>1, NoneOrOne
<1>9. held'[t] \in {"shared", "exclusive"}
  BY Zenon, <1>2
<1>10. Owners(o)'
  BY ZenonT(60), <1>1, <1>4, <1>5, <1>6, <1>7, <1>8, <1>9 DEF Owners, Alone
<1>11. TypeOK'
  <2>1. Sharers' \in SUBSET Threads /\ 0 \notin Threads /\ 1 \notin Threads
    BY ThreadsAssumption DEF Sharers
  <2>2. word' \in Words /\ (word'.waiting <=> word'.rest \in Threads)
    <3>1. ~word.waiting => word'.rest \in 0 .. Cardinality(Threads) /\ word'.rest \notin Threads
      BY <1>4, <1>8, <2>1, Sizes
    <3>2. CASE word.waiting
      BY Zenon, <1>4, <3>2 DEF IInv, TypeOK
    <3>3. CASE word = Exclusive /\ word' = OneSharer
      <4>1. OneSharer = [Exclusive EXCEPT !.rest = word'.rest]
        BY Zenon, <3>3, <1>3 DEF OneSharer
      <4>2. Exclusive \in Words
        BY Zenon, <3>3 DEF IInv, TypeOK
      <4> HIDE DEF IInv
      <4> QED  BY Zenon, <1>3, <1>4, <3>1, <3>3, <4>1, <4>2 DEF Words
    <3>4. CASE word = OneSharer /\ word' = Exclusive
      <4>1. Exclusive \in Words
        BY Zenon, Constants DEF Exclusive, Words
      <4> QED  BY Zenon, <1>3, <2>1, <3>4, <4>1
    <3> QED  BY Zenon, <1>2, <3>2, <3>3, <3>4
  <2> QED  BY ZenonT(60), <1>1, <1>9, <2>2 DEF IInv, TypeOK
<1>12. Frames'
  BY ZenonT(60), <1>1, <1>5 DEF IInv, TypeOK, Frames, Holding
<1>13. OnlyMoves(t)
  BY Zenon, <1>1, <1>4, <1>5 DEF OnlyMoves, Moves, SameLinks
<1>14. (Queued(t)' <=> Queued(t)) /\ Release(t, C, o)'
  BY Zenon, <1>1 DEF Queued, Published, Woken, Release
<1> QED
  BY Zenon, <1>1, <1>10, <1>11, <1>12, <1>13, <1>14, QuietStep
     DEF IInv, Chain, OnlyMoves, WakingPCs, ListPCs, SameLinks

(* The only owner unlocks the word, and becomes the owner of Waking if it  *)
(* sets it.                                                                *)
LEMMA UnlockStep ==
    ASSUME Counted,
           NEW C, NEW P, NEW pos, NEW o, NEW f, IInv(C, P, pos, o, f), NEW t \in Threads,
           pc[t] \in {"tryWakeSwap", "relLoop", "relsUnlock"}, Alone(t),
           held' = [held EXCEPT ![t] = "none"], old' \in [Threads -> Words],
           \A u \in Threads : u # t => old'[u] = old[u],
           UNCHANGED <<block, mode, wb, acquires>>,
           word' \in Words, word'.waiting = word.waiting, word'.rest = word.rest,
           ~word'.multi, ~word'.lock, \A u \in Threads : block[u].share = 0,
           ~word.waiting => word.rest = 0,
           \/ /\ word'.waking = word.waking
              /\ pc' = [pc EXCEPT ![t] = "idle"] /\ top' = top
           \/ /\ word.waiting /\ ~word.waking /\ word'.waking
              /\ pc' = [pc EXCEPT ![t] = "wakeTop"] /\ top' = [top EXCEPT ![t] = word']
    PROVE  IInv(C, P, pos, o, f)'
<1>1. mode[t] = "none" /\ pc'[t] \in {"idle", "wakeTop"} /\ pc' = [pc EXCEPT ![t] = pc'[t]]
  BY ZenonT(60) DEF IInv, TypeOK, Frames, OutOfCall
<1>2. TypeOK'
  BY <1>1 DEF IInv, TypeOK, PCs, WakingPCs
<1>3. \A u \in Threads : u # t => pc'[u] = pc[u] /\ held'[u] = held[u] /\ top'[u] = top[u]
  BY Zenon, <1>1 DEF IInv, TypeOK
<1>4. held'[t] = "none" /\ \A u \in Threads : held'[u] = "none"
  BY ZenonT(60), <1>3 DEF IInv, TypeOK, Alone
<1>5. Frames'
  BY <1>1, <1>3, <1>4 DEF IInv, TypeOK, Frames, InCall, OutOfCall, Holding
<1>6. OneWaker'
  BY <1>1, <1>3 DEF IInv, TypeOK, OneWaker, WakingPCs
<1>7. Shape(C, pos, o, f)'
  BY Zenon DEF IInv, Chain, Shape
<1>8. \A u \in Threads : Queued(u)' <=> Queued(u)
  BY ZenonT(60), <1>1, <1>3 DEF Queued, Published, Woken
<1>9. Members(C, P)'
  BY Zenon, <1>8 DEF IInv, Chain, Members
<1>10. Lists(P, pos)'
  <2>1. ~Queued(t)
    BY ZenonT(60), <1>1 DEF Queued, Published
  <2> QED  BY <1>1, <1>3, <2>1 DEF IInv, TypeOK, Chain, Lists, Members, ListPCs
<1>11. Walks(C, pos, o, f)'
  <2>1. ASSUME NEW u \in Threads, u # t, pc'[u] \in WakingPCs
        PROVE  pc[u] \in WakingPCs /\ top'[u] = top[u] /\ pc'[u] = pc[u]
    BY Zenon, <1>3, <2>1
  <2>2. ASSUME pc'[t] \in WakingPCs
        PROVE  /\ top'[t].rest = word.rest /\ top'[t].waiting /\ top'[t].waking
               /\ ~top'[t].multi /\ pc'[t] = "wakeTop" /\ word.rest \in C /\ f \in C
               /\ pos[f] <= pos[word.rest]
               /\ \A u \in C : pos[word.rest] <= pos[u] => block[u].prev = Null
    <3>1. pc'[t] = "wakeTop" /\ word.waiting /\ top'[t] = word' /\ word'.waking
      BY Zenon, <1>1, <2>2 DEF WakingPCs, IInv, TypeOK
    <3>2. /\ pos \in [Threads -> Int] /\ C \subseteq Threads
          /\ word.rest \in C /\ f \in C
          /\ \A u \in C : pos[u] <= pos[word.rest]
          /\ \A u \in C : block[u].prev # Null =>
                block[u].prev \in C /\ pos[block[u].prev] = pos[u] + 1
      BY Zenon, <3>1 DEF IInv, Chain, Shape, Members
    <3>3. ASSUME NEW u \in C, pos[word.rest] <= pos[u], block[u].prev # Null
          PROVE  FALSE
      <4>1. block[u].prev \in C /\ pos[block[u].prev] = pos[u] + 1 /\ u \in Threads
            /\ word.rest \in Threads /\ pos[block[u].prev] <= pos[word.rest]
        BY Zenon, <3>2, <3>3
      <4>2. pos[word.rest] \in Int /\ pos[u] \in Int
        BY Zenon, <3>2, <4>1
      <4> QED  BY Zenon, <3>3, <4>1, <4>2, NotBeyond
    <3> QED  BY Zenon, <3>1, <3>2, <3>3
  <2>3. ASSUME NEW u \in Threads, u # t, pc'[u] \in WakingPCs
        PROVE  Walk(u, C, pos, o, f)'
    <3>1. Walk(u, C, pos, o, f)
      BY Zenon, <2>1, <2>3 DEF IInv, Chain, Walks
    <3>2. pc'[u] = pc[u] /\ top'[u] = top[u] /\ wb'[u] = wb[u] /\ block' = block /\ ~word'.multi
      BY Zenon, <2>1, <2>3
    <3> QED  BY ZenonT(30), <3>1, <3>2 DEF Walk
  <2>4. ASSUME pc'[t] \in WakingPCs
        PROVE  Walk(t, C, pos, o, f)'
    BY Zenon, <2>2, <2>4 DEF Walk, WakePCs, WalkPCs
  <2> QED  BY Zenon, <2>3, <2>4 DEF Walks
<1>12. Releases(C, o)'
  <2>1. \A u \in Threads : pc'[u] \notin {"relsLoop", "relsWalk", "relsCount", "relsUnlock"}
    BY <1>1, <1>3 DEF IInv, Frames, Alone, Holding
  <2> QED  BY ZenonT(60), <2>1 DEF Releases, Release
<1>13. Owners(o)'
  BY Zenon, <1>1, <1>3, LetGo
<1> QED  BY ZenonT(60), <1>2, <1>5, <1>6, <1>7, <1>9, <1>10, <1>11, <1>12, <1>13 DEF IInv, Chain

LEMMA TryWakeSwapStep ==
    ASSUME Counted, NEW C, NEW P, NEW pos, NEW o, NEW f, IInv(C, P, pos, o, f),
           NEW t \in Threads, TryWakeSwap(t)
    PROVE  IInv(C, P, pos, o, f)'
<1> USE DEF TryWakeSwap, Swap, Mismatch, SetTop, Goto
<1>1. pc[t] = "tryWakeSwap" /\ mode[t] = "none" /\ held[t] = "none"
  BY Zenon DEF IInv, Frames, OutOfCall, Holding
<1>2. CASE Swap(top[t], Waking(top[t], TRUE))
  <2>1. /\ word.waiting /\ ~word.waking /\ ~word.lock /\ word' = [word EXCEPT !.waking = TRUE]
        /\ pc' = [pc EXCEPT ![t] = "wakeTop"] /\ top' = [top EXCEPT ![t] = word']
        /\ UNCHANGED <<block, held, mode, old, wb, acquires>>
    BY Zenon, <1>1, <1>2 DEF IInv, Frames, Waking
  <2>2. Alone(t) /\ ~word.multi /\ \A u \in Threads : block[u].share = 0
    BY Zenon, <2>1 DEF IInv, Chain, Owners, Alone
  <2>3. /\ word' \in Words /\ word'.waiting = word.waiting /\ word'.rest = word.rest
        /\ ~word'.multi /\ ~word'.lock /\ word'.waking
    BY Zenon, <2>1, <2>2 DEF IInv, TypeOK, Words
  <2>4. held' = [held EXCEPT ![t] = "none"] /\ old' \in [Threads -> Words]
    BY ZenonT(60), <1>1, <2>1 DEF IInv, TypeOK
  <2> HIDE DEF TryWakeSwap, Swap, Mismatch, SetTop, Goto
  <2> QED  BY Zenon, <1>1, <2>1, <2>2, <2>3, <2>4, UnlockStep
<1>3. CASE Mismatch(top[t])
  <2>1. /\ pc' = [pc EXCEPT ![t] = "idle"] /\ top' = [top EXCEPT ![t] = Free]
        /\ UNCHANGED <<word, block, held, mode, old, wb, acquires>>
    BY Zenon, <1>3
  <2> HIDE DEF TryWakeSwap, Swap, Mismatch, SetTop, Goto
  <2>2. TypeOK' /\ pc'[t] = "idle"
    BY Zenon, <2>1, Constants DEF IInv, TypeOK, PCs
  <2>3. Frames'
    BY ZenonT(60), <1>1, <2>1, <2>2 DEF IInv, TypeOK, Frames, InCall, OutOfCall, Holding
  <2>4. OnlyMoves(t)
    BY Zenon, <2>1 DEF OnlyMoves, Moves, SameLinks, IInv, TypeOK
  <2>5. ~Queued(t) /\ ~Queued(t)' /\ Release(t, C, o)'
    BY Zenon, <1>1, <2>1, <2>2 DEF Queued, Published, Release
  <2> QED
    BY Zenon, <1>1, <2>1, <2>2, <2>3, <2>4, <2>5, QuietStep, OwnersKept
       DEF IInv, Chain, OnlyMoves, WakingPCs, ListPCs
<1> QED  BY Zenon, <1>2, <1>3

(* The compare-exchange loops that unlock the word.                        *)
Unlocks(t) == RelLoop(t) \/ RelsUnlock(t)

LEMMA UnlocksStep ==
    ASSUME Counted, NEW C, NEW P, NEW pos, NEW o, NEW f, IInv(C, P, pos, o, f),
           NEW t \in Threads, Unlocks(t)
    PROVE  IInv(C, P, pos, o, f)'
<1> USE DEF Unlocks, RelLoop, RelsUnlock, UnlockAndWake, Swap, Mismatch, SetTop, SetOld, Goto, Hold
<1>1. pc[t] \in {"relLoop", "relsUnlock"} /\ mode[t] = "none"
      /\ (pc[t] = "relLoop" => held[t] = "exclusive")
  BY Zenon DEF IInv, Frames, OutOfCall
<1>2. Alone(t) /\ \A u \in Threads : block[u].share = 0
  BY Zenon, <1>1, SoleOwner
<1>3. /\ pc[t] = "relsUnlock" => word.waiting
      /\ pc[t] = "relLoop" => ~word.multi
      /\ ~word.waiting => ~word.waking /\ word.rest = 0
  <2>1. pc[t] = "relLoop" => Sharers = {}
    BY Zenon, <1>1, <1>2 DEF Alone, Sharers
  <2>2. pc[t] = "relLoop" => Cardinality(Sharers) = 0
    BY Zenon, <2>1, NoneOrOne
  <2> QED  BY Zenon, <1>1, <2>2 DEF IInv, Chain, Releases, Release, Owners, Shape
<1> DEFINE new == IF pc[t] = "relLoop" THEN Waking(Unlock(word), word.waiting)
                  ELSE [Waking(Unlock(word), TRUE) EXCEPT !.multi = FALSE]
<1>4. \/ /\ UNCHANGED <<word, block, pc, held, mode, top, wb, acquires>>
         /\ old' = [old EXCEPT ![t] = word]
      \/ /\ word' = new /\ held' = [held EXCEPT ![t] = "none"]
         /\ old' = [old EXCEPT ![t] = Free] /\ UNCHANGED <<block, mode, wb, acquires>>
         /\ \/ /\ new.waking /\ ~word.waking
               /\ top' = [top EXCEPT ![t] = new] /\ pc' = [pc EXCEPT ![t] = "wakeTop"]
            \/ /\ ~(new.waking /\ ~word.waking)
               /\ top' = top /\ pc' = [pc EXCEPT ![t] = "idle"]
  BY Zenon, <1>1
<1> HIDE DEF Unlocks, RelLoop, RelsUnlock, UnlockAndWake, Swap, Mismatch, SetTop, SetOld, Goto,
             Hold
<1>5. CASE /\ UNCHANGED <<word, block, pc, held, mode, top, wb, acquires>>
           /\ old' = [old EXCEPT ![t] = word]
  <2>1. TypeOK'
    BY Zenon, <1>5 DEF IInv, TypeOK
  <2>2. Frames'
    BY Zenon, <1>5 DEF IInv, Frames
  <2>3. OnlyMoves(t)
    BY Zenon, <1>5 DEF OnlyMoves, Moves, SameLinks, IInv, TypeOK
  <2>4. ~Queued(t) /\ ~Queued(t)' /\ Release(t, C, o)'
    BY Zenon, <1>1, <1>5 DEF Queued, Published, IInv, Chain, Releases, Release
  <2> QED
    BY Zenon, <1>1, <1>5, <2>1, <2>2, <2>3, <2>4, QuietStep, OwnersKept
       DEF IInv, Chain, OnlyMoves, WakingPCs, ListPCs
<1>6. /\ new \in Words /\ new.waiting = word.waiting /\ new.rest = word.rest
      /\ ~new.multi /\ ~new.lock /\ new.waking = word.waiting
  <2>1. word \in Words
    BY Zenon DEF IInv, TypeOK
  <2>2. CASE pc[t] = "relLoop"
    BY Zenon, <1>3, <2>1, <2>2 DEF Words, Waking, Unlock
  <2>3. CASE pc[t] = "relsUnlock"
    BY Zenon, <1>3, <2>1, <2>3 DEF Words, Waking, Unlock
  <2> QED  BY Zenon, <1>1, <2>2, <2>3
<1> HIDE DEF new
<1>7. CASE /\ word' = new /\ held' = [held EXCEPT ![t] = "none"]
           /\ old' = [old EXCEPT ![t] = Free] /\ UNCHANGED <<block, mode, wb, acquires>>
           /\ \/ /\ new.waking /\ ~word.waking
                 /\ top' = [top EXCEPT ![t] = new] /\ pc' = [pc EXCEPT ![t] = "wakeTop"]
              \/ /\ ~(new.waking /\ ~word.waking)
                 /\ top' = top /\ pc' = [pc EXCEPT ![t] = "idle"]
  <2>1. old' \in [Threads -> Words] /\ \A u \in Threads : u # t => old'[u] = old[u]
    BY Zenon, <1>7, Constants DEF IInv, TypeOK
  <2>2. ~(new.waking /\ ~word.waking) => new.waking = word.waking
    BY Zenon, <1>3, <1>6 DEF IInv, TypeOK, Words
  <2> QED  BY Zenon, <1>1, <1>2, <1>3, <1>6, <1>7, <2>1, <2>2, UnlockStep
<1> QED  BY Zenon, <1>4, <1>5, <1>7

-----------------------------------------------------------------------------
(* A waiter pushes its block on a chain that has others.                   *)
LEMMA PushOn ==
    ASSUME NEW C, NEW P, NEW pos, NEW o, NEW f, IInv(C, P, pos, o, f), NEW t \in Threads,
           pc[t] = "acqLoop", word.waiting, word.lock,
           NEW num, num = [pos EXCEPT ![t] = pos[word.rest] + 1],
           word' = [word EXCEPT !.waking = TRUE, !.rest = t],
           NEW b \in Blocks, b.next = word.rest, b.last = Null, b.prev = Null,
           b.share = 0, b.spin, block' = [block EXCEPT ![t] = b],
           UNCHANGED <<held, mode, old, wb, acquires>>,
           \/ ~word.waking /\ top' = [top EXCEPT ![t] = word'] /\ pc' = [pc EXCEPT ![t] = "optTop"]
           \/ word.waking /\ top' = top /\ pc' = [pc EXCEPT ![t] = "gateInit"]
    PROVE  IInv(C \cup {t}, P, num, o, f)'
<1> DEFINE D == C \cup {t}
<1>1. /\ mode[t] # "none" /\ held[t] = "none" /\ ~Queued(t)
      /\ t \notin C /\ \A s \in Threads : t \notin P[s]
  BY ZenonT(60) DEF IInv, Frames, InCall, Holding, Queued, Published, Chain, Members
<1>2. /\ C \subseteq Threads /\ word.rest \in C /\ o \in C /\ f \in C /\ word.rest \in Threads
      /\ pos \in [Threads -> Int] /\ P \in [Threads -> SUBSET Threads]
      /\ block \in [Threads -> Blocks] /\ o # t /\ f # t
  BY ZenonT(60), <1>1 DEF IInv, TypeOK, Chain, Shape, Members
<1>3. /\ word'.waiting /\ word'.waking /\ word'.lock /\ word'.multi = word.multi
      /\ word'.rest = t /\ word' \in Words
  BY Zenon DEF IInv, TypeOK, Words
<1>4. /\ block'[t].next = word.rest /\ block'[t].last = Null /\ block'[t].prev = Null
      /\ block'[t].share = 0 /\ block'[t].spin
      /\ \A u \in Threads : u # t => block'[u] = block[u]
  BY Zenon, <1>2
<1>5. block' \in [Threads -> Blocks]
  BY Zenon, <1>2
<1>6. /\ pc'[t] \in {"optTop", "gateInit"} /\ pc' \in [Threads -> PCs]
      /\ top' \in [Threads -> Words]
      /\ \A u \in Threads : u # t => pc'[u] = pc[u] /\ top'[u] = top[u]
  BY <1>3 DEF IInv, TypeOK, PCs, WakingPCs
<1>7. TypeOK'
  BY Zenon, <1>3, <1>5, <1>6 DEF IInv, TypeOK
<1>8. Frames'
  BY <1>1, <1>4, <1>6 DEF IInv, Frames, InCall, OutOfCall, Holding
<1>9. OneWaker'
  BY <1>3, <1>6 DEF IInv, TypeOK, OneWaker, WakingPCs
<1>10. /\ num \in [Threads -> Int] /\ num[t] = pos[word.rest] + 1
       /\ \A u \in C : num[u] = pos[u] /\ u # t /\ u \in Threads /\ num[u] < num[t]
       /\ \A u \in Threads : u # t => num[u] = pos[u]
  <2>1. num \in [Threads -> Int] /\ num[t] = pos[word.rest] + 1
    BY <1>2
  <2>2. \A u \in Threads : u # t => num[u] = pos[u]
    BY Zenon, <1>2
  <2>3. ASSUME NEW u \in C
        PROVE  num[u] = pos[u] /\ u # t /\ u \in Threads /\ num[u] < num[t]
    <3>1. u # t /\ u \in Threads /\ pos[u] <= pos[word.rest]
      BY Zenon, <1>1, <1>2 DEF IInv, Chain, Shape
    <3> QED  BY <1>2, <2>1, <2>2, <3>1
  <2> QED  BY Zenon, <2>1, <2>2, <2>3
<1>11. Shape(D, num, o, f)'
  <2>1. ASSUME NEW u \in D
        PROVE  /\ num[o] <= num[u] /\ num[u] <= num[t]
               /\ u # o => block'[u].next \in D /\ num[block'[u].next] = num[u] - 1
               /\ block'[u].prev # Null => block'[u].prev \in D /\ num[block'[u].prev] = num[u] + 1
               /\ num[u] > num[f] => block'[u].last = Null
               /\ num[u] < num[f] => block'[u].prev # Null
    <3>1. CASE u = t
      <4>1. num[o] <= num[t] /\ num[f] <= num[t] /\ num[word.rest] = num[t] - 1
        BY <1>2, <1>10
      <4> QED  BY <1>2, <1>4, <1>10, <3>1, <4>1
    <3>2. CASE u \in C
      BY <1>2, <1>4, <1>10, <3>2 DEF IInv, Chain, Shape
    <3> QED  BY Zenon, <3>1, <3>2
  <2>2. \A u, v \in D : num[u] = num[v] => u = v
    BY <1>2, <1>10 DEF IInv, Chain, Shape
  <2>3. block'[f].last = o
    BY Zenon, <1>2, <1>4 DEF IInv, Chain, Shape
  <2>4. word'.multi => /\ block'[o].last = o /\ block'[o].excl
                       /\ \A u \in D : block'[u].last \in {Null, o}
    BY Zenon, <1>2, <1>3, <1>4 DEF IInv, Chain, Shape
  <2> QED  BY ZenonT(60), <1>2, <1>3, <2>1, <2>2, <2>3, <2>4 DEF Shape
<1>12. Queued(t)' /\ \A u \in Threads : u # t => (Queued(u)' <=> Queued(u))
  BY ZenonT(60), <1>1, <1>4, <1>6 DEF Queued, Published, Woken
<1>13. Members(D, P)'
  BY ZenonT(60), <1>1, <1>12 DEF IInv, Chain, Members
<1>14. Lists(P, num)'
  <2>1. \A s \in Threads : \A u \in P[s] :
           u \in Threads /\ u # t /\ num[u] = pos[u] /\ block'[u] = block[u]
    BY <1>1, <1>2, <1>4, <1>10
  <2>2. pc[t] \notin ListPCs /\ pc'[t] \notin ListPCs /\ P[t] = {}
    BY Zenon, <1>6 DEF IInv, Chain, Lists, ListPCs
  <2>3. ASSUME NEW s \in Threads, s # t, pc[s] = "wakeSignal"
        PROVE  wb[s] \in P[s] /\ pc[wb[s]] = "sleep" /\ wb[s] # t
    BY ZenonT(60), <1>1, <2>3 DEF IInv, Chain, Lists, ListPCs
  <2>4. ASSUME NEW s \in Threads, P[s] # {}
        PROVE  wb[s] \in P[s] /\ num[wb[s]] = pos[wb[s]]
    BY Zenon, <2>1, <2>4 DEF IInv, Chain, Lists
  <2> QED  BY <1>6, <2>1, <2>2, <2>3, <2>4 DEF IInv, Chain, Lists, ListPCs
<1>15. Walks(D, num, o, f)'
  <2>1. ASSUME NEW u \in Threads, u # t, pc'[u] \in WakingPCs
        PROVE  /\ pc[u] \in WakingPCs /\ pc'[u] = pc[u] /\ top'[u] = top[u]
               /\ top[u].rest \in C /\ num[top[u].rest] = pos[top[u].rest]
               /\ num[f] = pos[f]
    BY Zenon, <1>2, <1>6, <1>10, <2>1 DEF IInv, Chain, Walks, Walk
  <2>2. ASSUME pc'[t] \in WakingPCs
        PROVE  /\ pc'[t] = "optTop" /\ top'[t].rest = t /\ top'[t].waiting /\ top'[t].waking
               /\ top'[t].lock
    BY ZenonT(60), <1>3, <1>6, <2>2 DEF WakingPCs, IInv, TypeOK
  <2>3. num[f] <= num[t] /\ \A u \in D : num[t] <= num[u] => block'[u].prev = Null
    BY <1>2, <1>4, <1>10
  <2>4. \A u \in C : num[u] = pos[u] /\ block'[u] = block[u]
    BY Zenon, <1>4, <1>10
  <2>5. ASSUME NEW u \in Threads, pc'[u] \in WakingPCs
        PROVE  /\ top'[u].rest \in D /\ num[f] <= num[top'[u].rest]
               /\ \A v \in D : num[top'[u].rest] <= num[v] => block'[v].prev = Null
               /\ \A v \in D : num[v] < num[top'[u].rest] => v \in C
    <3>1. CASE u = t
      BY <1>10, <2>2, <2>3, <2>5, <3>1
    <3>2. CASE u # t
      <4>1. /\ top'[u].rest \in C /\ num[f] <= num[top'[u].rest] /\ pc[u] \in WakingPCs
            /\ top'[u] = top[u]
        BY <2>1, <2>5, <3>2 DEF IInv, Chain, Walks, Walk
      <4>2. num[top'[u].rest] < num[t]
        BY Zenon, <1>10, <4>1
      <4>3. \A v \in D : num[top'[u].rest] <= num[v] => block'[v].prev = Null
        BY <1>4, <2>4, <4>1 DEF IInv, Chain, Walks, Walk
      <4> QED  BY <1>2, <1>10, <4>1, <4>2, <4>3
    <3> QED  BY Zenon, <3>1, <3>2
  <2>6. ASSUME NEW u \in Threads, u # t, pc'[u] \in WakingPCs
        PROVE  /\ pc'[u] # "wakeAnd" => top'[u].waiting /\ top'[u].waking
               /\ pc'[u] = "optTop" /\ ~top'[u].lock => ~word'.multi /\ ~top'[u].multi
               /\ pc'[u] \in WakePCs => ~word'.multi /\ ~top'[u].multi
               /\ pc'[u] \in {"wakeWalk", "wakeTake"} => ~top'[u].lock
               /\ pc'[u] \in {"optWalk", "optSwap"} => top'[u].lock
    BY ZenonT(60), <1>3, <2>1, <2>6 DEF IInv, Chain, Walks, Walk
  <2>7. ASSUME NEW u \in Threads, u # t, pc'[u] \in WalkPCs
        PROVE  /\ wb'[u] \in D /\ num[f] <= num[wb'[u]] /\ num[wb'[u]] <= num[top'[u].rest]
               /\ \A v \in D : num[wb'[u]] <= num[v] /\ num[v] < num[top'[u].rest]
                                 => block'[v].prev # Null
    <3>1. pc'[u] \in WakingPCs
      BY Zenon, <2>7 DEF WalkPCs, WakingPCs
    <3>2. /\ wb'[u] \in C /\ num[f] <= num[wb'[u]] /\ num[wb'[u]] <= num[top'[u].rest]
          /\ \A v \in C : pos[wb[u]] <= pos[v] /\ pos[v] < pos[top[u].rest] => block[v].prev # Null
      BY <2>1, <2>4, <2>7, <3>1 DEF IInv, Chain, Walks, Walk
    <3>3. wb'[u] = wb[u] /\ num[wb[u]] = pos[wb[u]] /\ num[top'[u].rest] = pos[top[u].rest]
      BY ZenonT(60), <2>1, <2>4, <2>7, <3>1, <3>2
    <3>4. ASSUME NEW v \in D, num[wb'[u]] <= num[v], num[v] < num[top'[u].rest]
          PROVE  block'[v].prev # Null
      <4>1. v \in C
        BY Zenon, <2>5, <3>1, <3>4
      <4>2. num[v] = pos[v] /\ block'[v] = block[v]
        BY Zenon, <2>4, <4>1
      <4> QED  BY Zenon, <3>2, <3>3, <3>4, <4>1, <4>2
    <3> QED  BY Zenon, <3>2, <3>4
  <2>8. ASSUME NEW u \in Threads, u # t, pc'[u] = "wakeTake"
        PROVE  /\ wb'[u] = o
               /\ \A v \in D : num[v] < num[top'[u].rest] => block'[v].prev # Null
    <3>1. pc'[u] \in WakingPCs
      BY Zenon, <2>8 DEF WakingPCs
    <3>2. /\ wb[u] = o /\ wb' = wb
          /\ \A v \in C : pos[v] < pos[top[u].rest] => block[v].prev # Null
      BY ZenonT(60), <2>1, <2>8, <3>1 DEF IInv, Chain, Walks, Walk
    <3>3. num[top'[u].rest] = pos[top[u].rest]
      BY Zenon, <2>1, <2>8, <3>1
    <3>4. ASSUME NEW v \in D, num[v] < num[top'[u].rest]
          PROVE  block'[v].prev # Null
      <4>1. v \in C
        BY Zenon, <2>5, <2>8, <3>1, <3>4
      <4>2. num[v] = pos[v] /\ block'[v] = block[v]
        BY <2>4, <4>1
      <4> QED  BY Zenon, <3>2, <3>3, <3>4, <4>1, <4>2
    <3> QED  BY Zenon, <3>2, <3>4
  <2> QED
    BY ZenonT(60), <2>2, <2>5, <2>6, <2>7, <2>8 DEF Walks, Walk, WakingPCs, WakePCs, WalkPCs
<1>16. Releases(D, o)'
  BY ZenonT(60), <1>3, <1>6 DEF IInv, Chain, Releases, Release
<1>17. Owners(o)'
  <2>1. Sharers' = Sharers
    BY Zenon DEF Sharers
  <2> QED  BY <1>2, <1>3, <1>4, <1>6, <2>1 DEF IInv, Chain, Owners
<1> QED
  BY Zenon, <1>7, <1>8, <1>9, <1>10, <1>11, <1>13, <1>14, <1>15, <1>16, <1>17 DEF IInv, Chain

(* What a waiter puts in its block.                                        *)
LEMMA NewBlockFields ==
    ASSUME Counted, NEW t \in Threads, NEW w \in Words, NEW m, NEW b, b = NewBlock(t, w, m)
    PROVE  /\ b.next = (IF w.waiting THEN w.rest ELSE Null)
           /\ b.last = (IF w.waiting THEN Null ELSE t)
           /\ b.prev = Null /\ b.spin /\ b.excl = (m # "shared")
           /\ b.share = (IF m # "shared" /\ Shared(w) > 1 THEN Shared(w) ELSE 0)
           /\ w.waiting /\ w.rest \in Threads => b \in Blocks
           /\ ~w.waiting /\ w.rest \in 0 .. Cardinality(Threads) => b \in Blocks
<1> DEFINE nx == IF w.waiting THEN w.rest ELSE Null
           ls == IF w.waiting THEN Null ELSE t
           ex == m # "shared"
           sh == IF m # "shared" /\ Shared(w) > 1 THEN Shared(w) ELSE 0
<1>1. b = [next |-> nx, last |-> ls, prev |-> Null, share |-> sh,
           excl |-> ex, spin |-> TRUE, gate |-> "uninit"]
  BY Zenon DEF NewBlock, NoBlock
<1>2. ASSUME w.waiting, w.rest \in Threads
      PROVE  b \in Blocks
  <2>1. nx \in Threads \cup {Null} /\ ls \in Threads \cup {Null}
    BY Zenon, <1>2
  <2>2. sh \in 0 .. Cardinality(Threads)
    BY Zenon, <1>2, Sizes DEF Shared
  <2> HIDE DEF nx, ls, sh
  <2> QED  BY <1>1, <2>1, <2>2 DEF Blocks
<1>3. ASSUME ~w.waiting, w.rest \in 0 .. Cardinality(Threads)
      PROVE  b \in Blocks
  <2>1. nx \in Threads \cup {Null} /\ ls \in Threads \cup {Null}
    BY Zenon, <1>3
  <2>2. sh \in 0 .. Cardinality(Threads)
    BY Zenon, <1>3, Sizes DEF Shared
  <2> HIDE DEF nx, ls, sh
  <2> QED  BY <1>1, <2>1, <2>2 DEF Blocks
<1> HIDE DEF nx, ls, sh, ex
<1>4. b.next = nx /\ b.last = ls /\ b.prev = Null /\ b.spin /\ b.excl = ex /\ b.share = sh
  BY <1>1
<1> QED  BY Zenon, <1>2, <1>3, <1>4 DEF nx, ls, sh, ex

(* The first waiter: the chain is its block, which gets a share count      *)
(* above one.                                                              *)
LEMMA PushFirst ==
    ASSUME Counted,
           NEW C, NEW P, NEW pos, NEW o, NEW f, IInv(C, P, pos, o, f), NEW t \in Threads,
           pc[t] = "acqLoop", ~word.waiting, word.lock,
           NEW m \in BOOLEAN, m => word.rest > 1,
           ~m => word.rest \in {0, 1},
           word' = [word EXCEPT !.waiting = TRUE, !.waking = FALSE, !.multi = m, !.rest = t],
           NEW b \in Blocks, b.last = t, b.prev = Null, b.spin, m => b.excl,
           b.share = (IF m THEN word.rest ELSE 0), block' = [block EXCEPT ![t] = b],
           pc' = [pc EXCEPT ![t] = "gateInit"],
           UNCHANGED <<held, mode, old, top, wb, acquires>>
    PROVE  IInv({t}, P, pos, t, t)'
<1>1. /\ mode[t] # "none" /\ held[t] = "none" /\ ~Queued(t)
      /\ C = {} /\ \A s \in Threads : t \notin P[s]
  BY ZenonT(60) DEF IInv, Frames, InCall, Holding, Queued, Published, Chain, Members, Shape
<1>2. /\ pos \in [Threads -> Int] /\ P \in [Threads -> SUBSET Threads]
      /\ block \in [Threads -> Blocks] /\ word.rest = Cardinality(Sharers)
      /\ word.rest \in 0 .. Cardinality(Threads)
  <2>1. word.rest = Cardinality(Sharers)
    BY Zenon DEF IInv, Chain, Owners
  <2>2. Cardinality(Sharers) \in 0 .. Cardinality(Threads)
    BY Zenon, Sizes DEF Sharers
  <2> QED  BY ZenonT(60), <2>1, <2>2 DEF IInv, TypeOK, Chain, Members
<1>3. /\ word'.waiting /\ ~word'.waking /\ word'.lock /\ word'.multi = m
      /\ word'.rest = t /\ word' \in Words
  BY Zenon DEF IInv, TypeOK, Words
<1>4. /\ block'[t].last = t /\ block'[t].prev = Null
      /\ block'[t].share = (IF m THEN word.rest ELSE 0) /\ block'[t].spin
      /\ m => block'[t].excl
      /\ \A u \in Threads : u # t => block'[u] = block[u]
  BY Zenon, <1>2
<1>5. block' \in [Threads -> Blocks]
  BY Zenon, <1>2
<1>6. /\ pc'[t] = "gateInit" /\ pc' \in [Threads -> PCs]
      /\ \A u \in Threads : u # t => pc'[u] = pc[u]
  BY Zenon DEF IInv, TypeOK, PCs
<1>7. TypeOK'
  BY Zenon, <1>3, <1>5, <1>6 DEF IInv, TypeOK
<1>8. Frames'
  BY <1>1, <1>4, <1>6 DEF IInv, Frames, InCall, OutOfCall, Holding
<1>9. \A u \in Threads : pc[u] \notin WakingPCs /\ pc'[u] \notin WakingPCs
  BY Zenon, <1>6 DEF IInv, OneWaker, Chain, Shape, WakingPCs
<1>10. OneWaker'
  BY Zenon, <1>3, <1>9 DEF OneWaker
<1>11. Shape({t}, pos, t, t)'
  BY <1>2, <1>3, <1>4 DEF Shape
<1>12. Queued(t)' /\ \A u \in Threads : u # t => (Queued(u)' <=> Queued(u))
  BY ZenonT(60), <1>1, <1>4, <1>6 DEF Queued, Published, Woken
<1>13. Members({t}, P)'
  BY ZenonT(60), <1>1, <1>12 DEF IInv, Chain, Members
<1>14. Lists(P, pos)'
  <2>1. \A s \in Threads : \A u \in P[s] : u \in Threads /\ u # t /\ block'[u] = block[u]
    BY ZenonT(60), <1>1, <1>2, <1>4
  <2>2. pc[t] \notin ListPCs /\ pc'[t] \notin ListPCs /\ P[t] = {}
    BY Zenon, <1>6 DEF IInv, Chain, Lists, ListPCs
  <2>3. ASSUME NEW s \in Threads, s # t, pc[s] = "wakeSignal"
        PROVE  wb[s] \in P[s] /\ pc[wb[s]] = "sleep" /\ wb[s] # t
    BY ZenonT(60), <1>1, <2>3 DEF IInv, Chain, Lists, ListPCs
  <2> QED  BY <1>6, <2>1, <2>2, <2>3 DEF IInv, Chain, Lists, ListPCs
<1>15. Walks({t}, pos, t, t)'
  BY Zenon, <1>9 DEF Walks, Walk
<1>16. \A u \in Threads : /\ pc[u] \notin {"relsWalk", "relsCount", "relsUnlock"}
                          /\ pc[u] = "relsLoop" => ~old[u].waiting
  BY Zenon DEF IInv, Chain, Releases, Release, Shape
<1>17. Releases({t}, t)'
  BY Zenon, <1>6, <1>16 DEF Releases, Release
<1>18. Owners(t)'
  <2>1. Sharers' = Sharers /\ \A u \in Threads : block[u].share = 0
    BY Zenon DEF Sharers, IInv, Chain, Owners, Shape
  <2>2. ASSUME NEW u \in Threads, held[u] = "exclusive"
        PROVE  ~m /\ \A v \in Threads \ {u} : held[v] = "none"
    <3>1. \A v \in Threads \ {u} : held[v] = "none"
      BY Zenon, <2>2 DEF IInv, Chain, Owners
    <3>2. Sharers = {}
      BY Zenon, <2>2, <3>1 DEF Sharers
    <3>3. Cardinality(Sharers) = 0
      BY Zenon, <3>2, NoneOrOne
    <3> QED  BY <1>2, <3>1, <3>3
  <2>3. ASSUME NEW u \in Threads, NEW v \in Threads, held[u] # "none", held[v] # "none", ~m
        PROVE  u = v
    <3>1. CASE held[u] = "exclusive" \/ held[v] = "exclusive"
      BY Zenon, <2>2, <2>3, <3>1
    <3>2. CASE held[u] = "shared" /\ held[v] = "shared"
      <4>1. u \in Sharers /\ v \in Sharers /\ Sharers \in SUBSET Threads
        BY Zenon, <3>2 DEF Sharers
      <4>2. Cardinality(Sharers) <= 1
        BY <1>2, <2>3
      <4> QED  BY Zenon, <4>1, <4>2, Sizes
    <3> QED  BY Zenon, <2>3, <3>1, <3>2 DEF IInv, TypeOK
  <2> QED  BY <1>2, <1>3, <1>4, <1>6, <1>16, <2>1, <2>2, <2>3 DEF Owners
<1> QED
  BY Zenon, <1>2, <1>7, <1>8, <1>10, <1>11, <1>13, <1>14, <1>15, <1>17, <1>18 DEF IInv, Chain

LEMMA AcqPushStep ==
    ASSUME Counted, NEW C, NEW P, NEW pos, NEW o, NEW f, IInv(C, P, pos, o, f),
           NEW t \in Threads, AcqPush(t)
    PROVE  Inv'
<1> USE DEF AcqPush, Swap, Mismatch, SetTop, Goto
<1>1. /\ pc[t] = "acqLoop" /\ mode[t] # "none" /\ held[t] = "none" /\ old[t].lock
      /\ UNCHANGED <<held, mode, old, wb, acquires>>
      /\ mode[t] \in {"shared", "exclusive", "passing"}
  BY Zenon DEF IInv, TypeOK, Frames, InCall, Holding, Available
<1>2. CASE Mismatch(old[t])
  <2>1. /\ pc' = [pc EXCEPT ![t] = "acqRead"]
        /\ UNCHANGED <<word, block, held, mode, old, top, wb, acquires>>
    BY Zenon, <1>2
  <2> HIDE DEF AcqPush, Swap, Mismatch, SetTop, Goto
  <2>2. TypeOK' /\ pc'[t] = "acqRead"
    BY ZenonT(60), <2>1 DEF IInv, TypeOK, PCs
  <2>3. Frames'
    BY ZenonT(60), <1>1, <2>1, <2>2 DEF IInv, TypeOK, Frames, InCall, OutOfCall, Holding
  <2>4. OnlyMoves(t)
    BY Zenon, <2>1 DEF OnlyMoves, Moves, SameLinks, IInv, TypeOK
  <2>5. ~Queued(t) /\ ~Queued(t)' /\ Release(t, C, o)'
    BY Zenon, <1>1, <2>1, <2>2 DEF Queued, Published, Release
  <2>6. IInv(C, P, pos, o, f)'
    BY Zenon, <1>1, <2>1, <2>2, <2>3, <2>4, <2>5, QuietStep, OwnersKept
       DEF IInv, Chain, OnlyMoves, WakingPCs, ListPCs
  <2> QED  BY Zenon, <2>6 DEF Inv
<1>3. CASE Swap(old[t], Pushed(t, old[t], mode[t])) /\ word.waiting
  <2>1. /\ word.lock /\ old[t] = word /\ word \in Words
        /\ word' = Pushed(t, word, mode[t])
        /\ block' = [block EXCEPT ![t] = NewBlock(t, word, mode[t])]
        /\ \/ /\ word.waiting /\ ~word.waking /\ top' = [top EXCEPT ![t] = word']
              /\ pc' = [pc EXCEPT ![t] = "optTop"]
           \/ word.waking /\ top' = top /\ pc' = [pc EXCEPT ![t] = "gateInit"]
    BY Zenon, <1>1, <1>3 DEF IInv, TypeOK
  <2> HIDE DEF AcqPush, Swap, Mismatch, SetTop, Goto
  <2>2. word' = [word EXCEPT !.waking = TRUE, !.rest = t]
    BY Zenon, <1>3, <2>1 DEF Pushed, Words
  <2>3. PICK b : b = NewBlock(t, word, mode[t])
    OBVIOUS
  <2>6. word.rest \in Threads /\ word.waiting \in BOOLEAN
    BY ZenonT(60), <1>3, <2>1 DEF IInv, Chain, Shape, Members, Words
  <2>7. /\ b.next = word.rest /\ b.last = Null /\ b.prev = Null /\ b.share = 0 /\ b.spin
        /\ b \in Blocks
    <3>1. Shared(word) = 0
      BY Zenon, <1>3 DEF Shared
    <3> QED  BY <1>3, <2>1, <2>3, <2>6, <3>1, NewBlockFields
  <2>4. PICK num : num = [pos EXCEPT ![t] = pos[word.rest] + 1]
    BY Zenon
  <2>5. IInv(C \cup {t}, P, num, o, f)'
    BY Zenon, <1>1, <1>3, <2>1, <2>2, <2>3, <2>4, <2>6, <2>7, PushOn
  <2> QED  BY Zenon, <2>5 DEF Inv
<1>4. CASE Swap(old[t], Pushed(t, old[t], mode[t])) /\ ~word.waiting
  <2>1. /\ word.lock /\ old[t] = word /\ word \in Words
        /\ word' = Pushed(t, word, mode[t])
        /\ block' = [block EXCEPT ![t] = NewBlock(t, word, mode[t])]
        /\ top' = top /\ pc' = [pc EXCEPT ![t] = "gateInit"]
        /\ ~Available(word, mode[t])
    BY Zenon, <1>1, <1>4 DEF IInv, TypeOK
  <2> HIDE DEF AcqPush, Swap, Mismatch, SetTop, Goto
  <2> DEFINE m == mode[t] # "shared" /\ word.rest > 1
  <2>2. word.rest \in Nat /\ word.rest \in 0 .. Cardinality(Threads)
    <3>1. word.rest = Cardinality(Sharers)
      BY Zenon, <1>4 DEF IInv, Chain, Owners
    <3> QED  BY ZenonT(60), <3>1, Sizes DEF Sharers
  <2>3. word' = [word EXCEPT !.waiting = TRUE, !.waking = FALSE, !.multi = m, !.rest = t]
    BY Zenon, <1>4, <2>1 DEF Pushed, Shared, Words
  <2>4. PICK b : b = NewBlock(t, word, mode[t])
    OBVIOUS
  <2>5. /\ m \in BOOLEAN /\ m => word.rest > 1 
        /\ m => mode[t] # "shared" 
        /\ ~m => word.rest \in {0, 1}
    BY <1>4, <2>1, <2>2 DEF Available, Shared
  <2>6. PICK e \in BOOLEAN : e = m
    BY Zenon, <2>5
  <2>8. /\ b.last = t /\ b.prev = Null /\ b.spin /\ (m => b.excl)
        /\ b.share = (IF m THEN word.rest ELSE 0) /\ b \in Blocks
    <3>1. Shared(word) = word.rest /\ word.waiting \in BOOLEAN
      BY Zenon, <1>4, <2>1 DEF Shared, Words
    <3>2. /\ b.last = t /\ b.prev = Null /\ b.spin /\ b.excl = (mode[t] # "shared")
          /\ b.share = (IF mode[t] # "shared" /\ Shared(word) > 1 THEN Shared(word) ELSE 0)
          /\ b \in Blocks
      BY <1>4, <2>1, <2>2, <2>4, <3>1, NewBlockFields
    <3> QED  BY Zenon, <3>1, <3>2
  <2> HIDE DEF m
  <2>7. IInv({t}, P, pos, t, t)'
    BY ZenonT(60), <1>1, <1>4, <2>1, <2>3, <2>4, <2>5, <2>6, <2>8, PushFirst
  <2> QED  BY Zenon, <2>7 DEF Inv
<1> QED  BY Zenon, <1>2, <1>3, <1>4
=============================================================================
