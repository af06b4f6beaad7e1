--------------------------- MODULE PushLockWalks ---------------------------
(***************************************************************************)
(* The walks of the chain keep the inductive invariant of PushLock, and so *)
(* does every step.                                                        *)
(***************************************************************************)
EXTENDS PushLockSteps

-----------------------------------------------------------------------------
(* What the owner of Waking knows of the chain.                            *)
LEMMA WakerFacts ==
    ASSUME NEW C, NEW P, NEW pos, NEW o, NEW f, IInv(C, P, pos, o, f),
           NEW t \in Threads, pc[t] \in WakingPCs
    PROVE  /\ word.waiting /\ word.waking /\ word \in Words
           /\ C \subseteq Threads /\ pos \in [Threads -> Int]
           /\ o \in C /\ f \in C /\ word.rest \in C /\ Walk(t, C, pos, o, f)
           /\ held[t] = "none" /\ block \in [Threads -> Blocks]
           /\ \A u \in Threads : u # t => pc[u] \notin WakingPCs
           /\ \A u \in C : pos[o] <= pos[u] /\ pos[u] <= pos[word.rest]
           /\ \A u \in C : pos[word.rest] <= pos[u] => block[u].prev = Null
<1>1. word.waiting /\ word.waking /\ \A u \in Threads : u # t => pc[u] \notin WakingPCs
  BY Zenon DEF IInv, OneWaker, Chain, Shape
<1>2. /\ C \subseteq Threads /\ pos \in [Threads -> Int] /\ o \in C /\ f \in C /\ word.rest \in C
      /\ \A u \in C : pos[o] <= pos[u] /\ pos[u] <= pos[word.rest]
      /\ \A u \in C : block[u].prev # Null => block[u].prev \in C /\ pos[block[u].prev] = pos[u] + 1
  BY Zenon, <1>1 DEF IInv, Chain, Shape, Members
<1>3. ASSUME NEW u \in C, pos[word.rest] <= pos[u], block[u].prev # Null
      PROVE  FALSE
  <2>1. block[u].prev \in C /\ pos[block[u].prev] = pos[u] + 1 /\ u \in Threads
        /\ word.rest \in Threads /\ pos[block[u].prev] <= pos[word.rest]
    BY Zenon, <1>2, <1>3
  <2>2. pos[word.rest] \in Int /\ pos[u] \in Int
    BY Zenon, <1>2, <2>1
  <2> QED  BY Zenon, <1>3, <2>1, <2>2, NotBeyond
<1>4. held[t] = "none" /\ Walk(t, C, pos, o, f)
  BY Zenon DEF IInv, Frames, Holding, Chain, Walks, WakingPCs
<1> QED  BY Zenon, <1>1, <1>2, <1>3, <1>4 DEF IInv, TypeOK

(* A step of the owner of Waking that writes only its locals.              *)
LEMMA WakerMoves ==
    ASSUME NEW C, NEW P, NEW pos, NEW o, NEW f, IInv(C, P, pos, o, f), NEW t \in Threads,
           pc[t] \in WakingPCs, pc[t] # "wakeAnd",
           NEW l \in WakingPCs, l # "wakeAnd", pc' = [pc EXCEPT ![t] = l],
           l \in InCall => mode[t] # "none",
           NEW w \in Words, top' = [top EXCEPT ![t] = w],
           NEW b \in Threads \cup {Null}, wb' = [wb EXCEPT ![t] = b],
           UNCHANGED <<word, block, held, mode, old, acquires>>,
           Walk(t, C, pos, o, f)'
    PROVE  IInv(C, P, pos, o, f)'
<1>1. /\ pc'[t] = l /\ top'[t] = w /\ wb'[t] = b
      /\ \A u \in Threads : u # t => pc'[u] = pc[u] /\ top'[u] = top[u] /\ wb'[u] = wb[u]
  BY Zenon DEF IInv, TypeOK
<1>2. TypeOK'
  BY Zenon DEF IInv, TypeOK, PCs
<1>3. Frames'
  BY <1>1, WakerFacts DEF IInv, Frames, InCall, OutOfCall, Holding, WakingPCs
<1>4. OneWaker'
  BY Zenon, <1>1 DEF IInv, OneWaker
<1>5. Shape(C, pos, o, f)'
  BY Zenon DEF IInv, Chain, Shape
<1>6. \A u \in Threads : Queued(u)' <=> Queued(u)
  BY Zenon, <1>1 DEF Queued, Published, Woken, WakingPCs
<1>7. Members(C, P)'
  BY Zenon, <1>6 DEF IInv, Chain, Members
<1>8. Lists(P, pos)'
  <2>1. pc[t] \notin ListPCs /\ pc'[t] \notin ListPCs /\ P[t] = {}
    BY Zenon, <1>1 DEF IInv, Chain, Lists, ListPCs, WakingPCs
  <2> QED  BY <1>1, <2>1 DEF IInv, Chain, Lists, ListPCs, WakingPCs
<1>9. Walks(C, pos, o, f)'
  BY <1>1, WakerFacts DEF Walks
<1>10. Releases(C, o)'
  BY ZenonT(60), <1>1 DEF IInv, Chain, Releases, Release, WakingPCs
<1>11. Owners(o)'
  <2>1. Sharers' = Sharers
    BY Zenon DEF Sharers
  <2> QED  BY <1>1, <2>1 DEF IInv, Chain, Owners, WakingPCs
<1> QED
  BY Zenon, <1>2, <1>3, <1>4, <1>5, <1>7, <1>8, <1>9, <1>10, <1>11 DEF IInv, Chain

(* A step that gives up Waking.                                            *)
LEMMA GiveUp ==
    ASSUME NEW C, NEW P, NEW pos, NEW o, NEW f, IInv(C, P, pos, o, f), NEW t \in Threads,
           pc[t] \in WakingPCs, word' = [word EXCEPT !.waking = FALSE],
           NEW l \in {"idle", "gateInit", "wakeClear"}, pc' = [pc EXCEPT ![t] = l],
           l = "idle" => mode[t] = "none", l = "gateInit" => mode[t] # "none",
           l = "wakeClear" <=> pc[t] = "wakeAnd",
           NEW w \in Words, top' = [top EXCEPT ![t] = w],
           NEW b \in Threads \cup {Null}, wb' = [wb EXCEPT ![t] = b],
           l = "wakeClear" => b = wb[t],
           UNCHANGED <<block, held, mode, old, acquires>>
    PROVE  IInv(C, P, pos, o, f)'
<1>1. /\ pc'[t] = l /\ top'[t] = w /\ wb'[t] = b
      /\ \A u \in Threads : u # t => pc'[u] = pc[u] /\ top'[u] = top[u] /\ wb'[u] = wb[u]
  BY Zenon DEF IInv, TypeOK
<1>2. /\ word' \in Words /\ ~word'.waking /\ word'.waiting = word.waiting
      /\ word'.lock = word.lock /\ word'.multi = word.multi /\ word'.rest = word.rest
  BY Zenon DEF IInv, TypeOK, Words
<1>3. TypeOK'
  BY Zenon, <1>2 DEF IInv, TypeOK, PCs
<1>4. Frames'
  BY <1>1, WakerFacts DEF IInv, Frames, InCall, OutOfCall, Holding, WakingPCs
<1>5. \A u \in Threads : pc'[u] \notin WakingPCs
  BY ZenonT(60), <1>1, WakerFacts DEF WakingPCs
<1>6. OneWaker'
  BY Zenon, <1>2, <1>5 DEF OneWaker
<1>7. Shape(C, pos, o, f)'
  BY Zenon, <1>2 DEF IInv, Chain, Shape
<1>8. \A u \in Threads : Queued(u)' <=> Queued(u)
  BY Zenon, <1>1 DEF Queued, Published, Woken, WakingPCs
<1>9. Members(C, P)'
  BY Zenon, <1>8 DEF IInv, Chain, Members
<1>10. Lists(P, pos)'
  <2>1. pc[t] \in ListPCs <=> pc'[t] \in ListPCs
    BY Zenon, <1>1 DEF ListPCs, WakingPCs
  <2>2. pc[t] \notin ListPCs => P[t] = {}
    BY Zenon DEF IInv, Chain, Lists
  <2>3. pc'[t] \in ListPCs => wb'[t] = wb[t] /\ pc'[t] # "wakeSignal"
    BY Zenon, <1>1 DEF ListPCs
  <2>4. \A s \in Threads : s # t /\ pc[s] = "wakeSignal" => wb[s] # t
    BY Zenon DEF IInv, Chain, Lists, WakingPCs
  <2> QED  BY <1>1, <2>1, <2>2, <2>3, <2>4 DEF IInv, Chain, Lists, ListPCs
<1>11. Walks(C, pos, o, f)'
  BY Zenon, <1>5 DEF Walks
<1>12. Releases(C, o)'
  BY <1>1, <1>2 DEF IInv, Chain, Releases, Release, WakingPCs
<1>13. Owners(o)'
  <2>1. Sharers' = Sharers
    BY Zenon DEF Sharers
  <2> QED  BY <1>1, <1>2, <2>1 DEF IInv, Chain, Owners, WakingPCs
<1> QED
  BY Zenon, <1>3, <1>4, <1>6, <1>7, <1>9, <1>10, <1>11, <1>12, <1>13 DEF IInv, Chain

(* The end of a walk: the first block with a Last pointer is the newest    *)
(* one that has it, and it names the oldest.                               *)
LEMMA WalkEnd ==
    ASSUME NEW C, NEW P, NEW pos, NEW o, NEW f, IInv(C, P, pos, o, f),
           NEW t \in Threads, pc[t] \in WalkPCs, block[wb[t]].last # Null
    PROVE  /\ wb[t] = f /\ block[wb[t]].last = o
           /\ \A u \in C : pos[u] < pos[top[t].rest] => block[u].prev # Null
<1>1. pc[t] \in WakingPCs
  BY Zenon DEF WalkPCs, WakingPCs
<1>2. wb[t] \in C /\ pos[f] <= pos[wb[t]] /\ f \in C /\ C \subseteq Threads /\ pos \in [Threads -> Int]
  BY Zenon, <1>1, WakerFacts DEF Walk
<1>3. ~(pos[wb[t]] > pos[f]) /\ (pos[wb[t]] = pos[f] => wb[t] = f)
  BY Zenon, <1>2 DEF IInv, Chain, Shape
<1>4. wb[t] = f
  BY <1>2, <1>3
<1>5. block[f].last = o
  BY Zenon, <1>1, WakerFacts DEF IInv, Chain, Shape
<1>6. ASSUME NEW u \in C, pos[u] < pos[top[t].rest]
      PROVE  block[u].prev # Null
  <2>1. CASE pos[u] < pos[f]
    BY Zenon, <2>1 DEF IInv, Chain, Shape
  <2>2. CASE pos[f] <= pos[u]
    BY <1>1, <1>4, <1>6, <2>2, WakerFacts DEF Walk
  <2> QED  BY <1>2, <2>1, <2>2
<1> QED  BY Zenon, <1>4, <1>5, <1>6

(* The walks look again at the word they find.                             *)
LEMMA LookAgain ==
    ASSUME NEW C, NEW P, NEW pos, NEW o, NEW f, IInv(C, P, pos, o, f), NEW t \in Threads,
           pc[t] \in WakingPCs, pc[t] # "wakeAnd",
           NEW l \in {"optTop", "wakeTop"}, pc' = [pc EXCEPT ![t] = l],
           l = "optTop" => mode[t] # "none", l = "wakeTop" => pc[t] \in WakePCs,
           top' = [top EXCEPT ![t] = word], wb' = wb,
           UNCHANGED <<word, block, held, mode, old, acquires>>
    PROVE  IInv(C, P, pos, o, f)'
<1>1. pc'[t] = l /\ top'[t] = word /\ l \in WakingPCs /\ l \notin WalkPCs /\ word \in Words
  BY ZenonT(60) DEF IInv, TypeOK, WakingPCs, WalkPCs
<1>2. ~word.lock \/ l = "wakeTop" => ~word.multi
  BY WakerFacts DEF IInv, Chain, Owners, Walk
<1>3. Walk(t, C, pos, o, f)'
  BY <1>1, <1>2, WakerFacts DEF Walk, WakePCs
<1>4. wb' = [wb EXCEPT ![t] = wb[t]] /\ wb[t] \in Threads \cup {Null}
  BY Zenon DEF IInv, TypeOK
<1>5. l \in InCall => mode[t] # "none"
  BY Zenon DEF InCall
<1> QED  BY Zenon, <1>1, <1>3, <1>4, <1>5, WakerMoves

LEMMA OptTopStep ==
    ASSUME NEW C, NEW P, NEW pos, NEW o, NEW f, IInv(C, P, pos, o, f),
           NEW t \in Threads, OptTop(t)
    PROVE  IInv(C, P, pos, o, f)'
<1> USE DEF OptTop, SetWb, Goto
<1>1. /\ pc[t] = "optTop" /\ mode[t] # "none" /\ top[t] \in Words /\ pc[t] \in WakingPCs
      /\ UNCHANGED <<word, block, held, mode, old, acquires>> /\ top' = [top EXCEPT ![t] = top[t]]
  BY Zenon DEF IInv, TypeOK, Frames, InCall, WakingPCs
<1>2. CASE ~top[t].lock
  <2>1. pc' = [pc EXCEPT ![t] = "wakeTop"] /\ wb' = [wb EXCEPT ![t] = wb[t]]
        /\ pc'[t] = "wakeTop" /\ wb[t] \in Threads \cup {Null} /\ top'[t] = top[t]
    BY Zenon, <1>2 DEF IInv, TypeOK
  <2> HIDE DEF OptTop, SetWb, Goto
  <2>2. Walk(t, C, pos, o, f)'
    BY <1>1, <1>2, <2>1, WakerFacts DEF Walk, WakePCs, WalkPCs
  <2>3. "wakeTop" \in WakingPCs /\ "wakeTop" \notin InCall
    BY Zenon DEF WakingPCs, InCall
  <2> QED  BY Zenon, <1>1, <2>1, <2>2, <2>3, WakerMoves
<1>3. CASE top[t].lock
  <2>1. pc' = [pc EXCEPT ![t] = "optWalk"] /\ wb' = [wb EXCEPT ![t] = top[t].rest]
        /\ pc'[t] = "optWalk" /\ wb'[t] = top[t].rest /\ top'[t] = top[t]
    BY Zenon, <1>3 DEF IInv, TypeOK
  <2> HIDE DEF OptTop, SetWb, Goto
  <2>2. top[t].rest \in C /\ C \subseteq Threads /\ pos \in [Threads -> Int]
    BY ZenonT(60), <1>1, WakerFacts DEF Walk
  <2>3. Walk(t, C, pos, o, f)'
    BY <1>1, <1>3, <2>1, <2>2, WakerFacts DEF Walk, WakePCs, WalkPCs
  <2>4. "optWalk" \in WakingPCs
    BY Zenon DEF WakingPCs
  <2> QED  BY Zenon, <1>1, <2>1, <2>2, <2>3, <2>4, WakerMoves
<1> QED  BY Zenon, <1>1, <1>2, <1>3

LEMMA OptSwapStep ==
    ASSUME Counted, NEW C, NEW P, NEW pos, NEW o, NEW f, IInv(C, P, pos, o, f),
           NEW t \in Threads, OptSwap(t)
    PROVE  IInv(C, P, pos, o, f)'
<1> USE DEF OptSwap, SetWb, SetTop, Goto, Swap, Mismatch
<1>1. /\ pc[t] = "optSwap" /\ mode[t] # "none" /\ pc[t] \in WakingPCs
      /\ UNCHANGED <<block, held, mode, old, acquires>>
  BY Zenon DEF IInv, TypeOK, Frames, InCall, WakingPCs
<1>2. CASE Swap(top[t], Waking(top[t], FALSE))
  <2>1. /\ word' = [word EXCEPT !.waking = FALSE] /\ pc' = [pc EXCEPT ![t] = "gateInit"]
        /\ top' = [top EXCEPT ![t] = Free] /\ wb' = [wb EXCEPT ![t] = Null]
    BY Zenon, <1>2 DEF Waking
  <2> HIDE DEF OptSwap, SetWb, SetTop, Goto, Swap, Mismatch
  <2> QED  BY Zenon, <1>1, <2>1, Constants, GiveUp
<1>3. CASE Mismatch(top[t])
  <2>1. /\ top' = [top EXCEPT ![t] = word] /\ pc' = [pc EXCEPT ![t] = "optTop"]
        /\ UNCHANGED <<wb, word>>
    BY Zenon, <1>3
  <2> HIDE DEF OptSwap, SetWb, SetTop, Goto, Swap, Mismatch
  <2> QED  BY Zenon, <1>1, <2>1, LookAgain
<1> QED  BY Zenon, <1>2, <1>3

LEMMA WakeTopStep ==
    ASSUME Counted, NEW C, NEW P, NEW pos, NEW o, NEW f, IInv(C, P, pos, o, f),
           NEW t \in Threads, WakeTop(t)
    PROVE  IInv(C, P, pos, o, f)'
<1> USE DEF WakeTop, WakeReturn, SetWb, SetTop, Goto, Swap, Mismatch
<1>1. /\ pc[t] = "wakeTop" /\ pc[t] \in WakingPCs /\ pc[t] \in WakePCs
      /\ UNCHANGED <<block, held, mode, old, acquires>>
  BY Zenon DEF WakingPCs, WakePCs
<1>2. CASE top[t].lock /\ Swap(top[t], Waking(top[t], FALSE))
  <2>1. /\ word' = [word EXCEPT !.waking = FALSE]
        /\ pc' = [pc EXCEPT ![t] = IF mode[t] = "none" THEN "idle" ELSE "gateInit"]
        /\ top' = [top EXCEPT ![t] = Free] /\ wb' = [wb EXCEPT ![t] = Null]
    BY Zenon, <1>2, WakerFacts DEF Waking, WakingPCs, Words
  <2> HIDE DEF WakeTop, WakeReturn, SetWb, SetTop, Goto, Swap, Mismatch
  <2> QED  BY Zenon, <1>1, <2>1, Constants, GiveUp
<1>3. CASE top[t].lock /\ Mismatch(top[t])
  <2>1. /\ top' = [top EXCEPT ![t] = word] /\ pc' = [pc EXCEPT ![t] = "wakeTop"]
        /\ UNCHANGED <<wb, word>>
    BY <1>3, WakerFacts DEF IInv, TypeOK, Waking, WakingPCs, Words
  <2> HIDE DEF WakeTop, WakeReturn, SetWb, SetTop, Goto, Swap, Mismatch
  <2> QED  BY Zenon, <1>1, <2>1, LookAgain
<1>4. CASE ~top[t].lock
  <2>1. pc' = [pc EXCEPT ![t] = "wakeWalk"] /\ wb' = [wb EXCEPT ![t] = top[t].rest]
        /\ pc'[t] = "wakeWalk" /\ wb'[t] = top[t].rest /\ top'[t] = top[t] /\ word' = word
        /\ top[t] \in Words /\ top' = [top EXCEPT ![t] = top[t]]
    BY ZenonT(60), <1>4 DEF IInv, TypeOK
  <2> HIDE DEF WakeTop, WakeReturn, SetWb, SetTop, Goto, Swap, Mismatch
  <2>2. top[t].rest \in C /\ C \subseteq Threads /\ pos \in [Threads -> Int]
    BY ZenonT(60), <1>1, WakerFacts DEF Walk
  <2>3. Walk(t, C, pos, o, f)'
    BY <1>1, <1>4, <2>1, <2>2, WakerFacts DEF Walk, WakePCs, WalkPCs
  <2>4. "wakeWalk" \in WakingPCs /\ "wakeWalk" \notin InCall
    BY Zenon DEF WakingPCs, InCall
  <2> QED  BY Zenon, <1>1, <2>1, <2>2, <2>3, <2>4, WakerMoves
<1> QED  BY Zenon, <1>1, <1>2, <1>3, <1>4

LEMMA WakeAndStep ==
    ASSUME NEW C, NEW P, NEW pos, NEW o, NEW f, IInv(C, P, pos, o, f),
           NEW t \in Threads, WakeAnd(t)
    PROVE  IInv(C, P, pos, o, f)'
<1>1. /\ pc[t] = "wakeAnd" /\ pc[t] \in WakingPCs /\ word' = [word EXCEPT !.waking = FALSE]
      /\ pc' = [pc EXCEPT ![t] = "wakeClear"] /\ top' = [top EXCEPT ![t] = top[t]]
      /\ wb' = [wb EXCEPT ![t] = wb[t]] /\ top[t] \in Words /\ wb[t] \in Threads \cup {Null}
      /\ UNCHANGED <<block, held, mode, old, acquires>>
  BY Zenon DEF WakeAnd, Goto, Waking, WakingPCs, IInv, TypeOK
<1> QED  BY Zenon, <1>1, GiveUp

(* Setting a Previous pointer on the way.                                  *)
LEMMA LinkStep ==
    ASSUME NEW C, NEW P, NEW pos, NEW o, NEW f, IInv(C, P, pos, o, f), NEW t \in Threads,
           pc[t] \in WalkPCs, LinkPrevious(t), UNCHANGED <<word, held, mode, old, top, acquires>>
    PROVE  IInv(C, P, pos, o, f)'
<1> DEFINE b == wb[t]
           n == block[wb[t]].next
<1>1. pc[t] \in WakingPCs /\ pc[t] # "wakeAnd" /\ block[b].last = Null /\ pc' = pc
      /\ block' = [block EXCEPT ![n].prev = b] /\ wb' = [wb EXCEPT ![t] = n]
  BY ZenonT(60) DEF LinkPrevious, SetWb, WalkPCs, WakingPCs
<1>2. /\ b \in C /\ pos[f] <= pos[b] /\ pos[b] <= pos[top[t].rest]
      /\ f \in C /\ o \in C /\ top[t].rest \in C
      /\ C \subseteq Threads /\ pos \in [Threads -> Int] /\ block \in [Threads -> Blocks]
      /\ \A u \in C : pos[b] <= pos[u] /\ pos[u] < pos[top[t].rest] => block[u].prev # Null
  BY <1>1, WakerFacts DEF Walk
<1>3. b # f
  <2>1. block[f].last = o /\ o # Null
    BY <1>1, <1>2, WakerFacts, ThreadsAssumption DEF IInv, Chain, Shape
  <2> QED  BY ZenonT(60), <1>1, <2>1
<1>4. pos[f] < pos[b] /\ b # o
  <2>1. pos[b] # pos[f] /\ pos[o] <= pos[f]
    BY Zenon, <1>2, <1>3 DEF IInv, Chain, Shape
  <2> QED  BY <1>2, <2>1
<1>5. n \in C /\ pos[n] = pos[b] - 1
  BY Zenon, <1>2, <1>4 DEF IInv, Chain, Shape
<1>6. block' \in [Threads -> Blocks]
  BY Zenon, <1>1, <1>2, <1>5, BlockFields
<1> HIDE DEF n, b
<1>7. /\ block'[n].prev = b
      /\ \A u \in Threads : u # n => block'[u] = block[u]
      /\ \A u \in Threads : /\ block'[u].next = block[u].next /\ block'[u].last = block[u].last
                            /\ block'[u].excl = block[u].excl /\ block'[u].share = block[u].share
                            /\ block'[u].spin = block[u].spin /\ block'[u].gate = block[u].gate
  BY ZenonT(60), <1>1, <1>2, <1>5 DEF Blocks
<1> USE DEF b
<1>8. wb'[t] = n /\ wb' \in [Threads -> Threads \cup {Null}]
      /\ \A u \in Threads : u # t => wb'[u] = wb[u]
  BY Zenon, <1>1, <1>2, <1>5 DEF IInv, TypeOK
<1>9. TypeOK'
  BY Zenon, <1>1, <1>6, <1>8 DEF IInv, TypeOK
<1>10. Frames'
  BY <1>1, <1>7 DEF IInv, Frames
<1>11. OneWaker'
  BY ZenonT(60), <1>1 DEF IInv, OneWaker
<1>12. Shape(C, pos, o, f)'
  <2>1. b # Null
    BY Zenon, <1>2, ThreadsAssumption
  <2>2. ASSUME NEW u \in C
        PROVE  /\ block'[u].prev # Null => block'[u].prev \in C /\ pos[block'[u].prev] = pos[u] + 1
               /\ pos[u] < pos[f] => block'[u].prev # Null
    <3>1. CASE u = n
      BY <1>2, <1>5, <1>7, <2>1, <3>1
    <3>2. CASE u # n
      BY Zenon, <1>2, <1>7, <3>2 DEF IInv, Chain, Shape
    <3> QED  BY Zenon, <3>1, <3>2
  <2> QED  BY <1>2, <1>7, <2>2 DEF IInv, Chain, Shape
<1>13. \A u \in Threads : Queued(u)' <=> Queued(u)
  BY ZenonT(60), <1>1, <1>7 DEF Queued, Published, Woken
<1>14. Members(C, P)'
  BY Zenon, <1>13 DEF IInv, Chain, Members
<1>15. Lists(P, pos)'
  <2>1. \A s \in Threads : \A u \in P[s] : u \in Threads /\ u # n /\ block'[u] = block[u]
    BY <1>5, <1>7 DEF IInv, Chain, Members
  <2>2. pc[t] \notin ListPCs /\ P[t] = {}
    BY Zenon DEF IInv, Chain, Lists, ListPCs, WalkPCs
  <2>3. ASSUME NEW s \in Threads, pc[s] = "wakeSignal"
        PROVE  wb[s] \in P[s] /\ wb'[s] = wb[s]
    BY ZenonT(60), <1>8, <2>2, <2>3 DEF IInv, Chain, Lists, ListPCs
  <2> QED  BY <1>1, <1>8, <2>1, <2>2, <2>3 DEF IInv, Chain, Lists, ListPCs
<1>16. Walk(t, C, pos, o, f)'
  <2>1. ASSUME NEW u \in C
        PROVE  /\ pos[top[t].rest] <= pos[u] => block'[u].prev = Null
               /\ pos[n] <= pos[u] /\ pos[u] < pos[top[t].rest] => block'[u].prev # Null
    <3>1. b # Null
      BY Zenon, <1>2, ThreadsAssumption
    <3>2. CASE u = n
      BY <1>2, <1>5, <1>7, <3>1, <3>2
    <3>3. CASE u # n
      <4>1. pos[u] # pos[n] /\ block'[u] = block[u]
        BY ZenonT(60), <1>2, <1>5, <1>7, <3>3 DEF IInv, Chain, Shape
      <4>2. pos[top[t].rest] <= pos[u] => block[u].prev = Null
        BY <1>1, WakerFacts DEF Walk
      <4> QED  BY <1>2, <1>5, <4>1, <4>2
    <3> QED  BY Zenon, <3>2, <3>3
  <2>2. pos[f] <= pos[n] /\ pos[n] <= pos[top[t].rest]
    BY <1>2, <1>4, <1>5
  <2>3. pc[t] \in {"optWalk", "wakeWalk"}
    BY Zenon DEF WalkPCs
  <2> QED  BY <1>1, <1>5, <1>8, <2>1, <2>2, <2>3, WakerFacts DEF Walk
<1>17. Walks(C, pos, o, f)'
  BY Zenon, <1>1, <1>16, WakerFacts DEF Walks
<1>18. Releases(C, o)'
  BY Zenon, <1>1, <1>8 DEF IInv, Chain, Releases, Release, WakingPCs
<1>19. Owners(o)'
  <2>1. Sharers' = Sharers
    BY Zenon DEF Sharers
  <2> QED  BY <1>1, <1>2, <1>7, <2>1 DEF IInv, Chain, Owners
<1> QED
  BY Zenon, <1>2, <1>9, <1>10, <1>11, <1>12, <1>14, <1>15, <1>17, <1>18, <1>19 DEF IInv, Chain

LEMMA WakeWalkStep ==
    ASSUME NEW C, NEW P, NEW pos, NEW o, NEW f, IInv(C, P, pos, o, f),
           NEW t \in Threads, WakeWalk(t)
    PROVE  IInv(C, P, pos, o, f)'
<1> USE DEF WakeWalk, SetWb, Goto
<1>1. /\ pc[t] = "wakeWalk" /\ pc[t] \in WakingPCs /\ pc[t] \in WalkPCs
      /\ UNCHANGED <<word, held, mode, old, top, acquires>>
  BY Zenon DEF WakingPCs, WalkPCs
<1>2. CASE LinkPrevious(t)
  <2> HIDE DEF WakeWalk, SetWb, Goto
  <2> QED  BY Zenon, <1>1, <1>2, LinkStep
<1>3. CASE ~LinkPrevious(t)
  <2>1. /\ block[wb[t]].last # Null /\ block' = block
        /\ wb' = [wb EXCEPT ![t] = block[wb[t]].last] /\ pc' = [pc EXCEPT ![t] = "wakeTake"]
        /\ top[t] \in Words /\ top' = [top EXCEPT ![t] = top[t]]
    BY Zenon, <1>3 DEF IInv, TypeOK
  <2> HIDE DEF WakeWalk, SetWb, Goto
  <2>2. block[wb[t]].last = o /\ \A u \in C : pos[u] < pos[top[t].rest] => block[u].prev # Null
    BY <1>1, <2>1, WalkEnd
  <2>3. o \in Threads /\ wb'[t] = o /\ pc'[t] = "wakeTake" /\ top'[t] = top[t]
    BY <1>1, <2>1, <2>2, WakerFacts DEF IInv, TypeOK
  <2>4. Walk(t, C, pos, o, f)'
    <3>1. Walk(t, C, pos, o, f)
      BY Zenon, <1>1, WakerFacts
    <3> QED  BY ZenonT(60), <1>1, <2>1, <2>2, <2>3, <3>1 DEF Walk, WakePCs, WalkPCs
  <2>5. "wakeTake" \in WakingPCs /\ "wakeTake" \notin InCall
    BY Zenon DEF WakingPCs, InCall
  <2> QED  BY Zenon, <1>1, <2>1, <2>2, <2>3, <2>4, <2>5, WakerMoves
<1> QED  BY Zenon, <1>2, <1>3

(* The end of the optimisation: the newest block names the oldest.         *)
LEMMA OptWalkStep ==
    ASSUME NEW C, NEW P, NEW pos, NEW o, NEW f, IInv(C, P, pos, o, f),
           NEW t \in Threads, OptWalk(t)
    PROVE  Inv'
<1> USE DEF OptWalk, Goto
<1>1. /\ pc[t] = "optWalk" /\ pc[t] \in WakingPCs /\ pc[t] \in WalkPCs /\ mode[t] # "none"
      /\ UNCHANGED <<word, held, mode, old, top, acquires>>
  BY Zenon DEF WakingPCs, WalkPCs, IInv, Frames, InCall
<1>2. CASE LinkPrevious(t)
  <2> HIDE DEF OptWalk, Goto
  <2>1. IInv(C, P, pos, o, f)'
    BY Zenon, <1>1, <1>2, LinkStep
  <2> QED  BY Zenon, <2>1 DEF Inv
<1>3. CASE ~LinkPrevious(t)
  <2>1. PICK g : g = top[t].rest
    OBVIOUS
  <2>2. /\ block[wb[t]].last # Null /\ wb' = wb /\ pc' = [pc EXCEPT ![t] = "optSwap"]
        /\ block' = [block EXCEPT ![g].last = block[wb[t]].last]
    BY Zenon, <1>3, <2>1
  <2> HIDE DEF OptWalk, Goto
  <2>3. block[wb[t]].last = o /\ \A u \in C : pos[u] < pos[top[t].rest] => block[u].prev # Null
    BY <1>1, <2>2, WalkEnd
  <2>4. /\ g \in C /\ o \in C /\ f \in C /\ pos[f] <= pos[g] /\ C \subseteq Threads
        /\ pos \in [Threads -> Int] /\ block \in [Threads -> Blocks]
    BY ZenonT(60), <1>1, <2>1, WakerFacts DEF Walk
  <2>5. block' \in [Threads -> Blocks]
    BY Zenon, <2>2, <2>3, <2>4, BlockFields
  <2>6. /\ block'[g].last = o
        /\ \A u \in Threads : u # g => block'[u] = block[u]
        /\ \A u \in Threads : /\ block'[u].next = block[u].next /\ block'[u].prev = block[u].prev
                              /\ block'[u].excl = block[u].excl /\ block'[u].share = block[u].share
                              /\ block'[u].spin = block[u].spin /\ block'[u].gate = block[u].gate
    BY <2>2, <2>3, <2>4 DEF Blocks
  <2>7. pc'[t] = "optSwap" /\ pc' \in [Threads -> PCs] /\ \A u \in Threads : u # t => pc'[u] = pc[u]
    BY Zenon, <2>2 DEF IInv, TypeOK, PCs, WakingPCs
  <2>8. TypeOK'
    BY ZenonT(60), <1>1, <2>2, <2>5, <2>7 DEF IInv, TypeOK
  <2>9. Frames'
    BY <1>1, <2>6, <2>7 DEF IInv, Frames, InCall, OutOfCall, Holding
  <2>10. OneWaker'
    BY ZenonT(60), <1>1, <2>7 DEF IInv, OneWaker, WakingPCs
  <2>11. Shape(C, pos, o, g)'
    <3>1. ASSUME NEW u \in C
          PROVE  /\ pos[u] > pos[g] => block'[u].last = Null
                 /\ pos[u] < pos[g] => block'[u].prev # Null
      BY <2>1, <2>3, <2>4, <2>6 DEF IInv, Chain, Shape
    <3>2. word.multi => /\ block'[o].last = o /\ block'[o].excl
                        /\ \A u \in C : block'[u].last \in {Null, o}
      BY ZenonT(60), <2>4, <2>6 DEF IInv, Chain, Shape
    <3>3. Shape(C, pos, o, f)
      BY Zenon DEF IInv, Chain
    <3> QED  BY <1>1, <2>4, <2>6, <3>1, <3>2, <3>3 DEF Shape
  <2>12. \A u \in Threads : Queued(u)' <=> Queued(u)
    BY ZenonT(60), <1>1, <2>6, <2>7 DEF Queued, Published, Woken
  <2>13. Members(C, P)'
    BY Zenon, <2>12 DEF IInv, Chain, Members
  <2>14. Lists(P, pos)'
    <3>1. pc[t] \notin ListPCs /\ pc'[t] \notin ListPCs /\ P[t] = {}
      BY Zenon, <1>1, <2>7 DEF IInv, Chain, Lists, ListPCs
    <3>2. ASSUME NEW s \in Threads
          PROVE  P[s] \subseteq Threads /\ (pc[s] = "wakeSignal" => wb[s] \in P[s] /\ wb[s] # t)
      BY ZenonT(60), <1>1 DEF IInv, Chain, Lists, ListPCs, Members
    <3> QED  BY <1>1, <2>2, <2>6, <2>7, <3>1, <3>2 DEF IInv, Chain, Lists, ListPCs
  <2>15. Walk(t, C, pos, o, g)'
    BY <1>1, <2>1, <2>4, <2>6, <2>7, WakerFacts DEF Walk, WalkPCs, WakePCs
  <2>16. Walks(C, pos, o, g)'
    BY Zenon, <1>1, <2>7, <2>15, WakerFacts DEF Walks
  <2>17. Releases(C, o)'
    BY ZenonT(60), <1>1, <2>2, <2>7 DEF IInv, Chain, Releases, Release
  <2>18. Owners(o)'
    <3>1. Sharers' = Sharers
      BY Zenon, <1>1 DEF Sharers
    <3> QED  BY <1>1, <2>4, <2>6, <2>7, <3>1 DEF IInv, Chain, Owners
  <2>19. IInv(C, P, pos, o, g)'
    BY ZenonT(60), <2>4, <2>8, <2>9, <2>10, <2>11, <2>13, <2>14, <2>16, <2>17, <2>18 DEF IInv, Chain
  <2> QED  BY Zenon, <2>19 DEF Inv
<1> QED  BY Zenon, <1>2, <1>3

(* The oldest block, o, is unlinked; g, the newest when the walk began,    *)
(* names the next one, p.                                                  *)
Unlinks(o, p, g) ==
    /\ block' \in [Threads -> Blocks] /\ block'[g].last = p /\ block'[o].prev = Null
    /\ \A u \in Threads : u # g => block'[u].last = block[u].last
    /\ \A u \in Threads : u # o => block'[u].prev = block[u].prev
    /\ \A u \in Threads : /\ block'[u].next = block[u].next /\ block'[u].excl = block[u].excl
                          /\ block'[u].share = block[u].share
                          /\ block'[u].spin = block[u].spin /\ block'[u].gate = block[u].gate

LEMMA TakeOldest ==
    ASSUME NEW C, NEW P, NEW pos, NEW o, NEW f, IInv(C, P, pos, o, f), NEW t \in Threads,
           pc[t] = "wakeTake", NEW p, p = block[o].prev, p # Null,
           NEW g, g = top[t].rest,
           Unlinks(o, p, g),
           pc' = [pc EXCEPT ![t] = "wakeAnd"],
           NEW Q, Q = [P EXCEPT ![t] = {o}],
           UNCHANGED <<word, top, held, mode, old, wb, acquires>>
    PROVE  IInv(C \ {o}, Q, pos, p, g)'
<1>1. pc[t] \in WakingPCs /\ pc[t] \in WakePCs /\ pc[t] \notin ListPCs
  BY Zenon DEF WakingPCs, WakePCs, ListPCs
<1>2. /\ word.waiting /\ ~word.multi /\ word.waking
      /\ C \subseteq Threads /\ pos \in [Threads -> Int] /\ block \in [Threads -> Blocks]
      /\ o \in C /\ f \in C /\ g \in C /\ word.rest \in C /\ pos[f] <= pos[g]
      /\ p \in C /\ pos[p] = pos[o] + 1 /\ wb[t] = o
      /\ \A u \in C : pos[g] <= pos[u] => block[u].prev = Null
      /\ \A u \in C : pos[u] < pos[g] => block[u].prev # Null
      /\ \A u \in C : pos[o] <= pos[u] /\ pos[u] <= pos[word.rest]
      /\ \A u, v \in C : pos[u] = pos[v] => u = v
  <2>1. /\ o \in C /\ word.waiting /\ Walk(t, C, pos, o, f)
    BY Zenon, <1>1, WakerFacts
  <2>2. /\ p \in C /\ pos[p] = pos[o] + 1
        /\ \A u, v \in C : pos[u] = pos[v] => u = v
    BY Zenon, <2>1 DEF IInv, Chain, Shape
  <2> QED  BY ZenonT(60), <1>1, <2>1, <2>2, WakerFacts DEF Walk
<1> USE DEF Unlinks
<1>3. pos[o] < pos[g] /\ g # o /\ p # o /\ word.rest # o
  <2>1. ~(pos[g] <= pos[o])
    BY Zenon, <1>2
  <2>2. pos[o] < pos[g] /\ pos[p] <= pos[word.rest]
    BY <1>2, <2>1
  <2> QED  BY <1>2, <2>2
<1>6. pc'[t] = "wakeAnd" /\ pc' \in [Threads -> PCs] /\ \A u \in Threads : u # t => pc'[u] = pc[u]
  BY ZenonT(60) DEF IInv, TypeOK, PCs, WakingPCs
<1>7. TypeOK'
  BY Zenon, <1>6 DEF IInv, TypeOK
<1>8. Frames'
  BY <1>1, <1>6, WakerFacts DEF IInv, Frames, InCall, OutOfCall, Holding
<1>9. OneWaker'
  BY ZenonT(60), <1>1, <1>6 DEF IInv, OneWaker, WakingPCs
<1>10. \A u \in C \ {o} : pos[p] <= pos[u] /\ u # o /\ u \in Threads
  <2>1. ASSUME NEW u \in C \ {o}
        PROVE  pos[p] <= pos[u] /\ u # o /\ u \in Threads
    <3>1. pos[u] # pos[o] /\ pos[o] <= pos[u] /\ pos[u] \in Int /\ pos[o] \in Int
      BY Zenon, <1>2
    <3>2. pos[p] = pos[o] + 1 /\ u # o /\ u \in Threads
      BY Zenon, <1>2
    <3> QED  BY <3>1, <3>2
  <2> QED  BY Zenon, <2>1
<1>11. Shape(C \ {o}, pos, p, g)'
  <2>1. ASSUME NEW u \in C \ {o}
        PROVE  /\ u # p => block'[u].next \in C \ {o} /\ pos[block'[u].next] = pos[u] - 1
               /\ block'[u].prev # Null =>
                     block'[u].prev \in C \ {o} /\ pos[block'[u].prev] = pos[u] + 1
               /\ pos[u] > pos[g] => block'[u].last = Null
               /\ pos[u] < pos[g] => block'[u].prev # Null
    <3>1. /\ block[u].next \in C /\ pos[block[u].next] = pos[u] - 1
          /\ block[u].prev # Null => block[u].prev \in C /\ pos[block[u].prev] = pos[u] + 1
          /\ pos[u] > pos[f] => block[u].last = Null
      BY Zenon DEF IInv, Chain, Shape
    <3>2. u # p => block[u].next # o
      <4>1. u # p => pos[u] # pos[p]
        BY ZenonT(60), <1>2
      <4> QED  BY <1>2, <1>10, <3>1, <4>1
    <3>3. block[u].prev # o
      BY <1>2, <1>3, <1>10, <3>1, ThreadsAssumption
    <3>4. pos[u] > pos[g] => u # g /\ pos[u] > pos[f]
      BY <1>2, <1>10
    <3> QED  BY <1>2, <1>10, <3>1, <3>2, <3>3, <3>4
  <2> QED  BY ZenonT(60), <1>2, <1>3, <1>10, <2>1 DEF Shape
<1>12. \A u \in Threads : Queued(u)' <=> Queued(u)
  BY ZenonT(60), <1>6 DEF Queued, Published, Woken
<1>13. /\ Q \in [Threads -> SUBSET Threads] /\ Q[t] = {o} /\ P[t] = {}
       /\ \A s \in Threads : s # t => Q[s] = P[s]
  <2>1. P \in [Threads -> SUBSET Threads] /\ P[t] = {}
    BY Zenon, <1>1 DEF IInv, Chain, Members, Lists
  <2> QED  BY ZenonT(60), <1>2, <2>1
<1>14. Members(C \ {o}, Q)'
  <2>1. Members(C, P)
    BY Zenon DEF IInv, Chain
  <2> QED  BY <1>2, <1>12, <1>13, <2>1 DEF Members
<1>15. Lists(Q, pos)'
  <2>1. ASSUME NEW s \in Threads, s # t
        PROVE  /\ pc[s] = "wakeSignal" => wb[s] \in P[s] /\ wb[s] # t
               /\ \A u \in P[s] : u \in Threads /\ u # o /\ u # g
    <3>1. Members(C, P) /\ Lists(P, pos)
      BY Zenon DEF IInv, Chain
    <3> QED  BY <1>2, <2>1, <3>1 DEF Lists, ListPCs, Members
  <2>2. Lists(P, pos)
    BY ZenonT(60) DEF IInv, Chain
  <2> QED  BY <1>2, <1>6, <1>13, <2>1, <2>2 DEF Lists, ListPCs
<1>16. Walk(t, C \ {o}, pos, p, g)'
  <2>1. Walk(t, C, pos, o, f)
    BY Zenon, <1>1, WakerFacts
  <2> QED  BY <1>1, <1>2, <1>3, <1>6, <1>10, <2>1 DEF Walk, WalkPCs, WakePCs
<1>17. Walks(C \ {o}, pos, p, g)'
  <2>1. \A u \in Threads : u # t => pc[u] \notin WakingPCs
    BY ZenonT(60), <1>1, WakerFacts
  <2> QED  BY Zenon, <1>1, <1>6, <1>16, <2>1 DEF Walks
<1>18. Releases(C \ {o}, p)'
  BY ZenonT(60), <1>2, <1>6 DEF IInv, Chain, Releases, Release
<1>19. Owners(p)'
  <2>1. Sharers' = Sharers
    BY Zenon DEF Sharers
  <2> QED  BY <1>1, <1>2, <1>6, <2>1 DEF IInv, Chain, Owners
<1> QED
  BY ZenonT(60), <1>2, <1>7, <1>8, <1>9, <1>11, <1>14, <1>15, <1>17, <1>18, <1>19 DEF IInv, Chain

(* The whole chain is taken off a lock that nobody owns.                   *)
LEMMA TakeAll ==
    ASSUME Counted,
           NEW C, NEW P, NEW pos, NEW o, NEW f, IInv(C, P, pos, o, f), NEW t \in Threads,
           pc[t] = "wakeTake", top[t] = word, word' \in Words,
           ~word'.waiting, ~word'.waking, ~word'.lock, ~word'.multi, word'.rest = 0,
           pc' = [pc EXCEPT ![t] = "wakeClear"],
           NEW Q, Q = [P EXCEPT ![t] = C],
           UNCHANGED <<block, top, held, mode, old, wb, acquires>>
    PROVE  IInv({}, Q, pos, o, f)'
<1>1. pc[t] \in WakingPCs /\ pc[t] \in WakePCs /\ pc[t] \notin ListPCs
  BY Zenon DEF WakingPCs, WakePCs, ListPCs
<1>2. /\ word.waiting /\ ~word.multi /\ ~word.lock
      /\ C \subseteq Threads /\ pos \in [Threads -> Int]
      /\ o \in C /\ word.rest \in C /\ wb[t] = o
      /\ \A u \in C : pos[u] < pos[word.rest] => block[u].prev # Null
      /\ \A u \in C : pos[o] <= pos[u] /\ pos[u] <= pos[word.rest]
      /\ \A u, v \in C : pos[u] = pos[v] => u = v
  <2>1. \A u, v \in C : pos[u] = pos[v] => u = v
    BY Zenon DEF IInv, Chain, Shape
  <2>2. Walk(t, C, pos, o, f)
    BY Zenon, <1>1, WakerFacts
  <2> QED  BY ZenonT(60), <1>1, <2>1, <2>2, WakerFacts DEF Walk
<1>4. pc'[t] = "wakeClear" /\ pc' \in [Threads -> PCs] /\ \A u \in Threads : u # t => pc'[u] = pc[u]
  BY Zenon DEF IInv, TypeOK, PCs
<1>5. TypeOK'
  <2>1. 0 \notin Threads
    BY ThreadsAssumption
  <2> QED  BY Zenon, <1>4, <2>1 DEF IInv, TypeOK
<1>6. Frames'
  <2>1. Frames /\ held[t] = "none"
    BY Zenon, <1>1, WakerFacts DEF IInv
  <2> QED  BY <1>4, <2>1 DEF Frames, InCall, OutOfCall, Holding
<1>7. \A u \in Threads : pc'[u] \notin WakingPCs
  BY Zenon, <1>1, <1>4, WakerFacts DEF WakingPCs
<1>8. OneWaker'
  BY Zenon, <1>7 DEF OneWaker
<1>9. Shape({}, pos, o, f)'
  BY Zenon DEF Shape
<1>10. \A u \in Threads : Queued(u)' <=> Queued(u)
  BY ZenonT(60), <1>4 DEF Queued, Published, Woken
<1>11. /\ Q \in [Threads -> SUBSET Threads] /\ Q[t] = C /\ P[t] = {}
       /\ \A s \in Threads : s # t => Q[s] = P[s]
  <2>1. P \in [Threads -> SUBSET Threads] /\ P[t] = {}
    BY Zenon, <1>1 DEF IInv, Chain, Members, Lists
  <2> QED  BY Zenon, <1>2, <2>1
<1>12. Members({}, Q)'
  <2>1. Members(C, P)
    BY ZenonT(60) DEF IInv, Chain
  <2> QED  BY <1>2, <1>10, <1>11, <2>1 DEF Members
<1>13. Lists(Q, pos)'
  <2>1. ASSUME NEW s \in Threads, s # t
        PROVE  pc[s] = "wakeSignal" => wb[s] # t
    BY Zenon DEF IInv, Chain, Lists
  <2>2. ASSUME NEW u \in C
        PROVE  /\ block[u].prev # Null => block[u].prev \in C /\ pos[block[u].prev] = pos[u] + 1
               /\ \A v \in C : pos[u] < pos[v] => block[u].prev # Null
    <3>1. ASSUME NEW v \in C, pos[u] < pos[v]
          PROVE  block[u].prev # Null
      <4>1. pos[u] < pos[word.rest]
        BY <1>2, <3>1
      <4> QED  BY ZenonT(60), <1>2, <4>1
    <3> QED  BY Zenon, <3>1 DEF IInv, Chain, Shape
  <2> QED  BY <1>2, <1>4, <1>11, <2>1, <2>2 DEF IInv, Chain, Lists, ListPCs
<1>14. Walks({}, pos, o, f)'
  BY Zenon, <1>7 DEF Walks
<1>15. \A u \in Threads : held[u] = "none" /\ pc[u] # "relsUnlock"
  BY Zenon, <1>2 DEF IInv, Chain, Owners
<1>16. Releases({}, o)'
  BY ZenonT(60), <1>4, <1>15 DEF IInv, Frames, Holding, Releases, Release
<1>17. Owners(o)'
  <2>1. Sharers' = {} /\ Cardinality({}) = 0
    BY Zenon, <1>15, NoneOrOne DEF Sharers
  <2> QED  BY ZenonT(60), <1>2, <1>4, <1>15, <2>1 DEF IInv, Chain, Owners
<1> QED
  BY ZenonT(60), <1>2, <1>5, <1>6, <1>8, <1>9, <1>12, <1>13, <1>14, <1>16, <1>17 DEF IInv, Chain

LEMMA WakeTakeStep ==
    ASSUME Counted, NEW C, NEW P, NEW pos, NEW o, NEW f, IInv(C, P, pos, o, f),
           NEW t \in Threads, WakeTake(t)
    PROVE  Inv'
<1> USE DEF WakeTake, Swap, Mismatch, SetTop, Goto
<1> DEFINE alone == block[wb[t]].excl /\ block[wb[t]].prev # Null
<1>1. /\ pc[t] = "wakeTake" /\ pc[t] \in WakingPCs /\ pc[t] \in WakePCs
      /\ UNCHANGED <<held, mode, old, wb, acquires>>
  BY ZenonT(60) DEF WakingPCs, WakePCs
<1>2. wb[t] = o
  BY <1>1, WakerFacts DEF Walk
<1>3. CASE alone
  <2>1. PICK p, g : p = block[o].prev /\ g = top[t].rest
    OBVIOUS
  <2>2. /\ p # Null /\ block' = [block EXCEPT ![g].last = p, ![o].prev = Null]
        /\ pc' = [pc EXCEPT ![t] = "wakeAnd"] /\ UNCHANGED <<word, top>>
    BY Zenon, <1>2, <1>3, <2>1
  <2> HIDE DEF WakeTake, Swap, Mismatch, SetTop, Goto
  <2>3. PICK Q : Q = [P EXCEPT ![t] = {o}]
    BY Zenon
  <2>4. /\ block \in [Threads -> Blocks] /\ o \in Threads /\ g \in Threads /\ g # o
        /\ p \in Threads \cup {Null}
    <3>1. pos[g] <= pos[o] => block[o].prev = Null
      <4>1. Walk(t, C, pos, o, f) /\ o \in C
        BY Zenon, <1>1, WakerFacts
      <4> QED  BY Zenon, <2>1, <4>1 DEF Walk
    <3>2. o \in Threads /\ g \in Threads /\ block \in [Threads -> Blocks] /\ pos \in [Threads -> Int]
      BY Zenon, <1>1, <2>1, WakerFacts DEF Walk
    <3>3. p \in Threads \cup {Null}
      BY Zenon, <2>1, <3>2 DEF Blocks
    <3> QED  BY <2>1, <2>2, <3>1, <3>2, <3>3
  <2>5. \A u \in Threads : block'[u] = IF u = g THEN [block[g] EXCEPT !.last = p]
                                       ELSE IF u = o THEN [block[o] EXCEPT !.prev = Null]
                                       ELSE block[u]
    BY Zenon, <2>2, <2>4
  <2>6. block' \in [Threads -> Blocks]
    <3>1. [block[g] EXCEPT !.last = p] \in Blocks /\ [block[o] EXCEPT !.prev = Null] \in Blocks
      BY Zenon, <2>4, BlockFields
    <3> QED  BY Zenon, <2>2, <2>4, <2>5, <3>1
  <2>7. /\ block'[g].last = p /\ block'[o].prev = Null
        /\ \A u \in Threads : u # g => block'[u].last = block[u].last
        /\ \A u \in Threads : u # o => block'[u].prev = block[u].prev
        /\ \A u \in Threads : /\ block'[u].next = block[u].next /\ block'[u].excl = block[u].excl
                              /\ block'[u].share = block[u].share
                              /\ block'[u].spin = block[u].spin /\ block'[u].gate = block[u].gate
    <3>1. \A u \in Threads : block[u] \in Blocks
      BY Zenon, <2>4
    <3>2. block'[g] = [block[g] EXCEPT !.last = p] /\ block'[o] = [block[o] EXCEPT !.prev = Null]
          /\ \A u \in Threads : u # g /\ u # o => block'[u] = block[u]
      BY Zenon, <2>4, <2>5
    <3> QED  BY <2>4, <3>1, <3>2 DEF Blocks
  <2>9. Unlinks(o, p, g)
    BY Zenon, <2>6, <2>7 DEF Unlinks
  <2>8. IInv(C \ {o}, Q, pos, p, g)'
    BY Zenon, <1>1, <2>1, <2>2, <2>3, <2>9, TakeOldest
  <2> QED  BY Zenon, <2>8 DEF Inv
<1>4. CASE ~alone /\ Swap(top[t], Free)
  <2>1. /\ top[t] = word /\ word' = Free /\ pc' = [pc EXCEPT ![t] = "wakeClear"]
        /\ UNCHANGED <<block, top>>
    BY Zenon, <1>4
  <2> HIDE DEF WakeTake, Swap, Mismatch, SetTop, Goto, alone
  <2>2. PICK Q : Q = [P EXCEPT ![t] = C]
    BY Zenon
  <2>3. /\ word' \in Words /\ ~word'.waiting /\ ~word'.waking /\ ~word'.lock /\ ~word'.multi
        /\ word'.rest = 0
    BY Zenon, <2>1, Constants DEF Free
  <2>4. IInv({}, Q, pos, o, f)'
    BY Zenon, <1>1, <2>1, <2>2, <2>3, TakeAll
  <2> QED  BY Zenon, <2>4 DEF Inv
<1>5. CASE ~alone /\ Mismatch(top[t])
  <2>1. /\ top' = [top EXCEPT ![t] = word] /\ pc' = [pc EXCEPT ![t] = "wakeTop"]
        /\ UNCHANGED <<word, block>>
    BY Zenon, <1>5
  <2> HIDE DEF WakeTake, Swap, Mismatch, SetTop, Goto, alone
  <2>2. IInv(C, P, pos, o, f)'
    BY Zenon, <1>1, <2>1, LookAgain
  <2> QED  BY ZenonT(60), <2>2 DEF Inv
<1> QED  BY Zenon, <1>3, <1>4, <1>5

(* The block that t is about to wake is taken off its list.                *)
Wakes(t, b, e) ==
    /\ e \in Blocks /\ block' = [block EXCEPT ![b] = e]
    /\ SameLinks(e, block[b]) /\ e.share = block[b].share
    /\ \/ pc[b] # "sleep" /\ ~e.spin /\ e.gate = block[b].gate
       \/ pc[b] = "sleep" /\ e.gate = "set" /\ e.spin = block[b].spin

LEMMA WakeOne ==
    ASSUME NEW C, NEW P, NEW pos, NEW o, NEW f, IInv(C, P, pos, o, f), NEW t \in Threads,
           pc[t] \in {"wakeClear", "wakeSignal"}, NEW b, b = wb[t], NEW e, Wakes(t, b, e),
           NEW l \in PCs, pc' = [pc EXCEPT ![t] = l],
           NEW w \in Words, top' = [top EXCEPT ![t] = w],
           NEW n \in Threads \cup {Null}, n = block[b].prev, wb' = [wb EXCEPT ![t] = n],
           n = Null => l = IF mode[t] = "none" THEN "idle" ELSE "gateInit",
           n # Null => l = "wakeClear",
           NEW Q, Q = [P EXCEPT ![t] = P[t] \ {b}],
           UNCHANGED <<word, held, mode, old, acquires>>
    PROVE  IInv(C, Q, pos, o, f)'
<1>1. pc[t] \in ListPCs /\ pc[t] \notin WakingPCs /\ pc[t] # "sleep"
  BY Zenon DEF WakingPCs, ListPCs
<1>2. /\ C \subseteq Threads /\ pos \in [Threads -> Int] /\ block \in [Threads -> Blocks]
      /\ P \in [Threads -> SUBSET Threads] /\ b \in P[t] /\ b \in Threads /\ b \notin C
      /\ Queued(b) /\ \A s \in Threads : s # t => b \notin P[s]
  <2>1. P \in [Threads -> SUBSET Threads] /\ b \in P[t]
    BY Zenon, <1>1 DEF IInv, Chain, Lists, Members
  <2> QED  BY Zenon, <2>1 DEF IInv, TypeOK, Chain, Members
<1>3. /\ block' \in [Threads -> Blocks] /\ block'[b] = e
      /\ \A u \in Threads : u # b => block'[u] = block[u]
      /\ \A u \in Threads : SameLinks(block'[u], block[u]) /\ block'[u].share = block[u].share
  BY Zenon, <1>2 DEF Wakes, SameLinks
<1>4. /\ pc'[t] = l /\ pc' \in [Threads -> PCs] /\ top'[t] = w /\ wb'[t] = n
      /\ \A u \in Threads : u # t => pc'[u] = pc[u] /\ top'[u] = top[u] /\ wb'[u] = wb[u]
  BY Zenon DEF IInv, TypeOK
<1>5. l \in {"idle", "gateInit", "wakeClear"} /\ (l = "wakeClear" <=> n # Null)
  OBVIOUS
<1>6. TypeOK'
  BY Zenon, <1>3, <1>4 DEF IInv, TypeOK
<1>7. held[t] = "none"
  BY Zenon DEF IInv, Frames, Holding
<1>8. /\ pc[b] = "sleep" => b # t /\ ~e.spin /\ e.gate = "set"
      /\ pc[b] = "park" => b # t /\ e.gate = "clear"
  BY ZenonT(60), <1>2 DEF IInv, Frames, Wakes
<1>9. Frames'
  <2>1. ASSUME NEW u \in Threads
        PROVE  /\ pc'[u] = "sleep" => ~block'[u].spin /\ block'[u].gate # "uninit"
               /\ pc'[u] = "park" => block'[u].gate = "clear"
    BY <1>3, <1>4, <1>5, <1>8 DEF IInv, Frames
  <2>2. Frames
    BY Zenon DEF IInv
  <2> QED  BY <1>4, <1>5, <1>7, <2>1, <2>2 DEF Frames, InCall, OutOfCall, Holding
<1>10. pc'[t] \notin WakingPCs
  BY Zenon, <1>4, <1>5 DEF WakingPCs
<1>11. OneWaker'
  BY ZenonT(60), <1>1, <1>4, <1>10 DEF IInv, OneWaker
<1>12. Shape(C, pos, o, f)'
  <2>1. \A u \in C : u \in Threads /\ SameLinks(block'[u], block[u])
    BY Zenon, <1>2, <1>3
  <2> QED  BY <2>1 DEF IInv, Chain, Shape, SameLinks
<1>13. ~Queued(b)'
  <2>1. CASE pc[b] = "sleep"
    BY Zenon, <1>3, <1>4, <1>8, <2>1 DEF Queued, Published, Woken
  <2>2. CASE pc[b] # "sleep"
    <3>1. ~block'[b].spin /\ pc'[b] # "sleep"
      BY Zenon, <1>2, <1>3, <1>4, <1>5, <2>2 DEF Wakes
    <3> QED  BY Zenon, <3>1 DEF Queued, Published, Woken
  <2> QED  BY Zenon, <2>1, <2>2
<1>14. \A u \in Threads : u # b => (Queued(u)' <=> Queued(u))
  <2>1. ASSUME NEW u \in Threads, u # b
        PROVE  Queued(u)' <=> Queued(u)
    <3>1. CASE u = t
      BY Zenon, <1>1, <1>3, <1>4, <1>5, <2>1, <3>1 DEF Queued, Published, Woken, ListPCs
    <3>2. CASE u # t
      BY Zenon, <1>3, <1>4, <2>1, <3>2 DEF Queued, Published, Woken
    <3> QED  BY Zenon, <3>1, <3>2
  <2> QED  BY Zenon, <2>1
<1>15. /\ Q \in [Threads -> SUBSET Threads] /\ Q[t] = P[t] \ {b}
       /\ \A s \in Threads : s # t => Q[s] = P[s]
  BY Zenon, <1>2
<1>16. Members(C, Q)'
  BY <1>2, <1>13, <1>14, <1>15 DEF IInv, Chain, Members
<1>17. Lists(Q, pos)'
  <2>1. ASSUME NEW s \in Threads, s # t
        PROVE  /\ pc[s] = "wakeSignal" => wb[s] \in P[s] /\ wb[s] # t /\ wb[s] # b
               /\ \A u \in P[s] : u \in Threads /\ u # b /\ block'[u] = block[u]
    <3>1. pc[s] = "wakeSignal" => wb[s] \in P[s] /\ pc[wb[s]] = "sleep"
      BY Zenon DEF IInv, Chain, Lists, ListPCs
    <3>2. \A u \in P[s] : u \in Threads /\ u # b
      BY Zenon, <1>2, <2>1
    <3> QED  BY Zenon, <1>1, <1>3, <3>1, <3>2
  <2>2. ASSUME NEW u \in P[t]
        PROVE  /\ u \in Threads /\ pos[b] <= pos[u] /\ pos[u] \in Int
               /\ block'[u].prev = block[u].prev
               /\ block[u].prev # Null => block[u].prev \in P[t] /\ pos[block[u].prev] = pos[u] + 1
               /\ \A v \in P[t] : pos[u] < pos[v] => block[u].prev # Null
               /\ \A v \in P[t] : pos[u] = pos[v] => u = v
    BY ZenonT(60), <1>2, <1>3 DEF IInv, Chain, Lists, SameLinks
  <2>3. ASSUME n = Null
        PROVE  Q[t] = {}
    <3>1. ASSUME NEW v \in P[t]
          PROVE  v = b
      <4>1. ~(pos[b] < pos[v]) /\ pos[b] <= pos[v] /\ pos[b] \in Int /\ pos[v] \in Int
        BY ZenonT(60), <1>2, <2>2, <2>3
      <4>2. pos[b] = pos[v]
        BY <4>1
      <4> QED  BY Zenon, <1>2, <2>2, <4>2
    <3> QED  BY Zenon, <1>15, <3>1
  <2>4. ASSUME n # Null
        PROVE  /\ n \in P[t] \ {b} /\ \A u \in P[t] \ {b} : pos[n] <= pos[u]
    <3>1. n \in P[t] /\ pos[n] = pos[b] + 1 /\ pos[b] \in Int
      BY ZenonT(60), <1>2, <2>2, <2>4
    <3>2. ASSUME NEW u \in P[t] \ {b}
          PROVE  pos[n] <= pos[u]
      <4>1. pos[b] <= pos[u] /\ pos[b] # pos[u] /\ pos[u] \in Int
        BY Zenon, <1>2, <2>2
      <4> QED  BY <3>1, <4>1
    <3>3. n # b
      BY <3>1
    <3> QED  BY Zenon, <3>1, <3>2, <3>3
  <2>5. ASSUME NEW u \in P[t] \ {b}
        PROVE  block[u].prev # b
    <3>1. pos[b] <= pos[u] /\ pos[u] \in Int /\ pos[b] \in Int
      BY Zenon, <1>2, <2>2
    <3>2. block[u].prev # Null => pos[block[u].prev] = pos[u] + 1
      BY Zenon, <2>2
    <3> QED  BY <1>2, <3>1, <3>2, ThreadsAssumption
  <2>6. /\ pc'[t] \in ListPCs <=> Q[t] # {}
        /\ pc'[t] \in ListPCs => wb'[t] \in Q[t]
        /\ pc'[t] # "wakeSignal"
    BY ZenonT(60), <1>4, <1>5, <1>15, <2>3, <2>4 DEF ListPCs
  <2>7. ASSUME NEW u \in Q[t]
        PROVE  /\ pos[wb'[t]] <= pos[u]
               /\ block'[u].prev # Null => block'[u].prev \in Q[t] /\ pos[block'[u].prev] = pos[u] + 1
               /\ \A v \in Q[t] : pos[u] < pos[v] => block'[u].prev # Null
               /\ \A v \in Q[t] : pos[u] = pos[v] => u = v
    BY <1>4, <1>15, <2>2, <2>3, <2>4, <2>5
  <2>8. ASSUME NEW s \in Threads, s # t
        PROVE  /\ pc'[s] \in ListPCs <=> Q[s] # {}
               /\ pc'[s] \in ListPCs => wb'[s] \in Q[s]
               /\ \A u \in Q[s] :
                     /\ pos[wb'[s]] <= pos[u]
                     /\ block'[u].prev # Null => block'[u].prev \in Q[s] /\ pos[block'[u].prev] = pos[u] + 1
                     /\ \A v \in Q[s] : pos[u] < pos[v] => block'[u].prev # Null
                     /\ \A v \in Q[s] : pos[u] = pos[v] => u = v
               /\ pc'[s] = "wakeSignal" => /\ pc'[wb'[s]] = "sleep" /\ block'[wb'[s]].gate = "clear"
                                           /\ top'[s].rest = block'[wb'[s]].prev
    <3>1. pc'[s] = pc[s] /\ top'[s] = top[s] /\ wb'[s] = wb[s] /\ Q[s] = P[s]
      BY Zenon, <1>4, <1>15, <2>8
    <3>2. pc[s] = "wakeSignal" => pc'[wb[s]] = pc[wb[s]] /\ block'[wb[s]] = block[wb[s]]
      BY Zenon, <1>2, <1>4, <2>1, <2>8
    <3>3. \A u \in P[s] : block'[u].prev = block[u].prev
      BY Zenon, <1>4, <2>1, <2>8
    <3>4. /\ pc[s] \in ListPCs <=> P[s] # {}
          /\ pc[s] \in ListPCs => wb[s] \in P[s]
          /\ \A u \in P[s] :
                /\ pos[wb[s]] <= pos[u]
                /\ block[u].prev # Null => block[u].prev \in P[s] /\ pos[block[u].prev] = pos[u] + 1
                /\ \A v \in P[s] : pos[u] < pos[v] => block[u].prev # Null
                /\ \A v \in P[s] : pos[u] = pos[v] => u = v
          /\ pc[s] = "wakeSignal" => /\ pc[wb[s]] = "sleep" /\ block[wb[s]].gate = "clear"
                                     /\ top[s].rest = block[wb[s]].prev
      BY Zenon DEF IInv, Chain, Lists
    <3>5. ASSUME NEW u \in Q[s]
          PROVE  /\ pos[wb'[s]] <= pos[u]
                 /\ block'[u].prev # Null => block'[u].prev \in Q[s] /\ pos[block'[u].prev] = pos[u] + 1
                 /\ \A v \in Q[s] : pos[u] < pos[v] => block'[u].prev # Null
                 /\ \A v \in Q[s] : pos[u] = pos[v] => u = v
      <4>1. u \in P[s] /\ block'[u].prev = block[u].prev /\ wb'[s] = wb[s] /\ Q[s] = P[s]
        BY Zenon, <3>1, <3>3
      <4>2. /\ pos[wb[s]] <= pos[u]
            /\ block[u].prev # Null => block[u].prev \in P[s] /\ pos[block[u].prev] = pos[u] + 1
            /\ \A v \in P[s] : pos[u] < pos[v] => block[u].prev # Null
            /\ \A v \in P[s] : pos[u] = pos[v] => u = v
        BY Zenon, <3>4, <4>1
      <4> QED  BY Zenon, <4>1, <4>2
    <3>6. pc'[s] = "wakeSignal" => /\ pc'[wb'[s]] = "sleep" /\ block'[wb'[s]].gate = "clear"
                                   /\ top'[s].rest = block'[wb'[s]].prev
      BY ZenonT(30), <3>1, <3>2, <3>4
    <3> QED  BY ZenonT(30), <3>1, <3>4, <3>5, <3>6
  <2> QED  BY ZenonT(60), <2>6, <2>7, <2>8 DEF Lists
<1>18. Walks(C, pos, o, f)'
  <2>1. ASSUME NEW u \in Threads, pc'[u] \in WakingPCs
        PROVE  Walk(u, C, pos, o, f)'
    <3>1. u # t /\ pc'[u] = pc[u] /\ top'[u] = top[u] /\ wb'[u] = wb[u] /\ Walk(u, C, pos, o, f)
      BY Zenon, <1>4, <1>10, <2>1 DEF IInv, Chain, Walks
    <3>2. \A v \in C : block'[v].prev = block[v].prev
      BY Zenon, <1>2, <1>3 DEF SameLinks
    <3> QED  BY ZenonT(60), <3>1, <3>2 DEF Walk
  <2> QED  BY Zenon, <2>1 DEF Walks
<1>19. Releases(C, o)'
  BY ZenonT(60), <1>4, <1>5 DEF IInv, Chain, Releases, Release
<1>20. Owners(o)'
  <2>1. Sharers' = Sharers
    BY Zenon DEF Sharers
  <2>2. word.multi => o \in Threads
    BY Zenon, <1>2 DEF IInv, Chain, Shape
  <2>3. \A u \in Threads : /\ block'[u].share = block[u].share
                           /\ pc'[u] = "relsUnlock" => pc[u] = "relsUnlock"
    BY Zenon, <1>3, <1>4, <1>5
  <2> QED  BY ZenonT(60), <2>1, <2>2, <2>3 DEF IInv, Chain, Owners
<1> QED
  BY ZenonT(60), <1>2, <1>6, <1>9, <1>11, <1>12, <1>16, <1>17, <1>18, <1>19, <1>20 DEF IInv, Chain

LEMMA WakeClearStep ==
    ASSUME Counted, NEW C, NEW P, NEW pos, NEW o, NEW f, IInv(C, P, pos, o, f),
           NEW t \in Threads, WakeClear(t)
    PROVE  Inv'
<1> USE DEF WakeClear, WakeReturn, SetTop, SetWb, Goto
<1>1. PICK b, n, e, Q : /\ b = wb[t] /\ n = block[b].prev /\ e = [block[b] EXCEPT !.spin = FALSE]
                        /\ Q = [P EXCEPT ![t] = P[t] \ {b}]
  BY Zenon
<1>2. /\ pc[t] = "wakeClear" /\ UNCHANGED <<word, held, mode, old, acquires>>
      /\ block \in [Threads -> Blocks] /\ top[t] \in Words
  BY Zenon DEF IInv, TypeOK
<1>3. b \in P[t] /\ b \in Threads /\ Queued(b) /\ b \notin C
  BY Zenon, <1>1, <1>2 DEF IInv, Chain, Lists, ListPCs, Members
<1>4. n \in Threads \cup {Null} /\ block[b] \in Blocks
  BY Zenon, <1>1, <1>2, <1>3 DEF Blocks
<1>5. CASE block[b].spin
  <2>1. /\ block' = [block EXCEPT ![b].spin = FALSE]
        /\ \/ /\ n = Null /\ top' = [top EXCEPT ![t] = Free] /\ wb' = [wb EXCEPT ![t] = n]
              /\ pc' = [pc EXCEPT ![t] = IF mode[t] = "none" THEN "idle" ELSE "gateInit"]
           \/ /\ n # Null /\ wb' = [wb EXCEPT ![t] = n]
              /\ pc' = [pc EXCEPT ![t] = "wakeClear"] /\ top' = [top EXCEPT ![t] = top[t]]
    BY <1>1, <1>2, <1>5 DEF IInv, TypeOK
  <2> HIDE DEF WakeClear, WakeReturn, SetTop, SetWb, Goto
  <2>2. pc[b] # "sleep"
    BY Zenon, <1>3, <1>5 DEF IInv, Frames
  <2>3. e \in Blocks /\ block' = [block EXCEPT ![b] = e] /\ SameLinks(e, block[b])
        /\ e.share = block[b].share /\ ~e.spin /\ e.gate = block[b].gate
    BY ZenonT(60), <1>1, <1>2, <1>3, <1>4, <2>1, BlockFields DEF SameLinks, Blocks
  <2>4. Wakes(t, b, e)
    BY Zenon, <2>2, <2>3 DEF Wakes
  <2>5. "idle" \in PCs /\ "gateInit" \in PCs /\ "wakeClear" \in PCs
    BY Zenon DEF PCs
  <2>6. CASE n = Null
    <3>1. IInv(C, Q, pos, o, f)'
      BY ZenonT(60), <1>1, <1>2, <1>4, <2>1, <2>4, <2>5, <2>6, Constants, WakeOne
    <3> QED  BY Zenon, <3>1 DEF Inv
  <2>7. CASE n # Null
    <3>1. IInv(C, Q, pos, o, f)'
      BY ZenonT(60), <1>1, <1>2, <1>4, <2>1, <2>4, <2>5, <2>7, WakeOne
    <3> QED  BY <3>1 DEF Inv
  <2> QED  BY ZenonT(60), <2>6, <2>7
<1>6. CASE ~block[b].spin
  <2>1. /\ block' = block /\ wb' = wb /\ pc' = [pc EXCEPT ![t] = "wakeSignal"]
        /\ top' = [top EXCEPT ![t] = [Free EXCEPT !.rest = n]]
    BY Zenon, <1>1, <1>6
  <2> HIDE DEF WakeClear, WakeReturn, SetTop, SetWb, Goto
  <2>2. pc[b] = "sleep" /\ block[b].gate = "clear"
    <3>1. pc[b] = "sleep" /\ block[b].gate # "set"
      BY Zenon, <1>3, <1>6 DEF Queued, Woken
    <3>2. block[b].gate # "uninit" /\ block[b].gate \in {"uninit", "clear", "set"}
      BY Zenon, <1>3, <1>4, <3>1 DEF IInv, Frames, Blocks
    <3> QED  BY Zenon, <3>1, <3>2
  <2>3. [Free EXCEPT !.rest = n] \in Words /\ [Free EXCEPT !.rest = n].rest = n
    BY Zenon, <1>4, Constants DEF Words, Free
  <2>4. /\ pc'[t] = "wakeSignal" /\ pc' \in [Threads -> PCs] /\ top' \in [Threads -> Words]
        /\ top'[t].rest = n
        /\ \A u \in Threads : u # t => pc'[u] = pc[u] /\ top'[u] = top[u]
    BY Zenon, <2>1, <2>3 DEF IInv, TypeOK, PCs
  <2>5. TypeOK'
    BY Zenon, <1>2, <2>1, <2>4 DEF IInv, TypeOK
  <2>6. Frames'
    BY ZenonT(60), <1>2, <2>1, <2>4 DEF IInv, Frames, InCall, OutOfCall, Holding
  <2>7. OneWaker'
    BY Zenon, <1>2, <2>4 DEF IInv, OneWaker, WakingPCs
  <2>8. Shape(C, pos, o, f)'
    BY Zenon, <1>2, <2>1 DEF IInv, Chain, Shape
  <2>9. \A u \in Threads : Queued(u)' <=> Queued(u)
    BY Zenon, <1>2, <2>1, <2>4 DEF Queued, Published, Woken
  <2>10. Members(C, P)'
    BY ZenonT(60), <2>9 DEF IInv, Chain, Members
  <2>11. Lists(P, pos)'
    <3>1. b # t /\ pc'[b] = "sleep"
      BY Zenon, <1>2, <1>3, <2>2, <2>4
    <3>2. ASSUME NEW s \in Threads, s # t, pc[s] = "wakeSignal"
          PROVE  wb[s] # t
      BY Zenon, <1>2, <3>2 DEF IInv, Chain, Lists
    <3> QED  BY <1>1, <1>2, <2>1, <2>2, <2>4, <3>1, <3>2 DEF IInv, Chain, Lists, ListPCs
  <2>12. Walks(C, pos, o, f)'
    <3>1. ASSUME NEW u \in Threads, pc'[u] \in WakingPCs
          PROVE  Walk(u, C, pos, o, f)'
      <4>1. u # t /\ pc'[u] = pc[u] /\ top'[u] = top[u] /\ wb'[u] = wb[u] /\ Walk(u, C, pos, o, f)
        BY Zenon, <2>1, <2>4, <3>1 DEF IInv, Chain, Walks, WakingPCs
      <4> QED  BY Zenon, <1>2, <2>1, <4>1 DEF Walk
    <3> QED  BY Zenon, <3>1 DEF Walks
  <2>13. Releases(C, o)'
    BY ZenonT(60), <1>2, <2>1, <2>4 DEF IInv, Chain, Releases, Release
  <2>14. Owners(o)'
    <3>1. Sharers' = Sharers
      BY Zenon, <1>2 DEF Sharers
    <3> QED  BY <1>2, <2>1, <2>4, <3>1 DEF IInv, Chain, Owners
  <2>15. IInv(C, P, pos, o, f)'
    BY ZenonT(60), <2>5, <2>6, <2>7, <2>8, <2>10, <2>11, <2>12, <2>13, <2>14 DEF IInv, Chain
  <2> QED  BY <2>15 DEF Inv
<1> QED  BY Zenon, <1>5, <1>6

LEMMA WakeSignalStep ==
    ASSUME Counted, NEW C, NEW P, NEW pos, NEW o, NEW f, IInv(C, P, pos, o, f),
           NEW t \in Threads, WakeSignal(t)
    PROVE  Inv'
<1> USE DEF WakeSignal, WakeReturn, SetTop, SetWb, Goto
<1>1. PICK b, n, e, Q : /\ b = wb[t] /\ n = block[b].prev /\ e = [block[b] EXCEPT !.gate = "set"]
                        /\ Q = [P EXCEPT ![t] = P[t] \ {b}]
  BY Zenon
<1>2. /\ pc[t] = "wakeSignal" /\ UNCHANGED <<word, held, mode, old, acquires>>
      /\ block \in [Threads -> Blocks]
  BY Zenon DEF IInv, TypeOK
<1>3. b \in P[t] /\ b \in Threads /\ pc[b] = "sleep" /\ top[t].rest = n
  BY ZenonT(60), <1>1, <1>2 DEF IInv, Chain, Lists, ListPCs, Members
<1>4. n \in Threads \cup {Null} /\ block[b] \in Blocks
  BY ZenonT(60), <1>1, <1>2, <1>3 DEF Blocks
<1>5. /\ block' = [block EXCEPT ![b].gate = "set"] /\ top' = [top EXCEPT ![t] = Free]
      /\ wb' = [wb EXCEPT ![t] = n]
      /\ n = Null => pc' = [pc EXCEPT ![t] = IF mode[t] = "none" THEN "idle" ELSE "gateInit"]
      /\ n # Null => pc' = [pc EXCEPT ![t] = "wakeClear"]
  BY Zenon, <1>1, <1>3
<1> HIDE DEF WakeSignal, WakeReturn, SetTop, SetWb, Goto
<1>6. e \in Blocks /\ block' = [block EXCEPT ![b] = e] /\ SameLinks(e, block[b])
      /\ e.share = block[b].share /\ e.spin = block[b].spin /\ e.gate = "set"
  BY ZenonT(60), <1>1, <1>2, <1>3, <1>4, <1>5, BlockFields DEF SameLinks, Blocks
<1>7. Wakes(t, b, e)
  BY Zenon, <1>3, <1>6 DEF Wakes
<1>8. "idle" \in PCs /\ "gateInit" \in PCs /\ "wakeClear" \in PCs
  BY DEF PCs
<1>9. CASE n = Null
  <2>1. IInv(C, Q, pos, o, f)'
    BY ZenonT(60), <1>1, <1>2, <1>4, <1>5, <1>7, <1>8, <1>9, Constants, WakeOne
  <2> QED  BY <2>1 DEF Inv
<1>10. CASE n # Null
  <2>1. IInv(C, Q, pos, o, f)'
    BY ZenonT(60), <1>1, <1>2, <1>4, <1>5, <1>7, <1>8, <1>10, Constants, WakeOne
  <2> QED  BY <2>1 DEF Inv
<1> QED  BY <1>9, <1>10

-----------------------------------------------------------------------------
LEMMA StutterInv ==
    ASSUME NEW C, NEW P, NEW pos, NEW o, NEW f, IInv(C, P, pos, o, f), UNCHANGED vars
    PROVE  IInv(C, P, pos, o, f)'
<1> USE DEF vars, IInv, Chain
<1>1. TypeOK' /\ Frames' /\ OneWaker'
  BY Zenon DEF TypeOK, Frames, OneWaker
<1>2. Shape(C, pos, o, f)' /\ Lists(P, pos)'
  BY ZenonT(60) DEF Shape, Lists
<1>3. Members(C, P)'
  BY Zenon DEF Members, Queued, Published, Woken
<1>4. Walks(C, pos, o, f)' /\ Releases(C, o)'
  BY ZenonT(60) DEF Walks, Walk, Releases, Release
<1>5. Owners(o)'
  BY Zenon DEF Owners, Sharers
<1> QED  BY ZenonT(60), <1>1, <1>2, <1>3, <1>4, <1>5

LEMMA NextInv ==
    ASSUME Counted, Inv, [Next]_vars
    PROVE  Inv'
<1>1. PICK C, P, pos, o, f : IInv(C, P, pos, o, f)
  BY Zenon DEF Inv
<1>2. CASE UNCHANGED vars
  BY <1>1, <1>2, StutterInv DEF Inv
<1>3. ASSUME NEW t \in Threads, Reads(t) \/ Takes(t) \/ Waits(t) \/ Drops(t) \/ Unlocks(t)
      PROVE  Inv'
  BY <1>1, <1>3, ReadsStep, TakesStep, WaitsStep, DropsStep, UnlocksStep DEF Inv
<1>4. ASSUME NEW t \in Threads,
             ReleaseExclusive(t) \/ RelsCount(t) \/ Convert(t) \/ TryWakeSwap(t)
      PROVE  Inv'
  BY <1>1, <1>4, ReleaseExclusiveStep, RelsCountStep, ConvertStep, TryWakeSwapStep DEF Inv
<1>5. ASSUME NEW t \in Threads,
             OptTop(t) \/ OptSwap(t) \/ WakeTop(t) \/ WakeWalk(t) \/ WakeAnd(t)
      PROVE  Inv'
  BY <1>1, <1>5, OptTopStep, OptSwapStep, WakeTopStep, WakeWalkStep, WakeAndStep DEF Inv
<1>6. ASSUME NEW t \in Threads,
             AcqPush(t) \/ OptWalk(t) \/ WakeTake(t) \/ WakeClear(t) \/ WakeSignal(t)
      PROVE  Inv'
  BY ZenonT(60), <1>1, <1>6, AcqPushStep, OptWalkStep, WakeTakeStep, WakeClearStep, WakeSignalStep
<1>7. CASE Next
  <2>1. CASE UNCHANGED vars
    BY Zenon, <1>2, <2>1
  <2>2. ASSUME NEW t \in Threads, BeginCall(t) \/ OwnerCall(t) \/ Convert(t) \/ Continue(t)
        PROVE  Inv'
    BY Zenon, <1>3, <1>4, <1>5, <1>6, <2>2
       DEF BeginCall, OwnerCall, Continue, Reads, Takes, Waits, Drops, Unlocks
  <2> QED  BY Zenon, <1>7, <2>1, <2>2 DEF Next
<1> QED  BY Zenon, <1>2, <1>7
=============================================================================
