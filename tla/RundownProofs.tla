--------------------------- MODULE RundownProofs ---------------------------
(***************************************************************************)
(* Proofs about Rundown for any set of threads and any finite set of       *)
(* protections: the wait returns only when nothing is protected, no        *)
(* releaser touches a wait block whose frame has gone, and the interlocked *)
(* protocol implements RundownSpec.                                        *)
(***************************************************************************)
EXTENDS Rundown, FiniteSetTheorems, TLAPS

Acquiring == {"acqFast", "acqRead", "acqLoop"}
Dropping  == {"relFast", "relRead", "relLoop"}

(* Whose a protection is: calls in progress name disjoint sets, acquirers  *)
(* name protections not yet granted, releasers name granted ones.          *)
TokensInv ==
    /\ \A t, u \in Threads : t # u => toks[t] \cap toks[u] = {}
    /\ \A t \in Threads :
         /\ pc[t] \in Acquiring => toks[t] # {} /\ toks[t] \cap held = {}
         /\ pc[t] \in Dropping => toks[t] # {} /\ toks[t] \subseteq held
         /\ pc[t] \in {"idle", "relWake"} => toks[t] = {}

(* What the word holds in each phase of the teardown.                      *)
WordInv ==
    /\ waiter \in {"idle", "exf", "loop"} => runRef = Counted(Cardinality(held))
    /\ waiter = "wait" => runRef = WaitBlockWord
    /\ waiter = "returned" => runRef \in {RundownActive, WaitBlockWord}
    /\ waiter = "completed" => runRef = RundownActive
    /\ Down => held = {}

(* The teardown thread's slow path: the word it saw is a count, its event  *)
(* is not set, and once it waits the wait block counts the protections     *)
(* still outstanding.                                                      *)
BlockInv ==
    /\ waiter = "loop" => /\ waitValue = Counted(waitValue.rest)
                          /\ waitValue.rest \in Nat
                          /\ wakeEvent # "set"
    /\ waiter = "wait" => /\ waitCount = Cardinality(held)
                          /\ wakeEvent # "uninit"

(* The wake-up: there is exactly one from the moment the count reaches     *)
(* zero, either a releaser about to set the event or the event set.        *)
WakeInv ==
    /\ \A t \in Threads : pc[t] = "relWake" => waiter = "wait" /\ wakeEvent = "clear"
    /\ \A t, u \in Threads : pc[t] = "relWake" /\ pc[u] = "relWake" => t = u
    /\ waiter = "wait" =>
         (held = {} <=> (wakeEvent = "set" \/ \E t \in Threads : pc[t] = "relWake"))

(* What a thread in the middle of a call may conclude from its sample.     *)
SampleInv ==
    \A t \in Threads :
        /\ pc[t] \in {"acqFast", "relFast"} => ~value[t].active
        /\ pc[t] = "relLoop" /\ value[t].active => waiter = "wait"

(* The inductive invariant.                                                *)
IInv == TypeOK /\ TokensInv /\ WordInv /\ BlockInv /\ WakeInv /\ SampleInv

-----------------------------------------------------------------------------
(* The number of granted protections is a natural number, zero only when   *)
(* there is none; it grows by the size of a disjoint set that joins and    *)
(* shrinks by the size of a subset that leaves.                            *)
LEMMA TokenCount ==
    ASSUME NEW H \in SUBSET Tokens, NEW S \in SUBSET Tokens
    PROVE  /\ Cardinality(H) \in Nat
           /\ Cardinality(S) \in Nat
           /\ Cardinality(H) = 0 <=> H = {}
           /\ S \cap H = {} => Cardinality(H \cup S) = Cardinality(H) + Cardinality(S)
           /\ S \subseteq H => /\ Cardinality(H \ S) = Cardinality(H) - Cardinality(S)
                               /\ Cardinality(S) <= Cardinality(H)
<1>1. IsFiniteSet(H) /\ IsFiniteSet(S)
  BY TokensFinite, FS_Subset
<1>2. Cardinality(H) \in Nat /\ Cardinality(S) \in Nat
  BY <1>1, FS_CardinalityType
<1>3. Cardinality(H) = 0 <=> H = {}
  BY <1>1, FS_EmptySet
<1>4. ASSUME S \cap H = {}
      PROVE  Cardinality(H \cup S) = Cardinality(H) + Cardinality(S)
  <2>1. H \cap S = {}
    BY <1>4
  <2>2. Cardinality(H \cap S) = 0
    BY <2>1, FS_EmptySet
  <2>3. Cardinality(H \cup S) = Cardinality(H) + Cardinality(S) - Cardinality(H \cap S)
    BY <1>1, FS_Union
  <2> QED  BY <1>2, <2>2, <2>3
<1>5. ASSUME S \subseteq H
      PROVE  /\ Cardinality(H \ S) = Cardinality(H) - Cardinality(S)
             /\ Cardinality(S) <= Cardinality(H)
  <2>1. H \cap S = S
    BY <1>5
  <2>2. Cardinality(H \ S) = Cardinality(H) - Cardinality(H \cap S)
    BY <1>1, FS_Difference
  <2>3. Cardinality(S) <= Cardinality(H)
    BY <1>1, <1>5, FS_Subset
  <2> QED  BY <2>1, <2>2, <2>3
<1> QED  BY <1>2, <1>3, <1>4, <1>5

(* Masking the active bit off a word, or adding a number of protections to *)
(* it, gives a word.                                                       *)
LEMMA WordOps ==
    ASSUME NEW v \in Words, NEW n \in Int
    PROVE  /\ Masked(v) \in Words /\ ~Masked(v).active
           /\ Add(v, n) \in Words
  BY DEF Masked, Add, Words

(* The types of what a call works with.                                    *)
LEMMA CallTypes ==
    ASSUME TypeOK, NEW t \in Threads
    PROVE  /\ held \in SUBSET Tokens
           /\ toks[t] \in SUBSET Tokens
           /\ Cardinality(toks[t]) \in Nat
           /\ Add(value[t], Cardinality(toks[t])) \in Words
           /\ Add(value[t], -Cardinality(toks[t])) \in Words
<1>1. toks[t] \in SUBSET Tokens /\ held \in SUBSET Tokens /\ value[t] \in Words
  BY DEF TypeOK
<1>2. Cardinality(toks[t]) \in Nat
  BY Zenon, <1>1, TokenCount
<1>3. Cardinality(toks[t]) \in Int /\ -Cardinality(toks[t]) \in Int
  BY <1>2
<1> QED
  BY <1>1, <1>2, <1>3, WordOps

(* The words of the protocol are different from each other, and the number *)
(* of granted protections can be read off a count.                         *)
LEMMA WordCases ==
    ASSUME TypeOK
    PROVE  /\ Cardinality(held) \in Nat
           /\ Counted(Cardinality(held)) = Zero <=> held = {}
           /\ \A n \in Int : Counted(n) # RundownActive /\ Counted(n) # WaitBlockWord
           /\ Zero \in Words /\ RundownActive \in Words /\ WaitBlockWord \in Words
           /\ WaitBlockWord # RundownActive
<1>1. held \in SUBSET Tokens
  BY DEF TypeOK
<1>2. /\ Cardinality(held) \in Nat
      /\ Cardinality(held) = 0 <=> held = {}
  BY Zenon, <1>1, TokenCount
<1>3. Counted(Cardinality(held)) = Zero <=> held = {}
  <2>1. ASSUME Counted(Cardinality(held)) = Zero PROVE Cardinality(held) = 0
    <3>1. Counted(Cardinality(held)).rest = Zero.rest
      BY <2>1
    <3> QED
      BY <3>1 DEF Counted, Zero
  <2>2. ASSUME Cardinality(held) = 0 PROVE Counted(Cardinality(held)) = Zero
    BY <2>2 DEF Zero
  <2> QED
    BY <1>2, <2>1, <2>2
<1>4. ASSUME NEW n \in Int PROVE Counted(n) # RundownActive /\ Counted(n) # WaitBlockWord
  <2>1. Counted(n).active = FALSE /\ RundownActive.active = TRUE /\ WaitBlockWord.active = TRUE
    BY DEF Counted, RundownActive, WaitBlockWord
  <2> QED
    BY <2>1
<1>5. Zero \in Words /\ RundownActive \in Words /\ WaitBlockWord \in Words
  BY DEF Counted, Zero, RundownActive, WaitBlockWord, WaitBlockAddress, Words
<1>6. WaitBlockWord # RundownActive
  <2>1. WaitBlockWord.rest = -1000 /\ RundownActive.rest = 0
    BY DEF RundownActive, WaitBlockWord, WaitBlockAddress
  <2> QED
    BY <2>1
<1> QED
  BY <1>2, <1>3, <1>4, <1>5, <1>6

(* The initial word, a count of zero with nobody in a call, satisfies the  *)
(* inductive invariant.                                                    *)
LEMMA InitIInv == Init => IInv
<1> SUFFICES ASSUME Init PROVE IInv
  OBVIOUS
<1>1. Cardinality({}) = 0
  BY FS_EmptySet
<1>2. TypeOK
  BY DEF Init, TypeOK, Words, Zero, Counted, PCs, Waiters
<1>3. TokensInv
  BY DEF Init, TokensInv, Acquiring, Dropping
<1>4. WordInv
  BY <1>1 DEF Init, WordInv, Zero, Down
<1>5. BlockInv /\ WakeInv /\ SampleInv
  BY DEF Init, BlockInv, WakeInv, SampleInv
<1> QED
  BY <1>2, <1>3, <1>4, <1>5 DEF IInv

(* The first read of the inline acquire preserves the inductive invariant. *)
LEMMA AcquireInlineIInv ==
    ASSUME IInv, NEW t \in Threads, NEW k \in Tokens, AcquireInline(t, k)
    PROVE  IInv'
<1> USE DEF AcquireInline, IInv, shared, block, owner, InUse, Goto, Sample
<1>1. TypeOK'
  BY TokenCount, WordOps DEF TypeOK, PCs, Words
<1>2. TokensInv'
  BY DEF TypeOK, TokensInv, Acquiring, Dropping
<1>3. WordInv'
  BY TokenCount DEF TypeOK, TokensInv, WordInv, SampleInv, Acquiring, Dropping,
     Add, Counted, RundownActive, WaitBlockWord, Down
<1>4. BlockInv'
  BY TokenCount DEF TypeOK, TokensInv, WordInv, BlockInv, WakeInv, SampleInv,
     Acquiring, Dropping, Add, Counted, RundownActive, WaitBlockWord, Down
<1>5. WakeInv'
  BY TokenCount DEF TypeOK, TokensInv, WordInv, BlockInv, WakeInv, SampleInv,
     Acquiring, Dropping, Add, Counted, RundownActive, WaitBlockWord, Down
<1>6. SampleInv'
  BY DEF Masked, TypeOK, Waiters, TokensInv, WordInv, SampleInv, Acquiring,
     Dropping, Add, Counted, RundownActive, WaitBlockWord, Down
<1> QED
  BY <1>1, <1>2, <1>3, <1>4, <1>5, <1>6 DEF IInv

(* The inline acquire's compare-exchange preserves the inductive invariant.*)
LEMMA AcquireInlineCASIInv ==
    ASSUME IInv, NEW t \in Threads, AcquireInlineCAS(t)
    PROVE  IInv'
<1> USE DEF AcquireInlineCAS, IInv, shared, block, owner, Goto, Return
<1>1. TypeOK'
  BY CallTypes DEF TypeOK, PCs
<1>2. TokensInv'
  BY DEF TypeOK, TokensInv, Acquiring, Dropping
<1>3. WordInv'
  BY TokenCount DEF TypeOK, TokensInv, WordInv, SampleInv, Acquiring, Dropping,
     Add, Counted, RundownActive, WaitBlockWord, Down
<1>4. BlockInv'
  BY TokenCount DEF TypeOK, TokensInv, WordInv, BlockInv, WakeInv, SampleInv,
     Acquiring, Dropping, Add, Counted, RundownActive, WaitBlockWord, Down
<1>5. WakeInv'
  BY TokenCount DEF TypeOK, TokensInv, WordInv, BlockInv, WakeInv, SampleInv,
     Acquiring, Dropping, Add, Counted, RundownActive, WaitBlockWord, Down
<1>6. SampleInv'
  BY WordOps DEF TypeOK, Waiters, TokensInv, WordInv, SampleInv, Acquiring,
     Dropping, Add, Counted, RundownActive, WaitBlockWord, Down
<1> QED
  BY <1>1, <1>2, <1>3, <1>4, <1>5, <1>6 DEF IInv

(* Entering the acquire with a Count preserves the inductive invariant.    *)
LEMMA AcquireExIInv ==
    ASSUME IInv, NEW t \in Threads, NEW S \in (SUBSET Tokens) \ {{}}, AcquireEx(t, S)
    PROVE  IInv'
<1> USE DEF AcquireEx, IInv, shared, block, owner, InUse, Goto
<1>1. TypeOK'
  BY TokenCount, WordOps DEF TypeOK, PCs, Words
<1>2. TokensInv'
  BY DEF TypeOK, TokensInv, Acquiring, Dropping
<1>3. WordInv'
  BY TokenCount DEF TypeOK, TokensInv, WordInv, SampleInv, Acquiring, Dropping,
     Add, Counted, RundownActive, WaitBlockWord, Down
<1>4. BlockInv'
  BY TokenCount DEF TypeOK, TokensInv, WordInv, BlockInv, WakeInv, SampleInv,
     Acquiring, Dropping, Add, Counted, RundownActive, WaitBlockWord, Down
<1>5. WakeInv'
  BY TokenCount DEF TypeOK, TokensInv, WordInv, BlockInv, WakeInv, SampleInv,
     Acquiring, Dropping, Add, Counted, RundownActive, WaitBlockWord, Down
<1>6. SampleInv'
  BY WordOps DEF TypeOK, Waiters, TokensInv, WordInv, SampleInv, Acquiring,
     Dropping, Add, Counted, RundownActive, WaitBlockWord, Down
<1> QED
  BY <1>1, <1>2, <1>3, <1>4, <1>5, <1>6 DEF IInv

(* The out-of-line acquire's first read preserves the inductive invariant. *)
LEMMA AcquireReadIInv ==
    ASSUME IInv, NEW t \in Threads, AcquireRead(t)
    PROVE  IInv'
<1> USE DEF AcquireRead, IInv, shared, block, owner, Goto, Sample
<1>1. TypeOK'
  BY TokenCount, WordOps DEF TypeOK, PCs, Words
<1>2. TokensInv'
  BY DEF TypeOK, TokensInv, Acquiring, Dropping
<1>3. WordInv'
  BY TokenCount DEF TypeOK, TokensInv, WordInv, SampleInv, Acquiring, Dropping,
     Add, Counted, RundownActive, WaitBlockWord, Down
<1>4. BlockInv'
  BY TokenCount DEF TypeOK, TokensInv, WordInv, BlockInv, WakeInv, SampleInv,
     Acquiring, Dropping, Add, Counted, RundownActive, WaitBlockWord, Down
<1>5. WakeInv'
  BY TokenCount DEF TypeOK, TokensInv, WordInv, BlockInv, WakeInv, SampleInv,
     Acquiring, Dropping, Add, Counted, RundownActive, WaitBlockWord, Down
<1>6. SampleInv'
  BY WordOps DEF TypeOK, Waiters, TokensInv, WordInv, SampleInv, Acquiring,
     Dropping, Add, Counted, RundownActive, WaitBlockWord, Down
<1> QED
  BY <1>1, <1>2, <1>3, <1>4, <1>5, <1>6 DEF IInv

(* A turn of the out-of-line acquire's loop preserves the inductive invariant. *)
LEMMA AcquireLoopIInv ==
    ASSUME IInv, NEW t \in Threads, AcquireLoop(t)
    PROVE  IInv'
<1> USE DEF AcquireLoop, IInv, shared, block, owner, Goto, Return, Sample
<1>1. TypeOK'
  BY CallTypes DEF TypeOK, PCs
<1>2. TokensInv'
  BY DEF TypeOK, TokensInv, Acquiring, Dropping
<1>3. WordInv'
  BY TokenCount DEF TypeOK, TokensInv, WordInv, SampleInv, Acquiring, Dropping,
     Add, Counted, RundownActive, WaitBlockWord, Down
<1>4. BlockInv'
  BY TokenCount DEF TypeOK, TokensInv, WordInv, BlockInv, WakeInv, SampleInv,
     Acquiring, Dropping, Add, Counted, RundownActive, WaitBlockWord, Down
<1>5. WakeInv'
  BY TokenCount DEF TypeOK, TokensInv, WordInv, BlockInv, WakeInv, SampleInv,
     Acquiring, Dropping, Add, Counted, RundownActive, WaitBlockWord, Down
<1>6. SampleInv'
  BY WordOps DEF TypeOK, Waiters, TokensInv, WordInv, SampleInv, Acquiring,
     Dropping, Add, Counted, RundownActive, WaitBlockWord, Down
<1> QED
  BY <1>1, <1>2, <1>3, <1>4, <1>5, <1>6 DEF IInv

(* The first read of the inline release preserves the inductive invariant. *)
LEMMA ReleaseInlineIInv ==
    ASSUME IInv, NEW t \in Threads, NEW k \in Tokens, ReleaseInline(t, k)
    PROVE  IInv'
<1> USE DEF ReleaseInline, IInv, shared, block, owner, Releasing, Goto, Sample
<1>1. TypeOK'
  BY TokenCount, WordOps DEF TypeOK, PCs, Words
<1>2. TokensInv'
  BY DEF TypeOK, PCs, TokensInv, Acquiring, Dropping
<1>3. WordInv'
  BY TokenCount DEF TypeOK, TokensInv, WordInv, SampleInv, Acquiring, Dropping,
     Add, Counted, RundownActive, WaitBlockWord, Down
<1>4. BlockInv'
  BY TokenCount DEF TypeOK, TokensInv, WordInv, BlockInv, WakeInv, SampleInv,
     Acquiring, Dropping, Add, Counted, RundownActive, WaitBlockWord, Down
<1>5. WakeInv'
  BY TokenCount DEF TypeOK, TokensInv, WordInv, BlockInv, WakeInv, SampleInv,
     Acquiring, Dropping, Add, Counted, RundownActive, WaitBlockWord, Down
<1>6. SampleInv'
  BY DEF Masked, TypeOK, Waiters, TokensInv, WordInv, SampleInv, Acquiring,
     Dropping, Add, Counted, RundownActive, WaitBlockWord, Down
<1> QED
  BY <1>1, <1>2, <1>3, <1>4, <1>5, <1>6 DEF IInv

(* The inline release's compare-exchange preserves the inductive invariant.*)
LEMMA ReleaseInlineCASIInv ==
    ASSUME IInv, NEW t \in Threads, ReleaseInlineCAS(t)
    PROVE  IInv'
<1> USE DEF ReleaseInlineCAS, IInv, shared, block, owner, Goto, Return
<1>1. TypeOK'
  BY CallTypes DEF TypeOK, PCs
<1>2. TokensInv'
  BY DEF TypeOK, TokensInv, Acquiring, Dropping
<1>3. WordInv'
  BY TokenCount DEF TypeOK, TokensInv, WordInv, SampleInv, Acquiring, Dropping,
     Add, Counted, RundownActive, WaitBlockWord, Down
<1>4. BlockInv'
  BY TokenCount DEF TypeOK, TokensInv, WordInv, BlockInv, WakeInv, SampleInv,
     Acquiring, Dropping, Add, Counted, RundownActive, WaitBlockWord, Down
<1>5. WakeInv'
  BY TokenCount DEF TypeOK, TokensInv, WordInv, BlockInv, WakeInv, SampleInv,
     Acquiring, Dropping, Add, Counted, RundownActive, WaitBlockWord, Down
<1>6. SampleInv'
  BY WordOps DEF TypeOK, Waiters, TokensInv, WordInv, SampleInv, Acquiring,
     Dropping, Add, Counted, RundownActive, WaitBlockWord, Down
<1> QED
  BY <1>1, <1>2, <1>3, <1>4, <1>5, <1>6 DEF IInv

(* Entering the release with a Count preserves the inductive invariant.    *)
LEMMA ReleaseExIInv ==
    ASSUME IInv, NEW t \in Threads, NEW S \in (SUBSET Tokens) \ {{}}, ReleaseEx(t, S)
    PROVE  IInv'
<1> USE DEF ReleaseEx, IInv, shared, block, owner, Releasing, Goto
<1>1. TypeOK'
  BY TokenCount, WordOps DEF TypeOK, PCs, Words
<1>2. TokensInv'
  BY DEF TypeOK, PCs, TokensInv, Acquiring, Dropping
<1>3. WordInv'
  BY TokenCount DEF TypeOK, TokensInv, WordInv, SampleInv, Acquiring, Dropping,
     Add, Counted, RundownActive, WaitBlockWord, Down
<1>4. BlockInv'
  BY TokenCount DEF TypeOK, TokensInv, WordInv, BlockInv, WakeInv, SampleInv,
     Acquiring, Dropping, Add, Counted, RundownActive, WaitBlockWord, Down
<1>5. WakeInv'
  BY TokenCount DEF TypeOK, TokensInv, WordInv, BlockInv, WakeInv, SampleInv,
     Acquiring, Dropping, Add, Counted, RundownActive, WaitBlockWord, Down
<1>6. SampleInv'
  BY WordOps DEF TypeOK, Waiters, TokensInv, WordInv, SampleInv, Acquiring,
     Dropping, Add, Counted, RundownActive, WaitBlockWord, Down
<1> QED
  BY <1>1, <1>2, <1>3, <1>4, <1>5, <1>6 DEF IInv

(* The out-of-line release's first read preserves the inductive invariant. *)
LEMMA ReleaseReadIInv ==
    ASSUME IInv, NEW t \in Threads, ReleaseRead(t)
    PROVE  IInv'
<1> USE DEF ReleaseRead, IInv, shared, block, owner, Goto, Sample
<1>1. TypeOK'
  BY TokenCount, WordOps DEF TypeOK, PCs, Words
<1>2. TokensInv'
  BY DEF TypeOK, TokensInv, Acquiring, Dropping
<1>3. WordInv'
  BY TokenCount DEF TypeOK, TokensInv, WordInv, SampleInv, Acquiring, Dropping,
     Add, Counted, RundownActive, WaitBlockWord, Down
<1>4. BlockInv'
  BY TokenCount DEF TypeOK, TokensInv, WordInv, BlockInv, WakeInv, SampleInv,
     Acquiring, Dropping, Add, Counted, RundownActive, WaitBlockWord, Down
<1>5. WakeInv'
  BY TokenCount DEF TypeOK, TokensInv, WordInv, BlockInv, WakeInv, SampleInv,
     Acquiring, Dropping, Add, Counted, RundownActive, WaitBlockWord, Down
<1>6. SampleInv'
  BY WordOps DEF TypeOK, Waiters, TokensInv, WordInv, SampleInv, Acquiring,
     Dropping, Add, Counted, RundownActive, WaitBlockWord, Down
<1> QED
  BY <1>1, <1>2, <1>3, <1>4, <1>5, <1>6 DEF IInv

(* A release counted in the wait block preserves the inductive invariant.  *)
LEMMA ReleaseToWaitBlockIInv ==
    ASSUME IInv, NEW t \in Threads, ReleaseToWaitBlock(t)
    PROVE  IInv'
<1> USE DEF ReleaseToWaitBlock, IInv, shared, block, owner, Goto
<1> DEFINE n == Cardinality(toks[t])
<1>a. /\ waiter = "wait"
      /\ n \in Nat \ {0}
      /\ waitCount = Cardinality(held)
      /\ waitCount - n \in Nat
      /\ Cardinality(held \ toks[t]) = waitCount - n
      /\ held \ toks[t] = {} <=> waitCount = n
  <2>1. /\ toks[t] \in SUBSET Tokens /\ held \in SUBSET Tokens
        /\ toks[t] # {} /\ toks[t] \subseteq held
        /\ held \ toks[t] \in SUBSET Tokens
    BY DEF TypeOK, TokensInv, Dropping
  <2>2. waiter = "wait" /\ waitCount = Cardinality(held)
    BY DEF SampleInv, BlockInv
  <2> QED
    <3>1. Cardinality(held) \in Nat /\ n \in Nat /\ n # 0 /\ n <= Cardinality(held)
      BY Zenon, <2>1, TokenCount
    <3>2. Cardinality(held \ toks[t]) = Cardinality(held) - n
      BY <2>1, TokenCount
    <3>3. Cardinality(held \ toks[t]) = 0 <=> held \ toks[t] = {}
      BY Zenon, <2>1, TokenCount
    <3> QED
      BY <2>2, <3>1, <3>2, <3>3
<1>1. TypeOK'
  BY <1>a DEF TypeOK, PCs
<1>2. TokensInv'
  BY DEF TypeOK, TokensInv, Acquiring, Dropping
<1>3. WordInv'
  BY TokenCount DEF TypeOK, TokensInv, WordInv, SampleInv, Acquiring, Dropping,
     Add, Counted, RundownActive, WaitBlockWord, Down
<1>4. BlockInv'
  BY TokenCount DEF TypeOK, TokensInv, WordInv, BlockInv, WakeInv, SampleInv,
     Acquiring, Dropping, Add, Counted, RundownActive, WaitBlockWord, Down
<1>5. WakeInv'
  <2>1. wakeEvent = "clear" /\ \A u \in Threads : pc[u] # "relWake"
    BY <1>a DEF TypeOK, TokensInv, WakeInv, BlockInv, Dropping
  <2> QED
    BY <1>a, <2>1 DEF TypeOK, WakeInv
<1>6. SampleInv'
  BY WordOps DEF TypeOK, Waiters, TokensInv, WordInv, SampleInv, Acquiring,
     Dropping, Add, Counted, RundownActive, WaitBlockWord, Down
<1> QED
  BY <1>1, <1>2, <1>3, <1>4, <1>5, <1>6 DEF IInv

(* A release counted in the word, and the retry of one, preserve the inductive invariant. *)
LEMMA ReleaseToWordIInv ==
    ASSUME IInv, NEW t \in Threads, ReleaseToWord(t)
    PROVE  IInv'
<1> USE DEF ReleaseToWord, IInv, shared, block, owner, Goto, Return, Sample
<1>1. TypeOK'
  BY CallTypes DEF TypeOK, PCs
<1>2. TokensInv'
  BY DEF TypeOK, TokensInv, Acquiring, Dropping
<1>3. WordInv'
  BY TokenCount DEF TypeOK, TokensInv, WordInv, SampleInv, Acquiring, Dropping,
     Add, Counted, RundownActive, WaitBlockWord, Down
<1>4. BlockInv'
  BY TokenCount DEF TypeOK, TokensInv, WordInv, BlockInv, WakeInv, SampleInv,
     Acquiring, Dropping, Add, Counted, RundownActive, WaitBlockWord, Down
<1>5. WakeInv'
  BY TokenCount DEF TypeOK, TokensInv, WordInv, BlockInv, WakeInv, SampleInv,
     Acquiring, Dropping, Add, Counted, RundownActive, WaitBlockWord, Down
<1>6. SampleInv'
  BY WordOps DEF TypeOK, Waiters, TokensInv, WordInv, SampleInv, Acquiring,
     Dropping, Add, Counted, RundownActive, WaitBlockWord, Down
<1> QED
  BY <1>1, <1>2, <1>3, <1>4, <1>5, <1>6 DEF IInv

(* The last releaser's KeSetEvent preserves the inductive invariant.       *)
LEMMA ReleaseWakeIInv ==
    ASSUME IInv, NEW t \in Threads, ReleaseWake(t)
    PROVE  IInv'
<1> USE DEF ReleaseWake, IInv, shared, block, owner, Goto
<1>1. TypeOK'
  BY TokenCount, WordOps DEF TypeOK, PCs, Words
<1>2. TokensInv'
  BY DEF TypeOK, TokensInv, Acquiring, Dropping
<1>3. WordInv'
  BY TokenCount DEF TypeOK, TokensInv, WordInv, SampleInv, Acquiring, Dropping,
     Add, Counted, RundownActive, WaitBlockWord, Down
<1>4. BlockInv'
  BY TokenCount DEF TypeOK, TokensInv, WordInv, BlockInv, WakeInv, SampleInv,
     Acquiring, Dropping, Add, Counted, RundownActive, WaitBlockWord, Down
<1>5. WakeInv'
  BY TokenCount DEF TypeOK, TokensInv, WordInv, BlockInv, WakeInv, SampleInv,
     Acquiring, Dropping, Add, Counted, RundownActive, WaitBlockWord, Down
<1>6. SampleInv'
  BY WordOps DEF TypeOK, Waiters, TokensInv, WordInv, SampleInv, Acquiring,
     Dropping, Add, Counted, RundownActive, WaitBlockWord, Down
<1> QED
  BY <1>1, <1>2, <1>3, <1>4, <1>5, <1>6 DEF IInv

(* The inline wait's compare-exchange preserves the inductive invariant.   *)
LEMMA WaitInlineIInv ==
    ASSUME IInv, WaitInline
    PROVE  IInv'
<1> USE DEF WaitInline, IInv, shared, block, WaitFastCAS, local
<1>a. TypeOK
  OBVIOUS
<1>1. TypeOK'
  BY <1>a, WordCases DEF TypeOK, BlockInv, Waiters
<1>2. TokensInv'
  BY DEF TypeOK, TokensInv
<1>3. WordInv'
  BY <1>a, WordCases DEF WordInv, BlockInv, Down
<1>4. BlockInv'
  BY <1>a, WordCases DEF WordInv, BlockInv, Counted
<1>5. WakeInv'
  BY TokenCount DEF TypeOK, WordInv, BlockInv, WakeInv, Counted, Zero, RundownActive
<1>6. SampleInv'
  BY DEF TypeOK, TokensInv, WakeInv, SampleInv, Dropping, Down
<1> QED
  BY <1>1, <1>2, <1>3, <1>4, <1>5, <1>6 DEF IInv

(* The out-of-line wait's first compare-exchange preserves the inductive invariant. *)
LEMMA WaitExfIInv ==
    ASSUME IInv, WaitExf
    PROVE  IInv'
<1> USE DEF WaitExf, IInv, shared, block, WaitFastCAS, local
<1>a. TypeOK
  OBVIOUS
<1>1. TypeOK'
  BY <1>a, WordCases DEF TypeOK, BlockInv, Waiters
<1>2. TokensInv'
  BY DEF TypeOK, TokensInv
<1>3. WordInv'
  BY <1>a, WordCases DEF WordInv, BlockInv, Down
<1>4. BlockInv'
  BY <1>a, WordCases DEF WordInv, BlockInv, Counted
<1>5. WakeInv'
  BY TokenCount DEF TypeOK, WordInv, BlockInv, WakeInv, Counted, Zero, RundownActive
<1>6. SampleInv'
  BY DEF TypeOK, TokensInv, WakeInv, SampleInv, Dropping, Down
<1> QED
  BY <1>1, <1>2, <1>3, <1>4, <1>5, <1>6 DEF IInv

(* A turn of the wait's slow path preserves the inductive invariant.       *)
LEMMA WaitPublishIInv ==
    ASSUME IInv, WaitPublish
    PROVE  IInv'
<1> USE DEF WaitPublish, IInv, shared, block, local
<1>a. TypeOK
  OBVIOUS
<1>1. TypeOK'
  BY <1>a, WordCases DEF TypeOK, BlockInv, Waiters
<1>2. TokensInv'
  BY DEF TypeOK, TokensInv
<1>3. WordInv'
  <2>1. ASSUME runRef = waitValue, ~(waitValue.rest > 0) PROVE held = {}
    <3>1. runRef = Counted(Cardinality(held)) /\ waitValue.rest \in Nat
      BY DEF WordInv, BlockInv
    <3>2. runRef = Counted(waitValue.rest)
      BY <2>1 DEF BlockInv
    <3>3. waitValue.rest = 0
      BY <2>1, <3>1
    <3> QED
      BY <1>a, <3>1, <3>2, <3>3, WordCases DEF Zero
  <2> QED
    BY <2>1 DEF WordInv, Down
<1>4. BlockInv'
  BY <1>a, WordCases DEF WordInv, BlockInv, Counted
<1>5. WakeInv'
  BY TokenCount DEF TypeOK, WordInv, BlockInv, WakeInv, Counted, Zero, RundownActive
<1>6. SampleInv'
  BY DEF TypeOK, TokensInv, WakeInv, SampleInv, Dropping, Down
<1> QED
  BY <1>1, <1>2, <1>3, <1>4, <1>5, <1>6 DEF IInv

(* The wake-up of the teardown thread preserves the inductive invariant.   *)
LEMMA WaitWakeIInv ==
    ASSUME IInv, WaitWake
    PROVE  IInv'
<1> USE DEF WaitWake, IInv, shared, block, local
<1>1. TypeOK'
  BY DEF TypeOK, BlockInv, Words, Waiters, Zero, Counted, RundownActive,
     WaitBlockWord, WaitBlockAddress
<1>2. TokensInv'
  BY DEF TypeOK, TokensInv
<1>3. WordInv'
  BY TokenCount, FS_EmptySet DEF TypeOK, TokensInv, WordInv, BlockInv, WakeInv,
     Zero, Counted, RundownActive, WaitBlockWord, Down
<1>4. BlockInv'
  BY TokenCount DEF TypeOK, WordInv, BlockInv, WakeInv, Zero, Counted,
     RundownActive, WaitBlockWord
<1>5. WakeInv'
  BY TokenCount DEF TypeOK, WordInv, BlockInv, WakeInv, Counted, Zero, RundownActive
<1>6. SampleInv'
  BY DEF TypeOK, TokensInv, WakeInv, SampleInv, Dropping, Down
<1> QED
  BY <1>1, <1>2, <1>3, <1>4, <1>5, <1>6 DEF IInv

(* ExRundownCompleted preserves the inductive invariant.                   *)
LEMMA RundownCompletedIInv ==
    ASSUME IInv, RundownCompleted
    PROVE  IInv'
<1> USE DEF RundownCompleted, IInv, shared, block, local
<1>1. TypeOK'
  BY DEF TypeOK, BlockInv, Words, Waiters, Zero, Counted, RundownActive,
     WaitBlockWord, WaitBlockAddress
<1>2. TokensInv'
  BY DEF TypeOK, TokensInv
<1>3. WordInv'
  BY TokenCount, FS_EmptySet DEF TypeOK, TokensInv, WordInv, BlockInv, WakeInv,
     Zero, Counted, RundownActive, WaitBlockWord, Down
<1>4. BlockInv'
  BY TokenCount DEF TypeOK, WordInv, BlockInv, WakeInv, Zero, Counted,
     RundownActive, WaitBlockWord
<1>5. WakeInv'
  BY TokenCount DEF TypeOK, WordInv, BlockInv, WakeInv, Counted, Zero, RundownActive
<1>6. SampleInv'
  BY DEF TypeOK, TokensInv, WakeInv, SampleInv, Dropping, Down
<1> QED
  BY <1>1, <1>2, <1>3, <1>4, <1>5, <1>6 DEF IInv

(* ExReInitializeRundownProtection preserves the inductive invariant.      *)
LEMMA ReInitializeIInv ==
    ASSUME IInv, ReInitialize
    PROVE  IInv'
<1> USE DEF ReInitialize, IInv, shared, block, local
<1>1. TypeOK'
  BY DEF TypeOK, BlockInv, Words, Waiters, Zero, Counted, RundownActive,
     WaitBlockWord, WaitBlockAddress
<1>2. TokensInv'
  BY DEF TypeOK, TokensInv
<1>3. WordInv'
  BY Zenon, TokenCount, FS_EmptySet DEF TypeOK, TokensInv, WordInv, BlockInv, WakeInv,
     Zero, Counted, RundownActive, WaitBlockWord, Down
<1>4. BlockInv'
  BY TokenCount DEF TypeOK, WordInv, BlockInv, WakeInv, Zero, Counted,
     RundownActive, WaitBlockWord
<1>5. WakeInv'
  BY TokenCount DEF TypeOK, WordInv, BlockInv, WakeInv, Counted, Zero, RundownActive
<1>6. SampleInv'
  BY DEF TypeOK, TokensInv, WakeInv, SampleInv, Dropping, Down
<1> QED
  BY <1>1, <1>2, <1>3, <1>4, <1>5, <1>6 DEF IInv

(* Every step of the program, and every stuttering step, preserves the     *)
(* inductive invariant.                                                    *)
LEMMA NextIInv == IInv /\ [Next]_vars => IInv'
<1> SUFFICES ASSUME IInv, [Next]_vars PROVE IInv'
  OBVIOUS
<1>1. ASSUME NEW t \in Threads, BeginAcquire(t) PROVE IInv'
  BY <1>1, AcquireInlineIInv, AcquireExIInv DEF BeginAcquire
<1>2. ASSUME NEW t \in Threads, BeginRelease(t) PROVE IInv'
  BY <1>2, ReleaseInlineIInv, ReleaseExIInv DEF BeginRelease
<1>3. ASSUME NEW t \in Threads, Continue(t) PROVE IInv'
  BY <1>3, AcquireInlineCASIInv, AcquireReadIInv, AcquireLoopIInv,
     ReleaseInlineCASIInv, ReleaseReadIInv, ReleaseToWaitBlockIInv,
     ReleaseToWordIInv, ReleaseWakeIInv DEF Continue
<1>4. CASE Teardown
  BY <1>4, WaitInlineIInv, WaitExfIInv, WaitPublishIInv, WaitWakeIInv,
     RundownCompletedIInv, ReInitializeIInv DEF Teardown
<1>5. CASE UNCHANGED vars
  BY <1>5 DEF vars, IInv, TypeOK, TokensInv, WordInv, BlockInv, WakeInv,
     SampleInv, Down
<1> QED
  BY <1>1, <1>2, <1>3, <1>4, <1>5 DEF Next

(* The inductive invariant holds in every reachable state.                 *)
THEOREM Invariant == Spec => []IInv
  BY InitIInv, NextIInv, PTL DEF Spec

(* WaitBlock.Count never goes below zero, and every variable keeps its     *)
(* type, for any number of threads and protections.                        *)
THEOREM TypeCorrect == Spec => []TypeOK
  BY Invariant, PTL DEF IInv

(* When the wait for rundown has returned nothing is protected, and        *)
(* nothing becomes protected until the structure is re-initialised.        *)
THEOREM TeardownSafety == Spec => []TeardownSafe
<1>1. IInv => TeardownSafe
  BY DEF IInv, WordInv, TeardownSafe
<1> QED
  BY <1>1, Invariant, PTL

(* A releaser never follows the pointer to, nor signals the event of, a    *)
(* wait block whose owner has stopped waiting.                             *)
THEOREM WaitBlockLiveness == Spec => []WaitBlockLive
<1>1. IInv => WaitBlockLive
  BY DEF IInv, TypeOK, TokensInv, WordInv, BlockInv, WakeInv, SampleInv,
     WaitBlockLive, Dropping
<1> QED
  BY <1>1, Invariant, PTL

(* The assertions of the release and wait paths never fail.                *)
THEOREM AssertionsHold == Spec => []CountAsserts
<1>1. ASSUME IInv PROVE CountAsserts
  <2> USE <1>1 DEF IInv
  <2>1. ASSUME NEW t \in Threads, pc[t] \in Dropping
        PROVE  Cardinality(held) \in Nat /\ Cardinality(toks[t]) <= Cardinality(held)
    <3>1. toks[t] \in SUBSET Tokens /\ held \in SUBSET Tokens /\ toks[t] \subseteq held
      BY <2>1 DEF TypeOK, TokensInv
    <3> QED
      BY Zenon, <3>1, TokenCount
  <2>2. ASSUME NEW t \in Threads, pc[t] = "relLoop", value[t].active
        PROVE  waitCount >= Cardinality(toks[t])
    <3>1. waitCount = Cardinality(held)
      BY <2>2 DEF SampleInv, BlockInv
    <3>2. Cardinality(toks[t]) \in Nat
      BY CallTypes
    <3> QED
      BY <2>1, <2>2, <3>1, <3>2 DEF Dropping
  <2>3. ASSUME NEW t \in Threads, pc[t] \in {"relFast", "relLoop"}, ~runRef.active
        PROVE  runRef.rest >= Cardinality(toks[t])
    <3>1. runRef = Counted(Cardinality(held))
      BY <2>3 DEF TypeOK, Waiters, WordInv, RundownActive, WaitBlockWord
    <3>2. runRef.rest = Cardinality(held)
      BY <3>1 DEF Counted
    <3>3. Cardinality(toks[t]) \in Nat
      BY CallTypes
    <3> QED
      BY <2>1, <2>3, <3>2, <3>3 DEF Dropping
  <2>4. waiter = "wait" /\ wakeEvent = "set" => waitCount = 0
    BY FS_EmptySet DEF BlockInv, WakeInv
  <2>5. waiter = "loop" => ~runRef.active
    BY DEF WordInv, Counted
  <2> QED
    BY <2>2, <2>3, <2>4, <2>5 DEF CountAsserts
<1> QED
  BY <1>1, Invariant, PTL

(* Every step of the interlocked protocol is a step, or a stutter, of the  *)
(* promise in RundownSpec: it grants only while open, and closes only when *)
(* nothing is granted.                                                     *)
THEOREM Refinement == Spec => ImplementsRundownSpec
<1>1. Init => Abs!Init
  BY DEF Init, Abs!Init, Down
<1>2. ASSUME IInv, [Next]_vars PROVE [Abs!Next]_(Abs!vars)
  <2> USE <1>2
  <2>1. ASSUME NEW t \in Threads, BeginAcquire(t) \/ BeginRelease(t)
        PROVE  UNCHANGED Abs!vars
    BY <2>1 DEF BeginAcquire, BeginRelease, AcquireInline, AcquireEx, ReleaseInline,
       ReleaseEx, shared, owner, Down, Abs!vars
  <2>2. ASSUME NEW t \in Threads, AcquireInlineCAS(t) \/ AcquireLoop(t)
        PROVE  Abs!Acquire(toks[t]) \/ UNCHANGED Abs!vars
    <3>1. CASE UNCHANGED held
      BY <2>2, <3>1 DEF AcquireInlineCAS, AcquireLoop, owner, Down, Abs!vars
    <3>2. CASE /\ runRef = value[t] /\ ~value[t].active
               /\ pc[t] \in Acquiring /\ held' = held \cup toks[t]
      <4>1. waiter \in {"idle", "exf", "loop"} /\ toks[t] \cap held = {}
        BY <3>2 DEF IInv, TypeOK, TokensInv, WordInv, Waiters, RundownActive,
           WaitBlockWord
      <4> QED
        BY <2>2, <3>2, <4>1 DEF AcquireInlineCAS, AcquireLoop, owner, Down,
           Abs!Acquire
    <3> QED
      BY <2>2, <3>1, <3>2 DEF AcquireInlineCAS, AcquireLoop, shared, IInv,
         SampleInv, Acquiring
  <2>3. ASSUME NEW t \in Threads,
               ReleaseInlineCAS(t) \/ ReleaseToWaitBlock(t) \/ ReleaseToWord(t)
        PROVE  Abs!Release(toks[t]) \/ UNCHANGED Abs!vars
    <3>1. toks[t] \subseteq held
      BY <2>3 DEF ReleaseInlineCAS, ReleaseToWaitBlock, ReleaseToWord, IInv,
         TokensInv, Dropping
    <3> QED
      BY <2>3, <3>1 DEF ReleaseInlineCAS, ReleaseToWaitBlock, ReleaseToWord,
         shared, owner, Down, Abs!Release, Abs!vars
  <2>4. ASSUME NEW t \in Threads, AcquireRead(t) \/ ReleaseRead(t) \/ ReleaseWake(t)
        PROVE  UNCHANGED Abs!vars
    BY <2>4 DEF AcquireRead, ReleaseRead, ReleaseWake, shared, owner, Down, Abs!vars
  <2>5. ASSUME NEW t \in Threads, Continue(t)
        PROVE  (\E S \in (SUBSET Tokens) \ {{}} : Abs!Acquire(S) \/ Abs!Release(S))
               \/ UNCHANGED Abs!vars
    <3>1. CASE toks[t] \in (SUBSET Tokens) \ {{}}
      BY <2>2, <2>3, <2>4, <2>5, <3>1 DEF Continue
    <3>2. CASE toks[t] = {}
      BY <2>5, <3>2 DEF Continue, AcquireInlineCAS, AcquireRead, AcquireLoop,
         ReleaseInlineCAS, ReleaseRead, ReleaseToWaitBlock, ReleaseToWord,
         ReleaseWake,
         IInv, TokensInv, Acquiring, Dropping, shared, owner, Down, Abs!vars
    <3> QED
      BY <3>1, <3>2 DEF IInv, TypeOK
  <2>6. CASE WaitInline \/ WaitExf
    <3>1. runRef \in {Zero, RundownActive} => held = {}
      <4>1. TypeOK /\ waiter \in {"idle", "exf", "completed"}
        BY <2>6 DEF WaitInline, WaitExf, IInv
      <4>2. waiter # "completed" => runRef = Counted(Cardinality(held))
        BY <4>1 DEF IInv, WordInv
      <4>3. waiter = "completed" => held = {}
        BY DEF IInv, WordInv, Down
      <4> QED
        BY <4>1, <4>2, <4>3, WordCases
    <3>2. waiter = "completed" => runRef = RundownActive
      BY DEF IInv, WordInv
    <3> QED
      BY <2>6, <3>1, <3>2 DEF WaitInline, WaitExf, WaitFastCAS, Down,
         Abs!EndTeardown, Abs!vars, Abs!Next
  <2>7. CASE WaitPublish
    <3>1. runRef = waitValue => (waitValue.rest > 0 <=> held # {})
      <4>1. /\ runRef = Counted(Cardinality(held)) /\ waitValue.rest \in Nat
            /\ held \in SUBSET Tokens
        BY <2>7 DEF WaitPublish, IInv, WordInv, BlockInv, TypeOK
      <4>2. runRef.rest = Cardinality(held)
        BY <4>1 DEF Counted
      <4>3. Cardinality(held) \in Nat /\ (Cardinality(held) = 0 <=> held = {})
        BY Zenon, <4>1, TokenCount
      <4> QED
        BY <4>1, <4>2, <4>3
    <3> QED
      BY <2>7, <3>1 DEF WaitPublish, Down, Abs!BeginTeardown, Abs!EndTeardown,
         Abs!vars, Abs!Next
  <2>8. CASE WaitWake
    BY <2>8 DEF WaitWake, IInv, WakeInv, shared, Down, Abs!EndTeardown, Abs!Next
  <2>9. CASE RundownCompleted \/ ReInitialize
    BY <2>9 DEF RundownCompleted, ReInitialize, Down, Abs!Reopen, Abs!vars, Abs!Next
  <2>10. CASE UNCHANGED vars
    BY <2>10 DEF vars, Down, Abs!vars
  <2> QED
    BY <2>1, <2>5, <2>6, <2>7, <2>8, <2>9, <2>10 DEF Next, Teardown, Abs!Next
<1> QED
  BY <1>1, <1>2, Invariant, PTL DEF Spec, ImplementsRundownSpec, Abs!Spec
=============================================================================
