--------------------------- MODULE FastRefProofs ---------------------------
(***************************************************************************)
(* Proofs about FastRef for any finite set of threads, any objects and any *)
(* number of cached references: the count of an object is exact, and       *)
(* nobody uses an object that was deleted.                                 *)
(***************************************************************************)
EXTENDS FastRef, FiniteSetTheorems, TLAPS

Consts == /\ IsFiniteSet(Threads)
          /\ Null \notin Objects
          /\ MaxFastRefs \in Nat

(* The calls that have a reference, and those that do not have one yet.    *)
Has == {"bias", "addRead", "addCAS", "unbias", "derefRead", "derefCAS", "derefObject",
        "swapRef", "swapBias", "swap", "swapReturn", "swapUnuse", "flush", "swapDrop"}
HasNot == {"fastRead", "fastCAS", "slow", "slowRead", "slowRef"}

Biasing  == {"addRead", "addCAS", "unbias", "swap"}
Added    == {"swapBias", "swap"}
Dropping == {"swapReturn", "swapUnuse", "flush", "swapDrop"}

(* An exchange before its swap, which owns the TokenInUse of the new       *)
(* token, and one after it, which owns that of the old one.                *)
Swapping == {"swapRef", "swapBias", "swap"}
Replaced == {"swapReturn", "swapUnuse"}

(* What a call in progress may conclude from what it has read.             *)
CallInv ==
    \A t \in Threads :
        /\ pc[t] \in Has => ref[t] # Null
        /\ pc[t] \in HasNot => ref[t] = Null
        /\ pc[t] = "fastCAS" => old[t].n > 0
        /\ pc[t] = "addCAS" => old[t] = FastWord(ref[t], 0)
        /\ pc[t] = "derefCAS" => old[t].obj = ref[t] /\ old[t].n < MaxFastRefs
        /\ pc[t] \in Dropping \cup {"slowRef"} => old[t].obj # Null

(* TokenInUse has one owner: the pointer or an exchange.                   *)
UseInv ==
    /\ fast.obj # Null => inUse[fast.obj]
    /\ \A t \in Threads :
         /\ pc[t] \in Swapping => fast.obj # Null /\ inUse[ref[t]] /\ fast.obj # ref[t]
         /\ pc[t] \in Replaced => inUse[old[t].obj] /\ fast.obj # old[t].obj
    /\ \A t, u \in Threads :
         /\ pc[t] \in Swapping /\ pc[u] \in Swapping /\ ref[t] = ref[u] => t = u
         /\ pc[t] \in Replaced /\ pc[u] \in Replaced /\ old[t].obj = old[u].obj => t = u
         /\ pc[t] \in Swapping /\ pc[u] \in Replaced => ref[t] # old[u].obj

(* An object read under the lock is still the pointer's, or the exchange   *)
(* that replaced it has not yet come through the lock.                     *)
SlowInv ==
    \A u \in Threads :
        pc[u] = "slowRef" =>
            \/ fast.obj = old[u].obj
            \/ \E t \in Threads : /\ old[t].obj = old[u].obj
                                  /\ pc[t] \in {"swapReturn", "swapUnuse", "flush"}

IInv == TypeOK /\ RefsExact /\ CallInv /\ UseInv /\ SlowInv

-----------------------------------------------------------------------------
(* The references to o of a thread at p with reference r whose OldRef has  *)
(* object x, without those it is to return from the cache.                 *)
Weight(p, r, x, o) ==
      (IF r = o THEN 1 + (IF p \in Biasing THEN MaxFastRefs ELSE 0)
                       + (IF p \in Added THEN 1 ELSE 0)
                ELSE 0)
    + (IF x = o /\ p \in Dropping THEN 1 ELSE 0)

(* What RefsExact adds up.                                                 *)
OfThreads(o) == Cardinality(Holders(o)) + MaxFastRefs * Cardinality(Biasers(o))
                + Cardinality(Swappers(o)) + Cardinality(Droppers(o))
ToReturn(o) == IF Returned(o) = {} THEN 0 ELSE old[CHOOSE t \in Returned(o) : TRUE].n

Ind(b) == IF b THEN 1 ELSE 0

(* The size of a set of threads changes with the membership of the one     *)
(* thread that moves.                                                      *)
LEMMA CardStep ==
    ASSUME IsFiniteSet(Threads), NEW A \in SUBSET Threads, NEW B \in SUBSET Threads,
           NEW t \in Threads, \A u \in Threads : u # t => (u \in A <=> u \in B)
    PROVE  /\ Cardinality(A) \in Nat /\ Cardinality(B) \in Nat
           /\ Cardinality(B) = Cardinality(A) + Ind(t \in B) - Ind(t \in A)
<1> DEFINE C == A \ {t}
<1>1. IsFiniteSet(A) /\ IsFiniteSet(B) /\ IsFiniteSet(C)
  BY Zenon, FS_Subset
<1>2. Cardinality(A) \in Nat /\ Cardinality(B) \in Nat /\ Cardinality(C) \in Nat
  BY Zenon, <1>1, FS_CardinalityType
<1>3. t \notin C /\ C = B \ {t}
  OBVIOUS
<1>4. Cardinality(C \cup {t}) = Cardinality(C) + 1
  BY Zenon, <1>1, <1>3, FS_AddElement
<1>5. Cardinality(A) = Cardinality(C) + Ind(t \in A)
  <2>1. CASE t \in A
    <3>1. A = C \cup {t}
      BY Zenon, <2>1
    <3> QED  BY Zenon, <1>4, <2>1, <3>1 DEF Ind
  <2>2. CASE t \notin A
    <3>1. A = C
      BY Zenon, <2>2
    <3> HIDE DEF C
    <3> QED  BY <1>2, <2>2, <3>1 DEF Ind
  <2> QED  BY Zenon, <2>1, <2>2
<1>6. Cardinality(B) = Cardinality(C) + Ind(t \in B)
  <2>1. CASE t \in B
    <3>1. B = C \cup {t}
      BY Zenon, <1>3, <2>1
    <3> QED  BY Zenon, <1>4, <2>1, <3>1 DEF Ind
  <2>2. CASE t \notin B
    <3>1. B = C
      BY Zenon, <1>3, <2>2
    <3> HIDE DEF C
    <3> QED  BY <1>2, <2>2, <3>1 DEF Ind
  <2> QED  BY Zenon, <2>1, <2>2
<1> HIDE DEF C
<1> QED
  BY <1>2, <1>5, <1>6 DEF Ind

(* Only t moves.                                                           *)
Moves(t) == \A u \in Threads : u # t => ref'[u] = ref[u] /\ pc'[u] = pc[u] /\ old'[u] = old[u]

(* When only t moves, the references of the threads change by the weight   *)
(* of t.                                                                   *)
LEMMA OfThreadsStep ==
    ASSUME Consts, NEW t \in Threads, Moves(t), NEW o \in Objects
    PROVE  /\ OfThreads(o) \in Nat /\ OfThreads(o)' \in Nat
           /\ OfThreads(o)' = OfThreads(o) + Weight(pc'[t], ref'[t], old'[t].obj, o)
                                           - Weight(pc[t], ref[t], old[t].obj, o)
<1> DEFINE h == Cardinality(Holders(o))   h1 == Cardinality(Holders(o)')
           b == Cardinality(Biasers(o))   b1 == Cardinality(Biasers(o)')
           s == Cardinality(Swappers(o))  s1 == Cardinality(Swappers(o)')
           d == Cardinality(Droppers(o))  d1 == Cardinality(Droppers(o)')
<1>1. /\ h \in Nat /\ h1 \in Nat /\ h1 = h + Ind(ref'[t] = o) - Ind(ref[t] = o)
  <2>1. /\ Holders(o) \in SUBSET Threads /\ Holders(o)' \in SUBSET Threads
        /\ \A u \in Threads : u # t => (u \in Holders(o) <=> u \in Holders(o)')
        /\ t \in Holders(o) <=> ref[t] = o
        /\ t \in Holders(o)' <=> ref'[t] = o
    BY Zenon DEF Holders, Moves
  <2> QED  BY <2>1, CardStep DEF Consts, Ind
<1>2. /\ b \in Nat /\ b1 \in Nat
      /\ b1 = b + Ind(ref'[t] = o /\ pc'[t] \in Biasing) - Ind(ref[t] = o /\ pc[t] \in Biasing)
  <2>1. /\ Biasers(o) \in SUBSET Threads /\ Biasers(o)' \in SUBSET Threads
        /\ \A u \in Threads : u # t => (u \in Biasers(o) <=> u \in Biasers(o)')
        /\ t \in Biasers(o) <=> ref[t] = o /\ pc[t] \in Biasing
        /\ t \in Biasers(o)' <=> ref'[t] = o /\ pc'[t] \in Biasing
    BY Zenon DEF Biasers, Biasing, Moves
  <2> QED  BY <2>1, CardStep DEF Consts, Ind
<1>3. /\ s \in Nat /\ s1 \in Nat
      /\ s1 = s + Ind(ref'[t] = o /\ pc'[t] \in Added) - Ind(ref[t] = o /\ pc[t] \in Added)
  <2>1. /\ Swappers(o) \in SUBSET Threads /\ Swappers(o)' \in SUBSET Threads
        /\ \A u \in Threads : u # t => (u \in Swappers(o) <=> u \in Swappers(o)')
        /\ t \in Swappers(o) <=> ref[t] = o /\ pc[t] \in Added
        /\ t \in Swappers(o)' <=> ref'[t] = o /\ pc'[t] \in Added
    BY Zenon DEF Swappers, Added, Moves
  <2> QED  BY <2>1, CardStep DEF Consts, Ind
<1>4. /\ d \in Nat /\ d1 \in Nat
      /\ d1 = d + Ind(old'[t].obj = o /\ pc'[t] \in Dropping)
                - Ind(old[t].obj = o /\ pc[t] \in Dropping)
  <2>1. /\ Droppers(o) \in SUBSET Threads /\ Droppers(o)' \in SUBSET Threads
        /\ \A u \in Threads : u # t => (u \in Droppers(o) <=> u \in Droppers(o)')
        /\ t \in Droppers(o) <=> old[t].obj = o /\ pc[t] \in Dropping
        /\ t \in Droppers(o)' <=> old'[t].obj = o /\ pc'[t] \in Dropping
    BY Zenon DEF Droppers, Dropping, Moves
  <2> QED  BY <2>1, CardStep DEF Consts, Ind
<1>5. OfThreads(o) = h + MaxFastRefs * b + s + d /\ OfThreads(o)' = h1 + MaxFastRefs * b1 + s1 + d1
  BY Zenon DEF OfThreads
<1> HIDE DEF h, h1, b, b1, s, s1, d, d1
<1>6. /\ MaxFastRefs * b \in Nat /\ MaxFastRefs * b1 \in Nat
      /\ MaxFastRefs * (b + 1) = MaxFastRefs * b + MaxFastRefs
      /\ MaxFastRefs * (b1 + 1) = MaxFastRefs * b1 + MaxFastRefs
  BY <1>2, SMTT(30) DEF Consts
<1>7. MaxFastRefs * b1 = MaxFastRefs * b
          + (IF ref'[t] = o /\ pc'[t] \in Biasing THEN MaxFastRefs ELSE 0)
          - (IF ref[t] = o /\ pc[t] \in Biasing THEN MaxFastRefs ELSE 0)
  <2>1. b1 = b \/ b1 = b + 1 \/ b = b1 + 1
    BY <1>2 DEF Ind
  <2>2. CASE b1 = b
    BY <1>2, <1>6, <2>2 DEF Ind, Consts
  <2>3. CASE b1 = b + 1
    BY <1>2, <1>6, <2>3 DEF Ind, Consts
  <2>4. CASE b = b1 + 1
    BY <1>2, <1>6, <2>4 DEF Ind, Consts
  <2> QED  BY Zenon, <2>1, <2>2, <2>3, <2>4
<1>8. OfThreads(o) \in Nat /\ OfThreads(o)' \in Nat
  BY <1>1, <1>2, <1>3, <1>4, <1>5, <1>6
<1> DEFINE m == MaxFastRefs * b   m1 == MaxFastRefs * b1
<1>9. m \in Nat /\ m1 \in Nat /\ OfThreads(o) = h + m + s + d /\ OfThreads(o)' = h1 + m1 + s1 + d1
  BY Zenon, <1>5, <1>6
<1>10. m1 = m + (IF ref'[t] = o /\ pc'[t] \in Biasing THEN MaxFastRefs ELSE 0)
              - (IF ref[t] = o /\ pc[t] \in Biasing THEN MaxFastRefs ELSE 0)
  BY Zenon, <1>7
<1> HIDE DEF m, m1
<1> QED
  BY <1>1, <1>2, <1>3, <1>4, <1>8, <1>9, <1>10 DEF Weight, Ind, Consts

(* What exchanges are to return is a number; it does not change unless t   *)
(* begins or ends to return, and it is what t returns if t does.           *)
LEMMA ToReturnType ==
    ASSUME TypeOK, Consts, NEW o \in Objects
    PROVE  ToReturn(o) \in Nat /\ CachedRefs(o) \in Nat
<1>1. ASSUME Returned(o) # {} PROVE (CHOOSE t \in Returned(o) : TRUE) \in Threads
  BY Zenon, <1>1 DEF Returned
<1>2. \A w \in FastWords : w.n \in Nat
  BY DEF FastWords, Consts
<1>3. ToReturn(o) \in Nat
  BY Zenon, <1>1, <1>2 DEF ToReturn, TypeOK
<1>4. CachedRefs(o) \in Nat
  BY <1>2 DEF CachedRefs, TypeOK
<1> QED
  BY Zenon, <1>3, <1>4

LEMMA ToReturnSame ==
    ASSUME NEW t \in Threads, Moves(t), NEW o \in Objects,
           ~(pc[t] = "swapReturn" /\ old[t].obj = o),
           ~(pc'[t] = "swapReturn" /\ old'[t].obj = o)
    PROVE  ToReturn(o)' = ToReturn(o)
<1>1. Returned(o)' = Returned(o) /\ t \notin Returned(o)
  BY Zenon DEF Returned, Moves
<1>2. CASE Returned(o) = {}
  BY Zenon, <1>1, <1>2 DEF ToReturn
<1>3. CASE Returned(o) # {}
  <2> DEFINE u == CHOOSE x \in Returned(o) : TRUE
  <2>1. u \in Threads /\ u # t
    <3>1. u \in Returned(o)
      BY Zenon, <1>3
    <3> HIDE DEF u
    <3> QED  BY Zenon, <1>1, <3>1 DEF Returned
  <2>2. ToReturn(o) = old[u].n
    BY Zenon, <1>3 DEF ToReturn
  <2>3. ToReturn(o)' = old'[u].n
    BY Zenon, <1>1, <1>3 DEF ToReturn
  <2> HIDE DEF u
  <2> QED  BY Zenon, <2>1, <2>2, <2>3 DEF Moves
<1> QED
  BY Zenon, <1>2, <1>3

LEMMA ToReturnOne ==
    ASSUME NEW t \in Threads, NEW o \in Objects, Returned(o) = {t}
    PROVE  ToReturn(o) = old[t].n
<1>1. (CHOOSE u \in {t} : TRUE) = t
  OBVIOUS
<1> QED
  BY Zenon, <1>1 DEF ToReturn

(* An object's count stays exact if it changes as the cache, the weight of *)
(* t and what is to be returned do.                                        *)
LEMMA ExactFor ==
    ASSUME Consts, TypeOK, RefsExact, NEW t \in Threads, Moves(t), NEW o \in Objects,
           CachedRefs(o)' \in Nat, ToReturn(o)' \in Nat,
           count'[o] = count[o] + (CachedRefs(o)' - CachedRefs(o))
                       + (Weight(pc'[t], ref'[t], old'[t].obj, o)
                          - Weight(pc[t], ref[t], old[t].obj, o))
                       + (ToReturn(o)' - ToReturn(o))
    PROVE  /\ count'[o] = CachedRefs(o)' + OfThreads(o)' + ToReturn(o)'
           /\ count'[o] \in Nat
<1> DEFINE w == Weight(pc[t], ref[t], old[t].obj, o)
           w1 == Weight(pc'[t], ref'[t], old'[t].obj, o)
<1>1. OfThreads(o) \in Nat /\ OfThreads(o)' \in Nat /\ OfThreads(o)' = OfThreads(o) + w1 - w
  BY Zenon, OfThreadsStep
<1>2. w \in Int /\ w1 \in Int
  BY DEF Weight, Consts
<1>3. ToReturn(o) \in Nat /\ CachedRefs(o) \in Nat
  BY Zenon, ToReturnType
<1>4. count[o] = CachedRefs(o) + OfThreads(o) + ToReturn(o)
  <2>1. /\ Cardinality(Holders(o)) \in Nat /\ MaxFastRefs * Cardinality(Biasers(o)) \in Nat
        /\ Cardinality(Swappers(o)) \in Nat /\ Cardinality(Droppers(o)) \in Nat
    <3>1. \A S \in SUBSET Threads : Cardinality(S) \in Nat
      BY Zenon, FS_Subset, FS_CardinalityType DEF Consts
    <3>2. /\ Holders(o) \in SUBSET Threads /\ Biasers(o) \in SUBSET Threads
          /\ Swappers(o) \in SUBSET Threads /\ Droppers(o) \in SUBSET Threads
      BY Zenon DEF Holders, Biasers, Swappers, Droppers
    <3> QED  BY <3>1, <3>2 DEF Consts
  <2>2. count[o] = CachedRefs(o) + Cardinality(Holders(o)) + MaxFastRefs * Cardinality(Biasers(o))
                   + Cardinality(Swappers(o)) + Cardinality(Droppers(o)) + ToReturn(o)
    BY Zenon DEF RefsExact, ToReturn
  <2> QED  BY <1>3, <2>1, <2>2 DEF OfThreads
<1> HIDE DEF w, w1
<1>5. count'[o] = count[o] + (CachedRefs(o)' - CachedRefs(o)) + (w1 - w)
                  + (ToReturn(o)' - ToReturn(o))
  BY Zenon DEF w, w1
<1> QED
  BY <1>1, <1>2, <1>3, <1>4, <1>5

LEMMA ExactAll ==
    ASSUME Consts,
           \A o \in Objects : /\ CachedRefs(o)' \in Nat /\ ToReturn(o)' \in Nat
                              /\ count'[o] = CachedRefs(o)' + OfThreads(o)' + ToReturn(o)'
    PROVE  RefsExact'
<1> SUFFICES ASSUME NEW o \in Objects
             PROVE  count'[o] = CachedRefs(o)' + Cardinality(Holders(o)')
                                + MaxFastRefs * Cardinality(Biasers(o)')
                                + Cardinality(Swappers(o)') + Cardinality(Droppers(o)')
                                + ToReturn(o)'
  BY Zenon DEF RefsExact, ToReturn
<1>1. /\ Cardinality(Holders(o)') \in Nat /\ MaxFastRefs * Cardinality(Biasers(o)') \in Nat
      /\ Cardinality(Swappers(o)') \in Nat /\ Cardinality(Droppers(o)') \in Nat
  <2>1. \A S \in SUBSET Threads : Cardinality(S) \in Nat
    BY Zenon, FS_Subset, FS_CardinalityType DEF Consts
  <2>2. /\ Holders(o)' \in SUBSET Threads /\ Biasers(o)' \in SUBSET Threads
        /\ Swappers(o)' \in SUBSET Threads /\ Droppers(o)' \in SUBSET Threads
    BY Zenon DEF Holders, Biasers, Swappers, Droppers
  <2> QED  BY <2>1, <2>2 DEF Consts
<1> QED
  BY <1>1 DEF OfThreads

(* The same for all objects, for a step of t that neither begins nor ends  *)
(* to return cached references.                                            *)
LEMMA ExactStep ==
    ASSUME Consts, TypeOK, RefsExact, NEW t \in Threads, Moves(t),
           pc[t] # "swapReturn", pc'[t] # "swapReturn", fast' \in FastWords,
           count' \in [Objects -> Int],
           \A o \in Objects :
               count'[o] = count[o] + (CachedRefs(o)' - CachedRefs(o))
                           + (Weight(pc'[t], ref'[t], old'[t].obj, o)
                              - Weight(pc[t], ref[t], old[t].obj, o))
    PROVE  RefsExact' /\ count' \in [Objects -> Nat]
<1>1. ASSUME NEW o \in Objects
      PROVE  /\ CachedRefs(o)' \in Nat /\ ToReturn(o)' \in Nat
             /\ count'[o] = CachedRefs(o)' + OfThreads(o)' + ToReturn(o)'
             /\ count'[o] \in Nat
  <2>1. ToReturn(o)' = ToReturn(o) /\ ToReturn(o) \in Nat /\ CachedRefs(o) \in Nat
    BY Zenon, ToReturnSame, ToReturnType
  <2>2. CachedRefs(o)' \in Nat
    BY DEF CachedRefs, FastWords, Consts
  <2>3. Weight(pc'[t], ref'[t], old'[t].obj, o) \in Int /\ Weight(pc[t], ref[t], old[t].obj, o) \in Int
    BY DEF Weight, Consts
  <2>4. count'[o] = count[o] + (CachedRefs(o)' - CachedRefs(o))
                    + (Weight(pc'[t], ref'[t], old'[t].obj, o)
                       - Weight(pc[t], ref[t], old[t].obj, o))
                    + (ToReturn(o)' - ToReturn(o))
    <3>1. count[o] \in Int /\ ToReturn(o)' - ToReturn(o) = 0
      BY <2>1 DEF TypeOK
    <3> QED  BY <2>1, <2>2, <2>3, <3>1
  <2>5. ToReturn(o)' \in Nat
    BY Zenon, <2>1
  <2> QED  BY Zenon, <2>2, <2>4, <2>5, ExactFor
<1>2. RefsExact'
  BY Zenon, <1>1, ExactAll
<1>3. count' \in [Objects -> Nat]
  BY Zenon, <1>1
<1> QED
  BY Zenon, <1>2, <1>3

(* A reference keeps an object.                                            *)
LEMMA Positive ==
    ASSUME Consts, TypeOK, RefsExact, NEW o \in Objects,
           \/ fast.obj = o
           \/ \E t \in Threads : ref[t] = o
           \/ \E t \in Threads : old[t].obj = o /\ pc[t] \in Dropping
    PROVE  count[o] > 0
<1>1. \A S \in SUBSET Threads : /\ Cardinality(S) \in Nat
                                /\ S # {} => Cardinality(S) # 0
  BY Zenon, FS_Subset, FS_CardinalityType, FS_EmptySet DEF Consts
<1>2. /\ Holders(o) \in SUBSET Threads /\ Biasers(o) \in SUBSET Threads
      /\ Swappers(o) \in SUBSET Threads /\ Droppers(o) \in SUBSET Threads
  BY Zenon DEF Holders, Biasers, Swappers, Droppers
<1>3. /\ Cardinality(Holders(o)) \in Nat /\ MaxFastRefs * Cardinality(Biasers(o)) \in Nat
      /\ Cardinality(Swappers(o)) \in Nat /\ Cardinality(Droppers(o)) \in Nat
  BY <1>1, <1>2 DEF Consts
<1>4. /\ fast.obj = o => CachedRefs(o) >= 1
      /\ (\E t \in Threads : ref[t] = o) => Cardinality(Holders(o)) # 0
      /\ (\E t \in Threads : old[t].obj = o /\ pc[t] \in Dropping) => Cardinality(Droppers(o)) # 0
  <2>1. fast.obj = o => CachedRefs(o) >= 1
    BY DEF CachedRefs, TypeOK, FastWords, Consts
  <2>2. (\E t \in Threads : ref[t] = o) => Holders(o) # {}
    BY Zenon DEF Holders
  <2>3. (\E t \in Threads : old[t].obj = o /\ pc[t] \in Dropping) => Droppers(o) # {}
    BY Zenon DEF Droppers, Dropping
  <2> QED  BY Zenon, <1>1, <1>2, <2>1, <2>2, <2>3
<1>5. ToReturn(o) \in Nat /\ CachedRefs(o) \in Nat
  BY Zenon, ToReturnType
<1>6. count[o] = CachedRefs(o) + Cardinality(Holders(o)) + MaxFastRefs * Cardinality(Biasers(o))
                 + Cardinality(Swappers(o)) + Cardinality(Droppers(o)) + ToReturn(o)
  BY Zenon DEF RefsExact, ToReturn
<1> QED
  BY <1>3, <1>4, <1>5, <1>6

-----------------------------------------------------------------------------
(* The other conjuncts, for a step of t that leaves the object of the      *)
(* pointer and TokenInUse alone and starts and ends no exchange.           *)
LEMMA UseKept ==
    ASSUME UseInv, NEW t \in Threads, Moves(t), fast'.obj = fast.obj, inUse' = inUse,
           pc'[t] \in Swapping => pc[t] \in Swapping /\ ref'[t] = ref[t],
           pc'[t] \in Replaced => pc[t] \in Replaced /\ old'[t].obj = old[t].obj
    PROVE  UseInv'
<1>1. \A u \in Threads : /\ pc'[u] \in Swapping => pc[u] \in Swapping /\ ref'[u] = ref[u]
                         /\ pc'[u] \in Replaced => pc[u] \in Replaced /\ old'[u].obj = old[u].obj
  BY Zenon DEF Moves
<1> QED
  BY <1>1 DEF UseInv

LEMMA SlowKept ==
    ASSUME SlowInv, NEW t \in Threads, Moves(t), fast'.obj = fast.obj,
           pc'[t] = "slowRef" => fast.obj = old'[t].obj,
           pc[t] \in {"swapReturn", "swapUnuse", "flush"} =>
               pc'[t] \in {"swapReturn", "swapUnuse", "flush"} /\ old'[t].obj = old[t].obj
    PROVE  SlowInv'
<1> SUFFICES ASSUME NEW u \in Threads, pc'[u] = "slowRef", fast'.obj # old'[u].obj
             PROVE  \E v \in Threads : /\ old'[v].obj = old'[u].obj
                                       /\ pc'[v] \in {"swapReturn", "swapUnuse", "flush"}
  BY Zenon DEF SlowInv
<1>1. u # t /\ pc[u] = "slowRef" /\ old'[u] = old[u]
  BY Zenon DEF Moves
<1>2. PICK v \in Threads : /\ old[v].obj = old[u].obj
                           /\ pc[v] \in {"swapReturn", "swapUnuse", "flush"}
  BY Zenon, <1>1 DEF SlowInv
<1>3. /\ old'[v].obj = old'[u].obj
      /\ pc'[v] \in {"swapReturn", "swapUnuse", "flush"}
  BY Zenon, <1>1, <1>2 DEF Moves
<1> QED
  BY Zenon, <1>3

(* What CallInv says of one thread.                                        *)
CallOf(p, r, w) ==
    /\ p \in Has => r # Null
    /\ p \in HasNot => r = Null
    /\ p = "fastCAS" => w.n > 0
    /\ p = "addCAS" => w = FastWord(r, 0)
    /\ p = "derefCAS" => w.obj = r /\ w.n < MaxFastRefs
    /\ p \in Dropping \cup {"slowRef"} => w.obj # Null

LEMMA CallKept ==
    ASSUME CallInv, NEW t \in Threads, Moves(t), CallOf(pc'[t], ref'[t], old'[t])
    PROVE  CallInv'
<1> SUFFICES ASSUME NEW u \in Threads PROVE CallOf(pc'[u], ref'[u], old'[u])
  BY Zenon DEF CallInv, CallOf
<1>1. CASE u = t
  BY Zenon, <1>1
<1>2. CASE u # t
  BY Zenon, <1>2 DEF CallInv, CallOf, Moves
<1> QED
  BY Zenon, <1>1, <1>2

-----------------------------------------------------------------------------
(* A step of t that only reads.                                            *)
LEMMA ReadStep ==
    ASSUME Consts, IInv, NEW t \in Threads, Moves(t),
           UNCHANGED <<fast, count, inUse, ref>>,
           pc' \in [Threads -> PCs], old' \in [Threads -> FastWords],
           pc[t] \notin Added \cup Swapping \cup Dropping,
           pc'[t] \notin Added \cup Swapping \cup Dropping,
           pc[t] \in Biasing <=> pc'[t] \in Biasing,
           pc'[t] = "slowRef" => fast.obj = old'[t].obj,
           CallOf(pc'[t], ref[t], old'[t])
    PROVE  IInv'
<1> USE DEF IInv
<1>1. RefsExact' /\ count' \in [Objects -> Nat]
  <2>1. pc[t] # "swapReturn" /\ pc'[t] # "swapReturn"
    BY Zenon DEF Dropping
  <2>2. ASSUME NEW o \in Objects
        PROVE  count'[o] = count[o] + (CachedRefs(o)' - CachedRefs(o))
                           + (Weight(pc'[t], ref'[t], old'[t].obj, o)
                              - Weight(pc[t], ref[t], old[t].obj, o))
    <3>1. Weight(pc'[t], ref'[t], old'[t].obj, o) = Weight(pc[t], ref[t], old[t].obj, o)
      BY Zenon DEF Weight
    <3>2. Weight(pc[t], ref[t], old[t].obj, o) \in Int
      BY DEF Weight, Consts
    <3>3. CachedRefs(o)' = CachedRefs(o) /\ CachedRefs(o) \in Nat
      BY Zenon, ToReturnType DEF CachedRefs
    <3> QED  BY <3>1, <3>2, <3>3 DEF TypeOK
  <2>3. fast' \in FastWords /\ count' \in [Objects -> Int]
    BY DEF TypeOK
  <2> QED  BY Zenon, <2>1, <2>2, <2>3, ExactStep
<1>2. TypeOK'
  BY Zenon, <1>1 DEF TypeOK
<1>3. CallInv'
  BY Zenon, CallKept
<1>4. UseInv'
  BY Zenon, UseKept DEF Swapping, Replaced, Dropping
<1>5. SlowInv'
  BY Zenon, SlowKept DEF Dropping
<1> QED
  BY Zenon, <1>1, <1>2, <1>3, <1>4, <1>5

(* The reads of the word, the slow path's lock, and the compare-exchanges  *)
(* that find another word.                                                 *)
LEMMA ReadsStep ==
    ASSUME Consts, IInv, NEW t \in Threads,
           \/ FastRead(t) \/ AddRead(t) \/ DerefRead(t)
           \/ SlowLock(t) \/ SlowRead(t) \/ SlowUnlock(t)
           \/ fast # old[t] /\ (FastCAS(t) \/ AddCAS(t) \/ DerefCAS(t))
    PROVE  IInv'
<1> USE DEF IInv
<1>0. pc[t] \in PCs /\ ref[t] \in Objects \cup {Null} /\ CallOf(pc[t], ref[t], old[t])
  BY Zenon DEF TypeOK, CallInv, CallOf
<1>1. CASE FastRead(t)
  <2>1. /\ Moves(t) /\ pc' \in [Threads -> PCs] /\ old' \in [Threads -> FastWords]
        /\ pc[t] \in {"idle", "fastRead"} /\ ref[t] = Null /\ old'[t] = fast
        /\ pc'[t] = IF fast.n = 0 THEN "slow" ELSE "fastCAS"
    BY Zenon, <1>0, <1>1 DEF FastRead, SetOld, Goto, Moves, TypeOK, PCs, CallOf, HasNot
  <2>2. fast.n # 0 => fast.n > 0
    BY DEF TypeOK, FastWords, Consts
  <2>3. CallOf(pc'[t], ref[t], old'[t])
    BY Zenon, <2>1, <2>2 DEF CallOf, Has, HasNot, Dropping
  <2> QED
    BY Zenon, <1>1, <2>1, <2>3, ReadStep DEF FastRead, Added, Swapping, Dropping, Biasing
<1>2. CASE AddRead(t)
  <2>1. /\ Moves(t) /\ pc' \in [Threads -> PCs] /\ old' \in [Threads -> FastWords]
        /\ pc[t] = "addRead" /\ ref[t] # Null /\ old'[t] = fast
        /\ pc'[t] = IF fast.n + MaxFastRefs <= MaxFastRefs /\ fast.obj = ref[t]
                    THEN "addCAS" ELSE "unbias"
    BY Zenon, <1>0, <1>2 DEF AddRead, SetOld, Goto, Moves, TypeOK, PCs, CallOf, Has
  <2>2. pc'[t] = "addCAS" => fast = FastWord(ref[t], 0)
    BY <2>1 DEF TypeOK, FastWords, Consts, FastWord
  <2>3. CallOf(pc'[t], ref[t], old'[t])
    BY Zenon, <2>1, <2>2 DEF CallOf, Has, HasNot, Dropping
  <2> QED
    BY Zenon, <1>2, <2>1, <2>3, ReadStep DEF AddRead, Added, Swapping, Dropping, Biasing
<1>3. CASE DerefRead(t)
  <2>1. /\ Moves(t) /\ pc' \in [Threads -> PCs] /\ old' \in [Threads -> FastWords]
        /\ pc[t] \in {"idle", "derefRead"} /\ ref[t] # Null /\ old'[t] = fast
        /\ pc'[t] = IF fast.obj = ref[t] /\ fast.n < MaxFastRefs
                    THEN "derefCAS" ELSE "derefObject"
    BY Zenon, <1>0, <1>3 DEF DerefRead, SetOld, Goto, Moves, TypeOK, PCs, CallOf, Has
  <2>3. CallOf(pc'[t], ref[t], old'[t])
    BY Zenon, <2>1 DEF CallOf, Has, HasNot, Dropping
  <2> QED
    BY Zenon, <1>3, <2>1, <2>3, ReadStep DEF DerefRead, Added, Swapping, Dropping, Biasing
<1>4. CASE SlowRead(t)
  <2>1. /\ Moves(t) /\ pc' \in [Threads -> PCs] /\ old' \in [Threads -> FastWords]
        /\ pc[t] = "slowRead" /\ ref[t] = Null /\ old'[t] = fast
        /\ pc'[t] = IF fast.obj = Null THEN "slowUnlock" ELSE "slowRef"
    BY Zenon, <1>0, <1>4 DEF SlowRead, SetOld, Goto, Moves, TypeOK, PCs, SlowPCs, CallOf, HasNot
  <2>3. CallOf(pc'[t], ref[t], old'[t])
    BY Zenon, <2>1 DEF CallOf, Has, HasNot, Dropping
  <2> QED
    BY Zenon, <1>4, <2>1, <2>3, ReadStep DEF SlowRead, Added, Swapping, Dropping, Biasing
<1>5. CASE SlowLock(t) \/ SlowUnlock(t)
  <2>1. /\ Moves(t) /\ pc' \in [Threads -> PCs] /\ old' = old
        /\ \/ pc[t] = "slow" /\ pc'[t] = "slowRead" /\ ref[t] = Null
           \/ pc[t] = "slowUnlock" /\ pc'[t] = "idle"
    BY Zenon, <1>0, <1>5 DEF SlowLock, SlowUnlock, Goto, Moves, TypeOK, PCs, SlowPCs, CallOf, HasNot
  <2>2. CallOf(pc'[t], ref[t], old'[t])
    BY Zenon, <2>1 DEF CallOf, Has, HasNot, Dropping
  <2>3. old' \in [Threads -> FastWords]
    BY Zenon, <2>1 DEF TypeOK
  <2> QED
    BY Zenon, <1>5, <2>1, <2>2, <2>3, ReadStep
       DEF SlowLock, SlowUnlock, Added, Swapping, Dropping, Biasing
<1>6. CASE fast # old[t] /\ (FastCAS(t) \/ AddCAS(t) \/ DerefCAS(t))
  <2>1. /\ Moves(t) /\ pc' \in [Threads -> PCs] /\ old' = old
        /\ UNCHANGED <<fast, count, inUse, ref>>
        /\ \/ pc[t] = "fastCAS" /\ pc'[t] = "fastRead" /\ ref[t] = Null
           \/ pc[t] = "addCAS" /\ pc'[t] = "addRead" /\ ref[t] # Null
           \/ pc[t] = "derefCAS" /\ pc'[t] = "derefRead" /\ ref[t] # Null
    BY Zenon, <1>0, <1>6 DEF FastCAS, AddCAS, DerefCAS, Goto, Moves, TypeOK, PCs, CallOf, HasNot, Has
  <2>2. CallOf(pc'[t], ref[t], old'[t])
    BY Zenon, <2>1 DEF CallOf, Has, HasNot, Dropping
  <2>3. old' \in [Threads -> FastWords]
    BY Zenon, <2>1 DEF TypeOK
  <2> QED
    BY Zenon, <2>1, <2>2, <2>3, ReadStep DEF Added, Swapping, Dropping, Biasing
<1> QED
  BY Zenon, <1>1, <1>2, <1>3, <1>4, <1>5, <1>6

-----------------------------------------------------------------------------
(* What the count of o has to change by.                                   *)
Change(t, o) == (CachedRefs(o)' - CachedRefs(o))
                + (Weight(pc'[t], ref'[t], old'[t].obj, o)
                   - Weight(pc[t], ref[t], old[t].obj, o))

(* A step of t that moves references and leaves the object of the pointer  *)
(* and TokenInUse alone.                                                   *)
LEMMA MoveStep ==
    ASSUME Consts, IInv, NEW t \in Threads, Moves(t),
           fast' \in FastWords, fast'.obj = fast.obj, fast.obj = Null => fast'.n = 0,
           inUse' = inUse, old' = old,
           pc' \in [Threads -> PCs], ref' \in [Threads -> Objects \cup {Null}],
           count' \in [Objects -> Int],
           pc[t] \notin Replaced \cup {"flush"}, pc'[t] \notin Replaced \cup {"slowRef"},
           pc'[t] \in Swapping => pc[t] \in Swapping /\ ref'[t] = ref[t],
           CallOf(pc'[t], ref'[t], old[t]),
           \A o \in Objects : count'[o] = count[o] + Change(t, o)
    PROVE  IInv'
<1> USE DEF IInv
<1>1. RefsExact' /\ count' \in [Objects -> Nat]
  <2>1. pc[t] # "swapReturn" /\ pc'[t] # "swapReturn"
    BY Zenon DEF Replaced
  <2>2. ASSUME NEW o \in Objects
        PROVE  count'[o] = count[o] + (CachedRefs(o)' - CachedRefs(o))
                           + (Weight(pc'[t], ref'[t], old'[t].obj, o)
                              - Weight(pc[t], ref[t], old[t].obj, o))
    <3>1. /\ Weight(pc'[t], ref'[t], old'[t].obj, o) \in Int
          /\ Weight(pc[t], ref[t], old[t].obj, o) \in Int
      BY DEF Weight, Consts
    <3>2. CachedRefs(o)' \in Nat
      BY DEF CachedRefs, FastWords, Consts
    <3>3. CachedRefs(o) \in Nat /\ count[o] \in Int
      BY ToReturnType DEF TypeOK
    <3>4. count'[o] = count[o] + Change(t, o)
      OBVIOUS
    <3> QED  BY <3>1, <3>2, <3>3, <3>4 DEF Change
  <2> QED  BY Zenon, <2>1, <2>2, ExactStep
<1>2. TypeOK'
  BY Zenon, <1>1 DEF TypeOK
<1>3. CallInv'
  BY Zenon, CallKept
<1>4. UseInv'
  BY Zenon, UseKept
<1>5. SlowInv'
  BY Zenon, SlowKept DEF Replaced
<1> QED
  BY Zenon, <1>1, <1>2, <1>3, <1>4, <1>5

(* FastCAS takes a reference from the cache.                               *)
LEMMA FastCASStep ==
    ASSUME Consts, IInv, NEW t \in Threads, FastCAS(t), fast = old[t]
    PROVE  IInv'
<1> USE DEF IInv
<1>1. /\ pc[t] = "fastCAS" /\ ref[t] = Null
      /\ fast' = FastWord(fast.obj, fast.n - 1)
      /\ pc'[t] \in {"bias", "idle"} /\ ref'[t] = fast.obj
      /\ UNCHANGED <<count, inUse, old>> /\ Moves(t)
      /\ fast \in FastWords /\ fast.n > 0 /\ fast.obj # Null
      /\ pc' \in [Threads -> PCs] /\ ref' \in [Threads -> Objects \cup {Null}]
  <2>1. /\ pc[t] = "fastCAS" /\ fast' = FastWord(fast.obj, fast.n - 1)
        /\ ref' = [ref EXCEPT ![t] = fast.obj]
        /\ pc' = [pc EXCEPT ![t] = IF fast.n = 1 THEN "bias" ELSE "idle"]
        /\ UNCHANGED <<count, inUse, old>>
    BY Zenon DEF FastCAS, SetRef, Goto
  <2>2. ref[t] = Null /\ fast.n > 0
    BY Zenon, <2>1 DEF CallInv, HasNot
  <2>3. fast \in FastWords /\ fast.obj # Null
    BY <2>2 DEF TypeOK
  <2>4. fast.obj \in Objects \cup {Null}
    BY Zenon, <2>3 DEF FastWords
  <2> QED  BY Zenon, <2>1, <2>2, <2>3, <2>4 DEF Moves, TypeOK, PCs
<1>2. /\ fast'.obj = fast.obj /\ fast'.n = fast.n - 1 /\ fast.n \in Nat /\ fast' \in FastWords
  BY <1>1 DEF FastWord, FastWords, Consts
<1>3. CallOf(pc'[t], ref'[t], old[t])
  BY Zenon, <1>1 DEF CallOf, Has, HasNot, Dropping
<1>4. ASSUME NEW o \in Objects PROVE count'[o] = count[o] + Change(t, o)
  <2>1. Weight(pc[t], ref[t], old[t].obj, o) = 0
    BY <1>1 DEF Weight, Biasing, Added, Dropping, Consts
  <2>2. Weight(pc'[t], ref'[t], old'[t].obj, o) = IF fast.obj = o THEN 1 ELSE 0
    BY <1>1 DEF Weight, Biasing, Added, Dropping, Consts
  <2>3. CachedRefs(o)' - CachedRefs(o) = IF fast.obj = o THEN -1 ELSE 0
    BY <1>2 DEF CachedRefs
  <2>4. count'[o] = count[o] /\ count[o] \in Int
    BY <1>1 DEF TypeOK
  <2> QED  BY <2>1, <2>2, <2>3, <2>4 DEF Change
<1>5. count' \in [Objects -> Int]
  BY <1>1 DEF TypeOK
<1> QED
  BY Zenon, <1>1, <1>2, <1>3, <1>4, <1>5, MoveStep DEF Replaced, Swapping

(* AddCAS moves the additional references of t to the cache.               *)
LEMMA AddCASStep ==
    ASSUME Consts, IInv, NEW t \in Threads, AddCAS(t), fast = old[t]
    PROVE  IInv'
<1> USE DEF IInv
<1>1. /\ pc[t] = "addCAS" /\ ref[t] # Null /\ fast = FastWord(ref[t], 0)
      /\ fast' = FastWord(fast.obj, fast.n + MaxFastRefs)
      /\ pc'[t] = "idle" /\ ref' = ref
      /\ UNCHANGED <<count, inUse, old>> /\ Moves(t)
      /\ fast \in FastWords
      /\ pc' \in [Threads -> PCs] /\ ref \in [Threads -> Objects \cup {Null}]
  BY Zenon DEF AddCAS, Goto, Moves, TypeOK, PCs, CallInv, Has
<1>2. /\ fast.obj = ref[t] /\ fast.n = 0 /\ fast'.obj = ref[t] /\ fast'.n = MaxFastRefs
      /\ fast' \in FastWords
  BY <1>1 DEF FastWord, FastWords, Consts
<1>3. CallOf(pc'[t], ref'[t], old[t])
  BY Zenon, <1>1 DEF CallOf, Has, HasNot, Dropping
<1>4. ASSUME NEW o \in Objects PROVE count'[o] = count[o] + Change(t, o)
  <2>1. Weight(pc[t], ref[t], old[t].obj, o) = IF ref[t] = o THEN 1 + MaxFastRefs ELSE 0
    BY <1>1 DEF Weight, Biasing, Added, Dropping, Consts
  <2>2. Weight(pc'[t], ref'[t], old'[t].obj, o) = IF ref[t] = o THEN 1 ELSE 0
    BY <1>1 DEF Weight, Biasing, Added, Dropping, Consts
  <2>3. CachedRefs(o)' - CachedRefs(o) = IF ref[t] = o THEN MaxFastRefs ELSE 0
    BY <1>2 DEF CachedRefs, Consts
  <2>4. count'[o] = count[o] /\ count[o] \in Int
    BY <1>1 DEF TypeOK
  <2> QED  BY <2>1, <2>2, <2>3, <2>4 DEF Change, Consts
<1>5. count' \in [Objects -> Int]
  BY <1>1 DEF TypeOK
<1> QED
  BY Zenon, <1>1, <1>2, <1>3, <1>4, <1>5, MoveStep DEF Replaced, Swapping

(* DerefCAS gives a reference back to the cache.                           *)
LEMMA DerefCASStep ==
    ASSUME Consts, IInv, NEW t \in Threads, DerefCAS(t), fast = old[t]
    PROVE  IInv'
<1> USE DEF IInv
<1>1. /\ pc[t] = "derefCAS" /\ ref[t] # Null /\ fast.obj = ref[t] /\ fast.n < MaxFastRefs
      /\ fast' = FastWord(fast.obj, fast.n + 1)
      /\ pc'[t] = "idle" /\ ref'[t] = Null
      /\ UNCHANGED <<count, inUse, old>> /\ Moves(t)
      /\ fast \in FastWords
      /\ pc' \in [Threads -> PCs] /\ ref' \in [Threads -> Objects \cup {Null}]
  BY Zenon DEF DerefCAS, SetRef, Goto, Moves, TypeOK, PCs, CallInv, Has
<1>2. /\ fast'.obj = fast.obj /\ fast'.n = fast.n + 1 /\ fast.n \in Nat /\ fast' \in FastWords
  BY <1>1 DEF FastWord, FastWords, Consts
<1>3. CallOf(pc'[t], ref'[t], old[t])
  BY Zenon, <1>1 DEF CallOf, Has, HasNot, Dropping
<1>4. ASSUME NEW o \in Objects PROVE count'[o] = count[o] + Change(t, o)
  <2>1. Weight(pc[t], ref[t], old[t].obj, o) = IF fast.obj = o THEN 1 ELSE 0
    BY <1>1 DEF Weight, Biasing, Added, Dropping, Consts
  <2>2. Weight(pc'[t], ref'[t], old'[t].obj, o) = 0
    BY <1>1 DEF Weight, Biasing, Added, Dropping, Consts
  <2>3. CachedRefs(o)' - CachedRefs(o) = IF fast.obj = o THEN 1 ELSE 0
    BY <1>2 DEF CachedRefs
  <2>4. count'[o] = count[o] /\ count[o] \in Int
    BY <1>1 DEF TypeOK
  <2> QED  BY <2>1, <2>2, <2>3, <2>4 DEF Change
<1>5. count' \in [Objects -> Int]
  BY <1>1 DEF TypeOK
<1> QED
  BY Zenon, <1>1, <1>2, <1>3, <1>4, <1>5, MoveStep DEF Replaced, Swapping

(* A step of t that changes the count of an object and not the word.       *)
LEMMA CountStep ==
    ASSUME Consts, IInv, NEW t \in Threads, Moves(t), UNCHANGED <<fast, inUse, old>>,
           pc' \in [Threads -> PCs], ref' \in [Threads -> Objects \cup {Null}],
           pc[t] \notin Replaced \cup {"flush"}, pc'[t] \notin Replaced \cup {"slowRef"},
           pc'[t] \in Swapping => pc[t] \in Swapping /\ ref'[t] = ref[t],
           CallOf(pc'[t], ref'[t], old[t]),
           count' \in [Objects -> Int],
           \A o \in Objects : count'[o] = count[o] + (Weight(pc'[t], ref'[t], old'[t].obj, o)
                                                     - Weight(pc[t], ref[t], old[t].obj, o))
    PROVE  IInv'
<1>1. ASSUME NEW o \in Objects PROVE count'[o] = count[o] + Change(t, o)
  <2>1. CachedRefs(o) \in Nat /\ CachedRefs(o)' = CachedRefs(o)
    BY Zenon, ToReturnType DEF IInv, CachedRefs
  <2>2. Weight(pc'[t], ref'[t], old'[t].obj, o) \in Int /\ Weight(pc[t], ref[t], old[t].obj, o) \in Int
    BY DEF Weight, Consts
  <2> QED  BY <2>1, <2>2 DEF Change
<1>2. /\ fast' \in FastWords /\ fast'.obj = fast.obj /\ (fast.obj = Null => fast'.n = 0)
  BY Zenon DEF IInv, TypeOK
<1> QED
  BY Zenon, <1>1, <1>2, MoveStep

(* Bias adds the references that are to refill the cache.                  *)
LEMMA BiasStep ==
    ASSUME Consts, IInv, NEW t \in Threads, Bias(t)
    PROVE  IInv'
<1> USE DEF IInv
<1>1. /\ pc[t] = "bias" /\ ref[t] # Null
      /\ pc'[t] = "addRead" /\ ref' = ref
      /\ UNCHANGED <<fast, inUse, old>> /\ Moves(t)
      /\ pc' \in [Threads -> PCs] /\ ref' \in [Threads -> Objects \cup {Null}]
  BY Zenon DEF Bias, SetRef, Goto, Moves, TypeOK, PCs, SlowPCs, CallInv, Has, HasNot, Dropping, FastWords
<1>2. /\ ref[t] \in Objects /\ count' \in [Objects -> Int]
      /\ \A o \in Objects : count'[o] = count[o] + IF o = ref[t] THEN MaxFastRefs ELSE 0
  BY <1>1 DEF Bias, Reference, Dereference, TypeOK, Consts, FastWords
<1>3. CallOf(pc'[t], ref'[t], old[t])
  BY Zenon, <1>1 DEF CallOf, Has, HasNot, Dropping, CallInv
<1>4. ASSUME NEW o \in Objects
      PROVE  Weight(pc'[t], ref'[t], old'[t].obj, o) - Weight(pc[t], ref[t], old[t].obj, o)
             = IF o = ref[t] THEN MaxFastRefs ELSE 0
  <2>1. Weight(pc[t], ref[t], old[t].obj, o) = IF ref[t] = o THEN 1 ELSE 0
    BY <1>1 DEF Weight, Biasing, Added, Dropping, Consts
  <2>2. Weight(pc'[t], ref'[t], old'[t].obj, o) = IF ref[t] = o THEN 1 + MaxFastRefs ELSE 0
    BY <1>1 DEF Weight, Biasing, Added, Dropping, Consts
  <2> QED  BY <2>1, <2>2 DEF Consts
<1>5. /\ pc[t] \notin Replaced \cup {"flush"} /\ pc'[t] \notin Replaced \cup {"slowRef"}
      /\ pc'[t] \in Swapping => pc[t] \in Swapping /\ ref'[t] = ref[t]
  BY Zenon, <1>1 DEF Replaced, Swapping
<1>6. \A o \in Objects : count'[o] = count[o] + (Weight(pc'[t], ref'[t], old'[t].obj, o)
                                                - Weight(pc[t], ref[t], old[t].obj, o))
  BY Zenon, <1>2, <1>4
<1> HIDE DEF IInv
<1> QED
  BY Zenon, <1>1, <1>2, <1>3, <1>5, <1>6, CountStep

(* Unbias drops them again.                                                *)
LEMMA UnbiasStep ==
    ASSUME Consts, IInv, NEW t \in Threads, Unbias(t)
    PROVE  IInv'
<1> USE DEF IInv
<1>1. /\ pc[t] = "unbias" /\ ref[t] # Null
      /\ pc'[t] = "idle" /\ ref' = ref
      /\ UNCHANGED <<fast, inUse, old>> /\ Moves(t)
      /\ pc' \in [Threads -> PCs] /\ ref' \in [Threads -> Objects \cup {Null}]
  BY Zenon DEF Unbias, SetRef, Goto, Moves, TypeOK, PCs, SlowPCs, CallInv, Has, HasNot, Dropping, FastWords
<1>2. /\ ref[t] \in Objects /\ count' \in [Objects -> Int]
      /\ \A o \in Objects : count'[o] = count[o] + IF o = ref[t] THEN -MaxFastRefs ELSE 0
  BY <1>1 DEF Unbias, Reference, Dereference, TypeOK, Consts, FastWords
<1>3. CallOf(pc'[t], ref'[t], old[t])
  BY Zenon, <1>1 DEF CallOf, Has, HasNot, Dropping, CallInv
<1>4. ASSUME NEW o \in Objects
      PROVE  Weight(pc'[t], ref'[t], old'[t].obj, o) - Weight(pc[t], ref[t], old[t].obj, o)
             = IF o = ref[t] THEN -MaxFastRefs ELSE 0
  <2>1. Weight(pc[t], ref[t], old[t].obj, o) = IF ref[t] = o THEN 1 + MaxFastRefs ELSE 0
    BY <1>1 DEF Weight, Biasing, Added, Dropping, Consts
  <2>2. Weight(pc'[t], ref'[t], old'[t].obj, o) = IF ref[t] = o THEN 1 ELSE 0
    BY <1>1 DEF Weight, Biasing, Added, Dropping, Consts
  <2> QED  BY <2>1, <2>2 DEF Consts
<1>5. /\ pc[t] \notin Replaced \cup {"flush"} /\ pc'[t] \notin Replaced \cup {"slowRef"}
      /\ pc'[t] \in Swapping => pc[t] \in Swapping /\ ref'[t] = ref[t]
  BY Zenon, <1>1 DEF Replaced, Swapping
<1>6. \A o \in Objects : count'[o] = count[o] + (Weight(pc'[t], ref'[t], old'[t].obj, o)
                                                - Weight(pc[t], ref[t], old[t].obj, o))
  BY Zenon, <1>2, <1>4
<1> HIDE DEF IInv
<1> QED
  BY Zenon, <1>1, <1>2, <1>3, <1>5, <1>6, CountStep

(* SlowRef references the object read under the lock.                      *)
LEMMA SlowRefStep ==
    ASSUME Consts, IInv, NEW t \in Threads, SlowRef(t)
    PROVE  IInv'
<1> USE DEF IInv
<1>1. /\ pc[t] = "slowRef" /\ ref[t] = Null /\ old[t].obj # Null
      /\ pc'[t] = "slowUnlock" /\ ref'[t] = old[t].obj
      /\ UNCHANGED <<fast, inUse, old>> /\ Moves(t)
      /\ pc' \in [Threads -> PCs] /\ ref' \in [Threads -> Objects \cup {Null}]
  BY Zenon DEF SlowRef, SetRef, Goto, Moves, TypeOK, PCs, SlowPCs, CallInv, Has, HasNot, Dropping, FastWords
<1>2. /\ old[t].obj \in Objects /\ count' \in [Objects -> Int]
      /\ \A o \in Objects : count'[o] = count[o] + IF o = old[t].obj THEN 1 ELSE 0
  BY <1>1 DEF SlowRef, Reference, Dereference, TypeOK, Consts, FastWords
<1>3. CallOf(pc'[t], ref'[t], old[t])
  BY Zenon, <1>1 DEF CallOf, Has, HasNot, Dropping, CallInv
<1>4. ASSUME NEW o \in Objects
      PROVE  Weight(pc'[t], ref'[t], old'[t].obj, o) - Weight(pc[t], ref[t], old[t].obj, o)
             = IF o = old[t].obj THEN 1 ELSE 0
  <2>1. Weight(pc[t], ref[t], old[t].obj, o) = 0
    BY <1>1 DEF Weight, Biasing, Added, Dropping, Consts
  <2>2. Weight(pc'[t], ref'[t], old'[t].obj, o) = IF old[t].obj = o THEN 1 ELSE 0
    BY <1>1 DEF Weight, Biasing, Added, Dropping, Consts
  <2> QED  BY <2>1, <2>2 DEF Consts
<1>5. /\ pc[t] \notin Replaced \cup {"flush"} /\ pc'[t] \notin Replaced \cup {"slowRef"}
      /\ pc'[t] \in Swapping => pc[t] \in Swapping /\ ref'[t] = ref[t]
  BY Zenon, <1>1 DEF Replaced, Swapping
<1>6. \A o \in Objects : count'[o] = count[o] + (Weight(pc'[t], ref'[t], old'[t].obj, o)
                                                - Weight(pc[t], ref[t], old[t].obj, o))
  BY Zenon, <1>2, <1>4
<1> HIDE DEF IInv
<1> QED
  BY Zenon, <1>1, <1>2, <1>3, <1>5, <1>6, CountStep

(* DerefObject drops a reference of the object itself.                     *)
LEMMA DerefObjectStep ==
    ASSUME Consts, IInv, NEW t \in Threads, DerefObject(t)
    PROVE  IInv'
<1> USE DEF IInv
<1>1. /\ pc[t] \in {"derefObject", "idle"} /\ ref[t] # Null
      /\ pc'[t] = "idle" /\ ref'[t] = Null
      /\ UNCHANGED <<fast, inUse, old>> /\ Moves(t)
      /\ pc' \in [Threads -> PCs] /\ ref' \in [Threads -> Objects \cup {Null}]
  BY Zenon DEF DerefObject, SetRef, Goto, Moves, TypeOK, PCs, SlowPCs, CallInv, Has, HasNot, Dropping, FastWords
<1>2. /\ ref[t] \in Objects /\ count' \in [Objects -> Int]
      /\ \A o \in Objects : count'[o] = count[o] + IF o = ref[t] THEN -1 ELSE 0
  BY <1>1 DEF DerefObject, Reference, Dereference, TypeOK, Consts, FastWords
<1>3. CallOf(pc'[t], ref'[t], old[t])
  BY Zenon, <1>1 DEF CallOf, Has, HasNot, Dropping, CallInv
<1>4. ASSUME NEW o \in Objects
      PROVE  Weight(pc'[t], ref'[t], old'[t].obj, o) - Weight(pc[t], ref[t], old[t].obj, o)
             = IF o = ref[t] THEN -1 ELSE 0
  <2>1. Weight(pc[t], ref[t], old[t].obj, o) = IF ref[t] = o THEN 1 ELSE 0
    BY <1>1 DEF Weight, Biasing, Added, Dropping, Consts
  <2>2. Weight(pc'[t], ref'[t], old'[t].obj, o) = 0
    BY <1>1 DEF Weight, Biasing, Added, Dropping, Consts
  <2> QED  BY <2>1, <2>2 DEF Consts
<1>5. /\ pc[t] \notin Replaced \cup {"flush"} /\ pc'[t] \notin Replaced \cup {"slowRef"}
      /\ pc'[t] \in Swapping => pc[t] \in Swapping /\ ref'[t] = ref[t]
  BY Zenon, <1>1 DEF Replaced, Swapping
<1>6. \A o \in Objects : count'[o] = count[o] + (Weight(pc'[t], ref'[t], old'[t].obj, o)
                                                - Weight(pc[t], ref[t], old[t].obj, o))
  BY Zenon, <1>2, <1>4
<1> HIDE DEF IInv
<1> QED
  BY Zenon, <1>1, <1>2, <1>3, <1>5, <1>6, CountStep

(* SwapRef adds the reference the pointer is to have.                      *)
LEMMA SwapRefStep ==
    ASSUME Consts, IInv, NEW t \in Threads, SwapRef(t)
    PROVE  IInv'
<1> USE DEF IInv
<1>1. /\ pc[t] = "swapRef" /\ ref[t] # Null
      /\ pc'[t] = "swapBias" /\ ref' = ref
      /\ UNCHANGED <<fast, inUse, old>> /\ Moves(t)
      /\ pc' \in [Threads -> PCs] /\ ref' \in [Threads -> Objects \cup {Null}]
  BY Zenon DEF SwapRef, SetRef, Goto, Moves, TypeOK, PCs, SlowPCs, CallInv, Has, HasNot, Dropping, FastWords
<1>2. /\ ref[t] \in Objects /\ count' \in [Objects -> Int]
      /\ \A o \in Objects : count'[o] = count[o] + IF o = ref[t] THEN 1 ELSE 0
  BY <1>1 DEF SwapRef, Reference, Dereference, TypeOK, Consts, FastWords
<1>3. CallOf(pc'[t], ref'[t], old[t])
  BY Zenon, <1>1 DEF CallOf, Has, HasNot, Dropping, CallInv
<1>4. ASSUME NEW o \in Objects
      PROVE  Weight(pc'[t], ref'[t], old'[t].obj, o) - Weight(pc[t], ref[t], old[t].obj, o)
             = IF o = ref[t] THEN 1 ELSE 0
  <2>1. Weight(pc[t], ref[t], old[t].obj, o) = IF ref[t] = o THEN 1 ELSE 0
    BY <1>1 DEF Weight, Biasing, Added, Dropping, Consts
  <2>2. Weight(pc'[t], ref'[t], old'[t].obj, o) = IF ref[t] = o THEN 2 ELSE 0
    BY <1>1 DEF Weight, Biasing, Added, Dropping, Consts
  <2> QED  BY <2>1, <2>2 DEF Consts
<1>5. /\ pc[t] \notin Replaced \cup {"flush"} /\ pc'[t] \notin Replaced \cup {"slowRef"}
      /\ pc'[t] \in Swapping => pc[t] \in Swapping /\ ref'[t] = ref[t]
  BY Zenon, <1>1 DEF Replaced, Swapping
<1>6. \A o \in Objects : count'[o] = count[o] + (Weight(pc'[t], ref'[t], old'[t].obj, o)
                                                - Weight(pc[t], ref[t], old[t].obj, o))
  BY Zenon, <1>2, <1>4
<1> HIDE DEF IInv
<1> QED
  BY Zenon, <1>1, <1>2, <1>3, <1>5, <1>6, CountStep

(* SwapBias adds those the cache is to have.                               *)
LEMMA SwapBiasStep ==
    ASSUME Consts, IInv, NEW t \in Threads, SwapBias(t)
    PROVE  IInv'
<1> USE DEF IInv
<1>1. /\ pc[t] = "swapBias" /\ ref[t] # Null
      /\ pc'[t] = "swap" /\ ref' = ref
      /\ UNCHANGED <<fast, inUse, old>> /\ Moves(t)
      /\ pc' \in [Threads -> PCs] /\ ref' \in [Threads -> Objects \cup {Null}]
  BY Zenon DEF SwapBias, SetRef, Goto, Moves, TypeOK, PCs, SlowPCs, CallInv, Has, HasNot, Dropping, FastWords
<1>2. /\ ref[t] \in Objects /\ count' \in [Objects -> Int]
      /\ \A o \in Objects : count'[o] = count[o] + IF o = ref[t] THEN MaxFastRefs ELSE 0
  BY <1>1 DEF SwapBias, Reference, Dereference, TypeOK, Consts, FastWords
<1>3. CallOf(pc'[t], ref'[t], old[t])
  BY Zenon, <1>1 DEF CallOf, Has, HasNot, Dropping, CallInv
<1>4. ASSUME NEW o \in Objects
      PROVE  Weight(pc'[t], ref'[t], old'[t].obj, o) - Weight(pc[t], ref[t], old[t].obj, o)
             = IF o = ref[t] THEN MaxFastRefs ELSE 0
  <2>1. Weight(pc[t], ref[t], old[t].obj, o) = IF ref[t] = o THEN 2 ELSE 0
    BY <1>1 DEF Weight, Biasing, Added, Dropping, Consts
  <2>2. Weight(pc'[t], ref'[t], old'[t].obj, o) = IF ref[t] = o THEN 2 + MaxFastRefs ELSE 0
    BY <1>1 DEF Weight, Biasing, Added, Dropping, Consts
  <2> QED  BY <2>1, <2>2 DEF Consts
<1>5. /\ pc[t] \notin Replaced \cup {"flush"} /\ pc'[t] \notin Replaced \cup {"slowRef"}
      /\ pc'[t] \in Swapping => pc[t] \in Swapping /\ ref'[t] = ref[t]
  BY Zenon, <1>1 DEF Replaced, Swapping
<1>6. \A o \in Objects : count'[o] = count[o] + (Weight(pc'[t], ref'[t], old'[t].obj, o)
                                                - Weight(pc[t], ref[t], old[t].obj, o))
  BY <1>2, <1>4
<1> HIDE DEF IInv
<1> QED
  BY Zenon, <1>1, <1>2, <1>3, <1>5, <1>6, CountStep

(* SwapDrop drops the reference the pointer had to the old object.         *)
LEMMA SwapDropStep ==
    ASSUME Consts, IInv, NEW t \in Threads, SwapDrop(t)
    PROVE  IInv'
<1> USE DEF IInv
<1>1. /\ pc[t] = "swapDrop" /\ ref[t] # Null /\ old[t].obj # Null
      /\ pc'[t] = "idle" /\ ref' = ref
      /\ UNCHANGED <<fast, inUse, old>> /\ Moves(t)
      /\ pc' \in [Threads -> PCs] /\ ref' \in [Threads -> Objects \cup {Null}]
  BY Zenon DEF SwapDrop, SetRef, Goto, Moves, TypeOK, PCs, SlowPCs, CallInv, Has, HasNot, Dropping, FastWords
<1>2. /\ old[t].obj \in Objects /\ count' \in [Objects -> Int]
      /\ \A o \in Objects : count'[o] = count[o] + IF o = old[t].obj THEN -1 ELSE 0
  BY <1>1 DEF SwapDrop, Reference, Dereference, TypeOK, Consts, FastWords
<1>3. CallOf(pc'[t], ref'[t], old[t])
  BY Zenon, <1>1 DEF CallOf, Has, HasNot, Dropping, CallInv
<1>4. ASSUME NEW o \in Objects
      PROVE  Weight(pc'[t], ref'[t], old'[t].obj, o) - Weight(pc[t], ref[t], old[t].obj, o)
             = IF o = old[t].obj THEN -1 ELSE 0
  <2>1. Weight(pc[t], ref[t], old[t].obj, o) = (IF ref[t] = o THEN 1 ELSE 0) + IF old[t].obj = o THEN 1 ELSE 0
    BY <1>1 DEF Weight, Biasing, Added, Dropping, Consts
  <2>2. Weight(pc'[t], ref'[t], old'[t].obj, o) = IF ref[t] = o THEN 1 ELSE 0
    BY <1>1 DEF Weight, Biasing, Added, Dropping, Consts
  <2> QED  BY <2>1, <2>2 DEF Consts
<1>5. /\ pc[t] \notin Replaced \cup {"flush"} /\ pc'[t] \notin Replaced \cup {"slowRef"}
      /\ pc'[t] \in Swapping => pc[t] \in Swapping /\ ref'[t] = ref[t]
  BY Zenon, <1>1 DEF Replaced, Swapping
<1>6. \A o \in Objects : count'[o] = count[o] + (Weight(pc'[t], ref'[t], old'[t].obj, o)
                                                - Weight(pc[t], ref[t], old[t].obj, o))
  BY Zenon, <1>2, <1>4
<1> HIDE DEF IInv
<1> QED
  BY Zenon, <1>1, <1>2, <1>3, <1>5, <1>6, CountStep

-----------------------------------------------------------------------------
(* Swap: the new object's references become the pointer's and the cache's, *)
(* and those of the old one are for t to return and to drop.               *)
LEMMA SwapStep ==
    ASSUME Consts, IInv, NEW t \in Threads, Swap(t)
    PROVE  IInv'
<1> USE DEF IInv
<1>1. /\ pc[t] = "swap" /\ pc'[t] = "swapReturn" /\ old'[t] = fast
      /\ fast' = FastWord(ref[t], MaxFastRefs)
      /\ UNCHANGED <<count, inUse, ref>> /\ Moves(t)
      /\ pc' \in [Threads -> PCs] /\ old' \in [Threads -> FastWords]
  BY Zenon DEF Swap, SetOld, Goto, Moves, TypeOK, PCs
<1>2. /\ fast \in FastWords /\ fast.n \in Nat /\ fast.obj \in Objects
      /\ ref[t] \in Objects /\ ref[t] # fast.obj /\ fast.obj # Null /\ ref[t] # Null
  <2>1. fast \in FastWords /\ ref[t] \in Objects \cup {Null}
    BY Zenon DEF TypeOK
  <2>2. pc[t] \in Swapping /\ pc[t] \in Has
    BY Zenon, <1>1 DEF Swapping, Has
  <2>3. fast.obj # Null /\ fast.obj # ref[t] /\ ref[t] # Null
    BY Zenon, <2>2 DEF UseInv, CallInv
  <2> QED  BY <2>1, <2>3 DEF FastWords, Consts
<1>3. fast' \in FastWords /\ fast'.obj = ref[t] /\ fast'.n = MaxFastRefs
  BY <1>1, <1>2 DEF FastWord, FastWords, Consts
<1>4. PICK x \in Objects : x = fast.obj
  BY Zenon, <1>2
<1>5. PICK n \in Nat : n = fast.n
  BY Zenon, <1>2
<1>6. Returned(x) = {} /\ Returned(x)' = {t}
  <2>1. ASSUME NEW u \in Threads, old[u].obj = x, pc[u] = "swapReturn" PROVE FALSE
    BY Zenon, <1>4, <2>1 DEF UseInv, Replaced
  <2>2. Returned(x) = {}
    BY Zenon, <2>1 DEF Returned
  <2>3. {u \in Threads : old'[u].obj = x /\ pc'[u] = "swapReturn"} = {t}
    BY Zenon, <1>1, <1>4, <2>1 DEF Moves
  <2> QED  BY Zenon, <2>2, <2>3 DEF Returned
<1>7. ASSUME NEW o \in Objects
      PROVE  ToReturn(o)' \in Nat /\ ToReturn(o)' - ToReturn(o) = IF o = x THEN n ELSE 0
  <2>1. CASE o # x
    <3>1. ToReturn(o)' = ToReturn(o)
      BY Zenon, <1>1, <1>4, <2>1, ToReturnSame
    <3> QED  BY <2>1, <3>1, ToReturnType
  <2>2. CASE o = x
    <3>1. ToReturn(x) = 0
      BY Zenon, <1>6 DEF ToReturn
    <3>2. (CHOOSE u \in {t} : TRUE) = t /\ {t} # {}
      OBVIOUS
    <3>3. ToReturn(x)' = old'[t].n
      BY Zenon, <1>6, <3>2 DEF ToReturn
    <3> QED  BY <1>1, <1>5, <2>2, <3>1, <3>3
  <2> QED  BY Zenon, <2>1, <2>2
<1>8. ASSUME NEW o \in Objects
      PROVE  /\ CachedRefs(o)' \in Nat
             /\ CachedRefs(o)' - CachedRefs(o)
                = (IF ref[t] = o THEN 1 + MaxFastRefs ELSE 0) - (IF o = x THEN 1 + n ELSE 0)
             /\ Weight(pc'[t], ref'[t], old'[t].obj, o) - Weight(pc[t], ref[t], old[t].obj, o)
                = (IF o = x THEN 1 ELSE 0) - (IF ref[t] = o THEN 1 + MaxFastRefs ELSE 0)
  <2>1. CachedRefs(o)' = IF ref[t] = o THEN 1 + MaxFastRefs ELSE 0
    BY Zenon, <1>3 DEF CachedRefs
  <2>2. CachedRefs(o) = IF o = x THEN 1 + n ELSE 0
    BY Zenon, <1>4, <1>5 DEF CachedRefs
  <2>3. Weight(pc[t], ref[t], old[t].obj, o) = IF ref[t] = o THEN 2 + MaxFastRefs ELSE 0
    BY <1>1 DEF Weight, Biasing, Added, Dropping, Consts
  <2>4. Weight(pc'[t], ref'[t], old'[t].obj, o) = (IF ref[t] = o THEN 1 ELSE 0) + IF o = x THEN 1 ELSE 0
    BY <1>1, <1>4 DEF Weight, Biasing, Added, Dropping, Consts
  <2> QED  BY <2>1, <2>2, <2>3, <2>4 DEF Consts
<1>9. RefsExact'
  <2>1. ASSUME NEW o \in Objects
        PROVE  /\ CachedRefs(o)' \in Nat /\ ToReturn(o)' \in Nat
               /\ count'[o] = CachedRefs(o)' + OfThreads(o)' + ToReturn(o)'
    <3>1. count'[o] = count[o] /\ count[o] \in Int
      BY <1>1 DEF TypeOK
    <3>2. count'[o] = count[o] + (CachedRefs(o)' - CachedRefs(o))
                      + (Weight(pc'[t], ref'[t], old'[t].obj, o)
                         - Weight(pc[t], ref[t], old[t].obj, o))
                      + (ToReturn(o)' - ToReturn(o))
      BY <1>7, <1>8, <3>1 DEF Consts
    <3>3. CachedRefs(o)' \in Nat /\ ToReturn(o)' \in Nat
      BY Zenon, <1>7, <1>8
    <3> QED  BY Zenon, <1>1, <3>2, <3>3, ExactFor
  <2> QED  BY Zenon, <2>1, ExactAll
<1>10. TypeOK'
  BY Zenon, <1>1, <1>2, <1>3 DEF TypeOK
<1>11. CallInv'
  <2>1. CallOf(pc'[t], ref'[t], old'[t])
    BY Zenon, <1>1, <1>2 DEF CallOf, Has, HasNot, Dropping
  <2> QED  BY Zenon, <1>1, <2>1, CallKept
<1>12. UseInv'
  <2>0. /\ pc[t] \in Swapping /\ pc[t] \notin Replaced /\ inUse[ref[t]] /\ inUse[fast.obj]
        /\ pc'[t] \notin Swapping
        /\ \A u \in Threads : u # t => ref'[u] = ref[u] /\ pc'[u] = pc[u] /\ old'[u] = old[u]
    BY Zenon, <1>1, <1>2 DEF UseInv, Swapping, Replaced, Moves
  <2>1. fast'.obj # Null /\ inUse'[fast'.obj]
    BY Zenon, <1>1, <1>2, <1>3, <2>0
  <2>2. ASSUME NEW u \in Threads
        PROVE  /\ pc'[u] \in Swapping => fast'.obj # Null /\ inUse'[ref'[u]] /\ fast'.obj # ref'[u]
               /\ pc'[u] \in Replaced => inUse'[old'[u].obj] /\ fast'.obj # old'[u].obj
    <3>1. CASE u = t
      BY Zenon, <1>1, <1>2, <1>3, <2>0, <3>1
    <3>2. CASE u # t
      BY <1>1, <1>2, <1>3, <2>0, <3>2 DEF UseInv
    <3> QED  BY Zenon, <3>1, <3>2
  <2>3. ASSUME NEW u \in Threads, NEW v \in Threads
        PROVE  /\ pc'[u] \in Swapping /\ pc'[v] \in Swapping /\ ref'[u] = ref'[v] => u = v
               /\ pc'[u] \in Replaced /\ pc'[v] \in Replaced /\ old'[u].obj = old'[v].obj => u = v
               /\ pc'[u] \in Swapping /\ pc'[v] \in Replaced => ref'[u] # old'[v].obj
    <3>1. CASE u # t /\ v # t
      BY <1>1, <2>0, <3>1 DEF UseInv
    <3>2. CASE u = t \/ v = t
      BY <1>1, <2>0, <3>2 DEF UseInv
    <3> QED  BY Zenon, <3>1, <3>2
  <2> QED  BY Zenon, <2>1, <2>2, <2>3 DEF UseInv
<1>13. SlowInv'
  <2> SUFFICES ASSUME NEW u \in Threads, pc'[u] = "slowRef"
               PROVE  \E v \in Threads : /\ old'[v].obj = old'[u].obj
                                         /\ pc'[v] \in {"swapReturn", "swapUnuse", "flush"}
    BY Zenon DEF SlowInv
  <2>1. u # t /\ pc[u] = "slowRef" /\ old'[u] = old[u]
    BY Zenon, <1>1 DEF Moves
  <2>2. CASE fast.obj = old[u].obj
    BY Zenon, <1>1, <2>1, <2>2
  <2>3. CASE fast.obj # old[u].obj
    <3>1. PICK v \in Threads : /\ old[v].obj = old[u].obj
                               /\ pc[v] \in {"swapReturn", "swapUnuse", "flush"}
      BY Zenon, <2>1, <2>3 DEF SlowInv
    <3> QED  BY Zenon, <1>1, <2>1, <3>1 DEF Moves
  <2> QED  BY Zenon, <2>2, <2>3
<1> QED
  BY Zenon, <1>9, <1>10, <1>11, <1>12, <1>13

(* SwapReturn: the references cached for the old object are returned; no   *)
(* other exchange returns references of that object.                       *)
LEMMA SwapReturnStep ==
    ASSUME Consts, IInv, NEW t \in Threads, SwapReturn(t)
    PROVE  IInv'
<1> USE DEF IInv
<1>1. /\ pc[t] = "swapReturn" /\ pc'[t] = "swapUnuse"
      /\ UNCHANGED <<fast, inUse, ref, old>> /\ Moves(t)
      /\ pc' \in [Threads -> PCs]
  BY Zenon DEF SwapReturn, Goto, Moves, TypeOK, PCs
<1>2. old[t].obj \in Objects /\ old[t].n \in Nat /\ ref[t] # Null /\ old[t].obj # Null
  <2>1. old[t] \in FastWords /\ old[t].obj # Null /\ ref[t] # Null
    BY Zenon, <1>1 DEF TypeOK, CallInv, Dropping, Has
  <2> QED  BY <2>1 DEF FastWords, Consts
<1>3. PICK x \in Objects : x = old[t].obj
  BY Zenon, <1>2
<1>4. PICK n \in Nat : n = old[t].n
  BY Zenon, <1>2
<1>5. /\ count' \in [Objects -> Int]
      /\ \A o \in Objects : count'[o] = count[o] - IF o = x THEN n ELSE 0
  <2>1. count' = [count EXCEPT ![x] = @ - n]
    BY Zenon, <1>3, <1>4 DEF SwapReturn, Dereference
  <2> QED  BY <2>1 DEF TypeOK
<1>6. Returned(x) = {t} /\ Returned(x)' = {}
  <2>1. ASSUME NEW u \in Threads, old[u].obj = x, pc[u] = "swapReturn" PROVE u = t
    BY Zenon, <1>1, <1>3, <2>1 DEF UseInv, Replaced
  <2>2. Returned(x) = {t}
    BY Zenon, <1>1, <1>3, <2>1 DEF Returned
  <2>3. {u \in Threads : old'[u].obj = x /\ pc'[u] = "swapReturn"} = {}
    BY Zenon, <1>1, <2>1 DEF Moves
  <2> QED  BY Zenon, <2>2, <2>3 DEF Returned
<1>7. ASSUME NEW o \in Objects
      PROVE  /\ ToReturn(o)' \in Nat
             /\ ToReturn(o)' - ToReturn(o) = IF o = x THEN -n ELSE 0
  <2>1. CASE o # x
    <3>1. ToReturn(o)' = ToReturn(o)
      BY Zenon, <1>1, <1>3, <2>1, ToReturnSame
    <3> QED  BY <2>1, <3>1, ToReturnType
  <2>2. CASE o = x
    <3>1. ToReturn(x) = n
      BY Zenon, <1>4, <1>6, ToReturnOne
    <3>2. ToReturn(x)' = 0
      BY Zenon, <1>6 DEF ToReturn
    <3> QED  BY <2>2, <3>1, <3>2
  <2> QED  BY Zenon, <2>1, <2>2
<1>8. ASSUME NEW o \in Objects
      PROVE  /\ CachedRefs(o)' = CachedRefs(o) /\ CachedRefs(o) \in Nat
             /\ Weight(pc'[t], ref'[t], old'[t].obj, o) = Weight(pc[t], ref[t], old[t].obj, o)
             /\ Weight(pc[t], ref[t], old[t].obj, o) \in Int
  <2>1. CachedRefs(o)' = CachedRefs(o) /\ CachedRefs(o) \in Nat
    BY Zenon, <1>1, ToReturnType DEF CachedRefs
  <2> QED  BY <1>1, <2>1 DEF Weight, Biasing, Added, Dropping, Consts
<1>9. ASSUME NEW o \in Objects
      PROVE  /\ CachedRefs(o)' \in Nat /\ ToReturn(o)' \in Nat
             /\ count'[o] = CachedRefs(o)' + OfThreads(o)' + ToReturn(o)'
             /\ count'[o] \in Nat
  <2>1. count'[o] = count[o] + (CachedRefs(o)' - CachedRefs(o))
                    + (Weight(pc'[t], ref'[t], old'[t].obj, o)
                       - Weight(pc[t], ref[t], old[t].obj, o))
                    + (ToReturn(o)' - ToReturn(o))
    <3>1. count[o] \in Int
      BY DEF TypeOK
    <3> QED  BY <1>5, <1>7, <1>8, <3>1
  <2>2. CachedRefs(o)' \in Nat /\ ToReturn(o)' \in Nat
    BY Zenon, <1>7, <1>8
  <2> QED  BY Zenon, <1>1, <2>1, <2>2, ExactFor
<1>10. RefsExact'
  BY Zenon, <1>9, ExactAll
<1>11. TypeOK'
  <2>1. count' \in [Objects -> Nat]
    BY Zenon, <1>5, <1>9
  <2> QED  BY Zenon, <1>1, <2>1 DEF TypeOK
<1>12. CallInv'
  <2>1. CallOf(pc'[t], ref'[t], old'[t])
    BY Zenon, <1>1, <1>2 DEF CallOf, Has, HasNot, Dropping
  <2> QED  BY Zenon, <1>1, <2>1, CallKept
<1>13. UseInv'
  BY Zenon, <1>1, UseKept DEF Swapping, Replaced
<1>14. SlowInv'
  BY Zenon, <1>1, SlowKept
<1> QED
  BY <1>10, <1>11, <1>12, <1>13, <1>14

(* A step of t that moves no reference.                                    *)
LEMMA FlagStep ==
    ASSUME Consts, IInv, NEW t \in Threads, Moves(t), UNCHANGED <<fast, count, ref, old>>,
           pc' \in [Threads -> PCs], inUse' \in [Objects -> BOOLEAN],
           pc[t] # "swapReturn", pc'[t] # "swapReturn",
           pc[t] \in Biasing <=> pc'[t] \in Biasing, pc[t] \in Added <=> pc'[t] \in Added,
           pc[t] \in Dropping <=> pc'[t] \in Dropping,
           CallOf(pc'[t], ref[t], old[t])
    PROVE  TypeOK' /\ RefsExact' /\ CallInv'
<1> USE DEF IInv
<1>1. ASSUME NEW o \in Objects
      PROVE  count'[o] = count[o] + (CachedRefs(o)' - CachedRefs(o))
                         + (Weight(pc'[t], ref'[t], old'[t].obj, o)
                            - Weight(pc[t], ref[t], old[t].obj, o))
  <2>1. /\ Weight(pc'[t], ref'[t], old'[t].obj, o) = Weight(pc[t], ref[t], old[t].obj, o)
        /\ Weight(pc[t], ref[t], old[t].obj, o) \in Int
    BY DEF Weight, Consts
  <2>2. CachedRefs(o)' = CachedRefs(o) /\ CachedRefs(o) \in Nat
    BY Zenon, ToReturnType DEF CachedRefs
  <2> QED  BY <2>1, <2>2 DEF TypeOK
<1>2. fast' \in FastWords /\ count' \in [Objects -> Int]
  BY DEF TypeOK
<1>3. RefsExact' /\ count' \in [Objects -> Nat]
  BY Zenon, <1>1, <1>2, ExactStep
<1>4. TypeOK'
  BY Zenon, <1>3 DEF TypeOK
<1>5. CallInv'
  BY Zenon, CallKept
<1> QED
  BY Zenon, <1>3, <1>4, <1>5

(* Exchange: the flag of a token that is not in use has no owner; t        *)
(* becomes its owner.                                                      *)
LEMMA ExchangeStep ==
    ASSUME Consts, IInv, NEW t \in Threads, Exchange(t)
    PROVE  IInv'
<1> USE DEF IInv
<1>1. /\ pc[t] = "idle" /\ ref[t] # Null /\ ~inUse[ref[t]] /\ fast # Empty
      /\ inUse' = [inUse EXCEPT ![ref[t]] = TRUE] /\ pc'[t] = "swapRef"
      /\ UNCHANGED <<fast, count, ref, old>> /\ Moves(t)
      /\ pc' \in [Threads -> PCs] /\ inUse' \in [Objects -> BOOLEAN]
  BY Zenon DEF Exchange, Goto, Moves, TypeOK, PCs
<1>2. /\ ref[t] \in Objects /\ fast.obj # Null /\ fast.obj \in Objects
      /\ inUse'[ref[t]] /\ \A o \in Objects : inUse[o] => inUse'[o]
  <2>1. fast \in FastWords /\ (fast.obj = Null => fast.n = 0) /\ ref[t] \in Objects
    BY Zenon, <1>1 DEF TypeOK
  <2>2. fast.obj # Null
    BY Zenon, <1>1, <2>1 DEF FastWords, Empty, FastWord
  <2> QED  BY Zenon, <1>1, <2>1, <2>2 DEF TypeOK, FastWords
<1>3. TypeOK' /\ RefsExact' /\ CallInv'
  <2>1. CallOf(pc'[t], ref[t], old[t])
    BY Zenon, <1>1 DEF CallOf, Has, HasNot, Dropping
  <2> QED  BY Zenon, <1>1, <2>1, FlagStep DEF Biasing, Added, Dropping
<1>4. UseInv'
  <2>0. /\ pc[t] \notin Swapping /\ pc'[t] \in Swapping /\ pc'[t] \notin Replaced
        /\ \A u \in Threads : u # t => pc'[u] = pc[u]
    BY Zenon, <1>1 DEF Swapping, Replaced, Moves
  <2>1. \A u \in Threads : /\ pc[u] \in Swapping => ref[u] \in Objects /\ ref[u] # ref[t]
                           /\ pc[u] \in Replaced => old[u].obj \in Objects /\ old[u].obj # ref[t]
    BY <1>1 DEF UseInv, TypeOK, CallInv, Swapping, Replaced, Has, Dropping, FastWords
  <2>2. fast.obj # ref[t]
    BY Zenon, <1>1, <1>2 DEF UseInv
  <2>3. fast'.obj # Null => inUse'[fast'.obj]
    BY Zenon, <1>1, <1>2 DEF UseInv
  <2>4. ASSUME NEW u \in Threads
        PROVE  /\ pc'[u] \in Swapping => fast'.obj # Null /\ inUse'[ref'[u]] /\ fast'.obj # ref'[u]
               /\ pc'[u] \in Replaced => inUse'[old'[u].obj] /\ fast'.obj # old'[u].obj
    <3>1. CASE u = t
      BY Zenon, <1>1, <1>2, <2>0, <2>2, <3>1
    <3>2. CASE u # t
      BY Zenon, <1>1, <1>2, <2>0, <2>1, <3>2 DEF UseInv
    <3> QED  BY Zenon, <3>1, <3>2
  <2>5. ASSUME NEW u \in Threads, NEW v \in Threads
        PROVE  /\ pc'[u] \in Swapping /\ pc'[v] \in Swapping /\ ref'[u] = ref'[v] => u = v
               /\ pc'[u] \in Replaced /\ pc'[v] \in Replaced /\ old'[u].obj = old'[v].obj => u = v
               /\ pc'[u] \in Swapping /\ pc'[v] \in Replaced => ref'[u] # old'[v].obj
    BY <1>1, <2>0, <2>1 DEF UseInv
  <2> QED  BY Zenon, <2>3, <2>4, <2>5 DEF UseInv
<1>5. SlowInv'
  BY Zenon, <1>1, SlowKept
<1> QED
  BY Zenon, <1>3, <1>4, <1>5

(* SwapUnuse: the flag of the old token has no other owner than t.         *)
LEMMA SwapUnuseStep ==
    ASSUME Consts, IInv, NEW t \in Threads, SwapUnuse(t)
    PROVE  IInv'
<1> USE DEF IInv
<1>1. /\ pc[t] = "swapUnuse" /\ pc'[t] = "flush"
      /\ inUse' = [inUse EXCEPT ![old[t].obj] = FALSE]
      /\ UNCHANGED <<fast, count, ref, old>> /\ Moves(t)
      /\ pc' \in [Threads -> PCs] /\ inUse' \in [Objects -> BOOLEAN]
      /\ ref[t] # Null /\ old[t].obj # Null
  BY Zenon DEF SwapUnuse, Goto, Moves, TypeOK, PCs, CallInv, Has, Dropping
<1>2. \A o \in Objects : o # old[t].obj => inUse'[o] = inUse[o]
  BY Zenon, <1>1 DEF TypeOK
<1>3. TypeOK' /\ RefsExact' /\ CallInv'
  <2>1. CallOf(pc'[t], ref[t], old[t])
    BY Zenon, <1>1 DEF CallOf, Has, HasNot, Dropping
  <2> QED  BY Zenon, <1>1, <2>1, FlagStep DEF Biasing, Added, Dropping
<1>4. UseInv'
  <2>0. /\ pc[t] \in Replaced /\ pc'[t] \notin Swapping /\ pc'[t] \notin Replaced
        /\ \A u \in Threads : u # t => pc'[u] = pc[u]
    BY Zenon, <1>1 DEF Swapping, Replaced, Moves
  <2>1. /\ fast.obj # Null => fast.obj \in Objects
        /\ \A u \in Threads : /\ pc[u] \in Swapping => ref[u] \in Objects
                              /\ pc[u] \in Replaced => old[u].obj \in Objects
    BY Zenon DEF TypeOK, CallInv, Swapping, Replaced, Has, Dropping, FastWords
  <2>2. fast'.obj # Null => inUse'[fast'.obj]
    BY Zenon, <1>1, <1>2, <2>0, <2>1 DEF UseInv
  <2>3. ASSUME NEW u \in Threads
        PROVE  /\ pc'[u] \in Swapping => fast'.obj # Null /\ inUse'[ref'[u]] /\ fast'.obj # ref'[u]
               /\ pc'[u] \in Replaced => inUse'[old'[u].obj] /\ fast'.obj # old'[u].obj
    <3>1. CASE u = t
      BY Zenon, <2>0, <3>1
    <3>2. CASE u # t
      <4>1. pc'[u] \in Swapping => pc[u] \in Swapping /\ ref[u] # old[t].obj
        BY Zenon, <2>0, <3>2 DEF UseInv
      <4>2. pc'[u] \in Replaced => pc[u] \in Replaced /\ old[u].obj # old[t].obj
        BY Zenon, <2>0, <3>2 DEF UseInv
      <4> QED  BY Zenon, <1>1, <1>2, <2>1, <4>1, <4>2 DEF UseInv
    <3> QED  BY <3>1, <3>2
  <2>4. ASSUME NEW u \in Threads, NEW v \in Threads
        PROVE  /\ pc'[u] \in Swapping /\ pc'[v] \in Swapping /\ ref'[u] = ref'[v] => u = v
               /\ pc'[u] \in Replaced /\ pc'[v] \in Replaced /\ old'[u].obj = old'[v].obj => u = v
               /\ pc'[u] \in Swapping /\ pc'[v] \in Replaced => ref'[u] # old'[v].obj
    BY Zenon, <1>1, <2>0 DEF UseInv
  <2> QED  BY <2>2, <2>3, <2>4 DEF UseInv
<1>5. SlowInv'
  BY Zenon, <1>1, SlowKept
<1> QED
  BY <1>3, <1>4, <1>5

(* Flush: nobody is in the slow path.                                      *)
LEMMA FlushStep ==
    ASSUME Consts, IInv, NEW t \in Threads, Flush(t)
    PROVE  IInv'
<1> USE DEF IInv
<1>1. /\ pc[t] = "flush" /\ pc'[t] = "swapDrop"
      /\ UNCHANGED <<fast, count, inUse, ref, old>> /\ Moves(t)
      /\ pc' \in [Threads -> PCs] /\ inUse' \in [Objects -> BOOLEAN]
      /\ ref[t] # Null /\ old[t].obj # Null
      /\ \A u \in Threads : pc[u] # "slowRef"
  BY Zenon DEF Flush, Goto, Moves, TypeOK, PCs, SlowPCs, CallInv, Has, Dropping
<1>2. TypeOK' /\ RefsExact' /\ CallInv'
  <2>1. CallOf(pc'[t], ref[t], old[t])
    BY Zenon, <1>1 DEF CallOf, Has, HasNot, Dropping
  <2> QED  BY Zenon, <1>1, <2>1, FlagStep DEF Biasing, Added, Dropping
<1>3. UseInv'
  BY Zenon, <1>1, UseKept DEF Swapping, Replaced
<1>4. SlowInv'
  BY <1>1 DEF SlowInv, Moves
<1> QED
  BY <1>2, <1>3, <1>4

(* Create: an object without references has no owner of its flag.          *)
LEMMA CreateStep ==
    ASSUME Consts, IInv, NEW t \in Threads, NEW x \in Objects, Create(t, x)
    PROVE  IInv'
<1> USE DEF IInv
<1>1. /\ pc[t] = "idle" /\ ref[t] = Null /\ count[x] = 0
      /\ inUse' = [inUse EXCEPT ![x] = FALSE] /\ ref'[t] = x
      /\ UNCHANGED <<fast, pc, old>> /\ Moves(t)
      /\ ref' \in [Threads -> Objects \cup {Null}] /\ inUse' \in [Objects -> BOOLEAN]
      /\ count' \in [Objects -> Int]
      /\ \A o \in Objects : count'[o] = count[o] + IF o = x THEN 1 ELSE 0
  BY DEF Create, SetRef, Moves, TypeOK
<1>2. /\ fast.obj # x
      /\ \A u \in Threads : ref[u] # x
      /\ \A u \in Threads : pc[u] \in Dropping => old[u].obj # x
  BY <1>1, Positive
<1>3. RefsExact' /\ count' \in [Objects -> Nat]
  <2>1. ASSUME NEW o \in Objects
        PROVE  count'[o] = count[o] + (CachedRefs(o)' - CachedRefs(o))
                           + (Weight(pc'[t], ref'[t], old'[t].obj, o)
                              - Weight(pc[t], ref[t], old[t].obj, o))
    <3>1. Weight(pc[t], ref[t], old[t].obj, o) = 0
      BY <1>1 DEF Weight, Biasing, Added, Dropping, Consts
    <3>2. Weight(pc'[t], ref'[t], old'[t].obj, o) = IF o = x THEN 1 ELSE 0
      BY <1>1 DEF Weight, Biasing, Added, Dropping, Consts
    <3>3. CachedRefs(o)' = CachedRefs(o) /\ CachedRefs(o) \in Nat
      BY Zenon, <1>1, ToReturnType DEF CachedRefs
    <3>4. count[o] \in Int
      BY DEF TypeOK
    <3> QED  BY <1>1, <3>1, <3>2, <3>3, <3>4
  <2>2. fast' \in FastWords /\ pc'[t] # "swapReturn" /\ pc[t] # "swapReturn"
    BY Zenon, <1>1 DEF TypeOK
  <2> QED  BY Zenon, <1>1, <2>1, <2>2, ExactStep
<1>4. TypeOK'
  BY Zenon, <1>1, <1>3 DEF TypeOK
<1>5. CallInv'
  <2>1. CallOf(pc'[t], ref'[t], old'[t])
    BY Zenon, <1>1 DEF CallOf, Has, HasNot, Dropping
  <2> QED  BY Zenon, <1>1, <2>1, CallKept
<1>6. UseInv'
  <2>1. /\ pc[t] \notin Swapping /\ pc[t] \notin Replaced
        /\ fast.obj # Null => fast.obj \in Objects
        /\ \A u \in Threads : /\ pc[u] \in Swapping => ref[u] \in Objects /\ ref[u] # x
                              /\ pc[u] \in Replaced => old[u].obj \in Objects /\ old[u].obj # x
                              /\ u # t => ref'[u] = ref[u]
    BY <1>1, <1>2 DEF TypeOK, CallInv, Swapping, Replaced, Has, Dropping, FastWords, Moves
  <2>2. \A o \in Objects : o # x => inUse'[o] = inUse[o]
    BY Zenon, <1>1 DEF TypeOK
  <2>3. fast'.obj # Null => inUse'[fast'.obj]
    BY <1>1, <1>2, <2>1, <2>2 DEF UseInv
  <2>4. ASSUME NEW u \in Threads
        PROVE  /\ pc'[u] \in Swapping => fast'.obj # Null /\ inUse'[ref'[u]] /\ fast'.obj # ref'[u]
               /\ pc'[u] \in Replaced => inUse'[old'[u].obj] /\ fast'.obj # old'[u].obj
    BY <1>1, <2>1, <2>2 DEF UseInv
  <2>5. ASSUME NEW u \in Threads, NEW v \in Threads
        PROVE  /\ pc'[u] \in Swapping /\ pc'[v] \in Swapping /\ ref'[u] = ref'[v] => u = v
               /\ pc'[u] \in Replaced /\ pc'[v] \in Replaced /\ old'[u].obj = old'[v].obj => u = v
               /\ pc'[u] \in Swapping /\ pc'[v] \in Replaced => ref'[u] # old'[v].obj
    BY <1>1, <2>1 DEF UseInv
  <2> QED  BY Zenon, <2>3, <2>4, <2>5 DEF UseInv
<1>7. SlowInv'
  BY Zenon, <1>1, SlowKept
<1> QED
  BY Zenon, <1>3, <1>4, <1>5, <1>6, <1>7

(* Assign and Deassign: with no call in progress the pointer is set, or    *)
(* reset, together with the references it and the cache have.              *)
LEMMA QuietStep ==
    ASSUME Consts, IInv, Quiet, UNCHANGED <<pc, ref, old>>,
           fast' \in FastWords, fast'.obj = Null => fast'.n = 0,
           fast'.obj # Null => inUse'[fast'.obj],
           inUse' \in [Objects -> BOOLEAN], count' \in [Objects -> Int],
           \A o \in Objects : count'[o] = count[o] + (CachedRefs(o)' - CachedRefs(o))
    PROVE  IInv'
<1> USE DEF IInv
<1>1. \A t \in Threads : pc[t] = "idle" /\ pc'[t] = "idle"
  BY Zenon DEF Quiet
<1>2. ASSUME NEW o \in Objects
      PROVE  /\ CachedRefs(o)' \in Nat /\ ToReturn(o)' \in Nat
             /\ count'[o] = CachedRefs(o)' + OfThreads(o)' + ToReturn(o)'
             /\ count'[o] \in Nat
  <2>1. CachedRefs(o)' \in Nat
    BY DEF CachedRefs, FastWords, Consts
  <2>2. ToReturn(o) = 0 /\ ToReturn(o)' = 0
    BY Zenon, <1>1 DEF ToReturn, Returned
  <2>3. OfThreads(o)' = OfThreads(o)
    BY Zenon DEF OfThreads, Holders, Biasers, Swappers, Droppers
  <2>4. /\ Cardinality(Holders(o)) \in Nat /\ MaxFastRefs * Cardinality(Biasers(o)) \in Nat
        /\ Cardinality(Swappers(o)) \in Nat /\ Cardinality(Droppers(o)) \in Nat
    <3>1. \A S \in SUBSET Threads : Cardinality(S) \in Nat
      BY Zenon, FS_Subset, FS_CardinalityType DEF Consts
    <3>2. /\ Holders(o) \in SUBSET Threads /\ Biasers(o) \in SUBSET Threads
          /\ Swappers(o) \in SUBSET Threads /\ Droppers(o) \in SUBSET Threads
      BY Zenon DEF Holders, Biasers, Swappers, Droppers
    <3> QED  BY <3>1, <3>2 DEF Consts
  <2>5. count[o] = CachedRefs(o) + Cardinality(Holders(o)) + MaxFastRefs * Cardinality(Biasers(o))
                   + Cardinality(Swappers(o)) + Cardinality(Droppers(o)) + ToReturn(o)
    BY Zenon DEF RefsExact, ToReturn
  <2>6. CachedRefs(o) \in Nat
    BY Zenon, ToReturnType
  <2>7. OfThreads(o) \in Nat /\ count[o] = CachedRefs(o) + OfThreads(o)
    BY <2>2, <2>4, <2>5, <2>6 DEF OfThreads
  <2> QED  BY <2>1, <2>2, <2>3, <2>6, <2>7
<1>3. RefsExact'
  BY Zenon, <1>2, ExactAll
<1>4. TypeOK'
  <2>1. count' \in [Objects -> Nat]
    BY Zenon, <1>2
  <2> QED  BY Zenon, <2>1 DEF TypeOK
<1>5. CallInv'
  BY Zenon DEF CallInv
<1>6. UseInv' /\ SlowInv'
  BY Zenon, <1>1 DEF UseInv, SlowInv, Swapping, Replaced
<1> QED
  BY Zenon, <1>3, <1>4, <1>5, <1>6

LEMMA AssignStep ==
    ASSUME Consts, IInv, NEW t \in Threads, Assign(t)
    PROVE  IInv'
<1>1. /\ Quiet /\ ref[t] \in Objects /\ ref[t] # Null /\ UNCHANGED <<pc, ref, old>>
      /\ fast = Empty /\ fast' = FastWord(ref[t], MaxFastRefs)
      /\ inUse' = [inUse EXCEPT ![ref[t]] = TRUE]
      /\ count' = [count EXCEPT ![ref[t]] = @ + (1 + MaxFastRefs)]
  BY Zenon DEF IInv, TypeOK, Assign, Reference
<1>2. /\ fast.obj = Null /\ fast'.obj = ref[t] /\ fast'.n = MaxFastRefs /\ fast' \in FastWords
  BY <1>1 DEF Empty, FastWord, FastWords, Consts
<1>3. inUse' \in [Objects -> BOOLEAN] /\ inUse'[ref[t]] /\ count' \in [Objects -> Int]
  BY <1>1 DEF IInv, TypeOK, Consts
<1>4. ASSUME NEW o \in Objects
      PROVE  count'[o] = count[o] + (CachedRefs(o)' - CachedRefs(o))
  <2>1. CachedRefs(o) = 0 /\ CachedRefs(o)' = IF ref[t] = o THEN 1 + MaxFastRefs ELSE 0
    BY Zenon, <1>2 DEF CachedRefs, Consts
  <2> QED  BY <1>1, <2>1 DEF IInv, TypeOK, Consts
<1> QED
  BY Zenon, <1>1, <1>2, <1>3, <1>4, QuietStep

LEMMA DeassignStep ==
    ASSUME Consts, IInv, Deassign
    PROVE  IInv'
<1>1. /\ Quiet /\ UNCHANGED <<pc, ref, old>> /\ fast' = Empty
      /\ inUse' = [inUse EXCEPT ![fast.obj] = FALSE]
      /\ count' = [count EXCEPT ![fast.obj] = @ - (fast.n + 1)]
      /\ fast \in FastWords /\ fast.n \in Nat
  BY DEF IInv, TypeOK, Deassign, Dereference, FastWords, Consts
<1>2. /\ fast'.obj = Null /\ fast'.n = 0 /\ fast' \in FastWords
  BY <1>1 DEF Empty, FastWord, FastWords, Consts
<1>3. inUse' \in [Objects -> BOOLEAN] /\ count' \in [Objects -> Int]
  <2>1. count \in [Objects -> Nat] /\ inUse \in [Objects -> BOOLEAN]
    BY Zenon DEF IInv, TypeOK
  <2>2. inUse' \in [Objects -> BOOLEAN]
    BY Zenon, <1>1, <2>1
  <2>3. \A o \in Objects : count[o] - (fast.n + 1) \in Int /\ count[o] \in Int
    BY <1>1, <2>1
  <2> QED  BY Zenon, <1>1, <2>1, <2>2, <2>3
<1>4. ASSUME NEW o \in Objects
      PROVE  count'[o] = count[o] + (CachedRefs(o)' - CachedRefs(o))
  <2>1. CachedRefs(o)' = 0 /\ CachedRefs(o) = IF fast.obj = o THEN 1 + fast.n ELSE 0
    BY Zenon, <1>2 DEF CachedRefs, Consts
  <2> QED  BY <1>1, <2>1 DEF IInv, TypeOK, Consts
<1> QED
  BY Zenon, <1>1, <1>2, <1>3, <1>4, QuietStep

-----------------------------------------------------------------------------
(* Init establishes the invariant.                                         *)
LEMMA Initially == ASSUME Consts PROVE Init => IInv
<1> SUFFICES ASSUME Init PROVE IInv
  OBVIOUS
<1>1. /\ fast = Empty /\ fast.obj = Null /\ fast.n = 0 /\ fast \in FastWords
  BY DEF Init, Empty, FastWord, FastWords, Consts
<1>2. \A t \in Threads : pc[t] = "idle" /\ ref[t] = Null
  BY Zenon DEF Init
<1>3. TypeOK
  BY Zenon, <1>1 DEF Init, TypeOK, PCs
<1>4. RefsExact
  <2> SUFFICES ASSUME NEW o \in Objects
               PROVE  count[o] = CachedRefs(o) + Cardinality(Holders(o))
                                 + MaxFastRefs * Cardinality(Biasers(o))
                                 + Cardinality(Swappers(o)) + Cardinality(Droppers(o))
                                 + ToReturn(o)
    BY Zenon DEF RefsExact, ToReturn
  <2>1. count[o] = 0 /\ CachedRefs(o) = 0
    BY Zenon, <1>1 DEF Init, CachedRefs, Consts
  <2>2. /\ Holders(o) = {} /\ Biasers(o) = {} /\ Swappers(o) = {} /\ Droppers(o) = {}
        /\ Returned(o) = {}
    BY Zenon, <1>2 DEF Holders, Biasers, Swappers, Droppers, Returned, Consts
  <2>3. Cardinality({}) = 0
    BY Zenon, FS_EmptySet
  <2>4. ToReturn(o) = 0
    BY Zenon, <2>2 DEF ToReturn
  <2> QED  BY <2>1, <2>2, <2>3, <2>4 DEF Consts
<1>5. CallInv /\ UseInv /\ SlowInv
  BY Zenon, <1>1, <1>2 DEF CallInv, UseInv, SlowInv, Has, HasNot, Dropping, Swapping, Replaced
<1> QED
  BY Zenon, <1>3, <1>4, <1>5 DEF IInv

(* Every step preserves the invariant.                                     *)
LEMMA Inductive == ASSUME Consts PROVE IInv /\ [Next]_vars => IInv'
<1> SUFFICES ASSUME IInv, [Next]_vars PROVE IInv'
  OBVIOUS
<1>1. CASE UNCHANGED vars
  <2> USE <1>1 DEF vars
  <2>1. TypeOK' /\ CallInv'
    BY Zenon DEF IInv, TypeOK, CallInv
  <2>2. UseInv'
    BY Zenon DEF IInv, UseInv
  <2>3. SlowInv'
    BY Zenon DEF IInv, SlowInv
  <2>4. RefsExact'
    <3>1. \A o : /\ CachedRefs(o)' = CachedRefs(o) /\ Holders(o)' = Holders(o)
                 /\ Biasers(o)' = Biasers(o) /\ Swappers(o)' = Swappers(o)
                 /\ Droppers(o)' = Droppers(o) /\ Returned(o)' = Returned(o)
      BY Zenon DEF CachedRefs, Holders, Biasers, Swappers, Droppers, Returned
    <3>2. ASSUME NEW o PROVE ToReturn(o)' = ToReturn(o)
      <4>1. Returned(o)' = Returned(o) /\ old' = old
        BY Zenon, <3>1
      <4>2. CASE Returned(o) = {}
        BY Zenon, <4>1, <4>2 DEF ToReturn
      <4>3. CASE Returned(o) # {}
        <5> DEFINE u == CHOOSE x \in Returned(o) : TRUE
        <5>1. ToReturn(o) = old[u].n
          BY Zenon, <4>3 DEF ToReturn
        <5>2. ToReturn(o)' = old'[u].n
          BY Zenon, <4>1, <4>3 DEF ToReturn
        <5> HIDE DEF u
        <5> QED  BY Zenon, <4>1, <5>1, <5>2
      <4> QED  BY Zenon, <4>2, <4>3
    <3>3. \A o \in Objects :
             count[o] = CachedRefs(o) + Cardinality(Holders(o)) + MaxFastRefs * Cardinality(Biasers(o))
                        + Cardinality(Swappers(o)) + Cardinality(Droppers(o)) + ToReturn(o)
      BY Zenon DEF IInv, RefsExact, ToReturn
    <3>4. \A o \in Objects :
             count'[o] = CachedRefs(o)' + Cardinality(Holders(o)') + MaxFastRefs * Cardinality(Biasers(o)')
                         + Cardinality(Swappers(o)') + Cardinality(Droppers(o)') + ToReturn(o)'
      BY Zenon, <3>1, <3>2, <3>3
    <3> QED  BY Zenon, <3>4 DEF RefsExact, ToReturn
  <2> QED  BY Zenon, <2>1, <2>2, <2>3, <2>4 DEF IInv
<1>2. ASSUME NEW t \in Threads, FastCAS(t) PROVE IInv'
  BY Zenon, <1>2, ReadsStep, FastCASStep
<1>3. ASSUME NEW t \in Threads, AddCAS(t) PROVE IInv'
  BY Zenon, <1>3, ReadsStep, AddCASStep
<1>4. ASSUME NEW t \in Threads, DerefCAS(t) PROVE IInv'
  BY Zenon, <1>4, ReadsStep, DerefCASStep
<1>5. ASSUME NEW t \in Threads, Continue(t) PROVE IInv'
  BY Zenon, <1>2, <1>3, <1>4, <1>5, ReadsStep, BiasStep, UnbiasStep, SlowRefStep, DerefObjectStep,
     SwapRefStep, SwapBiasStep, SwapStep, SwapReturnStep, SwapUnuseStep, FlushStep, SwapDropStep
     DEF Continue
<1>6. ASSUME NEW t \in Threads, GiveBack(t) PROVE IInv'
  BY Zenon, <1>6, ReadsStep, DerefObjectStep DEF GiveBack
<1>7. ASSUME NEW t \in Threads, Begin(t) PROVE IInv'
  BY Zenon, <1>7, ReadsStep, ExchangeStep, AssignStep, CreateStep DEF Begin
<1> QED
  BY Zenon, <1>1, <1>5, <1>6, <1>7, DeassignStep DEF Next

(* The invariant holds throughout.                                         *)
LEMMA Invariant == ASSUME Consts PROVE Spec => []IInv
<1>1. Init => IInv
  BY Zenon, Initially
<1>2. IInv /\ [Next]_vars => IInv'
  BY Zenon, Inductive
<1> QED
  BY <1>1, <1>2, PTL DEF Spec

(* An object's PointerCount is exactly the references the pointer, the     *)
(* cache, the holders and the calls in progress account for.               *)
THEOREM ExactCounts == ASSUME Consts PROVE Spec => []RefsExact
<1>1. IInv => RefsExact
  BY Zenon DEF IInv
<1> QED
  BY <1>1, Invariant, PTL

(* Nobody uses a deleted object: not the holder of a reference, not the    *)
(* exchange that still has to drop one, and not a slow referencer between  *)
(* reading the pointer and referencing the object.                         *)
THEOREM LiveRefs == ASSUME Consts PROVE Spec => []RefsLive
<1>1. IInv => RefsLive
  <2> SUFFICES ASSUME IInv, NEW t \in Threads
               PROVE  /\ ref[t] # Null => count[ref[t]] > 0
                      /\ pc[t] = "slowRef" => count[old[t].obj] > 0
                      /\ pc[t] \in Dropping => count[old[t].obj] > 0
    BY Zenon DEF RefsLive, Dropping
  <2>1. /\ ref[t] # Null => ref[t] \in Objects
        /\ pc[t] \in Dropping \cup {"slowRef"} => old[t].obj \in Objects
    BY Zenon DEF IInv, TypeOK, CallInv, FastWords
  <2>2. ref[t] # Null => count[ref[t]] > 0
    BY Zenon, <2>1, Positive DEF IInv
  <2>3. pc[t] \in Dropping => count[old[t].obj] > 0
    BY Zenon, <2>1, Positive DEF IInv
  <2>4. pc[t] = "slowRef" => count[old[t].obj] > 0
    <3> SUFFICES ASSUME pc[t] = "slowRef" PROVE count[old[t].obj] > 0
      OBVIOUS
    <3>1. \/ fast.obj = old[t].obj
          \/ \E u \in Threads : old[u].obj = old[t].obj /\ pc[u] \in Dropping
      BY Zenon DEF IInv, SlowInv, Dropping
    <3> QED  BY Zenon, <2>1, <3>1, Positive DEF IInv
  <2> QED  BY Zenon, <2>2, <2>3, <2>4
<1> QED
  BY <1>1, Invariant, PTL

(* ASSERT (OldToken->TokenInUse) never fails.                              *)
THEOREM InUseHolds == ASSUME Consts PROVE Spec => []InUseAsserts
<1>1. IInv => InUseAsserts
  BY Zenon DEF IInv, UseInv, InUseAsserts, Replaced
<1> QED
  BY <1>1, Invariant, PTL
=============================================================================
