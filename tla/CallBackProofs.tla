--------------------------- MODULE CallBackProofs ---------------------------
(***************************************************************************)
(* Proofs about CallBack for any finite set of threads, any blocks,        *)
(* routines and slots and any number of cached references: a block is not  *)
(* used after it was freed, and both counts are exact.                     *)
(***************************************************************************)
EXTENDS CallBack, FiniteSetTheorems, TLAPS


(* Where a call has a reference, and where it has none.                    *)
Has    == {"refill", "addRead", "addCAS", "undo", "use", "derefRead", "derefCAS",
           "release", "cxFlush", "cxRelease"}
HasNot == {"idle", "refRead", "refCAS", "slowLock", "slowRead", "slowProtect",
           "cxBias", "wait", "waiting"}
CxPCs  == {"cxRead", "cxCAS", "cxUnbias", "cxTrue", "cxFalse"}
Swapped == {"cxFlush", "cxRelease", "cxTrue"}
Biased == {"cxRead", "cxCAS", "cxUnbias"}

(* What a call in progress may conclude from where it is and from what it  *)
(* has read.                                                               *)
CallOK(t) ==
    /\ pc[t] \in Has => ref[t] # Null
    /\ pc[t] \in HasNot => ref[t] = Null
    /\ op[t] = "register" => ref[t] = Null /\ pc[t] \in CxPCs \cup {"cxBias"}
    /\ op[t] = "remove" => pc[t] \in {"derefRead", "derefCAS", "release", "wait", "waiting"}
    /\ pc[t] \in CxPCs => op[t] = "register" \/ (op[t] = "unregister" /\ ref[t] # Null)
    /\ pc[t] \in {"cxFlush", "cxRelease"} => op[t] = "unregister" /\ old[t].obj = ref[t]
    /\ pc[t] = "cxBias" => op[t] = "register"
    /\ pc[t] \in {"wait", "waiting"} => op[t] = "remove"
    /\ new[t] # Null <=> \/ op[t] = "register" /\ pc[t] # "cxTrue"
                        \/ pc[t] \in {"wait", "waiting"}
    /\ pc[t] = "refCAS" => old[t].obj # Null /\ old[t].n > 0
    /\ pc[t] = "addCAS" => old[t] = FastWord(ref[t], 0)
    /\ pc[t] = "derefCAS" => old[t].obj = ref[t] /\ old[t].n < MaxFastRefs
    /\ pc[t] = "cxCAS" => old[t].obj = Expected(t)
    /\ pc[t] = "slowProtect" => old[t].obj # Null

CallInv == \A t \in Threads : CallOK(t)

(* A block that is allocated belongs to a slot, or to the thread that is   *)
(* to install it or has taken it out.                                      *)
Owns(t, b) == \/ new[t] = b
              \/ /\ ref[t] = b
                 /\ op[t] = "remove" \/ (op[t] = "unregister" /\ pc[t] \in Swapped)

OwnedOnce(b) ==
    /\ \A i, j \in Slots : slot[i].obj = b /\ slot[j].obj = b => i = j
    /\ \A i \in Slots : slot[i].obj = b => phase[b] = "open"
    /\ \A t \in Threads :
          Owns(t, b) => /\ phase[b] = IF pc[t] = "waiting" THEN "closing" ELSE "open"
                        /\ \A i \in Slots : slot[i].obj # b
                        /\ \A u \in Threads : Owns(u, b) => u = t

OwnerInv == \A b \in Blocks : OwnedOnce(b)

(* Free memory has no references, and a block that was never installed has *)
(* only those that ExCompareExchangeCallBack has added to install it.      *)
Fresh(t, b) == op[t] = "register" /\ new[t] = b
FreshOK(t, b) == Fresh(t, b) => count[b] = IF pc[t] \in Biased THEN MaxFastRefs + 1 ELSE 0

FreeInv == \A b \in Blocks : /\ phase[b] = "free" => count[b] = 0
                             /\ \A t \in Threads : FreshOK(t, b)

(* A block that was read under the lock is still in its slot, or the       *)
(* thread that has taken it out has not come through the lock.             *)
SlowInv ==
    \A u \in Threads :
        pc[u] = "slowProtect" =>
            \/ \E i \in Slots : slot[i].obj = old[u].obj
            \/ \E t \in Threads : pc[t] = "cxFlush" /\ ref[t] = old[u].obj

(* The inductive invariant.                                                *)
IInv == TypeOK /\ RefsExact /\ NotifyCountExact /\ CallInv /\ OwnerInv /\ FreeInv /\ SlowInv

-----------------------------------------------------------------------------
(* The types, with integers for the counts: that they are not negative is  *)
(* a consequence of RefsExact.                                             *)
Types == /\ slot \in [Slots -> FastWords]
         /\ phase \in [Blocks -> {"free", "open", "closing"}]
         /\ count \in [Blocks -> Int]
         /\ routine \in [Blocks -> Routines \cup {Null}]
         /\ client \in Clients
         /\ leaked \in [Blocks -> Nat]
         /\ notifyCount \in Int
         /\ pc \in [Threads -> PCs]
         /\ op \in [Threads -> {"none", "call", "register", "unregister", "remove"}]
         /\ index \in [Threads -> Slots]
         /\ want \in [Threads -> Routines \cup {Null}]
         /\ new \in [Threads -> MaybeBlock]
         /\ ref \in [Threads -> MaybeBlock]
         /\ old \in [Threads -> FastWords]

(* A block that a thread has a reference to, or has read under the lock,   *)
(* was installed and is not free (a consequence of IInv).                  *)
Used(t, b) == ref[t] = b \/ (pc[t] = "slowProtect" /\ old[t].obj = b)

UsedInv == \A t \in Threads, b \in Blocks :
              Used(t, b) => phase[b] # "free" /\ \A u \in Threads : ~Fresh(u, b)

(* What is known before a step.                                            *)
Before == Types /\ CallInv /\ OwnerInv /\ FreeInv /\ SlowInv /\ UsedInv

(* Only t moves, and only slot i may change.                               *)
Moves(t) == \A u \in Threads :
    u # t => /\ pc'[u] = pc[u] /\ op'[u] = op[u] /\ index'[u] = index[u]
             /\ new'[u] = new[u] /\ ref'[u] = ref[u] /\ old'[u] = old[u]
OneSlot(i) == \A j \in Slots : j # i => slot'[j] = slot[j]

(* The references to b of thread t and of slot i, before and after a step, *)
(* account for the change of its count.                                    *)
Accounts(t, i, b) ==
    count'[b] = count[b] + (SlotRefs(i, b)' - SlotRefs(i, b)) + (leaked'[b] - leaked[b])
                + (RefsOf(t, b)' - RefsOf(t, b))

Ind(p) == IF p THEN 1 ELSE 0
Filled(i)  == Ind(slot[i].obj # Null)
Added(t)   == Ind(op[t] = "register" /\ pc[t] = "cxTrue")
Removed(t) == Ind(op[t] = "unregister" /\ pc[t] \in Swapped)

(* Slot i and the place of thread t account for the change of the number.  *)
Notifies(t, i) ==
    notifyCount' = notifyCount + (Filled(i)' - Filled(i)) - (Added(t)' - Added(t))
                               + (Removed(t)' - Removed(t))

(* What a step of t at slot i does to the call and to the counts.          *)
Counts(t, i) == /\ Moves(t) /\ OneSlot(i)
                /\ CallOK(t)'
                /\ \A b \in Blocks : Accounts(t, i, b)
                /\ Notifies(t, i)

(* A block whose count t has to leave alone.                               *)
Left(t, b) == phase[b] = "free" \/ \E u \in Threads : u # t /\ Fresh(u, b)

(* A step of t that leaves every block with its owner and in its phase.    *)
Quiet(t, i) ==
    /\ Counts(t, i)
    /\ slot'[i].obj = slot[i].obj /\ phase' = phase
    /\ \A b \in Blocks : /\ Owns(t, b)' <=> Owns(t, b)
                         /\ Left(t, b) => count'[b] = count[b]
                         /\ FreshOK(t, b)'
    /\ pc'[t] = "waiting" <=> pc[t] = "waiting"
    /\ pc'[t] = "slowProtect" => old'[t].obj = slot[i].obj
    /\ pc[t] = "cxFlush" => \A u \in Threads : pc[u] # "slowProtect"

-----------------------------------------------------------------------------
(* The types of what a call has for itself.                                *)
CallTypes ==
    /\ pc \in [Threads -> PCs]
    /\ op \in [Threads -> {"none", "call", "register", "unregister", "remove"}]
    /\ index \in [Threads -> Slots]
    /\ want \in [Threads -> Routines \cup {Null}]
    /\ old \in [Threads -> FastWords]

LEMMA Words ==
    /\ Empty \in FastWords
    /\ \A b \in MaybeBlock, n \in 0 .. MaxFastRefs : FastWord(b, n) \in FastWords
    /\ \A w \in FastWords : w.obj \in MaybeBlock /\ w.n \in 0 .. MaxFastRefs
BY ConstantsAssumption DEF FastWords, FastWord, Empty, MaybeBlock

LEMMA FinishTypes ==
    ASSUME CallTypes, NEW t \in Threads, Finish(t)
    PROVE  CallTypes'
<1>1. 1 \in Slots /\ "idle" \in PCs
  BY ConstantsAssumption DEF Slots, PCs
<1> QED
  BY Zenon, <1>1, Words DEF CallTypes, Finish, Goto, SetOld

LEMMA NextSlotTypes ==
    ASSUME CallTypes, NEW t \in Threads, NEW l \in PCs, NextSlot(t, l)
    PROVE  CallTypes'
<1>1. CASE index[t] = NumberSlots /\ Finish(t)
  BY Zenon, <1>1, FinishTypes
<1>2. CASE index[t] < NumberSlots
  <2>1. index[t] + 1 \in Slots
    BY <1>2, ConstantsAssumption DEF CallTypes, Slots
  <2>2. /\ index' = [index EXCEPT ![t] = @ + 1] /\ pc' = [pc EXCEPT ![t] = l]
        /\ old' = [old EXCEPT ![t] = Empty] /\ op' = op /\ want' = want
    <3>1. index[t] \in Int /\ NumberSlots \in Int
      BY ConstantsAssumption DEF CallTypes, Slots
    <3>2. index[t] # NumberSlots
      BY <1>2, <3>1
    <3> QED  BY Zenon, <3>2 DEF NextSlot, Goto, SetOld
  <2> QED  BY Zenon, <2>1, <2>2, Words DEF CallTypes
<1> QED
  BY Zenon, <1>1, <1>2 DEF NextSlot

LEMMA TypesStep ==
    ASSUME Types, CallInv, NEW t \in Threads, Begin(t) \/ Continue(t)
    PROVE  Types'
<1>0. /\ Types /\ CallOK(t) /\ index[t] \in Slots /\ CallTypes
  BY Zenon DEF Types, CallInv, CallTypes
<1>w. /\ slot[index[t]] \in FastWords /\ old[t] \in FastWords
      /\ ref[t] \in MaybeBlock /\ new[t] \in MaybeBlock
      /\ old[t].obj \in MaybeBlock /\ old[t].n \in 0 .. MaxFastRefs
      /\ \A b \in MaybeBlock : b # Null => b \in Blocks
      /\ \A b \in Blocks : b \in MaybeBlock
      /\ Null \in MaybeBlock
  BY Zenon, <1>0, Words DEF Types, MaybeBlock
<1>h. /\ pc[t] \in Has => ref[t] \in Blocks
      /\ pc[t] = "slowProtect" => old[t].obj \in Blocks
      /\ pc[t] \in {"wait", "waiting", "cxBias"} => new[t] \in Blocks
      /\ new[t] # Null => new[t] \in Blocks
      /\ pc[t] = "cxFalse" /\ op[t] = "register" => new[t] \in Blocks
      /\ pc[t] = "cxFalse" /\ op[t] = "unregister" => ref[t] \in Blocks
      /\ MaxFastRefs \in Int /\ old[t].n \in Int
  <2>1. MaxFastRefs \in Nat
    BY Zenon, ConstantsAssumption
  <2> QED  BY <1>0, <1>w, <2>1 DEF CallOK, CxPCs
<1>f. /\ pc[t] = "refCAS" => FastWord(old[t].obj, old[t].n - 1) \in FastWords
      /\ pc[t] = "addCAS" => FastWord(ref[t], MaxFastRefs) \in FastWords
      /\ pc[t] = "derefCAS" => FastWord(ref[t], old[t].n + 1) \in FastWords
      /\ FastWord(new[t], MaxFastRefs) \in FastWords /\ Empty \in FastWords
  <2>1. MaxFastRefs \in 0 .. MaxFastRefs
    BY ConstantsAssumption
  <2>2. pc[t] = "refCAS" => old[t].n - 1 \in 0 .. MaxFastRefs
    BY <1>0, <1>w, ConstantsAssumption DEF CallOK
  <2>3. pc[t] = "derefCAS" => old[t].n + 1 \in 0 .. MaxFastRefs
    BY <1>0, <1>w, ConstantsAssumption DEF CallOK
  <2> QED  BY Zenon, <1>w, <2>1, <2>2, <2>3, Words
<1> USE DEF blockVars, callVars, ghostVars, Goto, SetRef, SetOld, Cell, SetCell, Protect, Unprotect
<1> DEFINE CT == CallTypes'
           DT == /\ slot' \in [Slots -> FastWords]
                 /\ phase' \in [Blocks -> {"free", "open", "closing"}]
                 /\ count' \in [Blocks -> Int]
                 /\ routine' \in [Blocks -> Routines \cup {Null}]
                 /\ client' \in Clients
                 /\ leaked' \in [Blocks -> Nat]
                 /\ notifyCount' \in Int
                 /\ new' \in [Threads -> MaybeBlock]
                 /\ ref' \in [Threads -> MaybeBlock]
<1>q. SUFFICES CT /\ DT
  BY Zenon DEF Types, CallTypes
<1>p. ASSUME NEW l \in PCs, pc' = [pc EXCEPT ![t] = l],
             op' = op \/ \E o \in {"none", "call", "register", "unregister", "remove"} : op' = [op EXCEPT ![t] = o],
             index' = index,
             want' = want \/ \E r \in Routines : want' = [want EXCEPT ![t] = r],
             old' = old \/ \E w \in FastWords : old' = [old EXCEPT ![t] = w]
      PROVE  CT
  BY ZenonT(60), <1>0, <1>p DEF CallTypes
<1> HIDE DEF CT
<1>1. CASE CallAll(t)
  <2>1. CT
    BY Zenon, <1>0, <1>w, <1>1, <1>p DEF CallAll, PCs, SlowPCs
  <2>2. DT
    BY Zenon, <1>0, <1>w, <1>h, <1>f, <1>1 DEF Types, CallAll
  <2> QED  BY Zenon, <2>1, <2>2
<1>2. CASE Use(t)
  <2>1. CT
    BY Zenon, <1>0, <1>w, <1>2, <1>p DEF Use, PCs, SlowPCs
  <2>2. DT
    BY Zenon, <1>0, <1>w, <1>h, <1>f, <1>2 DEF Types, Use
  <2> QED  BY <2>1, <2>2
<1>3. CASE Succeeded(t)
  <2>1. CT
    BY Zenon, <1>0, <1>w, <1>3, <1>p, FinishTypes DEF Succeeded, PCs, SlowPCs, CT
  <2>2. DT
    BY <1>0, <1>w, <1>h, <1>f, <1>3 DEF Types, Succeeded
  <2> QED  BY <2>1, <2>2
<1>4. CASE Failed(t)
  <2>1. CT
    BY Zenon, <1>0, <1>w, <1>4, <1>p, NextSlotTypes DEF Failed, PCs, SlowPCs, CT
  <2>2. DT
    <3>1. slot' \in [Slots -> FastWords] /\ count' \in [Blocks -> Int]
      BY Zenon, <1>0, <1>w, <1>h, <1>f, <1>4 DEF Types, Failed
    <3>2. /\ phase' \in [Blocks -> {"free", "open", "closing"}]
          /\ routine' \in [Blocks -> Routines \cup {Null}]
      BY Zenon, <1>0, <1>w, <1>h, <1>f, <1>4 DEF Types, Failed
    <3>3. client' \in Clients /\ leaked' \in [Blocks -> Nat] /\ notifyCount' \in Int
      BY <1>0, <1>w, <1>h, <1>f, <1>4 DEF Types, Failed
    <3>4. new' \in [Threads -> MaybeBlock] /\ ref' \in [Threads -> MaybeBlock]
      BY <1>0, <1>w, <1>h, <1>f, <1>4 DEF Types, Failed
    <3> QED  BY Zenon, <3>1, <3>2, <3>3, <3>4
  <2> QED  BY <2>1, <2>2
<1>5. CASE Wait(t)
  <2>1. CT
    BY Zenon, <1>0, <1>w, <1>5, <1>p DEF Wait, PCs, SlowPCs
  <2>2. DT
    BY Zenon, <1>0, <1>w, <1>h, <1>f, <1>5 DEF Types, Wait
  <2> QED  BY <2>1, <2>2
<1>6. CASE Free(t)
  <2>1. CT
    BY Zenon, <1>0, <1>w, <1>6, <1>p, FinishTypes DEF Free, PCs, SlowPCs, CT
  <2>2. DT
    <3>1. slot' \in [Slots -> FastWords] /\ count' \in [Blocks -> Int]
      BY Zenon, <1>0, <1>w, <1>h, <1>f, <1>6 DEF Types, Free
    <3>2. /\ phase' \in [Blocks -> {"free", "open", "closing"}]
          /\ routine' \in [Blocks -> Routines \cup {Null}]
      BY Zenon, <1>0, <1>w, <1>h, <1>f, <1>6 DEF Types, Free
    <3>3. client' \in Clients /\ leaked' \in [Blocks -> Nat] /\ notifyCount' \in Int
      BY Zenon, <1>0, <1>w, <1>h, <1>f, <1>6 DEF Types, Free
    <3>4. new' \in [Threads -> MaybeBlock] /\ ref' \in [Threads -> MaybeBlock]
      BY Zenon, <1>0, <1>w, <1>h, <1>f, <1>6 DEF Types, Free
    <3> QED  BY <3>1, <3>2, <3>3, <3>4
  <2> QED  BY <2>1, <2>2
<1>7. CASE RefRead(t)
  <2>1. CT
    BY Zenon, <1>0, <1>w, <1>7, <1>p, NextSlotTypes DEF RefRead, PCs, SlowPCs, CT
  <2>2. DT
    BY Zenon, <1>0, <1>w, <1>h, <1>f, <1>7 DEF Types, RefRead
  <2> QED  BY <2>1, <2>2
<1>8. CASE RefCAS(t)
  <2>1. CT
    BY Zenon, <1>0, <1>w, <1>8, <1>p DEF RefCAS, PCs, SlowPCs
  <2>2. DT
    BY <1>0, <1>w, <1>h, <1>f, <1>8 DEF Types, RefCAS
  <2> QED  BY <2>1, <2>2
<1>9. CASE Refill(t)
  <2>1. CT
    BY Zenon, <1>0, <1>w, <1>9, <1>p DEF Refill, PCs, SlowPCs
  <2>2. DT
    BY <1>0, <1>w, <1>h, <1>f, <1>9 DEF Types, Refill, Has
  <2> QED  BY <2>1, <2>2
<1>10. CASE AddRead(t)
  <2>1. CT
    BY Zenon, <1>0, <1>w, <1>10, <1>p DEF AddRead, PCs, SlowPCs
  <2>2. DT
    BY Zenon, <1>0, <1>w, <1>h, <1>f, <1>10 DEF Types, AddRead
  <2> QED  BY <2>1, <2>2
<1>11. CASE AddCAS(t)
  <2>1. CT
    BY Zenon, <1>0, <1>w, <1>11, <1>p DEF AddCAS, PCs, SlowPCs
  <2>2. DT
    BY ZenonT(60), <1>0, <1>w, <1>h, <1>f, <1>11 DEF Types, AddCAS, Has
  <2> QED  BY <2>1, <2>2
<1>12. CASE Undo(t)
  <2>1. CT
    BY Zenon, <1>0, <1>w, <1>12, <1>p DEF Undo, PCs, SlowPCs
  <2>2. DT
    BY <1>0, <1>w, <1>h, <1>f, <1>12 DEF Types, Undo, Has
  <2> QED  BY <2>1, <2>2
<1>13. CASE SlowLock(t)
  <2>1. CT
    BY Zenon, <1>0, <1>w, <1>13, <1>p DEF SlowLock, PCs, SlowPCs
  <2>2. DT
    BY Zenon, <1>0, <1>w, <1>h, <1>f, <1>13 DEF Types, SlowLock
  <2> QED  BY <2>1, <2>2
<1>14. CASE SlowRead(t)
  <2>1. CT
    BY Zenon, <1>0, <1>w, <1>14, <1>p DEF SlowRead, PCs, SlowPCs
  <2>2. DT
    BY Zenon, <1>0, <1>w, <1>h, <1>f, <1>14 DEF Types, SlowRead
  <2> QED  BY <2>1, <2>2
<1>15. CASE SlowProtect(t)
  <2>1. CT
    BY Zenon, <1>0, <1>w, <1>15, <1>p DEF SlowProtect, PCs, SlowPCs
  <2>2. DT
    <3>1. slot' \in [Slots -> FastWords] /\ count' \in [Blocks -> Int]
      BY <1>0, <1>w, <1>h, <1>f, <1>15 DEF Types, SlowProtect
    <3>2. /\ phase' \in [Blocks -> {"free", "open", "closing"}]
          /\ routine' \in [Blocks -> Routines \cup {Null}]
      BY Zenon, <1>0, <1>w, <1>h, <1>f, <1>15 DEF Types, SlowProtect
    <3>3. client' \in Clients /\ leaked' \in [Blocks -> Nat] /\ notifyCount' \in Int
      BY Zenon, <1>0, <1>w, <1>h, <1>f, <1>15 DEF Types, SlowProtect
    <3>4. new' \in [Threads -> MaybeBlock] /\ ref' \in [Threads -> MaybeBlock]
      BY Zenon, <1>0, <1>w, <1>h, <1>f, <1>15 DEF Types, SlowProtect
    <3> QED  BY <3>1, <3>2, <3>3, <3>4
  <2> QED  BY <2>1, <2>2
<1>16. CASE SlowUnlock(t)
  <2>1. CT
    BY Zenon, <1>0, <1>w, <1>16, <1>p, NextSlotTypes DEF SlowUnlock, PCs, SlowPCs, CT
  <2>2. DT
    BY Zenon, <1>0, <1>w, <1>h, <1>f, <1>16 DEF Types, SlowUnlock
  <2> QED  BY <2>1, <2>2
<1>17. CASE DerefRead(t)
  <2>1. CT
    BY Zenon, <1>0, <1>w, <1>17, <1>p DEF DerefRead, PCs, SlowPCs
  <2>2. DT
    BY Zenon, <1>0, <1>w, <1>h, <1>f, <1>17 DEF Types, DerefRead
  <2> QED  BY <2>1, <2>2
<1>18. CASE DerefCAS(t)
  <2>1. CT
    BY ZenonT(60), <1>0, <1>w, <1>18, <1>p, NextSlotTypes DEF DerefCAS, Dropped, PCs, SlowPCs, CT
  <2>2. DT
    <3>1. slot' \in [Slots -> FastWords] /\ count' \in [Blocks -> Int]
      BY <1>0, <1>w, <1>h, <1>f, <1>18 DEF Types, DerefCAS, Dropped
    <3>2. /\ phase' \in [Blocks -> {"free", "open", "closing"}]
          /\ routine' \in [Blocks -> Routines \cup {Null}]
      BY Zenon, <1>0, <1>w, <1>h, <1>f, <1>18 DEF Types, DerefCAS, Dropped
    <3>3. client' \in Clients /\ leaked' \in [Blocks -> Nat] /\ notifyCount' \in Int
      BY ZenonT(60), <1>0, <1>w, <1>h, <1>f, <1>18 DEF Types, DerefCAS, Dropped
    <3>4. new' \in [Threads -> MaybeBlock] /\ ref' \in [Threads -> MaybeBlock]
      BY <1>0, <1>w, <1>h, <1>f, <1>18 DEF Types, DerefCAS, Dropped
    <3> QED  BY <3>1, <3>2, <3>3, <3>4
  <2> QED  BY <2>1, <2>2
<1>19. CASE Release(t)
  <2>1. CT
    BY ZenonT(60), <1>0, <1>w, <1>19, <1>p, NextSlotTypes DEF Release, Dropped, PCs, SlowPCs, CT
  <2>2. DT
    <3>1. slot' \in [Slots -> FastWords] /\ count' \in [Blocks -> Int]
      BY <1>0, <1>w, <1>h, <1>f, <1>19 DEF Types, Release, Dropped, Has
    <3>2. /\ phase' \in [Blocks -> {"free", "open", "closing"}]
          /\ routine' \in [Blocks -> Routines \cup {Null}]
      BY Zenon, <1>0, <1>w, <1>h, <1>f, <1>19 DEF Types, Release, Dropped, Has
    <3>3. client' \in Clients /\ leaked' \in [Blocks -> Nat] /\ notifyCount' \in Int
      BY Zenon, <1>0, <1>w, <1>h, <1>f, <1>19 DEF Types, Release, Dropped, Has
    <3>4. new' \in [Threads -> MaybeBlock] /\ ref' \in [Threads -> MaybeBlock]
      BY Zenon, <1>0, <1>w, <1>h, <1>f, <1>19 DEF Types, Release, Dropped, Has
    <3> QED  BY <3>1, <3>2, <3>3, <3>4
  <2> QED  BY <2>1, <2>2
<1>20. CASE CxBias(t)
  <2>1. CT
    BY Zenon, <1>0, <1>w, <1>20, <1>p DEF CxBias, PCs, SlowPCs
  <2>2. DT
    BY <1>0, <1>w, <1>h, <1>f, <1>20 DEF Types, CxBias
  <2> QED  BY <2>1, <2>2
<1>21. CASE CxRead(t)
  <2>1. CT
    BY Zenon, <1>0, <1>w, <1>21, <1>p DEF CxRead, PCs, SlowPCs
  <2>2. DT
    BY Zenon, <1>0, <1>w, <1>h, <1>f, <1>21 DEF Types, CxRead
  <2> QED  BY <2>1, <2>2
<1>22. CASE CxCAS(t)
  <2>1. CT
    BY ZenonT(60), <1>0, <1>w, <1>22, <1>p DEF CxCAS, PCs, SlowPCs
  <2>2. DT
    <3>1. slot' \in [Slots -> FastWords] /\ count' \in [Blocks -> Int]
      BY <1>0, <1>w, <1>h, <1>f, <1>22 DEF Types, CxCAS
    <3>2. /\ phase' \in [Blocks -> {"free", "open", "closing"}]
          /\ routine' \in [Blocks -> Routines \cup {Null}]
      BY Zenon, <1>0, <1>w, <1>h, <1>f, <1>22 DEF Types, CxCAS
    <3>3. client' \in Clients /\ leaked' \in [Blocks -> Nat] /\ notifyCount' \in Int
      BY Zenon, <1>0, <1>w, <1>h, <1>f, <1>22 DEF Types, CxCAS
    <3>4. new' \in [Threads -> MaybeBlock] /\ ref' \in [Threads -> MaybeBlock]
      BY <1>0, <1>w, <1>h, <1>f, <1>22 DEF Types, CxCAS
    <3> QED  BY <3>1, <3>2, <3>3, <3>4
  <2> QED  BY <2>1, <2>2
<1>23. CASE CxFlush(t)
  <2>1. CT
    BY Zenon, <1>0, <1>w, <1>23, <1>p DEF CxFlush, PCs, SlowPCs
  <2>2. DT
    BY Zenon, <1>0, <1>w, <1>h, <1>f, <1>23 DEF Types, CxFlush
  <2> QED  BY <2>1, <2>2
<1>24. CASE CxRelease(t)
  <2>1. CT
    BY Zenon, <1>0, <1>w, <1>24, <1>p DEF CxRelease, PCs, SlowPCs
  <2>2. DT
    BY <1>0, <1>w, <1>h, <1>f, <1>24 DEF Types, CxRelease, Has
  <2> QED  BY <2>1, <2>2
<1>25. CASE CxUnbias(t)
  <2>1. CT
    BY Zenon, <1>0, <1>w, <1>25, <1>p DEF CxUnbias, PCs, SlowPCs
  <2>2. DT
    BY <1>0, <1>w, <1>h, <1>f, <1>25 DEF Types, CxUnbias
  <2> QED  BY <2>1, <2>2
<1>26. ASSUME NEW r \in Routines, Unregister(t, r) PROVE CT /\ DT
  BY Zenon, <1>0, <1>p, <1>26 DEF Types, Unregister, PCs
<1>27. ASSUME NEW r \in Routines, NEW b \in Blocks, Register(t, r, b) PROVE CT /\ DT
  <2>1. CT
    BY Zenon, <1>0, <1>p, <1>27 DEF Register, PCs
  <2>2. DT
    <3>1. slot' \in [Slots -> FastWords] /\ count' \in [Blocks -> Int]
      BY <1>0, <1>w, <1>27 DEF Types, Register
    <3>2. /\ phase' \in [Blocks -> {"free", "open", "closing"}]
          /\ routine' \in [Blocks -> Routines \cup {Null}]
      BY Zenon, <1>0, <1>w, <1>27 DEF Types, Register
    <3>3. client' \in Clients /\ leaked' \in [Blocks -> Nat] /\ notifyCount' \in Int
      BY Zenon, <1>0, <1>w, <1>27 DEF Types, Register
    <3>4. new' \in [Threads -> MaybeBlock] /\ ref' \in [Threads -> MaybeBlock]
      BY Zenon, <1>0, <1>w, <1>27 DEF Types, Register
    <3> QED  BY Zenon, <3>1, <3>2, <3>3, <3>4
  <2> QED  BY Zenon, <2>1, <2>2
<1> HIDE DEF DT
<1> QED
  BY ZenonT(60), <1>1, <1>2, <1>3, <1>4, <1>5, <1>6, <1>7, <1>8, <1>9, <1>10, <1>11, <1>12, <1>13, <1>14, <1>15, <1>16, <1>17, <1>18, <1>19, <1>20, <1>21, <1>22, <1>23, <1>24, <1>25, <1>26, <1>27
     DEF Begin, Continue
-----------------------------------------------------------------------------
(* What is known of the thread that takes a step, and of its slot.         *)
Scene(t, i) ==
    /\ CallOK(t) /\ i = index[t]
    /\ slot[i] \in FastWords /\ old[t] \in FastWords
    /\ slot[i].obj \in MaybeBlock /\ slot[i].n \in 0 .. MaxFastRefs
    /\ old[t].obj \in MaybeBlock /\ old[t].n \in 0 .. MaxFastRefs
    /\ ref[t] \in MaybeBlock /\ new[t] \in MaybeBlock
    /\ Null \notin Blocks /\ MaxFastRefs \in Nat \ {0}
    /\ \A b \in Blocks : count[b] \in Int /\ leaked[b] \in Nat /\ FreshOK(t, b)
    /\ notifyCount \in Int

LEMMA SceneSet ==
    ASSUME Before, NEW t \in Threads
    PROVE  index[t] \in Slots /\ \A i \in Slots : i = index[t] => Scene(t, i)
<1>1. index[t] \in Slots /\ CallOK(t) /\ \A b \in Blocks : FreshOK(t, b)
  BY Zenon DEF Before, Types, CallInv, FreeInv
<1>2. /\ \A i \in Slots : slot[i] \in FastWords
      /\ old[t] \in FastWords /\ ref[t] \in MaybeBlock /\ new[t] \in MaybeBlock
      /\ \A b \in Blocks : count[b] \in Int /\ leaked[b] \in Nat
      /\ notifyCount \in Int
  BY Zenon DEF Before, Types
<1>3. \A w \in FastWords : w.obj \in MaybeBlock /\ w.n \in 0 .. MaxFastRefs
  BY Zenon, Words
<1> QED
  BY Zenon, <1>1, <1>2, <1>3, ConstantsAssumption DEF Scene

(* A block that t uses or owns is nobody else's to leave alone.            *)
LEMMA NotLeft ==
    ASSUME Before, NEW t \in Threads, NEW b \in Blocks, Used(t, b) \/ new[t] = b
    PROVE  ~Left(t, b)
<1>1. CASE Used(t, b)
  BY Zenon, <1>1 DEF Before, UsedInv, Left
<1>2. CASE new[t] = b
  <2>1. Owns(t, b)
    BY Zenon, <1>2 DEF Owns
  <2>2. phase[b] # "free" /\ \A u \in Threads : Owns(u, b) => u = t
    BY Zenon, <2>1 DEF Before, OwnerInv, OwnedOnce
  <2>3. \A u \in Threads : Fresh(u, b) => Owns(u, b)
    BY Zenon DEF Fresh, Owns
  <2> QED  BY Zenon, <2>2, <2>3 DEF Left
<1> QED
  BY Zenon, <1>1, <1>2

(* Only the call of t changes: where it is, and what it has read.          *)
Local(t) ==
    /\ Moves(t)
    /\ slot' = slot /\ phase' = phase /\ count' = count /\ leaked' = leaked
    /\ ref'[t] = ref[t] /\ new'[t] = new[t]

(* The kinds of places that the counts and the owners tell apart.          *)
SameKind(t) ==
    /\ pc'[t] \in {"addRead", "addCAS", "undo"} <=> pc[t] \in {"addRead", "addCAS", "undo"}
    /\ pc'[t] \in {"cxFlush", "cxRelease"} <=> pc[t] \in {"cxFlush", "cxRelease"}
    /\ pc'[t] \in {"cxFlush", "cxRelease"} => old'[t].n = old[t].n
    /\ new[t] # Null => (pc'[t] \in Biased <=> pc[t] \in Biased)
    /\ pc'[t] = "waiting" <=> pc[t] = "waiting"
    /\ pc[t] = "cxFlush" => \A u \in Threads : pc[u] # "slowProtect"

(* The number of routines is not the concern of this step.                 *)
SameNumber(t) ==
    /\ op'[t] = "register" /\ pc'[t] = "cxTrue" <=> op[t] = "register" /\ pc[t] = "cxTrue"
    /\ op'[t] = "unregister" /\ pc'[t] \in Swapped <=> op[t] = "unregister" /\ pc[t] \in Swapped

LEMMA NotifiesSame ==
    ASSUME NEW t \in Threads, NEW i \in Slots, SameNumber(t), notifyCount \in Int,
           notifyCount' = notifyCount, slot'[i].obj = slot[i].obj
    PROVE  Notifies(t, i)
<1>1. Filled(i)' = Filled(i) /\ Filled(i) \in Int
  BY DEF Filled, Ind
<1>2. Added(t)' = Added(t) /\ Added(t) \in Int
  BY DEF Added, Ind, SameNumber
<1>3. Removed(t)' = Removed(t) /\ Removed(t) \in Int
  BY DEF Removed, Ind, SameNumber
<1> QED
  BY <1>1, <1>2, <1>3 DEF Notifies

LEMMA LocalQuiet ==
    ASSUME Before, NEW t \in Threads, NEW i \in Slots, i = index[t], Local(t), SameKind(t),
           CallOK(t)', SameNumber(t), notifyCount' = notifyCount,
           op'[t] = "register" => op[t] = "register",
           \A b \in Blocks : Owns(t, b)' <=> Owns(t, b),
           pc'[t] = "slowProtect" => old'[t].obj = slot[i].obj
    PROVE  Quiet(t, i)
<1>1. Scene(t, i)
  BY Zenon, SceneSet
<1>2. OneSlot(i) /\ slot'[i].obj = slot[i].obj
  BY Zenon DEF OneSlot, Local
<1>3. \A b \in Blocks : FreshOK(t, b)'
  BY Zenon, <1>1 DEF FreshOK, Fresh, Scene, Local, SameKind
<1>4. ASSUME NEW b \in Blocks PROVE Accounts(t, i, b)
  <2>1. RefsOf(t, b)' = RefsOf(t, b)
    BY Zenon, <1>1 DEF RefsOf, Local, SameKind, Scene, Biased
  <2>2. SlotRefs(i, b)' = SlotRefs(i, b)
    BY Zenon DEF SlotRefs, Local
  <2>3. count[b] \in Int /\ leaked[b] \in Int /\ SlotRefs(i, b) \in Int /\ RefsOf(t, b) \in Int
    BY <1>1 DEF Scene, SlotRefs, RefsOf
  <2> QED  BY <2>1, <2>2, <2>3 DEF Accounts, Local
<1>5. Notifies(t, i)
  BY Zenon, <1>1, <1>2, NotifiesSame DEF Scene
<1> QED
  BY Zenon, <1>2, <1>3, <1>4, <1>5 DEF Quiet, Counts, Local, SameKind

(* The loop goes on or ends.                                               *)
LEMMA NextSlotMoves ==
    ASSUME Types, NEW t \in Threads, NEW l, NextSlot(t, l)
    PROVE  /\ \/ pc'[t] = l /\ op'[t] = op[t]
              \/ pc'[t] = "idle" /\ op'[t] = "none"
           /\ old'[t] = Empty
           /\ \A u \in Threads : u # t => /\ pc'[u] = pc[u] /\ op'[u] = op[u]
                                          /\ index'[u] = index[u] /\ old'[u] = old[u]
BY ZenonT(60) DEF NextSlot, Finish, Goto, SetOld, Types

-----------------------------------------------------------------------------
(* Steps that change only the call of the thread.                          *)

LEMMA QuietCallAll ==
    ASSUME Before, NEW t \in Threads, NEW i \in Slots, i = index[t], CallAll(t)
    PROVE  Quiet(t, i)
<1>1. Scene(t, i) /\ Types
  BY Zenon, SceneSet DEF Before
<1>2. /\ pc[t] = "idle"
      /\ pc'[t] = "refRead"
      /\ op'[t] = "call"
      /\ old' = old /\ notifyCount' = notifyCount
  BY Zenon, <1>1 DEF CallAll, Goto, SetOld, SetRef, Cell, Types, callVars, blockVars
<1>3. Local(t)
  BY Zenon, <1>1, <1>2 DEF CallAll, Local, Moves, Goto, SetOld, SetRef, Types, blockVars, ghostVars, callVars
<1>4. CallOK(t)'
  BY Zenon, <1>1, <1>2, <1>3 DEF Scene, Local, CallOK, Has, HasNot, CxPCs, Expected, FastWord, Empty
<1>5. SameKind(t) /\ SameNumber(t)
  BY Zenon, <1>1, <1>2 DEF Scene, CallOK, CxPCs, SameKind, SameNumber, Swapped, Biased, SlowPCs
<1>6. \A b \in Blocks : Owns(t, b)' <=> Owns(t, b)
  BY Zenon, <1>1, <1>2, <1>3 DEF Scene, CallOK, CxPCs, Local, Owns, Swapped
<1> QED
  BY Zenon, <1>2, <1>3, <1>4, <1>5, <1>6, LocalQuiet

LEMMA QuietUnregister ==
    ASSUME Before, NEW t \in Threads, NEW i \in Slots, i = index[t], NEW r \in Routines, Unregister(t, r)
    PROVE  Quiet(t, i)
<1>1. Scene(t, i) /\ Types
  BY Zenon, SceneSet DEF Before
<1>2. /\ pc[t] = "idle"
      /\ pc'[t] = "refRead"
      /\ op'[t] = "unregister"
      /\ old' = old /\ notifyCount' = notifyCount
  BY Zenon, <1>1 DEF Unregister, Goto, SetOld, SetRef, Cell, Types, callVars, blockVars
<1>3. Local(t)
  BY Zenon, <1>1, <1>2 DEF Unregister, Local, Moves, Goto, SetOld, SetRef, Types, blockVars, ghostVars, callVars
<1>4. CallOK(t)'
  BY Zenon, <1>1, <1>2, <1>3 DEF Scene, Local, CallOK, Has, HasNot, CxPCs, Expected, FastWord, Empty
<1>5. SameKind(t) /\ SameNumber(t)
  BY Zenon, <1>1, <1>2 DEF Scene, CallOK, CxPCs, SameKind, SameNumber, Swapped, Biased, SlowPCs
<1>6. \A b \in Blocks : Owns(t, b)' <=> Owns(t, b)
  BY Zenon, <1>1, <1>2, <1>3 DEF Scene, CallOK, CxPCs, Local, Owns, Swapped
<1> QED
  BY Zenon, <1>2, <1>3, <1>4, <1>5, <1>6, LocalQuiet

LEMMA QuietUse ==
    ASSUME Before, NEW t \in Threads, NEW i \in Slots, i = index[t], Use(t)
    PROVE  Quiet(t, i)
<1>1. Scene(t, i) /\ Types
  BY SceneSet DEF Before
<1>2. /\ pc[t] = "use"
      /\ pc'[t] = "derefRead" \/ (op[t] = "unregister" /\ pc'[t] = "cxRead")
      /\ op' = op /\ old' = old /\ notifyCount' = notifyCount
  BY Zenon, <1>1 DEF Use, Goto, SetOld, SetRef, Cell, Types, callVars, blockVars
<1>3. Local(t)
  BY Zenon, <1>1, <1>2 DEF Use, Local, Moves, Goto, SetOld, SetRef, Types, blockVars, ghostVars, callVars
<1>4. CallOK(t)'
  BY Zenon, <1>1, <1>2, <1>3 DEF Scene, Local, CallOK, Has, HasNot, CxPCs, Expected, FastWord, Empty
<1>5. SameKind(t) /\ SameNumber(t)
  BY Zenon, <1>1, <1>2 DEF Scene, CallOK, CxPCs, SameKind, SameNumber, Swapped, Biased, SlowPCs
<1>6. \A b \in Blocks : Owns(t, b)' <=> Owns(t, b)
  BY Zenon, <1>1, <1>2, <1>3 DEF Scene, CallOK, CxPCs, Local, Owns, Swapped
<1> QED
  BY Zenon, <1>2, <1>3, <1>4, <1>5, <1>6, LocalQuiet

LEMMA QuietAddRead ==
    ASSUME Before, NEW t \in Threads, NEW i \in Slots, i = index[t], AddRead(t)
    PROVE  Quiet(t, i)
<1>1. Scene(t, i) /\ Types
  BY SceneSet DEF Before
<1>2. /\ pc[t] = "addRead"
      /\ old'[t] = slot[i]
      /\ pc'[t] = "undo" \/ (pc'[t] = "addCAS" /\ slot[i] = FastWord(ref[t], 0))
      /\ op' = op /\ notifyCount' = notifyCount
  BY Zenon, <1>1 DEF AddRead, Goto, SetOld, SetRef, Cell, Types, callVars, blockVars
<1>3. Local(t)
  BY Zenon, <1>1, <1>2 DEF AddRead, Local, Moves, Goto, SetOld, SetRef, Types, blockVars, ghostVars, callVars
<1>4. CallOK(t)'
  BY Zenon, <1>1, <1>2, <1>3 DEF Scene, Local, CallOK, Has, HasNot, CxPCs, Expected, FastWord, Empty
<1>5. SameKind(t) /\ SameNumber(t)
  BY Zenon, <1>1, <1>2 DEF Scene, CallOK, CxPCs, SameKind, SameNumber, Swapped, Biased, SlowPCs
<1>6. \A b \in Blocks : Owns(t, b)' <=> Owns(t, b)
  BY Zenon, <1>1, <1>2, <1>3 DEF Scene, CallOK, CxPCs, Local, Owns, Swapped
<1> QED
  BY Zenon, <1>2, <1>3, <1>4, <1>5, <1>6, LocalQuiet

LEMMA QuietSlowLock ==
    ASSUME Before, NEW t \in Threads, NEW i \in Slots, i = index[t], SlowLock(t)
    PROVE  Quiet(t, i)
<1>1. Scene(t, i) /\ Types
  BY SceneSet DEF Before
<1>2. /\ pc[t] = "slowLock"
      /\ pc'[t] = "slowRead"
      /\ op' = op /\ old' = old /\ notifyCount' = notifyCount
  BY Zenon, <1>1 DEF SlowLock, Goto, SetOld, SetRef, Cell, Types, callVars, blockVars
<1>3. Local(t)
  BY Zenon, <1>1, <1>2 DEF SlowLock, Local, Moves, Goto, SetOld, SetRef, Types, blockVars, ghostVars, callVars
<1>4. CallOK(t)'
  BY Zenon, <1>1, <1>2, <1>3 DEF Scene, Local, CallOK, Has, HasNot, CxPCs, Expected, FastWord, Empty
<1>5. SameKind(t) /\ SameNumber(t)
  BY Zenon, <1>1, <1>2 DEF Scene, CallOK, CxPCs, SameKind, SameNumber, Swapped, Biased, SlowPCs
<1>6. \A b \in Blocks : Owns(t, b)' <=> Owns(t, b)
  BY Zenon, <1>1, <1>2, <1>3 DEF Scene, CallOK, CxPCs, Local, Owns, Swapped
<1> QED
  BY Zenon, <1>2, <1>3, <1>4, <1>5, <1>6, LocalQuiet

LEMMA QuietSlowRead ==
    ASSUME Before, NEW t \in Threads, NEW i \in Slots, i = index[t], SlowRead(t)
    PROVE  Quiet(t, i)
<1>1. Scene(t, i) /\ Types
  BY SceneSet DEF Before
<1>2. /\ pc[t] = "slowRead"
      /\ old'[t] = slot[i]
      /\ pc'[t] = "slowUnlock" \/ (pc'[t] = "slowProtect" /\ slot[i].obj # Null)
      /\ op' = op /\ notifyCount' = notifyCount
  BY Zenon, <1>1 DEF SlowRead, Goto, SetOld, SetRef, Cell, Types, callVars, blockVars
<1>3. Local(t)
  BY Zenon, <1>1, <1>2 DEF SlowRead, Local, Moves, Goto, SetOld, SetRef, Types, blockVars, ghostVars, callVars
<1>4. CallOK(t)'
  BY Zenon, <1>1, <1>2, <1>3 DEF Scene, Local, CallOK, Has, HasNot, CxPCs, Expected, FastWord, Empty
<1>5. SameKind(t) /\ SameNumber(t)
  BY Zenon, <1>1, <1>2 DEF Scene, CallOK, CxPCs, SameKind, SameNumber, Swapped, Biased, SlowPCs
<1>6. \A b \in Blocks : Owns(t, b)' <=> Owns(t, b)
  BY Zenon, <1>1, <1>2, <1>3 DEF Scene, CallOK, CxPCs, Local, Owns, Swapped
<1> QED
  BY Zenon, <1>2, <1>3, <1>4, <1>5, <1>6, LocalQuiet

LEMMA QuietDerefRead ==
    ASSUME Before, NEW t \in Threads, NEW i \in Slots, i = index[t], DerefRead(t)
    PROVE  Quiet(t, i)
<1>1. Scene(t, i) /\ Types
  BY SceneSet DEF Before
<1>2. /\ pc[t] = "derefRead"
      /\ old'[t] = slot[i]
      /\ \/ pc'[t] = "release"
         \/ pc'[t] = "derefCAS" /\ slot[i].obj = ref[t] /\ slot[i].n < MaxFastRefs
      /\ op' = op /\ notifyCount' = notifyCount
  BY Zenon, <1>1 DEF DerefRead, Goto, SetOld, SetRef, Cell, Types, callVars, blockVars
<1>3. Local(t)
  BY Zenon, <1>1, <1>2 DEF DerefRead, Local, Moves, Goto, SetOld, SetRef, Types, blockVars, ghostVars, callVars
<1>4. CallOK(t)'
  BY Zenon, <1>1, <1>2, <1>3 DEF Scene, Local, CallOK, Has, HasNot, CxPCs, Expected, FastWord, Empty
<1>5. SameKind(t) /\ SameNumber(t)
  BY Zenon, <1>1, <1>2 DEF Scene, CallOK, CxPCs, SameKind, SameNumber, Swapped, Biased, SlowPCs
<1>6. \A b \in Blocks : Owns(t, b)' <=> Owns(t, b)
  BY Zenon, <1>1, <1>2, <1>3 DEF Scene, CallOK, CxPCs, Local, Owns, Swapped
<1> QED
  BY Zenon, <1>2, <1>3, <1>4, <1>5, <1>6, LocalQuiet

LEMMA QuietCxRead ==
    ASSUME Before, NEW t \in Threads, NEW i \in Slots, i = index[t], CxRead(t)
    PROVE  Quiet(t, i)
<1>1. Scene(t, i) /\ Types
  BY SceneSet DEF Before
<1>2. /\ pc[t] = "cxRead"
      /\ old'[t] = slot[i]
      /\ pc'[t] = "cxUnbias" \/ (pc'[t] = "cxCAS" /\ slot[i].obj = Expected(t))
      /\ op' = op /\ notifyCount' = notifyCount
  BY Zenon, <1>1 DEF CxRead, Goto, SetOld, SetRef, Cell, Types, callVars, blockVars
<1>3. Local(t)
  BY Zenon, <1>1, <1>2 DEF CxRead, Local, Moves, Goto, SetOld, SetRef, Types, blockVars, ghostVars, callVars
<1>4. CallOK(t)'
  BY Zenon, <1>1, <1>2, <1>3 DEF Scene, Local, CallOK, Has, HasNot, CxPCs, Expected, FastWord, Empty
<1>5. SameKind(t) /\ SameNumber(t)
  BY Zenon, <1>1, <1>2 DEF Scene, CallOK, CxPCs, SameKind, SameNumber, Swapped, Biased, SlowPCs
<1>6. \A b \in Blocks : Owns(t, b)' <=> Owns(t, b)
  BY Zenon, <1>1, <1>2, <1>3 DEF Scene, CallOK, CxPCs, Local, Owns, Swapped
<1> QED
  BY Zenon, <1>2, <1>3, <1>4, <1>5, <1>6, LocalQuiet

LEMMA QuietCxFlush ==
    ASSUME Before, NEW t \in Threads, NEW i \in Slots, i = index[t], CxFlush(t)
    PROVE  Quiet(t, i)
<1>1. Scene(t, i) /\ Types
  BY SceneSet DEF Before
<1>2. /\ pc[t] = "cxFlush"
      /\ pc'[t] = "cxRelease"
      /\ \A u \in Threads : pc[u] \notin SlowPCs
      /\ op' = op /\ old' = old /\ notifyCount' = notifyCount
  BY Zenon, <1>1 DEF CxFlush, Goto, SetOld, SetRef, Cell, Types, callVars, blockVars
<1>3. Local(t)
  BY Zenon, <1>1, <1>2 DEF CxFlush, Local, Moves, Goto, SetOld, SetRef, Types, blockVars, ghostVars, callVars
<1>4. CallOK(t)'
  BY Zenon, <1>1, <1>2, <1>3 DEF Scene, Local, CallOK, Has, HasNot, CxPCs, Expected, FastWord, Empty
<1>5. SameKind(t) /\ SameNumber(t)
  BY Zenon, <1>1, <1>2 DEF Scene, CallOK, CxPCs, SameKind, SameNumber, Swapped, Biased, SlowPCs
<1>6. \A b \in Blocks : Owns(t, b)' <=> Owns(t, b)
  BY Zenon, <1>1, <1>2, <1>3 DEF Scene, CallOK, CxPCs, Local, Owns, Swapped
<1> QED
  BY Zenon, <1>2, <1>3, <1>4, <1>5, <1>6, LocalQuiet

(* A compare-and-swap that fails is tried again.                           *)
Retries == {<<"refCAS", "refRead">>, <<"addCAS", "addRead">>, <<"derefCAS", "derefRead">>,
            <<"cxCAS", "cxRead">>}

LEMMA QuietRetry ==
    ASSUME Before, NEW t \in Threads, NEW i \in Slots, i = index[t], NEW l,
           <<pc[t], l>> \in Retries, pc' = [pc EXCEPT ![t] = l],
           UNCHANGED <<slot, blockVars, notifyCount, callVars, new, ref, old>>
    PROVE  Quiet(t, i)
<1>1. Scene(t, i) /\ Types
  BY Zenon, SceneSet DEF Before
<1>2. /\ \/ pc[t] = "refCAS" /\ pc'[t] = "refRead"
         \/ pc[t] = "addCAS" /\ pc'[t] = "addRead"
         \/ pc[t] = "derefCAS" /\ pc'[t] = "derefRead"
         \/ pc[t] = "cxCAS" /\ pc'[t] = "cxRead"
      /\ op' = op /\ old' = old /\ notifyCount' = notifyCount
  BY Zenon, <1>1 DEF Retries, Types, callVars
<1>3. Local(t)
  BY Zenon, <1>1, <1>2 DEF Local, Moves, Types, blockVars, ghostVars, callVars
<1>4. CallOK(t)'
  BY Zenon, <1>1, <1>2, <1>3 DEF Scene, Local, CallOK, Has, HasNot, CxPCs, Expected, FastWord, Empty
<1>5. SameKind(t) /\ SameNumber(t)
  BY Zenon, <1>1, <1>2 DEF Scene, CallOK, CxPCs, SameKind, SameNumber, Swapped, Biased, SlowPCs
<1>6. \A b \in Blocks : Owns(t, b)' <=> Owns(t, b)
  BY Zenon, <1>1, <1>2, <1>3 DEF Scene, CallOK, CxPCs, Local, Owns, Swapped
<1> QED
  BY Zenon, <1>2, <1>3, <1>4, <1>5, <1>6, LocalQuiet

LEMMA QuietRefRead ==
    ASSUME Before, NEW t \in Threads, NEW i \in Slots, i = index[t], RefRead(t)
    PROVE  Quiet(t, i)
<1>1. Scene(t, i) /\ Types
  BY SceneSet DEF Before
<1>2. /\ pc[t] = "refRead" /\ notifyCount' = notifyCount
      /\ \/ pc'[t] = "refRead" /\ op'[t] = op[t] /\ ref[t] = Null
         \/ pc'[t] = "idle" /\ op'[t] = "none" /\ ref[t] = Null
         \/ op'[t] = op[t] /\ old'[t] = slot[i] /\ slot[i].obj # Null
            /\ pc'[t] = IF slot[i].n = 0 THEN "slowLock" ELSE "refCAS"
      /\ Local(t)
  <2>1. CASE slot[i].obj = Null
    <3>1. NextSlot(t, "refRead") /\ ref[t] = Null
      BY Zenon, <1>1, <2>1 DEF RefRead, Scene, Cell, CallOK, HasNot
    <3> QED  BY ZenonT(60), <1>1, <3>1, NextSlotMoves DEF RefRead, Local, Moves, blockVars, ghostVars
  <2>2. CASE ~(slot[i].obj = Null)
    BY <1>1, <2>2 DEF RefRead, Scene, Local, Moves, Cell, Goto, SetOld, Types, blockVars, ghostVars, callVars
  <2> QED  BY Zenon, <2>1, <2>2
<1>3. Local(t)
  BY Zenon, <1>2
<1>4. CallOK(t)'
  BY <1>1, <1>2, <1>3 DEF Scene, Local, CallOK, Has, HasNot, CxPCs, Expected, FastWord, Empty
<1>5. SameKind(t) /\ SameNumber(t)
  BY Zenon, <1>1, <1>2 DEF Scene, CallOK, CxPCs, SameKind, SameNumber, Swapped, Biased, SlowPCs
<1>6. \A b \in Blocks : Owns(t, b)' <=> Owns(t, b)
  BY Zenon, <1>1, <1>2, <1>3 DEF Scene, CallOK, CxPCs, Local, Owns, Swapped
<1> QED
  BY Zenon, <1>2, <1>3, <1>4, <1>5, <1>6, LocalQuiet

LEMMA QuietSlowUnlock ==
    ASSUME Before, NEW t \in Threads, NEW i \in Slots, i = index[t], SlowUnlock(t)
    PROVE  Quiet(t, i)
<1>1. Scene(t, i) /\ Types
  BY SceneSet DEF Before
<1>2. /\ pc[t] = "slowUnlock" /\ notifyCount' = notifyCount
      /\ \/ pc'[t] = "refRead" /\ op'[t] = op[t] /\ ref[t] = Null
         \/ pc'[t] = "idle" /\ op'[t] = "none" /\ ref[t] = Null
         \/ op'[t] = op[t] /\ ref[t] # Null /\ pc'[t] = "use"
      /\ Local(t)
  <2>1. CASE ref[t] = Null
    <3>1. NextSlot(t, "refRead") /\ ref[t] = Null
      BY Zenon, <1>1, <2>1 DEF SlowUnlock, Scene, Cell, CallOK, HasNot
    <3> QED  BY Zenon, <1>1, <3>1, NextSlotMoves DEF SlowUnlock, Local, Moves, blockVars, ghostVars
  <2>2. CASE ~(ref[t] = Null)
    BY Zenon, <1>1, <2>2 DEF SlowUnlock, Scene, Local, Moves, Cell, Goto, SetOld, Types, blockVars, ghostVars, callVars
  <2> QED  BY Zenon, <2>1, <2>2
<1>3. Local(t)
  BY Zenon, <1>2
<1>4. CallOK(t)'
  BY Zenon, <1>1, <1>2, <1>3 DEF Scene, Local, CallOK, Has, HasNot, CxPCs, Expected, FastWord, Empty
<1>5. SameKind(t) /\ SameNumber(t)
  BY Zenon, <1>1, <1>2 DEF Scene, CallOK, CxPCs, SameKind, SameNumber, Swapped, Biased, SlowPCs
<1>6. \A b \in Blocks : Owns(t, b)' <=> Owns(t, b)
  BY Zenon, <1>1, <1>2, <1>3 DEF Scene, CallOK, CxPCs, Local, Owns, Swapped
<1> QED
  BY Zenon, <1>2, <1>3, <1>4, <1>5, <1>6, LocalQuiet

-----------------------------------------------------------------------------
(* Steps that change a count and leave blocks with their owners.           *)

(* A reference out of the cache.                                           *)
LEMMA QuietRefCAS ==
    ASSUME Before, NEW t \in Threads, NEW i \in Slots, i = index[t], RefCAS(t), slot[i] = old[t]
    PROVE  Quiet(t, i)
<1>1. Scene(t, i) /\ Types
  BY Zenon, SceneSet DEF Before
<1>2. /\ pc[t] = "refCAS" /\ slot[i] = old[t]
      /\ pc'[t] = "refill" \/ pc'[t] = "use"
      /\ ref'[t] = old[t].obj
      /\ slot'[i] = FastWord(old[t].obj, old[t].n - 1)
      /\ count' = count /\ leaked' = leaked /\ phase' = phase
      /\ op' = op /\ old' = old /\ new' = new /\ notifyCount' = notifyCount
  BY Zenon, <1>1 DEF RefCAS, Scene, Goto, SetOld, SetRef, SetCell, Cell, Protect, Unprotect, Types, blockVars, ghostVars, callVars
<1>3. Moves(t) /\ OneSlot(i)
  BY Zenon, <1>1 DEF RefCAS, Scene, Moves, OneSlot, Goto, SetOld, SetRef, SetCell, Cell, Types, blockVars, ghostVars, callVars
<1>4. CallOK(t)'
  BY Zenon, <1>1, <1>2 DEF Scene, CallOK, Has, HasNot, CxPCs, Expected, FastWord, Empty
<1>5. slot'[i].obj = slot[i].obj /\ Notifies(t, i)
  <2>1. SameNumber(t)
    BY Zenon, <1>1, <1>2 DEF Scene, CallOK, CxPCs, SameNumber, Swapped
  <2>2. slot'[i].obj = slot[i].obj
    BY <1>2 DEF FastWord
  <2> QED  BY Zenon, <1>1, <1>2, <2>1, <2>2, NotifiesSame DEF Scene
<1>6. \A b \in Blocks : Owns(t, b)' <=> Owns(t, b)
  BY Zenon, <1>1, <1>2 DEF Scene, CallOK, CxPCs, HasNot, Owns, Swapped
<1>7. \A b \in Blocks : Left(t, b) => count'[b] = count[b]
  BY Zenon, <1>2
<1>8. \A b \in Blocks : FreshOK(t, b)'
  BY Zenon, <1>1, <1>2 DEF Scene, CallOK, CxPCs, HasNot, FreshOK, Fresh, Biased
<1>9. \A b \in Blocks : Accounts(t, i, b)
  BY <1>1, <1>2 DEF Scene, CallOK, CxPCs, Has, HasNot, FastWord, Accounts, SlotRefs, RefsOf
<1>10. pc[t] # "cxFlush" /\ pc'[t] # "slowProtect" /\ pc[t] # "waiting" /\ pc'[t] # "waiting"
  BY Zenon, <1>2
<1> QED
  BY Zenon, <1>2, <1>3, <1>4, <1>5, <1>6, <1>7, <1>8, <1>9, <1>10 DEF Quiet, Counts

(* Protection for another cache, if it is granted.                         *)
LEMMA QuietRefill ==
    ASSUME Before, NEW t \in Threads, NEW i \in Slots, i = index[t], Refill(t)
    PROVE  Quiet(t, i)
<1>1. Scene(t, i) /\ Types
  BY SceneSet DEF Before
<1>2. /\ pc[t] = "refill" /\ ref[t] \in Blocks
      /\ \/ pc'[t] = "use" /\ count' = count
         \/ /\ pc'[t] = "addRead"
            /\ \A b \in Blocks : count'[b] = IF b = ref[t] THEN count[b] + MaxFastRefs ELSE count[b]
      /\ slot' = slot /\ leaked' = leaked /\ phase' = phase
      /\ op' = op /\ old' = old /\ new' = new /\ ref' = ref /\ notifyCount' = notifyCount
  BY <1>1 DEF Refill, Scene, Goto, SetOld, SetRef, SetCell, Cell, Protect, Unprotect, Types, blockVars, ghostVars, callVars, CallOK, Has, MaybeBlock
<1>3. Moves(t) /\ OneSlot(i)
  BY Zenon, <1>1 DEF Refill, Scene, Moves, OneSlot, Goto, SetOld, SetRef, SetCell, Cell, Types, blockVars, ghostVars, callVars
<1>4. CallOK(t)'
  BY Zenon, <1>1, <1>2 DEF Scene, CallOK, Has, HasNot, CxPCs, Expected, FastWord, Empty
<1>5. slot'[i].obj = slot[i].obj /\ Notifies(t, i)
  <2>1. SameNumber(t)
    BY Zenon, <1>1, <1>2 DEF Scene, CallOK, CxPCs, SameNumber, Swapped
  <2>2. slot'[i].obj = slot[i].obj
    BY Zenon, <1>2 DEF FastWord
  <2> QED  BY Zenon, <1>1, <1>2, <2>1, <2>2, NotifiesSame DEF Scene
<1>6. \A b \in Blocks : Owns(t, b)' <=> Owns(t, b)
  BY Zenon, <1>1, <1>2 DEF Scene, CallOK, CxPCs, HasNot, Owns, Swapped
<1>7. \A b \in Blocks : Left(t, b) => count'[b] = count[b]
  BY Zenon, <1>2, NotLeft DEF Used
<1>8. \A b \in Blocks : FreshOK(t, b)'
  BY Zenon, <1>1, <1>2 DEF Scene, CallOK, CxPCs, HasNot, FreshOK, Fresh, Biased
<1>9. \A b \in Blocks : Accounts(t, i, b)
  BY <1>1, <1>2 DEF Scene, CallOK, CxPCs, Has, HasNot, FastWord, Accounts, SlotRefs, RefsOf
<1>10. pc[t] # "cxFlush" /\ pc'[t] # "slowProtect" /\ pc[t] # "waiting" /\ pc'[t] # "waiting"
  BY Zenon, <1>2
<1> QED
  BY ZenonT(60), <1>2, <1>3, <1>4, <1>5, <1>6, <1>7, <1>8, <1>9, <1>10 DEF Quiet, Counts

(* The new references go to the cache.                                     *)
LEMMA QuietAddCAS ==
    ASSUME Before, NEW t \in Threads, NEW i \in Slots, i = index[t], AddCAS(t), slot[i] = old[t]
    PROVE  Quiet(t, i)
<1>1. Scene(t, i) /\ Types
  BY SceneSet DEF Before
<1>2. /\ pc[t] = "addCAS" /\ slot[i] = old[t] /\ old[t] = FastWord(ref[t], 0)
      /\ pc'[t] = "use"
      /\ slot'[i] = FastWord(ref[t], MaxFastRefs)
      /\ count' = count /\ leaked' = leaked /\ phase' = phase
      /\ op' = op /\ old' = old /\ new' = new /\ ref' = ref /\ notifyCount' = notifyCount
  BY Zenon, <1>1 DEF AddCAS, Scene, Goto, SetOld, SetRef, SetCell, Cell, Protect, Unprotect, Types, blockVars, ghostVars, callVars, CallOK
<1>3. Moves(t) /\ OneSlot(i)
  BY Zenon, <1>1 DEF AddCAS, Scene, Moves, OneSlot, Goto, SetOld, SetRef, SetCell, Cell, Types, blockVars, ghostVars, callVars
<1>4. CallOK(t)'
  BY Zenon, <1>1, <1>2 DEF Scene, CallOK, Has, HasNot, CxPCs, Expected, FastWord, Empty
<1>5. slot'[i].obj = slot[i].obj /\ Notifies(t, i)
  <2>1. SameNumber(t)
    BY Zenon, <1>1, <1>2 DEF Scene, CallOK, CxPCs, SameNumber, Swapped
  <2>2. slot'[i].obj = slot[i].obj
    BY <1>2 DEF FastWord
  <2> QED  BY Zenon, <1>1, <1>2, <2>1, <2>2, NotifiesSame DEF Scene
<1>6. \A b \in Blocks : Owns(t, b)' <=> Owns(t, b)
  BY Zenon, <1>1, <1>2 DEF Scene, CallOK, CxPCs, HasNot, Owns, Swapped
<1>7. \A b \in Blocks : Left(t, b) => count'[b] = count[b]
  BY Zenon, <1>2
<1>8. \A b \in Blocks : FreshOK(t, b)'
  BY Zenon, <1>1, <1>2 DEF Scene, CallOK, CxPCs, HasNot, FreshOK, Fresh, Biased
<1>9. \A b \in Blocks : Accounts(t, i, b)
  BY <1>1, <1>2 DEF Scene, CallOK, CxPCs, Has, HasNot, FastWord, Accounts, SlotRefs, RefsOf
<1>10. pc[t] # "cxFlush" /\ pc'[t] # "slowProtect" /\ pc[t] # "waiting" /\ pc'[t] # "waiting"
  BY Zenon, <1>2
<1> QED
  BY ZenonT(60), <1>2, <1>3, <1>4, <1>5, <1>6, <1>7, <1>8, <1>9, <1>10 DEF Quiet, Counts

(* The cache is not empty: they are given back.                            *)
LEMMA QuietUndo ==
    ASSUME Before, NEW t \in Threads, NEW i \in Slots, i = index[t], Undo(t)
    PROVE  Quiet(t, i)
<1>1. Scene(t, i) /\ Types
  BY SceneSet DEF Before
<1>2. /\ pc[t] = "undo" /\ ref[t] \in Blocks
      /\ pc'[t] = "use"
      /\ \A b \in Blocks : count'[b] = IF b = ref[t] THEN count[b] - MaxFastRefs ELSE count[b]
      /\ slot' = slot /\ leaked' = leaked /\ phase' = phase
      /\ op' = op /\ old' = old /\ new' = new /\ ref' = ref /\ notifyCount' = notifyCount
  BY Zenon, <1>1 DEF Undo, Scene, Goto, SetOld, SetRef, SetCell, Cell, Protect, Unprotect, Types, blockVars, ghostVars, callVars, CallOK, Has, MaybeBlock
<1>3. Moves(t) /\ OneSlot(i)
  BY Zenon, <1>1 DEF Undo, Scene, Moves, OneSlot, Goto, SetOld, SetRef, SetCell, Cell, Types, blockVars, ghostVars, callVars
<1>4. CallOK(t)'
  BY Zenon, <1>1, <1>2 DEF Scene, CallOK, Has, HasNot, CxPCs, Expected, FastWord, Empty
<1>5. slot'[i].obj = slot[i].obj /\ Notifies(t, i)
  <2>1. SameNumber(t)
    BY Zenon, <1>1, <1>2 DEF Scene, CallOK, CxPCs, SameNumber, Swapped
  <2>2. slot'[i].obj = slot[i].obj
    BY Zenon, <1>2 DEF FastWord
  <2> QED  BY Zenon, <1>1, <1>2, <2>1, <2>2, NotifiesSame DEF Scene
<1>6. \A b \in Blocks : Owns(t, b)' <=> Owns(t, b)
  BY Zenon, <1>1, <1>2 DEF Scene, CallOK, CxPCs, HasNot, Owns, Swapped
<1>7. \A b \in Blocks : Left(t, b) => count'[b] = count[b]
  BY Zenon, <1>2, NotLeft DEF Used
<1>8. \A b \in Blocks : FreshOK(t, b)'
  BY Zenon, <1>1, <1>2 DEF Scene, CallOK, CxPCs, HasNot, FreshOK, Fresh, Biased
<1>9. \A b \in Blocks : Accounts(t, i, b)
  BY <1>1, <1>2 DEF Scene, CallOK, CxPCs, Has, HasNot, FastWord, Accounts, SlotRefs, RefsOf
<1>10. pc[t] # "cxFlush" /\ pc'[t] # "slowProtect" /\ pc[t] # "waiting" /\ pc'[t] # "waiting"
  BY Zenon, <1>2
<1> QED
  BY Zenon, <1>2, <1>3, <1>4, <1>5, <1>6, <1>7, <1>8, <1>9, <1>10 DEF Quiet, Counts

(* A reference under the lock.                                             *)
LEMMA QuietSlowProtect ==
    ASSUME Before, NEW t \in Threads, NEW i \in Slots, i = index[t], SlowProtect(t)
    PROVE  Quiet(t, i)
<1>1. Scene(t, i) /\ Types
  BY SceneSet DEF Before
<1>2. /\ pc[t] = "slowProtect" /\ old[t].obj \in Blocks
      /\ pc'[t] = "slowUnlock"
      /\ \/ count' = count /\ ref'[t] = Null
         \/ /\ ref'[t] = old[t].obj
            /\ \A b \in Blocks : count'[b] = IF b = old[t].obj THEN count[b] + 1 ELSE count[b]
      /\ slot' = slot /\ leaked' = leaked /\ phase' = phase
      /\ op' = op /\ old' = old /\ new' = new /\ notifyCount' = notifyCount
  BY Zenon, <1>1 DEF SlowProtect, Scene, Goto, SetOld, SetRef, SetCell, Cell, Protect, Unprotect, Types, blockVars, ghostVars, callVars, CallOK, MaybeBlock
<1>3. Moves(t) /\ OneSlot(i)
  BY Zenon, <1>1 DEF SlowProtect, Scene, Moves, OneSlot, Goto, SetOld, SetRef, SetCell, Cell, Types, blockVars, ghostVars, callVars
<1>4. CallOK(t)'
  BY Zenon, <1>1, <1>2 DEF Scene, CallOK, Has, HasNot, CxPCs, Expected, FastWord, Empty
<1>5. slot'[i].obj = slot[i].obj /\ Notifies(t, i)
  <2>1. SameNumber(t)
    BY Zenon, <1>1, <1>2 DEF Scene, CallOK, CxPCs, SameNumber, Swapped
  <2>2. slot'[i].obj = slot[i].obj
    BY Zenon, <1>2 DEF FastWord
  <2> QED  BY Zenon, <1>1, <1>2, <2>1, <2>2, NotifiesSame DEF Scene
<1>6. \A b \in Blocks : Owns(t, b)' <=> Owns(t, b)
  BY Zenon, <1>1, <1>2 DEF Scene, CallOK, CxPCs, HasNot, Owns, Swapped
<1>7. \A b \in Blocks : Left(t, b) => count'[b] = count[b]
  BY Zenon, <1>2, NotLeft DEF Used
<1>8. \A b \in Blocks : FreshOK(t, b)'
  BY Zenon, <1>1, <1>2 DEF Scene, CallOK, CxPCs, HasNot, FreshOK, Fresh, Biased
<1>9. \A b \in Blocks : Accounts(t, i, b)
  BY <1>1, <1>2 DEF Scene, CallOK, CxPCs, Has, HasNot, FastWord, Accounts, SlotRefs, RefsOf
<1>10. pc[t] # "cxFlush" /\ pc'[t] # "slowProtect" /\ pc[t] # "waiting" /\ pc'[t] # "waiting"
  BY Zenon, <1>2
<1> QED
  BY Zenon, <1>2, <1>3, <1>4, <1>5, <1>6, <1>7, <1>8, <1>9, <1>10 DEF Quiet, Counts

(* The references of a slot.                                               *)
LEMMA QuietCxBias ==
    ASSUME Before, NEW t \in Threads, NEW i \in Slots, i = index[t], CxBias(t)
    PROVE  Quiet(t, i)
<1>1. Scene(t, i) /\ Types
  BY SceneSet DEF Before
<1>2. /\ pc[t] = "cxBias" /\ new[t] \in Blocks
      /\ pc'[t] = "cxRead"
      /\ \A b \in Blocks : count'[b] = IF b = new[t] THEN count[b] + (MaxFastRefs + 1) ELSE count[b]
      /\ slot' = slot /\ leaked' = leaked /\ phase' = phase
      /\ op' = op /\ old' = old /\ new' = new /\ ref' = ref /\ notifyCount' = notifyCount
  BY Zenon, <1>1 DEF CxBias, Scene, Goto, SetOld, SetRef, SetCell, Cell, Protect, Unprotect, Types, blockVars, ghostVars, callVars, CallOK, MaybeBlock
<1>3. Moves(t) /\ OneSlot(i)
  BY Zenon, <1>1 DEF CxBias, Scene, Moves, OneSlot, Goto, SetOld, SetRef, SetCell, Cell, Types, blockVars, ghostVars, callVars
<1>4. CallOK(t)'
  BY Zenon, <1>1, <1>2 DEF Scene, CallOK, Has, HasNot, CxPCs, Expected, FastWord, Empty
<1>5. slot'[i].obj = slot[i].obj /\ Notifies(t, i)
  <2>1. SameNumber(t)
    BY Zenon, <1>1, <1>2 DEF Scene, CallOK, CxPCs, SameNumber, Swapped
  <2>2. slot'[i].obj = slot[i].obj
    BY Zenon, <1>2 DEF FastWord
  <2> QED  BY Zenon, <1>1, <1>2, <2>1, <2>2, NotifiesSame DEF Scene
<1>6. \A b \in Blocks : Owns(t, b)' <=> Owns(t, b)
  BY Zenon, <1>1, <1>2 DEF Scene, CallOK, CxPCs, HasNot, Owns, Swapped
<1>7. \A b \in Blocks : Left(t, b) => count'[b] = count[b]
  BY Zenon, <1>2, NotLeft DEF Used
<1>8. ASSUME NEW b \in Blocks PROVE FreshOK(t, b)'
  <2>1. FreshOK(t, b) /\ count[b] \in Int /\ MaxFastRefs \in Nat
    BY Zenon, <1>1 DEF Scene
  <2> QED  BY <1>2, <2>1 DEF FreshOK, Fresh, Biased
<1>9. \A b \in Blocks : Accounts(t, i, b)
  BY <1>1, <1>2 DEF Scene, CallOK, CxPCs, Has, HasNot, FastWord, Accounts, SlotRefs, RefsOf
<1>10. pc[t] # "cxFlush" /\ pc'[t] # "slowProtect" /\ pc[t] # "waiting" /\ pc'[t] # "waiting"
  BY Zenon, <1>2
<1> QED
  BY Zenon, <1>2, <1>3, <1>4, <1>5, <1>6, <1>7, <1>8, <1>9, <1>10 DEF Quiet, Counts

(* The references of the slot are given back.                              *)
LEMMA QuietCxRelease ==
    ASSUME Before, NEW t \in Threads, NEW i \in Slots, i = index[t], CxRelease(t)
    PROVE  Quiet(t, i)
<1>1. Scene(t, i) /\ Types
  BY SceneSet DEF Before
<1>2. /\ pc[t] = "cxRelease" /\ ref[t] \in Blocks
      /\ pc'[t] = "cxTrue"
      /\ \A b \in Blocks : count'[b] = IF b = ref[t] THEN count[b] - (old[t].n + 1) ELSE count[b]
      /\ slot' = slot /\ leaked' = leaked /\ phase' = phase
      /\ op' = op /\ old' = old /\ new' = new /\ ref' = ref /\ notifyCount' = notifyCount
  BY Zenon, <1>1 DEF CxRelease, Scene, Goto, SetOld, SetRef, SetCell, Cell, Protect, Unprotect, Types, blockVars, ghostVars, callVars, CallOK, Has, MaybeBlock
<1>3. Moves(t) /\ OneSlot(i)
  BY Zenon, <1>1 DEF CxRelease, Scene, Moves, OneSlot, Goto, SetOld, SetRef, SetCell, Cell, Types, blockVars, ghostVars, callVars
<1>4. CallOK(t)'
  BY Zenon, <1>1, <1>2 DEF Scene, CallOK, Has, HasNot, CxPCs, Expected, FastWord, Empty
<1>5. slot'[i].obj = slot[i].obj /\ Notifies(t, i)
  <2>1. SameNumber(t)
    BY Zenon, <1>1, <1>2 DEF Scene, CallOK, CxPCs, SameNumber, Swapped
  <2>2. slot'[i].obj = slot[i].obj
    BY Zenon, <1>2 DEF FastWord
  <2> QED  BY Zenon, <1>1, <1>2, <2>1, <2>2, NotifiesSame DEF Scene
<1>6. \A b \in Blocks : Owns(t, b)' <=> Owns(t, b)
  BY Zenon, <1>1, <1>2 DEF Scene, CallOK, CxPCs, HasNot, Owns, Swapped
<1>7. \A b \in Blocks : Left(t, b) => count'[b] = count[b]
  BY Zenon, <1>2, NotLeft DEF Used
<1>8. \A b \in Blocks : FreshOK(t, b)'
  BY Zenon, <1>1, <1>2 DEF Scene, CallOK, CxPCs, HasNot, FreshOK, Fresh, Biased
<1>9. \A b \in Blocks : Accounts(t, i, b)
  BY <1>1, <1>2 DEF Scene, CallOK, CxPCs, Has, HasNot, FastWord, Accounts, SlotRefs, RefsOf
<1>10. pc[t] # "cxFlush" /\ pc'[t] # "slowProtect" /\ pc[t] # "waiting" /\ pc'[t] # "waiting"
  BY Zenon, <1>2
<1> QED
  BY Zenon, <1>2, <1>3, <1>4, <1>5, <1>6, <1>7, <1>8, <1>9, <1>10 DEF Quiet, Counts

(* The references that were for the slot are given back.                   *)
LEMMA QuietCxUnbias ==
    ASSUME Before, NEW t \in Threads, NEW i \in Slots, i = index[t], CxUnbias(t)
    PROVE  Quiet(t, i)
<1>1. Scene(t, i) /\ Types
  BY SceneSet DEF Before
<1>2. /\ pc[t] = "cxUnbias"
      /\ pc'[t] = "cxFalse"
      /\ \/ new[t] = Null /\ count' = count
         \/ /\ new[t] \in Blocks
            /\ \A b \in Blocks : count'[b] = IF b = new[t] THEN count[b] - (MaxFastRefs + 1) ELSE count[b]
      /\ slot' = slot /\ leaked' = leaked /\ phase' = phase
      /\ op' = op /\ old' = old /\ new' = new /\ ref' = ref /\ notifyCount' = notifyCount
  BY ZenonT(60), <1>1 DEF CxUnbias, Scene, Goto, SetOld, SetRef, SetCell, Cell, Protect, Unprotect, Types, blockVars, ghostVars, callVars, CallOK, MaybeBlock
<1>3. Moves(t) /\ OneSlot(i)
  BY Zenon, <1>1 DEF CxUnbias, Scene, Moves, OneSlot, Goto, SetOld, SetRef, SetCell, Cell, Types, blockVars, ghostVars, callVars
<1>4. CallOK(t)'
  BY Zenon, <1>1, <1>2 DEF Scene, CallOK, Has, HasNot, CxPCs, Expected, FastWord, Empty
<1>5. slot'[i].obj = slot[i].obj /\ Notifies(t, i)
  <2>1. SameNumber(t)
    BY Zenon, <1>1, <1>2 DEF Scene, CallOK, CxPCs, SameNumber, Swapped
  <2>2. slot'[i].obj = slot[i].obj
    BY Zenon, <1>2 DEF FastWord
  <2> QED  BY Zenon, <1>1, <1>2, <2>1, <2>2, NotifiesSame DEF Scene
<1>6. \A b \in Blocks : Owns(t, b)' <=> Owns(t, b)
  BY Zenon, <1>1, <1>2 DEF Scene, CallOK, CxPCs, HasNot, Owns, Swapped
<1>7. \A b \in Blocks : Left(t, b) => count'[b] = count[b]
  BY Zenon, <1>2, NotLeft DEF Used
<1>8. ASSUME NEW b \in Blocks PROVE FreshOK(t, b)'
  <2>1. FreshOK(t, b) /\ count[b] \in Int /\ MaxFastRefs \in Nat /\ Null \notin Blocks
    BY Zenon, <1>1 DEF Scene
  <2> QED  BY <1>2, <2>1 DEF FreshOK, Fresh, Biased
<1>9. \A b \in Blocks : Accounts(t, i, b)
  BY <1>1, <1>2 DEF Scene, CallOK, CxPCs, Has, HasNot, FastWord, Accounts, SlotRefs, RefsOf
<1>10. pc[t] # "cxFlush" /\ pc'[t] # "slowProtect" /\ pc[t] # "waiting" /\ pc'[t] # "waiting"
  BY Zenon, <1>2
<1> QED
  BY Zenon, <1>2, <1>3, <1>4, <1>5, <1>6, <1>7, <1>8, <1>9, <1>10 DEF Quiet, Counts

(* ExDereferenceCallBackBlock has returned.                                *)
LEMMA DroppedMoves ==
    ASSUME Types, NEW t \in Threads, Dropped(t)
    PROVE  /\ Moves(t) /\ ref'[t] = Null
           /\ \/ /\ op[t] = "remove" /\ new'[t] = ref[t]
                 /\ pc'[t] = "wait" /\ op'[t] = op[t]
              \/ /\ op[t] # "remove" /\ new'[t] = new[t]
                 /\ \/ pc'[t] = "refRead" /\ op'[t] = op[t]
                    \/ pc'[t] = "idle" /\ op'[t] = "none"
<1>1. CASE op[t] = "remove"
  BY Zenon, <1>1 DEF Dropped, Moves, Goto, SetRef, callVars, Types
<1>2. CASE op[t] # "remove"
  <2>1. NextSlot(t, "refRead") /\ new' = new /\ ref' = [ref EXCEPT ![t] = Null]
    BY Zenon, <1>2 DEF Dropped, SetRef
  <2> QED  BY ZenonT(60), <1>2, <2>1, NextSlotMoves DEF Moves, Types
<1> QED
  BY Zenon, <1>1, <1>2

(* A reference back into the cache.                                        *)
LEMMA QuietDerefCAS ==
    ASSUME Before, NEW t \in Threads, NEW i \in Slots, i = index[t], DerefCAS(t), slot[i] = old[t]
    PROVE  Quiet(t, i)
<1>1. Scene(t, i) /\ Types
  BY SceneSet DEF Before
<1>2. /\ pc[t] = "derefCAS" /\ slot[i] = old[t] /\ old[t].obj = ref[t] /\ old[t].n < MaxFastRefs
      /\ ref'[t] = Null
      /\ \/ /\ op[t] = "remove" /\ new'[t] = ref[t]
            /\ pc'[t] = "wait" /\ op'[t] = op[t]
         \/ /\ op[t] # "remove" /\ new'[t] = new[t]
            /\ \/ pc'[t] = "refRead" /\ op'[t] = op[t]
               \/ pc'[t] = "idle" /\ op'[t] = "none"
      /\ slot'[i] = FastWord(ref[t], old[t].n + 1)
      /\ count' = count /\ leaked' = leaked /\ phase' = phase
      /\ notifyCount' = notifyCount
  <2>1. Dropped(t)
    BY Zenon, <1>1 DEF DerefCAS, Scene, Cell
  <2> QED  BY Zenon, <1>1, <2>1, DroppedMoves DEF DerefCAS, Scene, CallOK, SetCell, Cell, Types, blockVars, ghostVars
<1>3. Moves(t) /\ OneSlot(i)
  BY Zenon, <1>1, DroppedMoves DEF DerefCAS, Scene, OneSlot, SetCell, Cell, Types
<1>4. CallOK(t)'
  BY Zenon, <1>1, <1>2 DEF Scene, CallOK, Has, HasNot, CxPCs, Expected, FastWord, Empty
<1>5. slot'[i].obj = slot[i].obj /\ Notifies(t, i)
  <2>1. SameNumber(t)
    BY Zenon, <1>1, <1>2 DEF Scene, CallOK, CxPCs, SameNumber, Swapped
  <2>2. slot'[i].obj = slot[i].obj
    BY <1>2 DEF FastWord
  <2> QED  BY Zenon, <1>1, <1>2, <2>1, <2>2, NotifiesSame DEF Scene
<1>6. \A b \in Blocks : Owns(t, b)' <=> Owns(t, b)
  BY Zenon, <1>1, <1>2 DEF Scene, CallOK, CxPCs, HasNot, Owns, Swapped
<1>7. \A b \in Blocks : Left(t, b) => count'[b] = count[b]
  BY Zenon, <1>2
<1>8. \A b \in Blocks : FreshOK(t, b)'
  BY Zenon, <1>1, <1>2 DEF Scene, CallOK, CxPCs, HasNot, FreshOK, Fresh, Biased
<1>9. \A b \in Blocks : Accounts(t, i, b)
  BY <1>1, <1>2 DEF Scene, CallOK, CxPCs, Has, HasNot, FastWord, Accounts, SlotRefs, RefsOf
<1>10. pc[t] # "cxFlush" /\ pc'[t] # "slowProtect" /\ pc[t] # "waiting" /\ pc'[t] # "waiting"
  BY Zenon, <1>2
<1> QED
  BY Zenon, <1>2, <1>3, <1>4, <1>5, <1>6, <1>7, <1>8, <1>9, <1>10 DEF Quiet, Counts

(* A reference back to the rundown protection.                             *)
LEMMA QuietRelease ==
    ASSUME Before, NEW t \in Threads, NEW i \in Slots, i = index[t], Release(t)
    PROVE  Quiet(t, i)
<1>1. Scene(t, i) /\ Types
  BY SceneSet DEF Before
<1>2. /\ pc[t] = "release" /\ ref[t] \in Blocks
      /\ ref'[t] = Null
      /\ \/ /\ op[t] = "remove" /\ new'[t] = ref[t]
            /\ pc'[t] = "wait" /\ op'[t] = op[t]
         \/ /\ op[t] # "remove" /\ new'[t] = new[t]
            /\ \/ pc'[t] = "refRead" /\ op'[t] = op[t]
               \/ pc'[t] = "idle" /\ op'[t] = "none"
      /\ slot' = slot
      /\ \A b \in Blocks : count'[b] = IF b = ref[t] THEN count[b] - 1 ELSE count[b]
      /\ leaked' = leaked /\ phase' = phase
      /\ notifyCount' = notifyCount
  BY Zenon, <1>1, DroppedMoves DEF Release, Scene, CallOK, Has, MaybeBlock, Unprotect, Types, ghostVars
<1>3. Moves(t) /\ OneSlot(i)
  BY Zenon, <1>1, DroppedMoves DEF Release, OneSlot
<1>4. CallOK(t)'
  BY Zenon, <1>1, <1>2 DEF Scene, CallOK, Has, HasNot, CxPCs, Expected, FastWord, Empty
<1>5. slot'[i].obj = slot[i].obj /\ Notifies(t, i)
  <2>1. SameNumber(t)
    BY Zenon, <1>1, <1>2 DEF Scene, CallOK, CxPCs, SameNumber, Swapped
  <2>2. slot'[i].obj = slot[i].obj
    BY Zenon, <1>2 DEF FastWord
  <2> QED  BY Zenon, <1>1, <1>2, <2>1, <2>2, NotifiesSame DEF Scene
<1>6. \A b \in Blocks : Owns(t, b)' <=> Owns(t, b)
  BY Zenon, <1>1, <1>2 DEF Scene, CallOK, CxPCs, HasNot, Owns, Swapped
<1>7. \A b \in Blocks : Left(t, b) => count'[b] = count[b]
  BY Zenon, <1>2, NotLeft DEF Used
<1>8. \A b \in Blocks : FreshOK(t, b)'
  BY Zenon, <1>1, <1>2 DEF Scene, CallOK, CxPCs, HasNot, FreshOK, Fresh, Biased
<1>9. \A b \in Blocks : Accounts(t, i, b)
  BY <1>1, <1>2 DEF Scene, CallOK, CxPCs, Has, HasNot, FastWord, Accounts, SlotRefs, RefsOf
<1>10. pc[t] # "cxFlush" /\ pc'[t] # "slowProtect" /\ pc[t] # "waiting" /\ pc'[t] # "waiting"
  BY Zenon, <1>2
<1> QED
  BY ZenonT(60), <1>2, <1>3, <1>4, <1>5, <1>6, <1>7, <1>8, <1>9, <1>10 DEF Quiet, Counts

(* The number of routines is brought up to date.                           *)
LEMMA QuietSucceeded ==
    ASSUME Before, NEW t \in Threads, NEW i \in Slots, i = index[t], Succeeded(t)
    PROVE  Quiet(t, i)
<1>1. Scene(t, i) /\ Types
  BY SceneSet DEF Before
<1>2. /\ pc[t] = "cxTrue" /\ slot' = slot /\ count' = count
      /\ \/ /\ op[t] = "register" /\ notifyCount' = notifyCount + 1
            /\ pc'[t] = "idle" /\ op'[t] = "none"
         \/ /\ op[t] = "unregister" /\ notifyCount' = notifyCount - 1
            /\ pc'[t] = "derefRead" /\ op'[t] = "remove"
      /\ leaked' = leaked /\ phase' = phase /\ new' = new /\ ref' = ref
  BY Zenon, <1>1 DEF Succeeded, Finish, Goto, Types, blockVars, ghostVars
<1>3. Moves(t) /\ OneSlot(i)
  BY Zenon, <1>1 DEF Succeeded, Finish, Moves, OneSlot, Goto, SetOld, Types
<1>4. CallOK(t)'
  BY Zenon, <1>1, <1>2 DEF Scene, CallOK, Has, HasNot, CxPCs, Expected, FastWord, Empty
<1>5. slot'[i].obj = slot[i].obj /\ Notifies(t, i)
  <2>1. /\ Filled(i)' = Filled(i) /\ Filled(i) \in Int
        /\ Added(t)' = 0 /\ Added(t) = Ind(op[t] = "register")
        /\ Removed(t)' = 0 /\ Removed(t) = Ind(op[t] = "unregister")
    BY <1>2 DEF Filled, Added, Removed, Ind, Swapped
  <2>2. notifyCount \in Int
    BY Zenon, <1>1 DEF Scene
  <2> QED  BY <1>2, <2>1, <2>2 DEF Notifies, Ind
<1>6. \A b \in Blocks : Owns(t, b)' <=> Owns(t, b)
  BY Zenon, <1>1, <1>2 DEF Scene, CallOK, CxPCs, HasNot, Owns, Swapped
<1>7. \A b \in Blocks : Left(t, b) => count'[b] = count[b]
  BY Zenon, <1>2
<1>8. \A b \in Blocks : FreshOK(t, b)'
  BY Zenon, <1>1, <1>2 DEF Scene, CallOK, CxPCs, HasNot, FreshOK, Fresh, Biased
<1>9. \A b \in Blocks : Accounts(t, i, b)
  BY <1>1, <1>2 DEF Scene, CallOK, CxPCs, Has, HasNot, FastWord, Accounts, SlotRefs, RefsOf
<1>10. pc[t] # "cxFlush" /\ pc'[t] # "slowProtect" /\ pc[t] # "waiting" /\ pc'[t] # "waiting"
  BY Zenon, <1>2
<1> QED
  BY ZenonT(60), <1>2, <1>3, <1>4, <1>5, <1>6, <1>7, <1>8, <1>9, <1>10 DEF Quiet, Counts

(* A removal that has lost the race goes on.                               *)
LEMMA QuietFailedPs ==
    ASSUME Before, NEW t \in Threads, NEW i \in Slots, i = index[t], Failed(t), op[t] # "register"
    PROVE  Quiet(t, i)
<1>1. Scene(t, i) /\ Types
  BY Zenon, SceneSet DEF Before
<1>2. /\ pc[t] = "cxFalse" /\ op[t] = "unregister" /\ ref[t] \in Blocks
      /\ slot' = slot /\ count' = count /\ phase' = phase /\ notifyCount' = notifyCount /\ new' = new
      /\ \/ /\ pc'[t] = "derefRead" /\ op'[t] = op[t] /\ ref'[t] = ref[t]
            /\ leaked' = leaked
         \/ /\ (pc'[t] = "refRead" /\ op'[t] = op[t]) \/ (pc'[t] = "idle" /\ op'[t] = "none")
            /\ ref'[t] = Null
            /\ \A b \in Blocks : leaked'[b] = IF b = ref[t] THEN leaked[b] + 1 ELSE leaked[b]
      /\ Moves(t)
  <2>1. /\ pc[t] = "cxFalse" /\ op[t] = "unregister" /\ ref[t] \in Blocks
        /\ slot' = slot /\ count' = count /\ phase' = phase /\ notifyCount' = notifyCount /\ new' = new
    BY Zenon, <1>1 DEF Failed, Scene, CallOK, MaybeBlock, CxPCs
  <2>2. CASE client = "ps"
    BY Zenon, <1>1, <2>1, <2>2 DEF Failed, Moves, Goto, callVars, Types
  <2>3. CASE client # "ps"
    <3>1. /\ NextSlot(t, "refRead") /\ ref' = [ref EXCEPT ![t] = Null]
          /\ leaked' = [leaked EXCEPT ![ref[t]] = @ + 1]
      BY Zenon, <2>1, <2>3 DEF Failed, SetRef
    <3>2. \/ pc'[t] = "refRead" /\ op'[t] = op[t]
          \/ pc'[t] = "idle" /\ op'[t] = "none"
      BY Zenon, <1>1, <3>1, NextSlotMoves
    <3>3. Moves(t)
      BY ZenonT(60), <1>1, <2>1, <3>1, NextSlotMoves DEF Moves, Types
    <3> QED  BY Zenon, <1>1, <2>1, <3>1, <3>2, <3>3 DEF Types
  <2> QED  BY Zenon, <2>2, <2>3, <2>1
<1>3. Moves(t) /\ OneSlot(i)
  BY Zenon, <1>1, <1>2 DEF OneSlot
<1>4. CallOK(t)'
  BY Zenon, <1>1, <1>2 DEF Scene, CallOK, Has, HasNot, CxPCs, Expected, FastWord, Empty
<1>5. slot'[i].obj = slot[i].obj /\ Notifies(t, i)
  <2>1. SameNumber(t)
    BY Zenon, <1>1, <1>2 DEF Scene, CallOK, CxPCs, SameNumber, Swapped
  <2>2. slot'[i].obj = slot[i].obj
    BY Zenon, <1>2 DEF FastWord
  <2> QED  BY Zenon, <1>1, <1>2, <2>1, <2>2, NotifiesSame DEF Scene
<1>6. \A b \in Blocks : Owns(t, b)' <=> Owns(t, b)
  BY Zenon, <1>1, <1>2 DEF Scene, CallOK, CxPCs, HasNot, Owns, Swapped
<1>7. \A b \in Blocks : Left(t, b) => count'[b] = count[b]
  BY Zenon, <1>2
<1>8. \A b \in Blocks : FreshOK(t, b)'
  BY Zenon, <1>1, <1>2 DEF Scene, CallOK, CxPCs, HasNot, FreshOK, Fresh, Biased
<1>9. \A b \in Blocks : Accounts(t, i, b)
  BY <1>1, <1>2 DEF Scene, CallOK, CxPCs, Has, HasNot, FastWord, Accounts, SlotRefs, RefsOf
<1>10. pc[t] # "cxFlush" /\ pc'[t] # "slowProtect" /\ pc[t] # "waiting" /\ pc'[t] # "waiting"
  BY Zenon, <1>2
<1> QED
  BY ZenonT(60), <1>2, <1>3, <1>4, <1>5, <1>6, <1>7, <1>8, <1>9, <1>10 DEF Quiet, Counts

(* A registration tries the next slot.                                     *)
LEMMA QuietFailedNext ==
    ASSUME Before, NEW t \in Threads, NEW i \in Slots, i = index[t], Failed(t), op[t] = "register", index[t] # NumberSlots
    PROVE  Quiet(t, i)
<1>1. Scene(t, i) /\ Types
  BY Zenon, SceneSet DEF Before
<1>2. /\ pc[t] = "cxFalse" /\ op[t] = "register" /\ pc'[t] = "cxBias" /\ op' = op
      /\ slot' = slot /\ count' = count /\ notifyCount' = notifyCount /\ new' = new /\ ref' = ref
      /\ leaked' = leaked /\ phase' = phase
      /\ Moves(t)
  <2>1. /\ pc[t] = "cxFalse" /\ op[t] = "register"
        /\ slot' = slot /\ count' = count /\ notifyCount' = notifyCount /\ new' = new /\ ref' = ref
        /\ leaked' = leaked /\ phase' = phase
        /\ NextSlot(t, "cxBias") /\ ~(index[t] = NumberSlots)
    BY Zenon DEF Failed
  <2> QED  BY Zenon, <1>1, <2>1 DEF NextSlot, Moves, Goto, SetOld, Types
<1>3. Moves(t) /\ OneSlot(i)
  BY Zenon, <1>1, <1>2 DEF OneSlot
<1>4. CallOK(t)'
  BY Zenon, <1>1, <1>2 DEF Scene, CallOK, Has, HasNot, CxPCs, Expected, FastWord, Empty
<1>5. slot'[i].obj = slot[i].obj /\ Notifies(t, i)
  <2>1. SameNumber(t)
    BY Zenon, <1>1, <1>2 DEF Scene, CallOK, CxPCs, SameNumber, Swapped
  <2>2. slot'[i].obj = slot[i].obj
    BY Zenon, <1>2 DEF FastWord
  <2> QED  BY Zenon, <1>1, <1>2, <2>1, <2>2, NotifiesSame DEF Scene
<1>6. \A b \in Blocks : Owns(t, b)' <=> Owns(t, b)
  BY Zenon, <1>1, <1>2 DEF Scene, CallOK, CxPCs, HasNot, Owns, Swapped
<1>7. \A b \in Blocks : Left(t, b) => count'[b] = count[b]
  BY Zenon, <1>2
<1>8. \A b \in Blocks : FreshOK(t, b)'
  BY Zenon, <1>1, <1>2 DEF Scene, CallOK, CxPCs, HasNot, FreshOK, Fresh, Biased
<1>9. \A b \in Blocks : Accounts(t, i, b)
  BY <1>1, <1>2 DEF Scene, CallOK, CxPCs, Has, HasNot, FastWord, Accounts, SlotRefs, RefsOf
<1>10. pc[t] # "cxFlush" /\ pc'[t] # "slowProtect" /\ pc[t] # "waiting" /\ pc'[t] # "waiting"
  BY Zenon, <1>2
<1> QED
  BY Zenon, <1>2, <1>3, <1>4, <1>5, <1>6, <1>7, <1>8, <1>9, <1>10 DEF Quiet, Counts
-----------------------------------------------------------------------------
(* Blocks and their owners after a step.                                   *)
Places == OwnerInv /\ FreeInv /\ SlowInv

LEMMA SlowKept ==
    ASSUME SlowInv, NEW t \in Threads, Moves(t),
           \A j \in Slots : slot'[j].obj = slot[j].obj,
           pc'[t] = "slowProtect" => \E j \in Slots : slot[j].obj = old'[t].obj,
           pc[t] = "cxFlush" => \A u \in Threads : pc[u] # "slowProtect"
    PROVE  SlowInv'
<1> SUFFICES ASSUME NEW u \in Threads, pc'[u] = "slowProtect"
             PROVE  \/ \E j \in Slots : slot'[j].obj = old'[u].obj
                    \/ \E v \in Threads : pc'[v] = "cxFlush" /\ ref'[v] = old'[u].obj
  BY Zenon DEF SlowInv
<1>1. CASE u = t
  BY Zenon, <1>1
<1>2. CASE u # t
  <2>1. pc[u] = "slowProtect" /\ old'[u] = old[u]
    BY Zenon, <1>2 DEF Moves
  <2>2. \A v \in Threads : pc[v] = "cxFlush" => pc'[v] = "cxFlush" /\ ref'[v] = ref[v]
    BY Zenon, <2>1 DEF Moves
  <2> QED  BY <2>1, <2>2 DEF SlowInv
<1> QED
  BY Zenon, <1>1, <1>2

(* The counts of free and of fresh blocks, but those of t and of b.        *)
LEMMA FreeKept ==
    ASSUME FreeInv, NEW t \in Threads, Moves(t), NEW b \in Blocks,
           phase[b] = "free" => count'[b] = count[b],
           \A u \in Threads : u # t /\ Fresh(u, b) => count'[b] = count[b],
           FreshOK(t, b)',
           phase'[b] = "free" => phase[b] = "free" \/ count'[b] = 0
    PROVE  /\ phase'[b] = "free" => count'[b] = 0
           /\ \A u \in Threads : FreshOK(u, b)'
<1>1. phase'[b] = "free" => count'[b] = 0
  BY Zenon DEF FreeInv
<1>2. ASSUME NEW u \in Threads, u # t PROVE FreshOK(u, b)'
  <2>1. op'[u] = op[u] /\ new'[u] = new[u] /\ pc'[u] = pc[u]
    BY Zenon, <1>2 DEF Moves
  <2> QED  BY Zenon, <1>2, <2>1 DEF FreeInv, FreshOK, Fresh
<1> QED
  BY Zenon, <1>1, <1>2

(* A block whose owner stays what it is.                                   *)
LEMMA OwnedKept ==
    ASSUME OwnerInv, NEW b \in Blocks, phase'[b] = phase[b],
           \A j \in Slots : slot'[j].obj = b => slot[j].obj = b,
           \A u \in Threads :
              Owns(u, b)' => Owns(u, b) /\ (pc'[u] = "waiting" <=> pc[u] = "waiting")
    PROVE  OwnedOnce(b)'
  BY DEF OwnerInv, OwnedOnce

LEMMA QuietPlaces ==
    ASSUME Before, NEW t \in Threads, NEW i \in Slots, Quiet(t, i)
    PROVE  Places'
<1>0. OwnerInv /\ FreeInv /\ SlowInv /\ Moves(t)
  BY Zenon DEF Before, Quiet, Counts
<1>1. \A j \in Slots : slot'[j].obj = slot[j].obj
  BY Zenon DEF Quiet, Counts, OneSlot
<1>2. \A u \in Threads, b \in Blocks : Owns(u, b)' <=> Owns(u, b)
  BY DEF Quiet, Counts, Moves, Owns
<1>3. \A u \in Threads : pc'[u] = "waiting" <=> pc[u] = "waiting"
  BY Zenon DEF Quiet, Counts, Moves
<1>4. OwnerInv'
  <2>1. phase' = phase
    BY Zenon DEF Quiet
  <2>2. \A b \in Blocks : OwnedOnce(b)'
    BY Zenon, <1>0, <1>1, <1>2, <1>3, <2>1, OwnedKept
  <2> QED  BY Zenon, <2>2 DEF OwnerInv
<1>5. FreeInv'
  <2>1. ASSUME NEW b \in Blocks
        PROVE  /\ phase'[b] = "free" => count'[b] = 0
               /\ \A u \in Threads : FreshOK(u, b)'
    <3>1. /\ phase[b] = "free" => count'[b] = count[b]
          /\ \A u \in Threads : u # t /\ Fresh(u, b) => count'[b] = count[b]
          /\ FreshOK(t, b)' /\ phase' = phase
      BY Zenon DEF Quiet, Left
    <3> QED  BY Zenon, <1>0, <3>1, FreeKept
  <2> QED  BY Zenon, <2>1 DEF FreeInv
<1>6. SlowInv'
  <2>1. /\ pc'[t] = "slowProtect" => \E j \in Slots : slot[j].obj = old'[t].obj
        /\ pc[t] = "cxFlush" => \A u \in Threads : pc[u] # "slowProtect"
    BY Zenon DEF Quiet
  <2> QED  BY Zenon, <1>0, <1>1, <2>1, SlowKept
<1> QED
  BY Zenon, <1>4, <1>5, <1>6 DEF Places

(* A block is allocated.                                                   *)
LEMMA StepRegister ==
    ASSUME Before, NEW t \in Threads, NEW i \in Slots, i = index[t],
           NEW r \in Routines, NEW c \in Blocks, Register(t, r, c)
    PROVE  Counts(t, i) /\ Places'
<1>1. Scene(t, i) /\ Types /\ OwnerInv /\ FreeInv /\ SlowInv
  BY Zenon, SceneSet DEF Before
<1>2. /\ pc[t] = "idle" /\ pc'[t] = "cxBias" /\ op'[t] = "register"
      /\ new[t] = Null /\ new'[t] = c /\ ref[t] = Null
      /\ phase[c] = "free" /\ phase'[c] = "open" /\ count[c] = 0
      /\ \A b \in Blocks : b # c => phase'[b] = phase[b]
      /\ count' = count
      /\ slot' = slot /\ leaked' = leaked /\ ref' = ref /\ old' = old /\ notifyCount' = notifyCount
  <2>1. /\ pc[t] = "idle" /\ pc'[t] = "cxBias" /\ op'[t] = "register" /\ new'[t] = c
        /\ phase[c] = "free" /\ phase'[c] = "open"
        /\ \A b \in Blocks : b # c => phase'[b] = phase[b]
        /\ slot' = slot /\ leaked' = leaked /\ ref' = ref /\ old' = old /\ notifyCount' = notifyCount
    BY Zenon, <1>1 DEF Register, Goto, Types, ghostVars
  <2>2. new[t] = Null /\ ref[t] = Null
    BY Zenon, <1>1, <2>1 DEF Scene, CallOK, HasNot, CxPCs
  <2>3. count[c] = 0
    BY Zenon, <1>1, <2>1 DEF FreeInv
  <2>4. count' = count
    BY Zenon, <1>1, <2>3 DEF Register, Types
  <2> QED  BY Zenon, <2>1, <2>2, <2>3, <2>4
<1>3. Moves(t) /\ OneSlot(i)
  BY Zenon, <1>1 DEF Register, Moves, OneSlot, Goto, Types
<1>4. CallOK(t)'
  BY Zenon, <1>1, <1>2 DEF Scene, CallOK, Has, HasNot, CxPCs, Expected
<1>5. Notifies(t, i)
  <2>1. SameNumber(t)
    BY Zenon, <1>2 DEF SameNumber, Swapped
  <2> QED  BY Zenon, <1>1, <1>2, <2>1, NotifiesSame DEF Scene
<1>6. \A b \in Blocks : Accounts(t, i, b)
  BY <1>1, <1>2 DEF Scene, Accounts, SlotRefs, RefsOf
<1>7. \A u \in Threads, b \in Blocks : Owns(u, b)' <=> Owns(u, b) \/ (u = t /\ b = c)
  <2>1. \A b \in Blocks : Owns(t, b)' <=> b = c
    BY Zenon, <1>1, <1>2 DEF Scene, Owns
  <2>2. \A b \in Blocks : ~Owns(t, b)
    BY Zenon, <1>1, <1>2 DEF Scene, Owns
  <2>3. \A u \in Threads, b \in Blocks : u # t => (Owns(u, b)' <=> Owns(u, b))
    BY Zenon, <1>3 DEF Moves, Owns
  <2> QED  BY Zenon, <2>1, <2>2, <2>3
<1>8. \A u \in Threads : ~Owns(u, c) /\ \A j \in Slots : slot[j].obj # c
  BY Zenon, <1>1, <1>2 DEF OwnerInv, OwnedOnce
<1>9. \A u \in Threads : pc'[u] = "waiting" <=> pc[u] = "waiting"
  BY Zenon, <1>2, <1>3 DEF Moves
<1>10. OwnerInv'
  <2> SUFFICES ASSUME NEW b \in Blocks PROVE OwnedOnce(b)'
    BY Zenon DEF OwnerInv
  <2>1. CASE b = c
    BY Zenon, <1>2, <1>7, <1>8, <2>1 DEF OwnedOnce
  <2>2. CASE b # c
    BY Zenon, <1>1, <1>2, <1>7, <1>9, <2>2, OwnedKept
  <2> QED  BY Zenon, <2>1, <2>2
<1>11. FreeInv'
  <2>1. ASSUME NEW b \in Blocks
        PROVE  /\ phase'[b] = "free" => count'[b] = 0
               /\ \A u \in Threads : FreshOK(u, b)'
    <3>1. FreshOK(t, b)'
      BY Zenon, <1>2 DEF FreshOK, Fresh, Biased
    <3>2. phase'[b] = "free" => phase[b] = "free"
      BY Zenon, <1>2
    <3> QED  BY Zenon, <1>1, <1>2, <1>3, <3>1, <3>2, FreeKept
  <2> QED  BY Zenon, <2>1 DEF FreeInv
<1>12. SlowInv'
  BY Zenon, <1>1, <1>2, <1>3, SlowKept
<1> QED
  BY Zenon, <1>3, <1>4, <1>5, <1>6, <1>10, <1>11, <1>12 DEF Counts, Places

(* A block is freed by the thread that owns it.                            *)
LEMMA FreePlaces ==
    ASSUME Before, NEW t \in Threads, Moves(t), NEW c \in Blocks,
           new[t] = c, count[c] = 0, count' = count, slot' = slot,
           new'[t] = Null, ref'[t] = Null, pc'[t] = "idle", op'[t] = "none",
           pc[t] # "cxFlush",
           phase' = [phase EXCEPT ![c] = "free"]
    PROVE  Places'
<1>1. OwnerInv /\ FreeInv /\ SlowInv /\ phase \in [Blocks -> {"free", "open", "closing"}] /\ Null \notin Blocks
  BY Zenon, ConstantsAssumption DEF Before, Types
<1>2. Owns(t, c)
  BY Zenon DEF Owns
<1>3. \A u \in Threads, b \in Blocks : Owns(u, b)' => Owns(u, b) /\ u # t
  BY <1>1 DEF Moves, Owns
<1>4. \A u \in Threads : ~Owns(u, c)' /\ \A j \in Slots : slot[j].obj # c
  BY Zenon, <1>1, <1>2, <1>3 DEF OwnerInv, OwnedOnce
<1>5. \A b \in Blocks : b # c => phase'[b] = phase[b]
  BY Zenon, <1>1
<1>6. \A u \in Threads : u # t => (pc'[u] = "waiting" <=> pc[u] = "waiting")
  BY Zenon DEF Moves
<1>7. OwnerInv'
  <2> SUFFICES ASSUME NEW b \in Blocks PROVE OwnedOnce(b)'
    BY Zenon DEF OwnerInv
  <2>1. CASE b = c
    BY Zenon, <1>4, <2>1 DEF OwnedOnce
  <2>2. CASE b # c
    BY Zenon, <1>1, <1>3, <1>5, <1>6, <2>2, OwnedKept
  <2> QED  BY Zenon, <2>1, <2>2
<1>8. FreeInv'
  <2>1. ASSUME NEW b \in Blocks
        PROVE  /\ phase'[b] = "free" => count'[b] = 0
               /\ \A u \in Threads : FreshOK(u, b)'
    <3>1. FreshOK(t, b)'
      BY Zenon DEF FreshOK, Fresh
    <3>2. phase'[b] = "free" => phase[b] = "free" \/ count'[b] = 0
      BY Zenon, <1>5
    <3> QED  BY Zenon, <1>1, <3>1, <3>2, FreeKept
  <2> QED  BY Zenon, <2>1 DEF FreeInv
<1>9. SlowInv'
  BY Zenon, <1>1, SlowKept
<1> QED
  BY Zenon, <1>7, <1>8, <1>9 DEF Places

LEMMA StepFree ==
    ASSUME Before, NEW t \in Threads, NEW i \in Slots, i = index[t],
           Free(t) \/ (Failed(t) /\ op[t] = "register" /\ index[t] = NumberSlots)
    PROVE  Counts(t, i) /\ Places'
<1>1. Scene(t, i) /\ Types
  BY Zenon, SceneSet DEF Before
<1>2. PICK c \in Blocks :
      /\ new[t] = c /\ ref[t] = Null /\ count[c] = 0
      /\ (pc[t] = "waiting" /\ op[t] = "remove") \/ (pc[t] = "cxFalse" /\ op[t] = "register")
  <2>1. CASE Free(t)
    BY Zenon, <1>1, <2>1 DEF Free, Scene, CallOK, HasNot, MaybeBlock
  <2>2. CASE Failed(t) /\ op[t] = "register"
    <3>1. pc[t] = "cxFalse" /\ ref[t] = Null /\ new[t] \in Blocks
      BY Zenon, <1>1, <2>2 DEF Failed, Scene, CallOK, MaybeBlock
    <3>2. FreshOK(t, new[t])
      BY Zenon, <1>1, <3>1 DEF Scene
    <3> QED  BY Zenon, <2>2, <3>1, <3>2 DEF FreshOK, Fresh, Biased
  <2> QED  BY Zenon, <2>1, <2>2
<1>3. /\ Finish(t)
      /\ phase' = [phase EXCEPT ![c] = "free"] /\ new' = [new EXCEPT ![t] = Null]
      /\ slot' = slot /\ count' = count /\ leaked' = leaked /\ ref' = ref /\ notifyCount' = notifyCount
  <2>1. CASE Free(t)
    BY Zenon, <1>2, <2>1 DEF Free, ghostVars
  <2>2. CASE Failed(t) /\ op[t] = "register" /\ index[t] = NumberSlots
    <3>1. index[t] \in Int /\ ~(index[t] < NumberSlots)
      BY <2>2, ConstantsAssumption
    <3> QED  BY Zenon, <1>2, <2>2, <3>1 DEF Failed, NextSlot
  <2> QED  BY Zenon, <2>1, <2>2
<1>4. /\ pc'[t] = "idle" /\ op'[t] = "none" /\ new'[t] = Null /\ ref'[t] = Null
      /\ Moves(t) /\ OneSlot(i)
  BY Zenon, <1>1, <1>2, <1>3 DEF Finish, Moves, OneSlot, Goto, SetOld, Types
<1>5. CallOK(t)'
  BY Zenon, <1>4 DEF CallOK, Has, HasNot, CxPCs, Expected
<1>6. Notifies(t, i)
  <2>1. SameNumber(t)
    BY Zenon, <1>2, <1>4 DEF SameNumber, Swapped
  <2> QED  BY Zenon, <1>1, <1>3, <2>1, NotifiesSame DEF Scene
<1>7. ASSUME NEW b \in Blocks PROVE Accounts(t, i, b)
  <2>1. RefsOf(t, b) = 0 /\ RefsOf(t, b)' = 0
    BY <1>1, <1>2, <1>4 DEF Scene, RefsOf
  <2>2. SlotRefs(i, b)' = SlotRefs(i, b) /\ SlotRefs(i, b) \in Int
    BY <1>1, <1>3 DEF Scene, SlotRefs
  <2>3. count'[b] = count[b] /\ count[b] \in Int /\ leaked'[b] = leaked[b] /\ leaked[b] \in Int
    BY <1>1, <1>3 DEF Scene
  <2> QED  BY <2>1, <2>2, <2>3 DEF Accounts
<1>8. Places'
  BY Zenon, <1>2, <1>3, <1>4, FreePlaces
<1> QED
  BY Zenon, <1>4, <1>5, <1>6, <1>7, <1>8 DEF Counts

(* ExWaitForRundownProtectionRelease closes the protection.                *)
LEMMA StepWait ==
    ASSUME Before, NEW t \in Threads, NEW i \in Slots, i = index[t], Wait(t)
    PROVE  Counts(t, i) /\ Places'
<1>1. Scene(t, i) /\ Types /\ OwnerInv /\ FreeInv /\ SlowInv
  BY Zenon, SceneSet DEF Before
<1>2. PICK c \in Blocks :
      /\ new[t] = c /\ ref[t] = Null /\ op[t] = "remove" /\ pc[t] = "wait"
  BY Zenon, <1>1 DEF Wait, Scene, CallOK, HasNot, MaybeBlock
<1>3. /\ pc'[t] = "waiting" /\ op' = op /\ new' = new /\ ref' = ref /\ old' = old
      /\ phase' = [phase EXCEPT ![c] = "closing"]
      /\ slot' = slot /\ count' = count /\ leaked' = leaked /\ notifyCount' = notifyCount
      /\ Moves(t) /\ OneSlot(i)
  BY Zenon, <1>1, <1>2 DEF Wait, Goto, Types, callVars, ghostVars, Moves, OneSlot
<1>4. CallOK(t)'
  BY Zenon, <1>1, <1>2, <1>3 DEF Scene, CallOK, Has, HasNot, CxPCs, Expected
<1>5. Notifies(t, i)
  <2>1. SameNumber(t)
    BY Zenon, <1>2, <1>3 DEF SameNumber, Swapped
  <2> QED  BY Zenon, <1>1, <1>3, <2>1, NotifiesSame DEF Scene
<1>6. \A b \in Blocks : Accounts(t, i, b)
  BY <1>1, <1>2, <1>3 DEF Scene, Accounts, SlotRefs, RefsOf
<1>7. \A u \in Threads, b \in Blocks : Owns(u, b)' <=> Owns(u, b)
  BY Zenon, <1>1, <1>2, <1>3 DEF Scene, Owns, Moves, Swapped
<1>8. \A u \in Threads : u # t => (pc'[u] = "waiting" <=> pc[u] = "waiting")
  BY Zenon, <1>3 DEF Moves
<1>9. Owns(t, c) /\ \A b \in Blocks : b # c => phase'[b] = phase[b] /\ ~Owns(t, b)
  BY Zenon, <1>1, <1>2, <1>3 DEF Owns, Types, Scene
<1>10. phase'[c] = "closing"
  BY Zenon, <1>1, <1>3 DEF Types
<1>11. OwnerInv'
  <2> SUFFICES ASSUME NEW b \in Blocks PROVE OwnedOnce(b)'
    BY Zenon DEF OwnerInv
  <2>1. CASE b = c
    <3>1. \A u \in Threads : Owns(u, c) => u = t
      BY Zenon, <1>1, <1>9 DEF OwnerInv, OwnedOnce
    <3>2. \A j \in Slots : slot[j].obj # c
      BY Zenon, <1>1, <1>9 DEF OwnerInv, OwnedOnce
    <3> QED  BY Zenon, <1>3, <1>7, <1>10, <2>1, <3>1, <3>2 DEF OwnedOnce
  <2>2. CASE b # c
    BY ZenonT(60), <1>1, <1>3, <1>7, <1>8, <1>9, <2>2, OwnedKept
  <2> QED  BY Zenon, <2>1, <2>2
<1>12. FreeInv'
  <2>1. ASSUME NEW b \in Blocks
        PROVE  /\ phase'[b] = "free" => count'[b] = 0
               /\ \A u \in Threads : FreshOK(u, b)'
    <3>1. FreshOK(t, b)'
      BY Zenon, <1>2, <1>3 DEF FreshOK, Fresh
    <3>2. phase'[b] = "free" => phase[b] = "free"
      BY Zenon, <1>9, <1>10
    <3> QED  BY Zenon, <1>1, <1>3, <3>1, <3>2, FreeKept
  <2> QED  BY Zenon, <2>1 DEF FreeInv
<1>13. SlowInv'
  BY Zenon, <1>1, <1>2, <1>3, SlowKept
<1> QED
  BY Zenon, <1>3, <1>4, <1>5, <1>6, <1>11, <1>12, <1>13 DEF Counts, Places

(* A block gets into an empty slot.                                        *)
LEMMA StepInstall ==
    ASSUME Before, NEW t \in Threads, NEW i \in Slots, i = index[t], CxCAS(t),
           slot[i] = old[t], op[t] = "register"
    PROVE  Counts(t, i) /\ Places'
<1>1. Scene(t, i) /\ Types /\ OwnerInv /\ FreeInv /\ SlowInv
  BY Zenon, SceneSet DEF Before
<1>2. PICK c \in Blocks :
      /\ new[t] = c /\ ref[t] = Null /\ pc[t] = "cxCAS" /\ old[t].obj = Null
  BY Zenon, <1>1 DEF CxCAS, Scene, CallOK, Expected, MaybeBlock
<1>3. /\ pc'[t] = "cxTrue" /\ op' = op /\ new'[t] = Null /\ ref' = ref /\ old' = old
      /\ slot'[i] = FastWord(c, MaxFastRefs)
      /\ phase' = phase /\ count' = count /\ leaked' = leaked /\ notifyCount' = notifyCount
      /\ Moves(t) /\ OneSlot(i)
  BY ZenonT(60), <1>1, <1>2 DEF CxCAS, Scene, Cell, SetCell, Goto, Types, callVars, blockVars, ghostVars, Moves, OneSlot
<1>4. CallOK(t)'
  BY Zenon, <1>1, <1>2, <1>3 DEF Scene, CallOK, Has, HasNot, CxPCs, Expected
<1>5. Notifies(t, i)
  <2>1. Filled(i) = 0 /\ Filled(i)' = 1
    BY <1>1, <1>2, <1>3 DEF Scene, FastWord, Filled, Ind
  <2>2. Added(t) = 0 /\ Added(t)' = 1
    BY Zenon, <1>2, <1>3 DEF Added, Ind
  <2>3. Removed(t) = 0 /\ Removed(t)' = 0
    BY Zenon, <1>2, <1>3 DEF Removed, Ind
  <2> QED  BY <1>1, <1>3, <2>1, <2>2, <2>3 DEF Notifies, Scene
<1>6. \A b \in Blocks : Accounts(t, i, b)
  BY <1>1, <1>2, <1>3 DEF Scene, FastWord, Accounts, SlotRefs, RefsOf
<1>7. Owns(t, c) /\ pc[t] # "waiting"
  BY Zenon, <1>2 DEF Owns
<1>8. \A u \in Threads, b \in Blocks : Owns(u, b)' <=> Owns(u, b) /\ u # t
  BY Zenon, <1>1, <1>2, <1>3 DEF Scene, Owns, Moves
<1>9. /\ phase[c] = "open" /\ \A j \in Slots : slot[j].obj # c
      /\ \A u \in Threads : Owns(u, c) => u = t
  BY Zenon, <1>1, <1>7 DEF OwnerInv, OwnedOnce
<1>10. \A u \in Threads : u # t => (pc'[u] = "waiting" <=> pc[u] = "waiting")
  BY Zenon, <1>3 DEF Moves
<1>11. slot'[i].obj = c /\ \A j \in Slots : j # i => slot'[j].obj = slot[j].obj
  <2>1. slot'[i].obj = c
    BY <1>3 DEF FastWord
  <2> QED  BY Zenon, <1>3, <2>1 DEF OneSlot
<1>12. OwnerInv'
  <2> SUFFICES ASSUME NEW b \in Blocks PROVE OwnedOnce(b)'
    BY Zenon DEF OwnerInv
  <2>1. CASE b = c
    BY Zenon, <1>3, <1>8, <1>9, <1>11, <2>1 DEF OwnedOnce
  <2>2. CASE b # c
    <3>1. slot'[i].obj # b /\ phase' = phase
      BY Zenon, <1>3, <1>11, <2>2
    <3> QED  BY ZenonT(60), <1>1, <1>8, <1>10, <1>11, <2>2, <3>1, OwnedKept
  <2> QED  BY Zenon, <2>1, <2>2
<1>13. FreeInv'
  <2>1. ASSUME NEW b \in Blocks
        PROVE  /\ phase'[b] = "free" => count'[b] = 0
               /\ \A u \in Threads : FreshOK(u, b)'
    <3>1. FreshOK(t, b)'
      BY Zenon, <1>1, <1>3 DEF FreshOK, Fresh, Scene
    <3> QED  BY Zenon, <1>1, <1>3, <3>1, FreeKept
  <2> QED  BY Zenon, <2>1 DEF FreeInv
<1>14. SlowInv'
  <2> SUFFICES ASSUME NEW u \in Threads, pc'[u] = "slowProtect"
               PROVE  \/ \E j \in Slots : slot'[j].obj = old'[u].obj
                      \/ \E v \in Threads : pc'[v] = "cxFlush" /\ ref'[v] = old'[u].obj
    BY Zenon DEF SlowInv
  <2>1. u # t /\ pc[u] = "slowProtect" /\ old'[u] = old[u]
    BY Zenon, <1>3 DEF Moves
  <2>2. slot[i].obj = Null /\ old[u].obj # Null
    BY Zenon, <1>2, <2>1 DEF Before, CallInv, CallOK
  <2>3. \A v \in Threads : pc[v] = "cxFlush" => pc'[v] = "cxFlush" /\ ref'[v] = ref[v]
    BY Zenon, <1>2, <1>3 DEF Moves
  <2> QED  BY <1>1, <1>11, <2>1, <2>2, <2>3 DEF SlowInv
<1> QED
  BY ZenonT(60), <1>3, <1>4, <1>5, <1>6, <1>12, <1>13, <1>14 DEF Counts, Places

(* A block is taken out of its slot.                                       *)
LEMMA StepTakeOut ==
    ASSUME Before, NEW t \in Threads, NEW i \in Slots, i = index[t], CxCAS(t),
           slot[i] = old[t], op[t] # "register"
    PROVE  Counts(t, i) /\ Places'
<1>1. Scene(t, i) /\ Types /\ OwnerInv /\ FreeInv /\ SlowInv
  BY Zenon, SceneSet DEF Before
<1>2. PICK c \in Blocks :
      /\ ref[t] = c /\ new[t] = Null /\ op[t] = "unregister" /\ pc[t] = "cxCAS" /\ old[t].obj = c
  BY ZenonT(60), <1>1 DEF CxCAS, Scene, CallOK, CxPCs, Expected, MaybeBlock
<1>3. /\ pc'[t] = "cxFlush" /\ op' = op /\ new'[t] = Null /\ ref' = ref /\ old' = old
      /\ slot'[i] = Empty
      /\ phase' = phase /\ count' = count /\ leaked' = leaked /\ notifyCount' = notifyCount
      /\ Moves(t) /\ OneSlot(i)
  BY <1>1, <1>2 DEF CxCAS, Scene, Cell, SetCell, Goto, Types, callVars, blockVars, ghostVars, Moves, OneSlot
<1>4. CallOK(t)'
  BY ZenonT(60), <1>1, <1>2, <1>3 DEF Scene, CallOK, Has, HasNot, CxPCs, Expected
<1>5. Notifies(t, i)
  <2>1. Filled(i) = 1 /\ Filled(i)' = 0
    BY <1>1, <1>2, <1>3 DEF Scene, Empty, FastWord, Filled, Ind
  <2>2. Added(t) = 0 /\ Added(t)' = 0
    BY Zenon, <1>2, <1>3 DEF Added, Ind
  <2>3. Removed(t) = 0 /\ Removed(t)' = 1
    BY Zenon, <1>2, <1>3 DEF Removed, Ind, Swapped
  <2>4. notifyCount \in Int /\ notifyCount' = notifyCount
    BY Zenon, <1>1, <1>3 DEF Scene, Types
  <2> QED  BY <2>1, <2>2, <2>3, <2>4 DEF Notifies
<1>6. \A b \in Blocks : Accounts(t, i, b)
  BY <1>1, <1>2, <1>3 DEF Scene, Empty, FastWord, Accounts, SlotRefs, RefsOf
<1>7. \A u \in Threads, b \in Blocks : Owns(u, b)' <=> Owns(u, b) \/ (u = t /\ b = c)
  BY ZenonT(60), <1>1, <1>2, <1>3 DEF Scene, Owns, Moves, Swapped
<1>8. slot[i].obj = c /\ phase[c] = "open" /\ \A j \in Slots : slot[j].obj = c => j = i
  BY <1>1, <1>2 DEF OwnerInv, OwnedOnce
<1>9. \A u \in Threads : ~Owns(u, c)
  BY Zenon, <1>1, <1>8 DEF OwnerInv, OwnedOnce
<1>10. \A u \in Threads : pc'[u] = "waiting" <=> pc[u] = "waiting"
  BY Zenon, <1>2, <1>3 DEF Moves
<1>11. slot'[i].obj = Null /\ Null \notin Blocks /\ \A j \in Slots : j # i => slot'[j].obj = slot[j].obj
  <2>1. slot'[i].obj = Null
    BY <1>3 DEF Empty, FastWord
  <2> QED  BY Zenon, <1>1, <1>3, <2>1 DEF Scene, OneSlot
<1>12. OwnerInv'
  <2> SUFFICES ASSUME NEW b \in Blocks PROVE OwnedOnce(b)'
    BY Zenon DEF OwnerInv
  <2>1. CASE b = c
    BY <1>3, <1>7, <1>8, <1>9, <1>11, <2>1 DEF OwnedOnce
  <2>2. CASE b # c
    <3>1. phase' = phase /\ \A j \in Slots : slot'[j].obj = b => slot[j].obj = b
      BY Zenon, <1>3, <1>11
    <3> QED  BY Zenon, <1>1, <1>7, <1>10, <2>2, <3>1, OwnedKept
  <2> QED  BY Zenon, <2>1, <2>2
<1>13. FreeInv'
  <2>1. ASSUME NEW b \in Blocks
        PROVE  /\ phase'[b] = "free" => count'[b] = 0
               /\ \A u \in Threads : FreshOK(u, b)'
    <3>1. FreshOK(t, b)'
      BY ZenonT(60), <1>2, <1>3 DEF FreshOK, Fresh
    <3> QED  BY Zenon, <1>1, <1>3, <3>1, FreeKept
  <2> QED  BY Zenon, <2>1 DEF FreeInv
<1>14. SlowInv'
  <2> SUFFICES ASSUME NEW u \in Threads, pc'[u] = "slowProtect"
               PROVE  \/ \E j \in Slots : slot'[j].obj = old'[u].obj
                      \/ \E v \in Threads : pc'[v] = "cxFlush" /\ ref'[v] = old'[u].obj
    BY Zenon DEF SlowInv
  <2>1. u # t /\ pc[u] = "slowProtect" /\ old'[u] = old[u]
    BY Zenon, <1>3 DEF Moves
  <2>2. \A v \in Threads : pc[v] = "cxFlush" => pc'[v] = "cxFlush" /\ ref'[v] = ref[v]
    BY Zenon, <1>2, <1>3 DEF Moves
  <2>3. pc'[t] = "cxFlush" /\ ref'[t] = c
    BY Zenon, <1>2, <1>3
  <2>4. \A j \in Slots : slot[j].obj # c => slot'[j].obj = slot[j].obj
    BY Zenon, <1>8, <1>11
  <2> QED  BY <1>1, <2>1, <2>2, <2>3, <2>4 DEF SlowInv
<1> QED
  BY ZenonT(60), <1>3, <1>4, <1>5, <1>6, <1>12, <1>13, <1>14 DEF Counts, Places
-----------------------------------------------------------------------------
(* Every step.                                                             *)
LEMMA EveryStep ==
    ASSUME Before, NEW t \in Threads, Begin(t) \/ Continue(t)
    PROVE  \E i \in Slots : Counts(t, i) /\ Places'
<1>1. index[t] \in Slots
  BY Zenon, SceneSet
<1>2. PICK i \in Slots : i = index[t]
  BY Zenon, <1>1
<1> SUFFICES Quiet(t, i) \/ (Counts(t, i) /\ Places')
  BY Zenon, QuietPlaces DEF Quiet
<1>3. CASE Begin(t)
  BY Zenon, <1>2, <1>3, QuietCallAll, QuietUnregister, StepRegister DEF Begin
<1>4. CASE Use(t) \/ Succeeded(t) \/ Wait(t) \/ Free(t)
  BY Zenon, <1>2, <1>4, QuietUse, QuietSucceeded, StepWait, StepFree
<1>5. CASE Failed(t)
  BY Zenon, <1>2, <1>5, QuietFailedPs, QuietFailedNext, StepFree
<1>6. CASE RefRead(t) \/ Refill(t) \/ AddRead(t) \/ Undo(t)
  BY Zenon, <1>2, <1>6, QuietRefRead, QuietRefill, QuietAddRead, QuietUndo
<1>7. CASE SlowLock(t) \/ SlowRead(t) \/ SlowProtect(t) \/ SlowUnlock(t)
  BY Zenon, <1>2, <1>7, QuietSlowLock, QuietSlowRead, QuietSlowProtect, QuietSlowUnlock
<1>8. CASE DerefRead(t) \/ Release(t) \/ CxBias(t) \/ CxRead(t)
  BY Zenon, <1>2, <1>8, QuietDerefRead, QuietRelease, QuietCxBias, QuietCxRead
<1>9. CASE CxFlush(t) \/ CxRelease(t) \/ CxUnbias(t)
  BY Zenon, <1>2, <1>9, QuietCxFlush, QuietCxRelease, QuietCxUnbias
<1>10. CASE RefCAS(t)
  <2>1. CASE slot[i] = old[t]
    BY Zenon, <1>2, <1>10, <2>1, QuietRefCAS
  <2>2. CASE slot[i] # old[t]
    <3>1. /\ <<pc[t], "refRead">> \in Retries /\ pc' = [pc EXCEPT ![t] = "refRead"]
          /\ UNCHANGED <<slot, blockVars, notifyCount, callVars, new, ref, old>>
      BY ZenonT(60), <1>2, <1>10, <2>2 DEF RefCAS, Cell, Goto, Retries
    <3> QED  BY Zenon, <1>2, <3>1, QuietRetry
  <2> QED  BY Zenon, <2>1, <2>2
<1>11. CASE AddCAS(t)
  <2>1. CASE slot[i] = old[t]
    BY <1>2, <1>11, <2>1, QuietAddCAS
  <2>2. CASE slot[i] # old[t]
    <3>1. /\ <<pc[t], "addRead">> \in Retries /\ pc' = [pc EXCEPT ![t] = "addRead"]
          /\ UNCHANGED <<slot, blockVars, notifyCount, callVars, new, ref, old>>
      BY ZenonT(60), <1>2, <1>11, <2>2 DEF AddCAS, Cell, Goto, Retries
    <3> QED  BY Zenon, <1>2, <3>1, QuietRetry
  <2> QED  BY <2>1, <2>2
<1>12. CASE DerefCAS(t)
  <2>1. CASE slot[i] = old[t]
    BY <1>2, <1>12, <2>1, QuietDerefCAS
  <2>2. CASE slot[i] # old[t]
    <3>1. /\ <<pc[t], "derefRead">> \in Retries /\ pc' = [pc EXCEPT ![t] = "derefRead"]
          /\ UNCHANGED <<slot, blockVars, notifyCount, callVars, new, ref, old>>
      BY Zenon, <1>2, <1>12, <2>2 DEF DerefCAS, Cell, Goto, Retries
    <3> QED  BY Zenon, <1>2, <3>1, QuietRetry
  <2> QED  BY <2>1, <2>2
<1>13. CASE CxCAS(t)
  <2>1. CASE slot[i] = old[t]
    BY Zenon, <1>2, <1>13, <2>1, StepInstall, StepTakeOut
  <2>2. CASE slot[i] # old[t]
    <3>1. /\ <<pc[t], "cxRead">> \in Retries /\ pc' = [pc EXCEPT ![t] = "cxRead"]
          /\ UNCHANGED <<slot, blockVars, notifyCount, callVars, new, ref, old>>
      BY Zenon, <1>2, <1>13, <2>2 DEF CxCAS, Cell, Goto, Retries
    <3> QED  BY Zenon, <1>2, <3>1, QuietRetry
  <2> QED  BY <2>1, <2>2
<1> QED
  BY ZenonT(60), <1>3, <1>4, <1>5, <1>6, <1>7, <1>8, <1>9, <1>10, <1>11, <1>12, <1>13 DEF Continue

-----------------------------------------------------------------------------
(* Sums.                                                                   *)

(* A sum over S is a term and the sum over the other elements.             *)
LEMMA TotalSplit ==
    ASSUME NEW S, IsFiniteSet(S), NEW M \in Nat, NEW f \in [S -> 0 .. M], NEW x \in S
    PROVE  LET rest == UNION {{y} \X (1 .. f[y]) : y \in S \ {x}}
           IN  /\ Total(f) \in Nat /\ Cardinality(rest) \in Nat
               /\ Total(f) = Cardinality(rest) + f[x]
<1> DEFINE A == UNION {{y} \X (1 .. f[y]) : y \in S}
           rest == UNION {{y} \X (1 .. f[y]) : y \in S \ {x}}
           mine == {x} \X (1 .. f[x])
<1>1. f[x] \in Nat /\ f[x] <= M
  OBVIOUS
<1>2. IsFiniteSet(1 .. f[x]) /\ Cardinality(1 .. f[x]) = f[x]
  BY <1>1, FS_Interval
<1>3. IsFiniteSet(mine) /\ Cardinality(mine) = f[x]
  <2>1. IsFiniteSet({x}) /\ Cardinality({x}) = 1
    BY Zenon, FS_Singleton
  <2>2. /\ IsFiniteSet({x} \X (1 .. f[x]))
        /\ Cardinality({x} \X (1 .. f[x])) = Cardinality({x}) * Cardinality(1 .. f[x])
    BY Zenon, <1>2, <2>1, FS_Product
  <2>3. 1 * f[x] = f[x]
    BY <1>1
  <2> QED  BY Zenon, <1>2, <2>1, <2>2, <2>3
<1>4. IsFiniteSet(rest)
  <2>1. IsFiniteSet(1 .. M)
    BY FS_Interval
  <2>2. IsFiniteSet(S \X (1 .. M))
    BY Zenon, <2>1, FS_Product
  <2>3. rest \in SUBSET (S \X (1 .. M))
    OBVIOUS
  <2> HIDE DEF rest
  <2> QED  BY Zenon, <2>2, <2>3, FS_Subset
<1>5. A = rest \cup mine /\ rest \cap mine = {}
  OBVIOUS
<1>6. Total(f) = Cardinality(A)
  BY Zenon DEF Total
<1>7. Cardinality(rest) \in Nat
  BY Zenon, <1>4, FS_CardinalityType
<1> HIDE DEF A, rest, mine
<1>8. Cardinality(A) = Cardinality(rest) + f[x]
  BY <1>1, <1>3, <1>4, <1>5, <1>7, FS_Union, FS_EmptySet
<1> QED
  BY <1>1, <1>6, <1>7, <1>8 DEF rest

(* When one term changes, the sum changes by as much.                      *)
LEMMA TotalStep ==
    ASSUME NEW S, IsFiniteSet(S), NEW M \in Nat,
           NEW f \in [S -> 0 .. M], NEW g \in [S -> 0 .. M],
           NEW x \in S, \A y \in S : y # x => g[y] = f[y]
    PROVE  /\ Total(f) \in Nat /\ Total(g) \in Nat
           /\ Total(f) >= f[x]
           /\ Total(g) = Total(f) + g[x] - f[x]
<1> DEFINE F == UNION {{y} \X (1 .. f[y]) : y \in S \ {x}}
           G == UNION {{y} \X (1 .. g[y]) : y \in S \ {x}}
<1>1. F = G
  OBVIOUS
<1>2. /\ Total(f) \in Nat /\ Cardinality(F) \in Nat
      /\ Total(f) = Cardinality(F) + f[x]
  BY Zenon, TotalSplit
<1>3. /\ Total(g) \in Nat /\ Cardinality(G) \in Nat
      /\ Total(g) = Cardinality(G) + g[x]
  BY Zenon, TotalSplit
<1>4. f[x] \in Nat /\ g[x] \in Nat
  OBVIOUS
<1> HIDE DEF F, G
<1> QED
  BY <1>1, <1>2, <1>3, <1>4

(* A sum of zeros.                                                         *)
LEMMA TotalZero ==
    ASSUME NEW S, NEW f \in [S -> Nat], \A x \in S : f[x] = 0
    PROVE  Total(f) = 0
<1>1. UNION {{y} \X (1 .. f[y]) : y \in S} = {}
  OBVIOUS
<1> QED
  BY Zenon, <1>1, FS_EmptySet DEF Total
-----------------------------------------------------------------------------
(* References.                                                             *)

MaxRefs == 2 * MaxFastRefs + 3

LEMMA RefsType ==
    ASSUME NEW t \in Threads, NEW b \in Blocks, old[t] \in FastWords
    PROVE  RefsOf(t, b) \in 0 .. MaxRefs
BY ConstantsAssumption DEF RefsOf, MaxRefs, FastWords

LEMMA SlotType ==
    ASSUME NEW i \in Slots, NEW b \in Blocks, slot[i] \in FastWords
    PROVE  SlotRefs(i, b) \in 0 .. MaxRefs
BY ConstantsAssumption DEF SlotRefs, MaxRefs, FastWords

(* The sums, and that a reference of a thread is counted.                  *)
LEMMA SumsStep ==
    ASSUME Types, Types', NEW t \in Threads, Moves(t), NEW i \in Slots, OneSlot(i),
           NEW b \in Blocks
    PROVE  LET S == Total([j \in Slots |-> SlotRefs(j, b)])
               R == Total([u \in Threads |-> RefsOf(u, b)])
           IN  /\ S \in Nat /\ S' \in Nat /\ R \in Nat /\ R' \in Nat
               /\ S' = S + SlotRefs(i, b)' - SlotRefs(i, b)
               /\ R' = R + RefsOf(t, b)' - RefsOf(t, b)
<1> DEFINE s == [j \in Slots |-> SlotRefs(j, b)]
           r == [u \in Threads |-> RefsOf(u, b)]
<1>1. MaxRefs \in Nat /\ IsFiniteSet(Threads) /\ IsFiniteSet(Slots)
  BY ConstantsAssumption, FS_Interval DEF MaxRefs, Slots
<1>2. s \in [Slots -> 0 .. MaxRefs] /\ s' \in [Slots -> 0 .. MaxRefs]
  <2>1. \A j \in Slots : SlotRefs(j, b) \in 0 .. MaxRefs
    BY Zenon, SlotType DEF Types
  <2>2. \A j \in Slots : SlotRefs(j, b)' \in 0 .. MaxRefs
    BY ConstantsAssumption DEF SlotRefs, MaxRefs, FastWords, Types
  <2> QED  BY Zenon, <2>1, <2>2
<1>3. r \in [Threads -> 0 .. MaxRefs] /\ r' \in [Threads -> 0 .. MaxRefs]
  <2>1. \A u \in Threads : RefsOf(u, b) \in 0 .. MaxRefs
    BY Zenon, RefsType DEF Types
  <2>2. \A u \in Threads : RefsOf(u, b)' \in 0 .. MaxRefs
    BY ConstantsAssumption DEF RefsOf, MaxRefs, FastWords, Types
  <2> QED  BY Zenon, <2>1, <2>2
<1>4. \A j \in Slots : j # i => s'[j] = s[j]
  BY Zenon DEF OneSlot, SlotRefs
<1>5. \A u \in Threads : u # t => r'[u] = r[u]
  BY Zenon DEF Moves, RefsOf
<1>6. s[i] = SlotRefs(i, b) /\ s'[i] = SlotRefs(i, b)' /\ r[t] = RefsOf(t, b) /\ r'[t] = RefsOf(t, b)'
  OBVIOUS
<1> HIDE DEF s, r
<1>7. Total(s) \in Nat /\ Total(s') \in Nat /\ Total(s') = Total(s) + s'[i] - s[i]
  BY <1>1, <1>2, <1>4, TotalStep
<1>8. Total(r) \in Nat /\ Total(r') \in Nat /\ Total(r') = Total(r) + r'[t] - r[t]
  BY <1>1, <1>3, <1>5, TotalStep
<1> QED
  BY Zenon, <1>6, <1>7, <1>8 DEF s, r

LEMMA ExactStep ==
    ASSUME TypeOK, RefsExact, Types', NEW t \in Threads, Moves(t), NEW i \in Slots, OneSlot(i),
           \A b \in Blocks : Accounts(t, i, b)
    PROVE  RefsExact' /\ TypeOK'
<1>1. Types
  BY DEF TypeOK, Types
<1>2. ASSUME NEW b \in Blocks
      PROVE  /\ count'[b] = Total([j \in Slots |-> SlotRefs(j, b)])' + leaked'[b]
                            + Total([u \in Threads |-> RefsOf(u, b)])'
             /\ count'[b] \in Nat
  <2> DEFINE S == Total([j \in Slots |-> SlotRefs(j, b)])
             R == Total([u \in Threads |-> RefsOf(u, b)])
  <2>1. /\ S \in Nat /\ S' \in Nat /\ R \in Nat /\ R' \in Nat
        /\ S' = S + SlotRefs(i, b)' - SlotRefs(i, b)
        /\ R' = R + RefsOf(t, b)' - RefsOf(t, b)
    BY Zenon, <1>1, SumsStep
  <2>2. count[b] = S + leaked[b] + R
    BY Zenon DEF RefsExact
  <2>3. leaked[b] \in Nat /\ leaked'[b] \in Nat
    BY Zenon DEF Types, TypeOK
  <2>4. SlotRefs(i, b) \in Int /\ SlotRefs(i, b)' \in Int /\ RefsOf(t, b) \in Int /\ RefsOf(t, b)' \in Int
    <3>1. SlotRefs(i, b) \in Int /\ SlotRefs(i, b)' \in Int
      BY <1>1, ConstantsAssumption DEF SlotRefs, FastWords, Types
    <3>2. RefsOf(t, b) \in Int /\ RefsOf(t, b)' \in Int
      BY <1>1, ConstantsAssumption DEF RefsOf, FastWords, Types
    <3> QED  BY Zenon, <3>1, <3>2
  <2>5. Accounts(t, i, b)
    OBVIOUS
  <2> HIDE DEF S, R
  <2>6. count'[b] = S' + leaked'[b] + R'
    BY <2>1, <2>2, <2>3, <2>4, <2>5 DEF Accounts
  <2>7. count'[b] \in Nat
    BY <2>1, <2>3, <2>6
  <2> QED  BY Zenon, <2>6, <2>7 DEF S, R
<1>3. RefsExact'
  BY Zenon, <1>2 DEF RefsExact
<1>4. count' \in [Blocks -> Nat]
  BY Zenon, <1>2 DEF Types
<1> QED
  BY Zenon, <1>3, <1>4 DEF TypeOK, Types

(* A reference is counted, and those of another thread besides.            *)
LEMMA RefCounted ==
    ASSUME TypeOK, RefsExact, NEW t \in Threads, NEW b \in Blocks, ref[t] = b
    PROVE  /\ count[b] >= 1
           /\ \A u \in Threads : u # t => count[b] >= RefsOf(u, b) + 1
<1> DEFINE S == Total([j \in Slots |-> SlotRefs(j, b)])
           r == [u \in Threads |-> RefsOf(u, b)]
<1>1. MaxRefs \in Nat /\ IsFiniteSet(Threads) /\ IsFiniteSet(Slots)
  BY ConstantsAssumption, FS_Interval DEF MaxRefs, Slots
<1>2. r \in [Threads -> 0 .. MaxRefs]
  <2>1. \A u \in Threads : RefsOf(u, b) \in 0 .. MaxRefs
    BY Zenon, RefsType DEF TypeOK
  <2> QED  BY Zenon, <2>1
<1>3. [j \in Slots |-> SlotRefs(j, b)] \in [Slots -> 0 .. MaxRefs] /\ 1 \in Slots
  <2>1. \A j \in Slots : SlotRefs(j, b) \in 0 .. MaxRefs
    BY Zenon, SlotType DEF TypeOK
  <2> QED  BY <2>1, ConstantsAssumption DEF Slots
<1>4. S \in Nat
  BY Zenon, <1>1, <1>3, TotalSplit
<1>5. r[t] >= 1
  <2>1. old[t].n \in Nat
    BY DEF TypeOK, FastWords
  <2>2. RefsOf(t, b) >= 1
    BY <2>1, ConstantsAssumption DEF RefsOf
  <2> QED  BY Zenon, <2>2
<1>6. count[b] = S + leaked[b] + Total(r)
  BY Zenon DEF RefsExact
<1> HIDE DEF S, r
<1>7. Total(r) \in Nat /\ Total(r) >= r[t]
  BY Zenon, <1>1, <1>2, TotalStep
<1>8. leaked[b] \in Nat /\ r[t] \in Nat
  BY <1>2 DEF TypeOK
<1>9. ASSUME NEW u \in Threads, u # t PROVE count[b] >= RefsOf(u, b) + 1
  <2> DEFINE g == [r EXCEPT ![t] = 0]
  <2>1. /\ g \in [Threads -> 0 .. MaxRefs] /\ g[t] = 0 /\ g[u] = r[u]
        /\ \A v \in Threads : v # t => g[v] = r[v]
    BY <1>1, <1>2, <1>9
  <2>2. r[u] = RefsOf(u, b) /\ r[u] \in Nat
    BY <1>2 DEF r
  <2> HIDE DEF g
  <2>3. Total(g) = Total(r) + g[t] - r[t]
    BY <1>1, <1>2, <2>1, TotalStep
  <2>4. Total(g) \in Nat /\ Total(g) >= g[u]
    BY Zenon, <1>1, <2>1, TotalStep
  <2> QED  BY <1>4, <1>5, <1>6, <1>7, <1>8, <2>1, <2>2, <2>3, <2>4
<1> QED
  BY <1>4, <1>5, <1>6, <1>7, <1>8, <1>9

-----------------------------------------------------------------------------
(* The number of registered routines.                                      *)

(* The size of a set changes with the membership of the element that moves. *)
LEMMA CardStep ==
    ASSUME NEW S, IsFiniteSet(S), NEW A \in SUBSET S, NEW B \in SUBSET S,
           NEW x \in S, \A y \in S : y # x => (y \in A <=> y \in B)
    PROVE  /\ Cardinality(A) \in Nat /\ Cardinality(B) \in Nat
           /\ Cardinality(B) = Cardinality(A) + Ind(x \in B) - Ind(x \in A)
<1> DEFINE C == A \ {x}
<1>1. IsFiniteSet(A) /\ IsFiniteSet(B) /\ IsFiniteSet(C) /\ C = B \ {x}
  BY Zenon, FS_Subset
<1>2. Cardinality(A) \in Nat /\ Cardinality(B) \in Nat /\ Cardinality(C) \in Nat
  BY Zenon, <1>1, FS_CardinalityType
<1>3. Cardinality(C) = Cardinality(A) - Ind(x \in A)
  BY <1>1, <1>2, FS_RemoveElement DEF Ind
<1>4. Cardinality(C) = Cardinality(B) - Ind(x \in B)
  BY <1>1, <1>2, FS_RemoveElement DEF Ind
<1> HIDE DEF C
<1> QED
  BY <1>2, <1>3, <1>4 DEF Ind

LEMMA NotifyStep ==
    ASSUME NotifyCountExact, NEW t \in Threads, Moves(t), NEW i \in Slots, OneSlot(i),
           Notifies(t, i)
    PROVE  NotifyCountExact'
<1> DEFINE F == {j \in Slots : slot[j].obj # Null}
           A == {u \in Threads : op[u] = "register" /\ pc[u] = "cxTrue"}
           R == {u \in Threads : op[u] = "unregister" /\ pc[u] \in {"cxFlush", "cxRelease", "cxTrue"}}
<1>1. IsFiniteSet(Threads) /\ IsFiniteSet(Slots)
  BY ConstantsAssumption, FS_Interval DEF Slots
<1>2. /\ Cardinality(F) \in Nat /\ Cardinality(F') \in Nat
      /\ Cardinality(F') = Cardinality(F) + Filled(i)' - Filled(i)
  <2>1. /\ F \in SUBSET Slots /\ F' \in SUBSET Slots
        /\ \A j \in Slots : j # i => (j \in F <=> j \in F')
        /\ i \in F <=> slot[i].obj # Null
        /\ i \in F' <=> slot'[i].obj # Null
    BY Zenon DEF OneSlot
  <2> HIDE DEF F
  <2>2. /\ Cardinality(F) \in Nat /\ Cardinality(F') \in Nat
        /\ Cardinality(F') = Cardinality(F) + Ind(i \in F') - Ind(i \in F)
    BY <1>1, <2>1, CardStep
  <2> QED  BY Zenon, <2>1, <2>2 DEF Filled, Ind
<1>3. /\ Cardinality(A) \in Nat /\ Cardinality(A') \in Nat
      /\ Cardinality(A') = Cardinality(A) + Added(t)' - Added(t)
  <2>1. /\ A \in SUBSET Threads /\ A' \in SUBSET Threads
        /\ \A u \in Threads : u # t => (u \in A <=> u \in A')
        /\ t \in A <=> op[t] = "register" /\ pc[t] = "cxTrue"
        /\ t \in A' <=> op'[t] = "register" /\ pc'[t] = "cxTrue"
    BY Zenon DEF Moves
  <2> HIDE DEF A
  <2>2. /\ Cardinality(A) \in Nat /\ Cardinality(A') \in Nat
        /\ Cardinality(A') = Cardinality(A) + Ind(t \in A') - Ind(t \in A)
    BY <1>1, <2>1, CardStep
  <2> QED  BY Zenon, <2>1, <2>2 DEF Added, Ind
<1>4. /\ Cardinality(R) \in Nat /\ Cardinality(R') \in Nat
      /\ Cardinality(R') = Cardinality(R) + Removed(t)' - Removed(t)
  <2>1. /\ R \in SUBSET Threads /\ R' \in SUBSET Threads
        /\ \A u \in Threads : u # t => (u \in R <=> u \in R')
        /\ t \in R <=> op[t] = "unregister" /\ pc[t] \in Swapped
        /\ t \in R' <=> op'[t] = "unregister" /\ pc'[t] \in Swapped
    BY Zenon DEF Moves, Swapped
  <2> HIDE DEF R
  <2>2. /\ Cardinality(R) \in Nat /\ Cardinality(R') \in Nat
        /\ Cardinality(R') = Cardinality(R) + Ind(t \in R') - Ind(t \in R)
    BY <1>1, <2>1, CardStep
  <2> QED  BY Zenon, <2>1, <2>2 DEF Removed, Ind
<1>5. notifyCount = Cardinality(F) - Cardinality(A) + Cardinality(R)
  BY Zenon DEF NotifyCountExact
<1>6. /\ Filled(i) \in Int /\ Filled(i)' \in Int /\ Added(t) \in Int /\ Added(t)' \in Int
      /\ Removed(t) \in Int /\ Removed(t)' \in Int
  BY DEF Filled, Added, Removed, Ind
<1> HIDE DEF F, A, R
<1>7. notifyCount' = Cardinality(F') - Cardinality(A') + Cardinality(R')
  BY <1>2, <1>3, <1>4, <1>5, <1>6 DEF Notifies
<1> QED
  BY Zenon, <1>7 DEF NotifyCountExact, F, A, R
-----------------------------------------------------------------------------
(* The invariant.                                                          *)

LEMMA CallStep ==
    ASSUME CallInv, NEW t \in Threads, Moves(t), CallOK(t)'
    PROVE  CallInv'
<1> SUFFICES ASSUME NEW u \in Threads, u # t PROVE CallOK(u)'
  BY Zenon DEF CallInv
<1>1. CallOK(u)
  BY Zenon DEF CallInv
<1>2. /\ pc'[u] = pc[u] /\ op'[u] = op[u] /\ new'[u] = new[u] /\ ref'[u] = ref[u]
      /\ old'[u] = old[u]
  BY Zenon DEF Moves
<1> QED
  BY ZenonT(60), <1>1, <1>2 DEF CallOK, Expected

(* A block with references was installed and is not free.                  *)
LEMMA Uses ==
    ASSUME IInv
    PROVE  UsedInv
<1> USE DEF IInv
<1> SUFFICES ASSUME NEW t \in Threads, NEW b \in Blocks, Used(t, b)
             PROVE  phase[b] # "free" /\ \A u \in Threads : ~Fresh(u, b)
  BY Zenon DEF UsedInv
<1>1. CASE ref[t] = b
  <2>1. phase[b] # "free"
    BY <1>1, RefCounted DEF FreeInv
  <2>2. ASSUME NEW u \in Threads, Fresh(u, b) PROVE FALSE
    <3>1. u # t
      BY Zenon, <1>1, <2>2, ConstantsAssumption DEF Fresh, CallInv, CallOK
    <3>2. count[b] >= RefsOf(u, b) + 1
      BY Zenon, <1>1, <3>1, RefCounted
    <3>3. count[b] = IF pc[u] \in Biased THEN MaxFastRefs + 1 ELSE 0
      BY Zenon, <2>2 DEF FreeInv, FreshOK
    <3>4. ref[u] = Null /\ new[u] = b /\ Null # b
      BY Zenon, <2>2, ConstantsAssumption DEF Fresh, CallInv, CallOK
    <3>5. RefsOf(u, b) = IF pc[u] \in Biased THEN MaxFastRefs + 1 ELSE 0
      BY <3>4, ConstantsAssumption DEF RefsOf, Biased
    <3> QED  BY <3>2, <3>3, <3>5, ConstantsAssumption
  <2> QED  BY ZenonT(60), <2>1, <2>2
<1>2. CASE pc[t] = "slowProtect" /\ old[t].obj = b
  <2>1. \A u \in Threads : Fresh(u, b) => Owns(u, b)
    BY Zenon DEF Fresh, Owns
  <2>2. CASE \E i \in Slots : slot[i].obj = b
    BY Zenon, <2>1, <2>2 DEF OwnerInv, OwnedOnce
  <2>3. CASE \E u \in Threads : pc[u] = "cxFlush" /\ ref[u] = b
    <3>1. PICK u \in Threads : pc[u] = "cxFlush" /\ ref[u] = b
      BY Zenon, <2>3
    <3>2. op[u] = "unregister"
      BY Zenon, <3>1 DEF CallInv, CallOK
    <3>3. Owns(u, b) /\ ~Fresh(u, b)
      BY Zenon, <3>1, <3>2 DEF Owns, Swapped, Fresh
    <3> QED  BY Zenon, <2>1, <3>1, <3>3 DEF OwnerInv, OwnedOnce
  <2> QED  BY Zenon, <1>2, <2>2, <2>3 DEF SlowInv
<1> QED
  BY Zenon, <1>1, <1>2 DEF Used

LEMMA InitInv ==
    ASSUME Init
    PROVE  IInv
<1>1. TypeOK
  BY ConstantsAssumption DEF Init, TypeOK, Slots, PCs, FastWords, Empty, FastWord, MaybeBlock
<1>2. /\ \A i \in Slots : slot[i].obj = Null /\ slot[i].n = 0
      /\ \A t \in Threads : /\ pc[t] = "idle" /\ op[t] = "none"
                            /\ ref[t] = Null /\ new[t] = Null
      /\ \A b \in Blocks : count[b] = 0 /\ leaked[b] = 0
      /\ notifyCount = 0 /\ Null \notin Blocks
  BY ZenonT(60), ConstantsAssumption DEF Init, Empty, FastWord
<1>3. RefsExact
  <2> SUFFICES ASSUME NEW b \in Blocks
               PROVE  count[b] = Total([i \in Slots |-> SlotRefs(i, b)]) + leaked[b]
                                 + Total([t \in Threads |-> RefsOf(t, b)])
    BY Zenon DEF RefsExact
  <2>1. \A i \in Slots : SlotRefs(i, b) = 0
    BY Zenon, <1>2 DEF SlotRefs
  <2>2. \A t \in Threads : RefsOf(t, b) = 0
    BY <1>2 DEF RefsOf
  <2>3. Total([i \in Slots |-> SlotRefs(i, b)]) = 0
    BY <2>1, TotalZero
  <2>4. Total([t \in Threads |-> RefsOf(t, b)]) = 0
    BY <2>2, TotalZero
  <2> QED  BY <1>2, <2>3, <2>4
<1>4. NotifyCountExact
  <2>1. /\ {i \in Slots : slot[i].obj # Null} = {}
        /\ {t \in Threads : op[t] = "register" /\ pc[t] = "cxTrue"} = {}
        /\ {t \in Threads : op[t] = "unregister" /\ pc[t] \in {"cxFlush", "cxRelease", "cxTrue"}} = {}
    BY Zenon, <1>2
  <2>2. Cardinality({}) = 0
    BY Zenon, FS_EmptySet
  <2>3. NotifyCountExact <=> notifyCount = Cardinality({}) - Cardinality({}) + Cardinality({})
    BY Zenon, <2>1 DEF NotifyCountExact
  <2> QED  BY <1>2, <2>2, <2>3
<1>5. CallInv
  BY Zenon, <1>2 DEF CallInv, CallOK, Has, HasNot, CxPCs
<1>6. OwnerInv /\ FreeInv /\ SlowInv
  BY Zenon, <1>2 DEF OwnerInv, OwnedOnce, FreeInv, FreshOK, Fresh, SlowInv, Owns
<1> QED
  BY ZenonT(60), <1>1, <1>3, <1>4, <1>5, <1>6 DEF IInv

LEMMA StepInv ==
    ASSUME IInv, NEW t \in Threads, Begin(t) \/ Continue(t)
    PROVE  IInv'
<1>1. Types /\ CallInv
  BY DEF IInv, TypeOK, Types
<1>2. Before
  BY Zenon, <1>1, Uses DEF IInv, Before
<1>3. Types'
  BY Zenon, <1>1, TypesStep
<1>4. PICK i \in Slots : Counts(t, i) /\ Places'
  BY Zenon, <1>2, EveryStep
<1>5. RefsExact' /\ TypeOK'
  BY Zenon, <1>3, <1>4, ExactStep DEF IInv, Counts
<1>6. NotifyCountExact'
  BY Zenon, <1>4, NotifyStep DEF IInv, Counts
<1>7. CallInv'
  BY Zenon, <1>4, CallStep DEF IInv, Counts
<1> QED
  BY Zenon, <1>4, <1>5, <1>6, <1>7 DEF IInv, Places

(* IInv holds in every reachable state: the counts, the owners of the      *)
(* blocks and what a call knows keep up with each other through every      *)
(* interleaving of references, refills, exchanges, waits and frees.        *)
THEOREM Invariant == Spec => []IInv
<1>1. Init => IInv
  BY Zenon, InitInv
<1>2. IInv /\ [Next]_vars => IInv'
  <2> SUFFICES ASSUME IInv, [Next]_vars PROVE IInv'
    OBVIOUS
  <2>1. CASE Next
    BY Zenon, <2>1, StepInv DEF Next
  <2>2. CASE UNCHANGED vars
    <3>0. /\ slot' = slot /\ phase' = phase /\ count' = count /\ routine' = routine
          /\ client' = client /\ leaked' = leaked /\ notifyCount' = notifyCount /\ pc' = pc
          /\ op' = op /\ index' = index /\ want' = want /\ new' = new /\ ref' = ref /\ old' = old
          /\ registers' = registers
      BY <2>2 DEF vars, blockVars, ghostVars, callVars
    <3> USE <3>0 DEF IInv
    <3>1. TypeOK' /\ SlowInv'
      BY Zenon DEF TypeOK, SlowInv
    <3>2. RefsExact' /\ NotifyCountExact'
      BY ZenonT(30) DEF RefsExact, NotifyCountExact, SlotRefs, RefsOf
    <3>3. CallInv'
      BY ZenonT(30) DEF CallInv, CallOK, Expected
    <3>4. OwnerInv'
      <4>1. \A t, b : Owns(t, b)' <=> Owns(t, b)
        BY Zenon DEF Owns
      <4> QED  BY ZenonT(30), <4>1 DEF OwnerInv, OwnedOnce
    <3>5. FreeInv'
      BY Zenon DEF FreeInv, FreshOK, Fresh
    <3> QED  BY Zenon, <3>1, <3>2, <3>3, <3>4, <3>5
  <2> QED  BY Zenon, <2>1, <2>2
<1> QED
  BY <1>1, <1>2, PTL DEF Spec

(* Every variable has its type, whatever the constants: in particular no   *)
(* rundown count and no number of cached references becomes negative.      *)
THEOREM TypeCorrect == Spec => []TypeOK
<1>1. IInv => TypeOK
  BY Zenon DEF IInv
<1> QED
  BY <1>1, Invariant, PTL

(* The rundown count of a block is the number of its references, and the   *)
(* notify count the number of routines, up to calls in progress.           *)
THEOREM CountsAreExact == Spec => []CountsExact
<1>1. IInv => CountsExact
  BY Zenon DEF IInv, CountsExact
<1> QED
  BY <1>1, Invariant, PTL

(* No block is looked at, called, installed or removed after it was freed, *)
(* and the slow path never meets a block in rundown.                       *)
THEOREM BlocksStayLive == Spec => []BlocksLive
<1>1. ASSUME IInv PROVE BlocksLive
  <2> USE <1>1 DEF IInv
  <2>1. \A i \in Slots : slot[i].obj # Null => phase[slot[i].obj] = "open"
    BY DEF OwnerInv, OwnedOnce, TypeOK, FastWords, MaybeBlock
  <2>2. UsedInv
    BY Zenon, Uses
  <2>3. ASSUME NEW t \in Threads
        PROVE  /\ ref[t] # Null => phase[ref[t]] # "free"
               /\ new[t] # Null => phase[new[t]] # "free"
    <3>1. ref[t] \in MaybeBlock /\ new[t] \in MaybeBlock
      BY Zenon DEF TypeOK
    <3>2. ref[t] # Null => phase[ref[t]] # "free"
      BY Zenon, <2>2, <3>1 DEF UsedInv, Used, MaybeBlock
    <3>3. new[t] # Null => phase[new[t]] # "free"
      BY Zenon, <3>1 DEF OwnerInv, OwnedOnce, Owns, MaybeBlock
    <3> QED  BY Zenon, <3>2, <3>3
  <2>4. ASSUME NEW t \in Threads, pc[t] = "slowProtect" PROVE phase[old[t].obj] = "open"
    <3>1. old[t].obj \in Blocks
      BY Zenon, <2>4 DEF CallInv, CallOK, TypeOK, FastWords, MaybeBlock
    <3>2. CASE \E i \in Slots : slot[i].obj = old[t].obj
      BY Zenon, <3>1, <3>2 DEF OwnerInv, OwnedOnce
    <3>3. CASE \E u \in Threads : pc[u] = "cxFlush" /\ ref[u] = old[t].obj
      <4>1. PICK u \in Threads : pc[u] = "cxFlush" /\ ref[u] = old[t].obj
        BY Zenon, <3>3
      <4>2. op[u] = "unregister"
        BY Zenon, <4>1 DEF CallInv, CallOK
      <4>3. Owns(u, old[t].obj)
        BY Zenon, <4>1, <4>2 DEF Owns, Swapped
      <4> QED  BY Zenon, <3>1, <4>1, <4>3 DEF OwnerInv, OwnedOnce
    <3> QED  BY Zenon, <2>4, <3>2, <3>3 DEF SlowInv
  <2> QED  BY Zenon, <2>1, <2>3, <2>4 DEF BlocksLive
<1> QED
  BY <1>1, Invariant, PTL
=============================================================================
