----------------------------- MODULE CallBack ------------------------------
(***************************************************************************)
(* Low-overhead callbacks (ntoskrnl/ex/callback.c, lines 775-1177) and the *)
(* two ways they are used: the notify routines of ntoskrnl/ps/create.c and *)
(* the registry callbacks of ntoskrnl/config/cmhook.c.                     *)
(*                                                                         *)
(* A vector of slots holds fast references to routine blocks.  A block's   *)
(* rundown protection counts the references, those cached in the slot      *)
(* included; it is used here as RundownSpec describes it, which the        *)
(* lock-free code implements (RundownProofs, theorem Refinement).  A       *)
(* thread that finds the cache empty takes its reference under the push    *)
(* lock ExpCallBackFlush; a thread that has replaced a block acquires and  *)
(* releases that lock before it drops the slot's references.               *)
(***************************************************************************)
EXTENDS Integers, FiniteSets

CONSTANTS Threads,
          Blocks,       \* addresses of routine blocks, used again after ExFreeCallBack
          Null,
          Routines,     \* notify routines, or cookies of registry callbacks
          NumberSlots,  \* PSP_MAX_CREATE_PROCESS_NOTIFY, CM_MAX_CALLBACKS
          MaxFastRefs,
          Clients,      \* "ps": notify routines; "cm": registry callbacks
          MaxRegister   \* bound: a thread registers this many blocks

ASSUME ConstantsAssumption ==
    /\ IsFiniteSet(Threads)
    /\ Null \notin Blocks
    /\ NumberSlots \in Nat \ {0}
    /\ MaxFastRefs \in Nat \ {0}
    /\ Clients \subseteq {"ps", "cm"}

VARIABLES
    slot,        \* slot[i]: EX_CALLBACK, block and cached references
    phase,       \* phase[b]: "free" memory, else RundownSpec's phase of its rundown
    count,       \* count[b]: protections granted by its rundown
    routine,     \* routine[b]: Function, or the cookie in the context
    client,      \* whose vector this is
    leaked,      \* leaked[b]: references nobody will give back
    notifyCount, \* PspCreateProcessNotifyRoutineCount, CmpCallBackCount
    pc,
    op,          \* op[t]: what t was called for
    index,       \* index[t]: the loop variable i
    want,        \* want[t]: the routine to register or remove
    new,         \* new[t]: a block not yet installed
    ref,         \* ref[t]: the block t has a reference to
    old,         \* old[t]: OldRef
    registers    \* registers[t]: how many blocks t has allocated

ghostVars == <<client, leaked>>
blockVars == <<phase, count, routine, ghostVars>>
callVars  == <<op, index, want>>
vars == <<slot, blockVars, notifyCount, pc, callVars, new, ref, old, registers>>

-----------------------------------------------------------------------------
Slots == 1 .. NumberSlots
FastWord(b, n) == [obj |-> b, n |-> n]
Empty == FastWord(Null, 0)

Init == /\ slot = [i \in Slots |-> Empty]
        /\ phase = [b \in Blocks |-> "free"]
        /\ count = [b \in Blocks |-> 0]
        /\ routine = [b \in Blocks |-> Null]
        /\ client \in Clients
        /\ leaked = [b \in Blocks |-> 0]
        /\ notifyCount = 0
        /\ pc = [t \in Threads |-> "idle"]
        /\ op = [t \in Threads |-> "none"]
        /\ index = [t \in Threads |-> 1]
        /\ want = [t \in Threads |-> Null]
        /\ new = [t \in Threads |-> Null]
        /\ ref = [t \in Threads |-> Null]
        /\ old = [t \in Threads |-> Empty]
        /\ registers = [t \in Threads |-> 0]

Goto(t, l)   == pc' = [pc EXCEPT ![t] = l]
SetRef(t, b) == ref' = [ref EXCEPT ![t] = b]
SetOld(t, w) == old' = [old EXCEPT ![t] = w]
Cell(t)      == slot[index[t]]
SetCell(t, w) == slot' = [slot EXCEPT ![index[t]] = w]

Protect(b, n)   == count' = [count EXCEPT ![b] = @ + n]
Unprotect(b, n) == count' = [count EXCEPT ![b] = @ - n]

(* The call ends.                                                          *)
Finish(t) == /\ Goto(t, "idle")
             /\ op' = [op EXCEPT ![t] = "none"]
             /\ index' = [index EXCEPT ![t] = 1]
             /\ want' = [want EXCEPT ![t] = Null]
             /\ SetOld(t, Empty)

(* The loop goes on with the next slot, or ends.                           *)
NextSlot(t, l) ==
    \/ /\ index[t] < NumberSlots
       /\ index' = [index EXCEPT ![t] = @ + 1]
       /\ Goto(t, l)
       /\ SetOld(t, Empty)
       /\ UNCHANGED <<op, want>>
    \/ index[t] = NumberSlots /\ Finish(t)

-----------------------------------------------------------------------------
(* The clients.                                                            *)

(* The loop over all notify routines, if there seem to be any (or          *)
(* CmpCallCallBacks, which does not look at the count).                    *)
CallAll(t) ==
    /\ pc[t] = "idle"
    /\ client = "ps" => notifyCount # 0
    /\ op' = [op EXCEPT ![t] = "call"]
    /\ Goto(t, "refRead")
    /\ UNCHANGED <<slot, blockVars, notifyCount, index, want, new, ref, old, registers>>

(* PsSetCreateProcessNotifyRoutine, PsRemoveCreateThreadNotifyRoutine,     *)
(* CmUnRegisterCallback.                                                   *)
Unregister(t, r) ==
    /\ pc[t] = "idle"
    /\ op' = [op EXCEPT ![t] = "unregister"]
    /\ want' = [want EXCEPT ![t] = r]
    /\ Goto(t, "refRead")
    /\ UNCHANGED <<slot, blockVars, notifyCount, index, new, ref, old, registers>>

(* ExAllocateCallBack.                                                     *)
Register(t, r, b) ==
    /\ pc[t] = "idle"
    /\ registers[t] < MaxRegister
    /\ phase[b] = "free"
    /\ phase' = [phase EXCEPT ![b] = "open"]
    /\ count' = [count EXCEPT ![b] = 0]
    /\ routine' = [routine EXCEPT ![b] = r]
    /\ registers' = [registers EXCEPT ![t] = @ + 1]
    /\ op' = [op EXCEPT ![t] = "register"]
    /\ new' = [new EXCEPT ![t] = b]
    /\ Goto(t, "cxBias")
    /\ UNCHANGED <<slot, ghostVars, notifyCount, index, want, ref, old>>

(* ExReferenceCallBackBlock has returned a block, and ExCallCallBack calls *)
(* its function, or the remover compares it.                               *)
Use(t) ==
    /\ pc[t] = "use"
    /\ Goto(t, IF op[t] = "unregister" /\ routine[ref[t]] = want[t]
               THEN "cxRead" ELSE "derefRead")
    /\ UNCHANGED <<slot, blockVars, notifyCount, callVars, new, ref, old, registers>>

(* Mutant: the count is not adjusted when a routine is removed.            *)
SucceededUncounted(t) ==
    /\ pc[t] = "cxTrue"
    /\ notifyCount' = IF op[t] = "register" THEN notifyCount + 1 ELSE notifyCount
    /\ \/ op[t] = "register" /\ Finish(t)
       \/ /\ op[t] = "unregister"
          /\ op' = [op EXCEPT ![t] = "remove"]
          /\ Goto(t, "derefRead")
          /\ UNCHANGED <<index, want, old>>
    /\ UNCHANGED <<slot, blockVars, new, ref, registers>>

(* ExCompareExchangeCallBack has returned TRUE: the count is adjusted.     *)
Succeeded(t) ==
    /\ pc[t] = "cxTrue"
    /\ notifyCount' = IF op[t] = "register" THEN notifyCount + 1 ELSE notifyCount - 1
    /\ \/ op[t] = "register" /\ Finish(t)
       \/ /\ op[t] = "unregister"
          /\ op' = [op EXCEPT ![t] = "remove"]
          /\ Goto(t, "derefRead")
          /\ UNCHANGED <<index, want, old>>
    /\ UNCHANGED <<slot, blockVars, new, ref, registers>>

(* ExCompareExchangeCallBack has returned FALSE.  A registration tries the *)
(* next slot and frees the block after the last; PsSet...NotifyRoutine     *)
(* drops its reference; CmUnRegisterCallback has no else branch for this   *)
(* case and goes on with the reference.                                    *)
Failed(t) ==
    /\ pc[t] = "cxFalse"
    /\ \/ /\ op[t] = "register"
          /\ NextSlot(t, "cxBias")
          /\ \/ index[t] < NumberSlots /\ UNCHANGED <<phase, new>>
             \/ /\ index[t] = NumberSlots
                /\ phase' = [phase EXCEPT ![new[t]] = "free"]
                /\ new' = [new EXCEPT ![t] = Null]
          /\ UNCHANGED <<leaked, ref>>
       \/ /\ op[t] = "unregister" /\ client = "ps"
          /\ Goto(t, "derefRead")
          /\ UNCHANGED <<phase, leaked, callVars, new, ref, old>>
       \/ /\ op[t] = "unregister" /\ client = "cm"
          /\ leaked' = [leaked EXCEPT ![ref[t]] = @ + 1]
          /\ SetRef(t, Null)
          /\ NextSlot(t, "refRead")
          /\ UNCHANGED <<phase, new>>
    /\ UNCHANGED <<slot, count, routine, client, notifyCount, registers>>

(* ExWaitForCallBacks: ExWaitForRundownProtectionRelease.                  *)
Wait(t) ==
    /\ pc[t] = "wait"
    /\ phase' = [phase EXCEPT ![new[t]] = "closing"]
    /\ Goto(t, "waiting")
    /\ UNCHANGED <<slot, count, routine, ghostVars, notifyCount, callVars, new, ref, old, registers>>

(* Mutant: the block is freed while callbacks are running.                 *)
FreeAtOnce(t) ==
    /\ pc[t] = "waiting"
    /\ phase' = [phase EXCEPT ![new[t]] = "free"]
    /\ new' = [new EXCEPT ![t] = Null]
    /\ Finish(t)
    /\ UNCHANGED <<slot, count, routine, ghostVars, notifyCount, ref, registers>>

(* ExFreeCallBack, once the wait has returned.                             *)
Free(t) ==
    /\ pc[t] = "waiting"
    /\ count[new[t]] = 0
    /\ phase' = [phase EXCEPT ![new[t]] = "free"]
    /\ new' = [new EXCEPT ![t] = Null]
    /\ Finish(t)
    /\ UNCHANGED <<slot, count, routine, ghostVars, notifyCount, ref, registers>>
-----------------------------------------------------------------------------
(* ExReferenceCallBackBlock.                                               *)

RefRead(t) ==
    /\ pc[t] = "refRead"
    /\ \/ /\ Cell(t).obj = Null
          /\ NextSlot(t, "refRead")
       \/ /\ Cell(t).obj # Null
          /\ SetOld(t, Cell(t))
          /\ Goto(t, IF Cell(t).n = 0 THEN "slowLock" ELSE "refCAS")
          /\ UNCHANGED callVars
    /\ UNCHANGED <<slot, blockVars, notifyCount, new, ref, registers>>

(* ExFastReference; the last cached reference is followed by a refill.     *)
RefCAS(t) ==
    /\ pc[t] = "refCAS"
    /\ \/ /\ Cell(t) = old[t]
          /\ SetCell(t, FastWord(old[t].obj, old[t].n - 1))
          /\ SetRef(t, old[t].obj)
          /\ Goto(t, IF old[t].n = 1 THEN "refill" ELSE "use")
       \/ /\ Cell(t) # old[t]
          /\ Goto(t, "refRead")
          /\ UNCHANGED <<slot, ref>>
    /\ UNCHANGED <<blockVars, notifyCount, callVars, new, old, registers>>

(* "If we can't add the references then just give up".                     *)
Refill(t) ==
    /\ pc[t] = "refill"
    /\ \/ /\ phase[ref[t]] = "open"
          /\ Protect(ref[t], MaxFastRefs)
          /\ Goto(t, "addRead")
       \/ /\ phase[ref[t]] # "open"
          /\ Goto(t, "use")
          /\ UNCHANGED count
    /\ UNCHANGED <<slot, phase, routine, ghostVars, notifyCount, callVars, new, ref, old, registers>>

(* ExFastRefAddAdditionalReferenceCounts.                                  *)
AddRead(t) ==
    /\ pc[t] = "addRead"
    /\ SetOld(t, Cell(t))
    /\ Goto(t, IF Cell(t) = FastWord(ref[t], 0) THEN "addCAS" ELSE "undo")
    /\ UNCHANGED <<slot, blockVars, notifyCount, callVars, new, ref, registers>>

AddCAS(t) ==
    /\ pc[t] = "addCAS"
    /\ \/ /\ Cell(t) = old[t]
          /\ SetCell(t, FastWord(ref[t], MaxFastRefs))
          /\ Goto(t, "use")
       \/ /\ Cell(t) # old[t]
          /\ Goto(t, "addRead")
          /\ UNCHANGED slot
    /\ UNCHANGED <<blockVars, notifyCount, callVars, new, ref, old, registers>>

Undo(t) ==
    /\ pc[t] = "undo"
    /\ Unprotect(ref[t], MaxFastRefs)
    /\ Goto(t, "use")
    /\ UNCHANGED <<slot, phase, routine, ghostVars, notifyCount, callVars, new, ref, old, registers>>

(* ExpCallBackFlush is owned by the thread that is in one of these places. *)
SlowPCs == {"slowRead", "slowProtect", "slowUnlock"}

SlowLock(t) ==
    /\ pc[t] = "slowLock"
    /\ \A u \in Threads : pc[u] \notin SlowPCs
    /\ Goto(t, "slowRead")
    /\ UNCHANGED <<slot, blockVars, notifyCount, callVars, new, ref, old, registers>>

SlowRead(t) ==
    /\ pc[t] = "slowRead"
    /\ SetOld(t, Cell(t))
    /\ Goto(t, IF Cell(t).obj = Null THEN "slowUnlock" ELSE "slowProtect")
    /\ UNCHANGED <<slot, blockVars, notifyCount, callVars, new, ref, registers>>

SlowProtect(t) ==
    LET b == old[t].obj IN
    /\ pc[t] = "slowProtect"
    /\ count' = [count EXCEPT ![b] = IF phase[b] = "open" THEN @ + 1 ELSE @]
    /\ SetRef(t, IF phase[b] = "open" THEN b ELSE Null)
    /\ Goto(t, "slowUnlock")
    /\ UNCHANGED <<slot, phase, routine, ghostVars, notifyCount, callVars, new, old, registers>>

SlowUnlock(t) ==
    /\ pc[t] = "slowUnlock"
    /\ \/ ref[t] = Null /\ NextSlot(t, "refRead")
       \/ ref[t] # Null /\ Goto(t, "use") /\ UNCHANGED <<callVars, old>>
    /\ UNCHANGED <<slot, blockVars, notifyCount, new, ref, registers>>

-----------------------------------------------------------------------------
(* ExDereferenceCallBackBlock: to the cache, or to the rundown protection. *)

(* Mutant: there is always room in the cache.                              *)
DerefReadRoom(t) ==
    /\ pc[t] = "derefRead"
    /\ SetOld(t, Cell(t))
    /\ Goto(t, IF Cell(t).obj = ref[t] THEN "derefCAS" ELSE "release")
    /\ UNCHANGED <<slot, blockVars, notifyCount, callVars, new, ref, registers>>

DerefRead(t) ==
    /\ pc[t] = "derefRead"
    /\ SetOld(t, Cell(t))
    /\ Goto(t, IF Cell(t).obj = ref[t] /\ Cell(t).n < MaxFastRefs
               THEN "derefCAS" ELSE "release")
    /\ UNCHANGED <<slot, blockVars, notifyCount, callVars, new, ref, registers>>

(* The reference is gone.  A remover goes on to wait for the callbacks of  *)
(* the block it has removed.                                               *)
Dropped(t) ==
    /\ SetRef(t, Null)
    /\ \/ /\ op[t] = "remove"
          /\ new' = [new EXCEPT ![t] = ref[t]]
          /\ Goto(t, "wait")
          /\ UNCHANGED <<callVars, old>>
       \/ /\ op[t] # "remove"
          /\ NextSlot(t, "refRead")
          /\ UNCHANGED new

(* Mutant: the value to compare with is not read again.                    *)
DerefCASAgain(t) ==
    /\ pc[t] = "derefCAS"
    /\ \/ /\ Cell(t) = old[t]
          /\ SetCell(t, FastWord(ref[t], old[t].n + 1))
          /\ Dropped(t)
       \/ /\ Cell(t) # old[t]
          /\ UNCHANGED <<slot, pc, callVars, new, ref, old>>
    /\ UNCHANGED <<blockVars, notifyCount, registers>>

DerefCAS(t) ==
    /\ pc[t] = "derefCAS"
    /\ \/ /\ Cell(t) = old[t]
          /\ SetCell(t, FastWord(ref[t], old[t].n + 1))
          /\ Dropped(t)
       \/ /\ Cell(t) # old[t]
          /\ Goto(t, "derefRead")
          /\ UNCHANGED <<slot, callVars, new, ref, old>>
    /\ UNCHANGED <<blockVars, notifyCount, registers>>

Release(t) ==
    /\ pc[t] = "release"
    /\ Unprotect(ref[t], 1)
    /\ Dropped(t)
    /\ UNCHANGED <<slot, phase, routine, ghostVars, notifyCount, registers>>

-----------------------------------------------------------------------------
(* ExCompareExchangeCallBack (&slot, new, expected).                       *)

Expected(t) == IF op[t] = "register" THEN Null ELSE ref[t]

CxBias(t) ==
    /\ pc[t] = "cxBias"
    /\ Protect(new[t], MaxFastRefs + 1)
    /\ Goto(t, "cxRead")
    /\ UNCHANGED <<slot, phase, routine, ghostVars, notifyCount, callVars, new, ref, old, registers>>

(* ExFastRefCompareSwapObject.                                             *)
CxRead(t) ==
    /\ pc[t] = "cxRead"
    /\ SetOld(t, Cell(t))
    /\ Goto(t, IF Cell(t).obj = Expected(t) THEN "cxCAS" ELSE "cxUnbias")
    /\ UNCHANGED <<slot, blockVars, notifyCount, callVars, new, ref, registers>>

CxCAS(t) ==
    /\ pc[t] = "cxCAS"
    /\ \/ /\ Cell(t) = old[t]
          /\ SetCell(t, IF new[t] = Null THEN Empty ELSE FastWord(new[t], MaxFastRefs))
          /\ new' = [new EXCEPT ![t] = Null]
          /\ Goto(t, IF old[t].obj = Null THEN "cxTrue" ELSE "cxFlush")
       \/ /\ Cell(t) # old[t]
          /\ Goto(t, "cxRead")
          /\ UNCHANGED <<slot, new>>
    /\ UNCHANGED <<blockVars, notifyCount, callVars, ref, old, registers>>

(* Mutant: slow referencers are not flushed out.                           *)
CxFlushNobody(t) ==
    /\ pc[t] = "cxFlush"
    /\ Goto(t, "cxRelease")
    /\ UNCHANGED <<slot, blockVars, notifyCount, callVars, new, ref, old, registers>>

(* ExAcquireReleasePushLockExclusive (&ExpCallBackFlush).                  *)
CxFlush(t) ==
    /\ pc[t] = "cxFlush"
    /\ \A u \in Threads : pc[u] \notin SlowPCs
    /\ Goto(t, "cxRelease")
    /\ UNCHANGED <<slot, blockVars, notifyCount, callVars, new, ref, old, registers>>

CxRelease(t) ==
    /\ pc[t] = "cxRelease"
    /\ Unprotect(ref[t], old[t].n + 1)
    /\ Goto(t, "cxTrue")
    /\ UNCHANGED <<slot, phase, routine, ghostVars, notifyCount, callVars, new, ref, old, registers>>

(* Mutant: they are not.                                                   *)
CxUnbiasNothing(t) ==
    /\ pc[t] = "cxUnbias"
    /\ Goto(t, "cxFalse")
    /\ UNCHANGED <<slot, blockVars, notifyCount, callVars, new, ref, old, registers>>

(* The swap failed: the references are taken back.                         *)
CxUnbias(t) ==
    /\ pc[t] = "cxUnbias"
    /\ \/ new[t] = Null /\ UNCHANGED count
       \/ new[t] # Null /\ Unprotect(new[t], MaxFastRefs + 1)
    /\ Goto(t, "cxFalse")
    /\ UNCHANGED <<slot, phase, routine, ghostVars, notifyCount, callVars, new, ref, old, registers>>

-----------------------------------------------------------------------------
Begin(t) == \/ CallAll(t)
            \/ \E r \in Routines : \/ Unregister(t, r)
                                   \/ \E b \in Blocks : Register(t, r, b)

Continue(t) == \/ Use(t)      \/ Succeeded(t) \/ Failed(t)      \/ Wait(t)       \/ Free(t)
               \/ RefRead(t)  \/ RefCAS(t)    \/ Refill(t)      \/ AddRead(t)    \/ AddCAS(t)
               \/ Undo(t)     \/ SlowLock(t)  \/ SlowRead(t)    \/ SlowProtect(t) \/ SlowUnlock(t)
               \/ DerefRead(t) \/ DerefCAS(t) \/ Release(t)
               \/ CxBias(t)   \/ CxRead(t)    \/ CxCAS(t)       \/ CxFlush(t)
               \/ CxRelease(t) \/ CxUnbias(t)

Next == \E t \in Threads : Begin(t) \/ Continue(t)

Spec == Init /\ [][Next]_vars

(* Threads run, callback routines return.                                  *)
FairSpec == Spec /\ \A t \in Threads : WF_vars(Continue(t))

-----------------------------------------------------------------------------
PCs == SlowPCs \cup
       {"idle", "refRead", "refCAS", "refill", "addRead", "addCAS", "undo", "slowLock",
        "use", "derefRead", "derefCAS", "release", "cxBias", "cxRead", "cxCAS",
        "cxFlush", "cxRelease", "cxUnbias", "cxTrue", "cxFalse", "wait", "waiting"}

MaybeBlock == Blocks \cup {Null}
FastWords == [obj : MaybeBlock, n : 0 .. MaxFastRefs]

(* Every variable has its type.                                            *)
TypeOK == /\ slot \in [Slots -> FastWords]
          /\ phase \in [Blocks -> {"free", "open", "closing"}]
          /\ count \in [Blocks -> Nat]
          /\ routine \in [Blocks -> Routines \cup {Null}]
          /\ client \in Clients
          /\ leaked \in [Blocks -> Nat]
          /\ notifyCount \in Int
          /\ pc \in [Threads -> PCs]
          /\ op \in [Threads -> {"none", "call", "register", "unregister", "remove"}]
          /\ index \in [Threads -> Slots]
          /\ want \in [Threads -> Routines \cup {Null}]
          /\ new \in [Threads -> MaybeBlock]
          /\ ref \in [Threads -> MaybeBlock]
          /\ old \in [Threads -> FastWords]

(* No routine is called, and no routine block looked at, after the block   *)
(* was freed: blocks in a slot, referenced, being installed or removed are *)
(* allocated.  The flush lets the slow path finish before the remover goes *)
(* on, so that its ExAcquireRundownProtection never meets a block in       *)
(* rundown.                                                                *)
BlocksLive ==
    /\ \A i \in Slots : slot[i].obj # Null => phase[slot[i].obj] = "open"
    /\ \A t \in Threads :
           /\ ref[t] # Null => phase[ref[t]] # "free"
           /\ new[t] # Null => phase[new[t]] # "free"
           /\ pc[t] = "slowProtect" => phase[old[t].obj] = "open"

(* The sum of a function to Nat.                                           *)
Total(f) == Cardinality(UNION {{x} \X (1 .. f[x]) : x \in DOMAIN f})

SlotRefs(i, b) == IF slot[i].obj = b THEN 1 + slot[i].n ELSE 0

(* The references to b of t, and those it has added, or has still to take  *)
(* back, in the call it is in.                                             *)
RefsOf(t, b) ==
    (IF ref[t] # b THEN 0 ELSE
        CASE pc[t] \in {"addRead", "addCAS", "undo"} -> 1 + MaxFastRefs
          [] pc[t] \in {"cxFlush", "cxRelease"} -> 1 + old[t].n + 1
          [] OTHER -> 1)
    + (IF new[t] = b /\ pc[t] \in {"cxRead", "cxCAS", "cxUnbias"} THEN MaxFastRefs + 1 ELSE 0)

(* The rundown count of a block is what the slot and the threads account   *)
(* for, and what CmUnRegisterCallback has left behind, through every race  *)
(* of references, refills and exchanges: a reference too many and the wait *)
(* never returns, one too few and the block is freed under a callback.     *)
RefsExact ==
    \A b \in Blocks :
        count[b] = Total([i \in Slots |-> SlotRefs(i, b)]) + leaked[b]
                   + Total([t \in Threads |-> RefsOf(t, b)])

(* The count that lets process creation skip the loop is the number of     *)
(* routines in the vector, up to the registrations and removals that have  *)
(* swapped a slot and not adjusted it yet.                                 *)
NotifyCountExact ==
    notifyCount = Cardinality({i \in Slots : slot[i].obj # Null})
                  - Cardinality({t \in Threads : op[t] = "register" /\ pc[t] = "cxTrue"})
                  + Cardinality({t \in Threads : op[t] = "unregister"
                                     /\ pc[t] \in {"cxFlush", "cxRelease", "cxTrue"}})

(* Both counts are exact.                                                  *)
CountsExact == RefsExact /\ NotifyCountExact

(* A remover's wait for running callbacks returns, if they do, unless      *)
(* another removal of the same block has left a reference behind.          *)
WaitReturns ==
    \A t \in Threads :
        pc[t] = "waiting" ~> (pc[t] = "idle" \/ (new[t] # Null /\ leaked[new[t]] > 0))

(* cmhook.c:171: "wait for others to release their reference, then tear    *)
(* down the structure": the wait returns, whoever else was removing it.    *)
RemovalReturns == \A t \in Threads : pc[t] = "waiting" ~> pc[t] = "idle"
=============================================================================
