------------------------------ MODULE FastRef ------------------------------
(***************************************************************************)
(* EX_FAST_REF (ntoskrnl/inc/ex.h, lines 6379-6984), the object manager's  *)
(* layer on it (ntoskrnl/ob/fastref.c) and its use for a process's primary *)
(* token (ntoskrnl/ps/security.c, ntoskrnl/se/token.c).                    *)
(*                                                                         *)
(* The word is the address of an object, in whose low bits the number of   *)
(* unused references is cached that the object's count already includes.   *)
(* A reference is taken from the cache by compare-exchange; when the cache *)
(* is empty it is taken from the object, under a lock.  Whoever replaces   *)
(* the object does not hold that lock: it acquires and releases the lock   *)
(* after the swap, before it drops the pointer's own reference.            *)
(***************************************************************************)
EXTENDS Integers, FiniteSets

CONSTANTS Threads,
          Objects,      \* addresses of objects, used again after deletion
          Null,
          MaxFastRefs   \* MAX_FAST_REFS: 7 or 15

VARIABLES
    fast,   \* the EX_FAST_REF: object and unused references
    count,  \* count[o]: PointerCount of the object at o, 0 if there is none
    inUse,  \* inUse[o]: TokenInUse
    pc,     \* pc[t]: where t is
    ref,    \* ref[t]: the object t has a reference to, or Null
    old     \* old[t]: its OldRef

vars == <<fast, count, inUse, pc, ref, old>>

-----------------------------------------------------------------------------
FastWord(o, n) == [obj |-> o, n |-> n]
Empty == FastWord(Null, 0)
FastWords == [obj : Objects \cup {Null}, n : 0 .. MaxFastRefs]

Init == /\ fast = Empty
        /\ count = [o \in Objects |-> 0]
        /\ inUse = [o \in Objects |-> FALSE]
        /\ pc = [t \in Threads |-> "idle"]
        /\ ref = [t \in Threads |-> Null]
        /\ old = [t \in Threads |-> Empty]

Goto(t, l)    == pc' = [pc EXCEPT ![t] = l]
SetRef(t, o)  == ref' = [ref EXCEPT ![t] = o]
SetOld(t, w)  == old' = [old EXCEPT ![t] = w]

(* ObReferenceObjectEx and ObDereferenceObjectEx; the object is deleted,   *)
(* and its memory free, when the count reaches zero.                       *)
Reference(o, n)   == count' = [count EXCEPT ![o] = @ + n]
Dereference(o, n) == count' = [count EXCEPT ![o] = @ - n]

-----------------------------------------------------------------------------
(* ObFastReferenceObject, ObFastReferenceObjectLocked                      *)
(* (PsReferencePrimaryToken).                                              *)

(* ExFastReference: OldRef = ReadForWriteAccess (FastRef).  Without a      *)
(* cached reference the slow path is taken.                                *)
FastRead(t) ==
    /\ \/ pc[t] = "idle" /\ ref[t] = Null
       \/ pc[t] = "fastRead"
    /\ SetOld(t, fast)
    /\ Goto(t, IF fast.n = 0 THEN "slow" ELSE "fastCAS")
    /\ UNCHANGED <<fast, count, inUse, ref>>

(* The thread that takes the last cached reference goes on to refill.      *)
FastCAS(t) ==
    /\ pc[t] = "fastCAS"
    /\ \/ /\ fast = old[t]
          /\ fast' = FastWord(fast.obj, fast.n - 1)
          /\ SetRef(t, fast.obj)
          /\ Goto(t, IF fast.n = 1 THEN "bias" ELSE "idle")
       \/ /\ fast # old[t]
          /\ Goto(t, "fastRead")
          /\ UNCHANGED <<fast, ref>>
    /\ UNCHANGED <<count, inUse, old>>

Bias(t) ==
    /\ pc[t] = "bias"
    /\ Reference(ref[t], MaxFastRefs)
    /\ Goto(t, "addRead")
    /\ UNCHANGED <<fast, inUse, ref, old>>

(* Mutant: only the room is tested, not the object.                        *)
AddReadAnyObject(t) ==
    /\ pc[t] = "addRead"
    /\ SetOld(t, fast)
    /\ Goto(t, IF fast.n = 0 /\ fast.obj # Null THEN "addCAS" ELSE "unbias")
    /\ UNCHANGED <<fast, count, inUse, ref>>

(* ExFastRefAddAdditionalReferenceCounts fails if the object was replaced  *)
(* or the cache is not empty any more.                                     *)
AddRead(t) ==
    /\ pc[t] = "addRead"
    /\ SetOld(t, fast)
    /\ Goto(t, IF fast.n + MaxFastRefs <= MaxFastRefs /\ fast.obj = ref[t]
               THEN "addCAS" ELSE "unbias")
    /\ UNCHANGED <<fast, count, inUse, ref>>

AddCAS(t) ==
    /\ pc[t] = "addCAS"
    /\ \/ /\ fast = old[t]
          /\ fast' = FastWord(fast.obj, fast.n + MaxFastRefs)
          /\ Goto(t, "idle")
       \/ /\ fast # old[t]
          /\ Goto(t, "addRead")
          /\ UNCHANGED fast
    /\ UNCHANGED <<count, inUse, ref, old>>

Unbias(t) ==
    /\ pc[t] = "unbias"
    /\ Dereference(ref[t], MaxFastRefs)
    /\ Goto(t, "idle")
    /\ UNCHANGED <<fast, inUse, ref, old>>

(* Under the shared lock: read the pointer, then reference the object.     *)
SlowPCs == {"slowRead", "slowRef", "slowUnlock"}

SlowLock(t) ==
    /\ pc[t] = "slow"
    /\ Goto(t, "slowRead")
    /\ UNCHANGED <<fast, count, inUse, ref, old>>

SlowRead(t) ==
    /\ pc[t] = "slowRead"
    /\ SetOld(t, fast)
    /\ Goto(t, IF fast.obj = Null THEN "slowUnlock" ELSE "slowRef")
    /\ UNCHANGED <<fast, count, inUse, ref>>

SlowRef(t) ==
    /\ pc[t] = "slowRef"
    /\ Reference(old[t].obj, 1)
    /\ SetRef(t, old[t].obj)
    /\ Goto(t, "slowUnlock")
    /\ UNCHANGED <<fast, inUse, old>>

SlowUnlock(t) ==
    /\ pc[t] = "slowUnlock"
    /\ Goto(t, "idle")
    /\ UNCHANGED <<fast, count, inUse, ref, old>>

-----------------------------------------------------------------------------
(* ObFastDereferenceObject (PsDereferencePrimaryTokenEx).                  *)

(* The reference goes back to the cache if the object is still there and   *)
(* the cache is not full.                                                  *)
DerefRead(t) ==
    /\ \/ pc[t] = "idle" /\ ref[t] # Null
       \/ pc[t] = "derefRead"
    /\ SetOld(t, fast)
    /\ Goto(t, IF fast.obj = ref[t] /\ fast.n < MaxFastRefs
               THEN "derefCAS" ELSE "derefObject")
    /\ UNCHANGED <<fast, count, inUse, ref>>

DerefCAS(t) ==
    /\ pc[t] = "derefCAS"
    /\ \/ /\ fast = old[t]
          /\ fast' = FastWord(fast.obj, fast.n + 1)
          /\ SetRef(t, Null)
          /\ Goto(t, "idle")
       \/ /\ fast # old[t]
          /\ Goto(t, "derefRead")
          /\ UNCHANGED <<fast, ref>>
    /\ UNCHANGED <<count, inUse, old>>

(* ObDereferenceObject, which a client may also call directly.             *)
DerefObject(t) ==
    /\ \/ pc[t] = "derefObject"
       \/ pc[t] = "idle" /\ ref[t] # Null
    /\ Dereference(ref[t], 1)
    /\ SetRef(t, Null)
    /\ Goto(t, "idle")
    /\ UNCHANGED <<fast, inUse, old>>

-----------------------------------------------------------------------------
(* A thread makes a new token, to which it has a reference.                *)
Create(t, o) ==
    /\ pc[t] = "idle" /\ ref[t] = Null
    /\ count[o] = 0
    /\ count' = [count EXCEPT ![o] = 1]
    /\ inUse' = [inUse EXCEPT ![o] = FALSE]
    /\ SetRef(t, o)
    /\ UNCHANGED <<fast, pc, old>>

(* SeExchangePrimaryToken: test and set TokenInUse under the token's lock. *)
(* (STATUS_TOKEN_ALREADY_IN_USE changes nothing; a process without a token *)
(* is not visible yet, or not any more.)                                   *)
Exchange(t) ==
    /\ pc[t] = "idle" /\ ref[t] # Null
    /\ ~inUse[ref[t]]
    /\ fast # Empty
    /\ inUse' = [inUse EXCEPT ![ref[t]] = TRUE]
    /\ Goto(t, "swapRef")
    /\ UNCHANGED <<fast, count, ref, old>>

(* ObReferenceObject (NewToken) and the references ObFastReplaceObject     *)
(* adds for the cache.                                                     *)
SwapRef(t) ==
    /\ pc[t] = "swapRef"
    /\ Reference(ref[t], 1)
    /\ Goto(t, "swapBias")
    /\ UNCHANGED <<fast, inUse, ref, old>>

SwapBias(t) ==
    /\ pc[t] = "swapBias"
    /\ Reference(ref[t], MaxFastRefs)
    /\ Goto(t, "swap")
    /\ UNCHANGED <<fast, inUse, ref, old>>

(* ExFastRefSwapObject: InterlockedExchangePointer.                        *)
Swap(t) ==
    /\ pc[t] = "swap"
    /\ SetOld(t, fast)
    /\ fast' = FastWord(ref[t], MaxFastRefs)
    /\ Goto(t, "swapReturn")
    /\ UNCHANGED <<count, inUse, ref>>

(* The references cached for the old object are returned.                  *)
SwapReturn(t) ==
    /\ pc[t] = "swapReturn"
    /\ Dereference(old[t].obj, old[t].n)
    /\ Goto(t, "swapUnuse")
    /\ UNCHANGED <<fast, inUse, ref, old>>

(* Mutant: the flag of the new token is cleared.                           *)
SwapUnuseNew(t) ==
    /\ pc[t] = "swapUnuse"
    /\ inUse' = [inUse EXCEPT ![ref[t]] = FALSE]
    /\ Goto(t, "flush")
    /\ UNCHANGED <<fast, count, ref, old>>

SwapUnuse(t) ==
    /\ pc[t] = "swapUnuse"
    /\ inUse' = [inUse EXCEPT ![old[t].obj] = FALSE]
    /\ Goto(t, "flush")
    /\ UNCHANGED <<fast, count, ref, old>>

(* Mutant: slow referencers are not waited for.                            *)
FlushNobody(t) ==
    /\ pc[t] = "flush"
    /\ Goto(t, "swapDrop")
    /\ UNCHANGED <<fast, count, inUse, ref, old>>

(* PspLockProcessSecurityExclusive, PspUnlockProcessSecurityExclusive "to  *)
(* force any slow referencers out of the slow path".                       *)
Flush(t) ==
    /\ pc[t] = "flush"
    /\ \A u \in Threads : pc[u] \notin SlowPCs
    /\ Goto(t, "swapDrop")
    /\ UNCHANGED <<fast, count, inUse, ref, old>>

(* The pointer's own reference on the old token is dropped.                *)
SwapDrop(t) ==
    /\ pc[t] = "swapDrop"
    /\ Dereference(old[t].obj, 1)
    /\ Goto(t, "idle")
    /\ UNCHANGED <<fast, inUse, ref, old>>

Quiet == \A u \in Threads : pc[u] = "idle"

(* SeAssignPrimaryToken, while nobody else can see the process: reference  *)
(* the token, ObInitializeFastReference.                                   *)
Assign(t) ==
    /\ Quiet /\ ref[t] # Null
    /\ fast = Empty
    /\ ~inUse[ref[t]]
    /\ Reference(ref[t], 1 + MaxFastRefs)
    /\ inUse' = [inUse EXCEPT ![ref[t]] = TRUE]
    /\ fast' = FastWord(ref[t], MaxFastRefs)
    /\ UNCHANGED <<pc, ref, old>>

(* SeDeassignPrimaryToken when the process is deleted:                     *)
(* ObFastReplaceObject with NULL, and the pointer's own reference.         *)
Deassign ==
    /\ Quiet
    /\ fast # Empty
    /\ Dereference(fast.obj, fast.n + 1)
    /\ inUse' = [inUse EXCEPT ![fast.obj] = FALSE]
    /\ fast' = Empty
    /\ UNCHANGED <<pc, ref, old>>

-----------------------------------------------------------------------------
(* A step inside a call of t.                                              *)
Continue(t) ==
    /\ pc[t] # "idle"
    /\ \/ FastRead(t)  \/ FastCAS(t)    \/ Bias(t)       \/ AddRead(t)  \/ AddCAS(t)
       \/ Unbias(t)    \/ SlowLock(t)   \/ SlowRead(t)   \/ SlowRef(t)  \/ SlowUnlock(t)
       \/ DerefRead(t) \/ DerefCAS(t)   \/ DerefObject(t)
       \/ SwapRef(t)   \/ SwapBias(t)   \/ Swap(t)       \/ SwapReturn(t)
       \/ SwapUnuse(t) \/ Flush(t)      \/ SwapDrop(t)

GiveBack(t) == pc[t] = "idle" /\ (DerefRead(t) \/ DerefObject(t))

Begin(t) == \/ pc[t] = "idle" /\ FastRead(t)
            \/ Exchange(t)
            \/ Assign(t)
            \/ \E o \in Objects : Create(t, o)

Next == \/ \E t \in Threads : Begin(t) \/ GiveBack(t) \/ Continue(t)
        \/ Deassign

Spec == Init /\ [][Next]_vars

-----------------------------------------------------------------------------
PCs == SlowPCs \cup
       {"idle", "fastRead", "fastCAS", "bias", "addRead", "addCAS", "unbias", "slow",
        "derefRead", "derefCAS", "derefObject", "swapRef", "swapBias", "swap",
        "swapReturn", "swapUnuse", "flush", "swapDrop"}

(* Every variable has its type; a NULL pointer has no cached references.   *)
TypeOK == /\ fast \in FastWords
          /\ fast.obj = Null => fast.n = 0
          /\ count \in [Objects -> Nat]
          /\ inUse \in [Objects -> BOOLEAN]
          /\ pc \in [Threads -> PCs]
          /\ ref \in [Threads -> Objects \cup {Null}]
          /\ old \in [Threads -> FastWords]

(* The references to o that are accounted for by the word, by threads that *)
(* have one, and by calls in progress that added or took over references.  *)
CachedRefs(o) == IF fast.obj = o THEN 1 + fast.n ELSE 0
Holders(o)  == {t \in Threads : ref[t] = o}
Biasers(o)  == {t \in Threads : ref[t] = o /\ pc[t] \in {"addRead", "addCAS", "unbias", "swap"}}
Swappers(o) == {t \in Threads : ref[t] = o /\ pc[t] \in {"swapBias", "swap"}}
Droppers(o) == {t \in Threads : old[t].obj = o /\ pc[t] \in {"swapReturn", "swapUnuse", "flush", "swapDrop"}}
Returned(o) == {t \in Threads : old[t].obj = o /\ pc[t] = "swapReturn"}

(* No reference is lost, returned twice or invented, whatever the races of *)
(* fast references, refills, replacements and releases: an object's count  *)
(* is the cache, the pointer, the holders and what is in transit.          *)
RefsExact ==
    \A o \in Objects :
        count[o] = CachedRefs(o) + Cardinality(Holders(o)) + MaxFastRefs * Cardinality(Biasers(o))
                   + Cardinality(Swappers(o)) + Cardinality(Droppers(o))
                   + IF Returned(o) = {} THEN 0 ELSE old[CHOOSE t \in Returned(o) : TRUE].n

(* Nobody uses an object that was deleted: neither a thread with a         *)
(* reference, nor one in the slow path that has read the pointer under the *)
(* lock and is about to reference the object.                              *)
RefsLive ==
    \A t \in Threads :
        /\ ref[t] # Null => count[ref[t]] > 0
        /\ pc[t] = "slowRef" => count[old[t].obj] > 0
        /\ pc[t] \in {"swapReturn", "swapUnuse", "flush", "swapDrop"} => count[old[t].obj] > 0

(* ASSERT (OldToken->TokenInUse): a token is the primary token of the      *)
(* process exactly until the exchange that replaced it clears the flag.    *)
InUseAsserts ==
    /\ fast.obj # Null => inUse[fast.obj]
    /\ \A t \in Threads : pc[t] \in {"swapReturn", "swapUnuse"} => inUse[old[t].obj]
=============================================================================
