------------------------- MODULE RundownCacheAware -------------------------
(***************************************************************************)
(* EX_RUNDOWN_REF_CACHE_AWARE (ntoskrnl/ex/rundown.c, lines 546-1171): one *)
(* EX_RUNDOWN_REF per processor.  Protection taken on one processor may be *)
(* given back on another, so the count of a processor can go below zero;   *)
(* only the sum, modulo the width of the word, means something.            *)
(*                                                                         *)
(* An acquire or release of one ref is a single step here: module Rundown  *)
(* has the retry loops, whose effect is that of their last                 *)
(* compare-exchange.  What a releaser does to the wait block, and the      *)
(* teardown's walk over the processors, are steps of their own.            *)
(***************************************************************************)
EXTENDS Integers, FiniteSets, Functions

CONSTANTS Number,              \* RunRefCacheAware->Number
          Threads,
          MaxHeld,             \* bound on the protections outstanding
          MaxEarly,            \* bound on what comes and goes while a wait marks the words
          Width,               \* bits of a ULONG_PTR: 2 ^ (Width - 2) > 2 * MaxHeld + MaxEarly
          WaitAfterCompleted   \* may ExRundownCompletedCacheAware be followed by a wait?

VARIABLES
    refs,       \* refs[p]: the word of processor p
    waitCount,  \* WaitBlock.Count, signed
    wakeEvent,  \* WaitBlock.WakeEvent
    waiter,     \* where the teardown thread is
    index,      \* its Index
    total,      \* its TotalCount
    pc,         \* pc[t]: where releaser t is
    leaving,    \* leaving[t]: the Count of t's release, once it saw an active word
    blockPtr,   \* blockPtr[t]: its WaitBlock pointer
    held        \* protections outstanding that no call is releasing

vars == <<refs, waitCount, wakeEvent, waiter, index, total, pc, leaving, blockPtr, held>>
releasers == <<pc, leaving, blockPtr>>

-----------------------------------------------------------------------------
Processors == 0 .. Number - 1
Words == 0 .. 2 ^ Width - 1

Odd(w) == w % 2 = 1            \* EX_RUNDOWN_ACTIVE
Active == 1                    \* EX_RUNDOWN_ACTIVE with a NULL wait block
WaitBlockAddress == 2 ^ (Width - 1)

(* w + EX_RUNDOWN_COUNT_INC * n on a ULONG_PTR.                            *)
Add(w, n) == (w + 2 * n) % 2 ^ Width

Sub(w, n) == (w - 2 * n) % 2 ^ Width

(* ExAllocateCacheAwareRundownProtection,                                  *)
(* ExInitializeRundownProtectionCacheAware.                                *)
Init == /\ refs = [p \in Processors |-> 0]
        /\ waitCount = 0
        /\ wakeEvent = "uninit"
        /\ waiter = "idle"
        /\ index = 0
        /\ total = 0
        /\ pc = [t \in Threads |-> "idle"]
        /\ leaving = [t \in Threads |-> 0]
        /\ blockPtr = [t \in Threads |-> 0]
        /\ held = 0

-----------------------------------------------------------------------------
Outstanding == held + FoldFunction(LAMBDA x, y : x + y, 0, leaving)

(* ExAcquireRundownProtectionCacheAware(Ex) on processor p.  It fails, and *)
(* changes nothing, if the word of p is active.  The words are reopened    *)
(* one by one: callers must not acquire until that is done, or a release   *)
(* may meet a word that still points to the frame of the last wait.        *)
Acquire(p, n) ==
    /\ waiter # "reinit"
    /\ waiter = "mark" => waitCount > -MaxEarly
    /\ Outstanding + n <= MaxHeld
    /\ ~Odd(refs[p])
    /\ refs' = [refs EXCEPT ![p] = Add(@, n)]
    /\ held' = held + n
    /\ UNCHANGED <<waitCount, wakeEvent, waiter, index, total, releasers>>

(* ExReleaseRundownProtectionCacheAware(Ex) on processor p, any processor: *)
(* the word goes down, or the releaser follows the pointer it finds.       *)
Release(t, p, n) ==
    /\ pc[t] = "idle"
    /\ n <= held
    /\ held' = held - n
    /\ \/ /\ ~Odd(refs[p])
          /\ refs' = [refs EXCEPT ![p] = Sub(@, n)]
          /\ UNCHANGED releasers
       \/ /\ Odd(refs[p])
          /\ pc' = [pc EXCEPT ![t] = "relBlock"]
          /\ leaving' = [leaving EXCEPT ![t] = n]
          /\ blockPtr' = [blockPtr EXCEPT ![t] = refs[p] - 1]
          /\ UNCHANGED refs
    /\ UNCHANGED <<waitCount, wakeEvent, waiter, index, total>>

(* The interlocked subtraction from WaitBlock->Count.                      *)
ReleaseToWaitBlock(t) ==
    /\ pc[t] = "relBlock"
    /\ waitCount' = waitCount - leaving[t]
    /\ pc' = [pc EXCEPT ![t] = IF waitCount = leaving[t] THEN "relWake" ELSE "idle"]
    /\ leaving' = [leaving EXCEPT ![t] = 0]
    /\ blockPtr' = [blockPtr EXCEPT ![t] = 0]
    /\ UNCHANGED <<refs, wakeEvent, waiter, index, total, held>>

(* KeSetEvent (&WaitBlock->WakeEvent, 0, FALSE)                            *)
ReleaseWake(t) ==
    /\ pc[t] = "relWake"
    /\ wakeEvent' = "set"
    /\ pc' = [pc EXCEPT ![t] = "idle"]
    /\ UNCHANGED <<refs, waitCount, waiter, index, total, leaving, blockPtr, held>>

-----------------------------------------------------------------------------
(* ExWaitForRundownProtectionReleaseCacheAware.                            *)

CallWait == /\ \/ waiter = "idle"
               \/ waiter = "completed" /\ WaitAfterCompleted
            /\ waiter' = "mark"
            /\ index' = 0
            /\ total' = 0
            /\ wakeEvent' = "uninit"
            /\ UNCHANGED <<refs, releasers, held>>

(* Mutant: the count on the stack starts at one.                           *)
WaitStartBiased == CallWait /\ waitCount' = 1

(* A new frame: TotalCount and WaitBlock.Count are 0.                      *)
WaitStart == CallWait /\ waitCount' = 0

MarkRef(newTotal) ==
    /\ waiter = "mark"
    /\ refs' = [refs EXCEPT ![index] = WaitBlockAddress + Active]
    /\ total' = newTotal
    /\ index' = IF index = Number - 1 THEN 0 ELSE index + 1
    /\ waiter' = IF index = Number - 1 THEN "totalled" ELSE "mark"
    /\ UNCHANGED <<waitCount, wakeEvent, releasers, held>>

(* Mutants: a count below zero is left out; the total is not a ULONG_PTR.  *)
WaitMarkPositive == MarkRef(IF refs[index] < 2 ^ (Width - 1) THEN total + refs[index] ELSE total)
WaitMarkWide == MarkRef(total + refs[index])

(* The compare-exchange that makes the word of processor Index point to    *)
(* the wait block; the count it had is added to TotalCount.                *)
WaitMark == MarkRef((total + refs[index]) % 2 ^ Width)

(* Nothing outstanding: done.  Else initialise the event.                  *)
WaitTotalled ==
    /\ waiter = "totalled"
    /\ waiter' = IF total = 0 THEN "returned" ELSE "add"
    /\ wakeEvent' = IF total = 0 THEN wakeEvent ELSE "clear"
    /\ UNCHANGED <<refs, waitCount, index, total, releasers, held>>

AddTotal(remaining) ==
    /\ waiter = "add"
    /\ waitCount' = waitCount + total \div 2
    /\ waiter' = IF remaining > 0 THEN "wait" ELSE "returned"
    /\ UNCHANGED <<refs, wakeEvent, index, total, releasers, held>>

(* Mutant: the last releaser is not waited for.                            *)
WaitAddEarly == AddTotal(waitCount + total \div 2 - 1)

(* TotalCount, without its bottom bit, is added to WaitBlock.Count; the    *)
(* thread waits unless the releases so far have used it up.                *)
WaitAdd == AddTotal(IF waitCount # -(total \div 2) THEN 1 ELSE 0)

WaitWake == /\ waiter = "wait"
            /\ wakeEvent = "set"
            /\ wakeEvent' = "clear"
            /\ waiter' = "returned"
            /\ UNCHANGED <<refs, waitCount, index, total, releasers, held>>

(* ExRundownCompletedCacheAware and ExReInitializeRundownProtection-       *)
(* CacheAware: one interlocked exchange per processor.                     *)
Sweep(from, during, word, after) ==
    /\ \/ waiter \in from /\ index = 0
       \/ waiter = during
    /\ refs' = [refs EXCEPT ![index] = word]
    /\ index' = IF index = Number - 1 THEN 0 ELSE index + 1
    /\ waiter' = IF index = Number - 1 THEN after ELSE during
    /\ UNCHANGED <<waitCount, wakeEvent, total, releasers, held>>

RundownCompleted == Sweep({"returned"}, "completing", Active, "completed")
ReInitialize == Sweep({"returned", "completed"}, "reinit", 0, "idle")

-----------------------------------------------------------------------------
Continue(t) == ReleaseToWaitBlock(t) \/ ReleaseWake(t)

InWait == WaitMark \/ WaitTotalled \/ WaitAdd \/ WaitWake

Next == \/ \E p \in Processors, n \in 1 .. MaxHeld : Acquire(p, n)
        \/ \E t \in Threads, p \in Processors, n \in 1 .. MaxHeld : Release(t, p, n)
        \/ \E t \in Threads : Continue(t)
        \/ WaitStart
        \/ InWait
        \/ RundownCompleted
        \/ ReInitialize

Spec == Init /\ [][Next]_vars

(* A call that gives back some of what is held.                            *)
GiveBack == \E t \in Threads, p \in Processors, n \in 1 .. MaxHeld : Release(t, p, n)

-----------------------------------------------------------------------------
(* Every variable has its type; words wrap at their width.                 *)
TypeOK ==
    /\ refs \in [Processors -> Words]
    /\ waitCount \in -(MaxHeld + MaxEarly) .. MaxHeld
    /\ wakeEvent \in {"uninit", "clear", "set"}
    /\ waiter \in {"idle", "mark", "totalled", "add", "wait", "returned",
                   "completing", "completed", "reinit"}
    /\ index \in Processors
    /\ total \in Words
    /\ pc \in [Threads -> {"idle", "relBlock", "relWake"}]
    /\ leaving \in [Threads -> 0 .. MaxHeld]
    /\ blockPtr \in [Threads -> Words]
    /\ held \in 0 .. MaxHeld

(* Once the wait has returned nobody has protection, on any processor,     *)
(* until the structure is brought back.                                    *)
TeardownSafe == waiter \in {"returned", "completing", "completed"} => Outstanding = 0

InCount(p) == IF Odd(refs[p]) THEN 0 ELSE refs[p] \div 2

(* Whatever processors protection was taken and given back on, and however *)
(* that falls around the walk that marks them: what the words not yet      *)
(* marked, the total and the wait block's count add up to, modulo the      *)
(* width, is what is outstanding.                                          *)
CountsAddUp ==
    LET inRefs == FoldFunction(LAMBDA x, y : x + y, 0, [p \in Processors |-> InCount(p)])
        inTotal == IF waiter \in {"mark", "totalled", "add"} THEN total \div 2 ELSE 0
        inBlock == IF waiter \in {"mark", "totalled", "add", "wait"} THEN waitCount ELSE 0
    IN (inRefs + inTotal + inBlock - Outstanding) % 2 ^ (Width - 1) = 0

(* rundown.c:318: "since we are one of the threads blocking rundown we     *)
(* have the right to follow the pointer": a releaser that decrements a     *)
(* wait block finds the frame of a wait that has not returned.             *)
BlockLive == \A t \in Threads : pc[t] = "relBlock" =>
                 /\ blockPtr[t] = WaitBlockAddress
                 /\ waiter \in {"mark", "totalled", "add", "wait"}

(* The event is set only while the teardown waits for it: never before it  *)
(* is initialised, though releasers use the block from the first mark on.  *)
EventLive == \A t \in Threads : pc[t] = "relWake" => waiter = "wait" /\ wakeEvent = "clear"

(* ASSERT ((LONG_PTR) TotalCount >= 0) holds although the sum is taken     *)
(* modulo the width ("Ignore overflow") of words that may be below zero.   *)
TotalAssert == waiter \in {"totalled", "add"} => total < 2 ^ (Width - 1)

(* rundown.c:1152, ExRundownCompletedCacheAware: "Mark rundown block has   *)
(* having completed rundown so we can wait again safely.", and the wait's  *)
(* ASSERT ((Value&EX_RUNDOWN_ACTIVE) == 0).                                *)
WaitAgainSafe == waiter = "mark" => ~Odd(refs[index])
=============================================================================
