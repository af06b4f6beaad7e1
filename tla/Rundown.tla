------------------------------ MODULE Rundown ------------------------------
(***************************************************************************)
(* EX_RUNDOWN_REF at the granularity of its interlocked operations         *)
(* (ntoskrnl/ex/rundown.c and the inlines of ntoskrnl/inc/ex.h).           *)
(*                                                                         *)
(* The structure is one machine word.  Its bottom bit, EX_RUNDOWN_ACTIVE,  *)
(* says that rundown has begun; the rest is the number of outstanding      *)
(* protections while the bit is clear, and the address of the teardown     *)
(* thread's stack allocated EX_RUNDOWN_WAIT_BLOCK (or NULL) while it is    *)
(* set.  Accessors take and drop protection from any thread; one thread    *)
(* tears the structure down, and may mark it completed or bring it back.   *)
(***************************************************************************)
EXTENDS Integers, FiniteSets

CONSTANTS Threads,   \* threads that take and drop protection
          Tokens     \* protections that can be outstanding or requested at once

ASSUME TokensFinite == IsFiniteSet(Tokens)

VARIABLES
    runRef,     \* RunRef->Count / RunRef->Ptr, the shared word
    waitCount,  \* WaitBlock.Count, in the teardown thread's frame
    wakeEvent,  \* WaitBlock.WakeEvent: "uninit", "clear" or "set"
    waiter,     \* where the teardown thread is
    waitValue,  \* its local Value in ExfWaitForRundownProtectionRelease
    pc,         \* pc[t]: where accessor t is
    value,      \* value[t]: its local Value
    toks,       \* toks[t]: the protections its call acquires or releases
    held        \* every protection granted and not yet given back

shared == <<runRef, held>>
block  == <<waitCount, wakeEvent>>
owner  == <<waiter, waitValue>>
local  == <<pc, value, toks>>
vars   == <<runRef, waitCount, wakeEvent, waiter, waitValue,
            pc, value, toks, held>>

-----------------------------------------------------------------------------
(* The word.                                                               *)

(* &WaitBlock: an address, so no number of protections.                    *)
WaitBlockAddress == -1000

Counted(n)    == [active |-> FALSE, rest |-> n]
Zero          == Counted(0)
RundownActive == [active |-> TRUE, rest |-> 0]
WaitBlockWord == [active |-> TRUE, rest |-> WaitBlockAddress]

(* Value & ~EX_RUNDOWN_ACTIVE                                              *)
Masked(v)  == [active |-> FALSE, rest |-> v.rest]
(* Value + EX_RUNDOWN_COUNT_INC * n                                        *)
Add(v, n)  == [active |-> v.active, rest |-> v.rest + n]

Words == [active : BOOLEAN, rest : Int]

-----------------------------------------------------------------------------
(* ExInitializeRundownProtection, and nobody in a call.                    *)
Init == /\ runRef = Zero
        /\ waitCount = 0
        /\ wakeEvent = "uninit"
        /\ waiter = "idle"
        /\ waitValue = Zero
        /\ pc = [t \in Threads |-> "idle"]
        /\ value = [t \in Threads |-> Zero]
        /\ toks = [t \in Threads |-> {}]
        /\ held = {}

(* The protections that are granted or that a call in progress asks for,   *)
(* and those a call in progress is giving back.                            *)
InUse == {k \in Tokens : k \in held \/ \E t \in Threads : k \in toks[t]}
Releasing == {k \in Tokens : \E t \in Threads :
                 k \in toks[t] /\ pc[t] \in {"relFast", "relRead", "relLoop"}}

Goto(t, l) == pc' = [pc EXCEPT ![t] = l]
Return(t)  == /\ Goto(t, "idle")
              /\ toks' = [toks EXCEPT ![t] = {}]
Sample(t, v) == value' = [value EXCEPT ![t] = v]

(* Mutant: the inline acquire does not mask the active bit off.            *)
AcquireInlineUnmasked(t, k) ==
    /\ pc[t] = "idle"
    /\ k \notin InUse
    /\ toks' = [toks EXCEPT ![t] = {k}]
    /\ Sample(t, runRef)
    /\ Goto(t, "acqFast")
    /\ UNCHANGED <<shared, block, owner>>

(* ExAcquireRundownProtection: read the word, pretend rundown is inactive. *)
AcquireInline(t, k) ==
    /\ pc[t] = "idle"
    /\ k \notin InUse
    /\ toks' = [toks EXCEPT ![t] = {k}]
    /\ Sample(t, Masked(runRef))
    /\ Goto(t, "acqFast")
    /\ UNCHANGED <<shared, block, owner>>

(* ... one compare-exchange; a mismatch calls ExfAcquireRundownProtection. *)
AcquireInlineCAS(t) ==
    /\ pc[t] = "acqFast"
    /\ \/ /\ runRef = value[t]
          /\ runRef' = Add(value[t], Cardinality(toks[t]))
          /\ held' = held \cup toks[t]
          /\ Return(t)
       \/ /\ runRef # value[t]
          /\ Goto(t, "acqRead")
          /\ UNCHANGED <<shared, toks>>
    /\ UNCHANGED <<value, block, owner>>

(* ExAcquireRundownProtectionEx, with Count = Cardinality(S).              *)
AcquireEx(t, S) ==
    /\ pc[t] = "idle"
    /\ S \cap InUse = {}
    /\ toks' = [toks EXCEPT ![t] = S]
    /\ Goto(t, "acqRead")
    /\ UNCHANGED <<shared, value, block, owner>>

AcquireRead(t) ==
    /\ pc[t] = "acqRead"
    /\ Sample(t, runRef)
    /\ Goto(t, "acqLoop")
    /\ UNCHANGED <<shared, toks, block, owner>>

(* Mutant: the loop does not look at the active bit.                       *)
AcquireLoopUntested(t) ==
    /\ pc[t] = "acqLoop"
    /\ \/ /\ runRef = value[t]
          /\ runRef' = Add(value[t], Cardinality(toks[t]))
          /\ held' = held \cup toks[t]
          /\ Return(t)
          /\ UNCHANGED value
       \/ /\ runRef # value[t]
          /\ Sample(t, runRef)
          /\ UNCHANGED <<shared, pc, toks>>
    /\ UNCHANGED <<block, owner>>

(* One turn of the loop: fail, succeed, or retry with the word just seen.  *)
AcquireLoop(t) ==
    /\ pc[t] = "acqLoop"
    /\ \/ /\ value[t].active
          /\ Return(t)
          /\ UNCHANGED <<shared, value>>
       \/ /\ ~value[t].active
          /\ runRef = value[t]
          /\ runRef' = Add(value[t], Cardinality(toks[t]))
          /\ held' = held \cup toks[t]
          /\ Return(t)
          /\ UNCHANGED value
       \/ /\ ~value[t].active
          /\ runRef # value[t]
          /\ Sample(t, runRef)
          /\ UNCHANGED <<shared, pc, toks>>
    /\ UNCHANGED <<block, owner>>

(* ExReleaseRundownProtection, of any protection nobody else releases.     *)
ReleaseInline(t, k) ==
    /\ pc[t] = "idle"
    /\ k \in held \ Releasing
    /\ toks' = [toks EXCEPT ![t] = {k}]
    /\ Sample(t, Masked(runRef))
    /\ Goto(t, "relFast")
    /\ UNCHANGED <<shared, block, owner>>

ReleaseInlineCAS(t) ==
    /\ pc[t] = "relFast"
    /\ \/ /\ runRef = value[t]
          /\ runRef' = Add(value[t], -Cardinality(toks[t]))
          /\ held' = held \ toks[t]
          /\ Return(t)
       \/ /\ runRef # value[t]
          /\ Goto(t, "relRead")
          /\ UNCHANGED <<shared, toks>>
    /\ UNCHANGED <<value, block, owner>>

(* ExReleaseRundownProtectionEx.                                           *)
ReleaseEx(t, S) ==
    /\ pc[t] = "idle"
    /\ S \subseteq held \ Releasing
    /\ toks' = [toks EXCEPT ![t] = S]
    /\ Goto(t, "relRead")
    /\ UNCHANGED <<shared, value, block, owner>>

ReleaseRead(t) ==
    /\ pc[t] = "relRead"
    /\ Sample(t, runRef)
    /\ Goto(t, "relLoop")
    /\ UNCHANGED <<shared, toks, block, owner>>

(* Mutants: the releaser compares what the interlocked add returned with   *)
(* zero, or takes one protection too many for the last.                    *)
ReleaseToWaitBlockWhen(t, last) ==
    /\ pc[t] = "relLoop"
    /\ value[t].active
    /\ waitCount' = waitCount - Cardinality(toks[t])
    /\ held' = held \ toks[t]
    /\ toks' = [toks EXCEPT ![t] = {}]
    /\ Goto(t, IF last THEN "relWake" ELSE "idle")
    /\ UNCHANGED <<runRef, value, wakeEvent, owner>>
ReleaseToWaitBlockOldValue(t) == ReleaseToWaitBlockWhen(t, waitCount = 0)
ReleaseToWaitBlockEarly(t) ==
    ReleaseToWaitBlockWhen(t, waitCount <= Cardinality(toks[t]) + 1)

(* Rundown is active: the wait block's count goes down by Count, and the   *)
(* call that takes it to zero goes on to set the event.                    *)
ReleaseToWaitBlock(t) ==
    /\ pc[t] = "relLoop"
    /\ value[t].active
    /\ waitCount' = waitCount - Cardinality(toks[t])
    /\ held' = held \ toks[t]
    /\ toks' = [toks EXCEPT ![t] = {}]
    /\ Goto(t, IF waitCount = Cardinality(toks[t]) THEN "relWake" ELSE "idle")
    /\ UNCHANGED <<runRef, value, wakeEvent, owner>>

(* Rundown is not active: decrement by compare-exchange, or retry.         *)
ReleaseToWord(t) ==
    /\ pc[t] = "relLoop"
    /\ ~value[t].active
    /\ \/ /\ runRef = value[t]
          /\ runRef' = Add(value[t], -Cardinality(toks[t]))
          /\ held' = held \ toks[t]
          /\ Return(t)
          /\ UNCHANGED value
       \/ /\ runRef # value[t]
          /\ Sample(t, runRef)
          /\ UNCHANGED <<shared, pc, toks>>
    /\ UNCHANGED <<block, owner>>

(* KeSetEvent (&WaitBlock->WakeEvent, 0, FALSE)                            *)
ReleaseWake(t) ==
    /\ pc[t] = "relWake"
    /\ wakeEvent' = "set"
    /\ Goto(t, "idle")
    /\ UNCHANGED <<shared, waitCount, owner, value, toks>>

-----------------------------------------------------------------------------
(* The teardown thread.                                                    *)

(* The compare-exchange of 0 for EX_RUNDOWN_ACTIVE that both               *)
(* ExWaitForRundownProtectionRelease and its Exf form begin with; done     *)
(* when the word was 0, or was EX_RUNDOWN_ACTIVE already.                  *)
WaitFastCAS(otherwise) ==
    /\ runRef' = IF runRef = Zero THEN RundownActive ELSE runRef
    /\ waiter' = IF runRef \in {Zero, RundownActive} THEN "returned" ELSE otherwise

WaitInline ==
    /\ waiter \in {"idle", "completed"}
    /\ WaitFastCAS("exf")
    /\ UNCHANGED <<held, block, waitValue, local>>

(* The Exf form keeps the word it saw; its frame holds a fresh wait block. *)
WaitExf ==
    /\ waiter = "exf"
    /\ WaitFastCAS("loop")
    /\ waitValue' = runRef
    /\ wakeEvent' = "uninit"
    /\ UNCHANGED <<held, waitCount, local>>

(* Mutant: the count is stored once, with the event, and not on a retry.   *)
WaitPublishStaleCount ==
    /\ waiter = "loop"
    /\ waitCount' = IF wakeEvent = "uninit" THEN waitValue.rest ELSE waitCount
    /\ wakeEvent' = IF waitValue.rest > 0 THEN "clear" ELSE wakeEvent
    /\ \/ /\ runRef = waitValue
          /\ runRef' = WaitBlockWord
          /\ waiter' = IF waitValue.rest > 0 THEN "wait" ELSE "returned"
          /\ UNCHANGED waitValue
       \/ /\ runRef # waitValue
          /\ waitValue' = runRef
          /\ UNCHANGED <<runRef, waiter>>
    /\ UNCHANGED <<held, local>>

(* One turn of the slow path: initialise the event once if there is        *)
(* anybody to wait for, store the count, try to publish the block.  The    *)
(* block is private to the thread until the compare-exchange succeeds.     *)
WaitPublish ==
    /\ waiter = "loop"
    /\ waitCount' = waitValue.rest
    /\ wakeEvent' = IF waitValue.rest > 0 /\ wakeEvent = "uninit"
                    THEN "clear" ELSE wakeEvent
    /\ \/ /\ runRef = waitValue
          /\ runRef' = WaitBlockWord
          /\ waiter' = IF waitValue.rest > 0 THEN "wait" ELSE "returned"
          /\ UNCHANGED waitValue
       \/ /\ runRef # waitValue
          /\ waitValue' = runRef
          /\ UNCHANGED <<runRef, waiter>>
    /\ UNCHANGED <<held, local>>

(* KeWaitForSingleObject on the synchronization event is satisfied, and    *)
(* the frame that holds the wait block goes away.                          *)
WaitWake ==
    /\ waiter = "wait"
    /\ wakeEvent = "set"
    /\ wakeEvent' = "clear"
    /\ waiter' = "returned"
    /\ UNCHANGED <<shared, waitCount, waitValue, local>>

(* ExRundownCompleted: later waits are no-ops.                             *)
RundownCompleted ==
    /\ waiter = "returned"
    /\ runRef' = RundownActive
    /\ waiter' = "completed"
    /\ UNCHANGED <<held, block, waitValue, local>>

(* ExReInitializeRundownProtection.                                        *)
ReInitialize ==
    /\ waiter \in {"returned", "completed"}
    /\ runRef' = Zero
    /\ waiter' = "idle"
    /\ UNCHANGED <<held, block, waitValue, local>>

-----------------------------------------------------------------------------
BeginAcquire(t) == \/ \E k \in Tokens : AcquireInline(t, k)
                   \/ \E S \in (SUBSET Tokens) \ {{}} : AcquireEx(t, S)
BeginRelease(t) == \/ \E k \in Tokens : ReleaseInline(t, k)
                   \/ \E S \in (SUBSET Tokens) \ {{}} : ReleaseEx(t, S)

(* A step inside a call that accessor t has made.                          *)
Continue(t) == \/ AcquireInlineCAS(t)
               \/ AcquireRead(t)
               \/ AcquireLoop(t)
               \/ ReleaseInlineCAS(t)
               \/ ReleaseRead(t)
               \/ ReleaseToWaitBlock(t)
               \/ ReleaseToWord(t)
               \/ ReleaseWake(t)

Teardown == \/ WaitInline
            \/ WaitExf
            \/ WaitPublish
            \/ WaitWake
            \/ RundownCompleted
            \/ ReInitialize

Next == \/ \E t \in Threads : BeginAcquire(t) \/ BeginRelease(t) \/ Continue(t)
        \/ Teardown

Spec == Init /\ [][Next]_vars

(* A call that gives back the protection k.                                *)
ReleaseOf(k) == \E t \in Threads : \/ ReleaseInline(t, k)
                                   \/ \E S \in SUBSET Tokens : k \in S /\ ReleaseEx(t, S)

-----------------------------------------------------------------------------
PCs == {"idle", "acqFast", "acqRead", "acqLoop",
        "relFast", "relRead", "relLoop", "relWake"}
Waiters == {"idle", "exf", "loop", "wait", "returned", "completed"}

(* Every variable keeps its type; in particular WaitBlock.Count never goes *)
(* below zero in the form with a single word, the assertion at the two     *)
(* decrements of the wait block.                                           *)
TypeOK == /\ runRef \in Words
          /\ waitCount \in Nat
          /\ wakeEvent \in {"uninit", "clear", "set"}
          /\ waiter \in Waiters
          /\ waitValue \in Words
          /\ pc \in [Threads -> PCs]
          /\ value \in [Threads -> Words]
          /\ toks \in [Threads -> SUBSET Tokens]
          /\ held \in SUBSET Tokens

Down == waiter \in {"returned", "completed"}

(* Once ExWaitForRundownProtectionRelease has returned, and until          *)
(* ExReInitializeRundownProtection, no protection is outstanding: the      *)
(* owner may free what the protection guards.                              *)
TeardownSafe == Down => held = {}

(* A releaser that has seen the active bit and will follow the pointer, or *)
(* is about to set the event, finds the wait block in a frame whose owner  *)
(* is still waiting, with its event initialised: "After doing this we      *)
(* can't touch the data structures again" (rundown.c:318).                 *)
WaitBlockLive ==
    \A t \in Threads :
        (pc[t] = "relWake" \/ (pc[t] = "relLoop" /\ value[t].active))
           => /\ waiter = "wait"
              /\ runRef = WaitBlockWord
              /\ wakeEvent = "clear"

(* The assertions of the release and wait paths: the wait block has as     *)
(* many counts as are given back, a word that is decremented has too, and  *)
(* the count is zero when the event has been set.                          *)
CountAsserts ==
    /\ \A t \in Threads :
         /\ (pc[t] = "relLoop" /\ value[t].active)
               => waitCount >= Cardinality(toks[t])
         /\ (pc[t] \in {"relFast", "relLoop"} /\ runRef = value[t] /\ ~runRef.active)
               => runRef.rest >= Cardinality(toks[t])
    /\ (waiter = "wait" /\ wakeEvent = "set") => waitCount = 0
    /\ waiter = "loop" => ~runRef.active

Abs == INSTANCE RundownSpec WITH
          granted <- held,
          phase <- CASE waiter = "wait" -> "closing"
                     [] Down -> "closed"
                     [] OTHER -> "open"

(* The interlocked protocol implements the promise of RundownSpec.         *)
ImplementsRundownSpec == Abs!Spec
=============================================================================
