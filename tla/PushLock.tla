------------------------------ MODULE PushLock ------------------------------
(***************************************************************************)
(* EX_PUSH_LOCK at the granularity of its interlocked operations           *)
(* (ntoskrnl/ex/pushlock.c and the inlines of ntoskrnl/inc/ex.h).          *)
(*                                                                         *)
(* The lock is one machine word: four bits and either a share count or, if *)
(* Waiting is set, the address of the newest of a chain of wait blocks     *)
(* that live on the stacks of the waiting threads.  A thread waits in one  *)
(* frame at a time, so a wait block is named by its thread.  Waiters are   *)
(* pushed by compare-exchange; the thread that set Waking owns the links   *)
(* of the chain and takes waiters off its old end.                         *)
(***************************************************************************)
EXTENDS Integers, FiniteSets

CONSTANTS Threads,
          Null,          \* the NULL wait block
          AcquireCalls,  \* the acquire entry points the clients use ...
          ReleaseCalls,  \* ... and the other ones
          MaxAcquires    \* bound on the acquires a thread makes

ASSUME CallsAssumption ==
    /\ AcquireCalls \subseteq {"Exclusive", "Shared", "TryExclusive", "TryShared",
                               "AcquireRelease"}
    /\ ReleaseCalls \subseteq {"Inline", "Exf", "Generic", "ConvertToShared",
                               "TryConvertToExclusive"}
    /\ MaxAcquires \in Nat

(* Addresses are neither NULL nor counts.                                  *)
ASSUME ThreadsAssumption ==
    /\ IsFiniteSet(Threads)
    /\ Null \notin Threads
    /\ \A t \in Threads : t \notin Int

VARIABLES
    word,    \* PushLock->Value
    block,   \* block[t]: the EX_PUSH_LOCK_WAIT_BLOCK in t's frame
    pc,      \* pc[t]: where t is
    held,    \* held[t]: how t owns the lock, "none", "shared", "exclusive"
    mode,    \* mode[t]: what t's acquire asks for, "none" outside an acquire
    old,     \* old[t]: OldValue of the acquire and release loops
    top,     \* top[t]: TopValue / OldValue of the list walks
    wb,      \* wb[t]: WaitBlock of the list walks
    acquires \* acquires[t]: acquires t may still make

vars == <<word, block, pc, held, mode, old, top, wb, acquires>>

-----------------------------------------------------------------------------
(* The word.  rest is PushLock->Shared while Waiting is clear and the      *)
(* newest waiter while it is set.                                          *)
Free       == [lock |-> FALSE, waiting |-> FALSE, waking |-> FALSE,
               multi |-> FALSE, rest |-> 0]
Exclusive  == [Free EXCEPT !.lock = TRUE]
OneSharer  == [Exclusive EXCEPT !.rest = 1]

Shared(w)    == IF w.waiting THEN 0 ELSE w.rest
Lock(w)      == [w EXCEPT !.lock = TRUE]
Unlock(w)    == [w EXCEPT !.lock = FALSE]
Waking(w, b) == [w EXCEPT !.waking = b]

NoBlock == [next |-> Null, last |-> Null, prev |-> Null, share |-> 0,
            excl |-> FALSE, spin |-> FALSE, gate |-> "uninit"]

Init == /\ word = Free
        /\ block = [t \in Threads |-> NoBlock]
        /\ pc = [t \in Threads |-> "idle"]
        /\ held = [t \in Threads |-> "none"]
        /\ mode = [t \in Threads |-> "none"]
        /\ old = [t \in Threads |-> Free]
        /\ top = [t \in Threads |-> Free]
        /\ wb = [t \in Threads |-> Null]
        /\ acquires \in [Threads -> 0 .. MaxAcquires]

Goto(t, l)   == pc' = [pc EXCEPT ![t] = l]
Hold(t, h)   == held' = [held EXCEPT ![t] = h]
SetOld(t, w) == old' = [old EXCEPT ![t] = w]
SetTop(t, w) == top' = [top EXCEPT ![t] = w]
SetWb(t, b)  == wb' = [wb EXCEPT ![t] = b]

(* A call returns: its frame, with its locals and wait block, goes away.   *)
LeaveFrame(t) == /\ Goto(t, "idle")
                 /\ mode' = [mode EXCEPT ![t] = "none"]
                 /\ block' = [block EXCEPT ![t] = NoBlock]
                 /\ SetOld(t, Free)
                 /\ SetTop(t, Free)
                 /\ SetWb(t, Null)

(* InterlockedCompareExchangePointer (&PushLock->Ptr, new, cmp).           *)
Swap(cmp, new) == word = cmp /\ word' = new
Mismatch(cmp)  == word # cmp /\ UNCHANGED word

-----------------------------------------------------------------------------
(* Acquiring.                                                              *)

Begin(t, call) == /\ pc[t] = "idle"
                  /\ held[t] = "none"
                  /\ call \in AcquireCalls
                  /\ acquires[t] > 0
                  /\ acquires' = [acquires EXCEPT ![t] = @ - 1]

(* ExAcquirePushLockExclusive: interlocked bit test and set of Locked.     *)
AcquireExclusive(t) ==
    /\ Begin(t, "Exclusive")
    /\ word' = Lock(word)
    /\ \/ /\ ~word.lock
          /\ Hold(t, "exclusive")
          /\ UNCHANGED <<pc, mode>>
       \/ /\ word.lock
          /\ mode' = [mode EXCEPT ![t] = "exclusive"]
          /\ Goto(t, "acqRead")
          /\ UNCHANGED held
    /\ UNCHANGED <<block, old, top, wb>>

(* ExTryAcquirePushLockExclusive.                                          *)
TryAcquireExclusive(t) ==
    /\ Begin(t, "TryExclusive")
    /\ word' = Lock(word)
    /\ Hold(t, IF word.lock THEN "none" ELSE "exclusive")
    /\ UNCHANGED <<block, pc, mode, old, top, wb>>

(* ExAcquirePushLockShared: compare-exchange of an idle lock, or the Exf   *)
(* form.  ExAcquirePushLockSharedAssumeNoOwner is the same code.           *)
AcquireShared(t) ==
    /\ Begin(t, "Shared")
    /\ \/ /\ Swap(Free, OneSharer)
          /\ Hold(t, "shared")
          /\ UNCHANGED <<pc, mode>>
       \/ /\ Mismatch(Free)
          /\ mode' = [mode EXCEPT ![t] = "shared"]
          /\ Goto(t, "acqRead")
          /\ UNCHANGED held
    /\ UNCHANGED <<block, old, top, wb>>

(* ExTryAcquirePushLockShared.                                             *)
TryAcquireShared(t) ==
    /\ Begin(t, "TryShared")
    /\ \/ /\ Swap(Free, OneSharer)
          /\ Hold(t, "shared")
          /\ UNCHANGED pc
       \/ /\ Mismatch(Free)
          /\ Goto(t, "tryRead")
          /\ UNCHANGED held
    /\ UNCHANGED <<block, mode, old, top, wb>>

(* ExAcquireReleasePushLockExclusive: nothing if the lock is free, else    *)
(* an exclusive acquire that the caller releases at once.                  *)
AcquireRelease(t) ==
    /\ Begin(t, "AcquireRelease")
    /\ word.lock
    /\ mode' = [mode EXCEPT ![t] = "passing"]
    /\ Goto(t, "acqRead")
    /\ UNCHANGED <<word, held, block, old, top, wb>>

(* OldValue = ReadForWriteAccess (PushLock) on entry, and                  *)
(* NewValue = *PushLock after the back-off that follows a failed           *)
(* compare-exchange.                                                       *)
AcqRead(t) ==
    /\ pc[t] = "acqRead"
    /\ SetOld(t, word)
    /\ Goto(t, "acqLoop")
    /\ UNCHANGED <<word, block, held, mode, top, wb, acquires>>

(* Mutant: sharers join any owner as long as nobody waits.                 *)
AvailableToSharers(w, m) == ~w.lock \/ (m = "shared" /\ ~w.waiting)

(* ExfAcquirePushLockExclusive waits for a lock that is held;              *)
(* ExfAcquirePushLockShared joins other sharers if nobody waits.           *)
Available(w, m) == ~w.lock \/ (m = "shared" /\ ~w.waiting /\ Shared(w) > 0)

(* The word with the lock taken: a sharer is counted unless the word holds *)
(* the address of a wait block.                                            *)
Taken(w, m) == IF m = "shared" /\ ~w.waiting
               THEN [Lock(w) EXCEPT !.rest = @ + 1]
               ELSE Lock(w)

AcqTake(t) ==
    /\ pc[t] = "acqLoop"
    /\ Available(old[t], mode[t])
    /\ \/ /\ Swap(old[t], Taken(old[t], mode[t]))
          /\ Hold(t, IF mode[t] = "passing" THEN "exclusive" ELSE mode[t])
          /\ \/ mode[t] # "passing" /\ LeaveFrame(t)
             \/ /\ mode[t] = "passing"
                /\ Goto(t, "relRead")
                /\ mode' = [mode EXCEPT ![t] = "none"]
                /\ block' = [block EXCEPT ![t] = NoBlock]
                /\ UNCHANGED <<old, top, wb>>
       \/ /\ Mismatch(old[t])
          /\ Goto(t, "acqRead")
          /\ UNCHANGED <<block, held, mode, old, top, wb>>
    /\ UNCHANGED acquires

(* Mutant: the share count stays behind.                                   *)
NewBlockUncounted(t, w, m) ==
    [NoBlock EXCEPT
        !.excl = (m # "shared"),
        !.spin = TRUE,
        !.next = IF w.waiting THEN w.rest ELSE Null,
        !.last = IF w.waiting THEN Null ELSE t]

(* The wait block a waiter pushes on a word, and the word with it pushed.  *)
(* The first exclusive waiter moves a share count above one to its block.  *)
NewBlock(t, w, m) ==
    [NoBlock EXCEPT
        !.excl = (m # "shared"),
        !.spin = TRUE,
        !.next = IF w.waiting THEN w.rest ELSE Null,
        !.last = IF w.waiting THEN Null ELSE t,
        !.share = IF m # "shared" /\ Shared(w) > 1 THEN Shared(w) ELSE 0]

Pushed(t, w, m) ==
    [w EXCEPT !.waiting = TRUE,
              !.waking = w.waiting,
              !.multi = IF w.waiting THEN w.multi ELSE m # "shared" /\ Shared(w) > 1,
              !.rest = t]

(* A waiter pushes its block; the first waiter does not set Waking, a      *)
(* later one that does goes on to optimise the chain.                      *)
AcqPush(t) ==
    /\ pc[t] = "acqLoop"
    /\ ~Available(old[t], mode[t])
    /\ \/ /\ Swap(old[t], Pushed(t, old[t], mode[t]))
          /\ block' = [block EXCEPT ![t] = NewBlock(t, old[t], mode[t])]
          /\ \/ /\ old[t].waiting /\ ~old[t].waking
                /\ SetTop(t, Pushed(t, old[t], mode[t]))
                /\ Goto(t, "optTop")
             \/ /\ ~(old[t].waiting /\ ~old[t].waking)
                /\ Goto(t, "gateInit")
                /\ UNCHANGED top
       \/ /\ Mismatch(old[t])
          /\ Goto(t, "acqRead")
          /\ UNCHANGED <<block, top>>
    /\ UNCHANGED <<held, mode, old, wb, acquires>>

(* KeInitializeGate, after the block has been published.                   *)
GateInit(t) ==
    /\ pc[t] = "gateInit"
    /\ block' = [block EXCEPT ![t].gate = "clear"]
    /\ Goto(t, "park")
    /\ UNCHANGED <<word, held, mode, old, top, wb, acquires>>

(* Mutant: the waiter sleeps without looking whether it was woken.         *)
ParkBlindly(t) ==
    /\ pc[t] = "park"
    /\ block' = [block EXCEPT ![t].spin = FALSE]
    /\ Goto(t, "sleep")
    /\ UNCHANGED <<word, held, mode, old, top, wb, acquires>>

(* The end of the spin: InterlockedBitTestAndReset of SPINNING; a thread   *)
(* that was not woken by then waits on the gate.  Either way it goes round *)
(* the loop with the OldValue it pushed on.                                *)
Park(t) ==
    /\ pc[t] = "park"
    /\ \/ /\ block[t].spin
          /\ block' = [block EXCEPT ![t].spin = FALSE]
          /\ Goto(t, "sleep")
       \/ /\ ~block[t].spin
          /\ block' = [block EXCEPT ![t] = NoBlock]
          /\ Goto(t, "acqLoop")
    /\ UNCHANGED <<word, held, mode, old, top, wb, acquires>>

(* KeWaitForGate is satisfied.                                             *)
Awake(t) ==
    /\ pc[t] = "sleep"
    /\ block[t].gate = "set"
    /\ block' = [block EXCEPT ![t] = NoBlock]
    /\ Goto(t, "acqLoop")
    /\ UNCHANGED <<word, held, mode, old, top, wb, acquires>>

(* ExfTryAcquirePushLockShared.                                            *)
TryRead(t) ==
    /\ pc[t] = "tryRead"
    /\ SetOld(t, word)
    /\ Goto(t, "tryLoop")
    /\ UNCHANGED <<word, block, held, mode, top, wb, acquires>>

TryLoop(t) ==
    /\ pc[t] = "tryLoop"
    /\ \/ /\ ~Available(old[t], "shared")
          /\ LeaveFrame(t)
          /\ UNCHANGED <<word, held>>
       \/ /\ Available(old[t], "shared")
          /\ Swap(old[t], Taken(old[t], "shared"))
          /\ Hold(t, "shared")
          /\ LeaveFrame(t)
       \/ /\ Available(old[t], "shared")
          /\ Mismatch(old[t])
          /\ SetOld(t, word)
          /\ UNCHANGED <<block, pc, held, mode, top, wb>>
    /\ UNCHANGED acquires

-----------------------------------------------------------------------------
(* Walking the chain.  A walk goes from the newest wait block along Next   *)
(* to the first block that has a Last pointer, which names the oldest.     *)
(* The owner of Waking sets Previous pointers on its way.                  *)

(* Mutant: the optimiser does not look whether the lock was released.      *)
OptTopUntested(t) ==
    /\ pc[t] = "optTop"
    /\ Goto(t, "optWalk") /\ SetWb(t, top[t].rest)
    /\ UNCHANGED <<word, block, held, mode, old, top, acquires>>

(* ExpOptimizePushLockList.                                                *)
OptTop(t) ==
    /\ pc[t] = "optTop"
    /\ \/ ~top[t].lock /\ Goto(t, "wakeTop") /\ UNCHANGED wb
       \/ top[t].lock /\ Goto(t, "optWalk") /\ SetWb(t, top[t].rest)
    /\ UNCHANGED <<word, block, held, mode, old, top, acquires>>

(* One step of a walk that links Previous, when no Last is found yet.      *)
LinkPrevious(t) ==
    LET b == wb[t] IN
    /\ block[b].last = Null
    /\ block' = [block EXCEPT ![block[b].next].prev = b]
    /\ SetWb(t, block[b].next)
    /\ UNCHANGED pc

OptWalk(t) ==
    /\ pc[t] = "optWalk"
    /\ \/ LinkPrevious(t)
       \/ /\ block[wb[t]].last # Null
          /\ block' = [block EXCEPT ![top[t].rest].last = block[wb[t]].last]
          /\ Goto(t, "optSwap")
          /\ UNCHANGED wb
    /\ UNCHANGED <<word, held, mode, old, top, acquires>>

(* Give up Waking if nobody changed the word, else look again.             *)
OptSwap(t) ==
    /\ pc[t] = "optSwap"
    /\ \/ /\ Swap(top[t], Waking(top[t], FALSE))
          /\ Goto(t, "gateInit")
          /\ SetTop(t, Free)
          /\ SetWb(t, Null)
       \/ /\ Mismatch(top[t])
          /\ SetTop(t, word)
          /\ Goto(t, "optTop")
          /\ UNCHANGED wb
    /\ UNCHANGED <<block, held, mode, old, acquires>>

(* The wake returns to a release, or to an acquire that was optimising.    *)
WakeReturn(t) == /\ Goto(t, IF mode[t] = "none" THEN "idle" ELSE "gateInit")
                 /\ SetTop(t, Free)
                 /\ SetWb(t, Null)

(* ExfWakePushLock: a lock that is held again needs no wake-up.            *)
WakeTop(t) ==
    /\ pc[t] = "wakeTop"
    /\ \/ /\ top[t].lock
          /\ Swap(top[t], Waking(top[t], FALSE))
          /\ WakeReturn(t)
       \/ /\ top[t].lock
          /\ Mismatch(top[t])
          /\ SetTop(t, word)
          /\ UNCHANGED <<pc, wb>>
       \/ /\ ~top[t].lock
          /\ SetWb(t, top[t].rest)
          /\ Goto(t, "wakeWalk")
          /\ UNCHANGED <<word, top>>
    /\ UNCHANGED <<block, held, mode, old, acquires>>

WakeWalk(t) ==
    /\ pc[t] = "wakeWalk"
    /\ \/ LinkPrevious(t)
       \/ /\ block[wb[t]].last # Null
          /\ SetWb(t, block[wb[t]].last)
          /\ Goto(t, "wakeTake")
          /\ UNCHANGED block
    /\ UNCHANGED <<word, held, mode, old, top, acquires>>

(* Mutant: the unlinked waiter keeps its Previous pointer.                 *)
WakeTakeLinked(t) ==
    LET b == wb[t]
        alone == block[b].excl /\ block[b].prev # Null
    IN
    /\ pc[t] = "wakeTake"
    /\ \/ /\ alone
          /\ block' = [block EXCEPT ![top[t].rest].last = block[b].prev]
          /\ Goto(t, "wakeAnd")
          /\ UNCHANGED <<word, top>>
       \/ /\ ~alone
          /\ Swap(top[t], Free)
          /\ Goto(t, "wakeClear")
          /\ UNCHANGED <<block, top>>
       \/ /\ ~alone
          /\ Mismatch(top[t])
          /\ SetTop(t, word)
          /\ Goto(t, "wakeTop")
          /\ UNCHANGED block
    /\ UNCHANGED <<held, mode, old, wb, acquires>>

(* An exclusive waiter that is not the only one is unlinked on its own;    *)
(* otherwise the whole chain is taken, if the word has not changed.        *)
WakeTake(t) ==
    LET b == wb[t]
        alone == block[b].excl /\ block[b].prev # Null
    IN
    /\ pc[t] = "wakeTake"
    /\ \/ /\ alone
          /\ block' = [block EXCEPT ![top[t].rest].last = block[b].prev,
                                    ![b].prev = Null]
          /\ Goto(t, "wakeAnd")
          /\ UNCHANGED <<word, top>>
       \/ /\ ~alone
          /\ Swap(top[t], Free)
          /\ Goto(t, "wakeClear")
          /\ UNCHANGED <<block, top>>
       \/ /\ ~alone
          /\ Mismatch(top[t])
          /\ SetTop(t, word)
          /\ Goto(t, "wakeTop")
          /\ UNCHANGED block
    /\ UNCHANGED <<held, mode, old, wb, acquires>>

(* InterlockedAnd (&PushLock->Value, ~EX_PUSH_LOCK_WAKING).                *)
WakeAnd(t) ==
    /\ pc[t] = "wakeAnd"
    /\ word' = Waking(word, FALSE)
    /\ Goto(t, "wakeClear")
    /\ UNCHANGED <<block, held, mode, old, top, wb, acquires>>

(* Previous is read before SPINNING is reset: a spinning waiter may leave  *)
(* its frame at once, a waiter that is not spinning needs its gate.  top   *)
(* is not used any more and keeps the next block.                          *)
WakeClear(t) ==
    LET b == wb[t] IN
    /\ pc[t] = "wakeClear"
    /\ \/ /\ block[b].spin
          /\ block' = [block EXCEPT ![b].spin = FALSE]
          /\ \/ block[b].prev = Null /\ WakeReturn(t)
             \/ /\ block[b].prev # Null
                /\ SetWb(t, block[b].prev)
                /\ UNCHANGED <<pc, top>>
       \/ /\ ~block[b].spin
          /\ SetTop(t, [Free EXCEPT !.rest = block[b].prev])
          /\ Goto(t, "wakeSignal")
          /\ UNCHANGED <<block, wb>>
    /\ UNCHANGED <<word, held, mode, old, acquires>>

(* KeSignalGateBoostPriority.                                              *)
WakeSignal(t) ==
    /\ pc[t] = "wakeSignal"
    /\ block' = [block EXCEPT ![wb[t]].gate = "set"]
    /\ \/ top[t].rest = Null /\ WakeReturn(t)
       \/ /\ top[t].rest # Null
          /\ SetWb(t, top[t].rest)
          /\ SetTop(t, Free)
          /\ Goto(t, "wakeClear")
    /\ UNCHANGED <<word, held, mode, old, acquires>>

-----------------------------------------------------------------------------
(* Releasing and converting.                                               *)

BeginRelease(t, h, call) == /\ pc[t] = "idle"
                            /\ held[t] = h
                            /\ call \in ReleaseCalls

(* ExReleasePushLockExclusive: subtract Locked; if there are waiters and   *)
(* nobody wakes them, ExfTryToWakePushLock.                                *)
ReleaseExclusive(t) ==
    /\ BeginRelease(t, "exclusive", "Inline")
    /\ word' = Unlock(word)
    /\ Hold(t, "none")
    /\ Goto(t, IF word.waiting /\ ~word.waking THEN "tryWake" ELSE "idle")
    /\ UNCHANGED <<block, mode, old, top, wb, acquires>>

TryWake(t) ==
    /\ pc[t] = "tryWake"
    /\ \/ /\ word.waking \/ word.lock \/ ~word.waiting
          /\ Goto(t, "idle")
          /\ UNCHANGED top
       \/ /\ ~(word.waking \/ word.lock \/ ~word.waiting)
          /\ SetTop(t, word)
          /\ Goto(t, "tryWakeSwap")
    /\ UNCHANGED <<word, block, held, mode, old, wb, acquires>>

TryWakeSwap(t) ==
    /\ pc[t] = "tryWakeSwap"
    /\ \/ /\ Swap(top[t], Waking(top[t], TRUE))
          /\ SetTop(t, Waking(top[t], TRUE))
          /\ Goto(t, "wakeTop")
       \/ /\ Mismatch(top[t])
          /\ SetTop(t, Free)
          /\ Goto(t, "idle")
    /\ UNCHANGED <<block, held, mode, old, wb, acquires>>

(* ExfReleasePushLockExclusive: as one compare-exchange.                   *)
ReleaseExclusiveExf(t) ==
    /\ BeginRelease(t, "exclusive", "Exf")
    /\ Goto(t, "relRead")
    /\ UNCHANGED <<word, block, held, mode, old, top, wb, acquires>>

RelRead(t) ==
    /\ pc[t] = "relRead"
    /\ SetOld(t, word)
    /\ Goto(t, "relLoop")
    /\ UNCHANGED <<word, block, held, mode, top, wb, acquires>>

(* Mutant: the releaser wakes although another thread has Waking.          *)
UnlockAndWakeAlways(t, new) ==
    /\ Swap(old[t], new)
    /\ IF new.waking THEN SetTop(t, new) /\ Goto(t, "wakeTop")
                     ELSE Goto(t, "idle") /\ UNCHANGED top
    /\ SetOld(t, Free)
    /\ UNCHANGED <<block, mode, wb>>

(* The releaser unlocks the word; it wakes the waiters if there are any    *)
(* and no other thread has taken that on.                                  *)
UnlockAndWake(t, new) ==
    /\ Swap(old[t], new)
    /\ \/ /\ new.waking /\ ~old[t].waking
          /\ SetTop(t, new)
          /\ Goto(t, "wakeTop")
       \/ /\ ~(new.waking /\ ~old[t].waking)
          /\ Goto(t, "idle")
          /\ UNCHANGED top
    /\ SetOld(t, Free)
    /\ UNCHANGED <<block, mode, wb>>

RelLoop(t) ==
    /\ pc[t] = "relLoop"
    /\ \/ /\ UnlockAndWake(t, Waking(Unlock(old[t]), old[t].waiting))
          /\ Hold(t, "none")
       \/ /\ Mismatch(old[t])
          /\ SetOld(t, word)
          /\ UNCHANGED <<block, pc, held, mode, top, wb>>
    /\ UNCHANGED acquires

(* ExReleasePushLockShared: compare-exchange of a single sharer.           *)
ReleaseShared(t) ==
    /\ BeginRelease(t, "shared", "Inline")
    /\ \/ /\ Swap(OneSharer, Free)
          /\ Hold(t, "none")
          /\ UNCHANGED pc
       \/ /\ Mismatch(OneSharer)
          /\ Goto(t, "relsRead")
          /\ UNCHANGED held
    /\ UNCHANGED <<block, mode, old, top, wb, acquires>>

(* ExReleasePushLock reads the word and may do with one compare-exchange;  *)
(* ExfReleasePushLock begins with the same read and the same attempt.      *)
ReleaseGeneric(t) ==
    /\ \E h \in {"shared", "exclusive"} : BeginRelease(t, h, "Generic")
    /\ Goto(t, "relsRead")
    /\ UNCHANGED <<word, block, held, mode, old, top, wb, acquires>>

RelsRead(t) ==
    /\ pc[t] = "relsRead"
    /\ SetOld(t, word)
    /\ Goto(t, "relsLoop")
    /\ UNCHANGED <<word, block, held, mode, top, wb, acquires>>

(* Mutant: the last owner does not free the lock.                          *)
OneFewerAlways(w) == [w EXCEPT !.rest = @ - 1]

(* Nobody waits: one sharer fewer, or a free lock.                         *)
OneFewer(w) == IF w.rest > 1 THEN [w EXCEPT !.rest = @ - 1] ELSE Free

RelsLoop(t) ==
    /\ pc[t] = "relsLoop"
    /\ \/ /\ ~old[t].waiting
          /\ Swap(old[t], OneFewer(old[t]))
          /\ Hold(t, "none")
          /\ Goto(t, "idle")
          /\ SetOld(t, Free)
          /\ UNCHANGED wb
       \/ /\ ~old[t].waiting
          /\ Mismatch(old[t])
          /\ SetOld(t, word)
          /\ UNCHANGED <<pc, held, wb>>
       \/ /\ old[t].waiting /\ old[t].multi
          /\ SetWb(t, old[t].rest)
          /\ Goto(t, "relsWalk")
          /\ UNCHANGED <<word, held, old>>
       \/ /\ old[t].waiting /\ ~old[t].multi
          /\ Goto(t, "relsUnlock")
          /\ UNCHANGED <<word, held, old, wb>>
    /\ UNCHANGED <<block, mode, top, acquires>>

(* Find the oldest waiter, whose block has the share count.                *)
RelsWalk(t) ==
    LET b == block[wb[t]] IN
    /\ pc[t] = "relsWalk"
    /\ \/ b.last = Null /\ SetWb(t, b.next) /\ UNCHANGED pc
       \/ b.last # Null /\ SetWb(t, b.last) /\ Goto(t, "relsCount")
    /\ UNCHANGED <<word, block, held, mode, old, top, acquires>>

(* InterlockedDecrement (&WaitBlock->ShareCount), which is not 0 here (see *)
(* SourceAsserts); the last sharer unlocks.                                *)
RelsCount(t) ==
    /\ pc[t] = "relsCount"
    /\ block' = [block EXCEPT ![wb[t]].share = @ - 1]
    /\ SetWb(t, Null)
    /\ Hold(t, "none")
    /\ \/ /\ block[wb[t]].share > 1
          /\ Goto(t, "idle")
          /\ SetOld(t, Free)
       \/ /\ block[wb[t]].share <= 1
          /\ Goto(t, "relsUnlock")
          /\ UNCHANGED old
    /\ UNCHANGED <<word, mode, top, acquires>>

(* Mutant: MultipleShared is left set.                                     *)
RelsUnlockMulti(t) ==
    /\ pc[t] = "relsUnlock"
    /\ \/ /\ UnlockAndWake(t, Waking(Unlock(old[t]), TRUE))
          /\ Hold(t, "none")
       \/ /\ Mismatch(old[t])
          /\ SetOld(t, word)
          /\ UNCHANGED <<block, pc, held, mode, top, wb>>
    /\ UNCHANGED acquires

(* The last sharer clears Locked and MultipleShared and sets Waking.       *)
RelsUnlock(t) ==
    /\ pc[t] = "relsUnlock"
    /\ \/ /\ UnlockAndWake(t, [Waking(Unlock(old[t]), TRUE) EXCEPT !.multi = FALSE])
          /\ Hold(t, "none")
       \/ /\ Mismatch(old[t])
          /\ SetOld(t, word)
          /\ UNCHANGED <<block, pc, held, mode, top, wb>>
    /\ UNCHANGED acquires

(* ExConvertPushLockExclusiveToShared and its Exf form: a compare-exchange *)
(* to one sharer if nobody waits, and no change of the word if somebody    *)
(* does; a mismatch is a retry.                                            *)
ConvertToShared(t) ==
    /\ BeginRelease(t, "exclusive", "ConvertToShared")
    /\ \/ Swap(Exclusive, OneSharer)
       \/ word.waiting /\ UNCHANGED word
    /\ Hold(t, "shared")
    /\ UNCHANGED <<block, pc, mode, old, top, wb, acquires>>

(* ExTryConvertPushLockSharedToExclusive.                                  *)
TryConvertToExclusive(t) ==
    /\ BeginRelease(t, "shared", "TryConvertToExclusive")
    /\ Swap(OneSharer, Exclusive)
    /\ Hold(t, "exclusive")
    /\ UNCHANGED <<block, pc, mode, old, top, wb, acquires>>

-----------------------------------------------------------------------------
BeginCall(t) == \/ AcquireExclusive(t)
                \/ AcquireShared(t)
                \/ TryAcquireExclusive(t)
                \/ TryAcquireShared(t)
                \/ AcquireRelease(t)

(* What the owner of the lock may call.                                    *)
OwnerCall(t) == \/ ReleaseExclusive(t)
                \/ ReleaseExclusiveExf(t)
                \/ ReleaseShared(t)
                \/ ReleaseGeneric(t)

Convert(t) == ConvertToShared(t) \/ TryConvertToExclusive(t)

(* A step inside a call.                                                   *)
Continue(t) == \/ AcqRead(t)     \/ AcqTake(t)   \/ AcqPush(t)
               \/ GateInit(t)    \/ Park(t)      \/ Awake(t)
               \/ TryRead(t)     \/ TryLoop(t)
               \/ OptTop(t)      \/ OptWalk(t)   \/ OptSwap(t)
               \/ WakeTop(t)     \/ WakeWalk(t)  \/ WakeTake(t)
               \/ WakeAnd(t)     \/ WakeClear(t) \/ WakeSignal(t)
               \/ TryWake(t)     \/ TryWakeSwap(t)
               \/ RelRead(t)     \/ RelLoop(t)
               \/ RelsRead(t)    \/ RelsLoop(t)  \/ RelsWalk(t)
               \/ RelsCount(t)   \/ RelsUnlock(t)

(* All threads have used up their acquires and left the lock.              *)
Finished == \A t \in Threads : pc[t] = "idle" /\ held[t] = "none" /\ acquires[t] = 0

Next == \/ \E t \in Threads : BeginCall(t) \/ OwnerCall(t) \/ Convert(t) \/ Continue(t)
        \/ Finished /\ UNCHANGED vars

Spec == Init /\ [][Next]_vars

(* Every thread in a call runs, and the owner of the lock releases it.     *)
Fairness == \A t \in Threads : WF_vars(Continue(t)) /\ WF_vars(OwnerCall(t))

FairSpec == Spec /\ Fairness

-----------------------------------------------------------------------------
WakingPCs == {"optTop", "optWalk", "optSwap", "wakeTop", "wakeWalk", "wakeTake", "wakeAnd"}
PCs == WakingPCs \cup
       {"idle", "acqRead", "acqLoop", "gateInit", "park", "sleep", "tryRead", "tryLoop",
        "wakeClear", "wakeSignal", "tryWake", "tryWakeSwap", "relRead", "relLoop",
        "relsRead", "relsLoop", "relsWalk", "relsCount", "relsUnlock"}

Words == [lock : BOOLEAN, waiting : BOOLEAN, waking : BOOLEAN, multi : BOOLEAN,
          rest : 0 .. Cardinality(Threads) \cup Threads \cup {Null}]

Blocks == [next : Threads \cup {Null}, last : Threads \cup {Null},
           prev : Threads \cup {Null}, share : 0 .. Cardinality(Threads),
           excl : BOOLEAN, spin : BOOLEAN, gate : {"uninit", "clear", "set"}]

(* Every variable has its type, and the word holds the address of a wait   *)
(* block exactly when Waiting is set.                                      *)
TypeOK ==
    /\ word \in Words
    /\ word.waiting <=> word.rest \in Threads
    /\ block \in [Threads -> Blocks]
    /\ pc \in [Threads -> PCs]
    /\ held \in [Threads -> {"none", "shared", "exclusive"}]
    /\ mode \in [Threads -> {"none", "shared", "exclusive", "passing"}]
    /\ old \in [Threads -> Words]
    /\ top \in [Threads -> Words]
    /\ wb \in [Threads -> Threads \cup {Null}]
    /\ acquires \in [Threads -> 0 .. MaxAcquires]

(* t waits in a published wait block; it has been taken off the chain and  *)
(* told so; or it has not, and cannot leave the frame the block is in.     *)
Published(t) == mode[t] # "none" /\ pc[t] \notin {"acqRead", "acqLoop"}
Woken(t) == /\ Published(t)
            /\ IF pc[t] = "sleep" THEN block[t].gate = "set" ELSE ~block[t].spin
Queued(t) == Published(t) /\ ~Woken(t)

(* A thread that follows a pointer to a wait block finds it in the frame   *)
(* of a thread that cannot leave: walks touch only queued blocks, and the  *)
(* gate that is signalled is one its owner has initialised and waits on.   *)
WaitBlocksLive ==
    \A t \in Threads :
        /\ pc[t] \in {"optWalk", "wakeWalk", "wakeTake", "wakeAnd", "wakeClear",
                      "relsWalk", "relsCount"} => wb[t] \in Threads /\ Queued(wb[t])
        /\ pc[t] = "wakeSignal" => /\ pc[wb[t]] = "sleep"
                                   /\ block[wb[t]].gate = "clear"

(* "Nobody should be walking the list while we manipulate it": the Waking  *)
(* bit is set exactly while one thread owns the links of the chain.        *)
WakingOwned ==
    LET owners == {t \in Threads : pc[t] \in WakingPCs} IN
    /\ Cardinality(owners) = IF word.waking THEN 1 ELSE 0
    /\ word.waking => word.waiting

Sharers == {t \in Threads : held[t] = "shared"}

(* The share count, in the word or in the oldest waiter's block, is the    *)
(* number of sharers.  (A sharer that came while others waited, or that    *)
(* was an exclusive owner with waiters, is alone and not counted.)         *)
ShareCountExact ==
    /\ ~word.waiting => word.rest = Cardinality(Sharers)
    /\ word.waiting /\ word.multi =>
          \E t \in Threads : Queued(t) /\ block[t].last = t
                                /\ block[t].share = Cardinality(Sharers)
    /\ word.waiting /\ ~word.multi => Cardinality(Sharers) <= 1

(* The assertions of pushlock.c and of the inlines in ex.h, and who may    *)
(* change the chain.                                                       *)
SourceAsserts ==
    /\ WakingOwned
    /\ \A t \in Threads :
          /\ held[t] = "shared" => word.lock /\ (word.waiting \/ word.rest > 0)
          /\ held[t] = "exclusive" => word.lock /\ (word.waiting \/ word.rest = 0)
          /\ pc[t] = "wakeTop" => /\ ~top[t].multi
                                  /\ top[t].lock => top[t].waiting /\ top[t].waking
          /\ pc[t] = "wakeAnd" => word.waiting /\ top[t].rest # wb[t]
          /\ pc[t] = "optSwap" => top[t].lock /\ top[t].waking
          /\ pc[t] = "relsCount" => block[wb[t]].share > 0 /\ block[wb[t]].excl
          /\ Woken(t) => block[t].share = 0

(* A thread that will see to the waiters: a releaser about to try to wake  *)
(* them, one that wakes, or one that was taken off the chain or has not    *)
(* queued yet, is on its way to the lock, and will release it.             *)
Attends(t) == \/ pc[t] = "tryWake"
              \/ pc[t] = "tryWakeSwap" /\ top[t] = word
              \/ pc[t] \in {"wakeClear", "wakeSignal", "acqRead", "acqLoop"}
              \/ Woken(t)

(* Waiters are never forgotten: while the lock is free and Waking is clear *)
(* a thread attends to those on the chain, and a waiter that is not on the *)
(* chain is on the list of a thread that wakes.                            *)
WaitersRemembered ==
    /\ word.waiting /\ ~word.lock /\ ~word.waking => \E t \in Threads : Attends(t)
    /\ ~word.waiting /\ (\E t \in Threads : Queued(t)) =>
          \E t \in Threads : pc[t] \in {"wakeClear", "wakeSignal"}

(* No waiter sleeps for ever: an acquire that waits is to return, if       *)
(* owners release the lock.  (MaxAcquires excludes starvation by           *)
(* newcomers, which the lock permits: it does not hand ownership on.)      *)
Due(t) == mode[t] # "none"

Returned(t) == mode[t] = "none"

RW == INSTANCE RWLock

(* The push lock is a reader-writer lock.                                  *)
ImplementsRWLock == RW!Spec
=============================================================================
