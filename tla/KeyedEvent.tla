----------------------------- MODULE KeyedEvent -----------------------------
(***************************************************************************)
(* A keyed event (ntoskrnl/ex/keyedevent.c): NtWaitForKeyedEvent and       *)
(* NtReleaseKeyedEvent for one key meet one to one; whoever comes first    *)
(* queues itself and sleeps on its own KeyedWaitSemaphore, and gives up    *)
(* when its time is over, it is alerted or it terminates.                  *)
(*                                                                         *)
(* What the code does under the exclusive push lock of the event is one    *)
(* step; the semaphores are used outside the lock.                         *)
(***************************************************************************)
EXTENDS Naturals, Sequences, FiniteSets

CONSTANTS Threads,
          Keys,
          Processes,
          None         \* no thread, or a NULL KeyedWaitValue

VARIABLES
    process,    \* process[t]: THREAD_TO_PROCESS
    queue,      \* KeyedEventObject->WaitQueue
    value,      \* value[t]: t's KeyedWaitValue
    sem,        \* sem[t]: the count of t's KeyedWaitSemaphore
    pc,         \* pc[t]: where t is
    target      \* target[t]: TargetThread

vars == <<process, queue, value, sem, pc, target>>

-----------------------------------------------------------------------------
(* KEYVALUE_RELEASE is a bit of the value.                                 *)
KeyValues == [key : Keys, release : BOOLEAN]

Init == /\ process \in [Threads -> Processes]
        /\ queue = <<>>
        /\ value = [t \in Threads |-> None]
        /\ sem = [t \in Threads |-> 0]
        /\ pc = [t \in Threads |-> "idle"]
        /\ target = [t \in Threads |-> None]

Remove(q, i) == SubSeq(q, 1, i - 1) \o SubSeq(q, i + 1, Len(q))

(* The search of either service for a thread of the caller's process that  *)
(* does the opposite for the same key.  A release looks at the whole queue,*)
(* a wait only up to the first thread that is not releasing.               *)
Reached(release, i) ==
    release \/ \A j \in 1 .. i : value[queue[j]].release

Matches(t, k, release, i) ==
    /\ Reached(release, i)
    /\ value[queue[i]] = [key |-> k, release |-> ~release]
    /\ process[queue[i]] = process[t]

(* Mutant: releasers queue behind everybody, like waiters.                 *)
InsertTail(t, release) == Append(queue, t)

(* Releasers are inserted at the head of the queue, waiters at the tail.   *)
Insert(t, release) == IF release THEN <<t>> \o queue ELSE Append(queue, t)

(* The part of a call under the lock, if there is no match: queue up.      *)
CallQueues(t, k, release) ==
    /\ pc[t] = "idle"
    /\ \A i \in 1 .. Len(queue) : ~Matches(t, k, release, i)
    /\ value' = [value EXCEPT ![t] = [key |-> k, release |-> release]]
    /\ queue' = Insert(t, release)
    /\ pc' = [pc EXCEPT ![t] = "wait"]
    /\ UNCHANGED <<process, sem, target>>

(* The same, if there is one: the first is taken off the queue.            *)
CallTakes(t, k, release) ==
    /\ pc[t] = "idle"
    /\ \E i \in 1 .. Len(queue) :
          /\ Matches(t, k, release, i)
          /\ \A j \in 1 .. i - 1 : ~Matches(t, k, release, j)
          /\ target' = [target EXCEPT ![t] = queue[i]]
          /\ queue' = Remove(queue, i)
    /\ pc' = [pc EXCEPT ![t] = "signal"]
    /\ UNCHANGED <<process, value, sem>>

(* KeReleaseSemaphore of the target, and the return.                       *)
Signal(t) ==
    /\ pc[t] = "signal"
    /\ sem' = [sem EXCEPT ![target[t]] = @ + 1]
    /\ target' = [target EXCEPT ![t] = None]
    /\ pc' = [pc EXCEPT ![t] = "idle"]
    /\ UNCHANGED <<process, queue, value>>

(* KeWaitForSingleObject takes the count down; the call returns with the   *)
(* old KeyedWaitValue restored.                                            *)
TakeSemaphore(t) ==
    /\ sem[t] > 0
    /\ sem' = [sem EXCEPT ![t] = @ - 1]
    /\ value' = [value EXCEPT ![t] = None]
    /\ pc' = [pc EXCEPT ![t] = "idle"]
    /\ UNCHANGED <<process, queue, target>>

WaitSucceeds(t) == pc[t] = "wait" /\ TakeSemaphore(t)

(* The wait ends with a status other than STATUS_SUCCESS: the time is      *)
(* over, an alert or an APC, or the thread terminates.                     *)
WaitFails(t) ==
    /\ pc[t] = "wait"
    /\ pc' = [pc EXCEPT ![t] = "cancel"]
    /\ UNCHANGED <<process, queue, value, sem, target>>

(* Mutant: the thread does not wait for the wake-up that is on its way.    *)
CancelAnyway(t) ==
    /\ pc[t] = "cancel"
    /\ queue' = SelectSeq(queue, LAMBDA u : u # t)
    /\ value' = [value EXCEPT ![t] = None]
    /\ pc' = [pc EXCEPT ![t] = "idle"]
    /\ UNCHANGED <<process, sem, target>>

(* Under the lock the thread takes itself off the queue.  If it is not     *)
(* there any more somebody is about to release its semaphore, and that is  *)
(* waited for in kernel mode without a time.                               *)
Cancel(t) ==
    /\ pc[t] = "cancel"
    /\ \/ \E i \in 1 .. Len(queue) :
             /\ queue[i] = t
             /\ queue' = Remove(queue, i)
             /\ value' = [value EXCEPT ![t] = None]
             /\ pc' = [pc EXCEPT ![t] = "idle"]
       \/ /\ \A i \in 1 .. Len(queue) : queue[i] # t
          /\ pc' = [pc EXCEPT ![t] = "await"]
          /\ UNCHANGED <<queue, value>>
    /\ UNCHANGED <<process, sem, target>>

AwaitWake(t) == pc[t] = "await" /\ TakeSemaphore(t)

-----------------------------------------------------------------------------
Call(t) == \E k \in Keys, release \in BOOLEAN :
              CallQueues(t, k, release) \/ CallTakes(t, k, release)

(* What a thread does by itself once it has a match or is woken.           *)
Proceed(t) == Signal(t) \/ WaitSucceeds(t) \/ Cancel(t) \/ AwaitWake(t)

Next == \E t \in Threads : Call(t) \/ Proceed(t) \/ WaitFails(t)

Spec == Init /\ [][Next]_vars

(* A thread that can go on does: it holds no lock and waits for none but   *)
(* the push lock of the event, which is held for bounded steps.            *)
FairSpec == Spec /\ \A t \in Threads : WF_vars(Proceed(t))

-----------------------------------------------------------------------------
PCs == {"idle", "signal", "wait", "cancel", "await"}

InQueue(t) == \E i \in 1 .. Len(queue) : queue[i] = t

(* The count of a KeyedWaitSemaphore stays within the limit of 1 that      *)
(* PspCreateThread gave it: KeReleaseSemaphore would raise an exception.   *)
TypeOK ==
    /\ process \in [Threads -> Processes]
    /\ queue \in Seq(Threads)
    /\ value \in [Threads -> KeyValues \cup {None}]
    /\ sem \in [Threads -> {0, 1}]
    /\ pc \in [Threads -> PCs]
    /\ target \in [Threads -> Threads \cup {None}]

(* The threads that have taken t off the queue and are about to release    *)
(* its semaphore.                                                          *)
Wakers(t) == {u \in Threads : pc[u] = "signal" /\ target[u] = t}

(* Exactly the threads that wait and were taken off the queue have a       *)
(* wake-up, in their semaphore or on its way, and only one.  So a call     *)
(* that gives up late does not leave a count behind, which would end the   *)
(* thread's next keyed wait, or its next LPC wait, which uses the same     *)
(* semaphore, before its time.                                             *)
WakeupOwed ==
    \A t \in Threads :
        LET owed == pc[t] \in {"wait", "cancel", "await"} /\ ~InQueue(t)
        IN  /\ sem[t] + Cardinality(Wakers(t)) = IF owed THEN 1 ELSE 0
            /\ pc[t] = "await" => owed

(* A waiter and a releaser that could meet are never both in the queue.    *)
(* The wait stops searching at the first waiter, so this needs the         *)
(* invariant of the comments that releasers are at the front.              *)
NoneMissed ==
    \A i, j \in 1 .. Len(queue) :
        ~ /\ value[queue[i]].key = value[queue[j]].key
          /\ value[queue[i]].release # value[queue[j]].release
          /\ process[queue[i]] = process[queue[j]]

(* A thread whose counterpart has come, and one that gave up, is to        *)
(* return.                                                                 *)
Due(t) == pc[t] = "cancel" \/ (pc[t] = "wait" /\ ~InQueue(t))

Returned(t) == pc[t] = "idle"
=============================================================================
