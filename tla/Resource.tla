------------------------------ MODULE Resource ------------------------------
(***************************************************************************)
(* An executive resource (ntoskrnl/ex/resource.c): a reader-writer lock    *)
(* with recursion, whose owners are recorded in a table that grows, and    *)
(* whose waiters sleep on a semaphore (shared) and an event (exclusive)    *)
(* that exist once somebody has waited.                                    *)
(*                                                                         *)
(* What the code does under the spin lock of the resource is one step.     *)
(* Outside it are the allocations, after which a call starts again, the    *)
(* sleep, and the wake-up of those a release has let in.                   *)
(***************************************************************************)
EXTENDS Integers, FiniteSets, FiniteSetsExt

CONSTANTS
    Threads,
    Pointers,     \* addresses given to ExSetResourceOwnerPointer
    Worker,       \* a thread that only releases for others
    None,         \* NULL
    FirstSize,    \* the TableSize of the first owner table (3 in the code)
    Growth,       \* what an expansion adds to it (4 in the code)
    MaxSize,      \* bound: the largest TableSize a state can need
    MaxHeld,      \* bound: the recursion of an owner
    Reacquires    \* whether a shared owner waits for exclusive waiters

VARIABLES
    active,             \* ActiveCount
    exclusive,          \* Flag & ResourceOwnedExclusive
    sharedWaiters,      \* NumberOfSharedWaiters
    exclusiveWaiters,   \* NumberOfExclusiveWaiters
    owner, count,       \* OwnerThreads[0 .. 1], then OwnerTable[1 ..]
    size,               \* OwnerTable->TableSize, 0 without a table
    semaphore,          \* the count of SharedWaiters, None if not allocated
    event,              \* the signal state of ExclusiveWaiters, or None
    pc, call,           \* where a thread is, and in which call
    oldSize,            \* OldSize of ExpExpandResourceOwnerTable
    duty,               \* what a releaser has still to signal
    held, access        \* what a user has acquired and not released, and how

vars == <<active, exclusive, sharedWaiters, exclusiveWaiters, owner, count,
          size, semaphore, event, pc, call, oldSize, duty, held, access>>

Users == Threads \cup Pointers
Releasers == Threads \cup {Worker}

(* The number a release writes for the owner it will wake.                 *)
Granted == "granted"

Slots == 0 .. MaxSize

(* Slot 1 + i is OwnerTable[i]: entry 0 of a table holds its size.         *)
InTable == 0 .. (IF size = 0 THEN 1 ELSE size)

Calls == [kind : {"Exclusive", "Shared", "StarveExclusive", "WaitForExclusive"},
          wait : BOOLEAN]

(* ExInitializeResourceLite.                                               *)
Init ==
    /\ active = 0 /\ exclusive = FALSE
    /\ sharedWaiters = 0 /\ exclusiveWaiters = 0
    /\ owner = [i \in Slots |-> None] /\ count = [i \in Slots |-> 0]
    /\ size = 0 /\ semaphore = None /\ event = None
    /\ pc = [t \in Threads |-> "idle"] /\ call = [t \in Threads |-> None]
    /\ oldSize = [t \in Threads |-> 0]
    /\ duty = [t \in Releasers |-> 0]
    /\ held = [u \in Users |-> 0] /\ access = [u \in Users |-> "none"]

-----------------------------------------------------------------------------
(* The entries of a user, and the one a search with room for it returns.   *)
Entries(u) == {i \in InTable : owner[i] = u}
FreeEntries == {i \in InTable \ {0} : owner[i] = None}

tableVars == <<owner, count, active, exclusive>>
waitVars == <<sharedWaiters, exclusiveWaiters, semaphore, event>>

(* A call goes on at p, with nothing done.                                 *)
Goto(t, c, p) ==
    /\ pc' = [pc EXCEPT ![t] = p]
    /\ call' = [call EXCEPT ![t] = IF p = "idle" THEN None ELSE c]
    /\ UNCHANGED <<tableVars, held, access>>

(* A call returns TRUE: t has the entry i, with the OwnerCount n.          *)
Enter(t, i, n, mode) ==
    /\ owner' = [owner EXCEPT ![i] = t]
    /\ count' = [count EXCEPT ![i] = n]
    /\ held' = [held EXCEPT ![t] = @ + 1]
    /\ access' = [access EXCEPT ![t] = mode]
    /\ pc' = [pc EXCEPT ![t] = "idle"]
    /\ call' = [call EXCEPT ![t] = None]
    /\ UNCHANGED <<waitVars, oldSize>>

(* ExpExpandResourceOwnerTable releases the lock to allocate.              *)
Expand(t, c, p) ==
    /\ Goto(t, c, p)
    /\ oldSize' = [oldSize EXCEPT ![t] = size]
    /\ UNCHANGED waitVars

Return(t) == Goto(t, None, "idle") /\ UNCHANGED <<waitVars, oldSize>>

(* Mutant: it is not asked who owns the resource.                          *)
RecursiveAnybody(t) == exclusive /\ Enter(t, 0, count[0] + 1, "exclusive")
                                 /\ UNCHANGED <<active, exclusive>>

(* The owner of an exclusive resource acquires it again, in any way.       *)
Recursive(t) == exclusive /\ owner[0] = t /\ Enter(t, 0, count[0] + 1, "exclusive")
                          /\ UNCHANGED <<active, exclusive>>

-----------------------------------------------------------------------------
(* ExAcquireResourceExclusiveLite; ExTryToAcquireResourceExclusiveLite is  *)
(* the same without a wait.                                                *)
ExAcquireResourceExclusiveLite(t, c) ==
    \/ /\ active = 0
       /\ exclusive' = TRUE /\ active' = 1
       /\ Enter(t, 0, 1, "exclusive")
    \/ active # 0 /\ Recursive(t)
    \/ /\ active # 0 /\ ~(exclusive /\ owner[0] = t)
       /\ \/ ~c.wait /\ Return(t)
          \/ /\ c.wait /\ event = None
             /\ Goto(t, c, "newEvent") /\ UNCHANGED <<waitVars, oldSize>>
          \/ /\ c.wait /\ event # None
             /\ exclusiveWaiters' = exclusiveWaiters + 1
             /\ Goto(t, c, "wait")
             /\ UNCHANGED <<sharedWaiters, semaphore, event, oldSize>>

(* The end of a shared acquire that has to wait.  It goes to sleep with    *)
(* the entry it has found, except the one that waits for exclusive waiters *)
(* (i = None).                                                             *)
SharedWait(t, c, i) ==
    \/ ~c.wait /\ Return(t)
    \/ /\ c.wait /\ semaphore = None
       /\ Goto(t, c, "newSemaphore") /\ UNCHANGED <<waitVars, oldSize>>
    \/ /\ c.wait /\ semaphore # None
       /\ sharedWaiters' = sharedWaiters + 1
       /\ IF i = None THEN UNCHANGED <<owner, count>>
          ELSE /\ owner' = [owner EXCEPT ![i] = t]
               /\ count' = [count EXCEPT ![i] = 1]
       /\ pc' = [pc EXCEPT ![t] = IF i = None THEN "waitNoEntry" ELSE "wait"]
       /\ call' = [call EXCEPT ![t] = c]
       /\ UNCHANGED <<active, exclusive, held, access, exclusiveWaiters,
                      semaphore, event, oldSize>>

(* The resource is owned exclusive by another user.                        *)
SharedBehindExclusive(t, c) ==
    /\ active # 0 /\ exclusive /\ owner[0] # t
    /\ \/ FreeEntries = {} /\ Expand(t, c, "expand")
       \/ FreeEntries # {} /\ SharedWait(t, c, Min(FreeEntries))

(* It is owned shared, and the call looks for an entry of its own.         *)
SharedAmongShared(t, c) ==
    /\ active # 0 /\ ~exclusive
    /\ \/ /\ Entries(t) # {}
          /\ LET i == Min(Entries(t)) IN Enter(t, i, count[i] + 1, "shared")
          /\ UNCHANGED <<active, exclusive>>
       \/ Entries(t) = {} /\ FreeEntries = {} /\ Expand(t, c, "expand")
       \/ /\ Entries(t) = {} /\ FreeEntries # {}
          /\ \/ /\ c.kind = "Shared" => exclusiveWaiters = 0
                /\ Enter(t, Min(FreeEntries), 1, "shared")
                /\ active' = active + 1
                /\ UNCHANGED exclusive
             \/ /\ c.kind = "Shared" /\ exclusiveWaiters # 0
                /\ SharedWait(t, c, Min(FreeEntries))

SharedFirst(t) ==
    /\ active = 0 /\ active' = 1
    /\ Enter(t, 1, 1, "shared")
    /\ UNCHANGED exclusive

(* ExAcquireResourceSharedLite and ExAcquireSharedStarveExclusive, which   *)
(* differ in what they do when shared owners have exclusive waiters.       *)
ExAcquireResourceSharedLite(t, c) ==
    \/ SharedFirst(t)
    \/ active # 0 /\ Recursive(t)
    \/ SharedBehindExclusive(t, c)
    \/ SharedAmongShared(t, c)

(* ExAcquireSharedWaitForExclusive lets exclusive waiters go first, even   *)
(* if the thread is one of the shared owners.                              *)
ExAcquireSharedWaitForExclusive(t, c) ==
    \/ SharedFirst(t)
    \/ active # 0 /\ Recursive(t)
    \/ SharedBehindExclusive(t, c)
    \/ exclusiveWaiters = 0 /\ SharedAmongShared(t, c)
    \/ /\ active # 0 /\ ~exclusive /\ exclusiveWaiters # 0
       /\ SharedWait(t, c, None)

(* What the callers keep to: a shared owner that waited for exclusive      *)
(* access would wait for itself.                                           *)
MayCall(t, c) ==
    /\ held[t] < MaxHeld
    /\ c.wait /\ access[t] = "shared" =>
          /\ c.kind # "Exclusive"
          /\ c.kind = "WaitForExclusive" => Reacquires

Acquire(t, c) ==
    /\ CASE c.kind = "Exclusive" -> ExAcquireResourceExclusiveLite(t, c)
         [] c.kind = "WaitForExclusive" -> ExAcquireSharedWaitForExclusive(t, c)
         [] OTHER -> ExAcquireResourceSharedLite(t, c)
    /\ UNCHANGED <<size, duty>>

Begin(t) == /\ pc[t] = "idle" /\ duty[t] = 0
            /\ \E c \in Calls : MayCall(t, c) /\ Acquire(t, c)

Retry(t) == pc[t] = "retry" /\ Acquire(t, call[t])

-----------------------------------------------------------------------------
(* ExpAllocateExclusiveWaiterEvent and ExpAllocateSharedWaiterSemaphore:   *)
(* the compare-exchange keeps the object of whoever was first.             *)
ExpAllocateExclusiveWaiterEvent(t) ==
    /\ pc[t] = "newEvent"
    /\ event' = IF event = None THEN 0 ELSE event
    /\ Goto(t, call[t], "retry")
    /\ UNCHANGED <<sharedWaiters, exclusiveWaiters, semaphore, size, oldSize, duty>>

ExpAllocateSharedWaiterSemaphore(t) ==
    /\ pc[t] = "newSemaphore"
    /\ semaphore' = IF semaphore = None THEN 0 ELSE semaphore
    /\ Goto(t, call[t], "retry")
    /\ UNCHANGED <<sharedWaiters, exclusiveWaiters, event, size, oldSize, duty>>

NewSize(t) == IF oldSize[t] = 0 THEN FirstSize ELSE oldSize[t] + Growth

(* Mutant: nobody looks whether another thread has expanded the table.     *)
InstallBlindly(t) == NewSize(t)

(* The new table is allocated, and takes the place of the one it was meant *)
(* to replace if that is still there.  The size tells one table from       *)
(* another, also at the same address.                                      *)
Install(t) == IF size = oldSize[t] THEN NewSize(t) ELSE size

ExpandReturns(t) ==
    /\ pc[t] \in {"expand", "expandAwake"}
    /\ oldSize' = [oldSize EXCEPT ![t] = 0]
    /\ Goto(t, call[t], IF pc[t] = "expand" THEN "retry" ELSE "awake")
    /\ UNCHANGED <<waitVars, duty>>

ExpExpandResourceOwnerTable(t) == ExpandReturns(t) /\ size' = Install(t)

(* The allocation fails: the caller waits a little and tries again.        *)
ExpandFails(t) == ExpandReturns(t) /\ UNCHANGED size

-----------------------------------------------------------------------------
ForExclusive(t) == call[t] # None /\ call[t].kind = "Exclusive"

(* Where a thread goes when its wait is satisfied.                         *)
Awake(t) == CASE ForExclusive(t) -> "own"
              [] ~ForExclusive(t) /\ pc[t] \in {"wait", "sleep"} -> "idle"
              [] OTHER -> "awake"

(* The shared waiters in W, which have an entry, own the resource.         *)
Admit(W) ==
    LET in == {t \in W : Awake(t) = "idle"}
    IN  /\ pc' = [t \in Threads |-> IF t \in W THEN Awake(t) ELSE pc[t]]
        /\ call' = [t \in Threads |-> IF t \in in THEN None ELSE call[t]]
        /\ held' = [u \in Users |-> IF u \in in THEN held[u] + 1 ELSE held[u]]
        /\ access' = [u \in Users |-> IF u \in in THEN "shared" ELSE access[u]]

(* ExpWaitForResource: the wait takes what is there, or sleeps.  When its  *)
(* time is over the thread boosts the owners and waits again.              *)
ExpWaitForResource(t) ==
    /\ pc[t] \in {"wait", "waitNoEntry"}
    /\ \/ /\ ForExclusive(t) /\ event = 1
          /\ event' = 0
          /\ Admit({t})
          /\ UNCHANGED semaphore
       \/ /\ ~ForExclusive(t) /\ semaphore > 0
          /\ semaphore' = semaphore - 1
          /\ Admit({t})
          /\ UNCHANGED event
       \/ /\ IF ForExclusive(t) THEN event = 0 ELSE semaphore = 0
          /\ pc' = [pc EXCEPT ![t] = IF @ = "wait" THEN "sleep" ELSE "sleepNoEntry"]
          /\ UNCHANGED <<semaphore, event, call, held, access>>
    /\ UNCHANGED <<tableVars, sharedWaiters, exclusiveWaiters, size, oldSize, duty>>

Timeout(t) ==
    /\ pc[t] \in {"sleep", "sleepNoEntry"}
    /\ pc' = [pc EXCEPT ![t] = IF @ = "sleep" THEN "wait" ELSE "waitNoEntry"]
    /\ UNCHANGED <<tableVars, waitVars, size, call, oldSize, duty, held, access>>

(* An exclusive waiter stores itself as the owner, without the lock.       *)
Own(t) ==
    /\ pc[t] = "own"
    /\ owner' = [owner EXCEPT ![0] = t]
    /\ held' = [held EXCEPT ![t] = @ + 1]
    /\ access' = [access EXCEPT ![t] = "exclusive"]
    /\ pc' = [pc EXCEPT ![t] = "idle"]
    /\ call' = [call EXCEPT ![t] = None]
    /\ UNCHANGED <<active, exclusive, count, waitVars, size, oldSize, duty>>

(* The end of ExAcquireSharedWaitForExclusive: the resource is owned, an   *)
(* entry for it is still to be found.                                      *)
TakeEntry(t) ==
    /\ pc[t] = "awake"
    /\ \/ /\ Entries(t) \cup FreeEntries = {}
          /\ Expand(t, call[t], "expandAwake")
       \/ /\ Entries(t) \cup FreeEntries # {}
          /\ LET i == Min(IF Entries(t) # {} THEN Entries(t) ELSE FreeEntries)
             IN  /\ owner' = [owner EXCEPT ![i] = t]
                 /\ count' = [count EXCEPT ![i] = 1]
          /\ held' = [held EXCEPT ![t] = @ + 1]
          /\ access' = [access EXCEPT ![t] = "shared"]
          /\ pc' = [pc EXCEPT ![t] = "idle"]
          /\ call' = [call EXCEPT ![t] = None]
          /\ UNCHANGED <<active, exclusive, waitVars, oldSize>>
    /\ UNCHANGED <<size, duty>>

-----------------------------------------------------------------------------
(* What a release leaves to be done after the lock: -1 stands for          *)
(* KeSetEventBoostPriority, n > 0 for KeReleaseSemaphore by n.             *)
SetEvent == -1

(* Mutant: ResourceOwnedExclusive stays set.                               *)
GrantSharedFlagged(t) ==
    /\ active' = sharedWaiters
    /\ sharedWaiters' = 0
    /\ duty' = [duty EXCEPT ![t] = sharedWaiters]
    /\ UNCHANGED <<exclusive, exclusiveWaiters>>

(* Mutant: the resource is counted as owned once, by all of them.          *)
GrantSharedOnce(t) ==
    /\ exclusive' = FALSE /\ active' = 1
    /\ sharedWaiters' = 0
    /\ duty' = [duty EXCEPT ![t] = sharedWaiters]
    /\ UNCHANGED exclusiveWaiters

(* The last owner has gone: shared waiters are let in first after an       *)
(* exclusive owner, exclusive waiters after shared ones.                   *)
GrantShared(t) ==
    /\ exclusive' = FALSE /\ active' = sharedWaiters
    /\ sharedWaiters' = 0
    /\ duty' = [duty EXCEPT ![t] = sharedWaiters]
    /\ UNCHANGED exclusiveWaiters

GrantExclusive(t) ==
    /\ exclusive' = TRUE /\ active' = 1
    /\ exclusiveWaiters' = exclusiveWaiters - 1
    /\ duty' = [duty EXCEPT ![t] = SetEvent]
    /\ UNCHANGED sharedWaiters

(* Mutant: the number of exclusive waiters is not looked at.               *)
ReleaseLastUntested(t) ==
    \/ exclusive /\ sharedWaiters # 0 /\ GrantShared(t)
    \/ ~(exclusive /\ sharedWaiters # 0) /\ GrantExclusive(t)

ReleaseLast(t) ==
    \/ exclusive /\ sharedWaiters # 0 /\ GrantShared(t)
    \/ /\ exclusiveWaiters # 0 /\ ~(exclusive /\ sharedWaiters # 0)
       /\ GrantExclusive(t)
    \/ /\ exclusiveWaiters = 0 /\ ~(exclusive /\ sharedWaiters # 0)
       /\ exclusive' = FALSE /\ active' = 0
       /\ UNCHANGED <<sharedWaiters, exclusiveWaiters, duty>>

(* The entry a release decrements: OwnerThreads[1] is looked at before     *)
(* OwnerThreads[0], then the table.                                        *)
ReleaseEntry(u) ==
    IF exclusive THEN 0
    ELSE IF 1 \in Entries(u) THEN 1
    ELSE Min(Entries(u))

(* The entry i, cleared and, when its owner is to be woken, granted.       *)
Cleared(i) == [owner EXCEPT ![i] = None]

ReleaseEntryOf(t, u, i) ==
    \/ /\ count[i] > 1
       /\ count' = [count EXCEPT ![i] = @ - 1]
       /\ UNCHANGED <<owner, active, exclusive, sharedWaiters, exclusiveWaiters, duty>>
    \/ /\ count[i] = 1 /\ active > 1
       /\ owner' = Cleared(i) /\ count' = [count EXCEPT ![i] = 0]
       /\ active' = active - 1
       /\ UNCHANGED <<exclusive, sharedWaiters, exclusiveWaiters, duty>>
    \/ /\ count[i] = 1 /\ active = 1
       /\ ReleaseLast(t)
       /\ LET granted == duty'[t] = SetEvent
          IN  /\ owner' = IF granted THEN [Cleared(i) EXCEPT ![0] = Granted]
                          ELSE Cleared(i)
              /\ count' = IF granted THEN [count EXCEPT ![i] = 0, ![0] = 1]
                          ELSE [count EXCEPT ![i] = 0]

(* ExReleaseResourceLite of t for itself, ExReleaseResourceForThreadLite   *)
(* of the worker for a thread or an owner pointer: of what it has acquired.*)
Release(t, u) ==
    /\ duty[t] = 0 /\ held[u] > 0
    /\ exclusive \/ Entries(u) # {}
    /\ ReleaseEntryOf(t, u, ReleaseEntry(u))
    /\ held' = [held EXCEPT ![u] = @ - 1]
    /\ access' = [access EXCEPT ![u] = IF held[u] = 1 THEN "none" ELSE @]
    /\ UNCHANGED <<semaphore, event, size, pc, call, oldSize>>

ExReleaseResourceLite(t) == pc[t] = "idle" /\ Release(t, t)
ExReleaseResourceForThreadLite(u) == Release(Worker, u)

(* KeReleaseSemaphore wakes sleepers and leaves the rest to be taken.      *)
SharedSleepers == {t \in Threads : /\ pc[t] \in {"sleep", "sleepNoEntry"}
                                   /\ ~ForExclusive(t)}
ExclusiveSleepers == {t \in Threads : pc[t] = "sleep" /\ ForExclusive(t)}

KeReleaseSemaphore(t) ==
    /\ duty[t] > 0
    /\ \E W \in SUBSET SharedSleepers :
          /\ Cardinality(W) = Min({duty[t], Cardinality(SharedSleepers)})
          /\ semaphore' = semaphore + duty[t] - Cardinality(W)
          /\ Admit(W)
    /\ duty' = [duty EXCEPT ![t] = 0]
    /\ UNCHANGED <<tableVars, sharedWaiters, exclusiveWaiters, event, size, oldSize>>

(* KeSetEventBoostPriority stores the thread it wakes as the owner.        *)
KeSetEventBoostPriority(t) ==
    /\ duty[t] = SetEvent
    /\ \/ /\ ExclusiveSleepers = {}
          /\ event' = 1
          /\ UNCHANGED <<owner, pc, call, held, access>>
       \/ \E w \in ExclusiveSleepers :
             /\ owner' = [owner EXCEPT ![0] = w]
             /\ Admit({w})
             /\ UNCHANGED event
    /\ duty' = [duty EXCEPT ![t] = 0]
    /\ UNCHANGED <<active, exclusive, count, sharedWaiters, exclusiveWaiters,
                   semaphore, size, oldSize>>

-----------------------------------------------------------------------------
(* Mutant: shared waiters go on waiting.                                   *)
ConvertAlone(t) ==
    /\ pc[t] = "idle" /\ duty[t] = 0 /\ access[t] = "exclusive"
    /\ exclusive' = FALSE
    /\ access' = [access EXCEPT ![t] = "shared"]
    /\ UNCHANGED <<active, owner, count, waitVars, size, pc, call, oldSize,
                   duty, held>>

(* The exclusive owner becomes a shared one, and lets shared waiters in.   *)
ExConvertExclusiveToSharedLite(t) ==
    /\ pc[t] = "idle" /\ duty[t] = 0 /\ access[t] = "exclusive"
    /\ exclusive' = FALSE
    /\ active' = active + sharedWaiters
    /\ duty' = [duty EXCEPT ![t] = sharedWaiters]
    /\ sharedWaiters' = 0
    /\ access' = [access EXCEPT ![t] = "shared"]
    /\ UNCHANGED <<owner, count, exclusiveWaiters, size, semaphore, event, pc,
                   call, oldSize, held>>

(* ExSetResourceOwnerPointer gives what t has acquired to p, which may be  *)
(* an owner already.                                                       *)
ExSetResourceOwnerPointer(t, p) ==
    /\ pc[t] = "idle" /\ duty[t] = 0 /\ held[t] > 0
    /\ held[t] + held[p] <= MaxHeld
    /\ LET i == IF exclusive THEN 0 ELSE Min(Entries(t))
       IN  \/ /\ exclusive \/ Entries(p) = {}
              /\ owner' = [owner EXCEPT ![i] = p]
              /\ UNCHANGED <<count, active>>
           \/ /\ ~exclusive /\ Entries(p) # {}
              /\ owner' = [owner EXCEPT ![i] = None]
              /\ count' = [count EXCEPT ![i] = 0,
                                        ![Min(Entries(p))] = @ + count[i]]
              /\ active' = active - 1
    /\ held' = [held EXCEPT ![p] = @ + held[t], ![t] = 0]
    /\ access' = [access EXCEPT ![p] = access[t], ![t] = "none"]
    /\ UNCHANGED <<exclusive, waitVars, size, pc, call, oldSize, duty>>

-----------------------------------------------------------------------------
(* What a thread inside a call does by itself.                             *)
Continue(t) ==
    \/ Retry(t) \/ Own(t) \/ TakeEntry(t) \/ ExpWaitForResource(t)
    \/ ExpAllocateExclusiveWaiterEvent(t) \/ ExpAllocateSharedWaiterSemaphore(t)
    \/ ExpExpandResourceOwnerTable(t)

Signal(t) == KeReleaseSemaphore(t) \/ KeSetEventBoostPriority(t)

Step ==
    \/ \E t \in Threads : \/ Begin(t) \/ Continue(t) \/ Timeout(t)
                          \/ ExReleaseResourceLite(t)
                          \/ ExConvertExclusiveToSharedLite(t)
                          \/ \E p \in Pointers : ExSetResourceOwnerPointer(t, p)
    \/ \E t \in Releasers : Signal(t)
    \/ \E u \in Users : ExReleaseResourceForThreadLite(u)

Next == Step \/ \E t \in Threads : ExpandFails(t)

Spec == Init /\ [][Next]_vars

-----------------------------------------------------------------------------
PCs == {"idle", "retry", "newEvent", "newSemaphore", "expand", "expandAwake",
        "wait", "waitNoEntry", "sleep", "sleepNoEntry", "own", "awake"}

(* The types.                                                              *)
TypeOK ==
    /\ active \in Nat /\ exclusive \in BOOLEAN
    /\ sharedWaiters \in Nat /\ exclusiveWaiters \in Nat
    /\ owner \in [Slots -> Users \cup {None, Granted}]
    /\ count \in [Slots -> Nat]
    /\ size \in 0 .. MaxSize
    /\ semaphore \in Nat \cup {None} /\ event \in {0, 1, None}
    /\ pc \in [Threads -> PCs]
    /\ call \in [Threads -> Calls \cup {None}]
    /\ oldSize \in [Threads -> 0 .. MaxSize]
    /\ duty \in [Releasers -> Nat \cup {SetEvent}]
    /\ held \in [Users -> 0 .. MaxHeld]
    /\ access \in [Users -> {"none", "shared", "exclusive"}]

Owners == {u \in Users : held[u] > 0}

Value(x) == IF x = None THEN 0 ELSE x
Waiting == {t \in Threads : pc[t] \in {"wait", "waitNoEntry", "sleep", "sleepNoEntry"}}
WaitingExclusive == {t \in Waiting : ForExclusive(t)}
Awakened == {t \in Threads : pc[t] \in {"own", "awake", "expandAwake"}}

(* Wake-ups that are on their way or not taken yet.                        *)
SharedPermits == Value(semaphore)
    + Cardinality(UNION {{t} \X (1 .. duty[t]) : t \in Releasers})
ExclusivePermits == Value(event)
    + Cardinality({t \in Releasers : duty[t] = SetEvent})

(* A wake-up belongs to nobody in particular, and may be taken by a thread *)
(* that came later.  Nevertheless ActiveCount is the number of the owners  *)
(* and of those on their way in, and the two numbers of waiters are right: *)
(* no wake-up is lost, left over or given twice.                           *)
GrantsExact ==
    /\ active = Cardinality(Owners) + Cardinality(Awakened)
                 + SharedPermits + ExclusivePermits
    /\ Cardinality(Waiting \ WaitingExclusive) = sharedWaiters + SharedPermits
    /\ Cardinality(WaitingExclusive) = exclusiveWaiters + ExclusivePermits

(* An exclusive owner is the only owner, and nobody is on the way in or    *)
(* about to signal: when it knows of no other user it may delete the       *)
(* resource with its semaphore and its event.                              *)
ExclusiveAlone ==
    \A u \in Users : access[u] = "exclusive" =>
        /\ exclusive /\ owner[0] = u /\ Owners = {u} /\ Awakened = {}
        /\ SharedPermits = 0 /\ ExclusivePermits = 0

(* Each owner has one entry, with the number of its acquisitions, each     *)
(* shared waiter that has chosen an entry still has it, and nobody else    *)
(* has any, whoever replaces the table meanwhile.  So a release finds its  *)
(* entry (no RESOURCE_NOT_OWNED) and is the last one when it should be.    *)
Expected(u) ==
    IF u \in Waiting \ WaitingExclusive /\ pc[u] \in {"wait", "sleep"} THEN 1
    ELSE held[u]

EntriesExact ==
    /\ \A u \in Users : (u \in Threads => pc[u] # "own") =>
          /\ Cardinality(Entries(u)) = IF Expected(u) = 0 THEN 0 ELSE 1
          /\ \A i \in Entries(u) : count[i] = Expected(u)
    /\ \A i \in Slots \ InTable : owner[i] = None
    /\ active = 0 => \A i \in Slots : owner[i] = None

(* A waiter that is still counted has somebody whose release will let it   *)
(* in: nobody waits for a free resource, and shared waiters wait for       *)
(* shared owners only behind an exclusive waiter.                          *)
NoneStranded ==
    /\ sharedWaiters + exclusiveWaiters > 0 => active > 0
    /\ sharedWaiters > 0 /\ ~exclusive => exclusiveWaiters > 0

(* ASSERT(OwnerEntry->OwnerThread != CurrentThread) at the end of          *)
(* ExAcquireSharedWaitForExclusive: a thread that was a shared owner when  *)
(* it went to sleep is none when it is let in.                             *)
AwakeOwnsNothing == \A t \in Threads : pc[t] = "awake" => Entries(t) = {}

(* The other assertions: an exclusive resource has an owner recorded, and  *)
(* who is let in behind an exclusive waiter finds the resource shared.     *)
ResourceAsserts ==
    /\ exclusive => owner[0] # None
    /\ \A t \in Threads : pc[t] = "awake" => ~exclusive /\ active > 0
    /\ AwakeOwnsNothing

(* A thread in a call is to return from it.                                *)
Due(t) == pc[t] # "idle"
Returned(t) == pc[t] = "idle"
=============================================================================
