---------------------------- MODULE MCExecutive ----------------------------
(* Three facilities of the executive that stand alone, for TLC: a          *)
(* behaviour is one of a push lock, of a fast reference or of a resource.  *)
(* Threads and objects are interchangeable.                                *)
EXTENDS PushLock, TLC

CONSTANTS Objects,            \* of a fast reference
          Pointer, Worker     \* of a resource

VARIABLES facility,
          fast, count, inUse, at, ref, oldRef,            \* FastRef
          active, exclusive, sharedWaiters, exclusiveWaiters, owner, ownerCount,
          size, semaphore, event, where, call, oldSize, duty, has, access
                                                          \* Resource

F == INSTANCE FastRef WITH MaxFastRefs <- 2, pc <- at, old <- oldRef

(* Bound: tables that grow by one entry, the first of which has no room    *)
(* but for its own size, so that three owners make it grow three times.    *)
R == INSTANCE Resource WITH
        Pointers <- {Pointer}, None <- Null, FirstSize <- 1, Growth <- 1,
        MaxSize <- 3, MaxHeld <- 2, Reacquires <- FALSE,
        count <- ownerCount, pc <- where, held <- has

refVars == <<fast, count, inUse, at, ref, oldRef>>
resourceVars == <<active, exclusive, sharedWaiters, exclusiveWaiters, owner,
                  ownerCount, size, semaphore, event, where, call, oldSize,
                  duty, has, access>>

NoRefs == /\ fast = Null /\ count = Null /\ inUse = Null /\ at = Null
          /\ ref = Null /\ oldRef = Null
NoResource ==
    /\ active = Null /\ exclusive = Null /\ sharedWaiters = Null
    /\ exclusiveWaiters = Null /\ owner = Null /\ ownerCount = Null
    /\ size = Null /\ semaphore = Null /\ event = Null /\ where = Null
    /\ call = Null /\ oldSize = Null /\ duty = Null /\ has = Null
    /\ access = Null

(* Bound: one thread acquires a push lock twice, the others once.          *)
Acquires(t) == acquires = [u \in Threads |-> IF u = t THEN MaxAcquires ELSE 1]

MCInit ==
    /\ Init
    /\ \/ facility = "pushLock" /\ (\E t \in Threads : Acquires(t)) /\ NoRefs /\ NoResource
       \/ facility = "fastRef" /\ Finished /\ F!Init /\ NoResource
       \/ facility = "resource" /\ Finished /\ R!Init /\ NoRefs

(* Bound: while a pointer owns a resource two of the threads use it.       *)
TwoBesidePointer ==
    has'[Pointer] > 0 =>
        \E t \in Threads : where'[t] = "idle" /\ has'[t] = 0 /\ duty'[t] = 0

MCNext ==
    \/ facility = "pushLock" /\ Next /\ UNCHANGED <<refVars, resourceVars, facility>>
    \/ facility = "fastRef" /\ F!Next /\ UNCHANGED <<vars, resourceVars, facility>>
    \/ facility = "resource" /\ R!Next /\ TwoBesidePointer /\ UNCHANGED <<vars, refVars, facility>>

MCSpec == MCInit /\ [][MCNext]_<<vars, refVars, resourceVars, facility>>

(* The types.                                                              *)
Types == /\ TypeOK
         /\ facility = "fastRef" => F!TypeOK
         /\ facility = "resource" => R!TypeOK

(* No reference is lost, returned twice or invented by the races of fast   *)
(* references, refills, replacements and releases.                         *)
RefsExact == facility = "fastRef" => F!RefsExact

(* Nobody uses an object that was deleted, and the token that is replaced  *)
(* was in use (ASSERT (OldToken->TokenInUse)).                             *)
RefsLive == facility = "fastRef" => F!RefsLive /\ F!InUseAsserts

(* ActiveCount and the numbers of waiters of a resource are right, no      *)
(* wake-up is lost, left over or given twice, and a waiter has an owner    *)
(* whose release will let it in.                                           *)
GrantsExact == facility = "resource" => R!GrantsExact /\ R!NoneStranded

(* An exclusive owner of a resource is alone with it, and the assertions   *)
(* of resource.c hold.                                                     *)
ExclusiveAlone == facility = "resource" => R!ExclusiveAlone /\ R!ResourceAsserts

(* Each owner has one entry, with the number of its acquisitions, and the  *)
(* expansion of the table loses none.                                      *)
EntriesExact == facility = "resource" => R!EntriesExact

Symmetry == Permutations(Threads) \cup Permutations(Objects)
=============================================================================
