------------------------------ MODULE MCWaits ------------------------------
(***************************************************************************)
(* The waits of the executive for TLC: LPC requests, LPC connections and   *)
(* keyed events, which use the same fields of a thread (ETHREAD unions     *)
(* LpcReplySemaphore with KeyedWaitSemaphore and LpcReplyChain with        *)
(* KeyedWaitChain), push locks, whose waiters sleep on wait blocks of      *)
(* their own, and resources, which have a semaphore and an event.  A       *)
(* thread uses one facility at a time: a behaviour is one of one of them,  *)
(* which finds the semaphore at 0 and the thread on no list, and has to    *)
(* leave it so.                                                            *)
(***************************************************************************)
EXTENDS Naturals, Sequences, FiniteSets

CONSTANTS c1, c2, s1,           \* threads
          k1, k2, p1, p2,       \* keys and processes
          None,                 \* NULL
          Worker                \* releases a resource for others

VARIABLES facility,             \* what the threads wait for
          watched,              \* the one whose return WaitsReturn asks for
          pc, sem, queue, target, chain, reply, replyId, queueSem, connected,
          attached,
          life, nextId, zone, known, port, call, asked,               \* LPC
          orderly, conn, walked, freed, replied, carries, clientPort,
          serverPort, pending, received, job,                         \* LPCConnect
          process, value,                                             \* KeyedEvent
          word, block, mode, old, top, wb,                            \* PushLock
          held, acquires,
          active, exclusive, sharedWaiters, exclusiveWaiters, owner, count,
          size, semaphore, event, oldSize, duty, access               \* Resource

portVars == <<chain, reply, replyId, queueSem, connected, attached>>
requestVars == <<life, nextId, zone, known, port, asked>>
connectVars == <<orderly, conn, walked, freed, replied, carries, clientPort,
                 serverPort, pending, received, job>>
keyedVars == <<process, value>>
lockVars == <<word, block, mode, old, top, wb>>
ownVars == <<held, acquires>>
resourceVars == <<active, exclusive, sharedWaiters, exclusiveWaiters, owner, count,
                  size, semaphore, event, oldSize, duty, access>>
vars == <<facility, watched, pc, sem, queue, target, call, portVars, requestVars, connectVars,
          keyedVars, lockVars, ownVars, resourceVars>>

-----------------------------------------------------------------------------
L == INSTANCE LPC WITH Clients <- {c1}, Servers <- {s1}, Conns <- {1},
                       MaxId <- 2

C == INSTANCE LPCConnect WITH Clients <- {c1, c2}, Servers <- {s1}

K == INSTANCE KeyedEvent WITH Threads <- {c1, c2, s1}, Keys <- {k1, k2},
                              Processes <- {p1, p2}

AllAcquires == {"Exclusive", "Shared", "TryExclusive", "TryShared",
                "AcquireRelease"}
AllReleases == {"Inline", "Exf", "Generic", "ConvertToShared",
                "TryConvertToExclusive"}

P == INSTANCE PushLock WITH Threads <- {c1, c2, s1}, Null <- None,
                            AcquireCalls <- AllAcquires,
                            ReleaseCalls <- AllReleases, MaxAcquires <- 1

(* Bound: a table of 3 entries is enough for three threads.                *)
R == INSTANCE Resource WITH Threads <- {c1, c2, s1}, Pointers <- {},
                            FirstSize <- 3, Growth <- 4, MaxSize <- 3,
                            MaxHeld <- 1, Reacquires <- FALSE

(* A step of a facility; the variables of the others keep their value.     *)
Request(A) == /\ facility = "request" /\ A
              /\ UNCHANGED <<facility, watched, connectVars, keyedVars, lockVars, ownVars,
                             resourceVars>>
Connect(A) == /\ facility = "connect" /\ A
              /\ UNCHANGED <<facility, watched, target, call, requestVars, keyedVars,
                             lockVars, ownVars, resourceVars>>
Keyed(A) == /\ facility = "keyed" /\ A
            /\ UNCHANGED <<facility, watched, call, portVars, requestVars, connectVars,
                           lockVars, ownVars, resourceVars>>
Lock(A) == /\ facility = "lock" /\ A
           /\ UNCHANGED <<facility, watched, sem, queue, target, call, portVars, requestVars,
                          connectVars, keyedVars, resourceVars>>
Resource(A) == /\ facility = "resource" /\ A
               /\ UNCHANGED <<facility, watched, sem, queue, target, portVars, requestVars,
                              connectVars, keyedVars, lockVars>>

NoRequests ==
    /\ life = None /\ nextId = None /\ zone = None /\ known = None
    /\ port = None /\ asked = None
NoConnections ==
    /\ orderly = None /\ conn = None /\ walked = None /\ freed = None
    /\ replied = None /\ carries = None /\ clientPort = None
    /\ serverPort = None /\ pending = None /\ received = None /\ job = None
NoPorts ==
    /\ chain = None /\ reply = None /\ replyId = None /\ queueSem = None
    /\ connected = None /\ attached = None
NoKeyed == process = None /\ value = None
NoLocks ==
    /\ word = None /\ block = None /\ mode = None
    /\ old = None /\ top = None /\ wb = None
NoOwners == held = None /\ acquires = None
NoResource ==
    /\ active = None /\ exclusive = None /\ sharedWaiters = None
    /\ exclusiveWaiters = None /\ owner = None /\ count = None /\ size = None
    /\ semaphore = None /\ event = None /\ oldSize = None /\ duty = None
    /\ access = None

(* Two clients connect to an orderly server, one to any.  The users of a   *)
(* keyed event, of a lock and of a resource are interchangeable, so that   *)
(* it is enough to watch one of them, and so are the processes.            *)
Init ==
    \/ /\ facility = "request" /\ L!Init /\ watched \in {c1, s1}
       /\ NoConnections /\ NoKeyed /\ NoLocks /\ NoOwners /\ NoResource
    \/ /\ facility = "connect" /\ C!Init
       /\ watched \in IF orderly THEN {c1, c2} ELSE {c1}
       /\ pc = [t \in {c1, c2, s1} |->
                   IF t = c2 /\ ~orderly THEN "gone" ELSE "idle"]
       /\ target = None /\ call = None
       /\ NoRequests /\ NoKeyed /\ NoLocks /\ NoOwners /\ NoResource
    \/ /\ facility = "keyed" /\ K!Init /\ process[c1] = p1 /\ watched = c1 /\ call = None
       /\ NoPorts /\ NoRequests /\ NoConnections /\ NoLocks /\ NoOwners /\ NoResource
    \/ /\ facility = "lock" /\ P!Init /\ watched = c1
       /\ acquires = [t \in {c1, c2, s1} |-> 1]
       /\ sem = None /\ queue = None /\ target = None /\ call = None
       /\ NoPorts /\ NoRequests /\ NoConnections /\ NoKeyed /\ NoResource
    \/ /\ facility = "resource" /\ R!Init /\ watched = c1
       /\ acquires = [t \in {c1, c2, s1} |-> 1]
       /\ sem = None /\ queue = None /\ target = None
       /\ NoPorts /\ NoRequests /\ NoConnections /\ NoKeyed /\ NoLocks

(* Bound: the acquires of a resource by a thread are counted, as those of  *)
(* a push lock are.  Whoever comes again and again to share it may keep    *)
(* exclusive waiters out for ever (ExAcquireSharedStarveExclusive).        *)
Counted ==
    /\ acquires' = [t \in {c1, c2, s1} |->
                      IF pc[t] = "idle" /\ (pc'[t] # "idle" \/ held'[t] > held[t])
                      THEN acquires[t] - 1 ELSE acquires[t]]
    /\ \A t \in {c1, c2, s1} : acquires'[t] >= 0

(* Of the two users of a lock or a resource that are not watched, c2 comes *)
(* first.                                                                  *)
InOrder == acquires'[s1] = 0 => acquires'[c2] = 0

(* Bound: of two clients only one gives up its connection.                 *)
KeepsPorts == clientPort'[c2] # "gone" /\ serverPort'[c2] # "closed"

Next == \/ Request(L!Next) \/ Keyed(K!Next)
        \/ Connect(C!Next /\ KeepsPorts)
        \/ Lock(P!Next /\ InOrder)
        \/ Resource(R!Step /\ Counted /\ InOrder)

(* What a thread does by itself inside a call; the owner of a push lock or *)
(* of a resource also releases it.  Nobody is made to call, to answer or   *)
(* to close.  Allocations for a resource succeed (Step is Next without     *)
(* ExpandFails): the code tries again for as long as they do not.          *)
Proceed(t) ==
    \/ t # c2 /\ Request(L!Proceed(t))
    \/ t # s1 /\ Connect(C!ClientProceeds(t))
    \/ t = s1 /\ Connect(C!ServerProceeds(t))
    \/ Keyed(K!Proceed(t))
    \/ Lock(P!Continue(t) \/ P!OwnerCall(t))
    \/ Resource(/\ R!Continue(t) \/ R!Signal(t) \/ R!ExReleaseResourceLite(t)
                /\ Counted)

(* A port whose closing has begun goes on to be closed, and a worker that  *)
(* released a resource signals those it let in.                            *)
Close == \/ Request(L!Delete) \/ Connect(C!Close)
         \/ Resource(R!Signal(Worker) /\ Counted)

FairSpec == /\ Init /\ [][Next]_vars
            /\ WF_vars(Close)
            /\ \A t \in {c1, c2, s1} : WF_vars(Proceed(t))

-----------------------------------------------------------------------------
Due == \/ facility = "request" /\ L!Due(watched)
       \/ facility = "connect" /\ C!Due(watched)
       \/ facility = "keyed" /\ K!Due(watched)
       \/ facility = "lock" /\ P!Due(watched)
       \/ facility = "resource" /\ R!Due(watched)

Returned == \/ facility = "request" /\ L!Returned(watched)
            \/ facility = "connect" /\ C!Returned(watched)
            \/ facility = "keyed" /\ K!Returned(watched)
            \/ facility = "lock" /\ P!Returned(watched)
            \/ facility = "resource" /\ R!Returned(watched)

(* A wait that was answered, matched, refused or disconnected, that gave   *)
(* up, or that is for a lock or a resource whose owners release it,        *)
(* returns.                                                                *)
WaitsReturn == Due ~> Returned

(* The types; LpcReplySemaphore and KeyedWaitSemaphore, which are one      *)
(* field, stay within their limit.                                         *)
TypeOK == /\ facility = "request" => L!TypeOK
          /\ facility = "connect" => C!TypeOK
          /\ facility = "keyed" => K!TypeOK

(* A thread waiting in NtRequestWaitReplyPort or NtReplyWaitReplyPort that *)
(* is off its chain, and one in a keyed event call that is off its queue,  *)
(* has one wake-up, and nobody else has any; NtAcceptConnectPort,          *)
(* NtCompleteConnectPort and the closing of the connection port wake a     *)
(* client once.                                                            *)
WakeupOwed == /\ facility = "request" => L!WakeupOwed
              /\ facility = "connect" => C!WokenOnce
              /\ facility = "keyed" => K!WakeupOwed

(* The message a reply or a callback attaches to a thread is the one that  *)
(* thread asked for.                                                       *)
ReplyMatches == facility = "request" => L!ReplyMatches

(* A thread on an LpcReplyChain is there once, on the chain that the       *)
(* deletion of the other port walks, and each message in the queue of the  *)
(* connection port has a count of its semaphore.                           *)
ChainSound == facility = "request" => L!ChainSound /\ L!QueueCovered

(* No LPC message is lost and none is freed twice.  A client that returned *)
(* from NtConnectPort is on no chain and has no message and no wake-up.    *)
MessagesAccounted == /\ facility = "request" => L!MessagesAccounted
                     /\ facility = "connect" => C!FreedOnce /\ C!NothingLeft

(* ConnectedPort and ConnectionPort do not outlive what they point to, and *)
(* NtAcceptConnectPort connects both ports or none, while both exist.      *)
NoDangling == /\ facility = "request" => L!NoDangling
              /\ facility = "connect" => C!Linked

(* NtWaitForKeyedEvent and NtReleaseKeyedEvent do not miss each other.     *)
NoneMissed == facility = "keyed" => K!NoneMissed
=============================================================================
